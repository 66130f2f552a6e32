----------------------------- MODULE Monitoring -----------------------------
(***************************************************************************)
(* What of one series is monitored, and to whom that is attributed.  The   *)
(* item, its seasons and single episodes each have a setting; users change *)
(* them, requests add to them, and the catalogue of episodes grows beneath *)
(* them.  Every operation is one transaction: what can go wrong is the     *)
(* reckoning of the scopes a user turned on, over every sequence of them.  *)
(***************************************************************************)
EXTENDS Naturals, FiniteSets

CONSTANTS
  MoSeasons,      \* season numbers, 1..n
  MoEpisodes      \* episodes: <<season, number>>

ASSUME MonitoringAssumption ==
  /\ IsFiniteSet(MoSeasons) /\ MoSeasons = 1..Cardinality(MoSeasons)
  /\ MoEpisodes \subseteq MoSeasons \X Nat

VARIABLES
  moState,        \* MonitoringState, with here: the item exists
  moLast          \* the last operation and the scopes it recorded

moVars == <<moState, moLast>>

Settings(keys) == UNION {[s -> BOOLEAN] : s \in SUBSET keys}
Overlay(new, old) ==
  [k \in DOMAIN new \cup DOMAIN old |-> IF k \in DOMAIN new THEN new[k] ELSE old[k]]
Without(f, keys) == [k \in DOMAIN f \ keys |-> f[k]]
InSeasons(seasons) == {k \in MoEpisodes : k[1] \in seasons}
NoSettings == [k \in {} |-> FALSE]

NoMonitoring == [here |-> FALSE, mon |-> FALSE, new |-> TRUE, seasons |-> NoSettings,
                 overrides |-> NoSettings, count |-> 0]

MoTypeOK ==
  /\ moState.here \in BOOLEAN /\ moState.mon \in BOOLEAN /\ moState.new \in BOOLEAN
  /\ moState.seasons \in Settings(MoSeasons) /\ moState.overrides \in Settings(MoEpisodes)
  /\ moState.count \in {0} \cup MoSeasons
  /\ moLast.op \in {"none", "add", "request", "update", "system"}

MoInit ==
  /\ \E h \in BOOLEAN, n \in MoSeasons : moState = [NoMonitoring EXCEPT !.here = h, !.count = n]
  /\ moLast = [op |-> "none", scopes |-> {}]

-----------------------------------------------------------------------------
(* MonitoringState                                                         *)

Catalog(s) == InSeasons(1..s.count)
SeasonMonitored(s, n) == s.mon /\ n \in DOMAIN s.seasons /\ s.seasons[n]
EpisodeMonitored(s, k) ==
  s.mon /\ IF k \in DOMAIN s.overrides THEN s.overrides[k]
           ELSE k[1] \in DOMAIN s.seasons /\ s.seasons[k[1]]
SomeScopes(scopes) == IF scopes = {} THEN {} ELSE scopes \cup {<<"media", 0, 0>>}
SeasonScopes(seasons) == {<<"season", n, 0>> : n \in seasons}
EpisodeScopes(keys) == {<<"episode", k[1], k[2]>> : k \in keys}
WholeSeries == {<<"whole_series", 0, 0>>}
FutureSeasons(on) == IF on THEN {<<"future_seasons", 0, 0>>} ELSE {}

Counted(before, after) == Catalog(after) \cup DOMAIN before.overrides \cup DOMAIN after.overrides
TurnedOn(before, after) ==
  {k \in MoEpisodes : ~EpisodeMonitored(before, k) /\ EpisodeMonitored(after, k)}

\* Mutant: a season counts as turned on whatever its episodes do.
SeasonsBySetting(before, after, turned) ==
  {n \in MoSeasons : ~SeasonMonitored(before, n) /\ SeasonMonitored(after, n)}

\* A season is turned on with all its episodes, or else only the episodes are.
SeasonTransitions(before, after, turned) ==
  {n \in MoSeasons : /\ ~SeasonMonitored(before, n) /\ SeasonMonitored(after, n)
                     /\ {k \in Counted(before, after) : k[1] = n} \subseteq turned}

NewlyEnabledRequestScopes(before, after, changedSeasons, changedEpisodes) ==
  LET turned == TurnedOn(before, after) \cap (Counted(before, after) \cup changedEpisodes)
      seasons == SeasonTransitions(before, after, turned)
      known == 1..after.count
      whole == /\ after.count > 0 /\ known \subseteq seasons
               /\ (~before.mon /\ after.mon) \/ known \subseteq changedSeasons
  IN SomeScopes(
       FutureSeasons(~(before.mon /\ before.new) /\ after.mon /\ after.new)
       \cup IF whole THEN WholeSeries
            ELSE SeasonScopes(seasons) \cup EpisodeScopes(turned \ InSeasons(seasons)))

-----------------------------------------------------------------------------
(* media.Service: a user's change of settings                              *)

\* Overrides of a season go when its setting is given.
UpsertSeasonMonitors(s, seasons) ==
  [s EXCEPT !.seasons = Overlay(seasons, @),
            !.overrides = Without(@, InSeasons(DOMAIN seasons))]
UpsertEpisodeMonitors(s, episodes) == [s EXCEPT !.overrides = Overlay(episodes, @)]

Updates(after, changedSeasons, changedEpisodes) ==
  /\ moState' = after
  /\ moLast' = [op |-> "update", scopes |->
       NewlyEnabledRequestScopes(moState, after, changedSeasons, changedEpisodes)]

\* mon and new are sets of one value, or empty when the field is not given.
UpdateMediaItem(mon, new, seasons, episodes) ==
  LET given(v, old) == IF v = {} THEN old ELSE CHOOSE b \in v : TRUE
      item == [moState EXCEPT !.mon = given(mon, @), !.new = given(new, @),
                 !.overrides = IF mon = {FALSE} THEN NoSettings ELSE @]
  IN /\ moState.here
     /\ Updates(UpsertEpisodeMonitors(UpsertSeasonMonitors(item, seasons), episodes),
                DOMAIN seasons, DOMAIN episodes)

UpdateSeasonMonitor(n, on) ==
  /\ moState.here
  /\ Updates(UpsertSeasonMonitors(moState, [m \in {n} |-> on]), {n}, {})

UpdateEpisodeMonitor(k, on) ==
  /\ moState.here
  /\ Updates(UpsertEpisodeMonitors(moState, [e \in {k} |-> on]), {}, {k})

-----------------------------------------------------------------------------
(* matching.Service: requests                                              *)

\* A request that monitors the series is [new, seasons, episodes].  With no season given,
\* or nothing excluded and the future included, the known seasons are filled in.
NormalizeSeriesRequest(req) ==
  LET all == \A n \in DOMAIN req.seasons : req.seasons[n]
      none == \E k \in DOMAIN req.episodes : ~req.episodes[k]
      fill == DOMAIN req.seasons = {} \/ (req.new /\ all /\ ~none)
  IN IF fill THEN [req EXCEPT !.seasons = Overlay(@, [n \in 1..moState.count |-> TRUE])]
     ELSE req

\* Mutant: an episode that is left out does not keep its season from being requested.
BuildLooseScopes(req) ==
  LET default(n) == n \in DOMAIN req.seasons /\ req.seasons[n]
      wanted == {k \in DOMAIN req.episodes : req.episodes[k]}
  IN {<<"media", 0, 0>>} \cup FutureSeasons(req.new)
     \cup SeasonScopes({n \in DOMAIN req.seasons : default(n)}) \cup EpisodeScopes(wanted)

BuildRequestScopes(req) ==
  LET default(n) == n \in DOMAIN req.seasons /\ req.seasons[n]
      monitored(k) == IF k \in DOMAIN req.episodes THEN req.episodes[k] ELSE default(k[1])
      excluded == {k \in DOMAIN req.episodes : ~req.episodes[k]}
      known == Catalog(moState)
      whole == /\ \A n \in DOMAIN req.seasons : req.seasons[n]
               /\ \A n \in 1..moState.count : default(n)
               /\ \A k \in known : monitored(k)
               /\ excluded = {}
      seasons == {n \in DOMAIN req.seasons : default(n) /\ excluded \cap InSeasons({n}) = {}}
      episodes == {k \in known : k[1] \in DOMAIN req.seasons \ seasons /\ monitored(k)}
  IN {<<"media", 0, 0>>} \cup FutureSeasons(req.new)
     \cup IF DOMAIN req.seasons = {} THEN {}
          ELSE IF whole THEN WholeSeries
          ELSE SeasonScopes(seasons)
               \cup EpisodeScopes(episodes \cup (DOMAIN req.episodes \ excluded))

HasRequestedContent(scopes) == scopes # {<<"media", 0, 0>>}

Requested(op, scopes, state) ==
  /\ HasRequestedContent(scopes)
  /\ moState' = state
  /\ moLast' = [op |-> op, scopes |-> scopes]

\* A new item takes the settings of the request ...
MoAdd(req) ==
  LET full == NormalizeSeriesRequest(req) IN
  /\ ~moState.here
  /\ Requested("add", BuildRequestScopes(full),
               [moState EXCEPT !.here = TRUE, !.mon = TRUE, !.new = full.new,
                               !.seasons = full.seasons, !.overrides = full.episodes])

\* ... and to an item that is there already a request only adds: applyExistingRequest.
MoRequest(req) ==
  LET full == NormalizeSeriesRequest(req)
      scopes == BuildRequestScopes(full)
      on == (IF WholeSeries \subseteq scopes THEN DOMAIN full.seasons ELSE {})
            \cup {n \in MoSeasons : <<"season", n, 0>> \in scopes}
      single == {k \in MoEpisodes : <<"episode", k[1], k[2]>> \in scopes}
      seasons == UpsertSeasonMonitors([moState EXCEPT !.mon = TRUE, !.new = @ \/ full.new],
                                      [n \in on |-> TRUE])
  IN /\ moState.here
     /\ Requested("request", scopes, UpsertEpisodeMonitors(seasons, [k \in single |-> TRUE]))

-----------------------------------------------------------------------------
(* The catalogue                                                           *)

Systemically(s) == moState' = s /\ moLast' = [op |-> "system", scopes |-> {}]

\* applyFutureSeasonPolicy
MoRefresh(n) ==
  LET new == moState.count + 1..n IN
  /\ moState.here /\ 0 < moState.count /\ moState.count < n
  /\ Systemically([moState EXCEPT !.count = n, !.seasons =
       IF moState.mon /\ moState.new THEN Overlay([m \in new |-> TRUE], @) ELSE @])

\* Unmatch forgets the episodes and their overrides; a match brings episodes back.
MoUnmatch ==
  /\ moState.here /\ moState.count > 0
  /\ Systemically([moState EXCEPT !.count = 0, !.overrides = NoSettings])

MoMatch(n) ==
  /\ moState.here /\ moState.count = 0
  /\ Systemically([moState EXCEPT !.count = n])

-----------------------------------------------------------------------------
MoRequestsOf(seasons, episodes) == [new : BOOLEAN, seasons : seasons, episodes : episodes]
\* Given together: settings of two kinds at most, one of the item's own, seasons', one episode's.
FewEpisodes == {e \in Settings(MoEpisodes) : Cardinality(DOMAIN e) <= 1}
Given == {g \in {{}, {FALSE}, {TRUE}} \X {{}, {FALSE}, {TRUE}} : {} \in {g[1], g[2]}}

MoNext ==
  \/ \E g \in Given, seasons \in Settings(MoSeasons), e \in FewEpisodes :
       /\ g = <<{}, {}>> \/ seasons = NoSettings \/ e = NoSettings
       /\ UpdateMediaItem(g[1], g[2], seasons, e)
  \/ \E n \in MoSeasons, on \in BOOLEAN : UpdateSeasonMonitor(n, on)
  \/ \E k \in MoEpisodes, on \in BOOLEAN : UpdateEpisodeMonitor(k, on)
  \/ \E req \in MoRequestsOf(Settings(MoSeasons), FewEpisodes) :
       MoAdd(req) \/ MoRequest(req)
  \/ \E n \in MoSeasons : MoRefresh(n) \/ MoMatch(n)
  \/ MoUnmatch

\* The episodes a scope names, of those that were looked at.
Named(scopes, s) ==
  {k \in MoEpisodes : \/ WholeSeries \subseteq scopes /\ k \in Catalog(s)
                      \/ <<"season", k[1], 0>> \in scopes
                      \/ <<"episode", k[1], k[2]>> \in scopes}

\* "attribute only monitoring scopes that changed from disabled to enabled during one user
\* action" (sync/request_attribution.go:17), and all of them: the scopes recorded with a
\* change of settings name the episodes that came to be monitored, and no other.
AttributedAsTurnedOn ==
  moLast'.op = "update" =>
       LET seen == Counted(moState, moState')
           turned == TurnedOn(moState, moState') \cap seen
           named == Named(moLast'.scopes, moState') \cap seen
       IN /\ named \subseteq turned
          /\ turned \subseteq named \/ WholeSeries \subseteq moLast'.scopes

\* What a request was recorded for is monitored when it returns, and nothing that was
\* monitored before ceases to be (matching/requests.go:298).
RequestKept ==
  moLast'.op \in {"add", "request"} =>
       /\ \A k \in Named(moLast'.scopes, moState') : EpisodeMonitored(moState', k)
       /\ \A k \in MoEpisodes : EpisodeMonitored(moState, k) => EpisodeMonitored(moState', k)

\* What is recorded of a user's action says what the action did to the monitoring.
RequestsAttributed == [][AttributedAsTurnedOn /\ RequestKept]_moVars
=============================================================================
