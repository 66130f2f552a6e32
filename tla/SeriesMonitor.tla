---------------------------- MODULE SeriesMonitor ----------------------------
(***************************************************************************)
(* monitor.Service for a series: one pass after another looks for episodes *)
(* that are monitored, aired, without a file and without a download,       *)
(* searches the indexers a season at a time, and queues a release for      *)
(* each.  A title may name one episode, several, or the season; what a     *)
(* release really contains is known when it is imported.  Here is one      *)
(* season of one series; users, imports and resyncs change it meanwhile.   *)
(***************************************************************************)
EXTENDS Naturals, FiniteSets

CONSTANTS
  SmEpisodes,           \* episodes of the season, 1..n
  SmReleases,           \* releases, each with its own download URL
  Title,                \* of each release: [pack, names]
  Contains,             \* the episodes it has files of
  SmMaxBlocklistFailures,
  SmMaxRows,            \* downloads an instance creates
  SmMaxEvents           \* changes made outside the monitor

ASSUME SeriesMonitorAssumption ==
  /\ SmEpisodes \subseteq Nat \ {0} /\ IsFiniteSet(SmEpisodes)
  /\ \A r \in SmReleases : /\ Title[r].names \subseteq SmEpisodes
                           /\ Contains[r] \subseteq SmEpisodes
                           /\ Title[r].pack => Title[r].names = SmEpisodes
  /\ SmMaxBlocklistFailures \in Nat \ {0}
  /\ SmMaxRows \in Nat /\ SmMaxEvents \in Nat

VARIABLES
  smRows,     \* downloads: [url, id, state, auto]
  smFiles,    \* media_files: <<row, episode>>, row 0 for a file found on disk
  smWant,     \* the episodes monitored, season settings and overrides resolved
  smAired,    \* those that have aired
  smBlocked,  \* fail_count of each release
  smPass,     \* the pass of the monitor
  smEvents    \* changes made outside so far

smVars == <<smRows, smFiles, smWant, smAired, smBlocked, smPass, smEvents>>

SmRowIds == 1..SmMaxRows
\* id: the episode the row refers to, 0 for none.  "imported" is a linked row that seeds or
\* is completed; "active" stands for the other statuses of a download under way.
SmRow == [url : SmReleases, id : SmEpisodes \cup {0}, auto : BOOLEAN,
          state : {"none", "active", "imported", "failed", "gone"}]
SmPreferences == {"prefer_packs", "prefer_episodes", "packs_only"}

\* current: the item has not been saved since it was loaded; quiet: nothing else changed.
SmIdle == [pc |-> "idle", current |-> TRUE, quiet |-> TRUE, downloads |-> {}, used |-> {},
           wanted |-> {}, ratio |-> FALSE, pref |-> "prefer_packs", offered |-> {},
           episode |-> 0, pick |-> {}, queued |-> FALSE, refused |-> FALSE]

SmTypeOK ==
  /\ smRows \in [SmRowIds -> SmRow]
  /\ smFiles \subseteq (SmRowIds \cup {0}) \X SmEpisodes
  /\ smWant \subseteq SmEpisodes /\ smAired \subseteq SmEpisodes
  /\ smBlocked \in [SmReleases -> 0..SmMaxRows]
  /\ smPass.pc \in {"idle", "downloads", "plan", "search", "pick", "recheck", "grab", "done"}
  /\ smPass.wanted \subseteq SmEpisodes /\ smPass.pref \in SmPreferences
  /\ smEvents \in 0..SmMaxEvents

SmInit ==
  /\ smRows = [d \in SmRowIds |-> [url |-> CHOOSE r \in SmReleases : TRUE, id |-> 0,
                                   auto |-> FALSE, state |-> "none"]]
  /\ smFiles = {} /\ smWant = SmEpisodes
  /\ smAired \in SUBSET SmEpisodes
  /\ smBlocked = [r \in SmReleases |-> 0]
  /\ smPass = SmIdle /\ smEvents = 0

-----------------------------------------------------------------------------
RowsIn(states) == {d \in SmRowIds : smRows[d].state \in states}
FreeRow == CHOOSE d \in RowsIn({"none"}) : \A e \in RowsIn({"none"}) : d <= e
BuildFileMap == {f[2] : f \in smFiles}
SmHasActiveDownloadByURL(r) == \E d \in RowsIn({"active", "imported"}) : smRows[d].url = r
IsBlocklisted(r) == smBlocked[r] >= SmMaxBlocklistFailures

\* Mutant: a range counts only for the episode its row refers to.
GuardsFirst(d, e) ==
  LET row == smRows[d] IN
  \/ row.id = e
  \/ row.id = 0 /\ e \in Title[row.url].names

\* buildDownloadMap: a row guards the episode it refers to; one that refers to none, and a
\* range, all that the title names.
Guards(d, e) ==
  LET row == smRows[d]
      range == ~Title[row.url].pack /\ Cardinality(Title[row.url].names) > 1
  IN \/ row.id = e
     \/ (row.id = 0 \/ range) /\ e \in Title[row.url].names

HasActiveDownloadForEpisode(rows, e) == \E d \in rows : Guards(d, e)

\* Mutant: a release that was imported is offered again.
WithImportedReleases(offered, used) == offered

WithoutImportedReleases(offered, used) == offered \ used

-----------------------------------------------------------------------------
(* A pass                                                                  *)

SmOutside == <<smRows, smFiles, smWant, smAired, smEvents>>

\* processOnce loads the item ...
SmLoad ==
  /\ smPass.pc = "idle"
  /\ \E pref \in SmPreferences : smPass' = [SmIdle EXCEPT !.pc = "downloads", !.pref = pref]
  /\ UNCHANGED <<SmOutside, smBlocked>>

Failed(r) == {d \in RowsIn({"failed"}) : smRows[d].url = r}

\* ... processItem its downloads, and records the failures among them ...
SmReadDownloads ==
  /\ smPass.pc = "downloads"
  /\ smPass' = [smPass EXCEPT !.pc = "plan",
       !.downloads = {e \in SmEpisodes : HasActiveDownloadForEpisode(RowsIn({"active"}), e)},
       !.used = {smRows[d].url : d \in RowsIn({"imported"})}]
  /\ smBlocked' = [r \in SmReleases |->
       IF Cardinality(Failed(r)) > smBlocked[r] THEN Cardinality(Failed(r)) ELSE smBlocked[r]]
  /\ UNCHANGED SmOutside

\* ... then its files, episodes and settings: processSeries.
SmPlan ==
  LET due == smWant \cap smAired
      wanted == (due \ BuildFileMap) \ smPass.downloads
  IN
  /\ smPass.pc = "plan"
  /\ smPass' = [smPass EXCEPT !.pc = IF wanted = {} THEN "done" ELSE "search",
       !.wanted = wanted, !.downloads = {},
       !.ratio = 10 * Cardinality(wanted) >= 7 * Cardinality(due)]
  /\ UNCHANGED <<SmOutside, smBlocked>>

\* The search brings what the indexers have just now and the profile admits.
SmSearch ==
  /\ smPass.pc = "search"
  /\ \E found \in SUBSET SmReleases :
       smPass' = [smPass EXCEPT !.pc = "pick", !.used = {},
                    !.offered = WithoutImportedReleases(found, smPass.used)]
  /\ UNCHANGED <<SmOutside, smBlocked>>

\* findBestForEpisode, where the order of the search decides between equals.
FindBestForEpisode(e) ==
  LET packs == {r \in smPass.offered : Title[r].pack}
      singles == {r \in smPass.offered : ~Title[r].pack /\ e \in Title[r].names}
  IN IF smPass.pref = "packs_only" \/ (smPass.pref = "prefer_packs" /\ smPass.ratio /\ packs # {})
        \/ singles = {}
     THEN packs ELSE singles

Left == {e \in smPass.wanted : e > smPass.episode}

SmPick ==
  /\ smPass.pc = "pick"
  /\ IF Left = {} THEN smPass' = [smPass EXCEPT !.pc = "done"]
     ELSE LET e == CHOOSE x \in Left : \A y \in Left : x <= y IN
       \/ /\ FindBestForEpisode(e) = {}
          /\ smPass' = [smPass EXCEPT !.episode = e]
       \/ \E r \in FindBestForEpisode(e) :
            smPass' = [smPass EXCEPT !.pc = "recheck", !.episode = e, !.pick = {r}]
  /\ UNCHANGED <<SmOutside, smBlocked>>

\* The downloads are listed again after the search.
SmRecheck ==
  /\ smPass.pc = "recheck"
  /\ smPass' = IF HasActiveDownloadForEpisode(RowsIn({"active"}), smPass.episode)
               THEN [smPass EXCEPT !.pc = "pick", !.pick = {}] ELSE [smPass EXCEPT !.pc = "grab"]
  /\ UNCHANGED <<SmOutside, smBlocked>>

\* createAutoDownload, one transaction.  A season pack, queued or not, ends the season.
SmGrab ==
  LET e == smPass.episode
      r == CHOOSE x \in smPass.pick : TRUE
      next == IF Title[r].pack THEN "done" ELSE "pick"
      queues == /\ smPass.current /\ e \notin BuildFileMap
                /\ ~SmHasActiveDownloadByURL(r) /\ ~IsBlocklisted(r)
  IN
  /\ smPass.pc = "grab"
  /\ IF queues
     THEN /\ RowsIn({"none"}) # {}
          /\ smRows' = [smRows EXCEPT ![FreeRow] = [url |-> r, auto |-> TRUE, state |-> "active",
                          id |-> IF Title[r].pack THEN 0 ELSE e]]
          /\ smPass' = [smPass EXCEPT !.pc = next, !.queued = TRUE, !.pick = {}]
     ELSE /\ smPass' = [smPass EXCEPT !.pc = next, !.refused = @ \/ IsBlocklisted(r), !.pick = {}]
          /\ UNCHANGED smRows
  /\ UNCHANGED <<smFiles, smWant, smAired, smEvents, smBlocked>>

SmDone ==
  /\ smPass.pc = "done"
  /\ smPass' = SmIdle
  /\ UNCHANGED <<SmOutside, smBlocked>>

-----------------------------------------------------------------------------
(* Everybody else                                                          *)

SmEvent(current) ==
  /\ smEvents < SmMaxEvents
  /\ smEvents' = smEvents + 1
  /\ smPass' = IF smPass.pc = "idle" THEN smPass
               ELSE [smPass EXCEPT !.quiet = FALSE, !.current = @ /\ current]
  /\ UNCHANGED smBlocked

\* A user queues a release, for an episode or for the season.
SmUserGrab(r, e) ==
  /\ SmEvent(TRUE)
  /\ RowsIn({"none"}) # {} /\ ~SmHasActiveDownloadByURL(r)
  /\ e = 0 \/ e \in Title[r].names
  /\ smRows' = [smRows EXCEPT ![FreeRow] = [url |-> r, id |-> e, auto |-> FALSE,
                                            state |-> "active"]]
  /\ UNCHANGED <<smFiles, smWant, smAired>>

\* The files of a release are recorded, and the row is linked; the status may change.
SmImport(d) ==
  /\ \E current \in BOOLEAN : SmEvent(current)
  /\ smRows[d].state = "active"
  /\ smRows' = [smRows EXCEPT ![d].state = "imported"]
  /\ smFiles' = smFiles \cup {d} \X Contains[smRows[d].url]
  /\ UNCHANGED <<smWant, smAired>>

SmFail(d) ==
  /\ SmEvent(TRUE)
  /\ smRows[d].state = "active"
  /\ smRows' = [smRows EXCEPT ![d].state = "failed"]
  /\ UNCHANGED <<smFiles, smWant, smAired>>

\* A user sets a failed download to pending: it is theirs from now on.
SmRetry(d) ==
  /\ SmEvent(TRUE)
  /\ smRows[d].state = "failed"
  /\ smRows' = [smRows EXCEPT ![d].state = "active", ![d].auto = FALSE]
  /\ UNCHANGED <<smFiles, smWant, smAired>>

SmRemove(d) ==
  /\ \E current \in BOOLEAN : SmEvent(current)
  /\ smRows[d].state \in {"active", "imported", "failed"}
  /\ smRows' = [smRows EXCEPT ![d].state = "gone"]
  /\ smFiles' = {f \in smFiles : f[1] # d}
  /\ UNCHANGED <<smWant, smAired>>

\* A resync finds a file, or finds one gone.
SmResync(e) ==
  /\ \E current \in BOOLEAN : SmEvent(current)
  /\ smFiles' = IF e \in BuildFileMap THEN {f \in smFiles : f[2] # e} ELSE smFiles \cup {<<0, e>>}
  /\ UNCHANGED <<smRows, smWant, smAired>>

\* A change of settings; the item is saved with it.
SmSettings(want) ==
  /\ SmEvent(FALSE)
  /\ want # smWant /\ smWant' = want
  /\ UNCHANGED <<smRows, smFiles, smAired>>

\* A new match gives the episodes new ids: no row refers to one any more.
SmRematch ==
  /\ SmEvent(FALSE)
  /\ smRows' = [d \in SmRowIds |-> [smRows[d] EXCEPT !.id = 0]]
  /\ UNCHANGED <<smFiles, smWant, smAired>>

SmAir(e) ==
  /\ SmEvent(TRUE)
  /\ e \notin smAired /\ smAired' = smAired \cup {e}
  /\ UNCHANGED <<smRows, smFiles, smWant>>

SmNext ==
  \/ SmLoad \/ SmReadDownloads \/ SmPlan \/ SmSearch \/ SmPick \/ SmRecheck \/ SmGrab \/ SmDone
  \/ \E r \in SmReleases, e \in SmEpisodes \cup {0} : SmUserGrab(r, e)
  \/ \E d \in SmRowIds : SmImport(d) \/ SmFail(d) \/ SmRetry(d) \/ SmRemove(d)
  \/ \E e \in SmEpisodes : SmResync(e) \/ SmAir(e)
  \/ \E want \in SUBSET SmEpisodes : SmSettings(want)
  \/ SmRematch

-----------------------------------------------------------------------------
(* Properties                                                              *)

\* What the monitor queues is missing at that moment: monitored, aired, without a file, and
\* no download that it has queued before, and that is still under way, names the episode
\* in its title (createAutoDownload, buildDownloadMap).
QueuedIfMissing ==
  [][\A d \in SmRowIds :
       (smRows[d].state = "none" /\ smRows'[d].state = "active" /\ smRows'[d].auto) =>
         LET e == smPass.episode IN
         /\ e \in (smWant \cap smAired) \ BuildFileMap
         /\ \A o \in RowsIn({"active"}) :
              smRows[o].auto => e \notin Title[smRows[o].url].names]_smVars

\* A pass that nobody disturbs and that queues nothing has left no untried release for a
\* missing episode, unless it met one that is blocked: an incomplete pack does not keep the
\* episodes it lacks from being found elsewhere (monitor/service.go:392).  An episode that a
\* download under way names waits for that one, and a series of packs only takes no other.
NothingUntried ==
  (smPass.pc = "done" /\ smPass.quiet /\ ~smPass.queued /\ ~smPass.refused) =>
    \A e \in (smWant \cap smAired) \ BuildFileMap, r \in smPass.offered :
      \/ e \notin Title[r].names
      \/ SmHasActiveDownloadByURL(r)
      \/ smPass.pref = "packs_only" /\ ~Title[r].pack
      \/ \E d \in RowsIn({"active"}) : e \in Title[smRows[d].url].names
=============================================================================
