------------------------------ MODULE MCServices ------------------------------
(***************************************************************************)
(* The services that share no state with one another: subtitles, the       *)
(* monitor of a series, what the monitor reports and which release it      *)
(* takes, the clients of other programs, the refreshes of media servers,   *)
(* and upgrades.  A behaviour is about one of them; the others stay in one *)
(* of their initial states.                                                *)
(***************************************************************************)
EXTENDS Subtitles, SeriesMonitor, ApiClients, MediaServers, Upgrade, MonitorReport, ReleaseChoice, TLC

CONSTANTS c1, c2

VARIABLE about
monitorVars == <<smVars, rpVars, rcVars>>
allVars == <<about, sbVars, monitorVars, apVars, msVars, upVars>>

\* A pack that has only the first episode, a release that names both, and one of the second.
MCTitle ==
  [r \in SmReleases |->
     CASE r = "short"  -> [pack |-> TRUE, names |-> {1, 2}]
       [] r = "range"  -> [pack |-> FALSE, names |-> {1, 2}]
       [] r = "second" -> [pack |-> FALSE, names |-> {2}]]
MCContains ==
  [r \in SmReleases |-> CASE r = "range" -> {1, 2} [] r = "short" -> {1} [] r = "second" -> {2}]

MCParsed ==
  [r \in RcReleases |->
     CASE r = "hungarian" -> [res |-> "1080p", src |-> "web", langs |-> {"hun"}, words |-> {}]
       [] r = "untagged" -> [res |-> "1080p", src |-> "bluray", langs |-> {}, words |-> {}]
       [] r = "dual" -> [res |-> "720p", src |-> "bluray", langs |-> {"hun", "eng"}, words |-> {"flux"}]
       [] r = "multi" -> [res |-> "1080p", src |-> "web", langs |-> {"multi"}, words |-> {"flux"}]
       [] r = "cam" -> [res |-> "", src |-> "web", langs |-> {"eng"}, words |-> {"cam"}]]
MCProfiles ==
  [resolutions : {<<>>, <<"720p", "1080p">>}, sources : {<<>>, <<"bluray", "web">>},
   languages : {<<>>, <<"eng", "hun">>}, mode : {"and", "or"}, exclude : {{"cam"}}]

MCApKeys == <<"url", "password">>
MCLibraryOf == [i \in MsItems |-> "series"]
MCMigrationsOf == [v \in UpVersions |-> v + 1]

Services == {"subtitles", "series", "report", "choice", "clients", "servers", "upgrade"}

\* Services with several initial states wait in one.
SvInit ==
  /\ about \in Services
  /\ SbInit /\ SmInit /\ RpInit /\ RcInit /\ ApInit /\ MsInit /\ UpInit
  /\ about # "series" => smAired = SmEpisodes
  /\ about # "clients" => /\ apKind = "qbittorrent"
                          /\ \A k \in DOMAIN apSetting : apSetting[k] = 0
  /\ about # "upgrade" => upDb.tables = "none"

\* The user is deleted, or else there is a restart, or a removal.
OneMishap ==
  sbActor \/ /\ sbCrashes = 0
             /\ sbItem = "open" /\ sbVideo # "removed" /\ sbRemoval = NoRemoval

\* Settings saved and sessions ended: three at most.
FewInputs ==
  apServer.expired + Cardinality({w \in ApWriters : apWriter[w].pc # "idle"}) <= 3

SvNext ==
  \/ /\ about = "subtitles" /\ SbNext /\ OneMishap'
     /\ UNCHANGED <<about, monitorVars, apVars, msVars, upVars>>
  \/ /\ about = "series" /\ SmNext
     /\ UNCHANGED <<about, sbVars, rpVars, rcVars, apVars, msVars, upVars>>
  \/ /\ about = "report" /\ RpNext
     /\ UNCHANGED <<about, sbVars, smVars, rcVars, apVars, msVars, upVars>>
  \/ /\ about = "choice" /\ RcNext
     /\ UNCHANGED <<about, sbVars, smVars, rpVars, apVars, msVars, upVars>>
  \/ /\ about = "clients" /\ ApNext /\ FewInputs'
     /\ UNCHANGED <<about, sbVars, monitorVars, msVars, upVars>>
  \/ /\ about = "servers" /\ MsNext
     /\ UNCHANGED <<about, sbVars, monitorVars, apVars, upVars>>
  \/ /\ about = "upgrade" /\ UpNextStep
     /\ UNCHANGED <<about, sbVars, monitorVars, apVars, msVars>>

SvSpec == SvInit /\ [][SvNext]_allVars
SvSymmetry == Permutations({c1, c2})
=============================================================================
