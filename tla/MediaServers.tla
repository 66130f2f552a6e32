----------------------------- MODULE MediaServers -----------------------------
(***************************************************************************)
(* mediarefresh.Service: a media server is asked to scan a library after   *)
(* the files of that library changed.  Four subscriptions hear of imports  *)
(* and deletions, each on its own goroutine, so events of different types  *)
(* arrive in any order; a timer per library gathers those of a few         *)
(* seconds; the scan is tried four times.  Plex and Jellyfin each have     *)
(* such a service: here is one of them, and one run of the server.         *)
(***************************************************************************)
EXTENDS Naturals, FiniteSets

CONSTANTS
  MsItems, MsLibraries,
  LibraryOf,        \* the library of each item
  MsMaxChanges,     \* changes of the files of a library, all together
  MsMaxSwitches,    \* times the feature or a mapping is changed
  MsMaxRetries      \* 3 in the code

ASSUME MediaServersAssumption ==
  /\ LibraryOf \in [MsItems -> MsLibraries]
  /\ MsMaxChanges \in Nat /\ MsMaxSwitches \in Nat /\ MsMaxRetries \in Nat

VARIABLES
  msItems,    \* items that have a row
  msDeleting, \* items whose row is deleted and whose deletion is not published yet
  msEvents,   \* events published and not handled: [kind, item, version]
  msTimer,    \* the timers and the refresh each leads to; one for each event at most
  msPending,  \* Service.timers: the timer of each library, 0 for none
  msEnabled, msMapped,
  msChanged,  \* version of the last change
  msServer,   \* version of the library that the server last scanned
  msWaived,   \* version given up: feature off, no mapping, retries spent, or item forgotten
  msSwitches

msVars == <<msItems, msDeleting, msEvents, msTimer, msPending, msEnabled, msMapped,
            msChanged, msServer, msWaived, msSwitches>>

MsTimers == 1..MsMaxChanges
MsNoTimer == [pc |-> "none", library |-> CHOOSE l \in MsLibraries : TRUE, version |-> 0,
              attempt |-> 0]

MsTypeOK ==
  /\ msItems \subseteq MsItems /\ msDeleting \subseteq MsItems
  /\ msTimer \in [MsTimers -> [pc : {"none", "set", "stopped", "fired", "refresh", "scan", "done"},
                               library : MsLibraries, version : 0..MsMaxChanges,
                               attempt : 0..MsMaxRetries]]
  /\ msPending \in [MsLibraries -> 0..MsMaxChanges]
  /\ msServer \in [MsLibraries -> 0..MsMaxChanges]

MsInit ==
  /\ msItems = MsItems /\ msDeleting = {} /\ msEvents = {}
  /\ msTimer = [t \in MsTimers |-> MsNoTimer]
  /\ msPending = [l \in MsLibraries |-> 0]
  /\ msEnabled = TRUE /\ msMapped = MsLibraries
  /\ msChanged = [l \in MsLibraries |-> 0]
  /\ msServer = [l \in MsLibraries |-> 0] /\ msWaived = [l \in MsLibraries |-> 0]
  /\ msSwitches = 0

MsMax(a, b) == IF a < b THEN b ELSE a
MsWaive(l, v) == msWaived' = [msWaived EXCEPT ![l] = MsMax(@, v)]

\* Versions count over all libraries, so that each change has a timer of its own to use.
MsLatest == CHOOSE v \in {msChanged[l] : l \in MsLibraries} :
              \A l \in MsLibraries : msChanged[l] <= v

-----------------------------------------------------------------------------
(* What changes the files of a library, and tells. *)

\* The importer, DeleteDownload and the deletion of a subtitle: the files, then the event,
\* which names the item.
MsChange(i, kind) ==
  /\ i \in msItems /\ MsLatest < MsMaxChanges
  /\ msChanged' = [msChanged EXCEPT ![LibraryOf[i]] = MsLatest + 1]
  /\ msEvents' = msEvents \cup {[kind |-> kind, item |-> i, version |-> MsLatest + 1]}
  /\ UNCHANGED <<msItems, msDeleting, msTimer, msPending, msEnabled, msMapped, msServer,
                 msWaived, msSwitches>>

\* DeleteMediaItem: the files, then the row.
MsDeleteItem(i) ==
  /\ i \in msItems /\ MsLatest < MsMaxChanges
  /\ msItems' = msItems \ {i} /\ msDeleting' = msDeleting \cup {i}
  /\ msChanged' = [msChanged EXCEPT ![LibraryOf[i]] = MsLatest + 1]
  /\ UNCHANGED <<msEvents, msTimer, msPending, msEnabled, msMapped, msServer, msWaived,
                 msSwitches>>

\* MediaItemDeleted carries the library.  It tells of every change there was until then.
MsPublishDeleted(i) ==
  /\ i \in msDeleting /\ msDeleting' = msDeleting \ {i}
  /\ msEvents' = msEvents \cup {[kind |-> "item_deleted", item |-> i,
                                 version |-> msChanged[LibraryOf[i]]]}
  /\ UNCHANGED <<msItems, msTimer, msPending, msEnabled, msMapped, msChanged, msServer,
                 msWaived, msSwitches>>

\* A sync forgets the row of an item that has lost its files and publishes nothing: events
\* about it that are not handled yet lead nowhere.
MsForget(i) ==
  /\ i \in msItems /\ msItems' = msItems \ {i}
  /\ MsWaive(LibraryOf[i], IF \E e \in msEvents : e.item = i
                           THEN msChanged[LibraryOf[i]] ELSE 0)
  /\ UNCHANGED <<msDeleting, msEvents, msTimer, msPending, msEnabled, msMapped, msChanged,
                 msServer, msSwitches>>

MsSwitch ==
  /\ msSwitches < MsMaxSwitches /\ msSwitches' = msSwitches + 1
  /\ \/ msEnabled' = ~msEnabled /\ UNCHANGED msMapped
     \/ \E l \in MsLibraries :
          /\ msMapped' = IF l \in msMapped THEN msMapped \ {l} ELSE msMapped \cup {l}
          /\ UNCHANGED msEnabled
  /\ UNCHANGED <<msItems, msDeleting, msEvents, msTimer, msPending, msChanged, msServer,
                 msWaived>>

-----------------------------------------------------------------------------
(* The service. *)

\* Every event finds a timer: there are as many as changes, and an event for each change.
MsUnused == {t \in MsTimers : msTimer[t].pc = "none"}

\* scheduleRefresh, under the mutex: the pending timer is stopped if it has not fired, and
\* replaced either way.
MsSchedule(l, version) ==
  LET old == msPending[l]
      new == CHOOSE t \in MsUnused : \A u \in MsUnused : t <= u
      gathered == IF old = 0 THEN version ELSE MsMax(version, msTimer[old].version)
      set == [pc |-> "set", library |-> l, version |-> gathered, attempt |-> 0]
  IN  /\ msTimer' = [t \in MsTimers |->
                       IF t = new THEN set
                       ELSE IF t = old /\ msTimer[t].pc = "set"
                            THEN [msTimer[t] EXCEPT !.pc = "stopped"] ELSE msTimer[t]]
      /\ msPending' = [msPending EXCEPT ![l] = new]

\* refreshForMediaItem for the three events that name an item, HandleMediaItemDeleted for
\* the one that names the library.
MsHandle ==
  \E e \in msEvents :
    LET l == LibraryOf[e.item]
    IN  /\ msEvents' = msEvents \ {e}
        /\ IF ~msEnabled
           THEN MsWaive(l, e.version) /\ UNCHANGED <<msTimer, msPending>>
           ELSE IF e.item \notin msItems /\ e.kind # "item_deleted"
                THEN UNCHANGED <<msTimer, msPending, msWaived>>
                ELSE MsUnused # {} /\ MsSchedule(l, e.version) /\ UNCHANGED msWaived
        /\ UNCHANGED <<msItems, msDeleting, msEnabled, msMapped, msChanged, msServer, msSwitches>>

MsSetPc(t, pc) == msTimer' = [msTimer EXCEPT ![t].pc = pc]

\* The timer fires: its function runs on a goroutine of its own and waits for the mutex.
MsFire(t) ==
  /\ msTimer[t].pc = "set" /\ MsSetPc(t, "fired")
  /\ UNCHANGED <<msItems, msDeleting, msEvents, msPending, msEnabled, msMapped, msChanged,
                 msServer, msWaived, msSwitches>>

\* Mutant: the entry of the library is removed before it is compared.
MsCallbackClears(t) ==
  LET l == msTimer[t].library
  IN  /\ msTimer[t].pc = "fired"
      /\ MsSetPc(t, IF msPending[l] = t THEN "refresh" ELSE "done")
      /\ msPending' = [msPending EXCEPT ![l] = 0]
      /\ UNCHANGED <<msItems, msDeleting, msEvents, msEnabled, msMapped, msChanged, msServer,
                     msWaived, msSwitches>>

\* A timer that was replaced after it fired leaves the work to the newer one.
MsCallback(t) ==
  LET l == msTimer[t].library
  IN  /\ msTimer[t].pc = "fired"
      /\ IF msPending[l] = t
         THEN MsSetPc(t, "refresh") /\ msPending' = [msPending EXCEPT ![l] = 0]
         ELSE MsSetPc(t, "done") /\ UNCHANGED msPending
      /\ UNCHANGED <<msItems, msDeleting, msEvents, msEnabled, msMapped, msChanged, msServer,
                     msWaived, msSwitches>>

MsGiveUp(t) ==
  /\ MsSetPc(t, "done") /\ MsWaive(msTimer[t].library, msTimer[t].version)
  /\ UNCHANGED msServer

\* refreshLibrary: off or not mapped, nothing is asked; the mapping is read once.
MsRefresh(t) ==
  /\ msTimer[t].pc = "refresh"
  /\ IF msEnabled /\ msTimer[t].library \in msMapped
     THEN MsSetPc(t, "scan") /\ UNCHANGED <<msServer, msWaived>>
     ELSE MsGiveUp(t)
  /\ UNCHANGED <<msItems, msDeleting, msEvents, msPending, msEnabled, msMapped, msChanged,
                 msSwitches>>

\* One attempt of refreshWithRetry: whether the feature is on is looked up each time.
MsScan(t) ==
  /\ msTimer[t].pc = "scan"
  /\ \/ ~msEnabled /\ MsGiveUp(t)
     \/ /\ msEnabled /\ MsSetPc(t, "done")
        /\ msServer' = [msServer EXCEPT ![msTimer[t].library] = msChanged[msTimer[t].library]]
        /\ UNCHANGED msWaived
     \/ /\ msEnabled /\ msTimer[t].attempt < MsMaxRetries
        /\ msTimer' = [msTimer EXCEPT ![t].attempt = @ + 1]
        /\ UNCHANGED <<msServer, msWaived>>
     \/ msEnabled /\ msTimer[t].attempt = MsMaxRetries /\ MsGiveUp(t)
  /\ UNCHANGED <<msItems, msDeleting, msEvents, msPending, msEnabled, msMapped, msChanged,
                 msSwitches>>

-----------------------------------------------------------------------------

MsNext ==
  \/ \E i \in MsItems :
       \/ \E kind \in {"import_completed", "subtitle_deleted", "download_deleted"} :
            MsChange(i, kind)
       \/ MsDeleteItem(i) \/ MsPublishDeleted(i) \/ MsForget(i)
  \/ MsSwitch \/ MsHandle
  \/ \E t \in MsTimers : MsFire(t) \/ MsCallback(t) \/ MsRefresh(t) \/ MsScan(t)

-----------------------------------------------------------------------------

\* A scan of the library that is still to come.
MsScanComing(l) ==
  \/ \E i \in msDeleting : LibraryOf[i] = l
  \/ \E e \in msEvents : LibraryOf[e.item] = l
  \/ \E t \in MsTimers :
       /\ msTimer[t].library = l
       /\ \/ msTimer[t].pc \in {"set", "fired"} /\ msPending[l] = t
          \/ msTimer[t].pc \in {"refresh", "scan"}

\* What the server shows of a library is what the files were at the last change, or a scan is
\* still to come, or it was given up for that change: the feature off, no mapping, every retry
\* failed, the item forgotten.  This is about the debouncing: an event handled while a timer is
\* firing, or while a scan is on its way, leads to another scan.
ChangesReachServer ==
  \A l \in MsLibraries :
    MsMax(msServer[l], msWaived[l]) < msChanged[l] => MsScanComing(l)
=============================================================================
