--------------------------- MODULE TransferProofs ---------------------------
(***************************************************************************)
(* Who answers for a release, a torrent and a library file.  With no       *)
(* status set by hand no release is in progress twice, the blocklist ends  *)
(* the monitor's retries and an import is one worker's; each torrent in    *)
(* the client has somebody who answers for it, each file in the library is *)
(* recorded or about to be, and no worker takes a torrent that another row *)
(* of the release still needs.                                             *)
(***************************************************************************)
EXTENDS LifecycleProofs

-----------------------------------------------------------------------------
(* Releases                                                                *)

\* What no user sets by hand happens to a row.
RowWorks(old, new) ==
  \/ new = old
  \/ new \in {"cancelled", "deleted"}
  \/ old = "none" /\ new = "pending"
  \/ old \in ActiveDownloadStatuses /\ new \in ActiveDownloadStatuses \cup TerminalFailureStatuses

LEMMA StatusesWork ==
  ASSUME WorkStep
  PROVE  \A d \in Downloads : RowWorks(downloads[d].status, downloads'[d].status)
<1> DEFINE St == [d \in Downloads |-> downloads[d].status]
<1>1. /\ \A d \in Downloads : St[d] = downloads[d].status /\ St'[d] = downloads'[d].status
      /\ DOMAIN St = Downloads
  OBVIOUS
<1> SUFFICES ASSUME NEW d \in Downloads PROVE RowWorks(St[d], St'[d])
  BY <1>1
<1> USE DEF RowWorks, ActiveDownloadStatuses, TerminalFailureStatuses
<1>2. ASSUME NEW e, NEW s, St' = [St EXCEPT ![e] = s], RowWorks(St[e], s)
      PROVE  RowWorks(St[d], St'[d])
  BY <1>1, <1>2
<1>3. CASE UNCHANGED Lifecycle!lifeVars
  BY <1>3 DEF Lifecycle!lifeVars
<1> HIDE DEF St
<1>4. CASE Lifecycle!Recover
  <2>1. PICK lost \in SUBSET {e \in Downloads : St[e] \in {"downloading", "seeding"}} :
          St' = [e \in Downloads |-> IF St[e] = "importing" THEN "downloaded"
                                     ELSE IF e \notin lost THEN St[e]
                                     ELSE IF [f \in Downloads |-> downloads[f].linked][e]
                                          THEN "completed" ELSE "failed"]
    BY <1>4 DEF Lifecycle!Recover, St
  <2>2. \/ St'[d] = St[d]
        \/ St[d] = "importing" /\ St'[d] = "downloaded"
        \/ d \in lost /\ St'[d] \in {"completed", "failed"}
    BY <2>1
  <2> QED BY <2>1, <2>2
<1>5. ASSUME NEW e, Lifecycle!Cancel(e) \/ Lifecycle!Remove(e) PROVE RowWorks(St[d], St'[d])
  BY <1>2, <1>5 DEF Lifecycle!Cancel, Lifecycle!Remove, St
<1>6. ASSUME NEW e, NEW i, Lifecycle!Queue(e, i) PROVE RowWorks(St[d], St'[d])
  BY <1>2, <1>6 DEF Lifecycle!Queue, St
<1>7. ASSUME NEW e, NEW next, Lifecycle!Advance(e, next) PROVE RowWorks(St[d], St'[d])
  BY <1>2, <1>7 DEF Lifecycle!Advance, Lifecycle!Steps, St
<1>8. ASSUME NEW i, Lifecycle!StartDeletion(i) \/ Lifecycle!FinishDeletion(i)
      PROVE  RowWorks(St[d], St'[d])
  BY <1>8 DEF Lifecycle!StartDeletion, Lifecycle!FinishDeletion, St
<1> QED BY <1>3, <1>4, <1>5, <1>6, <1>7, <1>8 DEF WorkStep, WorkNext

-----------------------------------------------------------------------------
(* Who creates rows                                                        *)

NoneCreated == \A d \in Downloads : ~Exists(d) => downloads'[d] = downloads[d]

\* A row for release u of item i: queued by a user, or by the monitor after its search.
Queued(d, i, u) ==
  /\ ~HasActiveDownloadByURL(i, u)
  /\ \E ep \in BOOLEAN : CreateDownload(d, i, u, ep)
  /\ \/ u \in ManualUrls /\ UNCHANGED moVars
     \/ moPc = "grab" /\ MayGrab /\ moItem = i /\ moUrl = u /\ moPc' = "idle"

LEMMA UpdateCreatesNone ==
  ASSUME StoreInv, NEW d, NEW next, UpdateDownload(d, next) \/ (Exists(d) /\ PutRow(d, next))
  PROVE  NoneCreated
BY DEF UpdateDownload, PutRow, Current, NoneCreated, StoreInv, StoreTypeOK

LEMMA OnlyQueuedCreated ==
  ASSUME PipelineInv, [Next]_vars
  PROVE  \/ NoneCreated
         \/ \E d \in Downloads, i \in Items, u \in Urls : Queued(d, i, u)
<1> USE DEF PipelineInv
<1>0. UNCHANGED downloads => NoneCreated
  BY DEF NoneCreated
<1>1. CASE Worker
  BY <1>0, <1>1, UpdateCreatesNone
     DEF Worker, DwNext, DwListPending, DwFetchFails, DwAddTorrent, DwReuseTorrent, DwAddFails,
         DwClaim, DwUndo, DwListDownloading, DwTickEnds, DwCheckItem, DwPoll, HandleMissingTorrent,
         UpdateFromTorrent, Current, storeVars
<1>2. CASE Import
  BY <1>0, <1>2, UpdateCreatesNone
     DEF Import, ImNext, ImListDownloaded, ImClaim, ImGivesUp, ImParentGone, ImLoadFails, ImLoad,
         ImSkip, ImLink, ImLinkFails, ImRecord, ImNothingImported, ImFinish, ImRemoveTorrent,
         ImFinalize, ImListSeeding, ImCompleteSeeding, ImKeepSeeding, ImSeedRemove, ImTickEnds,
         storeVars
<1>3. CASE Removal
  <2>1. PICK r \in Requests : RqAccept(r) \/ RqProceed(r)
    BY <1>3 DEF Removal, RqNext
  <2>2. ASSUME NEW d \in Downloads, RqCancel(r, d) PROVE NoneCreated
    BY <2>2 DEF RqCancel, NoneCreated, StoreInv, StoreTypeOK
  <2>3. ASSUME NEW i \in Items, RqPrepare(r, i) PROVE NoneCreated
    BY <1>0, <2>3 DEF RqPrepare, CancelAll, RowsOf, NoneCreated
  <2>4. CASE RqDownloadRecord(r)
    BY <1>0, <2>4 DEF RqDownloadRecord, Preimage, Current, NoneCreated, StoreInv, StoreTypeOK
  <2>5. CASE RqItemRecord(r)
    BY <1>0, <2>5 DEF RqItemRecord, RowsOf, NoneCreated
  <2>6. CASE \/ RqDownloadTorrent(r) \/ RqDownloadFiles(r) \/ RqListFiles(r)
             \/ RqItemTorrents(r) \/ RqItemFiles(r)
    BY <1>0, <2>6 DEF RqDownloadTorrent, RqDownloadFiles, RqListFiles, RqItemTorrents, RqItemFiles,
                      storeVars
  <2> QED BY <2>1, <2>2, <2>3, <2>4, <2>5, <2>6 DEF RqAccept, RqProceed
<1>4. CASE Monitor
  <2>1. ASSUME NEW d \in Downloads, MoGrab(d) PROVE Queued(d, moItem, moUrl)
    BY <2>1 DEF MoGrab, Queued, MayGrab, MoIdle
  <2>2. (\E d \in Downloads : MoGrab(d)) => moItem \in Items /\ moUrl \in Urls
    BY MonitorAssumption DEF MoGrab, MoTypeOK
  <2>3. (\E d \in Downloads : MoGrab(d)) \/ UNCHANGED downloads
    BY <1>4 DEF Monitor, MoNext, MoFindNothing, MoGiveUp, MoCheck, MoPick, storeVars
  <2> QED BY <1>0, <2>1, <2>2, <2>3
<1>5. CASE Backfill
  BY <1>0, <1>5, UpdateCreatesNone
     DEF Backfill, BfNext, BfList, BfDone, BfRefresh, BfResolve, BfUnresolved, storeVars
<1>6. CASE ManualCreate
  BY <1>6, PipelineAssumption DEF ManualCreate, Create, Queued
<1>7. CASE StatusRequest
  BY <1>7, UpdateCreatesNone DEF StatusRequest, UpdateStatus
<1>8. CASE Restart
  <2>1. PICK reachable \in BOOLEAN : Reconcile(reachable)
    BY <1>8 DEF Restart
  <2>2. ASSUME NEW d \in Downloads, ~Exists(d) PROVE downloads'[d] = downloads[d]
    <3>1. Reconciled(Recovered(downloads[d]), reachable) = downloads[d]
      BY <2>2 DEF Reconciled, Recovered, Exists, Statuses, ActiveDownloadStatuses
    <3> QED BY <2>1, <3>1 DEF Reconcile
  <2> QED BY <2>2 DEF NoneCreated
<1>9. CASE Client \/ Outage \/ MonitorRequest \/ UNCHANGED vars
  BY <1>0, <1>9 DEF Client, Outage, QbitStep, MonitorRequest, SetMonitored, vars, storeVars
<1> QED BY <1>1, <1>2, <1>3, <1>4, <1>5, <1>6, <1>7, <1>8, <1>9 DEF Next

LEMMA QueuedRow ==
  ASSUME StoreInv, NEW d \in Downloads, NEW i \in Items, NEW u \in Urls, Queued(d, i, u)
  PROVE  /\ downloads[d] = NoRow
         /\ downloads'[d].item = i /\ downloads'[d].url = u /\ downloads'[d].status = "pending"
         /\ \A e \in Downloads \ {d} : downloads'[e] = downloads[e]
<1>1. PICK ep \in BOOLEAN : CreateDownload(d, i, u, ep)
  BY DEF Queued
<1>2. downloads[d] = NoRow /\ downloads' = [downloads EXCEPT ![d] = NewRow(i, u, ep)]
  BY <1>1, RowCreated
<1>3. NewRow(i, u, ep).item = i /\ NewRow(i, u, ep).url = u /\ NewRow(i, u, ep).status = "pending"
  BY DEF NewRow, NoRow
<1> QED BY <1>2, <1>3 DEF StoreInv, StoreTypeOK

-----------------------------------------------------------------------------
(* A release in progress once                                              *)

\* No request sets a status.
NoHand == MaxStatusUpdates = 0

\* What a step without a user's hand does to the rows that exist.
LEMMA RowsWork ==
  ASSUME NoHand, StopInv, [Next]_vars
  PROVE  \A d \in Downloads : Exists(d) =>
           /\ RowWorks(downloads[d].status, downloads'[d].status)
           /\ downloads'[d].item = downloads[d].item /\ downloads'[d].url = downloads[d].url
<1>1. WorkStep
  <2>1. ~StatusRequest
    BY DEF StatusRequest, NoHand, StopInv, PipelineInv
  <2> QED BY <2>1, EveryStepOfLife
<1>2. RowsStep
  BY PipelineStep DEF StopInv
<1>3. ASSUME NEW d \in Downloads, Exists(d)
      PROVE  downloads'[d].item = downloads[d].item /\ downloads'[d].url = downloads[d].url
  <2>1. downloads[d] \in LiveRow
    BY <1>3, CancelledRow DEF StopInv, PipelineInv
  <2>2. Deleted(downloads[d]).item = downloads[d].item /\ Deleted(downloads[d]).url = downloads[d].url
    BY <2>1 DEF Deleted, LiveRow
  <2> QED BY <1>2, <2>1, <2>2, Rows DEF RowsStep, RowStep
<1> QED BY <1>1, <1>3, StatusesWork

LEMMA OneActiveKept ==
  ASSUME NoHand, StopInv, OneActiveDownloadPerRelease, [Next]_vars
  PROVE  OneActiveDownloadPerRelease'
<1> DEFINE Active(d) == downloads[d].status \in ActiveDownloadStatuses
           Release(d) == <<downloads[d].item, downloads[d].url>>
<1>1. \A d \in Downloads : Active(d) => Exists(d)
  BY DEF Exists, Statuses
<1>2. ASSUME NEW d \in Downloads, Exists(d), Active(d)'
      PROVE  Active(d) /\ Release(d)' = Release(d)
  BY <1>2, RowsWork DEF RowWorks, ActiveDownloadStatuses, TerminalFailureStatuses, Exists, Statuses
<1>3. CASE NoneCreated
  <2>1. \A d \in Downloads : Active(d)' => Active(d) /\ Release(d)' = Release(d)
    BY <1>1, <1>2, <1>3 DEF NoneCreated
  <2> QED BY <2>1 DEF OneActiveDownloadPerRelease
<1>4. ASSUME NEW d \in Downloads, NEW i \in Items, NEW u \in Urls, Queued(d, i, u)
      PROVE  OneActiveDownloadPerRelease'
  <2>1. Release(d)' = <<i, u>> /\ \A e \in Downloads \ {d} : downloads'[e] = downloads[e]
    BY <1>4, QueuedRow DEF StopInv, PipelineInv
  <2>2. \A e \in Downloads \ {d} : Active(e)' = Active(e) /\ Release(e)' = Release(e)
    BY <2>1
  <2>3. \A e \in Downloads \ {d} : Active(e)' => Release(e)' # Release(d)'
    BY <1>4, <2>1, <2>2 DEF Queued, HasActiveDownloadByURL
  <2> QED BY <2>2, <2>3 DEF OneActiveDownloadPerRelease
<1> QED BY <1>3, <1>4, OnlyQueuedCreated DEF StopInv, PipelineInv

\* Unless a user sets a status by hand, a release of an item is never in progress twice,
\* whoever queues it (download.Create, monitor.createAutoDownload).
THEOREM OneActiveAlways == NoHand => (Spec => []OneActiveDownloadPerRelease)
<1> SUFFICES ASSUME NoHand PROVE Spec => []OneActiveDownloadPerRelease
  OBVIOUS
<1>1. Init => StopInv /\ OneActiveDownloadPerRelease
  BY StopInitially DEF Init, StoreInit, NoRow, OneActiveDownloadPerRelease, ActiveDownloadStatuses
<1>2. StopInv /\ OneActiveDownloadPerRelease /\ [Next]_vars => (StopInv /\ OneActiveDownloadPerRelease)'
  BY OneActiveKept, StopStep
<1> QED BY <1>1, <1>2, PTL DEF Spec

-----------------------------------------------------------------------------
(* The blocklist                                                           *)

\* The rows of a release that is tried or has failed.
Tried(i, u) ==
  {d \in Downloads : /\ Exists(d) /\ downloads[d].status # "cancelled"
                     /\ downloads[d].item = i /\ downloads[d].url = u}

\* The monitor's counts are not behind while it searches.
BlocklistInv ==
  \A i \in Movies, u \in Urls \ ManualUrls :
    /\ Cardinality(Tried(i, u)) <= MaxBlocklistFailures
    /\ moPc \in {"search", "grab"} /\ moItem = i => Cardinality(Tried(i, u)) <= blocklist[i][u]

LEMMA TriedFinite ==
  \A i, u : IsFiniteSet(Tried(i, u)) /\ Cardinality(Tried(i, u)) \in Nat
BY StoreAssumption, FS_Subset, FS_CardinalityType DEF Tried

LEMMA BlocklistKept ==
  ASSUME NoHand, StopInv, BlocklistInv, [Next]_vars
  PROVE  BlocklistInv'
<1> USE DEF StopInv, PipelineInv
<1> SUFFICES ASSUME NEW i \in Movies, NEW u \in Urls \ ManualUrls
             PROVE  /\ Cardinality(Tried(i, u)') <= MaxBlocklistFailures
                    /\ moPc' \in {"search", "grab"} /\ moItem' = i =>
                         Cardinality(Tried(i, u)') <= blocklist'[i][u]
  BY DEF BlocklistInv, Tried, Exists
<1>1. /\ IsFiniteSet(Tried(i, u)) /\ Cardinality(Tried(i, u)) \in Nat
      /\ Cardinality(Tried(i, u)) <= MaxBlocklistFailures
      /\ moPc \in {"search", "grab"} /\ moItem = i => Cardinality(Tried(i, u)) <= blocklist[i][u]
      /\ MaxBlocklistFailures \in Nat /\ blocklist[i][u] \in Nat
  BY TriedFinite, MonitorAssumption DEF BlocklistInv, MoTypeOK
\* No row of the release appears.
<1>2. ASSUME Tried(i, u)' \subseteq Tried(i, u)
      PROVE  IsFiniteSet(Tried(i, u)') /\ Cardinality(Tried(i, u)') <= Cardinality(Tried(i, u))
             /\ Cardinality(Tried(i, u)') \in Nat
  BY <1>1, <1>2, FS_Subset, FS_CardinalityType
<1>3. ASSUME NoneCreated PROVE Tried(i, u)' \subseteq Tried(i, u)
  <2> SUFFICES ASSUME NEW d \in Downloads, d \in Tried(i, u)' PROVE d \in Tried(i, u)
    BY DEF Tried
  <2>1. downloads'[d].status \in Statuses \ {"cancelled"}
    BY DEF Tried, Exists
  <2>2. Exists(d)
    BY <1>3, <2>1 DEF NoneCreated, Exists
  <2>3. downloads[d].status # "cancelled"
    BY <2>1, <2>2, RowsWork DEF RowWorks, Statuses, ActiveDownloadStatuses, TerminalFailureStatuses
  <2> QED BY <2>2, <2>3, RowsWork DEF Tried
\* The monitor's own steps.
<1>4. CASE NoneCreated
  <2>1. /\ Cardinality(Tried(i, u)') <= Cardinality(Tried(i, u)) /\ Cardinality(Tried(i, u)') \in Nat
        /\ Cardinality(Tried(i, u)') <= MaxBlocklistFailures
    BY <1>1, <1>2, <1>3, <1>4
  <2>2. CASE /\ moPc' \in {"search", "grab"} /\ moItem' = i
             /\ moPc \in {"search", "grab"} /\ moItem = i /\ blocklist' = blocklist
    BY <1>1, <2>1, <2>2
  <2>3. CASE moPc' = "idle"
    BY <2>1, <2>3
  <2>4. CASE MoCheck(i) /\ moPc' = "search"
    <3>1. ~HasActiveDownload(i) /\ blocklist' = Recorded(i)
      BY <2>4 DEF MoCheck, MoTypeOK
    <3>2. Tried(i, u) \subseteq Failures(i, u)
      BY <3>1 DEF HasActiveDownload, Tried, Failures, RowsOf, Exists, Statuses
    <3>3. IsFiniteSet(Failures(i, u))
      BY StoreAssumption, FS_Subset DEF Failures, RowsOf
    <3>4. Cardinality(Tried(i, u)) <= Cardinality(Failures(i, u)) /\ Cardinality(Failures(i, u)) \in Nat
      BY <3>2, <3>3, FS_Subset, FS_CardinalityType
    <3>5. blocklist'[i][u] = IF Cardinality(Failures(i, u)) > blocklist[i][u]
                             THEN Cardinality(Failures(i, u)) ELSE blocklist[i][u]
      BY <3>1 DEF Recorded, MoTypeOK
    <3> QED BY <1>1, <2>1, <3>4, <3>5
  <2>5. \/ UNCHANGED moVars \/ moPc' = "idle" \/ (moItem' = moItem /\ blocklist' = blocklist /\ moPc # "idle")
        \/ \E j \in Movies : MoCheck(j) /\ moPc' = "search" /\ moItem' = j
    BY DEF Next, Worker, Import, Removal, Backfill, Client, Outage, ManualCreate, StatusRequest,
           MonitorRequest, SetMonitored, Restart, Monitor, MoNext, MoCheck, MoPick, MoGrab,
           MoGiveUp, MoFindNothing, MoIdle, MoTypeOK, vars
  <2>6. moPc # "idle" => moPc \in {"search", "grab"}
    BY DEF MoTypeOK
  <2> QED BY <2>1, <2>2, <2>3, <2>4, <2>5, <2>6 DEF moVars
<1>5. ASSUME NEW d \in Downloads, NEW j \in Items, NEW v \in Urls, Queued(d, j, v)
      PROVE  /\ Cardinality(Tried(i, u)') <= MaxBlocklistFailures
             /\ moPc' \in {"search", "grab"} /\ moItem' = i =>
                  Cardinality(Tried(i, u)') <= blocklist'[i][u]
  <2>1. Tried(i, u)' \subseteq IF j = i /\ v = u THEN Tried(i, u) \cup {d} ELSE Tried(i, u)
    BY <1>5, QueuedRow DEF Tried, Exists
  <2>2. CASE j = i /\ v = u
    <3>1. moPc' = "idle" /\ Cardinality(Tried(i, u)) < MaxBlocklistFailures
      BY <1>1, <1>5, <2>2 DEF Queued, MayGrab, MoTypeOK
    <3>2. IsFiniteSet(Tried(i, u) \cup {d})
          /\ Cardinality(Tried(i, u) \cup {d}) <= Cardinality(Tried(i, u)) + 1
          /\ Cardinality(Tried(i, u) \cup {d}) \in Nat
      <4>1. /\ IsFiniteSet(Tried(i, u) \cup {d})
            /\ Cardinality(Tried(i, u) \cup {d}) = Cardinality(Tried(i, u))
                 \/ Cardinality(Tried(i, u) \cup {d}) = Cardinality(Tried(i, u)) + 1
        BY <1>1, FS_AddElement
      <4> QED BY ONLY <1>1, <4>1
    <3>3. Cardinality(Tried(i, u)') <= Cardinality(Tried(i, u) \cup {d})
          /\ Cardinality(Tried(i, u)') \in Nat
      BY <2>1, <2>2, <3>2, FS_Subset, FS_CardinalityType
    <3> QED BY <1>1, <3>1, <3>2, <3>3
  <2>3. CASE ~(j = i /\ v = u)
    <3>1. Cardinality(Tried(i, u)') <= Cardinality(Tried(i, u)) /\ Cardinality(Tried(i, u)') \in Nat
      BY <1>2, <2>1, <2>3
    <3>2. moPc' = "idle" \/ UNCHANGED moVars
      BY <1>5 DEF Queued
    <3> QED BY <1>1, <3>1, <3>2 DEF moVars
  <2> QED BY <2>2, <2>3
<1> QED BY <1>4, <1>5, OnlyQueuedCreated

\* The blocklist ends the monitor's retries: unless a user sets a status or queues the release by
\* hand, no more rows of it fail than the threshold allows (monitor.recordDownloadFailures,
\* createAutoDownload).
THEOREM BlocklistAlwaysStops == NoHand => (Spec => []BlocklistStopsRegrabs)
<1> SUFFICES ASSUME NoHand PROVE Spec => []BlocklistStopsRegrabs
  OBVIOUS
<1>1. Init => StopInv /\ BlocklistInv
  <2> SUFFICES ASSUME Init PROVE StopInv /\ BlocklistInv
    OBVIOUS
  <2>1. \A i, u : Tried(i, u) = {}
    BY DEF Init, StoreInit, NoRow, Tried, Exists, Statuses, ActiveDownloadStatuses,
           TerminalFailureStatuses
  <2> QED BY <2>1, StopInitially, FS_EmptySet, MonitorAssumption DEF Init, MoInit, BlocklistInv
<1>2. StopInv /\ BlocklistInv /\ [Next]_vars => (StopInv /\ BlocklistInv)'
  BY BlocklistKept, StopStep
<1>3. BlocklistInv => BlocklistStopsRegrabs
  <2> SUFFICES ASSUME BlocklistInv, NEW i \in Movies, NEW u \in Urls \ ManualUrls
               PROVE  Cardinality(Failures(i, u)) <= MaxBlocklistFailures
    BY DEF BlocklistStopsRegrabs
  <2>1. Failures(i, u) \subseteq Tried(i, u)
    BY DEF Failures, RowsOf, Tried, TerminalFailureStatuses
  <2>2. Cardinality(Failures(i, u)) <= Cardinality(Tried(i, u)) /\ Cardinality(Failures(i, u)) \in Nat
    BY <2>1, TriedFinite, FS_Subset, FS_CardinalityType
  <2> QED BY <2>2, TriedFinite, MonitorAssumption DEF BlocklistInv
<1> QED BY <1>1, <1>2, <1>3, PTL DEF Spec

-----------------------------------------------------------------------------
(* The row being imported                                                  *)

\* No request sets the status importing, as the user interface never does.
NoImportByHand == "importing" \notin UserStatuses

\* Once the import is decided, the importer's snapshot says so.
OwnInv ==
  /\ ImportingRowOwned
  /\ imPc \in {"remove", "finalize", "seedremove"} => imView[imCur].status # "importing"

\* No row becomes importing, and one that is stays as it is or becomes something else.
NoneImported == \A d \in Downloads : downloads'[d].status = "importing" => downloads'[d] = downloads[d]

LEMMA WriteImportsNone ==
  ASSUME StoreInv, NEW d, NEW next, next.status # "importing", NEW row, Successor(row, next),
         UpdateDownload(d, next)
  PROVE  NoneImported
<1>1. Written(next).status = next.status
  BY DEF Written, Successor, LiveRow
<1>2. downloads' = [downloads EXCEPT ![d] = Written(next)] \/ UNCHANGED downloads
  BY DEF UpdateDownload, PutRow
<1> QED BY <1>1, <1>2 DEF NoneImported, StoreInv, StoreTypeOK

LEMMA OthersImportNone ==
  ASSUME NoImportByHand, PipelineInv, [Next]_vars, ~Import
  PROVE  NoneImported
<1> USE DEF PipelineInv
<1>0. UNCHANGED downloads => NoneImported
  BY DEF NoneImported
<1>1. CASE Worker
  <2>1. ASSUME dwPc \in {"fetch", "claim"}
        PROVE  dwView[dwCur] \in LiveRow /\ dwView[dwCur].status = "pending"
    <3>1. dwCur \in DwHeld
      BY <2>1 DEF DwInv, DwTypeOK, DwHeld
    <3> QED BY <2>1, <3>1 DEF DwInv, DwHeld, FreshOf
  <2>2. ASSUME NEW row \in LiveRow, row.status = "pending"
        PROVE  Retried(row).status # "importing" /\ Sent(row).status # "importing"
    BY <2>2, DwMoves DEF Moves, Looks, Lifecycle!Steps, LiveRow
  <2>3. CASE DwFetchFails \/ DwAddFails
    BY <2>1, <2>2, <2>3, Successors, WriteImportsNone DEF DwFetchFails, DwAddFails
  <2>4. CASE DwClaim
    <3>1. CASE UNCHANGED downloads
      BY <1>0, <3>1
    <3>2. CASE Current(dwCur, dwView[dwCur]) /\ PutRow(dwCur, Sent(dwView[dwCur]))
      <4>1. Successor(dwView[dwCur], Sent(dwView[dwCur]))
        BY <2>1, <2>4, Successors DEF DwClaim
      <4>2. UpdateDownload(dwCur, Sent(dwView[dwCur]))
        BY <3>2, <4>1 DEF UpdateDownload, Current, Successor
      <4> QED BY <2>1, <2>2, <2>4, <4>1, <4>2, WriteImportsNone DEF DwClaim
    <3> QED BY <2>4, <3>1, <3>2 DEF DwClaim
  <2>5. ASSUME NEW d \in Downloads, DwPoll(d) PROVE NoneImported
    <3> DEFINE row == dwView[d]
    <3>1. row \in LiveRow
      BY <2>5 DEF DwPoll, DwInv, DwHeld, FreshOf
    <3>2. \/ UNCHANGED downloads
          \/ UpdateDownload(d, Missing(row))
          \/ UpdateDownload(d, [row EXCEPT !.status = "downloaded"])
          \/ UpdateDownload(d, [row EXCEPT !.status = "failed", !.backoff = FALSE])
      BY <2>5 DEF DwPoll, HandleMissingTorrent, UpdateFromTorrent
    <3>3. /\ Missing(row).status # "importing" /\ [row EXCEPT !.status = "downloaded"].status # "importing"
          /\ [row EXCEPT !.status = "failed", !.backoff = FALSE].status # "importing"
      BY <3>1 DEF Missing, LiveRow
    <3>4. {"downloaded", "failed"} \subseteq Statuses
      BY DEF Statuses, ActiveDownloadStatuses, TerminalFailureStatuses
    <3> HIDE DEF row
    <3> QED BY <1>0, <3>1, <3>2, <3>3, <3>4, Successors, WriteImportsNone
  <2> QED BY <1>0, <1>1, <2>3, <2>4, <2>5
          DEF Worker, DwNext, DwListPending, DwAddTorrent, DwReuseTorrent, DwUndo,
              DwListDownloading, DwTickEnds, DwCheckItem, storeVars
<1>2. CASE Removal
  <2>1. ASSUME NEW S, \A d \in S : d \in Downloads /\ Exists(d),
               NEW s \in {"cancelled", "deleted"},
               \A d \in Downloads : IF d \in S THEN downloads'[d].status = s
                                    ELSE downloads'[d] = downloads[d]
        PROVE  NoneImported
    BY <2>1 DEF NoneImported
  <2>2. PICK r \in Requests : RqAccept(r) \/ RqProceed(r)
    BY <1>2 DEF Removal, RqNext
  <2>3. ASSUME NEW d \in Downloads, RqCancel(r, d) PROVE NoneImported
    <3>1. Exists(d) /\ downloads' = [downloads EXCEPT ![d] = Cancelled(downloads[d])]
      BY <2>3 DEF RqCancel
    <3> QED BY <3>1, CancelledRow DEF NoneImported, StoreInv, StoreTypeOK
  <2>4. ASSUME NEW i \in Items, RqPrepare(r, i) PROVE NoneImported
    <3>1. CASE downloads' = CancelAll(i)
      <4>1. \A d \in RowsOf(i) : Written([downloads[d] EXCEPT !.status = "cancelled"]).status = "cancelled"
        BY CancelledRow DEF RowsOf, Written, LiveRow
      <4> QED BY <3>1, <4>1 DEF CancelAll, NoneImported
    <3> QED BY <1>0, <2>4, <3>1 DEF RqPrepare
  <2>5. \A d \in Downloads : Exists(d) => Deleted(downloads[d]).status = "deleted"
    BY CancelledRow, Rows
  <2>6. CASE RqDownloadRecord(r)
    BY <1>0, <2>5, <2>6 DEF RqDownloadRecord, Preimage, Current, NoneImported, StoreInv, StoreTypeOK
  <2>7. CASE RqItemRecord(r)
    BY <1>0, <2>5, <2>7 DEF RqItemRecord, RowsOf, NoneImported
  <2>8. CASE \/ RqDownloadTorrent(r) \/ RqDownloadFiles(r) \/ RqListFiles(r)
             \/ RqItemTorrents(r) \/ RqItemFiles(r)
    BY <1>0, <2>8 DEF RqDownloadTorrent, RqDownloadFiles, RqListFiles, RqItemTorrents, RqItemFiles,
                      storeVars
  <2> QED BY <2>2, <2>3, <2>4, <2>6, <2>7, <2>8 DEF RqAccept, RqProceed
<1>3. ASSUME NEW d \in Downloads, NEW i \in Items, NEW u \in Urls, NEW ep \in BOOLEAN,
             CreateDownload(d, i, u, ep)
      PROVE  NoneImported
  <2>1. downloads' = [downloads EXCEPT ![d] = NewRow(i, u, ep)]
    BY <1>3, RowCreated
  <2>2. NewRow(i, u, ep).status = "pending"
    BY DEF NewRow, NoRow
  <2> QED BY <2>1, <2>2 DEF NoneImported, StoreInv, StoreTypeOK
<1>4. CASE Monitor \/ ManualCreate
  <2>1. (\E d \in Downloads : MoGrab(d)) \/ ManualCreate \/ UNCHANGED downloads
    BY <1>4 DEF Monitor, MoNext, MoFindNothing, MoGiveUp, MoCheck, MoPick, storeVars
  <2>2. (\E d \in Downloads : MoGrab(d)) \/ ManualCreate
          => \E d \in Downloads, i \in Items, u \in Urls, ep \in BOOLEAN : CreateDownload(d, i, u, ep)
    BY MonitorAssumption, PipelineAssumption DEF MoGrab, MoTypeOK, ManualCreate, Create
  <2> QED BY <1>0, <1>3, <2>1, <2>2
<1>5. CASE Backfill
  <2>1. ASSUME NEW d \in Downloads, BfResolve(d) PROVE NoneImported
    <3>1. bfView[d] \in LiveRow /\ bfView[d].status # "importing"
      BY <2>1 DEF BfResolve, BfHeld, BfInv, FreshOf, BfSkipped
    <3>2. [bfView[d] EXCEPT !.episode = TRUE].status # "importing"
      BY <3>1 DEF LiveRow
    <3> QED BY <2>1, <3>1, <3>2, Successors, WriteImportsNone DEF BfResolve
  <2> QED BY <1>0, <1>5, <2>1 DEF Backfill, BfNext, BfList, BfDone, BfRefresh, BfUnresolved, storeVars
<1>6. CASE StatusRequest
  <2>1. PICK d \in Downloads, s \in UserStatuses : UpdateStatus(d, s)
    BY <1>6 DEF StatusRequest
  <2>2. downloads[d] \in LiveRow /\ s # "importing"
    BY <2>1, CancelledRow DEF UpdateStatus, NoImportByHand
  <2>3. Written(WithStatus(downloads[d], s)).status = s
    BY <2>2 DEF WithStatus, Written, LiveRow
  <2> QED BY <2>1, <2>2, <2>3 DEF UpdateStatus, PutRow, NoneImported, StoreInv, StoreTypeOK
<1>7. CASE Restart
  <2>1. PICK reachable \in BOOLEAN : Reconcile(reachable)
    BY <1>7 DEF Restart
  <2>2. ASSUME NEW d \in Downloads PROVE downloads'[d].status # "importing"
    <3> DEFINE next == Reconciled(Recovered(downloads[d]), reachable)
    <3>1. downloads[d] \in Row
      BY DEF StoreInv, StoreTypeOK
    <3>2. next.status # "importing" /\ Written(next).status = next.status
      <4>1. Recovered(downloads[d]) \in Row /\ Recovered(downloads[d]).status # "importing"
        BY <3>1 DEF Recovered, Row, Statuses, ActiveDownloadStatuses
      <4>2. next \in Row /\ next.status # "importing"
        BY <4>1 DEF Reconciled, Missing, Row, Statuses, ActiveDownloadStatuses, TerminalFailureStatuses
      <4> HIDE DEF next
      <4> QED BY <4>2 DEF Written, Row
    <3> HIDE DEF next
    <3>3. downloads'[d] = IF next = downloads[d] THEN next ELSE Written(next)
      BY <2>1 DEF Reconcile, next
    <3> QED BY <3>2, <3>3
  <2> QED BY <2>2 DEF NoneImported
<1>8. CASE Client \/ Outage \/ MonitorRequest \/ UNCHANGED vars
  BY <1>0, <1>8 DEF Client, Outage, QbitStep, MonitorRequest, SetMonitored, vars, storeVars
<1> QED BY <1>1, <1>2, <1>4, <1>5, <1>6, <1>7, <1>8 DEF Next

LEMMA ImportsOwned ==
  ASSUME PipelineInv, DeletionStopsDownloads, OwnInv, Import
  PROVE  OwnInv'
<1> USE DEF PipelineInv, StoreInv, StoreTypeOK
<1>1. ImNext /\ ImInv
  BY DEF Import
<1> DEFINE NoneHeld == \A d \in Downloads : downloads[d].status # "importing"
\* When no row is in hand, or its import is decided, no row is importing.
<1>2. imPc \notin {"load", "link", "record"} => NoneHeld
  BY StoreAssumption DEF OwnInv, ImportingRowOwned, ImInv, ImTypeOK, ImBusy
<1>3. \A d \in Downloads : d # imCur => downloads[d].status # "importing"
  BY DEF OwnInv, ImportingRowOwned
<1>4. \A d \in ImHeld : imView[d] \in LiveRow
  BY DEF ImInv, ImHeld, FreshOf
<1>5. imPc \in ImBusy => imCur \in ImHeld /\ imCur \in Downloads
  BY DEF ImInv, ImTypeOK, ImHeld
\* None is importing before, and none is written.
<1>6. ASSUME NoneHeld, UNCHANGED downloads,
             imPc' \in {"remove", "finalize", "seedremove"} => imView'[imCur'].status # "importing"
      PROVE  OwnInv'
  BY <1>6 DEF OwnInv, ImportingRowOwned
\* The row in hand stays as it is.
<1>7. ASSUME UNCHANGED <<downloads, imView, imCur>>,
             imPc' \in {"remove", "finalize", "seedremove"} => imPc \in {"remove", "finalize", "seedremove"}
      PROVE  OwnInv'
  BY <1>7 DEF OwnInv, ImportingRowOwned
\* The row in hand is written with another status, or was something else already.
<1>8. ASSUME imPc \in {"load", "link", "record"}, NEW next, Successor(imView[imCur], next),
             next.status # "importing", UpdateDownload(imCur, next)
      PROVE  \A d \in Downloads : downloads'[d].status # "importing"
  <2>1. imCur \in Downloads /\ imView[imCur] # NoRow /\ FreshOf(imView[imCur], downloads[imCur])
    BY <1>5, <1>8 DEF ImInv, ImHeld, ImBusy
  <2>2. CASE Current(imCur, next)
    <3>1. downloads' = [downloads EXCEPT ![imCur] = Written(next)]
      BY <1>8, <2>1, <2>2, UpdateKeeps
    <3>2. Written(next).status = next.status
      BY <1>8 DEF Written, Successor, LiveRow
    <3> QED BY <1>3, <1>8, <3>1, <3>2
  <2>3. CASE ~Current(imCur, next)
    <3>1. UNCHANGED downloads
      BY <1>8, <2>3 DEF UpdateDownload
    <3>2. downloads[imCur].status # "importing"
      <4> SUFFICES ASSUME downloads[imCur].status = "importing" PROVE FALSE
        OBVIOUS
      <4>1. imView[imCur] = downloads[imCur] /\ Exists(imCur)
        BY <2>1 DEF OwnInv, ImportingRowOwned, Exists, Statuses, ActiveDownloadStatuses
      <4> QED BY <1>8, <2>3, <4>1 DEF Current, Successor
    <3> QED BY <1>3, <3>1, <3>2
  <2> QED BY <2>2, <2>3
<1>9. ASSUME imPc \in {"load", "link", "record"}, NEW next, Successor(imView[imCur], next),
             next.status # "importing", ImGivesUp(next)
      PROVE  OwnInv'
  BY <1>8, <1>9 DEF ImGivesUp, ImNextRow, OwnInv, ImportingRowOwned
<1>10. ASSUME imPc \in {"load", "link", "record"}
       PROVE  /\ imView[imCur] \in LiveRow
              /\ Successor(imView[imCur], ImportFailed(imView[imCur]))
              /\ Successor(imView[imCur], ImportRetried(imView[imCur]))
              /\ ImportFailed(imView[imCur]).status # "importing"
              /\ ImportRetried(imView[imCur]).status # "importing"
  <2>1. imView[imCur] \in LiveRow
    BY <1>4, <1>5, <1>10 DEF ImBusy
  <2>2. imView[imCur].status = "importing"
    BY <1>10 DEF ImInv
  <2>3. Moves(imView[imCur], ImportFailed(imView[imCur])) /\ Moves(imView[imCur], ImportRetried(imView[imCur]))
    BY <2>1, <2>2, ImMoves
  <2> QED BY <2>1, <2>2, <2>3, Successors DEF Moves, Lifecycle!Steps
<1>11. CASE \/ ImListDownloaded \/ ImListSeeding \/ ImTickEnds
            \/ \E d \in Downloads : ImKeepSeeding(d)
  BY <1>2, <1>6, <1>11 DEF ImListDownloaded, ImListSeeding, ImTickEnds, ImKeepSeeding, storeVars
<1>12. CASE \/ ImLoad \/ ImRecord \/ ImRemoveTorrent \/ \E v \in Videos : ImSkip(v) \/ ImLink(v)
  BY <1>7, <1>12 DEF ImLoad, ImRecord, ImRemoveTorrent, ImSkip, ImLink, storeVars
<1>13. CASE ImFinalize \/ ImSeedRemove
  BY <1>2, <1>6, <1>13 DEF ImFinalize, ImSeedRemove, ImNextRow
<1>14. CASE ImLoadFails \/ ImLinkFails \/ ImNothingImported
  BY <1>9, <1>10, <1>14 DEF ImLoadFails, ImLinkFails, ImNothingImported
\* The importer leaves the row of an item being deleted as it claimed it: it is cancelled.
<1>15. CASE ImParentGone
  <2>1. CASE mediaItems[imView[imCur].item].present
    <3>1. imPc = "load" /\ ImNextRow("import") /\ UNCHANGED downloads /\ ~Open(imView[imCur].item)
      BY <1>15, <2>1 DEF ImParentGone, storeVars
    <3>2. downloads[imCur].status # "importing"
      <4> SUFFICES ASSUME downloads[imCur].status = "importing" PROVE FALSE
        OBVIOUS
      <4>1. imCur \in Downloads /\ imView[imCur] = downloads[imCur] /\ Exists(imCur)
        BY <1>5, <3>1 DEF ImBusy, OwnInv, ImportingRowOwned, Exists, Statuses, ActiveDownloadStatuses
      <4> QED BY <3>1, <4>1 DEF DeletionStopsDownloads
    <3> QED BY <1>3, <1>6, <3>1, <3>2 DEF ImNextRow
  <2>2. CASE ~mediaItems[imView[imCur].item].present
    BY <1>9, <1>10, <1>15, <2>2 DEF ImParentGone
  <2> QED BY <2>1, <2>2
<1>16. ASSUME NEW d \in Downloads, ImClaim(d) PROVE OwnInv'
  <2> DEFINE claimed == [imView[d] EXCEPT !.status = "importing"]
  <2>1. NoneHeld /\ d \in ImHeld /\ UpdateDownload(d, claimed) /\ imPc = "import"
    BY <1>2, <1>16 DEF ImClaim
  <2>2. CASE Current(d, claimed)
    <3>1. /\ imView' = [imView EXCEPT ![d] = Written(claimed)] /\ imPc' = "load" /\ imCur' = d
          /\ downloads' = [downloads EXCEPT ![d] = Written(claimed)]
      BY <1>16, <2>1, <2>2 DEF ImClaim, UpdateDownload, PutRow
    <3> HIDE DEF claimed
    <3> QED BY <2>1, <3>1 DEF OwnInv, ImportingRowOwned, ImInv, ImTypeOK
  <2>3. CASE ~Current(d, claimed)
    BY <1>6, <1>16, <2>1, <2>3 DEF ImClaim, UpdateDownload
  <2> QED BY <2>2, <2>3
<1>17. {"seeding", "completed"} \subseteq Statuses
  BY DEF Statuses, ActiveDownloadStatuses
<1>18. CASE ImFinish
  <2>1. PICK s \in {"seeding", "completed"} :
          LET next == [imView[imCur] EXCEPT !.status = s, !.linked = TRUE]
          IN  /\ UpdateDownload(imCur, next)
              /\ IF Current(imCur, next)
                 THEN /\ imPc' = IF s = "completed" THEN "remove" ELSE "finalize"
                      /\ imView' = [imView EXCEPT ![imCur] = Written(next)]
                      /\ UNCHANGED <<imCur, ImScratch>>
                 ELSE ImNextRow("import")
    BY <1>18 DEF ImFinish
  <2> DEFINE next == [imView[imCur] EXCEPT !.status = s, !.linked = TRUE]
  <2>2. imPc = "link" /\ imCur \in Downloads
    BY <1>5, <1>18 DEF ImFinish, ImBusy
  <2>3. Successor(imView[imCur], next) /\ next.status # "importing"
    BY <1>10, <1>17, <2>2, Successors DEF LiveRow
  <2>4. Written(next).status # "importing"
    BY <2>3 DEF Written, Successor, LiveRow
  <2>5. \A d \in Downloads : downloads'[d].status # "importing"
    BY <1>8, <2>1, <2>2, <2>3
  <2>6. imPc' = "import" \/ (imCur' = imCur /\ imView' = [imView EXCEPT ![imCur] = Written(next)])
    BY <2>1 DEF ImNextRow
  <2> HIDE DEF next
  <2> QED BY <2>2, <2>4, <2>5, <2>6 DEF OwnInv, ImportingRowOwned, ImInv, ImTypeOK
<1>19. ASSUME NEW d \in Downloads, ImCompleteSeeding(d) PROVE OwnInv'
  <2> DEFINE next == [imView[d] EXCEPT !.status = "completed"]
  <2>1. NoneHeld /\ d \in ImHeld /\ UpdateDownload(d, next) /\ imView[d] \in LiveRow /\ imPc = "seeding"
    BY <1>2, <1>4, <1>19 DEF ImCompleteSeeding
  <2>2. Successor(imView[d], next) /\ next.status # "importing"
    BY <1>17, <2>1, Successors DEF LiveRow
  <2>3. Written(next).status # "importing"
    BY <2>2 DEF Written, Successor, LiveRow
  <2>4. imPc' = "seeding" \/ (imCur' = d /\ imView' = [imView EXCEPT ![d] = Written(next)])
    BY <1>19, <2>1 DEF ImCompleteSeeding
  <2> HIDE DEF next
  <2>5. \A e \in Downloads : downloads'[e].status # "importing"
    BY <2>1, <2>2, WriteImportsNone DEF NoneImported
  <2> QED BY <2>1, <2>3, <2>4, <2>5 DEF OwnInv, ImportingRowOwned, ImInv, ImTypeOK, ImHeld
<1> QED BY <1>1, <1>11, <1>12, <1>13, <1>14, <1>15, <1>16, <1>18, <1>19 DEF ImNext

\* A row is importing only in the hands of this process's importer, which holds its present
\* version (importer.importOne, download.recoverStuckImporting).
THEOREM ImportingAlwaysOwned == NoImportByHand => (Spec => []ImportingRowOwned)
<1> SUFFICES ASSUME NoImportByHand PROVE Spec => []ImportingRowOwned
  OBVIOUS
<1>1. Init => StopInv /\ OwnInv
  BY StopInitially DEF Init, StoreInit, ImInit, NoRow, OwnInv, ImportingRowOwned
<1>2. ASSUME StopInv, OwnInv, [Next]_vars PROVE OwnInv'
  <2>1. CASE Import
    BY <1>2, <2>1, ImportsOwned DEF StopInv
  <2>2. CASE ~Import
    <3>1. NoneImported
      BY <1>2, <2>2, OthersImportNone DEF StopInv
    <3>2. UNCHANGED imVars \/ Restart
      BY <1>2, <2>2 DEF Next, Worker, Removal, Monitor, Backfill, Client, Outage, ManualCreate,
                        StatusRequest, MonitorRequest, vars
    <3>3. CASE UNCHANGED imVars
      BY <1>2, <3>1, <3>3 DEF OwnInv, ImportingRowOwned, NoneImported, imVars
    <3>4. CASE Restart
      <4>1. PICK reachable \in BOOLEAN : Reconcile(reachable)
        BY <3>4 DEF Restart
      <4>2. \A d \in Downloads : downloads'[d].status # "importing"
        <5> SUFFICES ASSUME NEW d \in Downloads, downloads'[d].status = "importing" PROVE FALSE
          OBVIOUS
        <5>1. downloads'[d] = downloads[d] /\ downloads[d] \in Row
          BY <1>2, <3>1 DEF NoneImported, StopInv, PipelineInv, StoreInv, StoreTypeOK
        <5>2. Reconciled(Recovered(downloads[d]), reachable).status = "downloaded"
          BY <5>1 DEF Reconciled, Recovered, Row, Statuses, ActiveDownloadStatuses
        <5>3. \A row : row.status = "downloaded" => row # downloads[d]
          BY <5>1
        <5>4. downloads'[d] = Written(Reconciled(Recovered(downloads[d]), reachable))
          BY <4>1, <5>2, <5>3 DEF Reconcile
        <5>5. Reconciled(Recovered(downloads[d]), reachable) = [downloads[d] EXCEPT !.status = "downloaded"]
          BY <5>1 DEF Reconciled, Recovered, Row, Statuses, ActiveDownloadStatuses
        <5> QED BY <5>1, <5>4, <5>5 DEF Written, Row
      <4> QED BY <3>4, <4>2 DEF Restart, OwnInv, ImportingRowOwned
    <3> QED BY <3>2, <3>3, <3>4
  <2> QED BY <2>1, <2>2
<1>3. StopInv /\ OwnInv /\ [Next]_vars => (StopInv /\ OwnInv)'
  BY <1>2, StopStep
<1>4. OwnInv => ImportingRowOwned
  BY DEF OwnInv
<1> QED BY <1>1, <1>3, <1>4, PTL DEF Spec

-----------------------------------------------------------------------------
(* Torrents and library files                                              *)

\* No call to the client fails or loses its answer, and the process does not die.
NoLoss == {"lost", "delete"} \cap Faults = {} /\ MaxRestarts = 0

Present(h) == torrents[h] # "absent"

\* A removal that is past the torrents has d's row to delete, as it is now.
Spent(d) ==
  \E r \in Requests :
    \/ rqPc[r] \in {"dFiles", "dRecord"} /\ rqTarget[r] = d /\ Current(d, rqView[r])
    \/ rqPc[r] \in {"iFiles", "iRecord"} /\ rqTarget[r] = downloads[d].item

Claims(d, h) == Exists(d) /\ downloads[d].hash = h /\ ~Spent(d)
Sends(h) == dwPc \in {"claim", "undo"} /\ dwAdded /\ DwTorrent = h
Removes(r, h) == rqPc[r] \in {"iList", "dTorrent", "iTorrents"} /\ h \in rqHashes[r]

Answered(h) ==
  (\E d \in Downloads : Claims(d, h)) \/ Sends(h) \/ \E r \in Requests : Removes(r, h)

\* A row's hash is that of its release, and a removal knows the hashes it has to remove.
ReleaseHashes == \A d \in Downloads : Exists(d) => downloads[d].hash \in {None, HashOf[downloads[d].url]}
HashInv ==
  /\ ReleaseHashes
  /\ \A r \in Requests :
       /\ rqPc[r] = "dTorrent" => rqView[r].hash \in rqHashes[r] \cup {None}
       /\ rqPc[r] \in {"iList", "iTorrents"} =>
            \A d \in RowsOf(rqTarget[r]) : downloads[d].hash \in rqHashes[r] \cup {None}

ClaimInv == HashInv /\ \A h \in Hashes : Present(h) => Answered(h)

-----------------------------------------------------------------------------
(* The hash of a row                                                       *)

\* What a step does to a row's hash: nothing, or it is that of the release, which is sent, or it
\* is forgotten with a torrent that is gone; a removal has taken what it knew before the row goes.
HashMove(d) ==
  /\ ~Exists(d) /\ Exists(d)' => downloads'[d].hash = None
  /\ Exists(d) /\ Exists(d)' =>
       \/ downloads'[d].hash = downloads[d].hash
       \/ Open(downloads[d].item) /\ downloads'[d].hash = HashOf[downloads[d].url]
       \/ downloads'[d].hash = None /\ (downloads[d].hash # None => ~Present(downloads[d].hash))
  /\ Exists(d) /\ ~Exists(d)' => Spent(d)
HashesMove == \A d \in Downloads : HashMove(d)

LEMMA HashesStay == UNCHANGED downloads => HashesMove
BY DEF HashesMove, HashMove, Exists

LEMMA LiveRowsExist ==
  /\ \A row \in LiveRow : row.status \in Statuses /\ Written(row).hash = row.hash
  /\ StoreInv => \A d \in Downloads : Exists(d) => downloads[d] \in LiveRow
<1>1. \A row \in LiveRow : row.status \in Statuses /\ Written(row).hash = row.hash
  BY DEF LiveRow, Written
<1> QED BY <1>1, CancelledRow

LEMMA HashWritten ==
  ASSUME StoreInv, NEW d \in Downloads, NEW view, view # NoRow, FreshOf(view, downloads[d]),
         NEW next, Successor(view, next), UpdateDownload(d, next),
         \/ next.hash = view.hash
         \/ Open(view.item) /\ next.hash = HashOf[view.url]
         \/ next.hash = None /\ (view.hash # None => ~Present(view.hash))
  PROVE  HashesMove
<1>1. CASE Current(d, next)
  <2>1. view = downloads[d] /\ downloads' = [downloads EXCEPT ![d] = Written(next)]
        /\ next \in LiveRow /\ Written(next) \in LiveRow
    BY <1>1, UpdateKeeps DEF Successor
  <2>2. downloads'[d] = Written(next) /\ \A e \in Downloads \ {d} : downloads'[e] = downloads[e]
    BY <2>1 DEF StoreInv, StoreTypeOK
  <2>3. \A e \in Downloads \ {d} : HashMove(e)
    BY <2>2 DEF HashMove, Exists
  <2>4. Exists(d) /\ Exists(d)'
    BY <1>1, <2>1, <2>2, LiveRowsExist DEF Current, Exists
  <2>5. downloads'[d].hash = next.hash
    BY <2>1, <2>2, LiveRowsExist
  <2>6. HashMove(d)
    BY <2>1, <2>4, <2>5 DEF HashMove
  <2> QED BY <2>3, <2>6 DEF HashesMove
<1>2. CASE ~Current(d, next)
  BY <1>2, HashesStay DEF UpdateDownload
<1> QED BY <1>1, <1>2

\* What the writes do to the hash.
LEMMA HashesWritten ==
  ASSUME NEW row \in LiveRow
  PROVE  /\ Retried(row).hash = row.hash /\ Sent(row).hash = HashOf[row.url]
         /\ Missing(row).hash \in {row.hash, None}
         /\ ImportFailed(row).hash = row.hash /\ ImportRetried(row).hash = row.hash
         /\ [row EXCEPT !.episode = TRUE].hash = row.hash
         /\ \A s \in Statuses :
              /\ [row EXCEPT !.status = s].hash = row.hash
              /\ [row EXCEPT !.status = s, !.backoff = FALSE].hash = row.hash
              /\ [row EXCEPT !.status = s, !.linked = TRUE].hash = row.hash
              /\ WithStatus(row, s).hash = row.hash
<1> USE DEF LiveRow
<1>1. Retried(row).hash = row.hash
  <2> DEFINE n == row.retryCount + 1
  <2> HIDE DEF n
  <2>1. Retried(row) \in {[row EXCEPT !.retryCount = n, !.backoff = TRUE],
                          [row EXCEPT !.status = "failed", !.backoff = FALSE]}
    BY DEF Retried, n
  <2> QED BY <2>1
<1>2. ImportRetried(row).hash = row.hash
  <2> DEFINE n == row.retryCount + 1
  <2> HIDE DEF n
  <2>1. ImportRetried(row) \in {[row EXCEPT !.status = "import_failed", !.backoff = FALSE],
                                [row EXCEPT !.status = "downloaded", !.retryCount = n, !.backoff = TRUE]}
    BY DEF ImportRetried, ImportFailed, n
  <2> QED BY <2>1
<1>3. Sent(row).hash = HashOf[row.url] /\ Missing(row).hash \in {row.hash, None}
  BY DEF Sent, Missing
<1>4. ImportFailed(row).hash = row.hash /\ [row EXCEPT !.episode = TRUE].hash = row.hash
  BY DEF ImportFailed
<1>5. ASSUME NEW s \in Statuses
      PROVE  /\ [row EXCEPT !.status = s].hash = row.hash
             /\ [row EXCEPT !.status = s, !.backoff = FALSE].hash = row.hash
             /\ [row EXCEPT !.status = s, !.linked = TRUE].hash = row.hash
             /\ WithStatus(row, s).hash = row.hash
  BY DEF WithStatus
<1> QED BY <1>1, <1>2, <1>3, <1>4, <1>5

LEMMA DwHashes ==
  ASSUME StoreInv, DwInv, DwNext
  PROVE  HashesMove
<1>1. ASSUME dwPc \in {"fetch", "claim"}
      PROVE  /\ dwCur \in Downloads /\ dwView[dwCur] # NoRow /\ dwView[dwCur] \in LiveRow
             /\ FreshOf(dwView[dwCur], downloads[dwCur])
  BY <1>1 DEF DwInv, DwTypeOK, DwHeld, FreshOf
<1>2. CASE DwFetchFails \/ DwAddFails
  BY <1>1, <1>2, Successors, HashesWritten, HashWritten DEF DwFetchFails, DwAddFails
<1>3. CASE DwClaim
  <2> DEFINE row == dwView[dwCur]
  <2>1. CASE Open(row.item) /\ Current(dwCur, row)
    <3>1. UpdateDownload(dwCur, Sent(row))
      BY <1>1, <1>3, <2>1, Successors DEF DwClaim, UpdateDownload, Current, Successor
    <3>2. Sent(row).hash = HashOf[row.url] /\ Successor(row, Sent(row))
      BY <1>1, <1>3, Successors, HashesWritten DEF DwClaim
    <3> QED BY <1>1, <1>3, <2>1, <3>1, <3>2, HashWritten DEF DwClaim
  <2>2. CASE ~(Open(row.item) /\ Current(dwCur, row))
    BY <1>3, <2>2, HashesStay DEF DwClaim
  <2> QED BY <2>1, <2>2
<1>4. ASSUME NEW d \in Downloads, DwPoll(d) PROVE HashesMove
  <2> DEFINE row == dwView[d]
  <2>1. row # NoRow /\ row \in LiveRow /\ FreshOf(row, downloads[d])
    BY <1>4 DEF DwPoll, DwInv, DwHeld, FreshOf
  <2>2. \/ UNCHANGED downloads
        \/ UpdateDownload(d, Missing(row)) /\ ~Present(row.hash)
        \/ UpdateDownload(d, [row EXCEPT !.status = "downloaded"])
        \/ UpdateDownload(d, [row EXCEPT !.status = "failed", !.backoff = FALSE])
    BY <1>4 DEF DwPoll, HandleMissingTorrent, UpdateFromTorrent, Present
  <2>3. {"downloaded", "failed"} \subseteq Statuses
    BY DEF Statuses, ActiveDownloadStatuses, TerminalFailureStatuses
  <2> HIDE DEF row
  <2>4. CASE UpdateDownload(d, Missing(row)) /\ ~Present(row.hash)
    BY <2>1, <2>4, Successors, HashesWritten, HashWritten
  <2>5. CASE UpdateDownload(d, [row EXCEPT !.status = "downloaded"])
    BY <2>1, <2>3, <2>5, Successors, HashesWritten, HashWritten
  <2>6. CASE UpdateDownload(d, [row EXCEPT !.status = "failed", !.backoff = FALSE])
    BY <2>1, <2>3, <2>6, Successors, HashesWritten, HashWritten
  <2> QED BY <2>2, <2>4, <2>5, <2>6, HashesStay
<1>5. DwFetchFails \/ DwAddFails \/ DwClaim \/ (\E d \in Downloads : DwPoll(d)) \/ UNCHANGED downloads
  BY DEF DwNext, DwListPending, DwAddTorrent, DwReuseTorrent, DwUndo, DwListDownloading, DwTickEnds,
         DwCheckItem, storeVars
<1> QED BY <1>2, <1>3, <1>4, <1>5, HashesStay

LEMMA ImHashes ==
  ASSUME StoreInv, ImInv, ImNext
  PROVE  HashesMove
<1>1. \A d \in ImHeld : /\ d \in Downloads /\ imView[d] # NoRow /\ imView[d] \in LiveRow
                        /\ FreshOf(imView[d], downloads[d])
  BY DEF ImInv, ImHeld, FreshOf
<1>2. {"importing", "seeding", "completed"} \subseteq Statuses
  BY DEF Statuses, ActiveDownloadStatuses
<1>3. ASSUME NEW d \in ImHeld, NEW next, Successor(imView[d], next), UpdateDownload(d, next),
             next.hash = imView[d].hash
      PROVE  HashesMove
  BY <1>1, <1>3, HashWritten
<1>4. imPc \in {"load", "link", "record"} => imCur \in ImHeld
  BY DEF ImInv, ImTypeOK, ImHeld, ImBusy
<1>5. ASSUME NEW d \in Downloads, ImClaim(d) PROVE HashesMove
  <2>1. d \in ImHeld /\ UpdateDownload(d, [imView[d] EXCEPT !.status = "importing"])
    BY <1>5 DEF ImClaim
  <2> QED BY <1>1, <1>2, <1>3, <2>1, Successors, HashesWritten
<1>6. ASSUME imPc \in {"load", "link", "record"},
             ImGivesUp(ImportFailed(imView[imCur])) \/ ImGivesUp(ImportRetried(imView[imCur]))
      PROVE  HashesMove
  BY <1>1, <1>3, <1>4, <1>6, Successors, HashesWritten DEF ImGivesUp
<1>7. CASE ImParentGone
  BY <1>6, <1>7, HashesStay DEF ImParentGone, storeVars
<1>8. CASE ImLoadFails \/ ImLinkFails \/ ImNothingImported
  BY <1>6, <1>8 DEF ImLoadFails, ImLinkFails, ImNothingImported
<1>9. CASE ImFinish
  <2>1. PICK s \in {"seeding", "completed"} :
          UpdateDownload(imCur, [imView[imCur] EXCEPT !.status = s, !.linked = TRUE])
    BY <1>9 DEF ImFinish
  <2>2. imCur \in ImHeld
    BY <1>4, <1>9 DEF ImFinish
  <2>3. imView[imCur] \in LiveRow /\ s \in Statuses
    BY <1>1, <1>2, <2>2
  <2> DEFINE next == [imView[imCur] EXCEPT !.status = s, !.linked = TRUE]
  <2>4. Successor(imView[imCur], next) /\ next.hash = imView[imCur].hash
    BY <2>3, Successors, HashesWritten
  <2> HIDE DEF next
  <2>5. UpdateDownload(imCur, next)
    BY <2>1 DEF next
  <2> QED BY <1>3, <2>2, <2>4, <2>5
<1>10. ASSUME NEW d \in Downloads, ImCompleteSeeding(d) PROVE HashesMove
  <2>1. d \in ImHeld /\ UpdateDownload(d, [imView[d] EXCEPT !.status = "completed"])
    BY <1>10 DEF ImCompleteSeeding
  <2> QED BY <1>1, <1>2, <1>3, <2>1, Successors, HashesWritten
<1>11. \/ ImParentGone \/ ImLoadFails \/ ImLinkFails \/ ImNothingImported \/ ImFinish
       \/ \E d \in Downloads : ImClaim(d) \/ ImCompleteSeeding(d)
       \/ UNCHANGED downloads
  BY DEF ImNext, ImFinalize, ImListDownloaded, ImLoad, ImRecord, ImRemoveTorrent, ImListSeeding,
         ImSeedRemove, ImTickEnds, ImKeepSeeding, ImSkip, ImLink, storeVars
<1> QED BY <1>5, <1>7, <1>8, <1>9, <1>10, <1>11, HashesStay

LEMMA RqHashes ==
  ASSUME StoreInv, RqInv, RqNext
  PROVE  HashesMove
<1>1. PICK r \in Requests : RqAccept(r) \/ RqProceed(r)
  BY DEF RqNext
<1>2. ASSUME NEW S, \A d \in S : d \in Downloads /\ Exists(d),
             \A d \in Downloads : downloads'[d] = IF d \in S
               THEN Written([downloads[d] EXCEPT !.status = "cancelled"]) ELSE downloads[d]
      PROVE  HashesMove
  <2>1. ASSUME NEW d \in Downloads PROVE HashMove(d)
    <3>1. CASE d \in S
      <4>1. downloads[d] \in LiveRow /\ Exists(d)
        BY <1>2, <3>1, LiveRowsExist
      <4>2. [downloads[d] EXCEPT !.status = "cancelled"] \in LiveRow
            /\ [downloads[d] EXCEPT !.status = "cancelled"].hash = downloads[d].hash
        BY <4>1 DEF LiveRow, Statuses
      <4>3. downloads'[d] \in LiveRow /\ downloads'[d].hash = downloads[d].hash
        BY <1>2, <3>1, <4>2, LiveRowsExist, Rows
      <4> QED BY <4>1, <4>3, LiveRowsExist DEF HashMove, Exists
    <3>2. CASE d \notin S
      BY <1>2, <3>2 DEF HashMove, Exists
    <3> QED BY <3>1, <3>2
  <2> QED BY <2>1 DEF HashesMove
<1>3. ASSUME NEW d \in Downloads, RqCancel(r, d) PROVE HashesMove
  <2>1. Exists(d) /\ downloads' = [downloads EXCEPT ![d] = Cancelled(downloads[d])]
    BY <1>3 DEF RqCancel
  <2>2. \A e \in Downloads : downloads'[e] = IF e = d THEN Cancelled(downloads[d]) ELSE downloads[e]
    BY <2>1 DEF StoreInv, StoreTypeOK
  <2>3. CASE downloads[d].status = "cancelled"
    BY <2>2, <2>3 DEF Cancelled, HashesMove, HashMove, Exists
  <2>4. CASE downloads[d].status # "cancelled"
    <3> DEFINE S == {d}
    <3>1. \A e \in Downloads : downloads'[e] = IF e \in S
               THEN Written([downloads[e] EXCEPT !.status = "cancelled"]) ELSE downloads[e]
      BY <2>2, <2>4 DEF Cancelled
    <3>2. \A e \in S : e \in Downloads /\ Exists(e)
      BY <2>1
    <3> HIDE DEF S
    <3> QED BY <1>2, <3>1, <3>2
  <2> QED BY <2>3, <2>4
<1>4. ASSUME NEW i \in Items, RqPrepare(r, i) PROVE HashesMove
  <2>1. CASE downloads' = CancelAll(i)
    BY <1>2, <2>1 DEF CancelAll, RowsOf
  <2> QED BY <1>4, <2>1, HashesStay DEF RqPrepare
<1>5. CASE RqDownloadRecord(r)
  <2> DEFINE d == rqTarget[r]
  <2>1. CASE Preimage(r) /\ downloads' = [downloads EXCEPT ![d] = Deleted(@)]
    <3>1. d \in Downloads /\ Spent(d)
      BY <1>5, <2>1 DEF RqDownloadRecord, Preimage, Spent, RqInv, RqTypeOK, RqDownloadPcs
    <3>2. \A e \in Downloads \ {d} : downloads'[e] = downloads[e]
      BY <2>1 DEF StoreInv, StoreTypeOK
    <3>3. downloads'[d].status \notin Statuses /\ Exists(d)
      BY <2>1, <3>1, CancelledRow, Rows DEF Preimage, Current, StoreInv, StoreTypeOK, Statuses,
         ActiveDownloadStatuses, TerminalFailureStatuses
    <3> QED BY <3>1, <3>2, <3>3 DEF HashesMove, HashMove, Exists
  <2> QED BY <1>5, <2>1, HashesStay DEF RqDownloadRecord
<1>6. CASE RqItemRecord(r)
  <2>1. CASE downloads' = [d \in Downloads |-> IF d \in RowsOf(rqTarget[r])
                                              THEN Deleted(downloads[d]) ELSE downloads[d]]
    <3>1. ASSUME NEW d \in Downloads, d \in RowsOf(rqTarget[r]) PROVE HashMove(d)
      <4>1. Exists(d) /\ Spent(d) /\ downloads'[d].status = "deleted"
        BY <1>6, <2>1, <3>1, CancelledRow, Rows DEF RowsOf, RqItemRecord, Spent
      <4> QED BY <4>1 DEF HashMove, Exists, Statuses, ActiveDownloadStatuses, TerminalFailureStatuses
    <3>2. ASSUME NEW d \in Downloads, d \notin RowsOf(rqTarget[r]) PROVE HashMove(d)
      BY <2>1, <3>2 DEF HashMove, Exists
    <3> QED BY <3>1, <3>2 DEF HashesMove
  <2> QED BY <1>6, <2>1, HashesStay DEF RqItemRecord
<1>7. CASE \/ RqDownloadTorrent(r) \/ RqDownloadFiles(r) \/ RqListFiles(r)
           \/ RqItemTorrents(r) \/ RqItemFiles(r)
  BY <1>7, HashesStay DEF RqDownloadTorrent, RqDownloadFiles, RqListFiles, RqItemTorrents,
                          RqItemFiles, storeVars
<1> QED BY <1>1, <1>3, <1>4, <1>5, <1>6, <1>7 DEF RqAccept, RqProceed

LEMMA NoRestart == MaxRestarts = 0 /\ PipelineInv => ~Restart
BY DEF Restart, PipelineInv

LEMMA EveryHashMoves ==
  ASSUME ~Restart, PipelineInv, [Next]_vars
  PROVE  HashesMove
<1> USE DEF PipelineInv
<1>1. CASE Worker
  BY <1>1, DwHashes DEF Worker
<1>2. CASE Import
  BY <1>2, ImHashes DEF Import
<1>3. CASE Removal
  BY <1>3, RqHashes DEF Removal
<1>4. ASSUME NEW d \in Downloads, NEW i \in Items, NEW u \in Urls, NEW ep \in BOOLEAN,
             CreateDownload(d, i, u, ep)
      PROVE  HashesMove
  <2>1. downloads[d] = NoRow /\ downloads' = [downloads EXCEPT ![d] = NewRow(i, u, ep)]
    BY <1>4, RowCreated
  <2>2. \A e \in Downloads \ {d} : downloads'[e] = downloads[e]
    BY <2>1 DEF StoreInv, StoreTypeOK
  <2>3. downloads'[d].hash = None
    BY <2>1 DEF NewRow, NoRow, StoreInv, StoreTypeOK
  <2>4. ~Exists(d)
    BY <2>1, Rows DEF Exists, NoRow, Statuses, ActiveDownloadStatuses, TerminalFailureStatuses
  <2> QED BY <2>2, <2>3, <2>4 DEF HashesMove, HashMove, Exists
<1>5. CASE Monitor \/ ManualCreate
  <2>1. (\E d \in Downloads : MoGrab(d)) \/ ManualCreate \/ UNCHANGED downloads
    BY <1>5 DEF Monitor, MoNext, MoFindNothing, MoGiveUp, MoCheck, MoPick, storeVars
  <2>2. (\E d \in Downloads : MoGrab(d)) \/ ManualCreate
          => \E d \in Downloads, i \in Items, u \in Urls, ep \in BOOLEAN : CreateDownload(d, i, u, ep)
    BY MonitorAssumption, PipelineAssumption DEF MoGrab, MoTypeOK, ManualCreate, Create
  <2> QED BY <1>4, <2>1, <2>2, HashesStay
<1>6. CASE Backfill
  <2>1. ASSUME NEW d \in Downloads, BfResolve(d) PROVE HashesMove
    <3>1. bfView[d] \in LiveRow /\ bfView[d] # NoRow /\ FreshOf(bfView[d], downloads[d])
      BY <2>1 DEF BfResolve, BfHeld, BfInv, FreshOf
    <3> QED BY <2>1, <3>1, Successors, HashesWritten, HashWritten DEF BfResolve
  <2> QED BY <1>6, <2>1, HashesStay
          DEF Backfill, BfNext, BfList, BfDone, BfRefresh, BfUnresolved, storeVars
<1>7. CASE StatusRequest
  <2>1. PICK d \in Downloads, s \in UserStatuses : UpdateStatus(d, s)
    BY <1>7 DEF StatusRequest
  <2>2. downloads[d] \in LiveRow /\ downloads[d] # NoRow /\ s \in Statuses
    BY <2>1, LiveRowsExist, Rows, WorkerAssumption DEF UpdateStatus
  <2> DEFINE next == WithStatus(downloads[d], s)
  <2>3. Successor(downloads[d], next) /\ next.hash = downloads[d].hash
    BY <2>2, Successors, HashesWritten
  <2>4. UpdateDownload(d, next)
    BY <2>1, <2>3 DEF UpdateStatus, UpdateDownload, Current, Successor
  <2>5. FreshOf(downloads[d], downloads[d])
    BY <2>2 DEF FreshOf, LiveRow
  <2> HIDE DEF next
  <2> QED BY <2>2, <2>3, <2>4, <2>5, HashWritten
<1>8. CASE Client \/ Outage \/ MonitorRequest \/ UNCHANGED vars
  BY <1>8, HashesStay DEF Client, Outage, QbitStep, MonitorRequest, SetMonitored, vars, storeVars
<1> QED BY <1>1, <1>2, <1>3, <1>5, <1>6, <1>7, <1>8 DEF Next

-----------------------------------------------------------------------------
(* Who answers for a torrent                                               *)

\* The request that moves, and the others, which do not.
LEMMA OneRequestMoves ==
  ASSUME PipelineInv, NEW r \in Requests, RqAccept(r) \/ RqProceed(r)
  PROVE  \A q \in Requests \ {r} : /\ rqPc'[q] = rqPc[q] /\ rqTarget'[q] = rqTarget[q]
                                   /\ rqView'[q] = rqView[q] /\ rqHashes'[q] = rqHashes[q]
                                   /\ rqPaths'[q] = rqPaths[q]
BY DEF RqAccept, RqProceed, RqCancel, RqPrepare, RqDownloadTorrent, RqDownloadFiles,
       RqDownloadRecord, RqListFiles, RqItemTorrents, RqItemFiles, RqItemRecord,
       RqReturn, RqGoto, PipelineInv, RqInv, RqTypeOK

\* A request stays where it is, or it is the one that moves.
RqSame(q) ==
  /\ rqPc'[q] = rqPc[q] /\ rqTarget'[q] = rqTarget[q] /\ rqView'[q] = rqView[q]
  /\ rqHashes'[q] = rqHashes[q] /\ rqPaths'[q] = rqPaths[q]

LEMMA RequestsMove ==
  ASSUME ~Restart, PipelineInv, [Next]_vars
  PROVE  \/ \A q \in Requests : RqSame(q)
         \/ \E r \in Requests : /\ RqAccept(r) \/ RqProceed(r)
                                /\ \A q \in Requests \ {r} : RqSame(q)
<1>1. CASE UNCHANGED rqVars
  BY <1>1 DEF RqSame, rqVars
<1>2. CASE Removal
  BY <1>2, OneRequestMoves DEF Removal, RqNext, RqSame
<1> QED BY <1>1, <1>2 DEF Next, Worker, Import, Monitor, Backfill, Client, Outage, ManualCreate,
           StatusRequest, MonitorRequest, vars

\* No row is spent again by a write: versions grow and a deleted row stays deleted.
LEMMA NotCurrentAgain ==
  ASSUME PipelineInv, RowsStep, NEW d \in Downloads, NEW view, FreshOf(view, downloads[d]),
         view # NoRow, Current(d, view)'
  PROVE  Current(d, view) /\ UNCHANGED downloads[d] /\ view = downloads[d]
<1>1. Stored(downloads[d]) /\ RowStep(downloads[d], downloads'[d])
  BY DEF PipelineInv, StoreInv, RowsStep
<1>2. view \in LiveRow /\ downloads[d] # NoRow /\ downloads'[d].status \in Statuses
      /\ downloads'[d].ver = view.ver
  BY DEF FreshOf, Current, Exists
<1>3. Deleted(downloads[d]).status \notin Statuses \/ downloads[d] \notin LiveRow
  BY Rows DEF Statuses, ActiveDownloadStatuses, TerminalFailureStatuses
<1>4. downloads[d] \in LiveRow
  <2>1. downloads[d] \in LiveRow \/ downloads[d].status = "deleted"
    BY <1>1, <1>2 DEF Stored
  <2>2. downloads[d].status = "deleted" => downloads'[d] = downloads[d] \/ downloads[d] \in LiveRow
    BY <1>1, <1>2 DEF RowStep
  <2> QED BY <1>2, <2>1, <2>2 DEF Statuses, ActiveDownloadStatuses, TerminalFailureStatuses
<1>5. view.ver <= downloads[d].ver /\ (view.ver = downloads[d].ver => view = downloads[d])
  BY <1>4 DEF FreshOf
<1>6. downloads'[d] = downloads[d]
  <2>1. ~(downloads[d].ver < downloads'[d].ver)
    BY <1>2, <1>4, <1>5 DEF LiveRow
  <2> QED BY <1>1, <1>2, <1>3, <1>4, <2>1 DEF RowStep
<1>7. view = downloads[d] /\ Exists(d)
  BY <1>2, <1>5, <1>6 DEF Exists
<1> QED BY <1>6, <1>7 DEF Current

\* A row that exists before and after is of the same release of the same item.
LEMMA RowsSame ==
  ASSUME StoreInv, RowsStep, NEW d \in Downloads, Exists(d), Exists(d)'
  PROVE  downloads'[d].item = downloads[d].item /\ downloads'[d].url = downloads[d].url
<1>1. RowStep(downloads[d], downloads'[d]) /\ downloads[d] \in LiveRow
  BY LiveRowsExist DEF RowsStep
<1>2. downloads'[d] # Deleted(downloads[d]) /\ downloads[d] # NoRow
  BY <1>1, Rows DEF Exists, Statuses, ActiveDownloadStatuses, TerminalFailureStatuses
<1> QED BY <1>1, <1>2 DEF RowStep

LEMMA TorrentsTaken ==
  ASSUME "delete" \notin Faults, NEW hs, DeleteTorrents(hs), NEW h \in hs \cap Hashes
  PROVE  ~Present(h)'
BY DEF DeleteTorrents, Present

\* A row that a removal gets hold of has no torrent any more.
LEMMA SpentTaken ==
  ASSUME NoLoss, PipelineInv, RowsStep, HashInv, [Next]_vars, NEW d \in Downloads, NEW h \in Hashes,
         Claims(d, h), Exists(d)', Spent(d)'
  PROVE  ~Present(h)'
<1>1. /\ downloads[d] \in LiveRow /\ downloads[d].hash = h /\ h # None /\ Exists(d) /\ ~Spent(d)
      /\ "delete" \notin Faults /\ MaxRestarts = 0
  BY StoreAssumption, LiveRowsExist DEF Claims, NoLoss, PipelineInv
<1>2. downloads'[d].item = downloads[d].item
  BY <1>1, RowsSame DEF PipelineInv
<1>3. PICK r \in Requests :
        \/ rqPc'[r] \in {"dFiles", "dRecord"} /\ rqTarget'[r] = d /\ Current(d, rqView[r])'
        \/ rqPc'[r] \in {"iFiles", "iRecord"} /\ rqTarget'[r] = downloads[d].item
  BY <1>2 DEF Spent
<1>4. rqPc[r] \in {"dTorrent", "dFiles", "dRecord"} =>
        rqView[r] # NoRow /\ FreshOf(rqView[r], downloads[rqTarget[r]])
  BY DEF PipelineInv, RqInv, RqDownloadPcs
<1>5. ~RqSame(r)
  <2> SUFFICES ASSUME RqSame(r) PROVE FALSE
    OBVIOUS
  <2>1. CASE rqPc'[r] \in {"dFiles", "dRecord"} /\ rqTarget'[r] = d /\ Current(d, rqView[r])'
    <3>1. Current(d, rqView[r])
      <4>1. Exists(d)' /\ downloads'[d].ver = rqView[r].ver
        BY <2>1 DEF Current, RqSame
      <4> DEFINE view == rqView[r]
      <4>2. FreshOf(view, downloads[d]) /\ view # NoRow
        BY <1>4, <2>1 DEF RqSame
      <4>3. rqView'[r] = view
        BY DEF RqSame
      <4>4. downloads'[d].ver = view.ver
        BY <4>1
      <4> HIDE DEF view
      <4>5. view \in LiveRow /\ view.ver <= downloads[d].ver
        BY <1>1, <4>2 DEF FreshOf
      <4>6. downloads[d].ver <= downloads'[d].ver
        BY <1>1, <4>1, Rows DEF RowsStep, RowStep, Exists, Statuses, ActiveDownloadStatuses,
           TerminalFailureStatuses, LiveRow
      <4>7. downloads[d].ver = view.ver
        BY <1>1, <4>4, <4>5, <4>6 DEF LiveRow
      <4> QED BY <1>1, <4>7 DEF Current, view
    <3> QED BY <1>1, <2>1, <3>1 DEF Spent, RqSame
  <2>2. CASE rqPc'[r] \in {"iFiles", "iRecord"} /\ rqTarget'[r] = downloads[d].item
    BY <1>1, <2>2 DEF Spent, RqSame
  <2> QED BY <1>3, <2>1, <2>2
<1>6. RqAccept(r) \/ RqProceed(r)
  BY <1>1, <1>5, NoRestart, RequestsMove
<1>7. rqPc'[r] \in {"dFiles", "dRecord", "iFiles", "iRecord"} =>
        RqDownloadTorrent(r) \/ RqDownloadFiles(r) \/ RqItemTorrents(r) \/ RqItemFiles(r)
  BY <1>6 DEF RqAccept, RqProceed, RqCancel, RqPrepare, RqDownloadRecord, RqListFiles, RqItemRecord,
              RqReturn, RqGoto, PipelineInv, RqInv, RqTypeOK
<1>8. CASE RqDownloadTorrent(r)
  <2>1. /\ rqPc[r] = "dTorrent" /\ rqTarget[r] = d /\ Current(d, rqView[r])
        /\ DeleteTorrents(rqHashes[r])
    BY <1>3, <1>8 DEF RqDownloadTorrent, RqGoto, Current, Exists, PipelineInv, RqInv, RqTypeOK
  <2>2. rqView[r] = downloads[d]
    BY <1>1, <1>4, <2>1 DEF FreshOf, Current
  <2>3. h \in rqHashes[r]
    BY <1>1, <2>1, <2>2 DEF HashInv
  <2> QED BY <1>1, <2>1, <2>3, TorrentsTaken
<1>9. CASE RqItemTorrents(r)
  <2>1. rqPc[r] = "iTorrents" /\ d \in RowsOf(rqTarget[r]) /\ DeleteTorrents(rqHashes[r])
    BY <1>1, <1>3, <1>9 DEF RqItemTorrents, RqGoto, RowsOf, PipelineInv, RqInv, RqTypeOK
  <2>2. h \in rqHashes[r]
    BY <1>1, <2>1 DEF HashInv
  <2> QED BY <1>1, <2>1, <2>2, TorrentsTaken
<1>10. CASE RqDownloadFiles(r)
  <2>1. rqPc[r] = "dFiles" /\ rqTarget[r] = d /\ Current(d, rqView[r])
    BY <1>3, <1>10 DEF RqDownloadFiles, RqGoto, Current, Exists, PipelineInv, RqInv, RqTypeOK
  <2> QED BY <1>1, <2>1 DEF Spent
<1>11. CASE RqItemFiles(r)
  <2>1. rqPc[r] = "iFiles" /\ rqTarget[r] = downloads[d].item
    BY <1>3, <1>11 DEF RqItemFiles, RqGoto, PipelineInv, RqInv, RqTypeOK
  <2> QED BY <1>1, <2>1 DEF Spent
<1> QED BY <1>3, <1>7, <1>8, <1>9, <1>10, <1>11

LEMMA ClaimKept ==
  ASSUME NoLoss, PipelineInv, RowsStep, HashInv, [Next]_vars, NEW d \in Downloads, NEW h \in Hashes,
         Claims(d, h), Present(h), Present(h)'
  PROVE  Claims(d, h)'
<1>1. Exists(d) /\ downloads[d].hash = h /\ ~Spent(d) /\ h # None
  BY StoreAssumption DEF Claims
<1>2. HashMove(d)
  BY NoRestart, EveryHashMoves DEF NoLoss, HashesMove
<1>3. Exists(d)' /\ downloads'[d].hash = h
  BY <1>1, <1>2 DEF HashMove, HashInv, ReleaseHashes
<1>4. ~Spent(d)'
  BY <1>3, SpentTaken
<1> QED BY <1>3, <1>4 DEF Claims

LEMMA RemoveKept ==
  ASSUME NoLoss, PipelineInv, [Next]_vars, NEW r \in Requests, NEW h \in Hashes,
         Removes(r, h), Present(h)'
  PROVE  Removes(r, h)'
<1>1. "delete" \notin Faults /\ MaxRestarts = 0
  BY DEF NoLoss
<1>2. CASE RqSame(r)
  BY <1>2 DEF Removes, RqSame
<1>3. CASE RqAccept(r) \/ RqProceed(r)
  <2>1. ~RqDownloadTorrent(r) /\ ~RqItemTorrents(r)
    BY <1>1, TorrentsTaken DEF RqDownloadTorrent, RqItemTorrents, Removes
  <2>2. RqListFiles(r)
    BY <1>3, <2>1 DEF RqAccept, RqProceed, RqCancel, RqPrepare, RqDownloadRecord, RqItemRecord,
                      RqDownloadFiles, RqItemFiles, Removes
  <2> QED BY <2>2 DEF RqListFiles, RqGoto, Removes, PipelineInv, RqInv, RqTypeOK
<1> QED BY <1>1, <1>2, <1>3, NoRestart, RequestsMove

\* The send that added a torrent claims it or takes it away.
LEMMA SendKept ==
  ASSUME NoLoss, StopInv, [Next]_vars, NEW h \in Hashes, Sends(h), Present(h)'
  PROVE  Sends(h)' \/ \E d \in Downloads : Claims(d, h)'
<1> USE DEF StopInv, PipelineInv
<1>1. "delete" \notin Faults /\ MaxRestarts = 0
  BY DEF NoLoss
<1>2. CASE UNCHANGED dwVars
  BY <1>2 DEF dwVars, Sends, DwTorrent
<1>3. CASE Worker
  <2> DEFINE row == dwView[dwCur]
  <2>1. dwCur \in Downloads /\ FreshOf(row, downloads[dwCur]) /\ row # NoRow /\ row \in LiveRow
    BY DEF Sends, DwInv, DwTypeOK, FreshOf
  <2>2. DwClaim \/ DwUndo
    BY <1>3 DEF Worker, DwNext, Sends, DwListPending, DwFetchFails, DwAddTorrent, DwReuseTorrent,
                DwAddFails, DwListDownloading, DwTickEnds, DwCheckItem, DwPoll
  <2>3. CASE DwUndo
    <3>1. DeleteTorrents({h})
      BY <2>3 DEF DwUndo, Sends
    <3> QED BY <1>1, <3>1, TorrentsTaken
  <2>4. CASE DwClaim /\ ~(Open(row.item) /\ Current(dwCur, row))
    BY <2>4 DEF DwClaim, Sends, DwTorrent
  <2>5. CASE DwClaim /\ Open(row.item) /\ Current(dwCur, row)
    <3>1. row = downloads[dwCur] /\ Successor(row, Sent(row)) /\ Sent(row).hash = h
      <4>1. downloads[dwCur] \in LiveRow /\ downloads[dwCur].ver = row.ver
        BY <2>1, <2>5, LiveRowsExist DEF Current
      <4> QED BY <2>1, <4>1, Successors, HashesWritten DEF FreshOf, Sends, DwTorrent
    <3>2. Written(Sent(row)) \in LiveRow /\ Written(Sent(row)).ver = row.ver + 1
      BY <3>1, Rows DEF Successor
    <3>3. downloads'[dwCur] = Written(Sent(row)) /\ downloads'[dwCur].hash = h
      BY <2>1, <2>5, <3>1, LiveRowsExist DEF DwClaim, PutRow, StoreInv, StoreTypeOK, Successor
    <3>4. PICK d \in Downloads : d = dwCur
      BY <2>1
    <3>5. ~Spent(d)'
      <4>1. UNCHANGED rqVars
        BY <1>3 DEF Worker
      <4>2. downloads'[d].item = row.item /\ row.ver \in Nat /\ downloads'[d].ver = row.ver + 1
        BY <2>1, <3>1, <3>2, <3>3, <3>4 DEF Written, Successor, LiveRow
      <4>3. ASSUME NEW r \in Requests, rqPc[r] \in {"dFiles", "dRecord"}, rqTarget[r] = d,
                   Current(d, rqView[r])'
            PROVE  FALSE
        <5>1. rqView[r].ver <= downloads[dwCur].ver /\ rqView[r].ver \in Nat
          BY <2>1, <3>1, <3>4, <4>3 DEF RqInv, RqDownloadPcs, FreshOf, LiveRow
        <5>2. rqView[r].ver = row.ver + 1
          BY <4>1, <4>2, <4>3 DEF Current, rqVars
        <5> QED BY <3>1, <3>4, <4>2, <5>1, <5>2
      <4>4. ASSUME NEW r \in Requests, rqPc[r] \in {"iFiles", "iRecord"}, rqTarget[r] = row.item
            PROVE  FALSE
        BY <2>5, <4>4 DEF ItemsClosed, Closed, RqItemPcs
      <4> QED BY <4>1, <4>2, <4>3, <4>4 DEF Spent, rqVars
    <3> QED BY <3>2, <3>3, <3>4, <3>5, LiveRowsExist DEF Claims, Exists
  <2> QED BY <2>2, <2>3, <2>4, <2>5
<1>4. ~Restart
  BY <1>1 DEF Restart
<1> QED BY <1>2, <1>3, <1>4 DEF Next, Import, Removal, Monitor, Backfill, Client, Outage, ManualCreate,
           StatusRequest, MonitorRequest, vars

\* Only a send adds a torrent.
LEMMA TorrentsAdded ==
  ASSUME NoLoss, PipelineInv, [Next]_vars, NEW h \in Hashes, ~Present(h), Present(h)'
  PROVE  Sends(h)'
<1> USE DEF PipelineInv, StoreInv, StoreTypeOK, Present
<1>1. {"lost", "delete"} \cap Faults = {} /\ MaxRestarts = 0
  BY DEF NoLoss
<1>2. UNCHANGED torrents \/ (\E hs : DeleteTorrents(hs)) => FALSE
  BY DEF DeleteTorrents
<1>3. CASE Worker
  <2>1. DwAddTorrent
    BY <1>1, <1>2, <1>3 DEF Worker, DwNext, DwListPending, DwFetchFails, DwReuseTorrent, DwAddFails,
                            DwClaim, DwUndo, DwListDownloading, DwTickEnds, DwCheckItem, DwPoll, storeVars
  <2> QED BY <2>1 DEF DwAddTorrent, Sends, DwTorrent
<1>4. ~Import
  BY <1>2 DEF Import, ImNext, ImListDownloaded, ImClaim, ImGivesUp, ImParentGone, ImLoadFails, ImLoad,
         ImSkip, ImLink, ImLinkFails, ImRecord, ImNothingImported, ImFinish, ImRemoveTorrent,
         ImFinalize, ImListSeeding, ImCompleteSeeding, ImKeepSeeding, ImSeedRemove, ImTickEnds,
         storeVars
<1>5. ~Removal
  BY <1>2 DEF Removal, RqNext, RqAccept, RqProceed, RqCancel, RqPrepare, RqDownloadTorrent,
         RqDownloadFiles, RqDownloadRecord, RqListFiles, RqItemTorrents, RqItemFiles, RqItemRecord, storeVars
<1>6. ~Monitor /\ ~Backfill /\ ~ManualCreate /\ ~StatusRequest /\ ~MonitorRequest
  BY <1>2 DEF Monitor, MoNext, MoFindNothing, MoGiveUp, MoCheck, MoPick, MoGrab, Backfill, BfNext, BfList,
         BfDone, BfRefresh, BfResolve, BfUnresolved, ManualCreate, Create, StatusRequest,
         UpdateStatus, MonitorRequest, SetMonitored, storeVars
<1>7. ~Client /\ ~Outage /\ ~Restart
  BY <1>1 DEF Client, Outage, QbitStep, Restart, storeVars
<1>8. ~UNCHANGED vars
  BY <1>2 DEF vars, storeVars
<1> QED BY <1>3, <1>4, <1>5, <1>6, <1>7, <1>8 DEF Next

LEMMA RowHashesKept ==
  ASSUME ~Restart, PipelineInv, RowsStep, ReleaseHashes, [Next]_vars, NEW d \in Downloads, Exists(d)'
  PROVE  /\ downloads'[d].hash \in {None, HashOf[downloads'[d].url]}
         /\ Exists(d) => /\ downloads'[d].item = downloads[d].item
                         /\ \/ downloads'[d].hash \in {downloads[d].hash, None}
                            \/ Open(downloads[d].item)
<1>1. HashMove(d)
  BY EveryHashMoves DEF HashesMove
<1>2. CASE ~Exists(d)
  BY <1>1, <1>2 DEF HashMove
<1>3. CASE Exists(d)
  <2>1. downloads'[d].item = downloads[d].item /\ downloads'[d].url = downloads[d].url
    BY <1>3, RowsSame DEF PipelineInv
  <2> QED BY <1>1, <1>3, <2>1 DEF HashMove, ReleaseHashes
<1> QED BY <1>2, <1>3

LEMMA HashKept ==
  ASSUME NoLoss, StopInv, RowsStep, HashInv, [Next]_vars
  PROVE  HashInv'
<1> USE DEF StopInv
<1>0. ~Restart /\ ReleaseHashes
  BY NoRestart DEF NoLoss, HashInv
<1>1. ReleaseHashes'
  BY <1>0, RowHashesKept DEF ReleaseHashes
\* What a removal of an item has to know stays within what it knows.
<1>2. ASSUME NEW r \in Requests, rqPc[r] \in {"iList", "iTorrents"}, NEW d \in Downloads,
             d \in RowsOf(rqTarget[r])'
      PROVE  rqTarget'[r] = rqTarget[r] => downloads'[d].hash \in rqHashes[r] \cup {None}
  <2> SUFFICES ASSUME rqTarget'[r] = rqTarget[r] PROVE downloads'[d].hash \in rqHashes[r] \cup {None}
    OBVIOUS
  <2>1. Exists(d)' /\ downloads'[d].item = rqTarget[r]
    BY <1>2 DEF RowsOf
  <2>2. CASE ~Exists(d)
    BY <1>0, <2>1, <2>2, EveryHashMoves DEF HashesMove, HashMove
  <2>3. CASE Exists(d)
    <3>1. downloads[d].item = rqTarget[r]
          /\ (downloads'[d].hash \in {downloads[d].hash, None} \/ Open(downloads[d].item))
      BY <1>0, <2>1, <2>3, RowHashesKept
    <3>2. ~Open(rqTarget[r])
      BY <1>2 DEF ItemsClosed, Closed, RqItemPcs
    <3>3. downloads[d].hash \in rqHashes[r] \cup {None}
      BY <1>2, <2>3, <3>1 DEF HashInv, RowsOf
    <3> QED BY <3>1, <3>2, <3>3
  <2> QED BY <2>2, <2>3
<1> DEFINE Knows(r) ==
      /\ rqPc[r] = "dTorrent" => rqView[r].hash \in rqHashes[r] \cup {None}
      /\ rqPc[r] \in {"iList", "iTorrents"} =>
           \A d \in RowsOf(rqTarget[r]) : downloads[d].hash \in rqHashes[r] \cup {None}
<1>3. \A r \in Requests : Knows(r)
  BY DEF HashInv
<1>4. ASSUME NEW r \in Requests, RqSame(r) PROVE Knows(r)'
  <2>1. rqPc'[r] = "dTorrent" => rqView'[r].hash \in rqHashes'[r] \cup {None}
    BY <1>3, <1>4 DEF RqSame
  <2>2. ASSUME rqPc'[r] \in {"iList", "iTorrents"}, NEW d \in RowsOf(rqTarget[r])'
        PROVE  downloads'[d].hash \in rqHashes'[r] \cup {None}
    BY <1>2, <1>4, <2>2 DEF RqSame, RowsOf
  <2> QED BY <2>1, <2>2
<1>5. ASSUME NEW r \in Requests, RqAccept(r) \/ RqProceed(r) PROVE Knows(r)'
  <2> USE DEF PipelineInv, RqInv, RqTypeOK, RqGoto
  <2>1. ASSUME NEW d \in Downloads, RqCancel(r, d) PROVE Knows(r)'
    <3>1. rqPc'[r] = "dTorrent" /\ rqView'[r] = Cancelled(downloads[d]) /\ rqHashes'[r] = HashesOf({d})
      BY <2>1 DEF RqCancel
    <3>2. downloads[d] \in LiveRow
      BY <2>1, LiveRowsExist DEF RqCancel
    <3>3. Cancelled(downloads[d]).hash = downloads[d].hash
      BY <3>2 DEF Cancelled, Written, LiveRow
    <3> QED BY <3>1, <3>3 DEF HashesOf
  <2>2. ASSUME NEW i \in Items, RqPrepare(r, i) PROVE Knows(r)'
    <3>1. rqPc'[r] = "iList" /\ rqTarget'[r] = i /\ rqHashes'[r] = HashesOf(RowsOf(i))
      BY <2>2 DEF RqPrepare
    <3>2. UNCHANGED downloads \/ downloads' = CancelAll(i)
      BY <2>2 DEF RqPrepare
    <3>3. ASSUME NEW d \in RowsOf(i)' PROVE d \in RowsOf(i) /\ downloads'[d].hash = downloads[d].hash
      <4>1. CASE UNCHANGED downloads
        BY <3>3, <4>1 DEF RowsOf, Exists
      <4>2. CASE downloads' = CancelAll(i)
        <5>1. d \in Downloads /\ downloads'[d].item = i /\ Exists(d)'
          BY <3>3 DEF RowsOf
        <5>2. CASE d \in RowsOf(i)
          <6>1. downloads[d] \in LiveRow
            BY <5>2, LiveRowsExist DEF RowsOf
          <6>2. Written([downloads[d] EXCEPT !.status = "cancelled"]).hash = downloads[d].hash
            BY <6>1 DEF Written, LiveRow
          <6> QED BY <4>2, <5>1, <5>2, <6>2 DEF CancelAll
        <5>3. CASE d \notin RowsOf(i)
          BY <4>2, <5>1, <5>3 DEF CancelAll, RowsOf, Exists
        <5> QED BY <5>2, <5>3
      <4> QED BY <3>2, <4>1, <4>2
    <3> QED BY <3>1, <3>3 DEF HashesOf
  <2>3. CASE RqListFiles(r)
    <3>1. rqPc[r] = "iList" /\ rqPc'[r] = "iTorrents" /\ rqTarget'[r] = rqTarget[r] /\ rqHashes'[r] = rqHashes[r]
      BY <2>3 DEF RqListFiles
    <3>2. ASSUME NEW d \in RowsOf(rqTarget[r])' PROVE downloads'[d].hash \in rqHashes'[r] \cup {None}
      BY <1>2, <3>1, <3>2 DEF RowsOf
    <3> QED BY <3>1, <3>2
  <2>4. CASE \/ RqDownloadTorrent(r) \/ RqDownloadFiles(r) \/ RqDownloadRecord(r)
             \/ RqItemTorrents(r) \/ RqItemFiles(r) \/ RqItemRecord(r)
    <3>1. rqPc'[r] \in {"dFiles", "dRecord", "done", "iFiles", "iRecord"}
      BY <2>4 DEF RqDownloadTorrent, RqDownloadFiles, RqDownloadRecord, RqItemTorrents, RqItemFiles,
                  RqItemRecord, RqReturn
    <3> QED BY <3>1
  <2> QED BY <1>5, <2>1, <2>2, <2>3, <2>4 DEF RqAccept, RqProceed
<1>6. \A r \in Requests : Knows(r)'
  BY <1>0, <1>4, <1>5, RequestsMove
<1> QED BY <1>1, <1>6 DEF HashInv

LEMMA ClaimInvKept ==
  ASSUME NoLoss, StopInv, ClaimInv, [Next]_vars
  PROVE  ClaimInv'
<1>1. RowsStep /\ HashInv /\ PipelineInv
  BY PipelineStep DEF StopInv, ClaimInv
<1>2. ASSUME NEW h \in Hashes, Present(h)' PROVE Answered(h)'
  <2>1. CASE ~Present(h)
    BY <1>1, <1>2, <2>1, TorrentsAdded DEF Answered
  <2>2. ASSUME Present(h), NEW d \in Downloads, Claims(d, h) PROVE Answered(h)'
    BY <1>1, <1>2, <2>2, ClaimKept DEF Answered
  <2>3. ASSUME NEW r \in Requests, Removes(r, h) PROVE Answered(h)'
    BY <1>1, <1>2, <2>3, RemoveKept DEF Answered
  <2>4. CASE Sends(h)
    BY <1>2, <2>4, SendKept DEF Answered
  <2> QED BY <2>1, <2>2, <2>3, <2>4 DEF ClaimInv, Answered
<1> QED BY <1>1, <1>2, HashKept DEF ClaimInv

\* Unless a user sets a status by hand, a call to the client is lost or the process dies: a release
\* has one row in progress, and every torrent in the client has a row, a send or a removal that
\* answers for it (download.sendPending and its claim, media.DeleteDownload, DeleteMediaItem).
THEOREM TransfersAlwaysClaimed == NoHand /\ NoLoss => (Spec => []TransfersClaimedOnce)
<1> SUFFICES ASSUME NoHand, NoLoss PROVE Spec => []TransfersClaimedOnce
  OBVIOUS
<1>1. Init => StopInv /\ ClaimInv
  <2>1. Init => StopInv
    BY StopInitially
  <2>2. Init => ClaimInv
    BY DEF Init, StoreInit, RqInit, ClaimInv, HashInv, ReleaseHashes, Present, NoRow, Exists, Statuses,
           ActiveDownloadStatuses, TerminalFailureStatuses
  <2> QED BY <2>1, <2>2
<1>2. StopInv /\ ClaimInv /\ [Next]_vars => (StopInv /\ ClaimInv)'
  BY StopStep, ClaimInvKept
<1>3. ClaimInv => NoUnclaimedTorrent
  BY DEF ClaimInv, Answered, NoUnclaimedTorrent, Claims, Sends, Removes, Present
<1>4. Spec => []OneActiveDownloadPerRelease
  BY OneActiveAlways
<1> QED BY <1>1, <1>2, <1>3, <1>4, PTL DEF Spec, TransfersClaimedOnce

-----------------------------------------------------------------------------
(* Files of the library                                                    *)

Calm == restarts = 0 /\ "record" \notin Faults

Twice(u) == \E d, e \in Downloads : d # e /\ downloads[d].url = u /\ downloads[e].url = u

\* Files that LibraryFilesRecorded does not speak of: of an item that is gone, or of a release
\* with two rows.
Excused(i, u) == ~mediaItems[i].present \/ Twice(u)

\* Snapshots are of the release of their row.
OfRows(views) ==
  \A d \in Downloads : views[d] # NoRow =>
    views[d].item = downloads[d].item /\ views[d].url = downloads[d].url

\* The importer's rows are of the releases it took them for, and it has at most one file in hand,
\* of a video that it has not to link any more.
LinkInv ==
  /\ OfRows(imView)
  /\ imDst # {} => imPc = "record"
  /\ \A p, q \in imDst : p = q
  /\ \A p \in imDst : p[1] = imView[imCur].item /\ p[3] \notin imTodo

Unrecorded == \A p \in libraryFiles \ mediaFiles : p \in imDst \/ Excused(p[1], p[2])

\* A video that is still to link, and was not known, has its first name free.
NamesFree ==
  imPc \in {"link", "record"} =>
    \A v \in imTodo :
      \/ Target(v, 1) \in imKnown
      \/ Target(v, 1) \notin libraryFiles \cup mediaFiles
      \/ Excused(Target(v, 1)[1], Target(v, 1)[2])

\* What a removal has taken stays away until it drops the records, or gives up: an import of the
\* row that still runs has known these files, or is about to.
Taken(r) ==
  /\ \A p \in rqPaths[r] : p[1] = rqView[r].item /\ p[2] = rqView[r].url
  /\ Current(rqTarget[r], rqView[r]) /\ ~Excused(rqView[r].item, rqView[r].url) =>
       /\ rqPaths[r] \cap libraryFiles = {}
       /\ imCur = rqTarget[r] =>
            /\ imPc = "load" => rqPaths[r] \subseteq mediaFiles
            /\ imPc \in {"link", "record"} =>
                 \A v \in imTodo : Target(v, 1) \in rqPaths[r] => Target(v, 1) \in imKnown

FileInv == Unrecorded /\ NamesFree /\ \A r \in Requests : rqPc[r] = "dRecord" => Taken(r)
AccountInv == LinkInv /\ (Calm => FileInv)

LEMMA PathParts ==
  /\ \A p \in Path : /\ p[1] \in Items /\ p[2] \in Urls /\ p[3] \in Videos /\ p[4] \in 1..MaxCopies
                     /\ p = <<p[1], p[2], p[3], p[4]>>
  /\ \A i \in Items, u \in Urls, v \in Videos, n \in 1..MaxCopies : <<i, u, v, n>> \in Path
BY DEF Path

\* The release of a row stays its release, deleted or not.
LEMMA ReleaseStays ==
  ASSUME StoreInv, RowsStep, NEW d \in Downloads, downloads[d] # NoRow
  PROVE  /\ downloads'[d] # NoRow
         /\ downloads'[d].item = downloads[d].item /\ downloads'[d].url = downloads[d].url
<1>1. RowStep(downloads[d], downloads'[d])
  BY DEF RowsStep
<1>2. ASSUME downloads[d] \in LiveRow, downloads'[d] = Deleted(downloads[d])
      PROVE  downloads'[d].item = downloads[d].item /\ downloads'[d].url = downloads[d].url
  BY <1>2 DEF Deleted, LiveRow
<1> QED BY <1>1, <1>2, Rows DEF RowStep

LEMMA TwiceStays ==
  ASSUME StoreInv, RowsStep, NEW u \in Urls, Twice(u)
  PROVE  Twice(u)'
<1>1. \A d \in Downloads : downloads[d].url = u => downloads[d] # NoRow
  BY StoreAssumption DEF NoRow
<1> QED BY <1>1, ReleaseStays DEF Twice

\* An item that is gone stays gone.
LEMMA GoneStays ==
  ASSUME PipelineInv, [Next]_vars, NEW i \in Items, ~mediaItems[i].present
  PROVE  ~mediaItems'[i].present
<1> USE DEF PipelineInv, StoreInv
<1>1. CASE \E j, files : RecalcMediaItemStatus(j, files)
  BY <1>1, Recalculated
<1>2. CASE UNCHANGED mediaItems
  BY <1>2
<1>3. CASE Removal
  <2>1. PICK r \in Requests : RqAccept(r) \/ RqProceed(r)
    BY <1>3 DEF Removal, RqNext
  <2>2. ASSUME NEW j \in Items, RqPrepare(r, j) PROVE ~mediaItems'[i].present
    BY <2>2 DEF RqPrepare, StoreTypeOK, MediaItem
  <2>3. CASE RqDownloadRecord(r)
    BY <1>1, <1>2, <2>3 DEF RqDownloadRecord
  <2>4. CASE RqItemRecord(r)
    BY <2>4 DEF RqItemRecord, StoreTypeOK, MediaItem
  <2> QED BY <1>2, <2>1, <2>2, <2>3, <2>4 DEF RqAccept, RqProceed, RqCancel, RqDownloadTorrent,
             RqDownloadFiles, RqListFiles, RqItemTorrents, RqItemFiles, storeVars
<1>4. CASE MonitorRequest
  BY <1>4 DEF MonitorRequest, SetMonitored, StoreTypeOK, MediaItem
<1>5. CASE Import
  BY <1>1, <1>2, <1>5 DEF Import, ImNext, ImListDownloaded, ImClaim, ImGivesUp, ImParentGone, ImLoadFails,
     ImLoad, ImSkip, ImLink, ImLinkFails, ImRecord, ImNothingImported, ImFinish, ImRemoveTorrent,
     ImFinalize, ImListSeeding, ImCompleteSeeding, ImKeepSeeding, ImSeedRemove, ImTickEnds, storeVars
<1>6. CASE Monitor \/ Backfill
  BY <1>1, <1>2, <1>6 DEF Monitor, MoNext, MoFindNothing, MoGiveUp, MoCheck, MoPick, MoGrab, Backfill,
     BfNext, BfList, BfDone, BfRefresh, BfResolve, BfUnresolved, storeVars
<1>7. CASE Worker
  BY <1>2, <1>7 DEF Worker, DwNext, DwListPending, DwFetchFails, DwAddTorrent, DwReuseTorrent, DwAddFails,
     DwClaim, DwUndo, DwListDownloading, DwTickEnds, DwCheckItem, DwPoll, storeVars
<1>8. CASE Client \/ Outage \/ ManualCreate \/ StatusRequest \/ Restart \/ UNCHANGED vars
  BY <1>2, <1>8 DEF Client, Outage, QbitStep, ManualCreate, Create, StatusRequest, UpdateStatus, Restart, vars, storeVars
<1> QED BY <1>3, <1>4, <1>5, <1>6, <1>7, <1>8 DEF Next

LEMMA ExcusedStays ==
  ASSUME PipelineInv, RowsStep, [Next]_vars, NEW i \in Items, NEW u \in Urls, Excused(i, u)
  PROVE  Excused(i, u)'
BY TwiceStays, GoneStays DEF Excused, PipelineInv

-----------------------------------------------------------------------------
(* What the importer has in hand                                           *)

LEMMA OfRowsKept ==
  ASSUME StoreInv, RowsStep, \A d \in Downloads : FreshOf(imView[d], downloads[d]), OfRows(imView),
         \A d \in Downloads : imView'[d] \in {imView[d], NoRow}
  PROVE  OfRows(imView)'
<1>1. ASSUME NEW d \in Downloads, imView'[d] # NoRow
      PROVE  imView'[d].item = downloads'[d].item /\ imView'[d].url = downloads'[d].url
  <2>1. imView'[d] = imView[d] /\ downloads[d] # NoRow
    BY <1>1 DEF FreshOf
  <2> QED BY <1>1, <2>1, ReleaseStays DEF OfRows
<1> QED BY <1>1 DEF OfRows

LEMMA ImportLinks ==
  ASSUME PipelineInv, RowsStep, LinkInv, ImNext
  PROVE  LinkInv'
<1> USE DEF PipelineInv
<1>1. \A d \in Downloads : FreshOf(imView[d], downloads[d]) /\ imView \in [Downloads -> Row]
  BY DEF ImInv, ImTypeOK
<1>2. imPc # "record" => imDst = {}
  BY DEF LinkInv
<1>3. ASSUME \A d \in Downloads : imView'[d] \in {imView[d], NoRow} PROVE OfRows(imView)'
  BY <1>1, <1>3, OfRowsKept DEF LinkInv
<1>4. ASSUME NEW S, imView' = Snapshots(S), UNCHANGED downloads PROVE OfRows(imView)'
  BY <1>4 DEF Snapshots, OfRows
<1>5. ASSUME NEW d \in Downloads, NEW next, imView[d] # NoRow, Successor(imView[d], next),
             Current(d, next), UpdateDownload(d, next), imView' = [imView EXCEPT ![d] = Written(next)]
      PROVE  OfRows(imView)'
  <2>1. downloads' = [downloads EXCEPT ![d] = Written(next)]
    BY <1>5 DEF UpdateDownload, PutRow
  <2>2. downloads'[d] = Written(next) /\ imView'[d] = Written(next)
    BY <1>1, <1>5, <2>1 DEF StoreInv, StoreTypeOK
  <2>3. \A e \in Downloads \ {d} : downloads'[e] = downloads[e] /\ imView'[e] = imView[e]
    BY <1>1, <1>5, <2>1 DEF StoreInv, StoreTypeOK
  <2> QED BY <2>2, <2>3 DEF LinkInv, OfRows
<1>6. \A d : ImDrop(d) => \A e \in Downloads : imView'[e] \in {imView[e], NoRow}
  BY <1>1 DEF ImDrop
\* Nothing is in hand.
<1>7. ASSUME OfRows(imView)', imDst' = {} PROVE LinkInv'
  BY <1>7 DEF LinkInv
<1>8. ASSUME NEW pc, ImNextRow(pc) PROVE LinkInv'
  BY <1>3, <1>6, <1>7, <1>8 DEF ImNextRow
<1>9. CASE ImListDownloaded \/ ImListSeeding
  BY <1>2, <1>4, <1>7, <1>9 DEF ImListDownloaded, ImListSeeding, storeVars, ImScratch
<1>10. CASE \/ ImLoadFails \/ ImLinkFails \/ ImNothingImported \/ ImFinalize \/ ImSeedRemove
  BY <1>8, <1>10 DEF ImLoadFails, ImLinkFails, ImNothingImported, ImFinalize, ImSeedRemove, ImGivesUp
<1>11. CASE ImParentGone
  BY <1>8, <1>11 DEF ImParentGone, ImGivesUp
<1>12. CASE ImLoad \/ ImRemoveTorrent \/ ImTickEnds \/ \E v \in Videos : ImSkip(v)
  BY <1>2, <1>3, <1>7, <1>12 DEF ImLoad, ImRemoveTorrent, ImTickEnds, ImSkip, storeVars, ImScratch
<1>13. ASSUME NEW d \in Downloads, ImKeepSeeding(d) PROVE LinkInv'
  BY <1>2, <1>3, <1>6, <1>7, <1>13 DEF ImKeepSeeding, ImScratch
<1>14. ASSUME NEW v \in Videos, ImLink(v) PROVE LinkInv'
  <2>1. PICK n \in 1..MaxCopies : imDst' = {Target(v, n)}
    BY <1>14 DEF ImLink
  <2>2. /\ imPc' = "record" /\ imTodo' = imTodo \ {v} /\ UNCHANGED <<imView, imCur>>
        /\ Target(v, n)[3] = v /\ Target(v, n)[1] = imView[imCur].item
    BY <1>14 DEF ImLink, Target
  <2>3. OfRows(imView)'
    BY <1>3, <1>14 DEF ImLink
  <2> QED BY <2>1, <2>2, <2>3 DEF LinkInv
<1>15. CASE ImRecord
  BY <1>3, <1>7, <1>15 DEF ImRecord
<1>16. \A d \in ImHeld : d \in Downloads /\ imView[d] # NoRow /\ imView[d] \in LiveRow
  BY <1>1 DEF ImHeld, FreshOf
<1>17. {"importing", "seeding", "completed"} \subseteq Statuses
  BY DEF Statuses, ActiveDownloadStatuses
<1>18. ASSUME NEW d \in Downloads, ImClaim(d) PROVE LinkInv'
  <2> DEFINE next == [imView[d] EXCEPT !.status = "importing"]
  <2>1. Successor(imView[d], next) /\ imView[d] # NoRow
    BY <1>16, <1>17, <1>18, Successors DEF ImClaim
  <2>2. /\ UpdateDownload(d, next) /\ imPc = "import" /\ imDst' = imDst
        /\ IF Current(d, next) THEN imView' = [imView EXCEPT ![d] = Written(next)] ELSE ImDrop(d)
    BY <1>18 DEF ImClaim, ImScratch
  <2> HIDE DEF next
  <2>3. OfRows(imView)'
    BY <1>3, <1>5, <1>6, <2>1, <2>2
  <2> QED BY <1>2, <1>7, <2>2, <2>3
<1>19. ASSUME NEW d \in Downloads, ImCompleteSeeding(d) PROVE LinkInv'
  <2> DEFINE next == [imView[d] EXCEPT !.status = "completed"]
  <2>1. Successor(imView[d], next) /\ imView[d] # NoRow
    BY <1>16, <1>17, <1>19, Successors DEF ImCompleteSeeding
  <2>2. /\ UpdateDownload(d, next) /\ imPc = "seeding" /\ imDst' = imDst
        /\ \/ Current(d, next) /\ imView' = [imView EXCEPT ![d] = Written(next)]
           \/ ImDrop(d)
    BY <1>19 DEF ImCompleteSeeding, ImScratch
  <2> HIDE DEF next
  <2>3. OfRows(imView)'
    BY <1>3, <1>5, <1>6, <2>1, <2>2
  <2> QED BY <1>2, <1>7, <2>2, <2>3
<1>20. CASE ImFinish
  <2>1. PICK s \in {"seeding", "completed"} :
          LET next == [imView[imCur] EXCEPT !.status = s, !.linked = TRUE]
          IN  /\ UpdateDownload(imCur, next)
              /\ IF Current(imCur, next)
                 THEN /\ imPc' = IF s = "completed" THEN "remove" ELSE "finalize"
                      /\ imView' = [imView EXCEPT ![imCur] = Written(next)]
                      /\ UNCHANGED <<imCur, ImScratch>>
                 ELSE ImNextRow("import")
    BY <1>20 DEF ImFinish
  <2> DEFINE next == [imView[imCur] EXCEPT !.status = s, !.linked = TRUE]
  <2>2. imPc = "link" /\ imCur \in ImHeld /\ s \in Statuses
    BY <1>17, <1>20 DEF ImFinish, ImInv, ImTypeOK, ImHeld, ImBusy
  <2>3. Successor(imView[imCur], next)
    BY <1>16, <2>2, Successors
  <2>4. \/ /\ UpdateDownload(imCur, next) /\ Current(imCur, next) /\ imDst' = imDst
           /\ imView' = [imView EXCEPT ![imCur] = Written(next)]
        \/ ImNextRow("import")
    BY <2>1 DEF ImScratch
  <2> HIDE DEF next
  <2> QED BY <1>2, <1>5, <1>7, <1>8, <1>16, <2>2, <2>3, <2>4
<1> QED BY <1>9, <1>10, <1>11, <1>12, <1>13, <1>14, <1>15, <1>18, <1>19, <1>20 DEF ImNext

LEMMA LinksKept ==
  ASSUME PipelineInv, RowsStep, LinkInv, [Next]_vars
  PROVE  LinkInv'
<1>1. CASE Import
  BY <1>1, ImportLinks DEF Import
<1>2. CASE UNCHANGED imVars
  BY <1>2, OfRowsKept DEF LinkInv, imVars, PipelineInv, ImInv
<1>3. CASE Restart
  BY <1>3 DEF Restart, LinkInv, OfRows, Snapshots
<1> QED BY <1>1, <1>2, <1>3 DEF Next, Worker, Removal, Monitor, Backfill, Client, Outage, ManualCreate,
           StatusRequest, MonitorRequest, vars

-----------------------------------------------------------------------------
(* Files and records                                                       *)

LEMMA DropsUnrecorded ==
  ASSUME PipelineInv, RowsStep, [Next]_vars, Unrecorded, libraryFiles' \subseteq libraryFiles,
         imDst' = imDst \/ imDst = {},
         \A p \in mediaFiles : p \in libraryFiles' => p \in mediaFiles' \/ Excused(p[1], p[2])'
  PROVE  Unrecorded'
<1>1. ASSUME NEW p \in libraryFiles', p \notin mediaFiles', ~Excused(p[1], p[2])' PROVE p \in imDst'
  <2>1. p \in Path /\ p \in libraryFiles /\ p \notin mediaFiles
    BY <1>1 DEF PipelineInv, StoreInv, StoreTypeOK
  <2>2. ~Excused(p[1], p[2])
    BY <1>1, <2>1, PathParts, ExcusedStays
  <2> QED BY <2>1, <2>2 DEF Unrecorded
<1> QED BY <1>1 DEF Unrecorded

\* The importer goes on with the row it has, or with none; no name is taken meanwhile.
LEMMA DropsNamesFree ==
  ASSUME PipelineInv, RowsStep, [Next]_vars, NamesFree, libraryFiles' \subseteq libraryFiles,
         mediaFiles' \subseteq mediaFiles \cup imDst, \A p \in imDst : p[3] \notin imTodo,
         imPc' \in {"link", "record"} =>
           /\ imPc \in {"link", "record"} /\ imTodo' \subseteq imTodo
           /\ UNCHANGED <<imView, imCur, imKnown>>
  PROVE  NamesFree'
<1> SUFFICES ASSUME imPc' \in {"link", "record"}, NEW v \in imTodo'
             PROVE  \/ Target(v, 1)' \in imKnown'
                    \/ Target(v, 1)' \notin libraryFiles' \cup mediaFiles'
                    \/ Excused(Target(v, 1)[1], Target(v, 1)[2])'
  BY DEF NamesFree, Target
<1> DEFINE i == imView[imCur].item
           u == imView[imCur].url
           p == Target(v, 1)
<1>1. imPc \in {"link", "record"} /\ v \in imTodo /\ p' = p /\ imKnown' = imKnown
  BY DEF Target
<1>2. p[1] = i /\ p[2] = u /\ p[3] = v /\ i \in Items /\ u \in Urls
  BY <1>1 DEF Target, PipelineInv, ImInv, ImTypeOK, ImBusy, FreshOf, LiveRow
<1>3. p \in imKnown \/ p \notin libraryFiles \cup mediaFiles \/ Excused(i, u)
  BY <1>1, <1>2 DEF NamesFree
<1>4. p \notin imDst
  BY <1>1, <1>2
<1>5. Excused(i, u) => Excused(i, u)'
  <2>1. PICK j \in Items, w \in Urls : j = i /\ w = u
    BY <1>2
  <2>2. Excused(j, w) => Excused(j, w)'
    BY ExcusedStays
  <2>3. i' = i /\ u' = u
    OBVIOUS
  <2> QED BY <2>1, <2>2, <2>3 DEF Excused, Twice
<1> QED BY <1>1, <1>2, <1>3, <1>4, <1>5

\* A removal that has taken the files, while others move: what it took stays away.
LEMMA DropsTaken ==
  ASSUME PipelineInv, RowsStep, [Next]_vars, NEW r \in Requests, RqSame(r), rqPc[r] = "dRecord", Taken(r),
         libraryFiles' \subseteq libraryFiles,
         imPc' = "load" => \/ imPc = "load" /\ UNCHANGED <<imView, imCur>>
                           \/ imCur' = rqTarget[r] => ~Current(rqTarget[r], rqView[r])',
         imPc' \in {"link", "record"} =>
           /\ imPc \in {"link", "record"} /\ imTodo' \subseteq imTodo
           /\ UNCHANGED <<imView, imCur, imKnown>>,
         imPc' = "load" =>
           \A p \in rqPaths[r] \ mediaFiles' :
             p \in mediaFiles => Excused(p[1], p[2])' \/ ~Current(rqTarget[r], rqView[r])'
  PROVE  Taken(r)'
<1>1. PICK d \in Downloads, view \in LiveRow, paths \in SUBSET Path :
        /\ d = rqTarget[r] /\ view = rqView[r] /\ paths = rqPaths[r]
        /\ FreshOf(view, downloads[d]) /\ view # NoRow
  BY DEF PipelineInv, RqInv, RqTypeOK, RqDownloadPcs, FreshOf
<1>2. PICK i \in Items, u \in Urls : i = view.item /\ u = view.url
  BY DEF LiveRow
<1>3. d = rqTarget'[r] /\ view = rqView'[r] /\ paths = rqPaths'[r]
  BY <1>1 DEF RqSame
<1>4. \A p \in paths : p[1] = i /\ p[2] = u
  BY <1>1, <1>2 DEF Taken
<1>5. Current(d, view)' => Current(d, view)
  BY <1>1, NotCurrentAgain
<1>6. Excused(i, u) => Excused(i, u)'
  BY ExcusedStays
<1>7. ASSUME Current(d, view), ~Excused(i, u)
      PROVE  /\ paths \cap libraryFiles = {}
             /\ imCur = d =>
                  /\ imPc = "load" => paths \subseteq mediaFiles
                  /\ imPc \in {"link", "record"} =>
                       \A v \in imTodo : Target(v, 1) \in paths => Target(v, 1) \in imKnown
  BY <1>1, <1>2, <1>7 DEF Taken
<1>8. ASSUME Current(d, view)', ~Excused(i, u)', imCur' = d, imPc' = "load"
      PROVE  paths \subseteq mediaFiles'
  <2>2. Current(rqTarget[r], rqView[r])'
    BY <1>3, <1>8 DEF Current
  <2>1. paths \subseteq mediaFiles
    BY <1>1, <1>5, <1>6, <1>7, <1>8, <2>2
  <2>3. \A p \in paths : Excused(p[1], p[2])' <=> Excused(i, u)'
    BY <1>4 DEF Excused, Twice
  <2>4. ASSUME NEW p \in paths, p \notin mediaFiles' PROVE FALSE
    BY <1>1, <1>8, <2>1, <2>2, <2>3, <2>4
  <2> QED BY <2>4
<1>9. ASSUME Current(d, view)', ~Excused(i, u)', imCur' = d, imPc' \in {"link", "record"},
             NEW v \in imTodo', Target(v, 1)' \in paths
      PROVE  Target(v, 1)' \in imKnown'
  BY <1>5, <1>6, <1>7, <1>9 DEF Target
<1>10. Current(rqTarget[r], rqView[r])' <=> Current(d, view)'
  BY <1>3 DEF Current
<1>11. Excused(rqView[r].item, rqView[r].url)' <=> Excused(i, u)'
  BY <1>2, <1>3 DEF Excused, Twice
<1>12. \A p \in rqPaths'[r] : p[1] = rqView'[r].item /\ p[2] = rqView'[r].url
  BY <1>2, <1>3, <1>4
<1>13. Current(d, view)' /\ ~Excused(i, u)' => rqPaths'[r] \cap libraryFiles' = {}
  BY <1>3, <1>5, <1>6, <1>7
<1> QED BY <1>3, <1>8, <1>9, <1>10, <1>11, <1>12, <1>13 DEF Taken

LEMMA OthersKeepFiles ==
  ASSUME PipelineInv, RowsStep, [Next]_vars, LinkInv, FileInv,
         UNCHANGED <<mediaFiles, libraryFiles, imVars, rqVars>>
  PROVE  FileInv'
<1>1. UNCHANGED <<imPc, imView, imCur, imKnown, imTodo, imDst>> /\ \A r \in Requests : RqSame(r) /\ rqPc'[r] = rqPc[r]
  BY DEF imVars, rqVars, RqSame
<1>2. Unrecorded'
  BY <1>1, DropsUnrecorded DEF FileInv
<1>3. NamesFree'
  BY <1>1, DropsNamesFree DEF FileInv, LinkInv
<1>4. ASSUME NEW r \in Requests, rqPc[r] = "dRecord" PROVE Taken(r)'
  BY <1>1, <1>4, DropsTaken DEF FileInv
<1> QED BY <1>1, <1>2, <1>3, <1>4 DEF FileInv

\* The files of the release in the folder, which the row's deletion removes.
LEMMA FilesTaken ==
  ASSUME PipelineInv, FileInv, NEW r \in Requests, RqDownloadFiles(r), UNCHANGED imVars
  PROVE  Taken(r)'
<1> DEFINE view == rqView[r]
<1>1. view \in LiveRow /\ rqTarget[r] \in Downloads /\ FreshOf(view, downloads[rqTarget[r]])
  BY DEF PipelineInv, RqInv, RqTypeOK, RqDownloadFiles, RqDownloadPcs, FreshOf
<1>0. DOMAIN rqPaths = Requests
  BY DEF PipelineInv, RqInv, RqTypeOK
<1>2. PICK paths \in SUBSET ReleaseFiles(mediaFiles, view.item, view.url) :
        /\ rqPaths'[r] = paths /\ libraryFiles' \cap paths = {}
        /\ UNCHANGED <<downloads, mediaItems, mediaFiles, rqView, rqTarget>>
  BY <1>0 DEF RqDownloadFiles
<1>3. UNCHANGED <<imPc, imView, imCur, imKnown, imTodo, imDst>>
  BY DEF imVars
<1>4. \A p \in paths : p[1] = view.item /\ p[2] = view.url /\ p \in mediaFiles
  BY <1>2 DEF ReleaseFiles
<1>5. ASSUME ~Excused(view.item, view.url), imPc \in {"link", "record"}, NEW v \in imTodo, Target(v, 1) \in paths
      PROVE  Target(v, 1) \in imKnown
  BY <1>4, <1>5 DEF FileInv, NamesFree
<1>6. rqView'[r] = view /\ rqTarget'[r] = rqTarget[r] /\ Excused(view.item, view.url)' = Excused(view.item, view.url)
  BY <1>2 DEF Excused, Twice
<1>7. \A v : Target(v, 1)' = Target(v, 1)
  BY <1>3 DEF Target
<1>8. Excused(rqView[r].item, rqView[r].url)' <=> Excused(view.item, view.url)
  BY <1>6 DEF Excused, Twice
<1> HIDE DEF view
<1>9. \A p \in rqPaths'[r] : p[1] = rqView'[r].item /\ p[2] = rqView'[r].url
  BY <1>2, <1>4, <1>6
<1>10. rqPaths'[r] \cap libraryFiles' = {} /\ rqPaths'[r] \subseteq mediaFiles'
  BY <1>2, <1>4
<1>11. ASSUME ~Excused(rqView[r].item, rqView[r].url)', imPc' \in {"link", "record"}, NEW v \in imTodo',
              Target(v, 1)' \in rqPaths'[r]
       PROVE  Target(v, 1)' \in imKnown'
  BY <1>2, <1>3, <1>5, <1>7, <1>8, <1>11
<1> QED BY <1>9, <1>10, <1>11 DEF Taken

LEMMA RemovalKeepsFiles ==
  ASSUME PipelineInv, RowsStep, [Next]_vars, LinkInv, FileInv, Removal
  PROVE  FileInv'
<1> USE DEF PipelineInv
<1>1. PICK r \in Requests : RqAccept(r) \/ RqProceed(r)
  BY DEF Removal, RqNext
<1>2. libraryFiles' \subseteq libraryFiles /\ mediaFiles' \subseteq mediaFiles
  BY <1>1 DEF RqAccept, RqProceed, RqCancel, RqPrepare, RqDownloadTorrent, RqDownloadFiles,
     RqDownloadRecord, RqListFiles, RqItemTorrents, RqItemFiles, RqItemRecord, storeVars
<1>3. UNCHANGED <<imPc, imView, imCur, imKnown, imTodo, imDst>> /\ UNCHANGED imVars
  BY DEF Removal, imVars
<1>4. \A q \in Requests \ {r} : RqSame(q)
  BY <1>1, OneRequestMoves DEF RqSame
<1>5. NamesFree'
  BY <1>2, <1>3, DropsNamesFree DEF FileInv, LinkInv
<1>6. ASSUME NEW p \in mediaFiles, p \notin mediaFiles'
      PROVE  \/ RqDownloadRecord(r) /\ Preimage(r) /\ p \in rqPaths[r]
                /\ downloads' = [downloads EXCEPT ![rqTarget[r]] = Deleted(@)]
             \/ p[1] \in Items /\ ~mediaItems'[p[1]].present
  <2>1. RqDownloadRecord(r) \/ RqItemRecord(r)
    BY <1>1, <1>6 DEF RqAccept, RqProceed, RqCancel, RqPrepare, RqDownloadTorrent, RqDownloadFiles,
       RqListFiles, RqItemTorrents, RqItemFiles, storeVars
  <2>2. CASE RqDownloadRecord(r)
    BY <1>6, <2>2 DEF RqDownloadRecord
  <2>3. CASE RqItemRecord(r)
    <3>1. p \in ItemFiles(mediaFiles, rqTarget[r]) /\ mediaItems' = [mediaItems EXCEPT ![rqTarget[r]].present = FALSE]
      BY <1>6, <2>3 DEF RqItemRecord
    <3>2. p[1] = rqTarget[r] /\ p[1] \in Items
      BY <1>6, <3>1, PathParts DEF ItemFiles, StoreInv, StoreTypeOK
    <3> QED BY <3>1, <3>2 DEF StoreInv, StoreTypeOK, MediaItem
  <2> QED BY <2>1, <2>2, <2>3
<1>7. ASSUME RqDownloadRecord(r), Preimage(r)
      PROVE  /\ rqTarget[r] \in Downloads /\ rqView[r] \in LiveRow /\ rqView[r] = downloads[rqTarget[r]]
             /\ Taken(r) /\ Current(rqTarget[r], rqView[r])
  <2>1. rqTarget[r] \in Downloads /\ FreshOf(rqView[r], downloads[rqTarget[r]]) /\ rqView[r] # NoRow
        /\ Current(rqTarget[r], rqView[r]) /\ rqPc[r] = "dRecord"
    BY <1>7 DEF RqInv, RqTypeOK, RqDownloadRecord, RqDownloadPcs, Preimage
  <2>2. downloads[rqTarget[r]] \in LiveRow
    BY <2>1, LiveRowsExist DEF Current
  <2> QED BY <2>1, <2>2 DEF FreshOf, FileInv, Current
<1>8. Unrecorded'
  <2>1. ASSUME NEW p \in mediaFiles, p \in libraryFiles', p \notin mediaFiles' PROVE Excused(p[1], p[2])'
    <3>1. p[1] \in Items /\ p[2] \in Urls
      BY <2>1, PathParts DEF StoreInv, StoreTypeOK
    <3>2. CASE RqDownloadRecord(r) /\ Preimage(r) /\ p \in rqPaths[r]
      <4>1. Excused(p[1], p[2])
        BY <1>2, <1>7, <2>1, <3>2 DEF Taken
      <4> QED BY <3>1, <4>1, ExcusedStays
    <3>3. CASE ~mediaItems'[p[1]].present
      BY <3>3 DEF Excused
    <3> QED BY <1>6, <2>1, <3>2, <3>3
  <2> QED BY <1>2, <1>3, <2>1, DropsUnrecorded DEF FileInv
<1>9. ASSUME NEW q \in Requests \ {r}, rqPc[q] = "dRecord" PROVE Taken(q)'
  <2>0. Taken(q) /\ q \in Requests /\ RqSame(q)
    BY <1>4, <1>9 DEF FileInv
  <2>1. ASSUME NEW p \in rqPaths[q] \ mediaFiles', p \in mediaFiles, Current(rqTarget[q], rqView[q])'
        PROVE  Excused(p[1], p[2])'
    <3>1. p[1] \in Items /\ p[2] \in Urls
      BY <2>1, PathParts DEF StoreInv, StoreTypeOK
    <3>2. CASE ~mediaItems'[p[1]].present
      BY <3>2 DEF Excused
    <3>3. CASE /\ RqDownloadRecord(r) /\ Preimage(r) /\ p \in rqPaths[r]
               /\ downloads' = [downloads EXCEPT ![rqTarget[r]] = Deleted(@)]
      <4>1. PICK d \in Downloads, view \in LiveRow :
              d = rqTarget[q] /\ view = rqView[q] /\ FreshOf(view, downloads[d]) /\ view # NoRow
        BY <1>9 DEF RqInv, RqTypeOK, RqDownloadPcs, FreshOf
      <4>2. Current(d, view)'
        BY <2>0, <2>1, <4>1 DEF Current, RqSame
      <4>3. view = downloads[d] /\ Exists(d)'
        BY <4>1, <4>2, NotCurrentAgain DEF Current
      <4>4. d # rqTarget[r]
        <5> SUFFICES ASSUME d = rqTarget[r] PROVE FALSE
          OBVIOUS
        <5>1. downloads'[d] = Deleted(downloads[d]) /\ downloads[d] \in LiveRow
          BY <3>3, <4>3 DEF StoreInv, StoreTypeOK
        <5> QED BY <4>3, <5>1, Rows DEF Exists, Statuses, ActiveDownloadStatuses, TerminalFailureStatuses
      <4>5. p[2] = downloads[d].url /\ p[2] = downloads[rqTarget[r]].url
        BY <1>7, <2>0, <2>1, <3>3, <4>1, <4>3 DEF Taken
      <4>6. Twice(p[2])
        BY <1>7, <3>3, <4>4, <4>5 DEF Twice
      <4> QED BY <3>1, <4>6, ExcusedStays DEF Excused
    <3> QED BY <1>6, <2>1, <3>2, <3>3
  <2> QED BY <1>2, <1>3, <1>9, <2>0, <2>1, DropsTaken
<1>10. ASSUME rqPc'[r] = "dRecord" PROVE Taken(r)'
  <2>1. RqDownloadFiles(r)
    BY <1>1, <1>10 DEF RqAccept, RqProceed, RqCancel, RqPrepare, RqDownloadTorrent, RqDownloadRecord,
       RqListFiles, RqItemTorrents, RqItemFiles, RqItemRecord, RqReturn, RqGoto, RqInv, RqTypeOK
  <2> QED BY <1>3, <2>1, FilesTaken
<1> QED BY <1>4, <1>5, <1>8, <1>9, <1>10 DEF FileInv, RqSame

\* Between imports nothing of it is in hand.
LEMMA QuietKeepsFiles ==
  ASSUME PipelineInv, RowsStep, [Next]_vars, LinkInv, FileInv, UNCHANGED <<rqVars, libraryFiles, mediaFiles>>,
         imPc # "record", imDst' \in {imDst, {}}, imPc' \notin {"load", "link", "record"}
  PROVE  FileInv'
<1>1. imDst = {} /\ \A r \in Requests : RqSame(r) /\ rqPc'[r] = rqPc[r]
  BY DEF LinkInv, rqVars, RqSame
<1>2. Unrecorded'
  BY <1>1, DropsUnrecorded DEF FileInv
<1>3. NamesFree'
  BY DEF NamesFree
<1>4. ASSUME NEW r \in Requests, rqPc[r] = "dRecord" PROVE Taken(r)'
  BY <1>1, <1>4, DropsTaken DEF FileInv
<1> QED BY <1>1, <1>2, <1>3, <1>4 DEF FileInv

\* A row that is claimed was not taken by a removal that is about to drop its records.
LEMMA ClaimKeepsFiles ==
  ASSUME PipelineInv, RowsStep, [Next]_vars, LinkInv, FileInv, UNCHANGED rqVars, NEW d \in Downloads, ImClaim(d)
  PROVE  FileInv'
<1>0. UNCHANGED <<libraryFiles, mediaFiles, mediaItems, imDst>> /\ imPc = "import"
  BY DEF ImClaim, ImScratch
<1>1. CASE imPc' # "load"
  BY <1>0, <1>1, QuietKeepsFiles DEF ImClaim
<1>2. CASE imPc' = "load"
  <2> DEFINE next == [imView[d] EXCEPT !.status = "importing"]
  <2>1. imView[d] \in LiveRow /\ imView[d] # NoRow
    BY DEF PipelineInv, ImInv, ImClaim, ImHeld, FreshOf
  <2>2. Successor(imView[d], next)
    BY <2>1, Successors DEF Statuses, ActiveDownloadStatuses
  <2>3. Current(d, next) /\ UpdateDownload(d, next) /\ imCur' = d
    BY <1>0, <1>2 DEF ImClaim
  <2> HIDE DEF next
  <2>4. downloads'[d] = Written(next)
    BY <2>3 DEF UpdateDownload, PutRow, PipelineInv, StoreInv, StoreTypeOK
  <2>5. downloads'[d].ver = downloads[d].ver + 1 /\ downloads[d].ver \in Nat
    BY <2>2, <2>3, <2>4, Rows DEF Successor, Current, LiveRow
  <2>6. downloads'[d] # downloads[d]
    BY <2>5
  <2>7. \A r \in Requests : RqSame(r) /\ rqPc'[r] = rqPc[r]
    BY DEF rqVars, RqSame
  <2>8. Unrecorded'
    BY <1>0, DropsUnrecorded DEF FileInv
  <2>9. NamesFree'
    BY <1>2 DEF NamesFree
  <2>10. ASSUME NEW r \in Requests, rqPc[r] = "dRecord" PROVE Taken(r)'
    <3>1. PICK view \in LiveRow, e \in Downloads :
            view = rqView[r] /\ e = rqTarget[r] /\ view # NoRow /\ FreshOf(view, downloads[e])
      BY <2>10 DEF PipelineInv, RqInv, RqTypeOK, RqDownloadPcs, FreshOf
    <3>2. Current(e, view)' => e # d
      BY <2>6, <3>1, NotCurrentAgain
    <3>3. imCur' = rqTarget[r] => ~Current(rqTarget[r], rqView[r])'
      BY <2>3, <2>7, <3>1, <3>2 DEF Current, RqSame
    <3> QED BY <1>0, <1>2, <2>7, <2>10, <3>3, DropsTaken DEF FileInv
  <2> QED BY <2>7, <2>8, <2>9, <2>10 DEF FileInv
<1> QED BY <1>1, <1>2

\* What the importer knows when it starts to link.
LEMMA LoadKeepsFiles ==
  ASSUME PipelineInv, RowsStep, [Next]_vars, LinkInv, FileInv, UNCHANGED rqVars, ImLoad
  PROVE  FileInv'
<1>1. /\ imPc = "load" /\ imPc' = "link" /\ imDst = {}
      /\ UNCHANGED <<downloads, mediaItems, libraryFiles, mediaFiles, imView, imCur, imDst>>
      /\ imKnown' = ItemFiles(mediaFiles, imView[imCur].item)
  BY DEF ImLoad, storeVars, LinkInv
<1>2. \A i, u : Excused(i, u)' <=> Excused(i, u)
  BY <1>1 DEF Excused, Twice
<1>3. \A v : Target(v, 1)' = Target(v, 1) /\ Target(v, 1)[1] = imView[imCur].item
  BY <1>1 DEF Target
<1>4. \A r \in Requests : RqSame(r) /\ rqPc'[r] = rqPc[r]
  BY DEF rqVars, RqSame
<1>5. Unrecorded'
  BY <1>1, DropsUnrecorded DEF FileInv
<1>6. ASSUME NEW v \in imTodo'
      PROVE  \/ Target(v, 1) \in imKnown'
             \/ Target(v, 1) \notin libraryFiles \cup mediaFiles
             \/ Excused(Target(v, 1)[1], Target(v, 1)[2])
  BY <1>1, <1>3 DEF FileInv, Unrecorded, ItemFiles
<1>7. NamesFree'
  BY <1>1, <1>2, <1>3, <1>6 DEF NamesFree
<1>8. ASSUME NEW r \in Requests, rqPc[r] = "dRecord" PROVE Taken(r)'
  <2>1. PICK view, d, paths : view = rqView[r] /\ d = rqTarget[r] /\ paths = rqPaths[r]
    OBVIOUS
  <2>2. view = rqView'[r] /\ d = rqTarget'[r] /\ paths = rqPaths'[r]
    BY <1>4, <2>1 DEF RqSame
  <2>3. /\ \A p \in paths : p[1] = view.item /\ p[2] = view.url
        /\ Current(d, view) /\ ~Excused(view.item, view.url) =>
             /\ paths \cap libraryFiles = {}
             /\ imCur = d => paths \subseteq mediaFiles
    BY <1>1, <1>4, <1>8, <2>1 DEF FileInv, Taken
  <2>4. Current(d, view)' <=> Current(d, view)
    BY <1>1 DEF Current, Exists
  <2>5. Current(rqTarget[r], rqView[r])' <=> Current(d, view)
    BY <2>2, <2>4 DEF Current
  <2>6. Excused(rqView[r].item, rqView[r].url)' <=> Excused(view.item, view.url)
    BY <1>1, <2>2 DEF Excused, Twice
  <2>7. ASSUME imCur = d, Current(d, view), ~Excused(view.item, view.url), NEW v, Target(v, 1)' \in paths
        PROVE  Target(v, 1)' \in imKnown'
    BY <1>1, <1>3, <2>3, <2>7 DEF ItemFiles
  <2> QED BY <1>1, <2>2, <2>3, <2>5, <2>6, <2>7 DEF Taken
<1> QED BY <1>4, <1>5, <1>7, <1>8 DEF FileInv

\* A new file has a name that no removal has taken: it is the first one, or of a release with two rows.
LEMMA LinkKeepsFiles ==
  ASSUME PipelineInv, RowsStep, [Next]_vars, LinkInv, FileInv, UNCHANGED rqVars, NEW v \in Videos, ImLink(v)
  PROVE  FileInv'
<1>1. /\ imPc = "link" /\ imPc' = "record" /\ imDst = {} /\ v \in imTodo /\ imTodo' = imTodo \ {v}
      /\ UNCHANGED <<downloads, mediaItems, mediaFiles, imView, imCur, imKnown>>
      /\ Target(v, 1) \notin imKnown
  BY DEF ImLink, LinkInv
<1>2. PICK n \in 1..MaxCopies :
        /\ \A m \in 1..(n - 1) : Target(v, m) \in libraryFiles
        /\ libraryFiles' = libraryFiles \cup {Target(v, n)}
        /\ imDst' = {Target(v, n)}
  BY DEF ImLink
<1>3. PICK c \in Downloads, i \in Items, u \in Urls :
        c = imCur /\ i = imView[c].item /\ u = imView[c].url /\ imView[c] # NoRow
  BY <1>1 DEF PipelineInv, ImInv, ImTypeOK, ImBusy, FreshOf, LiveRow
<1>4. \A w, m : Target(w, m) = <<i, u, w, m>> /\ Target(w, m)' = Target(w, m)
  BY <1>1, <1>3 DEF Target
<1>5. \A j, w : Excused(j, w)' <=> Excused(j, w)
  BY <1>1 DEF Excused, Twice
<1>6. \A r \in Requests : RqSame(r) /\ rqPc'[r] = rqPc[r]
  BY DEF rqVars, RqSame
<1>7. Unrecorded'
  BY <1>1, <1>2, <1>5 DEF FileInv, Unrecorded
<1>8. \A w \in imTodo : \/ Target(w, 1) \in imKnown
                        \/ Target(w, 1) \notin libraryFiles \cup mediaFiles
                        \/ Excused(i, u)
  BY <1>1, <1>4 DEF FileInv, NamesFree
<1>9. NamesFree'
  <2>1. \A w \in imTodo' : Target(w, 1) # Target(v, n)
    BY <1>1, <1>4
  <2>2. Target(v, 1)[1] = i /\ \A w : Target(w, 1)[1] = i /\ Target(w, 1)[2] = u
    BY <1>4
  <2>3. ASSUME NEW w \in imTodo'
        PROVE  \/ Target(w, 1) \in imKnown'
               \/ Target(w, 1) \notin libraryFiles' \cup mediaFiles'
               \/ Excused(Target(w, 1)[1], Target(w, 1)[2])
    BY <1>1, <1>2, <1>8, <2>1, <2>2, <2>3
  <2> QED BY <1>4, <1>5, <2>3 DEF NamesFree
<1>10. ASSUME ~Excused(i, u) PROVE n = 1
  <2>1. Target(v, 1) \notin libraryFiles
    BY <1>1, <1>8, <1>10
  <2>2. n # 1 => 1 \in 1..(n - 1)
    BY StoreAssumption
  <2> QED BY <1>2, <2>1, <2>2
<1>11. ASSUME NEW r \in Requests, rqPc[r] = "dRecord" PROVE Taken(r)'
  <2>1. PICK view \in LiveRow, d \in Downloads, paths \in {rqPaths[r]} :
          /\ view = rqView[r] /\ d = rqTarget[r] /\ paths = rqPaths[r]
          /\ view # NoRow /\ FreshOf(view, downloads[d])
    BY <1>11 DEF PipelineInv, RqInv, RqTypeOK, RqDownloadPcs, FreshOf
  <2>2. view = rqView'[r] /\ d = rqTarget'[r] /\ paths = rqPaths'[r]
    BY <1>6, <2>1 DEF RqSame
  <2>3. /\ \A p \in paths : p[1] = view.item /\ p[2] = view.url
        /\ Current(d, view) /\ ~Excused(view.item, view.url) =>
             /\ paths \cap libraryFiles = {}
             /\ imCur = d => \A w \in imTodo : Target(w, 1) \in paths => Target(w, 1) \in imKnown
    BY <1>1, <1>11, <2>1 DEF FileInv, Taken
  <2>4. Current(d, view)' <=> Current(d, view)
    BY <1>1 DEF Current, Exists
  <2>5. Current(rqTarget[r], rqView[r])' <=> Current(d, view)
    BY <2>2, <2>4 DEF Current
  <2>6. Excused(rqView[r].item, rqView[r].url)' <=> Excused(view.item, view.url)
    BY <1>1, <2>2 DEF Excused, Twice
  <2>7. ASSUME Current(d, view), ~Excused(view.item, view.url), Target(v, n) \in paths PROVE FALSE
    <3>1. i = view.item /\ u = view.url
      BY <1>4, <2>3, <2>7
    <3>2. Target(v, 1) \in paths
      BY <1>10, <2>7, <3>1
    <3>3. d # c
      BY <1>1, <1>3, <2>3, <2>7, <3>2
    <3>4. downloads[d].url = u
      <4>1. downloads[d] \in LiveRow
        BY <2>7, LiveRowsExist DEF PipelineInv, Current
      <4> QED BY <2>1, <2>7, <3>1, <4>1 DEF FreshOf, Current
    <3>5. downloads[c].url = u
      BY <1>3 DEF LinkInv, OfRows
    <3> QED BY <2>7, <3>1, <3>3, <3>4, <3>5 DEF Excused, Twice
  <2>8. \A w : Target(w, 1)' = Target(w, 1)
    BY <1>4
  <2> QED BY <1>1, <1>2, <2>2, <2>3, <2>5, <2>6, <2>7, <2>8 DEF Taken
<1> QED BY <1>6, <1>7, <1>9, <1>11 DEF FileInv

\* A file is recorded, unless its item is gone: no other record has its name.
LEMMA RecordKeepsFiles ==
  ASSUME PipelineInv, RowsStep, [Next]_vars, LinkInv, FileInv, "record" \notin Faults, UNCHANGED rqVars, ImRecord
  PROVE  FileInv'
<1>1. /\ imPc = "record" /\ imPc' = "link" /\ imDst' = {}
      /\ UNCHANGED <<downloads, mediaItems, libraryFiles, imView, imCur, imKnown, imTodo>>
      /\ \/ mediaFiles' = mediaFiles \cup imDst
         \/ /\ ~mediaItems[imView[imCur].item].present \/ imDst \cap mediaFiles # {}
            /\ mediaFiles' = mediaFiles
  BY DEF ImRecord
<1>2. \A r \in Requests : RqSame(r) /\ rqPc'[r] = rqPc[r]
  BY DEF rqVars, RqSame
<1>3. Unrecorded'
  <2>1. \A i, u : Excused(i, u)' <=> Excused(i, u)
    BY <1>1 DEF Excused, Twice
  <2>2. ASSUME NEW p \in libraryFiles, p \notin mediaFiles', ~Excused(p[1], p[2]) PROVE FALSE
    <3>1. p \in imDst
      BY <1>1, <2>2 DEF FileInv, Unrecorded
    <3>2. imDst = {p} /\ p[1] = imView[imCur].item
      BY <3>1 DEF LinkInv
    <3> QED BY <1>1, <2>2, <3>2 DEF Excused
  <2> QED BY <1>1, <2>1, <2>2 DEF Unrecorded
<1>4. NamesFree'
  BY <1>1, DropsNamesFree DEF FileInv, LinkInv
<1>5. ASSUME NEW r \in Requests, rqPc[r] = "dRecord" PROVE Taken(r)'
  BY <1>1, <1>2, <1>5, DropsTaken DEF FileInv
<1> QED BY <1>2, <1>3, <1>4, <1>5 DEF FileInv

\* The resync drops the records of files that are not there.
LEMMA FinalizeKeepsFiles ==
  ASSUME PipelineInv, RowsStep, [Next]_vars, LinkInv, FileInv, UNCHANGED rqVars, ImFinalize
  PROVE  FileInv'
<1>1. imPc = "finalize" /\ imPc' = "import" /\ imDst' = {} /\ imDst = {} /\ UNCHANGED libraryFiles
  BY DEF ImFinalize, ImNextRow, LinkInv
<1>2. \A r \in Requests : RqSame(r) /\ rqPc'[r] = rqPc[r]
  BY DEF rqVars, RqSame
<1>3. ASSUME NEW p \in mediaFiles, p \in libraryFiles PROVE p \in mediaFiles'
  BY <1>3 DEF ImFinalize, Resynced, ItemFiles
<1>4. Unrecorded'
  BY <1>1, <1>3, DropsUnrecorded DEF FileInv
<1>5. NamesFree'
  BY <1>1 DEF NamesFree
<1>6. ASSUME NEW r \in Requests, rqPc[r] = "dRecord" PROVE Taken(r)'
  BY <1>1, <1>2, <1>6, DropsTaken DEF FileInv
<1> QED BY <1>2, <1>4, <1>5, <1>6 DEF FileInv

LEMMA ImportKeepsFiles ==
  ASSUME PipelineInv, RowsStep, [Next]_vars, LinkInv, FileInv, "record" \notin Faults, Import
  PROVE  FileInv'
<1>1. ImNext /\ UNCHANGED rqVars
  BY DEF Import
<1>2. CASE \E d \in Downloads : ImClaim(d)
  BY <1>1, <1>2, ClaimKeepsFiles
<1>3. CASE ImLoad \/ ImRecord \/ ImFinalize
  BY <1>1, <1>3, LoadKeepsFiles, RecordKeepsFiles, FinalizeKeepsFiles
<1>4. CASE \E v \in Videos : ImLink(v)
  BY <1>1, <1>4, LinkKeepsFiles
<1>5. ASSUME NEW v \in Videos, ImSkip(v) PROVE FileInv'
  <2>1. /\ imPc = "link" /\ imPc' = "link" /\ imTodo' \subseteq imTodo
        /\ UNCHANGED <<libraryFiles, mediaFiles, imView, imCur, imKnown, imDst>>
    BY <1>5 DEF ImSkip, storeVars
  <2>2. \A r \in Requests : RqSame(r) /\ rqPc'[r] = rqPc[r]
    BY <1>1 DEF rqVars, RqSame
  <2>3. Unrecorded'
    BY <2>1, DropsUnrecorded DEF FileInv
  <2>4. NamesFree'
    BY <2>1, DropsNamesFree DEF FileInv, LinkInv
  <2>5. ASSUME NEW r \in Requests, rqPc[r] = "dRecord" PROVE Taken(r)'
    BY <2>1, <2>2, <2>5, DropsTaken DEF FileInv
  <2> QED BY <2>2, <2>3, <2>4, <2>5 DEF FileInv
<1>6. ASSUME NEW next, ImGivesUp(next), imPc # "record" PROVE FileInv'
  BY <1>1, <1>6, QuietKeepsFiles DEF ImGivesUp, ImNextRow
<1>7. CASE ImParentGone \/ ImLoadFails \/ ImLinkFails \/ ImNothingImported
  <2>1. CASE \E next : ImGivesUp(next) /\ imPc # "record"
    BY <1>6, <2>1
  <2>2. CASE ImParentGone /\ ImNextRow("import") /\ UNCHANGED storeVars
    BY <1>1, <2>2, QuietKeepsFiles DEF ImParentGone, ImNextRow, storeVars
  <2> QED BY <1>7, <2>1, <2>2 DEF ImParentGone, ImLoadFails, ImLinkFails, ImNothingImported
<1>8. CASE ImListDownloaded \/ ImListSeeding \/ ImTickEnds \/ ImRemoveTorrent \/ ImSeedRemove
  BY <1>1, <1>8, QuietKeepsFiles DEF ImListDownloaded, ImListSeeding, ImTickEnds, ImRemoveTorrent,
     ImSeedRemove, ImNextRow, ImScratch, storeVars
<1>9. CASE ImFinish
  BY <1>1, <1>9, QuietKeepsFiles DEF ImFinish, ImNextRow, ImScratch
<1>10. CASE \E d \in Downloads : ImCompleteSeeding(d) \/ ImKeepSeeding(d)
  BY <1>1, <1>10, QuietKeepsFiles DEF ImCompleteSeeding, ImKeepSeeding, ImScratch, storeVars
<1> QED BY <1>1, <1>2, <1>3, <1>4, <1>5, <1>7, <1>8, <1>9, <1>10 DEF ImNext

LEMMA AccountInvKept ==
  ASSUME PipelineInv, RowsStep, AccountInv, [Next]_vars
  PROVE  AccountInv'
<1>1. LinkInv'
  BY LinksKept DEF AccountInv
<1>2. ASSUME Calm' PROVE Calm /\ ~Restart
  <2>1. CASE Restart
    BY <1>2, <2>1 DEF Restart, Calm, PipelineInv
  <2>2. CASE UNCHANGED restarts
    BY <1>2, <2>1, <2>2 DEF Calm
  <2> QED BY <2>1, <2>2 DEF Next, Worker, Import, Removal, Monitor, Backfill, Client, Outage, ManualCreate,
             StatusRequest, MonitorRequest, vars, boundVars
<1>3. ASSUME Calm' PROVE FileInv'
  <2>0. FileInv /\ LinkInv /\ "record" \notin Faults /\ ~Restart
    BY <1>2, <1>3 DEF AccountInv, Calm
  <2>1. CASE Import
    BY <2>0, <2>1, ImportKeepsFiles
  <2>2. CASE Removal
    BY <2>0, <2>2, RemovalKeepsFiles
  <2>3. CASE Worker \/ Monitor \/ Backfill
    <3>1. UNCHANGED <<mediaFiles, libraryFiles>>
      BY <2>3 DEF Worker, DwNext, DwListPending, DwFetchFails, DwAddTorrent, DwReuseTorrent, DwAddFails,
         DwClaim, DwUndo, DwListDownloading, DwTickEnds, DwCheckItem, DwPoll, Monitor,
         MoNext, MoFindNothing, MoGiveUp, MoCheck, MoPick, MoGrab, Backfill,
         BfNext, BfList, BfDone, BfRefresh, BfResolve, BfUnresolved, storeVars
    <3> QED BY <2>0, <2>3, <3>1, OthersKeepFiles DEF Worker, Monitor, Backfill
  <2>4. CASE Client \/ Outage \/ ManualCreate \/ StatusRequest \/ MonitorRequest \/ UNCHANGED vars
    <3>1. UNCHANGED <<mediaFiles, libraryFiles>>
      BY <2>4 DEF Client, Outage, QbitStep, ManualCreate, Create, StatusRequest, UpdateStatus, MonitorRequest,
         SetMonitored, vars, storeVars
    <3> QED BY <2>0, <2>4, <3>1, OthersKeepFiles DEF Client, Outage, ManualCreate, StatusRequest, MonitorRequest, vars
  <2> QED BY <2>0, <2>1, <2>2, <2>3, <2>4 DEF Next
<1> QED BY <1>1, <1>3 DEF AccountInv

\* While no user says that a row is importing, an import under way has its importer; and unless a
\* crash or a failing write loses a record, every file in the library is recorded or about to be,
\* unless its item is gone or its release was queued twice (importer.importOne, recordImport,
\* media.DeleteDownload, mediafile resync).
THEOREM ImportsAlwaysAccounted == NoImportByHand => (Spec => []ImportsAccounted)
<1> SUFFICES ASSUME NoImportByHand PROVE Spec => []ImportsAccounted
  OBVIOUS
<1>1. Init => PipelineInv /\ AccountInv
  <2>1. Init => PipelineInv
    BY PipelineInitially
  <2>2. Init => LinkInv /\ FileInv
    BY DEF Init, StoreInit, ImInit, RqInit, LinkInv, OfRows, Snapshots, FileInv, Unrecorded, NamesFree
  <2> QED BY <2>1, <2>2 DEF AccountInv
<1>2. PipelineInv /\ AccountInv /\ [Next]_vars => (PipelineInv /\ AccountInv)'
  BY PipelineStep, AccountInvKept
<1>3. AccountInv => LibraryFilesRecorded
  <2> SUFFICES ASSUME AccountInv, Calm, NEW p \in libraryFiles \ mediaFiles, p \notin imDst,
                      mediaItems[p[1]].present
               PROVE  \E d, e \in Downloads : d # e /\ {downloads[d].url, downloads[e].url} = {p[2]}
    BY DEF LibraryFilesRecorded, Calm
  <2>1. Twice(p[2])
    BY DEF AccountInv, FileInv, Unrecorded, Excused
  <2> QED BY <2>1 DEF Twice
<1>4. Spec => []ImportingRowOwned
  BY ImportingAlwaysOwned
<1> QED BY <1>1, <1>2, <1>3, <1>4, PTL DEF Spec, ImportsAccounted

-----------------------------------------------------------------------------
(* What the workers take from the client                                   *)

\* No request to remove anything has begun.
Untouched == \A r \in Requests : rqPc[r] = "idle"

SendPcs == {"send", "fetch", "claim", "undo"}

\* Before any removal, the rows a tick is to send are pending, and a row whose torrent the
\* importer removes is completed: each is the row of its release that is in progress.
KeepInv ==
  /\ ReleaseHashes
  /\ Untouched =>
       /\ dwPc \in SendPcs =>
            \A d \in DwHeld : downloads[d].status = "pending" /\ downloads[d].url = dwView[d].url
       /\ imPc \in {"remove", "seedremove"} =>
            /\ downloads[imCur].status = "completed"
            /\ imView[imCur].hash \in {None, HashOf[downloads[imCur].url]}

\* A write changes the row its snapshot is of, and no other.
LEMMA Overwrites ==
  ASSUME StoreInv, NEW d \in Downloads, NEW view, view # NoRow, FreshOf(view, downloads[d]),
         NEW next, Successor(view, next), UpdateDownload(d, next),
         NEW e \in Downloads, downloads'[e] # downloads[e]
  PROVE  e = d /\ view = downloads[d] /\ downloads'[d].status = next.status
<1>1. view = downloads[d] /\ downloads' = [downloads EXCEPT ![d] = Written(next)]
  BY UpdateKeeps
<1>2. Written(next).status = next.status
  BY DEF Written, Successor, LiveRow
<1> QED BY <1>1, <1>2 DEF StoreInv, StoreTypeOK

\* What is pending or completed is written by nobody but the send of the row, or a request.
LEMMA StatusesStay ==
  ASSUME NoHand, PipelineInv, [Next]_vars, ~Removal,
         NEW d \in Downloads, downloads[d].status \in {"pending", "completed"},
         downloads'[d].status # downloads[d].status
  PROVE  downloads[d].status = "pending" /\ dwView'[d] = NoRow
<1> USE DEF PipelineInv
<1>0. downloads'[d] # downloads[d]
  OBVIOUS
<1>1. CASE Worker
  <2>1. ASSUME dwPc \in {"fetch", "claim"}
        PROVE  /\ dwCur \in Downloads /\ dwView[dwCur] # NoRow /\ dwView[dwCur] \in LiveRow
               /\ FreshOf(dwView[dwCur], downloads[dwCur])
               /\ dwView[dwCur].status = "pending" /\ dwView \in [Downloads -> Row]
    BY <2>1 DEF DwInv, DwTypeOK, DwHeld, FreshOf
  <2>2. CASE DwFetchFails \/ DwAddFails
    <3>1. UpdateDownload(dwCur, Retried(dwView[dwCur])) /\ dwPc \in {"fetch", "claim"} /\ DwDrop(dwCur)
      BY <2>2 DEF DwFetchFails, DwAddFails, DwNextRow
    <3>2. Successor(dwView[dwCur], Retried(dwView[dwCur]))
      BY <2>1, <3>1, Successors
    <3>3. d = dwCur /\ dwView[dwCur] = downloads[d]
      BY <1>0, <2>1, <3>1, <3>2, Overwrites
    <3> QED BY <2>1, <3>1, <3>3 DEF DwDrop
  <2>3. CASE DwClaim
    <3> DEFINE row == dwView[dwCur]
    <3>1. Current(dwCur, row) /\ PutRow(dwCur, Sent(row)) /\ DwDrop(dwCur) /\ dwPc = "claim"
      BY <1>0, <2>3 DEF DwClaim, DwNextRow
    <3>2. Successor(row, Sent(row))
      BY <2>1, <3>1, Successors
    <3>3. UpdateDownload(dwCur, Sent(row))
      BY <3>1, <3>2 DEF UpdateDownload, Current, Successor
    <3>4. d = dwCur /\ row = downloads[d]
      BY <1>0, <2>1, <3>1, <3>2, <3>3, Overwrites
    <3> QED BY <2>1, <3>1, <3>4 DEF DwDrop
  <2>4. ASSUME NEW e \in Downloads, DwPoll(e) PROVE FALSE
    <3> DEFINE row == dwView[e]
    <3>1. row # NoRow /\ row \in LiveRow /\ FreshOf(row, downloads[e]) /\ row.status = "downloading"
      BY <2>4 DEF DwPoll, DwInv, DwHeld, FreshOf
    <3>2. \/ UNCHANGED downloads
          \/ UpdateDownload(e, Missing(row))
          \/ UpdateDownload(e, [row EXCEPT !.status = "downloaded"])
          \/ UpdateDownload(e, [row EXCEPT !.status = "failed", !.backoff = FALSE])
      BY <2>4 DEF DwPoll, HandleMissingTorrent, UpdateFromTorrent
    <3>3. {"downloaded", "failed"} \subseteq Statuses
      BY DEF Statuses, ActiveDownloadStatuses, TerminalFailureStatuses
    <3> HIDE DEF row
    <3>4. PICK next : UpdateDownload(e, next) /\ Successor(row, next)
      BY <1>0, <3>1, <3>2, <3>3, Successors
    <3>5. e = d /\ row = downloads[d]
      BY <1>0, <3>1, <3>4, Overwrites
    <3> QED BY <3>1, <3>5
  <2>5. DwFetchFails \/ DwAddFails \/ DwClaim \/ (\E e \in Downloads : DwPoll(e)) \/ UNCHANGED downloads
    BY <1>1 DEF Worker, DwNext, DwListPending, DwAddTorrent, DwReuseTorrent, DwUndo, DwListDownloading,
                DwTickEnds, DwCheckItem, storeVars
  <2> QED BY <1>0, <2>2, <2>3, <2>4, <2>5
<1>2. CASE Import
  <2>1. ASSUME NEW e \in ImHeld, NEW next, Successor(imView[e], next), UpdateDownload(e, next),
               imView[e].status \in {"downloaded", "importing", "seeding"}
        PROVE  FALSE
    <3>1. e \in Downloads /\ imView[e] # NoRow /\ FreshOf(imView[e], downloads[e])
      BY <2>1 DEF ImInv, ImHeld
    <3>2. e = d /\ imView[e] = downloads[d]
      BY <1>0, <2>1, <3>1, Overwrites
    <3> QED BY <2>1, <3>2
  <2>2. \A e \in ImHeld : imView[e] \in LiveRow
    BY DEF ImInv, ImHeld, FreshOf
  <2>3. {"importing", "seeding", "completed"} \subseteq Statuses
    BY DEF Statuses, ActiveDownloadStatuses
  <2>4. imPc \in {"load", "link", "record"} => imCur \in ImHeld /\ imView[imCur].status = "importing"
    BY DEF ImInv, ImTypeOK, ImHeld, ImBusy
  <2>5. ASSUME NEW e \in Downloads, ImClaim(e) PROVE FALSE
    <3>1. e \in ImHeld /\ e # imCur /\ imPc = "import"
          /\ UpdateDownload(e, [imView[e] EXCEPT !.status = "importing"])
      BY <2>5, StoreAssumption DEF ImClaim, ImInv, ImBusy
    <3>2. imView[e].status = "downloaded"
      BY <3>1 DEF ImInv, ImportPcs
    <3> QED BY <2>1, <2>2, <2>3, <3>1, <3>2, Successors
  <2>6. ASSUME imPc \in {"load", "link", "record"},
               ImGivesUp(ImportFailed(imView[imCur])) \/ ImGivesUp(ImportRetried(imView[imCur]))
        PROVE  FALSE
    BY <2>1, <2>2, <2>4, <2>6, Successors DEF ImGivesUp
  <2>7. CASE ImFinish
    <3>1. PICK s \in {"seeding", "completed"} :
            UpdateDownload(imCur, [imView[imCur] EXCEPT !.status = s, !.linked = TRUE])
      BY <2>7 DEF ImFinish
    <3>2. imCur \in ImHeld /\ imView[imCur].status = "importing" /\ s \in Statuses
      BY <2>3, <2>4, <2>7 DEF ImFinish
    <3> DEFINE next == [imView[imCur] EXCEPT !.status = s, !.linked = TRUE]
    <3>3. Successor(imView[imCur], next)
      BY <2>2, <3>2, Successors
    <3> HIDE DEF next
    <3>4. UpdateDownload(imCur, next)
      BY <3>1 DEF next
    <3> QED BY <2>1, <3>2, <3>3, <3>4
  <2>8. ASSUME NEW e \in Downloads, ImCompleteSeeding(e) PROVE FALSE
    <3>1. e \in ImHeld /\ e # imCur /\ imPc = "seeding"
          /\ UpdateDownload(e, [imView[e] EXCEPT !.status = "completed"])
      BY <2>8, StoreAssumption DEF ImCompleteSeeding, ImInv, ImBusy
    <3>2. imView[e].status = "seeding"
      BY <3>1 DEF ImInv, ImportPcs
    <3> QED BY <2>1, <2>2, <2>3, <3>1, <3>2, Successors
  <2>9. CASE ImParentGone \/ ImLoadFails \/ ImLinkFails \/ ImNothingImported
    BY <1>0, <2>6, <2>9 DEF ImParentGone, ImLoadFails, ImLinkFails, ImNothingImported, storeVars
  <2>10. \/ ImParentGone \/ ImLoadFails \/ ImLinkFails \/ ImNothingImported \/ ImFinish
         \/ \E e \in Downloads : ImClaim(e) \/ ImCompleteSeeding(e)
         \/ UNCHANGED downloads
    BY <1>2 DEF Import, ImNext, ImFinalize, ImListDownloaded, ImLoad, ImRecord, ImRemoveTorrent,
                ImListSeeding, ImSeedRemove, ImTickEnds, ImKeepSeeding, ImSkip, ImLink, storeVars
  <2> QED BY <1>0, <2>5, <2>7, <2>8, <2>9, <2>10
<1>3. CASE Backfill
  <2>1. PICK e \in Downloads : BfResolve(e)
    BY <1>0, <1>3 DEF Backfill, BfNext, BfList, BfDone, BfRefresh, BfUnresolved, storeVars
  <2>2. bfView[e] \in LiveRow /\ bfView[e] # NoRow /\ FreshOf(bfView[e], downloads[e])
    BY <2>1 DEF BfResolve, BfHeld, BfInv, FreshOf
  <2> DEFINE next == [bfView[e] EXCEPT !.episode = TRUE]
  <2>3. Successor(bfView[e], next) /\ next.status = bfView[e].status
    BY <2>2, Successors DEF LiveRow
  <2>4. UpdateDownload(e, next)
    BY <2>1 DEF BfResolve
  <2> HIDE DEF next
  <2>5. e = d /\ bfView[e] = downloads[d] /\ downloads'[d].status = next.status
    BY <1>0, <2>2, <2>3, <2>4, Overwrites
  <2> QED BY <2>3, <2>5
<1>4. CASE Monitor \/ ManualCreate
  <2>1. Exists(d)
    BY DEF Exists, Statuses, ActiveDownloadStatuses
  <2>2. ASSUME NEW e \in Downloads, NEW i \in Items, NEW u \in Urls, Queued(e, i, u) PROVE FALSE
    <3>1. downloads[e] = NoRow /\ \A f \in Downloads \ {e} : downloads'[f] = downloads[f]
      BY <2>2, QueuedRow
    <3> QED BY <1>0, <2>1, <3>1, Rows DEF Exists, NoRow, Statuses, ActiveDownloadStatuses, TerminalFailureStatuses
  <2>3. (\E e \in Downloads : MoGrab(e)) \/ ManualCreate
    BY <1>0, <1>4 DEF Monitor, MoNext, MoFindNothing, MoGiveUp, MoCheck, MoPick, storeVars
  <2>4. ASSUME NEW e \in Downloads, MoGrab(e) PROVE Queued(e, moItem, moUrl) /\ moItem \in Items /\ moUrl \in Urls
    BY <2>4, MonitorAssumption DEF MoGrab, Queued, MayGrab, MoIdle, MoTypeOK
  <2>5. ManualCreate => \E e \in Downloads, i \in Items, u \in Urls : Queued(e, i, u)
    BY PipelineAssumption DEF ManualCreate, Create, Queued
  <2> QED BY <2>2, <2>3, <2>4, <2>5
<1>5. CASE Restart
  <2>1. PICK reachable \in BOOLEAN : Reconcile(reachable)
    BY <1>5 DEF Restart
  <2>2. Reconciled(Recovered(downloads[d]), reachable) = downloads[d]
    BY DEF Reconciled, Recovered
  <2> QED BY <1>0, <2>1, <2>2 DEF Reconcile
<1>6. ~StatusRequest
  BY DEF StatusRequest, NoHand
<1>7. CASE Client \/ Outage \/ MonitorRequest \/ UNCHANGED vars
  BY <1>0, <1>7 DEF Client, Outage, QbitStep, MonitorRequest, SetMonitored, vars, storeVars
<1> QED BY <1>1, <1>2, <1>3, <1>4, <1>5, <1>6, <1>7 DEF Next

LEMMA HashesRestart ==
  ASSUME StoreInv, ReleaseHashes, Restart
  PROVE  ReleaseHashes'
<1>1. PICK reachable \in BOOLEAN : Reconcile(reachable)
  BY DEF Restart
<1> SUFFICES ASSUME NEW d \in Downloads, Exists(d)'
             PROVE  downloads'[d].hash \in {None, HashOf[downloads'[d].url]}
  BY DEF ReleaseHashes
<1> DEFINE row == downloads[d]
           next == Reconciled(Recovered(row), reachable)
<1>2. downloads'[d] = IF next = row THEN next ELSE Written(next)
  BY <1>1 DEF Reconcile
<1>3. CASE next = row
  BY <1>2, <1>3 DEF ReleaseHashes, Exists
<1>4. CASE next # row
  <2>1. Exists(d)
    BY <1>4 DEF Reconciled, Recovered, Exists, Statuses, ActiveDownloadStatuses
  <2>2. row \in LiveRow /\ row.hash \in {None, HashOf[row.url]}
    BY <2>1, LiveRowsExist DEF ReleaseHashes
  <2>3. Successor(row, Recovered(row)) /\ Recovered(row).hash = row.hash
    BY <2>2, Successors DEF Recovered, LiveRow
  <2>4. Successor(row, next) /\ next.hash \in {row.hash, None}
    <3>1. Recovered(row) \in LiveRow
      BY <2>3 DEF Successor
    <3>2. Successor(Recovered(row), Missing(Recovered(row)))
          /\ Missing(Recovered(row)).hash \in {Recovered(row).hash, None}
      BY <3>1, Successors, HashesWritten
    <3>3. next \in {Recovered(row), Missing(Recovered(row))}
      BY DEF Reconciled
    <3> QED BY <2>3, <3>2, <3>3 DEF Successor
  <2>5. next \in LiveRow /\ next.url = row.url
    BY <2>4 DEF Successor
  <2> HIDE DEF next
  <2>6. Written(next).hash = next.hash /\ Written(next).url = next.url
    BY <2>5 DEF Written, LiveRow
  <2> QED BY <1>2, <1>4, <2>2, <2>4, <2>5, <2>6
<1> QED BY <1>3, <1>4

LEMMA StillUntouched ==
  ASSUME PipelineInv, [Next]_vars, Untouched'
  PROVE  Untouched /\ ~Removal
<1>1. ~Removal
  <2> SUFFICES ASSUME NEW r \in Requests, RqAccept(r) \/ RqProceed(r) PROVE rqPc'[r] # "idle"
    BY DEF Removal, RqNext, Untouched
  <2> QED BY DEF RqAccept, RqProceed, RqCancel, RqPrepare, RqDownloadTorrent, RqDownloadFiles,
             RqDownloadRecord, RqListFiles, RqItemTorrents, RqItemFiles, RqItemRecord,
             RqReturn, RqGoto, PipelineInv, RqInv, RqTypeOK
<1>2. CASE UNCHANGED rqVars
  BY <1>1, <1>2 DEF Untouched, rqVars
<1>3. CASE Restart
  BY <1>1, <1>3 DEF Untouched, Restart
<1> QED BY <1>1, <1>2, <1>3 DEF Next, Worker, Import, Monitor, Backfill, Client, Outage, ManualCreate,
           StatusRequest, MonitorRequest, vars

LEMMA SendsKept ==
  ASSUME NoHand, StopInv, KeepInv, [Next]_vars, Untouched, ~Removal, dwPc' \in SendPcs,
         NEW d \in DwHeld'
  PROVE  downloads'[d].status = "pending" /\ downloads'[d].url = dwView'[d].url
<1> USE DEF StopInv, PipelineInv
<1>0. d \in Downloads /\ dwView'[d] # NoRow
  BY DEF DwHeld
\* The row stays what it is, or it would have been dropped.
<1>1. ASSUME dwPc \in SendPcs, dwView'[d] = dwView[d]
      PROVE  downloads'[d].status = "pending" /\ downloads'[d].url = dwView'[d].url
  <2>1. downloads[d].status = "pending" /\ downloads[d].url = dwView[d].url
    BY <1>0, <1>1 DEF KeepInv, DwHeld
  <2>2. downloads'[d].status = "pending"
    BY <1>0, <2>1, StatusesStay
  <2>3. Exists(d)
    BY <2>1 DEF Exists, Statuses, ActiveDownloadStatuses
  <2> QED BY <1>0, <1>1, <2>1, <2>2, <2>3, RowsWork
<1>2. CASE DwListPending
  <2>1. PICK S \in Due("pending") : dwView' = Snapshots(S) /\ UNCHANGED downloads
    BY <1>2 DEF DwListPending, storeVars
  <2>2. d \in S /\ dwView'[d] = downloads[d]
    BY <1>0, <2>1 DEF Snapshots
  <2> QED BY <2>1, <2>2 DEF Due, ListDownloads
<1>3. CASE Worker /\ ~DwListPending
  <2>1. dwPc \in SendPcs /\ (UNCHANGED dwView \/ \E e : DwDrop(e))
    BY <1>3 DEF Worker, DwNext, DwFetchFails, DwAddTorrent, DwReuseTorrent, DwAddFails, DwClaim, DwUndo,
                DwListDownloading, DwTickEnds, DwCheckItem, DwPoll, DwNextRow, SendPcs
  <2>2. dwView'[d] = dwView[d]
    BY <1>0, <2>1 DEF DwDrop, DwInv, DwTypeOK
  <2> QED BY <1>1, <2>1, <2>2
<1>4. CASE Restart
  BY <1>4 DEF Restart, SendPcs
<1>5. CASE UNCHANGED dwVars
  BY <1>1, <1>5 DEF dwVars
<1> QED BY <1>2, <1>3, <1>4, <1>5 DEF Next, Import, Removal, Monitor, Backfill, Client, Outage, ManualCreate,
           StatusRequest, MonitorRequest, vars

LEMMA RemovesKept ==
  ASSUME NoHand, StopInv, KeepInv, [Next]_vars, Untouched, ~Removal, imPc' \in {"remove", "seedremove"}
  PROVE  /\ downloads'[imCur'].status = "completed"
         /\ imView'[imCur'].hash \in {None, HashOf[downloads'[imCur'].url]}
<1> USE DEF StopInv, PipelineInv
<1>1. CASE UNCHANGED imVars
  <2>1. /\ imPc \in {"remove", "seedremove"} /\ imCur' = imCur /\ imView' = imView /\ imCur \in Downloads
        /\ downloads[imCur].status = "completed"
        /\ imView[imCur].hash \in {None, HashOf[downloads[imCur].url]}
    BY <1>1 DEF imVars, KeepInv, ImInv, ImTypeOK, ImBusy
  <2>2. downloads'[imCur].status = "completed"
    BY <2>1, StatusesStay
  <2>3. Exists(imCur)
    BY <2>1 DEF Exists, Statuses, ActiveDownloadStatuses
  <2> QED BY <2>1, <2>2, <2>3, RowsWork
\* The row that was just completed.
<1>2. ASSUME NEW d \in ImHeld, NEW next, Successor(imView[d], next), UpdateDownload(d, next),
             next.status = "completed", next.hash = imView[d].hash, Current(d, next),
             imCur' = d, imView'[d] = Written(next)
      PROVE  /\ downloads'[imCur'].status = "completed"
             /\ imView'[imCur'].hash \in {None, HashOf[downloads'[imCur'].url]}
  <2>1. d \in Downloads /\ imView[d] # NoRow /\ FreshOf(imView[d], downloads[d])
    BY DEF ImInv, ImHeld
  <2>2. imView[d] = downloads[d] /\ downloads' = [downloads EXCEPT ![d] = Written(next)]
    BY <1>2, <2>1, UpdateKeeps
  <2>3. downloads[d].hash \in {None, HashOf[downloads[d].url]}
    BY <1>2, <2>1 DEF KeepInv, ReleaseHashes, Current
  <2>4. /\ Written(next).status = "completed" /\ Written(next).hash = downloads[d].hash
        /\ Written(next).url = downloads[d].url
    BY <1>2, <2>2 DEF Written, Successor, LiveRow
  <2>5. downloads'[d] = Written(next)
    BY <2>1, <2>2 DEF StoreInv, StoreTypeOK
  <2> QED BY <1>2, <2>3, <2>4, <2>5
<1>3. \A d \in ImHeld : imView[d] \in LiveRow
  BY DEF ImInv, ImHeld, FreshOf
<1>4. CASE ImFinish
  <2>1. PICK s \in {"seeding", "completed"} :
          LET next == [imView[imCur] EXCEPT !.status = s, !.linked = TRUE]
          IN  /\ UpdateDownload(imCur, next)
              /\ IF Current(imCur, next)
                 THEN /\ imPc' = IF s = "completed" THEN "remove" ELSE "finalize"
                      /\ imView' = [imView EXCEPT ![imCur] = Written(next)]
                      /\ UNCHANGED <<imCur, ImScratch>>
                 ELSE ImNextRow("import")
    BY <1>4 DEF ImFinish
  <2>2. imCur \in ImHeld /\ imCur \in Downloads /\ imView \in [Downloads -> Row]
    BY <1>4 DEF ImFinish, ImInv, ImTypeOK, ImHeld, ImBusy
  <2> DEFINE next == [imView[imCur] EXCEPT !.status = s, !.linked = TRUE]
  <2>3. Current(imCur, next) /\ s = "completed"
    BY <2>1 DEF ImNextRow
  <2>4. s \in Statuses /\ imView[imCur] \in LiveRow
    BY <1>3, <2>2, <2>3 DEF Statuses, ActiveDownloadStatuses
  <2>5. Successor(imView[imCur], next) /\ next.hash = imView[imCur].hash /\ next.status = "completed"
    BY <2>3, <2>4, Successors, HashesWritten DEF LiveRow
  <2>6. UpdateDownload(imCur, next) /\ imView' = [imView EXCEPT ![imCur] = Written(next)] /\ imCur' = imCur
    BY <2>1, <2>3
  <2> HIDE DEF next
  <2>7. imView'[imCur] = Written(next)
    BY <2>2, <2>6
  <2> QED BY <1>2, <2>2, <2>3, <2>5, <2>6, <2>7
<1>5. ASSUME NEW d \in Downloads, ImCompleteSeeding(d)
      PROVE  /\ downloads'[imCur'].status = "completed"
             /\ imView'[imCur'].hash \in {None, HashOf[downloads'[imCur'].url]}
  <2> DEFINE next == [imView[d] EXCEPT !.status = "completed"]
  <2>1. /\ d \in ImHeld /\ UpdateDownload(d, next) /\ Current(d, next)
        /\ imCur' = d /\ imView' = [imView EXCEPT ![d] = Written(next)]
    BY <1>5 DEF ImCompleteSeeding
  <2>2. "completed" \in Statuses /\ imView[d] \in LiveRow
    BY <1>3, <2>1 DEF Statuses, ActiveDownloadStatuses
  <2>3. Successor(imView[d], next) /\ next.hash = imView[d].hash /\ next.status = "completed"
    BY <2>2, Successors, HashesWritten DEF LiveRow
  <2> HIDE DEF next
  <2>4. imView'[d] = Written(next)
    BY <2>1 DEF ImInv, ImTypeOK
  <2> QED BY <1>2, <2>1, <2>3, <2>4
<1>6. CASE Import
  <2>1. ImFinish \/ \E d \in Downloads : ImCompleteSeeding(d)
    BY <1>6 DEF Import, ImNext, ImListDownloaded, ImClaim, ImGivesUp, ImParentGone, ImLoadFails, ImLoad,
                ImSkip, ImLink, ImLinkFails, ImRecord, ImNothingImported, ImRemoveTorrent, ImFinalize,
                ImListSeeding, ImKeepSeeding, ImSeedRemove, ImTickEnds, ImNextRow
  <2> QED BY <1>4, <1>5, <2>1
<1>7. CASE Restart
  BY <1>7 DEF Restart
<1> QED BY <1>1, <1>6, <1>7 DEF Next, Worker, Removal, Monitor, Backfill, Client, Outage, ManualCreate,
           StatusRequest, MonitorRequest, vars

LEMMA KeepInvKept ==
  ASSUME NoHand, StopInv, KeepInv, [Next]_vars
  PROVE  KeepInv'
<1>1. ReleaseHashes'
  <2>1. CASE Restart
    BY <2>1, HashesRestart DEF KeepInv, StopInv, PipelineInv
  <2>2. CASE ~Restart
    BY <2>2, RowHashesKept, PipelineStep DEF KeepInv, StopInv, ReleaseHashes
  <2> QED BY <2>1, <2>2
<1>2. Untouched' => Untouched /\ ~Removal
  BY StillUntouched DEF StopInv
<1>3. Untouched' /\ dwPc' \in SendPcs =>
        \A d \in DwHeld' : downloads'[d].status = "pending" /\ downloads'[d].url = dwView'[d].url
  BY <1>2, SendsKept
<1>4. Untouched' /\ imPc' \in {"remove", "seedremove"} =>
        /\ downloads'[imCur'].status = "completed"
        /\ imView'[imCur'].hash \in {None, HashOf[downloads'[imCur'].url]}
  BY <1>2, RemovesKept
<1> QED BY <1>1, <1>3, <1>4 DEF KeepInv

\* What a step of a worker may not do to the torrents of others.
TakesNoOthers ==
  (Worker \/ Import) /\ Untouched =>
    \A d \in Downloads :
      /\ d # imCur
      /\ downloads[d].status \in {"downloading", "downloaded", "importing", "seeding"}
      /\ downloads[d].hash # None
      /\ ~SharesTorrent(d)
      => torrents[downloads[d].hash] = "absent" \/ torrents'[downloads[d].hash] # "absent"

LEMMA WorkersTakeNoOthers ==
  ASSUME StopInv, KeepInv, OneActiveDownloadPerRelease, [Next]_vars
  PROVE  [TakesNoOthers]_vars
<1> USE DEF StopInv, PipelineInv
<1> SUFFICES ASSUME Worker \/ Import, Untouched, NEW d \in Downloads, NEW h, h = downloads[d].hash,
                    d # imCur, downloads[d].status \in {"downloading", "downloaded", "importing", "seeding"},
                    h # None, ~SharesTorrent(d), torrents[h] # "absent", torrents'[h] = "absent"
             PROVE  FALSE
  BY DEF TakesNoOthers
<1>0. h \in Hashes /\ torrents \in [Hashes -> TorrentStates]
  BY DEF StoreInv, StoreTypeOK, Row
\* Another row of the release would be in progress as well.
<1>1. ASSUME NEW e \in Downloads, e # d, downloads[e].status \in {"pending", "completed"},
             HashOf[downloads[e].url] = h
      PROVE  FALSE
  <2>1. Exists(e)
    BY <1>1 DEF Exists, Statuses, ActiveDownloadStatuses
  <2>2. <<downloads[e].item, downloads[e].url>> = <<downloads[d].item, downloads[d].url>>
    BY <1>1, <2>1 DEF SharesTorrent
  <2> QED BY <1>1, <2>2 DEF OneActiveDownloadPerRelease, ActiveDownloadStatuses
<1>2. ASSUME NEW hs, DeleteTorrents(hs) PROVE h \in hs
  BY <1>0, <1>2 DEF DeleteTorrents
<1>3. /\ torrents' # torrents
      /\ \A k : torrents' # [torrents EXCEPT ![k] = "downloading"]
  BY <1>0
<1>4. CASE Worker
  <2>1. ~DwAddTorrent /\ ~DwReuseTorrent /\ ~DwAddFails
    BY <1>3 DEF DwAddTorrent, DwReuseTorrent, DwAddFails
  <2>2. DwUndo
    BY <1>3, <1>4, <2>1 DEF Worker, DwNext, DwListPending, DwFetchFails, DwClaim, DwListDownloading,
       DwTickEnds, DwCheckItem, DwPoll, storeVars
  <2>3. h = HashOf[dwView[dwCur].url]
    BY <1>2, <2>2 DEF DwUndo, DwTorrent
  <2>4. dwCur \in DwHeld /\ dwCur \in Downloads /\ dwPc \in SendPcs
    BY <2>2 DEF DwUndo, DwInv, DwTypeOK, DwHeld, SendPcs
  <2>5. downloads[dwCur].status = "pending" /\ downloads[dwCur].url = dwView[dwCur].url
    BY <2>4 DEF KeepInv
  <2> QED BY <1>1, <2>3, <2>4, <2>5
<1>5. CASE Import
  <2>1. ImRemoveTorrent \/ ImSeedRemove
    BY <1>3, <1>5 DEF Import, ImNext, ImListDownloaded, ImClaim, ImGivesUp, ImParentGone, ImLoadFails,
       ImLoad, ImSkip, ImLink, ImLinkFails, ImRecord, ImNothingImported, ImFinish, ImFinalize,
       ImListSeeding, ImCompleteSeeding, ImKeepSeeding, ImTickEnds, storeVars
  <2>2. h = imView[imCur].hash
    BY <1>2, <2>1 DEF ImRemoveTorrent, ImSeedRemove
  <2>3. imPc \in {"remove", "seedremove"} /\ imCur \in Downloads
    BY <2>1 DEF ImRemoveTorrent, ImSeedRemove, ImInv, ImTypeOK, ImBusy
  <2>4. downloads[imCur].status = "completed" /\ h = HashOf[downloads[imCur].url]
    BY <2>2, <2>3 DEF KeepInv
  <2> QED BY <1>1, <2>3, <2>4
<1> QED BY <1>4, <1>5

\* No worker takes the torrent that a row of the release still needs: unless a user sets a status
\* by hand, before any removal, whatever the values of the constants, a send that is refused and
\* an import that is completed remove torrents that no other row in progress has, unless it is
\* of another release with the same torrent (download.sendPending's addedTorrent,
\* importer.importOne, cleanupSeeding).
THEOREM WorkersAlwaysKeep == NoHand => (Spec => WorkersKeepOthersTorrents)
<1> SUFFICES ASSUME NoHand PROVE Spec => WorkersKeepOthersTorrents
  OBVIOUS
<1>1. Init => StopInv /\ KeepInv /\ OneActiveDownloadPerRelease
  BY StopInitially DEF Init, StoreInit, DwInit, ImInit, NoRow, OneActiveDownloadPerRelease,
     ActiveDownloadStatuses, KeepInv, ReleaseHashes, SendPcs
<1>2. StopInv /\ KeepInv /\ OneActiveDownloadPerRelease /\ [Next]_vars
        => (StopInv /\ KeepInv /\ OneActiveDownloadPerRelease)'
  BY OneActiveKept, StopStep, KeepInvKept
<1>3. StopInv /\ KeepInv /\ OneActiveDownloadPerRelease /\ [Next]_vars => [TakesNoOthers]_vars
  BY WorkersTakeNoOthers
<1> QED BY <1>1, <1>2, <1>3, PTL DEF Spec, WorkersKeepOthersTorrents, TakesNoOthers, Untouched
=============================================================================
