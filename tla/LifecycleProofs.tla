--------------------------- MODULE LifecycleProofs ---------------------------
(***************************************************************************)
(* The pipeline implements DownloadLifecycle, and an item that is being    *)
(* deleted keeps no row that a worker may move.  The two are proved        *)
(* together: that a worker's write is a step of the lifecycle rests on     *)
(* the rows of such items being cancelled, and that they stay cancelled    *)
(* rests on every step being one of the lifecycle.                         *)
(***************************************************************************)
EXTENDS PipelineProofs

\* A request that removes an item has closed it, and nobody opens it again.
Closed == {i \in Items : ~Open(i)}
ItemsClosed == \A r \in Requests : rqPc[r] \in RqItemPcs => rqTarget[r] \in Closed

StopInv == PipelineInv /\ DeletionStopsDownloads /\ ItemsClosed

LifeStep == [Lifecycle!LifeNext]_(Lifecycle!lifeVars)

\* A step in which no user sets a status by hand.
WorkNext ==
  \/ Lifecycle!Recover
  \/ \E d \in Downloads :
       \/ Lifecycle!Cancel(d) \/ Lifecycle!Remove(d)
       \/ \E i \in Items : Lifecycle!Queue(d, i)
       \/ \E next \in {step[2] : step \in Lifecycle!Steps} : Lifecycle!Advance(d, next)
  \/ \E i \in Items : Lifecycle!StartDeletion(i) \/ Lifecycle!FinishDeletion(i)

WorkStep == [WorkNext]_(Lifecycle!lifeVars)

Fate(i) == <<mediaItems[i].present, mediaItems[i].deletionPending>>
FatesStay == \A i \in Items : Fate(i)' = Fate(i)

-----------------------------------------------------------------------------
(* Steps of one row                                                        *)

\* What the lifecycle says of the row's statuses and links.
Moves(row, next) ==
  /\ <<row.status, next.status>> \in Lifecycle!Steps
  /\ IF row.status = "importing" /\ next.status \in {"seeding", "completed"}
     THEN next.linked = TRUE
     ELSE next.linked = row.linked /\ (next.status = "completed" => row.linked)

Looks(row) == <<row.status, row.linked>>

LEMMA FatesSeen ==
  FatesStay => UNCHANGED [i \in Items |-> IF ~mediaItems[i].present THEN "gone"
                                         ELSE IF mediaItems[i].deletionPending THEN "deleting"
                                         ELSE "open"]
BY DEF FatesStay, Fate

\* Nothing of a row is seen but its status, its item and its link.
LEMMA Unseen ==
  ASSUME StoreInv, FatesStay, downloads' \in [Downloads -> Row],
         \A d \in Downloads : /\ Looks(downloads'[d]) = Looks(downloads[d])
                              /\ downloads'[d].item = downloads[d].item
  PROVE  WorkStep
<1>1. \A d \in Downloads : /\ downloads'[d].status = downloads[d].status
                           /\ downloads'[d].linked = downloads[d].linked
                           /\ downloads'[d].item = downloads[d].item
  BY DEF Looks
<1>2. UNCHANGED Lifecycle!lifeVars
  BY <1>1, FatesSeen DEF Lifecycle!lifeVars
<1> QED BY <1>2 DEF WorkStep

LEMMA RowAdvances ==
  ASSUME StoreInv, FatesStay, NEW d \in Downloads, downloads[d] \in LiveRow, Open(downloads[d].item),
         NEW next \in LiveRow, downloads' = [downloads EXCEPT ![d] = next],
         next.item = downloads[d].item, Moves(downloads[d], next)
  PROVE  WorkStep
<1>1. /\ downloads'[d] = next
      /\ \A e \in Downloads : e # d => downloads'[e] = downloads[e]
  BY DEF StoreInv, StoreTypeOK
<1> DEFINE St == [e \in Downloads |-> downloads[e].status]
           Li == [e \in Downloads |-> downloads[e].linked]
           Ow == [e \in Downloads |-> downloads[e].item]
<1>2. next.status \in {step[2] : step \in Lifecycle!Steps}
  BY DEF Moves
<1>3. Lifecycle!Advance(d, next.status)
  <2>1. /\ \A e \in Downloads : downloads'[e].status = IF e = d THEN next.status ELSE downloads[e].status
        /\ \A e \in Downloads : downloads'[e].item = downloads[e].item
    BY <1>1
  <2>0. St' = [St EXCEPT ![d] = next.status] /\ Ow' = Ow
    BY <2>1
  <2>2. CASE downloads[d].status = "importing" /\ next.status \in {"seeding", "completed"}
    <3>3. next.linked = TRUE
      BY <2>2 DEF Moves
    <3>0. \A e \in Downloads : downloads'[e].linked = IF e = d THEN next.linked ELSE downloads[e].linked
      BY <1>1
    <3>2. Li' = [Li EXCEPT ![d] = next.linked]
      BY <3>0
    <3>1. Li' = [Li EXCEPT ![d] = TRUE]
      BY ONLY <3>2, <3>3, Zenon
    <3> QED BY <2>0, <2>2, <3>1, FatesSeen DEF Lifecycle!Advance, Moves, Open, LiveRow
  <2>3. CASE ~(downloads[d].status = "importing" /\ next.status \in {"seeding", "completed"})
    <3>1. Li' = Li
      BY <1>1, <2>3 DEF Moves
    <3> QED BY <2>0, <2>3, <3>1, FatesSeen DEF Lifecycle!Advance, Moves, Open, LiveRow
  <2> QED BY <2>2, <2>3
<1> QED BY <1>2, <1>3 DEF WorkStep, WorkNext

\* A worker's write: refused, not seen, or a step of a row whose item is open.
LEMMA WriteSeen ==
  ASSUME StoreInv, DeletionStopsDownloads, FatesStay, NEW d \in Downloads, NEW view, view # NoRow,
         FreshOf(view, downloads[d]), NEW next, Successor(view, next), UpdateDownload(d, next),
         Moves(view, next) \/ Looks(next) = Looks(view)
  PROVE  WorkStep
<1>1. downloads' \in [Downloads -> Row]
  BY UpdateKeeps DEF RowsStep
<1>2. CASE ~Current(d, next)
  BY <1>1, <1>2, UpdateKeeps, Unseen DEF StoreInv
<1>3. CASE Current(d, next)
  <2> DEFINE new == Written(next)
  <2>1. /\ view = downloads[d] /\ view \in LiveRow /\ new \in LiveRow
        /\ downloads' = [downloads EXCEPT ![d] = new]
    BY <1>3, UpdateKeeps
  <2>2. new.status = next.status /\ new.linked = next.linked /\ new.item = view.item
    BY DEF Written, Successor, LiveRow
  <2> HIDE DEF new
  <2>3. CASE Looks(next) = Looks(view)
    <3>1. new.status = view.status /\ new.linked = view.linked
      BY <2>2, <2>3 DEF Looks
    <3>2. \A e \in Downloads : downloads'[e] = IF e = d THEN new ELSE downloads[e]
      BY <2>1 DEF StoreInv, StoreTypeOK
    <3> QED BY <1>1, <2>1, <2>2, <3>1, <3>2, Unseen DEF Looks
  <2>4. CASE Moves(view, next)
    <3>1. Moves(view, new)
      BY <2>2, <2>4 DEF Moves
    <3>2. view.status # "cancelled"
      BY <2>4 DEF Moves, Lifecycle!Steps
    <3>3. Open(downloads[d].item)
      BY <1>3, <2>1, <3>2 DEF DeletionStopsDownloads, Current
    <3> QED BY <2>1, <2>2, <3>1, <3>3, RowAdvances
  <2> QED BY <2>3, <2>4
<1> QED BY <1>2, <1>3

LEMMA Quiet == StoreInv /\ FatesStay /\ UNCHANGED downloads => WorkStep
BY Unseen DEF StoreInv, StoreTypeOK

LEMMA ItemsStay == UNCHANGED mediaItems => FatesStay
BY DEF FatesStay, Fate

-----------------------------------------------------------------------------
(* The workers                                                             *)

LEMMA DwMoves ==
  /\ \A row \in LiveRow : row.status = "pending" =>
       /\ Moves(row, Retried(row)) \/ Looks(Retried(row)) = Looks(row)
       /\ Moves(row, Sent(row))
  /\ \A row \in LiveRow : row.status = "downloading" =>
       /\ Moves(row, Missing(row)) /\ Moves(row, [row EXCEPT !.status = "downloaded"])
       /\ Moves(row, [row EXCEPT !.status = "failed", !.backoff = FALSE])
<1> USE DEF Moves, Looks, LiveRow, Lifecycle!Steps
<1>1. ASSUME NEW row \in LiveRow, row.status = "pending"
      PROVE  Moves(row, Retried(row)) \/ Looks(Retried(row)) = Looks(row)
  <2> DEFINE n == row.retryCount + 1
  <2> HIDE DEF n
  <2>1. CASE row.retryCount < MaxRetries
    <3>1. Retried(row) = [row EXCEPT !.retryCount = n, !.backoff = TRUE]
      BY <2>1 DEF Retried, n
    <3> QED BY <3>1
  <2>2. CASE ~(row.retryCount < MaxRetries)
    BY <1>1, <2>2 DEF Retried
  <2> QED BY <2>1, <2>2
<1>2. ASSUME NEW row \in LiveRow, row.status = "pending" PROVE Moves(row, Sent(row))
  BY <1>2 DEF Sent
<1>3. ASSUME NEW row \in LiveRow, row.status = "downloading"
      PROVE  /\ Moves(row, Missing(row)) /\ Moves(row, [row EXCEPT !.status = "downloaded"])
             /\ Moves(row, [row EXCEPT !.status = "failed", !.backoff = FALSE])
  BY <1>3 DEF Missing
<1> QED BY <1>1, <1>2, <1>3

LEMMA DwLife ==
  ASSUME StoreInv, DwInv, DeletionStopsDownloads, DwNext
  PROVE  WorkStep
<1>1. FatesStay
  <2>1. UNCHANGED mediaItems
    BY DEF DwNext, DwListPending, DwFetchFails, DwAddTorrent, DwReuseTorrent, DwAddFails, DwClaim,
           DwUndo, DwListDownloading, DwTickEnds, DwCheckItem, DwPoll, storeVars
  <2> QED BY <2>1, ItemsStay
<1>2. CASE UNCHANGED downloads
  BY <1>1, <1>2, Quiet
<1>3. ASSUME dwPc \in {"fetch", "claim"}
      PROVE  /\ dwCur \in Downloads /\ dwView[dwCur] # NoRow /\ dwView[dwCur] \in LiveRow
             /\ FreshOf(dwView[dwCur], downloads[dwCur]) /\ dwView[dwCur].status = "pending"
  <2>1. dwCur \in DwHeld
    BY <1>3 DEF DwInv, DwTypeOK, DwHeld
  <2> QED BY <1>3, <2>1 DEF DwInv, DwHeld, FreshOf
<1>4. CASE DwFetchFails \/ DwAddFails
  BY <1>1, <1>3, <1>4, DwMoves, Successors, WriteSeen DEF DwFetchFails, DwAddFails
<1>5. CASE DwClaim
  <2> DEFINE row == dwView[dwCur]
  <2>1. CASE Open(row.item) /\ Current(dwCur, row)
    <3>1. UpdateDownload(dwCur, Sent(row))
      BY <1>3, <1>5, <2>1, Successors DEF DwClaim, UpdateDownload, Current, Successor
    <3> QED BY <1>1, <1>3, <1>5, <3>1, DwMoves, Successors, WriteSeen DEF DwClaim
  <2>2. CASE ~(Open(row.item) /\ Current(dwCur, row))
    BY <1>2, <1>5, <2>2 DEF DwClaim
  <2> QED BY <2>1, <2>2
<1>6. ASSUME NEW d \in Downloads, DwPoll(d) PROVE WorkStep
  <2> DEFINE row == dwView[d]
  <2>1. row # NoRow /\ row \in LiveRow /\ FreshOf(row, downloads[d]) /\ row.status = "downloading"
    BY <1>6 DEF DwPoll, DwInv, DwHeld, FreshOf
  <2>2. \/ UNCHANGED downloads
        \/ UpdateDownload(d, Missing(row))
        \/ UpdateDownload(d, [row EXCEPT !.status = "downloaded"])
        \/ UpdateDownload(d, [row EXCEPT !.status = "failed", !.backoff = FALSE])
    BY <1>6 DEF DwPoll, HandleMissingTorrent, UpdateFromTorrent
  <2>3. {"downloaded", "failed"} \subseteq Statuses
    BY DEF Statuses, ActiveDownloadStatuses, TerminalFailureStatuses
  <2>4. CASE UpdateDownload(d, Missing(row))
    BY <1>1, <2>1, <2>4, DwMoves, Successors, WriteSeen
  <2>5. CASE UpdateDownload(d, [row EXCEPT !.status = "downloaded"])
    BY <1>1, <2>1, <2>3, <2>5, DwMoves, Successors, WriteSeen
  <2>6. CASE UpdateDownload(d, [row EXCEPT !.status = "failed", !.backoff = FALSE])
    BY <1>1, <2>1, <2>3, <2>6, DwMoves, Successors, WriteSeen
  <2> QED BY <1>2, <2>2, <2>4, <2>5, <2>6
<1>7. DwFetchFails \/ DwAddFails \/ DwClaim \/ (\E d \in Downloads : DwPoll(d)) \/ UNCHANGED downloads
  BY DEF DwNext, DwListPending, DwAddTorrent, DwReuseTorrent, DwUndo, DwListDownloading, DwTickEnds,
         DwCheckItem, storeVars
<1> QED BY <1>2, <1>4, <1>5, <1>6, <1>7

LEMMA ImMoves ==
  /\ \A row \in LiveRow : row.status = "downloaded" => Moves(row, [row EXCEPT !.status = "importing"])
  /\ \A row \in LiveRow : row.status = "importing" =>
       /\ Moves(row, ImportFailed(row)) /\ Moves(row, ImportRetried(row))
       /\ \A s \in {"seeding", "completed"} : Moves(row, [row EXCEPT !.status = s, !.linked = TRUE])
  /\ \A row \in LiveRow : row.status = "seeding" /\ row.linked =>
       Moves(row, [row EXCEPT !.status = "completed"])
<1> USE DEF Moves, LiveRow, Lifecycle!Steps
<1>1. ASSUME NEW row \in LiveRow, row.status = "importing"
      PROVE  Moves(row, ImportFailed(row)) /\ Moves(row, ImportRetried(row))
  <2> DEFINE n == row.retryCount + 1
  <2> HIDE DEF n
  <2>1. Moves(row, ImportFailed(row))
    BY <1>1 DEF ImportFailed
  <2>2. CASE row.retryCount >= MaxImportRetries
    BY <2>1, <2>2 DEF ImportRetried
  <2>3. CASE ~(row.retryCount >= MaxImportRetries)
    <3>1. ImportRetried(row) = [row EXCEPT !.status = "downloaded", !.retryCount = n, !.backoff = TRUE]
      BY <2>3 DEF ImportRetried, n
    <3> QED BY <1>1, <2>1, <3>1
  <2> QED BY <2>2, <2>3
<1>2. ASSUME NEW row \in LiveRow, row.status = "importing", NEW s \in {"seeding", "completed"}
      PROVE  Moves(row, [row EXCEPT !.status = s, !.linked = TRUE])
  BY <1>2
<1>3. ASSUME NEW row \in LiveRow, row.status = "downloaded"
      PROVE  Moves(row, [row EXCEPT !.status = "importing"])
  BY <1>3
<1>4. ASSUME NEW row \in LiveRow, row.status = "seeding", row.linked
      PROVE  Moves(row, [row EXCEPT !.status = "completed"])
  BY <1>4
<1> QED BY <1>1, <1>2, <1>3, <1>4

LEMMA ImLife ==
  ASSUME StoreInv, ImInv, DeletionStopsDownloads, ImNext
  PROVE  WorkStep
<1>1. CASE ImFinalize
  BY <1>1, Recalculated, Quiet DEF ImFinalize, FatesStay, Fate
<1>2. CASE UNCHANGED <<downloads, mediaItems>>
  BY <1>2, Quiet, ItemsStay
<1>3. \A d \in ImHeld : /\ d \in Downloads /\ imView[d] # NoRow /\ imView[d] \in LiveRow
                        /\ FreshOf(imView[d], downloads[d])
  BY DEF ImInv, ImHeld, FreshOf
<1>4. {"importing", "seeding", "completed"} \subseteq Statuses
  BY DEF Statuses, ActiveDownloadStatuses
<1>5. ASSUME NEW d \in ImHeld, NEW next, Successor(imView[d], next), UpdateDownload(d, next),
             Moves(imView[d], next), UNCHANGED mediaItems
      PROVE  WorkStep
  BY <1>3, <1>5, ItemsStay, WriteSeen
\* The row being imported.
<1>6. ASSUME imPc \in {"load", "link", "record"}
      PROVE  imCur \in ImHeld /\ imView[imCur] \in LiveRow /\ imView[imCur].status = "importing"
  <2>1. imCur \in ImHeld
    BY <1>6 DEF ImInv, ImTypeOK, ImHeld, ImBusy
  <2> QED BY <1>3, <1>6, <2>1 DEF ImInv
<1>7. ASSUME NEW d \in Downloads, ImClaim(d) PROVE WorkStep
  <2>1. /\ d \in ImHeld /\ d # imCur /\ imPc = "import" /\ UNCHANGED mediaItems
        /\ UpdateDownload(d, [imView[d] EXCEPT !.status = "importing"])
    BY <1>7, StoreAssumption DEF ImClaim, ImInv, ImBusy
  <2>2. imView[d].status = "downloaded"
    BY <2>1 DEF ImInv, ImportPcs
  <2> QED BY <1>3, <1>4, <1>5, <2>1, <2>2, ImMoves, Successors
<1>8. ASSUME imPc \in {"load", "link", "record"},
             ImGivesUp(ImportFailed(imView[imCur])) \/ ImGivesUp(ImportRetried(imView[imCur]))
      PROVE  WorkStep
  BY <1>5, <1>6, <1>8, ImMoves, Successors DEF ImGivesUp
<1>9. CASE ImParentGone
  BY <1>2, <1>8, <1>9 DEF ImParentGone, storeVars
<1>10. CASE ImLoadFails \/ ImLinkFails \/ ImNothingImported
  BY <1>8, <1>10 DEF ImLoadFails, ImLinkFails, ImNothingImported
<1>11. CASE ImFinish
  <2>1. PICK s \in {"seeding", "completed"} :
          UpdateDownload(imCur, [imView[imCur] EXCEPT !.status = s, !.linked = TRUE])
    BY <1>11 DEF ImFinish
  <2>2. imPc = "link" /\ UNCHANGED mediaItems
    BY <1>11 DEF ImFinish
  <2> QED BY <1>4, <1>5, <1>6, <2>1, <2>2, ImMoves, Successors
<1>12. ASSUME NEW d \in Downloads, ImCompleteSeeding(d) PROVE WorkStep
  <2>1. /\ d \in ImHeld /\ d # imCur /\ imPc = "seeding" /\ UNCHANGED mediaItems
        /\ UpdateDownload(d, [imView[d] EXCEPT !.status = "completed"])
    BY <1>12, StoreAssumption DEF ImCompleteSeeding, ImInv, ImBusy
  <2>2. imView[d].status = "seeding" /\ imView[d].linked
    BY <2>1 DEF ImInv, ImportPcs
  <2> QED BY <1>3, <1>4, <1>5, <2>1, <2>2, ImMoves, Successors
<1>13. \/ ImFinalize \/ ImParentGone \/ ImLoadFails \/ ImLinkFails \/ ImNothingImported \/ ImFinish
       \/ \E d \in Downloads : ImClaim(d) \/ ImCompleteSeeding(d)
       \/ UNCHANGED <<downloads, mediaItems>>
  BY DEF ImNext, ImListDownloaded, ImLoad, ImRecord, ImRemoveTorrent, ImListSeeding, ImSeedRemove,
         ImTickEnds, ImKeepSeeding, ImSkip, ImLink, storeVars
<1> QED BY <1>1, <1>2, <1>7, <1>9, <1>10, <1>11, <1>12, <1>13

-----------------------------------------------------------------------------
(* The requests                                                            *)

\* The item's fate as the lifecycle sees it.
Seen(i) == IF ~mediaItems[i].present THEN "gone"
           ELSE IF mediaItems[i].deletionPending THEN "deleting" ELSE "open"

\* Several rows at once: what the lifecycle sees is given row by row.
LEMMA RowsSeen ==
  ASSUME NEW S, NEW s,
         \A d \in Downloads : /\ downloads'[d].status = IF d \in S THEN s ELSE downloads[d].status
                              /\ downloads'[d].linked = downloads[d].linked
                              /\ downloads'[d].item = downloads[d].item
  PROVE  /\ [d \in Downloads |-> downloads[d].status]' =
              [d \in Downloads |-> IF d \in S THEN s ELSE downloads[d].status]
         /\ [d \in Downloads |-> downloads[d].linked]' = [d \in Downloads |-> downloads[d].linked]
         /\ [d \in Downloads |-> downloads[d].item]' = [d \in Downloads |-> downloads[d].item]
OBVIOUS

LEMMA Existing ==
  StoreInv => \A d \in Downloads : Exists(d) <=> downloads[d].status \notin {"none", "deleted"}
BY DEF StoreInv, StoreTypeOK, Row, Exists, Statuses, ActiveDownloadStatuses, TerminalFailureStatuses

LEMMA RowCancelled ==
  ASSUME StoreInv, FatesStay, NEW d \in Downloads, Exists(d),
         downloads' = [downloads EXCEPT ![d] = Cancelled(downloads[d])]
  PROVE  WorkStep
<1>1. /\ Cancelled(downloads[d]).status = "cancelled"
      /\ Cancelled(downloads[d]).linked = downloads[d].linked
      /\ Cancelled(downloads[d]).item = downloads[d].item
  BY CancelledRow DEF Cancelled, Written, LiveRow
<1>2. \A e \in Downloads :
        /\ downloads'[e].status = IF e \in {d} THEN "cancelled" ELSE downloads[e].status
        /\ downloads'[e].linked = downloads[e].linked
        /\ downloads'[e].item = downloads[e].item
  BY <1>1 DEF StoreInv, StoreTypeOK
<1> DEFINE St == [e \in Downloads |-> downloads[e].status]
<1>4. St' = [St EXCEPT ![d] = "cancelled"]
  BY <1>2
<1>3. Lifecycle!Cancel(d)
  BY <1>2, <1>4, RowsSeen, FatesSeen, Existing DEF Lifecycle!Cancel, Lifecycle!Live
<1> QED BY <1>3 DEF WorkStep, WorkNext

LEMMA RowGone ==
  ASSUME StoreInv, FatesStay, NEW d \in Downloads, downloads[d].status = "cancelled",
         downloads' = [downloads EXCEPT ![d] = Deleted(downloads[d])]
  PROVE  WorkStep
<1>0. downloads[d] \in Row
  BY DEF StoreInv, StoreTypeOK
<1>1. /\ Deleted(downloads[d]).status = "deleted"
      /\ Deleted(downloads[d]).linked = downloads[d].linked
      /\ Deleted(downloads[d]).item = downloads[d].item
  BY <1>0 DEF Deleted, Row
<1>2. \A e \in Downloads :
        /\ downloads'[e].status = IF e \in {d} THEN "deleted" ELSE downloads[e].status
        /\ downloads'[e].linked = downloads[e].linked
        /\ downloads'[e].item = downloads[e].item
  BY <1>1 DEF StoreInv, StoreTypeOK
<1> DEFINE St == [e \in Downloads |-> downloads[e].status]
<1>4. St' = [St EXCEPT ![d] = "deleted"]
  BY <1>2
<1>3. Lifecycle!Remove(d)
  BY <1>2, <1>4, RowsSeen, FatesSeen DEF Lifecycle!Remove
<1> QED BY <1>3 DEF WorkStep, WorkNext

LEMMA DeletionStarts ==
  ASSUME StoreInv, NEW i \in Items, Open(i),
         mediaItems' = [mediaItems EXCEPT ![i].deletionPending = TRUE, ![i].monitored = FALSE,
                                          ![i].ver = @ + 1],
         downloads' = CancelAll(i)
  PROVE  WorkStep
<1>1. \A e \in Downloads :
        /\ downloads'[e].status = IF e \in RowsOf(i) THEN "cancelled" ELSE downloads[e].status
        /\ downloads'[e].linked = downloads[e].linked
        /\ downloads'[e].item = downloads[e].item
  BY CancelledRow DEF CancelAll, RowsOf, Written, LiveRow
<1>2. \A j \in Items : /\ mediaItems'[j].present = mediaItems[j].present
                       /\ mediaItems'[j].deletionPending =
                            IF j = i THEN TRUE ELSE mediaItems[j].deletionPending
  BY DEF StoreInv, StoreTypeOK, MediaItem
<1>3. [j \in Items |-> Seen(j)]' = [[j \in Items |-> Seen(j)] EXCEPT ![i] = "deleting"]
  BY <1>2 DEF Seen, Open
<1>4. Lifecycle!OwnedBy(i) = RowsOf(i)
  BY Existing DEF Lifecycle!OwnedBy, Lifecycle!Live, RowsOf
<1>5. Lifecycle!StartDeletion(i)
  BY <1>1, <1>3, <1>4, RowsSeen DEF Lifecycle!StartDeletion, Seen, Open
<1> QED BY <1>5 DEF WorkStep, WorkNext

LEMMA DeletionEnds ==
  ASSUME StoreInv, NEW i \in Items, ~Open(i), mediaItems[i].present,
         mediaItems' = [mediaItems EXCEPT ![i].present = FALSE],
         downloads' = [d \in Downloads |-> IF d \in RowsOf(i) THEN Deleted(downloads[d])
                                           ELSE downloads[d]]
  PROVE  WorkStep
<1>1. \A e \in Downloads :
        /\ downloads'[e].status = IF e \in RowsOf(i) THEN "deleted" ELSE downloads[e].status
        /\ downloads'[e].linked = downloads[e].linked
        /\ downloads'[e].item = downloads[e].item
  BY CancelledRow DEF RowsOf, Deleted, LiveRow
<1>2. \A j \in Items : /\ mediaItems'[j].deletionPending = mediaItems[j].deletionPending
                       /\ mediaItems'[j].present = IF j = i THEN FALSE ELSE mediaItems[j].present
  BY DEF StoreInv, StoreTypeOK, MediaItem
<1>3. [j \in Items |-> Seen(j)]' = [[j \in Items |-> Seen(j)] EXCEPT ![i] = "gone"]
  BY <1>2 DEF Seen
<1>4. Lifecycle!OwnedBy(i) = RowsOf(i)
  BY Existing DEF Lifecycle!OwnedBy, Lifecycle!Live, RowsOf
<1>5. Lifecycle!FinishDeletion(i)
  BY <1>1, <1>3, <1>4, RowsSeen DEF Lifecycle!FinishDeletion, Seen, Open
<1> QED BY <1>5 DEF WorkStep, WorkNext

LEMMA RqLife ==
  ASSUME StoreInv, RqInv, ItemsClosed, RqNext
  PROVE  WorkStep
<1>1. CASE UNCHANGED <<downloads, mediaItems>>
  BY <1>1, Quiet, ItemsStay
<1>2. ASSUME NEW r \in Requests, NEW d \in Downloads, RqCancel(r, d) PROVE WorkStep
  BY <1>2, RowCancelled, ItemsStay DEF RqCancel
<1>3. ASSUME NEW r \in Requests, RqDownloadRecord(r) PROVE WorkStep
  <2> DEFINE d == rqTarget[r]
             i == rqView[r].item
  <2>1. CASE Preimage(r) /\ mediaItems[i].present
    <3>1. downloads[d].status = "cancelled" /\ d \in Downloads
      BY <1>3, <2>1 DEF RqDownloadRecord, Preimage, RqInv, RqTypeOK, RqDownloadPcs
    <3>2. /\ downloads' = [downloads EXCEPT ![d] = Deleted(downloads[d])]
          /\ RecalcMediaItemStatus(i, mediaFiles \ rqPaths[r]) \/ UNCHANGED mediaItems
      BY <1>3, <2>1 DEF RqDownloadRecord
    <3>3. FatesStay
      BY <3>2, Recalculated, ItemsStay DEF FatesStay, Fate
    <3> QED BY <3>1, <3>2, <3>3, RowGone
  <2>2. CASE ~(Preimage(r) /\ mediaItems[i].present)
    BY <1>1, <1>3, <2>2 DEF RqDownloadRecord
  <2> QED BY <2>1, <2>2
<1>4. ASSUME NEW r \in Requests, NEW i \in Items, RqPrepare(r, i) PROVE WorkStep
  BY <1>1, <1>4, DeletionStarts DEF RqPrepare, Open
<1>5. ASSUME NEW r \in Requests, RqItemRecord(r) PROVE WorkStep
  <2>1. rqTarget[r] \in Items /\ ~Open(rqTarget[r])
    BY <1>5 DEF RqItemRecord, ItemsClosed, Closed, RqInv, RqTypeOK, RqItemPcs
  <2> QED BY <1>1, <1>5, <2>1, DeletionEnds DEF RqItemRecord
<1>6. \/ \E r \in Requests : /\ \/ RqDownloadRecord(r) \/ RqItemRecord(r)
                                \/ (\E d \in Downloads : RqCancel(r, d))
                                \/ (\E i \in Items : RqPrepare(r, i))
      \/ UNCHANGED <<downloads, mediaItems>>
  BY DEF RqNext, RqAccept, RqProceed, RqDownloadTorrent, RqDownloadFiles, RqListFiles,
         RqItemTorrents, RqItemFiles, storeVars
<1> QED BY <1>1, <1>2, <1>3, <1>4, <1>5, <1>6

-----------------------------------------------------------------------------
(* The pipeline                                                            *)

LEMMA RowQueued ==
  ASSUME StoreInv, FatesStay, NEW d \in Downloads, NEW i \in Items, Open(i), NEW u \in Urls,
         NEW ep \in BOOLEAN, CreateDownload(d, i, u, ep)
  PROVE  WorkStep
<1> DEFINE St == [e \in Downloads |-> downloads[e].status]
           Ow == [e \in Downloads |-> downloads[e].item]
           Li == [e \in Downloads |-> downloads[e].linked]
<1>1. downloads[d] = NoRow /\ downloads' = [downloads EXCEPT ![d] = NewRow(i, u, ep)]
  BY RowCreated
<1>2. NewRow(i, u, ep).status = "pending" /\ NewRow(i, u, ep).item = i
      /\ NewRow(i, u, ep).linked = downloads[d].linked
  BY <1>1 DEF NewRow, NoRow
<1>3. \A e \in Downloads :
        /\ downloads'[e].status = IF e = d THEN "pending" ELSE downloads[e].status
        /\ downloads'[e].item = IF e = d THEN i ELSE downloads[e].item
        /\ downloads'[e].linked = downloads[e].linked
  BY <1>1, <1>2 DEF StoreInv, StoreTypeOK
<1>4. St' = [St EXCEPT ![d] = "pending"] /\ Ow' = [Ow EXCEPT ![d] = i] /\ Li' = Li
  BY <1>3
<1>5. Lifecycle!Queue(d, i)
  BY <1>1, <1>4, FatesSeen DEF Lifecycle!Queue, Open, NoRow
<1> QED BY <1>5 DEF WorkStep, WorkNext

LEMMA MoLife ==
  ASSUME StoreInv, MoTypeOK, MoNext
  PROVE  WorkStep
<1>1. FatesStay
  BY Recalculated, ItemsStay
     DEF MoNext, MoFindNothing, MoGiveUp, MoCheck, MoPick, MoGrab, storeVars, FatesStay, Fate
<1>2. ASSUME NEW d \in Downloads, MoGrab(d) PROVE WorkStep
  <2>1. moItem \in Items /\ moUrl \in Urls /\ Open(moItem) /\ CreateDownload(d, moItem, moUrl, TRUE)
    BY <1>2, MonitorAssumption DEF MoGrab, MayGrab, MoTypeOK
  <2> QED BY <1>1, <2>1, RowQueued
<1>3. (\E d \in Downloads : MoGrab(d)) \/ UNCHANGED downloads
  BY DEF MoNext, MoFindNothing, MoGiveUp, MoCheck, MoPick, storeVars
<1> QED BY <1>1, <1>2, <1>3, Quiet

LEMMA BfLife ==
  ASSUME StoreInv, BfInv, DeletionStopsDownloads, BfNext
  PROVE  WorkStep
<1>1. FatesStay
  BY Recalculated, ItemsStay
     DEF BfNext, BfList, BfDone, BfRefresh, BfResolve, BfUnresolved, storeVars, FatesStay, Fate
<1>2. ASSUME NEW d \in Downloads, BfResolve(d) PROVE WorkStep
  <2>1. bfView[d] # NoRow /\ FreshOf(bfView[d], downloads[d]) /\ bfView[d] \in LiveRow
    BY <1>2 DEF BfResolve, BfHeld, BfInv, FreshOf
  <2>2. Looks([bfView[d] EXCEPT !.episode = TRUE]) = Looks(bfView[d])
    BY <2>1 DEF Looks, LiveRow
  <2> QED BY <1>1, <1>2, <2>1, <2>2, Successors, WriteSeen DEF BfResolve
<1>3. (\E d \in Downloads : BfResolve(d)) \/ UNCHANGED downloads
  BY DEF BfNext, BfList, BfDone, BfRefresh, BfUnresolved, storeVars
<1> QED BY <1>1, <1>2, <1>3, Quiet

\* A user's hand.
Overridden == \E d \in Downloads, s \in UserStatuses : Lifecycle!Override(d, s)

LEMMA RowOverridden ==
  ASSUME StoreInv, FatesStay, NEW d \in Downloads, NEW s \in UserStatuses, UpdateStatus(d, s)
  PROVE  Overridden
<1> DEFINE St == [e \in Downloads |-> downloads[e].status]
           new == Written(WithStatus(downloads[d], s))
<1>1. downloads[d] \in LiveRow
  BY CancelledRow DEF UpdateStatus
<1>2. new.status = s /\ new.linked = downloads[d].linked /\ new.item = downloads[d].item
  BY <1>1 DEF Written, WithStatus, LiveRow
<1>3. downloads' = [downloads EXCEPT ![d] = new]
  BY DEF UpdateStatus, PutRow
<1> HIDE DEF new
<1>4. \A e \in Downloads :
        /\ downloads'[e].status = IF e \in {d} THEN s ELSE downloads[e].status
        /\ downloads'[e].linked = downloads[e].linked
        /\ downloads'[e].item = downloads[e].item
  BY <1>2, <1>3 DEF StoreInv, StoreTypeOK
<1>5. St' = [St EXCEPT ![d] = s]
  BY <1>4
<1>6. Lifecycle!Override(d, s)
  BY <1>1, <1>4, <1>5, RowsSeen, FatesSeen, Existing
     DEF Lifecycle!Override, Lifecycle!Live, UpdateStatus, Open, LiveRow
<1> QED BY <1>6 DEF Overridden

\* A restart reads nothing but the table and the client.
LEMMA RowsRecovered ==
  ASSUME StoreInv, FatesStay, NEW reachable \in BOOLEAN, Reconcile(reachable)
  PROVE  WorkStep
<1> DEFINE gone == {d \in Downloads : /\ reachable
                                      /\ downloads[d].status \in {"downloading", "seeding"}
                                      /\ downloads[d].hash # None
                                      /\ torrents[downloads[d].hash] = "absent"}
           After(d) == IF downloads[d].status = "importing" THEN "downloaded"
                       ELSE IF d \notin gone THEN downloads[d].status
                       ELSE IF downloads[d].linked THEN "completed" ELSE "failed"
<1>1. ASSUME NEW d \in Downloads
      PROVE  /\ downloads'[d].status = After(d)
             /\ downloads'[d].linked = downloads[d].linked
             /\ downloads'[d].item = downloads[d].item
  <2> DEFINE next == Reconciled(Recovered(downloads[d]), reachable)
  <2>1. downloads[d] \in Row
    BY DEF StoreInv, StoreTypeOK
  <2>2. next \in Row /\ next.status = After(d) /\ next.linked = downloads[d].linked
        /\ next.item = downloads[d].item
    <3> USE DEF Row, Statuses, ActiveDownloadStatuses, TerminalFailureStatuses
    <3>1. CASE downloads[d].status = "importing"
      BY <2>1, <3>1 DEF Reconciled, Recovered
    <3>2. CASE d \in gone /\ downloads[d].linked
      BY <2>1, <3>2 DEF Reconciled, Recovered, Missing
    <3>3. CASE d \in gone /\ ~downloads[d].linked
      BY <2>1, <3>3 DEF Reconciled, Recovered, Missing
    <3>4. CASE downloads[d].status # "importing" /\ d \notin gone
      BY <2>1, <3>4 DEF Reconciled, Recovered
    <3> QED BY <3>1, <3>2, <3>3, <3>4
  <2> HIDE DEF next
  <2>3. downloads'[d] = IF next = downloads[d] THEN next ELSE Written(next)
    BY DEF Reconcile, next
  <2>4. Written(next).status = next.status /\ Written(next).linked = next.linked
        /\ Written(next).item = next.item
    BY <2>2 DEF Written, Row
  <2> QED BY <2>2, <2>3, <2>4
<1>2. [d \in Downloads |-> downloads[d].status]' = [d \in Downloads |-> After(d)]
      /\ [d \in Downloads |-> downloads[d].linked]' = [d \in Downloads |-> downloads[d].linked]
      /\ [d \in Downloads |-> downloads[d].item]' = [d \in Downloads |-> downloads[d].item]
  BY <1>1
<1> DEFINE St == [d \in Downloads |-> downloads[d].status]
           Li == [d \in Downloads |-> downloads[d].linked]
<1>3. gone \in SUBSET {d \in Downloads : St[d] \in {"downloading", "seeding"}}
  OBVIOUS
<1>5. St' = [d \in Downloads |-> IF St[d] = "importing" THEN "downloaded"
                                 ELSE IF d \notin gone THEN St[d]
                                 ELSE IF Li[d] THEN "completed" ELSE "failed"]
  BY <1>2
<1> HIDE DEF gone
<1>4. Lifecycle!Recover
  BY <1>2, <1>3, <1>5, FatesSeen DEF Lifecycle!Recover
<1> QED BY <1>4 DEF WorkStep, WorkNext

LEMMA EveryStepOfLife ==
  ASSUME StopInv, [Next]_vars
  PROVE  WorkStep \/ (StatusRequest /\ Overridden)
<1> USE DEF StopInv, PipelineInv
<1>1. CASE Worker
  BY <1>1, DwLife DEF Worker
<1>2. CASE Import
  BY <1>2, ImLife DEF Import
<1>3. CASE Removal
  BY <1>3, RqLife DEF Removal
<1>4. CASE Monitor
  BY <1>4, MoLife DEF Monitor
<1>5. CASE Backfill
  BY <1>5, BfLife DEF Backfill
<1>6. CASE Client
  BY <1>6, Quiet, ItemsStay DEF Client, QbitStep
<1>7. CASE ManualCreate
  BY <1>7, RowQueued, ItemsStay, PipelineAssumption DEF ManualCreate, Create
<1>8. CASE StatusRequest
  BY <1>8, RowOverridden, ItemsStay DEF StatusRequest, UpdateStatus
<1>9. CASE MonitorRequest
  <2>1. PICK i \in Items, monitored \in BOOLEAN : SetMonitored(i, monitored)
    BY <1>9 DEF MonitorRequest
  <2>2. FatesStay
    BY <2>1 DEF SetMonitored, FatesStay, Fate, StoreInv, StoreTypeOK, MediaItem
  <2> QED BY <2>1, <2>2, Quiet DEF SetMonitored
<1>10. CASE Restart
  BY <1>10, RowsRecovered, ItemsStay DEF Restart
<1>11. CASE Outage \/ UNCHANGED vars
  BY <1>11, Quiet, ItemsStay DEF Outage, vars, storeVars
<1> QED BY <1>1, <1>2, <1>3, <1>4, <1>5, <1>6, <1>7, <1>8, <1>9, <1>10, <1>11 DEF Next

LEMMA StepsOfLife == WorkStep \/ Overridden => LifeStep
BY DEF WorkStep, WorkNext, Overridden, LifeStep, Lifecycle!LifeNext

-----------------------------------------------------------------------------
(* What the steps of the lifecycle keep                                    *)

LEMMA OpenIsSeen == \A i \in Items : (Open(i) <=> Seen(i) = "open")
                                     /\ (mediaItems[i].present <=> Seen(i) # "gone")
BY DEF Open, Seen

\* A closed item stays closed, and one that is gone was closed before.
LEMMA ClosedForEver ==
  ASSUME LifeStep, NEW i \in Items
  PROVE  /\ ~Open(i) => ~Open(i)'
         /\ Seen(i)' # Seen(i) => Seen(i)' \in {"deleting", "gone"}
<1> DEFINE It == [j \in Items |-> Seen(j)]
<1>1. CASE It' = It
  <2>1. It[i] = Seen(i) /\ It'[i] = Seen(i)'
    OBVIOUS
  <2>2. Seen(i)' = Seen(i)
    BY ONLY <1>1, <2>1
  <2> QED BY <2>2 DEF Open, Seen
<1>2. ASSUME NEW j \in Items, NEW fate \in {"deleting", "gone"}, It' = [It EXCEPT ![j] = fate]
      PROVE  /\ ~Open(i) => ~Open(i)'
             /\ Seen(i)' # Seen(i) => Seen(i)' \in {"deleting", "gone"}
  <2>1. It'[i] = IF i = j THEN fate ELSE It[i]
    BY <1>2
  <2>2. Seen(i)' = IF i = j THEN fate ELSE Seen(i)
    BY <2>1
  <2> QED BY <1>2, <2>2 DEF Open, Seen
<1>3. \/ It' = It
      \/ \E j \in Items : It' = [It EXCEPT ![j] = "deleting"] \/ It' = [It EXCEPT ![j] = "gone"]
  <2>1. CASE UNCHANGED Lifecycle!lifeVars
    BY <2>1 DEF Lifecycle!lifeVars, Seen
  <2>2. CASE Lifecycle!Recover
    BY <2>2 DEF Lifecycle!Recover, Seen
  <2>3. ASSUME NEW d \in Downloads, NEW o \in Items, Lifecycle!Queue(d, o) PROVE It' = It
    BY <2>3 DEF Lifecycle!Queue, Seen
  <2>4. ASSUME NEW d, NEW next,
               \/ Lifecycle!Cancel(d) \/ Lifecycle!Remove(d) \/ Lifecycle!Advance(d, next)
               \/ Lifecycle!Override(d, next)
        PROVE  It' = It
    BY <2>4 DEF Lifecycle!Cancel, Lifecycle!Remove, Lifecycle!Advance, Lifecycle!Override, Seen
  <2>5. ASSUME NEW j \in Items, Lifecycle!StartDeletion(j) PROVE It' = [It EXCEPT ![j] = "deleting"]
    BY <2>5 DEF Lifecycle!StartDeletion, Seen
  <2>6. ASSUME NEW j \in Items, Lifecycle!FinishDeletion(j) PROVE It' = [It EXCEPT ![j] = "gone"]
    BY <2>6 DEF Lifecycle!FinishDeletion, Seen
  <2> HIDE DEF It
  <2> QED BY <2>1, <2>2, <2>3, <2>4, <2>5, <2>6 DEF LifeStep, Lifecycle!LifeNext
<1> HIDE DEF It
<1> QED BY <1>1, <1>2, <1>3

\* DeletionStopsDownloads as the lifecycle sees it.
SeenStop ==
  \A d \in Downloads :
    downloads[d].status \notin {"none", "deleted"} /\ Seen(downloads[d].item) # "open" =>
      downloads[d].status = "cancelled" /\ Seen(downloads[d].item) = "deleting"

LEMMA StopSeen == StoreInv => (DeletionStopsDownloads <=> SeenStop)
BY Existing DEF DeletionStopsDownloads, SeenStop, Seen, Open

Owned(d) == downloads[d].status \notin {"none", "deleted"} => downloads[d].item \in Items

LEMMA RowsOwned == StoreInv => \A d \in Downloads : Owned(d)
BY CancelledRow, Existing DEF Owned, LiveRow

LEMMA StopKept ==
  ASSUME StoreInv, StoreInv', DeletionStopsDownloads, LifeStep
  PROVE  DeletionStopsDownloads'
<1> DEFINE St == [d \in Downloads |-> downloads[d].status]
           Ow == [d \in Downloads |-> downloads[d].item]
           It == [i \in Items |-> Seen(i)]
\* What is seen of a row and of an item, before and after.
<1>1. /\ \A d \in Downloads : /\ St[d] = downloads[d].status /\ St'[d] = downloads'[d].status
                              /\ Ow[d] = downloads[d].item /\ Ow'[d] = downloads'[d].item
      /\ \A i \in Items : It[i] = Seen(i) /\ It'[i] = Seen(i)'
  OBVIOUS
<1>2. DOMAIN St = Downloads /\ DOMAIN Ow = Downloads /\ DOMAIN It = Items
  OBVIOUS
<1>3. /\ \A d \in Downloads : Owned(d)
      /\ (\A d \in Downloads : Owned(d))'
  BY RowsOwned, PTL
<1>4. SeenStop
  BY StopSeen
<1>5. SUFFICES SeenStop'
  BY StopSeen, PTL
<1>6. SUFFICES ASSUME NEW d \in Downloads, St'[d] \notin {"none", "deleted"}, It'[Ow'[d]] # "open"
               PROVE  St'[d] = "cancelled" /\ It'[Ow'[d]] = "deleting"
  BY <1>1, <1>3 DEF SeenStop, Owned
<1>7. /\ Ow'[d] \in Items
      /\ St[d] \notin {"none", "deleted"} =>
           /\ Ow[d] \in Items
           /\ It[Ow[d]] # "open" => St[d] = "cancelled" /\ It[Ow[d]] = "deleting"
  BY <1>1, <1>3, <1>4, <1>6 DEF Owned, SeenStop
<1> HIDE DEF St, Ow, It
\* One row changes: it is cancelled or deleted, or its item is open.
<1>8. ASSUME Ow' = Ow, It' = It, NEW e \in Downloads, NEW s,
             \/ s \in {"cancelled", "deleted"} /\ St[e] \notin {"none", "deleted"}
             \/ It[Ow[e]] = "open",
             St' = [St EXCEPT ![e] = s]
      PROVE  St'[d] = "cancelled" /\ It'[Ow'[d]] = "deleting"
  BY ONLY <1>2, <1>6, <1>7, <1>8
<1>9. CASE UNCHANGED Lifecycle!lifeVars
  <2>1. St' = St /\ Ow' = Ow /\ It' = It
    BY <1>9 DEF Lifecycle!lifeVars, Seen, St, Ow, It
  <2> QED BY ONLY <1>6, <1>7, <2>1
<1>10. CASE Lifecycle!Recover
  <2>1. /\ Ow' = Ow /\ It' = It
        /\ St'[d] # St[d] => St[d] \in {"importing", "downloading", "seeding"}
    BY <1>10 DEF Lifecycle!Recover, Seen, St, Ow, It
  <2> QED BY ONLY <1>6, <1>7, <2>1
<1>11. ASSUME NEW e \in Downloads, NEW i \in Items, Lifecycle!Queue(e, i)
       PROVE  St'[d] = "cancelled" /\ It'[Ow'[d]] = "deleting"
  <2>1. /\ It' = It /\ It[i] = "open"
        /\ St' = [St EXCEPT ![e] = "pending"] /\ Ow' = [Ow EXCEPT ![e] = i]
    BY <1>11 DEF Lifecycle!Queue, Seen, St, Ow, It
  <2> QED BY ONLY <1>2, <1>6, <1>7, <2>1
<1>12. ASSUME NEW e \in Downloads, Lifecycle!Cancel(e) \/ Lifecycle!Remove(e)
       PROVE  St'[d] = "cancelled" /\ It'[Ow'[d]] = "deleting"
  <2>1. /\ It' = It /\ Ow' = Ow /\ St[e] \notin {"none", "deleted"}
        /\ St' = [St EXCEPT ![e] = "cancelled"] \/ St' = [St EXCEPT ![e] = "deleted"]
    BY <1>12 DEF Lifecycle!Cancel, Lifecycle!Remove, Lifecycle!Live, Seen, St, Ow, It
  <2> QED BY <1>8, <2>1
<1>13. ASSUME NEW e \in Downloads, NEW next, Lifecycle!Advance(e, next) \/ Lifecycle!Override(e, next)
       PROVE  St'[d] = "cancelled" /\ It'[Ow'[d]] = "deleting"
  <2>1. It' = It /\ Ow' = Ow /\ It[Ow[e]] = "open" /\ St' = [St EXCEPT ![e] = next]
    BY <1>13 DEF Lifecycle!Advance, Lifecycle!Override, Seen, St, Ow, It
  <2> QED BY <1>8, <2>1
<1>14. ASSUME NEW i \in Items, Lifecycle!StartDeletion(i)
       PROVE  St'[d] = "cancelled" /\ It'[Ow'[d]] = "deleting"
  <2>1. /\ Ow' = Ow /\ It' = [It EXCEPT ![i] = "deleting"]
        /\ St'[d] = IF St[d] \notin {"none", "deleted"} /\ Ow[d] = i THEN "cancelled" ELSE St[d]
    BY <1>14 DEF Lifecycle!StartDeletion, Lifecycle!OwnedBy, Lifecycle!Live, Seen, St, Ow, It
  <2> QED BY ONLY <1>2, <1>6, <1>7, <2>1
<1>15. ASSUME NEW i \in Items, Lifecycle!FinishDeletion(i)
       PROVE  St'[d] = "cancelled" /\ It'[Ow'[d]] = "deleting"
  <2>1. /\ Ow' = Ow /\ It' = [It EXCEPT ![i] = "gone"]
        /\ St'[d] = IF St[d] \notin {"none", "deleted"} /\ Ow[d] = i THEN "deleted" ELSE St[d]
    BY <1>15 DEF Lifecycle!FinishDeletion, Lifecycle!OwnedBy, Lifecycle!Live, Seen, St, Ow, It
  <2> QED BY ONLY <1>2, <1>6, <1>7, <2>1
<1> QED BY <1>9, <1>10, <1>11, <1>12, <1>13, <1>14, <1>15 DEF LifeStep, Lifecycle!LifeNext

-----------------------------------------------------------------------------
(* The two together                                                        *)

LEMMA StopInitially == Init => StopInv /\ Lifecycle!LifeInit
<1> SUFFICES ASSUME Init PROVE StopInv /\ Lifecycle!LifeInit
  OBVIOUS
<1>1. DeletionStopsDownloads
  BY DEF Init, StoreInit, DeletionStopsDownloads, Exists, NoRow, Statuses,
         ActiveDownloadStatuses, TerminalFailureStatuses
<1>2. ItemsClosed
  BY DEF Init, RqInit, ItemsClosed, RqItemPcs
<1>3. Lifecycle!LifeInit
  BY DEF Init, StoreInit, Lifecycle!LifeInit, NoRow
<1> QED BY <1>1, <1>2, <1>3, PipelineInitially DEF StopInv

LEMMA ClosedKept ==
  ASSUME StopInv, [Next]_vars
  PROVE  ItemsClosed'
<1>1. LifeStep
  BY EveryStepOfLife, StepsOfLife
<1>2. Closed \subseteq Closed'
  BY <1>1, ClosedForEver DEF Closed
<1>3. \A r \in Requests : rqPc[r] \in RqItemPcs => rqTarget[r] \in Closed'
  BY <1>2 DEF StopInv, ItemsClosed
<1>4. CASE UNCHANGED rqVars
  BY <1>3, <1>4 DEF ItemsClosed, rqVars
<1>5. CASE Restart
  BY <1>5 DEF Restart, ItemsClosed, RqItemPcs
<1>6. CASE Removal
  <2>1. PICK r \in Requests : RqAccept(r) \/ RqProceed(r)
    BY <1>6 DEF Removal, RqNext
  <2>2. \A q \in Requests \ {r} : rqPc'[q] = rqPc[q] /\ rqTarget'[q] = rqTarget[q]
    BY <2>1 DEF RqAccept, RqProceed, RqCancel, RqPrepare, RqDownloadTorrent, RqDownloadFiles,
                RqDownloadRecord, RqListFiles, RqItemTorrents, RqItemFiles, RqItemRecord,
                RqReturn, RqGoto, StopInv, PipelineInv, RqInv, RqTypeOK
  <2>3. rqPc'[r] \in RqItemPcs => rqTarget'[r] \in Closed'
    <3> USE DEF StopInv, PipelineInv, RqInv, RqTypeOK, RqGoto, RqItemPcs
    <3>1. CASE \E d \in Downloads : RqCancel(r, d)
      BY <3>1 DEF RqCancel
    <3>2. ASSUME NEW i \in Items, RqPrepare(r, i) PROVE rqTarget'[r] \in Closed'
      <4>1. rqTarget'[r] = i
        BY <3>2 DEF RqPrepare
      <4>2. mediaItems'[i].deletionPending
        BY <3>2 DEF RqPrepare, StoreInv, StoreTypeOK, MediaItem
      <4> QED BY <4>1, <4>2 DEF Closed, Open
    <3>3. CASE RqDownloadTorrent(r) \/ RqDownloadFiles(r) \/ RqDownloadRecord(r) \/ RqItemRecord(r)
      BY <3>3 DEF RqDownloadTorrent, RqDownloadFiles, RqDownloadRecord, RqItemRecord, RqReturn
    <3>4. CASE RqListFiles(r) \/ RqItemTorrents(r) \/ RqItemFiles(r)
      <4>1. rqPc[r] \in RqItemPcs /\ rqTarget'[r] = rqTarget[r]
        BY <3>4 DEF RqListFiles, RqItemTorrents, RqItemFiles
      <4> QED BY <1>3, <4>1
    <3> QED BY <2>1, <3>1, <3>2, <3>3, <3>4 DEF RqAccept, RqProceed
  <2> QED BY <1>3, <2>2, <2>3 DEF ItemsClosed
<1> QED BY <1>4, <1>5, <1>6 DEF Next, Worker, Import, Monitor, Backfill, Client, Outage, ManualCreate,
           StatusRequest, MonitorRequest, vars

LEMMA StopStep == StopInv /\ [Next]_vars => StopInv' /\ LifeStep
<1> SUFFICES ASSUME StopInv, [Next]_vars PROVE StopInv' /\ LifeStep
  OBVIOUS
<1>1. PipelineInv' /\ LifeStep
  BY PipelineStep, EveryStepOfLife, StepsOfLife DEF StopInv
<1>2. DeletionStopsDownloads'
  BY <1>1, StopKept DEF StopInv, PipelineInv
<1> QED BY <1>1, <1>2, ClosedKept DEF StopInv

\* Every row of an item that is being deleted is cancelled, and a gone item has none, whatever
\* the workers held when the deletion was prepared (media.prepareDeletion, and the parent's
\* state that download and importer read).
THEOREM DeletionAlwaysStops == Spec => []DeletionStopsDownloads
<1>1. Spec => []StopInv
  BY StopInitially, StopStep, PTL DEF Spec
<1>2. StopInv => DeletionStopsDownloads
  BY DEF StopInv
<1> QED BY <1>1, <1>2, PTL

\* The pipeline implements DownloadLifecycle: whatever its workers, requests and restarts do,
\* rows and items live as promised.
THEOREM LifecycleImplemented == Spec => ImplementsLifecycle
<1>1. Spec => []StopInv
  BY StopInitially, StopStep, PTL DEF Spec
<1>2. StopInv /\ [Next]_vars => [Lifecycle!LifeNext]_(Lifecycle!lifeVars)
  BY StopStep DEF LifeStep
<1>3. Init => Lifecycle!LifeInit
  BY StopInitially
<1> QED BY <1>1, <1>2, <1>3, PTL DEF Spec, ImplementsLifecycle, Lifecycle!LifeSpec
=============================================================================
