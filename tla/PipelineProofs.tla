--------------------------- MODULE PipelineProofs ---------------------------
(***************************************************************************)
(* Types of the download pipeline, and what the versions of rows are for:  *)
(* a snapshot that passes the compare-and-swap is the row it replaces.     *)
(* For every number of rows, items, releases, requests and restarts, with  *)
(* every fault.                                                            *)
(***************************************************************************)
EXTENDS DownloadPipeline, FiniteSetTheorems, TLAPS

\* A row that exists.
LiveRow ==
  [item : Items, url : Urls, status : Statuses, hash : Hashes \cup {None},
   linked : BOOLEAN, episode : BOOLEAN, retryCount : Nat, backoff : BOOLEAN, ver : Nat]

Stored(row) == row = NoRow \/ row \in LiveRow \/ (row \in Row /\ row.status = "deleted")

\* A snapshot is older than the row, or is the row.
FreshOf(view, row) ==
  \/ view = NoRow
  \/ /\ view \in LiveRow /\ row # NoRow
     /\ row \in LiveRow => view.ver <= row.ver /\ (view.ver = row.ver => view = row)

\* What a step may do with a row: every write moves the version, what was deleted is not
\* written any more, and an id is used once.
RowStep(row, next) ==
  \/ next = row
  \/ /\ row \in LiveRow /\ next \in LiveRow /\ row.ver < next.ver
     /\ next.item = row.item /\ next.url = row.url
  \/ row \in LiveRow /\ next = Deleted(row)
  \/ row = NoRow /\ next \in LiveRow

RowsStep ==
  /\ downloads' \in [Downloads -> Row]
  /\ \A d \in Downloads : RowStep(downloads[d], downloads'[d])

\* What is computed from a row and takes its place.
Successor(row, next) ==
  next \in LiveRow /\ next.ver = row.ver /\ next.item = row.item /\ next.url = row.url

-----------------------------------------------------------------------------
(* Rows                                                                    *)

LEMMA Rows ==
  /\ NoRow \in Row /\ NoRow \notin LiveRow /\ LiveRow \subseteq Row
  /\ \A row \in LiveRow : Deleted(row) \in Row /\ Deleted(row).status = "deleted"
  /\ \A row \in LiveRow : Written(row) \in LiveRow /\ Written(row).ver = row.ver + 1
  /\ \A row \in LiveRow : Deleted(row) # NoRow /\ Deleted(row) \notin LiveRow
<1> USE DEF NoRow, Row, LiveRow, Statuses, ActiveDownloadStatuses, TerminalFailureStatuses
<1>1. NoRow \in Row /\ NoRow \notin LiveRow /\ LiveRow \subseteq Row
  OBVIOUS
<1>2. ASSUME NEW row \in LiveRow
      PROVE  /\ Deleted(row) \in Row /\ Deleted(row).status = "deleted"
             /\ Deleted(row) # NoRow /\ Deleted(row) \notin LiveRow
  BY DEF Deleted
<1>3. ASSUME NEW row \in LiveRow
      PROVE  Written(row) \in LiveRow /\ Written(row).ver = row.ver + 1
  BY DEF Written
<1> QED BY <1>1, <1>2, <1>3

LEMMA StepStored ==
  ASSUME NEW row, NEW next, Stored(row), RowStep(row, next)
  PROVE  Stored(next) /\ next \in Row
BY Rows DEF Stored, RowStep

\* Whatever happens to a row, a snapshot of it stays one.
LEMMA FreshKept ==
  ASSUME NEW view, NEW row, NEW next, Stored(row), RowStep(row, next), FreshOf(view, row)
  PROVE  FreshOf(view, next)
<1>1. CASE next = row
  BY <1>1
<1>2. CASE view = NoRow
  BY <1>2 DEF FreshOf
<1>3. CASE view # NoRow /\ row \in LiveRow /\ next \in LiveRow /\ row.ver < next.ver
  <2>1. view \in LiveRow /\ next # NoRow /\ view.ver <= row.ver
    BY <1>3, Rows DEF FreshOf
  <2>2. view.ver \in Nat /\ row.ver \in Nat /\ next.ver \in Nat
    BY <1>3, <2>1 DEF LiveRow
  <2> QED BY <1>3, <2>1, <2>2 DEF FreshOf
<1>4. CASE view # NoRow /\ row \in LiveRow /\ next = Deleted(row)
  BY <1>4, Rows DEF FreshOf
<1>5. CASE view # NoRow /\ row = NoRow
  BY <1>5 DEF FreshOf
<1> QED BY <1>1, <1>2, <1>3, <1>4, <1>5 DEF RowStep

LEMMA Successors ==
  ASSUME NEW row \in LiveRow
  PROVE  /\ Successor(row, Retried(row)) /\ Successor(row, Sent(row))
         /\ Successor(row, Missing(row)) /\ Successor(row, Recovered(row))
         /\ Successor(row, ImportFailed(row)) /\ Successor(row, ImportRetried(row))
         /\ Successor(row, [row EXCEPT !.episode = TRUE])
         /\ \A s \in Statuses :
              /\ Successor(row, [row EXCEPT !.status = s])
              /\ Successor(row, [row EXCEPT !.status = s, !.backoff = FALSE])
              /\ Successor(row, [row EXCEPT !.status = s, !.linked = TRUE])
              /\ Successor(row, WithStatus(row, s))
<1> USE DEF LiveRow, Successor, Statuses, ActiveDownloadStatuses, TerminalFailureStatuses
<1> DEFINE n == row.retryCount + 1
<1> HIDE DEF n
<1>0. /\ Successor(row, [row EXCEPT !.retryCount = row.retryCount + 1, !.backoff = TRUE])
      /\ Successor(row, [row EXCEPT !.status = "downloaded", !.retryCount = row.retryCount + 1,
                                    !.backoff = TRUE])
  <2>1. n \in Nat
    BY DEF n
  <2>2. /\ Successor(row, [row EXCEPT !.retryCount = n, !.backoff = TRUE])
        /\ Successor(row, [row EXCEPT !.status = "downloaded", !.retryCount = n, !.backoff = TRUE])
    BY <2>1
  <2> QED BY ONLY <2>2, Zenon DEF n
<1>1. Successor(row, Retried(row))
  <2>1. CASE row.retryCount < MaxRetries
    <3>1. Retried(row) = [row EXCEPT !.retryCount = row.retryCount + 1, !.backoff = TRUE]
      BY <2>1 DEF Retried
    <3> QED BY ONLY <1>0, <3>1, Zenon
  <2>2. CASE ~(row.retryCount < MaxRetries)
    BY <2>2 DEF Retried
  <2> QED BY <2>1, <2>2
<1>2. Successor(row, Sent(row))
  BY StoreAssumption DEF Sent
<1>3. Successor(row, Missing(row))
  BY DEF Missing
<1>4. Successor(row, Recovered(row))
  BY DEF Recovered
<1>5. Successor(row, ImportFailed(row)) /\ Successor(row, ImportRetried(row))
  <2>1. Successor(row, ImportFailed(row))
    BY DEF ImportFailed
  <2>2. CASE row.retryCount >= MaxImportRetries
    BY <2>1, <2>2 DEF ImportRetried
  <2>3. CASE ~(row.retryCount >= MaxImportRetries)
    <3>1. ImportRetried(row) = [row EXCEPT !.status = "downloaded",
                                           !.retryCount = row.retryCount + 1, !.backoff = TRUE]
      BY <2>3 DEF ImportRetried
    <3> QED BY ONLY <1>0, <2>1, <3>1, Zenon
  <2> QED BY <2>1, <2>2, <2>3
<1>6. Successor(row, [row EXCEPT !.episode = TRUE])
  OBVIOUS
<1>7. ASSUME NEW s \in Statuses
      PROVE  /\ Successor(row, [row EXCEPT !.status = s])
             /\ Successor(row, [row EXCEPT !.status = s, !.backoff = FALSE])
             /\ Successor(row, [row EXCEPT !.status = s, !.linked = TRUE])
             /\ Successor(row, WithStatus(row, s))
  BY DEF WithStatus
<1> QED BY <1>1, <1>2, <1>3, <1>4, <1>5, <1>6, <1>7

-----------------------------------------------------------------------------
(* The table                                                               *)

StoreInv == StoreTypeOK /\ \A d \in Downloads : Stored(downloads[d])

LEMMA RowsStay == StoreInv /\ UNCHANGED downloads => RowsStep
BY DEF StoreInv, StoreTypeOK, RowsStep, RowStep

\* A write that passes the compare-and-swap replaces the row it was computed from.
LEMMA UpdateKeeps ==
  ASSUME StoreInv, NEW d \in Downloads, NEW view, view # NoRow, FreshOf(view, downloads[d]),
         NEW next, Successor(view, next), UpdateDownload(d, next)
  PROVE  /\ RowsStep
         /\ Current(d, next) => /\ view = downloads[d] /\ view \in LiveRow
                                /\ downloads' = [downloads EXCEPT ![d] = Written(next)]
                                /\ Written(next) \in LiveRow
         /\ ~Current(d, next) => UNCHANGED downloads
<1>1. CASE ~Current(d, next)
  BY <1>1, RowsStay DEF UpdateDownload
<1>2. CASE Current(d, next)
  <2>1. downloads[d] \in LiveRow /\ downloads[d].ver = view.ver
    BY <1>2, Rows DEF Current, Exists, Successor, StoreInv, Stored, NoRow, Statuses,
         ActiveDownloadStatuses, TerminalFailureStatuses
  <2>2. view = downloads[d]
    BY <2>1 DEF FreshOf
  <2>3. /\ Written(next) \in LiveRow /\ Written(next).ver = next.ver + 1
        /\ Written(next).item = next.item /\ Written(next).url = next.url
    BY Rows DEF Successor, Written, LiveRow
  <2>4. downloads' = [downloads EXCEPT ![d] = Written(next)]
    BY <1>2 DEF UpdateDownload, PutRow
  <2>5. RowStep(downloads[d], Written(next))
    BY <2>1, <2>2, <2>3 DEF RowStep, Successor, LiveRow
  <2>6. RowsStep
    BY <2>3, <2>4, <2>5, Rows DEF RowsStep, RowStep, StoreInv, StoreTypeOK
  <2> QED BY <1>2, <2>1, <2>2, <2>3, <2>4, <2>6
<1> QED BY <1>1, <1>2

\* A listing holds the rows themselves.
LEMMA ListedFresh ==
  ASSUME StoreInv, NEW S, S \subseteq {d \in Downloads : Exists(d)}
  PROVE  /\ Snapshots(S) \in [Downloads -> Row]
         /\ \A d \in Downloads : /\ FreshOf(Snapshots(S)[d], downloads[d])
                                 /\ d \in S => Snapshots(S)[d] = downloads[d]
                                 /\ d \notin S => Snapshots(S)[d] = NoRow
<1>1. \A d \in S : downloads[d] \in LiveRow
  BY DEF StoreInv, Stored, Exists, NoRow, Statuses, ActiveDownloadStatuses, TerminalFailureStatuses
<1>2. \A d \in S : FreshOf(downloads[d], downloads[d])
  <2> SUFFICES ASSUME NEW d \in S PROVE FreshOf(downloads[d], downloads[d])
    OBVIOUS
  <2>1. downloads[d] \in LiveRow /\ downloads[d].ver \in Nat
    BY <1>1 DEF LiveRow
  <2> QED BY <2>1, Rows DEF FreshOf
<1>3. \A d : FreshOf(NoRow, downloads[d])
  BY DEF FreshOf
<1> QED BY <1>1, <1>2, <1>3, Rows DEF Snapshots

\* What is left of a set of snapshots, after any step.
LEMMA ViewsKept ==
  ASSUME StoreInv, RowsStep, NEW view, NEW left,
         \A d \in Downloads : FreshOf(view[d], downloads[d]),
         \A d \in Downloads : left[d] = view[d] \/ left[d] = NoRow
  PROVE  \A d \in Downloads : FreshOf(left[d], downloads'[d])
<1> SUFFICES ASSUME NEW d \in Downloads
             PROVE  FreshOf(left[d], downloads'[d])
  OBVIOUS
<1>1. CASE left[d] = NoRow
  BY <1>1 DEF FreshOf
<1>2. CASE left[d] = view[d]
  BY <1>2, FreshKept DEF StoreInv, RowsStep
<1> QED BY <1>1, <1>2

\* The other tables, and what is outside the database.
OthersTyped ==
  /\ mediaItems \in [Items -> MediaItem]
  /\ mediaFiles \subseteq Path
  /\ libraryFiles \subseteq Path
  /\ torrents \in [Hashes -> TorrentStates]

LEMMA StoreKept == StoreInv /\ RowsStep /\ OthersTyped' => StoreInv'
BY StepStored DEF StoreInv, StoreTypeOK, RowsStep, OthersTyped

LEMMA OthersStay ==
  StoreInv /\ UNCHANGED <<mediaItems, mediaFiles, libraryFiles, torrents>> => OthersTyped'
BY DEF StoreInv, StoreTypeOK, OthersTyped

LEMMA TorrentsDeleted ==
  ASSUME StoreInv, NEW hs, DeleteTorrents(hs)
  PROVE  torrents' \in [Hashes -> TorrentStates]
BY DEF StoreInv, StoreTypeOK, DeleteTorrents, TorrentStates

\* A recalculation leaves an item present, and deletion pending, as it is.
LEMMA Recalculated ==
  ASSUME StoreInv, NEW i, NEW files, RecalcMediaItemStatus(i, files)
  PROVE  /\ mediaItems' \in [Items -> MediaItem]
         /\ \A j \in Items : /\ mediaItems'[j].present = mediaItems[j].present
                            /\ mediaItems'[j].deletionPending = mediaItems[j].deletionPending
<1> DEFINE n == mediaItems[i].ver + 1
           item(a) == [mediaItems[i] EXCEPT !.available = a, !.ver = n]
<1>1. mediaItems \in [Items -> MediaItem]
  BY DEF StoreInv, StoreTypeOK
<1>2. \/ \E a \in BOOLEAN : mediaItems' = [mediaItems EXCEPT ![i] = item(a)]
      \/ UNCHANGED mediaItems
  BY DEF RecalcMediaItemStatus
<1>3. ASSUME i \in Items, NEW a \in BOOLEAN
      PROVE  /\ item(a) \in MediaItem /\ item(a).present = mediaItems[i].present
             /\ item(a).deletionPending = mediaItems[i].deletionPending
  <2>1. mediaItems[i] \in MediaItem /\ n \in Nat
    BY <1>1, <1>3 DEF MediaItem
  <2> HIDE DEF n
  <2> QED BY <2>1 DEF MediaItem
<1> HIDE DEF item
<1> QED BY <1>1, <1>2, <1>3

-----------------------------------------------------------------------------
(* The download worker                                                     *)

DwInv ==
  /\ DwTypeOK
  /\ \A d \in Downloads : FreshOf(dwView[d], downloads[d])
  /\ dwPc \in {"fetch", "claim", "undo"} => dwView[dwCur] # NoRow
  /\ \A d \in DwHeld :
       /\ dwPc \in {"send", "fetch", "claim", "undo"} => dwView[d].status = "pending"
       /\ dwPc = "poll" => dwView[d].status = "downloading"

LEMMA DwKept == StoreInv /\ DwInv /\ RowsStep /\ UNCHANGED dwVars => DwInv'
<1> SUFFICES ASSUME StoreInv, DwInv, RowsStep, UNCHANGED dwVars PROVE DwInv'
  OBVIOUS
<1>1. \A d \in Downloads : FreshOf(dwView'[d], downloads'[d])
  BY ViewsKept DEF DwInv, dwVars
<1> QED BY <1>1 DEF DwInv, DwTypeOK, DwHeld, dwVars

LEMMA DwStep ==
  ASSUME StoreInv, DwInv, DwNext
  PROVE  RowsStep /\ OthersTyped' /\ DwInv'
<1> USE DEF StoreInv, StoreTypeOK, storeVars
<1>1. \A d \in DwHeld : dwView[d] \in LiveRow
  BY DEF DwInv, DwHeld, FreshOf
<1>2. ASSUME NEW S, S \subseteq {d \in Downloads : Exists(d)}, UNCHANGED storeVars,
             dwView' = Snapshots(S), NEW pc \in {"send", "poll"}, dwPc' = pc,
             pc = "send" => \A d \in S : downloads[d].status = "pending",
             pc = "poll" => \A d \in S : downloads[d].status = "downloading",
             dwCur' = dwCur, dwAdded' = dwAdded, dwSent' \subseteq Downloads
      PROVE  RowsStep /\ OthersTyped' /\ DwInv'
  <2>1. RowsStep /\ OthersTyped'
    BY <1>2, RowsStay, OthersStay
  <2>2. dwView' \in [Downloads -> Row] /\ \A d \in Downloads : FreshOf(dwView'[d], downloads'[d])
    BY <1>2, ListedFresh
  <2>3. \A d \in Downloads : dwView'[d] # NoRow => d \in S /\ dwView'[d] = downloads[d]
    BY <1>2, ListedFresh
  <2> QED BY <1>2, <2>1, <2>2, <2>3 DEF DwInv, DwTypeOK, DwHeld
<1>3. ASSUME RowsStep, OthersTyped', dwView' \in [Downloads -> Row],
             \A d \in Downloads : dwView'[d] = dwView[d] \/ dwView'[d] = NoRow,
             \/ dwPc' = dwPc
             \/ dwPc' \in {"send", "fetch", "claim", "undo"}
                  /\ dwPc \in {"send", "fetch", "claim", "undo"}
             \/ dwPc' = "idle",
             dwCur' \in Downloads \cup {None}, dwAdded' \in BOOLEAN, dwSent' \subseteq Downloads,
             dwPc' \in {"fetch", "claim", "undo"} => dwCur' \in Downloads /\ dwView'[dwCur'] # NoRow
      PROVE  RowsStep /\ OthersTyped' /\ DwInv'
  <2>1. \A d \in Downloads : FreshOf(dwView'[d], downloads'[d])
    BY <1>3, ViewsKept DEF DwInv
  <2>2. dwPc' \in {"idle", "send", "fetch", "claim", "undo", "poll"}
    BY <1>3 DEF DwInv, DwTypeOK
  <2>3. DwTypeOK'
    BY <1>3, <2>2 DEF DwTypeOK
  <2>4. \A d \in DwHeld' : d \in DwHeld /\ dwView'[d] = dwView[d]
    BY <1>3 DEF DwHeld
  <2>5. \A d \in DwHeld' :
          /\ dwPc' \in {"send", "fetch", "claim", "undo"} => dwView'[d].status = "pending"
          /\ dwPc' = "poll" => dwView'[d].status = "downloading"
    BY <1>3, <2>4 DEF DwInv, DwTypeOK
  <2> QED BY <1>3, <2>1, <2>3, <2>5 DEF DwInv
<1>4. CASE DwListPending
  <2>1. PICK S \in Due("pending") : dwView' = Snapshots(S)
    BY <1>4 DEF DwListPending
  <2>2. S \subseteq {d \in Downloads : Exists(d)} /\ \A d \in S : downloads[d].status = "pending"
    BY <2>1 DEF Due, ListDownloads, Exists, Statuses, ActiveDownloadStatuses
  <2> QED BY <1>2, <1>4, <2>1, <2>2 DEF DwListPending, DwInv, DwTypeOK
<1>5. CASE DwListDownloading
  <2> DEFINE S == {d \in ListDownloads("downloading") \ dwSent : downloads[d].hash # None}
  <2>1. S \subseteq {d \in Downloads : Exists(d)} /\ \A d \in S : downloads[d].status = "downloading"
    BY DEF ListDownloads, Exists, Statuses, ActiveDownloadStatuses
  <2> QED BY <1>2, <1>5, <2>1 DEF DwListDownloading, DwInv, DwTypeOK
<1>6. ASSUME NEW d \in Downloads, DwCheckItem(d) PROVE RowsStep /\ OthersTyped' /\ DwInv'
  <2>1. RowsStep /\ OthersTyped'
    BY <1>6, RowsStay, OthersStay DEF DwCheckItem
  <2> QED BY <1>3, <1>6, <2>1, Rows DEF DwCheckItem, DwInv, DwTypeOK, DwHeld, DwDrop
\* The row in hand, and the write that ends its sending.
<1>7. ASSUME dwPc \in {"fetch", "claim", "undo"}
      PROVE  /\ dwCur \in Downloads /\ dwView[dwCur] # NoRow /\ dwView[dwCur] \in LiveRow
             /\ FreshOf(dwView[dwCur], downloads[dwCur])
             /\ DwTorrent \in Hashes
  <2>1. dwCur \in DwHeld
    BY <1>7 DEF DwInv, DwTypeOK, DwHeld
  <2> QED BY <1>1, <1>7, <2>1, StoreAssumption DEF DwInv, DwHeld, DwTorrent, LiveRow
<1>8. ASSUME dwPc \in {"fetch", "claim", "undo"}, DwNextRow("send"), RowsStep, OthersTyped',
             dwSent' \subseteq Downloads
      PROVE  RowsStep /\ OthersTyped' /\ DwInv'
  BY <1>3, <1>7, <1>8, Rows DEF DwNextRow, DwDrop, DwInv, DwTypeOK
<1>9. ASSUME dwPc = "fetch", UpdateDownload(dwCur, Retried(dwView[dwCur])) PROVE RowsStep
  BY <1>7, <1>9, UpdateKeeps, Successors
<1>10. CASE DwFetchFails
  BY <1>8, <1>9, <1>10, OthersStay DEF DwFetchFails, OthersTyped, DwInv, DwTypeOK
<1>11. ASSUME dwPc = "fetch",
              UNCHANGED torrents \/ torrents' = [torrents EXCEPT ![DwTorrent] = "downloading"]
       PROVE  torrents' \in [Hashes -> TorrentStates]
  BY <1>11 DEF TorrentStates
<1>12. CASE DwAddTorrent \/ DwReuseTorrent
  <2>1. RowsStep /\ OthersTyped'
    BY <1>11, <1>12, RowsStay DEF DwAddTorrent, DwReuseTorrent, OthersTyped
  <2> QED BY <1>3, <1>7, <1>12, <2>1 DEF DwAddTorrent, DwReuseTorrent, DwInv, DwTypeOK
<1>13. CASE DwAddFails
  <2>1. RowsStep /\ OthersTyped'
    BY <1>9, <1>11, <1>13 DEF DwAddFails, OthersTyped
  <2> QED BY <1>8, <1>13, <2>1 DEF DwAddFails, DwInv, DwTypeOK
<1>14. CASE DwClaim
  <2> DEFINE row == dwView[dwCur]
  <2>1. OthersTyped' /\ dwPc = "claim"
    BY <1>14, OthersStay DEF DwClaim, OthersTyped
  <2>2. CASE Open(row.item) /\ Current(dwCur, row)
    <3>1. UpdateDownload(dwCur, Sent(row))
      BY <1>7, <1>14, <2>1, <2>2, Successors DEF DwClaim, UpdateDownload, Current, Successor
    <3>2. RowsStep
      BY <1>7, <2>1, <3>1, UpdateKeeps, Successors
    <3> QED BY <1>7, <1>8, <1>14, <2>1, <2>2, <3>2 DEF DwClaim, DwInv, DwTypeOK
  <2>3. CASE ~(Open(row.item) /\ Current(dwCur, row))
    <3>1. RowsStep /\ dwSent' \subseteq Downloads
      BY <1>14, <2>3, RowsStay DEF DwClaim, DwInv, DwTypeOK
    <3> QED BY <1>3, <1>7, <1>8, <1>14, <2>1, <2>3, <3>1 DEF DwClaim, DwInv, DwTypeOK
  <2> QED BY <2>2, <2>3
<1>15. CASE DwUndo
  <2>1. RowsStep /\ OthersTyped'
    BY <1>15, RowsStay, TorrentsDeleted DEF DwUndo, OthersTyped
  <2> QED BY <1>8, <1>15, <2>1 DEF DwUndo, DwInv, DwTypeOK
<1>16. ASSUME NEW d \in Downloads, DwPoll(d) PROVE RowsStep /\ OthersTyped' /\ DwInv'
  <2> DEFINE row == dwView[d]
  <2>1. row # NoRow /\ row \in LiveRow /\ FreshOf(row, downloads[d])
    BY <1>1, <1>16 DEF DwPoll, DwInv, DwHeld
  <2>2. \/ UNCHANGED downloads
        \/ UpdateDownload(d, Missing(row))
        \/ UpdateDownload(d, [row EXCEPT !.status = "downloaded"])
        \/ UpdateDownload(d, [row EXCEPT !.status = "failed", !.backoff = FALSE])
    BY <1>16 DEF DwPoll, HandleMissingTorrent, UpdateFromTorrent
  <2>3. RowsStep
    <3>1. {"downloaded", "failed"} \subseteq Statuses
      BY DEF Statuses, ActiveDownloadStatuses, TerminalFailureStatuses
    <3>2. CASE UpdateDownload(d, Missing(row))
      BY <2>1, <3>2, UpdateKeeps, Successors
    <3>3. CASE UpdateDownload(d, [row EXCEPT !.status = "downloaded"])
      BY <2>1, <3>1, <3>3, UpdateKeeps, Successors
    <3>4. CASE UpdateDownload(d, [row EXCEPT !.status = "failed", !.backoff = FALSE])
      BY <2>1, <3>1, <3>4, UpdateKeeps, Successors
    <3> QED BY <2>2, <3>2, <3>3, <3>4, RowsStay
  <2>4. OthersTyped'
    BY <1>16, OthersStay DEF DwPoll
  <2> QED BY <1>3, <1>16, <2>3, <2>4, Rows DEF DwPoll, DwDrop, DwInv, DwTypeOK
<1>17. CASE DwTickEnds
  BY <1>3, <1>17, RowsStay, OthersStay DEF DwTickEnds, DwInv, DwTypeOK
<1> QED BY <1>4, <1>5, <1>6, <1>10, <1>12, <1>13, <1>14, <1>15, <1>16, <1>17 DEF DwNext

-----------------------------------------------------------------------------
(* The importer                                                            *)

ImportPcs == {"import", "load", "link", "record", "remove", "finalize"}

ImInv ==
  /\ ImTypeOK
  /\ \A d \in Downloads : FreshOf(imView[d], downloads[d])
  /\ imPc \in ImBusy => imView[imCur] # NoRow
  /\ imPc \notin ImBusy => imCur = None
  /\ imPc \in {"load", "link", "record"} => imView[imCur].status = "importing"
  /\ \A d \in ImHeld \ {imCur} :
       /\ imPc \in ImportPcs => imView[d].status = "downloaded"
       /\ imPc \in {"seeding", "seedremove"} => imView[d].status = "seeding" /\ imView[d].linked

LEMMA ImKept == StoreInv /\ ImInv /\ RowsStep /\ UNCHANGED imVars => ImInv'
<1> SUFFICES ASSUME StoreInv, ImInv, RowsStep, UNCHANGED imVars PROVE ImInv'
  OBVIOUS
<1>1. \A d \in Downloads : FreshOf(imView'[d], downloads'[d])
  BY ViewsKept DEF ImInv, imVars
<1> QED BY <1>1 DEF ImInv, ImTypeOK, ImHeld, imVars

\* The row that was just written, instead of its snapshot.
LEMMA NewViewFresh ==
  ASSUME StoreInv, RowsStep, NEW view \in [Downloads -> Row], NEW d \in Downloads, NEW next,
         next \in LiveRow, downloads' = [downloads EXCEPT ![d] = next],
         \A e \in Downloads : FreshOf(view[e], downloads[e])
  PROVE  \A e \in Downloads : FreshOf([view EXCEPT ![d] = next][e], downloads'[e])
<1> SUFFICES ASSUME NEW e \in Downloads
             PROVE  FreshOf([view EXCEPT ![d] = next][e], downloads'[e])
  OBVIOUS
<1>1. CASE e = d
  <2>1. next.ver \in Nat /\ next # NoRow /\ downloads'[e] = next
    BY <1>1, Rows DEF LiveRow, StoreInv, StoreTypeOK
  <2> QED BY <1>1, <2>1 DEF FreshOf
<1>2. CASE e # d
  BY <1>2, FreshKept DEF StoreInv, RowsStep
<1> QED BY <1>1, <1>2

LEMMA ImStep ==
  ASSUME StoreInv, ImInv, ImNext
  PROVE  RowsStep /\ OthersTyped' /\ ImInv'
<1> USE DEF StoreInv, StoreTypeOK, storeVars
<1>1. \A d \in ImHeld : imView[d] \in LiveRow
  BY DEF ImInv, ImHeld, FreshOf
<1> DEFINE Scratch == /\ imKnown \subseteq Path /\ imTodo \subseteq Videos
                      /\ imDst \subseteq Path /\ imCount \in Nat
           Phase == IF imPc \in ImportPcs THEN "importing"
                    ELSE IF imPc = "idle" THEN "none" ELSE "cleaning"
<1>0. Scratch /\ (UNCHANGED ImScratch => Scratch')
  BY DEF ImInv, ImTypeOK, ImScratch
\* A listing.
<1>2. ASSUME NEW S, S \subseteq {d \in Downloads : Exists(d)}, UNCHANGED storeVars,
             imView' = Snapshots(S), NEW pc \in {"import", "seeding"}, imPc' = pc, imPc \notin ImBusy,
             pc = "import" => \A d \in S : downloads[d].status = "downloaded",
             pc = "seeding" => \A d \in S : downloads[d].status = "seeding" /\ downloads[d].linked,
             imCur' = imCur, UNCHANGED ImScratch
      PROVE  RowsStep /\ OthersTyped' /\ ImInv'
  <2>1. RowsStep /\ OthersTyped'
    BY <1>2, RowsStay, OthersStay
  <2>2. imView' \in [Downloads -> Row] /\ \A d \in Downloads : FreshOf(imView'[d], downloads'[d])
    BY <1>2, ListedFresh
  <2>3. \A d \in Downloads : imView'[d] # NoRow => d \in S /\ imView'[d] = downloads[d]
    BY <1>2, ListedFresh
  <2>4. imCur' = None
    BY <1>2 DEF ImInv
  <2> QED BY <1>0, <1>2, <2>1, <2>2, <2>3, <2>4 DEF ImInv, ImTypeOK, ImHeld, ImBusy, ImportPcs
\* A step with the row in hand, or one that puts a row aside.
<1>3. ASSUME RowsStep, OthersTyped', imView' \in [Downloads -> Row], Scratch',
             \A d \in Downloads : FreshOf(imView'[d], downloads'[d]),
             \A d \in Downloads : d # imCur' => imView'[d] = imView[d] \/ imView'[d] = NoRow,
             \A d \in Downloads : d = imCur /\ d # imCur' => imView'[d] = NoRow,
             imPc' \in {"idle", "import", "seeding"} \cup ImBusy, Phase' \in {Phase, "none"},
             imPc' \in ImBusy => imCur' \in Downloads /\ imView'[imCur'] # NoRow,
             imPc' \notin ImBusy => imCur' = None,
             imPc' \in {"load", "link", "record"} => imView'[imCur'].status = "importing"
      PROVE  RowsStep /\ OthersTyped' /\ ImInv'
  <2>1. ImTypeOK'
    BY <1>3 DEF ImTypeOK
  <2>2. \A d \in (ImHeld \ {imCur})' : d \in ImHeld \ {imCur} /\ imView'[d] = imView[d]
    BY <1>3 DEF ImHeld
  <2>3. /\ imPc' \in ImportPcs => imPc \in ImportPcs
        /\ imPc' \in {"seeding", "seedremove"} => imPc \in {"seeding", "seedremove"}
    BY <1>3 DEF ImportPcs, ImInv, ImTypeOK, ImBusy
  <2>4. \A d \in (ImHeld \ {imCur})' :
          /\ imPc' \in ImportPcs => imView'[d].status = "downloaded"
          /\ imPc' \in {"seeding", "seedremove"} => imView'[d].status = "seeding" /\ imView'[d].linked
    BY <2>2, <2>3 DEF ImInv
  <2> QED BY <1>3, <2>1, <2>4 DEF ImInv
<1>4. CASE ImListDownloaded
  <2>1. PICK S \in Due("downloaded") : imView' = Snapshots(S)
    BY <1>4 DEF ImListDownloaded
  <2>2. S \subseteq {d \in Downloads : Exists(d)} /\ \A d \in S : downloads[d].status = "downloaded"
    BY <2>1 DEF Due, ListDownloads, Exists, Statuses, ActiveDownloadStatuses
  <2> QED BY <1>2, <1>4, <2>1, <2>2 DEF ImListDownloaded, ImBusy
<1>5. CASE ImListSeeding
  <2> DEFINE S == {d \in ListDownloads("seeding") : downloads[d].linked}
  <2>1. S \subseteq {d \in Downloads : Exists(d)}
        /\ \A d \in S : downloads[d].status = "seeding" /\ downloads[d].linked
    BY DEF ListDownloads, Exists, Statuses, ActiveDownloadStatuses
  <2> QED BY <1>2, <1>5, <2>1 DEF ImListSeeding, ImBusy
<1>6. ASSUME imPc \in ImBusy
      PROVE  /\ imCur \in Downloads /\ imView[imCur] # NoRow /\ imView[imCur] \in LiveRow
             /\ FreshOf(imView[imCur], downloads[imCur])
  <2>1. imCur \in ImHeld
    BY <1>6 DEF ImInv, ImTypeOK, ImHeld
  <2> QED BY <1>1, <2>1 DEF ImInv, ImHeld
\* The end of an import or a removal.
<1>7. ASSUME imPc \in ImBusy, NEW pc \in {"import", "seeding"}, ImNextRow(pc),
             pc = "import" <=> imPc # "seedremove", RowsStep, OthersTyped'
      PROVE  RowsStep /\ OthersTyped' /\ ImInv'
  <2>1. \A d \in Downloads : FreshOf(imView'[d], downloads'[d])
    BY <1>6, <1>7, ViewsKept DEF ImNextRow, ImDrop, ImInv, ImTypeOK
  <2>2. Scratch' /\ Phase' = Phase
    BY <1>7 DEF ImNextRow, ImportPcs, ImBusy
  <2>3. imView' \in [Downloads -> Row] /\ imView'[imCur] = NoRow
        /\ \A d \in Downloads : imView'[d] = imView[d] \/ imView'[d] = NoRow
    BY <1>6, <1>7, Rows DEF ImNextRow, ImDrop, ImInv, ImTypeOK
  <2> QED BY <1>3, <1>7, <2>1, <2>2, <2>3 DEF ImNextRow, ImBusy
<1>8. ASSUME imPc \in ImBusy \ {"seedremove"}, NEW next, Successor(imView[imCur], next),
             ImGivesUp(next)
      PROVE  RowsStep /\ OthersTyped' /\ ImInv'
  <2>1. RowsStep
    BY <1>6, <1>8, UpdateKeeps DEF ImGivesUp
  <2>2. OthersTyped'
    BY <1>8, OthersStay DEF ImGivesUp
  <2> QED BY <1>7, <1>8, <2>1, <2>2 DEF ImGivesUp
\* A row is put aside.
<1>9. ASSUME NEW d \in Downloads, imPc \in {"import", "seeding"}, ImDrop(d),
             UNCHANGED <<imPc, imCur, ImScratch>>, RowsStep, OthersTyped'
      PROVE  RowsStep /\ OthersTyped' /\ ImInv'
  <2>1. imView' \in [Downloads -> Row]
        /\ \A e \in Downloads : imView'[e] = imView[e] \/ imView'[e] = NoRow
    BY <1>9, Rows DEF ImDrop, ImInv, ImTypeOK
  <2>2. \A e \in Downloads : FreshOf(imView'[e], downloads'[e])
    BY <1>9, <2>1, ViewsKept DEF ImInv
  <2>3. imCur' = None /\ imCur' = imCur /\ Phase' = Phase /\ imPc' \notin ImBusy
    BY <1>9 DEF ImInv, ImBusy
  <2>4. None \notin Downloads
    BY StoreAssumption
  <2> QED BY <1>0, <1>3, <1>9, <2>1, <2>2, <2>3, <2>4, Zenon DEF ImBusy
\* A row is written, and kept as it was written.
<1>10. ASSUME NEW d \in ImHeld, NEW next, Successor(imView[d], next), UpdateDownload(d, next),
              Current(d, next), imView' = [imView EXCEPT ![d] = Written(next)], OthersTyped',
              imPc' \in ImBusy, imCur' = d, imCur = None \/ imCur = d, UNCHANGED ImScratch,
              Phase' = Phase, imPc' \in {"load", "link", "record"} => next.status = "importing"
       PROVE  RowsStep /\ OthersTyped' /\ ImInv'
  <2>1. /\ RowsStep /\ downloads' = [downloads EXCEPT ![d] = Written(next)]
        /\ Written(next) \in LiveRow /\ d \in Downloads
    BY <1>10, UpdateKeeps DEF ImHeld, ImInv
  <2>2. \A e \in Downloads : FreshOf(imView'[e], downloads'[e])
    BY <1>10, <2>1, NewViewFresh DEF ImInv, ImTypeOK
  <2>3. imView' \in [Downloads -> Row] /\ imView'[d] = Written(next) /\ imView'[d] # NoRow
        /\ \A e \in Downloads : e # d => imView'[e] = imView[e]
    BY <1>10, <2>1, Rows DEF ImInv, ImTypeOK
  <2>4. Written(next).status = next.status
    BY <1>10 DEF Written, Successor, LiveRow
  <2>5. \A e \in Downloads : ~(e = imCur /\ e # imCur')
    BY <1>10, StoreAssumption
  <2>6. imPc' \in {"load", "link", "record"} => imView'[imCur'].status = "importing"
    BY <1>10, <2>3, <2>4
  <2>7. imCur' \in Downloads /\ imView'[imCur'] # NoRow /\ Scratch'
    BY <1>0, <1>10, <2>1, <2>3
  <2>8. \A e \in Downloads : e # imCur' => imView'[e] = imView[e] \/ imView'[e] = NoRow
    BY <1>10, <2>3
  <2> QED BY <1>3, <1>10, <2>1, <2>2, <2>3, <2>5, <2>6, <2>7, <2>8
<1>11. {"importing", "seeding", "completed"} \subseteq Statuses
  BY DEF Statuses, ActiveDownloadStatuses
<1>12. ASSUME NEW d \in Downloads, ImClaim(d) PROVE RowsStep /\ OthersTyped' /\ ImInv'
  <2> DEFINE claimed == [imView[d] EXCEPT !.status = "importing"]
  <2>1. /\ imPc = "import" /\ d \in ImHeld /\ UpdateDownload(d, claimed) /\ OthersTyped'
        /\ UNCHANGED ImScratch /\ imCur = None
    BY <1>12, OthersStay DEF ImClaim, ImInv, ImBusy
  <2>2. Successor(imView[d], claimed) /\ claimed.status = "importing"
    BY <1>1, <1>11, <2>1, Successors DEF LiveRow
  <2>3. RowsStep
    BY <2>1, <2>2, UpdateKeeps DEF ImHeld, ImInv
  <2>4. CASE Current(d, claimed)
    <3>1. imView' = [imView EXCEPT ![d] = Written(claimed)] /\ imPc' = "load" /\ imCur' = d
      BY <1>12, <2>4 DEF ImClaim
    <3>2. Phase' = Phase /\ imPc' \in ImBusy
      BY <2>1, <3>1 DEF ImportPcs, ImBusy
    <3> HIDE DEF claimed, Phase
    <3> QED BY <1>10, <2>1, <2>2, <2>4, <3>1, <3>2
  <2>5. CASE ~Current(d, claimed)
    BY <1>9, <1>12, <2>1, <2>3, <2>5 DEF ImClaim
  <2> QED BY <2>4, <2>5
<1>13. CASE ImParentGone
  <2>1. CASE mediaItems[imView[imCur].item].present
    BY <1>7, <1>13, <2>1, RowsStay, OthersStay DEF ImParentGone, ImBusy
  <2>2. CASE ~mediaItems[imView[imCur].item].present
    BY <1>6, <1>8, <1>13, <2>2, Successors DEF ImParentGone, ImBusy
  <2> QED BY <2>1, <2>2
<1>14. CASE ImLoadFails
  BY <1>6, <1>8, <1>14, Successors DEF ImLoadFails, ImBusy
<1>15. CASE ImLinkFails \/ ImNothingImported
  BY <1>6, <1>8, <1>15, Successors DEF ImLinkFails, ImNothingImported, ImBusy
\* Nothing but the scratch, the files or the torrents changes.
<1>16. ASSUME imPc \in ImBusy, imPc' \in ImBusy, UNCHANGED <<imView, imCur, downloads>>,
              Scratch', OthersTyped', Phase' = Phase,
              imPc' \in {"load", "link", "record"} => imPc \in {"load", "link", "record"}
       PROVE  RowsStep /\ OthersTyped' /\ ImInv'
  <2>1. RowsStep
    BY <1>16, RowsStay
  <2>2. imPc' \in {"load", "link", "record"} => imView'[imCur'].status = "importing"
    BY <1>16 DEF ImInv
  <2>3. imView' \in [Downloads -> Row] /\ \A d \in Downloads : FreshOf(imView'[d], downloads'[d])
    BY <1>16 DEF ImInv, ImTypeOK
  <2> HIDE DEF Phase, Scratch
  <2> QED BY <1>3, <1>6, <1>16, <2>1, <2>2, <2>3
<1>17. CASE ImLoad
  <2>1. imKnown' \subseteq Path /\ imTodo' \subseteq Videos /\ UNCHANGED <<imDst, imCount>>
    <3>1. imView[imCur].hash \in Hashes
      BY <1>6, <1>17 DEF ImLoad, ImBusy, LiveRow
    <3> QED BY <1>17, <3>1, StoreAssumption DEF ImLoad, ItemFiles
  <2> QED BY <1>0, <1>16, <1>17, <2>1, OthersStay DEF ImLoad, ImBusy, ImportPcs
<1>18. ASSUME NEW v \in Videos, ImSkip(v) PROVE RowsStep /\ OthersTyped' /\ ImInv'
  <2>1. Scratch'
    BY <1>0, <1>18 DEF ImSkip
  <2> QED BY <1>16, <1>18, <2>1, OthersStay DEF ImSkip, ImBusy, ImportPcs
<1>19. ASSUME NEW v \in Videos, ImLink(v) PROVE RowsStep /\ OthersTyped' /\ ImInv'
  <2>1. PICK n \in 1..MaxCopies : /\ libraryFiles' = libraryFiles \cup {Target(v, n)}
                                  /\ imDst' = {Target(v, n)}
    BY <1>19 DEF ImLink
  <2>2. Target(v, n) \in Path
    BY <1>6, <1>19 DEF ImLink, ImBusy, Target, Path, LiveRow
  <2>3. Scratch' /\ OthersTyped'
    BY <1>0, <1>19, <2>1, <2>2 DEF ImLink, OthersTyped
  <2> QED BY <1>16, <1>19, <2>3 DEF ImLink, ImBusy, ImportPcs
<1>20. CASE ImRecord
  <2>1. Scratch' /\ OthersTyped'
    BY <1>0, <1>20 DEF ImRecord, OthersTyped
  <2> QED BY <1>16, <1>20, <2>1 DEF ImRecord, ImBusy, ImportPcs
<1>21. CASE ImFinish
  <2>1. PICK status \in {"seeding", "completed"} :
          LET next == [imView[imCur] EXCEPT !.status = status, !.linked = TRUE]
          IN  /\ UpdateDownload(imCur, next)
              /\ IF Current(imCur, next)
                 THEN /\ imPc' = IF status = "completed" THEN "remove" ELSE "finalize"
                      /\ imView' = [imView EXCEPT ![imCur] = Written(next)]
                      /\ UNCHANGED <<imCur, ImScratch>>
                 ELSE ImNextRow("import")
    BY <1>21 DEF ImFinish
  <2> DEFINE next == [imView[imCur] EXCEPT !.status = status, !.linked = TRUE]
  <2>2. imPc = "link" /\ imPc \in ImBusy /\ OthersTyped'
    BY <1>21, OthersStay DEF ImFinish, ImBusy
  <2>3. Successor(imView[imCur], next)
    BY <1>6, <1>11, <2>2, Successors
  <2>4. RowsStep
    BY <1>6, <2>1, <2>2, <2>3, UpdateKeeps
  <2>5. CASE Current(imCur, next)
    <3>1. /\ UpdateDownload(imCur, next) /\ imView' = [imView EXCEPT ![imCur] = Written(next)]
          /\ imPc' \in {"remove", "finalize"} /\ imCur' = imCur /\ UNCHANGED ImScratch
      BY <2>1, <2>5
    <3>2. Phase' = Phase /\ imPc' \in ImBusy /\ imCur \in ImHeld
      BY <1>6, <2>2, <3>1 DEF ImportPcs, ImBusy, ImHeld
    <3> HIDE DEF next, Phase
    <3> QED BY <1>10, <2>2, <2>3, <2>5, <3>1, <3>2
  <2>6. CASE ~Current(imCur, next)
    BY <1>7, <2>1, <2>2, <2>4, <2>6
  <2> QED BY <2>5, <2>6
<1>22. CASE ImRemoveTorrent
  <2>1. OthersTyped'
    BY <1>22, TorrentsDeleted DEF ImRemoveTorrent, OthersTyped
  <2> QED BY <1>0, <1>16, <1>22, <2>1 DEF ImRemoveTorrent, ImBusy, ImportPcs
<1>23. CASE ImFinalize
  <2>1. PICK files \in Resynced(imView[imCur].item) :
          mediaFiles' = files /\ RecalcMediaItemStatus(imView[imCur].item, files)
    BY <1>23 DEF ImFinalize
  <2>2. mediaFiles' \subseteq Path
    BY <2>1 DEF Resynced, ItemFiles
  <2>3. OthersTyped'
    BY <1>23, <2>1, <2>2, Recalculated DEF ImFinalize, OthersTyped
  <2> QED BY <1>7, <1>23, <2>3, RowsStay DEF ImFinalize, ImBusy
<1>24. ASSUME NEW d \in Downloads, ImCompleteSeeding(d) PROVE RowsStep /\ OthersTyped' /\ ImInv'
  <2> DEFINE row == imView[d]
             next == [row EXCEPT !.status = "completed"]
             kept == row.hash # None /\ torrents[row.hash] # "absent"
  <2>1. /\ imPc = "seeding" /\ d \in ImHeld /\ UpdateDownload(d, next) /\ OthersTyped'
        /\ UNCHANGED ImScratch /\ imCur = None
    BY <1>24, OthersStay DEF ImCompleteSeeding, ImInv, ImBusy
  <2>2. Successor(imView[d], next)
    BY <1>1, <1>11, <2>1, Successors
  <2>3. RowsStep
    BY <2>1, <2>2, UpdateKeeps DEF ImHeld, ImInv
  <2>4. CASE Current(d, next) /\ kept
    <3>1. imView' = [imView EXCEPT ![d] = Written(next)] /\ imPc' = "seedremove" /\ imCur' = d
      BY <1>24, <2>4 DEF ImCompleteSeeding
    <3>2. Phase' = Phase /\ imPc' \in ImBusy
      BY <2>1, <3>1 DEF ImportPcs, ImBusy
    <3> HIDE DEF next, Phase
    <3> QED BY <1>10, <2>1, <2>2, <2>4, <3>1, <3>2
  <2>5. CASE ~(Current(d, next) /\ kept)
    BY <1>9, <1>24, <2>1, <2>3, <2>5 DEF ImCompleteSeeding
  <2> QED BY <2>4, <2>5
<1>25. ASSUME NEW d \in Downloads, ImKeepSeeding(d) PROVE RowsStep /\ OthersTyped' /\ ImInv'
  BY <1>9, <1>25, RowsStay, OthersStay DEF ImKeepSeeding
<1>26. CASE ImSeedRemove
  <2>1. OthersTyped'
    BY <1>26, TorrentsDeleted DEF ImSeedRemove, OthersTyped
  <2> QED BY <1>7, <1>26, <2>1, RowsStay DEF ImSeedRemove, ImBusy
<1>27. CASE ImTickEnds
  <2>1. imCur = None /\ imCur' = None /\ imPc' \notin ImBusy /\ None \notin Downloads
    BY <1>27, StoreAssumption DEF ImTickEnds, ImInv, ImBusy
  <2> QED BY <1>0, <1>3, <1>27, <2>1, RowsStay, OthersStay
        DEF ImTickEnds, ImInv, ImTypeOK, ImportPcs, ImBusy
<1> QED BY <1>4, <1>5, <1>12, <1>13, <1>14, <1>15, <1>17, <1>18, <1>19, <1>20, <1>21, <1>22,
           <1>23, <1>24, <1>25, <1>26, <1>27 DEF ImNext

-----------------------------------------------------------------------------
(* Removal requests                                                        *)

RqInv ==
  /\ RqTypeOK
  /\ \A r \in Requests :
       IF rqPc[r] \in RqDownloadPcs
       THEN /\ rqView[r] # NoRow /\ rqView[r].status = "cancelled"
            /\ FreshOf(rqView[r], downloads[rqTarget[r]])
       ELSE rqView[r] = NoRow

LEMMA RqKept == StoreInv /\ RqInv /\ RowsStep /\ UNCHANGED rqVars => RqInv'
<1> SUFFICES ASSUME StoreInv, RqInv, RowsStep, UNCHANGED rqVars PROVE RqInv'
  OBVIOUS
<1>1. ASSUME NEW r \in Requests, rqPc[r] \in RqDownloadPcs
      PROVE  FreshOf(rqView[r], downloads'[rqTarget[r]])
  <2>1. rqTarget[r] \in Downloads /\ FreshOf(rqView[r], downloads[rqTarget[r]])
    BY <1>1 DEF RqInv, RqTypeOK
  <2> QED BY <2>1, FreshKept DEF StoreInv, RowsStep
<1> QED BY <1>1 DEF RqInv, RqTypeOK, rqVars

\* Cancelling and deleting are steps of a row.
LEMMA CancelledRow ==
  ASSUME StoreInv, NEW d \in Downloads, Exists(d)
  PROVE  /\ downloads[d] \in LiveRow /\ downloads[d].hash \in Hashes \cup {None}
         /\ Cancelled(downloads[d]) \in LiveRow /\ Cancelled(downloads[d]).status = "cancelled"
         /\ Cancelled(downloads[d]) # NoRow
         /\ RowStep(downloads[d], Cancelled(downloads[d]))
         /\ RowStep(downloads[d], Written([downloads[d] EXCEPT !.status = "cancelled"]))
<1> DEFINE row == downloads[d]
           next == [row EXCEPT !.status = "cancelled"]
<1>1. row \in LiveRow
  BY DEF StoreInv, Stored, Exists, NoRow, Statuses, ActiveDownloadStatuses, TerminalFailureStatuses
<1>2. row.hash \in Hashes \cup {None} /\ row.ver \in Nat
  BY <1>1 DEF LiveRow
<1>3. Successor(row, next) /\ next.status = "cancelled"
  BY <1>1, Successors DEF LiveRow, Statuses
<1>4. /\ Written(next) \in LiveRow /\ Written(next).ver = row.ver + 1
      /\ Written(next).item = row.item /\ Written(next).url = row.url
      /\ Written(next).status = "cancelled"
  BY <1>3, Rows DEF Successor, Written, LiveRow
<1>5. RowStep(row, Written(next))
  BY <1>1, <1>2, <1>4 DEF RowStep
<1>6. Cancelled(row) = Written(next) \/ (Cancelled(row) = row /\ row.status = "cancelled")
  BY DEF Cancelled
<1> HIDE DEF next
<1>7. RowStep(row, Cancelled(row)) /\ Cancelled(row) \in LiveRow /\ Cancelled(row).status = "cancelled"
  BY <1>1, <1>4, <1>5, <1>6 DEF RowStep
<1> QED BY <1>1, <1>2, <1>5, <1>7, Rows DEF next

LEMMA RowRemoved ==
  ASSUME StoreInv, NEW S, S \subseteq {d \in Downloads : Exists(d)},
         downloads' = [d \in Downloads |-> IF d \in S THEN Deleted(downloads[d]) ELSE downloads[d]]
  PROVE  RowsStep
<1>1. \A d \in S : downloads[d] \in LiveRow
  BY CancelledRow
<1> QED BY <1>1, Rows DEF RowsStep, RowStep, StoreInv, StoreTypeOK

\* A request moves on, with what it remembers then.
RqBecomes(r, pc, view, target, delete, hashes, paths) ==
  /\ rqPc' = [rqPc EXCEPT ![r] = pc]
  /\ rqView' = [rqView EXCEPT ![r] = view]
  /\ rqTarget' = [rqTarget EXCEPT ![r] = target]
  /\ rqDelete' = [rqDelete EXCEPT ![r] = delete]
  /\ rqHashes' = [rqHashes EXCEPT ![r] = hashes]
  /\ rqPaths' = [rqPaths EXCEPT ![r] = paths]

RqFits(pc, view, target, delete, hashes, paths) ==
  /\ \/ /\ pc \in RqDownloadPcs
        /\ target \in Downloads /\ view \in LiveRow /\ view.status = "cancelled"
        /\ FreshOf(view, downloads'[target])
     \/ pc \in RqItemPcs /\ target \in Items /\ view = NoRow
     \/ pc = "done" /\ target = None /\ view = NoRow
  /\ delete \in BOOLEAN /\ hashes \subseteq Hashes /\ paths \subseteq Path

LEMMA RqMoves ==
  ASSUME StoreInv, RqInv, RowsStep, NEW r \in Requests, NEW pc, NEW view, NEW target,
         NEW delete, NEW hashes, NEW paths,
         RqBecomes(r, pc, view, target, delete, hashes, paths),
         RqFits(pc, view, target, delete, hashes, paths)
  PROVE  RqInv'
<1>1. /\ pc \in {"idle", "done"} \cup RqDownloadPcs \cup RqItemPcs /\ view \in Row
      /\ target \in Downloads \cup Items \cup {None}
  BY Rows DEF RqFits
<1>2. RqTypeOK'
  BY <1>1 DEF RqInv, RqTypeOK, RqBecomes, RqFits, RqDownloadPcs, RqItemPcs
<1>3. ASSUME NEW q \in Requests
      PROVE  IF rqPc'[q] \in RqDownloadPcs
             THEN /\ rqView'[q] # NoRow /\ rqView'[q].status = "cancelled"
                  /\ FreshOf(rqView'[q], downloads'[rqTarget'[q]])
             ELSE rqView'[q] = NoRow
  <2>1. CASE q = r
    BY <2>1, Rows DEF RqInv, RqTypeOK, RqBecomes, RqFits, RqDownloadPcs, RqItemPcs
  <2>2. CASE q # r
    <3>1. rqPc'[q] = rqPc[q] /\ rqView'[q] = rqView[q] /\ rqTarget'[q] = rqTarget[q]
      BY <2>2 DEF RqInv, RqTypeOK, RqBecomes
    <3>2. rqPc[q] \in RqDownloadPcs => FreshOf(rqView[q], downloads'[rqTarget[q]])
      BY FreshKept DEF RqInv, RqTypeOK, RowsStep, StoreInv
    <3> QED BY <3>1, <3>2 DEF RqInv
  <2> QED BY <2>1, <2>2
<1> QED BY <1>2, <1>3 DEF RqInv

LEMMA RqStep ==
  ASSUME StoreInv, RqInv, RqNext
  PROVE  RowsStep /\ OthersTyped' /\ RqInv'
<1> USE DEF StoreInv, StoreTypeOK, storeVars
<1>1. ASSUME NEW r \in Requests
      PROVE  /\ rqDelete[r] \in BOOLEAN /\ rqHashes[r] \subseteq Hashes /\ rqPaths[r] \subseteq Path
             /\ rqPc[r] \in RqDownloadPcs =>
                  /\ rqTarget[r] \in Downloads /\ rqView[r] \in LiveRow
                  /\ rqView[r] # NoRow /\ rqView[r].status = "cancelled"
                  /\ FreshOf(rqView[r], downloads[rqTarget[r]])
             /\ rqPc[r] \in RqItemPcs => rqTarget[r] \in Items /\ rqView[r] = NoRow
  BY DEF RqInv, RqTypeOK, FreshOf, RqDownloadPcs, RqItemPcs
\* The row that is cancelled.
<1>2. ASSUME NEW r \in Requests, NEW d \in Downloads, RqCancel(r, d)
      PROVE  RowsStep /\ OthersTyped' /\ RqInv'
  <2>1. PICK delete \in BOOLEAN : rqDelete' = [rqDelete EXCEPT ![r] = delete]
    BY <1>2 DEF RqCancel
  <2> DEFINE view == Cancelled(downloads[d])
             hashes == HashesOf({d})
  <2>2. Exists(d) /\ downloads' = [downloads EXCEPT ![d] = view]
    BY <1>2 DEF RqCancel
  <2>3. /\ view \in LiveRow /\ view \in Row /\ view # NoRow /\ view.status = "cancelled"
        /\ RowStep(downloads[d], view) /\ hashes \subseteq Hashes /\ view.ver \in Nat
    <3>1. view \in LiveRow /\ view.status = "cancelled" /\ RowStep(downloads[d], view)
      BY <2>2, CancelledRow
    <3>2. view.ver \in Nat /\ view \in Row /\ view # NoRow
      BY <3>1, Rows DEF LiveRow
    <3>3. hashes \subseteq Hashes
      BY <2>2, CancelledRow DEF HashesOf
    <3> QED BY <3>1, <3>2, <3>3
  <2>4. RqBecomes(r, "dTorrent", view, d, delete, hashes, rqPaths[r])
    BY <1>2, <2>1 DEF RqCancel, RqGoto, RqBecomes, RqInv, RqTypeOK
  <2> HIDE DEF view, hashes
  <2>5. RowsStep /\ downloads'[d] = view
    BY <2>2, <2>3 DEF RowsStep, RowStep
  <2>6. RqFits("dTorrent", view, d, delete, hashes, rqPaths[r])
    BY <1>1, <2>3, <2>5 DEF RqFits, FreshOf, RqDownloadPcs
  <2> QED BY <1>2, <2>4, <2>5, <2>6, RqMoves, OthersStay DEF RqCancel
\* The steps in between leave the rows alone.
<1>3. ASSUME NEW r \in Requests, UNCHANGED downloads, OthersTyped', NEW pc,
             \/ rqPc[r] \in RqDownloadPcs /\ pc \in RqDownloadPcs
             \/ rqPc[r] \in RqItemPcs /\ pc \in RqItemPcs,
             NEW paths, paths \subseteq Path,
             RqBecomes(r, pc, rqView[r], rqTarget[r], rqDelete[r], rqHashes[r], paths)
      PROVE  RowsStep /\ OthersTyped' /\ RqInv'
  <2>1. RowsStep
    BY <1>3, RowsStay
  <2>2. RqFits(pc, rqView[r], rqTarget[r], rqDelete[r], rqHashes[r], paths)
    BY <1>1, <1>3 DEF RqFits
  <2> QED BY <1>3, <2>1, <2>2, RqMoves
<1>4. ASSUME NEW r \in Requests, RqDownloadTorrent(r) PROVE RowsStep /\ OthersTyped' /\ RqInv'
  <2>1. OthersTyped'
    BY <1>4, TorrentsDeleted DEF RqDownloadTorrent, OthersTyped
  <2>2. RqBecomes(r, "dFiles", rqView[r], rqTarget[r], rqDelete[r], rqHashes[r], rqPaths[r])
    BY <1>4 DEF RqDownloadTorrent, RqGoto, RqBecomes, RqInv, RqTypeOK
  <2>3. rqPc[r] \in RqDownloadPcs /\ "dFiles" \in RqDownloadPcs /\ UNCHANGED downloads
    BY <1>4 DEF RqDownloadTorrent, RqDownloadPcs
  <2>4. RowsStep /\ RqFits("dFiles", rqView[r], rqTarget[r], rqDelete[r], rqHashes[r], rqPaths[r])
    BY <1>1, <2>3, RowsStay DEF RqFits
  <2> QED BY <2>1, <2>2, <2>4, RqMoves
<1>5. ASSUME NEW r \in Requests, RqDownloadFiles(r) PROVE RowsStep /\ OthersTyped' /\ RqInv'
  <2> DEFINE row == rqView[r]
             found == IF rqDelete[r] /\ row.linked /\ mediaItems[row.item].present
                      THEN ReleaseFiles(mediaFiles, row.item, row.url) ELSE {}
  <2>1. PICK failed \in IF "unlink" \in Faults THEN SUBSET found ELSE {{}} :
          /\ libraryFiles' = libraryFiles \ (found \ failed)
          /\ rqPaths' = [rqPaths EXCEPT ![r] = found \ failed]
    BY <1>5 DEF RqDownloadFiles
  <2> DEFINE paths == found \ failed
  <2>2. paths \subseteq Path
    BY DEF ReleaseFiles
  <2>3. OthersTyped'
    BY <1>5, <2>1 DEF RqDownloadFiles, OthersTyped
  <2>4. RqBecomes(r, "dRecord", rqView[r], rqTarget[r], rqDelete[r], rqHashes[r], paths)
    BY <1>5, <2>1 DEF RqDownloadFiles, RqGoto, RqBecomes, RqInv, RqTypeOK
  <2> HIDE DEF paths, found
  <2>5. rqPc[r] \in RqDownloadPcs /\ "dRecord" \in RqDownloadPcs /\ UNCHANGED downloads
    BY <1>5 DEF RqDownloadFiles, RqDownloadPcs
  <2>6. RowsStep /\ RqFits("dRecord", rqView[r], rqTarget[r], rqDelete[r], rqHashes[r], paths)
    BY <1>1, <2>2, <2>5, RowsStay DEF RqFits
  <2> QED BY <2>3, <2>4, <2>6, RqMoves
<1>6. ASSUME NEW r \in Requests, RqReturn(r), RowsStep, OthersTyped'
      PROVE  RowsStep /\ OthersTyped' /\ RqInv'
  <2>1. RqBecomes(r, "done", NoRow, None, FALSE, {}, {})
    BY <1>6 DEF RqReturn, RqGoto, RqBecomes
  <2>2. RqFits("done", NoRow, None, FALSE, {}, {})
    BY DEF RqFits
  <2> QED BY <1>6, <2>1, <2>2, RqMoves
<1>7. ASSUME NEW r \in Requests, RqDownloadRecord(r) PROVE RowsStep /\ OthersTyped' /\ RqInv'
  <2> DEFINE d == rqTarget[r]
             i == rqView[r].item
  <2>1. d \in Downloads /\ RqReturn(r) /\ UNCHANGED <<libraryFiles, torrents>>
    BY <1>1, <1>7 DEF RqDownloadRecord, RqDownloadPcs
  <2>2. CASE Preimage(r) /\ mediaItems[i].present
    <3>1. /\ Exists(d)
          /\ downloads' = [e \in Downloads |-> IF e \in {d} THEN Deleted(downloads[e]) ELSE downloads[e]]
      BY <1>7, <2>1, <2>2 DEF RqDownloadRecord, Preimage, Current
    <3>2. RowsStep
      BY <2>1, <3>1, RowRemoved
    <3>3. RecalcMediaItemStatus(i, mediaFiles \ rqPaths[r]) \/ UNCHANGED mediaItems
      BY <1>7, <2>2 DEF RqDownloadRecord
    <3>4. mediaFiles' \subseteq Path
      BY <1>7, <2>2 DEF RqDownloadRecord
    <3>5. mediaItems' \in [Items -> MediaItem]
      BY <3>3, Recalculated
    <3> QED BY <1>6, <2>1, <3>2, <3>4, <3>5 DEF OthersTyped
  <2>3. CASE ~(Preimage(r) /\ mediaItems[i].present)
    BY <1>6, <1>7, <2>1, <2>3, RowsStay, OthersStay DEF RqDownloadRecord
  <2> QED BY <2>2, <2>3
<1>8. ASSUME NEW r \in Requests, NEW i \in Items, RqPrepare(r, i)
      PROVE  RowsStep /\ OthersTyped' /\ RqInv'
  <2> DEFINE hashes == HashesOf(RowsOf(i))
  <2>1. hashes \subseteq Hashes
    BY CancelledRow DEF HashesOf, RowsOf
  <2>2. RowsStep
    <3>1. \A d \in RowsOf(i) : /\ RowStep(downloads[d], Written([downloads[d] EXCEPT !.status = "cancelled"]))
                               /\ Stored(downloads[d])
      BY CancelledRow DEF RowsOf
    <3>2. CASE downloads' = CancelAll(i)
      BY <3>1, <3>2, StepStored DEF CancelAll, RowsStep, RowStep
    <3> QED BY <1>8, <3>2, RowsStay DEF RqPrepare
  <2>3. OthersTyped'
    BY <1>8 DEF RqPrepare, OthersTyped, MediaItem
  <2>4. RqBecomes(r, "iList", NoRow, i, rqDelete[r], hashes, rqPaths[r])
    BY <1>8 DEF RqPrepare, RqGoto, RqBecomes, RqInv, RqTypeOK, RqDownloadPcs
  <2> HIDE DEF hashes
  <2>5. RqFits("iList", NoRow, i, rqDelete[r], hashes, rqPaths[r])
    BY <1>1, <2>1 DEF RqFits, RqItemPcs
  <2> QED BY <2>2, <2>3, <2>4, <2>5, RqMoves
<1>9. ASSUME NEW r \in Requests, RqListFiles(r) PROVE RowsStep /\ OthersTyped' /\ RqInv'
  <2> DEFINE paths == ItemFiles(mediaFiles, rqTarget[r])
  <2>1. paths \subseteq Path /\ OthersTyped'
    BY <1>9, OthersStay DEF ItemFiles, RqListFiles
  <2>2. RqBecomes(r, "iTorrents", rqView[r], rqTarget[r], rqDelete[r], rqHashes[r], paths)
    BY <1>9 DEF RqListFiles, RqGoto, RqBecomes, RqInv, RqTypeOK
  <2> HIDE DEF paths
  <2> QED BY <1>3, <1>9, <2>1, <2>2 DEF RqListFiles, RqItemPcs
<1>10. ASSUME NEW r \in Requests, RqItemTorrents(r) PROVE RowsStep /\ OthersTyped' /\ RqInv'
  <2>1. OthersTyped'
    BY <1>10, TorrentsDeleted DEF RqItemTorrents, OthersTyped
  <2>2. RqBecomes(r, "iFiles", rqView[r], rqTarget[r], rqDelete[r], rqHashes[r], rqPaths[r])
    BY <1>10 DEF RqItemTorrents, RqGoto, RqBecomes, RqInv, RqTypeOK
  <2> QED BY <1>1, <1>3, <1>10, <2>1, <2>2 DEF RqItemTorrents, RqItemPcs
<1>11. ASSUME NEW r \in Requests, RqItemFiles(r) PROVE RowsStep /\ OthersTyped' /\ RqInv'
  <2>1. OthersTyped'
    BY <1>11 DEF RqItemFiles, OthersTyped
  <2>2. RqBecomes(r, "iRecord", rqView[r], rqTarget[r], rqDelete[r], rqHashes[r], rqPaths[r])
    BY <1>11 DEF RqItemFiles, RqGoto, RqBecomes, RqInv, RqTypeOK
  <2> QED BY <1>1, <1>3, <1>11, <2>1, <2>2 DEF RqItemFiles, RqItemPcs
<1>12. ASSUME NEW r \in Requests, RqItemRecord(r) PROVE RowsStep /\ OthersTyped' /\ RqInv'
  <2> DEFINE i == rqTarget[r]
  <2>1. i \in Items /\ RqReturn(r) /\ UNCHANGED <<libraryFiles, torrents>>
    BY <1>1, <1>12 DEF RqItemRecord, RqItemPcs
  <2>2. RowsStep
    <3>1. RowsOf(i) \subseteq {d \in Downloads : Exists(d)}
      BY DEF RowsOf
    <3> QED BY <1>12, <3>1, RowsStay, RowRemoved DEF RqItemRecord
  <2>3. OthersTyped'
    <3>1. [mediaItems[i] EXCEPT !.present = FALSE] \in MediaItem
      BY <2>1 DEF MediaItem
    <3>2. mediaItems' \in [Items -> MediaItem]
      BY <1>12, <2>1, <3>1 DEF RqItemRecord
    <3> QED BY <1>12, <2>1, <3>2 DEF RqItemRecord, OthersTyped
  <2> QED BY <1>6, <2>1, <2>2, <2>3
<1> QED BY <1>2, <1>4, <1>5, <1>7, <1>8, <1>9, <1>10, <1>11, <1>12 DEF RqNext, RqAccept, RqProceed

-----------------------------------------------------------------------------
(* The monitor and the backfill                                            *)

LEMMA RowCreated ==
  ASSUME StoreInv, NEW d \in Downloads, NEW i \in Items, NEW u \in Urls, NEW ep \in BOOLEAN,
         CreateDownload(d, i, u, ep)
  PROVE  RowsStep /\ downloads[d] = NoRow /\ downloads' = [downloads EXCEPT ![d] = NewRow(i, u, ep)]
<1>1. downloads[d] = NoRow
  BY DEF CreateDownload, StoreInv, Stored, LiveRow, Statuses, ActiveDownloadStatuses,
         TerminalFailureStatuses
<1>2. NewRow(i, u, ep) \in LiveRow
  BY DEF NewRow, NoRow, LiveRow, Statuses, ActiveDownloadStatuses
<1>3. downloads' = [downloads EXCEPT ![d] = NewRow(i, u, ep)]
  BY DEF CreateDownload
<1> QED BY <1>1, <1>2, <1>3, Rows DEF RowsStep, RowStep, StoreInv, StoreTypeOK

LEMMA MoStep ==
  ASSUME StoreInv, MoTypeOK, MoNext
  PROVE  RowsStep /\ OthersTyped' /\ MoTypeOK'
<1> USE DEF StoreInv, StoreTypeOK, storeVars
<1>1. \A i : RecalcMediaItemStatus(i, mediaFiles) => mediaItems' \in [Items -> MediaItem]
  BY Recalculated
<1>2. ASSUME NEW i \in Movies, MoCheck(i) PROVE RowsStep /\ OthersTyped' /\ MoTypeOK'
  <2>1. \A u \in Urls : Cardinality(Failures(i, u)) \in Nat
    BY FS_Subset, FS_CardinalityType, StoreAssumption DEF Failures, RowsOf
  <2>2. blocklist' \in [Movies -> [Urls -> Nat]]
    BY <1>2, <2>1 DEF MoCheck, Recorded, MoTypeOK
  <2>3. i \in Items /\ mediaItems[i].ver \in Nat
    BY MonitorAssumption DEF MediaItem
  <2>4. mediaItems' \in [Items -> MediaItem]
    BY <1>1, <1>2 DEF MoCheck
  <2>5. RowsStep /\ OthersTyped'
    BY <1>2, <2>4, RowsStay DEF MoCheck, OthersTyped
  <2> QED BY <1>2, <2>2, <2>3, <2>5 DEF MoCheck, MoTypeOK
<1>3. ASSUME NEW u \in Urls, MoPick(u) PROVE RowsStep /\ OthersTyped' /\ MoTypeOK'
  BY <1>3, RowsStay, OthersStay DEF MoPick, MoTypeOK
<1>4. CASE MoFindNothing \/ MoGiveUp
  BY <1>1, <1>4, RowsStay DEF MoFindNothing, MoGiveUp, MoIdle, MoTypeOK, OthersTyped
<1>5. ASSUME NEW d \in Downloads, MoGrab(d) PROVE RowsStep /\ OthersTyped' /\ MoTypeOK'
  <2>1. moItem \in Items /\ moUrl \in Urls
    BY <1>5, MonitorAssumption DEF MoGrab, MoTypeOK
  <2>2. RowsStep
    BY <1>5, <2>1, RowCreated DEF MoGrab
  <2> QED BY <1>1, <1>5, <2>2 DEF MoGrab, MoIdle, MoTypeOK, OthersTyped
<1> QED BY <1>2, <1>3, <1>4, <1>5 DEF MoNext

BfInv ==
  /\ BfTypeOK
  /\ \A d \in Downloads : FreshOf(bfView[d], downloads[d])
  /\ \A d \in BfHeld : bfView[d].status \notin BfSkipped

LEMMA BfKept == StoreInv /\ BfInv /\ RowsStep /\ UNCHANGED bfVars => BfInv'
<1> SUFFICES ASSUME StoreInv, BfInv, RowsStep, UNCHANGED bfVars PROVE BfInv'
  OBVIOUS
<1>1. \A d \in Downloads : FreshOf(bfView'[d], downloads'[d])
  BY ViewsKept DEF BfInv, bfVars
<1> QED BY <1>1 DEF BfInv, BfTypeOK, BfHeld, bfVars

LEMMA BfStep ==
  ASSUME StoreInv, BfInv, BfNext
  PROVE  RowsStep /\ OthersTyped' /\ BfInv'
<1> USE DEF StoreInv, StoreTypeOK, storeVars
<1>1. ASSUME NEW d \in Downloads, BfDrop(d), UNCHANGED <<bfPc, bfItem>>, RowsStep
      PROVE  BfInv'
  <2>1. bfView' \in [Downloads -> Row]
        /\ \A e \in Downloads : bfView'[e] = bfView[e] \/ bfView'[e] = NoRow
    BY <1>1, Rows DEF BfDrop, BfInv, BfTypeOK
  <2>2. \A e \in Downloads : FreshOf(bfView'[e], downloads'[e])
    BY <1>1, <2>1, ViewsKept DEF BfInv
  <2> QED BY <1>1, <2>1, <2>2 DEF BfInv, BfTypeOK, BfHeld
<1>2. CASE BfList
  <2> DEFINE S == {d \in RowsOf(bfItem) : ~downloads[d].episode /\ downloads[d].status \notin BfSkipped}
  <2>1. S \subseteq {d \in Downloads : Exists(d)} /\ \A d \in S : downloads[d].status \notin BfSkipped
    BY DEF RowsOf
  <2>2. bfView' = Snapshots(S) /\ UNCHANGED storeVars /\ bfPc' = "loop" /\ bfItem' = bfItem
        /\ bfPc = "list"
    BY <1>2 DEF BfList
  <2> HIDE DEF S
  <2>3. bfView' \in [Downloads -> Row] /\ \A d \in Downloads : FreshOf(bfView'[d], downloads'[d])
    BY <2>1, <2>2, ListedFresh
  <2>4. \A d \in Downloads : bfView'[d] # NoRow => d \in S /\ bfView'[d] = downloads[d]
    BY <2>1, <2>2, ListedFresh
  <2>5. RowsStep /\ OthersTyped'
    BY <2>2, RowsStay, OthersStay
  <2> QED BY <2>1, <2>2, <2>3, <2>4, <2>5 DEF BfInv, BfTypeOK, BfHeld
<1>3. ASSUME NEW d \in Downloads, BfResolve(d) PROVE RowsStep /\ OthersTyped' /\ BfInv'
  <2>1. bfView[d] # NoRow /\ FreshOf(bfView[d], downloads[d]) /\ bfView[d] \in LiveRow
    BY <1>3 DEF BfResolve, BfHeld, BfInv, FreshOf
  <2>2. RowsStep
    BY <1>3, <2>1, UpdateKeeps, Successors DEF BfResolve
  <2> QED BY <1>1, <1>3, <2>2, OthersStay DEF BfResolve
<1>4. ASSUME NEW d \in Downloads, BfUnresolved(d) PROVE RowsStep /\ OthersTyped' /\ BfInv'
  BY <1>1, <1>4, RowsStay, OthersStay DEF BfUnresolved
<1>5. CASE BfDone
  <2>1. OthersTyped' /\ RowsStep
    BY <1>5, Recalculated, RowsStay DEF BfDone, OthersTyped
  <2>2. \A d \in Downloads : FreshOf(bfView'[d], downloads'[d])
    BY <1>5, <2>1, ViewsKept DEF BfDone, BfInv
  <2> QED BY <1>5, <2>1, <2>2 DEF BfDone, BfInv, BfTypeOK, BfHeld
<1>6. ASSUME NEW i \in Items, BfRefresh(i) PROVE RowsStep /\ OthersTyped' /\ BfInv'
  <2>1. OthersTyped' /\ RowsStep
    BY <1>6, RowsStay, OthersStay DEF BfRefresh
  <2>2. \A d \in Downloads : FreshOf(bfView'[d], downloads'[d])
    BY <1>6, <2>1, ViewsKept DEF BfRefresh, BfInv
  <2> QED BY <1>6, <2>1, <2>2 DEF BfRefresh, BfInv, BfTypeOK, BfHeld
<1> QED BY <1>2, <1>3, <1>4, <1>5, <1>6 DEF BfNext

-----------------------------------------------------------------------------
(* The pipeline                                                            *)

PipelineInv ==
  /\ StoreInv /\ DwInv /\ ImInv /\ RqInv /\ MoTypeOK /\ BfInv
  /\ restarts \in Nat /\ statusUpdates \in Nat /\ settings \in Nat /\ clientUp \in BOOLEAN

\* An actor's step leaves the memory of the others alone, and what they remember holds.
LEMMA OthersKept ==
  ASSUME PipelineInv, RowsStep
  PROVE  /\ UNCHANGED dwVars => DwInv'
         /\ UNCHANGED imVars => ImInv'
         /\ UNCHANGED rqVars => RqInv'
         /\ UNCHANGED moVars => MoTypeOK'
         /\ UNCHANGED bfVars => BfInv'
BY DwKept, ImKept, RqKept, BfKept DEF PipelineInv, MoTypeOK, moVars

LEMMA NothingHeld ==
  /\ Snapshots({}) = [d \in Downloads |-> NoRow]
  /\ \A row : FreshOf(NoRow, row)
BY DEF Snapshots, FreshOf

LEMMA PipelineInitially == Init => PipelineInv
<1> SUFFICES ASSUME Init PROVE PipelineInv
  OBVIOUS
<1>1. StoreInv
  BY Rows DEF Init, StoreInit, StoreInv, StoreTypeOK, Stored, MediaItem, TorrentStates
<1>2. DwInv
  BY NothingHeld, Rows DEF Init, DwInit, DwInv, DwTypeOK, DwHeld
<1>3. ImInv
  BY NothingHeld, Rows DEF Init, ImInit, ImInv, ImTypeOK, ImHeld, ImBusy
<1>4. RqInv
  BY Rows DEF Init, RqInit, RqInv, RqTypeOK, RqDownloadPcs, RqItemPcs
<1>5. MoTypeOK /\ BfInv
  BY NothingHeld, Rows DEF Init, MoInit, MoTypeOK, BfInit, BfInv, BfTypeOK, BfHeld
<1> QED BY <1>1, <1>2, <1>3, <1>4, <1>5 DEF Init, PipelineInv

LEMMA PipelineStep == PipelineInv /\ [Next]_vars => PipelineInv' /\ RowsStep
<1> SUFFICES ASSUME PipelineInv, [Next]_vars PROVE PipelineInv' /\ RowsStep
  OBVIOUS
<1> USE DEF PipelineInv
<1>1. CASE Worker
  BY <1>1, DwStep, OthersKept, StoreKept DEF Worker, boundVars
<1>2. CASE Import
  BY <1>2, ImStep, OthersKept, StoreKept DEF Import, boundVars
<1>3. CASE Removal
  BY <1>3, RqStep, OthersKept, StoreKept DEF Removal, boundVars
<1>4. CASE Monitor
  BY <1>4, MoStep, OthersKept, StoreKept DEF Monitor, boundVars
<1>5. CASE Backfill
  BY <1>5, BfStep, OthersKept, StoreKept DEF Backfill, boundVars
<1>6. CASE Client
  <2>1. RowsStep /\ OthersTyped'
    BY <1>6, RowsStay DEF Client, QbitStep, StoreInv, StoreTypeOK, OthersTyped, TorrentStates
  <2> QED BY <1>6, <2>1, OthersKept, StoreKept DEF Client, boundVars
<1>7. CASE ManualCreate
  <2>1. RowsStep /\ OthersTyped'
    BY <1>7, RowCreated, OthersStay, PipelineAssumption DEF ManualCreate, Create
  <2> QED BY <1>7, <2>1, OthersKept, StoreKept DEF ManualCreate, boundVars
<1>8. CASE StatusRequest
  <2>1. PICK d \in Downloads, s \in UserStatuses : UpdateStatus(d, s)
    BY <1>8 DEF StatusRequest
  <2>2. downloads[d] \in LiveRow
    BY <2>1, CancelledRow DEF UpdateStatus
  <2>3. FreshOf(downloads[d], downloads[d]) /\ downloads[d] # NoRow
    BY <2>2, Rows DEF FreshOf, LiveRow
  <2>4. s \in Statuses
    BY WorkerAssumption
  <2>5. Successor(downloads[d], WithStatus(downloads[d], s))
    BY <2>2, <2>4, Successors
  <2>6. UpdateDownload(d, WithStatus(downloads[d], s))
    BY <2>1, <2>5 DEF UpdateStatus, UpdateDownload, Current, Successor
  <2>7. RowsStep /\ OthersTyped'
    BY <2>1, <2>3, <2>5, <2>6, UpdateKeeps, OthersStay DEF UpdateStatus
  <2> QED BY <1>8, <2>7, OthersKept, StoreKept DEF StatusRequest
<1>9. CASE MonitorRequest
  <2>1. PICK i \in Items, monitored \in BOOLEAN : SetMonitored(i, monitored)
    BY <1>9 DEF MonitorRequest
  <2>2. mediaItems' \in [Items -> MediaItem]
    BY <2>1 DEF SetMonitored, StoreInv, StoreTypeOK, MediaItem
  <2>3. RowsStep /\ OthersTyped'
    BY <2>1, <2>2, RowsStay DEF SetMonitored, StoreInv, StoreTypeOK, OthersTyped
  <2> QED BY <1>9, <2>1, <2>3, OthersKept, StoreKept DEF MonitorRequest, SetMonitored, moVars
<1>10. CASE Restart
  <2>1. PICK reachable \in BOOLEAN : Reconcile(reachable)
    BY <1>10 DEF Restart
  <2>2. ASSUME NEW d \in Downloads
        PROVE  downloads'[d] \in Row /\ RowStep(downloads[d], downloads'[d])
    <3> DEFINE row == downloads[d]
               next == Reconciled(Recovered(row), reachable)
    <3>1. downloads'[d] = IF next = row THEN next ELSE Written(next)
      BY <2>1 DEF Reconcile
    <3>2. CASE row \in LiveRow
      <4>1. Recovered(row) \in LiveRow /\ Successor(row, Recovered(row))
        BY <3>2, Successors DEF Successor
      <4>2. Successor(row, next)
        BY <4>1, Successors DEF Reconciled, Successor
      <4>3. /\ Written(next) \in LiveRow /\ Written(next).ver = row.ver + 1
            /\ Written(next).item = row.item /\ Written(next).url = row.url
        BY <4>2, Rows DEF Successor, Written, LiveRow
      <4>4. row.ver \in Nat
        BY <3>2 DEF LiveRow
      <4> HIDE DEF next
      <4> QED BY <3>1, <3>2, <4>3, <4>4, Rows DEF RowStep
    <3>3. CASE row \notin LiveRow
      <4>1. row.status \in {"none", "deleted"} /\ row \in Row
        BY <3>3, Rows DEF StoreInv, Stored, NoRow
      <4>2. next = row
        BY <4>1 DEF Recovered, Reconciled
      <4> QED BY <3>1, <4>1, <4>2 DEF RowStep
    <3> QED BY <3>2, <3>3
  <2>3. RowsStep
    BY <2>1, <2>2 DEF RowsStep, Reconcile
  <2>4. OthersTyped'
    BY <1>10, OthersStay DEF Restart
  <2>5. DwInv'
    BY <1>10, NothingHeld, Rows DEF Restart, DwInv, DwTypeOK, DwHeld
  <2>6. ImInv'
    BY <1>10, NothingHeld, Rows DEF Restart, ImInv, ImTypeOK, ImHeld, ImBusy
  <2>7. RqInv'
    BY <1>10, Rows DEF Restart, RqInv, RqTypeOK, RqDownloadPcs, RqItemPcs
  <2>8. MoTypeOK' /\ BfInv'
    BY <1>10, NothingHeld, Rows DEF Restart, MoIdle, MoTypeOK, BfInv, BfTypeOK, BfHeld
  <2> QED BY <1>10, <2>3, <2>4, <2>5, <2>6, <2>7, <2>8, StoreKept DEF Restart
<1>11. CASE Outage \/ UNCHANGED vars
  <2>1. RowsStep /\ OthersTyped'
    BY <1>11, RowsStay, OthersStay DEF Outage, vars, storeVars
  <2> QED BY <1>11, <2>1, OthersKept, StoreKept DEF Outage, vars, boundVars
<1> QED BY <1>1, <1>2, <1>3, <1>4, <1>5, <1>6, <1>7, <1>8, <1>9, <1>10, <1>11 DEF Next

\* The inductive invariant of rows and snapshots (download, importer, media, metarefresh).
THEOREM PipelineInvariant == Spec => []PipelineInv
BY PipelineInitially, PipelineStep, PTL DEF Spec

\* Every table, snapshot and counter has its type.
THEOREM PipelineTypes == Spec => []TypeOK
<1>1. PipelineInv => TypeOK
  BY DEF PipelineInv, TypeOK, StoreInv, DwInv, ImInv, RqInv, BfInv
<1> QED BY <1>1, PipelineInvariant, PTL

\* A snapshot that carries the version of its row is the row: the compare-and-swap of
\* UpdateDownload refuses every write that was computed from something else.
THEOREM SnapshotsAlwaysFresh == Spec => []SnapshotsFresh
<1>1. PipelineInv => SnapshotsFresh
  <2> SUFFICES ASSUME PipelineInv, NEW d \in Downloads,
                      NEW view \in {dwView[d], imView[d], bfView[d]} \cup
                                   {rqView[r] : r \in {q \in Requests : rqTarget[q] = d}},
                      view # NoRow, Exists(d)
               PROVE  /\ view.ver <= downloads[d].ver
                      /\ view.ver = downloads[d].ver => view = downloads[d]
    BY DEF SnapshotsFresh
  <2>1. downloads[d] \in LiveRow
    BY CancelledRow DEF PipelineInv
  <2>2. FreshOf(view, downloads[d])
    BY DEF PipelineInv, DwInv, ImInv, BfInv, RqInv
  <2> QED BY <2>1, <2>2 DEF FreshOf
<1> QED BY <1>1, PipelineInvariant, PTL
=============================================================================
