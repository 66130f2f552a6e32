--------------------------- MODULE DownloadWorker ---------------------------
(***************************************************************************)
(* download.Service: the worker that hands pending downloads to            *)
(* qBittorrent and follows the torrents of downloading ones, and the       *)
(* requests that create a download or set its status.                      *)
(*                                                                         *)
(* One tick lists the pending rows, sends each of them, lists the          *)
(* downloading rows and polls each of them.  The listed rows are snapshots *)
(* (dwView); a row leaves dwView when the loop is done with it.            *)
(***************************************************************************)
EXTENDS DownloadStore

CONSTANTS
  MaxRetries,    \* sending attempts after the first one
  UserStatuses   \* the statuses a request may set

ASSUME WorkerAssumption ==
  /\ MaxRetries \in Nat
  /\ UserStatuses \subseteq Statuses \ {"cancelled"}

VARIABLES
  dwPc,     \* where the worker's tick stands
  dwView,   \* the worker's snapshot of each row it still has to handle
  dwCur,    \* the row being sent
  dwAdded,  \* did this send add the torrent (addedTorrent)?
  dwSent    \* rows sent in this tick (justSent)

dwVars == <<dwPc, dwView, dwCur, dwAdded, dwSent>>

DwTypeOK ==
  /\ dwPc \in {"idle", "send", "fetch", "claim", "undo", "poll"}
  /\ dwView \in [Downloads -> Row]
  /\ dwCur \in Downloads \cup {None}
  /\ dwPc \in {"fetch", "claim", "undo"} => dwCur \in Downloads
  /\ dwAdded \in BOOLEAN
  /\ dwSent \subseteq Downloads

DwInit ==
  /\ dwPc = "idle"
  /\ dwView = Snapshots({})
  /\ dwCur = None
  /\ dwAdded = FALSE
  /\ dwSent = {}

DwHeld == {d \in Downloads : dwView[d] # NoRow}
DwDrop(d) == dwView' = [dwView EXCEPT ![d] = NoRow]

\* The loop goes on with the next row of the listing.
DwNextRow(pc) ==
  /\ dwPc' = pc
  /\ dwCur' = None
  /\ dwAdded' = FALSE
  /\ DwDrop(dwCur)

-----------------------------------------------------------------------------
(* sendPending                                                             *)

\* processOnce checks the client first.  A tick that finds it unconfigured, or
\* unreachable, is skipped whole: no row is listed and no attempt is used up.
DwListPending ==
  /\ dwPc = "idle"
  /\ clientUp
  /\ \E S \in Due("pending") : dwView' = Snapshots(S)
  /\ dwPc' = "send"
  /\ UNCHANGED <<storeVars, dwCur, dwAdded, dwSent>>

\* The parent is read before the fetch; a missing or deletion-pending one skips
\* the row.
DwCheckItem(d) ==
  /\ dwPc = "send"
  /\ d \in DwHeld
  /\ IF Open(dwView[d].item)
     THEN dwPc' = "fetch" /\ dwCur' = d /\ UNCHANGED dwView
     ELSE DwDrop(d) /\ UNCHANGED <<dwPc, dwCur>>
  /\ UNCHANGED <<storeVars, dwAdded, dwSent>>

\* handleRetry: another attempt after a backoff, or a permanent failure.
Retried(row) ==
  IF row.retryCount < MaxRetries
  THEN [row EXCEPT !.retryCount = @ + 1, !.backoff = TRUE]
  ELSE [row EXCEPT !.status = "failed", !.backoff = FALSE]

\* FetchTorrent fails.
DwFetchFails ==
  /\ dwPc = "fetch"
  /\ "fetch" \in Faults
  /\ UpdateDownload(dwCur, Retried(dwView[dwCur]))
  /\ DwNextRow("send")
  /\ UNCHANGED <<mediaItems, mediaFiles, libraryFiles, torrents, dwSent>>

DwTorrent == HashOf[dwView[dwCur].url]

\* AddTorrentFile succeeds: the client had no such torrent.
DwAddTorrent ==
  /\ dwPc = "fetch"
  /\ torrents[DwTorrent] = "absent"
  /\ torrents' = [torrents EXCEPT ![DwTorrent] = "downloading"]
  /\ dwPc' = "claim"
  /\ dwAdded' = TRUE
  /\ UNCHANGED <<downloads, mediaItems, mediaFiles, libraryFiles, dwView, dwCur, dwSent>>

\* AddTorrentFile fails, but the client has the torrent: it had it before the
\* upload, or ("lost") only the answer of a successful upload was lost.
DwReuseTorrent ==
  /\ dwPc = "fetch"
  /\ \/ torrents[DwTorrent] # "absent" /\ UNCHANGED torrents
     \/ /\ "lost" \in Faults
        /\ torrents[DwTorrent] = "absent"
        /\ torrents' = [torrents EXCEPT ![DwTorrent] = "downloading"]
  /\ dwPc' = "claim"
  /\ dwAdded' = FALSE
  /\ UNCHANGED <<downloads, mediaItems, mediaFiles, libraryFiles, dwView, dwCur, dwSent>>

\* AddTorrentFile fails and the client does not know the torrent, or cannot be
\* asked ("lost" then leaves the torrent behind).
DwAddFails ==
  /\ dwPc = "fetch"
  /\ "add" \in Faults
  /\ \/ UNCHANGED torrents
     \/ /\ "lost" \in Faults
        /\ torrents[DwTorrent] = "absent"
        /\ torrents' = [torrents EXCEPT ![DwTorrent] = "downloading"]
  /\ UpdateDownload(dwCur, Retried(dwView[dwCur]))
  /\ DwNextRow("send")
  /\ UNCHANGED <<mediaItems, mediaFiles, libraryFiles, dwSent>>

Sent(row) ==
  [row EXCEPT !.status = "downloading", !.hash = HashOf[row.url],
              !.retryCount = 0, !.backoff = FALSE]

\* The transaction that claims the torrent for the row.  When the parent is gone
\* or being deleted, or the snapshot is stale, a torrent this send added is
\* removed again.
DwClaim ==
  /\ dwPc = "claim"
  /\ LET row == dwView[dwCur]
     IN  IF Open(row.item) /\ Current(dwCur, row)
         THEN /\ PutRow(dwCur, Sent(row))
              /\ dwSent' = dwSent \cup {dwCur}
              /\ DwNextRow("send")
         ELSE /\ IF dwAdded
                 THEN dwPc' = "undo" /\ UNCHANGED <<dwView, dwCur, dwAdded>>
                 ELSE DwNextRow("send")
              /\ UNCHANGED <<downloads, dwSent>>
  /\ UNCHANGED <<mediaItems, mediaFiles, libraryFiles, torrents>>

\* Mutant: the unclaimed torrent is left in the client.
DwUndoNothing ==
  /\ dwPc = "undo"
  /\ DwNextRow("send")
  /\ UNCHANGED <<storeVars, dwSent>>

DwUndo ==
  /\ dwPc = "undo"
  /\ DeleteTorrents({DwTorrent})
  /\ DwNextRow("send")
  /\ UNCHANGED <<downloads, mediaItems, mediaFiles, libraryFiles, dwSent>>

-----------------------------------------------------------------------------
(* pollActive                                                              *)

DwListDownloading ==
  /\ dwPc = "send"
  /\ DwHeld = {}
  /\ dwView' = Snapshots({d \in ListDownloads("downloading") \ dwSent :
                            downloads[d].hash # None})
  /\ dwPc' = "poll"
  /\ dwSent' = {}
  /\ UNCHANGED <<storeVars, dwCur, dwAdded>>

\* Mutant: a missing torrent is taken for a finished one.
MissingCompleted(row) == [row EXCEPT !.status = "completed"]

\* handleMissingTorrent
Missing(row) ==
  IF row.linked THEN [row EXCEPT !.status = "completed"]
  ELSE [row EXCEPT !.status = "failed", !.hash = None, !.backoff = FALSE]

HandleMissingTorrent(d, row) ==
  IF row.status \in {"downloading", "seeding"}
  THEN UpdateDownload(d, Missing(row)) ELSE UNCHANGED downloads

\* updateFromTorrent
UpdateFromTorrent(d, row) ==
  CASE torrents[row.hash] = "complete" ->
         UpdateDownload(d, [row EXCEPT !.status = "downloaded"])
    [] torrents[row.hash] = "error" ->
         UpdateDownload(d, [row EXCEPT !.status = "failed", !.backoff = FALSE])
    [] OTHER -> UNCHANGED downloads

DwPoll(d) ==
  /\ dwPc = "poll"
  /\ d \in DwHeld
  /\ LET row == dwView[d]
     IN  \/ IF torrents[row.hash] = "absent" THEN HandleMissingTorrent(d, row)
            ELSE UpdateFromTorrent(d, row)
         \/ "poll" \in Faults /\ UNCHANGED downloads
  /\ DwDrop(d)
  /\ UNCHANGED <<mediaItems, mediaFiles, libraryFiles, torrents, dwPc, dwCur, dwAdded, dwSent>>

DwTickEnds ==
  /\ dwPc = "poll"
  /\ DwHeld = {}
  /\ dwPc' = "idle"
  /\ UNCHANGED <<storeVars, dwView, dwCur, dwAdded, dwSent>>

DwNext ==
  \/ DwListPending \/ DwFetchFails \/ DwAddTorrent \/ DwReuseTorrent
  \/ DwAddFails \/ DwClaim \/ DwUndo \/ DwListDownloading \/ DwTickEnds
  \/ \E d \in Downloads : DwCheckItem(d) \/ DwPoll(d)

-----------------------------------------------------------------------------
(* The requests, each one transaction.                                     *)

Create(d, i, u, ep) ==
  /\ Open(i)
  /\ ~HasActiveDownloadByURL(i, u)
  /\ CreateDownload(d, i, u, ep)
  /\ UNCHANGED <<mediaItems, mediaFiles, libraryFiles, torrents>>

WithStatus(row, status) ==
  IF status = "pending"
  THEN [row EXCEPT !.status = status, !.retryCount = 0, !.backoff = FALSE]
  ELSE [row EXCEPT !.status = status]

UpdateStatus(d, status) ==
  /\ Exists(d)
  /\ Open(downloads[d].item)
  /\ WithStatus(downloads[d], status) # downloads[d]
  /\ PutRow(d, WithStatus(downloads[d], status))
  /\ UNCHANGED <<mediaItems, mediaFiles, libraryFiles, torrents>>

-----------------------------------------------------------------------------
(* Startup: Reconcile runs before any worker and before the HTTP server.    *)

\* Mutant: recoverStuckImporting is left out.
NotRecovered(row) == row

Recovered(row) == IF row.status = "importing" THEN [row EXCEPT !.status = "downloaded"]
                  ELSE row

Reconciled(row, reachable) ==
  IF /\ reachable
     /\ row.status \in {"downloading", "seeding"}
     /\ row.hash # None
     /\ torrents[row.hash] = "absent"
  THEN Missing(row) ELSE row

Reconcile(reachable) ==
  downloads' = [d \in Downloads |->
    LET next == Reconciled(Recovered(downloads[d]), reachable)
    IN  IF next = downloads[d] THEN next ELSE Written(next)]
=============================================================================
