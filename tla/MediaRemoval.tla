---------------------------- MODULE MediaRemoval ----------------------------
(***************************************************************************)
(* media.Service: the requests that remove one download or a whole media   *)
(* item.  Both commit the cancellation first, then do their qBittorrent    *)
(* and file-system work outside any transaction, then remove the rows.     *)
(* Every request is a process of its own: several may run at once, beside  *)
(* the workers.                                                            *)
(***************************************************************************)
EXTENDS DownloadStore

CONSTANT Requests     \* removal requests of this instance, each made once

VARIABLES
  rqPc,      \* where each request stands
  rqView,    \* the cancelled row of a download removal, as the request knows it
  rqTarget,  \* the download or the item to remove
  rqDelete,  \* deleteFiles
  rqHashes,  \* torrents to remove
  rqPaths    \* library files to remove, later the removed ones

rqVars == <<rqPc, rqView, rqTarget, rqDelete, rqHashes, rqPaths>>

RqDownloadPcs == {"dTorrent", "dFiles", "dRecord"}
RqItemPcs == {"iList", "iTorrents", "iFiles", "iRecord"}

RqTypeOK ==
  /\ rqPc \in [Requests -> {"idle", "done"} \cup RqDownloadPcs \cup RqItemPcs]
  /\ rqView \in [Requests -> Row]
  /\ rqTarget \in [Requests -> Downloads \cup Items \cup {None}]
  /\ \A r \in Requests :
       /\ rqPc[r] \in RqDownloadPcs => rqTarget[r] \in Downloads
       /\ rqPc[r] \in RqItemPcs => rqTarget[r] \in Items
  /\ rqDelete \in [Requests -> BOOLEAN]
  /\ rqHashes \in [Requests -> SUBSET Hashes]
  /\ rqPaths \in [Requests -> SUBSET Path]

RqInit ==
  /\ rqPc = [r \in Requests |-> "idle"]
  /\ rqView = [r \in Requests |-> NoRow]
  /\ rqTarget = [r \in Requests |-> None]
  /\ rqDelete = [r \in Requests |-> FALSE]
  /\ rqHashes = [r \in Requests |-> {}]
  /\ rqPaths = [r \in Requests |-> {}]

RqGoto(r, pc) == rqPc' = [rqPc EXCEPT ![r] = pc]

\* The request returns; its memory is gone.
RqReturn(r) ==
  /\ RqGoto(r, "done")
  /\ rqView' = [rqView EXCEPT ![r] = NoRow]
  /\ rqTarget' = [rqTarget EXCEPT ![r] = None]
  /\ rqDelete' = [rqDelete EXCEPT ![r] = FALSE]
  /\ rqHashes' = [rqHashes EXCEPT ![r] = {}]
  /\ rqPaths' = [rqPaths EXCEPT ![r] = {}]

HashesOf(S) == {downloads[d].hash : d \in S} \ {None}

-----------------------------------------------------------------------------
(* DeleteDownload                                                          *)

Cancelled(row) ==
  IF row.status = "cancelled" THEN row ELSE Written([row EXCEPT !.status = "cancelled"])

\* Mutant: the request goes on with the row as it read it.
RqCancelStaleView(r, d) ==
  /\ rqPc[r] = "idle"
  /\ Exists(d)
  /\ downloads' = [downloads EXCEPT ![d] = Cancelled(@)]
  /\ rqView' = [rqView EXCEPT ![r] = [downloads[d] EXCEPT !.status = "cancelled"]]
  /\ rqTarget' = [rqTarget EXCEPT ![r] = d]
  /\ rqHashes' = [rqHashes EXCEPT ![r] = HashesOf({d})]
  /\ \E deleteFiles \in BOOLEAN : rqDelete' = [rqDelete EXCEPT ![r] = deleteFiles]
  /\ RqGoto(r, "dTorrent")
  /\ UNCHANGED <<mediaItems, mediaFiles, libraryFiles, torrents, rqPaths>>

RqCancel(r, d) ==
  /\ rqPc[r] = "idle"
  /\ Exists(d)
  /\ downloads' = [downloads EXCEPT ![d] = Cancelled(@)]
  /\ rqView' = [rqView EXCEPT ![r] = Cancelled(downloads[d])]
  /\ rqTarget' = [rqTarget EXCEPT ![r] = d]
  /\ rqHashes' = [rqHashes EXCEPT ![r] = HashesOf({d})]
  /\ \E deleteFiles \in BOOLEAN : rqDelete' = [rqDelete EXCEPT ![r] = deleteFiles]
  /\ RqGoto(r, "dTorrent")
  /\ UNCHANGED <<mediaItems, mediaFiles, libraryFiles, torrents, rqPaths>>

RqDownloadTorrent(r) ==
  /\ rqPc[r] = "dTorrent"
  /\ DeleteTorrents(rqHashes[r])
  /\ RqGoto(r, "dFiles")
  /\ UNCHANGED <<downloads, mediaItems, mediaFiles, libraryFiles,
                 rqView, rqTarget, rqDelete, rqHashes, rqPaths>>

\* Mutant: the records of files that could not be removed go, too.
RqDownloadFilesAllRecords(r) ==
  /\ rqPc[r] = "dFiles"
  /\ LET row == rqView[r]
         found == IF rqDelete[r] /\ row.linked /\ mediaItems[row.item].present
                  THEN ReleaseFiles(mediaFiles, row.item, row.url) ELSE {}
     IN  \E failed \in IF "unlink" \in Faults THEN SUBSET found ELSE {{}} :
           /\ libraryFiles' = libraryFiles \ (found \ failed)
           /\ rqPaths' = [rqPaths EXCEPT ![r] = found]
  /\ RqGoto(r, "dRecord")
  /\ UNCHANGED <<downloads, mediaItems, mediaFiles, torrents,
                 rqView, rqTarget, rqDelete, rqHashes>>

\* CleanupImportedFiles: the recorded files in the release's folder.  A file that
\* cannot be removed is not among the ones whose records may go.
RqDownloadFiles(r) ==
  /\ rqPc[r] = "dFiles"
  /\ LET row == rqView[r]
         found == IF rqDelete[r] /\ row.linked /\ mediaItems[row.item].present
                  THEN ReleaseFiles(mediaFiles, row.item, row.url) ELSE {}
     IN  \E failed \in IF "unlink" \in Faults THEN SUBSET found ELSE {{}} :
           /\ libraryFiles' = libraryFiles \ (found \ failed)
           /\ rqPaths' = [rqPaths EXCEPT ![r] = found \ failed]
  /\ RqGoto(r, "dRecord")
  /\ UNCHANGED <<downloads, mediaItems, mediaFiles, torrents,
                 rqView, rqTarget, rqDelete, rqHashes>>

\* sameDownloadDeletionPreimage: nobody wrote the row since it was cancelled.
Preimage(r) ==
  LET d == rqTarget[r]
  IN  /\ Current(d, rqView[r])
      /\ downloads[d].status = rqView[r].status
      /\ downloads[d].retryCount = rqView[r].retryCount

\* The second transaction removes the records, or nothing; the status of the
\* item is recalculated if library files were to go.
RqDownloadRecord(r) ==
  /\ rqPc[r] = "dRecord"
  /\ LET d == rqTarget[r]
         i == rqView[r].item
     IN  IF Preimage(r) /\ mediaItems[i].present
         THEN /\ downloads' = [downloads EXCEPT ![d] = Deleted(@)]
              /\ mediaFiles' = mediaFiles \ rqPaths[r]
              /\ IF rqDelete[r] /\ rqView[r].linked
                 THEN RecalcMediaItemStatus(i, mediaFiles \ rqPaths[r])
                 ELSE UNCHANGED mediaItems
         ELSE UNCHANGED <<downloads, mediaFiles, mediaItems>>
  /\ RqReturn(r)
  /\ UNCHANGED <<libraryFiles, torrents>>

-----------------------------------------------------------------------------
(* DeleteMediaItem                                                         *)

\* Mutant: finished downloads are not cancelled.
CancelUnfinished(i) ==
  [d \in Downloads |-> IF d \in RowsOf(i) /\ downloads[d].status # "completed"
                       THEN Written([downloads[d] EXCEPT !.status = "cancelled"])
                       ELSE downloads[d]]

CancelAll(i) ==
  [d \in Downloads |-> IF d \in RowsOf(i)
                       THEN Written([downloads[d] EXCEPT !.status = "cancelled"])
                       ELSE downloads[d]]

\* The first request claims the item and cancels its rows; a later one finds it
\* claimed and only reads the rows.
RqPrepare(r, i) ==
  /\ rqPc[r] = "idle"
  /\ mediaItems[i].present
  /\ IF mediaItems[i].deletionPending
     THEN UNCHANGED <<mediaItems, downloads>>
     ELSE /\ mediaItems' = [mediaItems EXCEPT ![i].deletionPending = TRUE,
                                              ![i].monitored = FALSE,
                                              ![i].ver = @ + 1]
          /\ downloads' = CancelAll(i)
  /\ rqTarget' = [rqTarget EXCEPT ![r] = i]
  /\ rqHashes' = [rqHashes EXCEPT ![r] = HashesOf(RowsOf(i))]
  /\ RqGoto(r, "iList")
  /\ UNCHANGED <<mediaFiles, libraryFiles, torrents, rqView, rqDelete, rqPaths>>

\* The recorded files are listed before the torrents are removed.
RqListFiles(r) ==
  /\ rqPc[r] = "iList"
  /\ rqPaths' = [rqPaths EXCEPT ![r] = ItemFiles(mediaFiles, rqTarget[r])]
  /\ RqGoto(r, "iTorrents")
  /\ UNCHANGED <<storeVars, rqView, rqTarget, rqDelete, rqHashes>>

RqItemTorrents(r) ==
  /\ rqPc[r] = "iTorrents"
  /\ DeleteTorrents(rqHashes[r])
  /\ RqGoto(r, "iFiles")
  /\ UNCHANGED <<downloads, mediaItems, mediaFiles, libraryFiles,
                 rqView, rqTarget, rqDelete, rqHashes, rqPaths>>

RqItemFiles(r) ==
  /\ rqPc[r] = "iFiles"
  /\ \E failed \in IF "unlink" \in Faults THEN SUBSET rqPaths[r] ELSE {{}} :
       libraryFiles' = libraryFiles \ (rqPaths[r] \ failed)
  /\ RqGoto(r, "iRecord")
  /\ UNCHANGED <<downloads, mediaItems, mediaFiles, torrents,
                 rqView, rqTarget, rqDelete, rqHashes, rqPaths>>

\* store.DeleteMediaItem cascades to the item's downloads and files.
RqItemRecord(r) ==
  /\ rqPc[r] = "iRecord"
  /\ LET i == rqTarget[r]
     IN  IF mediaItems[i].present
         THEN /\ mediaItems' = [mediaItems EXCEPT ![i].present = FALSE]
              /\ downloads' = [d \in Downloads |-> IF d \in RowsOf(i)
                                 THEN Deleted(downloads[d]) ELSE downloads[d]]
              /\ mediaFiles' = mediaFiles \ ItemFiles(mediaFiles, i)
         ELSE UNCHANGED <<mediaItems, downloads, mediaFiles>>
  /\ RqReturn(r)
  /\ UNCHANGED <<libraryFiles, torrents>>

RqAccept(r) ==
  \/ \E d \in Downloads : RqCancel(r, d)
  \/ \E i \in Items : RqPrepare(r, i)

RqProceed(r) ==
  \/ RqDownloadTorrent(r) \/ RqDownloadFiles(r) \/ RqDownloadRecord(r)
  \/ RqListFiles(r) \/ RqItemTorrents(r) \/ RqItemFiles(r) \/ RqItemRecord(r)

RqNext == \E r \in Requests : RqAccept(r) \/ RqProceed(r)
=============================================================================
