------------------------------ MODULE Importer ------------------------------
(***************************************************************************)
(* importer.Service: the worker that claims downloaded rows, links their   *)
(* video files into the library, records them, finalises the row, and      *)
(* removes a torrent once its row is completed.  It runs beside the        *)
(* download worker, the requests and the metadata refresh; every write of  *)
(* a row is a compare-and-swap on the snapshot it listed or last wrote.    *)
(***************************************************************************)
EXTENDS DownloadStore

CONSTANT MaxImportRetries    \* transient import failures before giving up

ASSUME ImporterAssumption == MaxImportRetries \in Nat

VARIABLES
  imPc,      \* where the importer's tick stands
  imView,    \* its snapshot of each row it still has to handle
  imCur,     \* the row being imported or completed
  imKnown,   \* recorded paths of the item, as read before linking (importedPaths)
  imTodo,    \* videos of the torrent still to link
  imDst,     \* the path just linked and not yet recorded
  imCount    \* videos imported so far

imVars == <<imPc, imView, imCur, imKnown, imTodo, imDst, imCount>>

ImBusy == {"load", "link", "record", "remove", "finalize", "seedremove"}

ImTypeOK ==
  /\ imPc \in {"idle", "import", "seeding"} \cup ImBusy
  /\ imView \in [Downloads -> Row]
  /\ imCur \in Downloads \cup {None}
  /\ imPc \in ImBusy => imCur \in Downloads
  /\ imKnown \subseteq Path
  /\ imTodo \subseteq Videos
  /\ imDst \subseteq Path
  /\ imCount \in Nat

ImInit ==
  /\ imPc = "idle"
  /\ imView = Snapshots({})
  /\ imCur = None
  /\ imKnown = {} /\ imTodo = {} /\ imDst = {}
  /\ imCount = 0

ImHeld == {d \in Downloads : imView[d] # NoRow}
ImDrop(d) == imView' = [imView EXCEPT ![d] = NoRow]

\* importOne or completeDownload returns; the loop goes on with the next row.
ImNextRow(pc) ==
  /\ imPc' = pc
  /\ imCur' = None
  /\ ImDrop(imCur)
  /\ imKnown' = {} /\ imTodo' = {} /\ imDst' = {}
  /\ imCount' = 0

ImScratch == <<imKnown, imTodo, imDst, imCount>>

-----------------------------------------------------------------------------
(* importDownloaded                                                        *)

\* As in the download worker, a tick that finds the client away ends before any
\* row is claimed.  (A tick without rows ends before it asks: its listings are empty.)
ImListDownloaded ==
  /\ imPc = "idle"
  /\ clientUp
  /\ \E S \in Due("downloaded") : imView' = Snapshots(S)
  /\ imPc' = "import"
  /\ UNCHANGED <<storeVars, imCur, ImScratch>>

ImClaim(d) ==
  /\ imPc = "import"
  /\ d \in ImHeld
  /\ LET claimed == [imView[d] EXCEPT !.status = "importing"]
     IN  /\ UpdateDownload(d, claimed)
         /\ IF Current(d, claimed)
            THEN /\ imView' = [imView EXCEPT ![d] = Written(claimed)]
                 /\ imPc' = "load" /\ imCur' = d
            ELSE ImDrop(d) /\ UNCHANGED <<imPc, imCur>>
  /\ UNCHANGED <<mediaItems, mediaFiles, libraryFiles, torrents, ImScratch>>

ImportFailed(row) == [row EXCEPT !.status = "import_failed", !.backoff = FALSE]

\* retryImport: back to downloaded with a backoff, until the retries are used up.
ImportRetried(row) ==
  IF row.retryCount >= MaxImportRetries THEN ImportFailed(row)
  ELSE [row EXCEPT !.status = "downloaded", !.retryCount = @ + 1, !.backoff = TRUE]

ImGivesUp(next) ==
  /\ UpdateDownload(imCur, next)
  /\ ImNextRow("import")
  /\ UNCHANGED <<mediaItems, mediaFiles, libraryFiles, torrents>>

\* The parent is read once, right after the claim: gone means a failed import,
\* being deleted means the claimed row is left to the deletion.
ImParentGone ==
  /\ imPc = "load"
  /\ ~Open(imView[imCur].item)
  /\ IF mediaItems[imView[imCur].item].present
     THEN /\ ImNextRow("import")
          /\ UNCHANGED storeVars
     ELSE ImGivesUp(ImportFailed(imView[imCur]))

ImLoadFails ==
  /\ imPc = "load"
  /\ LET row == imView[imCur]
         noTorrent == row.hash = None
     IN  /\ Open(row.item)
         /\ \/ /\ \/ "import" \in Faults         \* library or episode lookup
                  \/ ~noTorrent /\ torrents[row.hash] = "absent"
               /\ ImGivesUp(ImportRetried(row))
            \/ /\ noTorrent \/ "import" \in Faults   \* no hash, or MkdirAll
               /\ ImGivesUp(ImportFailed(row))

ImLoad ==
  /\ imPc = "load"
  /\ LET row == imView[imCur]
     IN  /\ Open(row.item)
         /\ row.hash # None
         /\ torrents[row.hash] # "absent"
         /\ imKnown' = ItemFiles(mediaFiles, row.item)
         /\ imTodo' = VideosOf[row.hash]
  /\ imPc' = "link"
  /\ UNCHANGED <<storeVars, imView, imCur, imDst, imCount>>

Target(v, n) == <<imView[imCur].item, imView[imCur].url, v, n>>

\* A video whose destination was recorded before is counted, not linked again; one
\* whose path is unsafe, or whose directory cannot be made, is passed over.
ImSkip(v) ==
  /\ imPc = "link"
  /\ v \in imTodo
  /\ \/ Target(v, 1) \in imKnown /\ imCount' = imCount + 1
     \/ "path" \in Faults /\ UNCHANGED imCount
  /\ imTodo' = imTodo \ {v}
  /\ UNCHANGED <<storeVars, imPc, imView, imCur, imKnown, imDst>>

\* hardlinkOrCopy to the first free name.
ImLink(v) ==
  /\ imPc = "link"
  /\ v \in imTodo
  /\ Target(v, 1) \notin imKnown
  /\ torrents[imView[imCur].hash] \in {"downloading", "complete"}
  /\ \E n \in 1..MaxCopies :
       /\ Target(v, n) \notin libraryFiles
       /\ \A m \in 1..(n - 1) : Target(v, m) \in libraryFiles
       /\ libraryFiles' = libraryFiles \cup {Target(v, n)}
       /\ imDst' = {Target(v, n)}
  /\ imTodo' = imTodo \ {v}
  /\ imPc' = "record"
  /\ UNCHANGED <<downloads, mediaItems, mediaFiles, torrents, imView, imCur, imKnown, imCount>>

ImLinkFails ==
  /\ imPc = "link"
  /\ \E v \in imTodo : Target(v, 1) \notin imKnown
  /\ torrents[imView[imCur].hash] \notin {"downloading", "complete"} \/ "link" \in Faults
  /\ ImGivesUp(ImportFailed(imView[imCur]))

\* CreateMediaFile: the parent must exist and the path be unique.
ImRecord ==
  /\ imPc = "record"
  /\ \/ /\ mediaItems[imView[imCur].item].present
        /\ imDst \cap mediaFiles = {}
        /\ mediaFiles' = mediaFiles \cup imDst
        /\ imCount' = imCount + 1
     \/ /\ \/ ~mediaItems[imView[imCur].item].present
           \/ imDst \cap mediaFiles # {}
           \/ "record" \in Faults
        /\ UNCHANGED <<mediaFiles, imCount>>
  /\ imDst' = {}
  /\ imPc' = "link"
  /\ UNCHANGED <<downloads, mediaItems, libraryFiles, torrents, imView, imCur, imKnown, imTodo>>

ImNothingImported ==
  /\ imPc = "link"
  /\ imTodo = {}
  /\ imCount = 0
  /\ ImGivesUp(ImportFailed(imView[imCur]))

\* The finalising write: seeding or completed, whichever the indexer's seeding
\* requirements say.  Only when it is committed may the torrent be removed.
ImFinish ==
  /\ imPc = "link"
  /\ imTodo = {}
  /\ imCount > 0
  /\ \E status \in {"seeding", "completed"} :
       LET next == [imView[imCur] EXCEPT !.status = status, !.linked = TRUE]
       IN  /\ UpdateDownload(imCur, next)
           /\ IF Current(imCur, next)
              THEN /\ imPc' = IF status = "completed" THEN "remove" ELSE "finalize"
                   /\ imView' = [imView EXCEPT ![imCur] = Written(next)]
                   /\ UNCHANGED <<imCur, ImScratch>>
              ELSE ImNextRow("import")
  /\ UNCHANGED <<mediaItems, mediaFiles, libraryFiles, torrents>>

ImRemoveTorrent ==
  /\ imPc = "remove"
  /\ DeleteTorrents({imView[imCur].hash})
  /\ imPc' = "finalize"
  /\ UNCHANGED <<downloads, mediaItems, mediaFiles, libraryFiles, imView, imCur, ImScratch>>

\* ResyncMediaItem: recorded files of an open item become the ones its folder
\* holds; nothing is scanned when no file is recorded, and a folder that cannot
\* be inspected is left as it is.
Resynced(i) ==
  LET found == ItemFiles(libraryFiles, i)
  IN  IF Open(i) /\ ItemFiles(mediaFiles, i) # {}
      THEN {(mediaFiles \ ItemFiles(mediaFiles, i)) \cup found}
             \cup (IF found = {} THEN {mediaFiles} ELSE {})
      ELSE {mediaFiles}

\* Resync, then the status recalculation of the item.
ImFinalize ==
  /\ imPc = "finalize"
  /\ \E files \in Resynced(imView[imCur].item) :
       /\ mediaFiles' = files
       /\ RecalcMediaItemStatus(imView[imCur].item, files)
  /\ ImNextRow("import")
  /\ UNCHANGED <<downloads, libraryFiles, torrents>>

-----------------------------------------------------------------------------
(* cleanupSeeding                                                          *)

ImListSeeding ==
  /\ imPc = "import"
  /\ ImHeld = {}
  /\ imView' = Snapshots({d \in ListDownloads("seeding") : downloads[d].linked})
  /\ imPc' = "seeding"
  /\ UNCHANGED <<storeVars, imCur, ImScratch>>

\* completeDownload: the row is completed first; a torrent the client still has
\* is removed only if that write was committed.
ImCompleteSeeding(d) ==
  /\ imPc = "seeding"
  /\ d \in ImHeld
  /\ LET row  == imView[d]
         next == [row EXCEPT !.status = "completed"]
         kept == row.hash # None /\ torrents[row.hash] # "absent"
     IN  /\ UpdateDownload(d, next)
         /\ IF Current(d, next) /\ kept
            THEN /\ imPc' = "seedremove" /\ imCur' = d
                 /\ imView' = [imView EXCEPT ![d] = Written(next)]
            ELSE ImDrop(d) /\ UNCHANGED <<imPc, imCur>>
  /\ UNCHANGED <<mediaItems, mediaFiles, libraryFiles, torrents, ImScratch>>

\* Seeding requirements not met yet, or the client did not answer.
ImKeepSeeding(d) ==
  /\ imPc = "seeding"
  /\ d \in ImHeld
  /\ imView[d].hash # None
  /\ torrents[imView[d].hash] # "absent" \/ "poll" \in Faults
  /\ ImDrop(d)
  /\ UNCHANGED <<storeVars, imPc, imCur, ImScratch>>

ImSeedRemove ==
  /\ imPc = "seedremove"
  /\ DeleteTorrents({imView[imCur].hash})
  /\ ImNextRow("seeding")
  /\ UNCHANGED <<downloads, mediaItems, mediaFiles, libraryFiles>>

ImTickEnds ==
  /\ imPc = "seeding"
  /\ ImHeld = {}
  /\ imPc' = "idle"
  /\ UNCHANGED <<storeVars, imView, imCur, ImScratch>>

ImNext ==
  \/ ImListDownloaded \/ ImParentGone \/ ImLoadFails \/ ImLoad
  \/ ImLinkFails \/ ImRecord \/ ImNothingImported \/ ImFinish
  \/ ImRemoveTorrent \/ ImFinalize \/ ImListSeeding \/ ImSeedRemove \/ ImTickEnds
  \/ \E d \in Downloads : ImClaim(d) \/ ImCompleteSeeding(d) \/ ImKeepSeeding(d)
  \/ \E v \in Videos : ImSkip(v) \/ ImLink(v)
=============================================================================
