------------------------------ MODULE Subtitles -----------------------------
(***************************************************************************)
(* subtitle.Service: subtitle files of one video in one language, and the  *)
(* rows that record them.  Requests, the subscriber that downloads         *)
(* subtitles after an import, and removals of the release or of the item   *)
(* work on the same folder without a lock; only the database writes are    *)
(* atomic.  A file is known by the number of the write that made it, which *)
(* also is the id of the row that records it.                              *)
(***************************************************************************)
EXTENDS Naturals, FiniteSets

CONSTANTS
  SbCalls,        \* concurrent requests of this instance
  MaxFiles,       \* subtitle files an instance writes
  SbMaxCrashes,   \* restarts
  SbFaults        \* "provider", "write", "stage", "remove": the step may fail

ASSUME SubtitlesAssumption ==
  /\ MaxFiles \in Nat /\ SbMaxCrashes \in Nat
  /\ SbFaults \subseteq {"provider", "write", "stage", "remove"}

VARIABLES
  sbRows,         \* the table subtitles: [id, path, video]
  sbDisk,         \* the file at each path of the release's folder, 0 for none
  sbWritten,      \* files written so far
  sbVideo,        \* the video: "none", "imported", or "removed" for good
  sbItem,         \* the media item: "open", "pending" deletion, "gone"
  sbActor,        \* the user who sends the requests still exists
  sbCall,         \* what each request is doing
  sbRemoval,      \* the removal of the release or the item: [op, pc, rows]
  sbCrashes,      \* restarts so far
  sbExcused       \* files and rows the code gives up on; see the properties

sbVars == <<sbRows, sbDisk, sbWritten, sbVideo, sbItem, sbActor, sbCall, sbRemoval,
            sbCrashes, sbExcused>>

\* Names are the video's, numbered; the last one is the name used without a video.
Fallback == MaxFiles + 1
Paths == 0..Fallback
FileIds == 1..MaxFiles
SbRow == [id : FileIds, path : Paths, video : BOOLEAN]

\* file: what the request wrote, or holds as a backup; row: what it deletes.
SbIdle == [pc |-> "idle", path |-> 0, file |-> 0, row |-> 0, video |-> FALSE,
           auto |-> FALSE]
SbPcs == {"idle", "fetch", "place", "write", "record", "compensate", "unlink",
          "stage", "drop", "restore"}
NoRemoval == [op |-> "none", pc |-> "none", rows |-> {}]

SbTypeOK ==
  /\ sbRows \in SUBSET SbRow
  /\ sbDisk \in [Paths -> 0..MaxFiles]
  /\ sbWritten \in 0..MaxFiles
  /\ sbVideo \in {"none", "imported", "removed"}
  /\ sbItem \in {"open", "pending", "gone"} /\ sbActor \in BOOLEAN
  /\ sbCall \in [SbCalls -> [pc : SbPcs, path : Paths, file : 0..MaxFiles,
                            row : 0..MaxFiles, video : BOOLEAN, auto : BOOLEAN]]
  /\ sbRemoval \in [op : {"none", "release", "item"},
                    pc : {"none", "files", "prune", "records"}, rows : SUBSET FileIds]
  /\ sbCrashes \in 0..SbMaxCrashes /\ sbExcused \subseteq FileIds

SbInit ==
  /\ sbRows = {}
  /\ sbDisk = [p \in Paths |-> 0]
  /\ sbWritten = 0
  /\ sbVideo = "none" /\ sbItem = "open" /\ sbActor = TRUE
  /\ sbCall = [c \in SbCalls |-> SbIdle]
  /\ sbRemoval = NoRemoval
  /\ sbCrashes = 0 /\ sbExcused = {}

SbAt(c, pc) == sbCall[c].pc = pc
SbGoes(c, pc) == sbCall' = [sbCall EXCEPT ![c].pc = pc]
SbReturns(c) == sbCall' = [sbCall EXCEPT ![c] = SbIdle]
ValidateSubtitleActor(auto) == auto \/ sbActor
Names(p) == {r \in sbRows : r.path = p}
RowOf(id) == {r \in sbRows : r.id = id}
InHand == (UNION {{sbCall[c].file, sbCall[c].row} : c \in SbCalls}) \ {0}
OthersIdle == UNCHANGED <<sbItem, sbActor, sbVideo, sbRemoval, sbCrashes>>

-----------------------------------------------------------------------------
(* Download                                                                *)

\* The request's first transaction.
SbDownload(c) ==
  /\ SbAt(c, "idle")
  /\ sbItem = "open" /\ ValidateSubtitleActor(FALSE)
  /\ sbCall' = [sbCall EXCEPT ![c].pc = "fetch", ![c].auto = FALSE]
  /\ OthersIdle /\ UNCHANGED <<sbRows, sbDisk, sbWritten, sbExcused>>

\* HandleImportCompleted, the subscriber, handles one import at a time: it has searched,
\* and takes the best result of each language.
SbAutoDownload(c) ==
  /\ SbAt(c, "idle")
  /\ sbItem = "open" /\ sbVideo = "imported"
  /\ \A q \in SbCalls : ~sbCall[q].auto
  /\ sbCall' = [sbCall EXCEPT ![c].pc = "fetch", ![c].auto = TRUE]
  /\ OthersIdle /\ UNCHANGED <<sbRows, sbDisk, sbWritten, sbExcused>>

SbFetch(c) ==
  /\ SbAt(c, "fetch")
  /\ \/ SbGoes(c, "place")
     \/ "provider" \in SbFaults /\ SbReturns(c)
  /\ OthersIdle /\ UNCHANGED <<sbRows, sbDisk, sbWritten, sbExcused>>

CountExistingSubtitles == Cardinality({r \in sbRows : r.video})

\* determineSavePath: the name depends on how many subtitles the video has.
SbPlace(c) ==
  /\ SbAt(c, "place")
  /\ IF sbItem = "gone"
     THEN SbReturns(c)
     ELSE sbCall' = [sbCall EXCEPT ![c].pc = "write", ![c].video = sbVideo = "imported",
            ![c].path = IF sbVideo = "imported" THEN CountExistingSubtitles ELSE Fallback]
  /\ OthersIdle /\ UNCHANGED <<sbRows, sbDisk, sbWritten, sbExcused>>

\* writeSubtitleFile creates the file, or refuses a name that is taken.
SbWrite(c) ==
  /\ SbAt(c, "write")
  /\ \/ /\ sbDisk[sbCall[c].path] = 0
        /\ sbWritten < MaxFiles
        /\ sbWritten' = sbWritten + 1
        /\ sbDisk' = [sbDisk EXCEPT ![sbCall[c].path] = sbWritten']
        /\ sbCall' = [sbCall EXCEPT ![c].pc = "record", ![c].file = sbWritten']
     \/ /\ sbDisk[sbCall[c].path] # 0 \/ "write" \in SbFaults
        /\ SbReturns(c)
        /\ UNCHANGED <<sbDisk, sbWritten>>
  /\ OthersIdle /\ UNCHANGED <<sbRows, sbExcused>>

\* The second transaction: the user and the item are looked up again, file_path is unique.
SbRecord(c) ==
  LET q == sbCall[c] IN
  /\ SbAt(c, "record")
  /\ IF sbItem = "open" /\ ValidateSubtitleActor(q.auto) /\ Names(q.path) = {}
     THEN /\ sbRows' = sbRows \cup {[id |-> q.file, path |-> q.path, video |-> q.video]}
          /\ SbReturns(c)
     ELSE SbGoes(c, "compensate") /\ UNCHANGED sbRows
  /\ OthersIdle /\ UNCHANGED <<sbDisk, sbWritten, sbExcused>>

\* Mutant: the file is left to itself.
SbLeave(c) ==
  /\ SbAt(c, "compensate")
  /\ SbReturns(c)
  /\ OthersIdle /\ UNCHANGED <<sbRows, sbDisk, sbWritten, sbExcused>>

\* compensateSubtitleFile leaves a file that a row names ...
SbCompensate(c) ==
  /\ SbAt(c, "compensate")
  /\ IF Names(sbCall[c].path) # {}
     THEN SbReturns(c) /\ sbExcused' = sbExcused \cup {sbCall[c].file}
     ELSE SbGoes(c, "unlink") /\ UNCHANGED sbExcused
  /\ OthersIdle /\ UNCHANGED <<sbRows, sbDisk, sbWritten>>

\* ... and one that is not the file written.
SbUnlink(c) ==
  LET q == sbCall[c] IN
  /\ SbAt(c, "unlink")
  /\ sbDisk' = [sbDisk EXCEPT ![q.path] = IF @ = q.file THEN 0 ELSE @]
  /\ SbReturns(c)
  /\ OthersIdle /\ UNCHANGED <<sbRows, sbWritten, sbExcused>>

-----------------------------------------------------------------------------
(* Delete                                                                  *)

\* The first transaction takes a snapshot of the row; no column of it ever changes.
SbDelete(c, r) ==
  /\ SbAt(c, "idle")
  /\ sbItem # "gone" /\ sbActor
  /\ sbCall' = [sbCall EXCEPT ![c] = [SbIdle EXCEPT !.pc = "stage", !.path = r.path,
                                                    !.row = r.id]]
  /\ OthersIdle /\ UNCHANGED <<sbRows, sbDisk, sbWritten, sbExcused>>

\* stageSubtitleFileRemoval renames the file into a folder of its own, finds none, or
\* fails; the deletion goes on in each case.
SbStage(c) ==
  LET p == sbCall[c].path IN
  /\ SbAt(c, "stage")
  /\ \/ /\ sbDisk[p] # 0
        /\ sbDisk' = [sbDisk EXCEPT ![p] = 0]
        /\ sbCall' = [sbCall EXCEPT ![c].pc = "drop", ![c].file = sbDisk[p]]
        /\ sbExcused' = sbExcused \cup ({sbDisk[p]} \ {sbCall[c].row})
     \/ /\ sbDisk[p] = 0
        /\ SbGoes(c, "drop") /\ UNCHANGED <<sbDisk, sbExcused>>
     \/ /\ sbDisk[p] # 0 /\ "stage" \in SbFaults
        /\ SbGoes(c, "drop") /\ UNCHANGED sbDisk
        /\ sbExcused' = sbExcused \cup {sbDisk[p]}
  /\ OthersIdle /\ UNCHANGED <<sbRows, sbWritten>>

\* The second transaction, then discardBackup; or the file is put back.
SbDrop(c) ==
  LET q == sbCall[c] IN
  /\ SbAt(c, "drop")
  /\ IF sbItem # "gone" /\ sbActor /\ RowOf(q.row) # {}
     THEN sbRows' = sbRows \ RowOf(q.row) /\ SbReturns(c)
     ELSE SbGoes(c, "restore") /\ UNCHANGED sbRows
  /\ OthersIdle /\ UNCHANGED <<sbDisk, sbWritten, sbExcused>>

\* Mutant: a failed deletion drops the backup all the same.
SbRestoreNothing(c) ==
  /\ SbAt(c, "restore")
  /\ SbReturns(c)
  /\ OthersIdle /\ UNCHANGED <<sbRows, sbDisk, sbWritten, sbExcused>>

\* restore links the backup back; when the name is taken, it gives the backup up.  When
\* another deletion has dropped the row meanwhile, the file is back without a row.
SbRestore(c) ==
  LET q == sbCall[c] IN
  /\ SbAt(c, "restore")
  /\ sbDisk' = [sbDisk EXCEPT ![q.path] = IF @ = 0 THEN q.file ELSE @]
  /\ sbExcused' = sbExcused \cup
       (IF RowOf(q.row) = {} \/ sbDisk[q.path] # 0 THEN {q.file} \ {0} ELSE {})
  /\ SbReturns(c)
  /\ OthersIdle /\ UNCHANGED <<sbRows, sbWritten>>

-----------------------------------------------------------------------------
(* Everybody else                                                          *)

\* The importer links and records the video, and announces it.
SbImport ==
  /\ sbVideo = "none" /\ sbItem = "open"
  /\ sbVideo' = "imported"
  /\ UNCHANGED <<sbRows, sbDisk, sbWritten, sbItem, sbActor, sbCall, sbRemoval, sbCrashes,
                 sbExcused>>

\* A user is deleted who has requests under way.
SbActorGoes ==
  /\ sbActor /\ sbActor' = FALSE
  /\ UNCHANGED <<sbRows, sbDisk, sbWritten, sbVideo, sbItem, sbCall, sbRemoval, sbCrashes,
                 sbExcused>>

\* DeleteDownload with files: CleanupImportedFiles lists the rows under the release's folder.
SbRemoveRelease ==
  /\ sbVideo = "imported" /\ sbItem = "open" /\ sbRemoval = NoRemoval
  /\ sbRemoval' = [op |-> "release", pc |-> "files", rows |-> {r.id : r \in sbRows}]
  /\ UNCHANGED <<sbRows, sbDisk, sbWritten, sbVideo, sbItem, sbActor, sbCall, sbCrashes,
                 sbExcused>>

\* DeleteMediaItem commits its tombstone, and lists the videos only.
SbRemoveItem ==
  /\ sbItem = "open" /\ sbRemoval = NoRemoval
  /\ sbItem' = "pending"
  /\ sbRemoval' = [op |-> "item", pc |-> "files", rows |-> {}]
  /\ UNCHANGED <<sbRows, sbDisk, sbWritten, sbVideo, sbActor, sbCall, sbCrashes, sbExcused>>

\* The tracked files go one by one.  What cannot be removed keeps its record, and the folder.
SbRemoveFiles ==
  /\ sbRemoval.pc = "files"
  /\ \E kept \in SUBSET sbRemoval.rows, failed \in BOOLEAN :
       /\ kept # {} => failed
       /\ failed => "remove" \in SbFaults
       /\ sbDisk' = [p \in Paths |->
                       IF \E r \in Names(p) : r.id \in sbRemoval.rows \ kept
                       THEN 0 ELSE sbDisk[p]]
       /\ sbExcused' = sbExcused \cup (InHand \cap {sbDisk[p] : p \in Paths})
       /\ sbRemoval' = [sbRemoval EXCEPT !.rows = @ \ kept,
                          !.pc = IF failed THEN "records" ELSE "prune"]
  /\ UNCHANGED <<sbRows, sbWritten, sbVideo, sbItem, sbActor, sbCall, sbCrashes>>

\* Only companions are left: the folder goes as a whole, with the subtitles that were
\* written, or recorded, since.
SbPrune ==
  /\ sbRemoval.pc = "prune"
  /\ sbDisk' = IF sbVideo = "imported" THEN [p \in Paths |-> 0] ELSE sbDisk
  /\ sbExcused' = sbExcused \cup {r.id : r \in sbRows} \cup InHand
  /\ sbRemoval' = [sbRemoval EXCEPT !.pc = "records"]
  /\ UNCHANGED <<sbRows, sbWritten, sbVideo, sbItem, sbActor, sbCall, sbCrashes>>

\* The records go: those cleaned, whatever has come back to their paths, or the item's.
\* Its subtitles are not among these.
SbRemoveRecords ==
  /\ sbRemoval.pc = "records"
  /\ IF sbRemoval.op = "release"
     THEN /\ sbRows' = {r \in sbRows : r.id \notin sbRemoval.rows}
          /\ sbExcused' = sbExcused \cup ({sbDisk[r.path] : r \in sbRows \ sbRows'} \ {0})
          /\ sbRemoval' = NoRemoval
          /\ UNCHANGED sbItem
     ELSE /\ sbItem' = "gone"
          /\ sbRemoval' = [sbRemoval EXCEPT !.pc = "none"]
          /\ sbExcused' = sbExcused \cup {r.id : r \in sbRows}
          /\ UNCHANGED sbRows
  /\ sbVideo' = IF sbVideo = "imported" THEN "removed" ELSE sbVideo
  /\ UNCHANGED <<sbDisk, sbWritten, sbActor, sbCall, sbCrashes>>

\* What the process has in hand stays as it is; cleanupOrphans drops the rows of an item
\* that is gone.
SbRestart ==
  /\ sbCrashes < SbMaxCrashes
  /\ sbCrashes' = sbCrashes + 1
  /\ sbCall' = [c \in SbCalls |-> SbIdle]
  /\ sbExcused' = sbExcused \cup InHand \cup
       (IF sbRemoval.pc # "none" THEN {r.id : r \in sbRows} ELSE {})
  /\ sbRemoval' = IF sbRemoval.op = "item" THEN [sbRemoval EXCEPT !.pc = "none"] ELSE NoRemoval
  /\ sbRows' = IF sbItem = "gone" THEN {} ELSE sbRows
  /\ UNCHANGED <<sbDisk, sbWritten, sbVideo, sbItem, sbActor>>

SbNext ==
  \/ \E c \in SbCalls :
       \/ SbDownload(c) \/ SbAutoDownload(c)
       \/ SbFetch(c) \/ SbPlace(c) \/ SbWrite(c) \/ SbRecord(c)
       \/ SbCompensate(c) \/ SbUnlink(c)
       \/ \E r \in sbRows : SbDelete(c, r)
       \/ SbStage(c) \/ SbDrop(c) \/ SbRestore(c)
  \/ SbImport \/ SbActorGoes \/ SbRemoveRelease \/ SbRemoveItem
  \/ SbRemoveFiles \/ SbPrune \/ SbRemoveRecords \/ SbRestart

-----------------------------------------------------------------------------
(* Properties                                                              *)

Holding(r) == {c \in SbCalls : sbCall[c].path = r.path /\ sbCall[c].file = r.id
                              /\ sbCall[c].pc \in {"drop", "restore"}}

\* A subtitle that is listed has its file, the one that was written for its row, unless a
\* deletion of the row holds the file in its hands, or a crash or a removal of the release came
\* between, or it was taken for another row's, or its name was taken when it was to be put back
\* (Download, Delete, restore, CleanupImportedFiles).
RecordedSubtitleHasFile ==
  \A r \in sbRows :
    \/ sbDisk[r.path] = r.id
    \/ Holding(r) # {}
    \/ r.id \in sbRemoval.rows \cup sbExcused

\* No subtitle file is left without a row, neither by a download that lost its user, its
\* item or its name, nor by the deletion of an item: such a file is in the hands of the
\* request that wrote it.  The code gives up on some files: what a crash
\* interrupts, what cannot be moved or removed, what has taken the name of another row, what
\* a second deletion of the same row puts back, or any while the release is being removed.
NoStraySubtitle ==
  \A p \in Paths :
    \/ sbDisk[p] \in {0} \cup sbExcused
    \/ Names(p) # {}
    \/ \E c \in SbCalls : sbCall[c].file = sbDisk[p]

\* The table of subtitles and the files beside the videos say the same, both ways, but for
\* what the two parts except.
SubtitlesMatchRecords == RecordedSubtitleHasFile /\ NoStraySubtitle
=============================================================================
