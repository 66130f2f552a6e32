----------------------------- MODULE LibrarySync ----------------------------
(***************************************************************************)
(* sync.Service: the library sync, which the job queue runs one at a time, *)
(* and the resync of one item, for a user or after an import.  Both look   *)
(* at the disk first and change the records later.                         *)
(***************************************************************************)
EXTENDS CatalogueStore

HasVideos(f) == \E p \in caDisk : FolderOf[p] = f

\* SyncLibrary lists the top folders first.  A folder without a video may be there or not.
CaSync(c) ==
  /\ CaAt(c, "idle") /\ Event
  /\ ~Running("sync") /\ ~Running("match")
  /\ \E dirs \in SUBSET Folders :
       /\ {f \in Folders : HasVideos(f)} \subseteq dirs
       /\ caCall' = [caCall EXCEPT ![c] = [CaIdle EXCEPT !.op = "sync", !.pc = "scan",
                       !.todo = dirs, !.absent = {p \in Paths : FolderOf[p] \notin dirs}]]
  /\ UNCHANGED <<caItems, caFiles, caDisk, caListed, caOverlapped>>

ReadsFolder(c, f) ==
  caCall' = [caCall EXCEPT ![c].todo = @ \ {f}, ![c].dirs = @ \cup {f},
               ![c].seen = @ \cup {p \in caDisk : FolderOf[p] = f},
               ![c].absent = @ \cup ({p \in Paths : FolderOf[p] = f} \ caDisk)]

\* Mutant: a folder that cannot be read counts as empty.
CaScanAnyway(c, f) ==
  /\ CaAt(c, "scan") /\ f \in caCall[c].todo
  /\ ReadsFolder(c, f) \/ caCall' = [caCall EXCEPT ![c].todo = @ \ {f}]
  /\ UNCHANGED <<caItems, caFiles, caDisk, caListed, caEvents, caOverlapped>>

\* One folder; what lies in a folder that cannot be read, or is gone by now, is left alone.
CaScan(c, f) ==
  /\ CaAt(c, "scan") /\ f \in caCall[c].todo
  /\ \/ ReadsFolder(c, f)
     \/ /\ "scan" \in CaFaults \/ ~HasVideos(f)
        /\ caCall' = [caCall EXCEPT ![c].todo = @ \ {f}, ![c].failed = @ \cup {f}]
  /\ UNCHANGED <<caItems, caFiles, caDisk, caListed, caEvents, caOverlapped>>

InGroup(p, t) == TitleOf[FolderOf[p]] = t
Lost(c) == {p \in Recorded : p \notin caCall[c].seen /\ FolderOf[p] \notin caCall[c].failed}
\* What the group of title t belongs to: the item of a record in its first folder that has
\* one, of the folders that were there and could be read; 0, a new item, if none has.  (An
\* item whose folder is gone is not found by its title: its files elsewhere get a new one.)
Owners(c, t) ==
  LET known == {f \in caCall[c].dirs : TitleOf[f] = t /\ \E g \in caFiles : FolderOf[g.path] = f}
  IN IF known = {} THEN {0}
     ELSE {g.item : g \in {h \in caFiles : FolderOf[h.path] = Lowest(known)}}
FindOrphanedMediaItems(lost) ==
  {i \in InLibrary : FilesOf(i) \subseteq lost /\ ~IsRequestOrPending(caItems[i])
                     /\ ~caItems[i].mon}

\* The records are read, and compared with what was seen.
CaCompare(c) ==
  LET q == caCall[c]
      found(t) == {p \in q.seen : InGroup(p, t)}
      add(i, own) == UNION {found(t) \ Recorded : t \in {u \in Titles : own[u] = i}}
      remove(i) == FilesOf(i) \cap Lost(c)
  IN
  /\ CaAt(c, "scan") /\ q.todo = {}
  /\ \E own \in [Titles -> 0..MaxItems] :
       /\ \A t \in Titles : own[t] \in Owners(c, t)
       /\ LET changed == {i \in Items : add(i, own) # {} \/ remove(i) # {}}
              known == {[item |-> i, add |-> add(i, own), remove |-> remove(i),
                         empties |-> add(i, own) = {} /\ i \in FindOrphanedMediaItems(Lost(c))]
                        : i \in changed}
              new == {[item |-> 0, add |-> found(t), remove |-> {}, empties |-> FALSE]
                      : t \in {u \in Titles : own[u] = 0 /\ found(u) # {}}}
          IN caCall' = IF known \cup new = {} THEN CaReturns(c)
                       ELSE [CaGoes(c, "apply") EXCEPT ![c].work = known \cup new]
  /\ UNCHANGED <<caItems, caFiles, caDisk, caListed, caEvents, caOverlapped>>

\* Known items in the order of their ids, then the new ones.
InOrder(k, work) == \A j \in work : j.item # 0 => k.item # 0 /\ k.item <= j.item

Records(i, paths) == {[path |-> p, item |-> i] : p \in paths}
\* The row k.item as the transaction reads it; a new item is created first.
Target(k) == IF k.item = 0 THEN Lowest(Unused) ELSE k.item
TargetItem(k) == IF k.item = 0 THEN [NoItem EXCEPT !.state = "open"] ELSE caItems[k.item]
\* Mutant: the item is not looked at again.
EmptiedAsRead(k, files) == k.empties /\ ~\E f \in files : f.item = k.item

Emptied(k, files) ==
  /\ k.empties /\ ~\E f \in files : f.item = k.item
  /\ ~IsRequestOrPending(caItems[k.item]) /\ ~caItems[k.item].mon

AfterCandidate(c, k) ==
  IF caCall[c].work = {k} THEN CaReturns(c) ELSE [caCall EXCEPT ![c].work = @ \ {k}]

\* Mutant: the transaction goes on with nothing to do.
AlwaysSomething(add, remove) == FALSE

NothingLeft(add, remove) == add \cup remove = {}

\* applyLibrarySyncCandidate: the error of one item ends the sync; an item for which there
\* is nothing left to add or to remove is left as it is.
CaApply(c) ==
  /\ CaAt(c, "apply")
  /\ \E k \in caCall[c].work :
       LET i == Target(k)
           add == k.add \ FilesOf(i)
           remove == k.remove \cap (FilesOf(i) \cup add)
           files == (caFiles \cup Records(i, add)) \ Records(i, remove)
           next == AfterCandidate(c, k)
       IN
       /\ InOrder(k, caCall[c].work)
       /\ k.item = 0 => Unused # {}
       /\ IF TargetItem(k).state # "open" \/ add \cap Recorded # {}
          THEN caCall' = CaReturns(c) /\ UNCHANGED <<caItems, caFiles, caOverlapped>>
          ELSE IF NothingLeft(add, remove)
          THEN caCall' = next /\ UNCHANGED <<caItems, caFiles, caOverlapped>>
          ELSE /\ caFiles' = files
               /\ Changes(i)
               /\ IF Emptied(k, files)
                  THEN /\ caItems' = [caItems EXCEPT ![i] = [NoItem EXCEPT !.state = "gone"]]
                       /\ caCall' = Saved(next, i)
                  ELSE /\ caItems' = [caItems EXCEPT ![i] = TargetItem(k)]
                       /\ caCall' = Refiled([caCall EXCEPT ![c].work = @ \ {k},
                                            ![c].item = i, ![c].pc = "recalc"], i)
  /\ UNCHANGED <<caDisk, caListed, caEvents>>

-----------------------------------------------------------------------------
(* ResyncMediaItem, ResyncMediaItemForUser, and their callers              *)

\* captureResyncPreimage, which an import that recorded a file calls later.
Capture(q, i) == [q EXCEPT !.pc = "rescan", !.item = i, !.same = TRUE, !.rows = FilesOf(i)]

CaResync(c, i) ==
  /\ CaAt(c, "idle") /\ Event /\ Open(i)
  /\ caCall' = [caCall EXCEPT ![c] = Capture([CaIdle EXCEPT !.op = "resync"], i)]
  /\ UNCHANGED <<caItems, caFiles, caDisk, caListed, caOverlapped>>

\* An import recalculates the status whatever became of the resync.
GivesUp(c) == IF caCall[c].op = "import" THEN CaGoes(c, "recalc") ELSE CaReturns(c)

CaCapture(c) ==
  /\ CaAt(c, "capture")
  /\ caCall' = IF Open(caCall[c].item)
               THEN [caCall EXCEPT ![c] = Capture(caCall[c], caCall[c].item)]
               ELSE GivesUp(c)
  /\ UNCHANGED <<caItems, caFiles, caDisk, caListed, caEvents, caOverlapped>>

\* scanResyncCandidate: the folders of the files read.  Rows then holds those that are lost.
CaRescan(c) ==
  LET q == caCall[c]
      folders == {FolderOf[p] : p \in q.rows}
      empty == {f \in folders : ~HasVideos(f)}
  IN
  /\ CaAt(c, "rescan")
  /\ \E failed \in SUBSET (IF "scan" \in CaFaults THEN folders ELSE empty) :
       caCall' = [CaGoes(c, "reapply") EXCEPT
         ![c].seen = {p \in caDisk : FolderOf[p] \in folders \ failed},
         ![c].absent = {p \in Paths : FolderOf[p] \in folders \ failed} \ caDisk,
         ![c].rows = {p \in q.rows : FolderOf[p] \notin failed} \ caDisk]
  /\ UNCHANGED <<caItems, caFiles, caDisk, caListed, caEvents, caOverlapped>>

\* applyResyncCandidate gives up when the files are no longer the ones read.
CaReapply(c) ==
  LET q == caCall[c]
      add == q.seen \ FilesOf(q.item)
  IN
  /\ CaAt(c, "reapply")
  /\ IF ~Open(q.item) \/ ~q.same \/ add \cap Recorded # {}
     THEN caCall' = GivesUp(c) /\ UNCHANGED <<caFiles, caOverlapped>>
     ELSE /\ caFiles' = (caFiles \cup Records(q.item, add)) \ Records(q.item, q.rows)
          /\ Changes(q.item)
          /\ caCall' = IF add \cup q.rows = {} THEN CaGoes(c, "recalc")
                       ELSE Refiled(CaGoes(c, "recalc"), q.item)
  /\ UNCHANGED <<caItems, caDisk, caListed, caEvents>>
=============================================================================
