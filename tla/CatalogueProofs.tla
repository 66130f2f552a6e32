-------------------------- MODULE CatalogueProofs ---------------------------
(***************************************************************************)
(* Proofs about the catalogue: a sync drops nothing that is wanted, matches *)
(* stand, a series is requested once, and statuses settle.  One inductive  *)
(* invariant carries them: what a call has in hand stays true of it while  *)
(* others write, or a flag of the call says that it is not.                *)
(***************************************************************************)
EXTENDS Catalogue, WellFoundedInduction, TLAPS

AnyEpisode == Episodes \cup Aired[1] \cup Aired[2]
CaOps == {"none", "sync", "resync", "match", "manual", "refresh", "add", "settings", "import",
          "remove"}
CaPcs == {"idle", "scan", "apply", "rescan", "reapply", "capture", "recalc", "status", "fetch",
          "store", "existing", "record", "forget"}
ItemRecord == [state : {"none", "open", "pending", "gone"}, status : Statuses,
               source : {"disk", "request"}, mon : BOOLEAN, want : SUBSET AnyEpisode,
               prov : Providers \cup {NoProvider}, eps : SUBSET (Providers \X AnyEpisode)]
FileRecord == [path : Paths, item : Items]
CallRecord == [op : CaOps, pc : CaPcs, item : 0..MaxItems, fresh : BOOLEAN, same : BOOLEAN,
               missed : BOOLEAN, absent : SUBSET Paths, rows : SUBSET Paths,
               todo : SUBSET Folders, failed : SUBSET Folders, dirs : SUBSET Folders,
               seen : SUBSET Paths,
               work : SUBSET Candidate, prov : Providers \cup {NoProvider},
               eps : SUBSET (Providers \X AnyEpisode), mon : BOOLEAN, status : Statuses]

CaTypes ==
  /\ caItems \in [Items -> ItemRecord] /\ caFiles \subseteq FileRecord
  /\ caDisk \subseteq Paths /\ caListed \in [Providers -> SUBSET AnyEpisode]
  /\ caCall \in [CaCalls -> CallRecord] /\ caOverlapped \subseteq Items

\* Episodes are of the series that was matched, and what has not been created is blank.
ItemIs(it) == (it.state = "none" => it = NoItem) /\ \A e \in it.eps : e[1] = it.prov

\* What a call has in hand: a paths' absence is known of every file whose record it may drop,
\* and an answer of the provider is used for the match it was asked for.
CallIs(q, items) ==
  /\ q.item # 0 => items[q.item].state # "none"
  /\ q.pc \in {"recalc", "status", "capture", "rescan", "reapply", "record", "forget", "existing"}
       => q.item # 0
  /\ (q.pc \in {"fetch", "store"} /\ q.op # "add") => q.item # 0
  /\ q.pc = "fetch" => q.prov \in Providers
  /\ \A e \in q.eps : e[1] = q.prov
  /\ q.missed => ~q.fresh
  /\ (q.op = "refresh" /\ q.pc \in {"fetch", "store"} /\ q.fresh) =>
       (items[q.item].prov = q.prov \/ items[q.item].state # "open")
  /\ q.work # {} => q.op = "sync"
  /\ q.pc \in {"record", "capture"} => q.op = "import"
  /\ q.pc \in {"rescan", "reapply"} => q.op \in {"resync", "import"}
  /\ q.pc \in {"scan", "apply"} => q.op = "sync"
  /\ q.pc = "scan" =>
       \A p \in Paths : (FolderOf[p] \notin q.todo \cup q.failed /\ p \notin q.seen) => p \in q.absent
  /\ q.pc = "reapply" => q.rows \subseteq q.absent
  /\ \A k \in q.work : k.remove \subseteq q.absent /\ (k.empties => k.item # 0 /\ k.add = {})

\* A call that will recalculate the status of an item, or save it.
Settling(q, i) ==
  /\ q.item = i
  /\ q.pc \in {"recalc", "status"} \/ (q.op = "import" /\ q.pc \in {"capture", "rescan", "reapply"})
StatusTrue(i) == Open(i) /\ caItems[i].prov # NoProvider => caItems[i].status = StatusOf(i)
Settled(i) ==
  i \notin caOverlapped => StatusTrue(i) \/ \E c \in CaCalls : Settling(caCall[c], i)
\* The status that a call is about to save is the one the item has.
Recalculated(q) ==
  (q.pc = "status" /\ q.item \notin caOverlapped /\ Open(q.item)) =>
    q.status = StatusOf(q.item) /\ q.mon = caItems[q.item].mon

CaInv ==
  /\ CaTypes
  /\ \A i \in Items : ItemIs(caItems[i]) /\ Settled(i)
  /\ \A c \in CaCalls : CallIs(caCall[c], caItems) /\ Recalculated(caCall[c])

-----------------------------------------------------------------------------
(* What a call keeps while others write                                    *)

\* n is the call o with more known against what it has in hand.
Weaker(n, o) ==
  /\ n \in CallRecord
  /\ n.op = o.op /\ n.pc = o.pc /\ n.item = o.item /\ n.rows = o.rows /\ n.todo = o.todo
  /\ n.failed = o.failed /\ n.seen = o.seen /\ n.work = o.work /\ n.prov = o.prov
  /\ n.eps = o.eps /\ n.mon = o.mon /\ n.status = o.status
  /\ (n.fresh => o.fresh) /\ (n.missed => o.missed \/ ~n.fresh) /\ o.absent \subseteq n.absent

LEMMA SavedIs ==
  ASSUME NEW calls \in [CaCalls -> CallRecord], NEW i
  PROVE  /\ Saved(calls, i) \in [CaCalls -> CallRecord]
         /\ \A c \in CaCalls : /\ Weaker(Saved(calls, i)[c], calls[c])
                               /\ calls[c].item = i => ~Saved(calls, i)[c].fresh
<1> PICK f \in BOOLEAN : f = FALSE OBVIOUS
<1>1. ASSUME NEW c \in CaCalls
      PROVE  /\ Weaker(Saved(calls, i)[c], calls[c])
             /\ calls[c].item = i => ~Saved(calls, i)[c].fresh
  <2> PICK o \in CallRecord : o = calls[c] OBVIOUS
  <2> PICK n : n = [o EXCEPT !.fresh = f] OBVIOUS
  <2>1. n \in CallRecord
    BY DEF CallRecord
  <2>2. /\ n.op = o.op /\ n.pc = o.pc /\ n.item = o.item /\ n.rows = o.rows /\ n.todo = o.todo
        /\ n.failed = o.failed /\ n.seen = o.seen /\ n.work = o.work /\ n.prov = o.prov
        /\ n.eps = o.eps /\ n.mon = o.mon /\ n.status = o.status /\ n.fresh = f
        /\ n.missed = o.missed /\ n.absent = o.absent
    BY DEF CallRecord
  <2>3. Weaker(n, o) /\ Weaker(o, o)
    BY <2>1, <2>2, Zenon DEF Weaker
  <2>4. CASE o.item = i
    <3>1. Saved(calls, i)[c] = n
      BY <2>4 DEF Saved
    <3> QED BY <2>2, <2>3, <3>1
  <2>5. CASE o.item # i
    <3>1. Saved(calls, i)[c] = o
      BY <2>5 DEF Saved
    <3> QED BY <2>3, <2>5, <3>1
  <2> QED BY <2>4, <2>5
<1>2. \A c \in CaCalls : Saved(calls, i)[c] \in CallRecord
  BY <1>1 DEF Weaker
<1>3. Saved(calls, i) \in [CaCalls -> CallRecord]
  BY <1>2 DEF Saved
<1> QED BY <1>1, <1>3

LEMMA RefiledIs ==
  ASSUME NEW calls \in [CaCalls -> CallRecord], NEW i
  PROVE  /\ Refiled(calls, i) \in [CaCalls -> CallRecord]
         /\ \A c \in CaCalls : Weaker(Refiled(calls, i)[c], calls[c])
<1> PICK f \in BOOLEAN : f = FALSE OBVIOUS
<1>1. ASSUME NEW c \in CaCalls PROVE Weaker(Refiled(calls, i)[c], calls[c])
  <2> PICK o \in CallRecord : o = calls[c] OBVIOUS
  <2> PICK n : n = [o EXCEPT !.same = f] OBVIOUS
  <2>1. n \in CallRecord
    BY DEF CallRecord
  <2>2. /\ n.op = o.op /\ n.pc = o.pc /\ n.item = o.item /\ n.rows = o.rows /\ n.todo = o.todo
        /\ n.failed = o.failed /\ n.seen = o.seen /\ n.work = o.work /\ n.prov = o.prov
        /\ n.eps = o.eps /\ n.mon = o.mon /\ n.status = o.status /\ n.fresh = o.fresh
        /\ n.missed = o.missed /\ n.absent = o.absent
    BY DEF CallRecord
  <2>3. Weaker(n, o) /\ Weaker(o, o)
    BY <2>1, <2>2, Zenon DEF Weaker
  <2>4. Refiled(calls, i)[c] = n \/ Refiled(calls, i)[c] = o
    BY DEF Refiled
  <2> QED BY <2>3, <2>4
<1>2. \A c \in CaCalls : Refiled(calls, i)[c] \in CallRecord
  BY <1>1 DEF Weaker
<1>3. Refiled(calls, i) \in [CaCalls -> CallRecord]
  BY <1>2 DEF Refiled
<1> QED BY <1>1, <1>3

LEMMA DecidedIs ==
  ASSUME NEW calls \in [CaCalls -> CallRecord], NEW i,
         \A c \in CaCalls : calls[c].item = i => ~calls[c].fresh
  PROVE  /\ Decided(calls, i) \in [CaCalls -> CallRecord]
         /\ \A c \in CaCalls : Weaker(Decided(calls, i)[c], calls[c])
<1> PICK f \in BOOLEAN : f = TRUE OBVIOUS
<1>1. ASSUME NEW c \in CaCalls PROVE Weaker(Decided(calls, i)[c], calls[c])
  <2> PICK o \in CallRecord : o = calls[c] OBVIOUS
  <2> PICK n : n = [o EXCEPT !.missed = f] OBVIOUS
  <2>1. n \in CallRecord
    BY DEF CallRecord
  <2>2. /\ n.op = o.op /\ n.pc = o.pc /\ n.item = o.item /\ n.rows = o.rows /\ n.todo = o.todo
        /\ n.failed = o.failed /\ n.seen = o.seen /\ n.work = o.work /\ n.prov = o.prov
        /\ n.eps = o.eps /\ n.mon = o.mon /\ n.status = o.status /\ n.fresh = o.fresh
        /\ n.missed = f /\ n.absent = o.absent
    BY DEF CallRecord
  <2>3. Weaker(o, o)
    BY Zenon DEF Weaker
  <2>4. CASE o.item = i
    <3>1. Decided(calls, i)[c] = n
      BY <2>4 DEF Decided
    <3>2. Weaker(n, o)
      BY <2>1, <2>2, <2>4, Zenon DEF Weaker
    <3> QED BY <3>1, <3>2
  <2>5. CASE o.item # i
    <3>1. Decided(calls, i)[c] = o
      BY <2>5 DEF Decided
    <3> QED BY <2>3, <3>1
  <2> QED BY <2>4, <2>5
<1>2. \A c \in CaCalls : Decided(calls, i)[c] \in CallRecord
  BY <1>1 DEF Weaker
<1>3. Decided(calls, i) \in [CaCalls -> CallRecord]
  BY <1>2 DEF Decided
<1> QED BY <1>1, <1>3

LEMMA WeakerTwice ==
  ASSUME NEW n, NEW m, NEW o, Weaker(n, m), Weaker(m, o)
  PROVE  Weaker(n, o)
BY Zenon DEF Weaker
LEMMA WeakerSame ==
  ASSUME NEW o \in CallRecord
  PROVE  Weaker(o, o)
BY Zenon DEF Weaker

-----------------------------------------------------------------------------
\* No item becomes blank again, and the match a call was given still is the item's.
ItemsStand(items, items2) ==
  \A i \in Items : items[i].state # "none" => items2[i].state # "none"
MatchStands(q, items) ==
  items[q.item].prov = q.prov \/ items[q.item].state # "open"

\* What a call has in hand stays true of it while others write, unless its flags say not.
LEMMA CallKept ==
  ASSUME NEW n, NEW o \in CallRecord, NEW items, NEW items2,
         Weaker(n, o), CallIs(o, items), ItemsStand(items, items2),
         n.fresh /\ o.item # 0 /\ MatchStands(o, items) => MatchStands(o, items2)
  PROVE  CallIs(n, items2)
<1>1. o.item \in 0..MaxItems
  BY DEF CallRecord
<1>2. n.item # 0 => items2[n.item].state # "none"
  <2>1. o.item # 0 => o.item \in Items
    BY <1>1, CatalogueAssumption DEF Items
  <2> QED BY <2>1 DEF CallIs, Weaker, ItemsStand
<1>3. /\ n.pc \in {"recalc", "status", "capture", "rescan", "reapply", "record", "forget", "existing"}
           => n.item # 0
      /\ (n.pc \in {"fetch", "store"} /\ n.op # "add") => n.item # 0
      /\ n.pc = "fetch" => n.prov \in Providers
      /\ \A e \in n.eps : e[1] = n.prov
      /\ n.work # {} => n.op = "sync"
      /\ n.pc \in {"record", "capture"} => n.op = "import"
      /\ n.pc \in {"rescan", "reapply"} => n.op \in {"resync", "import"}
      /\ n.pc \in {"scan", "apply"} => n.op = "sync"
  BY DEF CallIs, Weaker
<1>4. n.missed => ~n.fresh
  BY DEF CallIs, Weaker
<1>5. (n.op = "refresh" /\ n.pc \in {"fetch", "store"} /\ n.fresh) =>
       (items2[n.item].prov = n.prov \/ items2[n.item].state # "open")
  BY DEF CallIs, Weaker, MatchStands
<1>7. n.pc = "scan" =>
       \A p \in Paths : (FolderOf[p] \notin n.todo \cup n.failed /\ p \notin n.seen) => p \in n.absent
  BY DEF CallIs, Weaker
<1>8. n.pc = "reapply" => n.rows \subseteq n.absent
  BY DEF CallIs, Weaker
<1>9. \A k \in n.work : k.remove \subseteq n.absent /\ (k.empties => k.item # 0 /\ k.add = {})
  BY DEF CallIs, Weaker
<1> QED BY <1>2, <1>3, <1>4, <1>5, <1>7, <1>8, <1>9 DEF CallIs

-----------------------------------------------------------------------------
(* What a step leaves alone                                                *)

Stays(i) == caItems'[i] = caItems[i] /\ FilesOf(i)' = FilesOf(i)

\* The calls that do not move lose nothing but their flags.
OthersStand(moving) ==
  \A c \in CaCalls \ moving : Weaker(caCall'[c], caCall[c])

\* The call that moves ends with something in hand, and settles what it has to settle.
MoverStands(c, changed) ==
  /\ CallIs(caCall'[c], caItems')
  /\ Recalculated(caCall[c])'
  /\ \A i \in Items \ changed :
       Settling(caCall[c], i) => Settling(caCall'[c], i) \/ StatusTrue(i)'
  /\ (caCall[c].pc = "store" /\ caCall'[c].pc = "recalc" /\ caCall[c].op = "match")
       => ~caCall[c].missed

\* The item that changes is told to the calls on it, and has its status settled.
ItemMoves(i, moving) ==
  /\ ItemIs(caItems'[i]) /\ caItems'[i].state # "none"
  /\ caItems[i].state \in {"pending", "gone"} => caItems'[i].state # "open"
  /\ (Open(i) /\ Open(i)' /\ caItems'[i].prov # caItems[i].prov) =>
       \A c \in CaCalls \ moving : caCall'[c].item = i => ~caCall'[c].fresh
  /\ Settled(i)'
  /\ \/ i \in caOverlapped' \/ ~Open(i)'
     \/ StatusOf(i)' = StatusOf(i) /\ caItems'[i].mon = caItems[i].mon
     \/ \A c \in CaCalls \ moving : ~(caCall[c].item = i /\ caCall[c].pc = "status")
  /\ (Open(i) /\ caItems'[i].state = "gone") =>
       /\ ~caItems[i].mon /\ caItems[i].source = "disk"
       /\ FilesOf(i) # {}
       /\ \E c \in CaCalls : FilesOf(i) \subseteq caCall[c].absent
  /\ (caItems[i].state = "none" /\ caItems'[i].source = "request") =>
       \A j \in InLibrary : caItems[j].prov # caItems'[i].prov

\* One step of the three action properties, EpisodesOfMatch aside.
RequestedOnce ==
  \A i \in Items :
       (caItems[i].state = "none" /\ caItems'[i].source = "request")
         => \A j \in InLibrary : caItems[j].prov # caItems'[i].prov
StepOk == OnlyLostFilesForgotten /\ WantedItemsStay /\ UserMatchStands /\ RequestedOnce

LEMMA StatusSame ==
  ASSUME NEW i, FilesOf(i)' = FilesOf(i), caItems'[i].eps = caItems[i].eps,
         caItems'[i].mon = caItems[i].mon, caItems'[i].want = caItems[i].want,
         caItems'[i].source = caItems[i].source
  PROVE  StatusOf(i)' = StatusOf(i)
BY DEF StatusOf

LEMMA StatusIs ==
  ASSUME NEW i
  PROVE  StatusOf(i) \in Statuses
BY DEF StatusOf, Statuses

LEMMA ItemTypes ==
  ASSUME CaTypes, NEW i \in Items
  PROVE  /\ caItems[i] \in ItemRecord /\ caItems[i].state \in {"none", "open", "pending", "gone"}
         /\ caItems[i].source \in {"disk", "request"} /\ caItems[i].mon \in BOOLEAN
         /\ caItems[i].want \subseteq AnyEpisode /\ caItems[i].status \in Statuses
         /\ caItems[i].prov \in Providers \cup {NoProvider}
         /\ caItems[i].eps \subseteq Providers \X AnyEpisode
BY DEF CaTypes, ItemRecord

LEMMA CallTypes ==
  ASSUME CaTypes, NEW c \in CaCalls
  PROVE  /\ caCall[c] \in CallRecord /\ caCall[c].item \in 0..MaxItems
         /\ caCall[c].item # 0 => caCall[c].item \in Items
         /\ caCall[c].absent \subseteq Paths /\ caCall[c].rows \subseteq Paths
         /\ caCall[c].seen \subseteq Paths /\ caCall[c].work \subseteq Candidate
         /\ caCall[c].todo \subseteq Folders /\ caCall[c].failed \subseteq Folders
         /\ caCall[c].prov \in Providers \cup {NoProvider}
         /\ caCall[c].eps \subseteq Providers \X AnyEpisode /\ caCall[c].mon \in BOOLEAN
         /\ caCall[c].status \in Statuses /\ caCall[c].fresh \in BOOLEAN
         /\ caCall[c].same \in BOOLEAN /\ caCall[c].missed \in BOOLEAN
         /\ caCall[c].op \in CaOps /\ caCall[c].pc \in CaPcs
<1>1. caCall[c] \in CallRecord
  BY DEF CaTypes
<1>2. PICK q \in CallRecord : q = caCall[c]
  BY <1>1
<1>3. q.item \in 0..MaxItems /\ (q.item # 0 => q.item \in Items)
  BY CatalogueAssumption DEF CallRecord, Items
<1> QED BY <1>2, <1>3 DEF CallRecord

LEMMA ChangesIs ==
  ASSUME CaTypes, NEW i \in Items, Changes(i)
  PROVE  /\ caOverlapped \subseteq caOverlapped' /\ caOverlapped' \subseteq Items
         /\ \/ i \in caOverlapped'
            \/ \A c \in CaCalls : ~(caCall[c].item = i /\ caCall[c].pc = "status")
BY DEF Changes, CaTypes, CaAt

\* A step that leaves all but these calls and items alone, and these as they should be.
LEMMA Frame ==
  ASSUME CaInv, CaTypes', NEW moving, moving \subseteq CaCalls,
         NEW changed, changed \subseteq Items,
         OthersStand(moving), \A i \in Items \ changed : Stays(i),
         caOverlapped \subseteq caOverlapped',
         \A c \in moving : MoverStands(c, changed),
         \A i \in changed : ItemMoves(i, moving), OnlyLostFilesForgotten
  PROVE  CaInv' /\ StepOk
<1> USE DEF Stays
<1>0. CaTypes
  BY DEF CaInv
<1>1. ItemsStand(caItems, caItems')
  BY DEF ItemsStand, ItemMoves
<1>2. ASSUME NEW i \in Items PROVE ItemIs(caItems'[i])
  BY <1>2 DEF ItemMoves, CaInv
<1>3. ASSUME NEW c \in CaCalls PROVE CallIs(caCall'[c], caItems')
  <2>1. CASE c \in moving
    BY <2>1 DEF MoverStands
  <2>2. CASE c \notin moving
    <3> PICK n, o : n = caCall'[c] /\ o = caCall[c]
      OBVIOUS
    <3>1. o \in CallRecord /\ (o.item # 0 => o.item \in Items)
      BY <1>0, CallTypes
    <3>2. Weaker(n, o)
      BY <2>2 DEF OthersStand
    <3>3. CallIs(o, caItems)
      BY DEF CaInv
    <3>4. n.fresh /\ o.item # 0 /\ MatchStands(o, caItems) => MatchStands(o, caItems')
      <4> SUFFICES ASSUME n.fresh, o.item # 0, MatchStands(o, caItems)
                   PROVE  MatchStands(o, caItems')
        OBVIOUS
      <4> PICK i \in Items : i = o.item
        BY <3>1
      <4>1. CASE i \notin changed
        BY <4>1 DEF MatchStands
      <4>2. CASE i \in changed
        <5>1. ItemMoves(i, moving) /\ n.item = i
          BY <4>2, <3>2 DEF Weaker
        <5>2. caItems[i].state \in {"open", "pending", "gone"}
          BY <1>0, <3>3, ItemTypes DEF CallIs
        <5>3. CASE caItems[i].state \in {"pending", "gone"}
          BY <5>1, <5>3 DEF MatchStands, ItemMoves
        <5>4. CASE caItems[i].state = "open"
          BY <5>1, <5>4, <2>2 DEF MatchStands, ItemMoves, Open
        <5> QED BY <5>2, <5>3, <5>4
      <4> QED BY <4>1, <4>2
    <3>5. CallIs(n, caItems')
      BY <1>1, <3>1, <3>2, <3>3, <3>4, CallKept
    <3> QED BY <3>5
  <2> QED BY <2>1, <2>2
<1>4. ASSUME NEW i \in Items, i \notin changed PROVE StatusOf(i)' = StatusOf(i)
  BY <1>4, StatusSame
<1>5. ASSUME NEW i \in Items PROVE Settled(i)'
  <2>1. CASE i \in changed
    BY <2>1 DEF ItemMoves
  <2>2. CASE i \notin changed
    <3> SUFFICES ASSUME i \notin caOverlapped'
                 PROVE  StatusTrue(i)' \/ \E c \in CaCalls : Settling(caCall'[c], i)
      BY DEF Settled
    <3>1. StatusTrue(i) \/ \E c \in CaCalls : Settling(caCall[c], i)
      BY DEF CaInv, Settled
    <3>2. CASE StatusTrue(i)
      <4>1. StatusTrue(i)'
        BY <1>4, <2>2, <3>2 DEF StatusTrue, Open
      <4> QED BY <4>1
    <3>3. ASSUME NEW c \in CaCalls, Settling(caCall[c], i)
          PROVE  StatusTrue(i)' \/ Settling(caCall'[c], i)
      <4>1. CASE c \in moving
        BY <2>2, <3>3, <4>1 DEF MoverStands
      <4>2. CASE c \notin moving
        <5>1. Weaker(caCall'[c], caCall[c])
          BY <4>2 DEF OthersStand
        <5> QED BY <3>3, <5>1 DEF Weaker, Settling
      <4> QED BY <4>1, <4>2
    <3> QED BY <3>1, <3>2, <3>3
  <2> QED BY <2>1, <2>2
<1>6. ASSUME NEW c \in CaCalls PROVE Recalculated(caCall[c])'
  <2>1. CASE c \in moving
    BY <2>1 DEF MoverStands
  <2>2. CASE c \notin moving
    <3> PICK n, o : n = caCall'[c] /\ o = caCall[c]
      OBVIOUS
    <3>1. Weaker(n, o)
      BY <2>2 DEF OthersStand
    <3> SUFFICES ASSUME n.pc = "status", n.item \notin caOverlapped', Open(n.item)'
                 PROVE  n.status = StatusOf(n.item)' /\ n.mon = caItems'[n.item].mon
      BY DEF Recalculated, Open, StatusOf, FilesOf
    <3>2. o.pc = "status" /\ o.item = n.item /\ o.status = n.status /\ o.mon = n.mon
      BY <3>1 DEF Weaker
    <3>3. o.item # 0 /\ o.item \in Items /\ caItems[o.item].state # "none"
      BY <1>0, <3>2, CallTypes DEF CaInv, CallIs
    <3> PICK i \in Items : i = o.item
      BY <3>3
    <3>4. Open(i)
      <4>1. CASE i \notin changed
        BY <3>2, <4>1 DEF Open
      <4>2. CASE i \in changed
        BY <1>0, <3>2, <3>3, <4>2, ItemTypes DEF ItemMoves, Open
      <4> QED BY <4>1, <4>2
    <3>5. o.status = StatusOf(i) /\ o.mon = caItems[i].mon
      BY <3>2, <3>4 DEF CaInv, Recalculated
    <3>6. StatusOf(i)' = StatusOf(i) /\ caItems'[i].mon = caItems[i].mon
      <4>1. CASE i \notin changed
        BY <1>4, <4>1
      <4>2. CASE i \in changed
        BY <2>2, <3>2, <4>2 DEF ItemMoves
      <4> QED BY <4>1, <4>2
    <3> QED BY <3>2, <3>5, <3>6
  <2> QED BY <2>1, <2>2
<1>7. CaInv'
  BY <1>2, <1>3, <1>5, <1>6 DEF CaInv
<1>8. WantedItemsStay
  BY DEF WantedItemsStay, ItemMoves, Open
<1>9. UserMatchStands
  <2> SUFFICES ASSUME NEW c \in CaCalls, caCall[c].pc = "store", caCall'[c].pc = "recalc",
                      caCall[c].op = "match"
               PROVE  ~caCall[c].missed
    BY DEF UserMatchStands, CaAt
  <2>1. c \in moving
    BY DEF OthersStand, Weaker
  <2> QED BY <2>1 DEF MoverStands
<1>10. RequestedOnce
  <2> SUFFICES ASSUME NEW i \in Items, caItems[i].state = "none", caItems'[i].source = "request"
               PROVE  \A j \in InLibrary : caItems[j].prov # caItems'[i].prov
    BY DEF RequestedOnce
  <2>1. caItems[i] = NoItem
    BY DEF CaInv, ItemIs
  <2>2. i \in changed
    BY <2>1 DEF NoItem
  <2> QED BY <2>2 DEF ItemMoves
<1> QED BY <1>7, <1>8, <1>9, <1>10 DEF StepOk

-----------------------------------------------------------------------------
(* Steps that change nothing but a call                                    *)

LEMMA IdleIs ==
  /\ CaIdle \in CallRecord /\ CaIdle.pc = "idle"
  /\ \A items : CallIs(CaIdle, items)
<1> PICK t, f \in BOOLEAN : t = TRUE /\ f = FALSE
  OBVIOUS
<1> PICK r : r = [op |-> "none", pc |-> "idle", item |-> 0, fresh |-> t, same |-> t,
           missed |-> f, absent |-> {}, rows |-> {}, todo |-> {}, failed |-> {},
           dirs |-> {}, seen |-> {},
           work |-> {}, prov |-> NoProvider, eps |-> {}, mon |-> f, status |-> "new"]
  OBVIOUS
<1>1. r = CaIdle
  BY Zenon DEF CaIdle
<1>2. 0 \in 0..MaxItems
  BY CatalogueAssumption
<1>3. r \in CallRecord
  BY <1>2 DEF CallRecord, CaOps, CaPcs, Statuses
<1>4. ASSUME NEW items PROVE CallIs(r, items)
  BY DEF CallIs
<1>5. r.pc = "idle"
  OBVIOUS
<1> QED BY <1>1, <1>3, <1>4, <1>5

LEMMA CallOnly ==
  ASSUME CaInv, NEW c \in CaCalls, NEW R \in CallRecord, caCall' = [caCall EXCEPT ![c] = R],
         caItems' = caItems, caFiles' = caFiles, caOverlapped' = caOverlapped,
         caDisk' \subseteq Paths, caListed' = caListed,
         CallIs(R, caItems),
         R.pc = "status" => R.status = StatusOf(R.item) /\ R.mon = caItems[R.item].mon,
         \A i \in Items : Settling(caCall[c], i) => Settling(R, i) \/ StatusTrue(i),
         R.pc # "recalc" \/ caCall[c].pc # "store"
  PROVE  CaInv' /\ StepOk
<1>1. CaTypes /\ caCall \in [CaCalls -> CallRecord]
  BY DEF CaInv, CaTypes
<1>2. CaTypes' /\ caCall'[c] = R /\ \A d \in CaCalls \ {c} : caCall'[d] = caCall[d]
  BY <1>1 DEF CaTypes
<1>3. OthersStand({c})
  BY <1>1, <1>2, WeakerSame DEF OthersStand
<1>4. \A i \in Items : Stays(i)
  BY DEF Stays, FilesOf
<1>5. MoverStands(c, {})
  <2>1. CallIs(caCall'[c], caItems')
    BY <1>2
  <2>2. \A i : StatusOf(i)' = StatusOf(i)
    BY DEF StatusOf, FilesOf
  <2>3. Recalculated(caCall[c])'
    BY <1>2, <2>2 DEF Recalculated
  <2>4. \A i \in Items : StatusTrue(i) => StatusTrue(i)'
    BY <2>2 DEF StatusTrue, Open
  <2> QED BY <1>2, <2>1, <2>3, <2>4 DEF MoverStands
<1>6. OnlyLostFilesForgotten
  BY DEF OnlyLostFilesForgotten
<1>7. \A i \in Items \ {} : Stays(i)
  BY <1>4
<1>8. \A d \in {c} : MoverStands(d, {})
  BY <1>5
<1>9. \A i \in {} : ItemMoves(i, {c})
  OBVIOUS
<1>10. {c} \subseteq CaCalls /\ {} \subseteq Items /\ caOverlapped \subseteq caOverlapped'
  OBVIOUS
<1> HIDE DEF OnlyLostFilesForgotten
<1> QED BY <1>2, <1>3, <1>6, <1>7, <1>8, <1>9, <1>10, Frame

LEMMA CallEnds ==
  ASSUME CaInv, NEW c \in CaCalls, caCall' = CaReturns(c),
         caItems' = caItems, caFiles' = caFiles, caOverlapped' = caOverlapped,
         caDisk' = caDisk, caListed' = caListed,
         caCall[c].pc \notin {"recalc", "status"},
         caCall[c].op # "import" \/ caCall[c].pc \notin {"capture", "rescan", "reapply"}
  PROVE  CaInv' /\ StepOk
<1> PICK R \in CallRecord : R = CaIdle
  BY IdleIs
<1>1. R.pc = "idle" /\ CallIs(R, caItems)
  BY IdleIs
<1>2. caCall' = [caCall EXCEPT ![c] = R]
  BY DEF CaReturns
<1>3. caDisk' \subseteq Paths
  BY DEF CaInv, CaTypes
<1>4. \A i \in Items : Settling(caCall[c], i) => Settling(R, i) \/ StatusTrue(i)
  BY DEF Settling
<1>5. R.pc = "status" => R.status = StatusOf(R.item) /\ R.mon = caItems[R.item].mon
  BY <1>1
<1>6. R.pc # "recalc" \/ caCall[c].pc # "store"
  BY <1>1
<1> QED BY <1>1, <1>2, <1>3, <1>4, <1>5, <1>6, CallOnly

\* A call after the status of an item: it ends, or takes up the next candidate.
LEMMA AfterRecalcIs ==
  ASSUME CaInv, NEW c \in CaCalls
  PROVE  \E R \in CallRecord :
           /\ AfterRecalc(c) = [caCall EXCEPT ![c] = R] /\ R.pc \in {"idle", "apply"}
           /\ \A items : CallIs(R, items)
<1>1. CASE caCall[c].work = {}
  <2>1. AfterRecalc(c) = [caCall EXCEPT ![c] = CaIdle]
    BY <1>1 DEF AfterRecalc, CaReturns
  <2> QED BY <2>1, IdleIs
<1>2. CASE caCall[c].work # {}
  <2> PICK q \in CallRecord : q = caCall[c]
    BY CallTypes DEF CaInv
  <2> PICK R : R = [q EXCEPT !.pc = "apply", !.item = 0]
    OBVIOUS
  <2>1. 0 \in 0..MaxItems /\ "apply" \in CaPcs
    BY CatalogueAssumption DEF CaPcs
  <2>2. R \in CallRecord
    BY <2>1 DEF CallRecord
  <2>3. /\ R.op = q.op /\ R.pc = "apply" /\ R.item = 0 /\ R.work = q.work /\ R.prov = q.prov
        /\ R.eps = q.eps /\ R.fresh = q.fresh /\ R.missed = q.missed /\ R.absent = q.absent
    BY DEF CallRecord
  <2>4. CallIs(q, caItems)
    BY DEF CaInv
  <2>5. q.op = "sync" /\ (q.missed => ~q.fresh) /\ (\A e \in q.eps : e[1] = q.prov)
        /\ \A k \in q.work : k.remove \subseteq q.absent /\ (k.empties => k.item # 0 /\ k.add = {})
    BY <1>2, <2>4 DEF CallIs
  <2>6. ASSUME NEW items PROVE CallIs(R, items)
    BY <2>3, <2>5 DEF CallIs
  <2>7. caCall \in [CaCalls -> CallRecord]
    BY DEF CaInv, CaTypes
  <2>8. AfterRecalc(c) = [caCall EXCEPT ![c] = R]
    BY <1>2, <2>7 DEF AfterRecalc, CaGoes
  <2> QED BY <2>2, <2>3, <2>6, <2>8
<1> QED BY <1>1, <1>2

-----------------------------------------------------------------------------
(* Calls of the library sync                                               *)

LEMMA GoesIs ==
  ASSUME CaTypes, NEW c \in CaCalls, NEW pc \in CaPcs
  PROVE  \E R \in CallRecord :
           /\ CaGoes(c, pc) = [caCall EXCEPT ![c] = R]
           /\ R = [caCall[c] EXCEPT !.pc = pc] /\ R.pc = pc
           /\ R.op = caCall[c].op /\ R.item = caCall[c].item /\ R.fresh = caCall[c].fresh
           /\ R.same = caCall[c].same /\ R.missed = caCall[c].missed
           /\ R.absent = caCall[c].absent /\ R.rows = caCall[c].rows
           /\ R.todo = caCall[c].todo /\ R.failed = caCall[c].failed
           /\ R.seen = caCall[c].seen /\ R.work = caCall[c].work /\ R.prov = caCall[c].prov
           /\ R.eps = caCall[c].eps /\ R.mon = caCall[c].mon /\ R.status = caCall[c].status
<1> PICK q \in CallRecord : q = caCall[c]
  BY CallTypes
<1> PICK R : R = [q EXCEPT !.pc = pc]
  OBVIOUS
<1>1. R \in CallRecord
  BY DEF CallRecord
<1>2. /\ R.pc = pc /\ R.op = q.op /\ R.item = q.item /\ R.fresh = q.fresh
      /\ R.same = q.same /\ R.missed = q.missed /\ R.absent = q.absent /\ R.rows = q.rows
      /\ R.todo = q.todo /\ R.failed = q.failed /\ R.seen = q.seen /\ R.work = q.work
      /\ R.prov = q.prov /\ R.eps = q.eps /\ R.mon = q.mon /\ R.status = q.status
  BY DEF CallRecord
<1>3. CaGoes(c, pc) = [caCall EXCEPT ![c] = R] /\ R = [caCall[c] EXCEPT !.pc = pc]
  BY DEF CaGoes
<1> QED BY <1>1, <1>2, <1>3, Zenon

LEMMA CaSyncKeeps ==
  ASSUME CaInv, NEW c \in CaCalls, CaSync(c)
  PROVE  CaInv' /\ StepOk
<1>0. CaTypes
  BY DEF CaInv
<1> PICK o \in CallRecord : o = CaIdle
  BY IdleIs
<1> PICK dirs \in SUBSET Folders :
      caCall' = [caCall EXCEPT ![c] = [CaIdle EXCEPT !.op = "sync", !.pc = "scan",
                       !.todo = dirs, !.absent = {p \in Paths : FolderOf[p] \notin dirs}]]
  BY DEF CaSync
<1> PICK absent \in SUBSET Paths : absent = {p \in Paths : FolderOf[p] \notin dirs}
  OBVIOUS
<1> PICK R : R = [o EXCEPT !.op = "sync", !.pc = "scan", !.todo = dirs, !.absent = absent]
  OBVIOUS
<1>1. "sync" \in CaOps /\ "scan" \in CaPcs
  BY DEF CaOps, CaPcs
<1>2. R \in CallRecord
  BY <1>1 DEF CallRecord
<1>3. /\ R.op = "sync" /\ R.pc = "scan" /\ R.todo = dirs /\ R.absent = absent
      /\ R.item = o.item /\ R.fresh = o.fresh /\ R.missed = o.missed /\ R.work = o.work
      /\ R.eps = o.eps /\ R.prov = o.prov
  BY DEF CallRecord
<1>4. o.item = 0 /\ o.work = {} /\ o.eps = {} /\ ~o.missed
  BY DEF CaIdle
<1>5. \A p \in Paths : FolderOf[p] \notin R.todo => p \in R.absent
  BY <1>3
<1>6. CallIs(R, caItems)
  BY <1>3, <1>4, <1>5 DEF CallIs
<1>7. caCall' = [caCall EXCEPT ![c] = R]
  OBVIOUS
<1>8. /\ caItems' = caItems /\ caFiles' = caFiles /\ caOverlapped' = caOverlapped
      /\ caDisk' \subseteq Paths /\ caListed' = caListed
  BY <1>0 DEF CaSync, CaTypes
<1>9. /\ R.pc = "status" => R.status = StatusOf(R.item) /\ R.mon = caItems[R.item].mon
      /\ \A i \in Items : Settling(caCall[c], i) => Settling(R, i) \/ StatusTrue(i)
      /\ R.pc # "recalc" \/ caCall[c].pc # "store"
  BY <1>3 DEF CaSync, CaAt, Settling
<1> QED BY <1>2, <1>6, <1>7, <1>8, <1>9, CallOnly

LEMMA CaScanKeeps ==
  ASSUME CaInv, NEW c \in CaCalls, NEW f \in Folders, CaScan(c, f)
  PROVE  CaInv' /\ StepOk
<1>0. CaTypes
  BY DEF CaInv
<1> PICK q \in CallRecord : q = caCall[c]
  BY <1>0, CallTypes
<1>1. q.pc = "scan" /\ CallIs(q, caItems) /\ q.seen \subseteq Paths
      /\ q.todo \subseteq Folders /\ q.failed \subseteq Folders
  BY <1>0, CallTypes DEF CaScan, CaAt, CaInv
<1>2. \E seen, absent \in SUBSET Paths, failed, dirs \in SUBSET Folders :
        /\ q.seen \subseteq seen /\ q.failed \subseteq failed /\ q.absent \subseteq absent
        /\ (\A p \in Paths : FolderOf[p] = f => p \in seen \/ p \in absent \/ f \in failed)
        /\ caCall' = [caCall EXCEPT ![c] = [q EXCEPT !.todo = q.todo \ {f}, !.dirs = dirs,
                                     !.seen = seen, !.absent = absent, !.failed = failed]]
  <2>0. q.absent \subseteq Paths /\ q.dirs \subseteq Folders
    BY <1>0 DEF CallRecord
  <2>1. CASE ReadsFolder(c, f)
    <3> PICK seen \in SUBSET Paths : seen = q.seen \cup {p \in caDisk : FolderOf[p] = f}
      BY <1>0, <1>1 DEF CaTypes
    <3> PICK absent \in SUBSET Paths :
          absent = q.absent \cup ({p \in Paths : FolderOf[p] = f} \ caDisk)
      BY <2>0
    <3> PICK dirs \in SUBSET Folders : dirs = q.dirs \cup {f}
      BY <2>0
    <3>1. caCall' = [caCall EXCEPT ![c] = [q EXCEPT !.todo = q.todo \ {f}, !.dirs = dirs,
                                                    !.seen = seen, !.absent = absent]]
      BY <2>1 DEF ReadsFolder
    <3>2. [q EXCEPT !.todo = q.todo \ {f}, !.dirs = dirs, !.seen = seen, !.absent = absent]
            = [q EXCEPT !.todo = q.todo \ {f}, !.dirs = dirs, !.seen = seen, !.absent = absent,
                        !.failed = q.failed]
      BY DEF CallRecord
    <3>3. \A p \in Paths : FolderOf[p] = f => p \in seen \/ p \in absent \/ f \in q.failed
      OBVIOUS
    <3>4. caCall' = [caCall EXCEPT ![c] = [q EXCEPT !.todo = q.todo \ {f}, !.dirs = dirs,
                                   !.seen = seen, !.absent = absent, !.failed = q.failed]]
      BY <3>1, <3>2
    <3>5. q.seen \subseteq seen /\ q.failed \in SUBSET Folders /\ q.absent \subseteq absent
      BY <1>1
    <3> QED BY <3>3, <3>4, <3>5
  <2>2. CASE caCall' = [caCall EXCEPT ![c].todo = @ \ {f}, ![c].failed = @ \cup {f}]
    <3> PICK failed \in SUBSET Folders : failed = q.failed \cup {f}
      BY <1>1
    <3>1. caCall' = [caCall EXCEPT ![c] = [q EXCEPT !.todo = q.todo \ {f}, !.failed = failed]]
      BY <2>2
    <3> PICK seen \in SUBSET Paths, absent \in SUBSET Paths, dirs \in SUBSET Folders :
          seen = q.seen /\ absent = q.absent /\ dirs = q.dirs
      BY <1>1, <2>0
    <3>2. [q EXCEPT !.todo = q.todo \ {f}, !.failed = failed]
            = [q EXCEPT !.todo = q.todo \ {f}, !.dirs = dirs, !.seen = seen,
                        !.absent = absent, !.failed = failed]
      BY DEF CallRecord
    <3>3. caCall' = [caCall EXCEPT ![c] = [q EXCEPT !.todo = q.todo \ {f}, !.dirs = dirs,
                                   !.seen = seen, !.absent = absent, !.failed = failed]]
      BY <3>1, <3>2
    <3>4. \A p \in Paths : FolderOf[p] = f => p \in seen \/ p \in absent \/ f \in failed
      OBVIOUS
    <3>5. q.seen \subseteq seen /\ q.absent \subseteq absent /\ q.failed \subseteq failed
      OBVIOUS
    <3> QED BY <3>3, <3>4, <3>5
  <2> QED BY <2>1, <2>2 DEF CaScan
<1> PICK seen \in SUBSET Paths, absent \in SUBSET Paths, failed \in SUBSET Folders,
         dirs \in SUBSET Folders :
        /\ q.seen \subseteq seen /\ q.failed \subseteq failed /\ q.absent \subseteq absent
        /\ (\A p \in Paths : FolderOf[p] = f => p \in seen \/ p \in absent \/ f \in failed)
        /\ caCall' = [caCall EXCEPT ![c] = [q EXCEPT !.todo = q.todo \ {f}, !.dirs = dirs,
                                     !.seen = seen, !.absent = absent, !.failed = failed]]
  BY <1>2
<1> PICK todo : todo = q.todo \ {f}
  OBVIOUS
<1> PICK R : R = [q EXCEPT !.todo = todo, !.dirs = dirs, !.seen = seen, !.absent = absent,
                           !.failed = failed]
  OBVIOUS
<1>3. R \in CallRecord
  BY <1>1 DEF CallRecord
<1>4. /\ R.op = q.op /\ R.pc = "scan" /\ R.todo = todo /\ R.absent = absent
      /\ R.item = q.item /\ R.fresh = q.fresh /\ R.missed = q.missed /\ R.work = q.work
      /\ R.eps = q.eps /\ R.prov = q.prov /\ R.seen = seen /\ R.failed = failed
  BY <1>1 DEF CallRecord
<1>5. \A p \in Paths : (FolderOf[p] \notin todo \cup failed /\ p \notin seen) => p \in absent
  <2> SUFFICES ASSUME NEW p \in Paths, FolderOf[p] \notin todo, FolderOf[p] \notin failed,
                      p \notin seen
               PROVE  p \in absent
    OBVIOUS
  <2>1. CASE FolderOf[p] = f
    BY <2>1
  <2>2. CASE FolderOf[p] # f
    BY <1>1, <2>2 DEF CallIs
  <2> QED BY <2>1, <2>2
<1>6. caDisk' = caDisk
  BY DEF CaScan
<1>7. CallIs(R, caItems)
  BY <1>1, <1>4, <1>5 DEF CallIs
<1>8. caCall' = [caCall EXCEPT ![c] = R]
  OBVIOUS
<1>9. /\ caItems' = caItems /\ caFiles' = caFiles /\ caOverlapped' = caOverlapped
      /\ caDisk' \subseteq Paths /\ caListed' = caListed
  BY <1>0, <1>6 DEF CaScan, CaTypes
<1>10. R.pc # "status" /\ R.pc # "recalc"
  BY <1>4
<1>11. \A i \in Items : Settling(caCall[c], i) => Settling(R, i) \/ StatusTrue(i)
  BY <1>1 DEF Settling
<1> QED BY <1>3, <1>7, <1>8, <1>9, <1>10, <1>11, CallOnly

\* What was not seen in a folder that was read was not there when it was read.
LEMMA CaCompareKeeps ==
  ASSUME CaInv, NEW c \in CaCalls, CaCompare(c)
  PROVE  CaInv' /\ StepOk
<1>0. CaTypes
  BY DEF CaInv
<1> PICK q \in CallRecord : q = caCall[c]
  BY <1>0, CallTypes
<1>1. /\ q.pc = "scan" /\ q.todo = {} /\ CallIs(q, caItems) /\ q.seen \subseteq Paths
      /\ q.op = "sync"
  BY <1>0, CallTypes DEF CaCompare, CaAt, CaInv, CallIs
<1>2. Lost(c) \subseteq q.absent
  BY <1>0, <1>1 DEF Lost, Recorded, CallIs, CaTypes, FileRecord
<1>3. /\ caItems' = caItems /\ caFiles' = caFiles /\ caOverlapped' = caOverlapped
      /\ caDisk' = caDisk /\ caListed' = caListed
  BY DEF CaCompare
<1> DEFINE found(t) == {p \in caCall[c].seen : InGroup(p, t)}
           add(i, own) == UNION {found(t) \ Recorded : t \in {u \in Titles : own[u] = i}}
           remove(i) == FilesOf(i) \cap Lost(c)
           changed(own) == {i \in Items : add(i, own) # {} \/ remove(i) # {}}
           known(own) == {[item |-> i, add |-> add(i, own), remove |-> remove(i),
                           empties |-> add(i, own) = {} /\ i \in FindOrphanedMediaItems(Lost(c))]
                          : i \in changed(own)}
           new(own) == {[item |-> 0, add |-> found(t), remove |-> {}, empties |-> FALSE]
                        : t \in {u \in Titles : own[u] = 0 /\ found(u) # {}}}
<1>4. PICK own \in [Titles -> 0..MaxItems] :
        caCall' = IF known(own) \cup new(own) = {} THEN CaReturns(c)
                  ELSE [CaGoes(c, "apply") EXCEPT ![c].work = known(own) \cup new(own)]
  BY Zenon DEF CaCompare
<1>5. ASSUME NEW k \in known(own)
      PROVE  k \in Candidate /\ k.remove \subseteq q.absent /\ (k.empties => k.item # 0 /\ k.add = {})
  <2> PICK i \in changed(own) :
        k = [item |-> i, add |-> add(i, own), remove |-> remove(i),
             empties |-> add(i, own) = {} /\ i \in FindOrphanedMediaItems(Lost(c))]
    BY <1>5
  <2> PICK b \in BOOLEAN : b = (add(i, own) = {} /\ i \in FindOrphanedMediaItems(Lost(c)))
    OBVIOUS
  <2> PICK a, r : a = add(i, own) /\ r = remove(i)
    OBVIOUS
  <2>1. k = [item |-> i, add |-> a, remove |-> r, empties |-> b]
    BY Zenon
  <2>2. a \in SUBSET Paths
    BY <1>1
  <2>3. r \in SUBSET Paths /\ r \subseteq q.absent
    <3>1. q.absent \subseteq Paths
      BY <1>0, CallTypes
    <3> QED BY <1>2, <3>1
  <2>4. i \in Items /\ i \in 0..MaxItems /\ i # 0
    BY CatalogueAssumption DEF Items
  <2>5. b => a = {}
    OBVIOUS
  <2> HIDE DEF add, remove, changed
  <2> QED BY <2>1, <2>2, <2>3, <2>4, <2>5 DEF Candidate
<1>6. ASSUME NEW k \in new(own)
      PROVE  k \in Candidate /\ k.remove \subseteq q.absent /\ (k.empties => k.item # 0 /\ k.add = {})
  <2> PICK t \in Titles : k = [item |-> 0, add |-> found(t), remove |-> {}, empties |-> FALSE]
    BY <1>6
  <2> PICK f \in BOOLEAN : f = FALSE
    OBVIOUS
  <2> PICK a : a = found(t)
    OBVIOUS
  <2>1. k = [item |-> 0, add |-> a, remove |-> {}, empties |-> f]
    BY Zenon
  <2>2. a \in SUBSET Paths /\ 0 \in 0..MaxItems
    BY <1>1, CatalogueAssumption
  <2> HIDE DEF found
  <2> QED BY <2>1, <2>2 DEF Candidate
<1> PICK work : work = known(own) \cup new(own)
  OBVIOUS
<1>7. work \subseteq Candidate /\ \A k \in work : k.remove \subseteq q.absent
                                                 /\ (k.empties => k.item # 0 /\ k.add = {})
  BY <1>5, <1>6
<1> HIDE DEF known, new
<1>8. CASE work = {}
  <2>1. caCall' = CaReturns(c)
    BY <1>4, <1>8
  <2> QED BY <1>1, <1>3, <2>1, CallEnds
<1>9. CASE work # {}
  <2> PICK R : R = [q EXCEPT !.pc = "apply", !.work = work]
    OBVIOUS
  <2>1. caCall' = [CaGoes(c, "apply") EXCEPT ![c].work = work]
    BY <1>4, <1>9
  <2>2. caCall \in [CaCalls -> CallRecord]
    BY <1>0 DEF CaTypes
  <2>3. caCall' = [caCall EXCEPT ![c] = R]
    BY <2>1, <2>2 DEF CaGoes
  <2>4. "apply" \in CaPcs
    BY DEF CaPcs
  <2>5. R \in CallRecord
    BY <1>7, <2>4 DEF CallRecord
  <2>6. /\ R.op = q.op /\ R.pc = "apply" /\ R.absent = q.absent /\ R.item = q.item
        /\ R.fresh = q.fresh /\ R.missed = q.missed /\ R.work = work /\ R.eps = q.eps
        /\ R.prov = q.prov
    BY DEF CallRecord
  <2>7. CallIs(R, caItems)
    BY <1>1, <1>7, <2>6 DEF CallIs
  <2>8. \A i \in Items : Settling(caCall[c], i) => Settling(R, i) \/ StatusTrue(i)
    BY <1>1 DEF Settling
  <2>9. caDisk' \subseteq Paths
    BY <1>0, <1>3 DEF CaTypes
  <2>10. R.pc # "status" /\ R.pc # "recalc"
    BY <2>6
  <2> QED BY <1>3, <2>3, <2>5, <2>7, <2>8, <2>9, <2>10, CallOnly
<1> QED BY <1>8, <1>9

-----------------------------------------------------------------------------
(* Calls of the resync, and the start of the others                        *)

LEMMA GivesUpKeeps ==
  ASSUME CaInv, NEW c \in CaCalls, caCall' = GivesUp(c), caCall[c].pc \in {"capture", "reapply"},
         caItems' = caItems, caFiles' = caFiles, caOverlapped' = caOverlapped,
         caDisk' = caDisk, caListed' = caListed
  PROVE  CaInv' /\ StepOk
<1>0. CaTypes
  BY DEF CaInv
<1>1. CASE caCall[c].op # "import"
  <2>1. caCall' = CaReturns(c)
    BY <1>1 DEF GivesUp
  <2> QED BY <1>1, <2>1, CallEnds
<1>2. CASE caCall[c].op = "import"
  <2>1. "recalc" \in CaPcs
    BY DEF CaPcs
  <2> PICK R \in CallRecord :
           /\ CaGoes(c, "recalc") = [caCall EXCEPT ![c] = R]
           /\ R = [caCall[c] EXCEPT !.pc = "recalc"] /\ R.pc = "recalc"
           /\ R.op = caCall[c].op /\ R.item = caCall[c].item /\ R.fresh = caCall[c].fresh
           /\ R.same = caCall[c].same /\ R.missed = caCall[c].missed
           /\ R.absent = caCall[c].absent /\ R.rows = caCall[c].rows
           /\ R.todo = caCall[c].todo /\ R.failed = caCall[c].failed
           /\ R.seen = caCall[c].seen /\ R.work = caCall[c].work /\ R.prov = caCall[c].prov
           /\ R.eps = caCall[c].eps /\ R.mon = caCall[c].mon /\ R.status = caCall[c].status
    BY <1>0, <2>1, GoesIs
  <2>2. caCall' = [caCall EXCEPT ![c] = R]
    BY <1>2 DEF GivesUp
  <2>3. CallIs(caCall[c], caItems)
    BY DEF CaInv
  <2>4. CallIs(R, caItems)
    BY <2>3 DEF CallIs
  <2>5. \A i \in Items : Settling(caCall[c], i) => Settling(R, i) \/ StatusTrue(i)
    BY DEF Settling
  <2>6. caDisk' \subseteq Paths /\ R.pc # "status"
        /\ (R.pc # "recalc" \/ caCall[c].pc # "store")
    BY <1>0 DEF CaTypes
  <2> QED BY <2>2, <2>4, <2>5, <2>6, CallOnly
<1> QED BY <1>1, <1>2

LEMMA CaptureIs ==
  ASSUME CaTypes, NEW q \in CallRecord, CallIs(q, caItems), NEW i \in Items, Open(i),
         q.op \in {"resync", "import"}
  PROVE  /\ Capture(q, i) \in CallRecord /\ CallIs(Capture(q, i), caItems)
         /\ Capture(q, i).pc = "rescan" /\ Capture(q, i).item = i /\ Capture(q, i).op = q.op
<1> PICK t \in BOOLEAN : t = TRUE
  OBVIOUS
<1> PICK rows : rows = FilesOf(i)
  OBVIOUS
<1> PICK R : R = [q EXCEPT !.pc = "rescan", !.item = i, !.same = t, !.rows = rows]
  OBVIOUS
<1>1. rows \subseteq Paths /\ i \in 0..MaxItems /\ "rescan" \in CaPcs
      /\ i # 0
  BY CatalogueAssumption DEF FilesOf, CaTypes, FileRecord, Items, CaPcs
<1>2. R \in CallRecord
  BY <1>1 DEF CallRecord
<1>3. /\ R.op = q.op /\ R.pc = "rescan" /\ R.item = i
      /\ R.fresh = q.fresh /\ R.missed = q.missed /\ R.work = q.work /\ R.eps = q.eps
      /\ R.prov = q.prov
  BY DEF CallRecord
<1>4. q.work = {}
  BY DEF CallIs
<1>5. CallIs(R, caItems)
  BY <1>1, <1>3, <1>4 DEF CallIs, Open
<1>6. Capture(q, i) = R
  BY Zenon DEF Capture
<1> QED BY <1>2, <1>3, <1>5, <1>6

LEMMA CaResyncKeeps ==
  ASSUME CaInv, NEW c \in CaCalls, NEW i \in Items, CaResync(c, i)
  PROVE  CaInv' /\ StepOk
<1>0. CaTypes
  BY DEF CaInv
<1> PICK o \in CallRecord : o = CaIdle
  BY IdleIs
<1> PICK q : q = [o EXCEPT !.op = "resync"]
  OBVIOUS
<1>1. o.pc = "idle" /\ o.item = 0 /\ o.work = {} /\ o.eps = {} /\ ~o.missed
      /\ "resync" \in CaOps
  BY DEF CaIdle, CaOps
<1>2. q \in CallRecord
  BY <1>1 DEF CallRecord
<1>3. /\ q.pc = "idle" /\ q.item = 0 /\ q.work = {} /\ q.eps = {} /\ ~q.missed
      /\ q.op = "resync"
  BY <1>1 DEF CallRecord
<1>4. CallIs(q, caItems)
  BY <1>3 DEF CallIs
<1>5. Open(i)
  BY DEF CaResync
<1> PICK R \in CallRecord : R = Capture(q, i)
  BY <1>0, <1>2, <1>3, <1>4, <1>5, CaptureIs
<1>6. CallIs(R, caItems) /\ R.pc = "rescan"
  <2>1. q.op \in {"resync", "import"}
    BY <1>3
  <2> QED BY ONLY <1>0, <1>2, <1>4, <1>5, <2>1, i \in Items, R = Capture(q, i), CaptureIs, Zenon
<1>7. caCall' = [caCall EXCEPT ![c] = R] /\ caCall[c].pc = "idle"
  BY DEF CaResync, CaAt
<1>8. /\ caItems' = caItems /\ caFiles' = caFiles /\ caOverlapped' = caOverlapped
      /\ caDisk' = caDisk /\ caListed' = caListed
  BY DEF CaResync
<1>9. caDisk' \subseteq Paths /\ CallIs(R, caItems)
  BY <1>0, <1>6, <1>8 DEF CaTypes
<1>10. \A j \in Items : Settling(caCall[c], j) => Settling(R, j) \/ StatusTrue(j)
  BY <1>7 DEF Settling
<1>11. R.pc # "status" /\ R.pc # "recalc"
  BY <1>6
<1> QED BY <1>7, <1>8, <1>9, <1>10, <1>11, CallOnly

LEMMA CaCaptureKeeps ==
  ASSUME CaInv, NEW c \in CaCalls, CaCapture(c)
  PROVE  CaInv' /\ StepOk
<1>0. CaTypes
  BY DEF CaInv
<1>1. /\ caItems' = caItems /\ caFiles' = caFiles /\ caOverlapped' = caOverlapped
      /\ caDisk' = caDisk /\ caListed' = caListed /\ caCall[c].pc = "capture"
  BY DEF CaCapture, CaAt
<1>2. CASE ~Open(caCall[c].item)
  <2>1. caCall' = GivesUp(c)
    BY <1>2 DEF CaCapture
  <2> QED BY <1>1, <2>1, GivesUpKeeps
<1>3. CASE Open(caCall[c].item)
  <2> PICK q \in CallRecord : q = caCall[c]
    BY <1>0, CallTypes
  <2>1. CallIs(q, caItems)
    BY DEF CaInv
  <2> PICK i \in Items : i = q.item
    BY <1>0, <1>1, <2>1, CallTypes DEF CallIs
  <2>2. q.op = "import"
    BY <1>1, <2>1 DEF CallIs
  <2> PICK R \in CallRecord : R = Capture(q, i)
    BY <1>0, <1>3, <2>1, <2>2, CaptureIs
  <2>3. CallIs(R, caItems) /\ R.pc = "rescan" /\ R.item = i /\ R.op = q.op
    BY <1>0, <1>3, <2>1, <2>2, CaptureIs
  <2>4. caCall' = [caCall EXCEPT ![c] = R]
    BY <1>3 DEF CaCapture
  <2>5. caDisk' \subseteq Paths /\ CallIs(R, caItems)
    BY <1>0, <1>1, <2>3 DEF CaTypes
  <2>6. \A j \in Items : Settling(caCall[c], j) => Settling(R, j) \/ StatusTrue(j)
    BY <2>2, <2>3 DEF Settling
  <2>7. R.pc # "status" /\ R.pc # "recalc"
    BY <2>3
  <2> QED BY <1>1, <2>4, <2>5, <2>6, <2>7, CallOnly
<1> QED BY <1>2, <1>3

LEMMA CaRescanKeeps ==
  ASSUME CaInv, NEW c \in CaCalls, CaRescan(c)
  PROVE  CaInv' /\ StepOk
<1>0. CaTypes
  BY DEF CaInv
<1> PICK q \in CallRecord : q = caCall[c]
  BY <1>0, CallTypes
<1>1. /\ caItems' = caItems /\ caFiles' = caFiles /\ caOverlapped' = caOverlapped
      /\ caDisk' = caDisk /\ caListed' = caListed /\ q.pc = "rescan"
  BY DEF CaRescan, CaAt
<1>2. CallIs(q, caItems) /\ q.rows \subseteq Paths
  BY <1>0, CallTypes DEF CaInv
<1>3. \E seen \in SUBSET Paths, absent \in SUBSET Paths, rows \in SUBSET Paths :
        /\ rows \subseteq absent
        /\ caCall' = [CaGoes(c, "reapply") EXCEPT ![c].seen = seen, ![c].absent = absent,
                                                  ![c].rows = rows]
  <2> DEFINE folders == {FolderOf[p] : p \in caCall[c].rows}
  <2> PICK failed : caCall' = [CaGoes(c, "reapply") EXCEPT
         ![c].seen = {p \in caDisk : FolderOf[p] \in folders \ failed},
         ![c].absent = {p \in Paths : FolderOf[p] \in folders \ failed} \ caDisk,
         ![c].rows = {p \in caCall[c].rows : FolderOf[p] \notin failed} \ caDisk]
    BY Zenon DEF CaRescan
  <2> PICK seen, absent, rows :
        /\ seen = {p \in caDisk : FolderOf[p] \in folders \ failed}
        /\ absent = {p \in Paths : FolderOf[p] \in folders \ failed} \ caDisk
        /\ rows = {p \in caCall[c].rows : FolderOf[p] \notin failed} \ caDisk
    OBVIOUS
  <2>1. seen \in SUBSET Paths /\ absent \in SUBSET Paths /\ rows \in SUBSET Paths
    BY <1>0, <1>2 DEF CaTypes
  <2>2. rows \subseteq absent
    BY <1>2
  <2> HIDE DEF folders
  <2> QED BY <2>1, <2>2
<1> PICK seen \in SUBSET Paths, absent \in SUBSET Paths, rows \in SUBSET Paths :
        /\ rows \subseteq absent
        /\ caCall' = [CaGoes(c, "reapply") EXCEPT ![c].seen = seen, ![c].absent = absent,
                                                  ![c].rows = rows]
  BY <1>3
<1> PICK R : R = [q EXCEPT !.pc = "reapply", !.seen = seen, !.absent = absent, !.rows = rows]
  OBVIOUS
<1>4. caCall \in [CaCalls -> CallRecord] /\ "reapply" \in CaPcs
  BY <1>0 DEF CaTypes, CaPcs
<1>5. caCall' = [caCall EXCEPT ![c] = R]
  BY <1>4 DEF CaGoes
<1>6. R \in CallRecord
  BY <1>4 DEF CallRecord
<1>7. /\ R.op = q.op /\ R.pc = "reapply" /\ R.absent = absent /\ R.item = q.item
      /\ R.fresh = q.fresh /\ R.missed = q.missed /\ R.work = q.work /\ R.eps = q.eps
      /\ R.prov = q.prov /\ R.rows = rows
  BY DEF CallRecord
<1>8. rows \subseteq R.absent /\ q.work = {}
  BY <1>1, <1>2, <1>7 DEF CallIs
<1>9. CallIs(R, caItems)
  BY <1>1, <1>2, <1>7, <1>8 DEF CallIs
<1>10. \A j \in Items : Settling(caCall[c], j) => Settling(R, j) \/ StatusTrue(j)
  BY <1>1, <1>7 DEF Settling
<1>11. R.pc # "status" /\ R.pc # "recalc" /\ caDisk' \subseteq Paths
  BY <1>0, <1>1, <1>7 DEF CaTypes
<1> QED BY <1>1, <1>5, <1>6, <1>9, <1>10, <1>11, CallOnly

LEMMA CaRecalcKeeps ==
  ASSUME CaInv, NEW c \in CaCalls, CaRecalc(c)
  PROVE  CaInv' /\ StepOk
<1>0. CaTypes
  BY DEF CaInv
<1> PICK q \in CallRecord : q = caCall[c]
  BY <1>0, CallTypes
<1>1. /\ caItems' = caItems /\ caFiles' = caFiles /\ caOverlapped' = caOverlapped
      /\ caDisk' = caDisk /\ caListed' = caListed /\ q.pc = "recalc"
  BY DEF CaRecalc, CaAt
<1>2. CallIs(q, caItems)
  BY DEF CaInv
<1> PICK i \in Items : i = q.item
  BY <1>0, <1>1, <1>2, CallTypes DEF CallIs
<1>3. caDisk' \subseteq Paths
  BY <1>0, <1>1 DEF CaTypes
<1>4. CASE Open(i) /\ caItems[i].prov # NoProvider /\ StatusOf(i) # caItems[i].status
  <2> PICK status \in Statuses, mon \in BOOLEAN : status = StatusOf(i) /\ mon = caItems[i].mon
    BY <1>0, StatusIs, ItemTypes
  <2> PICK R : R = [q EXCEPT !.pc = "status", !.status = status, !.mon = mon]
    OBVIOUS
  <2>1. caCall \in [CaCalls -> CallRecord] /\ "status" \in CaPcs
    BY <1>0 DEF CaTypes, CaPcs
  <2>2. caCall' = [CaGoes(c, "status") EXCEPT ![c].status = status, ![c].mon = mon]
    BY <1>4 DEF CaRecalc
  <2>3. caCall' = [caCall EXCEPT ![c] = R]
    BY <2>1, <2>2 DEF CaGoes
  <2>4. R \in CallRecord
    BY <2>1 DEF CallRecord
  <2>5. /\ R.op = q.op /\ R.pc = "status" /\ R.absent = q.absent /\ R.item = q.item
        /\ R.fresh = q.fresh /\ R.missed = q.missed /\ R.work = q.work /\ R.eps = q.eps
        /\ R.prov = q.prov /\ R.status = status /\ R.mon = mon
    BY DEF CallRecord
  <2>6. CallIs(R, caItems)
    BY <1>1, <1>2, <2>5 DEF CallIs
  <2>7. \A j \in Items : Settling(caCall[c], j) => Settling(R, j) \/ StatusTrue(j)
    BY <1>1, <2>5 DEF Settling
  <2>8. R.status = StatusOf(R.item) /\ R.mon = caItems[R.item].mon
    BY <2>5
  <2>9. R.pc # "recalc"
    BY <2>5
  <2> QED BY <1>1, <1>3, <2>3, <2>4, <2>6, <2>7, <2>8, <2>9, CallOnly
<1>5. CASE ~(Open(i) /\ caItems[i].prov # NoProvider /\ StatusOf(i) # caItems[i].status)
  <2>1. caCall' = AfterRecalc(c)
    BY <1>5 DEF CaRecalc
  <2> PICK R \in CallRecord :
           /\ AfterRecalc(c) = [caCall EXCEPT ![c] = R] /\ R.pc \in {"idle", "apply"}
           /\ \A items : CallIs(R, items)
    BY AfterRecalcIs
  <2>2. \A j \in Items : Settling(caCall[c], j) => Settling(R, j) \/ StatusTrue(j)
    BY <1>5 DEF Settling, StatusTrue
  <2> QED BY <1>1, <1>3, <2>1, <2>2, CallOnly
<1> QED BY <1>4, <1>5

LEMMA LowestIs ==
  ASSUME NEW T, T \subseteq Items, T # {}
  PROVE  Lowest(T) \in T
<1>1. T \subseteq Nat
  BY DEF Items
<1>2. \E x \in T : \A y \in T : ~(<<y, x>> \in OpToRel(<, Nat))
  BY <1>1, NatLessThanWellFounded, WFMin
<1>3. \A x, y \in Nat : ~(<<y, x>> \in OpToRel(<, Nat)) => x <= y
  BY DEF OpToRel
<1>4. \E x \in T : \A y \in T : x <= y
  BY <1>1, <1>2, <1>3
<1> QED BY <1>4 DEF Lowest

\* A call that begins with its first request to a provider.
LEMMA StartsKeeps ==
  ASSUME CaInv, NEW c \in CaCalls, NEW op \in CaOps, NEW i \in Items, NEW x \in Providers,
         Starts(c, op, "fetch", i, x), caCall[c].pc = "idle", Open(i),
         op = "refresh" => caItems[i].prov = x,
         caItems' = caItems, caFiles' = caFiles, caOverlapped' = caOverlapped,
         caDisk' = caDisk, caListed' = caListed
  PROVE  CaInv' /\ StepOk
<1>0. CaTypes
  BY DEF CaInv
<1> PICK o \in CallRecord : o = CaIdle
  BY IdleIs
<1> PICK R : R = [o EXCEPT !.op = op, !.pc = "fetch", !.item = i, !.prov = x]
  OBVIOUS
<1>1. o.work = {} /\ o.eps = {} /\ ~o.missed
  BY DEF CaIdle
<1>2. "fetch" \in CaPcs /\ i \in 0..MaxItems /\ i # 0
  BY CatalogueAssumption DEF CaPcs, Items
<1>3. R \in CallRecord
  BY <1>2 DEF CallRecord
<1>4. /\ R.op = op /\ R.pc = "fetch" /\ R.item = i /\ R.fresh = o.fresh /\ R.missed = o.missed
      /\ R.work = o.work /\ R.eps = o.eps /\ R.prov = x
  BY DEF CallRecord
<1>5. CallIs(R, caItems)
  BY <1>1, <1>2, <1>4 DEF CallIs, Open
<1>6. caCall' = [caCall EXCEPT ![c] = R]
  BY DEF Starts
<1>7. /\ caDisk' \subseteq Paths /\ R.pc # "status" /\ R.pc # "recalc"
  BY <1>0, <1>4 DEF CaTypes
<1>8. \A j \in Items : Settling(caCall[c], j) => Settling(R, j) \/ StatusTrue(j)
  BY DEF Settling
<1> QED BY <1>3, <1>5, <1>6, <1>7, <1>8, CallOnly

LEMMA StartingKeeps ==
  ASSUME CaInv, NEW c \in CaCalls, NEW i \in Items,
         \/ \E x \in Providers : CaManualMatch(c, i, x)
         \/ \E x \in Providers, full \in BOOLEAN : CaMatch(c, i, full, x)
         \/ CaRefresh(c, i)
  PROVE  CaInv' /\ StepOk
<1>1. "manual" \in CaOps /\ "match" \in CaOps /\ "refresh" \in CaOps
  BY DEF CaOps
<1>2. ASSUME NEW x \in Providers, CaManualMatch(c, i, x) PROVE CaInv' /\ StepOk
  <2>1. Starts(c, "manual", "fetch", i, x) /\ caCall[c].pc = "idle" /\ Open(i)
        /\ caItems' = caItems /\ caFiles' = caFiles /\ caOverlapped' = caOverlapped
        /\ caDisk' = caDisk /\ caListed' = caListed
    BY <1>2 DEF CaManualMatch, CaAt
  <2> QED BY <1>1, <2>1, StartsKeeps
<1>3. ASSUME NEW x \in Providers, NEW full \in BOOLEAN, CaMatch(c, i, full, x)
      PROVE  CaInv' /\ StepOk
  <2>1. Starts(c, "match", "fetch", i, x) /\ caCall[c].pc = "idle" /\ Open(i)
        /\ caItems' = caItems /\ caFiles' = caFiles /\ caOverlapped' = caOverlapped
        /\ caDisk' = caDisk /\ caListed' = caListed
    BY <1>3 DEF CaMatch, CaAt
  <2> QED BY <1>1, <2>1, StartsKeeps
<1>4. ASSUME CaRefresh(c, i) PROVE CaInv' /\ StepOk
  <2> PICK x \in Providers : x = caItems[i].prov
    BY <1>4, ItemTypes DEF CaRefresh, CaInv
  <2>1. Starts(c, "refresh", "fetch", i, x) /\ caCall[c].pc = "idle" /\ Open(i)
        /\ caItems' = caItems /\ caFiles' = caFiles /\ caOverlapped' = caOverlapped
        /\ caDisk' = caDisk /\ caListed' = caListed
    BY <1>4 DEF CaRefresh, CaAt
  <2> QED BY <1>1, <2>1, StartsKeeps
<1> QED BY <1>2, <1>3, <1>4

LEMMA CaAddKeeps ==
  ASSUME CaInv, NEW c \in CaCalls, NEW x \in Providers, NEW mon \in BOOLEAN, CaAdd(c, x, mon)
  PROVE  CaInv' /\ StepOk
<1>0. CaTypes
  BY DEF CaInv
<1> PICK o \in CallRecord : o = CaIdle
  BY IdleIs
<1> PICK i, pc : /\ i = IF Matched(x) = {} THEN 0 ELSE Lowest(Matched(x))
                 /\ pc = IF Matched(x) = {} THEN "fetch" ELSE "existing"
  OBVIOUS
<1> PICK R : R = [o EXCEPT !.op = "add", !.prov = x, !.mon = mon, !.item = i, !.pc = pc]
  OBVIOUS
<1>1. o.work = {} /\ o.eps = {} /\ ~o.missed
  BY DEF CaIdle
<1>2. pc \in CaPcs /\ pc \in {"fetch", "existing"} /\ "add" \in CaOps
  BY DEF CaPcs, CaOps
<1>3. i \in 0..MaxItems /\ (pc = "existing" => i # 0) /\ (i # 0 => caItems[i].state # "none")
  <2>1. CASE Matched(x) = {}
    BY <2>1, CatalogueAssumption
  <2>2. CASE Matched(x) # {}
    <3>1. Matched(x) \subseteq Items
      BY DEF Matched, InLibrary
    <3>2. i \in Matched(x)
      BY <2>2, <3>1, LowestIs
    <3> QED BY <3>2, CatalogueAssumption DEF Matched, InLibrary, Items
  <2> QED BY <2>1, <2>2
<1>4. R \in CallRecord
  <2>1. x \in Providers \cup {NoProvider} /\ i \in 0..MaxItems
    BY <1>3
  <2>2. /\ o \in CallRecord /\ mon \in BOOLEAN
        /\ R = [o EXCEPT !.op = "add", !.prov = x, !.mon = mon, !.item = i, !.pc = pc]
    OBVIOUS
  <2> QED BY ONLY <1>2, <2>1, <2>2, ZenonT(30) DEF CallRecord
<1>5. /\ R.op = "add" /\ R.pc = pc /\ R.item = i /\ R.fresh = o.fresh /\ R.missed = o.missed
      /\ R.work = o.work /\ R.eps = o.eps /\ R.prov = x
  BY DEF CallRecord
<1>6. CallIs(R, caItems)
  BY <1>1, <1>2, <1>3, <1>5 DEF CallIs
<1>7. caCall' = [caCall EXCEPT ![c] = R]
  BY DEF CaAdd
<1>8. /\ caItems' = caItems /\ caFiles' = caFiles /\ caOverlapped' = caOverlapped
      /\ caDisk' = caDisk /\ caListed' = caListed /\ caCall[c].pc = "idle"
  BY DEF CaAdd, CaAt
<1>9. /\ caDisk' \subseteq Paths /\ R.pc # "status" /\ R.pc # "recalc"
  BY <1>0, <1>2, <1>5, <1>8 DEF CaTypes
<1>10. \A j \in Items : Settling(caCall[c], j) => Settling(R, j) \/ StatusTrue(j)
  BY <1>8 DEF Settling
<1> QED BY <1>4, <1>6, <1>7, <1>8, <1>9, <1>10, CallOnly

LEMMA CaFetchKeeps ==
  ASSUME CaInv, NEW c \in CaCalls, CaFetch(c)
  PROVE  CaInv' /\ StepOk
<1>0. CaTypes
  BY DEF CaInv
<1> PICK q \in CallRecord : q = caCall[c]
  BY <1>0, CallTypes
<1>1. /\ caItems' = caItems /\ caFiles' = caFiles /\ caOverlapped' = caOverlapped
      /\ caDisk' = caDisk /\ caListed' = caListed /\ q.pc = "fetch"
  BY DEF CaFetch, CaAt
<1>2. CallIs(q, caItems)
  BY DEF CaInv
<1>3. q.prov \in Providers
  BY <1>1, <1>2 DEF CallIs
<1>4. CASE caCall' = CaReturns(c)
  BY <1>1, <1>4, CallEnds
<1>5. CASE caCall' # CaReturns(c)
  <2>1. \E eps \in SUBSET caListed[q.prov] :
          caCall' = [CaGoes(c, "store") EXCEPT ![c].eps = {<<q.prov, e>> : e \in eps}]
    BY <1>5 DEF CaFetch
  <2> PICK shown \in SUBSET caListed[q.prov] :
          caCall' = [CaGoes(c, "store") EXCEPT ![c].eps = {<<q.prov, e>> : e \in shown}]
    BY <2>1
  <2> PICK eps : eps = {<<q.prov, e>> : e \in shown}
    OBVIOUS
  <2> PICK R : R = [q EXCEPT !.pc = "store", !.eps = eps]
    OBVIOUS
  <2>2. caCall \in [CaCalls -> CallRecord] /\ "store" \in CaPcs
    BY <1>0 DEF CaTypes, CaPcs
  <2>3. shown \subseteq AnyEpisode
    BY <1>0, <1>3 DEF CaTypes
  <2>4. eps \subseteq Providers \X AnyEpisode /\ \A e \in eps : e[1] = q.prov
    BY <1>3, <2>3
  <2>5. R \in CallRecord
    BY <2>2, <2>4 DEF CallRecord
  <2>6. /\ R.op = q.op /\ R.pc = "store" /\ R.item = q.item /\ R.fresh = q.fresh
        /\ R.missed = q.missed /\ R.work = q.work /\ R.eps = eps /\ R.prov = q.prov
        /\ R.absent = q.absent
    BY DEF CallRecord
  <2>7. CallIs(R, caItems)
    BY <1>1, <1>2, <2>4, <2>6 DEF CallIs
  <2>8. caCall' = [CaGoes(c, "store") EXCEPT ![c].eps = eps]
    OBVIOUS
  <2>9. caCall' = [caCall EXCEPT ![c] = R]
    BY <2>2, <2>8 DEF CaGoes
  <2>10. \A j \in Items : Settling(caCall[c], j) => Settling(R, j) \/ StatusTrue(j)
    BY <1>1 DEF Settling
  <2>11. R.pc # "status" /\ R.pc # "recalc" /\ caDisk' \subseteq Paths
    BY <1>0, <1>1, <2>6 DEF CaTypes
  <2> QED BY <1>1, <2>5, <2>7, <2>9, <2>10, <2>11, CallOnly
<1> QED BY <1>4, <1>5

LEMMA CaLinkKeeps ==
  ASSUME CaInv, NEW c \in CaCalls, NEW i \in Items, NEW p \in Paths, CaLink(c, i, p)
  PROVE  CaInv' /\ StepOk
<1>0. CaTypes
  BY DEF CaInv
<1> PICK o \in CallRecord : o = CaIdle
  BY IdleIs
<1> PICK rows \in SUBSET Paths : rows = {p}
  OBVIOUS
<1> PICK R : R = [o EXCEPT !.op = "import", !.pc = "record", !.item = i, !.rows = rows]
  OBVIOUS
<1>1. o.work = {} /\ o.eps = {} /\ ~o.missed
  BY DEF CaIdle
<1>2. "record" \in CaPcs /\ "import" \in CaOps /\ i \in 0..MaxItems /\ i # 0
  BY CatalogueAssumption DEF CaPcs, CaOps, Items
<1>3. R \in CallRecord
  BY <1>2 DEF CallRecord
<1>4. /\ R.op = "import" /\ R.pc = "record" /\ R.item = i /\ R.fresh = o.fresh
      /\ R.missed = o.missed /\ R.work = o.work /\ R.eps = o.eps /\ R.prov = o.prov
  BY DEF CallRecord
<1>5. Open(i)
  BY DEF CaLink
<1>6. CallIs(R, caItems)
  BY <1>1, <1>2, <1>4, <1>5 DEF CallIs, Open
<1>7. caCall' = [caCall EXCEPT ![c] = R]
  BY DEF CaLink
<1>8. /\ caItems' = caItems /\ caFiles' = caFiles /\ caOverlapped' = caOverlapped
      /\ caDisk' \subseteq Paths
      /\ caListed' = caListed /\ caCall[c].pc = "idle"
  BY <1>0 DEF CaLink, CaAt, CaTypes
<1>9. R.pc # "status" /\ R.pc # "recalc"
  BY <1>4
<1>10. \A j \in Items : Settling(caCall[c], j) => Settling(R, j) \/ StatusTrue(j)
  BY <1>8 DEF Settling
<1> QED BY <1>3, <1>6, <1>7, <1>8, <1>9, <1>10, CallOnly

-----------------------------------------------------------------------------
(* The world outside                                                       *)

LEMMA WorldKeeps ==
  ASSUME CaInv, NEW p,
         \/ p \in Paths /\ (CaAppear(p) \/ CaVanish(p))
         \/ \E x \in Providers : CaAir(x)
  PROVE  CaInv' /\ StepOk
<1>0. CaTypes /\ caCall \in [CaCalls -> CallRecord]
  BY DEF CaInv, CaTypes
<1>1. caItems' = caItems /\ caFiles' = caFiles /\ caOverlapped' = caOverlapped
  BY DEF CaAppear, CaVanish, CaAir
<1>2. caListed' \in [Providers -> SUBSET AnyEpisode]
  <2>1. CASE CaAppear(p) \/ CaVanish(p)
    BY <1>0, <2>1 DEF CaAppear, CaVanish, CaTypes
  <2>2. ASSUME NEW x \in Providers, CaAir(x) PROVE caListed' \in [Providers -> SUBSET AnyEpisode]
    <3>1. Aired[2] \in SUBSET AnyEpisode
      BY DEF AnyEpisode
    <3> QED BY <1>0, <2>2, <3>1 DEF CaAir, CaTypes
  <2> QED BY <2>1, <2>2
<1>3. /\ caDisk' \subseteq Paths /\ caCall' \in [CaCalls -> CallRecord]
      /\ OthersStand({})
  <2>1. caCall' = caCall /\ caDisk' \subseteq Paths
    BY <1>0 DEF CaAppear, CaVanish, CaAir, CaTypes
  <2> QED BY <1>0, <2>1, WeakerSame DEF OthersStand
<1>4. CaTypes'
  BY <1>0, <1>1, <1>2, <1>3 DEF CaTypes
<1>5. \A i \in Items \ {} : Stays(i)
  BY <1>1 DEF Stays, FilesOf
<1>6. OnlyLostFilesForgotten
  BY <1>1 DEF OnlyLostFilesForgotten
<1>7. {} \subseteq CaCalls /\ {} \subseteq Items /\ caOverlapped \subseteq caOverlapped'
  BY <1>1
<1>8. (\A c \in {} : MoverStands(c, {})) /\ (\A i \in {} : ItemMoves(i, {}))
  OBVIOUS
<1> HIDE DEF OnlyLostFilesForgotten
<1> QED BY <1>3, <1>4, <1>5, <1>6, <1>7, <1>8, Frame

LEMMA CaRemoveFileKeeps ==
  ASSUME CaInv, NEW c \in CaCalls, NEW i \in Items, NEW p \in Paths, CaRemoveFile(c, i, p)
  PROVE  CaInv' /\ StepOk
<1>0. CaTypes
  BY DEF CaInv
<1> PICK o \in CallRecord : o = CaIdle
  BY IdleIs
<1> PICK R : R = [o EXCEPT !.op = "remove", !.pc = "forget", !.item = i, !.absent = {p}]
  OBVIOUS
<1>1. o.work = {} /\ o.eps = {} /\ ~o.missed
  BY DEF CaIdle
<1>2. "forget" \in CaPcs /\ "remove" \in CaOps /\ i \in 0..MaxItems /\ i # 0
  BY CatalogueAssumption DEF CaPcs, CaOps, Items
<1>3. R \in CallRecord
  BY <1>2 DEF CallRecord
<1>4. /\ R.op = "remove" /\ R.pc = "forget" /\ R.item = i /\ R.fresh = o.fresh
      /\ R.missed = o.missed /\ R.work = o.work /\ R.eps = o.eps /\ R.prov = o.prov
  BY DEF CallRecord
<1>5. Open(i) /\ caCall[c].pc = "idle"
  BY DEF CaRemoveFile, CaAt
<1>6. /\ caItems' = caItems /\ caFiles' = caFiles /\ caOverlapped' = caOverlapped
      /\ caListed' = caListed /\ caDisk' = caDisk \ {p}
  BY DEF CaRemoveFile
<1>7. CallIs(R, caItems')
  BY <1>1, <1>2, <1>4, <1>5, <1>6 DEF CallIs, Open
<1>8. caCall' = [caCall EXCEPT ![c] = R]
  BY DEF CaRemoveFile
<1>9. caCall \in [CaCalls -> CallRecord]
  BY <1>0 DEF CaTypes
<1>10. caCall' \in [CaCalls -> CallRecord] /\ caCall'[c] = R
       /\ \A d \in CaCalls \ {c} : caCall'[d] = caCall[d]
  BY <1>3, <1>8, <1>9
<1>11. OthersStand({c})
  BY <1>9, <1>10, WeakerSame DEF OthersStand
<1>12. CaTypes'
  BY <1>0, <1>6, <1>10 DEF CaTypes
<1>13. MoverStands(c, {})
  <2>1. Recalculated(caCall[c])'
    BY <1>4, <1>10 DEF Recalculated
  <2> QED BY <1>4, <1>5, <1>7, <1>10, <2>1 DEF MoverStands, Settling
<1>14. OnlyLostFilesForgotten
  BY <1>6 DEF OnlyLostFilesForgotten
<1>15. \A j \in Items \ {} : Stays(j)
  BY <1>6 DEF Stays, FilesOf
<1>16. {c} \subseteq CaCalls /\ {} \subseteq Items /\ caOverlapped \subseteq caOverlapped'
  BY <1>6
<1>17. (\A d \in {c} : MoverStands(d, {})) /\ (\A j \in {} : ItemMoves(j, {c}))
  BY <1>13
<1> HIDE DEF OnlyLostFilesForgotten
<1> QED BY <1>11, <1>12, <1>14, <1>15, <1>16, <1>17, Frame

-----------------------------------------------------------------------------
(* Steps that change an item                                               *)

\* A call that changes item i, or its files, and goes on to settle its status.
LEMMA MovesOn ==
  ASSUME CaInv, CaTypes', NEW c \in CaCalls, NEW i \in Items, NEW R \in CallRecord,
         CallIs(R, caItems'), R.item = i,
         R.pc = "recalc" \/ (R.pc = "capture" /\ R.op = "import"),
         Weaker(caCall'[c], R), \A d \in CaCalls \ {c} : Weaker(caCall'[d], caCall[d]),
         caDisk' = caDisk, \A j \in Items \ {i} : Stays(j),
         \A j \in Items \ {i} : ~Settling(caCall[c], j),
         caOverlapped \subseteq caOverlapped',
         \/ i \in caOverlapped'
         \/ \A d \in CaCalls : ~(caCall[d].item = i /\ caCall[d].pc = "status"),
         (caCall[c].pc = "store" /\ caCall[c].op = "match") => ~caCall[c].missed,
         ItemIs(caItems'[i]), caItems'[i].state # "none",
         caItems[i].state \in {"pending", "gone"} => caItems'[i].state # "open",
         caItems'[i].state = "gone" => ~Open(i),
         (Open(i) /\ caItems'[i].prov # caItems[i].prov) =>
           \A d \in CaCalls \ {c} : caCall'[d].item = i => ~caCall'[d].fresh,
         (caItems[i].state = "none" /\ caItems'[i].source = "request") =>
           \A j \in InLibrary : caItems[j].prov # caItems'[i].prov,
         OnlyLostFilesForgotten
  PROVE  CaInv' /\ StepOk
<1> PICK n : n = caCall'[c]
  OBVIOUS
<1>1. n.item = i /\ n.pc = R.pc /\ n.op = R.op
  BY DEF Weaker
<1>2. CallIs(n, caItems')
  <2>1. ItemsStand(caItems', caItems')
    BY DEF ItemsStand
  <2>3. n.fresh /\ R.item # 0 /\ MatchStands(R, caItems') => MatchStands(R, caItems')
    OBVIOUS
  <2>4. Weaker(n, R)
    OBVIOUS
  <2>5. CallIs(n, caItems')
    BY <2>1, <2>3, <2>4, CallKept
  <2> QED BY <2>5
<1>3. MoverStands(c, {i})
  BY <1>1, <1>2 DEF MoverStands, Recalculated
<1>4. OthersStand({c})
  BY DEF OthersStand
<1>5. Settling(caCall'[c], i)
  BY <1>1 DEF Settling
<1>6. Settled(i)'
  BY <1>5 DEF Settled, Settling
<1>7. ItemMoves(i, {c})
  BY <1>6 DEF ItemMoves, Open
<1>8. {c} \subseteq CaCalls /\ {i} \subseteq Items
  OBVIOUS
<1>9. (\A d \in {c} : MoverStands(d, {i})) /\ (\A j \in {i} : ItemMoves(j, {c}))
  BY <1>3, <1>7
<1> HIDE DEF OnlyLostFilesForgotten
<1> QED BY <1>4, <1>8, <1>9, Frame

\* The call c, about to recalculate the status of item i.
RecalcOf(c, i) == [caCall[c] EXCEPT !.pc = "recalc", !.item = i]

LEMMA RecalcIs ==
  ASSUME CaInv, NEW c \in CaCalls, NEW i \in Items, NEW items, items[i].state # "none"
  PROVE  /\ RecalcOf(c, i) \in CallRecord /\ CallIs(RecalcOf(c, i), items)
         /\ RecalcOf(c, i).item = i /\ RecalcOf(c, i).pc = "recalc"
<1>0. CaTypes /\ caCall \in [CaCalls -> CallRecord]
  BY DEF CaInv, CaTypes
<1> PICK q \in CallRecord : q = caCall[c]
  BY <1>0
<1> PICK R : R = [q EXCEPT !.pc = "recalc", !.item = i]
  OBVIOUS
<1>1. "recalc" \in CaPcs /\ i \in 0..MaxItems /\ i # 0
  BY CatalogueAssumption DEF CaPcs, Items
<1>2. R \in CallRecord
  BY <1>1 DEF CallRecord
<1>3. /\ R.op = q.op /\ R.pc = "recalc" /\ R.absent = q.absent /\ R.item = i
      /\ R.fresh = q.fresh /\ R.missed = q.missed /\ R.work = q.work /\ R.eps = q.eps
      /\ R.prov = q.prov
  BY DEF CallRecord
<1>4. CallIs(q, caItems)
  BY DEF CaInv
<1>5. CallIs(R, items)
  BY <1>1, <1>3, <1>4 DEF CallIs
<1>6. R = RecalcOf(c, i)
  BY DEF RecalcOf
<1> QED BY <1>2, <1>3, <1>5, <1>6

LEMMA RecalcGoes ==
  ASSUME CaInv, NEW c \in CaCalls, NEW i \in Items
  PROVE  [CaGoes(c, "recalc") EXCEPT ![c].item = i] = [caCall EXCEPT ![c] = RecalcOf(c, i)]
<1>1. caCall \in [CaCalls -> CallRecord]
  BY DEF CaInv, CaTypes
<1> QED BY <1>1 DEF CaGoes, RecalcOf

\* Stores, whatever the call: the item is open or new, and every call on it is told.
LEMMA StoresKeeps ==
  ASSUME CaInv, NEW c \in CaCalls, NEW i \in Items, NEW item \in ItemRecord,
         Stores(c, i, item), caCall[c].pc \in {"store", "existing"},
         (caCall[c].pc = "store" /\ caCall[c].op = "match") => ~caCall[c].missed,
         item.state = "open", caItems[i].state \in {"open", "none"}, ItemIs(item),
         (caItems[i].state = "none" /\ item.source = "request") =>
           \A j \in InLibrary : caItems[j].prov # item.prov,
         caFiles' = caFiles, caDisk' = caDisk, caListed' = caListed
  PROVE  CaInv' /\ StepOk
<1>0. CaTypes /\ caCall \in [CaCalls -> CallRecord] /\ caItems \in [Items -> ItemRecord]
  BY DEF CaInv, CaTypes
<1>1. caItems' = [caItems EXCEPT ![i] = item] /\ Changes(i)
  BY DEF Stores
<1>2. caItems' \in [Items -> ItemRecord] /\ caItems'[i] = item
      /\ \A j \in Items \ {i} : caItems'[j] = caItems[j]
  BY <1>0, <1>1
<1> PICK items : items = caItems' /\ items[i].state # "none"
  BY <1>2
<1> PICK R \in CallRecord : R = RecalcOf(c, i)
  BY RecalcIs
<1>20. CallIs(R, caItems') /\ R.item = i /\ R.pc = "recalc"
  BY RecalcIs
<1>21. [CaGoes(c, "recalc") EXCEPT ![c].item = i] = [caCall EXCEPT ![c] = R]
  BY RecalcGoes
<1> PICK goes : goes = [caCall EXCEPT ![c] = R]
  OBVIOUS
<1>3. goes \in [CaCalls -> CallRecord] /\ goes[c] = R /\ \A d \in CaCalls \ {c} : goes[d] = caCall[d]
  BY <1>0
<1> PICK calls : calls = Saved(goes, i)
  OBVIOUS
<1>4. /\ calls \in [CaCalls -> CallRecord]
      /\ \A d \in CaCalls : Weaker(calls[d], goes[d]) /\ (goes[d].item = i => ~calls[d].fresh)
  BY <1>3, SavedIs
<1>5. \A d \in CaCalls : calls[d].item = goes[d].item
  BY <1>4 DEF Weaker
<1>6. caCall' = IF caCall[c].op = "manual" THEN Decided(calls, i) ELSE calls
  BY <1>21 DEF Stores
<1>7. /\ caCall' \in [CaCalls -> CallRecord]
      /\ \A d \in CaCalls : Weaker(caCall'[d], calls[d])
  <2>1. CASE caCall[c].op = "manual"
    <3>1. caCall' = Decided(calls, i)
      BY <1>6, <2>1
    <3>2. \A d \in CaCalls : calls[d].item = i => ~calls[d].fresh
      BY <1>4, <1>5
    <3> QED BY <1>4, <3>1, <3>2, DecidedIs
  <2>2. CASE caCall[c].op # "manual"
    BY <1>4, <1>6, <2>2, WeakerSame
  <2> QED BY <2>1, <2>2
<1>8. \A d \in CaCalls : Weaker(caCall'[d], goes[d]) /\ (goes[d].item = i => ~caCall'[d].fresh)
  <2> SUFFICES ASSUME NEW d \in CaCalls
               PROVE  Weaker(caCall'[d], goes[d]) /\ (goes[d].item = i => ~caCall'[d].fresh)
    OBVIOUS
  <2>1. Weaker(caCall'[d], calls[d]) /\ Weaker(calls[d], goes[d])
        /\ (goes[d].item = i => ~calls[d].fresh)
    BY <1>4, <1>7
  <2>2. Weaker(caCall'[d], goes[d])
    BY <2>1, WeakerTwice
  <2>3. caCall'[d].fresh => calls[d].fresh
    BY <2>1 DEF Weaker
  <2> QED BY <2>1, <2>2, <2>3
<1>9. caOverlapped \subseteq caOverlapped' /\ caOverlapped' \subseteq Items
      /\ \/ i \in caOverlapped'
         \/ \A d \in CaCalls : ~(caCall[d].item = i /\ caCall[d].pc = "status")
  BY <1>0, <1>1, ChangesIs
<1>10. CaTypes'
  BY <1>0, <1>2, <1>7, <1>9 DEF CaTypes
<1>11. Weaker(caCall'[c], R) /\ \A d \in CaCalls \ {c} : Weaker(caCall'[d], caCall[d])
  BY <1>3, <1>8
<1>12. \A d \in CaCalls \ {c} : caCall'[d].item = i => ~caCall'[d].fresh
  BY <1>3, <1>8 DEF Weaker
<1>13. \A j \in Items \ {i} : Stays(j) /\ ~Settling(caCall[c], j)
  BY <1>2 DEF Stays, FilesOf, Settling
<1>14. OnlyLostFilesForgotten
  BY DEF OnlyLostFilesForgotten
<1>15. ItemIs(caItems'[i]) /\ caItems'[i].state = "open"
  BY <1>2
<1>16. (caItems[i].state = "none" /\ caItems'[i].source = "request") =>
           \A j \in InLibrary : caItems[j].prov # caItems'[i].prov
  BY <1>2
<1> HIDE DEF OnlyLostFilesForgotten
<1> QED BY <1>9, <1>10, <1>11, <1>12, <1>13, <1>14, <1>15, <1>16, <1>20, MovesOn

LEMMA GivesUpOnKeeps ==
  ASSUME CaInv, NEW c \in CaCalls, GivesUpOn(c), caCall[c].pc \in {"store", "existing"},
         caFiles' = caFiles, caDisk' = caDisk, caListed' = caListed
  PROVE  CaInv' /\ StepOk
<1>1. caCall' = CaReturns(c) /\ caItems' = caItems /\ caOverlapped' = caOverlapped
  BY DEF GivesUpOn
<1> QED BY <1>1, CallEnds

\* A match is stored for the version of the item it was found for, unless a user decided.
LEMMA CaReplaceMatchKeeps ==
  ASSUME CaInv, NEW c \in CaCalls, CaReplaceMatch(c)
  PROVE  CaInv' /\ StepOk
<1>0. CaTypes
  BY DEF CaInv
<1>1. /\ caCall[c].pc = "store" /\ caCall[c].op \in {"match", "manual"}
      /\ caFiles' = caFiles /\ caDisk' = caDisk /\ caListed' = caListed
  BY DEF CaReplaceMatch, ReplaceMatch, CaAt
<1>2. CASE GivesUpOn(c)
  BY <1>1, <1>2, GivesUpOnKeeps
<1>3. CASE ~GivesUpOn(c)
  <2> PICK q \in CallRecord : q = caCall[c]
    BY <1>0, CallTypes
  <2>1. CallIs(q, caItems)
    BY DEF CaInv
  <2>2. q.item # 0
    BY <1>1, <2>1 DEF CallIs
  <2> PICK i \in Items : i = q.item
    BY <1>0, <2>2, CallTypes
  <2> PICK it \in ItemRecord : it = caItems[i]
    BY <1>0, ItemTypes
  <2> PICK status : status = IF it.source = "request" THEN it.status ELSE "available"
    OBVIOUS
  <2> PICK item : item = [it EXCEPT !.prov = q.prov, !.eps = q.eps, !.status = status]
    OBVIOUS
  <2>3. Open(i) /\ q.fresh /\ Stores(c, i, item)
    BY <1>3 DEF CaReplaceMatch, ReplaceMatch
  <2>4. it.state = "open"
    BY <2>3 DEF Open
  <2>5. /\ status \in Statuses /\ q.prov \in Providers \cup {NoProvider}
        /\ q.eps \subseteq Providers \X AnyEpisode
    BY <1>0, CallTypes DEF ItemRecord, Statuses
  <2>6. item \in ItemRecord
    <3>1. /\ it \in ItemRecord
          /\ item = [it EXCEPT !.prov = q.prov, !.eps = q.eps, !.status = status]
      OBVIOUS
    <3> QED BY ONLY <2>5, <3>1, ZenonT(30) DEF ItemRecord
  <2>7. item.state = "open" /\ item.prov = q.prov /\ item.eps = q.eps
    BY <2>4 DEF ItemRecord
  <2>8. ItemIs(item)
    BY <2>1, <2>7 DEF ItemIs, CallIs
  <2>9. ~caCall[c].missed
    BY <2>1, <2>3 DEF CallIs
  <2>10. caItems[i].state = "open"
    BY <2>4
  <2> QED BY <1>1, <2>3, <2>6, <2>7, <2>8, <2>9, <2>10, StoresKeeps
<1> QED BY <1>2, <1>3

\* New episodes are those of the match the item has.
LEMMA CaRefreshMatchKeeps ==
  ASSUME CaInv, NEW c \in CaCalls, CaRefreshMatch(c)
  PROVE  CaInv' /\ StepOk
<1>0. CaTypes
  BY DEF CaInv
<1>1. /\ caCall[c].pc = "store" /\ caCall[c].op = "refresh"
      /\ caFiles' = caFiles /\ caDisk' = caDisk /\ caListed' = caListed
  BY DEF CaRefreshMatch, RefreshMatch, CaAt
<1>2. CASE GivesUpOn(c)
  BY <1>1, <1>2, GivesUpOnKeeps
<1>3. CASE ~GivesUpOn(c)
  <2> PICK q \in CallRecord : q = caCall[c]
    BY <1>0, CallTypes
  <2>1. CallIs(q, caItems)
    BY DEF CaInv
  <2>2. q.item # 0
    BY <1>1, <2>1 DEF CallIs
  <2> PICK i \in Items : i = q.item
    BY <1>0, <2>2, CallTypes
  <2> PICK it \in ItemRecord : it = caItems[i]
    BY <1>0, ItemTypes
  <2>20. PICK new : new = q.eps \ it.eps
    OBVIOUS
  <2>21. PICK eps, want : /\ eps = it.eps \cup new
                          /\ want = IF it.mon THEN it.want \cup {e[2] : e \in new} ELSE it.want
    OBVIOUS
  <2>22. PICK item : item = [it EXCEPT !.eps = eps, !.want = want]
    OBVIOUS
  <2>3. Open(i) /\ q.fresh /\ Stores(c, i, item)
    BY <1>3, <2>20, <2>21, <2>22 DEF CaRefreshMatch, RefreshMatch
  <2>4. it.state = "open"
    BY <2>3 DEF Open
  <2>5. /\ it.eps \subseteq Providers \X AnyEpisode /\ it.want \subseteq AnyEpisode
        /\ new \subseteq Providers \X AnyEpisode
    BY <1>0, <2>20, CallTypes DEF ItemRecord
  <2>6. eps \subseteq Providers \X AnyEpisode /\ want \subseteq AnyEpisode
    BY <2>5, <2>21
  <2>7. item \in ItemRecord
    BY <2>6, <2>22 DEF ItemRecord
  <2>8. item.state = "open" /\ item.prov = it.prov /\ item.eps = eps /\ item.source = it.source
    BY <2>4, <2>22 DEF ItemRecord
  <2>9. it.prov = q.prov
    BY <1>1, <2>1, <2>3, <2>4 DEF CallIs
  <2>10. ItemIs(it)
    BY DEF CaInv
  <2>11. ItemIs(item)
    BY <2>1, <2>8, <2>9, <2>10, <2>20, <2>21 DEF ItemIs, CallIs
  <2>12. caItems[i].state = "open"
    BY <2>4
  <2> QED BY <1>1, <2>3, <2>7, <2>8, <2>11, <2>12, StoresKeeps
<1> QED BY <1>2, <1>3

LEMMA JoinsKeeps ==
  ASSUME CaInv, NEW c \in CaCalls, NEW i \in Items, Joins(c, i),
         caCall[c].pc \in {"store", "existing"}, caCall[c].pc = "store" => caCall[c].op = "add",
         caFiles' = caFiles, caDisk' = caDisk, caListed' = caListed
  PROVE  CaInv' /\ StepOk
<1>0. CaTypes
  BY DEF CaInv
<1>1. CASE GivesUpOn(c)
  BY <1>1, GivesUpOnKeeps
<1>2. CASE ~GivesUpOn(c)
  <2> PICK it \in ItemRecord : it = caItems[i]
    BY <1>0, ItemTypes
  <2>1. Open(i) /\ \E more \in SUBSET Episodes :
                     Stores(c, i, [it EXCEPT !.mon = TRUE, !.want = it.want \cup more])
    BY <1>2 DEF Joins
  <2> PICK more \in SUBSET Episodes :
             Stores(c, i, [it EXCEPT !.mon = TRUE, !.want = it.want \cup more])
    BY <2>1
  <2> PICK t \in BOOLEAN : t = TRUE
    OBVIOUS
  <2> PICK want : want = it.want \cup more
    OBVIOUS
  <2> PICK item : item = [it EXCEPT !.mon = t, !.want = want]
    OBVIOUS
  <2>2. Stores(c, i, item)
    BY Zenon
  <2>3. it.want \subseteq AnyEpisode /\ it.state = "open"
    BY <2>1 DEF ItemRecord, Open
  <2>4. want \subseteq AnyEpisode
    BY <2>3 DEF AnyEpisode
  <2>5. item \in ItemRecord
    BY <2>4 DEF ItemRecord
  <2>6. item.state = "open" /\ item.prov = it.prov /\ item.eps = it.eps /\ item.source = it.source
    BY <2>3 DEF ItemRecord
  <2>7. ItemIs(it)
    BY DEF CaInv
  <2>8. ItemIs(item)
    BY <2>6, <2>7 DEF ItemIs
  <2>9. caItems[i].state = "open"
    BY <2>3
  <2> QED BY <2>2, <2>5, <2>6, <2>8, <2>9, StoresKeeps
<1> QED BY <1>1, <1>2

LEMMA CaJoinKeeps ==
  ASSUME CaInv, NEW c \in CaCalls, CaJoin(c)
  PROVE  CaInv' /\ StepOk
<1>0. CaTypes
  BY DEF CaInv
<1>1. /\ caCall[c].pc = "existing" /\ Joins(c, caCall[c].item)
      /\ caFiles' = caFiles /\ caDisk' = caDisk /\ caListed' = caListed
  BY DEF CaJoin, CaAt
<1>2. caCall[c].item \in Items
  BY <1>0, <1>1, CallTypes DEF CaInv, CallIs
<1> QED BY <1>1, <1>2, JoinsKeeps

\* An item is made only for a series that no item is matched with.
LEMMA CaCreateKeeps ==
  ASSUME CaInv, NEW c \in CaCalls, CaCreate(c)
  PROVE  CaInv' /\ StepOk
<1>0. CaTypes
  BY DEF CaInv
<1>1. /\ caCall[c].pc = "store" /\ caCall[c].op = "add"
      /\ caFiles' = caFiles /\ caDisk' = caDisk /\ caListed' = caListed
  BY DEF CaCreate, CaAt
<1> PICK q \in CallRecord : q = caCall[c]
  BY <1>0, CallTypes
<1> PICK found : found = Matched(q.prov)
  OBVIOUS
<1>2. CASE found # {}
  <2>1. found \subseteq Items
    BY DEF Matched, InLibrary
  <2>2. Lowest(found) \in Items
    BY <1>2, <2>1, LowestIs
  <2>3. Joins(c, Lowest(found))
    BY <1>2 DEF CaCreate
  <2> QED BY <1>1, <2>2, <2>3, JoinsKeeps
<1>3. CASE found = {}
  <2>1. Creates(c)
    BY <1>3 DEF CaCreate
  <2>0. Unused # {} /\ Unused \subseteq Items
    BY <2>1 DEF Unused, Creates
  <2>p. Lowest(Unused) \in Unused
    BY <2>0, LowestIs, Zenon
  <2> PICK i \in Items : i = Lowest(Unused) /\ caItems[i].state = "none"
    BY <2>p, Zenon DEF Unused
  <2>2. \E want \in SUBSET {e[2] : e \in q.eps} :
          Stores(c, i, [NoItem EXCEPT !.state = "open", !.status = "requested",
         !.source = "request", !.mon = q.mon, !.want = want, !.prov = q.prov, !.eps = q.eps])
    BY <2>1 DEF Creates
  <2> PICK want \in SUBSET {e[2] : e \in q.eps} :
          Stores(c, i, [NoItem EXCEPT !.state = "open", !.status = "requested",
         !.source = "request", !.mon = q.mon, !.want = want, !.prov = q.prov, !.eps = q.eps])
    BY <2>2
  <2> PICK item : item = [NoItem EXCEPT !.state = "open", !.status = "requested",
         !.source = "request", !.mon = q.mon, !.want = want, !.prov = q.prov, !.eps = q.eps]
    OBVIOUS
  <2>3. Stores(c, i, item)
    BY Zenon
  <2>4. /\ q.prov \in Providers \cup {NoProvider} /\ q.eps \subseteq Providers \X AnyEpisode
        /\ q.mon \in BOOLEAN
    BY <1>0, CallTypes
  <2>5. want \subseteq AnyEpisode
    BY <2>4
  <2>6. item = [state |-> "open", status |-> "requested", source |-> "request", mon |-> q.mon,
                want |-> want, prov |-> q.prov, eps |-> q.eps]
    BY DEF NoItem
  <2>7. item \in ItemRecord
    BY <2>4, <2>5, <2>6 DEF ItemRecord, Statuses
  <2>8. item.state = "open" /\ item.prov = q.prov /\ item.eps = q.eps
    BY <2>6
  <2>9. CallIs(q, caItems)
    BY DEF CaInv
  <2>10. ItemIs(item)
    BY <2>8, <2>9 DEF ItemIs, CallIs
  <2>11. \A j \in InLibrary : caItems[j].prov # item.prov
    BY <1>3, <2>8 DEF Matched
  <2> QED BY <1>1, <2>3, <2>7, <2>8, <2>10, <2>11, StoresKeeps
<1> QED BY <1>2, <1>3

-----------------------------------------------------------------------------
(* One transaction, and the settings                                       *)

\* An item that is left without a match, or out of the library.
LEMMA ItemLeaves ==
  ASSUME CaInv, CaTypes', NEW i \in Items, \A d \in CaCalls : Weaker(caCall'[d], caCall[d]),
         caDisk' = caDisk, \A j \in Items \ {i} : Stays(j),
         caOverlapped \subseteq caOverlapped', caItems[i].state \in {"open", "pending"},
         ItemIs(caItems'[i]), caItems'[i].state # "none",
         caItems'[i].state = "gone" => caItems[i].state # "open",
         \/ caItems'[i].state # "open"
         \/ /\ caItems[i].state = "open" /\ caItems'[i].prov = NoProvider
            /\ \A d \in CaCalls : caCall'[d].item = i => ~caCall'[d].fresh
            /\ \/ i \in caOverlapped'
               \/ \A d \in CaCalls : ~(caCall[d].item = i /\ caCall[d].pc = "status"),
         OnlyLostFilesForgotten
  PROVE  CaInv' /\ StepOk
<1>1. OthersStand({})
  BY DEF OthersStand
<1>2. StatusTrue(i)'
  BY DEF StatusTrue, Open
<1>3. Settled(i)'
  BY <1>2 DEF Settled
<1>4. ItemMoves(i, {})
  BY <1>3 DEF ItemMoves, Open
<1>5. {} \subseteq CaCalls /\ {i} \subseteq Items /\ (\A c \in {} : MoverStands(c, {i}))
      /\ (\A j \in {i} : ItemMoves(j, {}))
  BY <1>4
<1> PICK moving, changed : moving = {} /\ changed = {i}
  OBVIOUS
<1>6. /\ moving \subseteq CaCalls /\ changed \subseteq Items /\ OthersStand(moving)
      /\ (\A c \in moving : MoverStands(c, changed)) /\ (\A j \in changed : ItemMoves(j, moving))
      /\ \A j \in Items \ changed : Stays(j)
  BY <1>1, <1>5
<1>7. CaInv /\ CaTypes' /\ caOverlapped \subseteq caOverlapped' /\ OnlyLostFilesForgotten
  OBVIOUS
<1> HIDE DEF OnlyLostFilesForgotten
<1> QED BY <1>6, <1>7, Frame

LEMMA CaUnmatchKeeps ==
  ASSUME CaInv, NEW i \in Items, CaUnmatch(i)
  PROVE  CaInv' /\ StepOk
<1>0. CaTypes /\ caCall \in [CaCalls -> CallRecord] /\ caItems \in [Items -> ItemRecord]
  BY DEF CaInv, CaTypes
<1> PICK it \in ItemRecord : it = caItems[i]
  BY <1>0
<1>1. PICK status : status = IF it.source = "request" THEN "requested" ELSE "new"
  OBVIOUS
<1>2. PICK item : item = [it EXCEPT !.prov = NoProvider, !.eps = {}, !.status = status]
  OBVIOUS
<1>3. caItems' = [caItems EXCEPT ![i] = item]
  BY <1>1, <1>2 DEF CaUnmatch
<1>4. status \in Statuses /\ it.state = "open"
  BY <1>1 DEF Statuses, CaUnmatch, Open
<1>5. item \in ItemRecord /\ item.state = "open" /\ item.prov = NoProvider /\ item.eps = {}
  BY <1>2, <1>4 DEF ItemRecord
<1>6. caItems' \in [Items -> ItemRecord] /\ caItems'[i] = item
      /\ \A j \in Items \ {i} : caItems'[j] = caItems[j]
  BY <1>0, <1>3, <1>5
<1>7. /\ caFiles' = caFiles /\ caDisk' = caDisk /\ caListed' = caListed /\ Changes(i)
      /\ caCall' = Decided(Saved(caCall, i), i)
  BY DEF CaUnmatch
<1> PICK calls : calls = Saved(caCall, i)
  OBVIOUS
<1>8. /\ calls \in [CaCalls -> CallRecord]
      /\ \A d \in CaCalls : Weaker(calls[d], caCall[d]) /\ (caCall[d].item = i => ~calls[d].fresh)
  BY <1>0, SavedIs
<1>9. \A d \in CaCalls : calls[d].item = i => ~calls[d].fresh
  BY <1>8 DEF Weaker
<1>10. /\ caCall' \in [CaCalls -> CallRecord]
       /\ \A d \in CaCalls : Weaker(caCall'[d], calls[d])
  BY <1>7, <1>8, <1>9, DecidedIs
<1>11. \A d \in CaCalls : Weaker(caCall'[d], caCall[d]) /\ (caCall'[d].item = i => ~caCall'[d].fresh)
  <2> SUFFICES ASSUME NEW d \in CaCalls
               PROVE  Weaker(caCall'[d], caCall[d]) /\ (caCall'[d].item = i => ~caCall'[d].fresh)
    OBVIOUS
  <2>1. Weaker(caCall'[d], calls[d]) /\ Weaker(calls[d], caCall[d])
    BY <1>8, <1>10
  <2>2. Weaker(caCall'[d], caCall[d])
    BY <2>1, WeakerTwice
  <2>3. caCall'[d].item = calls[d].item /\ (caCall'[d].fresh => calls[d].fresh)
    BY <2>1 DEF Weaker
  <2> QED BY <1>9, <2>2, <2>3
<1>12. caOverlapped \subseteq caOverlapped' /\ caOverlapped' \subseteq Items
      /\ \/ i \in caOverlapped'
         \/ \A d \in CaCalls : ~(caCall[d].item = i /\ caCall[d].pc = "status")
  BY <1>0, <1>7, ChangesIs
<1>13. CaTypes'
  BY <1>0, <1>6, <1>7, <1>10, <1>12 DEF CaTypes
<1>14. \A j \in Items \ {i} : Stays(j)
  BY <1>6, <1>7 DEF Stays, FilesOf
<1>15. ItemIs(caItems'[i]) /\ caItems'[i].state = "open" /\ caItems'[i].prov = NoProvider
       /\ caItems[i].state = "open"
  BY <1>4, <1>5, <1>6 DEF ItemIs
<1>16. OnlyLostFilesForgotten
  BY <1>7 DEF OnlyLostFilesForgotten
<1> HIDE DEF OnlyLostFilesForgotten
<1> QED BY <1>7, <1>11, <1>12, <1>13, <1>14, <1>15, <1>16, ItemLeaves

LEMMA CaClaimKeeps ==
  ASSUME CaInv, NEW i \in Items, CaClaim(i)
  PROVE  CaInv' /\ StepOk
<1>0. CaTypes /\ caCall \in [CaCalls -> CallRecord] /\ caItems \in [Items -> ItemRecord]
  BY DEF CaInv, CaTypes
<1> PICK it \in ItemRecord : it = caItems[i]
  BY <1>0
<1> PICK f \in BOOLEAN : f = FALSE
  OBVIOUS
<1>1. PICK item : item = [it EXCEPT !.state = "pending", !.mon = f]
  OBVIOUS
<1>2. caItems' = [caItems EXCEPT ![i] = item] /\ it.state = "open"
  BY <1>1 DEF CaClaim, Open
<1>3. item \in ItemRecord /\ item.state = "pending" /\ item.prov = it.prov /\ item.eps = it.eps
  BY <1>1 DEF ItemRecord
<1>4. caItems' \in [Items -> ItemRecord] /\ caItems'[i] = item
      /\ \A j \in Items \ {i} : caItems'[j] = caItems[j]
  BY <1>0, <1>2, <1>3
<1>5. /\ caFiles' = caFiles /\ caDisk' = caDisk /\ caListed' = caListed
      /\ caCall' = Saved(caCall, i) /\ caOverlapped' = caOverlapped
  BY DEF CaClaim
<1>6. caCall' \in [CaCalls -> CallRecord] /\ \A d \in CaCalls : Weaker(caCall'[d], caCall[d])
  BY <1>0, <1>5, SavedIs
<1>7. CaTypes'
  BY <1>0, <1>4, <1>5, <1>6 DEF CaTypes
<1>8. \A j \in Items \ {i} : Stays(j)
  BY <1>4, <1>5 DEF Stays, FilesOf
<1>9. ItemIs(it)
  BY DEF CaInv
<1>10. ItemIs(caItems'[i]) /\ caItems'[i].state = "pending" /\ caItems[i].state = "open"
  BY <1>2, <1>3, <1>4, <1>9 DEF ItemIs
<1>11. OnlyLostFilesForgotten
  BY <1>5 DEF OnlyLostFilesForgotten
<1> HIDE DEF OnlyLostFilesForgotten
<1> QED BY <1>5, <1>6, <1>7, <1>8, <1>10, <1>11, ItemLeaves

LEMMA GoneIs ==
  LET item == [NoItem EXCEPT !.state = "gone"]
  IN  item \in ItemRecord /\ ItemIs(item) /\ item.state = "gone"
<1>1. PICK f \in BOOLEAN : f = FALSE
  OBVIOUS
<1>2. PICK item : item = [NoItem EXCEPT !.state = "gone"]
  OBVIOUS
<1>3. item = [state |-> "gone", status |-> "new", source |-> "disk", mon |-> FALSE,
              want |-> {}, prov |-> NoProvider, eps |-> {}]
  BY <1>2 DEF NoItem
<1>4. item = [state |-> "gone", status |-> "new", source |-> "disk", mon |-> f,
              want |-> {}, prov |-> NoProvider, eps |-> {}]
  BY <1>1, <1>3, Zenon
<1>5. item \in ItemRecord
  BY <1>4 DEF ItemRecord, Statuses
<1>6. ItemIs(item) /\ item.state = "gone"
  BY <1>4 DEF ItemIs
<1> QED BY <1>2, <1>5, <1>6

LEMMA CaDeleteKeeps ==
  ASSUME CaInv, NEW i \in Items, CaDelete(i)
  PROVE  CaInv' /\ StepOk
<1>0. CaTypes /\ caCall \in [CaCalls -> CallRecord] /\ caItems \in [Items -> ItemRecord]
  BY DEF CaInv, CaTypes
<1> PICK item : item = [NoItem EXCEPT !.state = "gone"]
  OBVIOUS
<1>1. item \in ItemRecord /\ ItemIs(item) /\ item.state = "gone"
  BY GoneIs
<1>2. caItems' = [caItems EXCEPT ![i] = item] /\ caItems[i].state = "pending"
  BY DEF CaDelete
<1>3. caItems' \in [Items -> ItemRecord] /\ caItems'[i] = item
      /\ \A j \in Items \ {i} : caItems'[j] = caItems[j]
  BY <1>0, <1>1, <1>2
<1>4. /\ caFiles' = {f \in caFiles : f.item # i} /\ caDisk' = caDisk /\ caListed' = caListed
      /\ caCall' = Refiled(caCall, i) /\ caOverlapped' = caOverlapped
  BY DEF CaDelete
<1>5. caCall' \in [CaCalls -> CallRecord] /\ \A d \in CaCalls : Weaker(caCall'[d], caCall[d])
  BY <1>0, <1>4, RefiledIs
<1>6. CaTypes'
  BY <1>0, <1>3, <1>4, <1>5 DEF CaTypes
<1>7. \A j \in Items \ {i} : Stays(j)
  BY <1>3, <1>4 DEF Stays, FilesOf
<1>8. ItemIs(caItems'[i]) /\ caItems'[i].state = "gone"
  BY <1>1, <1>3
<1>9. OnlyLostFilesForgotten
  BY <1>2, <1>4 DEF OnlyLostFilesForgotten
<1> HIDE DEF OnlyLostFilesForgotten
<1> QED BY <1>2, <1>4, <1>5, <1>6, <1>7, <1>8, <1>9, ItemLeaves

LEMMA CaSettingsKeeps ==
  ASSUME CaInv, NEW c \in CaCalls, NEW i \in Items, NEW mon \in BOOLEAN,
         NEW want \in SUBSET Episodes, CaSettings(c, i, mon, want)
  PROVE  CaInv' /\ StepOk
<1>0. CaTypes /\ caCall \in [CaCalls -> CallRecord] /\ caItems \in [Items -> ItemRecord]
  BY DEF CaInv, CaTypes
<1> PICK it \in ItemRecord : it = caItems[i]
  BY <1>0
<1>1. PICK item : item = [it EXCEPT !.mon = mon, !.want = want]
  OBVIOUS
<1>2. caItems' = [caItems EXCEPT ![i] = item] /\ it.state = "open" /\ caCall[c].pc = "idle"
  BY <1>1 DEF CaSettings, Open, CaAt
<1>3. want \subseteq AnyEpisode
  BY DEF AnyEpisode
<1>4. item \in ItemRecord /\ item.state = "open" /\ item.prov = it.prov /\ item.eps = it.eps
  BY <1>1, <1>2, <1>3 DEF ItemRecord
<1>5. caItems' \in [Items -> ItemRecord] /\ caItems'[i] = item
      /\ \A j \in Items \ {i} : caItems'[j] = caItems[j]
  BY <1>0, <1>2, <1>4
<1> PICK o \in CallRecord : o = CaIdle
  BY IdleIs
<1>6. PICK R : R = [o EXCEPT !.op = "settings", !.pc = "recalc", !.item = i]
  OBVIOUS
<1>7. o.work = {} /\ o.eps = {} /\ ~o.missed
  BY DEF CaIdle
<1>8. "recalc" \in CaPcs /\ "settings" \in CaOps /\ i \in 0..MaxItems /\ i # 0
  BY CatalogueAssumption DEF CaPcs, CaOps, Items
<1>9. R \in CallRecord
  BY <1>6, <1>8 DEF CallRecord
<1>10. /\ R.op = "settings" /\ R.pc = "recalc" /\ R.item = i /\ R.fresh = o.fresh
       /\ R.missed = o.missed /\ R.work = o.work /\ R.eps = o.eps /\ R.prov = o.prov
  BY <1>6 DEF CallRecord
<1>11. CallIs(R, caItems')
  BY <1>4, <1>5, <1>7, <1>8, <1>10 DEF CallIs
<1> PICK goes : goes = [caCall EXCEPT ![c] = R]
  OBVIOUS
<1>12. caCall' = Saved(goes, i)
  BY <1>6 DEF CaSettings
<1>13. goes \in [CaCalls -> CallRecord] /\ goes[c] = R /\ \A d \in CaCalls \ {c} : goes[d] = caCall[d]
  BY <1>0, <1>9
<1>14. caCall' \in [CaCalls -> CallRecord] /\ \A d \in CaCalls : Weaker(caCall'[d], goes[d])
  BY <1>12, <1>13, SavedIs
<1>15. /\ caFiles' = caFiles /\ caDisk' = caDisk /\ caListed' = caListed /\ Changes(i)
  BY DEF CaSettings
<1>16. caOverlapped \subseteq caOverlapped' /\ caOverlapped' \subseteq Items
      /\ \/ i \in caOverlapped'
         \/ \A d \in CaCalls : ~(caCall[d].item = i /\ caCall[d].pc = "status")
  BY <1>0, <1>15, ChangesIs
<1>17. CaTypes'
  BY <1>0, <1>5, <1>14, <1>15, <1>16 DEF CaTypes
<1>18. Weaker(caCall'[c], R) /\ \A d \in CaCalls \ {c} : Weaker(caCall'[d], caCall[d])
  BY <1>13, <1>14
<1>19. \A j \in Items \ {i} : Stays(j) /\ ~Settling(caCall[c], j)
  BY <1>2, <1>5, <1>15 DEF Stays, FilesOf, Settling
<1>20. OnlyLostFilesForgotten
  BY <1>15 DEF OnlyLostFilesForgotten
<1>21. ItemIs(it)
  BY DEF CaInv
<1>22. ItemIs(caItems'[i]) /\ caItems'[i].state = "open" /\ caItems[i].state = "open"
       /\ caItems'[i].prov = caItems[i].prov
  BY <1>2, <1>4, <1>5, <1>21 DEF ItemIs
<1> HIDE DEF OnlyLostFilesForgotten
<1> QED BY <1>2, <1>9, <1>10, <1>11, <1>15, <1>16, <1>17, <1>18, <1>19, <1>20, <1>22, MovesOn

-----------------------------------------------------------------------------
(* Steps that change the files of an item                                  *)

\* The transaction changes the files of item i, which it may create, and the call goes on.
LEMMA FilesMove ==
  ASSUME CaInv, NEW c \in CaCalls, NEW i \in Items, NEW R \in CallRecord,
         CallIs(R, caItems'), R.item = i,
         R.pc = "recalc" \/ (R.pc = "capture" /\ R.op = "import"),
         NEW goes, goes = [caCall EXCEPT ![c] = R], caCall' = goes \/ caCall' = Refiled(goes, i),
         caItems' \in [Items -> ItemRecord], \A j \in Items \ {i} : caItems'[j] = caItems[j],
         caItems'[i].state # "none", ItemIs(caItems'[i]),
         caItems'[i] = caItems[i] \/ (caItems[i].state = "none" /\ caItems'[i].state = "open"
                                      /\ caItems'[i].source = "disk"),
         caFiles' \subseteq FileRecord,
         \A f \in FileRecord : f.item # i => (f \in caFiles' <=> f \in caFiles),
         Changes(i), caDisk' = caDisk, caListed' = caListed,
         \A j \in Items \ {i} : ~Settling(caCall[c], j), caCall[c].pc # "store",
         OnlyLostFilesForgotten
  PROVE  CaInv' /\ StepOk
<1>0. CaTypes /\ caCall \in [CaCalls -> CallRecord] /\ caItems \in [Items -> ItemRecord]
  BY DEF CaInv, CaTypes
<1>1. goes \in [CaCalls -> CallRecord] /\ goes[c] = R /\ \A d \in CaCalls \ {c} : goes[d] = caCall[d]
  BY <1>0
<1>2. caCall' \in [CaCalls -> CallRecord] /\ \A d \in CaCalls : Weaker(caCall'[d], goes[d])
  <2>1. CASE caCall' = goes
    BY <1>1, <2>1, WeakerSame
  <2>2. CASE caCall' = Refiled(goes, i)
    BY <1>1, <2>2, RefiledIs
  <2> QED BY <2>1, <2>2
<1>3. caOverlapped \subseteq caOverlapped' /\ caOverlapped' \subseteq Items
      /\ \/ i \in caOverlapped'
         \/ \A d \in CaCalls : ~(caCall[d].item = i /\ caCall[d].pc = "status")
  BY <1>0, ChangesIs
<1>4. CaTypes'
  BY <1>0, <1>2, <1>3 DEF CaTypes
<1>5. Weaker(caCall'[c], R) /\ \A d \in CaCalls \ {c} : Weaker(caCall'[d], caCall[d])
  BY <1>1, <1>2
<1>6. \A j \in Items \ {i} : Stays(j)
  <2> SUFFICES ASSUME NEW j \in Items, j # i PROVE FilesOf(j)' = FilesOf(j)
    BY DEF Stays
  <2>1. {g \in caFiles' : g.item = j} = {g \in caFiles : g.item = j}
    BY <1>0 DEF CaTypes
  <2> QED BY <2>1 DEF FilesOf
<1>7. /\ caItems[i].state \in {"pending", "gone"} => caItems'[i].state # "open"
      /\ caItems'[i].state = "gone" => ~Open(i)
      /\ (Open(i) /\ caItems'[i].prov # caItems[i].prov) =>
           \A d \in CaCalls \ {c} : caCall'[d].item = i => ~caCall'[d].fresh
      /\ (caItems[i].state = "none" /\ caItems'[i].source = "request") =>
           \A j \in InLibrary : caItems[j].prov # caItems'[i].prov
  BY DEF Open
<1>8. (caCall[c].pc = "store" /\ caCall[c].op = "match") => ~caCall[c].missed
  OBVIOUS
<1> HIDE DEF OnlyLostFilesForgotten
<1> QED BY <1>3, <1>4, <1>5, <1>6, <1>7, <1>8, MovesOn

LEMMA RecordsAre ==
  ASSUME NEW i \in Items, NEW paths, paths \subseteq Paths
  PROVE  Records(i, paths) \subseteq FileRecord
         /\ \A f \in Records(i, paths) : f.item = i /\ f.path \in paths
BY DEF Records, FileRecord

LEMMA CaRecordKeeps ==
  ASSUME CaInv, NEW c \in CaCalls, CaRecord(c)
  PROVE  CaInv' /\ StepOk
<1>0. CaTypes /\ caItems \in [Items -> ItemRecord]
  BY DEF CaInv, CaTypes
<1> PICK q \in CallRecord : q = caCall[c]
  BY <1>0, CallTypes
<1>1. /\ q.pc = "record" /\ caItems' = caItems /\ caDisk' = caDisk /\ caListed' = caListed
  BY DEF CaRecord, CaAt
<1>2. CallIs(q, caItems)
  BY DEF CaInv
<1> PICK i \in Items : i = q.item
  BY <1>0, <1>1, <1>2, CallTypes DEF CallIs
<1>3. CASE i \in InLibrary /\ q.rows \cap Recorded = {}
  <2>1. "capture" \in CaPcs
    BY DEF CaPcs
  <2> PICK R \in CallRecord :
           /\ CaGoes(c, "capture") = [caCall EXCEPT ![c] = R]
           /\ R = [caCall[c] EXCEPT !.pc = "capture"] /\ R.pc = "capture"
           /\ R.op = caCall[c].op /\ R.item = caCall[c].item /\ R.fresh = caCall[c].fresh
           /\ R.same = caCall[c].same /\ R.missed = caCall[c].missed
           /\ R.absent = caCall[c].absent /\ R.rows = caCall[c].rows
           /\ R.todo = caCall[c].todo /\ R.failed = caCall[c].failed
           /\ R.seen = caCall[c].seen /\ R.work = caCall[c].work /\ R.prov = caCall[c].prov
           /\ R.eps = caCall[c].eps /\ R.mon = caCall[c].mon /\ R.status = caCall[c].status
    BY <1>0, <2>1, GoesIs
  <2> PICK goes : goes = CaGoes(c, "capture")
    OBVIOUS
  <2>2. /\ caFiles' = caFiles \cup Records(i, q.rows) /\ Changes(i) /\ caCall' = Refiled(goes, i)
    BY <1>3 DEF CaRecord, Records
  <2>3. q.op = "import"
    BY <1>1, <1>2 DEF CallIs
  <2>4. CallIs(R, caItems')
    BY <1>1, <1>2, <2>3 DEF CallIs
  <2>5. /\ caFiles' \subseteq FileRecord
        /\ \A f \in FileRecord : f.item # i => (f \in caFiles' <=> f \in caFiles)
    <3>1. q.rows \subseteq Paths
      BY <1>0, CallTypes
    <3> QED BY <1>0, <2>2, <3>1, RecordsAre DEF CaTypes
  <2>6. \A j \in Items \ {i} : ~Settling(caCall[c], j)
    BY DEF Settling
  <2>7. OnlyLostFilesForgotten
    BY <2>2 DEF OnlyLostFilesForgotten
  <2>8. caItems'[i].state # "none" /\ ItemIs(caItems'[i])
    BY <1>1, <1>3 DEF InLibrary, CaInv
  <2>9. R.item = i /\ R.pc = "capture" /\ R.op = "import" /\ goes = [caCall EXCEPT ![c] = R]
    BY <2>3
  <2>10. caItems' \in [Items -> ItemRecord] /\ (\A j \in Items : caItems'[j] = caItems[j])
         /\ caCall[c].pc # "store"
    BY <1>0, <1>1
  <2> HIDE DEF OnlyLostFilesForgotten
  <2> QED BY <1>1, <2>2, <2>4, <2>5, <2>6, <2>7, <2>8, <2>9, <2>10, FilesMove
<1>4. CASE ~(i \in InLibrary /\ q.rows \cap Recorded = {})
  <2>1. caCall' = CaReturns(c) /\ caFiles' = caFiles /\ caOverlapped' = caOverlapped
    BY <1>4 DEF CaRecord
  <2> QED BY <1>1, <2>1, CallEnds
<1> QED BY <1>3, <1>4

LEMMA CaForgetKeeps ==
  ASSUME CaInv, NEW c \in CaCalls, CaForget(c)
  PROVE  CaInv' /\ StepOk
<1>0. CaTypes /\ caItems \in [Items -> ItemRecord]
  BY DEF CaInv, CaTypes
<1> PICK q \in CallRecord : q = caCall[c]
  BY <1>0, CallTypes
<1>1. /\ q.pc = "forget" /\ caItems' = caItems /\ caDisk' = caDisk /\ caListed' = caListed
  BY DEF CaForget, CaAt
<1>2. CallIs(q, caItems)
  BY DEF CaInv
<1> PICK i \in Items : i = q.item
  BY <1>0, <1>1, <1>2, CallTypes DEF CallIs
<1>3. CASE caItems[i].state # "gone"
  <2>1. caItems'[i].state # "none" /\ ItemIs(caItems'[i])
    BY <1>1, <1>2 DEF CallIs, CaInv
  <2> PICK R \in CallRecord : R = RecalcOf(c, i)
    BY <2>1, RecalcIs
  <2>2. CallIs(R, caItems') /\ R.item = i /\ R.pc = "recalc"
    BY <2>1, RecalcIs
  <2> PICK goes : goes = CaGoes(c, "recalc")
    OBVIOUS
  <2>3. /\ caFiles' = {f \in caFiles : f.item # i \/ f.path \notin q.absent}
        /\ Changes(i) /\ caCall' = Refiled(goes, i)
    BY <1>3 DEF CaForget
  <2>4. goes = [caCall EXCEPT ![c] = R]
    <3>1. R = [q EXCEPT !.pc = "recalc"]
      BY DEF RecalcOf, CallRecord
    <3> QED BY <3>1 DEF CaGoes
  <2>5. /\ caFiles' \subseteq FileRecord
        /\ \A f \in FileRecord : f.item # i => (f \in caFiles' <=> f \in caFiles)
    BY <1>0, <2>3 DEF CaTypes
  <2>6. \A j \in Items \ {i} : ~Settling(caCall[c], j)
    BY DEF Settling
  <2>7. OnlyLostFilesForgotten
    BY <2>3 DEF OnlyLostFilesForgotten
  <2>8. caItems' \in [Items -> ItemRecord] /\ (\A j \in Items : caItems'[j] = caItems[j])
        /\ caCall[c].pc # "store"
    BY <1>0, <1>1
  <2> HIDE DEF OnlyLostFilesForgotten
  <2> QED BY <1>1, <2>1, <2>2, <2>3, <2>4, <2>5, <2>6, <2>7, <2>8, FilesMove
<1>4. CASE caItems[i].state = "gone"
  <2>1. caCall' = CaReturns(c) /\ caFiles' = caFiles /\ caOverlapped' = caOverlapped
    BY <1>4 DEF CaForget
  <2> QED BY <1>1, <2>1, CallEnds
<1> QED BY <1>3, <1>4

LEMMA CaReapplyKeeps ==
  ASSUME CaInv, NEW c \in CaCalls, CaReapply(c)
  PROVE  CaInv' /\ StepOk
<1>0. CaTypes /\ caItems \in [Items -> ItemRecord]
  BY DEF CaInv, CaTypes
<1> PICK q \in CallRecord : q = caCall[c]
  BY <1>0, CallTypes
<1>1. /\ q.pc = "reapply" /\ caItems' = caItems /\ caDisk' = caDisk /\ caListed' = caListed
  BY DEF CaReapply, CaAt
<1>2. CallIs(q, caItems)
  BY DEF CaInv
<1> PICK i \in Items : i = q.item
  BY <1>0, <1>1, <1>2, CallTypes DEF CallIs
<1> PICK add : add = q.seen \ FilesOf(i)
  OBVIOUS
<1>3. CASE ~Open(i) \/ ~q.same \/ add \cap Recorded # {}
  <2>1. caCall' = GivesUp(c) /\ caFiles' = caFiles /\ caOverlapped' = caOverlapped
    BY <1>3 DEF CaReapply
  <2> QED BY <1>1, <2>1, GivesUpKeeps
<1>4. CASE ~(~Open(i) \/ ~q.same \/ add \cap Recorded # {})
  <2>1. caItems'[i].state # "none" /\ ItemIs(caItems'[i])
    BY <1>1, <1>2 DEF CallIs, CaInv
  <2> PICK R \in CallRecord : R = RecalcOf(c, i)
    BY <2>1, RecalcIs
  <2>2. CallIs(R, caItems') /\ R.item = i /\ R.pc = "recalc"
    BY <2>1, RecalcIs
  <2> PICK goes : goes = CaGoes(c, "recalc")
    OBVIOUS
  <2>3. /\ caFiles' = (caFiles \cup Records(i, add)) \ Records(i, q.rows)
        /\ Changes(i) /\ (caCall' = goes \/ caCall' = Refiled(goes, i))
    BY <1>4 DEF CaReapply
  <2>4. goes = [caCall EXCEPT ![c] = R]
    <3>1. R = [q EXCEPT !.pc = "recalc"]
      BY DEF RecalcOf, CallRecord
    <3> QED BY <3>1 DEF CaGoes
  <2>5. q.rows \subseteq Paths /\ add \subseteq Paths
    BY <1>0, CallTypes
  <2>6. /\ caFiles' \subseteq FileRecord
        /\ \A f \in FileRecord : f.item # i => (f \in caFiles' <=> f \in caFiles)
    BY <1>0, <2>3, <2>5, RecordsAre DEF CaTypes
  <2>7. \A j \in Items \ {i} : ~Settling(caCall[c], j)
    BY DEF Settling
  <2>8. q.rows \subseteq q.absent
    BY <1>1, <1>2 DEF CallIs
  <2>9. \A f \in caFiles \ caFiles' : f.path \in q.absent
    BY <2>3, <2>5, <2>8, RecordsAre
  <2>10. OnlyLostFilesForgotten
    BY <2>9 DEF OnlyLostFilesForgotten
  <2>11. caItems' \in [Items -> ItemRecord] /\ (\A j \in Items : caItems'[j] = caItems[j])
        /\ caCall[c].pc # "store"
    BY <1>0, <1>1
  <2>12. Changes(i) /\ (caCall' = goes \/ caCall' = Refiled(goes, i))
    BY <2>3
  <2>13. caItems'[i] = caItems[i] /\ (\A j \in Items \ {i} : caItems'[j] = caItems[j])
    BY <2>11
  <2> HIDE DEF OnlyLostFilesForgotten
  <2> QED BY <1>1, <2>1, <2>2, <2>4, <2>6, <2>7, <2>10, <2>11, <2>12, <2>13, FilesMove
<1> QED BY <1>3, <1>4

\* The status saved is the status the item has, unless the item changed meanwhile.
LEMMA CaStatusKeeps ==
  ASSUME CaInv, NEW c \in CaCalls, CaStatus(c)
  PROVE  CaInv' /\ StepOk
<1>0. CaTypes /\ caItems \in [Items -> ItemRecord] /\ caCall \in [CaCalls -> CallRecord]
  BY DEF CaInv, CaTypes
<1> PICK q \in CallRecord : q = caCall[c]
  BY <1>0, CallTypes
<1>1. /\ q.pc = "status" /\ caFiles' = caFiles /\ caDisk' = caDisk /\ caListed' = caListed
      /\ caOverlapped' = caOverlapped
  BY DEF CaStatus, CaAt
<1>2. CallIs(q, caItems)
  BY DEF CaInv
<1> PICK i \in Items : i = q.item
  BY <1>0, <1>1, <1>2, CallTypes DEF CallIs
<1>3. PICK R \in CallRecord :
           /\ AfterRecalc(c) = [caCall EXCEPT ![c] = R] /\ R.pc \in {"idle", "apply"}
           /\ \A items : CallIs(R, items)
  BY AfterRecalcIs
<1>4. CASE ~Open(i)
  <2>1. caCall' = [caCall EXCEPT ![c] = R] /\ caItems' = caItems
    BY <1>3, <1>4 DEF CaStatus
  <2>2. \A j \in Items : Settling(caCall[c], j) => Settling(R, j) \/ StatusTrue(j)
    BY <1>4 DEF Settling, StatusTrue
  <2>3. /\ CallIs(R, caItems) /\ R.pc # "status" /\ R.pc # "recalc"
        /\ caDisk' \subseteq Paths
    BY <1>0, <1>1, <1>3 DEF CaTypes
  <2> QED BY <1>1, <2>1, <2>2, <2>3, CallOnly
<1>5. CASE Open(i)
  <2> PICK it \in ItemRecord : it = caItems[i]
    BY <1>0
  <2>1. PICK item : item = [it EXCEPT !.status = q.status, !.mon = q.mon]
    OBVIOUS
  <2>2. caItems' = [caItems EXCEPT ![i] = item] /\ it.state = "open"
    BY <1>5, <2>1 DEF CaStatus, Open
  <2>3. q.status \in Statuses /\ q.mon \in BOOLEAN
    BY <1>0, CallTypes
  <2>4. /\ item \in ItemRecord /\ item.state = it.state /\ item.prov = it.prov
        /\ item.eps = it.eps /\ item.want = it.want /\ item.source = it.source
        /\ item.status = q.status /\ item.mon = q.mon
    BY <2>1, <2>3 DEF ItemRecord
  <2>5. caItems' \in [Items -> ItemRecord] /\ caItems'[i] = item
        /\ \A j \in Items \ {i} : caItems'[j] = caItems[j]
    BY <1>0, <2>2, <2>4
  <2> PICK goes : goes = [caCall EXCEPT ![c] = R]
    OBVIOUS
  <2>6. goes \in [CaCalls -> CallRecord] /\ goes[c] = R
        /\ \A d \in CaCalls \ {c} : goes[d] = caCall[d]
    BY <1>0
  <2>7. caCall' = Saved(goes, i)
    BY <1>3, <1>5 DEF CaStatus
  <2>8. caCall' \in [CaCalls -> CallRecord] /\ \A d \in CaCalls : Weaker(caCall'[d], goes[d])
    BY <2>6, <2>7, SavedIs
  <2>9. CaTypes'
    BY <1>0, <1>1, <2>5, <2>8 DEF CaTypes
  <2>10. OthersStand({c})
    BY <1>1, <2>6, <2>8 DEF OthersStand
  <2>11. \A j \in Items \ {i} : Stays(j)
    BY <1>1, <2>5 DEF Stays, FilesOf
  <2> PICK n : n = caCall'[c]
    OBVIOUS
  <2>12. Weaker(n, R) /\ n.pc = R.pc
    BY <2>6, <2>8 DEF Weaker
  <2>13. CallIs(n, caItems')
    <3>1. CallIs(R, caItems') /\ ItemsStand(caItems', caItems')
          /\ (n.fresh /\ R.item # 0 /\ MatchStands(R, caItems') => MatchStands(R, caItems'))
      BY <1>3 DEF ItemsStand
    <3> QED BY <2>12, <3>1, CallKept
  <2>14. MoverStands(c, {i})
    BY <1>1, <1>3, <2>12, <2>13 DEF MoverStands, Recalculated, Settling
  <2>15. \/ i \in caOverlapped
         \/ q.status = StatusOf(i) /\ q.mon = it.mon
    BY <1>1, <1>5 DEF CaInv, Recalculated
  <2>16. \/ i \in caOverlapped'
         \/ StatusOf(i)' = StatusOf(i) /\ caItems'[i].mon = caItems[i].mon /\ StatusTrue(i)'
    <3> SUFFICES ASSUME i \notin caOverlapped
                 PROVE  StatusOf(i)' = StatusOf(i) /\ caItems'[i].mon = caItems[i].mon
                        /\ StatusTrue(i)'
      BY <1>1
    <3>1. FilesOf(i)' = FilesOf(i)
      BY <1>1 DEF FilesOf
    <3>2. q.status = StatusOf(i) /\ q.mon = it.mon
      BY <2>15
    <3>3. StatusOf(i)' = StatusOf(i)
      BY <2>4, <2>5, <3>1, <3>2, StatusSame
    <3> QED BY <2>4, <2>5, <3>2, <3>3 DEF StatusTrue
  <2>17. ItemIs(it)
    BY DEF CaInv
  <2>18. ItemIs(item)
    BY <2>2, <2>4, <2>17 DEF ItemIs
  <2>19. Settled(i)'
    BY <2>16 DEF Settled
  <2>20. ItemMoves(i, {c})
    BY <2>2, <2>4, <2>5, <2>16, <2>18, <2>19 DEF ItemMoves, Open
  <2>21. OnlyLostFilesForgotten
    BY <1>1 DEF OnlyLostFilesForgotten
  <2>22. {c} \subseteq CaCalls /\ {i} \subseteq Items /\ caOverlapped \subseteq caOverlapped'
         /\ (\A d \in {c} : MoverStands(d, {i})) /\ (\A j \in {i} : ItemMoves(j, {c}))
    BY <1>1, <2>14, <2>20
  <2> HIDE DEF OnlyLostFilesForgotten
  <2> QED BY <2>9, <2>10, <2>11, <2>21, <2>22, Frame
<1> QED BY <1>4, <1>5

\* The call c after the candidate k.
NextCall(c, k) ==
  IF caCall[c].work = {k} THEN CaIdle ELSE [caCall[c] EXCEPT !.work = caCall[c].work \ {k}]

LEMMA AfterCandidateIs ==
  ASSUME CaInv, NEW c \in CaCalls, NEW k, caCall[c].pc = "apply", NEW items,
         ItemsStand(caItems, items)
  PROVE  /\ AfterCandidate(c, k) = [caCall EXCEPT ![c] = NextCall(c, k)]
         /\ NextCall(c, k) \in CallRecord /\ NextCall(c, k).pc \in {"idle", "apply"}
         /\ CallIs(NextCall(c, k), items)
<1>0. CaTypes /\ caCall \in [CaCalls -> CallRecord]
  BY DEF CaInv, CaTypes
<1>1. CASE caCall[c].work = {k}
  <2>1. AfterCandidate(c, k) = [caCall EXCEPT ![c] = CaIdle] /\ NextCall(c, k) = CaIdle
    BY <1>1 DEF AfterCandidate, CaReturns, NextCall
  <2> QED BY <2>1, IdleIs
<1>2. CASE caCall[c].work # {k}
  <2> PICK q \in CallRecord : q = caCall[c]
    BY <1>0
  <2>1. PICK work : work = q.work \ {k}
    OBVIOUS
  <2>2. PICK R : R = [q EXCEPT !.work = work]
    OBVIOUS
  <2>3. work \subseteq Candidate /\ work \subseteq q.work
    BY <1>0, <2>1, CallTypes
  <2>4. R \in CallRecord
    BY <2>2, <2>3 DEF CallRecord
  <2>5. /\ R.op = q.op /\ R.pc = "apply" /\ R.item = q.item /\ R.work = work /\ R.prov = q.prov
        /\ R.eps = q.eps /\ R.fresh = q.fresh /\ R.missed = q.missed /\ R.absent = q.absent
    BY <2>2 DEF CallRecord
  <2>6. CallIs(q, caItems) /\ (q.item # 0 => q.item \in Items)
    BY <1>0, CallTypes DEF CaInv
  <2>7. CallIs(R, items)
    BY <2>3, <2>5, <2>6 DEF CallIs, ItemsStand
  <2>8. R = NextCall(c, k)
    BY <1>2, <2>1, <2>2 DEF NextCall
  <2>9. AfterCandidate(c, k) = [caCall EXCEPT ![c] = R]
    BY <1>2, <2>1, <2>2 DEF AfterCandidate
  <2> QED BY <2>4, <2>5, <2>7, <2>8, <2>9
<1> QED BY <1>1, <1>2

\* The transaction of one candidate that has something to add or to remove.
Applies(c, k, i, add, remove, files) ==
  /\ add \cup remove # {} /\ caFiles' = files /\ Changes(i)
  /\ files = (caFiles \cup Records(i, add)) \ Records(i, remove)
  /\ IF Emptied(k, files)
     THEN /\ caItems' = [caItems EXCEPT ![i] = [NoItem EXCEPT !.state = "gone"]]
          /\ caCall' = Saved(AfterCandidate(c, k), i)
     ELSE /\ caItems' = [caItems EXCEPT ![i] = TargetItem(k)]
          /\ caCall' = Refiled([caCall EXCEPT ![c].work = @ \ {k},
                                ![c].item = i, ![c].pc = "recalc"], i)

\* The item as the transaction reads it: one of the library, or a new one.
LEMMA TargetIs ==
  ASSUME CaTypes, NEW k \in Candidate, TargetItem(k).state = "open", k.item = 0 => Unused # {}
  PROVE  /\ Target(k) \in Items /\ TargetItem(k) \in ItemRecord /\ TargetItem(k).state = "open"
         /\ \/ k.item = Target(k) /\ Open(k.item) /\ TargetItem(k) = caItems[k.item]
            \/ /\ k.item = 0 /\ caItems[Target(k)].state = "none"
               /\ TargetItem(k).prov = NoProvider /\ TargetItem(k).eps = {}
               /\ TargetItem(k).source = "disk"
<1>0. k.item \in 0..MaxItems
  BY DEF Candidate
<1>1. CASE k.item # 0
  <2>1. k.item \in Items /\ Target(k) = k.item /\ TargetItem(k) = caItems[k.item]
    BY <1>0, <1>1, CatalogueAssumption DEF Items, Target, TargetItem
  <2> QED BY <2>1, ItemTypes DEF Open
<1>2. CASE k.item = 0
  <2>1. Target(k) = Lowest(Unused) /\ Unused \subseteq Items
    BY <1>2 DEF Target, Unused
  <2>2. Target(k) \in Unused
    BY <1>2, <2>1, LowestIs
  <2>3. Target(k) \in Items /\ caItems[Target(k)].state = "none"
    BY <2>2 DEF Unused
  <2>4. PICK f \in BOOLEAN : f = FALSE
    OBVIOUS
  <2>5. PICK item : item = TargetItem(k)
    OBVIOUS
  <2>6. item = [state |-> "open", status |-> "new", source |-> "disk", mon |-> FALSE,
                want |-> {}, prov |-> NoProvider, eps |-> {}]
    BY <1>2, <2>5 DEF TargetItem, NoItem
  <2>7. item = [state |-> "open", status |-> "new", source |-> "disk", mon |-> f,
                want |-> {}, prov |-> NoProvider, eps |-> {}]
    BY <2>4, <2>6, Zenon
  <2>8. item \in ItemRecord
    BY <2>7 DEF ItemRecord, Statuses
  <2>9. item.prov = NoProvider /\ item.eps = {} /\ item.source = "disk" /\ item.state = "open"
    BY <2>7
  <2> QED BY <1>2, <2>3, <2>5, <2>8, <2>9
<1> QED BY <1>1, <1>2

LEMMA AppliesKeeps ==
  ASSUME CaInv, NEW c \in CaCalls, caCall[c].pc = "apply", NEW k \in caCall[c].work,
         TargetItem(k).state = "open", k.item = 0 => Unused # {},
         NEW add, add \subseteq k.add, NEW remove, remove \subseteq k.remove,
         remove \subseteq FilesOf(Target(k)) \cup add, NEW files,
         Applies(c, k, Target(k), add, remove, files),
         caDisk' = caDisk, caListed' = caListed
  PROVE  CaInv' /\ StepOk
<1>0. CaTypes /\ caItems \in [Items -> ItemRecord] /\ caCall \in [CaCalls -> CallRecord]
  BY DEF CaInv, CaTypes
<1> PICK q \in CallRecord : q = caCall[c]
  BY <1>0
<1>1. CallIs(q, caItems)
  BY DEF CaInv
<1>2. k \in Candidate /\ k.remove \subseteq q.absent /\ (k.empties => k.item # 0 /\ k.add = {})
      /\ q.op = "sync" /\ q.absent \subseteq Paths /\ q.work \subseteq Candidate
  BY <1>0, <1>1, CallTypes DEF CallIs
<1> PICK i \in Items : i = Target(k)
  BY <1>0, <1>2, TargetIs
<1> PICK it \in ItemRecord : it = TargetItem(k)
  BY <1>0, <1>2, TargetIs
<1>3. /\ it.state = "open"
      /\ \/ k.item = i /\ Open(i) /\ it = caItems[i]
         \/ /\ k.item = 0 /\ caItems[i].state = "none" /\ it.prov = NoProvider
            /\ it.eps = {} /\ it.source = "disk"
  BY <1>0, <1>2, TargetIs
<1>4. ItemIs(it)
  BY <1>3 DEF ItemIs, CaInv
<1>5. caFiles' = (caFiles \cup Records(i, add)) \ Records(i, remove) /\ caFiles' = files
      /\ Changes(i)
  BY DEF Applies
<1>6. /\ caFiles' \subseteq FileRecord
      /\ \A f \in FileRecord : f.item # i => (f \in caFiles' <=> f \in caFiles)
      /\ \A f \in caFiles \ caFiles' : f.path \in q.absent
  <2>1. remove \subseteq Paths /\ remove \subseteq q.absent /\ add \subseteq Paths
    BY <1>2 DEF Candidate
  <2> QED BY <1>0, <1>5, <2>1, RecordsAre DEF CaTypes
<1>7. OnlyLostFilesForgotten
  BY <1>6 DEF OnlyLostFilesForgotten
<1> HIDE DEF OnlyLostFilesForgotten
<1>8. caOverlapped \subseteq caOverlapped' /\ caOverlapped' \subseteq Items
      /\ \/ i \in caOverlapped'
         \/ \A d \in CaCalls : ~(caCall[d].item = i /\ caCall[d].pc = "status")
  BY <1>0, <1>5, ChangesIs
<1>9. \A j \in Items \ {i} : FilesOf(j)' = FilesOf(j)
  <2> SUFFICES ASSUME NEW j \in Items, j # i PROVE FilesOf(j)' = FilesOf(j)
    OBVIOUS
  <2>1. {g \in caFiles' : g.item = j} = {g \in caFiles : g.item = j}
    BY <1>0, <1>6 DEF CaTypes
  <2> QED BY <2>1 DEF FilesOf
<1>10. \A j \in Items : ~Settling(caCall[c], j)
  BY DEF Settling
<1>11. ASSUME NEW item \in ItemRecord, caItems' = [caItems EXCEPT ![i] = item],
              item.state # "none", NEW goes, goes = [caCall EXCEPT ![c] = NextCall(c, k)],
              caCall' = Saved(goes, i)
       PROVE  /\ caItems' \in [Items -> ItemRecord] /\ caItems'[i] = item
              /\ \A j \in Items \ {i} : Stays(j)
              /\ CaTypes' /\ OthersStand({c})
              /\ \A changed \in SUBSET Items : MoverStands(c, changed)
  <2>1. caItems' \in [Items -> ItemRecord] /\ caItems'[i] = item
        /\ \A j \in Items \ {i} : caItems'[j] = caItems[j]
    BY <1>0, <1>11
  <2>2. \A j \in Items \ {i} : Stays(j)
    BY <1>9, <2>1 DEF Stays
  <2>3. ItemsStand(caItems, caItems')
    BY <1>11, <2>1 DEF ItemsStand
  <2> PICK R : R = NextCall(c, k)
    OBVIOUS
  <2>4. R \in CallRecord /\ R.pc \in {"idle", "apply"} /\ CallIs(R, caItems')
    BY <2>3, AfterCandidateIs
  <2>5. goes \in [CaCalls -> CallRecord] /\ goes[c] = R
        /\ \A d \in CaCalls \ {c} : goes[d] = caCall[d]
    BY <1>0, <1>11, <2>4
  <2>6. caCall' \in [CaCalls -> CallRecord] /\ \A d \in CaCalls : Weaker(caCall'[d], goes[d])
    BY <1>11, <2>5, SavedIs
  <2>7. CaTypes'
    BY <1>0, <1>6, <1>8, <2>1, <2>6 DEF CaTypes
  <2>8. OthersStand({c})
    BY <2>5, <2>6 DEF OthersStand
  <2> PICK n : n = caCall'[c]
    OBVIOUS
  <2>9. Weaker(n, R) /\ n.pc = R.pc
    BY <2>5, <2>6 DEF Weaker
  <2>10. CallIs(n, caItems')
    <3>1. ItemsStand(caItems', caItems')
          /\ (n.fresh /\ R.item # 0 /\ MatchStands(R, caItems') => MatchStands(R, caItems'))
      BY DEF ItemsStand
    <3> QED BY <2>4, <2>9, <3>1, CallKept
  <2>11. \A changed \in SUBSET Items : MoverStands(c, changed)
    BY <1>10, <2>4, <2>9, <2>10 DEF MoverStands, Recalculated
  <2> QED BY <2>1, <2>2, <2>7, <2>8, <2>11
<1>12. CASE Emptied(k, files)
  <2>1. PICK item : item = [NoItem EXCEPT !.state = "gone"]
    OBVIOUS
  <2>2. item \in ItemRecord /\ ItemIs(item) /\ item.state = "gone"
    BY <2>1, GoneIs
  <2>3. AfterCandidate(c, k) = [caCall EXCEPT ![c] = NextCall(c, k)]
    <3>1. ItemsStand(caItems, caItems)
      BY DEF ItemsStand
    <3> QED BY <3>1, AfterCandidateIs
  <2>4. caItems' = [caItems EXCEPT ![i] = item] /\ caCall' = Saved(AfterCandidate(c, k), i)
    BY <1>12, <2>1 DEF Applies
  <2> PICK goes : goes = AfterCandidate(c, k)
    OBVIOUS
  <2>11. item.state # "none" /\ goes = [caCall EXCEPT ![c] = NextCall(c, k)]
         /\ caCall' = Saved(goes, i)
    BY <2>2, <2>3, <2>4
  <2>5. /\ caItems'[i] = item /\ \A j \in Items \ {i} : Stays(j)
        /\ CaTypes' /\ OthersStand({c}) /\ \A changed \in SUBSET Items : MoverStands(c, changed)
    BY <1>11, <2>2, <2>4, <2>11
  <2>6. Open(i) /\ k.item = i
    BY <1>2, <1>3, <1>12 DEF Emptied
  <2>7. /\ ~caItems[i].mon /\ caItems[i].source = "disk"
        /\ FilesOf(i) # {} /\ FilesOf(i) \subseteq caCall[c].absent
    <3>1. ~caItems[i].mon /\ caItems[i].source = "disk" /\ ~\E f \in files : f.item = i
      BY <1>0, <1>12, <2>6, ItemTypes DEF Emptied, IsRequestOrPending
    <3>2. add = {} /\ remove # {} /\ remove \subseteq FilesOf(i)
      BY <1>2, <1>12 DEF Emptied, Applies
    <3>3. ASSUME NEW f \in caFiles, f.item = i PROVE f.path \in remove
      <4>1. f \in Records(i, remove)
        BY <1>5, <3>1, <3>3
      <4> QED BY <4>1 DEF Records
    <3>4. FilesOf(i) \subseteq remove
      BY <3>3 DEF FilesOf
    <3> QED BY <1>2, <3>1, <3>2, <3>4
  <2>8. Settled(i)'
    BY <2>2, <2>5 DEF Settled, StatusTrue, Open
  <2>9. ItemMoves(i, {c})
    BY <2>2, <2>5, <2>6, <2>7, <2>8 DEF ItemMoves, Open
  <2>10. {c} \subseteq CaCalls /\ {i} \subseteq Items
         /\ (\A d \in {c} : MoverStands(d, {i})) /\ (\A j \in {i} : ItemMoves(j, {c}))
    BY <2>5, <2>9
  <2> QED BY <1>7, <1>8, <2>5, <2>10, Frame
<1>13. CASE ~Emptied(k, files)
  <2>1. PICK work : work = q.work \ {k}
    OBVIOUS
  <2>2. PICK R : R = [q EXCEPT !.work = work, !.item = i, !.pc = "recalc"]
    OBVIOUS
  <2>3. PICK goes : goes = [caCall EXCEPT ![c] = R]
    OBVIOUS
  <2>4. [caCall EXCEPT ![c].work = @ \ {k}, ![c].item = i, ![c].pc = "recalc"] = goes
    BY <1>0, <2>1, <2>2, <2>3
  <2>5. caItems' = [caItems EXCEPT ![i] = it] /\ caCall' = Refiled(goes, i)
    BY <1>13, <2>4 DEF Applies
  <2>6. work \subseteq Candidate /\ work \subseteq q.work /\ i \in 0..MaxItems /\ i # 0
        /\ "recalc" \in CaPcs
    BY <1>2, <2>1, CatalogueAssumption DEF Items, CaPcs
  <2>7. R \in CallRecord
    BY <2>2, <2>6 DEF CallRecord
  <2>8. /\ R.op = q.op /\ R.pc = "recalc" /\ R.item = i /\ R.work = work /\ R.prov = q.prov
        /\ R.eps = q.eps /\ R.fresh = q.fresh /\ R.missed = q.missed /\ R.absent = q.absent
    BY <2>2 DEF CallRecord
  <2>9. caItems' \in [Items -> ItemRecord] /\ caItems'[i] = it
        /\ \A j \in Items \ {i} : caItems'[j] = caItems[j]
    BY <1>0, <2>5
  <2>10. CallIs(R, caItems')
    BY <1>1, <1>2, <1>3, <2>6, <2>8, <2>9 DEF CallIs
  <2>11. caItems'[i].state # "none" /\ ItemIs(caItems'[i])
         /\ (caItems'[i] = caItems[i] \/ (caItems[i].state = "none" /\ caItems'[i].state = "open"
                                          /\ caItems'[i].source = "disk"))
    BY <1>3, <1>4, <2>9
  <2>12. (\A j \in Items \ {i} : ~Settling(caCall[c], j)) /\ caCall[c].pc # "store"
    BY <1>10
  <2>13. Changes(i) /\ (caCall' = goes \/ caCall' = Refiled(goes, i))
    BY <1>5, <2>5
  <2>14. /\ caFiles' \subseteq FileRecord
         /\ \A f \in FileRecord : f.item # i => (f \in caFiles' <=> f \in caFiles)
    BY <1>6
  <2> QED BY <1>7, <2>3, <2>7, <2>8, <2>9, <2>10, <2>11, <2>12, <2>13, <2>14, FilesMove
<1> QED BY <1>12, <1>13

LEMMA CaApplyKeeps ==
  ASSUME CaInv, NEW c \in CaCalls, CaApply(c)
  PROVE  CaInv' /\ StepOk
<1>0. CaTypes
  BY DEF CaInv
<1>1. caCall[c].pc = "apply" /\ caDisk' = caDisk /\ caListed' = caListed
  BY DEF CaApply, CaAt
<1> DEFINE add(k) == k.add \ FilesOf(Target(k))
           remove(k) == k.remove \cap (FilesOf(Target(k)) \cup add(k))
           files(k) == (caFiles \cup Records(Target(k), add(k))) \ Records(Target(k), remove(k))
<1>2. PICK k \in caCall[c].work :
        /\ k.item = 0 => Unused # {}
        /\ IF TargetItem(k).state # "open" \/ add(k) \cap Recorded # {}
           THEN caCall' = CaReturns(c) /\ UNCHANGED <<caItems, caFiles, caOverlapped>>
           ELSE IF add(k) \cup remove(k) = {}
           THEN caCall' = AfterCandidate(c, k) /\ UNCHANGED <<caItems, caFiles, caOverlapped>>
           ELSE Applies(c, k, Target(k), add(k), remove(k), files(k))
  BY Zenon DEF CaApply, Applies, NothingLeft
<1>3. k \in Candidate
  BY <1>0, CallTypes
<1>4. add(k) \subseteq k.add /\ remove(k) \subseteq k.remove
      /\ remove(k) \subseteq FilesOf(Target(k)) \cup add(k)
  OBVIOUS
<1>5. CASE TargetItem(k).state # "open" \/ add(k) \cap Recorded # {}
  <2>1. caCall' = CaReturns(c) /\ caItems' = caItems /\ caFiles' = caFiles
        /\ caOverlapped' = caOverlapped
    BY <1>2, <1>5
  <2> QED BY <1>1, <2>1, CallEnds
<1>6. CASE caCall' = AfterCandidate(c, k) /\ UNCHANGED <<caItems, caFiles, caOverlapped>>
  <2>1. PICK R \in CallRecord : /\ R = NextCall(c, k) /\ R.pc \in {"idle", "apply"}
                                /\ CallIs(R, caItems)
                                /\ AfterCandidate(c, k) = [caCall EXCEPT ![c] = R]
    <3>1. ItemsStand(caItems, caItems)
      BY DEF ItemsStand
    <3> QED BY <1>1, <3>1, AfterCandidateIs
  <2>2. caCall' = [caCall EXCEPT ![c] = R] /\ caItems' = caItems /\ caFiles' = caFiles
        /\ caOverlapped' = caOverlapped /\ caDisk' \subseteq Paths
        /\ R.pc # "status" /\ R.pc # "recalc"
    BY <1>0, <1>1, <1>6, <2>1 DEF CaTypes
  <2>3. \A i \in Items : Settling(caCall[c], i) => Settling(R, i) \/ StatusTrue(i)
    BY <1>1 DEF Settling
  <2> QED BY <1>1, <2>1, <2>2, <2>3, CallOnly
<1>7. CASE /\ ~(TargetItem(k).state # "open" \/ add(k) \cap Recorded # {})
           /\ add(k) \cup remove(k) # {}
  <2>1. TargetItem(k).state = "open" /\ Applies(c, k, Target(k), add(k), remove(k), files(k))
        /\ (k.item = 0 => Unused # {})
    BY <1>2, <1>7
  <2> HIDE DEF add, remove, files
  <2> QED BY <1>1, <1>4, <2>1, AppliesKeeps
<1> QED BY <1>2, <1>5, <1>6, <1>7

-----------------------------------------------------------------------------
(* The invariant, and what it says                                         *)

LEMMA CaInitially == CaInit => CaInv
<1> SUFFICES ASSUME CaInit PROVE CaInv
  OBVIOUS
<1>1. PICK o \in CallRecord : o = CaIdle
  BY IdleIs
<1>2. caCall = [c \in CaCalls |-> o] /\ caOverlapped = {}
  BY <1>1 DEF CaInit
<1>3. \A c \in CaCalls : caCall[c].pc = "idle" /\ CallIs(caCall[c], caItems)
  BY <1>1, <1>2, IdleIs
<1>4. \A c \in CaCalls : Recalculated(caCall[c])
  BY <1>3 DEF Recalculated
<1>5. caListed \in [Providers -> SUBSET AnyEpisode]
  BY DEF CaInit, AnyEpisode
<1>6. 1 \in Items
  BY CatalogueAssumption DEF Items
<1>7. NoItem \in ItemRecord /\ ItemIs(NoItem) /\ NoItem.state = "none"
  <2>1. PICK f \in BOOLEAN : f = FALSE
    OBVIOUS
  <2>2. PICK item : item = NoItem
    OBVIOUS
  <2>3. item = [state |-> "none", status |-> "new", source |-> "disk", mon |-> f,
                want |-> {}, prov |-> NoProvider, eps |-> {}]
    BY <2>1, <2>2, Zenon DEF NoItem
  <2>4. item \in ItemRecord
    BY <2>3 DEF ItemRecord, Statuses
  <2>5. item.eps = {} /\ item.state = "none"
    BY <2>3
  <2> QED BY <2>2, <2>4, <2>5 DEF ItemIs
<1>18. PICK state \in {"none", "open"}, status \in Statuses, source \in {"disk", "request"},
           mon \in BOOLEAN, x \in Providers \cup {NoProvider}, paths \in {{}, Paths} :
         LET it == [NoItem EXCEPT !.state = "open", !.status = status, !.source = source,
                      !.mon = mon, !.want = IF mon THEN {EpisodeOf[p] : p \in Paths} ELSE {},
                      !.prov = x, !.eps = IF x = NoProvider THEN {} ELSE {x} \X Aired[1]]
         IN /\ caItems = [i \in Items |-> IF i = 1 /\ state = "open" THEN it ELSE NoItem]
            /\ caFiles = IF state = "open" THEN [path : paths, item : {1}] ELSE {}
            /\ caDisk = paths
            /\ IF x = NoProvider THEN status = IF source = "disk" THEN "new" ELSE "requested"
               ELSE state = "open" /\ status = StatusOf(1)
  BY Zenon DEF CaInit
<1>19. PICK want, eps : /\ want = IF mon THEN {EpisodeOf[p] : p \in Paths} ELSE {}
                        /\ eps = IF x = NoProvider THEN {} ELSE {x} \X Aired[1]
  OBVIOUS
<1>20. PICK it : it = [NoItem EXCEPT !.state = "open", !.status = status, !.source = source,
                      !.mon = mon, !.want = want, !.prov = x, !.eps = eps]
  OBVIOUS
<1>8. /\ caItems = [i \in Items |-> IF i = 1 /\ state = "open" THEN it ELSE NoItem]
      /\ caFiles = IF state = "open" THEN [path : paths, item : {1}] ELSE {}
      /\ caDisk = paths
      /\ IF x = NoProvider THEN status = IF source = "disk" THEN "new" ELSE "requested"
         ELSE state = "open" /\ status = StatusOf(1)
  BY <1>18, <1>19, <1>20, Zenon
<1>9. want \subseteq AnyEpisode
  BY <1>19 DEF AnyEpisode, Episodes
<1>10. eps \subseteq Providers \X AnyEpisode /\ \A e \in eps : e[1] = x
  BY <1>19 DEF AnyEpisode
<1>11. it = [state |-> "open", status |-> status, source |-> source, mon |-> mon,
             want |-> want, prov |-> x, eps |-> eps]
  BY <1>20 DEF NoItem
<1>12. it \in ItemRecord /\ it.state = "open" /\ it.prov = x /\ it.eps = eps /\ it.status = status
  BY <1>9, <1>10, <1>11 DEF ItemRecord
<1>13. ItemIs(it)
  BY <1>10, <1>12 DEF ItemIs
<1>14. caItems \in [Items -> ItemRecord] /\ \A i \in Items : ItemIs(caItems[i])
  BY <1>7, <1>8, <1>12, <1>13
<1>15. caFiles \subseteq FileRecord /\ caDisk \subseteq Paths
  BY <1>6, <1>8 DEF FileRecord
<1>16. CaTypes
  BY <1>1, <1>2, <1>5, <1>14, <1>15 DEF CaTypes
<1>17. ASSUME NEW i \in Items PROVE Settled(i)
  <2>1. CASE caItems[i] = NoItem
    BY <1>7, <2>1 DEF Settled, StatusTrue, Open
  <2>2. CASE caItems[i] # NoItem
    <3>1. i = 1 /\ caItems[i] = it
      BY <1>8, <2>2
    <3>2. x = NoProvider \/ status = StatusOf(i)
      BY <1>8, <3>1
    <3> QED BY <1>12, <3>1, <3>2 DEF Settled, StatusTrue
  <2> QED BY <2>1, <2>2
<1> QED BY <1>3, <1>4, <1>14, <1>16, <1>17 DEF CaInv

LEMMA CallNextKeeps ==
  ASSUME CaInv, NEW c \in CaCalls, CallNext(c)
  PROVE  CaInv' /\ StepOk
<1>1. CASE CaSync(c)
  BY <1>1, CaSyncKeeps
<1>2. CASE \E f \in Folders : CaScan(c, f)
  BY <1>2, CaScanKeeps
<1>3. CASE CaCompare(c)
  BY <1>3, CaCompareKeeps
<1>4. CASE CaApply(c)
  BY <1>4, CaApplyKeeps
<1>5. CASE CaCapture(c)
  BY <1>5, CaCaptureKeeps
<1>6. CASE CaRescan(c)
  BY <1>6, CaRescanKeeps
<1>7. CASE CaReapply(c)
  BY <1>7, CaReapplyKeeps
<1>8. CASE CaRecalc(c)
  BY <1>8, CaRecalcKeeps
<1>9. CASE CaStatus(c)
  BY <1>9, CaStatusKeeps
<1>10. CASE CaFetch(c)
  BY <1>10, CaFetchKeeps
<1>11. CASE CaReplaceMatch(c)
  BY <1>11, CaReplaceMatchKeeps
<1>12. CASE CaRefreshMatch(c)
  BY <1>12, CaRefreshMatchKeeps
<1>13. CASE CaJoin(c)
  BY <1>13, CaJoinKeeps
<1>14. CASE CaCreate(c)
  BY <1>14, CaCreateKeeps
<1>15. CASE CaRecord(c)
  BY <1>15, CaRecordKeeps
<1>16. CASE CaForget(c)
  BY <1>16, CaForgetKeeps
<1>17. CASE \E z \in Providers, mon \in BOOLEAN : CaAdd(c, z, mon)
  BY <1>17, CaAddKeeps
<1>18. ASSUME NEW i \in Items, CaResync(c, i) PROVE CaInv' /\ StepOk
  BY <1>18, CaResyncKeeps
<1>19. ASSUME NEW i \in Items,
              \/ \E x \in Providers : CaManualMatch(c, i, x)
              \/ \E x \in Providers, full \in BOOLEAN : CaMatch(c, i, full, x)
              \/ CaRefresh(c, i)
       PROVE  CaInv' /\ StepOk
  BY <1>19, StartingKeeps
<1>20. ASSUME NEW i \in Items, NEW mon \in BOOLEAN, NEW want \in SUBSET Episodes,
              CaSettings(c, i, mon, want)
       PROVE  CaInv' /\ StepOk
  BY <1>20, CaSettingsKeeps
<1>21. ASSUME NEW i \in Items, NEW p \in Paths, CaLink(c, i, p) \/ CaRemoveFile(c, i, p)
       PROVE  CaInv' /\ StepOk
  BY <1>21, CaLinkKeeps, CaRemoveFileKeeps
<1>22. CASE \E i \in Items :
              \/ CaResync(c, i) \/ CaRefresh(c, i)
              \/ \E z \in Providers : CaManualMatch(c, i, z)
              \/ \E z \in Providers, full \in BOOLEAN : CaMatch(c, i, full, z)
              \/ \E mon \in BOOLEAN, want \in SUBSET Episodes : CaSettings(c, i, mon, want)
              \/ \E p \in Paths : CaLink(c, i, p) \/ CaRemoveFile(c, i, p)
  BY <1>18, <1>19, <1>20, <1>21, <1>22
<1> QED BY <1>1, <1>2, <1>3, <1>4, <1>5, <1>6, <1>7, <1>8, <1>9, <1>10, <1>11, <1>12, <1>13,
           <1>14, <1>15, <1>16, <1>17, <1>22 DEF CallNext

LEMMA CaNextKeeps ==
  ASSUME CaInv, CaNext
  PROVE  CaInv' /\ StepOk
<1>1. CASE \E c \in CaCalls : CallNext(c)
  BY <1>1, CallNextKeeps
<1>2. CASE \E p \in Paths : CaAppear(p) \/ CaVanish(p)
  BY <1>2, WorldKeeps
<1>3. CASE \E z \in Providers : CaAir(z)
  BY <1>3, WorldKeeps
<1>4. CASE \E i \in Items : CaUnmatch(i) \/ CaClaim(i) \/ CaDelete(i)
  BY <1>4, CaUnmatchKeeps, CaClaimKeeps, CaDeleteKeeps
<1> QED BY <1>1, <1>2, <1>3, <1>4 DEF CaNext

LEMMA CaUnchangedKeeps ==
  ASSUME CaInv, UNCHANGED caVars
  PROVE  CaInv'
<1>1. /\ caItems' = caItems /\ caFiles' = caFiles /\ caDisk' = caDisk /\ caListed' = caListed
      /\ caCall' = caCall /\ caOverlapped' = caOverlapped
  BY DEF caVars
<1>2. CaTypes'
  BY <1>1 DEF CaInv, CaTypes
<1>3. \A i : StatusOf(i)' = StatusOf(i)
  BY <1>1 DEF StatusOf, FilesOf
<1>4. ASSUME NEW i \in Items PROVE ItemIs(caItems[i])' /\ Settled(i)'
  <2>1. StatusTrue(i) => StatusTrue(i)'
    BY <1>1, <1>3 DEF StatusTrue, Open
  <2>2. Settled(i)'
    BY <1>1, <2>1 DEF CaInv, Settled, Settling
  <2>3. ItemIs(caItems[i])'
    BY <1>1 DEF CaInv, ItemIs
  <2> QED BY <2>2, <2>3
<1>5. ASSUME NEW c \in CaCalls PROVE CallIs(caCall[c], caItems)' /\ Recalculated(caCall[c])'
  <2>1. CallIs(caCall'[c], caItems')
    BY <1>1 DEF CaInv
  <2>2. Recalculated(caCall[c])'
    BY <1>1, <1>3 DEF CaInv, Recalculated, Open
  <2> QED BY <2>1, <2>2
<1> QED BY <1>2, <1>4, <1>5 DEF CaInv

\* With no call at work, the status of a matched item is what its files and episodes make it,
\* whatever the calls that ended had seen of the item (sync/service.go:760): the catalogue
\* settles after any history of syncs, matches, imports and removals.
THEOREM StatusAlwaysSettles == CaSpec => []StatusSettles
<1>1. CaInit => CaInv
  BY CaInitially
<1>2. CaInv /\ [CaNext]_caVars => CaInv'
  BY CaNextKeeps, CaUnchangedKeeps
<1>3. CaInv => StatusSettles
  BY DEF CaInv, Settled, StatusTrue, Settling, StatusSettles, CaAt
<1> QED BY <1>1, <1>2, <1>3, PTL DEF CaSpec

\* No sync, import or removal drops the record of a file that was there when the call looked
\* into its folder, and the item that a sync deletes is one nobody asks for when it goes, with
\* no file in any folder that was read (sync/service.go:103, :338, :1110).
THEOREM NothingWantedDropped == CaSpec => SyncDropsNothingWanted
<1>1. CaInit => CaInv
  BY CaInitially
<1>2. CaInv /\ [CaNext]_caVars => CaInv'
  BY CaNextKeeps, CaUnchangedKeeps
<1>3. CaInv /\ [CaNext]_caVars => [OnlyLostFilesForgotten /\ WantedItemsStay]_caVars
  BY CaNextKeeps DEF StepOk
<1> QED BY <1>1, <1>2, <1>3, PTL DEF CaSpec, SyncDropsNothingWanted

\* A match found for new items is never stored over what a user decided meanwhile, and the
\* episodes of an item are those of its match (matching/match.go:208, refresh.go:75).
THEOREM MatchesAlwaysStand == CaSpec => MatchesStand
<1>1. CaInit => CaInv
  BY CaInitially
<1>2. CaInv /\ [CaNext]_caVars => CaInv'
  BY CaNextKeeps, CaUnchangedKeeps
<1>3. CaInv' => EpisodesOfMatch'
  BY DEF CaInv, ItemIs, EpisodesOfMatch
<1>4. CaInv /\ [CaNext]_caVars => [UserMatchStands /\ EpisodesOfMatch']_caVars
  BY <1>3, CaNextKeeps DEF StepOk
<1> QED BY <1>1, <1>2, <1>4, PTL DEF CaSpec, MatchesStand

\* However many requests for a series meet, only the first makes an item of it
\* (matching/requests.go:105).
THEOREM SeriesAlwaysRequestedOnce == CaSpec => SeriesRequestedOnce
<1>1. CaInit => CaInv
  BY CaInitially
<1>2. CaInv /\ [CaNext]_caVars => CaInv'
  BY CaNextKeeps, CaUnchangedKeeps
<1>3. CaInv /\ [CaNext]_caVars => [RequestedOnce]_caVars
  BY CaNextKeeps DEF StepOk
<1> QED BY <1>1, <1>2, <1>3, PTL DEF CaSpec, SeriesRequestedOnce, RequestedOnce
=============================================================================
