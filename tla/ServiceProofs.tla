---------------------------- MODULE ServiceProofs ----------------------------
(***************************************************************************)
(* The services that share no state with one another: upgrades, what the   *)
(* monitor reports, the cached clients, the media servers, the subtitles,  *)
(* the series monitor, the choice of a release. Each has an invariant of   *)
(* its own.                                                                *)
(***************************************************************************)
EXTENDS Subtitles, SeriesMonitor, ApiClients, MediaServers, Upgrade, MonitorReport,
        ReleaseChoice, FiniteSetTheorems, SequenceTheorems,
        WellFoundedInduction, TLAPS

-----------------------------------------------------------------------------
(* Upgrades                                                                *)

UpSpec == UpInit /\ [][UpNextStep]_upVars

\* A database as it is committed: the version on record, or what a database without one is.
Sound(db) ==
  /\ db.tables \in {"none", "old", "complete"}
  /\ db.version \in Nat
  /\ db.twice = {}
  /\ db.version # 0 => db.applied = 1..db.version
  /\ db.version = 0 => db.applied = IF db.tables = "complete" THEN {1} ELSE {}
  /\ db.tables = "old" => db.version = 0

\* The start has found that the migrations after the version are still to run.
Tracked == upDb.tables # "old" /\ (upDb.version = 0 => upDb.tables = "none")

BootInv ==
  /\ upRunning \in {0} \cup UpVersions
  /\ upBoot \in {"down", "decide", "force", "up", "run", "record", "serving", "failed", "refused"}
  /\ upBoot # "down" => upRunning # 0
  /\ upBoot = "force" => upDb.tables = "complete" /\ upDb.version = 0
  /\ upBoot \in {"up", "run"} => Tracked
  /\ upBoot = "run" => upDriver.version = upDb.version + 1
  /\ upTx # {} => upBoot = "run" /\ upTx = {Applied(upDb, upDriver.version)}
  /\ upBoot = "record" => Tracked /\ upDriver.applied
  /\ upBoot = "serving" => upDb.version = MigrationsOf[upRunning]
  /\ upBoot = "refused" => upDb.tables = "old"

\* The call is between the two renames of exe: the binary is the backup.
Swapping(c) == upApply[c].pc \in {"moved", "restore"} /\ upApply[c].path = 0

CallRecord == [pc : {"idle", "fetched", "downloaded", "resolved", "moved", "restore", "exec"},
               release : {0} \cup UpVersions, path : UpNames]

BinaryTypes ==
  /\ upOffered \in UpVersions
  /\ upCheck \in {0} \cup UpVersions /\ upLatest \in {0} \cup UpVersions
  /\ upFile \in [UpNames -> {0} \cup UpVersions]
  /\ upSelf \in [path : UpNames, there : BOOLEAN]
  /\ upApply \in [UpCalls -> CallRecord]
  /\ upCrash \in [kills : Nat, lost : BOOLEAN]
  /\ \A c \in UpCalls :
       /\ upApply[c].pc # "idle" => upApply[c].release # 0
       /\ upApply[c].pc \in {"moved", "restore"} => upApply[c].path < UpMaxBackups

\* Unless exe was lost, at most one call is between the renames, and exe is absent just then.
ExeInv ==
  ~upCrash.lost =>
    /\ \A c \in UpCalls : Swapping(c) => upFile[0] = 0 /\ upFile[1] # 0
    /\ \A c, d \in UpCalls : Swapping(c) /\ Swapping(d) => c = d
    /\ upFile[0] = 0 => \E c \in UpCalls : Swapping(c)

BinaryInv == BinaryTypes /\ ExeInv

UpgradeInv == Sound(upDb) /\ BootInv /\ BinaryInv

LEMMA UpgradeInitial == UpInit => UpgradeInv
<1>. SUFFICES ASSUME UpInit PROVE UpgradeInv
  OBVIOUS
<1>. USE UpgradeAssumption
<1>1. Sound(upDb)
  <2>1. upDb.tables \in {"none", "old", "complete"} /\ upDb.version = 0 /\ upDb.twice = {}
        /\ upDb.applied = IF upDb.tables = "complete" THEN {1} ELSE {}
    BY DEF UpInit
  <2>. QED
    BY <2>1 DEF Sound
<1>2. BootInv
  BY DEF UpInit, BootInv
<1>3. BinaryTypes
  BY DEF UpInit, BinaryTypes, UpIdle, CallRecord, UpNames
<1>4. ExeInv
  BY DEF UpInit, ExeInv, Swapping, UpIdle, UpNames
<1>. QED
  BY <1>1, <1>2, <1>3, <1>4 DEF UpgradeInv, BinaryInv
\* A call that has just begun is not between the renames.
LEMMA BootBinary ==
  ASSUME BinaryInv, upApply' = [c \in UpCalls |-> UpIdle], upCheck' = 0, upLatest' = 0,
         UNCHANGED <<upOffered, upFile>>, upSelf' \in [path : UpNames, there : BOOLEAN],
         upCrash' \in [kills : Nat, lost : BOOLEAN], ~upCrash'.lost => upFile[0] # 0
  PROVE  BinaryInv'
<1>1. BinaryTypes'
  BY UpgradeAssumption DEF BinaryInv, BinaryTypes, UpIdle, CallRecord, UpNames
<1>2. ExeInv'
  BY DEF ExeInv, Swapping, UpIdle
<1>. QED
  BY <1>1, <1>2 DEF BinaryInv

-----------------------------------------------------------------------------
(* The steps of the start. *)

LEMMA StartPreserves ==
  ASSUME UpgradeInv, UpStart \/ UpDecide \/ UpForce \/ UpNext \/ UpRun \/ UpScriptFails
                     \/ UpRecord \/ UpExit
  PROVE  UpgradeInv'
<1>. USE UpgradeAssumption DEF UpgradeInv
<1>1. CASE UpStart
  <2>1. 0 \in UpNames
    BY DEF UpNames
  <2>2. Sound(upDb)' /\ BootInv'
    BY <1>1, <2>1 DEF UpStart, UpBoots, BootInv, BinaryInv, BinaryTypes, Sound, Tracked
  <2>3. BinaryInv'
    BY <1>1, <2>1, BootBinary DEF UpStart, UpBoots, BinaryInv, BinaryTypes
  <2>. QED
    BY <2>2, <2>3
<1>2. CASE UpDecide
  BY <1>2 DEF UpDecide, BootInv, BinaryInv, BinaryTypes, ExeInv, Sound, Tracked, Swapping,
     upBinary
<1>3. CASE UpForce
  <2>1. upDb' = [upDb EXCEPT !.version = 1] /\ upDb.tables = "complete" /\ upDb.version = 0
    BY <1>3 DEF UpForce, BootInv
  <2>2. Sound(upDb)'
    <3>1. \A n \in {1} : n = 1 /\ 1..n = {1}
      OBVIOUS
    <3>. QED
      BY <2>1, <3>1 DEF Sound
  <2>3. BootInv' /\ BinaryInv'
    BY <1>3, <2>1 DEF UpForce, BootInv, BinaryInv, BinaryTypes, ExeInv, Tracked, Swapping,
       upBinary, UpNotPending
  <2>. QED
    BY <2>2, <2>3
<1>4. CASE UpNext
  <2>1. Sound(upDb)' /\ BinaryInv'
    BY <1>4 DEF UpNext, Sound, BinaryInv, BinaryTypes, ExeInv, Swapping, upBinary
  <2>2. BootInv'
    BY <1>4 DEF UpNext, BootInv, Sound, Tracked
  <2>. QED
    BY <2>1, <2>2
<1>5. CASE UpRun
  <2>1. Sound(upDb)' /\ BinaryInv'
    BY <1>5 DEF UpRun, Sound, BinaryInv, BinaryTypes, ExeInv, Swapping, upBinary
  <2>2. BootInv'
    BY <1>5 DEF UpRun, BootInv, Tracked, Applied
  <2>. QED
    BY <2>1, <2>2
<1>6. CASE UpScriptFails
  BY <1>6 DEF UpScriptFails, BootInv, BinaryInv, BinaryTypes, ExeInv, Sound, Tracked, Swapping,
     upBinary
<1>7. CASE UpRecord
  BY <1>7 DEF UpRecord, BootInv, BinaryInv, BinaryTypes, ExeInv, Sound, Tracked, Swapping,
     upBinary, UpNotPending
<1>8. CASE UpExit
  BY <1>8 DEF UpExit, BootInv, BinaryInv, BinaryTypes, ExeInv, Sound, Tracked, Swapping,
     upBinary
<1>. QED
  BY <1>1, <1>2, <1>3, <1>4, <1>5, <1>6, <1>7, <1>8

\* The commit: the script and its version become visible together.
LEMMA CommitPreserves == ASSUME UpgradeInv, UpCommit PROVE UpgradeInv'
<1>. USE DEF UpgradeInv
<1>. DEFINE v == upDb.version + 1
<1>1. /\ upBoot = "run" /\ Tracked /\ upDriver.version = v /\ v \in Nat /\ v # 0
      /\ upTx = {Applied(upDb, v)}
  BY DEF UpCommit, BootInv, Sound
<1>2. upDb' = [Applied(upDb, v) EXCEPT !.version = v]
  BY <1>1 DEF UpCommit
<1>3. upDb.applied = 1..upDb.version
  <2>1. CASE upDb.version = 0
    BY <2>1, <1>1 DEF Sound, Tracked
  <2>2. CASE upDb.version # 0
    BY <2>2 DEF Sound
  <2>. QED
    BY <2>1, <2>2
<1>4. v \notin upDb.applied /\ upDb.applied \cup {v} = 1..v
  BY <1>3, <1>1 DEF Sound
<1>5. /\ upDb'.version = v /\ upDb'.tables = upDb.tables
      /\ upDb'.applied = 1..v /\ upDb'.twice = {}
  <2>. DEFINE next == [upDb EXCEPT !.applied = @ \cup {v}, !.twice = {}, !.version = v]
  <2>1. Applied(upDb, v).twice = upDb.twice
    BY <1>4 DEF Applied, UpDb
  <2>. QED
    BY <1>2, <1>4, <2>1 DEF Applied, Sound
<1>6. Sound(upDb)'
  BY <1>1, <1>5 DEF Sound, Tracked
<1>7. BootInv'
  BY <1>1, <1>5 DEF UpCommit, BootInv, Tracked
<1>8. BinaryInv'
  BY DEF UpCommit, BinaryInv, BinaryTypes, ExeInv, Swapping, upBinary
<1>. QED
  BY <1>6, <1>7, <1>8
-----------------------------------------------------------------------------
(* The updater's steps, and a kill. *)

\* A call takes a step: what it is now, and that the others are what they were.
LEMMA ApplyMoves ==
  ASSUME BinaryInv, NEW c \in UpCalls, NEW pc, UpSetApply(c, pc),
         pc \in {"idle", "downloaded", "moved", "restore", "exec"},
         pc # "idle" => upApply[c].pc # "idle",
         pc \in {"moved", "restore"} => upApply[c].path < UpMaxBackups
  PROVE  /\ upApply' \in [UpCalls -> CallRecord]
         /\ upApply'[c].pc = pc /\ upApply'[c].path = upApply[c].path
         /\ \A d \in UpCalls : d # c => upApply'[d] = upApply[d]
         /\ \A d \in UpCalls :
              /\ upApply'[d].pc # "idle" => upApply'[d].release # 0
              /\ upApply'[d].pc \in {"moved", "restore"} => upApply'[d].path < UpMaxBackups
<1>1. upApply[c] \in CallRecord
  BY DEF BinaryInv, BinaryTypes
<1>2. PICK n : n = [upApply[c] EXCEPT !.pc = pc]
  OBVIOUS
<1>3. n \in CallRecord /\ n.pc = pc /\ n.path = upApply[c].path /\ n.release = upApply[c].release
  BY <1>1, <1>2 DEF CallRecord
<1>4. upApply' = [upApply EXCEPT ![c] = n]
  BY <1>2 DEF UpSetApply
<1>5. /\ upApply' \in [UpCalls -> CallRecord] /\ upApply'[c] = n
      /\ \A d \in UpCalls : d # c => upApply'[d] = upApply[d]
  BY <1>3, <1>4 DEF BinaryInv, BinaryTypes
<1>6. ASSUME NEW d \in UpCalls
      PROVE  /\ upApply'[d].pc # "idle" => upApply'[d].release # 0
             /\ upApply'[d].pc \in {"moved", "restore"} => upApply'[d].path < UpMaxBackups
  <2>1. CASE d = c
    BY <1>3, <1>5, <2>1 DEF BinaryInv, BinaryTypes
  <2>2. CASE d # c
    BY <1>5, <2>2 DEF BinaryInv, BinaryTypes
  <2>. QED
    BY <2>1, <2>2
<1>. QED
  BY <1>3, <1>5, <1>6

\* A rename: what each file is afterwards.
LEMMA RenameIs ==
  ASSUME BinaryInv, NEW from \in UpNames, NEW to \in UpNames, from # to, UpRename(from, to)
  PROVE  /\ upFile' \in [UpNames -> {0} \cup UpVersions]
         /\ upSelf' \in [path : UpNames, there : BOOLEAN]
         /\ upFile'[from] = 0 /\ upFile'[to] = upFile[from]
         /\ \A n \in UpNames : (n # from /\ n # to) => upFile'[n] = upFile[n]
<1>1. upFile' = [upFile EXCEPT ![to] = upFile[from], ![from] = 0]
  BY DEF UpRename
<1>2. upFile \in [UpNames -> {0} \cup UpVersions] /\ upSelf \in [path : UpNames, there : BOOLEAN]
  BY DEF BinaryInv, BinaryTypes
<1>3. upSelf' \in [path : UpNames, there : BOOLEAN]
  <2>1. \/ \E there \in BOOLEAN : upSelf' = [path |-> to, there |-> there]
        \/ upSelf' = upSelf
    BY DEF UpRename
  <2>. QED
    BY <1>2, <2>1
<1>. QED
  BY <1>1, <1>2, <1>3

\* The files and the name of the running one, as a call moves, installs or restores.
LEMMA FilePreserves ==
  ASSUME BinaryInv, NEW c \in UpCalls, UpBackUp(c) \/ UpInstall(c) \/ UpRestore(c)
  PROVE  BinaryInv'
<1>. DEFINE p == upApply[c].path
<1>0. /\ UpMaxBackups \in Nat /\ 0 \in UpNames
      /\ \A n \in UpNames : n \in Nat /\ (n < UpMaxBackups => n + 1 \in UpNames)
  BY UpgradeAssumption DEF UpNames
<1>1. /\ upApply[c] \in CallRecord /\ p \in UpNames /\ p \in Nat
      /\ upFile \in [UpNames -> {0} \cup UpVersions]
      /\ upSelf \in [path : UpNames, there : BOOLEAN]
      /\ upCrash \in [kills : Nat, lost : BOOLEAN] /\ 0 \notin UpVersions
      /\ UNCHANGED <<upOffered, upCheck, upLatest>>
  BY <1>0, UpgradeAssumption
  DEF BinaryInv, BinaryTypes, CallRecord, UpBackUp, UpInstall, UpRestore
<1>2. CASE UpBackUp(c)
  <2>1. p < UpMaxBackups /\ p + 1 \in UpNames /\ p + 1 # p /\ upApply[c].pc = "resolved"
    BY <1>0, <1>1, <1>2 DEF UpBackUp
  <2>2. PICK l \in BOOLEAN : l = (upCrash.lost \/ (p = 1 /\ upFile[0] = 0))
    OBVIOUS
  <2>3. upCrash' = [upCrash EXCEPT !.lost = l]
    BY <1>2, <2>2 DEF UpBackUp
  <2>4. upCrash' \in [kills : Nat, lost : BOOLEAN] /\ upCrash'.lost = l
    BY <1>1, <2>3
  <2>5. CASE upFile[p] = 0
    <3>1. UpSetApply(c, "idle") /\ UNCHANGED <<upFile, upSelf>>
      BY <1>2, <2>5 DEF UpBackUp
    <3>2. BinaryTypes'
      BY <1>1, <2>4, <3>1, ApplyMoves DEF BinaryInv, BinaryTypes
    <3>3. \A d \in UpCalls : Swapping(d)' <=> Swapping(d)
      BY <2>1, <3>1, ApplyMoves DEF Swapping
    <3>4. ExeInv'
      BY <2>2, <2>4, <3>1, <3>3 DEF BinaryInv, ExeInv
    <3>. QED
      BY <3>2, <3>4 DEF BinaryInv
  <2>6. CASE upFile[p] # 0
    <3>1. UpSetApply(c, "moved") /\ UpRename(p, p + 1)
      BY <1>2, <2>6 DEF UpBackUp
    <3>2. /\ upApply' \in [UpCalls -> CallRecord]
          /\ upApply'[c].pc = "moved" /\ upApply'[c].path = p
          /\ \A d \in UpCalls : d # c => upApply'[d] = upApply[d]
          /\ \A d \in UpCalls :
              /\ upApply'[d].pc # "idle" => upApply'[d].release # 0
              /\ upApply'[d].pc \in {"moved", "restore"} => upApply'[d].path < UpMaxBackups
      BY <2>1, <3>1, ApplyMoves
    <3>3. /\ upFile' \in [UpNames -> {0} \cup UpVersions]
          /\ upSelf' \in [path : UpNames, there : BOOLEAN]
          /\ upFile'[p] = 0 /\ upFile'[p + 1] = upFile[p]
          /\ \A n \in UpNames : (n # p /\ n # p + 1) => upFile'[n] = upFile[n]
      BY <1>1, <2>1, <3>1, RenameIs
    <3>4. BinaryTypes'
      BY <1>1, <2>4, <3>2, <3>3 DEF BinaryInv, BinaryTypes
    <3>5. ExeInv'
      <4>. SUFFICES ASSUME ~l
                    PROVE  /\ \A d \in UpCalls : Swapping(d)' => upFile'[0] = 0 /\ upFile'[1] # 0
                           /\ \A d, e \in UpCalls : Swapping(d)' /\ Swapping(e)' => d = e
                           /\ upFile'[0] = 0 => \E d \in UpCalls : Swapping(d)'
        BY <2>4 DEF ExeInv
      <4>1. /\ \A d \in UpCalls : Swapping(d) => upFile[0] = 0 /\ upFile[1] # 0
            /\ \A d, e \in UpCalls : Swapping(d) /\ Swapping(e) => d = e
            /\ upFile[0] = 0 => \E d \in UpCalls : Swapping(d)
        BY <2>2 DEF BinaryInv, ExeInv
      <4>2. ~Swapping(c) /\ \A d \in UpCalls : d # c => (Swapping(d)' <=> Swapping(d))
        BY <2>1, <3>2 DEF Swapping
      <4>3. CASE p = 0
        <5>1. Swapping(c)' /\ upFile'[0] = 0 /\ upFile'[1] # 0
          BY <2>6, <3>2, <3>3, <4>3 DEF Swapping
        <5>2. \A d \in UpCalls : ~Swapping(d)
          BY <2>6, <4>1, <4>3
        <5>. QED
          BY <4>2, <5>1, <5>2
      <4>4. CASE p = 1
        <5>1. upFile[0] # 0 /\ \A d \in UpCalls : ~Swapping(d)
          BY <2>2, <4>1, <4>4
        <5>2. upFile'[0] # 0
          BY <1>0, <3>3, <4>4, <5>1
        <5>3. ~Swapping(c)'
          BY <3>2, <4>4 DEF Swapping
        <5>. QED
          BY <4>2, <5>1, <5>2, <5>3
      <4>5. CASE p > 1
        <5>1. upFile'[0] = upFile[0] /\ upFile'[1] = upFile[1]
          <6>1. 1 \in UpNames /\ 0 # p /\ 0 # p + 1 /\ 1 # p /\ 1 # p + 1
            BY <1>0, <1>1, <2>1, <4>5 DEF UpNames
          <6>. QED
            BY <1>0, <3>3, <6>1
        <5>2. ~Swapping(c)'
          BY <1>1, <3>2, <4>5 DEF Swapping
        <5>. QED
          BY <4>1, <4>2, <5>1, <5>2
      <4>. QED
        BY <1>1, <4>3, <4>4, <4>5
    <3>. QED
      BY <3>4, <3>5 DEF BinaryInv
  <2>. QED
    BY <2>5, <2>6
<1>3. CASE UpInstall(c)
  <2>1. /\ UpSetApply(c, "exec") /\ upApply[c].pc = "moved" /\ UNCHANGED upCrash
        /\ upFile' = [upFile EXCEPT ![p] = upApply[c].release]
        /\ upApply[c].release \in UpVersions
    BY <1>1, <1>3 DEF UpInstall, BinaryInv, BinaryTypes, CallRecord
  <2>2. (\E there \in BOOLEAN : upSelf' = [path |-> p, there |-> there]) \/ upSelf' = upSelf
    BY <1>3 DEF UpInstall
  <2>3. /\ upFile' \in [UpNames -> {0} \cup UpVersions] /\ upFile'[p] # 0
        /\ \A n \in UpNames : n # p => upFile'[n] = upFile[n]
        /\ upSelf' \in [path : UpNames, there : BOOLEAN]
    BY <1>1, <2>1, <2>2
  <2>4. /\ upApply' \in [UpCalls -> CallRecord]
        /\ upApply'[c].pc = "exec" /\ upApply'[c].path = p
        /\ \A d \in UpCalls : d # c => upApply'[d] = upApply[d]
        /\ \A d \in UpCalls :
            /\ upApply'[d].pc # "idle" => upApply'[d].release # 0
            /\ upApply'[d].pc \in {"moved", "restore"} => upApply'[d].path < UpMaxBackups
    BY <2>1, ApplyMoves
  <2>5. BinaryTypes'
    BY <1>1, <2>1, <2>3, <2>4 DEF BinaryInv, BinaryTypes
  <2>6. /\ ~Swapping(c)' /\ (Swapping(c) <=> p = 0)
        /\ \A d \in UpCalls : d # c => (Swapping(d)' <=> Swapping(d))
    BY <2>1, <2>4 DEF Swapping
  <2>7. \A d \in UpCalls : Swapping(d) => 1 \in UpNames
    BY <1>0 DEF Swapping, BinaryInv, BinaryTypes
  <2>8. ExeInv'
    <3>1. CASE p = 0
      BY <1>0, <2>1, <2>3, <2>6, <3>1 DEF BinaryInv, ExeInv
    <3>2. CASE p # 0
      BY <1>0, <2>1, <2>3, <2>6, <2>7, <3>2 DEF BinaryInv, ExeInv
    <3>. QED
      BY <3>1, <3>2
  <2>. QED
    BY <2>5, <2>8 DEF BinaryInv
<1>4. CASE UpRestore(c)
  <2>1. /\ UpSetApply(c, "idle") /\ upApply[c].pc = "restore" /\ UNCHANGED upCrash
        /\ p < UpMaxBackups /\ p + 1 \in UpNames /\ p + 1 # p
    BY <1>0, <1>1, <1>4 DEF UpRestore, BinaryInv, BinaryTypes
  <2>2. /\ upApply' \in [UpCalls -> CallRecord]
        /\ upApply'[c].pc = "idle" /\ upApply'[c].path = p
        /\ \A d \in UpCalls : d # c => upApply'[d] = upApply[d]
        /\ \A d \in UpCalls :
            /\ upApply'[d].pc # "idle" => upApply'[d].release # 0
            /\ upApply'[d].pc \in {"moved", "restore"} => upApply'[d].path < UpMaxBackups
    BY <2>1, ApplyMoves
  <2>3. /\ ~Swapping(c)' /\ (Swapping(c) <=> p = 0)
        /\ \A d \in UpCalls : d # c => (Swapping(d)' <=> Swapping(d))
    BY <2>1, <2>2 DEF Swapping
  <2>4. CASE upFile[p + 1] = 0
    <3>1. UNCHANGED <<upFile, upSelf>>
      BY <1>4, <2>4 DEF UpRestore
    <3>2. BinaryTypes'
      BY <1>1, <2>1, <2>2, <3>1 DEF BinaryInv, BinaryTypes
    <3>3. ExeInv'
      BY <2>1, <2>3, <2>4, <3>1 DEF BinaryInv, ExeInv
    <3>. QED
      BY <3>2, <3>3 DEF BinaryInv
  <2>5. CASE upFile[p + 1] # 0
    <3>1. UpRename(p + 1, p)
      BY <1>4, <2>5 DEF UpRestore
    <3>2. /\ upFile' \in [UpNames -> {0} \cup UpVersions]
          /\ upSelf' \in [path : UpNames, there : BOOLEAN]
          /\ upFile'[p + 1] = 0 /\ upFile'[p] = upFile[p + 1]
          /\ \A n \in UpNames : (n # p + 1 /\ n # p) => upFile'[n] = upFile[n]
      BY <1>1, <2>1, <3>1, RenameIs
    <3>3. BinaryTypes'
      BY <1>1, <2>1, <2>2, <3>2 DEF BinaryInv, BinaryTypes
    <3>4. ExeInv'
      <4>1. CASE p = 0
        <5>1. upFile'[0] # 0
          BY <2>5, <3>2, <4>1
        <5>. QED
          BY <2>1, <2>3, <4>1, <5>1 DEF BinaryInv, ExeInv
      <4>2. CASE p # 0
        <5>1. upFile'[0] = upFile[0]
          BY <1>0, <1>1, <3>2, <4>2
        <5>2. 1 \in UpNames /\ (upFile[1] # 0 => upFile'[1] # 0)
          <6>1. 1 \in UpNames /\ p + 1 # 1
            BY <1>0, <1>1, <2>1, <4>2 DEF UpNames
          <6>2. CASE p = 1
            BY <2>5, <3>2, <6>2, <6>1
          <6>3. CASE p # 1
            BY <3>2, <6>1, <6>3
          <6>. QED
            BY <6>1, <6>2, <6>3
        <5>. QED
          BY <2>1, <2>3, <4>2, <5>1, <5>2 DEF BinaryInv, ExeInv
      <4>. QED
        BY <4>1, <4>2
    <3>. QED
      BY <3>3, <3>4 DEF BinaryInv
  <2>. QED
    BY <2>4, <2>5
<1>. QED
  BY <1>2, <1>3, <1>4

\* The steps that leave the files alone.
LEMMA CallPreserves ==
  ASSUME BinaryInv, NEW c \in UpCalls,
         \/ UpApply(c) \/ UpDownload(c) \/ UpResolve(c) \/ UpInstallFails(c) \/ UpExecFails(c)
  PROVE  BinaryInv'
<1>1. /\ UNCHANGED <<upOffered, upFile, upSelf, upCheck, upLatest, upCrash>>
      /\ upApply[c] \in CallRecord /\ upSelf \in [path : UpNames, there : BOOLEAN]
  BY DEF UpApply, UpDownload, UpResolve, UpInstallFails, UpExecFails, UpSetApply, BinaryInv,
     BinaryTypes
<1>2. CASE UpApply(c) \/ UpResolve(c)
  <2>1. PICK n \in CallRecord :
          /\ upApply' = [upApply EXCEPT ![c] = n] /\ n.pc \in {"fetched", "resolved", "idle"}
          /\ n.pc # "idle" => n.release # 0
    <3>1. CASE UpApply(c)
      <4>1. PICK n : n = [pc |-> "fetched", release |-> upLatest, path |-> 0]
        OBVIOUS
      <4>2. n \in CallRecord /\ n.pc = "fetched" /\ n.release = upLatest
        BY <4>1, UpgradeAssumption DEF CallRecord, UpNames, BinaryInv, BinaryTypes
      <4>. QED
        BY <3>1, <4>1, <4>2 DEF UpApply
    <3>2. CASE UpResolve(c)
      <4>1. PICK pc \in {"resolved", "idle"} :
              pc = IF upFile[upSelf.path] # 0 THEN "resolved" ELSE "idle"
        OBVIOUS
      <4>2. PICK n : n = [upApply[c] EXCEPT !.pc = pc, !.path = upSelf.path]
        OBVIOUS
      <4>3. n \in CallRecord /\ n.pc = pc /\ n.release = upApply[c].release
        BY <1>1, <4>2 DEF CallRecord
      <4>4. upApply' = [upApply EXCEPT ![c] = n] /\ upApply[c].pc = "downloaded"
        BY <3>2, <4>1, <4>2 DEF UpResolve
      <4>. QED
        BY <4>3, <4>4 DEF BinaryInv, BinaryTypes
    <3>. QED
      BY <1>2, <3>1, <3>2
  <2>2. BinaryTypes'
    BY <1>1, <2>1 DEF BinaryInv, BinaryTypes
  <2>3. upApply[c].pc \notin {"moved", "restore"}
    BY <1>2 DEF UpApply, UpResolve
  <2>4. ASSUME NEW d \in UpCalls PROVE Swapping(d)' <=> Swapping(d)
    BY <2>1, <2>3 DEF Swapping, BinaryInv, BinaryTypes
  <2>5. ExeInv'
    BY <1>1, <2>4 DEF BinaryInv, ExeInv
  <2>. QED
    BY <2>2, <2>5 DEF BinaryInv
<1>3. CASE UpDownload(c) \/ UpInstallFails(c) \/ UpExecFails(c)
  <2>1. PICK pc \in {"idle", "downloaded", "restore"} :
          /\ UpSetApply(c, pc) /\ upApply[c].pc # "idle"
          /\ pc = "restore" <=> upApply[c].pc \in {"moved", "restore"}
    BY <1>3 DEF UpDownload, UpInstallFails, UpExecFails
  <2>2. pc = "restore" => upApply[c].path < UpMaxBackups
    BY <2>1 DEF BinaryInv, BinaryTypes
  <2>3. /\ upApply' \in [UpCalls -> CallRecord]
        /\ upApply'[c].pc = pc /\ upApply'[c].path = upApply[c].path
        /\ \A d \in UpCalls : d # c => upApply'[d] = upApply[d]
        /\ \A d \in UpCalls :
            /\ upApply'[d].pc # "idle" => upApply'[d].release # 0
            /\ upApply'[d].pc \in {"moved", "restore"} => upApply'[d].path < UpMaxBackups
    BY <2>1, <2>2, ApplyMoves
  <2>4. BinaryTypes'
    BY <1>1, <2>3 DEF BinaryInv, BinaryTypes
  <2>5. ASSUME NEW d \in UpCalls PROVE Swapping(d)' <=> Swapping(d)
    BY <2>1, <2>3 DEF Swapping
  <2>6. ExeInv'
    BY <1>1, <2>5 DEF BinaryInv, ExeInv
  <2>. QED
    BY <2>4, <2>6 DEF BinaryInv
<1>. QED
  BY <1>2, <1>3

LEMMA ApplyPreserves ==
  ASSUME UpgradeInv, NEW c \in UpCalls,
         \/ UpApply(c) \/ UpDownload(c) \/ UpResolve(c) \/ UpBackUp(c) \/ UpInstall(c)
         \/ UpInstallFails(c) \/ UpRestore(c) \/ UpExec(c) \/ UpExecFails(c)
  PROVE  UpgradeInv'
<1>. USE UpgradeAssumption DEF UpgradeInv
<1>1. CASE UpExec(c)
  <2>1. PICK path \in UpNames : path = upApply[c].path
    BY DEF BinaryInv, BinaryTypes, CallRecord
  <2>2. /\ upFile[path] # 0 /\ UpBoots(path) /\ UNCHANGED <<upOffered, upFile, upDb>>
        /\ upCrash' = [upCrash EXCEPT !.lost = @ \/ upFile[0] = 0]
    BY <1>1, <2>1 DEF UpExec
  <2>3. Sound(upDb)' /\ BootInv'
    BY <2>2 DEF UpBoots, BootInv, BinaryInv, BinaryTypes, Sound, Tracked
  <2>4. PICK l \in BOOLEAN : l = (upCrash.lost \/ upFile[0] = 0)
    OBVIOUS
  <2>5. upCrash' = [upCrash EXCEPT !.lost = l]
    BY <2>2, <2>4
  <2>6. upCrash' \in [kills : Nat, lost : BOOLEAN] /\ (~upCrash'.lost => upFile[0] # 0)
    BY <2>4, <2>5 DEF BinaryInv, BinaryTypes
  <2>7. BinaryInv'
    BY <2>2, <2>6, BootBinary DEF UpBoots
  <2>. QED
    BY <2>3, <2>7
<1>2. CASE ~UpExec(c)
  <2>1. UNCHANGED <<upRunning, upSchema>>
    BY <1>2 DEF UpApply, UpDownload, UpResolve, UpBackUp, UpInstall, UpInstallFails, UpRestore,
       UpExecFails
  <2>2. Sound(upDb)' /\ BootInv'
    BY <2>1 DEF upSchema, Sound, BootInv, Tracked
  <2>3. BinaryInv'
    BY <1>2, FilePreserves, CallPreserves
  <2>. QED
    BY <2>2, <2>3
<1>. QED
  BY <1>1, <1>2

LEMMA CheckPreserves ==
  ASSUME UpgradeInv, UpPublish \/ UpFetch \/ UpChecked PROVE UpgradeInv'
<1>1. UNCHANGED <<upRunning, upSchema, upFile, upSelf, upApply, upCrash>>
  BY DEF UpPublish, UpFetch, UpChecked
<1>2. upOffered' \in UpVersions /\ upCheck' \in {0} \cup UpVersions
      /\ upLatest' \in {0} \cup UpVersions
  BY DEF UpPublish, UpFetch, UpChecked, UpgradeInv, BinaryInv, BinaryTypes
<1>3. Sound(upDb)' /\ BootInv'
  BY <1>1 DEF UpgradeInv, upSchema, Sound, BootInv, Tracked
<1>4. BinaryTypes' /\ ExeInv'
  BY <1>1, <1>2 DEF UpgradeInv, BinaryInv, BinaryTypes, ExeInv, Swapping
<1>. QED
  BY <1>3, <1>4 DEF UpgradeInv, BinaryInv

\* A kill between the renames loses exe.
LEMMA KillPreserves == ASSUME UpgradeInv, UpKill PROVE UpgradeInv'
<1>. USE UpgradeAssumption
<1>1. Sound(upDb)' /\ BootInv'
  BY DEF UpgradeInv, UpKill, Sound, BootInv, Tracked
<1>2. BinaryInv'
  <2>1. PICK l \in BOOLEAN : l = (upCrash.lost \/ upFile[0] = 0)
    OBVIOUS
  <2>2. upCrash' = [kills |-> upCrash.kills + 1, lost |-> l]
    BY <2>1 DEF UpKill
  <2>3. upCrash' \in [kills : Nat, lost : BOOLEAN] /\ (~upCrash'.lost => upFile[0] # 0)
    <3>1. upCrash.kills + 1 \in Nat
      BY DEF UpgradeInv, BinaryInv, BinaryTypes
    <3>. QED
      BY <2>1, <2>2, <3>1
  <2>4. /\ UNCHANGED <<upOffered, upFile, upSelf>> /\ upLatest' = 0 /\ upCheck' = 0
        /\ upApply' = [c \in UpCalls |-> UpIdle]
    BY DEF UpKill
  <2>5. BinaryInv /\ upSelf' \in [path : UpNames, there : BOOLEAN]
    BY <2>4 DEF UpgradeInv, BinaryInv, BinaryTypes
  <2>. QED
    BY <2>3, <2>4, <2>5, BootBinary
<1>. QED
  BY <1>1, <1>2 DEF UpgradeInv

LEMMA UpgradeStep == UpgradeInv /\ [UpNextStep]_upVars => UpgradeInv'
<1>1. ASSUME UpgradeInv, UNCHANGED upVars PROVE UpgradeInv'
  BY <1>1 DEF upVars, UpgradeInv, Sound, BootInv, Tracked, BinaryInv, BinaryTypes, ExeInv, Swapping
<1>. QED
  BY <1>1, StartPreserves, CommitPreserves, ApplyPreserves, CheckPreserves, KillPreserves
  DEF UpNextStep

\* Whatever is killed where, the schema is what the database has on record, a server runs on no
\* schema but its own, and exe is there unless an Apply is between the two renames of it, with
\* the backup to put back, or was killed, replaced or undercut by another there (migrator.go,
\* updater.Service.Apply).
THEOREM UpgradesAlwaysComplete == UpSpec => []UpgradesComplete
<1>1. UpgradeInv => UpgradesComplete
  <2>. SUFFICES ASSUME UpgradeInv PROVE SchemaOnRecord /\ BinaryInPlace
    BY DEF UpgradesComplete
  <2>1. SchemaOnRecord
    BY DEF SchemaOnRecord, UpgradeInv, Sound, BootInv
  <2>2. BinaryInPlace
    BY DEF BinaryInPlace, UpgradeInv, BinaryInv, ExeInv, Swapping
  <2>. QED
    BY <2>1, <2>2
<1>. QED
  BY <1>1, UpgradeInitial, UpgradeStep, PTL DEF UpSpec

-----------------------------------------------------------------------------
(* Reports of the monitor                                                  *)

\* The details kept are different ones, all of them until the limit is reached, and from
\* then on the limit is used up.
DetailsKept ==
  /\ \A i \in DOMAIN rpDetails : rpDetails[i] \in DOMAIN rpAdded
  /\ \A i, k \in DOMAIN rpDetails : rpDetails[i] = rpDetails[k] => i = k
  /\ Len(rpDetails) <= MaxDetails
  /\ Len(rpDetails) < MaxDetails => ~rpTruncated
  /\ ~rpTruncated => Len(rpDetails) = Len(rpAdded) /\ \A i \in DOMAIN rpDetails : rpDetails[i] = i
  /\ rpTruncated => Hidden(rpAdded, rpDetails) # {}

\* What is hidden is not more important than what is kept.
HiddenLess ==
  \A j \in Hidden(rpAdded, rpDetails), i \in DOMAIN rpDetails : Priority(i) <= rpAdded[j]

\* The check has the item's version, or an older one.
InputKnown ==
  /\ rpItem # 0 => rpInput <= rpItem
  /\ rpInput = rpItem => ~rpOvertaken
  /\ \A r \in rpRow : (rpItem # 0 => r.input <= rpItem)

RpInv == RpTypeOK /\ DetailsKept /\ HiddenLess /\ InputKnown /\ ReportTrue

-----------------------------------------------------------------------------

\* Adding the next detail, while there is room, keeps all of them (decisionCheck.add).
LEMMA RoomKept ==
  ASSUME RpTypeOK, DetailsKept, HiddenLess,
         NEW o \in Outcomes, Len(rpDetails) < MaxDetails,
         rpAdded' = Append(rpAdded, o),
         rpDetails' = Append(rpDetails, Len(rpAdded) + 1),
         rpTruncated' = rpTruncated
  PROVE  DetailsKept' /\ HiddenLess'
<1> USE MonitorReportAssumption
<1>1. /\ rpAdded \in Seq(Outcomes) /\ rpDetails \in Seq(Nat \ {0})
      /\ Len(rpAdded) \in Nat /\ Len(rpDetails) = Len(rpAdded)
      /\ ~rpTruncated /\ \A i \in DOMAIN rpDetails : rpDetails[i] = i
  BY DEF RpTypeOK, DetailsKept
<1>2. /\ DOMAIN rpAdded' = 1..(Len(rpAdded) + 1)
      /\ DOMAIN rpDetails' = 1..(Len(rpAdded) + 1)
      /\ Len(rpDetails') = Len(rpAdded) + 1 /\ Len(rpAdded') = Len(rpAdded) + 1
      /\ \A i \in DOMAIN rpDetails' : rpDetails'[i] = i
  BY <1>1
<1>3. Hidden(rpAdded', rpDetails') = {}
  BY <1>2 DEF Hidden
<1>4. Len(rpDetails') <= MaxDetails
  BY <1>1, <1>2
<1>5. DetailsKept'
  BY <1>1, <1>2, <1>4 DEF DetailsKept
<1>6. HiddenLess'
  BY <1>3 DEF HiddenLess
<1> QED BY <1>5, <1>6

\* Where there is none, the least important of the kept details makes room ...
LEMMA WorstLeft ==
  ASSUME RpTypeOK, DetailsKept, HiddenLess,
         NEW o \in Outcomes, Len(rpDetails) >= MaxDetails,
         rpAdded' = Append(rpAdded, o), rpTruncated' = TRUE,
         NEW w \in DOMAIN rpDetails, Worst(w, o),
         rpDetails' = [rpDetails EXCEPT ![w] = Len(rpAdded) + 1]
  PROVE  DetailsKept' /\ HiddenLess'
<1> USE MonitorReportAssumption
<1> DEFINE n == Len(rpAdded) + 1
<1>1. /\ rpAdded \in Seq(Outcomes) /\ rpDetails \in Seq(Nat \ {0})
      /\ n \in Nat /\ DOMAIN rpAdded = 1..Len(rpAdded) /\ Len(rpDetails) \in Nat
      /\ \A j \in DOMAIN rpAdded : rpAdded[j] \in Nat
  <2>1. rpAdded \in Seq(Outcomes) /\ rpDetails \in Seq(Nat \ {0})
    BY DEF RpTypeOK
  <2>2. \A x \in Outcomes : x \in Nat
    BY DEF Outcomes
  <2> QED BY ONLY <2>1, <2>2, SMT
<1>2. /\ DOMAIN rpAdded' = 1..n /\ Len(rpAdded') = n /\ rpAdded'[n] = o
      /\ \A j \in DOMAIN rpAdded : rpAdded'[j] = rpAdded[j] /\ j # n
  BY <1>1
<1>3. /\ DOMAIN rpDetails' = DOMAIN rpDetails /\ Len(rpDetails') = Len(rpDetails)
      /\ rpDetails'[w] = n
      /\ \A i \in DOMAIN rpDetails : i # w => rpDetails'[i] = rpDetails[i]
  BY <1>1
<1>4. \A i \in DOMAIN rpDetails : rpDetails[i] \in DOMAIN rpAdded /\ rpDetails[i] # n
  BY <1>1, <1>2 DEF DetailsKept
<1> HIDE DEF n
<1>5. rpDetails[w] \in Hidden(rpAdded', rpDetails')
  <2>1. rpDetails[w] \in DOMAIN rpAdded'
    BY <1>1, <1>2, <1>4
  <2>2. \A i \in DOMAIN rpDetails' : rpDetails'[i] # rpDetails[w]
    BY <1>3, <1>4 DEF DetailsKept
  <2> QED BY <2>1, <2>2 DEF Hidden
<1>6. DetailsKept'
  <2>1. \A i \in DOMAIN rpDetails' : rpDetails'[i] \in DOMAIN rpAdded'
    <3>1. n \in DOMAIN rpAdded' /\ DOMAIN rpAdded \subseteq DOMAIN rpAdded'
      BY <1>1, <1>2 DEF n
    <3> QED BY ONLY <1>3, <1>4, <3>1, Zenon
  <2>2. \A i, k \in DOMAIN rpDetails' : rpDetails'[i] = rpDetails'[k] => i = k
    BY <1>3, <1>4 DEF DetailsKept
  <2>3. Len(rpDetails') <= MaxDetails /\ ~(Len(rpDetails') < MaxDetails)
    <3>1. Len(rpDetails) <= MaxDetails
      BY DEF DetailsKept
    <3>2. Len(rpDetails) >= MaxDetails /\ Len(rpDetails) \in Nat /\ MaxDetails \in Nat
      BY <1>1
    <3> QED BY <1>3, <3>1, <3>2
  <2> QED BY <1>5, <2>1, <2>2, <2>3 DEF DetailsKept
<1>7. HiddenLess'
  <2> SUFFICES ASSUME NEW j \in Hidden(rpAdded', rpDetails'), NEW i \in DOMAIN rpDetails'
               PROVE  rpAdded'[rpDetails'[i]] <= rpAdded'[j]
    BY DEF HiddenLess, Priority
  <2> DEFINE worst == rpAdded[rpDetails[w]]
  <2>1. /\ worst \in Nat /\ o \in Nat /\ o < worst
        /\ \A k \in DOMAIN rpDetails : rpAdded[rpDetails[k]] \in Nat /\ rpAdded[rpDetails[k]] <= worst
    <3>1. \A k \in DOMAIN rpDetails : rpAdded[rpDetails[k]] \in Nat
      BY <1>1, <1>4
    <3>2. o \in Nat
      BY DEF Outcomes
    <3>3. worst > o
      BY Zenon DEF Worst, Priority
    <3>4. worst \in Nat
      BY <3>1
    <3>5. \A k \in DOMAIN rpDetails :
            rpAdded[rpDetails[k]] < worst \/ rpAdded[rpDetails[k]] = worst
      BY Zenon DEF Worst, Priority
    <3>6. ASSUME NEW a \in Nat, NEW b \in Nat, a < b \/ a = b
          PROVE  a <= b
      BY <3>6
    <3>7. ASSUME NEW a \in Nat, NEW b \in Nat, a > b
          PROVE  b < a
      BY <3>7
    <3> HIDE DEF worst
    <3> QED BY ONLY <3>1, <3>2, <3>3, <3>4, <3>5, <3>6, <3>7, Zenon
  <2>2. rpAdded'[rpDetails'[i]] <= worst /\ rpAdded'[rpDetails'[i]] \in Nat
    <3> HIDE DEF worst
    <3>1. i \in DOMAIN rpDetails
      BY <1>3
    <3>2. CASE i = w
      <4>1. rpAdded'[rpDetails'[i]] = o
        BY ONLY <1>2, <1>3, <3>2, Zenon
      <4> QED BY ONLY <2>1, <4>1, SMT
    <3>3. CASE i # w
      <4>1. rpAdded'[rpDetails'[i]] = rpAdded[rpDetails[i]]
        BY ONLY <1>2, <1>3, <1>4, <3>1, <3>3, Zenon
      <4> QED BY ONLY <2>1, <3>1, <4>1, Zenon
    <3> QED BY <3>2, <3>3
  <2>4. j # n /\ j \in DOMAIN rpAdded
    BY <1>1, <1>2, <1>3 DEF Hidden, n
  <2>5. CASE j = rpDetails[w]
    BY <1>2, <2>2, <2>4, <2>5, Zenon
  <2>6. CASE j # rpDetails[w]
    <3>1. j \in Hidden(rpAdded, rpDetails)
      BY <1>3, <2>4, <2>6 DEF Hidden
    <3>2. worst <= rpAdded[j] /\ rpAdded[j] \in Nat
      BY <1>1, <2>4, <3>1 DEF HiddenLess, Priority
    <3>3. rpAdded'[j] = rpAdded[j]
      BY <1>2, <2>4
    <3>4. worst \in Nat
      BY <2>1
    <3>5. ASSUME NEW x \in Nat, NEW y \in Nat, NEW z \in Nat, x <= y, y <= z
          PROVE  x <= z
      BY <3>5
    <3> QED BY ONLY <2>2, <3>2, <3>3, <3>4, <3>5, Zenon
  <2> QED BY <2>5, <2>6
<1> QED BY <1>6, <1>7

\* ... or the new one is left out, when none is less important.
LEMMA NewLeft ==
  ASSUME RpTypeOK, DetailsKept, HiddenLess,
         NEW o \in Outcomes, Len(rpDetails) >= MaxDetails,
         rpAdded' = Append(rpAdded, o), rpTruncated' = TRUE,
         \A i \in DOMAIN rpDetails : Priority(i) <= o,
         rpDetails' = rpDetails
  PROVE  DetailsKept' /\ HiddenLess'
<1> USE MonitorReportAssumption
<1> DEFINE n == Len(rpAdded) + 1
<1>1. /\ rpAdded \in Seq(Outcomes) /\ rpDetails \in Seq(Nat \ {0})
      /\ n \in Nat /\ DOMAIN rpAdded = 1..Len(rpAdded) /\ Len(rpDetails) \in Nat
      /\ \A j \in DOMAIN rpAdded : rpAdded[j] \in Nat
  <2>1. rpAdded \in Seq(Outcomes) /\ rpDetails \in Seq(Nat \ {0})
    BY DEF RpTypeOK
  <2>2. \A x \in Outcomes : x \in Nat
    BY DEF Outcomes
  <2> QED BY ONLY <2>1, <2>2, SMT
<1>2. /\ DOMAIN rpAdded' = 1..n /\ Len(rpAdded') = n /\ rpAdded'[n] = o
      /\ \A j \in DOMAIN rpAdded : rpAdded'[j] = rpAdded[j] /\ j # n
  BY <1>1
<1>3. \A i \in DOMAIN rpDetails : rpDetails[i] \in DOMAIN rpAdded /\ rpDetails[i] # n
  BY <1>1, <1>2 DEF DetailsKept
<1>4. n \in Hidden(rpAdded', rpDetails')
  BY <1>1, <1>2, <1>3 DEF Hidden
<1>5. DetailsKept'
  <2>1. \A i \in DOMAIN rpDetails' : rpDetails'[i] \in DOMAIN rpAdded'
    BY <1>1, <1>2, <1>3
  <2>2. Len(rpDetails') <= MaxDetails /\ ~(Len(rpDetails') < MaxDetails)
    BY <1>1 DEF DetailsKept
  <2>3. \A i, k \in DOMAIN rpDetails' : rpDetails'[i] = rpDetails'[k] => i = k
    BY DEF DetailsKept
  <2> QED BY <1>4, <2>1, <2>2, <2>3 DEF DetailsKept
<1>6. HiddenLess'
  <2> SUFFICES ASSUME NEW j \in Hidden(rpAdded', rpDetails'), NEW i \in DOMAIN rpDetails'
               PROVE  rpAdded'[rpDetails'[i]] <= rpAdded'[j]
    BY DEF HiddenLess, Priority
  <2>1. CASE j = n
    BY <1>2, <1>3, <2>1 DEF Priority
  <2>2. CASE j # n
    <3>1. j \in DOMAIN rpAdded
      BY <1>1, <1>2, <2>2 DEF Hidden
    <3>2. j \in Hidden(rpAdded, rpDetails)
      BY <3>1 DEF Hidden
    <3>3. rpAdded[rpDetails[i]] <= rpAdded[j]
      BY <3>2 DEF HiddenLess, Priority
    <3> QED BY <1>2, <1>3, <3>1, <3>3
  <2> QED BY <2>1, <2>2
<1> QED BY <1>5, <1>6

\* A row made of the details kept explains its outcome (saveDecision).
LEMMA RowTrue ==
  ASSUME RpTypeOK, DetailsKept, HiddenLess, rpAdded # <<>>,
         NEW o \in Outcomes,
         NEW m \in DOMAIN rpAdded, rpAdded[m] = o,
         \A j \in DOMAIN rpAdded : o <= rpAdded[j]
  PROVE  /\ ImportantKept(rpAdded, rpDetails, rpTruncated)
         /\ \E i \in DOMAIN rpDetails : rpAdded[rpDetails[i]] = o
<1> USE MonitorReportAssumption
<1>1. /\ rpAdded \in Seq(Outcomes) /\ rpDetails \in Seq(Nat \ {0})
      /\ \A j \in DOMAIN rpAdded : rpAdded[j] \in Nat
      /\ DOMAIN rpAdded = 1..Len(rpAdded) /\ Len(rpAdded) \in Nat /\ o \in Nat
  BY DEF RpTypeOK, Outcomes
<1>2. ~rpTruncated => Hidden(rpAdded, rpDetails) = {}
  BY <1>1 DEF DetailsKept, Hidden
<1>3. ImportantKept(rpAdded, rpDetails, rpTruncated)
  BY <1>2 DEF ImportantKept, DetailsKept, HiddenLess, Priority
<1>4. CASE m \in Hidden(rpAdded, rpDetails)
  <2>1. rpTruncated
    BY <1>2, <1>4
  <2>2. 1 \in DOMAIN rpDetails
    BY <1>1, <2>1 DEF DetailsKept
  <2>3. rpAdded[rpDetails[1]] <= o
    BY <1>4, <2>2 DEF HiddenLess, Priority
  <2>4. rpDetails[1] \in DOMAIN rpAdded
    BY <2>2 DEF DetailsKept
  <2>5. rpAdded[rpDetails[1]] = o
    BY <1>1, <2>3, <2>4
  <2> QED BY <1>3, <2>2, <2>5
<1>5. CASE m \notin Hidden(rpAdded, rpDetails)
  BY <1>3, <1>5 DEF Hidden
<1> QED BY <1>4, <1>5

-----------------------------------------------------------------------------

\* The invariant holds at the start, and every step keeps it.
LEMMA RpInitially == RpInit => RpInv
<1> USE MonitorReportAssumption
<1> SUFFICES ASSUME RpInit PROVE RpInv OBVIOUS
<1>1. <<>> \in Seq(Outcomes) /\ <<>> \in Seq(Nat \ {0}) /\ 1 \in RpVersions
  BY DEF RpVersions
<1>2. RpTypeOK
  BY <1>1 DEF RpInit, RpTypeOK
<1>3. DetailsKept /\ HiddenLess
  BY DEF RpInit, DetailsKept, HiddenLess, Hidden
<1>4. InputKnown /\ ReportTrue
  BY DEF RpInit, InputKnown, ReportTrue
<1> QED BY <1>2, <1>3, <1>4 DEF RpInv

LEMMA RpTyped == RpTypeOK /\ [RpNext]_rpVars => RpTypeOK'
<1> USE MonitorReportAssumption
<1> SUFFICES ASSUME RpTypeOK, [RpNext]_rpVars PROVE RpTypeOK' OBVIOUS
<1>1. CASE RpCheck
  <2>1. <<>> \in Seq(Outcomes) /\ <<>> \in Seq(Nat \ {0})
    OBVIOUS
  <2> QED BY <1>1, <2>1 DEF RpCheck, RpTypeOK
<1>2. CASE RpSave
  <2>1. CASE rpItem = 0
    BY <1>2, <2>1 DEF RpSave, RpTypeOK
  <2>2. CASE rpItem # 0
    <3>1. PICK o \in Outcomes : rpRow' = {[input |-> rpInput, outcome |-> o, counted |-> rpAdded,
            details |-> rpDetails, truncated |-> rpTruncated, overtaken |-> rpOvertaken]}
      BY <1>2, <2>2 DEF RpSave
    <3>2. rpRow' \in SUBSET MonitorDecision
      BY <3>1 DEF RpTypeOK, MonitorDecision
    <3> QED BY <1>2, <3>2 DEF RpSave, RpTypeOK
  <2> QED BY <2>1, <2>2
<1>3. CASE RpItemChanges
  <2>1. rpRow' \in SUBSET MonitorDecision
    <3>1. ASSUME NEW r \in MonitorDecision
          PROVE  [r EXCEPT !.overtaken = TRUE] \in MonitorDecision
      BY <3>1 DEF MonitorDecision
    <3>2. rpRow' = {[r EXCEPT !.overtaken = TRUE] : r \in rpRow} /\ rpRow \subseteq MonitorDecision
      BY <1>3 DEF RpItemChanges, RpTypeOK
    <3> QED BY ONLY <3>1, <3>2, Zenon
  <2>2. rpItem' \in RpVersions
    BY <1>3 DEF RpItemChanges, RpVersions
  <2> QED BY <1>3, <2>1, <2>2 DEF RpItemChanges, RpTypeOK
<1>4. CASE RpItemDeleted
  BY <1>4 DEF RpItemDeleted, RpTypeOK
<1>5. ASSUME NEW o \in Outcomes, RpAdd(o) PROVE RpTypeOK'
  <2>1. rpAdded' \in Seq(Outcomes) /\ Len(rpAdded) + 1 \in Nat \ {0}
    BY <1>5 DEF RpAdd, RpTypeOK
  <2>2. rpDetails \in Seq(Nat \ {0})
    BY DEF RpTypeOK
  <2>3. Append(rpDetails, Len(rpAdded) + 1) \in Seq(Nat \ {0})
    BY <2>1, <2>2
  <2>4. \A i \in DOMAIN rpDetails :
          [rpDetails EXCEPT ![i] = Len(rpAdded) + 1] \in Seq(Nat \ {0})
    BY <2>1, <2>2
  <2>5. rpDetails' \in Seq(Nat \ {0})
    BY <1>5, <2>2, <2>3, <2>4 DEF RpAdd
  <2>6. rpTruncated' \in BOOLEAN
    BY <1>5 DEF RpAdd, RpTypeOK
  <2> QED BY <1>5, <2>1, <2>5, <2>6 DEF RpAdd, RpTypeOK
<1>6. CASE UNCHANGED rpVars
  BY <1>6 DEF rpVars, RpTypeOK
<1> QED BY <1>1, <1>2, <1>3, <1>4, <1>5, <1>6 DEF RpNext

LEMMA RpStep == RpInv /\ [RpNext]_rpVars => RpInv'
<1> USE MonitorReportAssumption
<1> SUFFICES ASSUME RpInv, [RpNext]_rpVars PROVE RpInv' OBVIOUS
<1>0. RpTypeOK /\ RpTypeOK'
  BY RpTyped DEF RpInv
<1>1. CASE RpCheck
  <2>1. DetailsKept' /\ HiddenLess'
    BY <1>1 DEF RpCheck, DetailsKept, HiddenLess, Hidden
  <2>2. InputKnown' /\ ReportTrue'
    BY <1>0, <1>1 DEF RpCheck, RpInv, InputKnown, ReportTrue, RpTypeOK, RpVersions
  <2> QED BY <1>0, <2>1, <2>2 DEF RpInv
<1>2. CASE RpSave
  <2>1. DetailsKept' /\ HiddenLess'
    BY <1>2 DEF RpSave, RpInv, DetailsKept, HiddenLess, Priority
  <2>2. CASE rpItem = 0
    BY <1>0, <1>2, <2>1, <2>2 DEF RpSave, RpInv, InputKnown, ReportTrue
  <2>3. CASE rpItem # 0
    <3>1. PICK o \in Outcomes :
            /\ \E j \in DOMAIN rpAdded : rpAdded[j] = o
            /\ \A j \in DOMAIN rpAdded : o <= rpAdded[j]
            /\ rpRow' = {[input |-> rpInput, outcome |-> o, counted |-> rpAdded,
                 details |-> rpDetails, truncated |-> rpTruncated, overtaken |-> rpOvertaken]}
      BY <1>2, <2>3 DEF RpSave
    <3>2. PICK m \in DOMAIN rpAdded : rpAdded[m] = o
      BY <3>1
    <3>3. /\ ImportantKept(rpAdded, rpDetails, rpTruncated)
          /\ \E i \in DOMAIN rpDetails : rpAdded[rpDetails[i]] = o
      BY <1>2, <3>1, <3>2, RowTrue DEF RpInv, RpSave
    <3>4. rpItem' = rpItem /\ rpInput' = rpInput /\ rpOvertaken' = rpOvertaken
      BY <1>2 DEF RpSave
    <3>5. InputKnown'
      BY <3>1, <3>4 DEF RpInv, InputKnown
    <3>6. ReportTrue'
      BY <3>1, <3>3, <3>4 DEF RpInv, InputKnown, ReportTrue
    <3> QED BY <1>0, <2>1, <3>5, <3>6 DEF RpInv
  <2> QED BY <2>2, <2>3
<1>3. CASE RpItemChanges
  <2>1. DetailsKept' /\ HiddenLess'
    BY <1>3 DEF RpItemChanges, RpInv, DetailsKept, HiddenLess, Priority
  <2>2. rpItem \in Nat /\ rpItem # 0 /\ rpItem' = rpItem + 1 /\ rpInput' = rpInput
    BY <1>3 DEF RpItemChanges
  <2>3. rpInput \in Nat /\ rpInput <= rpItem
    BY <1>0, <2>2 DEF RpInv, InputKnown, RpTypeOK, RpVersions
  <2>4. ASSUME NEW r \in rpRow
        PROVE  r \in MonitorDecision /\ r.input \in Nat /\ r.input <= rpItem
    BY <1>0, <2>2 DEF RpInv, InputKnown, RpTypeOK, MonitorDecision, RpVersions
  <2>5. ASSUME NEW q \in rpRow'
        PROVE  \E r \in rpRow : /\ q.input = r.input /\ q.counted = r.counted
                                /\ q.details = r.details /\ q.truncated = r.truncated
                                /\ q.outcome = r.outcome
    <3>1. PICK r \in rpRow : q = [r EXCEPT !.overtaken = TRUE]
      BY <1>3 DEF RpItemChanges
    <3> QED BY <2>4, <3>1 DEF MonitorDecision
  <2>6. \A q \in rpRow' : q.input \in Nat /\ q.input < rpItem'
    BY <2>2, <2>4, <2>5
  <2>7. InputKnown'
    BY <2>2, <2>3, <2>6 DEF InputKnown
  <2>8. ReportTrue'
    BY <2>2, <2>5, <2>6 DEF RpInv, ReportTrue
  <2> QED BY <1>0, <2>1, <2>7, <2>8 DEF RpInv
<1>4. CASE RpItemDeleted
  <2>1. DetailsKept' /\ HiddenLess'
    BY <1>4 DEF RpItemDeleted, RpInv, DetailsKept, HiddenLess, Priority
  <2>2. InputKnown' /\ ReportTrue'
    BY <1>0, <1>4 DEF RpItemDeleted, RpInv, InputKnown, ReportTrue, RpTypeOK, RpVersions
  <2> QED BY <1>0, <2>1, <2>2 DEF RpInv
<1>5. ASSUME NEW o \in Outcomes, RpAdd(o) PROVE RpInv'
  <2>1. RpTypeOK /\ DetailsKept /\ HiddenLess /\ rpAdded' = Append(rpAdded, o)
    BY <1>5 DEF RpInv, RpAdd
  <2>2. InputKnown' /\ ReportTrue'
    BY <1>5 DEF RpAdd, RpInv, InputKnown, ReportTrue
  <2>3. CASE Len(rpDetails) < MaxDetails /\ rpDetails' = Append(rpDetails, Len(rpAdded) + 1)
             /\ rpTruncated' = rpTruncated
    BY <1>0, <2>1, <2>2, <2>3, RoomKept DEF RpInv
  <2>4. ASSUME Len(rpDetails) >= MaxDetails, rpTruncated' = TRUE,
               NEW i \in DOMAIN rpDetails, Worst(i, o),
               rpDetails' = [rpDetails EXCEPT ![i] = Len(rpAdded) + 1]
        PROVE  RpInv'
    BY <1>0, <2>1, <2>2, <2>4, WorstLeft DEF RpInv
  <2>5. CASE Len(rpDetails) >= MaxDetails /\ rpTruncated' = TRUE /\ rpDetails' = rpDetails
             /\ \A i \in DOMAIN rpDetails : Priority(i) <= o
    BY <1>0, <2>1, <2>2, <2>5, NewLeft DEF RpInv
  <2> QED BY <1>5, <2>3, <2>4, <2>5 DEF RpAdd
<1>6. CASE UNCHANGED rpVars
  BY <1>6 DEF rpVars, RpInv, RpTypeOK, DetailsKept, HiddenLess, Priority, InputKnown, ReportTrue
<1> QED BY <1>1, <1>2, <1>3, <1>4, <1>5, <1>6 DEF RpNext

\* Whatever a check runs into, and whatever happens to its item meanwhile, the row says so:
\* nothing important is hidden behind the rest, the outcome is explained, and a row that
\* passes for current was made from the item as it is (monitor/decision.go).
THEOREM ReportAlwaysTrue == RpSpec => []ReportTrue
<1>1. RpInv => ReportTrue
  BY DEF RpInv
<1> QED BY RpInitially, RpStep, <1>1, PTL DEF RpSpec

-----------------------------------------------------------------------------
(* Clients of the services                                                 *)

ApSpec == ApInit /\ [][ApNext]_apVars

ApCallRecord == [pc : {"idle", "read", "unconfigured", "ensure", "send", "answered", "expired",
                       "login", "login_failed", "resend", "refused"},
                 client : Nat, read : Seq(Nat), own : Nat, sent : Nat, shared : BOOLEAN]
ApClientRecord == [made : Seq(Nat), session : Nat, holder : ApCalls \cup {ApNobody}]

ApTypes ==
  /\ apKind \in {"qbittorrent", "opensubtitles"}
  /\ apSetting \in [ApKeySet -> Nat]
  /\ apWriter \in [ApWriters -> [pc : {"idle", "saved", "done"}, key : ApKeySet]]
  /\ apChannel \in Seq(ApKeySet) /\ apLost \subseteq ApKeySet
  /\ apCached \in 0..Len(apClient)
  /\ apClient \in Seq(ApClientRecord)
  /\ apCall \in [ApCalls -> ApCallRecord]
  /\ apServer \in [opened : Nat, alive : SUBSET Nat, expired : Nat]
  /\ \A s \in apServer.alive : s <= apServer.opened

\* What a call has read of the settings, too, is as it is, or its change is yet to be told.
ReadsCurrentOrTold ==
  \A c \in ApCalls :
    /\ apCall[c].pc = "idle" => apCall[c] = ApNew
    /\ apCall[c].pc = "read" =>
         /\ Len(apCall[c].read) <= Len(ApKeys)
         /\ \A i \in DOMAIN apCall[c].read :
              apCall[c].read[i] # apSetting[ApKeys[i]] => ApUntold(ApKeys[i])

SettingsInv == ReadsCurrentOrTold /\ ClientCurrentOrTold

\* Where a call stands with the session of its client: qBittorrent's keeps the mutex until it
\* has sent again, so the session it opened is the client's; OpenSubtitles' does not, and then
\* knows that it has shared the client.
SessionSound(c) ==
  /\ apCall[c].own <= apServer.opened
  /\ apCall[c].pc \in {"ensure", "send", "expired", "login", "resend"} => apCall[c].client \in DOMAIN apClient
  /\ apCall[c].pc \in {"expired", "login", "resend"} /\ ApHolds => ApMine(c).holder = c
  /\ apCall[c].pc = "resend" =>
       ApMine(c).session = apCall[c].own \/ (~ApHolds /\ apCall[c].shared)
  /\ apCall[c].pc = "refused" =>
       \/ apCall[c].sent = apCall[c].own /\ apCall[c].own \notin apServer.alive
       \/ ~ApHolds /\ apCall[c].shared

ApInv == ApTypes /\ SettingsInv /\ \A c \in ApCalls : SessionSound(c)

LEMMA ApInitially == ApInit => ApInv
<1> SUFFICES ASSUME ApInit PROVE ApInv
  OBVIOUS
<1>1. ApTypes
  <2>1. ApKeys[1] \in ApKeySet
    BY ApiClientsAssumption DEF ApKeySet
  <2>2. <<>> \in Seq(Nat) /\ <<>> \in Seq(ApKeySet) /\ <<>> \in Seq(ApClientRecord) /\ Len(<<>>) = 0
    OBVIOUS
  <2> QED BY <2>1, <2>2 DEF ApInit, ApTypes, ApNew, ApCallRecord
<1>2. SettingsInv
  BY DEF ApInit, SettingsInv, ReadsCurrentOrTold, ClientCurrentOrTold, ApNew
<1>3. \A c \in ApCalls : SessionSound(c)
  BY DEF ApInit, SessionSound, ApNew
<1> QED BY <1>1, <1>2, <1>3 DEF ApInv

\* Nothing but a call and its client moves: what the calls have read stands.
LEMMA ToldKept ==
  ASSUME UNCHANGED <<apSetting, apWriter, apChannel, apLost, apHandling>>, NEW k
  PROVE  ApUntold(k)' <=> ApUntold(k)
BY DEF ApUntold

\* Where the other calls stand with their clients, when c moves.
LEMMA OthersSound ==
  ASSUME ApTypes, NEW d \in ApCalls, SessionSound(d), apKind' = apKind,
         /\ apCall'[d].pc = apCall[d].pc /\ apCall'[d].client = apCall[d].client
         /\ apCall'[d].own = apCall[d].own /\ apCall'[d].sent = apCall[d].sent
         /\ apCall[d].shared => apCall'[d].shared,
         apServer'.opened \in Nat, apServer.opened <= apServer'.opened,
         \A s \in Nat : s <= apServer.opened /\ s \in apServer'.alive => s \in apServer.alive,
         DOMAIN apClient \subseteq DOMAIN apClient',
         LET k == apCall[d].client
         IN  k \in DOMAIN apClient =>
               \/ /\ apClient'[k].session = apClient[k].session
                  /\ apClient'[k].holder = apClient[k].holder \/ ~ApHolds
               \/ ApHolds /\ apClient[k].holder # d
               \/ ~ApHolds /\ (apCall[d].pc = "resend" => apCall'[d].shared)
  PROVE  SessionSound(d)'
<1>1. apCall[d] \in ApCallRecord /\ apServer.opened \in Nat /\ apCall[d].own \in Nat
  BY DEF ApTypes, ApCallRecord
<1>2. ApHolds' = ApHolds
  BY DEF ApHolds
<1>3. apCall'[d].own <= apServer'.opened
  BY <1>1 DEF SessionSound
<1>4. apCall'[d].pc \in {"ensure", "send", "expired", "login", "resend"} => apCall'[d].client \in DOMAIN apClient'
  BY DEF SessionSound
<1>5. apCall'[d].pc \in {"expired", "login", "resend"} /\ ApHolds => ApMine(d)'.holder = d
  BY DEF SessionSound, ApMine
<1>6. apCall'[d].pc = "resend" =>
        ApMine(d)'.session = apCall'[d].own \/ (~ApHolds /\ apCall'[d].shared)
  BY DEF SessionSound, ApMine
<1>7. apCall'[d].pc = "refused" =>
        \/ apCall'[d].sent = apCall'[d].own /\ apCall'[d].own \notin apServer'.alive
        \/ ~ApHolds /\ apCall'[d].shared
  BY <1>1 DEF SessionSound
<1> QED BY ONLY <1>2, <1>3, <1>4, <1>5, <1>6, <1>7, Zenon DEF SessionSound

\* A login of c, seen by the others.
LEMMA Shares ==
  ASSUME ApTypes, NEW c \in ApCalls
  PROVE  /\ ApShare(c) \in [ApCalls -> ApCallRecord] /\ ApShare(c)[c] = apCall[c]
         /\ \A d \in ApCalls \ {c} :
              /\ ApShare(c)[d].pc = apCall[d].pc /\ ApShare(c)[d].client = apCall[d].client
              /\ ApShare(c)[d].own = apCall[d].own /\ ApShare(c)[d].sent = apCall[d].sent
              /\ ApShare(c)[d].read = apCall[d].read
              /\ apCall[d].pc = "idle" => ApShare(c)[d] = apCall[d]
              /\ apCall[d].shared => ApShare(c)[d].shared
              /\ apCall[d].pc = "resend" /\ apCall[d].client = apCall[c].client => ApShare(c)[d].shared
<1>1. \A d \in ApCalls : apCall[d] \in ApCallRecord /\ [apCall[d] EXCEPT !.shared = TRUE] \in ApCallRecord
  <2>1. ASSUME NEW q \in ApCallRecord
        PROVE  [q EXCEPT !.shared = TRUE] \in ApCallRecord
    BY <2>1 DEF ApCallRecord
  <2>2. \A d \in ApCalls : apCall[d] \in ApCallRecord
    BY DEF ApTypes
  <2> QED BY ONLY <2>1, <2>2, Zenon
<1>2. \A d \in ApCalls : ApShare(c)[d] = IF d \in ApOthers(c) /\ apCall[d].pc = "resend"
                                         THEN [apCall[d] EXCEPT !.shared = TRUE] ELSE apCall[d]
  BY DEF ApShare
<1>3. ApShare(c) \in [ApCalls -> ApCallRecord]
  BY <1>1 DEF ApShare
<1>4. ApShare(c)[c] = apCall[c]
  BY <1>2 DEF ApOthers
<1> QED BY <1>1, <1>2, <1>3, <1>4 DEF ApOthers, ApCallRecord

\* The calls read what was there to read; a step that announces nothing leaves that as it was.
LEMMA ReadsKept ==
  ASSUME ApTypes, SettingsInv, NEW c \in ApCalls, apCall'[c].pc \notin {"idle", "read"},
         UNCHANGED <<apSetting, apWriter, apChannel, apLost, apHandling, apCached>>,
         \A d \in ApCalls \ {c} :
           /\ apCall'[d].pc = apCall[d].pc /\ apCall'[d].read = apCall[d].read
           /\ apCall[d].pc = "idle" => apCall'[d] = apCall[d],
         apCached # 0 => apClient'[apCached].made = apClient[apCached].made
  PROVE  SettingsInv'
<1>1. \A k : ApUntold(k)' <=> ApUntold(k)
  BY ToldKept
<1>2. ReadsCurrentOrTold'
  BY <1>1 DEF SettingsInv, ReadsCurrentOrTold
<1>3. ClientCurrentOrTold'
  BY <1>1 DEF SettingsInv, ClientCurrentOrTold
<1> QED BY <1>2, <1>3 DEF SettingsInv

\* A change of a setting is announced, or will be, or never will.
LEMMA SettingsKept ==
  ASSUME ApTypes, SettingsInv, UNCHANGED <<apCall, apClient, apCached>>,
         \A k \in ApKeySet : apSetting'[k] # apSetting[k] \/ ApUntold(k) => ApUntold(k)'
  PROVE  SettingsInv'
<1>1. \A i \in DOMAIN ApKeys : ApKeys[i] \in ApKeySet
  BY DEF ApKeySet
<1>2. ASSUME NEW c \in ApCalls, apCall[c].pc = "read", NEW i \in DOMAIN apCall[c].read
      PROVE  i \in DOMAIN ApKeys
  <2>1. apCall[c].read \in Seq(Nat) /\ Len(apCall[c].read) <= Len(ApKeys)
    BY <1>2 DEF ApTypes, ApCallRecord, SettingsInv, ReadsCurrentOrTold
  <2> QED BY <1>2, <2>1, ApiClientsAssumption
<1>3. ReadsCurrentOrTold'
  BY <1>1, <1>2 DEF SettingsInv, ReadsCurrentOrTold
<1>4. ClientCurrentOrTold'
  BY <1>1 DEF SettingsInv, ClientCurrentOrTold
<1> QED BY <1>3, <1>4 DEF SettingsInv

LEMMA CallWritten ==
  ASSUME ApTypes, NEW c \in ApCalls, NEW r \in ApCallRecord, ApSet(c, r)
  PROVE  /\ apCall' \in [ApCalls -> ApCallRecord] /\ apCall'[c] = r
         /\ \A d \in ApCalls \ {c} : apCall'[d] = apCall[d]
BY DEF ApTypes, ApSet

LEMMA ClientStays ==
  ASSUME ApTypes, NEW k \in DOMAIN apClient
  PROVE  apClient = [apClient EXCEPT ![k] = apClient[k]]
<1>1. apClient \in [1..Len(apClient) -> ApClientRecord]
  BY DEF ApTypes
<1> QED BY <1>1

LEMMA ClientWritten ==
  ASSUME ApTypes, NEW k \in DOMAIN apClient, NEW r \in ApClientRecord, apClient' = [apClient EXCEPT ![k] = r]
  PROVE  /\ apClient' \in Seq(ApClientRecord) /\ Len(apClient') = Len(apClient)
         /\ DOMAIN apClient' = DOMAIN apClient /\ apClient'[k] = r
         /\ \A j \in DOMAIN apClient \ {k} : apClient'[j] = apClient[j]
<1>1. apClient \in Seq(ApClientRecord) /\ DOMAIN apClient = 1..Len(apClient)
  BY DEF ApTypes
<1> QED BY <1>1, ExceptSeq

\* One call moves, with the record of its client; what the step does to the others is a login's.
LEMMA CallMoves ==
  ASSUME ApInv, NEW c \in ApCalls, NEW r \in ApCallRecord, r.pc \notin {"idle", "read"},
         apCall' \in [ApCalls -> ApCallRecord], apCall'[c] = r,
         \A d \in ApCalls \ {c} :
           /\ apCall'[d].pc = apCall[d].pc /\ apCall'[d].client = apCall[d].client
           /\ apCall'[d].own = apCall[d].own /\ apCall'[d].sent = apCall[d].sent
           /\ apCall'[d].read = apCall[d].read
           /\ apCall[d].pc = "idle" => apCall'[d] = apCall[d]
           /\ apCall[d].shared => apCall'[d].shared,
         NEW k \in DOMAIN apClient, NEW m \in ApClientRecord, k = apCall[c].client,
         apClient' = [apClient EXCEPT ![k] = m], m.made = apClient[k].made,
         \/ m.session = apClient[k].session /\ (m.holder = apClient[k].holder \/ ~ApHolds)
         \/ ApHolds /\ apClient[k].holder \in {c, ApNobody}
         \/ ~ApHolds /\ \A d \in ApCalls \ {c} :
              apCall[d].pc = "resend" /\ apCall[d].client = k => apCall'[d].shared,
         UNCHANGED <<apKind, apSetting, apWriter, apChannel, apLost, apHandling, apCached>>,
         apServer' \in [opened : Nat, alive : SUBSET Nat, expired : Nat],
         apServer.opened <= apServer'.opened, \A s \in apServer'.alive : s <= apServer'.opened,
         \A s \in Nat : s <= apServer.opened /\ s \in apServer'.alive => s \in apServer.alive,
         SessionSound(c)'
  PROVE  ApInv'
<1>1. /\ apClient' \in Seq(ApClientRecord) /\ Len(apClient') = Len(apClient)
      /\ DOMAIN apClient' = DOMAIN apClient /\ apClient'[k] = m
      /\ \A j \in DOMAIN apClient \ {k} : apClient'[j] = apClient[j]
  BY ClientWritten DEF ApInv
<1>2. ApTypes'
  BY <1>1 DEF ApInv, ApTypes
<1>3. apCached # 0 => apCached \in DOMAIN apClient
  BY DEF ApInv, ApTypes
<1>4. apCached # 0 => apClient'[apCached].made = apClient[apCached].made
  BY <1>1, <1>3
<1>5. SettingsInv'
  BY <1>4, ReadsKept DEF ApInv
<1>6. ASSUME NEW d \in ApCalls \ {c} PROVE SessionSound(d)'
  <2>1. d # ApNobody
    BY ApiClientsAssumption DEF ApNobody
  <2>2. apServer'.opened \in Nat
    OBVIOUS
  <2>3. apCall[d].client \in DOMAIN apClient =>
          \/ /\ apClient'[apCall[d].client].session = apClient[apCall[d].client].session
             /\ apClient'[apCall[d].client].holder = apClient[apCall[d].client].holder \/ ~ApHolds
          \/ ApHolds /\ apClient[apCall[d].client].holder # d
          \/ ~ApHolds /\ (apCall[d].pc = "resend" => apCall'[d].shared)
    BY <1>1, <1>6, <2>1
  <2> QED BY <1>1, <1>6, <2>2, <2>3, OthersSound DEF ApInv
<1> QED BY <1>2, <1>5, <1>6 DEF ApInv

\* What a call needs to know of its client.
LEMMA ClientOf ==
  ASSUME ApInv, NEW c \in ApCalls, apCall[c].pc \in {"ensure", "send", "expired", "login", "resend"}
  PROVE  /\ apCall[c] \in ApCallRecord /\ apCall[c].client \in DOMAIN apClient /\ ApMine(c) \in ApClientRecord
         /\ ApMine(c) = apClient[apCall[c].client] /\ SessionSound(c)
         /\ apServer \in [opened : Nat, alive : SUBSET Nat, expired : Nat]
         /\ \A s \in apServer.alive : s <= apServer.opened
BY DEF ApInv, ApTypes, SessionSound, ApMine

\* A session that was opened just now is a new one.
LEMMA SessionOpened ==
  ASSUME ApInv, NEW s, s = apServer.opened + 1, ApOpens(s)
  PROVE  /\ s \in Nat /\ apServer'.opened = s /\ apServer.opened <= apServer'.opened
         /\ apServer' \in [opened : Nat, alive : SUBSET Nat, expired : Nat]
         /\ \A x \in apServer'.alive : x <= apServer'.opened
         /\ \A x \in Nat : x <= apServer.opened /\ x \in apServer'.alive => x \in apServer.alive
<1>1. apServer \in [opened : Nat, alive : SUBSET Nat, expired : Nat] /\ \A x \in apServer.alive : x <= apServer.opened
  BY DEF ApInv, ApTypes
<1>2. apServer'.opened = s /\ apServer'.alive = apServer.alive \cup {s} /\ apServer'.expired = apServer.expired
  BY <1>1 DEF ApOpens
<1>3. apServer' \in [opened : Nat, alive : SUBSET Nat, expired : Nat]
  <2>1. s \in Nat /\ apServer.alive \cup {s} \in SUBSET Nat
    BY <1>1
  <2>2. apServer' = [opened |-> s, alive |-> apServer.alive \cup {s}, expired |-> apServer.expired]
    BY <1>1 DEF ApOpens
  <2> QED BY <1>1, <2>1, <2>2
<1>4. \A x \in Nat : x <= apServer.opened => x # s
  BY <1>1
<1> QED BY <1>1, <1>2, <1>3, <1>4

LEMMA ApStep == ApInv /\ [ApNext]_apVars => ApInv'
<1> SUFFICES ASSUME ApInv, [ApNext]_apVars PROVE ApInv'
  OBVIOUS
<1>0. ApTypes /\ SettingsInv /\ \A c \in ApCalls : apCall[c] \in ApCallRecord /\ SessionSound(c)
  BY DEF ApInv, ApTypes
\* Settings change and are told.
<1>1. ASSUME ApTypes', UNCHANGED <<apKind, apCall, apClient, apServer, apCached>>,
             \A k \in ApKeySet : apSetting'[k] # apSetting[k] \/ ApUntold(k) => ApUntold(k)'
      PROVE  ApInv'
  <2>1. SettingsInv'
    BY <1>0, <1>1, SettingsKept
  <2>2. \A c \in ApCalls : SessionSound(c)'
    BY <1>0, <1>1 DEF SessionSound, ApMine, ApHolds
  <2> QED BY <1>1, <2>1, <2>2 DEF ApInv
<1>2. ASSUME NEW w \in ApWriters, ApSave(w) PROVE ApInv'
  <2>1. PICK k \in ApKeySet : /\ apWriter' = [apWriter EXCEPT ![w] = [pc |-> "saved", key |-> k]]
                              /\ apSetting' = [apSetting EXCEPT ![k] = @ + 1]
    BY <1>2 DEF ApSave
  <2>2. /\ UNCHANGED <<apKind, apChannel, apLost, apHandling, apCached, apClient, apCall, apServer>>
        /\ apWriter[w].pc = "idle"
    BY <1>2 DEF ApSave
  <2>3. apWriter'[w] = [pc |-> "saved", key |-> k] /\ \A v \in ApWriters \ {w} : apWriter'[v] = apWriter[v]
    BY <1>0, <2>1 DEF ApTypes
  <2>4. \A j \in ApKeySet \ {k} : apSetting'[j] = apSetting[j]
    BY <1>0, <2>1 DEF ApTypes
  <2>5. ApTypes'
    BY <1>0, <2>1, <2>2 DEF ApTypes
  <2>6. \A j \in ApKeySet : apSetting'[j] # apSetting[j] \/ ApUntold(j) => ApUntold(j)'
    BY <2>2, <2>3, <2>4 DEF ApUntold
  <2> QED BY <1>1, <2>2, <2>5, <2>6
<1>3. ASSUME NEW w \in ApWriters, ApNotify(w) PROVE ApInv'
  <2>1. /\ apWriter[w].pc = "saved" /\ apWriter[w].key \in ApKeySet
        /\ apWriter' = [apWriter EXCEPT ![w].pc = "done"]
        /\ UNCHANGED <<apKind, apSetting, apHandling, apCached, apClient, apCall, apServer>>
    BY <1>0, <1>3 DEF ApNotify, ApTypes
  <2>2. \/ apChannel' = Append(apChannel, apWriter[w].key) /\ apLost' = apLost
        \/ apLost' = apLost \cup {apWriter[w].key} /\ apChannel' = apChannel
    BY <1>3 DEF ApNotify
  <2>3. apChannel' \in Seq(ApKeySet) /\ (apChannel' # <<>> \/ apWriter[w].key \in apLost')
        /\ (apChannel # <<>> => apChannel' # <<>>) /\ apLost \subseteq apLost' /\ apLost' \subseteq ApKeySet
    <3>1. apChannel \in Seq(ApKeySet) /\ apLost \subseteq ApKeySet
      BY <1>0 DEF ApTypes
    <3>2. Append(apChannel, apWriter[w].key) \in Seq(ApKeySet) /\ Append(apChannel, apWriter[w].key) # <<>>
      BY <2>1, <3>1, AppendProperties
    <3> QED BY <2>1, <2>2, <3>1, <3>2
  <2>4. apWriter' \in [ApWriters -> [pc : {"idle", "saved", "done"}, key : ApKeySet]]
    BY <1>0, <2>1 DEF ApTypes
  <2>5. \A v \in ApWriters \ {w} : apWriter'[v] = apWriter[v]
    BY <1>0, <2>1 DEF ApTypes
  <2>6. ApTypes'
    BY <1>0, <2>1, <2>3, <2>4 DEF ApTypes
  <2>7. \A j \in ApKeySet : ApUntold(j) => ApUntold(j)'
    BY <2>1, <2>3, <2>5 DEF ApUntold
  <2> QED BY <1>1, <2>1, <2>6, <2>7
<1>4. CASE ApHear
  <2>1. apHandling' # {} /\ UNCHANGED <<apKind, apSetting, apWriter, apLost, apCached, apClient, apCall, apServer>>
    BY <1>4 DEF ApHear
  <2>2. apChannel' \in Seq(ApKeySet)
    BY <1>0, <1>4, HeadTailProperties DEF ApHear, ApTypes
  <2>3. ApTypes'
    BY <1>0, <2>1, <2>2 DEF ApTypes
  <2> QED BY <1>1, <2>1, <2>3 DEF ApUntold
<1>5. CASE ApInvalidate
  <2>1. /\ apCached' = 0 /\ \A c \in ApCalls : apCall[c].pc # "read"
        /\ UNCHANGED <<apKind, apSetting, apWriter, apChannel, apLost, apClient, apCall, apServer>>
    BY <1>5 DEF ApInvalidate, ApProviderFree
  <2>2. ApTypes'
    BY <1>0, <2>1 DEF ApTypes
  <2>3. SettingsInv'
    BY <1>0, <2>1 DEF SettingsInv, ReadsCurrentOrTold, ClientCurrentOrTold
  <2>4. \A c \in ApCalls : SessionSound(c)'
    BY <1>0, <2>1 DEF SessionSound, ApMine, ApHolds
  <2> QED BY <2>2, <2>3, <2>4 DEF ApInv
<1>6. CASE ApExpire
  <2>1. PICK s \in apServer.alive :
          apServer' = [apServer EXCEPT !.alive = apServer.alive \ {s}, !.expired = @ + 1]
    BY <1>6 DEF ApExpire
  <2>2. UNCHANGED <<apKind, apSetting, apWriter, apChannel, apLost, apHandling, apCached, apClient, apCall>>
    BY <1>6 DEF ApExpire, ApKeepAllButCalls
  <2>3. /\ apServer' \in [opened : Nat, alive : SUBSET Nat, expired : Nat]
        /\ apServer'.opened = apServer.opened /\ apServer'.alive \subseteq apServer.alive
    <3>1. /\ apServer \in [opened : Nat, alive : SUBSET Nat, expired : Nat]
          /\ apServer.expired + 1 \in Nat /\ apServer.alive \ {s} \in SUBSET Nat
      BY <1>0 DEF ApTypes
    <3> QED BY <2>1, <3>1
  <2>4. ApTypes'
    BY <1>0, <2>2, <2>3 DEF ApTypes
  <2>5. SettingsInv'
    <3>1. \A k : ApUntold(k)' <=> ApUntold(k)
      BY <2>2, ToldKept
    <3> QED BY <1>0, <2>2, <3>1 DEF SettingsInv, ReadsCurrentOrTold, ClientCurrentOrTold
  <2>6. \A c \in ApCalls : SessionSound(c)'
    BY <1>0, <2>2, <2>3 DEF SessionSound, ApMine, ApHolds
  <2> QED BY <2>4, <2>5, <2>6 DEF ApInv
\* The provider.
<1>7. ASSUME NEW c \in ApCalls, NEW r \in ApCallRecord, ApSet(c, r), ApTypes',
             UNCHANGED <<apKind, apSetting, apWriter, apChannel, apLost, apHandling, apServer>>,
             DOMAIN apClient \subseteq DOMAIN apClient', \A k \in DOMAIN apClient : apClient'[k] = apClient[k],
             r.own <= apServer.opened, r.pc \in {"read", "unconfigured", "ensure"},
             r.pc = "ensure" => r.client \in DOMAIN apClient',
             r.pc = "read" => /\ Len(r.read) <= Len(ApKeys)
                              /\ \A i \in DOMAIN r.read : r.read[i] # apSetting[ApKeys[i]] => ApUntold(ApKeys[i]),
             ClientCurrentOrTold'
      PROVE  ApInv'
  <2>1. apCall'[c] = r /\ \A d \in ApCalls \ {c} : apCall'[d] = apCall[d]
    BY <1>0, <1>7, CallWritten
  <2>2. \A k : ApUntold(k)' <=> ApUntold(k)
    BY <1>7, ToldKept
  <2>3. ReadsCurrentOrTold'
    BY <1>0, <1>7, <2>1, <2>2 DEF SettingsInv, ReadsCurrentOrTold
  <2>4. apServer.opened \in Nat
    BY <1>0 DEF ApTypes
  <2>5. SessionSound(c)'
    BY <1>7, <2>1, <2>4 DEF SessionSound
  <2>6. \A d \in ApCalls \ {c} : SessionSound(d)'
    BY <1>0, <1>7, <2>1, <2>4, OthersSound
  <2> QED BY <1>7, <2>3, <2>5, <2>6 DEF ApInv, SettingsInv
<1>8. ASSUME NEW c \in ApCalls, ApGetClient(c) PROVE ApInv'
  <2>1. apCall[c] = ApNew
    BY <1>0, <1>8 DEF ApGetClient, SettingsInv, ReadsCurrentOrTold
  <2>2. PICK r : /\ ApSet(c, r)
                 /\ r = IF apCached # 0 THEN [apCall[c] EXCEPT !.pc = "ensure", !.client = apCached]
                                        ELSE [apCall[c] EXCEPT !.pc = "read"]
    BY <1>8 DEF ApGetClient
  <2>3. apCached \in Nat /\ (apCached # 0 => apCached \in DOMAIN apClient)
    BY <1>0 DEF ApTypes
  <2>4. r \in ApCallRecord /\ r.own = 0 /\ r.read = <<>>
    <3>1. ApNew \in ApCallRecord
      BY <1>0, <2>1
    <3>2. apCall[c] \in ApCallRecord /\ apCall[c].own = 0 /\ apCall[c].read = <<>>
      BY <2>1, <3>1 DEF ApNew
    <3>3. \/ r = [apCall[c] EXCEPT !.pc = "ensure", !.client = apCached]
          \/ r = [apCall[c] EXCEPT !.pc = "read"]
      BY <2>2
    <3> QED BY <2>3, <3>2, <3>3 DEF ApCallRecord
  <2>5. \/ r.pc = "ensure" /\ r.client \in DOMAIN apClient
        \/ r.pc = "read"
    BY <2>1, <2>2, <2>3 DEF ApNew
  <2>6. UNCHANGED <<apKind, apSetting, apWriter, apChannel, apLost, apHandling, apCached, apClient, apServer>>
    BY <1>8 DEF ApGetClient
  <2>7. ApTypes'
    BY <1>0, <2>2, <2>4, <2>6, CallWritten DEF ApTypes
  <2>8. ClientCurrentOrTold'
    BY <1>0, <2>6, ToldKept DEF SettingsInv, ClientCurrentOrTold
  <2>9. Len(r.read) <= Len(ApKeys) /\ DOMAIN r.read = {}
    BY <2>4, ApiClientsAssumption
  <2>10. r.own <= apServer.opened
    BY <1>0, <2>4 DEF ApTypes
  <2> QED BY <1>7, <2>2, <2>4, <2>5, <2>6, <2>7, <2>8, <2>9, <2>10
<1>9. ASSUME NEW c \in ApCalls, ApReadSetting(c) PROVE ApInv'
  <2> DEFINE v == apSetting[ApKeys[Len(apCall[c].read) + 1]]
  <2>1. /\ apCall[c].pc = "read" /\ Len(apCall[c].read) < Len(ApKeys)
        /\ UNCHANGED <<apKind, apSetting, apWriter, apChannel, apLost, apHandling, apCached, apClient, apServer>>
        /\ ApSet(c, IF v = 0 THEN [apCall[c] EXCEPT !.pc = "unconfigured"]
                             ELSE [apCall[c] EXCEPT !.read = Append(@, v)])
    BY <1>9 DEF ApReadSetting
  <2>2. apCall[c] \in ApCallRecord /\ apCall[c].read \in Seq(Nat) /\ apCall[c].own <= apServer.opened
    BY <1>0 DEF ApCallRecord, SessionSound
  <2>3. v \in Nat
    <3>1. Len(apCall[c].read) + 1 \in DOMAIN ApKeys
      BY <2>1, <2>2, ApiClientsAssumption
    <3> QED BY <1>0, <3>1 DEF ApTypes, ApKeySet
  <2>4. /\ Append(apCall[c].read, v) \in Seq(Nat) /\ Len(Append(apCall[c].read, v)) = Len(apCall[c].read) + 1
        /\ Append(apCall[c].read, v)[Len(apCall[c].read) + 1] = v
        /\ \A i \in 1..Len(apCall[c].read) : Append(apCall[c].read, v)[i] = apCall[c].read[i]
    BY <2>2, <2>3, AppendProperties
  <2>5. ASSUME NEW i \in DOMAIN Append(apCall[c].read, v), Append(apCall[c].read, v)[i] # apSetting[ApKeys[i]]
        PROVE  ApUntold(ApKeys[i])
    <3>1. i \in 1..Len(apCall[c].read) \/ i = Len(apCall[c].read) + 1
      BY <2>2, <2>4, <2>5
    <3>2. i \in DOMAIN apCall[c].read /\ apCall[c].read[i] # apSetting[ApKeys[i]]
      BY <2>2, <2>4, <2>5, <3>1
    <3> QED BY <1>0, <2>1, <3>2 DEF SettingsInv, ReadsCurrentOrTold
  <2>6. PICK r : /\ ApSet(c, r)
                 /\ \/ r = [apCall[c] EXCEPT !.pc = "unconfigured"]
                    \/ r = [apCall[c] EXCEPT !.read = Append(apCall[c].read, v)]
    BY <2>1
  <2>7. r \in ApCallRecord /\ r.own = apCall[c].own /\ r.pc \in {"read", "unconfigured"}
        /\ (r.pc = "read" => r.read = Append(apCall[c].read, v))
    BY <2>1, <2>2, <2>4, <2>6 DEF ApCallRecord
  <2> HIDE DEF v
  <2>8. ApTypes'
    BY <1>0, <2>1, <2>6, <2>7, CallWritten DEF ApTypes
  <2>9. ClientCurrentOrTold'
    BY <1>0, <2>1, ToldKept DEF SettingsInv, ClientCurrentOrTold
  <2>10. Len(Append(apCall[c].read, v)) <= Len(ApKeys)
    BY <2>1, <2>2, <2>4, ApiClientsAssumption
  <2> QED BY <1>7, <2>1, <2>2, <2>5, <2>6, <2>7, <2>8, <2>9, <2>10
<1>10. ASSUME NEW c \in ApCalls, ApCacheClient(c) PROVE ApInv'
  <2>1. /\ apCall[c].pc = "read" /\ apCall[c].read \in Seq(Nat) /\ Len(apCall[c].read) = Len(ApKeys)
        /\ apCached' = Len(apClient) + 1
        /\ UNCHANGED <<apKind, apSetting, apWriter, apChannel, apLost, apHandling, apServer>>
    BY <1>0, <1>10 DEF ApCacheClient, ApCallRecord
  <2>2. PICK m : /\ m = [made |-> apCall[c].read, session |-> 0, holder |-> ApNobody]
                 /\ apClient' = Append(apClient, m)
    BY <1>10 DEF ApCacheClient
  <2>3. PICK r : r = [apCall[c] EXCEPT !.pc = "ensure", !.client = Len(apClient) + 1] /\ ApSet(c, r)
    BY <1>10 DEF ApCacheClient
  <2>4. m \in ApClientRecord /\ m.made = apCall[c].read
    BY <2>1, <2>2 DEF ApClientRecord
  <2>5. apClient \in Seq(ApClientRecord) /\ Len(apClient) \in Nat
    BY <1>0 DEF ApTypes
  <2>6. /\ apClient' \in Seq(ApClientRecord) /\ Len(apClient') = Len(apClient) + 1
        /\ apClient'[Len(apClient) + 1] = m /\ \A k \in 1..Len(apClient) : apClient'[k] = apClient[k]
    BY <2>2, <2>4, <2>5, AppendProperties
  <2>7. /\ DOMAIN apClient \subseteq DOMAIN apClient' /\ Len(apClient) + 1 \in DOMAIN apClient'
        /\ \A k \in DOMAIN apClient : apClient'[k] = apClient[k]
    BY <2>5, <2>6
  <2>8. r \in ApCallRecord /\ r.own = apCall[c].own /\ r.pc = "ensure" /\ r.client = Len(apClient) + 1
    <3>1. apCall[c] \in ApCallRecord /\ Len(apClient) + 1 \in Nat
      BY <1>0, <2>5
    <3> QED BY <2>3, <3>1 DEF ApCallRecord
  <2>9. r.own <= apServer.opened
    BY <1>0, <2>8 DEF SessionSound
  <2>10. ApTypes'
    BY <1>0, <2>1, <2>3, <2>5, <2>6, <2>8, CallWritten DEF ApTypes
  <2>11. ClientCurrentOrTold'
    <3>1. \A k : ApUntold(k)' <=> ApUntold(k)
      BY <2>1, ToldKept
    <3>2. DOMAIN apCall[c].read = DOMAIN ApKeys
      BY <2>1, ApiClientsAssumption
    <3> QED BY <1>0, <2>1, <2>4, <2>6, <3>1, <3>2 DEF SettingsInv, ReadsCurrentOrTold, ClientCurrentOrTold
  <2> QED BY <1>7, <2>1, <2>3, <2>7, <2>8, <2>9, <2>10, <2>11
\* The sessions.
<1>11. ASSUME NEW c \in ApCalls, ApEnsureFails(c) PROVE ApInv'
  <2>1. /\ apCall[c].pc = "ensure" /\ ApSet(c, [apCall[c] EXCEPT !.pc = "login_failed"])
        /\ UNCHANGED <<apKind, apSetting, apWriter, apChannel, apLost, apHandling, apCached, apClient, apServer>>
    BY <1>11 DEF ApEnsureFails, ApKeepAllButCalls
  <2>2. PICK r \in ApCallRecord : r = [apCall[c] EXCEPT !.pc = "login_failed"] /\ ApSet(c, r)
    BY <1>0, <2>1 DEF ApCallRecord
  <2>3. apCall' \in [ApCalls -> ApCallRecord] /\ apCall'[c] = r /\ \A d \in ApCalls \ {c} : apCall'[d] = apCall[d]
    BY <1>0, <2>2, CallWritten
  <2>4. r.pc = "login_failed" /\ r.own = apCall[c].own
    BY <1>0, <2>2 DEF ApCallRecord
  <2>5. ApTypes'
    BY <1>0, <2>1, <2>3 DEF ApTypes
  <2>6. SettingsInv'
    BY <1>0, <2>1, <2>3, <2>4, ReadsKept
  <2>7. SessionSound(c)'
    BY <1>0, <2>1, <2>3, <2>4 DEF SessionSound
  <2>8. apServer.opened \in Nat
    BY <1>0 DEF ApTypes
  <2>9. \A d \in ApCalls \ {c} : SessionSound(d)'
    BY <1>0, <2>1, <2>3, <2>8, OthersSound
  <2> QED BY <2>5, <2>6, <2>7, <2>9 DEF ApInv
<1>12. apServer \in [opened : Nat, alive : SUBSET Nat, expired : Nat]
       /\ apServer.opened \in Nat /\ \A s \in apServer.alive : s <= apServer.opened
  BY <1>0 DEF ApTypes
\* A step of c that opens no session, and the others do not see.
<1>13. ASSUME NEW c \in ApCalls, NEW r \in ApCallRecord, ApSet(c, r), r.pc \notin {"idle", "read"},
              NEW k \in DOMAIN apClient, k = apCall[c].client,
              NEW m \in ApClientRecord, apClient' = [apClient EXCEPT ![k] = m], m.made = apClient[k].made,
              \/ m.session = apClient[k].session /\ (m.holder = apClient[k].holder \/ ~ApHolds)
              \/ ApHolds /\ apClient[k].holder \in {c, ApNobody},
              UNCHANGED <<apKind, apSetting, apWriter, apChannel, apLost, apHandling, apCached, apServer>>,
              SessionSound(c)'
       PROVE  ApInv'
  <2>1. apCall' \in [ApCalls -> ApCallRecord] /\ apCall'[c] = r /\ \A d \in ApCalls \ {c} : apCall'[d] = apCall[d]
    BY <1>0, <1>13, CallWritten
  <2>2. \A d \in ApCalls \ {c} :
           /\ apCall'[d].pc = apCall[d].pc /\ apCall'[d].client = apCall[d].client
           /\ apCall'[d].own = apCall[d].own /\ apCall'[d].sent = apCall[d].sent
           /\ apCall'[d].read = apCall[d].read
           /\ apCall[d].pc = "idle" => apCall'[d] = apCall[d]
           /\ apCall[d].shared => apCall'[d].shared
    BY <2>1
  <2>3. /\ apServer' \in [opened : Nat, alive : SUBSET Nat, expired : Nat]
        /\ apServer.opened <= apServer'.opened /\ \A s \in apServer'.alive : s <= apServer'.opened
        /\ \A s \in Nat : s <= apServer.opened /\ s \in apServer'.alive => s \in apServer.alive
    BY <1>12, <1>13
  <2> HIDE DEF ApInv
  <2> QED BY <1>13, <2>1, <2>2, <2>3, CallMoves
\* A step of c that opens a session, or forgets one.
<1>14. ASSUME NEW c \in ApCalls, NEW r \in ApCallRecord, apCall' = [ApShare(c) EXCEPT ![c] = r],
              r.pc \notin {"idle", "read"},
              NEW k \in DOMAIN apClient, k = apCall[c].client, apClient[k].holder \in {c, ApNobody},
              NEW m \in ApClientRecord, apClient' = [apClient EXCEPT ![k] = m], m.made = apClient[k].made,
              UNCHANGED <<apKind, apSetting, apWriter, apChannel, apLost, apHandling, apCached>>,
              apServer' \in [opened : Nat, alive : SUBSET Nat, expired : Nat],
              apServer.opened <= apServer'.opened, \A x \in apServer'.alive : x <= apServer'.opened,
              \A x \in Nat : x <= apServer.opened /\ x \in apServer'.alive => x \in apServer.alive,
              SessionSound(c)'
       PROVE  ApInv'
  <2>1. /\ apCall' \in [ApCalls -> ApCallRecord] /\ apCall'[c] = r
        /\ \A d \in ApCalls \ {c} : apCall'[d] = ApShare(c)[d]
    BY <1>0, <1>14, Shares
  <2>2. \A d \in ApCalls \ {c} :
           /\ apCall'[d].pc = apCall[d].pc /\ apCall'[d].client = apCall[d].client
           /\ apCall'[d].own = apCall[d].own /\ apCall'[d].sent = apCall[d].sent
           /\ apCall'[d].read = apCall[d].read
           /\ apCall[d].pc = "idle" => apCall'[d] = apCall[d]
           /\ apCall[d].shared => apCall'[d].shared
           /\ apCall[d].pc = "resend" /\ apCall[d].client = k => apCall'[d].shared
    BY <1>0, <1>14, <2>1, Shares
  <2>3. \/ ApHolds /\ apClient[k].holder \in {c, ApNobody}
        \/ ~ApHolds /\ \A d \in ApCalls \ {c} :
             apCall[d].pc = "resend" /\ apCall[d].client = k => apCall'[d].shared
    BY <1>14, <2>2
  <2> QED BY <1>14, <2>1, <2>2, <2>3, CallMoves
<1>15. ASSUME NEW c \in ApCalls, ApEnsure(c) PROVE ApInv'
  <2>1. /\ apCall[c].pc = "ensure" /\ apCall[c].client \in DOMAIN apClient
        /\ ApMine(c) = apClient[apCall[c].client] /\ ApMine(c) \in ApClientRecord /\ ApMine(c).holder = ApNobody
        /\ apCall[c].own <= apServer.opened
        /\ UNCHANGED <<apKind, apSetting, apWriter, apChannel, apLost, apHandling, apCached>>
    BY <1>15, ClientOf DEF ApEnsure, ApClientFree, ApKeepAllButCalls, SessionSound
  <2>2. PICK k \in DOMAIN apClient, mine \in ApClientRecord :
          k = apCall[c].client /\ mine = apClient[k] /\ mine.holder = ApNobody
    BY <2>1
  <2>3. CASE ApMine(c).session # 0
    <3>1. PICK r \in ApCallRecord : /\ ApSet(c, r) /\ r.pc = "send" /\ r.client = k /\ r.own = apCall[c].own
      <4>1. ApSet(c, [apCall[c] EXCEPT !.pc = "send"])
        BY <1>15, <2>3 DEF ApEnsure
      <4> QED BY <1>0, <2>2, <4>1 DEF ApCallRecord
    <3>2. apCall'[c] = r /\ UNCHANGED <<apClient, apServer>>
      BY <1>0, <1>15, <2>3, <3>1, CallWritten DEF ApEnsure
    <3>3. SessionSound(c)'
      BY <2>1, <2>2, <3>1, <3>2 DEF SessionSound
    <3>4. apClient' = [apClient EXCEPT ![k] = mine]
      BY <1>0, <2>2, <3>2 DEF ApTypes
    <3> QED BY <1>13, <2>1, <2>2, <3>1, <3>2, <3>3, <3>4
  <2>4. CASE ApMine(c).session = 0
    <3>1. PICK s : /\ s = apServer.opened + 1 /\ ApOpens(s)
                   /\ apClient' = [apClient EXCEPT ![k] = [mine EXCEPT !.session = s]]
                   /\ apCall' = [ApShare(c) EXCEPT ![c].pc = "send"]
      BY <1>15, <2>2, <2>4 DEF ApEnsure
    <3>2. s \in Nat
      BY <1>12, <3>1
    <3>3. PICK m \in ApClientRecord : m = [mine EXCEPT !.session = s]
      BY <3>2 DEF ApClientRecord
    <3>4. m.made = mine.made /\ m.session = s
      BY <3>3 DEF ApClientRecord
    <3>5. PICK r \in ApCallRecord : r = [apCall[c] EXCEPT !.pc = "send"]
      BY <1>0 DEF ApCallRecord
    <3>6. r.pc = "send" /\ r.client = k /\ r.own = apCall[c].own
      BY <1>0, <2>2, <3>5 DEF ApCallRecord
    <3>7. apCall' = [ApShare(c) EXCEPT ![c] = r]
      BY <1>0, <3>1, <3>5, Shares
    <3>8. DOMAIN apClient' = DOMAIN apClient
      BY <1>0, <3>1, <3>3, ClientWritten
    <3>9. apCall'[c] = r
      BY <1>0, <3>7, Shares
    <3>10. r.own <= apServer'.opened
      BY <1>12, <2>1, <3>1, <3>6, SessionOpened DEF ApCallRecord
    <3>11. SessionSound(c)'
      BY <3>6, <3>8, <3>9, <3>10 DEF SessionSound
    <3>12. apClient' = [apClient EXCEPT ![k] = m] /\ m.made = apClient[k].made /\ apClient[k].holder = ApNobody
      BY <2>2, <3>1, <3>3, <3>4
    <3>13. /\ apServer' \in [opened : Nat, alive : SUBSET Nat, expired : Nat]
           /\ apServer.opened <= apServer'.opened /\ \A x \in apServer'.alive : x <= apServer'.opened
           /\ \A x \in Nat : x <= apServer.opened /\ x \in apServer'.alive => x \in apServer.alive
      BY <3>1, SessionOpened
    <3> QED BY <1>14, <2>1, <2>2, <3>6, <3>7, <3>11, <3>12, <3>13
  <2> QED BY <2>3, <2>4
<1>16. ASSUME NEW c \in ApCalls, ApSend(c) PROVE ApInv'
  <2>1. PICK k \in DOMAIN apClient, mine \in ApClientRecord :
          /\ k = apCall[c].client /\ mine = apClient[k] /\ mine = ApMine(c)
          /\ (ApHolds => mine.holder = ApNobody) /\ apCall[c].own <= apServer.opened
    BY <1>16, ClientOf DEF ApSend, ApClientFree, SessionSound
  <2>2. UNCHANGED <<apKind, apSetting, apWriter, apChannel, apLost, apHandling, apCached, apServer>>
    BY <1>16 DEF ApSend, ApKeepAllButCalls
  <2>3. PICK r : /\ ApSet(c, r)
                 /\ r = [apCall[c] EXCEPT !.pc = IF mine.session \in apServer.alive THEN "answered" ELSE "expired",
                                          !.sent = mine.session]
    BY <1>16, <2>1 DEF ApSend
  <2>4. r \in ApCallRecord /\ r.client = k /\ r.own = apCall[c].own
        /\ r.pc = IF mine.session \in apServer.alive THEN "answered" ELSE "expired"
    BY <1>0, <2>1, <2>3 DEF ApCallRecord, ApClientRecord
  <2>5. PICK m \in ApClientRecord :
          /\ apClient' = [apClient EXCEPT ![k] = m]
          /\ m.made = mine.made /\ m.session = mine.session
          /\ ~ApHolds => m.holder = mine.holder
          /\ ApHolds /\ mine.session \notin apServer.alive => m.holder = c
    <3>1. CASE mine.session \in apServer.alive \/ ~ApHolds
      <4>1. apClient' = apClient
        BY <1>16, <2>1, <3>1 DEF ApSend
      <4>2. apClient' = [apClient EXCEPT ![k] = mine]
        BY <1>0, <2>1, <4>1, ClientStays
      <4> QED BY <3>1, <4>2
    <3>2. CASE ~(mine.session \in apServer.alive \/ ~ApHolds)
      <4>1. apClient' = [apClient EXCEPT ![k] = [mine EXCEPT !.holder = c]]
        BY <1>16, <2>1, <3>2 DEF ApSend
      <4>2. [mine EXCEPT !.holder = c] \in ApClientRecord
        BY <2>1 DEF ApClientRecord
      <4> QED BY <3>2, <4>1, <4>2 DEF ApClientRecord
    <3> QED BY <3>1, <3>2
  <2>6. apClient'[k] = m /\ DOMAIN apClient' = DOMAIN apClient /\ apCall'[c] = r
    BY <1>0, <2>3, <2>4, <2>5, ClientWritten, CallWritten
  <2>7. SessionSound(c)'
    BY <2>1, <2>2, <2>4, <2>5, <2>6 DEF SessionSound, ApMine, ApHolds
  <2>8. \/ m.session = apClient[k].session /\ (m.holder = apClient[k].holder \/ ~ApHolds)
        \/ ApHolds /\ apClient[k].holder \in {c, ApNobody}
    BY <2>1, <2>5
  <2>9. r.pc \notin {"idle", "read"} /\ m.made = apClient[k].made /\ ApSet(c, r)
    BY <2>1, <2>3, <2>4, <2>5
  <2> QED BY <1>13, <2>1, <2>2, <2>4, <2>5, <2>7, <2>8, <2>9
<1>17. ASSUME NEW c \in ApCalls, ApForget(c) PROVE ApInv'
  <2>1. PICK k \in DOMAIN apClient, mine \in ApClientRecord :
          /\ k = apCall[c].client /\ mine = apClient[k] /\ mine.holder \in {c, ApNobody}
          /\ apCall[c].own <= apServer.opened
    BY <1>17, ClientOf DEF ApForget, SessionSound
  <2>2. /\ UNCHANGED <<apKind, apSetting, apWriter, apChannel, apLost, apHandling, apCached, apServer>>
        /\ apClient' = [apClient EXCEPT ![k] = [mine EXCEPT !.session = 0, !.holder = c]]
        /\ apCall' = [ApShare(c) EXCEPT ![c].pc = "login"]
    BY <1>17, <2>1 DEF ApForget, ApKeepAllButCalls
  <2>3. PICK m \in ApClientRecord : m = [mine EXCEPT !.session = 0, !.holder = c]
    BY <2>1 DEF ApClientRecord
  <2>4. m.made = mine.made /\ m.holder = c
    BY <2>1, <2>3 DEF ApClientRecord
  <2>5. PICK r \in ApCallRecord : r = [apCall[c] EXCEPT !.pc = "login"]
    BY <1>0 DEF ApCallRecord
  <2>6. r.pc = "login" /\ r.client = k /\ r.own = apCall[c].own
    BY <1>0, <2>1, <2>5 DEF ApCallRecord
  <2>7. apCall' = [ApShare(c) EXCEPT ![c] = r]
    BY <1>0, <2>2, <2>5, Shares
  <2>8. apClient'[k] = m /\ DOMAIN apClient' = DOMAIN apClient /\ apCall'[c] = r
    BY <1>0, <2>2, <2>3, <2>7, ClientWritten, Shares
  <2>9. SessionSound(c)'
    BY <2>1, <2>2, <2>4, <2>6, <2>8 DEF SessionSound, ApMine, ApHolds
  <2>10. apServer' = apServer /\ apServer.opened <= apServer.opened
    BY <1>12, <2>2
  <2>11. /\ apServer' \in [opened : Nat, alive : SUBSET Nat, expired : Nat]
         /\ \A x \in apServer'.alive : x <= apServer'.opened
         /\ apServer.opened <= apServer'.opened
         /\ \A x \in Nat : x <= apServer.opened /\ x \in apServer'.alive => x \in apServer.alive
    BY <1>12, <2>10, Zenon
  <2>12. /\ r.pc \notin {"idle", "read"} /\ apClient[k].holder \in {c, ApNobody}
         /\ m.made = apClient[k].made /\ apClient' = [apClient EXCEPT ![k] = m]
    BY <2>1, <2>2, <2>3, <2>4, <2>6
  <2>13. UNCHANGED <<apKind, apSetting, apWriter, apChannel, apLost, apHandling, apCached>>
    BY <2>2
  <2>14. k = apCall[c].client /\ m.holder = c
    BY <2>1, <2>4
  <2> HIDE DEF ApInv
  <2> QED BY <1>14, <2>7, <2>9, <2>11, <2>12, <2>13, <2>14
<1>18. ASSUME NEW c \in ApCalls, ApLogin(c) PROVE ApInv'
  <2>1. PICK k \in DOMAIN apClient, mine \in ApClientRecord :
          k = apCall[c].client /\ mine = apClient[k] /\ mine.holder = c
    BY <1>18, ClientOf DEF ApLogin
  <2>2. PICK s : /\ s = apServer.opened + 1 /\ ApOpens(s)
                 /\ apClient' = [apClient EXCEPT ![k] =
                      [mine EXCEPT !.session = s, !.holder = IF ApHolds THEN c ELSE ApNobody]]
                 /\ apCall' = [ApShare(c) EXCEPT ![c] = [@ EXCEPT !.pc = "resend", !.own = s]]
    BY <1>18, <2>1 DEF ApLogin
  <2>3. /\ UNCHANGED <<apKind, apSetting, apWriter, apChannel, apLost, apHandling, apCached>>
        /\ s \in Nat /\ apServer'.opened = s
    BY <1>18, <2>2, SessionOpened DEF ApLogin, ApKeepAllButCalls
  <2>4. PICK m \in ApClientRecord : m = [mine EXCEPT !.session = s, !.holder = IF ApHolds THEN c ELSE ApNobody]
    BY <2>1, <2>3 DEF ApClientRecord
  <2>5. m.made = mine.made /\ m.session = s /\ (ApHolds => m.holder = c)
    BY <2>1, <2>3, <2>4 DEF ApClientRecord
  <2>6. PICK r \in ApCallRecord : r = [apCall[c] EXCEPT !.pc = "resend", !.own = s]
    BY <1>0, <2>3 DEF ApCallRecord
  <2>7. r.pc = "resend" /\ r.client = k /\ r.own = s
    BY <1>0, <2>1, <2>3, <2>6 DEF ApCallRecord
  <2>8. apCall' = [ApShare(c) EXCEPT ![c] = r]
    BY <1>0, <2>2, <2>6, Shares
  <2>9. apClient'[k] = m /\ DOMAIN apClient' = DOMAIN apClient /\ apCall'[c] = r
    BY <1>0, <2>2, <2>4, <2>8, ClientWritten, Shares
  <2>10. SessionSound(c)'
    BY <2>3, <2>5, <2>7, <2>9 DEF SessionSound, ApMine, ApHolds
  <2>11. /\ apServer' \in [opened : Nat, alive : SUBSET Nat, expired : Nat]
         /\ apServer.opened <= apServer'.opened /\ \A x \in apServer'.alive : x <= apServer'.opened
         /\ \A x \in Nat : x <= apServer.opened /\ x \in apServer'.alive => x \in apServer.alive
    BY <2>2, SessionOpened
  <2> QED BY <1>14, <2>1, <2>2, <2>3, <2>4, <2>5, <2>7, <2>8, <2>10, <2>11
<1>19. ASSUME NEW c \in ApCalls, ApLoginFails(c) \/ ApResend(c) PROVE ApInv'
  <2>1. PICK k \in DOMAIN apClient, mine \in ApClientRecord :
          /\ k = apCall[c].client /\ mine = apClient[k] /\ mine = ApMine(c)
          /\ ApHolds => mine.holder = c
          /\ apCall[c].own <= apServer.opened
          /\ apCall[c].pc = "resend" => mine.session = apCall[c].own \/ (~ApHolds /\ apCall[c].shared)
    BY <1>19, ClientOf DEF ApLoginFails, ApResend, SessionSound
  <2>2. UNCHANGED <<apKind, apSetting, apWriter, apChannel, apLost, apHandling, apCached, apServer>>
    BY <1>19 DEF ApLoginFails, ApResend, ApKeepAllButCalls
  <2>3. PICK m \in ApClientRecord : /\ apClient' = [apClient EXCEPT ![k] = m]
                                    /\ m.made = mine.made /\ m.session = mine.session
    <3>1. [mine EXCEPT !.holder = ApNobody] \in ApClientRecord
      BY <2>1 DEF ApClientRecord
    <3>2. \/ apClient' = [apClient EXCEPT ![k] = [mine EXCEPT !.holder = ApNobody]]
          \/ apClient' = [apClient EXCEPT ![k] = mine]
      BY <1>0, <1>19, <2>1, ClientStays DEF ApLoginFails, ApResend
    <3> QED BY <2>1, <3>1, <3>2 DEF ApClientRecord
  <2>4. PICK r \in ApCallRecord :
          /\ ApSet(c, r) /\ r.own = apCall[c].own /\ r.shared = apCall[c].shared
          /\ \/ r.pc \in {"login_failed", "answered"}
             \/ /\ r.pc = "refused" /\ apCall[c].pc = "resend"
                /\ r.sent = mine.session /\ mine.session \notin apServer.alive
    <3>1. CASE ApLoginFails(c)
      <4>1. ApSet(c, [apCall[c] EXCEPT !.pc = "login_failed"])
        BY <3>1 DEF ApLoginFails
      <4> QED BY <1>0, <4>1 DEF ApCallRecord
    <3>2. CASE ApResend(c)
      <4>1. PICK pc \in {"answered", "refused"} :
              /\ ApSet(c, [apCall[c] EXCEPT !.pc = pc, !.sent = mine.session])
              /\ pc = "refused" => mine.session \notin apServer.alive
        BY <2>1, <3>2 DEF ApResend
      <4>2. apCall[c].pc = "resend" /\ mine.session \in Nat
        BY <2>1, <3>2 DEF ApResend, ApClientRecord
      <4>3. PICK r : r = [apCall[c] EXCEPT !.pc = pc, !.sent = mine.session]
        OBVIOUS
      <4>4. r \in ApCallRecord /\ r.pc = pc /\ r.sent = mine.session
            /\ r.own = apCall[c].own /\ r.shared = apCall[c].shared
        BY <1>0, <4>2, <4>3 DEF ApCallRecord
      <4> QED BY <4>1, <4>2, <4>3, <4>4
    <3> QED BY <1>19, <3>1, <3>2
  <2>5. apCall'[c] = r
    BY <1>0, <2>4, CallWritten
  <2>6. SessionSound(c)'
    BY <2>1, <2>2, <2>4, <2>5 DEF SessionSound, ApHolds
  <2>7. \/ m.session = apClient[k].session /\ (m.holder = apClient[k].holder \/ ~ApHolds)
        \/ ApHolds /\ apClient[k].holder \in {c, ApNobody}
    BY <2>1, <2>3
  <2> QED BY <1>13, <2>1, <2>2, <2>3, <2>4, <2>6, <2>7
<1>20. CASE UNCHANGED apVars
  <2>1. ApTypes'
    BY <1>0, <1>20 DEF ApTypes, apVars
  <2>2. SettingsInv'
    BY <1>0, <1>20 DEF SettingsInv, ReadsCurrentOrTold, ClientCurrentOrTold, ApUntold, apVars
  <2>3. \A c \in ApCalls : SessionSound(c)'
    BY <1>0, <1>20 DEF SessionSound, ApMine, ApHolds, apVars
  <2> QED BY <2>1, <2>2, <2>3 DEF ApInv
<1> QED BY <1>2, <1>3, <1>4, <1>5, <1>6, <1>8, <1>9, <1>10, <1>11, <1>15, <1>16, <1>17, <1>18, <1>19, <1>20 DEF ApNext

\* Whatever settings are saved while clients are built and sessions end: a client in the cache is
\* of the settings as they are, or its provider is about to hear of the change, or a full channel
\* lost it; and a request that has logged in again is refused only because that session ended, or,
\* with OpenSubtitles, because another call replaced it (settings.Service.notify, Provider.Client,
\* Invalidate, qbittorrent's getUnlocked, opensubtitles' doRequest).
THEOREM ClientsAlwaysServe == ApSpec => []ClientsServe
<1>1. ApInv => ClientsServe
  BY DEF ApInv, SettingsInv, ClientsServe, RefusedForExpiryOnly, SessionSound, ApTypes, ApHolds
<1> QED BY ApInitially, ApStep, <1>1, PTL DEF ApSpec

-----------------------------------------------------------------------------
(* Media servers                                                           *)

MsSpec == MsInit /\ [][MsNext]_msVars

MsKinds == {"import_completed", "subtitle_deleted", "download_deleted", "item_deleted"}
MsEvent == [kind : MsKinds, item : MsItems, version : Nat]
MsTimer == [pc : {"none", "set", "stopped", "fired", "refresh", "scan", "done"},
            library : MsLibraries \cup {MsNoTimer.library}, version : Nat, attempt : Nat]

MsTypes ==
  /\ msItems \subseteq MsItems /\ msDeleting \subseteq MsItems
  /\ msEvents \subseteq MsEvent
  /\ msTimer \in [MsTimers -> MsTimer]
  /\ msPending \in [MsLibraries -> {0} \cup MsTimers]
  /\ msChanged \in [MsLibraries -> 0..MsMaxChanges]
  /\ msServer \in [MsLibraries -> Nat] /\ msWaived \in [MsLibraries -> Nat]

\* The version that the library of an item or a timer is at.
VersionOf(i) == msChanged[LibraryOf[i]]

\* Nobody knows of a change that was not made, and a pending timer has not done its work.
MsKnown ==
  /\ \A e \in msEvents : e.version <= VersionOf(e.item)
  /\ \A t \in MsTimers : msTimer[t].pc # "none" =>
       msTimer[t].library \in MsLibraries /\ msTimer[t].version <= msChanged[msTimer[t].library]
  /\ \A l \in MsLibraries : msPending[l] # 0 =>
       msTimer[msPending[l]].pc \in {"set", "fired"} /\ msTimer[msPending[l]].library = l

\* An event that leads nowhere is of a change that was given up, or not the last one.
MsEventCounts(e) ==
  \/ e.kind = "item_deleted" \/ e.item \in msItems
  \/ e.version <= msWaived[LibraryOf[e.item]] \/ e.version < VersionOf(e.item)

\* The last change of a library is on its way to the server.
MsCarried(l) ==
  \/ \E i \in msDeleting : LibraryOf[i] = l
  \/ \E e \in msEvents : LibraryOf[e.item] = l /\ e.version = msChanged[l]
  \/ \E t \in MsTimers :
       /\ msTimer[t].library = l /\ msTimer[t].version = msChanged[l]
       /\ \/ msTimer[t].pc \in {"set", "fired"} /\ msPending[l] = t
          \/ msTimer[t].pc \in {"refresh", "scan"}

MsShown(l) == msChanged[l] <= msServer[l] \/ msChanged[l] <= msWaived[l]

MsInv ==
  /\ MsTypes /\ MsKnown
  /\ \A e \in msEvents : MsEventCounts(e)
  /\ \A l \in MsLibraries : MsShown(l) \/ MsCarried(l)

LEMMA LeastVersion ==
  ASSUME NEW T, T \subseteq Nat, T # {}
  PROVE  \E x \in T : \A y \in T : x <= y
<1>1. \E x \in T : \A y \in T : ~(<<y, x>> \in OpToRel(<, Nat))
  BY NatLessThanWellFounded, WFMin
<1>2. \A x, y \in Nat : ~(<<y, x>> \in OpToRel(<, Nat)) => x <= y
  BY DEF OpToRel
<1> QED BY <1>1, <1>2

\* The versions of the libraries have a last one: they are bounded.
LEMMA LatestVersion ==
  ASSUME MsTypes, NEW k \in MsLibraries
  PROVE  MsLatest \in 0..MsMaxChanges /\ \A l \in MsLibraries : msChanged[l] <= MsLatest
<1> DEFINE left == {MsMaxChanges - msChanged[l] : l \in MsLibraries}
<1>1. \A l \in MsLibraries : msChanged[l] \in 0..MsMaxChanges /\ MsMaxChanges \in Nat
  BY MediaServersAssumption DEF MsTypes
<1>2. left \subseteq Nat /\ left # {}
  BY <1>1
<1>3. PICK x \in left : \A y \in left : x <= y
  BY <1>2, LeastVersion
<1>4. PICK l \in MsLibraries : x = MsMaxChanges - msChanged[l]
  BY <1>3
<1>5. \A m \in MsLibraries : MsMaxChanges - msChanged[l] <= MsMaxChanges - msChanged[m]
  BY <1>3, <1>4
<1>6. \A m \in MsLibraries : msChanged[m] <= msChanged[l]
  BY <1>1, <1>5
<1>7. msChanged[l] \in {msChanged[m] : m \in MsLibraries}
  OBVIOUS
<1>8. \E v \in {msChanged[m] : m \in MsLibraries} : \A m \in MsLibraries : msChanged[m] <= v
  BY <1>6, <1>7
<1> QED BY <1>1, <1>8 DEF MsLatest

LEMMA MsMaxIs ==
  ASSUME NEW a \in Nat, NEW b \in Nat
  PROVE  MsMax(a, b) \in Nat /\ a <= MsMax(a, b) /\ b <= MsMax(a, b) /\ MsMax(a, b) \in {a, b}
BY DEF MsMax

\* Giving up a version.
LEMMA MsWaived ==
  ASSUME MsTypes, NEW l \in MsLibraries, NEW v \in Nat, MsWaive(l, v)
  PROVE  /\ msWaived' \in [MsLibraries -> Nat] /\ v <= msWaived'[l]
         /\ \A m \in MsLibraries : msWaived[m] <= msWaived'[m]
<1>1. msWaived \in [MsLibraries -> Nat]
  BY DEF MsTypes
<1>2. msWaived' = [msWaived EXCEPT ![l] = MsMax(msWaived[l], v)]
  BY DEF MsWaive
<1>3. /\ MsMax(msWaived[l], v) \in Nat /\ msWaived[l] <= MsMax(msWaived[l], v)
      /\ v <= MsMax(msWaived[l], v)
  BY <1>1, MsMaxIs
<1> QED BY <1>1, <1>2, <1>3

\* A new timer is set, which gathers version g.
MsSetsNew(l, v, new, g) ==
  /\ msTimer[new].pc = "none" /\ v <= g /\ g <= msChanged[l]
  /\ msPending[l] # 0 => msTimer[msPending[l]].version <= g
  /\ msTimer'[new] = [pc |-> "set", library |-> l, version |-> g, attempt |-> 0]
  /\ \A t \in MsTimers \ {new} :
       /\ msTimer'[t].library = msTimer[t].library /\ msTimer'[t].version = msTimer[t].version
       /\ \/ msTimer'[t] = msTimer[t]
          \/ t = msPending[l] /\ msTimer'[t].pc = "stopped"
  /\ msTimer' \in [MsTimers -> MsTimer]
  /\ msPending' = [msPending EXCEPT ![l] = new]

\* The timer that takes the place of the pending one gathers what that one was for.
LEMMA MsScheduled ==
  ASSUME MsTypes, MsKnown, NEW l \in MsLibraries, NEW v \in Nat, v <= msChanged[l], MsUnused # {},
         MsSchedule(l, v)
  PROVE  \E new \in MsTimers, g \in Nat : MsSetsNew(l, v, new, g)
<1> DEFINE old == msPending[l]
           new == CHOOSE t \in MsUnused : \A u \in MsUnused : t <= u
           g   == IF old = 0 THEN v ELSE MsMax(v, msTimer[old].version)
<1>1. MsUnused \subseteq Nat /\ MsUnused \subseteq MsTimers
  BY MediaServersAssumption DEF MsUnused, MsTimers
<1>2. new \in MsUnused
  BY <1>1, LeastVersion
<1>3. new \in MsTimers /\ msTimer[new].pc = "none"
  BY <1>1, <1>2 DEF MsUnused
<1>4. old \in {0} \cup MsTimers /\ 0 \notin MsTimers /\ (old # 0 => old # new)
  <2> HIDE DEF new
  <2>1. old \in {0} \cup MsTimers /\ 0 \notin MsTimers
    BY DEF MsTypes, MsTimers
  <2>2. old # 0 => msTimer[old].pc \in {"set", "fired"}
    BY DEF MsKnown
  <2> QED BY <1>3, <2>1, <2>2
<1>5. msChanged[l] \in Nat /\ \A t \in MsTimers : msTimer[t].version \in Nat /\ msTimer[t] \in MsTimer
  BY MediaServersAssumption DEF MsTypes, MsTimer
<1>6. old # 0 => msTimer[old].version <= msChanged[l]
  BY <1>4 DEF MsKnown
<1>7. /\ g \in Nat /\ v <= g /\ g <= msChanged[l]
      /\ old # 0 => msTimer[old].version <= g
  BY <1>4, <1>5, <1>6, MsMaxIs
<1>8. /\ msTimer' = [t \in MsTimers |->
                       IF t = new THEN [pc |-> "set", library |-> l, version |-> g, attempt |-> 0]
                       ELSE IF t = old /\ msTimer[t].pc = "set"
                            THEN [msTimer[t] EXCEPT !.pc = "stopped"] ELSE msTimer[t]]
      /\ msPending' = [msPending EXCEPT ![l] = new]
  BY DEF MsSchedule
<1> HIDE DEF new, g
<1>9. [pc |-> "set", library |-> l, version |-> g, attempt |-> 0] \in MsTimer
  BY <1>7 DEF MsTimer
<1>10. \A t \in MsTimers : [msTimer[t] EXCEPT !.pc = "stopped"] \in MsTimer
  BY <1>5 DEF MsTimer
<1>11. msTimer' \in [MsTimers -> MsTimer]
  BY <1>5, <1>8, <1>9, <1>10
<1>12. \A t \in MsTimers \ {new} :
         /\ msTimer'[t].library = msTimer[t].library /\ msTimer'[t].version = msTimer[t].version
         /\ \/ msTimer'[t] = msTimer[t]
            \/ t = old /\ msTimer'[t].pc = "stopped"
  BY <1>5, <1>8 DEF MsTimer
<1>13. msTimer'[new] = [pc |-> "set", library |-> l, version |-> g, attempt |-> 0]
  BY <1>3, <1>8
<1>14. MsSetsNew(l, v, new, g)
  BY <1>3, <1>7, <1>8, <1>11, <1>12, <1>13 DEF MsSetsNew
<1> QED BY <1>3, <1>7, <1>14
LEMMA MsInitially == MsInit => MsInv
<1> SUFFICES ASSUME MsInit PROVE MsInv
  OBVIOUS
<1>1. MsTypes
  <2>1. MsNoTimer \in MsTimer
    BY DEF MsNoTimer, MsTimer
  <2>2. 0 \in 0..MsMaxChanges /\ 0 \in Nat
    BY MediaServersAssumption
  <2> QED BY <2>1, <2>2 DEF MsInit, MsTypes
<1>2. MsKnown
  BY DEF MsInit, MsKnown, MsNoTimer
<1>3. \A l \in MsLibraries : MsShown(l)
  BY DEF MsInit, MsShown
<1> QED BY <1>1, <1>2, <1>3 DEF MsInit, MsInv

\* What the invariant says of numbers.
LEMMA MsNumbers ==
  ASSUME MsTypes
  PROVE  /\ \A l \in MsLibraries : msChanged[l] \in Nat /\ msServer[l] \in Nat /\ msWaived[l] \in Nat
         /\ \A e \in msEvents : e.item \in MsItems /\ LibraryOf[e.item] \in MsLibraries /\ e.version \in Nat
         /\ \A t \in MsTimers : msTimer[t] \in MsTimer /\ msTimer[t].version \in Nat
         /\ \A i \in MsItems : LibraryOf[i] \in MsLibraries
BY MediaServersAssumption DEF MsTypes, MsEvent, MsTimer

\* A change of the files of a library, which the others do not see.
LEMMA MsChanges ==
  ASSUME MsInv, NEW i \in msItems, MsLatest < MsMaxChanges,
         msChanged' = [msChanged EXCEPT ![LibraryOf[i]] = MsLatest + 1]
  PROVE  LET l == LibraryOf[i]
         IN  /\ l \in MsLibraries /\ i \in MsItems /\ msChanged' \in [MsLibraries -> 0..MsMaxChanges]
             /\ MsLatest + 1 \in Nat /\ msChanged'[l] = MsLatest + 1 /\ msChanged[l] < msChanged'[l]
             /\ \A m \in MsLibraries \ {l} : msChanged'[m] = msChanged[m]
             /\ \A m \in MsLibraries : msChanged[m] \in Nat /\ msChanged'[m] \in Nat /\ msChanged[m] <= msChanged'[m]
<1> DEFINE l == LibraryOf[i]
<1>1. l \in MsLibraries /\ i \in MsItems /\ MsTypes
  BY MediaServersAssumption DEF MsInv, MsTypes
<1>2. MsLatest \in 0..MsMaxChanges /\ \A m \in MsLibraries : msChanged[m] <= MsLatest
  BY <1>1, LatestVersion
<1>3. MsLatest + 1 \in 0..MsMaxChanges /\ MsLatest + 1 \in Nat
  BY <1>2, MediaServersAssumption
<1>4. msChanged \in [MsLibraries -> 0..MsMaxChanges] /\ \A m \in MsLibraries : msChanged[m] \in Nat
  BY <1>1, MsNumbers DEF MsTypes
<1>5. msChanged' \in [MsLibraries -> 0..MsMaxChanges] /\ msChanged'[l] = MsLatest + 1
      /\ \A m \in MsLibraries \ {l} : msChanged'[m] = msChanged[m]
  BY <1>1, <1>3, <1>4
<1>6. msChanged[l] < msChanged'[l]
  BY <1>1, <1>2, <1>4, <1>5
<1>7. \A m \in MsLibraries : msChanged'[m] \in Nat /\ msChanged[m] <= msChanged'[m]
  <2> TAKE m \in MsLibraries
  <2>1. CASE m = l
    BY <1>3, <1>4, <1>5, <1>6, <2>1
  <2>2. CASE m # l
    BY <1>4, <1>5, <2>2
  <2> QED BY <2>1, <2>2
<1> QED BY <1>1, <1>3, <1>4, <1>5, <1>6, <1>7

\* What was known before the change is known, and counts, after it.
LEMMA MsChangeKeeps ==
  ASSUME MsInv, NEW i \in msItems, MsLatest < MsMaxChanges,
         msChanged' = [msChanged EXCEPT ![LibraryOf[i]] = MsLatest + 1],
         UNCHANGED <<msTimer, msPending, msServer, msWaived>>,
         \A j \in msItems \ {i} : j \in msItems'
  PROVE  /\ \A e \in msEvents : e.version <= VersionOf(e.item)'
         /\ \A e \in msEvents : MsEventCounts(e)'
         /\ \A t \in MsTimers : msTimer'[t].pc # "none" =>
              msTimer'[t].library \in MsLibraries /\ msTimer'[t].version <= msChanged'[msTimer'[t].library]
<1>1. MsTypes /\ MsKnown /\ \A e \in msEvents : MsEventCounts(e)
  BY DEF MsInv
<1>2. /\ \A m \in MsLibraries : msChanged[m] \in Nat /\ msChanged'[m] \in Nat /\ msChanged[m] <= msChanged'[m]
      /\ msChanged[LibraryOf[i]] < msChanged'[LibraryOf[i]] /\ LibraryOf[i] \in MsLibraries
  BY MsChanges
<1>3. \A e \in msEvents : /\ e.version \in Nat /\ e.version <= msChanged[LibraryOf[e.item]]
                          /\ LibraryOf[e.item] \in MsLibraries
  BY <1>1, MsNumbers DEF MsKnown, VersionOf
<1>4. \A e \in msEvents : e.version <= msChanged'[LibraryOf[e.item]]
  BY <1>2, <1>3
<1>5. \A e \in msEvents : MsEventCounts(e)'
  <2> TAKE e \in msEvents
  <2>1. CASE e.item = i
    <3>1. e.version < msChanged'[LibraryOf[e.item]]
      BY <1>2, <1>3, <2>1
    <3> QED BY <3>1 DEF MsEventCounts, VersionOf
  <2>2. CASE e.item # i
    <3>1. e.version < msChanged[LibraryOf[e.item]] => e.version < msChanged'[LibraryOf[e.item]]
      BY <1>2, <1>3
    <3>2. e.item \in msItems => e.item \in msItems'
      BY <2>2
    <3> QED BY <1>1, <3>1, <3>2 DEF MsEventCounts, VersionOf
  <2> QED BY <2>1, <2>2
<1>6. \A t \in MsTimers : msTimer[t].pc # "none" =>
        msTimer[t].library \in MsLibraries /\ msTimer[t].version <= msChanged'[msTimer[t].library]
  BY <1>1, <1>2, MsNumbers DEF MsKnown
<1> QED BY <1>4, <1>5, <1>6 DEF VersionOf

LEMMA MsChangeStep ==
  ASSUME MsInv, NEW i \in MsItems, NEW kind \in MsKinds, MsChange(i, kind)
  PROVE  MsInv'
<1>0. PICK l, new : l = LibraryOf[i] /\ new = [kind |-> kind, item |-> i, version |-> MsLatest + 1]
  OBVIOUS
<1>1. /\ i \in msItems /\ MsLatest < MsMaxChanges
      /\ msChanged' = [msChanged EXCEPT ![LibraryOf[i]] = MsLatest + 1]
      /\ msEvents' = msEvents \cup {new}
      /\ msItems' = msItems /\ msDeleting' = msDeleting
      /\ UNCHANGED <<msTimer, msPending, msServer, msWaived>>
  BY <1>0 DEF MsChange
<1>2. /\ l \in MsLibraries /\ msChanged' \in [MsLibraries -> 0..MsMaxChanges]
      /\ MsLatest + 1 \in Nat /\ msChanged'[l] = MsLatest + 1
      /\ \A m \in MsLibraries \ {l} : msChanged'[m] = msChanged[m]
  BY <1>0, <1>1, MsChanges
<1>3. /\ \A e \in msEvents : e.version <= VersionOf(e.item)'
      /\ \A e \in msEvents : MsEventCounts(e)'
      /\ \A t \in MsTimers : msTimer'[t].pc # "none" =>
           msTimer'[t].library \in MsLibraries /\ msTimer'[t].version <= msChanged'[msTimer'[t].library]
  BY <1>1, MsChangeKeeps
<1>4. MsTypes'
  <2>1. new \in MsEvent
    BY <1>0, <1>2 DEF MsEvent, MsKinds
  <2> QED BY <1>1, <1>2, <2>1 DEF MsInv, MsTypes
<1>5. MsKnown'
  <2>1. new.version <= VersionOf(new.item)'
    BY <1>0, <1>2 DEF VersionOf
  <2>2. \A e \in msEvents' : e.version <= VersionOf(e.item)'
    BY <1>1, <1>3, <2>1
  <2>3. \A m \in MsLibraries : msPending'[m] # 0 =>
          msTimer'[msPending'[m]].pc \in {"set", "fired"} /\ msTimer'[msPending'[m]].library = m
    BY <1>1 DEF MsInv, MsKnown
  <2> QED BY <1>3, <2>2, <2>3 DEF MsKnown
<1>6. \A e \in msEvents' : MsEventCounts(e)'
  <2>1. MsEventCounts(new)'
    BY <1>0, <1>1 DEF MsEventCounts
  <2> QED BY <1>1, <1>3, <2>1
<1>7. \A m \in MsLibraries : MsShown(m)' \/ MsCarried(m)'
  <2> TAKE m \in MsLibraries
  <2>1. CASE m = l
    <3>1. new \in msEvents' /\ LibraryOf[new.item] = m /\ new.version = msChanged'[m]
      BY <1>0, <1>1, <1>2, <2>1
    <3> QED BY <3>1 DEF MsCarried
  <2>2. CASE m # l
    <3>1. MsShown(m) \/ MsCarried(m)
      BY DEF MsInv
    <3>2. msChanged'[m] = msChanged[m]
      BY <1>2, <2>2
    <3>3. MsShown(m) => MsShown(m)'
      BY <1>1, <3>2 DEF MsShown
    <3>4. MsCarried(m) => MsCarried(m)'
      BY <1>1, <3>2 DEF MsCarried
    <3> QED BY <3>1, <3>3, <3>4
  <2> QED BY <2>1, <2>2
<1> QED BY <1>4, <1>5, <1>6, <1>7 DEF MsInv

LEMMA MsDeleteStep ==
  ASSUME MsInv, NEW i \in MsItems, MsDeleteItem(i)
  PROVE  MsInv'
<1> DEFINE l == LibraryOf[i]
<1>1. /\ i \in msItems /\ MsLatest < MsMaxChanges
      /\ msChanged' = [msChanged EXCEPT ![LibraryOf[i]] = MsLatest + 1]
      /\ msItems' = msItems \ {i} /\ msDeleting' = msDeleting \cup {i} /\ msEvents' = msEvents
      /\ UNCHANGED <<msTimer, msPending, msServer, msWaived>>
  BY DEF MsDeleteItem
<1>2. /\ l \in MsLibraries /\ msChanged' \in [MsLibraries -> 0..MsMaxChanges]
      /\ \A m \in MsLibraries \ {l} : msChanged'[m] = msChanged[m]
  BY <1>1, MsChanges
<1>3. /\ \A e \in msEvents : e.version <= VersionOf(e.item)'
      /\ \A e \in msEvents : MsEventCounts(e)'
      /\ \A t \in MsTimers : msTimer'[t].pc # "none" =>
           msTimer'[t].library \in MsLibraries /\ msTimer'[t].version <= msChanged'[msTimer'[t].library]
  BY <1>1, MsChangeKeeps
<1>4. MsTypes'
  BY <1>1, <1>2 DEF MsInv, MsTypes
<1>5. MsKnown'
  <2>1. \A m \in MsLibraries : msPending'[m] # 0 =>
          msTimer'[msPending'[m]].pc \in {"set", "fired"} /\ msTimer'[msPending'[m]].library = m
    BY <1>1 DEF MsInv, MsKnown
  <2> QED BY <1>1, <1>3, <2>1 DEF MsKnown
<1>6. \A m \in MsLibraries : MsShown(m)' \/ MsCarried(m)'
  <2> TAKE m \in MsLibraries
  <2>1. CASE m = l
    BY <1>1, <2>1 DEF MsCarried
  <2>2. CASE m # l
    <3>1. MsShown(m) \/ MsCarried(m)
      BY DEF MsInv
    <3>2. msChanged'[m] = msChanged[m]
      BY <1>2, <2>2
    <3>3. MsShown(m) => MsShown(m)'
      BY <1>1, <3>2 DEF MsShown
    <3>4. MsCarried(m) => MsCarried(m)'
      BY <1>1, <3>2 DEF MsCarried
    <3> QED BY <3>1, <3>3, <3>4
  <2> QED BY <2>1, <2>2
<1> QED BY <1>1, <1>3, <1>4, <1>5, <1>6 DEF MsInv

LEMMA MsPublishStep ==
  ASSUME MsInv, NEW i \in MsItems, MsPublishDeleted(i)
  PROVE  MsInv'
<1>0. PICK v, new : v = msChanged[LibraryOf[i]] /\ new = [kind |-> "item_deleted", item |-> i, version |-> v]
  OBVIOUS
<1>1. /\ msDeleting' = msDeleting \ {i} /\ msEvents' = msEvents \cup {new} /\ msItems' = msItems
      /\ UNCHANGED <<msTimer, msPending, msChanged, msServer, msWaived>>
  BY <1>0 DEF MsPublishDeleted
<1>2. LibraryOf[i] \in MsLibraries /\ msChanged[LibraryOf[i]] \in Nat
  BY MsNumbers DEF MsInv
<1>3. MsTypes'
  <2>1. new \in MsEvent
    BY <1>0, <1>2 DEF MsEvent, MsKinds
  <2> QED BY <1>1, <2>1 DEF MsInv, MsTypes
<1>4. MsKnown'
  <2>1. new.version <= VersionOf(new.item)
    BY <1>0, <1>2 DEF VersionOf
  <2>2. \A e \in msEvents' : e.version <= VersionOf(e.item)
    BY <1>1, <2>1 DEF MsInv, MsKnown
  <2> QED BY <1>1, <2>2 DEF MsInv, MsKnown, VersionOf
<1>5. \A e \in msEvents' : MsEventCounts(e)'
  BY <1>0, <1>1 DEF MsInv, MsEventCounts, VersionOf
<1>6. \A m \in MsLibraries : MsShown(m)' \/ MsCarried(m)'
  <2> TAKE m \in MsLibraries
  <2>1. MsShown(m) => MsShown(m)'
    BY <1>1 DEF MsShown
  <2>2. CASE m = LibraryOf[i]
    <3>1. new \in msEvents' /\ LibraryOf[new.item] = m /\ new.version = msChanged'[m]
      BY <1>0, <1>1, <2>2
    <3> QED BY <3>1 DEF MsCarried
  <2>3. CASE m # LibraryOf[i]
    <3>1. MsCarried(m) => MsCarried(m)'
      BY <1>1, <2>3 DEF MsCarried
    <3> QED BY <2>1, <3>1 DEF MsInv
  <2> QED BY <2>2, <2>3
<1> QED BY <1>3, <1>4, <1>5, <1>6 DEF MsInv

\* What is given up only grows; nothing else is disturbed.
LEMMA MsWaiveKeeps ==
  ASSUME MsTypes, UNCHANGED <<msChanged, msServer, msItems>>,
         \A m \in MsLibraries : msWaived[m] <= msWaived'[m], msWaived' \in [MsLibraries -> Nat]
  PROVE  /\ \A m \in MsLibraries : MsShown(m) => MsShown(m)'
         /\ \A e \in msEvents : MsEventCounts(e) => MsEventCounts(e)'
<1>1. \A m \in MsLibraries : msChanged[m] \in Nat /\ msWaived[m] \in Nat /\ msWaived'[m] \in Nat
  BY MsNumbers
<1>2. \A m \in MsLibraries : MsShown(m) => MsShown(m)'
  BY <1>1 DEF MsShown
<1>3. \A e \in msEvents : e.version \in Nat /\ LibraryOf[e.item] \in MsLibraries
  BY MsNumbers
<1>4. \A e \in msEvents : e.version <= msWaived[LibraryOf[e.item]] => e.version <= msWaived'[LibraryOf[e.item]]
  BY <1>1, <1>3
<1>5. \A e \in msEvents : MsEventCounts(e) => MsEventCounts(e)'
  BY <1>4 DEF MsEventCounts, VersionOf
<1> QED BY <1>2, <1>5

LEMMA MsForgetStep ==
  ASSUME MsInv, NEW i \in MsItems, MsForget(i)
  PROVE  MsInv'
<1> DEFINE l == LibraryOf[i]
           v == IF \E e \in msEvents : e.item = i THEN msChanged[l] ELSE 0
<1>1. /\ i \in msItems /\ msItems' = msItems \ {i} /\ msDeleting' = msDeleting /\ msEvents' = msEvents
      /\ UNCHANGED <<msTimer, msPending, msChanged, msServer>> /\ MsWaive(l, v)
  BY DEF MsForget
<1>2. MsTypes /\ l \in MsLibraries /\ v \in Nat
  BY MsNumbers DEF MsInv
<1> HIDE DEF v
<1>3. /\ msWaived' \in [MsLibraries -> Nat] /\ v <= msWaived'[l]
      /\ \A m \in MsLibraries : msWaived[m] <= msWaived'[m]
  BY <1>1, <1>2, MsWaived
<1>4. MsTypes'
  BY <1>1, <1>2, <1>3 DEF MsTypes
<1>5. MsKnown'
  BY <1>1 DEF MsInv, MsKnown, VersionOf
<1>6. \A m \in MsLibraries : msChanged[m] \in Nat /\ msWaived[m] \in Nat /\ msWaived'[m] \in Nat
  BY <1>2, <1>3, MsNumbers
<1>7. \A e \in msEvents : MsEventCounts(e)'
  <2> TAKE e \in msEvents
  <2>1. /\ e.version \in Nat /\ LibraryOf[e.item] \in MsLibraries
        /\ e.version <= msChanged[LibraryOf[e.item]] /\ MsEventCounts(e)
    BY <1>2, MsNumbers DEF MsInv, MsKnown, VersionOf
  <2>2. CASE e.item = i
    <3>1. v = msChanged[l]
      BY <2>2 DEF v
    <3>2. e.version <= msWaived'[LibraryOf[e.item]]
      BY <1>2, <1>3, <1>6, <2>1, <2>2, <3>1
    <3> QED BY <3>2 DEF MsEventCounts
  <2>3. CASE e.item # i
    <3>1. e.version <= msWaived[LibraryOf[e.item]] => e.version <= msWaived'[LibraryOf[e.item]]
      BY <1>3, <1>6, <2>1
    <3> QED BY <1>1, <2>1, <2>3, <3>1 DEF MsEventCounts, VersionOf
  <2> QED BY <2>2, <2>3
<1>8. \A m \in MsLibraries : MsShown(m)' \/ MsCarried(m)'
  <2> TAKE m \in MsLibraries
  <2>1. MsShown(m) => MsShown(m)'
    BY <1>1, <1>3, <1>6 DEF MsShown
  <2>2. MsCarried(m) => MsCarried(m)'
    BY <1>1 DEF MsCarried
  <2> QED BY <2>1, <2>2 DEF MsInv
<1> QED BY <1>1, <1>4, <1>5, <1>7, <1>8 DEF MsInv

\* An event that is handled and schedules nothing was of a change given up, or not the last.
LEMMA MsDropStep ==
  ASSUME MsInv, NEW e \in msEvents, msEvents' = msEvents \ {e},
         UNCHANGED <<msItems, msDeleting, msTimer, msPending, msChanged, msServer>>,
         msWaived' \in [MsLibraries -> Nat], \A m \in MsLibraries : msWaived[m] <= msWaived'[m],
         e.version <= msWaived'[LibraryOf[e.item]] \/ e.version < msChanged[LibraryOf[e.item]]
  PROVE  MsInv'
<1>1. MsTypes /\ MsKnown
  BY DEF MsInv
<1>2. /\ \A m \in MsLibraries : MsShown(m) => MsShown(m)'
      /\ \A f \in msEvents : MsEventCounts(f) => MsEventCounts(f)'
  BY <1>1, MsWaiveKeeps
<1>3. MsTypes'
  BY <1>1 DEF MsTypes
<1>4. MsKnown'
  BY <1>1 DEF MsKnown, VersionOf
<1>5. \A m \in MsLibraries : msChanged[m] \in Nat /\ msWaived'[m] \in Nat
  BY <1>1, MsNumbers
<1>6. LibraryOf[e.item] \in MsLibraries /\ e.version \in Nat
  BY <1>1, MsNumbers
<1>7. \A m \in MsLibraries : MsShown(m)' \/ MsCarried(m)'
  <2> TAKE m \in MsLibraries
  <2>1. CASE LibraryOf[e.item] = m /\ e.version = msChanged[m]
    <3>1. ~(e.version < msChanged[m])
      BY <1>5, <2>1
    <3>2. msChanged'[m] <= msWaived'[m]
      BY <2>1, <3>1
    <3> QED BY <3>2 DEF MsShown
  <2>2. CASE ~(LibraryOf[e.item] = m /\ e.version = msChanged[m])
    <3>1. MsCarried(m) => MsCarried(m)'
      BY <2>2 DEF MsCarried
    <3> QED BY <1>2, <3>1 DEF MsInv
  <2> QED BY <2>1, <2>2
<1>8. \A f \in msEvents' : MsEventCounts(f)'
  BY <1>2 DEF MsInv
<1> QED BY <1>3, <1>4, <1>7, <1>8 DEF MsInv

LEMMA MsScheduleStep ==
  ASSUME MsInv, NEW e \in msEvents, msEvents' = msEvents \ {e}, MsUnused # {},
         NEW l, NEW v, l = LibraryOf[e.item], v = e.version, MsSchedule(l, v),
         UNCHANGED <<msItems, msDeleting, msChanged, msServer, msWaived>>
  PROVE  MsInv'
<1>1. MsTypes /\ MsKnown
  BY DEF MsInv
<1>2. l \in MsLibraries /\ v \in Nat /\ v <= msChanged[l]
  BY <1>1, MsNumbers DEF MsKnown, VersionOf
<1>0. PICK new \in MsTimers, g \in Nat : MsSetsNew(l, v, new, g)
  BY <1>1, <1>2, MsScheduled
<1>3. /\ msTimer[new].pc = "none" /\ v <= g /\ g <= msChanged[l]
      /\ msPending[l] # 0 => msTimer[msPending[l]].version <= g
      /\ msTimer'[new] = [pc |-> "set", library |-> l, version |-> g, attempt |-> 0]
      /\ \A t \in MsTimers \ {new} :
           /\ msTimer'[t].library = msTimer[t].library /\ msTimer'[t].version = msTimer[t].version
           /\ \/ msTimer'[t] = msTimer[t]
              \/ t = msPending[l] /\ msTimer'[t].pc = "stopped"
      /\ msTimer' \in [MsTimers -> MsTimer]
      /\ msPending' = [msPending EXCEPT ![l] = new]
  BY <1>0 DEF MsSetsNew
<1>4. /\ msPending \in [MsLibraries -> {0} \cup MsTimers] /\ 0 \notin MsTimers
      /\ \A m \in MsLibraries : msPending[m] # 0 =>
           msTimer[msPending[m]].pc \in {"set", "fired"} /\ msTimer[msPending[m]].library = m
  BY <1>1 DEF MsTypes, MsKnown, MsTimers
<1>5. \A m \in MsLibraries \ {l} : msPending'[m] = msPending[m] /\
        (msPending[m] # 0 => msPending[m] \in MsTimers \ {new} /\ msPending[m] # msPending[l])
  BY <1>2, <1>3, <1>4
<1>6. msPending'[l] = new
  BY <1>2, <1>3, <1>4
<1>7. /\ msTimer'[new].pc = "set" /\ msTimer'[new].library = l /\ msTimer'[new].version = g
      /\ new # 0
  BY <1>3, <1>4
<1>8. MsTypes'
  <2>1. msPending' \in [MsLibraries -> {0} \cup MsTimers]
    BY <1>3, <1>4
  <2> QED BY <1>1, <1>3, <2>1 DEF MsTypes
<1>9. MsKnown'
  <2>1. \A f \in msEvents' : f.version <= VersionOf(f.item)'
    BY <1>1 DEF MsKnown, VersionOf
  <2>2. \A t \in MsTimers : msTimer'[t].pc # "none" =>
          msTimer'[t].library \in MsLibraries /\ msTimer'[t].version <= msChanged'[msTimer'[t].library]
    <3> TAKE t \in MsTimers
    <3>1. CASE t = new
      BY <1>2, <1>3, <1>7, <3>1
    <3>2. CASE t # new
      <4>1. msTimer'[t].pc # "none" => msTimer[t].pc # "none"
        BY <1>2, <1>3, <1>4, <3>2
      <4> QED BY <1>1, <1>3, <3>2, <4>1 DEF MsKnown
    <3> QED BY <3>1, <3>2
  <2>3. \A m \in MsLibraries : msPending'[m] # 0 =>
          msTimer'[msPending'[m]].pc \in {"set", "fired"} /\ msTimer'[msPending'[m]].library = m
    <3> TAKE m \in MsLibraries
    <3>1. CASE m = l
      BY <1>6, <1>7, <3>1
    <3>2. CASE m # l
      <4>1. msPending[m] # 0 => msTimer'[msPending[m]] = msTimer[msPending[m]]
        BY <1>3, <1>5, <3>2
      <4> QED BY <1>4, <1>5, <3>2, <4>1
    <3> QED BY <3>1, <3>2
  <2> QED BY <2>1, <2>2, <2>3 DEF MsKnown
<1>10. \A f \in msEvents' : MsEventCounts(f)'
  BY DEF MsInv, MsEventCounts, VersionOf
<1>11. \A m \in MsLibraries : msChanged[m] \in Nat
  BY <1>1, MsNumbers
<1>12. \A m \in MsLibraries : MsShown(m)' \/ MsCarried(m)'
  <2> TAKE m \in MsLibraries
  <2>1. CASE MsShown(m)
    BY <2>1 DEF MsShown
  <2>2. CASE \E i \in msDeleting : LibraryOf[i] = m
    BY <2>2 DEF MsCarried
  <2>3. ASSUME NEW f \in msEvents, LibraryOf[f.item] = m, f.version = msChanged[m]
        PROVE  MsCarried(m)'
    <3>1. CASE f # e
      BY <2>3, <3>1 DEF MsCarried
    <3>2. CASE f = e
      <4>1. msTimer'[new].library = m /\ msTimer'[new].version = msChanged'[m]
        BY <1>2, <1>3, <1>7, <1>11, <2>3, <3>2
      <4> QED BY <1>6, <1>7, <2>3, <3>2, <4>1 DEF MsCarried
    <3> QED BY <3>1, <3>2
  <2>4. ASSUME NEW t \in MsTimers, msTimer[t].library = m, msTimer[t].version = msChanged[m],
               \/ msTimer[t].pc \in {"set", "fired"} /\ msPending[m] = t
               \/ msTimer[t].pc \in {"refresh", "scan"}
        PROVE  MsCarried(m)'
    <3>1. t # new /\ t # 0
      BY <1>3, <1>4, <2>4
    <3>2. CASE t = msPending[l]
      <4>1. m = l
        BY <1>2, <1>4, <2>4, <3>1, <3>2
      <4>2. msTimer'[new].library = m /\ msTimer'[new].version = msChanged'[m]
        BY <1>2, <1>3, <1>7, <1>11, <2>4, <3>1, <3>2, <4>1
      <4> QED BY <1>6, <1>7, <4>1, <4>2 DEF MsCarried
    <3>3. CASE t # msPending[l]
      <4>1. msTimer'[t] = msTimer[t]
        BY <1>3, <3>1, <3>3
      <4>2. msPending[m] = t => m # l
        BY <3>3
      <4>3. msPending[m] = t => msPending'[m] = t
        BY <1>5, <4>2
      <4> QED BY <2>4, <4>1, <4>3 DEF MsCarried
    <3> QED BY <3>2, <3>3
  <2>5. MsShown(m) \/ MsCarried(m)
    BY DEF MsInv
  <2> QED BY <2>1, <2>2, <2>3, <2>4, <2>5 DEF MsCarried
<1> QED BY <1>8, <1>9, <1>10, <1>12 DEF MsInv

LEMMA MsHandleStep ==
  ASSUME MsInv, MsHandle
  PROVE  MsInv'
<1>1. PICK e \in msEvents :
        /\ msEvents' = msEvents \ {e}
        /\ IF ~msEnabled
           THEN MsWaive(LibraryOf[e.item], e.version) /\ UNCHANGED <<msTimer, msPending>>
           ELSE IF e.item \notin msItems /\ e.kind # "item_deleted"
                THEN UNCHANGED <<msTimer, msPending, msWaived>>
                ELSE MsUnused # {} /\ MsSchedule(LibraryOf[e.item], e.version) /\ UNCHANGED msWaived
        /\ UNCHANGED <<msItems, msDeleting, msChanged, msServer>>
  BY DEF MsHandle
<1>2. MsTypes /\ LibraryOf[e.item] \in MsLibraries /\ e.version \in Nat /\ MsEventCounts(e)
  BY MsNumbers DEF MsInv
<1>3. \A m \in MsLibraries : msWaived[m] \in Nat
  BY <1>2, MsNumbers
<1>4. CASE ~msEnabled
  <2>1. MsWaive(LibraryOf[e.item], e.version) /\ UNCHANGED <<msTimer, msPending>>
    BY <1>1, <1>4
  <2>2. /\ msWaived' \in [MsLibraries -> Nat] /\ e.version <= msWaived'[LibraryOf[e.item]]
        /\ \A m \in MsLibraries : msWaived[m] <= msWaived'[m]
    BY <1>2, <2>1, MsWaived
  <2> QED BY <1>1, <2>1, <2>2, MsDropStep
<1>5. CASE msEnabled /\ e.item \notin msItems /\ e.kind # "item_deleted"
  <2>1. UNCHANGED <<msTimer, msPending, msWaived>>
    BY <1>1, <1>5
  <2>2. \A m \in MsLibraries : msWaived[m] <= msWaived'[m]
    BY <1>3, <2>1
  <2>3. msWaived' \in [MsLibraries -> Nat]
    BY <1>2, <2>1 DEF MsTypes
  <2>4. e.version <= msWaived'[LibraryOf[e.item]] \/ e.version < msChanged[LibraryOf[e.item]]
    BY <1>2, <1>5, <2>1 DEF MsEventCounts, VersionOf
  <2> QED BY <1>1, <2>1, <2>2, <2>3, <2>4, MsDropStep
<1>6. CASE msEnabled /\ ~(e.item \notin msItems /\ e.kind # "item_deleted")
  <2>1. MsUnused # {} /\ MsSchedule(LibraryOf[e.item], e.version) /\ UNCHANGED msWaived
    BY <1>1, <1>6
  <2>2. \E l, v : l = LibraryOf[e.item] /\ v = e.version /\ MsSchedule(l, v)
    BY <2>1
  <2> QED BY <1>1, <2>1, <2>2, MsScheduleStep
<1> QED BY <1>4, <1>5, <1>6

\* A timer moves on: it still carries what it carried, or the server was shown it.
MsMoves(t, r, l) ==
  /\ msTimer' = [msTimer EXCEPT ![t] = r] /\ l = msTimer[t].library
  /\ msTimer[t].pc # "none" /\ r.library = msTimer[t].library /\ r.version = msTimer[t].version
  /\ UNCHANGED <<msItems, msDeleting, msEvents, msChanged>>
  /\ msPending' \in [MsLibraries -> {0} \cup MsTimers]
  /\ \A m \in MsLibraries : msPending'[m] = msPending[m] \/ (msPending[m] = t /\ msPending'[m] = 0)
  /\ \A m \in MsLibraries : msPending'[m] = t => r.pc \in {"set", "fired"}
  /\ msServer' \in [MsLibraries -> Nat] /\ msWaived' \in [MsLibraries -> Nat]
  /\ \A m \in MsLibraries : msWaived[m] <= msWaived'[m]
  /\ \A m \in MsLibraries : MsShown(m) => MsShown(m)'
  /\ /\ msTimer[t].version = msChanged[l]
     /\ \/ msTimer[t].pc \in {"set", "fired"} /\ msPending[l] = t
        \/ msTimer[t].pc \in {"refresh", "scan"}
     => \/ MsShown(l)'
        \/ r.pc \in {"set", "fired"} /\ msPending'[l] = t
        \/ r.pc \in {"refresh", "scan"}

LEMMA MsTimerStep ==
  ASSUME MsInv, NEW t \in MsTimers, NEW r \in MsTimer, NEW l, MsMoves(t, r, l)
  PROVE  MsInv'
<1> USE DEF MsMoves
<1>1. MsTypes /\ MsKnown
  BY DEF MsInv
<1>2. msTimer \in [MsTimers -> MsTimer] /\ 0 \notin MsTimers
  BY <1>1 DEF MsTypes, MsTimers
<1>3. msTimer' \in [MsTimers -> MsTimer] /\ msTimer'[t] = r
      /\ \A u \in MsTimers \ {t} : msTimer'[u] = msTimer[u]
  BY <1>2
<1>4. MsTypes'
  BY <1>1, <1>3 DEF MsTypes
<1>5. MsKnown'
  <2>1. \A e \in msEvents' : e.version <= VersionOf(e.item)'
    BY <1>1 DEF MsKnown, VersionOf
  <2>2. \A u \in MsTimers : msTimer'[u].library = msTimer[u].library /\ msTimer'[u].version = msTimer[u].version
                            /\ (msTimer'[u].pc # "none" => msTimer[u].pc # "none")
    BY <1>3
  <2>3. \A u \in MsTimers : msTimer'[u].pc # "none" =>
          msTimer'[u].library \in MsLibraries /\ msTimer'[u].version <= msChanged'[msTimer'[u].library]
    BY <1>1, <2>2 DEF MsKnown
  <2>4. \A m \in MsLibraries : msPending'[m] # 0 =>
          msTimer'[msPending'[m]].pc \in {"set", "fired"} /\ msTimer'[msPending'[m]].library = m
    <3> TAKE m \in MsLibraries
    <3> HAVE msPending'[m] # 0
    <3>1. msPending'[m] = msPending[m] /\ msPending'[m] \in MsTimers
      OBVIOUS
    <3>2. msTimer[msPending[m]].pc \in {"set", "fired"} /\ msTimer[msPending[m]].library = m
      BY <1>1, <3>1 DEF MsKnown
    <3>3. CASE msPending[m] = t
      BY <1>3, <3>1, <3>2, <3>3
    <3>4. CASE msPending[m] # t
      BY <1>3, <3>1, <3>2, <3>4
    <3> QED BY <3>3, <3>4
  <2> QED BY <2>1, <2>3, <2>4 DEF MsKnown
<1>6. \A e \in msEvents' : MsEventCounts(e)'
  <2> TAKE e \in msEvents'
  <2>1. MsEventCounts(e) /\ e.version \in Nat /\ LibraryOf[e.item] \in MsLibraries
    BY <1>1, MsNumbers DEF MsInv
  <2>2. msWaived[LibraryOf[e.item]] \in Nat /\ msWaived'[LibraryOf[e.item]] \in Nat
    BY <1>1, <2>1, MsNumbers
  <2>3. e.version <= msWaived[LibraryOf[e.item]] => e.version <= msWaived'[LibraryOf[e.item]]
    BY <2>1, <2>2
  <2> QED BY <2>1, <2>3 DEF MsEventCounts, VersionOf
<1>7. \A m \in MsLibraries : MsShown(m)' \/ MsCarried(m)'
  <2> TAKE m \in MsLibraries
  <2>1. CASE \E i \in msDeleting : LibraryOf[i] = m
    BY <2>1 DEF MsCarried
  <2>2. CASE \E e \in msEvents : LibraryOf[e.item] = m /\ e.version = msChanged[m]
    BY <2>2 DEF MsCarried
  <2>3. ASSUME NEW u \in MsTimers, msTimer[u].library = m, msTimer[u].version = msChanged[m],
               \/ msTimer[u].pc \in {"set", "fired"} /\ msPending[m] = u
               \/ msTimer[u].pc \in {"refresh", "scan"}
        PROVE  MsShown(m)' \/ MsCarried(m)'
    <3>1. CASE u = t
      <4>1. MsShown(m)' \/ (r.pc \in {"set", "fired"} /\ msPending'[m] = t) \/ r.pc \in {"refresh", "scan"}
        BY <2>3, <3>1
      <4>2. msTimer'[t].pc = r.pc /\ msTimer'[t].library = m /\ msTimer'[t].version = msChanged'[m]
        BY <1>3, <2>3, <3>1
      <4> QED BY <4>1, <4>2 DEF MsCarried
    <3>2. CASE u # t
      <4>1. msTimer'[u] = msTimer[u] /\ (msPending[m] = u => msPending'[m] = u)
        BY <1>3, <3>2
      <4> QED BY <2>3, <4>1 DEF MsCarried
    <3> QED BY <3>1, <3>2
  <2> QED BY <2>1, <2>2, <2>3 DEF MsInv, MsCarried
<1> QED BY <1>4, <1>5, <1>6, <1>7 DEF MsInv

\* The record of a timer whose state changes.
LEMMA MsMoved ==
  ASSUME MsTypes, NEW t \in MsTimers,
         NEW pc \in {"none", "set", "stopped", "fired", "refresh", "scan", "done"}, MsSetPc(t, pc)
  PROVE  \E r \in MsTimer : /\ msTimer' = [msTimer EXCEPT ![t] = r] /\ r.pc = pc
                            /\ r.library = msTimer[t].library /\ r.version = msTimer[t].version
<1>1. msTimer[t] \in MsTimer
  BY MsNumbers
<1>2. [msTimer[t] EXCEPT !.pc = pc] \in MsTimer
  BY <1>1 DEF MsTimer
<1>3. msTimer' = [msTimer EXCEPT ![t] = [msTimer[t] EXCEPT !.pc = pc]]
  BY DEF MsSetPc
<1>4. /\ [msTimer[t] EXCEPT !.pc = pc].pc = pc
      /\ [msTimer[t] EXCEPT !.pc = pc].library = msTimer[t].library
      /\ [msTimer[t] EXCEPT !.pc = pc].version = msTimer[t].version
  BY <1>1 DEF MsTimer
<1> QED BY <1>2, <1>3, <1>4

LEMMA MsFireStep ==
  ASSUME MsInv, NEW t \in MsTimers, MsFire(t)
  PROVE  MsInv'
<1>1. MsTypes /\ msTimer[t].pc = "set" /\ MsSetPc(t, "fired")
      /\ UNCHANGED <<msItems, msDeleting, msEvents, msPending, msChanged, msServer, msWaived>>
  BY DEF MsInv, MsFire
<1>2. PICK r \in MsTimer : /\ msTimer' = [msTimer EXCEPT ![t] = r] /\ r.pc = "fired"
                           /\ r.library = msTimer[t].library /\ r.version = msTimer[t].version
  BY <1>1, MsMoved
<1>3. \A m \in MsLibraries : msWaived[m] <= msWaived'[m]
  BY <1>1, MsNumbers
<1>4. \A m \in MsLibraries : MsShown(m) => MsShown(m)'
  BY <1>1 DEF MsShown
<1>5. /\ msPending' \in [MsLibraries -> {0} \cup MsTimers]
      /\ msServer' \in [MsLibraries -> Nat] /\ msWaived' \in [MsLibraries -> Nat]
  BY <1>1 DEF MsTypes
<1>6. PICK l : l = msTimer[t].library
  OBVIOUS
<1>7. \A m \in MsLibraries : msPending'[m] = t => r.pc \in {"set", "fired"}
  BY <1>2
<1>20. MsMoves(t, r, l)
  BY <1>1, <1>2, <1>3, <1>4, <1>5, <1>6, <1>7 DEF MsMoves
<1> QED BY <1>20, MsTimerStep

\* A timer that is not the pending one does nothing: it carried nothing.
LEMMA MsCallbackStep ==
  ASSUME MsInv, NEW t \in MsTimers, MsCallback(t)
  PROVE  MsInv'
<1>0. PICK l : l = msTimer[t].library
  OBVIOUS
<1>1. MsTypes /\ MsKnown /\ msTimer[t].pc = "fired"
      /\ UNCHANGED <<msItems, msDeleting, msEvents, msChanged, msServer, msWaived>>
  BY DEF MsInv, MsCallback
<1>2. l \in MsLibraries /\ msPending \in [MsLibraries -> {0} \cup MsTimers] /\ 0 \notin MsTimers
  BY <1>0, <1>1 DEF MsTypes, MsKnown, MsTimers
<1>3. \A m \in MsLibraries : msWaived[m] <= msWaived'[m]
  BY <1>1, MsNumbers
<1>4. \A m \in MsLibraries : MsShown(m) => MsShown(m)'
  BY <1>1 DEF MsShown
<1>5. msServer' \in [MsLibraries -> Nat] /\ msWaived' \in [MsLibraries -> Nat]
  BY <1>1 DEF MsTypes
<1>6. \A m \in MsLibraries : msPending[m] = t => m = l
  BY <1>0, <1>1, <1>2 DEF MsKnown
<1>7. CASE msPending[l] = t
  <2>1. MsSetPc(t, "refresh") /\ msPending' = [msPending EXCEPT ![l] = 0]
    BY <1>0, <1>7 DEF MsCallback
  <2>2. PICK r \in MsTimer : /\ msTimer' = [msTimer EXCEPT ![t] = r] /\ r.pc = "refresh"
                             /\ r.library = msTimer[t].library /\ r.version = msTimer[t].version
    BY <1>1, <2>1, MsMoved
  <2>3. \A m \in MsLibraries : msPending'[m] = msPending[m] \/ (msPending[m] = t /\ msPending'[m] = 0)
    <3>1. msPending'[l] = 0 /\ \A m \in MsLibraries \ {l} : msPending'[m] = msPending[m]
      BY <1>2, <2>1
    <3> QED BY <1>7, <3>1
  <2>4. \A m \in MsLibraries : msPending'[m] # t
    BY <1>2, <1>6, <2>1
  <2>5. msPending' \in [MsLibraries -> {0} \cup MsTimers]
    BY <1>2, <2>1
  <2>20. MsMoves(t, r, l)
    BY <1>0, <1>1, <1>3, <1>4, <1>5, <2>2, <2>3, <2>4, <2>5 DEF MsMoves
  <2> QED BY <2>20, MsTimerStep
<1>8. CASE msPending[l] # t
  <2>1. MsSetPc(t, "done") /\ UNCHANGED msPending
    BY <1>0, <1>8 DEF MsCallback
  <2>2. PICK r \in MsTimer : /\ msTimer' = [msTimer EXCEPT ![t] = r] /\ r.pc = "done"
                             /\ r.library = msTimer[t].library /\ r.version = msTimer[t].version
    BY <1>1, <2>1, MsMoved
  <2>3. \A m \in MsLibraries : msPending'[m] # t
    BY <1>6, <1>8, <2>1
  <2>4. msPending' = msPending /\ msPending' \in [MsLibraries -> {0} \cup MsTimers]
    BY <1>2, <2>1
  <2>20. MsMoves(t, r, l)
    BY <1>0, <1>1, <1>3, <1>4, <1>5, <1>8, <2>2, <2>3, <2>4 DEF MsMoves
  <2> QED BY <2>20, MsTimerStep
<1> QED BY <1>7, <1>8

\* A refresh on its way: nobody waits for its timer.
LEMMA MsNotPending ==
  ASSUME MsInv, NEW t \in MsTimers, msTimer[t].pc \in {"refresh", "scan"}, msPending' = msPending
  PROVE  \A m \in MsLibraries : msPending'[m] # t
<1>1. 0 \notin MsTimers
  BY DEF MsTimers
<1> QED BY <1>1 DEF MsInv, MsKnown

LEMMA MsGiveUpStep ==
  ASSUME MsInv, NEW t \in MsTimers, msTimer[t].pc \in {"refresh", "scan"}, MsGiveUp(t),
         UNCHANGED <<msItems, msDeleting, msEvents, msPending, msChanged>>
  PROVE  MsInv'
<1>0. PICK l : l = msTimer[t].library
  OBVIOUS
<1>1. MsTypes /\ l \in MsLibraries /\ msTimer[t].version \in Nat
  BY <1>0, MsNumbers DEF MsInv, MsKnown
<1>2. MsSetPc(t, "done") /\ MsWaive(l, msTimer[t].version) /\ msServer' = msServer
  BY <1>0 DEF MsGiveUp
<1>3. /\ msWaived' \in [MsLibraries -> Nat] /\ msTimer[t].version <= msWaived'[l]
      /\ \A m \in MsLibraries : msWaived[m] <= msWaived'[m]
  BY <1>1, <1>2, MsWaived
<1>4. PICK r \in MsTimer : /\ msTimer' = [msTimer EXCEPT ![t] = r] /\ r.pc = "done"
                           /\ r.library = msTimer[t].library /\ r.version = msTimer[t].version
  BY <1>1, <1>2, MsMoved
<1>5. \A m \in MsLibraries : MsShown(m) => MsShown(m)'
  <2>1. \A m \in MsLibraries : msChanged[m] \in Nat /\ msWaived[m] \in Nat /\ msWaived'[m] \in Nat
    BY <1>1, <1>3, MsNumbers
  <2> QED BY <1>2, <1>3, <2>1 DEF MsShown
<1>6. msTimer[t].version = msChanged[l] => MsShown(l)'
  BY <1>3 DEF MsShown
<1>7. msPending' \in [MsLibraries -> {0} \cup MsTimers] /\ msServer' \in [MsLibraries -> Nat]
  BY <1>1, <1>2 DEF MsTypes
<1>8. \A m \in MsLibraries : msPending'[m] # t
  BY MsNotPending
<1>9. \A m \in MsLibraries : msPending'[m] = msPending[m] \/ (msPending[m] = t /\ msPending'[m] = 0)
  OBVIOUS
<1>20. MsMoves(t, r, l)
  BY <1>0, <1>9, <1>3, <1>4, <1>5, <1>6, <1>7, <1>8 DEF MsMoves
<1> QED BY <1>20, MsTimerStep

\* A refresh that is still to come carries on.
LEMMA MsGoesOn ==
  ASSUME MsInv, NEW t \in MsTimers, msTimer[t].pc \in {"refresh", "scan"}, NEW r \in MsTimer,
         msTimer' = [msTimer EXCEPT ![t] = r],
         r.pc = "scan", r.library = msTimer[t].library, r.version = msTimer[t].version,
         UNCHANGED <<msItems, msDeleting, msEvents, msPending, msChanged, msServer, msWaived>>
  PROVE  MsInv'
<1>1. MsTypes
  BY DEF MsInv
<1>2. \A m \in MsLibraries : msWaived[m] <= msWaived'[m]
  BY <1>1, MsNumbers
<1>3. \A m \in MsLibraries : MsShown(m) => MsShown(m)'
  BY DEF MsShown
<1>4. /\ msPending' \in [MsLibraries -> {0} \cup MsTimers]
      /\ msServer' \in [MsLibraries -> Nat] /\ msWaived' \in [MsLibraries -> Nat]
  BY <1>1 DEF MsTypes
<1>5. \A m \in MsLibraries : msPending'[m] # t
  BY MsNotPending
<1>6. PICK l : l = msTimer[t].library
  OBVIOUS
<1>20. MsMoves(t, r, l)
  BY <1>6, <1>2, <1>3, <1>4, <1>5 DEF MsMoves
<1> QED BY <1>20, MsTimerStep

LEMMA MsRefreshStep ==
  ASSUME MsInv, NEW t \in MsTimers, MsRefresh(t)
  PROVE  MsInv'
<1>1. msTimer[t].pc = "refresh" /\ UNCHANGED <<msItems, msDeleting, msEvents, msPending, msChanged>>
  BY DEF MsRefresh
<1>2. CASE msEnabled /\ msTimer[t].library \in msMapped
  <2>1. MsSetPc(t, "scan") /\ UNCHANGED <<msServer, msWaived>>
    BY <1>2 DEF MsRefresh
  <2>2. PICK r \in MsTimer : /\ msTimer' = [msTimer EXCEPT ![t] = r] /\ r.pc = "scan"
                             /\ r.library = msTimer[t].library /\ r.version = msTimer[t].version
    BY <2>1, MsMoved DEF MsInv
  <2> QED BY <1>1, <2>1, <2>2, MsGoesOn
<1>3. CASE ~(msEnabled /\ msTimer[t].library \in msMapped)
  <2>1. MsGiveUp(t)
    BY <1>3 DEF MsRefresh
  <2> QED BY <1>1, <2>1, MsGiveUpStep
<1> QED BY <1>2, <1>3

LEMMA MsScanStep ==
  ASSUME MsInv, NEW t \in MsTimers, MsScan(t)
  PROVE  MsInv'
<1>0. PICK l : l = msTimer[t].library
  OBVIOUS
<1>1. msTimer[t].pc = "scan" /\ UNCHANGED <<msItems, msDeleting, msEvents, msPending, msChanged>>
  BY DEF MsScan
<1>2. CASE MsGiveUp(t)
  BY <1>1, <1>2, MsGiveUpStep
<1>3. CASE /\ MsSetPc(t, "done") /\ UNCHANGED msWaived
           /\ msServer' = [msServer EXCEPT ![l] = msChanged[l]]
  <2>1. MsTypes /\ l \in MsLibraries
    BY <1>0, <1>1 DEF MsInv, MsKnown
  <2>2. PICK r \in MsTimer : /\ msTimer' = [msTimer EXCEPT ![t] = r] /\ r.pc = "done"
                             /\ r.library = msTimer[t].library /\ r.version = msTimer[t].version
    BY <1>3, <2>1, MsMoved
  <2>3. \A m \in MsLibraries : msChanged[m] \in Nat /\ msWaived[m] \in Nat /\ msServer[m] \in Nat
    BY <2>1, MsNumbers
  <2>4. /\ msServer' \in [MsLibraries -> Nat] /\ msServer'[l] = msChanged[l]
        /\ \A m \in MsLibraries \ {l} : msServer'[m] = msServer[m]
    BY <1>3, <2>1, <2>3 DEF MsTypes
  <2>5. MsShown(l)'
    BY <1>1, <2>1, <2>3, <2>4 DEF MsShown
  <2>6. \A m \in MsLibraries : MsShown(m) => MsShown(m)'
    BY <1>1, <1>3, <2>4, <2>5 DEF MsShown
  <2>7. \A m \in MsLibraries : msWaived[m] <= msWaived'[m]
    BY <1>3, <2>3
  <2>8. msPending' \in [MsLibraries -> {0} \cup MsTimers] /\ msWaived' \in [MsLibraries -> Nat]
    BY <1>1, <1>3, <2>1 DEF MsTypes
  <2>9. \A m \in MsLibraries : msPending'[m] # t
    BY <1>1, MsNotPending
  <2>20. MsMoves(t, r, l)
    BY <1>0, <1>1, <2>2, <2>4, <2>5, <2>6, <2>7, <2>8, <2>9 DEF MsMoves
  <2> QED BY <2>20, MsTimerStep
<1>4. CASE /\ msTimer[t].attempt < MsMaxRetries /\ UNCHANGED <<msServer, msWaived>>
           /\ msTimer' = [msTimer EXCEPT ![t].attempt = @ + 1]
  <2>1. msTimer[t] \in MsTimer /\ msTimer[t].attempt \in Nat
    BY MsNumbers DEF MsInv, MsTimer
  <2>5. msTimer[t].attempt + 1 \in Nat
    BY <2>1
  <2>2. PICK r \in MsTimer : r = [msTimer[t] EXCEPT !.attempt = msTimer[t].attempt + 1]
    BY <2>1, <2>5 DEF MsTimer
  <2>3. r.pc = "scan" /\ r.library = msTimer[t].library /\ r.version = msTimer[t].version
    BY <1>1, <2>1, <2>2 DEF MsTimer
  <2>4. msTimer' = [msTimer EXCEPT ![t] = r]
    BY <1>4, <2>2
  <2> QED BY <1>1, <1>4, <2>3, <2>4, MsGoesOn
<1> QED BY <1>0, <1>2, <1>3, <1>4 DEF MsScan

LEMMA MsStep == MsInv /\ [MsNext]_msVars => MsInv'
<1> SUFFICES ASSUME MsInv, [MsNext]_msVars PROVE MsInv'
  OBVIOUS
<1>1. ASSUME NEW i \in MsItems, NEW kind \in {"import_completed", "subtitle_deleted", "download_deleted"},
             MsChange(i, kind)
      PROVE  MsInv'
  <2>1. kind \in MsKinds
    BY DEF MsKinds
  <2> QED BY <1>1, <2>1, MsChangeStep
<1>2. ASSUME NEW i \in MsItems, MsDeleteItem(i) \/ MsPublishDeleted(i) \/ MsForget(i)
      PROVE  MsInv'
  BY <1>2, MsDeleteStep, MsPublishStep, MsForgetStep
<1>3. CASE MsSwitch \/ UNCHANGED msVars
  <2>1. UNCHANGED <<msItems, msDeleting, msEvents, msTimer, msPending, msChanged, msServer, msWaived>>
    BY <1>3 DEF MsSwitch, msVars
  <2>2. MsTypes'
    BY <2>1 DEF MsInv, MsTypes
  <2>3. MsKnown'
    BY <2>1 DEF MsInv, MsKnown, VersionOf
  <2>4. \A e \in msEvents' : MsEventCounts(e)'
    BY <2>1 DEF MsInv, MsEventCounts, VersionOf
  <2>5. \A l \in MsLibraries : MsShown(l)' \/ MsCarried(l)'
    BY <2>1 DEF MsInv, MsShown, MsCarried
  <2> QED BY <2>2, <2>3, <2>4, <2>5 DEF MsInv
<1>4. CASE MsHandle
  BY <1>4, MsHandleStep
<1>5. ASSUME NEW t \in MsTimers, MsFire(t) \/ MsCallback(t) \/ MsRefresh(t) \/ MsScan(t)
      PROVE  MsInv'
  BY <1>5, MsFireStep, MsCallbackStep, MsRefreshStep, MsScanStep
<1> QED BY <1>1, <1>2, <1>3, <1>4, <1>5 DEF MsNext

\* What a media server shows of a library is the library as it was at the last change, or a scan
\* is still to come, or that change was given up: an event or a firing timer never gets lost
\* between the mutex, the timer and the scan.  (mediarefresh.Service)
THEOREM ChangesAlwaysReach == MsSpec => []ChangesReachServer
<1>1. MsInv => ChangesReachServer
  <2> SUFFICES ASSUME MsInv, NEW l \in MsLibraries, MsMax(msServer[l], msWaived[l]) < msChanged[l]
               PROVE  MsScanComing(l)
    BY DEF ChangesReachServer
  <2>1. msChanged[l] \in Nat /\ msServer[l] \in Nat /\ msWaived[l] \in Nat
    BY MsNumbers DEF MsInv
  <2>2. msServer[l] < msChanged[l] /\ msWaived[l] < msChanged[l]
    BY <2>1 DEF MsMax
  <2>3. ~MsShown(l)
    BY <2>1, <2>2 DEF MsShown
  <2>4. MsCarried(l)
    BY <2>3 DEF MsInv
  <2> QED BY <2>4 DEF MsCarried, MsScanComing
<1> QED BY <1>1, MsInitially, MsStep, PTL DEF MsSpec

-----------------------------------------------------------------------------
(* The monitor of a series                                                 *)

SmSpec == SmInit /\ [][SmNext]_smVars

SmPassRecord ==
  [pc : {"idle", "downloads", "plan", "search", "pick", "recheck", "grab", "done"},
   current : BOOLEAN, quiet : BOOLEAN, downloads : SUBSET SmEpisodes,
   used : SUBSET SmReleases, wanted : SUBSET SmEpisodes, ratio : BOOLEAN, pref : SmPreferences,
   offered : SUBSET SmReleases, episode : SmEpisodes \cup {0}, pick : SUBSET SmReleases,
   queued : BOOLEAN, refused : BOOLEAN]

SmTypes ==
  /\ smRows \in [SmRowIds -> [url : SmReleases \cup {CHOOSE r \in SmReleases : TRUE},
                              id : SmEpisodes \cup {0}, auto : BOOLEAN,
                              state : {"none", "active", "imported", "failed", "gone"}]]
  /\ smWant \subseteq SmEpisodes /\ smAired \subseteq SmEpisodes
  /\ smPass \in SmPassRecord

\* A row refers to an episode that its title names; the monitor queues packs for no episode.
RowSound(d) ==
  smRows[d].state # "none" =>
    /\ smRows[d].url \in SmReleases
    /\ smRows[d].id # 0 => smRows[d].id \in Title[smRows[d].url].names
    /\ smRows[d].auto /\ smRows[d].id # 0 => ~Title[smRows[d].url].pack

\* What a pass will queue: an episode that was missing when it was planned, a release that
\* names it, and no download of the monitor's that names it since the last look.
SmAiming ==
  /\ smPass.pc \in {"search", "pick", "recheck", "grab"} /\ smPass.current =>
       smPass.wanted \subseteq smWant \cap smAired
  /\ smPass.pc \in {"recheck", "grab"} =>
       /\ smPass.episode \in smPass.wanted
       /\ \E r \in smPass.offered :
            smPass.pick = {r} /\ (Title[r].pack \/ smPass.episode \in Title[r].names)
  /\ smPass.pc = "grab" /\ smPass.current =>
       \A o \in RowsIn({"active"}) : smRows[o].auto => smPass.episode \notin Title[smRows[o].url].names

SmGuarded == {e \in SmEpisodes : HasActiveDownloadForEpisode(RowsIn({"active"}), e)}
SmImported == {smRows[d].url : d \in RowsIn({"imported"})}
SmMissing == ((smWant \cap smAired) \ BuildFileMap) \ SmGuarded

\* No release that is offered would have filled the gap.
SmTried(e) ==
  \A r \in smPass.offered :
    \/ e \notin Title[r].names
    \/ SmHasActiveDownloadByURL(r)
    \/ smPass.pref = "packs_only" /\ ~Title[r].pack
    \/ \E d \in RowsIn({"active"}) : e \in Title[smRows[d].url].names

\* The episodes that the pass is done with.
SmBehind ==
  CASE smPass.pc = "pick" -> {e \in smPass.wanted : e <= smPass.episode}
    [] smPass.pc \in {"recheck", "grab"} -> {e \in smPass.wanted : e < smPass.episode}
    [] smPass.pc = "done" -> smPass.wanted
    [] OTHER -> {}

\* While nothing else has changed, what the pass remembers is what the tables say.
SmQuiet ==
  /\ smPass.quiet => smPass.current
  /\ smPass.pc \in {"downloads", "plan", "search"} => smPass.offered = {} /\ smPass.episode = 0
  /\ smPass.pc = "plan" /\ smPass.quiet => smPass.downloads = SmGuarded
  /\ smPass.pc \in {"plan", "search"} /\ smPass.quiet => smPass.used = SmImported
  /\ smPass.pc = "search" /\ smPass.quiet => smPass.wanted = SmMissing
  /\ smPass.pc \in {"pick", "recheck", "grab", "done"} /\ smPass.quiet /\ ~smPass.queued =>
       /\ smPass.wanted = SmMissing /\ smPass.offered \cap SmImported = {}
       /\ ~smPass.refused => \A e \in SmBehind : SmTried(e)

SmInv == SmTypes /\ (\A d \in SmRowIds : RowSound(d)) /\ SmAiming /\ SmQuiet

SmRowRecord == [url : SmReleases \cup {CHOOSE r \in SmReleases : TRUE}, id : SmEpisodes \cup {0},
                auto : BOOLEAN, state : {"none", "active", "imported", "failed", "gone"}]

LEMMA SmStateWritten ==
  ASSUME NEW x \in SmRowRecord, NEW s
  PROVE  [x EXCEPT !.state = s] = [url |-> x.url, id |-> x.id, auto |-> x.auto, state |-> s]
BY DEF SmRowRecord

LEMMA SmAutoWritten ==
  ASSUME NEW x \in SmRowRecord, NEW a
  PROVE  [x EXCEPT !.auto = a] = [url |-> x.url, id |-> x.id, auto |-> a, state |-> x.state]
BY DEF SmRowRecord

LEMMA SmRowsTyped ==
  ASSUME SmTypes
  PROVE  \A d \in SmRowIds :
           /\ smRows[d].id \in SmEpisodes \cup {0} /\ smRows[d].auto \in BOOLEAN
           /\ smRows[d].state \in {"none", "active", "imported", "failed", "gone"}
           /\ smRows[d] = [url |-> smRows[d].url, id |-> smRows[d].id, auto |-> smRows[d].auto,
                           state |-> smRows[d].state]
BY DEF SmTypes

LEMMA SmPassTyped ==
  ASSUME SmTypes
  PROVE  /\ smPass.pc \in {"idle", "downloads", "plan", "search", "pick", "recheck", "grab", "done"}
         /\ smPass.current \in BOOLEAN /\ smPass.quiet \in BOOLEAN /\ smPass.queued \in BOOLEAN
         /\ smPass.refused \in BOOLEAN /\ smPass.wanted \subseteq SmEpisodes
         /\ smPass.offered \subseteq SmReleases /\ smPass.pick \subseteq SmReleases
         /\ smPass.episode \in SmEpisodes \cup {0}
BY DEF SmTypes, SmPassRecord

LEMMA SmInitially == SmInit => SmInv
<1> SUFFICES ASSUME SmInit PROVE SmInv
  OBVIOUS
<1>1. SmTypes
  <2>1. SmIdle \in SmPassRecord
    BY DEF SmIdle, SmPassRecord, SmPreferences
  <2> QED BY <2>1 DEF SmInit, SmTypes
<1>2. \A d \in SmRowIds : RowSound(d)
  BY DEF SmInit, RowSound
<1>3. smPass.pc = "idle" /\ smPass.current /\ smPass = SmIdle
  BY DEF SmInit, SmIdle
<1>4. SmAiming /\ SmQuiet
  BY <1>3 DEF SmAiming, SmQuiet
<1> QED BY <1>1, <1>2, <1>4 DEF SmInv

\* What no event does to the rows: the monitor's downloads under way are not made by others.
SmRowsKept ==
  /\ smRows' \in [SmRowIds -> [url : SmReleases \cup {CHOOSE r \in SmReleases : TRUE},
                               id : SmEpisodes \cup {0}, auto : BOOLEAN,
                               state : {"none", "active", "imported", "failed", "gone"}]]
  /\ \A o \in SmRowIds :
       /\ RowSound(o)'
       /\ smRows'[o].state = "active" /\ smRows'[o].auto =>
            smRows[o].state = "active" /\ smRows[o].auto /\ smRows'[o].url = smRows[o].url

\* Whatever happens outside, the pass remembers that it did.
LEMMA SmEventStep ==
  ASSUME SmInv, NEW current \in BOOLEAN, SmEvent(current), SmRowsKept,
         smWant' \subseteq SmEpisodes, smAired' \subseteq SmEpisodes,
         smAired \subseteq smAired', current => smWant' = smWant
  PROVE  SmInv'
<1>1. SmTypes /\ SmAiming /\ SmQuiet
  BY DEF SmInv
<1>2. CASE smPass.pc = "idle"
  <2>1. smPass' = smPass
    BY <1>2 DEF SmEvent
  <2>2. SmTypes'
    BY <1>1, <2>1 DEF SmTypes, SmRowsKept
  <2>3. SmAiming'
    BY <1>2, <2>1 DEF SmAiming
  <2>4. SmQuiet'
    BY <1>1, <1>2, <2>1 DEF SmQuiet
  <2> QED BY <2>2, <2>3, <2>4 DEF SmInv, SmRowsKept
<1>3. CASE smPass.pc # "idle"
  <2>1. smPass' = [smPass EXCEPT !.quiet = FALSE, !.current = smPass.current /\ current]
    BY <1>3 DEF SmEvent
  <2>2. (smPass.current /\ current) \in BOOLEAN
    BY <1>1, SmPassTyped
  <2>3. smPass' \in SmPassRecord
    BY <1>1, <2>1, <2>2 DEF SmTypes, SmPassRecord
  <2>4. /\ smPass'.quiet = FALSE /\ smPass'.current = (smPass.current /\ current)
        /\ smPass'.pc = smPass.pc /\ smPass'.wanted = smPass.wanted /\ smPass'.offered = smPass.offered
        /\ smPass'.episode = smPass.episode /\ smPass'.pick = smPass.pick
    BY <1>1, <2>1 DEF SmTypes, SmPassRecord
  <2>5. SmTypes'
    BY <1>1, <2>3 DEF SmTypes, SmRowsKept
  <2>6. SmAiming'
    <3>1. smPass'.pc \in {"search", "pick", "recheck", "grab"} /\ smPass'.current =>
            smPass'.wanted \subseteq smWant' \cap smAired'
      BY <1>1, <2>4 DEF SmAiming
    <3>2. smPass'.pc \in {"recheck", "grab"} =>
            /\ smPass'.episode \in smPass'.wanted
            /\ \E r \in smPass'.offered :
                 smPass'.pick = {r} /\ (Title[r].pack \/ smPass'.episode \in Title[r].names)
      BY <1>1, <2>4 DEF SmAiming
    <3>3. ASSUME smPass'.pc = "grab", smPass'.current, NEW o \in RowsIn({"active"})', smRows'[o].auto
          PROVE  smPass'.episode \notin Title[smRows'[o].url].names
      <4>1. o \in SmRowIds /\ smRows'[o].state = "active"
        BY DEF RowsIn
      <4>2. o \in RowsIn({"active"}) /\ smRows[o].auto /\ smRows'[o].url = smRows[o].url
        BY <3>3, <4>1 DEF SmRowsKept, RowsIn
      <4>3. smPass.pc = "grab" /\ smPass.current
        BY <2>4, <3>3
      <4> QED BY <1>1, <2>4, <4>2, <4>3 DEF SmAiming
    <3> QED BY <3>1, <3>2, <3>3 DEF SmAiming
  <2>7. SmQuiet'
    BY <1>1, <2>4 DEF SmQuiet
  <2> QED BY <2>5, <2>6, <2>7 DEF SmInv, SmRowsKept
<1> QED BY <1>2, <1>3

LEMMA SmFree ==
  ASSUME RowsIn({"none"}) # {}
  PROVE  FreeRow \in SmRowIds /\ smRows[FreeRow].state = "none"
<1>1. RowsIn({"none"}) \subseteq Nat
  BY SeriesMonitorAssumption DEF RowsIn, SmRowIds
<1>2. FreeRow \in RowsIn({"none"})
  BY <1>1, LeastVersion DEF FreeRow
<1> QED BY <1>2 DEF RowsIn

\* A row that is written as the guards of the writers demand.
LEMMA SmRowWritten ==
  ASSUME SmInv, NEW d \in SmRowIds, NEW url \in SmReleases, NEW id \in SmEpisodes \cup {0},
         NEW auto \in BOOLEAN, NEW state \in {"active", "imported", "failed", "gone"},
         id # 0 => id \in Title[url].names, auto /\ id # 0 => ~Title[url].pack,
         smRows' = [smRows EXCEPT ![d] = [url |-> url, id |-> id, auto |-> auto, state |-> state]],
         state = "active" /\ auto => FALSE
  PROVE  SmRowsKept
<1> DEFINE new == [url |-> url, id |-> id, auto |-> auto, state |-> state]
<1>1. /\ smRows'[d] = new /\ \A o \in SmRowIds \ {d} : smRows'[o] = smRows[o]
      /\ smRows' \in [SmRowIds -> [url : SmReleases \cup {CHOOSE r \in SmReleases : TRUE},
                                   id : SmEpisodes \cup {0}, auto : BOOLEAN,
                                   state : {"none", "active", "imported", "failed", "gone"}]]
  BY DEF SmInv, SmTypes
<1>2. ASSUME NEW o \in SmRowIds
      PROVE  /\ RowSound(o)'
             /\ smRows'[o].state = "active" /\ smRows'[o].auto =>
                  smRows[o].state = "active" /\ smRows[o].auto /\ smRows'[o].url = smRows[o].url
  <2>1. CASE o = d
    BY <1>1, <2>1 DEF RowSound
  <2>2. CASE o # d
    BY <1>1, <2>2 DEF RowSound, SmInv
  <2> QED BY <2>1, <2>2
<1> QED BY <1>1, <1>2 DEF SmRowsKept

LEMMA SmSameRows ==
  ASSUME SmInv, smRows' = smRows
  PROVE  SmRowsKept
BY DEF SmRowsKept, SmInv, SmTypes, RowSound

LEMMA SmUserGrabStep ==
  ASSUME SmInv, NEW r \in SmReleases, NEW e \in SmEpisodes \cup {0}, SmUserGrab(r, e)
  PROVE  SmInv'
<1>1. /\ SmEvent(TRUE) /\ RowsIn({"none"}) # {} /\ (e = 0 \/ e \in Title[r].names)
      /\ smRows' = [smRows EXCEPT ![FreeRow] = [url |-> r, id |-> e, auto |-> FALSE, state |-> "active"]]
      /\ UNCHANGED <<smWant, smAired>>
  BY DEF SmUserGrab
<1>2. PICK d \in SmRowIds : d = FreeRow
  BY <1>1, SmFree
<1>3. SmRowsKept
  BY <1>1, <1>2, SmRowWritten
<1> QED BY <1>1, <1>3, SmEventStep DEF SmInv, SmTypes

\* The state of a row changes, and a row that becomes active is the user's.
LEMMA SmStateStep ==
  ASSUME SmInv, NEW d \in SmRowIds, smRows[d].state # "none",
         \/ /\ SmFail(d)
         \/ /\ SmRetry(d)
         \/ /\ SmImport(d)
         \/ /\ SmRemove(d)
  PROVE  SmInv'
<1>1. /\ smRows[d].url \in SmReleases /\ smRows[d].id \in SmEpisodes \cup {0}
      /\ smRows[d].auto \in BOOLEAN
      /\ smRows[d].id # 0 => smRows[d].id \in Title[smRows[d].url].names
      /\ smRows[d].auto /\ smRows[d].id # 0 => ~Title[smRows[d].url].pack
      /\ smRows[d] = [url |-> smRows[d].url, id |-> smRows[d].id, auto |-> smRows[d].auto,
                      state |-> smRows[d].state]
  BY SmRowsTyped DEF SmInv, RowSound
<1>2. PICK url, id, auto : url = smRows[d].url /\ id = smRows[d].id /\ auto = smRows[d].auto
  OBVIOUS
<1>6. smRows[d] \in SmRowRecord
  BY DEF SmInv, SmTypes, SmRowRecord
<1>3. PICK auto2 \in BOOLEAN, state \in {"active", "imported", "failed", "gone"} :
        /\ smRows' = [smRows EXCEPT ![d] = [url |-> url, id |-> id, auto |-> auto2, state |-> state]]
        /\ auto2 => auto
        /\ ~(state = "active" /\ auto2)
  <2>1. CASE SmFail(d)
    <3>1. smRows' = [smRows EXCEPT ![d] = [smRows[d] EXCEPT !.state = "failed"]]
      BY <2>1 DEF SmFail
    <3>2. smRows' = [smRows EXCEPT ![d] = [url |-> url, id |-> id, auto |-> auto, state |-> "failed"]]
      BY <1>2, <1>6, <3>1, SmStateWritten
    <3> QED BY <1>1, <1>2, <3>2
  <2>2. CASE SmRetry(d)
    <3>1. PICK a : a = FALSE
      OBVIOUS
    <3>2. PICK y : y = [smRows[d] EXCEPT !.state = "active"]
      OBVIOUS
    <3>3. y \in SmRowRecord /\ y.url = url /\ y.id = id /\ y.state = "active"
      BY <1>2, <1>6, <3>2 DEF SmRowRecord
    <3>4. [smRows[d] EXCEPT !.state = "active", !.auto = FALSE] = [y EXCEPT !.auto = a]
      BY <3>1, <3>2
    <3>5. [y EXCEPT !.auto = a] = [url |-> url, id |-> id, auto |-> a, state |-> "active"]
      BY <3>3, SmAutoWritten
    <3>6. smRows' = [smRows EXCEPT ![d] = [smRows[d] EXCEPT !.state = "active", !.auto = FALSE]]
      BY <2>2 DEF SmRetry
    <3>7. smRows' = [smRows EXCEPT ![d] = [url |-> url, id |-> id, auto |-> a, state |-> "active"]]
      BY <3>4, <3>5, <3>6
    <3> QED BY <3>1, <3>7
  <2>3. CASE SmImport(d)
    <3>1. smRows' = [smRows EXCEPT ![d] = [smRows[d] EXCEPT !.state = "imported"]]
      BY <2>3 DEF SmImport
    <3>2. smRows' = [smRows EXCEPT ![d] = [url |-> url, id |-> id, auto |-> auto, state |-> "imported"]]
      BY <1>2, <1>6, <3>1, SmStateWritten
    <3> QED BY <1>1, <1>2, <3>2
  <2>4. CASE SmRemove(d)
    <3>1. smRows' = [smRows EXCEPT ![d] = [smRows[d] EXCEPT !.state = "gone"]]
      BY <2>4 DEF SmRemove
    <3>2. smRows' = [smRows EXCEPT ![d] = [url |-> url, id |-> id, auto |-> auto, state |-> "gone"]]
      BY <1>2, <1>6, <3>1, SmStateWritten
    <3> QED BY <1>1, <1>2, <3>2
  <2> QED BY <2>1, <2>2, <2>3, <2>4
<1>4. SmRowsKept
  <2>1. /\ url \in SmReleases /\ id \in SmEpisodes \cup {0} /\ (id # 0 => id \in Title[url].names)
        /\ (auto2 /\ id # 0 => ~Title[url].pack) /\ (state = "active" /\ auto2 => FALSE)
    BY <1>1, <1>2, <1>3
  <2> QED BY <1>3, <2>1, SmRowWritten
<1>5. /\ \E current \in BOOLEAN : SmEvent(current)
      /\ UNCHANGED <<smWant, smAired>>
  BY DEF SmFail, SmRetry, SmImport, SmRemove
<1> QED BY <1>4, <1>5, SmEventStep DEF SmInv, SmTypes

LEMMA SmOtherEvents ==
  ASSUME SmInv,
         \/ \E e \in SmEpisodes : SmResync(e) \/ SmAir(e)
         \/ \E want \in SUBSET SmEpisodes : SmSettings(want)
  PROVE  SmInv'
<1>1. smWant \subseteq SmEpisodes /\ smAired \subseteq SmEpisodes
  BY DEF SmInv, SmTypes
<1>2. smRows' = smRows
  BY DEF SmResync, SmAir, SmSettings
<1>3. SmRowsKept
  BY <1>2, SmSameRows
<1>4. \E current \in BOOLEAN :
        /\ SmEvent(current) /\ smWant' \subseteq SmEpisodes /\ smAired' \subseteq SmEpisodes
        /\ smAired \subseteq smAired' /\ (current => smWant' = smWant)
  BY <1>1 DEF SmResync, SmAir, SmSettings
<1> QED BY <1>3, <1>4, SmEventStep

LEMMA SmRematchStep ==
  ASSUME SmInv, SmRematch
  PROVE  SmInv'
<1>1. /\ SmEvent(FALSE) /\ UNCHANGED <<smWant, smAired>>
      /\ smRows' = [d \in SmRowIds |-> [smRows[d] EXCEPT !.id = 0]]
  BY DEF SmRematch
<1>2. \A d \in SmRowIds :
        /\ smRows'[d].id = 0 /\ smRows'[d].url = smRows[d].url
        /\ smRows'[d].auto = smRows[d].auto /\ smRows'[d].state = smRows[d].state
        /\ smRows'[d] \in [url : SmReleases \cup {CHOOSE r \in SmReleases : TRUE},
                           id : SmEpisodes \cup {0}, auto : BOOLEAN,
                           state : {"none", "active", "imported", "failed", "gone"}]
  BY <1>1 DEF SmInv, SmTypes
<1>3. SmRowsKept
  BY <1>1, <1>2 DEF SmRowsKept, SmInv, RowSound
<1> QED BY <1>1, <1>3, SmEventStep DEF SmInv, SmTypes

-----------------------------------------------------------------------------

\* A step of the pass that writes nothing finds the tables as they were.
LEMMA SmSameTables ==
  ASSUME SmInv, UNCHANGED <<smRows, smFiles, smWant, smAired>>, smPass' \in SmPassRecord
  PROVE  /\ SmTypes' /\ \A d \in SmRowIds : RowSound(d)'
         /\ SmGuarded' = SmGuarded /\ SmImported' = SmImported /\ SmMissing' = SmMissing
         /\ RowsIn({"active"})' = RowsIn({"active"})
<1>1. RowsIn({"active"})' = RowsIn({"active"}) /\ RowsIn({"imported"})' = RowsIn({"imported"})
  BY DEF RowsIn
<1>2. SmTypes' /\ \A d \in SmRowIds : RowSound(d)'
  BY DEF SmInv, SmTypes, RowSound
<1>3. SmGuarded' = SmGuarded
  BY <1>1 DEF SmGuarded, HasActiveDownloadForEpisode, Guards
<1>4. SmImported' = SmImported
  BY <1>1 DEF SmImported
<1>5. SmMissing' = SmMissing
  BY <1>3 DEF SmMissing, BuildFileMap
<1> QED BY <1>1, <1>2, <1>3, <1>4, <1>5

\* An episode with nothing to try stays so while offers and rows stay.
LEMMA SmTriedStays ==
  ASSUME NEW e, SmTried(e), smRows' = smRows, smPass'.offered = smPass.offered, smPass'.pref = smPass.pref
  PROVE  SmTried(e)'
BY DEF SmTried, SmHasActiveDownloadByURL, RowsIn

\* A guard names the episode; the monitor's own downloads guard all that they name.
LEMMA SmGuardNames ==
  ASSUME SmInv, NEW d \in RowsIn({"active"}), NEW e \in SmEpisodes
  PROVE  /\ Guards(d, e) => e \in Title[smRows[d].url].names
         /\ smRows[d].auto /\ e \in Title[smRows[d].url].names => Guards(d, e)
<1> DEFINE names == Title[smRows[d].url].names
<1>1. /\ RowSound(d) /\ smRows[d].state # "none" /\ smRows[d].url \in SmReleases
      /\ smRows[d].id \in SmEpisodes \cup {0}
  BY SmRowsTyped DEF SmInv, RowsIn, RowSound
<1>2. e # 0 /\ names \subseteq SmEpisodes /\ IsFiniteSet(SmEpisodes)
  BY <1>1, SeriesMonitorAssumption
<1>3. Guards(d, e) => e \in names
  BY <1>1, <1>2 DEF Guards, RowSound
<1>4. ASSUME smRows[d].auto, e \in names PROVE Guards(d, e)
  <2>1. CASE smRows[d].id = 0
    BY <1>4, <2>1 DEF Guards
  <2>2. CASE smRows[d].id # 0 /\ Cardinality(names) > 1
    <3>1. ~Title[smRows[d].url].pack
      BY <1>1, <1>4, <2>2 DEF RowSound
    <3> QED BY <1>4, <2>2, <3>1 DEF Guards
  <2>3. CASE smRows[d].id # 0 /\ ~(Cardinality(names) > 1)
    <3>1. IsFiniteSet(names)
      BY <1>2, FS_Subset
    <3>2. smRows[d].id \in names
      BY <1>1, <2>3 DEF RowSound
    <3>3. Cardinality(names) \in Nat /\ names # {}
      BY <1>4, <3>1, FS_CardinalityType
    <3>4. Cardinality(names) # 0
      BY <3>1, <3>3, FS_EmptySet
    <3>5. Cardinality(names) = 1
      BY <2>3, <3>3, <3>4
    <3>6. \E x : names = {x}
      BY <3>1, <3>5, FS_Singleton
    <3>7. smRows[d].id = e
      BY <1>4, <3>2, <3>6
    <3> QED BY <3>7 DEF Guards
  <2> QED BY <2>1, <2>2, <2>3
<1> QED BY <1>3, <1>4

LEMMA SmLoadStep ==
  ASSUME SmInv, SmLoad
  PROVE  SmInv'
<1>1. PICK pref \in SmPreferences : smPass' = [SmIdle EXCEPT !.pc = "downloads", !.pref = pref]
  BY DEF SmLoad
<1>2. /\ smPass' \in SmPassRecord /\ smPass'.pc = "downloads" /\ smPass'.offered = {}
      /\ smPass'.episode = 0 /\ smPass'.current
  BY <1>1 DEF SmIdle, SmPassRecord
<1>3. UNCHANGED <<smRows, smFiles, smWant, smAired>>
  BY DEF SmLoad, SmOutside
<1>4. SmTypes' /\ \A d \in SmRowIds : RowSound(d)'
  BY <1>2, <1>3, SmSameTables
<1>5. SmAiming' /\ SmQuiet'
  BY <1>2 DEF SmAiming, SmQuiet
<1> QED BY <1>4, <1>5 DEF SmInv

LEMMA SmReadStep ==
  ASSUME SmInv, SmReadDownloads
  PROVE  SmInv'
<1>1. /\ smPass.pc = "downloads" /\ UNCHANGED <<smRows, smFiles, smWant, smAired>>
      /\ smPass' = [smPass EXCEPT !.pc = "plan", !.downloads = SmGuarded, !.used = SmImported]
  BY DEF SmReadDownloads, SmOutside, SmGuarded, SmImported
<1>2. SmGuarded \subseteq SmEpisodes /\ SmImported \subseteq SmReleases
  BY DEF SmGuarded, SmImported, RowsIn, SmInv, RowSound
<1>3. /\ smPass' \in SmPassRecord /\ smPass'.pc = "plan" /\ smPass'.offered = smPass.offered
      /\ smPass'.episode = smPass.episode /\ smPass'.quiet = smPass.quiet
      /\ smPass'.current = smPass.current
      /\ smPass'.downloads = SmGuarded /\ smPass'.used = SmImported
  BY <1>1, <1>2 DEF SmInv, SmTypes, SmPassRecord
<1>4. /\ SmTypes' /\ \A d \in SmRowIds : RowSound(d)'
      /\ SmGuarded' = SmGuarded /\ SmImported' = SmImported
  BY <1>1, <1>3, SmSameTables
<1>5. SmAiming'
  BY <1>3 DEF SmAiming
<1>6. SmQuiet'
  BY <1>1, <1>3, <1>4 DEF SmQuiet, SmInv
<1> QED BY <1>4, <1>5, <1>6 DEF SmInv

LEMMA SmPlanStep ==
  ASSUME SmInv, SmPlan
  PROVE  SmInv'
<1> DEFINE due == smWant \cap smAired
           wanted == (due \ BuildFileMap) \ smPass.downloads
           ratio == 10 * Cardinality(wanted) >= 7 * Cardinality(due)
<1>1. PICK w, pc, b : /\ w = wanted /\ pc = (IF w = {} THEN "done" ELSE "search") /\ b = ratio
  OBVIOUS
<1>2. /\ smPass.pc = "plan" /\ UNCHANGED <<smRows, smFiles, smWant, smAired>>
      /\ smPass' = [smPass EXCEPT !.pc = pc, !.wanted = w, !.downloads = {}, !.ratio = b]
  BY <1>1 DEF SmPlan, SmOutside
<1>3. pc \in {"done", "search"} /\ w \subseteq SmEpisodes /\ w \subseteq smWant \cap smAired /\ b \in BOOLEAN
  BY <1>1 DEF SmInv, SmTypes
<1>4. /\ smPass' \in SmPassRecord /\ smPass'.pc = pc /\ smPass'.offered = smPass.offered
      /\ smPass'.episode = smPass.episode /\ smPass'.quiet = smPass.quiet
      /\ smPass'.current = smPass.current /\ smPass'.wanted = w
      /\ smPass'.used = smPass.used
  BY <1>2, <1>3 DEF SmInv, SmTypes, SmPassRecord
<1>5. /\ SmTypes' /\ \A d \in SmRowIds : RowSound(d)'
      /\ SmGuarded' = SmGuarded /\ SmImported' = SmImported /\ SmMissing' = SmMissing
  BY <1>2, <1>4, SmSameTables
<1>6. SmAiming'
  BY <1>2, <1>3, <1>4 DEF SmAiming
<1>7. SmQuiet'
  <2>1. smPass.offered = {} /\ smPass.episode = 0 /\ (smPass.quiet => smPass.current)
        /\ (smPass.quiet => smPass.used = SmImported)
    BY <1>2 DEF SmInv, SmQuiet
  <2>2. smPass.quiet => w = SmMissing
    BY <1>1, <1>2 DEF SmInv, SmQuiet, SmMissing
  <2>3. smPass'.pc = "done" => SmBehind' = {}
    BY <1>1, <1>4 DEF SmBehind
  <2> QED BY <1>3, <1>4, <1>5, <2>1, <2>2, <2>3 DEF SmQuiet
<1> QED BY <1>5, <1>6, <1>7 DEF SmInv

LEMMA SmSearchStep ==
  ASSUME SmInv, SmSearch
  PROVE  SmInv'
<1>1. PICK found \in SUBSET SmReleases :
        smPass' = [smPass EXCEPT !.pc = "pick", !.used = {}, !.offered = found \ smPass.used]
  BY DEF SmSearch, WithoutImportedReleases
<1>2. smPass.pc = "search" /\ UNCHANGED <<smRows, smFiles, smWant, smAired>>
  BY DEF SmSearch, SmOutside
<1>3. /\ smPass' \in SmPassRecord /\ smPass'.pc = "pick" /\ smPass'.offered = found \ smPass.used
      /\ smPass'.episode = smPass.episode /\ smPass'.quiet = smPass.quiet
      /\ smPass'.current = smPass.current /\ smPass'.wanted = smPass.wanted
  BY <1>1 DEF SmInv, SmTypes, SmPassRecord
<1>4. /\ SmTypes' /\ \A d \in SmRowIds : RowSound(d)'
      /\ SmImported' = SmImported /\ SmMissing' = SmMissing
  BY <1>2, <1>3, SmSameTables
<1>5. SmAiming'
  BY <1>2, <1>3 DEF SmAiming, SmInv
<1>6. SmQuiet'
  <2>1. smPass.episode = 0 /\ (smPass.quiet => smPass.current)
        /\ (smPass.quiet => smPass.used = SmImported /\ smPass.wanted = SmMissing)
    BY <1>2 DEF SmInv, SmQuiet
  <2>2. \A e \in smPass.wanted : ~(e <= 0)
    <3>1. smPass.wanted \subseteq Nat \ {0}
      BY SeriesMonitorAssumption, SmPassTyped DEF SmInv
    <3> QED BY <3>1
  <2>3. SmBehind' = {}
    BY <1>3, <2>1, <2>2 DEF SmBehind
  <2> QED BY <1>3, <1>4, <2>1, <2>3 DEF SmQuiet
<1> QED BY <1>4, <1>5, <1>6 DEF SmInv

LEMMA SmDoneStep ==
  ASSUME SmInv, SmDone
  PROVE  SmInv'
<1>1. /\ smPass' \in SmPassRecord /\ smPass'.pc = "idle" /\ smPass'.current
      /\ UNCHANGED <<smRows, smFiles, smWant, smAired>>
  BY DEF SmDone, SmIdle, SmPassRecord, SmOutside, SmPreferences
<1>2. SmTypes' /\ \A d \in SmRowIds : RowSound(d)'
  BY <1>1, SmSameTables
<1>3. SmAiming' /\ SmQuiet'
  BY <1>1 DEF SmAiming, SmQuiet
<1> QED BY <1>2, <1>3 DEF SmInv

\* Nothing is found for an episode that no release offered names, as the preference has it.
LEMMA SmNoBest ==
  ASSUME SmInv, NEW e \in SmEpisodes, FindBestForEpisode(e) = {}
  PROVE  SmTried(e)
<1> SUFFICES ASSUME NEW r \in smPass.offered, e \in Title[r].names,
                    ~(smPass.pref = "packs_only" /\ ~Title[r].pack)
             PROVE  FALSE
  BY DEF SmTried
<1> DEFINE packs == {x \in smPass.offered : Title[x].pack}
           singles == {x \in smPass.offered : ~Title[x].pack /\ e \in Title[x].names}
<1>1. CASE Title[r].pack
  <2>1. packs # {}
    BY <1>1
  <2>2. singles = {} => FindBestForEpisode(e) = packs
    BY DEF FindBestForEpisode
  <2>3. singles # {} => FindBestForEpisode(e) \in {packs, singles}
    BY DEF FindBestForEpisode
  <2> QED BY <2>1, <2>2, <2>3
<1>2. CASE ~Title[r].pack
  <2>1. singles # {} /\ smPass.pref # "packs_only"
    BY <1>2
  <2>2. FindBestForEpisode(e) = IF smPass.pref = "prefer_packs" /\ smPass.ratio /\ packs # {}
                                THEN packs ELSE singles
    BY <2>1 DEF FindBestForEpisode
  <2> HIDE DEF packs, singles
  <2> QED BY <2>1, <2>2
<1> QED BY <1>1, <1>2

LEMMA SmBest ==
  ASSUME NEW e, NEW r \in FindBestForEpisode(e)
  PROVE  r \in smPass.offered /\ (Title[r].pack \/ e \in Title[r].names)
BY DEF FindBestForEpisode

\* What the pass remembers, for a step that only moves it on to an episode.
LEMMA SmMovesOn ==
  ASSUME SmInv, smPass.pc \in {"pick", "recheck", "grab"}, smPass' \in SmPassRecord,
         UNCHANGED <<smRows, smFiles, smWant, smAired>>,
         smPass'.pc \in {"pick", "recheck", "grab", "done"},
         smPass'.current = smPass.current, smPass'.quiet = smPass.quiet, smPass'.queued = smPass.queued,
         smPass.refused => smPass'.refused, smPass'.wanted = smPass.wanted,
         smPass'.offered = smPass.offered, smPass'.pref = smPass.pref,
         \A e \in SmBehind' : smPass.quiet /\ ~smPass.queued /\ ~smPass'.refused =>
           e \in SmBehind \/ SmTried(e)
  PROVE  SmQuiet'
<1>1. /\ SmImported' = SmImported /\ SmMissing' = SmMissing
  BY SmSameTables
<1>2. /\ smPass.quiet => smPass.current
      /\ smPass.quiet /\ ~smPass.queued =>
           /\ smPass.wanted = SmMissing /\ smPass.offered \cap SmImported = {}
           /\ ~smPass.refused => \A e \in SmBehind : SmTried(e)
  BY DEF SmInv, SmQuiet
<1>3. ASSUME smPass'.quiet, ~smPass'.queued, ~smPass'.refused
      PROVE  \A e \in SmBehind' : SmTried(e)'
  <2>1. smPass.quiet /\ ~smPass.queued /\ ~smPass.refused
    BY <1>3
  <2>2. \A e \in SmBehind' : SmTried(e)
    BY <1>2, <1>3, <2>1
  <2> QED BY <2>2, SmTriedStays
<1> QED BY <1>1, <1>2, <1>3 DEF SmQuiet

LEMMA SmPickStep ==
  ASSUME SmInv, SmPick
  PROVE  SmInv'
<1>1. smPass.pc = "pick" /\ UNCHANGED <<smRows, smFiles, smWant, smAired>>
  BY DEF SmPick, SmOutside
<1>2. smPass \in SmPassRecord /\ smPass.wanted \subseteq Nat /\ smPass.episode \in Nat
      /\ smPass.wanted \subseteq SmEpisodes
  <2>1. SmTypes
    BY DEF SmInv
  <2>2. smPass.wanted \subseteq SmEpisodes /\ smPass.episode \in SmEpisodes \cup {0}
    BY <2>1, SmPassTyped
  <2>3. SmEpisodes \subseteq Nat
    BY SeriesMonitorAssumption
  <2>4. smPass \in SmPassRecord
    BY <2>1 DEF SmTypes
  <2>5. smPass.wanted \subseteq Nat
    BY <2>2, <2>3
  <2>6. smPass.episode \in SmEpisodes \/ smPass.episode = 0
    BY <2>2
  <2>7. smPass.episode \in Nat
    <3>1. 0 \in Nat
      OBVIOUS
    <3>2. smPass.episode \in SmEpisodes => smPass.episode \in Nat
      BY <2>3, Zenon
    <3> QED BY <2>6, <3>1, <3>2, Zenon
  <2> QED BY <2>2, <2>4, <2>5, <2>7
<1>3. SmBehind = {e \in smPass.wanted : e <= smPass.episode}
  BY <1>1 DEF SmBehind
<1>4. CASE Left = {}
  <2>1. smPass' = [smPass EXCEPT !.pc = "done"]
    BY <1>4 DEF SmPick
  <2>2. /\ smPass' \in SmPassRecord /\ smPass'.pc = "done" /\ smPass'.offered = smPass.offered
        /\ smPass'.episode = smPass.episode /\ smPass'.quiet = smPass.quiet
        /\ smPass'.current = smPass.current /\ smPass'.wanted = smPass.wanted
        /\ smPass'.queued = smPass.queued /\ smPass'.refused = smPass.refused /\ smPass'.pref = smPass.pref
    BY <1>2, <2>1 DEF SmPassRecord
  <2>3. SmTypes' /\ \A d \in SmRowIds : RowSound(d)'
    BY <1>1, <2>2, SmSameTables
  <2>4. SmAiming'
    BY <2>2 DEF SmAiming
  <2>5. \A e \in SmBehind' : e \in SmBehind
    <3>1. SmBehind' = smPass.wanted
      BY <2>2 DEF SmBehind
    <3>2. \A e \in smPass.wanted : ~(e > smPass.episode)
      BY <1>4 DEF Left
    <3>3. \A e \in smPass.wanted : e <= smPass.episode
      BY <1>2, <3>2
    <3> QED BY <1>3, <3>1, <3>3
  <2>6. SmQuiet'
    BY <1>1, <2>2, <2>5, SmMovesOn
  <2> QED BY <2>3, <2>4, <2>6 DEF SmInv
<1>5. CASE Left # {}
  <2>1. PICK e : e = CHOOSE x \in Left : \A y \in Left : x <= y
    OBVIOUS
  <2>2. Left \subseteq smPass.wanted /\ Left \subseteq Nat
    BY <1>2 DEF Left
  <2>3. e \in Left /\ \A y \in Left : e <= y
    BY <1>5, <2>1, <2>2, LeastVersion
  <2>4. e \in smPass.wanted /\ e \in Nat /\ e \in SmEpisodes
    BY <1>2, <2>2, <2>3
  <2>5. \A x \in smPass.wanted : x < e => x \in SmBehind
    <3>1. \A x \in smPass.wanted : x < e => x \notin Left
      BY <1>2, <2>3, <2>4
    <3>2. \A x \in smPass.wanted : x < e => x <= smPass.episode
      BY <1>2, <3>1 DEF Left
    <3> QED BY <1>3, <3>2
  <2>6. CASE FindBestForEpisode(e) = {} /\ smPass' = [smPass EXCEPT !.episode = e]
    <3>1. /\ smPass' \in SmPassRecord /\ smPass'.pc = "pick" /\ smPass'.offered = smPass.offered
          /\ smPass'.episode = e /\ smPass'.quiet = smPass.quiet
          /\ smPass'.current = smPass.current /\ smPass'.wanted = smPass.wanted
          /\ smPass'.queued = smPass.queued /\ smPass'.refused = smPass.refused /\ smPass'.pref = smPass.pref
      BY <1>1, <1>2, <2>4, <2>6 DEF SmPassRecord
    <3>2. SmTypes' /\ \A d \in SmRowIds : RowSound(d)'
      BY <1>1, <3>1, SmSameTables
    <3>3. SmAiming'
      BY <1>1, <3>1 DEF SmAiming, SmInv
    <3>4. \A x \in SmBehind' : x \in SmBehind \/ SmTried(x)
      <4>1. SmTried(e)
        BY <2>4, <2>6, SmNoBest
      <4>2. SmBehind' = {x \in smPass.wanted : x <= e}
        BY <3>1 DEF SmBehind
      <4>3. \A x \in smPass.wanted : x <= e => x < e \/ x = e
        BY <1>2, <2>4
      <4> QED BY <2>5, <4>1, <4>2, <4>3
    <3>5. SmQuiet'
      BY <1>1, <3>1, <3>4, SmMovesOn
    <3> QED BY <3>2, <3>3, <3>5 DEF SmInv
  <2>7. ASSUME NEW r \in FindBestForEpisode(e),
               smPass' = [smPass EXCEPT !.pc = "recheck", !.episode = e, !.pick = {r}]
        PROVE  SmInv'
    <3>0. r \in smPass.offered /\ (Title[r].pack \/ e \in Title[r].names) /\ r \in SmReleases
      BY <2>7, SmBest, SmPassTyped DEF SmInv
    <3>1. /\ smPass' \in SmPassRecord /\ smPass'.pc = "recheck" /\ smPass'.offered = smPass.offered
          /\ smPass'.episode = e /\ smPass'.quiet = smPass.quiet /\ smPass'.pick = {r}
          /\ smPass'.current = smPass.current /\ smPass'.wanted = smPass.wanted
          /\ smPass'.queued = smPass.queued /\ smPass'.refused = smPass.refused /\ smPass'.pref = smPass.pref
      BY <1>2, <2>4, <2>7, <3>0 DEF SmPassRecord
    <3>2. SmTypes' /\ \A d \in SmRowIds : RowSound(d)'
      BY <1>1, <3>1, SmSameTables
    <3>3. SmAiming'
      BY <1>1, <2>4, <3>0, <3>1 DEF SmAiming, SmInv
    <3>4. \A x \in SmBehind' : x \in SmBehind
      <4>1. SmBehind' = {x \in smPass.wanted : x < e}
        BY <3>1 DEF SmBehind
      <4> QED BY <2>5, <4>1
    <3>5. SmQuiet'
      BY <1>1, <3>1, <3>4, SmMovesOn
    <3> QED BY <3>2, <3>3, <3>5 DEF SmInv
  <2>8. \/ FindBestForEpisode(e) = {} /\ smPass' = [smPass EXCEPT !.episode = e]
        \/ \E r \in FindBestForEpisode(e) :
             smPass' = [smPass EXCEPT !.pc = "recheck", !.episode = e, !.pick = {r}]
    BY <1>5, <2>1 DEF SmPick
  <2> QED BY <2>6, <2>7, <2>8
<1> QED BY <1>4, <1>5

LEMMA SmRecheckStep ==
  ASSUME SmInv, SmRecheck
  PROVE  SmInv'
<1> DEFINE e == smPass.episode
           guarded == HasActiveDownloadForEpisode(RowsIn({"active"}), e)
<1>1. smPass.pc = "recheck" /\ UNCHANGED <<smRows, smFiles, smWant, smAired>>
  BY DEF SmRecheck, SmOutside
<1>2. SmTypes /\ smPass \in SmPassRecord
  BY DEF SmInv, SmTypes
<1>3. /\ e \in smPass.wanted /\ smPass.wanted \subseteq SmEpisodes /\ smPass.wanted \subseteq Nat /\ e \in Nat
      /\ \E r \in smPass.offered : smPass.pick = {r} /\ (Title[r].pack \/ e \in Title[r].names)
  BY <1>1, <1>2, SmPassTyped, SeriesMonitorAssumption DEF SmInv, SmAiming
<1>4. SmBehind = {x \in smPass.wanted : x < e}
  BY <1>1 DEF SmBehind
<1>5. CASE guarded
  <2>1. smPass' = [smPass EXCEPT !.pc = "pick", !.pick = {}]
    BY <1>5 DEF SmRecheck
  <2>2. /\ smPass' \in SmPassRecord /\ smPass'.pc = "pick" /\ smPass'.offered = smPass.offered
        /\ smPass'.episode = smPass.episode /\ smPass'.quiet = smPass.quiet
        /\ smPass'.current = smPass.current /\ smPass'.wanted = smPass.wanted
        /\ smPass'.queued = smPass.queued /\ smPass'.refused = smPass.refused /\ smPass'.pref = smPass.pref
    BY <1>2, <2>1 DEF SmPassRecord
  <2>3. SmTypes' /\ \A d \in SmRowIds : RowSound(d)'
    BY <1>1, <2>2, SmSameTables
  <2>4. SmAiming'
    BY <1>1, <2>2 DEF SmAiming, SmInv
  <2>5. SmTried(e)
    <3>1. PICK d \in RowsIn({"active"}) : Guards(d, e)
      BY <1>5 DEF HasActiveDownloadForEpisode
    <3>2. e \in Title[smRows[d].url].names
      BY <1>3, <3>1, SmGuardNames
    <3> QED BY <3>2 DEF SmTried
  <2>6. \A x \in SmBehind' : x \in SmBehind \/ SmTried(x)
    <3>1. SmBehind' = {x \in smPass.wanted : x <= e}
      BY <2>2 DEF SmBehind
    <3>2. \A x \in smPass.wanted : x <= e => x < e \/ x = e
      BY <1>3
    <3> QED BY <1>4, <2>5, <3>1, <3>2
  <2>7. SmQuiet'
    BY <1>1, <2>2, <2>6, SmMovesOn
  <2> QED BY <2>3, <2>4, <2>7 DEF SmInv
<1>6. CASE ~guarded
  <2>1. smPass' = [smPass EXCEPT !.pc = "grab"]
    BY <1>6 DEF SmRecheck
  <2>2. /\ smPass' \in SmPassRecord /\ smPass'.pc = "grab" /\ smPass'.offered = smPass.offered
        /\ smPass'.episode = smPass.episode /\ smPass'.quiet = smPass.quiet /\ smPass'.pick = smPass.pick
        /\ smPass'.current = smPass.current /\ smPass'.wanted = smPass.wanted
        /\ smPass'.queued = smPass.queued /\ smPass'.refused = smPass.refused /\ smPass'.pref = smPass.pref
    BY <1>2, <2>1 DEF SmPassRecord
  <2>3. /\ SmTypes' /\ \A d \in SmRowIds : RowSound(d)'
        /\ RowsIn({"active"})' = RowsIn({"active"})
    BY <1>1, <2>2, SmSameTables
  <2>4. \A o \in RowsIn({"active"}) : smRows[o].auto => e \notin Title[smRows[o].url].names
    <3>1. \A o \in RowsIn({"active"}) : ~Guards(o, e)
      BY <1>6 DEF HasActiveDownloadForEpisode
    <3> QED BY <1>3, <3>1, SmGuardNames
  <2>5. SmAiming'
    <3>1. smPass'.current => smPass'.wanted \subseteq smWant' \cap smAired'
      BY <1>1, <2>2 DEF SmAiming, SmInv
    <3>2. \E r \in smPass'.offered : smPass'.pick = {r} /\ (Title[r].pack \/ smPass'.episode \in Title[r].names)
      BY <1>3, <2>2
    <3>3. \A o \in RowsIn({"active"})' : smRows'[o].auto => smPass'.episode \notin Title[smRows'[o].url].names
      BY <1>1, <2>2, <2>3, <2>4
    <3> QED BY <1>3, <2>2, <3>1, <3>2, <3>3 DEF SmAiming
  <2>6. SmBehind' = SmBehind
    BY <1>4, <2>2 DEF SmBehind
  <2>7. SmQuiet'
    BY <1>1, <2>2, <2>6, SmMovesOn
  <2> QED BY <2>3, <2>5, <2>7 DEF SmInv
<1> QED BY <1>5, <1>6

\* What a queued release was picked for; and what a release not queued means.
SmQueues(r) ==
  /\ smPass.current /\ smPass.episode \notin BuildFileMap
  /\ ~SmHasActiveDownloadByURL(r) /\ ~IsBlocklisted(r)

LEMMA SmGrabs ==
  ASSUME SmInv, SmGrab
  PROVE  \E r \in smPass.offered :
           /\ r \in SmReleases /\ (Title[r].pack \/ smPass.episode \in Title[r].names)
           /\ LET next == IF Title[r].pack THEN "done" ELSE "pick"
              IN  IF SmQueues(r)
                  THEN /\ RowsIn({"none"}) # {}
                       /\ smRows' = [smRows EXCEPT ![FreeRow] =
                                       [url |-> r, auto |-> TRUE, state |-> "active",
                                        id |-> IF Title[r].pack THEN 0 ELSE smPass.episode]]
                       /\ smPass' = [smPass EXCEPT !.pc = next, !.queued = TRUE, !.pick = {}]
                  ELSE /\ smPass' = [smPass EXCEPT !.pc = next,
                                       !.refused = smPass.refused \/ IsBlocklisted(r), !.pick = {}]
                       /\ UNCHANGED smRows
<1>1. smPass.pc = "grab"
  BY DEF SmGrab
<1>2. PICK r \in smPass.offered : smPass.pick = {r} /\ (Title[r].pack \/ smPass.episode \in Title[r].names)
  BY <1>1 DEF SmInv, SmAiming
<1>3. r \in SmReleases
  BY SmPassTyped DEF SmInv
<1>4. (CHOOSE x \in smPass.pick : TRUE) = r
  BY <1>2
<1>5. CASE SmQueues(r)
  BY <1>2, <1>3, <1>4, <1>5, Zenon DEF SmGrab, SmQueues
<1>6. CASE ~SmQueues(r)
  <2>1. /\ UNCHANGED smRows
        /\ smPass' = [smPass EXCEPT !.pc = IF Title[r].pack THEN "done" ELSE "pick",
                                   !.refused = @ \/ IsBlocklisted(r), !.pick = {}]
    BY <1>4, <1>6, Zenon DEF SmGrab, SmQueues
  <2>2. smPass' = [smPass EXCEPT !.pc = IF Title[r].pack THEN "done" ELSE "pick",
                                 !.refused = smPass.refused \/ IsBlocklisted(r), !.pick = {}]
    BY ONLY <2>1
  <2> QED BY <1>2, <1>3, <1>6, <2>1, <2>2, Zenon
<1> QED BY <1>5, <1>6

LEMMA SmGrabStep ==
  ASSUME SmInv, SmGrab
  PROVE  SmInv'
<1> DEFINE e == smPass.episode
<1>1. smPass.pc = "grab" /\ UNCHANGED <<smFiles, smWant, smAired>>
  BY DEF SmGrab
<1>2. SmTypes /\ smPass \in SmPassRecord
  BY DEF SmInv, SmTypes
<1>3. /\ e \in smPass.wanted /\ smPass.wanted \subseteq SmEpisodes /\ smPass.wanted \subseteq Nat /\ e \in Nat
  BY <1>1, <1>2, SmPassTyped, SeriesMonitorAssumption DEF SmInv, SmAiming
<1>4. PICK r \in smPass.offered :
           /\ r \in SmReleases /\ (Title[r].pack \/ smPass.episode \in Title[r].names)
           /\ LET next == IF Title[r].pack THEN "done" ELSE "pick"
              IN  IF SmQueues(r)
                  THEN /\ RowsIn({"none"}) # {}
                       /\ smRows' = [smRows EXCEPT ![FreeRow] =
                                       [url |-> r, auto |-> TRUE, state |-> "active",
                                        id |-> IF Title[r].pack THEN 0 ELSE smPass.episode]]
                       /\ smPass' = [smPass EXCEPT !.pc = next, !.queued = TRUE, !.pick = {}]
                  ELSE /\ smPass' = [smPass EXCEPT !.pc = next,
                                       !.refused = smPass.refused \/ IsBlocklisted(r), !.pick = {}]
                       /\ UNCHANGED smRows
  BY SmGrabs
<1>5. PICK next : next = IF Title[r].pack THEN "done" ELSE "pick"
  OBVIOUS
<1>6. next \in {"done", "pick"}
  BY <1>5
<1>7. smPass.current => smPass.wanted \subseteq smWant \cap smAired
  BY <1>1 DEF SmInv, SmAiming
<1>8. CASE SmQueues(r)
  <2>1. PICK id, yes : id = (IF Title[r].pack THEN 0 ELSE e) /\ yes = TRUE
    OBVIOUS
  <2>2. PICK d \in SmRowIds : d = FreeRow
    BY <1>4, <1>8, SmFree
  <2>3. smRows' = [smRows EXCEPT ![d] = [url |-> r, id |-> id, auto |-> yes, state |-> "active"]]
    BY <1>4, <1>8, <2>1, <2>2
  <2>4. smPass' = [smPass EXCEPT !.pc = next, !.queued = yes, !.pick = {}]
    BY <1>4, <1>5, <1>8, <2>1
  <2>5. /\ id \in SmEpisodes \cup {0} /\ yes \in BOOLEAN
        /\ (id # 0 => ~Title[r].pack /\ id \in Title[r].names)
    BY <1>3, <1>4, <2>1
  <2>6. /\ smPass' \in SmPassRecord /\ smPass'.pc = next /\ smPass'.queued = yes
        /\ smPass'.current = smPass.current /\ smPass'.quiet = smPass.quiet
        /\ smPass'.wanted = smPass.wanted
    BY <1>2, <1>6, <2>4, <2>5 DEF SmPassRecord
  <2>7. /\ smRows'[d] = [url |-> r, id |-> id, auto |-> yes, state |-> "active"]
        /\ \A o \in SmRowIds \ {d} : smRows'[o] = smRows[o]
        /\ smRows' \in [SmRowIds -> SmRowRecord]
    BY <1>2, <1>4, <2>3, <2>5 DEF SmTypes, SmRowRecord
  <2>8. SmTypes'
    BY <1>1, <1>2, <2>6, <2>7 DEF SmTypes, SmRowRecord
  <2>9. ASSUME NEW o \in SmRowIds PROVE RowSound(o)'
    <3>1. CASE o = d
      BY <1>4, <2>5, <2>7, <3>1 DEF RowSound
    <3>2. CASE o # d
      BY <2>7, <3>2 DEF RowSound, SmInv
    <3> QED BY <3>1, <3>2
  <2>10. SmAiming'
    BY <1>1, <1>6, <1>7, <2>6 DEF SmAiming
  <2>11. SmQuiet'
    BY <1>6, <2>1, <2>6 DEF SmQuiet, SmInv
  <2> QED BY <2>8, <2>9, <2>10, <2>11 DEF SmInv
<1>9. CASE ~SmQueues(r)
  <2>1. PICK refused : refused = (smPass.refused \/ IsBlocklisted(r))
    OBVIOUS
  <2>2. smPass' = [smPass EXCEPT !.pc = next, !.pick = {}, !.refused = refused] /\ smRows' = smRows
    BY <1>4, <1>5, <1>9, <2>1
  <2>3. refused \in BOOLEAN /\ (smPass.refused => refused) /\ (IsBlocklisted(r) => refused)
    BY <2>1
  <2>4. /\ smPass' \in SmPassRecord /\ smPass'.pc = next /\ smPass'.offered = smPass.offered
        /\ smPass'.episode = smPass.episode /\ smPass'.quiet = smPass.quiet
        /\ smPass'.current = smPass.current /\ smPass'.wanted = smPass.wanted
        /\ smPass'.queued = smPass.queued /\ smPass'.refused = refused /\ smPass'.pref = smPass.pref
    BY <1>2, <1>6, <2>2, <2>3 DEF SmPassRecord
  <2>5. SmTypes' /\ \A d \in SmRowIds : RowSound(d)'
    BY <1>1, <2>2, <2>4, SmSameTables
  <2>6. SmAiming'
    BY <1>1, <1>6, <1>7, <2>4 DEF SmAiming
  <2>7. ASSUME NEW x \in SmBehind', smPass.quiet, ~smPass.queued, ~refused
        PROVE  x \in SmBehind \/ SmTried(x)
    <3>1. /\ smPass.current /\ smPass.wanted = SmMissing /\ smPass.offered \cap SmImported = {}
          /\ x \in smPass.wanted
      BY <1>1, <1>6, <2>4, <2>7 DEF SmInv, SmQuiet, SmBehind
    <3>2. SmHasActiveDownloadByURL(r)
      BY <1>3, <1>9, <2>3, <2>7, <3>1 DEF SmQueues, SmMissing
    <3>3. PICK d \in RowsIn({"active", "imported"}) : smRows[d].url = r
      BY <3>2 DEF SmHasActiveDownloadByURL
    <3>4. d \in RowsIn({"active"})
      BY <3>1, <3>3 DEF SmImported, RowsIn
    <3>5. CASE Title[r].pack
      <4>1. x \in Title[r].names
        BY <1>3, <1>4, <3>1, <3>5, SeriesMonitorAssumption
      <4> QED BY <3>3, <3>4, <4>1 DEF SmTried
    <3>6. CASE ~Title[r].pack
      <4>1. x <= e
        BY <1>5, <2>4, <3>6 DEF SmBehind
      <4>2. x < e \/ x = e
        BY <1>3, <3>1, <4>1
      <4>3. x < e => x \in SmBehind
        BY <1>1, <3>1 DEF SmBehind
      <4>4. x = e => SmTried(x)
        BY <1>4, <3>3, <3>4, <3>6 DEF SmTried
      <4> QED BY <4>2, <4>3, <4>4
    <3> QED BY <3>5, <3>6
  <2>8. SmQuiet'
    <3>1. \A x \in SmBehind' : smPass.quiet /\ ~smPass.queued /\ ~smPass'.refused =>
            x \in SmBehind \/ SmTried(x)
      BY <2>4, <2>7
    <3>2. UNCHANGED <<smRows, smFiles, smWant, smAired>> /\ (smPass.refused => smPass'.refused)
      BY <1>1, <2>2, <2>3, <2>4
    <3> QED BY <1>1, <1>6, <2>4, <3>1, <3>2, SmMovesOn
  <2> QED BY <2>5, <2>6, <2>8 DEF SmInv
<1> QED BY <1>8, <1>9

LEMMA SmStep == SmInv /\ [SmNext]_smVars => SmInv'
<1> SUFFICES ASSUME SmInv, [SmNext]_smVars PROVE SmInv'
  OBVIOUS
<1>1. CASE \/ SmLoad \/ SmReadDownloads \/ SmPlan \/ SmSearch \/ SmPick \/ SmRecheck \/ SmGrab \/ SmDone
  BY <1>1, SmLoadStep, SmReadStep, SmPlanStep, SmSearchStep, SmPickStep, SmRecheckStep, SmGrabStep, SmDoneStep
<1>2. ASSUME NEW r \in SmReleases, NEW e \in SmEpisodes \cup {0}, SmUserGrab(r, e)
      PROVE  SmInv'
  BY <1>2, SmUserGrabStep
<1>3. ASSUME NEW d \in SmRowIds, SmImport(d) \/ SmFail(d) \/ SmRetry(d) \/ SmRemove(d)
      PROVE  SmInv'
  <2>1. smRows[d].state # "none"
    BY <1>3 DEF SmImport, SmFail, SmRetry, SmRemove
  <2> QED BY <1>3, <2>1, SmStateStep
<1>4. CASE \/ \E e \in SmEpisodes : SmResync(e) \/ SmAir(e)
           \/ \E want \in SUBSET SmEpisodes : SmSettings(want)
  BY <1>4, SmOtherEvents
<1>5. CASE SmRematch
  BY <1>5, SmRematchStep
<1>6. CASE UNCHANGED smVars
  <2>1. UNCHANGED <<smRows, smFiles, smWant, smAired, smPass>>
    BY <1>6 DEF smVars
  <2>2. smPass' \in SmPassRecord
    BY <2>1 DEF SmInv, SmTypes
  <2>3. /\ SmTypes' /\ \A d \in SmRowIds : RowSound(d)'
        /\ SmGuarded' = SmGuarded /\ SmImported' = SmImported /\ SmMissing' = SmMissing
        /\ RowsIn({"active"})' = RowsIn({"active"})
    BY <2>1, <2>2, SmSameTables
  <2>4. SmAiming'
    BY <2>1, <2>3 DEF SmInv, SmAiming
  <2>5. SmBehind' = SmBehind
    BY <2>1 DEF SmBehind
  <2>6. \A e : SmTried(e) => SmTried(e)'
    BY <2>1, SmTriedStays
  <2>7. SmQuiet'
    BY <2>1, <2>3, <2>5, <2>6 DEF SmInv, SmQuiet
  <2> QED BY <2>3, <2>4, <2>7 DEF SmInv
<1> QED BY <1>1, <1>2, <1>3, <1>4, <1>5, <1>6 DEF SmNext

\* A pass of the monitor that nobody disturbs and that queues nothing has left no untried release
\* for a missing episode, unless it met one that is blocked.  (monitor.processSeries)
THEOREM NothingLeftUntried == SmSpec => []NothingUntried
<1>1. SmInv => NothingUntried
  <2> SUFFICES ASSUME SmInv, smPass.pc = "done", smPass.quiet, ~smPass.queued, ~smPass.refused,
                      NEW e \in (smWant \cap smAired) \ BuildFileMap, NEW r \in smPass.offered
               PROVE  \/ e \notin Title[r].names
                      \/ SmHasActiveDownloadByURL(r)
                      \/ smPass.pref = "packs_only" /\ ~Title[r].pack
                      \/ \E d \in RowsIn({"active"}) : e \in Title[smRows[d].url].names
    BY DEF NothingUntried
  <2>1. e \in SmEpisodes
    BY DEF SmInv, SmTypes
  <2>2. smPass.wanted = SmMissing /\ \A x \in SmBehind : SmTried(x)
    BY DEF SmInv, SmQuiet
  <2>3. SmBehind = smPass.wanted
    BY DEF SmBehind
  <2>4. CASE e \in SmMissing
    BY <2>2, <2>3, <2>4 DEF SmTried
  <2>5. CASE e \notin SmMissing
    <3>1. PICK d \in RowsIn({"active"}) : Guards(d, e)
      BY <2>5 DEF SmMissing, SmGuarded, HasActiveDownloadForEpisode
    <3> QED BY <2>1, <3>1, SmGuardNames
  <2> QED BY <2>4, <2>5
<1> QED BY <1>1, SmInitially, SmStep, PTL DEF SmSpec

\* What the monitor queues is missing at that moment, and no download that it has queued before
\* and that is under way names it, whatever users, imports, resyncs and new matches have done
\* since the pass began.  (createAutoDownload, buildDownloadMap)
THEOREM QueuedAlwaysMissing == SmSpec => QueuedIfMissing
<1> DEFINE Q == \A d \in SmRowIds :
       (smRows[d].state = "none" /\ smRows'[d].state = "active" /\ smRows'[d].auto) =>
         LET e == smPass.episode IN
         /\ e \in (smWant \cap smAired) \ BuildFileMap
         /\ \A o \in RowsIn({"active"}) :
              smRows[o].auto => e \notin Title[smRows[o].url].names
<1>1. SmInv /\ [SmNext]_smVars => [Q]_smVars
  <2> SUFFICES ASSUME SmInv, SmNext, NEW d \in SmRowIds,
                      smRows[d].state = "none", smRows'[d].state = "active", smRows'[d].auto
               PROVE  /\ smPass.episode \in (smWant \cap smAired) \ BuildFileMap
                      /\ \A o \in RowsIn({"active"}) :
                           smRows[o].auto => smPass.episode \notin Title[smRows[o].url].names
    OBVIOUS
  <2>1. SmGrab
    <3>1. smRows' # smRows
      OBVIOUS
    <3>2. ASSUME NEW r \in SmReleases, NEW e \in SmEpisodes \cup {0}, SmUserGrab(r, e)
          PROVE  FALSE
      <4>1. FreeRow \in SmRowIds /\ smRows \in [SmRowIds -> SmRowRecord]
        BY <3>2, SmFree DEF SmUserGrab, SmInv, SmTypes, SmRowRecord
      <4>2. smRows'[FreeRow].auto = FALSE /\ (d # FreeRow => smRows'[d] = smRows[d])
        BY <3>2, <4>1 DEF SmUserGrab
      <4> QED BY <4>2
    <3>3. ASSUME NEW x \in SmRowIds, SmImport(x) \/ SmFail(x) \/ SmRetry(x) \/ SmRemove(x)
          PROVE  FALSE
      <4>1. smRows[x].state # "none"
        BY <3>3 DEF SmImport, SmFail, SmRetry, SmRemove
      <4>2. \A o \in SmRowIds \ {x} : smRows'[o] = smRows[o]
        BY <3>3 DEF SmImport, SmFail, SmRetry, SmRemove, SmInv, SmTypes
      <4> QED BY <4>1, <4>2
    <3>4. SmRematch => smRows'[d].state = "none"
      <4>1. smRows[d] \in SmRowRecord
        BY DEF SmInv, SmTypes, SmRowRecord
      <4>2. [smRows[d] EXCEPT !.id = 0].state = smRows[d].state
        BY <4>1 DEF SmRowRecord
      <4> QED BY <4>2 DEF SmRematch
    <3>5. \/ SmLoad \/ SmReadDownloads \/ SmPlan \/ SmSearch \/ SmPick \/ SmRecheck \/ SmDone
          \/ (\E e \in SmEpisodes : SmResync(e) \/ SmAir(e))
          \/ (\E want \in SUBSET SmEpisodes : SmSettings(want))
          => smRows' = smRows
      BY DEF SmLoad, SmReadDownloads, SmPlan, SmSearch, SmPick, SmRecheck, SmDone, SmOutside,
             SmResync, SmAir, SmSettings
    <3> QED BY <3>1, <3>2, <3>3, <3>4, <3>5 DEF SmNext
  <2>2. smPass.pc = "grab"
    BY <2>1 DEF SmGrab
  <2>3. \E r : SmQueues(r)
    BY <2>1, SmGrabs
  <2>4. smPass.current /\ smPass.episode \notin BuildFileMap
    BY <2>3 DEF SmQueues
  <2> QED BY <2>2, <2>4 DEF SmInv, SmAiming
<1> QED BY <1>1, SmInitially, SmStep, PTL DEF SmSpec, QueuedIfMissing

-----------------------------------------------------------------------------
(* Subtitles                                                               *)

SbSpec == SbInit /\ [][SbNext]_sbVars

SbCallRecord == [pc : SbPcs, path : Paths, file : 0..MaxFiles, row : 0..MaxFiles,
                 video : BOOLEAN, auto : BOOLEAN]
SbRemovalRecord == [op : {"none", "release", "item"},
                    pc : {"none", "files", "prune", "records"}, rows : SUBSET FileIds]

SbTypes ==
  /\ sbRows \subseteq SbRow
  /\ sbDisk \in [Paths -> 0..MaxFiles]
  /\ sbWritten \in 0..MaxFiles
  /\ sbItem \in {"open", "pending", "gone"} /\ sbActor \in BOOLEAN
  /\ sbVideo \in {"none", "imported", "removed"}
  /\ sbCall \in [SbCalls -> SbCallRecord]
  /\ sbRemoval \in SbRemovalRecord
  /\ sbRemoval.op = "none" => sbRemoval = NoRemoval

\* Rows are known by the file they were written for, and by their path.
RowsKnown ==
  /\ \A r \in sbRows : r.id <= sbWritten
  /\ \A r, s \in sbRows : (r.id = s.id \/ r.path = s.path) => r = s
  /\ sbItem = "gone" => \A r \in sbRows : r.id \in sbExcused

SbWriting(c) == sbCall[c].pc \in {"record", "compensate", "unlink"}

\* A file that is not recorded yet is the request's alone, where the request has put it.
WriterSound(c) ==
  SbWriting(c) =>
    LET f == sbCall[c].file IN
    /\ f \in 1..sbWritten /\ \A r \in sbRows : r.id # f
    /\ sbDisk[sbCall[c].path] = f \/ f \in sbExcused
    /\ \A d \in SbCalls : sbCall[d].row # f /\ ((d # c /\ SbWriting(d)) => sbCall[d].file # f)

\* A deletion holds its row's file, and fails if the file is where the row says.
DeleterIs(q) ==
  /\ q.row <= sbWritten
  /\ q.pc \in {"stage", "drop", "restore"} =>
       /\ \A r \in RowOf(q.row) : r.path = q.path
       /\ q.file \in {0, q.row} \cup sbExcused
  /\ q.pc = "drop" => \A r \in RowOf(q.row) :
       (sbDisk[r.path] = r.id /\ r.id \notin sbExcused) => (sbItem = "gone" \/ ~sbActor)
  /\ q.pc = "restore" => (sbItem = "gone" \/ ~sbActor \/ RowOf(q.row) = {})

SbHasFile(r) == sbDisk[r.path] = r.id \/ Holding(r) # {} \/ r.id \in sbExcused

\* Nothing was removed yet while the removal goes through the files it has listed.
RowsHaveFiles ==
  \A r \in sbRows :
    SbHasFile(r) \/ (sbRemoval.pc \in {"prune", "records"} /\ r.id \in sbRemoval.rows)

\* Whose a file is.
SbOwned(p) ==
  \/ sbDisk[p] \in {0} \cup sbExcused
  \/ \E r \in sbRows : r.path = p /\ r.id = sbDisk[p]
  \/ \E c \in SbCalls : SbWriting(c) /\ sbCall[c].path = p /\ sbCall[c].file = sbDisk[p]

SbInv ==
  /\ SbTypes /\ RowsKnown /\ RowsHaveFiles
  /\ \A c \in SbCalls : WriterSound(c) /\ DeleterIs(sbCall[c])
  /\ \A p \in Paths : SbOwned(p)

LEMMA SbInitially == SbInit => SbInv
<1> SUFFICES ASSUME SbInit PROVE SbInv
  OBVIOUS
<1> USE SubtitlesAssumption
<1>1. SbIdle \in SbCallRecord
  BY DEF SbIdle, SbCallRecord, SbPcs, Paths, Fallback
<1>2. NoRemoval \in SbRemovalRecord /\ NoRemoval.op = "none"
  BY DEF NoRemoval, SbRemovalRecord
<1>3. SbTypes
  BY <1>1, <1>2 DEF SbInit, SbTypes
<1>4. RowsKnown /\ RowsHaveFiles
  BY DEF SbInit, RowsKnown, RowsHaveFiles
<1>5. ASSUME NEW c \in SbCalls PROVE WriterSound(c) /\ DeleterIs(sbCall[c])
  BY DEF SbInit, SbIdle, WriterSound, SbWriting, DeleterIs, RowOf
<1>6. ASSUME NEW p \in Paths PROVE SbOwned(p)
  BY DEF SbInit, SbOwned
<1> QED
  BY <1>3, <1>4, <1>5, <1>6 DEF SbInv

\* A step that changes one request, and gives up some files, and nothing else.
SbOnlyCall(c, n) ==
  /\ sbCall' = [sbCall EXCEPT ![c] = n]
  /\ UNCHANGED <<sbRows, sbDisk, sbWritten, sbVideo, sbItem, sbActor, sbRemoval>>
  /\ sbExcused \subseteq sbExcused'

\* It lets a file it has written, or holds, go only when the file is given up.
SbLetsGo(c, n) ==
  LET q == sbCall[c] IN
  /\ n.pc \in {"record", "compensate", "unlink"} =>
       (SbWriting(c) /\ n.file = q.file /\ n.path = q.path)
  /\ (SbWriting(c) /\ n.pc \notin {"record", "compensate", "unlink"}) =>
       (q.file \in sbExcused' \/ sbDisk[q.path] # q.file)
  /\ q.pc \in {"drop", "restore"} =>
       \/ n.pc \in {"drop", "restore"} /\ n.file = q.file /\ n.path = q.path
       \/ \A r \in sbRows : (r.path = q.path /\ r.id = q.file) => r.id \in sbExcused'
  /\ n.row = q.row \/ n.row = 0 \/ \E r \in sbRows : r.id = n.row

\* Deletions of the others stand as long as rows, files, the item and the user do.
LEMMA SbDeleterStays ==
  ASSUME NEW q \in SbCallRecord, DeleterIs(q),
         UNCHANGED <<sbRows, sbDisk, sbWritten, sbItem, sbActor>>, sbExcused \subseteq sbExcused'
  PROVE  DeleterIs(q)'
<1>1. RowOf(q.row)' = RowOf(q.row)
  BY DEF RowOf
<1> QED
  BY <1>1 DEF DeleterIs

LEMMA SbCallStep ==
  ASSUME SbInv, NEW c \in SbCalls, NEW n \in SbCallRecord,
         SbOnlyCall(c, n), SbLetsGo(c, n), DeleterIs(n)'
  PROVE  SbInv'
<1>1. SbTypes'
  BY DEF SbInv, SbTypes, SbOnlyCall
<1>2. RowsKnown'
  BY DEF SbInv, RowsKnown, SbOnlyCall
<1>a. SbTypes /\ sbCall \in [SbCalls -> SbCallRecord]
  BY DEF SbInv, SbTypes
<1>b. /\ sbCall' \in [SbCalls -> SbCallRecord] /\ sbCall'[c] = n
      /\ \A d \in SbCalls : d # c => sbCall'[d] = sbCall[d]
  BY <1>a DEF SbOnlyCall
<1>3. ASSUME NEW r \in sbRows
      PROVE  (SbHasFile(r) \/ (sbRemoval.pc \in {"prune", "records"} /\ r.id \in sbRemoval.rows))'
  <2>1. CASE \E d \in Holding(r) : TRUE
    <3>1. PICK d \in SbCalls : /\ sbCall[d].path = r.path /\ sbCall[d].file = r.id
                               /\ sbCall[d].pc \in {"drop", "restore"}
      BY <2>1 DEF Holding
    <3>2. CASE d = c
      BY <1>a, <1>b, <3>1, <3>2 DEF SbLetsGo, SbHasFile, Holding
    <3>3. CASE d # c
      BY <1>a, <1>b, <3>1, <3>3 DEF SbHasFile, Holding
    <3> QED
      BY <3>2, <3>3
  <2>2. CASE ~ \E d \in Holding(r) : TRUE
    BY <2>2 DEF SbInv, RowsHaveFiles, SbHasFile, SbOnlyCall
  <2> QED
    BY <2>1, <2>2
<1>4. ASSUME NEW d \in SbCalls PROVE WriterSound(d)'
  <2> SUFFICES ASSUME SbWriting(d)' PROVE WriterSound(d)'
    BY DEF WriterSound
  <2>1. SbWriting(d) /\ sbCall'[d].file = sbCall[d].file /\ sbCall'[d].path = sbCall[d].path
    BY <1>a, <1>b DEF SbLetsGo, SbWriting
  <2>2. PICK f : f = sbCall[d].file
    OBVIOUS
  <2>3. /\ f \in 1..sbWritten /\ \A r \in sbRows : r.id # f
        /\ sbDisk[sbCall[d].path] = f \/ f \in sbExcused
        /\ \A e \in SbCalls : sbCall[e].row # f /\ ((e # d /\ SbWriting(e)) => sbCall[e].file # f)
    BY <2>1, <2>2 DEF SbInv, WriterSound
  <2>4. ASSUME NEW e \in SbCalls
        PROVE  sbCall'[e].row # f /\ ((e # d /\ SbWriting(e)') => sbCall'[e].file # f)
    <3>1. CASE e = c
      <4>1. n.row # f
        BY <2>3, <3>1 DEF SbLetsGo
      <4>2. SbWriting(e)' => SbWriting(c) /\ n.file = sbCall[c].file
        BY <1>b, <3>1 DEF SbLetsGo, SbWriting
      <4> QED
        BY <1>b, <2>3, <3>1, <4>1, <4>2
    <3>2. CASE e # c
      BY <1>b, <2>3, <3>2 DEF SbWriting
    <3> QED
      BY <3>1, <3>2
  <2> QED
    BY <2>1, <2>2, <2>3, <2>4 DEF WriterSound, SbOnlyCall
<1>5. ASSUME NEW d \in SbCalls PROVE DeleterIs(sbCall[d])'
  <2>1. CASE d = c
    BY <1>b, <2>1 DEF DeleterIs, RowOf
  <2>2. CASE d # c
    <3>1. PICK q \in SbCallRecord : q = sbCall[d]
      BY <1>a
    <3>2. DeleterIs(q)
      BY <3>1 DEF SbInv
    <3>3. DeleterIs(q)'
      BY <3>2, SbDeleterStays DEF SbOnlyCall
    <3> QED
      BY <1>b, <2>2, <3>1, <3>3 DEF DeleterIs, RowOf
  <2> QED
    BY <2>1, <2>2
<1>6. ASSUME NEW p \in Paths PROVE SbOwned(p)'
  <2>1. CASE \E d \in SbCalls : SbWriting(d) /\ sbCall[d].path = p /\ sbCall[d].file = sbDisk[p]
    <3>1. PICK d \in SbCalls : SbWriting(d) /\ sbCall[d].path = p /\ sbCall[d].file = sbDisk[p]
      BY <2>1
    <3>2. CASE d = c
      <4>1. CASE n.pc \in {"record", "compensate", "unlink"}
        BY <1>b, <3>1, <3>2, <4>1 DEF SbLetsGo, SbOnlyCall, SbOwned, SbWriting
      <4>2. CASE n.pc \notin {"record", "compensate", "unlink"}
        BY <3>1, <3>2, <4>2 DEF SbLetsGo, SbOnlyCall, SbOwned
      <4> QED
        BY <4>1, <4>2
    <3>3. CASE d # c
      BY <1>b, <3>1, <3>3 DEF SbOnlyCall, SbOwned, SbWriting
    <3> QED
      BY <3>2, <3>3
  <2>2. CASE ~ \E d \in SbCalls : SbWriting(d) /\ sbCall[d].path = p /\ sbCall[d].file = sbDisk[p]
    BY <2>2 DEF SbInv, SbOwned, SbOnlyCall
  <2> QED
    BY <2>1, <2>2
<1>7. RowsHaveFiles'
  BY <1>3 DEF RowsHaveFiles, SbOnlyCall
<1> QED
  BY <1>1, <1>2, <1>4, <1>5, <1>6, <1>7 DEF SbInv

\* The name of a subtitle of the video is one of the names: there is a file for each row.
LEMMA SbNameInRange ==
  ASSUME SbTypes, RowsKnown PROVE CountExistingSubtitles \in 0..MaxFiles
<1> DEFINE S == {r \in sbRows : r.video}
           f == [r \in S |-> r.id]
<1>1. f \in Injection(S, 1..MaxFiles)
  BY DEF SbTypes, SbRow, FileIds, RowsKnown, Injection, IsInjective
<1>2. IsFiniteSet(1..MaxFiles) /\ Cardinality(1..MaxFiles) = MaxFiles
  BY SubtitlesAssumption, FS_Interval
<1>3. IsFiniteSet(S) /\ Cardinality(S) <= MaxFiles
  BY <1>1, <1>2, FS_Injection
<1>4. Cardinality(S) \in Nat
  BY <1>3, FS_CardinalityType
<1> QED
  BY <1>3, <1>4, SubtitlesAssumption DEF CountExistingSubtitles

\* The steps of a request that touch no row and no file.
LEMMA SbMoveStep ==
  ASSUME SbInv, NEW c \in SbCalls, NEW pc \in {"fetch", "place", "write"},
         sbCall[c].pc \in {"idle", "fetch", "place"},
         NEW n \in SbCallRecord, n.pc = pc, n.row = sbCall[c].row, SbOnlyCall(c, n)
  PROVE  SbInv'
<1>1. SbLetsGo(c, n)
  BY DEF SbLetsGo, SbWriting
<1>2. DeleterIs(n)'
  BY DEF SbInv, DeleterIs, SbOnlyCall
<1> QED
  BY <1>1, <1>2, SbCallStep

\* A request that returns, and has let go of what it held.
LEMMA SbReturnStep ==
  ASSUME SbInv, NEW c \in SbCalls, SbReturns(c), SbOnlyCall(c, SbIdle), SbLetsGo(c, SbIdle)
  PROVE  SbInv'
<1>1. SbIdle \in SbCallRecord
  BY SubtitlesAssumption DEF SbIdle, SbCallRecord, SbPcs, Paths, Fallback
<1>2. DeleterIs(SbIdle)'
  BY SubtitlesAssumption DEF SbInv, SbTypes, DeleterIs, SbIdle, SbOnlyCall
<1> QED
  BY <1>1, <1>2, SbCallStep

LEMMA SbDownloadStep ==
  ASSUME SbInv, NEW c \in SbCalls, SbDownload(c) \/ SbAutoDownload(c) PROVE SbInv'
<1>1. PICK a \in BOOLEAN : sbCall' = [sbCall EXCEPT ![c].pc = "fetch", ![c].auto = a]
  BY DEF SbDownload, SbAutoDownload
<1>2. PICK n : n = [sbCall[c] EXCEPT !.pc = "fetch", !.auto = a]
  OBVIOUS
<1>3. sbCall \in [SbCalls -> SbCallRecord]
  BY DEF SbInv, SbTypes
<1>4. n \in SbCallRecord /\ n.pc = "fetch" /\ n.row = sbCall[c].row
  BY <1>2, <1>3 DEF SbCallRecord, SbPcs
<1>5. SbOnlyCall(c, n)
  BY <1>1, <1>2, <1>3 DEF SbOnlyCall, SbDownload, SbAutoDownload, OthersIdle
<1>6. sbCall[c].pc = "idle"
  BY DEF SbDownload, SbAutoDownload, SbAt
<1> QED
  BY <1>4, <1>5, <1>6, SbMoveStep

LEMMA SbNothingHeld ==
  ASSUME SbInv, NEW c \in SbCalls, sbCall[c].pc \in {"fetch", "place", "write"}
  PROVE  SbLetsGo(c, SbIdle)
BY DEF SbLetsGo, SbWriting, SbIdle

LEMMA SbFetchStep == ASSUME SbInv, NEW c \in SbCalls, SbFetch(c) PROVE SbInv'
<1>1. CASE SbReturns(c)
  <2>1. SbOnlyCall(c, SbIdle)
    BY <1>1 DEF SbReturns, SbFetch, OthersIdle, SbOnlyCall
  <2>2. SbLetsGo(c, SbIdle)
    BY SbNothingHeld DEF SbFetch, SbAt
  <2> QED
    BY <1>1, <2>1, <2>2, SbReturnStep
<1>2. CASE SbGoes(c, "place")
  <2>1. PICK n : n = [sbCall[c] EXCEPT !.pc = "place"]
    OBVIOUS
  <2>2. sbCall \in [SbCalls -> SbCallRecord]
    BY DEF SbInv, SbTypes
  <2>3. n \in SbCallRecord /\ n.pc = "place" /\ n.row = sbCall[c].row
    BY <2>1, <2>2 DEF SbCallRecord, SbPcs
  <2>4. SbOnlyCall(c, n) /\ sbCall[c].pc = "fetch"
    BY <1>2, <2>1, <2>2 DEF SbOnlyCall, SbFetch, SbAt, SbGoes, OthersIdle
  <2> QED
    BY <2>3, <2>4, SbMoveStep
<1> QED
  BY <1>1, <1>2 DEF SbFetch

LEMMA SbPlaceStep == ASSUME SbInv, NEW c \in SbCalls, SbPlace(c) PROVE SbInv'
<1>1. CASE sbItem = "gone"
  <2>1. SbReturns(c) /\ SbOnlyCall(c, SbIdle)
    BY <1>1 DEF SbReturns, SbPlace, OthersIdle, SbOnlyCall
  <2>2. SbLetsGo(c, SbIdle)
    BY SbNothingHeld DEF SbPlace, SbAt
  <2> QED
    BY <2>1, <2>2, SbReturnStep
<1>2. CASE sbItem # "gone"
  <2>1. PICK path : path = IF sbVideo = "imported" THEN CountExistingSubtitles ELSE Fallback
    OBVIOUS
  <2>2. PICK v \in BOOLEAN : v = (sbVideo = "imported")
    OBVIOUS
  <2>3. PICK n : n = [sbCall[c] EXCEPT !.pc = "write", !.video = v, !.path = path]
    OBVIOUS
  <2>4. sbCall \in [SbCalls -> SbCallRecord]
    BY DEF SbInv, SbTypes
  <2>5. path \in Paths
    BY <2>1, SbNameInRange, SubtitlesAssumption DEF SbInv, Paths, Fallback
  <2>6. n \in SbCallRecord /\ n.pc = "write" /\ n.row = sbCall[c].row
    BY <2>3, <2>4, <2>5 DEF SbCallRecord, SbPcs
  <2>7. sbCall' = [sbCall EXCEPT ![c].pc = "write", ![c].video = v, ![c].path = path]
    BY <1>2, <2>1, <2>2 DEF SbPlace
  <2>8. SbOnlyCall(c, n) /\ sbCall[c].pc = "place"
    BY <2>3, <2>4, <2>7 DEF SbOnlyCall, SbPlace, SbAt, OthersIdle
  <2> QED
    BY <2>6, <2>8, SbMoveStep
<1> QED
  BY <1>1, <1>2

\* The file made is a new one, at a free name.
LEMMA SbWrites ==
  ASSUME SbInv, NEW c \in SbCalls, sbCall[c].pc = "write", NEW f, f = sbWritten + 1,
         NEW p, p = sbCall[c].path, sbDisk[p] = 0, sbWritten < MaxFiles,
         sbWritten' = f, sbDisk' = [sbDisk EXCEPT ![p] = f],
         sbCall' = [sbCall EXCEPT ![c].pc = "record", ![c].file = f],
         UNCHANGED <<sbRows, sbVideo, sbItem, sbActor, sbRemoval, sbExcused>>
  PROVE  SbInv'
<1>a. /\ SbTypes /\ sbCall \in [SbCalls -> SbCallRecord] /\ sbDisk \in [Paths -> 0..MaxFiles]
      /\ sbWritten \in 0..MaxFiles /\ MaxFiles \in Nat /\ p \in Paths
      /\ sbRows \subseteq SbRow
  BY SubtitlesAssumption DEF SbInv, SbTypes, SbCallRecord
<1>g. f \in 1..MaxFiles
  BY <1>a
<1>b. PICK n : n = [sbCall[c] EXCEPT !.pc = "record", !.file = f]
  OBVIOUS
<1>c. /\ n.pc = "record" /\ n.file = f /\ n.path = p /\ n.row = sbCall[c].row
      /\ n \in SbCallRecord
  <2>1. sbCall[c] \in SbCallRecord /\ f \in 0..MaxFiles
    BY <1>a, <1>g
  <2>2. n \in SbCallRecord
    BY <1>b, <2>1 DEF SbCallRecord, SbPcs
  <2>3. n.pc = "record" /\ n.file = f /\ n.path = sbCall[c].path /\ n.row = sbCall[c].row
    BY <1>b, <2>1 DEF SbCallRecord
  <2> QED
    BY <2>2, <2>3
<1>d. /\ sbCall' = [sbCall EXCEPT ![c] = n] /\ sbCall'[c] = n
      /\ \A d \in SbCalls : d # c => sbCall'[d] = sbCall[d]
  BY <1>a, <1>b
<1>e. /\ sbDisk'[p] = f /\ \A x \in Paths : x # p => sbDisk'[x] = sbDisk[x]
  BY <1>a
<1>f. \A r \in sbRows : r.path \in Paths /\ r.id \in 1..MaxFiles /\ r.id <= sbWritten
  BY <1>a DEF SbInv, RowsKnown, SbRow, FileIds
<1>1. SbTypes'
  BY <1>a, <1>c, <1>d, <1>g DEF SbTypes
<1>2. RowsKnown'
  BY <1>a, <1>f DEF SbInv, RowsKnown
<1>3. RowsHaveFiles'
  <2> SUFFICES ASSUME NEW r \in sbRows
               PROVE  SbHasFile(r)' \/ (sbRemoval.pc \in {"prune", "records"} /\ r.id \in sbRemoval.rows)
    BY DEF RowsHaveFiles
  <2>1. SbHasFile(r) => SbHasFile(r)'
    <3>1. sbDisk[r.path] = r.id => sbDisk'[r.path] = r.id
      BY <1>e, <1>f
    <3>2. Holding(r) # {} => Holding(r)' # {}
      BY <1>d DEF Holding
    <3> QED
      BY <3>1, <3>2 DEF SbHasFile
  <2> QED
    BY <2>1 DEF SbInv, RowsHaveFiles
<1>4. ASSUME NEW d \in SbCalls PROVE WriterSound(d)'
  <2>r. \A e \in SbCalls : sbCall[e].row <= sbWritten /\ sbCall[e].row \in Nat
    BY <1>a DEF SbInv, DeleterIs, SbCallRecord
  <2>w. \A e \in SbCalls : SbWriting(e) => sbCall[e].file \in 1..sbWritten
    BY DEF SbInv, WriterSound
  <2>1. CASE d = c
    <3>1. f \in 1..sbWritten' /\ \A r \in sbRows' : r.id # f
      BY <1>a, <1>f
    <3>2. \A e \in SbCalls : sbCall'[e].row # f /\ ((e # d /\ SbWriting(e)') => sbCall'[e].file # f)
      BY <1>a, <1>c, <1>d, <2>1, <2>r, <2>w DEF SbWriting
    <3> QED
      BY <1>c, <1>d, <1>e, <2>1, <3>1, <3>2 DEF WriterSound
  <2>2. CASE d # c
    <3> SUFFICES ASSUME SbWriting(d)' PROVE WriterSound(d)'
      BY DEF WriterSound
    <3>1. SbWriting(d) /\ sbCall'[d] = sbCall[d]
      BY <1>d, <2>2 DEF SbWriting
    <3>2. PICK g : g = sbCall[d].file
      OBVIOUS
    <3>3. /\ g \in 1..sbWritten /\ \A r \in sbRows : r.id # g
          /\ sbDisk[sbCall[d].path] = g \/ g \in sbExcused
          /\ \A e \in SbCalls : sbCall[e].row # g /\ ((e # d /\ SbWriting(e)) => sbCall[e].file # g)
      BY <3>1, <3>2 DEF SbInv, WriterSound
    <3>4. sbDisk'[sbCall[d].path] = g \/ g \in sbExcused
      BY <1>a, <1>e, <3>3 DEF SbCallRecord
    <3>5. \A e \in SbCalls : sbCall'[e].row # g /\ ((e # d /\ SbWriting(e)') => sbCall'[e].file # g)
      BY <1>a, <1>c, <1>d, <3>3 DEF SbWriting
    <3>6. g \in 1..sbWritten' /\ \A r \in sbRows' : r.id # g
      BY <1>a, <3>3
    <3>7. sbCall'[d].file = g /\ (sbDisk'[sbCall'[d].path] = g \/ g \in sbExcused')
      BY <3>1, <3>2, <3>4
    <3> QED
      BY <3>5, <3>6, <3>7 DEF WriterSound
  <2> QED
    BY <2>1, <2>2
<1>5. ASSUME NEW d \in SbCalls PROVE DeleterIs(sbCall[d])'
  <2>0. DeleterIs(sbCall[d]) /\ sbCall[d] \in SbCallRecord
    BY <1>a DEF SbInv
  <2>1. CASE d = c
    <3>1. DeleterIs(n)'
      BY <1>a, <1>c, <2>0, <2>1 DEF DeleterIs, SbCallRecord
    <3> QED
      BY <1>d, <2>1, <3>1 DEF DeleterIs, RowOf
  <2>2. CASE d # c
    <3>1. PICK q \in SbCallRecord : q = sbCall[d]
      BY <2>0
    <3>2. \A r \in sbRows : sbDisk'[r.path] = r.id => sbDisk[r.path] = r.id
      BY <1>a, <1>e, <1>f
    <3>3. RowOf(q.row)' = RowOf(q.row) /\ RowOf(q.row) \subseteq sbRows
      BY DEF RowOf
    <3>4. q.row <= sbWritten'
      BY <1>a, <2>0, <3>1 DEF DeleterIs, SbCallRecord
    <3>5. DeleterIs(q)'
      BY <2>0, <3>1, <3>2, <3>3, <3>4 DEF DeleterIs
    <3> QED
      BY <1>d, <2>2, <3>1, <3>5 DEF DeleterIs, RowOf
  <2> QED
    BY <2>1, <2>2
<1>6. ASSUME NEW x \in Paths PROVE SbOwned(x)'
  <2>1. CASE x = p
    BY <1>c, <1>d, <1>e, <2>1 DEF SbOwned, SbWriting
  <2>2. CASE x # p
    <3>1. sbDisk'[x] = sbDisk[x] /\ SbOwned(x)
      BY <1>e, <2>2 DEF SbInv
    <3>2. \A d \in SbCalls : SbWriting(d) => (SbWriting(d)' /\ sbCall'[d] = sbCall[d])
      BY <1>d DEF SbWriting
    <3> QED
      BY <3>1, <3>2 DEF SbOwned
  <2> QED
    BY <2>1, <2>2
<1> QED
  BY <1>1, <1>2, <1>3, <1>4, <1>5, <1>6 DEF SbInv

LEMMA SbWriteStep == ASSUME SbInv, NEW c \in SbCalls, SbWrite(c) PROVE SbInv'
<1>1. CASE SbReturns(c) /\ UNCHANGED <<sbDisk, sbWritten>>
  <2>1. SbOnlyCall(c, SbIdle)
    BY <1>1 DEF SbReturns, SbWrite, OthersIdle, SbOnlyCall
  <2>2. SbLetsGo(c, SbIdle)
    BY SbNothingHeld DEF SbWrite, SbAt
  <2> QED
    BY <1>1, <2>1, <2>2, SbReturnStep
<1>2. CASE ~(SbReturns(c) /\ UNCHANGED <<sbDisk, sbWritten>>)
  <2>1. PICK f : f = sbWritten + 1
    OBVIOUS
  <2>2. PICK p : p = sbCall[c].path
    OBVIOUS
  <2>3. /\ sbCall[c].pc = "write" /\ sbDisk[p] = 0 /\ sbWritten < MaxFiles
        /\ sbWritten' = f /\ sbDisk' = [sbDisk EXCEPT ![p] = f]
        /\ sbCall' = [sbCall EXCEPT ![c].pc = "record", ![c].file = f]
        /\ UNCHANGED <<sbRows, sbVideo, sbItem, sbActor, sbRemoval, sbExcused>>
    BY <1>2, <2>1, <2>2 DEF SbWrite, SbAt, OthersIdle
  <2> QED
    BY <2>1, <2>2, <2>3, SbWrites
<1> QED
  BY <1>1, <1>2

\* What a step of one request has to show of the others: the files they wrote, and the
\* rows they delete, are as they were.
LEMMA SbOthersWrite ==
  ASSUME SbInv, NEW c \in SbCalls, NEW n \in SbCallRecord,
         sbCall' = [sbCall EXCEPT ![c] = n], n.pc \notin {"record", "compensate", "unlink"},
         n.row \in {0, sbCall[c].row},
         sbWritten' = sbWritten, sbExcused \subseteq sbExcused',
         \A r \in sbRows' : r \in sbRows \/ (SbWriting(c) /\ r.id = sbCall[c].file),
         \A d \in SbCalls \ {c} : SbWriting(d) =>
           LET q == sbCall[d] IN
             sbDisk[q.path] = q.file => (sbDisk'[q.path] = q.file \/ q.file \in sbExcused')
  PROVE  \A d \in SbCalls : WriterSound(d)'
<1> SUFFICES ASSUME NEW d \in SbCalls, SbWriting(d)' PROVE WriterSound(d)'
  BY DEF WriterSound
<1>a. sbCall \in [SbCalls -> SbCallRecord] /\ sbWritten \in 0..MaxFiles
  BY DEF SbInv, SbTypes
<1>b. sbCall'[c] = n /\ \A e \in SbCalls : e # c => sbCall'[e] = sbCall[e]
  BY <1>a
<1>1. d # c /\ SbWriting(d) /\ sbCall'[d] = sbCall[d]
  BY <1>b DEF SbWriting
<1>2. PICK g : g = sbCall[d].file
  OBVIOUS
<1>3. /\ g \in 1..sbWritten /\ \A r \in sbRows : r.id # g
      /\ sbDisk[sbCall[d].path] = g \/ g \in sbExcused
      /\ \A e \in SbCalls : sbCall[e].row # g /\ ((e # d /\ SbWriting(e)) => sbCall[e].file # g)
  BY <1>1, <1>2 DEF SbInv, WriterSound
<1>4. \A r \in sbRows' : r.id # g
  BY <1>1, <1>3
<1>5. sbDisk'[sbCall'[d].path] = g \/ g \in sbExcused'
  BY <1>1, <1>2, <1>3
<1>6. g # 0
  BY <1>3
<1>7. \A e \in SbCalls : sbCall'[e].row # g /\ ((e # d /\ SbWriting(e)') => sbCall'[e].file # g)
  BY <1>b, <1>3, <1>6 DEF SbWriting
<1>8. sbCall'[d].file = g /\ g \in 1..sbWritten'
  BY <1>1, <1>2, <1>3
<1> QED
  BY <1>4, <1>5, <1>7, <1>8 DEF WriterSound

LEMMA SbOthersDelete ==
  ASSUME SbInv, NEW c \in SbCalls, NEW n \in SbCallRecord,
         sbCall' = [sbCall EXCEPT ![c] = n], DeleterIs(n)',
         sbWritten' = sbWritten, sbExcused \subseteq sbExcused',
         sbItem' = sbItem, sbActor' = sbActor,
         \A r \in sbRows' : r \in sbRows \/ (SbWriting(c) /\ r.id = sbCall[c].file),
         \A r \in sbRows : sbDisk'[r.path] = r.id =>
           (sbDisk[r.path] = r.id \/ r.id \in sbExcused' \/ sbItem = "gone" \/ ~sbActor)
  PROVE  \A d \in SbCalls : DeleterIs(sbCall[d])'
<1> SUFFICES ASSUME NEW d \in SbCalls PROVE DeleterIs(sbCall[d])'
  OBVIOUS
<1>a. sbCall \in [SbCalls -> SbCallRecord]
  BY DEF SbInv, SbTypes
<1>b. sbCall'[c] = n /\ \A e \in SbCalls : e # c => sbCall'[e] = sbCall[e]
  BY <1>a
<1>1. CASE d = c
  BY <1>b, <1>1 DEF DeleterIs, RowOf
<1>2. CASE d # c
  <2>1. PICK q \in SbCallRecord : q = sbCall[d]
    BY <1>a
  <2>2. DeleterIs(q)
    BY <2>1 DEF SbInv
  <2>3. SbWriting(c) => q.row # sbCall[c].file
    BY <2>1 DEF SbInv, WriterSound
  <2>4. RowOf(q.row)' \subseteq RowOf(q.row) /\ RowOf(q.row) \subseteq sbRows
    BY <2>3 DEF RowOf
  <2>5. q.pc = "drop" => \A r \in RowOf(q.row) :
          (sbDisk'[r.path] = r.id /\ r.id \notin sbExcused') => (sbItem = "gone" \/ ~sbActor)
    BY <2>2, <2>4 DEF DeleterIs
  <2>6. DeleterIs(q)'
    BY <2>2, <2>4, <2>5 DEF DeleterIs
  <2> QED
    BY <1>b, <1>2, <2>1, <2>6 DEF DeleterIs, RowOf
<1> QED
  BY <1>1, <1>2

LEMMA SbIdleIs ==
  ASSUME SbInv, sbWritten' \in Nat
  PROVE  /\ SbIdle \in SbCallRecord /\ DeleterIs(SbIdle)'
         /\ SbIdle.pc = "idle" /\ SbIdle.row = 0 /\ SbIdle.file = 0
BY SubtitlesAssumption DEF SbIdle, SbCallRecord, SbPcs, Paths, Fallback, DeleterIs

\* A row is recorded for the file just written.
LEMMA SbRecords ==
  ASSUME SbInv, NEW c \in SbCalls, sbCall[c].pc = "record", SbReturns(c),
         NEW new, new = [id |-> sbCall[c].file, path |-> sbCall[c].path, video |-> sbCall[c].video],
         Names(sbCall[c].path) = {}, sbRows' = sbRows \cup {new}, sbItem = "open",
         OthersIdle, UNCHANGED <<sbDisk, sbWritten, sbExcused>>
  PROVE  SbInv'
<1>a. /\ SbTypes /\ sbCall \in [SbCalls -> SbCallRecord] /\ sbDisk \in [Paths -> 0..MaxFiles]
      /\ sbWritten \in 0..MaxFiles /\ MaxFiles \in Nat /\ sbRows \subseteq SbRow
  BY SubtitlesAssumption DEF SbInv, SbTypes
<1>b. /\ sbCall' = [sbCall EXCEPT ![c] = SbIdle] /\ sbCall'[c] = SbIdle
      /\ \A d \in SbCalls : d # c => sbCall'[d] = sbCall[d]
  BY <1>a DEF SbReturns
<1>c. /\ SbIdle \in SbCallRecord /\ DeleterIs(SbIdle)'
      /\ SbIdle.pc = "idle" /\ SbIdle.row = 0 /\ SbIdle.file = 0
  BY <1>a, SbIdleIs DEF SbInv
<1>d. PICK f, p : f = sbCall[c].file /\ p = sbCall[c].path
  OBVIOUS
<1>e. SbWriting(c) /\ new.id = f /\ new.path = p
  BY <1>d DEF SbWriting
<1>f. /\ f \in 1..sbWritten /\ \A r \in sbRows : r.id # f
      /\ sbDisk[p] = f \/ f \in sbExcused
      /\ \A d \in SbCalls : sbCall[d].row # f /\ ((d # c /\ SbWriting(d)) => sbCall[d].file # f)
  BY <1>d, <1>e DEF SbInv, WriterSound
<1>g. new \in SbRow
  BY <1>a, <1>d, <1>f DEF SbRow, SbCallRecord, FileIds
<1>h. UNCHANGED <<sbVideo, sbItem, sbActor, sbRemoval>>
  BY DEF OthersIdle
<1>1. SbTypes'
  BY <1>a, <1>b, <1>c, <1>g, <1>h DEF SbTypes
<1>2. RowsKnown'
  <2>1. \A r \in sbRows : r.path # p /\ r.id # f
    BY <1>d, <1>f DEF Names
  <2>2. f <= sbWritten
    BY <1>a, <1>f
  <2> QED
    BY <1>e, <1>h, <2>1, <2>2 DEF SbInv, RowsKnown
<1>3. RowsHaveFiles'
  <2> SUFFICES ASSUME NEW r \in sbRows'
               PROVE  SbHasFile(r)' \/ (sbRemoval.pc \in {"prune", "records"} /\ r.id \in sbRemoval.rows)
    BY <1>h DEF RowsHaveFiles
  <2>1. CASE r = new
    BY <1>e, <1>f, <2>1 DEF SbHasFile
  <2>2. CASE r \in sbRows
    <3>1. Holding(r) # {} => Holding(r)' # {}
      BY <1>b, <1>e DEF Holding, SbWriting
    <3> QED
      BY <2>2, <3>1 DEF SbInv, RowsHaveFiles, SbHasFile
  <2> QED
    BY <2>1, <2>2
<1>4. \A d \in SbCalls : WriterSound(d)'
  BY <1>b, <1>c, <1>d, <1>e, SbOthersWrite
<1>5. \A d \in SbCalls : DeleterIs(sbCall[d])'
  BY <1>b, <1>c, <1>d, <1>e, <1>h, SbOthersDelete
<1>6. ASSUME NEW x \in Paths PROVE SbOwned(x)'
  <2>1. CASE \E d \in SbCalls : SbWriting(d) /\ sbCall[d].path = x /\ sbCall[d].file = sbDisk[x]
    <3>1. PICK d \in SbCalls : SbWriting(d) /\ sbCall[d].path = x /\ sbCall[d].file = sbDisk[x]
      BY <2>1
    <3>2. CASE d = c
      BY <1>d, <1>e, <3>1, <3>2 DEF SbOwned
    <3>3. CASE d # c
      BY <1>b, <3>1, <3>3 DEF SbOwned, SbWriting
    <3> QED
      BY <3>2, <3>3
  <2>2. CASE ~ \E d \in SbCalls : SbWriting(d) /\ sbCall[d].path = x /\ sbCall[d].file = sbDisk[x]
    BY <2>2 DEF SbInv, SbOwned
  <2> QED
    BY <2>1, <2>2
<1> QED
  BY <1>1, <1>2, <1>3, <1>4, <1>5, <1>6 DEF SbInv

LEMMA SbRecordStep == ASSUME SbInv, NEW c \in SbCalls, SbRecord(c) PROVE SbInv'
<1>a. sbCall \in [SbCalls -> SbCallRecord] /\ sbCall[c].pc = "record"
  BY DEF SbInv, SbTypes, SbRecord, SbAt
<1>1. CASE sbItem = "open" /\ ValidateSubtitleActor(sbCall[c].auto) /\ Names(sbCall[c].path) = {}
  <2>1. PICK new : new = [id |-> sbCall[c].file, path |-> sbCall[c].path, video |-> sbCall[c].video]
    OBVIOUS
  <2>2. /\ SbReturns(c) /\ sbRows' = sbRows \cup {new} /\ OthersIdle
        /\ UNCHANGED <<sbDisk, sbWritten, sbExcused>>
    BY <1>1, <2>1 DEF SbRecord
  <2> QED
    BY <1>a, <1>1, <2>1, <2>2, SbRecords
<1>2. CASE ~(sbItem = "open" /\ ValidateSubtitleActor(sbCall[c].auto) /\ Names(sbCall[c].path) = {})
  <2>1. PICK n : n = [sbCall[c] EXCEPT !.pc = "compensate"]
    OBVIOUS
  <2>2. /\ n \in SbCallRecord /\ n.pc = "compensate" /\ n.file = sbCall[c].file
        /\ n.path = sbCall[c].path /\ n.row = sbCall[c].row
    BY <1>a, <2>1 DEF SbCallRecord, SbPcs
  <2>3. SbOnlyCall(c, n)
    BY <1>2, <1>a, <2>1 DEF SbOnlyCall, SbRecord, SbGoes, OthersIdle
  <2>4. SbLetsGo(c, n)
    BY <1>a, <2>2 DEF SbLetsGo, SbWriting
  <2>5. DeleterIs(n)'
    BY <2>2, <2>3 DEF SbInv, DeleterIs, SbOnlyCall
  <2> QED
    BY <2>2, <2>3, <2>4, <2>5, SbCallStep
<1> QED
  BY <1>1, <1>2

LEMMA SbCompensateStep == ASSUME SbInv, NEW c \in SbCalls, SbCompensate(c) PROVE SbInv'
<1>a. sbCall \in [SbCalls -> SbCallRecord] /\ sbCall[c].pc = "compensate"
  BY DEF SbInv, SbTypes, SbCompensate, SbAt
<1>1. CASE Names(sbCall[c].path) # {}
  <2>1. SbReturns(c) /\ SbOnlyCall(c, SbIdle) /\ sbCall[c].file \in sbExcused'
    BY <1>1 DEF SbCompensate, SbReturns, SbOnlyCall, OthersIdle
  <2>2. SbLetsGo(c, SbIdle)
    BY <1>a, <2>1 DEF SbLetsGo, SbWriting, SbIdle
  <2> QED
    BY <2>1, <2>2, SbReturnStep
<1>2. CASE Names(sbCall[c].path) = {}
  <2>1. PICK n : n = [sbCall[c] EXCEPT !.pc = "unlink"]
    OBVIOUS
  <2>2. /\ n \in SbCallRecord /\ n.pc = "unlink" /\ n.file = sbCall[c].file
        /\ n.path = sbCall[c].path /\ n.row = sbCall[c].row
    BY <1>a, <2>1 DEF SbCallRecord, SbPcs
  <2>3. SbOnlyCall(c, n)
    BY <1>2, <1>a, <2>1 DEF SbOnlyCall, SbCompensate, SbGoes, OthersIdle
  <2>4. SbLetsGo(c, n)
    BY <1>a, <2>2 DEF SbLetsGo, SbWriting
  <2>5. DeleterIs(n)'
    BY <2>2, <2>3 DEF SbInv, DeleterIs, SbOnlyCall
  <2> QED
    BY <2>2, <2>3, <2>4, <2>5, SbCallStep
<1> QED
  BY <1>1, <1>2

\* What the file removed was: no row's, and no other request's.
LEMMA SbUnlinkStep == ASSUME SbInv, NEW c \in SbCalls, SbUnlink(c) PROVE SbInv'
<1>a. /\ SbTypes /\ sbCall \in [SbCalls -> SbCallRecord] /\ sbDisk \in [Paths -> 0..MaxFiles]
      /\ sbWritten \in 0..MaxFiles /\ MaxFiles \in Nat /\ sbRows \subseteq SbRow
      /\ sbCall[c] \in SbCallRecord
  BY SubtitlesAssumption DEF SbInv, SbTypes
<1>b. /\ sbCall' = [sbCall EXCEPT ![c] = SbIdle] /\ sbCall'[c] = SbIdle
      /\ \A d \in SbCalls : d # c => sbCall'[d] = sbCall[d]
  BY <1>a DEF SbReturns, SbUnlink
<1>c. /\ SbIdle \in SbCallRecord /\ DeleterIs(SbIdle)'
      /\ SbIdle.pc = "idle" /\ SbIdle.row = 0 /\ SbIdle.file = 0
  BY <1>a, SbIdleIs DEF SbInv, SbUnlink
<1>d. PICK f, p : f = sbCall[c].file /\ p = sbCall[c].path
  OBVIOUS
<1>e. SbWriting(c) /\ p \in Paths
  BY <1>a, <1>d DEF SbUnlink, SbAt, SbWriting, SbCallRecord
<1>f. /\ f \in 1..sbWritten /\ \A r \in sbRows : r.id # f
      /\ \A d \in SbCalls : sbCall[d].row # f /\ ((d # c /\ SbWriting(d)) => sbCall[d].file # f)
  BY <1>d, <1>e DEF SbInv, WriterSound
<1>g. \A x \in Paths : sbDisk'[x] = IF x = p /\ sbDisk[p] = f THEN 0 ELSE sbDisk[x]
  BY <1>a, <1>d, <1>e DEF SbUnlink
<1>h. UNCHANGED <<sbRows, sbVideo, sbItem, sbActor, sbRemoval, sbWritten, sbExcused>>
  BY DEF OthersIdle, SbUnlink
<1>i. \A r \in sbRows : r.path \in Paths /\ r.id # 0
  BY <1>a DEF SbRow, FileIds
<1>j. sbDisk' \in [Paths -> 0..MaxFiles]
  <2>1. PICK v : v = IF sbDisk[p] = f THEN 0 ELSE sbDisk[p]
    OBVIOUS
  <2>2. sbDisk' = [sbDisk EXCEPT ![p] = v] /\ v \in 0..MaxFiles
    BY <1>a, <1>d, <1>e, <2>1 DEF SbUnlink
  <2> QED
    BY <1>a, <2>2
<1>1. SbTypes'
  BY <1>a, <1>b, <1>c, <1>h, <1>j DEF SbTypes
<1>2. RowsKnown'
  BY <1>h DEF SbInv, RowsKnown
<1>3. RowsHaveFiles'
  <2> SUFFICES ASSUME NEW r \in sbRows
               PROVE  SbHasFile(r)' \/ (sbRemoval.pc \in {"prune", "records"} /\ r.id \in sbRemoval.rows)
    BY <1>h DEF RowsHaveFiles
  <2>1. Holding(r) # {} => Holding(r)' # {}
    BY <1>b, <1>e DEF Holding, SbWriting
  <2>2. sbDisk[r.path] = r.id => sbDisk'[r.path] = r.id
    BY <1>f, <1>g, <1>i
  <2> QED
    BY <1>h, <2>1, <2>2 DEF SbInv, RowsHaveFiles, SbHasFile
<1>4. \A d \in SbCalls : WriterSound(d)'
  <2>1. \A d \in SbCalls \ {c} : SbWriting(d) =>
          (sbDisk[sbCall[d].path] = sbCall[d].file => sbDisk'[sbCall[d].path] = sbCall[d].file)
    BY <1>a, <1>f, <1>g DEF SbCallRecord
  <2> QED
    BY <1>b, <1>c, <1>h, <2>1, SbOthersWrite
<1>5. \A d \in SbCalls : DeleterIs(sbCall[d])'
  <2>1. \A r \in sbRows : sbDisk'[r.path] = r.id => sbDisk[r.path] = r.id
    BY <1>g, <1>i
  <2> QED
    BY <1>b, <1>c, <1>h, <2>1, SbOthersDelete
<1>6. ASSUME NEW x \in Paths PROVE SbOwned(x)'
  <2>1. CASE \E d \in SbCalls : SbWriting(d) /\ sbCall[d].path = x /\ sbCall[d].file = sbDisk[x]
    <3>1. PICK d \in SbCalls : SbWriting(d) /\ sbCall[d].path = x /\ sbCall[d].file = sbDisk[x]
      BY <2>1
    <3>2. CASE d = c
      BY <1>d, <1>g, <3>1, <3>2 DEF SbOwned
    <3>3. CASE d # c
      BY <1>b, <1>f, <1>g, <3>1, <3>3 DEF SbOwned, SbWriting
    <3> QED
      BY <3>2, <3>3
  <2>2. CASE ~ \E d \in SbCalls : SbWriting(d) /\ sbCall[d].path = x /\ sbCall[d].file = sbDisk[x]
    BY <1>g, <1>h, <2>2 DEF SbInv, SbOwned
  <2> QED
    BY <2>1, <2>2
<1> QED
  BY <1>1, <1>2, <1>3, <1>4, <1>5, <1>6 DEF SbInv

LEMMA SbDeleteStep == ASSUME SbInv, NEW c \in SbCalls, NEW r \in sbRows, SbDelete(c, r) PROVE SbInv'
<1>a. /\ sbCall \in [SbCalls -> SbCallRecord] /\ sbCall[c].pc = "idle" /\ sbRows \subseteq SbRow
      /\ sbWritten \in 0..MaxFiles /\ MaxFiles \in Nat
  BY SubtitlesAssumption DEF SbInv, SbTypes, SbDelete, SbAt
<1>b. r.path \in Paths /\ r.id \in 1..MaxFiles /\ r.id <= sbWritten
  BY <1>a DEF SbInv, RowsKnown, SbRow, FileIds
<1>c. /\ SbIdle \in SbCallRecord /\ SbIdle.file = 0
  BY <1>a, SubtitlesAssumption DEF SbIdle, SbCallRecord, SbPcs, Paths, Fallback
<1>1. PICK n : n = [SbIdle EXCEPT !.pc = "stage", !.path = r.path, !.row = r.id]
  OBVIOUS
<1>2. n.pc = "stage" /\ n.path = r.path /\ n.row = r.id /\ n.file = 0
  BY <1>1 DEF SbIdle
<1>3. n \in SbCallRecord
  <2>1. r.id \in 0..MaxFiles /\ 0 \in 0..MaxFiles
    BY <1>a, <1>b
  <2> QED
    BY <1>b, <1>1, <2>1 DEF SbCallRecord, SbPcs, SbIdle
<1>4. SbOnlyCall(c, n)
  BY <1>1 DEF SbOnlyCall, SbDelete, OthersIdle
<1>5. SbLetsGo(c, n)
  BY <1>a, <1>2 DEF SbLetsGo, SbWriting
<1>6. DeleterIs(n)'
  <2>1. \A s \in RowOf(n.row)' : s = r
    BY <1>2, <1>4 DEF SbInv, RowsKnown, RowOf, SbOnlyCall
  <2> QED
    BY <1>b, <1>2, <1>4, <2>1 DEF DeleterIs, SbOnlyCall
<1> QED
  BY <1>3, <1>4, <1>5, <1>6, SbCallStep

\* The file at the name is taken: the row's own, or one that is given up.
LEMMA SbStages ==
  ASSUME SbInv, NEW c \in SbCalls, sbCall[c].pc = "stage",
         NEW p, p = sbCall[c].path, NEW f, f = sbDisk[p], f # 0,
         sbDisk' = [sbDisk EXCEPT ![p] = 0],
         sbCall' = [sbCall EXCEPT ![c].pc = "drop", ![c].file = f],
         sbExcused' = sbExcused \cup ({f} \ {sbCall[c].row}),
         OthersIdle, UNCHANGED <<sbRows, sbWritten>>
  PROVE  SbInv'
<1>a. /\ SbTypes /\ sbCall \in [SbCalls -> SbCallRecord] /\ sbDisk \in [Paths -> 0..MaxFiles]
      /\ sbWritten \in 0..MaxFiles /\ MaxFiles \in Nat /\ sbRows \subseteq SbRow
      /\ sbCall[c] \in SbCallRecord /\ p \in Paths
  BY SubtitlesAssumption DEF SbInv, SbTypes, SbCallRecord
<1>b. PICK n : n = [sbCall[c] EXCEPT !.pc = "drop", !.file = f]
  OBVIOUS
<1>c. n.pc = "drop" /\ n.file = f /\ n.path = p /\ n.row = sbCall[c].row
  BY <1>a, <1>b DEF SbCallRecord
<1>d. f \in 0..MaxFiles
  BY <1>a
<1>e. n \in SbCallRecord
  BY <1>a, <1>b, <1>d DEF SbCallRecord, SbPcs
<1>f. /\ sbCall' = [sbCall EXCEPT ![c] = n] /\ sbCall'[c] = n
      /\ \A d \in SbCalls : d # c => sbCall'[d] = sbCall[d]
  BY <1>a, <1>b
<1>g. \A x \in Paths : sbDisk'[x] = IF x = p THEN 0 ELSE sbDisk[x]
  BY <1>a
<1>h. UNCHANGED <<sbRows, sbVideo, sbItem, sbActor, sbRemoval, sbWritten>>
  BY DEF OthersIdle
<1>i. \A r \in sbRows : r.path \in Paths /\ r.id # 0
  BY <1>a DEF SbRow, FileIds
<1>j. sbDisk' \in [Paths -> 0..MaxFiles]
  BY <1>a
<1>k. /\ n.row <= sbWritten /\ \A r \in RowOf(n.row) : r.path = p
  BY <1>c DEF SbInv, DeleterIs
<1>1. SbTypes'
  BY <1>a, <1>e, <1>f, <1>h, <1>j DEF SbTypes
<1>2. RowsKnown'
  BY <1>h DEF SbInv, RowsKnown
<1>3. RowsHaveFiles'
  <2> SUFFICES ASSUME NEW r \in sbRows
               PROVE  SbHasFile(r)' \/ (sbRemoval.pc \in {"prune", "records"} /\ r.id \in sbRemoval.rows)
    BY <1>h DEF RowsHaveFiles
  <2>1. Holding(r) # {} => Holding(r)' # {}
    <3> SUFFICES ASSUME NEW d \in Holding(r) PROVE d \in Holding(r)'
      BY Zenon
    <3>1. d \in SbCalls /\ d # c
      BY DEF Holding
    <3>2. sbCall'[d] = sbCall[d]
      BY <1>f, <3>1, Zenon
    <3> QED BY ONLY d \in Holding(r), <3>1, <3>2, Zenon DEF Holding
  <2>2. sbDisk[r.path] = r.id => SbHasFile(r)'
    <3>1. CASE r.path # p
      BY <1>g, <1>i, <3>1 DEF SbHasFile
    <3>2. CASE r.path = p /\ r.id # sbCall[c].row
      BY <3>2 DEF SbHasFile
    <3>3. CASE r.path = p /\ r.id = sbCall[c].row /\ sbDisk[r.path] = r.id
      <4>1. c \in Holding(r)'
        BY <1>c, <1>f, <3>3 DEF Holding
      <4> QED
        BY <4>1 DEF SbHasFile
    <3> QED
      BY <3>1, <3>2, <3>3
  <2> QED
    BY <1>h, <2>1, <2>2 DEF SbInv, RowsHaveFiles, SbHasFile
<1>4. \A d \in SbCalls : WriterSound(d)'
  <2>1. ASSUME NEW d \in SbCalls \ {c}, SbWriting(d), sbDisk[sbCall[d].path] = sbCall[d].file
        PROVE  sbDisk'[sbCall[d].path] = sbCall[d].file \/ sbCall[d].file \in sbExcused'
    <3>1. sbCall[d].path \in Paths /\ sbCall[c].row # sbCall[d].file
      BY <1>a, <2>1 DEF SbInv, WriterSound, SbCallRecord
    <3> QED
      BY <1>g, <2>1, <3>1
  <2> QED
    BY <1>c, <1>e, <1>f, <1>h, <2>1, SbOthersWrite
<1>5. \A d \in SbCalls : DeleterIs(sbCall[d])'
  <2>1. RowOf(n.row)' = RowOf(n.row) /\ RowOf(n.row) \subseteq sbRows
    BY <1>h DEF RowOf
  <2>2. \A r \in RowOf(n.row) : sbDisk'[r.path] # r.id
    BY <1>a, <1>g, <1>i, <1>k, <2>1
  <2>3. DeleterIs(n)'
    BY <1>c, <1>h, <1>k, <2>1, <2>2 DEF DeleterIs
  <2>4. \A r \in sbRows : sbDisk'[r.path] = r.id => sbDisk[r.path] = r.id
    BY <1>g, <1>i
  <2> QED
    BY <1>e, <1>f, <1>h, <2>3, <2>4, SbOthersDelete
<1>6. ASSUME NEW x \in Paths PROVE SbOwned(x)'
  <2>1. CASE x = p
    BY <1>g, <2>1 DEF SbOwned
  <2>2. CASE x # p
    <3>1. \A d \in SbCalls : SbWriting(d) => (SbWriting(d)' /\ sbCall'[d] = sbCall[d])
      BY <1>f DEF SbWriting
    <3>2. SbOwned(x) /\ sbDisk'[x] = sbDisk[x]
      BY <1>g, <2>2 DEF SbInv
    <3>3. sbExcused \subseteq sbExcused' /\ sbRows' = sbRows
      BY <1>h
    <3> QED
      BY <3>1, <3>2, <3>3 DEF SbOwned
  <2> QED
    BY <2>1, <2>2
<1> QED
  BY <1>1, <1>2, <1>3, <1>4, <1>5, <1>6 DEF SbInv

LEMMA SbStageStep == ASSUME SbInv, NEW c \in SbCalls, SbStage(c) PROVE SbInv'
<1>a. /\ sbCall \in [SbCalls -> SbCallRecord] /\ sbCall[c].pc = "stage"
      /\ sbRows \subseteq SbRow
  BY DEF SbInv, SbTypes, SbStage, SbAt
<1>b. PICK p : p = sbCall[c].path
  OBVIOUS
<1>c. PICK f : f = sbDisk[p]
  OBVIOUS
<1>1. CASE /\ f # 0 /\ sbDisk' = [sbDisk EXCEPT ![p] = 0]
           /\ sbCall' = [sbCall EXCEPT ![c].pc = "drop", ![c].file = f]
           /\ sbExcused' = sbExcused \cup ({f} \ {sbCall[c].row})
  <2>1. OthersIdle /\ UNCHANGED <<sbRows, sbWritten>>
    BY DEF SbStage
  <2> QED
    BY <1>a, <1>b, <1>c, <1>1, <2>1, SbStages
<1>2. CASE /\ SbGoes(c, "drop") /\ UNCHANGED sbDisk
           /\ (f = 0 /\ UNCHANGED sbExcused) \/ sbExcused' = sbExcused \cup {f}
  <2>1. PICK n : n = [sbCall[c] EXCEPT !.pc = "drop"]
    OBVIOUS
  <2>2. /\ n \in SbCallRecord /\ n.pc = "drop" /\ n.file = sbCall[c].file
        /\ n.path = p /\ n.row = sbCall[c].row
    BY <1>a, <1>b, <2>1 DEF SbCallRecord, SbPcs
  <2>3. SbOnlyCall(c, n)
    BY <1>2, <1>a, <2>1 DEF SbOnlyCall, SbStage, SbGoes, OthersIdle
  <2>4. SbLetsGo(c, n)
    BY <1>a, <2>2 DEF SbLetsGo, SbWriting
  <2>5. DeleterIs(n)'
    <3>1. /\ n.row <= sbWritten /\ \A r \in RowOf(n.row) : r.path = p
          /\ n.file \in {0, n.row} \cup sbExcused
      BY <1>a, <1>b, <2>2 DEF SbInv, DeleterIs
    <3>2. RowOf(n.row)' = RowOf(n.row) /\ RowOf(n.row) \subseteq sbRows
      BY <2>3 DEF RowOf, SbOnlyCall
    <3>3. \A r \in sbRows : r.id # 0
      BY <1>a DEF SbRow, FileIds
    <3>4. \A r \in RowOf(n.row) : sbDisk[r.path] = r.id => r.id \in sbExcused'
      BY <1>2, <1>c, <3>1, <3>2, <3>3
    <3> QED
      BY <2>2, <2>3, <3>1, <3>2, <3>4 DEF DeleterIs, SbOnlyCall
  <2> QED
    BY <2>2, <2>3, <2>4, <2>5, SbCallStep
<1> QED
  BY <1>b, <1>c, <1>1, <1>2 DEF SbStage

LEMMA SbDrops ==
  ASSUME SbInv, NEW c \in SbCalls, sbCall[c].pc = "drop", sbItem # "gone", sbActor,
         NEW w, w = sbCall[c].row, sbRows' = sbRows \ RowOf(w), SbReturns(c),
         OthersIdle, UNCHANGED <<sbDisk, sbWritten, sbExcused>>
  PROVE  SbInv'
<1>a. /\ SbTypes /\ sbCall \in [SbCalls -> SbCallRecord] /\ sbDisk \in [Paths -> 0..MaxFiles]
      /\ sbWritten \in 0..MaxFiles /\ MaxFiles \in Nat /\ sbRows \subseteq SbRow
      /\ sbCall[c] \in SbCallRecord
  BY SubtitlesAssumption DEF SbInv, SbTypes
<1>b. /\ sbCall' = [sbCall EXCEPT ![c] = SbIdle] /\ sbCall'[c] = SbIdle
      /\ \A d \in SbCalls : d # c => sbCall'[d] = sbCall[d]
  BY <1>a DEF SbReturns
<1>c. /\ SbIdle \in SbCallRecord /\ DeleterIs(SbIdle)'
      /\ SbIdle.pc = "idle" /\ SbIdle.row = 0 /\ SbIdle.file = 0
  BY <1>a, SbIdleIs
<1>h. UNCHANGED <<sbVideo, sbItem, sbActor, sbRemoval, sbWritten, sbExcused, sbDisk>>
  BY DEF OthersIdle
<1>i. /\ \A r \in sbRows : r.path \in Paths /\ r.id # 0
      /\ \A r \in sbRows : r \notin sbRows' => (r \in RowOf(w) /\ r.id = w)
      /\ \A r \in sbRows' : r \in sbRows /\ r.id # w
  BY <1>a DEF SbRow, FileIds, RowOf
<1>k. /\ \A r \in RowOf(w) : sbDisk[r.path] = r.id => r.id \in sbExcused
      /\ sbCall[c].file \in {0, w} \cup sbExcused
  <2>1. DeleterIs(sbCall[c])
    BY DEF SbInv
  <2> QED
    BY <2>1 DEF DeleterIs
<1>1. SbTypes'
  BY <1>a, <1>b, <1>c, <1>h DEF SbTypes
<1>2. RowsKnown'
  BY <1>h, <1>i DEF SbInv, RowsKnown
<1>3. RowsHaveFiles'
  <2> SUFFICES ASSUME NEW r \in sbRows'
               PROVE  SbHasFile(r)' \/ (sbRemoval.pc \in {"prune", "records"} /\ r.id \in sbRemoval.rows)
    BY <1>h DEF RowsHaveFiles
  <2>1. Holding(r) # {} => (Holding(r)' # {} \/ r.id \in sbExcused)
    <3>1. r.id # w /\ r.id # 0
      BY <1>i
    <3> QED
      BY <1>b, <1>k, <3>1 DEF Holding
  <2>2. r \in sbRows
    BY <1>i
  <2> QED
    BY <1>h, <2>1, <2>2 DEF SbInv, RowsHaveFiles, SbHasFile
<1>4. \A d \in SbCalls : WriterSound(d)'
  BY <1>b, <1>c, <1>h, <1>i, SbOthersWrite
<1>5. \A d \in SbCalls : DeleterIs(sbCall[d])'
  BY <1>b, <1>c, <1>h, <1>i, SbOthersDelete
<1>6. ASSUME NEW x \in Paths PROVE SbOwned(x)'
  <2>1. CASE \E r \in sbRows : r.path = x /\ r.id = sbDisk[x]
    <3>1. PICK r \in sbRows : r.path = x /\ r.id = sbDisk[x]
      BY <2>1
    <3>2. CASE r \in sbRows'
      BY <1>h, <3>1, <3>2 DEF SbOwned
    <3>3. CASE r \notin sbRows'
      BY <1>h, <1>i, <1>k, <3>1, <3>3 DEF SbOwned
    <3> QED
      BY <3>2, <3>3
  <2>2. CASE ~ \E r \in sbRows : r.path = x /\ r.id = sbDisk[x]
    <3>1. \A d \in SbCalls : SbWriting(d) => (SbWriting(d)' /\ sbCall'[d] = sbCall[d])
      BY <1>b DEF SbWriting
    <3> QED
      BY <1>h, <2>2, <3>1 DEF SbInv, SbOwned
  <2> QED
    BY <2>1, <2>2
<1> QED
  BY <1>1, <1>2, <1>3, <1>4, <1>5, <1>6 DEF SbInv

LEMMA SbDropStep == ASSUME SbInv, NEW c \in SbCalls, SbDrop(c) PROVE SbInv'
<1>a. /\ sbCall \in [SbCalls -> SbCallRecord] /\ sbCall[c].pc = "drop"
  BY DEF SbInv, SbTypes, SbDrop, SbAt
<1>b. PICK w : w = sbCall[c].row
  OBVIOUS
<1>1. CASE sbItem # "gone" /\ sbActor /\ RowOf(w) # {}
  <2>1. /\ sbRows' = sbRows \ RowOf(w) /\ SbReturns(c) /\ OthersIdle
        /\ UNCHANGED <<sbDisk, sbWritten, sbExcused>>
    BY <1>1, <1>b DEF SbDrop
  <2> QED
    BY <1>a, <1>b, <1>1, <2>1, SbDrops
<1>2. CASE ~(sbItem # "gone" /\ sbActor /\ RowOf(w) # {})
  <2>1. PICK n : n = [sbCall[c] EXCEPT !.pc = "restore"]
    OBVIOUS
  <2>2. /\ n \in SbCallRecord /\ n.pc = "restore" /\ n.file = sbCall[c].file
        /\ n.path = sbCall[c].path /\ n.row = w
    BY <1>a, <1>b, <2>1 DEF SbCallRecord, SbPcs
  <2>3. SbOnlyCall(c, n)
    BY <1>2, <1>a, <1>b, <2>1 DEF SbOnlyCall, SbDrop, SbGoes, OthersIdle
  <2>4. SbLetsGo(c, n)
    BY <1>a, <1>b, <2>2 DEF SbLetsGo, SbWriting
  <2>5. DeleterIs(n)'
    <3>1. /\ n.row <= sbWritten /\ \A r \in RowOf(w) : r.path = n.path
          /\ n.file \in {0, w} \cup sbExcused
      BY <1>a, <1>b, <2>2 DEF SbInv, DeleterIs
    <3>2. RowOf(w)' = RowOf(w)
      BY <2>3 DEF RowOf, SbOnlyCall
    <3> QED
      BY <1>2, <2>2, <2>3, <3>1, <3>2 DEF DeleterIs, SbOnlyCall
  <2> QED
    BY <2>2, <2>3, <2>4, <2>5, SbCallStep
<1> QED
  BY <1>1, <1>2

LEMMA SbRestoreStep == ASSUME SbInv, NEW c \in SbCalls, SbRestore(c) PROVE SbInv'
<1>a. /\ SbTypes /\ sbCall \in [SbCalls -> SbCallRecord] /\ sbDisk \in [Paths -> 0..MaxFiles]
      /\ sbWritten \in 0..MaxFiles /\ MaxFiles \in Nat /\ sbRows \subseteq SbRow
      /\ sbCall[c] \in SbCallRecord /\ sbCall[c].pc = "restore"
  BY SubtitlesAssumption DEF SbInv, SbTypes, SbRestore, SbAt
<1>b. /\ sbCall' = [sbCall EXCEPT ![c] = SbIdle] /\ sbCall'[c] = SbIdle
      /\ \A d \in SbCalls : d # c => sbCall'[d] = sbCall[d]
  BY <1>a DEF SbReturns, SbRestore
<1>c. /\ SbIdle \in SbCallRecord /\ DeleterIs(SbIdle)'
      /\ SbIdle.pc = "idle" /\ SbIdle.row = 0 /\ SbIdle.file = 0
  BY <1>a, SbIdleIs DEF SbRestore
<1>d. PICK f, p, w : f = sbCall[c].file /\ p = sbCall[c].path /\ w = sbCall[c].row
  OBVIOUS
<1>e. p \in Paths /\ f \in 0..MaxFiles
  BY <1>a, <1>d DEF SbCallRecord
<1>f. PICK v : v = IF sbDisk[p] = 0 THEN f ELSE sbDisk[p]
  OBVIOUS
<1>g. /\ sbDisk' = [sbDisk EXCEPT ![p] = v] /\ v \in 0..MaxFiles
      /\ sbDisk' \in [Paths -> 0..MaxFiles]
      /\ sbDisk'[p] = v /\ \A x \in Paths : x # p => sbDisk'[x] = sbDisk[x]
  BY <1>a, <1>d, <1>e, <1>f DEF SbRestore
<1>h. UNCHANGED <<sbRows, sbVideo, sbItem, sbActor, sbRemoval, sbWritten>>
  BY DEF OthersIdle, SbRestore
<1>i. \A r \in sbRows : r.path \in Paths /\ r.id # 0
  BY <1>a DEF SbRow, FileIds
<1>j. /\ sbExcused \subseteq sbExcused'
      /\ (f # 0 /\ (RowOf(w) = {} \/ sbDisk[p] # 0)) => f \in sbExcused'
  BY <1>d DEF SbRestore
<1>k. /\ \A r \in RowOf(w) : r.path = p
      /\ f \in {0, w} \cup sbExcused
      /\ sbItem = "gone" \/ ~sbActor \/ RowOf(w) = {}
  <2>1. DeleterIs(sbCall[c])
    BY DEF SbInv
  <2> QED
    BY <1>a, <1>d, <2>1 DEF DeleterIs
<1>1. SbTypes'
  BY <1>a, <1>b, <1>c, <1>g, <1>h DEF SbTypes
<1>2. RowsKnown'
  BY <1>h, <1>j DEF SbInv, RowsKnown
<1>3. RowsHaveFiles'
  <2> SUFFICES ASSUME NEW r \in sbRows
               PROVE  SbHasFile(r)' \/ (sbRemoval.pc \in {"prune", "records"} /\ r.id \in sbRemoval.rows)
    BY <1>h DEF RowsHaveFiles
  <2>1. ASSUME NEW d \in Holding(r) PROVE SbHasFile(r)'
    <3>1. CASE d = c
      <4>1. r.path = p /\ r.id = f /\ f # 0
        BY <1>d, <1>i, <2>1, <3>1 DEF Holding
      <4> QED
        BY <1>f, <1>g, <1>j, <4>1 DEF SbHasFile
    <3>2. CASE d # c
      BY <1>b, <2>1, <3>2 DEF SbHasFile, Holding
    <3> QED
      BY <3>1, <3>2
  <2>2. sbDisk[r.path] = r.id => sbDisk'[r.path] = r.id
    BY <1>f, <1>g, <1>i
  <2>3. SbHasFile(r) => SbHasFile(r)'
    BY <1>j, <2>1, <2>2 DEF SbHasFile
  <2> QED
    BY <1>h, <2>3 DEF SbInv, RowsHaveFiles
<1>4. \A d \in SbCalls : WriterSound(d)'
  <2>1. ASSUME NEW d \in SbCalls \ {c}, SbWriting(d), sbDisk[sbCall[d].path] = sbCall[d].file
        PROVE  sbDisk'[sbCall[d].path] = sbCall[d].file
    <3>1. sbCall[d].path \in Paths /\ sbCall[d].file # 0
      BY <1>a, <2>1 DEF SbInv, WriterSound, SbCallRecord
    <3> QED
      BY <1>f, <1>g, <2>1, <3>1
  <2> QED
    BY <1>b, <1>c, <1>h, <1>j, <2>1, SbOthersWrite
<1>5. \A d \in SbCalls : DeleterIs(sbCall[d])'
  <2>1. ASSUME NEW r \in sbRows, sbDisk'[r.path] = r.id
        PROVE  sbDisk[r.path] = r.id \/ r.id \in sbExcused' \/ sbItem = "gone" \/ ~sbActor
    <3>1. CASE r.path # p \/ sbDisk[p] # 0
      BY <1>f, <1>g, <1>i, <2>1, <3>1
    <3>2. CASE r.path = p /\ sbDisk[p] = 0
      <4>1. r.id = f /\ f # 0
        BY <1>f, <1>g, <1>i, <2>1, <3>2
      <4> QED
        BY <1>j, <1>k, <4>1
    <3> QED
      BY <3>1, <3>2
  <2> QED
    BY <1>b, <1>c, <1>h, <1>j, <2>1, SbOthersDelete
<1>6. ASSUME NEW x \in Paths PROVE SbOwned(x)'
  <2>1. CASE x = p /\ sbDisk[p] = 0
    <3>1. sbDisk'[x] = f
      BY <1>f, <1>g, <2>1
    <3>2. f \in {0} \cup sbExcused' \/ \E r \in sbRows : r.path = x /\ r.id = f
      BY <1>j, <1>k, <2>1 DEF RowOf
    <3> QED
      BY <1>h, <3>1, <3>2 DEF SbOwned
  <2>2. CASE x # p \/ sbDisk[p] # 0
    <3>1. \A d \in SbCalls : SbWriting(d) => (SbWriting(d)' /\ sbCall'[d] = sbCall[d])
      BY <1>a, <1>b DEF SbWriting
    <3>2. SbOwned(x) /\ sbDisk'[x] = sbDisk[x]
      BY <1>f, <1>g, <2>2 DEF SbInv
    <3> QED
      BY <1>h, <1>j, <3>1, <3>2 DEF SbOwned
  <2> QED
    BY <2>1, <2>2
<1> QED
  BY <1>1, <1>2, <1>3, <1>4, <1>5, <1>6 DEF SbInv

\* Steps of everybody else remove files and rows, and nobody's request.
SbOnlyRemoves ==
  /\ UNCHANGED <<sbCall, sbWritten>>
  /\ sbRows' \subseteq sbRows /\ sbExcused \subseteq sbExcused'
  /\ \A p \in Paths : sbDisk'[p] \in {0, sbDisk[p]}
  /\ sbItem = "gone" => sbItem' = "gone"
  /\ sbActor' => sbActor
  /\ \A c \in SbCalls : SbWriting(c) =>
       (sbDisk[sbCall[c].path] = sbCall[c].file =>
          (sbDisk'[sbCall[c].path] = sbCall[c].file \/ sbCall[c].file \in sbExcused'))
  /\ \A r \in sbRows \ sbRows' : sbDisk[r.path] = r.id => r.id \in sbExcused'

LEMMA SbRemovesStep ==
  ASSUME SbInv, SbOnlyRemoves, SbTypes', RowsHaveFiles',
         sbItem' = "gone" => \A r \in sbRows' : r.id \in sbExcused'
  PROVE  SbInv'
<1>a. /\ sbCall \in [SbCalls -> SbCallRecord] /\ sbRows \subseteq SbRow
      /\ sbCall' = sbCall /\ sbWritten' = sbWritten /\ sbRows' \subseteq sbRows
      /\ sbExcused \subseteq sbExcused'
  BY DEF SbInv, SbTypes, SbOnlyRemoves
<1>i. \A r \in sbRows : r.path \in Paths /\ r.id # 0
  BY <1>a DEF SbRow, FileIds
<1>2. RowsKnown'
  BY <1>a DEF SbInv, RowsKnown
<1>4. ASSUME NEW d \in SbCalls PROVE WriterSound(d)'
  <2> SUFFICES ASSUME SbWriting(d)' PROVE WriterSound(d)'
    BY DEF WriterSound
  <2>1. SbWriting(d) /\ \A e \in SbCalls : SbWriting(e)' => SbWriting(e)
    BY <1>a DEF SbWriting
  <2>2. PICK g, p : g = sbCall[d].file /\ p = sbCall[d].path
    OBVIOUS
  <2>3. /\ g \in 1..sbWritten /\ \A r \in sbRows : r.id # g
        /\ sbDisk[p] = g \/ g \in sbExcused
        /\ \A e \in SbCalls : sbCall[e].row # g /\ ((e # d /\ SbWriting(e)) => sbCall[e].file # g)
    BY <2>1, <2>2 DEF SbInv, WriterSound
  <2>4. sbDisk'[p] = g \/ g \in sbExcused'
    BY <1>a, <2>1, <2>2, <2>3 DEF SbOnlyRemoves
  <2> QED
    BY <1>a, <2>1, <2>2, <2>3, <2>4 DEF WriterSound
<1>5. ASSUME NEW d \in SbCalls PROVE DeleterIs(sbCall[d])'
  <2>1. PICK q \in SbCallRecord : q = sbCall[d]
    BY <1>a
  <2>2. DeleterIs(q)
    BY <2>1 DEF SbInv
  <2>3. RowOf(q.row)' \subseteq RowOf(q.row) /\ RowOf(q.row) \subseteq sbRows
    BY <1>a DEF RowOf
  <2>4. \A r \in sbRows : sbDisk'[r.path] = r.id => sbDisk[r.path] = r.id
    BY <1>i DEF SbOnlyRemoves
  <2>5. (sbItem = "gone" => sbItem' = "gone") /\ (sbActor' => sbActor)
    BY DEF SbOnlyRemoves
  <2>6. /\ q.row <= sbWritten'
        /\ q.pc \in {"stage", "drop", "restore"} =>
             /\ \A r \in RowOf(q.row)' : r.path = q.path
             /\ q.file \in {0, q.row} \cup sbExcused'
    BY <1>a, <2>2, <2>3 DEF DeleterIs
  <2>7. q.pc = "drop" => \A r \in RowOf(q.row)' :
          (sbDisk'[r.path] = r.id /\ r.id \notin sbExcused') => (sbItem' = "gone" \/ ~sbActor')
    BY <1>a, <2>2, <2>3, <2>4, <2>5 DEF DeleterIs
  <2>8. q.pc = "restore" => (sbItem' = "gone" \/ ~sbActor' \/ RowOf(q.row)' = {})
    BY <2>2, <2>3, <2>5 DEF DeleterIs
  <2>9. DeleterIs(q)'
    BY <2>6, <2>7, <2>8 DEF DeleterIs
  <2> QED
    BY <1>a, <2>1, <2>9 DEF DeleterIs, RowOf
<1>6. ASSUME NEW x \in Paths PROVE SbOwned(x)'
  <2>1. CASE sbDisk'[x] = 0
    BY <2>1 DEF SbOwned
  <2>2. CASE sbDisk'[x] = sbDisk[x]
    <3>1. CASE \E r \in sbRows : r.path = x /\ r.id = sbDisk[x]
      <4>1. PICK r \in sbRows : r.path = x /\ r.id = sbDisk[x]
        BY <3>1
      <4>2. r \in sbRows' \/ r.id \in sbExcused'
        BY <4>1 DEF SbOnlyRemoves
      <4> QED
        BY <2>2, <4>1, <4>2 DEF SbOwned
    <3>2. CASE ~ \E r \in sbRows : r.path = x /\ r.id = sbDisk[x]
      <4>1. \A d \in SbCalls : SbWriting(d) => SbWriting(d)'
        BY <1>a DEF SbWriting
      <4> QED
        BY <1>a, <2>2, <3>2, <4>1 DEF SbInv, SbOwned
    <3> QED
      BY <3>1, <3>2
  <2> QED
    BY <2>1, <2>2 DEF SbOnlyRemoves
<1> QED
  BY <1>2, <1>4, <1>5, <1>6 DEF SbInv

\* What is not removed yet has its file as before.
LEMMA SbHadFiles ==
  ASSUME SbInv, UNCHANGED <<sbCall, sbDisk>>, sbRows' \subseteq sbRows,
         sbExcused \subseteq sbExcused', sbRemoval.pc \notin {"prune", "records"}
  PROVE  RowsHaveFiles'
BY DEF SbInv, RowsHaveFiles, SbHasFile, Holding

LEMMA SbInputStep ==
  ASSUME SbInv, SbImport \/ SbActorGoes \/ SbRemoveRelease \/ SbRemoveItem PROVE SbInv'
<1>a. SbTypes /\ RowsKnown /\ RowsHaveFiles
  BY DEF SbInv
<1>b. /\ UNCHANGED <<sbCall, sbWritten, sbDisk, sbRows, sbExcused>>
      /\ sbItem = "gone" <=> sbItem' = "gone"
      /\ sbActor' => sbActor
  BY <1>a DEF SbImport, SbActorGoes, SbRemoveRelease, SbRemoveItem
<1>c. \A r \in sbRows : r.id \in FileIds
  BY <1>a DEF SbTypes, SbRow
<1>1. SbOnlyRemoves
  BY <1>b DEF SbOnlyRemoves
<1>2. sbRemoval' \in SbRemovalRecord /\ (sbRemoval'.op = "none" => sbRemoval' = NoRemoval)
  BY <1>a, <1>c DEF SbTypes, SbRemovalRecord, SbImport, SbActorGoes, SbRemoveRelease, SbRemoveItem
<1>3. SbTypes'
  <2>1. sbItem' \in {"open", "pending", "gone"} /\ sbActor' \in BOOLEAN
    BY <1>a DEF SbTypes, SbImport, SbActorGoes, SbRemoveRelease, SbRemoveItem
  <2>2. sbVideo' \in {"none", "imported", "removed"}
    BY <1>a DEF SbTypes, SbImport, SbActorGoes, SbRemoveRelease, SbRemoveItem
  <2> QED
    BY <1>a, <1>b, <1>2, <2>1, <2>2 DEF SbTypes
<1>4. RowsHaveFiles'
  <2>1. CASE sbRemoval = NoRemoval
    BY <1>b, <2>1, SbHadFiles DEF NoRemoval
  <2>2. CASE sbRemoval # NoRemoval
    <3>1. UNCHANGED sbRemoval
      BY <2>2 DEF SbImport, SbActorGoes, SbRemoveRelease, SbRemoveItem
    <3> QED
      BY <1>a, <1>b, <3>1 DEF RowsHaveFiles, SbHasFile, Holding
  <2> QED
    BY <2>1, <2>2
<1> QED
  BY <1>a, <1>b, <1>1, <1>3, <1>4, SbRemovesStep DEF RowsKnown

LEMMA SbHolds ==
  ASSUME NEW c \in SbCalls, sbCall[c].file # 0 PROVE sbCall[c].file \in InHand
<1> DEFINE hands == {{sbCall[d].file, sbCall[d].row} : d \in SbCalls}
<1>1. {sbCall[c].file, sbCall[c].row} \in hands
  OBVIOUS
<1>2. sbCall[c].file \in UNION hands
  BY <1>1
<1> QED
  BY <1>2 DEF InHand

LEMMA SbRemoveFilesStep == ASSUME SbInv, SbRemoveFiles PROVE SbInv'
<1>a. SbTypes /\ RowsKnown /\ RowsHaveFiles /\ sbRemoval.pc = "files"
  BY DEF SbInv, SbRemoveFiles
<1>b. PICK kept \in SUBSET sbRemoval.rows, failed \in BOOLEAN :
        /\ sbDisk' = [p \in Paths |->
                        IF \E r \in Names(p) : r.id \in sbRemoval.rows \ kept
                        THEN 0 ELSE sbDisk[p]]
        /\ sbExcused' = sbExcused \cup (InHand \cap {sbDisk[p] : p \in Paths})
        /\ sbRemoval' = [sbRemoval EXCEPT !.rows = @ \ kept,
                           !.pc = IF failed THEN "records" ELSE "prune"]
  BY DEF SbRemoveFiles
<1>c. UNCHANGED <<sbRows, sbWritten, sbVideo, sbItem, sbActor, sbCall>>
  BY DEF SbRemoveFiles
<1>d. /\ sbRemoval \in SbRemovalRecord /\ sbRows \subseteq SbRow
      /\ sbDisk \in [Paths -> 0..MaxFiles] /\ sbCall \in [SbCalls -> SbCallRecord]
      /\ MaxFiles \in Nat
  BY <1>a, SubtitlesAssumption DEF SbTypes
<1>e. /\ sbRemoval'.rows = sbRemoval.rows \ kept /\ sbRemoval'.pc \in {"records", "prune"}
      /\ sbRemoval'.op = sbRemoval.op /\ sbRemoval' \in SbRemovalRecord
  BY <1>b, <1>d DEF SbRemovalRecord
<1>f. \A r \in sbRows : r.path \in Paths /\ r.id # 0
  BY <1>d DEF SbRow, FileIds
<1>g. \A p \in Paths : sbDisk'[p] = IF \E r \in Names(p) : r.id \in sbRemoval.rows \ kept
                                    THEN 0 ELSE sbDisk[p]
  BY <1>b
<1>h. sbDisk' \in [Paths -> 0..MaxFiles]
  BY <1>b, <1>d
<1>1. SbTypes'
  <2>1. sbRemoval.op # "none"
    BY <1>a DEF SbTypes, NoRemoval
  <2> QED
    BY <1>a, <1>c, <1>e, <1>h, <2>1 DEF SbTypes
<1>2. ASSUME NEW c \in SbCalls, SbWriting(c), sbDisk[sbCall[c].path] = sbCall[c].file
      PROVE  sbDisk'[sbCall[c].path] = sbCall[c].file \/ sbCall[c].file \in sbExcused'
  <2>1. sbCall[c].path \in Paths /\ sbCall[c].file # 0
    BY <1>d, <1>2 DEF SbInv, WriterSound, SbCallRecord
  <2>2. sbCall[c].file \in InHand
    BY <2>1, SbHolds
  <2> QED
    BY <1>b, <1>2, <2>1, <2>2
<1>3. SbOnlyRemoves
  BY <1>a, <1>b, <1>c, <1>g, <1>2 DEF SbOnlyRemoves
<1>4. RowsHaveFiles'
  <2> SUFFICES ASSUME NEW r \in sbRows
               PROVE  SbHasFile(r)' \/ (sbRemoval'.pc \in {"prune", "records"} /\ r.id \in sbRemoval'.rows)
    BY <1>c DEF RowsHaveFiles
  <2>1. CASE r.id \in sbRemoval.rows \ kept
    BY <1>e, <2>1
  <2>2. CASE r.id \notin sbRemoval.rows \ kept
    <3>1. SbHasFile(r)
      BY <1>a DEF RowsHaveFiles
    <3>2. \A s \in Names(r.path) : s = r
      BY <1>a DEF RowsKnown, Names
    <3>3. sbDisk'[r.path] = sbDisk[r.path]
      BY <1>f, <1>g, <2>2, <3>2
    <3>4. Holding(r)' = Holding(r) /\ sbExcused \subseteq sbExcused'
      BY <1>b, <1>c DEF Holding
    <3> QED
      BY <3>1, <3>3, <3>4 DEF SbHasFile
  <2> QED
    BY <2>1, <2>2
<1>5. sbItem' = "gone" => \A r \in sbRows' : r.id \in sbExcused'
  BY <1>a, <1>b, <1>c DEF RowsKnown
<1> QED
  BY <1>1, <1>3, <1>4, <1>5, SbRemovesStep

LEMMA SbPruneStep == ASSUME SbInv, SbPrune PROVE SbInv'
<1>a. /\ SbTypes /\ sbRemoval.pc = "prune" /\ sbRemoval \in SbRemovalRecord
      /\ sbDisk \in [Paths -> 0..MaxFiles] /\ sbCall \in [SbCalls -> SbCallRecord] /\ MaxFiles \in Nat
  BY SubtitlesAssumption DEF SbInv, SbTypes, SbPrune
<1>b. UNCHANGED <<sbRows, sbWritten, sbVideo, sbItem, sbActor, sbCall>>
  BY DEF SbPrune
<1>c. /\ sbRemoval' \in SbRemovalRecord /\ sbRemoval'.op = sbRemoval.op /\ sbRemoval.op # "none"
      /\ sbRemoval'.pc = "records"
  BY <1>a DEF SbPrune, SbRemovalRecord, SbTypes, NoRemoval
<1>d. /\ sbDisk' \in [Paths -> 0..MaxFiles] /\ \A p \in Paths : sbDisk'[p] \in {0, sbDisk[p]}
  BY <1>a DEF SbPrune
<1>1. SbTypes'
  BY <1>a, <1>b, <1>c, <1>d DEF SbTypes
<1>2. \A r \in sbRows : r.id \in sbExcused'
  BY DEF SbPrune
<1>3. \A c \in SbCalls : SbWriting(c) => sbCall[c].file \in sbExcused'
  <2>1. ASSUME NEW c \in SbCalls, SbWriting(c) PROVE sbCall[c].file \in InHand
    <3>1. sbCall[c].file # 0
      BY <2>1 DEF SbInv, WriterSound
    <3> QED
      BY <3>1, SbHolds
  <2> QED
    BY <2>1 DEF SbPrune
<1>4. SbOnlyRemoves
  BY <1>b, <1>d, <1>3 DEF SbOnlyRemoves, SbPrune
<1>5. RowsHaveFiles'
  BY <1>b, <1>2 DEF RowsHaveFiles, SbHasFile
<1> QED
  BY <1>b, <1>1, <1>2, <1>4, <1>5, SbRemovesStep

LEMMA SbRemoveRecordsStep == ASSUME SbInv, SbRemoveRecords PROVE SbInv'
<1>a. /\ SbTypes /\ RowsKnown /\ RowsHaveFiles
      /\ sbRemoval.pc = "records" /\ sbRemoval \in SbRemovalRecord
  BY DEF SbInv, SbTypes, SbRemoveRecords
<1>b. UNCHANGED <<sbDisk, sbWritten, sbActor, sbCall>>
  BY DEF SbRemoveRecords
<1>c. sbVideo' \in {"none", "imported", "removed"}
  BY <1>a DEF SbTypes, SbRemoveRecords
<1>d. \A r \in sbRows : r.id # 0
  BY <1>a DEF SbTypes, SbRow, FileIds
<1>1. CASE sbRemoval.op = "release"
  <2>1. /\ sbRows' = {r \in sbRows : r.id \notin sbRemoval.rows}
        /\ sbExcused' = sbExcused \cup ({sbDisk[r.path] : r \in sbRows \ sbRows'} \ {0})
        /\ sbRemoval' = NoRemoval /\ UNCHANGED sbItem
    BY <1>1 DEF SbRemoveRecords
  <2>2. NoRemoval \in SbRemovalRecord
    BY DEF NoRemoval, SbRemovalRecord
  <2>3. SbTypes'
    BY <1>a, <1>b, <1>c, <2>1, <2>2 DEF SbTypes
  <2>4. ASSUME NEW r \in sbRows \ sbRows', sbDisk[r.path] = r.id PROVE r.id \in sbExcused'
    BY <1>d, <2>1, <2>4
  <2>5. SbOnlyRemoves
    BY <1>b, <2>1, <2>4 DEF SbOnlyRemoves
  <2>6. RowsHaveFiles'
    <3> SUFFICES ASSUME NEW r \in sbRows' PROVE SbHasFile(r)'
      BY DEF RowsHaveFiles
    <3>1. SbHasFile(r)
      BY <1>a, <2>1 DEF RowsHaveFiles
    <3> QED
      BY <1>b, <2>1, <3>1 DEF SbHasFile, Holding
  <2>7. sbItem' = "gone" => \A r \in sbRows' : r.id \in sbExcused'
    BY <1>a, <2>1 DEF RowsKnown
  <2> QED
    BY <2>3, <2>5, <2>6, <2>7, SbRemovesStep
<1>2. CASE sbRemoval.op # "release"
  <2>1. /\ sbItem' = "gone" /\ sbRemoval' = [sbRemoval EXCEPT !.pc = "none"]
        /\ sbExcused' = sbExcused \cup {r.id : r \in sbRows} /\ UNCHANGED sbRows
    BY <1>2 DEF SbRemoveRecords
  <2>2. sbRemoval' \in SbRemovalRecord /\ sbRemoval'.op = sbRemoval.op /\ sbRemoval.op # "none"
    BY <1>a, <2>1 DEF SbTypes, SbRemovalRecord, NoRemoval
  <2>3. SbTypes'
    BY <1>a, <1>b, <1>c, <2>1, <2>2 DEF SbTypes
  <2>4. \A r \in sbRows' : r.id \in sbExcused'
    BY <2>1
  <2>5. SbOnlyRemoves
    BY <1>b, <2>1 DEF SbOnlyRemoves
  <2>6. RowsHaveFiles'
    BY <2>4 DEF RowsHaveFiles, SbHasFile
  <2> QED
    BY <2>3, <2>4, <2>5, <2>6, SbRemovesStep
<1> QED
  BY <1>1, <1>2

LEMMA SbRestartStep == ASSUME SbInv, SbRestart PROVE SbInv'
<1>a. /\ SbTypes /\ RowsKnown /\ RowsHaveFiles /\ sbRemoval \in SbRemovalRecord
      /\ sbRows \subseteq SbRow
  BY DEF SbInv, SbTypes
<1>b. /\ UNCHANGED <<sbDisk, sbWritten, sbVideo, sbItem, sbActor>>
      /\ sbCall' = [c \in SbCalls |-> SbIdle]
      /\ sbRows' = IF sbItem = "gone" THEN {} ELSE sbRows
      /\ sbExcused \subseteq sbExcused' /\ InHand \subseteq sbExcused'
      /\ sbRemoval.pc # "none" => \A r \in sbRows : r.id \in sbExcused'
  BY DEF SbRestart
<1>c. /\ SbIdle \in SbCallRecord /\ DeleterIs(SbIdle)'
      /\ SbIdle.pc = "idle" /\ SbIdle.row = 0 /\ SbIdle.file = 0
  BY <1>a, <1>b, SbIdleIs, SubtitlesAssumption DEF SbTypes
<1>d. \A c \in SbCalls : sbCall'[c] = SbIdle
  BY <1>b
<1>1. SbTypes'
  <2>1. sbRemoval' \in SbRemovalRecord /\ (sbRemoval'.op = "none" => sbRemoval' = NoRemoval)
    BY <1>a DEF SbRestart, SbRemovalRecord, NoRemoval
  <2>2. sbCall' \in [SbCalls -> SbCallRecord]
    BY <1>b, <1>c
  <2> QED
    BY <1>a, <1>b, <2>1, <2>2 DEF SbTypes
<1>2. RowsKnown'
  BY <1>a, <1>b DEF RowsKnown
<1>3. RowsHaveFiles'
  <2> SUFFICES ASSUME NEW r \in sbRows' PROVE SbHasFile(r)'
    BY DEF RowsHaveFiles
  <2>1. r \in sbRows /\ r.id # 0
    BY <1>a, <1>b DEF SbRow, FileIds
  <2>2. CASE sbRemoval.pc # "none"
    BY <1>b, <2>1, <2>2 DEF SbHasFile
  <2>3. CASE sbRemoval.pc = "none"
    <3>1. SbHasFile(r)
      BY <1>a, <2>1, <2>3 DEF RowsHaveFiles
    <3>2. Holding(r) # {} => r.id \in InHand
      BY <2>1, SbHolds DEF Holding
    <3> QED
      BY <1>b, <3>1, <3>2 DEF SbHasFile
  <2> QED
    BY <2>2, <2>3
<1>4. \A c \in SbCalls : WriterSound(c)'
  BY <1>c, <1>d DEF WriterSound, SbWriting
<1>5. \A c \in SbCalls : DeleterIs(sbCall[c])'
  BY <1>c, <1>d DEF DeleterIs, RowOf
<1>6. ASSUME NEW x \in Paths PROVE SbOwned(x)'
  <2>0. SbOwned(x)
    BY DEF SbInv
  <2>1. CASE sbDisk[x] \in {0} \cup sbExcused
    BY <1>b, <2>1 DEF SbOwned
  <2>2. CASE \E r \in sbRows : r.path = x /\ r.id = sbDisk[x]
    BY <1>a, <1>b, <2>2 DEF SbOwned, RowsKnown
  <2>3. CASE \E c \in SbCalls : SbWriting(c) /\ sbCall[c].path = x /\ sbCall[c].file = sbDisk[x]
    <3>1. sbDisk[x] \in InHand \/ sbDisk[x] = 0
      BY <2>3, SbHolds
    <3> QED
      BY <1>b, <3>1 DEF SbOwned
  <2> QED
    BY <2>0, <2>1, <2>2, <2>3 DEF SbOwned
<1> QED
  BY <1>1, <1>2, <1>3, <1>4, <1>5, <1>6 DEF SbInv

LEMMA SbStep == SbInv /\ [SbNext]_sbVars => SbInv'
<1> SUFFICES ASSUME SbInv, [SbNext]_sbVars PROVE SbInv'
  OBVIOUS
<1>1. CASE UNCHANGED sbVars
  <2>1. SbInv' = SbInv
    BY <1>1 DEF sbVars, SbInv, SbTypes, RowsKnown, RowsHaveFiles, SbHasFile, Holding, WriterSound,
                SbWriting, DeleterIs, RowOf, SbOwned
  <2> QED
    BY <2>1
<1>2. ASSUME NEW c \in SbCalls,
             SbDownload(c) \/ SbAutoDownload(c) \/ SbFetch(c) \/ SbPlace(c) \/ SbWrite(c)
             \/ SbRecord(c) \/ SbCompensate(c) \/ SbUnlink(c)
      PROVE  SbInv'
  BY <1>2, SbDownloadStep, SbFetchStep, SbPlaceStep, SbWriteStep, SbRecordStep, SbCompensateStep,
     SbUnlinkStep
<1>3. ASSUME NEW c \in SbCalls, (\E r \in sbRows : SbDelete(c, r)) \/ SbStage(c) \/ SbDrop(c)
                                \/ SbRestore(c)
      PROVE  SbInv'
  BY <1>3, SbDeleteStep, SbStageStep, SbDropStep, SbRestoreStep
<1>4. CASE SbImport \/ SbActorGoes \/ SbRemoveRelease \/ SbRemoveItem
  BY <1>4, SbInputStep
<1>5. CASE SbRemoveFiles \/ SbPrune \/ SbRemoveRecords \/ SbRestart
  BY <1>5, SbRemoveFilesStep, SbPruneStep, SbRemoveRecordsStep, SbRestartStep
<1> QED
  BY <1>1, <1>2, <1>3, <1>4, <1>5 DEF SbNext

LEMMA SbInvSuffices == SbInv => SubtitlesMatchRecords
BY DEF SbInv, RowsHaveFiles, SbHasFile, SbOwned, Names, SubtitlesMatchRecords,
       RecordedSubtitleHasFile, NoStraySubtitle

\* The table of subtitles and the files beside the videos say the same, however many requests,
\* deletions and removals cross each other (Download, Delete, restore, CleanupImportedFiles),
\* but for what the code gives up on.
THEOREM SubtitlesAlwaysMatch == SbSpec => []SubtitlesMatchRecords
<1>1. SbInit => SbInv
  BY SbInitially
<1>2. SbInv /\ [SbNext]_sbVars => SbInv'
  BY SbStep
<1>3. SbInv => SubtitlesMatchRecords
  BY SbInvSuffices
<1> QED
  BY <1>1, <1>2, <1>3, PTL DEF SbSpec

-----------------------------------------------------------------------------
(* The choice of a release                                                 *)

RcSpec == RcInit /\ [][RcNext]_rcVars

\* Who comes before whom: one way for any two, and never in a circle.
Orders(before, S) ==
  /\ \A x \in S : <<x, x>> \notin before
  /\ \A x, y \in S : x # y => <<x, y>> \in before \/ <<y, x>> \in before
  /\ \A x, y, z \in S : <<x, y>> \in before /\ <<y, z>> \in before => <<x, z>> \in before

\* The place that counting those before it gives to each, which is how Arranged finds it.
Ahead(I, before, j) == {i \in I : <<i, j>> \in before}
NthOf(I, before, n) == CHOOSE j \in I : Cardinality(Ahead(I, before, j)) = n - 1

LEMMA EachHasItsPlace ==
  ASSUME NEW I, IsFiniteSet(I), NEW before, Orders(before, I)
  PROVE  /\ \A n \in 1..Cardinality(I) : NthOf(I, before, n) \in I
         /\ \A j \in I : \E n \in 1..Cardinality(I) : NthOf(I, before, n) = j
         /\ \A m, n \in 1..Cardinality(I) :
              m < n => <<NthOf(I, before, m), NthOf(I, before, n)>> \in before
<1> DEFINE c(j) == Cardinality(Ahead(I, before, j))
           N == Cardinality(I)
           f == [j \in I |-> c(j) + 1]
<1>1. N \in Nat
  BY FS_CardinalityType
<1>2. ASSUME NEW j \in I PROVE c(j) \in Nat /\ c(j) < N /\ IsFiniteSet(Ahead(I, before, j))
  <2>1. Ahead(I, before, j) \subseteq I /\ j \notin Ahead(I, before, j)
    BY <1>2 DEF Ahead, Orders
  <2>2. IsFiniteSet(Ahead(I, before, j)) /\ c(j) <= N /\ c(j) # N
    BY <2>1, FS_Subset
  <2>3. c(j) \in Nat
    BY <2>2, FS_CardinalityType
  <2> QED BY <1>1, <2>2, <2>3
<1>3. ASSUME NEW i \in I, NEW j \in I, <<i, j>> \in before PROVE c(i) < c(j)
  <2>1. Ahead(I, before, i) \subseteq Ahead(I, before, j)
    BY <1>3 DEF Ahead, Orders
  <2>2. i \in Ahead(I, before, j) /\ i \notin Ahead(I, before, i)
    BY <1>3 DEF Ahead, Orders
  <2>3. c(i) <= c(j) /\ c(i) # c(j)
    BY <1>2, <2>1, <2>2, FS_Subset
  <2> QED BY <1>2, <2>3
<1>4. ASSUME NEW i \in I, NEW j \in I, c(i) = c(j) PROVE i = j
  <2>1. ~(c(i) < c(j)) /\ ~(c(j) < c(i))
    BY <1>2, <1>4
  <2> QED BY <1>3, <2>1 DEF Orders
<1> HIDE DEF c
<1>5. f \in Injection(I, 1..N)
  <2>1. \A j \in I : c(j) + 1 \in 1..N
    BY <1>1, <1>2
  <2>2. \A i, j \in I : f[i] = f[j] => i = j
    BY <1>2, <1>4
  <2> QED BY <2>1, <2>2 DEF Injection, IsInjective
<1>6. f \in Surjection(I, 1..N)
  <2>1. IsFiniteSet(1..N) /\ Cardinality(1..N) = N
    BY <1>1, FS_Interval
  <2> QED BY <1>5, <2>1, FS_Injection
<1>7. ASSUME NEW n \in 1..N
      PROVE  NthOf(I, before, n) \in I /\ c(NthOf(I, before, n)) = n - 1
  <2>1. \E j \in I : f[j] = n
    BY <1>6 DEF Surjection
  <2>2. \E j \in I : c(j) = n - 1
    BY <1>1, <1>2, <2>1
  <2> QED BY <2>2 DEF NthOf, c
<1>8. ASSUME NEW j \in I PROVE \E n \in 1..N : NthOf(I, before, n) = j
  <2>1. c(j) + 1 \in 1..N /\ c(j) = (c(j) + 1) - 1
    BY <1>1, <1>2
  <2>2. c(NthOf(I, before, c(j) + 1)) = c(j) /\ NthOf(I, before, c(j) + 1) \in I
    BY <1>7, <2>1
  <2> QED BY <1>4, <2>1, <2>2
<1>9. ASSUME NEW m \in 1..N, NEW n \in 1..N, m < n
      PROVE  <<NthOf(I, before, m), NthOf(I, before, n)>> \in before
  <2>1. /\ c(NthOf(I, before, m)) = m - 1 /\ c(NthOf(I, before, n)) = n - 1
        /\ NthOf(I, before, m) \in I /\ NthOf(I, before, n) \in I
    BY <1>7
  <2>2. NthOf(I, before, m) # NthOf(I, before, n)
    BY <1>1, <1>9, <2>1
  <2>3. ~(c(NthOf(I, before, n)) < c(NthOf(I, before, m)))
    BY <1>1, <1>9, <2>1
  <2> QED BY <1>3, <2>1, <2>2, <2>3 DEF Orders
<1> QED BY <1>7, <1>8, <1>9

\* A list of the releases in S, each once, in this order.
Lists(list, S, order) ==
  /\ list \in Seq(RcReleases) /\ RcIn(list) = S
  /\ \A m, n \in 1..Len(list) : m < n => <<list[m], list[n]>> \in order

LEMMA ListOf ==
  ASSUME NEW list \in Seq(RcReleases)
  PROVE  /\ DOMAIN list = 1..Len(list) /\ Len(list) \in Nat /\ IsFiniteSet(DOMAIN list)
         /\ \A n \in DOMAIN list : list[n] \in RcReleases /\ list[n] \in RcIn(list) /\ n \in Nat
         /\ \A r \in RcIn(list) : r \in RcReleases /\ \E n \in DOMAIN list : list[n] = r
<1>1. DOMAIN list = 1..Len(list) /\ Len(list) \in Nat
  OBVIOUS
<1>2. IsFiniteSet(DOMAIN list)
  BY <1>1, FS_Interval
<1> QED BY <1>1, <1>2 DEF RcIn

LEMMA ArrangedIs ==
  ASSUME NEW list \in Seq(RcReleases), NEW I \in SUBSET DOMAIN list, NEW before,
         Orders(before, I)
  PROVE  LET new == Arranged(list, I, before) IN
         /\ new \in Seq(RcReleases) /\ RcIn(new) = {list[i] : i \in I}
         /\ \A m, n \in 1..Len(new) : m < n =>
              \E i, j \in I : new[m] = list[i] /\ new[n] = list[j] /\ <<i, j>> \in before
<1> DEFINE N == Cardinality(I)
           new == Arranged(list, I, before)
<1>1. IsFiniteSet(I) /\ N \in Nat
  BY ListOf, FS_Subset, FS_CardinalityType
<1>2. new = [n \in 1..N |-> list[NthOf(I, before, n)]]
  BY DEF Arranged, NthOf, Ahead
<1>3. \A n \in 1..N : NthOf(I, before, n) \in I /\ list[NthOf(I, before, n)] \in RcReleases
  BY <1>1, EachHasItsPlace, ListOf
<1>4. new \in Seq(RcReleases) /\ Len(new) = N /\ DOMAIN new = 1..N
  BY <1>1, <1>2, <1>3
<1>5. RcIn(new) = {list[i] : i \in I}
  <2>1. \A r \in RcIn(new) : r \in {list[i] : i \in I}
    BY <1>2, <1>3, <1>4 DEF RcIn
  <2>2. ASSUME NEW i \in I PROVE list[i] \in RcIn(new)
    <3>1. PICK n \in 1..N : NthOf(I, before, n) = i
      BY <1>1, EachHasItsPlace
    <3> QED BY <1>2, <1>4, <3>1 DEF RcIn
  <2> QED BY <2>1, <2>2
<1>6. ASSUME NEW m \in 1..Len(new), NEW n \in 1..Len(new), m < n
      PROVE  \E i, j \in I : new[m] = list[i] /\ new[n] = list[j] /\ <<i, j>> \in before
  <2> m \in 1..N /\ n \in 1..N
    BY <1>4
  <2>1. <<NthOf(I, before, m), NthOf(I, before, n)>> \in before
    BY <1>1, <1>6, EachHasItsPlace
  <2> QED BY <1>2, <1>3, <2>1
<1> HIDE DEF new, N
<1> QED BY <1>4, <1>5, <1>6 DEF new

LEMMA KeepLists ==
  ASSUME NEW list, NEW S, NEW order, NEW K, Lists(list, S, order)
  PROVE  Lists(Keep(list, K), S \cap K, order)
<1> DEFINE I == {i \in DOMAIN list : list[i] \in K}
           before == {ij \in I \X I : ij[1] < ij[2]}
           new == Arranged(list, I, before)
<1>1. /\ list \in Seq(RcReleases) /\ RcIn(list) = S /\ DOMAIN list = 1..Len(list)
      /\ \A i \in I : i \in Nat /\ i \in 1..Len(list) /\ list[i] \in RcIn(list)
      /\ I \in SUBSET DOMAIN list
  BY ListOf DEF Lists
<1>2. \A i, j : <<i, j>> \in before <=> i \in I /\ j \in I /\ i < j
  OBVIOUS
<1>3. Orders(before, I)
  <2> HIDE DEF before, I
  <2> QED BY <1>1, <1>2 DEF Orders
<1>4. Keep(list, K) = new
  BY DEF Keep
<1> HIDE DEF before, new
<1>5. /\ new \in Seq(RcReleases) /\ RcIn(new) = {list[i] : i \in I}
      /\ \A m, n \in 1..Len(new) : m < n =>
           \E i, j \in I : new[m] = list[i] /\ new[n] = list[j] /\ <<i, j>> \in before
  BY <1>1, <1>3, ArrangedIs DEF new
<1>6. {list[i] : i \in I} = S \cap K
  <2>1. \A r \in S \cap K : \E i \in DOMAIN list : list[i] = r
    BY <1>1, ListOf
  <2> QED BY <1>1, <2>1
<1>7. ASSUME NEW m \in 1..Len(new), NEW n \in 1..Len(new), m < n
      PROVE  <<new[m], new[n]>> \in order
  <2>1. PICK i \in I, j \in I : new[m] = list[i] /\ new[n] = list[j] /\ <<i, j>> \in before
    BY <1>5, <1>7
  <2>2. i \in 1..Len(list) /\ j \in 1..Len(list) /\ i < j
    BY <1>1, <1>2, <2>1
  <2> QED BY <2>1, <2>2 DEF Lists
<1> QED BY <1>4, <1>5, <1>6, <1>7 DEF Lists

Pairs == RcReleases \X RcReleases

\* By score, and equals as they were.
RankedBy(p, order) ==
  {rq \in Pairs :
     LET a == RankScore(rq[1], p)
         b == RankScore(rq[2], p)
     IN Lower(a, b) \/ (a = b /\ rq \in order)}

\* What carries a keyword before what does not, and otherwise as they were.
KeyedBy(keywords, order) ==
  {rq \in Pairs :
     \/ ContainsExcludedTag(rq[1], keywords) /\ ~ContainsExcludedTag(rq[2], keywords)
     \/ /\ ContainsExcludedTag(rq[1], keywords) <=> ContainsExcludedTag(rq[2], keywords)
        /\ rq \in order}

LEMMA LowerThree ==
  ASSUME NEW a1, NEW a2, NEW a3, NEW b1, NEW b2, NEW b3
  PROVE  Lower(<<a1, a2, a3>>, <<b1, b2, b3>>) <=>
           \/ a1 < b1
           \/ a1 = b1 /\ a2 < b2
           \/ a1 = b1 /\ a2 = b2 /\ a3 < b3
<1> DEFINE a == <<a1, a2, a3>>  b == <<b1, b2, b3>>
<1>1. /\ DOMAIN a = 1..3 /\ a[1] = a1 /\ a[2] = a2 /\ a[3] = a3
      /\ b[1] = b1 /\ b[2] = b2 /\ b[3] = b3
  OBVIOUS
<1>2. \A n : n \in 1..3 <=> n = 1 \/ n = 2 \/ n = 3
  OBVIOUS
<1>3. (\A m : m \notin 1..0) /\ (\A m : m \in 1..1 <=> m = 1) /\ (\A m : m \in 1..2 <=> m = 1 \/ m = 2)
  OBVIOUS
<1>4. 1 - 1 = 0 /\ 2 - 1 = 1 /\ 3 - 1 = 2
  OBVIOUS
<1> HIDE DEF a, b
<1>5. Lower(a, b) <=>
        \/ a[1] < b[1]
        \/ a[1] = b[1] /\ a[2] < b[2]
        \/ a[1] = b[1] /\ a[2] = b[2] /\ a[3] < b[3]
  BY <1>1, <1>2, <1>3, <1>4 DEF Lower
<1> QED BY <1>1, <1>5 DEF a, b

LEMMA LowerOrders ==
  ASSUME NEW a \in Nat \X Nat \X Nat, NEW b \in Nat \X Nat \X Nat
  PROVE  /\ ~Lower(a, a)
         /\ Lower(a, b) => ~Lower(b, a)
         /\ a # b => Lower(a, b) \/ Lower(b, a)
         /\ \A c \in Nat \X Nat \X Nat : Lower(a, b) /\ Lower(b, c) => Lower(a, c)
<1>1. ASSUME NEW x \in Nat \X Nat \X Nat
      PROVE  x = <<x[1], x[2], x[3]>> /\ x[1] \in Nat /\ x[2] \in Nat /\ x[3] \in Nat
  OBVIOUS
<1>2. ASSUME NEW x \in Nat \X Nat \X Nat, NEW y \in Nat \X Nat \X Nat
      PROVE  Lower(x, y) <=>
               \/ x[1] < y[1]
               \/ x[1] = y[1] /\ x[2] < y[2]
               \/ x[1] = y[1] /\ x[2] = y[2] /\ x[3] < y[3]
  <2>1. Lower(<<x[1], x[2], x[3]>>, <<y[1], y[2], y[3]>>) <=>
          \/ x[1] < y[1]
          \/ x[1] = y[1] /\ x[2] < y[2]
          \/ x[1] = y[1] /\ x[2] = y[2] /\ x[3] < y[3]
    BY LowerThree
  <2> QED BY <1>1, <2>1
<1>3. a # b => a[1] # b[1] \/ a[2] # b[2] \/ a[3] # b[3]
  BY <1>1
<1>4. \A c \in Nat \X Nat \X Nat : Lower(a, b) /\ Lower(b, c) => Lower(a, c)
  BY <1>1, <1>2
<1> QED BY <1>1, <1>2, <1>3, <1>4

LEMMA FirstIs ==
  ASSUME NEW S \in SUBSET Nat, S # {}
  PROVE  FirstOf(S) \in S /\ \A j \in S : FirstOf(S) <= j
<1>1. PICK i \in S : \A j \in S : ~(<<j, i>> \in OpToRel(<, Nat))
  BY NatLessThanWellFounded, WFMin
<1>2. \A x, y \in Nat : ~(<<y, x>> \in OpToRel(<, Nat)) => x <= y
  BY DEF OpToRel
<1>3. \A j \in S : i <= j
  BY <1>1, <1>2
<1> QED BY <1>3 DEF FirstOf

LEMMA ScoreIs ==
  ASSUME NEW list \in Seq(STRING), NEW values
  PROVE  Score(list, values) \in Nat
<1> DEFINE places == {i \in DOMAIN list : list[i] \in values}
<1>1. Len(list) \in Nat /\ places \subseteq Nat
  OBVIOUS
<1>2. places # {} => FirstOf(places) \in Nat
  BY <1>1, FirstIs
<1> QED BY <1>1, <1>2 DEF Score

LEMMA RankIs ==
  ASSUME NEW p \in RcProfiles, NEW r
  PROVE  RankScore(r, p) \in Nat \X Nat \X Nat
<1>1. p.resolutions \in Seq(STRING) /\ p.sources \in Seq(STRING) /\ p.languages \in Seq(STRING)
  BY ReleaseChoiceAssumption
<1> QED BY <1>1, ScoreIs DEF RankScore, PriorityScore, LanguageScore

LEMMA RankLists ==
  ASSUME NEW list, NEW S, NEW order, NEW p \in RcProfiles, Lists(list, S, order)
  PROVE  Lists(RankResults(list, p), S, RankedBy(p, order))
<1> DEFINE I == DOMAIN list
           a(i) == RankScore(list[i], p)
           before == {ij \in I \X I : Lower(a(ij[1]), a(ij[2])) \/ (a(ij[1]) = a(ij[2]) /\ ij[1] < ij[2])}
           new == Arranged(list, I, before)
<1>1. /\ list \in Seq(RcReleases) /\ RcIn(list) = S /\ I = 1..Len(list)
      /\ \A i \in I : i \in Nat /\ list[i] \in RcIn(list) /\ list[i] \in RcReleases
  BY ListOf DEF Lists
<1>2. \A i, j : <<i, j>> \in before <=> i \in I /\ j \in I /\ (Lower(a(i), a(j)) \/ (a(i) = a(j) /\ i < j))
  OBVIOUS
<1>3. \A i \in I : a(i) \in Nat \X Nat \X Nat
  BY RankIs
<1>4. RankResults(list, p) = new
  BY DEF RankResults
<1>5. Orders(before, I)
  <2> HIDE DEF before, a, I
  <2>1. \A i \in I : <<i, i>> \notin before
    BY <1>1, <1>2, <1>3, LowerOrders
  <2>2. ASSUME NEW i \in I, NEW j \in I, i # j
        PROVE  <<i, j>> \in before \/ <<j, i>> \in before
    <3>1. a(i) # a(j) => Lower(a(i), a(j)) \/ Lower(a(j), a(i))
      BY <1>3, LowerOrders
    <3> QED BY <1>1, <1>2, <2>2, <3>1
  <2>3. ASSUME NEW i \in I, NEW j \in I, NEW k \in I, <<i, j>> \in before, <<j, k>> \in before
        PROVE  <<i, k>> \in before
    <3>1. Lower(a(i), a(j)) /\ Lower(a(j), a(k)) => Lower(a(i), a(k))
      BY <1>3, LowerOrders
    <3> QED BY <1>1, <1>2, <2>3, <3>1
  <2> QED BY <2>1, <2>2, <2>3 DEF Orders
<1> HIDE DEF before, new
<1>6. /\ new \in Seq(RcReleases) /\ RcIn(new) = {list[i] : i \in I}
      /\ \A m, n \in 1..Len(new) : m < n =>
           \E i, j \in I : new[m] = list[i] /\ new[n] = list[j] /\ <<i, j>> \in before
  BY <1>1, <1>5, ArrangedIs DEF new
<1>7. {list[i] : i \in I} = S
  BY <1>1 DEF RcIn
<1>8. ASSUME NEW m \in 1..Len(new), NEW n \in 1..Len(new), m < n
      PROVE  <<new[m], new[n]>> \in RankedBy(p, order)
  <2>1. PICK i \in I, j \in I : new[m] = list[i] /\ new[n] = list[j] /\ <<i, j>> \in before
    BY <1>6, <1>8
  <2>2. i < j => <<list[i], list[j]>> \in order
    BY <1>1 DEF Lists
  <2>3. Lower(a(i), a(j)) \/ (a(i) = a(j) /\ <<list[i], list[j]>> \in order)
    BY <1>2, <2>1, <2>2
  <2> QED BY <1>1, <2>1, <2>3 DEF RankedBy, Pairs
<1> QED BY <1>4, <1>6, <1>7, <1>8 DEF Lists

LEMMA PreferLists ==
  ASSUME NEW list, NEW S, NEW order, NEW keywords, Lists(list, S, order)
  PROVE  Lists(PreferReleases(list, keywords), S, KeyedBy(keywords, order))
<1> DEFINE K == Named(list, keywords)
           A == Keep(list, K)
           B == Keep(list, RcIn(list) \ K)
<1>1. Lists(A, S \cap K, order) /\ Lists(B, S \cap (RcIn(list) \ K), order) /\ RcIn(list) = S
  <2>1. RcIn(list) = S
    BY DEF Lists
  <2> HIDE DEF K
  <2> QED BY <2>1, KeepLists
<1>2. /\ A \in Seq(RcReleases) /\ B \in Seq(RcReleases)
      /\ Len(A) \in Nat /\ Len(B) \in Nat
      /\ A \o B \in Seq(RcReleases) /\ Len(A \o B) = Len(A) + Len(B)
      /\ \A i \in 1..Len(A) + Len(B) : (A \o B)[i] = IF i <= Len(A) THEN A[i] ELSE B[i - Len(A)]
  BY <1>1, ConcatProperties DEF Lists
<1>3. PreferReleases(list, keywords) = A \o B
  BY DEF PreferReleases
<1>4. /\ \A i \in 1..Len(A) : A[i] \in S \cap K /\ A[i] \in RcReleases
      /\ \A i \in 1..Len(B) : B[i] \in S \ K /\ B[i] \in RcReleases
      /\ \A r \in S \cap K : \E i \in 1..Len(A) : A[i] = r
      /\ \A r \in S \ K : \E i \in 1..Len(B) : B[i] = r
  <2> HIDE DEF A, B, K
  <2> QED BY <1>1, <1>2, ListOf DEF Lists
<1>5. \A r \in S : r \in K <=> ContainsExcludedTag(r, keywords)
  BY <1>1 DEF Named
<1> DEFINE new == A \o B
<1>10. \A m \in 1..Len(new) :
        \/ m \in 1..Len(A) /\ new[m] = A[m]
        \/ m - Len(A) \in 1..Len(B) /\ m > Len(A) /\ new[m] = B[m - Len(A)]
  <2> HIDE DEF A, B, K
  <2> QED BY <1>2
<1>6. RcIn(new) = S
  <2> HIDE DEF A, B, K
  <2>1. \A m \in 1..Len(new) : new[m] \in S
    BY <1>4, <1>10
  <2>2. ASSUME NEW r \in S PROVE \E m \in 1..Len(new) : new[m] = r
    <3>1. CASE r \in K
      <4>1. PICK i \in 1..Len(A) : A[i] = r
        BY <1>4, <3>1
      <4> QED BY <1>2, <4>1
    <3>2. CASE r \notin K
      <4>1. PICK i \in 1..Len(B) : B[i] = r
        BY <1>4, <3>2
      <4>2. i + Len(A) \in 1..Len(new) /\ new[i + Len(A)] = B[i]
        BY <1>2
      <4> QED BY <4>1, <4>2
    <3> QED BY <3>1, <3>2
  <2>3. DOMAIN new = 1..Len(new)
    BY <1>2
  <2> QED BY <2>1, <2>2, <2>3 DEF RcIn
<1>7. ASSUME NEW m \in 1..Len(new), NEW n \in 1..Len(new), m < n
      PROVE  <<new[m], new[n]>> \in KeyedBy(keywords, order)
  <2> HIDE DEF A, B, K
  <2>1. CASE n \in 1..Len(A)
    <3>1. m \in 1..Len(A) /\ new[m] = A[m] /\ new[n] = A[n]
      BY <1>2, <1>7, <2>1
    <3>2. <<A[m], A[n]>> \in order
      BY <1>1, <1>7, <2>1, <3>1 DEF Lists
    <3> QED BY <1>4, <1>5, <2>1, <3>1, <3>2 DEF KeyedBy, Pairs
  <2>2. CASE m \in 1..Len(A) /\ n \notin 1..Len(A)
    <3>1. new[m] = A[m] /\ n - Len(A) \in 1..Len(B) /\ new[n] = B[n - Len(A)]
      BY <1>2, <1>7, <2>2
    <3> QED BY <1>4, <1>5, <2>2, <3>1 DEF KeyedBy, Pairs
  <2>3. CASE m \notin 1..Len(A) /\ n \notin 1..Len(A)
    <3>1. /\ m - Len(A) \in 1..Len(B) /\ new[m] = B[m - Len(A)]
          /\ n - Len(A) \in 1..Len(B) /\ new[n] = B[n - Len(A)]
          /\ m - Len(A) < n - Len(A)
      BY <1>2, <1>7, <2>3
    <3>2. <<B[m - Len(A)], B[n - Len(A)]>> \in order
      BY <1>1, <3>1 DEF Lists
    <3> QED BY <1>4, <1>5, <3>1, <3>2 DEF KeyedBy, Pairs
  <2>4. n \in 1..Len(A) \/ m \in 1..Len(A) \/ (m \notin 1..Len(A) /\ n \notin 1..Len(A))
    OBVIOUS
  <2> QED BY <2>1, <2>2, <2>3
<1> HIDE DEF A, B, K
<1> QED BY <1>2, <1>3, <1>6, <1>7 DEF Lists

LEMMA TakenIs ==
  ASSUME NEW list, NEW S, NEW order, NEW suits, Lists(list, S, order)
  PROVE  LET places == {i \in DOMAIN list : list[i] \in suits}
             first == list[FirstOf(places)]
         IN IF places = {} THEN S \cap suits = {}
            ELSE first \in S \cap suits /\ \A r \in S \cap suits : r # first => <<first, r>> \in order
<1> DEFINE places == {i \in DOMAIN list : list[i] \in suits}
           first == list[FirstOf(places)]
<1>1. /\ list \in Seq(RcReleases) /\ RcIn(list) = S /\ DOMAIN list = 1..Len(list)
      /\ places \subseteq Nat /\ \A i \in places : list[i] \in S \cap suits
      /\ \A r \in S \cap suits : \E i \in places : list[i] = r
  BY ListOf DEF Lists
<1>2. places = {} => S \cap suits = {}
  BY <1>1
<1>3. ASSUME places # {}
      PROVE  first \in S \cap suits /\ \A r \in S \cap suits : r # first => <<first, r>> \in order
  <2> HIDE DEF places
  <2>1. FirstOf(places) \in places /\ \A j \in places : FirstOf(places) <= j
    BY <1>1, <1>3, FirstIs
  <2>2. ASSUME NEW r \in S \cap suits, r # first PROVE <<first, r>> \in order
    <3>1. PICK i \in places : list[i] = r
      BY <1>1
    <3>2. FirstOf(places) # i
      BY <2>2, <3>1
    <3>5. FirstOf(places) \in Nat /\ i \in Nat /\ FirstOf(places) <= i
      BY <1>1, <2>1
    <3>4. FirstOf(places) < i
      BY <3>2, <3>5
    <3>3. FirstOf(places) \in 1..Len(list) /\ i \in 1..Len(list)
      BY <1>1, <2>1, <3>1 DEF places
    <3> QED BY <3>1, <3>3, <3>4 DEF Lists
  <2> QED BY <1>1, <2>1, <2>2
<1> HIDE DEF places
<1> QED BY <1>2, <1>3 DEF places

\* The order of the search.
InSearch(results) == {rq \in Pairs : PlaceOf(rq[1], results) < PlaceOf(rq[2], results)}

LEMMA FirstBelow ==
  ASSUME NEW n \in Nat, NEW S \in SUBSET (1..n)
  PROVE  FirstOf(S \cup {n + 1}) = IF S = {} THEN n + 1 ELSE FirstOf(S)
<1>1. S \cup {n + 1} \subseteq Nat /\ S \subseteq Nat
  OBVIOUS
<1>2. FirstOf(S \cup {n + 1}) \in S \cup {n + 1} /\ \A j \in S \cup {n + 1} : FirstOf(S \cup {n + 1}) <= j
  BY <1>1, FirstIs
<1>3. S # {} => FirstOf(S) \in S /\ \A j \in S : FirstOf(S) <= j
  BY <1>1, FirstIs
<1>4. CASE S = {}
  BY <1>2, <1>4
<1>5. CASE S # {}
  <2> DEFINE a == FirstOf(S \cup {n + 1})  b == FirstOf(S)
  <2>0. a \in S \cup {n + 1} /\ (\A j \in S \cup {n + 1} : a <= j) /\ b \in S /\ \A j \in S : b <= j
    BY <1>2, <1>3, <1>5
  <2> HIDE DEF a, b
  <2>1. a \in Nat /\ b \in Nat /\ a <= b /\ b <= n
    BY <2>0
  <2>2. a \in S
    BY <2>0, <2>1
  <2>3. a = b
    BY <2>0, <2>1, <2>2
  <2> QED BY <1>5, <2>3 DEF a, b
<1> QED BY <1>4, <1>5

LEMMA SearchLists ==
  ASSUME NEW results \in Results
  PROVE  Lists(results, RcIn(results), InSearch(results))
<1>1. PICK k \in 1..RcMaxResults : results \in [1..k -> RcReleases]
  BY DEF Results
<1>2. results \in Seq(RcReleases) /\ Len(results) \in Nat /\ DOMAIN results = 1..Len(results)
  BY <1>1, ReleaseChoiceAssumption
<1>3. ASSUME NEW n \in 1..Len(results) PROVE PlaceOf(results[n], results) = n /\ results[n] \in RcReleases
  <2>1. {i \in DOMAIN results : results[i] = results[n]} = {n}
    BY <1>2 DEF Results
  <2>2. FirstOf({n}) = n
    BY FirstIs
  <2>3. PlaceOf(results[n], results) = FirstOf({n} \cup {Len(results) + 1})
    BY <2>1, Zenon DEF PlaceOf
  <2>4. {n} \in SUBSET (1..Len(results)) /\ {n} # {}
    BY <1>2
  <2>5. FirstOf({n} \cup {Len(results) + 1}) = FirstOf({n})
    BY <1>2, <2>4, FirstBelow, Zenon
  <2> QED BY <1>1, <1>2, <2>2, <2>3, <2>5
<1>4. \A m, n \in 1..Len(results) : m < n => <<results[m], results[n]>> \in InSearch(results)
  BY <1>3 DEF InSearch, Pairs
<1> QED BY <1>2, <1>4 DEF Lists

\* The score of a list and the place in it tell the same of what the profile admits ...
LEMMA PlacesAgree ==
  ASSUME NEW list \in Seq(STRING), NEW v, NEW w, Meets(v, list), Meets(w, list)
  PROVE  LET x(u) == IF Len(list) > 1 THEN PriorityScore(u, list) ELSE 0 IN
         /\ PlaceOf(v, list) \in Nat /\ PlaceOf(w, list) \in Nat
         /\ x(v) < x(w) => PlaceOf(v, list) < PlaceOf(w, list)
         /\ x(v) = x(w) => PlaceOf(v, list) = PlaceOf(w, list)
<1> DEFINE At(u) == {n \in DOMAIN list : list[n] = u}
<1>1. DOMAIN list = 1..Len(list) /\ Len(list) \in Nat
  OBVIOUS
<1>2. ASSUME NEW u, Meets(u, list)
      PROVE  /\ PlaceOf(u, list) \in Nat
             /\ Len(list) > 1 => PriorityScore(u, list) = PlaceOf(u, list)
             /\ Len(list) <= 1 => PlaceOf(u, list) = 1
  <2>1. At(u) \subseteq 1..Len(list)
    BY <1>1
  <2>2. At(u) = {n \in DOMAIN list : list[n] \in {u}}
    OBVIOUS
  <2>3. PlaceOf(u, list) = IF At(u) = {} THEN Len(list) + 1 ELSE FirstOf(At(u))
    BY <1>1, <2>1, FirstBelow DEF PlaceOf
  <2>4. list # <<>> => PriorityScore(u, list) = PlaceOf(u, list)
    BY <2>2, <2>3 DEF PriorityScore, Score
  <2>5. At(u) # {} => FirstOf(At(u)) \in At(u)
    <3>1. At(u) \in SUBSET Nat
      BY <1>1, <2>1
    <3> HIDE DEF At
    <3> QED BY <3>1, FirstIs
  <2>6. PlaceOf(u, list) \in Nat
    BY <1>1, <2>1, <2>3, <2>5
  <2>7. CASE Len(list) = 0
    BY <1>1, <2>1, <2>3, <2>6, <2>7
  <2>8. CASE Len(list) > 0
    <3>1. list # <<>>
      BY <2>8
    <3>2. \E n \in DOMAIN list : list[n] = u
      BY <1>2, <3>1 DEF Meets, RcIn
    <3>3. At(u) # {}
      BY <3>2
    <3> HIDE DEF At
    <3> QED BY <1>1, <2>1, <2>3, <2>4, <2>5, <2>6, <2>8, <3>1, <3>3
  <2> QED BY <1>1, <2>7, <2>8
<1> QED BY <1>1, <1>2

\* ... and so do the score of the languages and the first one spoken.
LEMMA LanguagesAgree ==
  ASSUME NEW p \in RcProfiles, NEW r
  PROVE  /\ FirstSpoken(r, p) \in Nat
         /\ p.languages # <<>> => LanguageScore(r, p) = FirstSpoken(r, p)
         /\ p.languages = <<>> => FirstSpoken(r, p) = 1
<1> DEFINE spoken == {n \in DOMAIN p.languages : Speaks(r, p, n)}
           scored == {n \in DOMAIN p.languages : p.languages[n] \in DetectedLanguages(r, p)}
<1>1. p.languages \in Seq(STRING) /\ DOMAIN p.languages = 1..Len(p.languages) /\ Len(p.languages) \in Nat
  BY ReleaseChoiceAssumption
<1>2. spoken \subseteq 1..Len(p.languages) /\ spoken \subseteq Nat
  BY <1>1
<1>3. FirstSpoken(r, p) = IF spoken = {} THEN Len(p.languages) + 1 ELSE FirstOf(spoken)
  BY <1>1, <1>2, FirstBelow DEF FirstSpoken
<1>4. spoken # {} => FirstOf(spoken) \in spoken /\ \A n \in spoken : FirstOf(spoken) <= n
  <2> HIDE DEF spoken
  <2> QED BY <1>2, FirstIs
<1>5. FirstSpoken(r, p) \in Nat
  <2>1. Len(p.languages) + 1 \in Nat
    BY <1>1
  <2>2. spoken # {} => FirstOf(spoken) \in Nat
    <3> HIDE DEF spoken
    <3> QED BY <1>2, <1>4
  <2> HIDE DEF spoken
  <2> QED BY <1>3, <2>1, <2>2
<1>6. CASE p.languages = <<>>
  BY <1>1, <1>2, <1>3, <1>5, <1>6
<1>7. CASE p.languages # <<>> /\ "multi" \in Parsed[r].langs
  <2>1. spoken = 1..Len(p.languages) /\ 1 \in spoken
    BY <1>1, <1>7 DEF Speaks
  <2>2. FirstOf(spoken) = 1
    <3> HIDE DEF spoken
    <3> QED BY <1>2, <1>4, <2>1
  <2> QED BY <1>3, <1>5, <1>7, <2>1, <2>2 DEF LanguageScore
<1>8. CASE p.languages # <<>> /\ "multi" \notin Parsed[r].langs
  <2>1. spoken = scored
    <3>1. ASSUME NEW n \in DOMAIN p.languages
          PROVE  Speaks(r, p, n) <=> p.languages[n] \in DetectedLanguages(r, p)
      BY <1>8 DEF Speaks, DetectedLanguages, RcIn
    <3> QED BY <3>1
  <2>2. LanguageScore(r, p) = IF scored = {} THEN Len(p.languages) + 1 ELSE FirstOf(scored)
    BY <1>8 DEF LanguageScore, Score
  <2>3. LanguageScore(r, p) = FirstSpoken(r, p)
    <3> HIDE DEF spoken, scored
    <3> QED BY <1>3, <2>1, <2>2
  <2> QED BY <1>5, <1>8, <2>3
<1> QED BY <1>6, <1>7, <1>8

LEMMA LowerTwo ==
  ASSUME NEW a1, NEW a2, NEW b1, NEW b2
  PROVE  Lower(<<a1, a2>>, <<b1, b2>>) <=> a1 < b1 \/ (a1 = b1 /\ a2 < b2)
<1> DEFINE a == <<a1, a2>>  b == <<b1, b2>>
<1>1. DOMAIN a = 1..2 /\ a[1] = a1 /\ a[2] = a2 /\ b[1] = b1 /\ b[2] = b2
  OBVIOUS
<1>2. \A n : n \in 1..2 <=> n = 1 \/ n = 2
  OBVIOUS
<1>3. (\A m : m \notin 1..(1 - 1)) /\ (\A m : m \in 1..(2 - 1) <=> m = 1)
  OBVIOUS
<1> HIDE DEF a, b
<1>4. Lower(a, b) <=> a[1] < b[1] \/ (a[1] = b[1] /\ a[2] < b[2])
  BY <1>1, <1>2, <1>3 DEF Lower
<1> QED BY <1>1, <1>4 DEF a, b

LEMMA LowerFive ==
  ASSUME NEW a1, NEW a2, NEW a3, NEW a4, NEW a5, NEW b1, NEW b2, NEW b3, NEW b4, NEW b5
  PROVE  Lower(<<a1, a2, a3, a4, a5>>, <<b1, b2, b3, b4, b5>>) <=>
           \/ a1 < b1
           \/ a1 = b1 /\ a2 < b2
           \/ a1 = b1 /\ a2 = b2 /\ a3 < b3
           \/ a1 = b1 /\ a2 = b2 /\ a3 = b3 /\ a4 < b4
           \/ a1 = b1 /\ a2 = b2 /\ a3 = b3 /\ a4 = b4 /\ a5 < b5
<1> DEFINE a == <<a1, a2, a3, a4, a5>>  b == <<b1, b2, b3, b4, b5>>
<1>1. /\ DOMAIN a = 1..5 /\ a[1] = a1 /\ a[2] = a2 /\ a[3] = a3 /\ a[4] = a4 /\ a[5] = a5
      /\ b[1] = b1 /\ b[2] = b2 /\ b[3] = b3 /\ b[4] = b4 /\ b[5] = b5
  OBVIOUS
<1>2. \A n : n \in 1..5 <=> n = 1 \/ n = 2 \/ n = 3 \/ n = 4 \/ n = 5
  OBVIOUS
<1>3. /\ \A m : m \notin 1..(1 - 1)
      /\ \A m : m \in 1..(2 - 1) <=> m = 1
      /\ \A m : m \in 1..(3 - 1) <=> m = 1 \/ m = 2
      /\ \A m : m \in 1..(4 - 1) <=> m = 1 \/ m = 2 \/ m = 3
      /\ \A m : m \in 1..(5 - 1) <=> m = 1 \/ m = 2 \/ m = 3 \/ m = 4
  OBVIOUS
<1> HIDE DEF a, b
<1>4. Lower(a, b) <=>
        \/ a[1] < b[1]
        \/ a[1] = b[1] /\ a[2] < b[2]
        \/ a[1] = b[1] /\ a[2] = b[2] /\ a[3] < b[3]
        \/ a[1] = b[1] /\ a[2] = b[2] /\ a[3] = b[3] /\ a[4] < b[4]
        \/ a[1] = b[1] /\ a[2] = b[2] /\ a[3] = b[3] /\ a[4] = b[4] /\ a[5] < b[5]
  BY <1>1, <1>2, <1>3 DEF Lower
<1> QED BY <1>1, <1>4 DEF a, b

Keyed(keywords, r) == IF ContainsExcludedTag(r, keywords) THEN 0 ELSE 1

\* What the keywords make of a list: some of it, if they are forced, and else an order.
ByKeywords(list, keywords, force) ==
  IF force THEN FilterByRelease(list, keywords) ELSE PreferReleases(list, keywords)
StillIn(S, keywords, force) ==
  {r \in S : force /\ keywords # {} => ContainsExcludedTag(r, keywords)}

LEMMA KeywordsDecide ==
  ASSUME NEW list, NEW S, NEW order, NEW keywords, NEW force \in BOOLEAN, Lists(list, S, order)
  PROVE  \E by : /\ Lists(ByKeywords(list, keywords, force), StillIn(S, keywords, force), by)
                 /\ \A t, r : <<t, r>> \in by /\ {t, r} \subseteq StillIn(S, keywords, force) =>
                      \/ Keyed(keywords, t) < Keyed(keywords, r)
                      \/ Keyed(keywords, t) = Keyed(keywords, r) /\ <<t, r>> \in order
<1> DEFINE left == StillIn(S, keywords, force)
<1>1. CASE ~force
  <2>1. Lists(PreferReleases(list, keywords), S, KeyedBy(keywords, order)) /\ left = S
    BY <1>1, PreferLists DEF StillIn
  <2>2. \A t, r : <<t, r>> \in KeyedBy(keywords, order) =>
          \/ Keyed(keywords, t) < Keyed(keywords, r)
          \/ Keyed(keywords, t) = Keyed(keywords, r) /\ <<t, r>> \in order
    BY DEF KeyedBy, Keyed
  <2> QED BY <1>1, <2>1, <2>2 DEF ByKeywords
<1>2. CASE force /\ keywords = {}
  <2>1. FilterByRelease(list, keywords) = list /\ left = S
    BY <1>2 DEF FilterByRelease, StillIn
  <2>2. \A r : Keyed(keywords, r) = 1
    BY <1>2 DEF Keyed, ContainsExcludedTag
  <2> QED BY <1>2, <2>1, <2>2 DEF ByKeywords
<1>3. CASE force /\ keywords # {}
  <2>1. RcIn(list) = S
    BY DEF Lists
  <2>2. S \cap Named(list, keywords) = left
    BY <1>3, <2>1 DEF Named, StillIn
  <2>3. Lists(FilterByRelease(list, keywords), left, order)
    BY <1>3, <2>2, KeepLists DEF FilterByRelease
  <2>4. \A r \in left : Keyed(keywords, r) = 0
    BY <1>3 DEF Keyed, StillIn
  <2> QED BY <1>3, <2>3, <2>4 DEF ByKeywords
<1> QED BY <1>1, <1>2, <1>3

\* What PreferredTo compares by the profile.
Ranks(r, p) ==
  <<PlaceOf(Parsed[r].res, p.resolutions),
    IF p.mode = "or" THEN FirstSpoken(r, p) ELSE 0,
    PlaceOf(Parsed[r].src, p.sources)>>

\* What the profile makes of the results of a search.
LEMMA ProfileDecides ==
  ASSUME NEW results \in Results, NEW p \in RcProfiles
  PROVE  LET left == {r \in RcIn(results) : MatchesCriteria(r, p)} IN
         /\ Lists(RankResults(FilterByProfile(results, p), p), left, RankedBy(p, InSearch(results)))
         /\ \A r \in left : Ranks(r, p) \in Nat \X Nat \X Nat
         /\ \A t, r \in left : <<t, r>> \in RankedBy(p, InSearch(results)) =>
              \/ Lower(Ranks(t, p), Ranks(r, p))
              \/ Ranks(t, p) = Ranks(r, p) /\ <<t, r>> \in InSearch(results)
<1> DEFINE left == {r \in RcIn(results) : MatchesCriteria(r, p)}
           order == InSearch(results)
           filtered == FilterByProfile(results, p)
<1>1. Lists(filtered, left, order)
  <2>1. Lists(results, RcIn(results), order)
    BY SearchLists
  <2>2. filtered = Keep(results, left)
    BY DEF FilterByProfile, MatchesCriteria
  <2>3. Lists(Keep(results, left), RcIn(results) \cap left, order)
    <3> HIDE DEF left, order
    <3> QED BY <2>1, KeepLists
  <2>4. RcIn(results) \cap left = left
    OBVIOUS
  <2> QED BY <2>2, <2>3, <2>4
<1>2. Lists(RankResults(filtered, p), left, RankedBy(p, order))
  <2> HIDE DEF left, order, filtered
  <2> QED BY <1>1, RankLists
<1>3. ASSUME NEW t \in left, NEW r \in left
      PROVE  /\ Ranks(r, p) \in Nat \X Nat \X Nat
             /\ <<t, r>> \in RankedBy(p, order) =>
                  \/ Lower(Ranks(t, p), Ranks(r, p))
                  \/ Ranks(t, p) = Ranks(r, p) /\ <<t, r>> \in order
  <2> DEFINE res(x) == PlaceOf(Parsed[x].res, p.resolutions)
             lang(x) == IF p.mode = "or" THEN FirstSpoken(x, p) ELSE 0
             src(x) == PlaceOf(Parsed[x].src, p.sources)
             sRes(x) == IF Len(p.resolutions) > 1 THEN PriorityScore(Parsed[x].res, p.resolutions) ELSE 0
             sLang(x) == IF p.languages # <<>> /\ p.mode # "and" THEN LanguageScore(x, p) ELSE 0
             sSrc(x) == IF Len(p.sources) > 1 THEN PriorityScore(Parsed[x].src, p.sources) ELSE 0
  <2>1. /\ p.resolutions \in Seq(STRING) /\ p.sources \in Seq(STRING) /\ p.mode \in {"and", "or"}
    BY ReleaseChoiceAssumption
  <2>2. /\ Meets(Parsed[t].res, p.resolutions) /\ Meets(Parsed[r].res, p.resolutions)
        /\ Meets(Parsed[t].src, p.sources) /\ Meets(Parsed[r].src, p.sources)
    BY DEF MatchesCriteria, MatchesProfile
  <2>3. /\ res(t) \in Nat /\ res(r) \in Nat
        /\ sRes(t) < sRes(r) => res(t) < res(r)
        /\ sRes(t) = sRes(r) => res(t) = res(r)
    BY <2>1, <2>2, PlacesAgree
  <2>4. /\ src(t) \in Nat /\ src(r) \in Nat
        /\ sSrc(t) < sSrc(r) => src(t) < src(r)
        /\ sSrc(t) = sSrc(r) => src(t) = src(r)
    BY <2>1, <2>2, PlacesAgree
  <2>5. /\ lang(t) \in Nat /\ lang(r) \in Nat
        /\ sLang(t) < sLang(r) => lang(t) < lang(r)
        /\ sLang(t) = sLang(r) => lang(t) = lang(r)
    <3>1. /\ FirstSpoken(t, p) \in Nat /\ FirstSpoken(r, p) \in Nat
          /\ p.languages # <<>> => /\ LanguageScore(t, p) = FirstSpoken(t, p)
                                   /\ LanguageScore(r, p) = FirstSpoken(r, p)
          /\ p.languages = <<>> => FirstSpoken(t, p) = 1 /\ FirstSpoken(r, p) = 1
      BY LanguagesAgree
    <3> QED BY <2>1, <3>1
  <2>6. /\ RankScore(t, p) = <<sRes(t), sLang(t), sSrc(t)>>
        /\ RankScore(r, p) = <<sRes(r), sLang(r), sSrc(r)>>
    BY DEF RankScore
  <2>7. <<t, r>> \in RankedBy(p, order) =>
          \/ Lower(RankScore(t, p), RankScore(r, p))
          \/ RankScore(t, p) = RankScore(r, p) /\ <<t, r>> \in order
    BY <1>3 DEF RankedBy
  <2>10. Ranks(t, p) = <<res(t), lang(t), src(t)>> /\ Ranks(r, p) = <<res(r), lang(r), src(r)>>
    BY DEF Ranks
  <2> HIDE DEF res, lang, src, sRes, sLang, sSrc
  <2>11. Ranks(r, p) \in Nat \X Nat \X Nat
    BY <2>3, <2>4, <2>5, <2>10
  <2>8. CASE RankScore(t, p) = RankScore(r, p) /\ <<t, r>> \in order
    <3>1. sRes(t) = sRes(r) /\ sLang(t) = sLang(r) /\ sSrc(t) = sSrc(r)
      BY <2>6, <2>8
    <3>2. res(t) = res(r) /\ lang(t) = lang(r) /\ src(t) = src(r)
      BY <2>3, <2>4, <2>5, <3>1
    <3> QED BY <2>8, <2>10, <2>11, <3>2
  <2>9. CASE Lower(RankScore(t, p), RankScore(r, p))
    <3>1. \/ sRes(t) < sRes(r)
          \/ sRes(t) = sRes(r) /\ sLang(t) < sLang(r)
          \/ sRes(t) = sRes(r) /\ sLang(t) = sLang(r) /\ sSrc(t) < sSrc(r)
      BY <2>6, <2>9, LowerThree
    <3>2. \/ res(t) < res(r)
          \/ res(t) = res(r) /\ lang(t) < lang(r)
          \/ res(t) = res(r) /\ lang(t) = lang(r) /\ src(t) < src(r)
      BY <2>3, <2>4, <2>5, <3>1
    <3>3. Lower(<<res(t), lang(t), src(t)>>, <<res(r), lang(r), src(r)>>)
      BY <3>2, LowerThree
    <3> QED BY <2>10, <2>11, <3>3
  <2> QED BY <2>7, <2>8, <2>9, <2>11
<1> QED BY <1>2, <1>3

\* What a choice is made from is a search; and what was chosen is the best of it.
RcGiven ==
  /\ rcSearch.results \in Results
  /\ rcSearch.profile \in {{}} \cup {{p} : p \in RcProfiles}
  /\ rcSearch.force \in BOOLEAN
  /\ rcSearch.suits \subseteq RcIn(rcSearch.results)
RcInv ==
  /\ rcSearch = RcIdle => ~rcPick.done
  /\ rcSearch # RcIdle => RcGiven
  /\ BestPicked

\* The list that the pickers walk down has what is admitted, the preferred ones first.
LEMMA ListIsPreferred ==
  ASSUME RcGiven
  PROVE  \E S, by :
           /\ Lists(FilterResults(rcSearch), S, by)
           /\ S = {r \in RcIn(rcSearch.results) : Admitted(r)}
           /\ \A t, r \in S : <<t, r>> \in by \/ t = r => ~PreferredTo(r, t)
<1> DEFINE results == rcSearch.results
           keywords == rcSearch.preferred
           force == rcSearch.force
           found(x) == PlaceOf(x, results)
           keyed(x) == Keyed(keywords, x)
<1>1. results \in Results /\ force \in BOOLEAN
  BY DEF RcGiven
<1>2. \A r : keyed(r) \in Nat
  BY DEF Keyed
<1>3. \A t, r : <<t, r>> \in InSearch(results) => found(t) < found(r)
  BY DEF InSearch
<1>4. \A x : found(x) \in Nat
  <2> SUFFICES ASSUME NEW x PROVE found(x) \in Nat
    OBVIOUS
  <2>1. PICK k \in 1..RcMaxResults : results \in [1..k -> RcReleases]
    BY <1>1 DEF Results
  <2>2. Len(results) \in Nat /\ DOMAIN results = 1..Len(results)
    BY <2>1, ReleaseChoiceAssumption
  <2> DEFINE at == {n \in DOMAIN results : results[n] = x} \cup {Len(results) + 1}
  <2>3. at \in SUBSET Nat /\ at # {}
    BY <2>2
  <2> HIDE DEF at
  <2>4. FirstOf(at) \in Nat
    BY <2>3, FirstIs
  <2> QED BY <2>4 DEF at, PlaceOf
<1>5. CASE rcSearch.profile = {}
  <2> DEFINE S == RcIn(results)
  <2>1. Lists(results, S, InSearch(results)) /\ FilterResults(rcSearch) = ByKeywords(results, keywords, force)
    BY <1>1, <1>5, SearchLists DEF FilterResults, ByKeywords
  <2>2. PICK by : /\ Lists(ByKeywords(results, keywords, force), StillIn(S, keywords, force), by)
                  /\ \A t, r : <<t, r>> \in by /\ {t, r} \subseteq StillIn(S, keywords, force) =>
                       \/ keyed(t) < keyed(r)
                       \/ keyed(t) = keyed(r) /\ <<t, r>> \in InSearch(results)
    <3> HIDE DEF S, results, keywords, force
    <3> QED BY <1>1, <2>1, KeywordsDecide
  <2>3. StillIn(S, keywords, force) = {r \in RcIn(results) : Admitted(r)}
    BY <1>5 DEF Admitted, StillIn
  <2>4. ASSUME NEW t \in StillIn(S, keywords, force), NEW r \in StillIn(S, keywords, force),
               <<t, r>> \in by \/ t = r
        PROVE  ~PreferredTo(r, t)
    <3>1. t = r \/ keyed(t) < keyed(r) \/ (keyed(t) = keyed(r) /\ found(t) < found(r))
      BY <1>3, <2>2, <2>4
    <3>2. keyed(t) \in Nat /\ keyed(r) \in Nat /\ found(t) \in Nat /\ found(r) \in Nat
      BY <1>2, <1>4
    <3> HIDE DEF keyed, found
    <3>3. ~(keyed(r) < keyed(t) \/ (keyed(r) = keyed(t) /\ found(r) < found(t)))
      BY <3>1, <3>2
    <3>4. ~Lower(<<keyed(r), found(r)>>, <<keyed(t), found(t)>>)
      BY <3>3, LowerTwo
    <3> QED BY <1>5, <3>4 DEF PreferredTo, Keyed, keyed, found
  <2> QED BY <2>1, <2>2, <2>3, <2>4
<1>6. ASSUME NEW p \in RcProfiles, rcSearch.profile = {p}
      PROVE  \E S, by :
               /\ Lists(FilterResults(rcSearch), S, by)
               /\ S = {r \in RcIn(results) : Admitted(r)}
               /\ \A t, r \in S : <<t, r>> \in by \/ t = r => ~PreferredTo(r, t)
  <2> DEFINE S == {r \in RcIn(results) : MatchesCriteria(r, p)}
             list == RankResults(FilterByProfile(results, p), p)
             order == RankedBy(p, InSearch(results))
  <2>1. /\ Lists(list, S, order)
        /\ \A r \in S : Ranks(r, p) \in Nat \X Nat \X Nat
        /\ \A t, r \in S : <<t, r>> \in order =>
             \/ Lower(Ranks(t, p), Ranks(r, p))
             \/ Ranks(t, p) = Ranks(r, p) /\ <<t, r>> \in InSearch(results)
    BY <1>1, ProfileDecides
  <2>2. FilterResults(rcSearch) = ByKeywords(list, keywords, force)
    <3>1. (CHOOSE q \in rcSearch.profile : TRUE) = p /\ rcSearch.profile # {}
      BY <1>6
    <3> QED BY <3>1 DEF FilterResults, ByKeywords
  <2>3. PICK by : /\ Lists(ByKeywords(list, keywords, force), StillIn(S, keywords, force), by)
                  /\ \A t, r : <<t, r>> \in by /\ {t, r} \subseteq StillIn(S, keywords, force) =>
                       \/ keyed(t) < keyed(r)
                       \/ keyed(t) = keyed(r) /\ <<t, r>> \in order
    <3> HIDE DEF S, list, order, results, keywords, force
    <3> QED BY <1>1, <2>1, KeywordsDecide
  <2>4. StillIn(S, keywords, force) = {r \in RcIn(results) : Admitted(r)}
    BY <1>6 DEF Admitted, StillIn
  <2>5. ASSUME NEW t \in StillIn(S, keywords, force), NEW r \in StillIn(S, keywords, force),
               <<t, r>> \in by \/ t = r
        PROVE  ~PreferredTo(r, t)
    <3> DEFINE a(x) == PlaceOf(Parsed[x].res, p.resolutions)
               b(x) == IF p.mode = "or" THEN FirstSpoken(x, p) ELSE 0
               c(x) == PlaceOf(Parsed[x].src, p.sources)
               five(x) == <<keyed(x), a(x), b(x), c(x), found(x)>>
    <3>1. keyed(t) \in Nat /\ keyed(r) \in Nat /\ found(t) \in Nat /\ found(r) \in Nat
      BY <1>2, <1>4
    <3>2. t \in S /\ r \in S
      BY DEF StillIn
    <3>3. Ranks(t, p) = <<a(t), b(t), c(t)>> /\ Ranks(r, p) = <<a(r), b(r), c(r)>>
      BY DEF Ranks
    <3>4. Ranks(t, p) \in Nat \X Nat \X Nat /\ Ranks(r, p) \in Nat \X Nat \X Nat
      BY <2>1, <3>2
    <3>5. \/ t = r
          \/ keyed(t) < keyed(r)
          \/ keyed(t) = keyed(r) /\ Lower(Ranks(t, p), Ranks(r, p))
          \/ keyed(t) = keyed(r) /\ Ranks(t, p) = Ranks(r, p) /\ found(t) < found(r)
      BY <1>3, <2>1, <2>3, <2>5, <3>2
    <3> HIDE DEF keyed, found, a, b, c
    <3>6. a(t) \in Nat /\ b(t) \in Nat /\ c(t) \in Nat /\ a(r) \in Nat /\ b(r) \in Nat /\ c(r) \in Nat
      BY <3>3, <3>4
    <3>7. Lower(Ranks(t, p), Ranks(r, p)) =>
            \/ a(t) < a(r)
            \/ a(t) = a(r) /\ b(t) < b(r)
            \/ a(t) = a(r) /\ b(t) = b(r) /\ c(t) < c(r)
      BY <3>3, LowerThree
    <3>8. Ranks(t, p) = Ranks(r, p) => a(t) = a(r) /\ b(t) = b(r) /\ c(t) = c(r)
      BY <3>3
    <3>9. ~Lower(five(r), five(t))
      BY <3>1, <3>5, <3>6, <3>7, <3>8, LowerFive
    <3> QED BY <1>6, <3>9 DEF PreferredTo, Keyed, keyed, found, a, b, c
  <2> QED BY <2>2, <2>3, <2>4, <2>5
<1> QED BY <1>5, <1>6 DEF RcGiven

LEMMA ChoiceIsBest ==
  ASSUME RcGiven, RcChoose
  PROVE  BestPicked'
<1> DEFINE list == FilterResults(rcSearch)
           suits == rcSearch.suits
           places == {i \in DOMAIN list : list[i] \in suits}
           first == list[FirstOf(places)]
           eligible == {r \in suits : Admitted(r)}
<1>1. PICK S, by : /\ Lists(list, S, by)
                   /\ S = {r \in RcIn(rcSearch.results) : Admitted(r)}
                   /\ \A t, r \in S : <<t, r>> \in by \/ t = r => ~PreferredTo(r, t)
  BY ListIsPreferred
<1>2. S \cap suits = eligible
  BY <1>1 DEF RcGiven
<1>3. IF places = {} THEN S \cap suits = {}
      ELSE first \in S \cap suits
           /\ \A r \in S \cap suits : r # first => <<first, r>> \in by
  <2> HIDE DEF list, suits
  <2>1. Lists(list, S, by)
    BY <1>1
  <2> QED BY <2>1, TakenIs
<1>4. rcPick'.taken = (IF places = {} THEN {} ELSE {first}) /\ rcSearch' = rcSearch
  BY DEF RcChoose
<1> HIDE DEF list, places, first
<1>5. /\ rcPick'.taken \subseteq eligible
      /\ rcPick'.taken = {} => eligible = {}
  BY <1>2, <1>3, <1>4
<1>6. ASSUME NEW t \in rcPick'.taken, NEW r \in eligible PROVE ~PreferredTo(r, t)
  <2>1. t = first /\ t \in S /\ r \in S /\ (<<t, r>> \in by \/ t = r)
    BY <1>2, <1>3, <1>4
  <2> QED BY <1>1, <2>1
<1>7. (\A r : Admitted(r)' <=> Admitted(r)) /\ (\A r, t : PreferredTo(r, t)' <=> PreferredTo(r, t))
  BY <1>4 DEF Admitted, PreferredTo
<1> QED BY <1>4, <1>5, <1>6, <1>7 DEF BestPicked

\* The release that the monitor takes is the best one admitted, and it takes one if there is one,
\* for lists of results of any length, any profiles and keywords (indexer/filter.go:54).
THEOREM BestAlwaysPicked == RcSpec => []BestPicked
<1>1. RcInit => RcInv
  BY DEF RcInit, RcInv, BestPicked
<1>2. RcInv /\ [RcNext]_rcVars => RcInv'
  <2> SUFFICES ASSUME RcInv, [RcNext]_rcVars PROVE RcInv'
    OBVIOUS
  <2>1. CASE RcSearch
    <3>5. PICK results \in Results, profile \in {{}} \cup {{p} : p \in RcProfiles},
               force \in BOOLEAN, preferred \in {{}, RcKeywords} :
            \E but \in {{}, {results[1]}} :
              rcSearch' = [results |-> results, profile |-> profile, force |-> force,
                           preferred |-> preferred, suits |-> RcIn(results) \ but]
      BY <2>1 DEF RcSearch
    <3>1. PICK but \in {{}, {results[1]}} :
            rcSearch' = [results |-> results, profile |-> profile, force |-> force,
                         preferred |-> preferred, suits |-> RcIn(results) \ but]
      BY <3>5
    <3>2. rcSearch = RcIdle /\ rcPick' = rcPick
      BY <2>1 DEF RcSearch
    <3>3. RcGiven'
      BY <3>1 DEF RcGiven
    <3>4. BestPicked'
      BY <3>2 DEF RcInv, BestPicked
    <3> QED BY <3>2, <3>3, <3>4 DEF RcInv
  <2>2. CASE RcChoose
    <3>1. rcSearch # RcIdle /\ rcSearch' = rcSearch /\ RcGiven
      BY <2>2 DEF RcChoose, RcInv
    <3>2. RcGiven'
      BY <3>1 DEF RcGiven
    <3> QED BY <2>2, <3>1, <3>2, ChoiceIsBest DEF RcInv
  <2>3. CASE UNCHANGED rcVars
    BY <2>3 DEF rcVars, RcInv, RcGiven, BestPicked, Admitted, PreferredTo
  <2> QED BY <2>1, <2>2, <2>3 DEF RcNext
<1>3. RcInv => BestPicked
  BY DEF RcInv
<1> QED BY <1>1, <1>2, <1>3, PTL DEF RcSpec
=============================================================================
