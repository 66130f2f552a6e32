------------------------------- MODULE Upgrade -------------------------------
(***************************************************************************)
(* From one release to the next: updater.Service looks for releases and    *)
(* replaces the running binary by the one it downloaded; every start       *)
(* brings the schema of the database up to the binary's migrations, or     *)
(* adopts a database of the time before schema_migrations, or refuses it.  *)
(* A file is known by how often ".bak" is appended to the name of the      *)
(* executable.  On Linux os.Executable names the running file as it was    *)
(* last renamed, also once another has taken its place.                    *)
(* The process may be killed between any two steps.  SQLite's transactions *)
(* and golang-migrate, which drives the driver of migrator.go, are         *)
(* external.                                                               *)
(***************************************************************************)
EXTENDS Naturals, FiniteSets

CONSTANTS
  UpVersions,       \* releases 1..n; 0 stands for no file
  MigrationsOf,     \* latestMigrationVersion of each release
  UpCalls,          \* requests to apply the update
  UpMaxBackups,     \* how often ".bak" is appended at most
  UpMaxCrashes,
  UpFaults          \* {"install", "exec", "script"}: steps that may fail

ASSUME UpgradeAssumption ==
  /\ UpVersions \subseteq Nat \ {0} /\ 1 \in UpVersions
  /\ MigrationsOf \in [UpVersions -> Nat \ {0}]
  /\ \A v, w \in UpVersions : v < w => MigrationsOf[v] <= MigrationsOf[w]
  /\ UpMaxBackups \in Nat /\ UpMaxCrashes \in Nat
  /\ UpFaults \subseteq {"install", "exec", "script"}

VARIABLES
  upOffered,  \* newest release on GitHub
  upFile,     \* the files exe, exe.bak, exe.bak.bak, ...: a release, or 0
  upRunning,  \* release of the process, 0 when there is none
  upSelf,     \* the file it runs: last name, and whether that file is there or overwritten
  upCheck,    \* a check for updates: the release it fetched, 0 when none is under way
  upLatest,   \* Service.latest, 0 for nil
  upApply,    \* the Apply calls: where each is, the release, the executable as resolved
  upDb,       \* the database as committed
  upTx,       \* the database in the open transaction, {} when there is none
  upBoot,     \* where runSchemaMigrations is
  upDriver,   \* the driver's pendingVersion, 0 when not pending, and pendingApplied
  upCrash     \* kills so far, and whether exe was lost as its Apply was cut off or undercut

upVars == <<upOffered, upFile, upRunning, upSelf, upCheck, upLatest, upApply, upDb, upTx, upBoot,
            upDriver, upCrash>>
upBinary == <<upOffered, upFile, upSelf, upCheck, upLatest, upApply>>
upSchema == <<upDb, upTx, upBoot, upDriver>>

UpMigrations == 1..MigrationsOf[CHOOSE v \in UpVersions : \A w \in UpVersions : w <= v]
UpIdle == [pc |-> "idle", release |-> 0, path |-> 0]
UpNames == 0..UpMaxBackups
UpNotPending == [version |-> 0, applied |-> FALSE]

\* tables: the tables of the legacy system, "old" below baselineSchemaVersion; applied: the
\* migrations whose effects are in the schema, and twice: those that ran on a schema that had
\* them.  version: the row of schema_migrations, 0 when there is none.
UpDb == [tables : {"none", "old", "complete"}, applied : SUBSET UpMigrations,
         twice : SUBSET UpMigrations, version : {0} \cup UpMigrations]

UpTypeOK ==
  /\ upFile \in [UpNames -> {0} \cup UpVersions]
  /\ upSelf \in [path : UpNames, there : BOOLEAN]
  /\ upDb \in UpDb /\ upTx \subseteq UpDb
  /\ upApply \in [UpCalls -> [pc : {"idle", "fetched", "downloaded", "resolved", "moved", "restore",
                                    "exec"},
                              release : {0} \cup UpVersions, path : UpNames]]
  /\ upBoot \in {"down", "decide", "force", "up", "next", "run", "record", "serving", "failed", "refused"}

UpInit ==
  /\ upOffered = 1 /\ upFile = [n \in UpNames |-> IF n = 0 THEN 1 ELSE 0]
  /\ upRunning = 0 /\ upSelf = [path |-> 0, there |-> TRUE]
  /\ upCheck = 0 /\ upLatest = 0 /\ upApply = [c \in UpCalls |-> UpIdle]
  /\ upDb \in {[tables |-> t, applied |-> IF t = "complete" THEN {1} ELSE {},
                twice |-> {}, version |-> 0] : t \in {"none", "old", "complete"}}
  /\ upTx = {} /\ upBoot = "down" /\ upDriver = UpNotPending
  /\ upCrash = [kills |-> 0, lost |-> FALSE]

-----------------------------------------------------------------------------
(* The start: sqlite.New, runSchemaMigrations. *)

\* The file of that name is started.
UpBoots(path) ==
  /\ upRunning' = upFile[path] /\ upSelf' = [path |-> path, there |-> TRUE]
  /\ upBoot' = "decide" /\ upTx' = {} /\ upDriver' = UpNotPending
  /\ upLatest' = 0 /\ upCheck' = 0 /\ upApply' = [c \in UpCalls |-> UpIdle]

\* systemd starts exe.
UpStart ==
  /\ upRunning = 0 /\ upFile[0] # 0
  /\ UpBoots(0)
  /\ UNCHANGED <<upOffered, upFile, upDb, upCrash>>

\* adoptionDecision, with the version table made if need be.
UpDecide ==
  /\ upBoot = "decide"
  /\ upBoot' = IF upDb.tables = "none" /\ upDb.applied = {} THEN "up"
               ELSE IF upDb.version # 0 THEN "up"
               ELSE IF upDb.tables = "complete" THEN "force" ELSE "refused"
  /\ UNCHANGED <<upRunning, upDb, upTx, upDriver, upCrash, upBinary>>

\* Force(baselineVersion): SetVersion(1, false), nothing pending, in a transaction.
UpForce ==
  /\ upBoot = "force" /\ upBoot' = "up"
  /\ upDb' = [upDb EXCEPT !.version = 1] /\ upDriver' = UpNotPending
  /\ UNCHANGED <<upRunning, upTx, upCrash, upBinary>>

\* m.Up: the next migration is marked dirty, which the driver only remembers.  A version that
\* the binary has no migration for is an error.
UpNext ==
  /\ upBoot = "up"
  /\ IF upDb.version < MigrationsOf[upRunning]
     THEN upBoot' = "run" /\ upDriver' = [version |-> upDb.version + 1, applied |-> FALSE]
     ELSE /\ upBoot' = IF upDb.version = MigrationsOf[upRunning] THEN "serving" ELSE "failed"
          /\ UNCHANGED upDriver
  /\ UNCHANGED <<upRunning, upDb, upTx, upCrash, upBinary>>

Applied(db, m) == [db EXCEPT !.applied = @ \cup {m},
                             !.twice = IF m \in db.applied THEN @ \cup {m} ELSE @]

\* Run: the script in a transaction.
UpRun ==
  /\ upBoot = "run" /\ upTx = {}
  /\ upTx' = {Applied(upDb, upDriver.version)}
  /\ UNCHANGED <<upRunning, upDb, upBoot, upDriver, upCrash, upBinary>>

\* Mutant: the script is committed by itself, and the version by SetVersion.
UpCommitScript ==
  /\ upBoot = "run" /\ upTx # {}
  /\ \E db \in upTx : upDb' = db
  /\ upDriver' = [upDriver EXCEPT !.applied = FALSE]
  /\ upTx' = {} /\ upBoot' = "record"
  /\ UNCHANGED <<upRunning, upCrash, upBinary>>

\* ... and its version recorded in the same transaction.
UpCommit ==
  /\ upBoot = "run" /\ upTx # {}
  /\ \E db \in upTx : upDb' = [db EXCEPT !.version = upDriver.version]
  /\ upDriver' = [upDriver EXCEPT !.applied = TRUE]
  /\ upTx' = {} /\ upBoot' = "record"
  /\ UNCHANGED <<upRunning, upCrash, upBinary>>

\* A script that fails is rolled back, and the server does not start.
UpScriptFails ==
  /\ "script" \in UpFaults
  /\ upBoot = "run" /\ upTx # {} /\ upTx' = {} /\ upBoot' = "failed"
  /\ UNCHANGED <<upRunning, upDb, upDriver, upCrash, upBinary>>

\* SetVersion(version, false) after the run: nothing to do when Run has recorded it.
UpRecord ==
  /\ upBoot = "record" /\ upBoot' = "up"
  /\ upDb' = IF upDriver.applied THEN upDb ELSE [upDb EXCEPT !.version = upDriver.version]
  /\ upDriver' = UpNotPending
  /\ UNCHANGED <<upRunning, upTx, upCrash, upBinary>>

\* A start that failed ends the process, and so does a database it refuses.
UpExit ==
  /\ upBoot \in {"failed", "refused"} /\ upRunning' = 0 /\ upBoot' = "down"
  /\ UNCHANGED <<upDb, upTx, upDriver, upCrash, upBinary>>

-----------------------------------------------------------------------------
(* updater.Service *)

UpPublish ==
  /\ upOffered + 1 \in UpVersions /\ upOffered' = upOffered + 1
  /\ UNCHANGED <<upFile, upRunning, upSelf, upCheck, upLatest, upApply, upCrash, upSchema>>

UpFetch ==
  /\ upBoot = "serving" /\ upCheck = 0 /\ upCheck' = upOffered
  /\ UNCHANGED <<upOffered, upFile, upRunning, upSelf, upLatest, upApply, upCrash, upSchema>>

\* The loop keeps what it knew when there is nothing newer; CheckNow forgets it.
UpChecked ==
  /\ upBoot = "serving" /\ upCheck # 0 /\ upCheck' = 0
  /\ upLatest' \in IF upCheck > upRunning THEN {upCheck} ELSE {upLatest, 0}
  /\ UNCHANGED <<upOffered, upFile, upRunning, upSelf, upApply, upCrash, upSchema>>

UpSetApply(c, pc) == upApply' = [upApply EXCEPT ![c].pc = pc]

UpApply(c) ==
  /\ upBoot = "serving" /\ upApply[c].pc = "idle" /\ upLatest # 0
  /\ upApply' = [upApply EXCEPT ![c] = [pc |-> "fetched", release |-> upLatest, path |-> 0]]
  /\ UNCHANGED <<upOffered, upFile, upRunning, upSelf, upCheck, upLatest, upCrash, upSchema>>

\* downloadAsset, into a temporary file beside the binary; or the download fails.
UpDownload(c) ==
  /\ upBoot = "serving" /\ upApply[c].pc = "fetched"
  /\ \E pc \in {"downloaded", "idle"} : UpSetApply(c, pc)
  /\ UNCHANGED <<upOffered, upFile, upRunning, upSelf, upCheck, upLatest, upCrash, upSchema>>

\* os.Executable and EvalSymlinks: what the running file is called now, if there is such a file.
UpResolve(c) ==
  /\ upBoot = "serving" /\ upApply[c].pc = "downloaded"
  /\ upApply' = [upApply EXCEPT ![c] =
       [@ EXCEPT !.pc = IF upFile[upSelf.path] # 0 THEN "resolved" ELSE "idle",
                 !.path = upSelf.path]]
  /\ UNCHANGED <<upOffered, upFile, upRunning, upSelf, upCheck, upLatest, upCrash, upSchema>>

\* A file takes another name and the place of what had it, the running one perhaps.
UpRename(from, to) ==
  /\ upFile' = [upFile EXCEPT ![to] = upFile[from], ![from] = 0]
  /\ upSelf' = IF upSelf = [path |-> from, there |-> TRUE] THEN [path |-> to, there |-> TRUE]
               ELSE IF upSelf.path = to THEN [path |-> to, there |-> FALSE] ELSE upSelf

\* The executable as resolved gets ".bak" appended, unless another call has just moved it.
UpBackUp(c) ==
  LET path == upApply[c].path IN
  /\ upBoot = "serving" /\ upApply[c].pc = "resolved" /\ path < UpMaxBackups
  /\ IF upFile[path] = 0 THEN UpSetApply(c, "idle") /\ UNCHANGED <<upFile, upSelf>>
     ELSE UpSetApply(c, "moved") /\ UpRename(path, path + 1)
  /\ upCrash' = [upCrash EXCEPT !.lost = @ \/ (path = 1 /\ upFile[0] = 0)]
  /\ UNCHANGED <<upOffered, upRunning, upCheck, upLatest, upSchema>>

\* The temporary file gets the name that was resolved.
UpInstall(c) ==
  LET path == upApply[c].path IN
  /\ upBoot = "serving" /\ upApply[c].pc = "moved"
  /\ UpSetApply(c, "exec") /\ upFile' = [upFile EXCEPT ![path] = upApply[c].release]
  /\ upSelf' = IF upSelf.path = path THEN [path |-> path, there |-> FALSE] ELSE upSelf
  /\ UNCHANGED <<upOffered, upRunning, upCheck, upLatest, upCrash, upSchema>>

\* Mutant: the error is returned and the backup left where it is.
UpInstallFailsOnly(c) ==
  /\ "install" \in UpFaults
  /\ upBoot = "serving" /\ upApply[c].pc = "moved"
  /\ UpSetApply(c, "idle")
  /\ UNCHANGED <<upFile, upOffered, upRunning, upSelf, upCheck, upLatest, upCrash, upSchema>>

UpInstallFails(c) ==
  /\ "install" \in UpFaults
  /\ upBoot = "serving" /\ upApply[c].pc = "moved"
  /\ UpSetApply(c, "restore")
  /\ UNCHANGED <<upFile, upOffered, upRunning, upSelf, upCheck, upLatest, upCrash, upSchema>>

\* The backup is put back if it is there, and no error is reported if not.
UpRestore(c) ==
  LET path == upApply[c].path IN
  /\ upBoot = "serving" /\ upApply[c].pc = "restore"
  /\ UpSetApply(c, "idle")
  /\ IF upFile[path + 1] # 0 THEN UpRename(path + 1, path) ELSE UNCHANGED <<upFile, upSelf>>
  /\ UNCHANGED <<upOffered, upRunning, upCheck, upLatest, upCrash, upSchema>>

\* syscall.Exec of what has the resolved name by now: the process, with every call in it, is
\* replaced.
UpExec(c) ==
  LET path == upApply[c].path IN
  /\ upBoot = "serving" /\ upApply[c].pc = "exec" /\ upFile[path] # 0
  /\ UpBoots(path)
  /\ upCrash' = [upCrash EXCEPT !.lost = @ \/ upFile[0] = 0]
  /\ UNCHANGED <<upOffered, upFile, upDb>>

UpExecFails(c) ==
  /\ upBoot = "serving" /\ upApply[c].pc = "exec"
  /\ upFile[upApply[c].path] = 0 \/ "exec" \in UpFaults
  /\ UpSetApply(c, "idle")
  /\ UNCHANGED <<upOffered, upFile, upRunning, upSelf, upCheck, upLatest, upCrash, upSchema>>

\* Killed: what is on the disk stays, less the open transaction.
UpKill ==
  /\ upRunning # 0 /\ upCrash.kills < UpMaxCrashes
  /\ upCrash' = [kills |-> upCrash.kills + 1, lost |-> upCrash.lost \/ upFile[0] = 0]
  /\ upRunning' = 0 /\ upBoot' = "down" /\ upTx' = {} /\ upDriver' = UpNotPending
  /\ upLatest' = 0 /\ upCheck' = 0 /\ upApply' = [c \in UpCalls |-> UpIdle]
  /\ UNCHANGED <<upOffered, upFile, upSelf, upDb>>

-----------------------------------------------------------------------------

UpNextStep ==
  \/ UpStart \/ UpDecide \/ UpForce \/ UpNext \/ UpRun \/ UpCommit \/ UpScriptFails
  \/ UpRecord \/ UpExit
  \/ UpPublish \/ UpFetch \/ UpChecked \/ UpKill
  \/ \E c \in UpCalls :
       \/ UpApply(c) \/ UpDownload(c) \/ UpResolve(c) \/ UpBackUp(c) \/ UpInstall(c) \/ UpInstallFails(c)
       \/ UpRestore(c) \/ UpExec(c) \/ UpExecFails(c)

-----------------------------------------------------------------------------

\* Whatever was killed where, the version on record says which migrations the schema has, each
\* of them ran once and none on the tables of an older release, and only a legacy database
\* below baselineSchemaVersion is refused.  This is about the one transaction of script and
\* version, and about adoption and Up being repeatable.
SchemaOnRecord ==
  /\ upDb.version # 0 => upDb.applied = 1..upDb.version
  /\ upDb.twice = {}
  /\ upDb.tables = "old" => upDb.applied = {}
  /\ upBoot = "refused" => upDb.tables = "old"
  /\ upBoot = "serving" => upDb.version = MigrationsOf[upRunning]

\* Exe is absent only between the two renames of an Apply that resolved it, with exe.bak there
\* to be put back, or for good: if the process is killed in between, or if a second Apply then
\* resolves the running binary to exe.bak and moves that on or re-executes it.  Neither an
\* install nor an exec that fails, nor an Apply that follows one, loses the binary, and nor do
\* two that resolved exe alike (updater/service.go:134-157).
BinaryInPlace ==
  LET Moving(c) == upApply[c].pc \in {"moved", "restore"} /\ upApply[c].path = 0
  IN  ~upCrash.lost => IF \E c \in UpCalls : Moving(c) THEN upFile[0] = 0 /\ upFile[1] # 0
                                                        ELSE upFile[0] # 0

\* An upgrade ends with a binary that starts and a schema it can use.
UpgradesComplete == SchemaOnRecord /\ BinaryInPlace
=============================================================================
