------------------------------ MODULE JobQueue ------------------------------
(***************************************************************************)
(* jobqueue.Queue: library sync and match jobs, admitted by HTTP requests  *)
(* and by the queue itself, run by one worker, ended by the server's       *)
(* ordered shutdown.  The mutex makes Enqueue, BeginShutdown, the claim of *)
(* a job and its end atomic; the buffered channel and the two signal       *)
(* channels (stopCh, doneCh) connect them.  ListJobs reads under the same  *)
(* mutex: what it returns at any moment is active and history.             *)
(***************************************************************************)
EXTENDS Naturals, Sequences, FiniteSets

CONSTANTS
  Libraries,     \* library ids
  BufSize,       \* capacity of the channel
  HistoryLimit,  \* job records kept
  MaxJobs,       \* bound: job ids in this instance
  MaxRestarts    \* bound: restarts of the process in this instance

ASSUME QueueAssumption ==
  /\ BufSize \in Nat \ {0}
  /\ HistoryLimit \in Nat \ {0}
  /\ MaxJobs \in Nat
  /\ MaxRestarts \in Nat

VARIABLES
  \* the Queue object
  seq,       \* the last id handed out
  jobs,      \* the job objects
  active,    \* ids in the map of active jobs
  pending,   \* the channel: ids waiting to be received
  stopping,  \* admission is closed, and so is stopCh
  stopped,   \* doneCh is closed
  \* its worker goroutine
  wPc,       \* "off", "select", "claim", "load", "work", "announce", "follow", "exited"
  wJob,      \* the job received, 0 when there is none
  wOk,       \* did the work succeed?
  \* the store, the bus, and main's shutdown sequence
  history,   \* ids with a record in job_records
  begun,     \* jobs whose start was published
  ended,     \* jobs whose end was published
  sPc,       \* "up", "drain", "stop", "bus" or "closed"
  resumed,   \* ids go on after the recorded ones (New could read them)
  restarts   \* how often the process has been started again

queueVars == <<seq, jobs, active, pending, stopping, stopped>>
workerVars == <<wPc, wJob, wOk>>
publicVars == <<history, begun, ended>>
vars == <<queueVars, workerVars, publicVars, sPc, resumed, restarts>>

JobTypes == {"sync", "match"}
JobIds == 1..MaxJobs
Job == [type : JobTypes, lib : Libraries,
        status : {"pending", "running", "completed", "failed"}]
NoJob == [status |-> "none"]

WorkerStates == {"off", "select", "claim", "load", "work", "announce", "follow", "exited"}

TypeOK ==
  /\ seq \in 0..MaxJobs
  /\ jobs \in [JobIds -> Job \cup {NoJob}]
  /\ active \subseteq JobIds
  /\ pending \in Seq(JobIds)
  /\ stopping \in BOOLEAN
  /\ stopped \in BOOLEAN
  /\ wPc \in WorkerStates
  /\ wJob \in JobIds \cup {0}
  /\ wPc \in {"claim", "load", "work", "announce", "follow"} => wJob \in JobIds
  /\ wOk \in BOOLEAN
  /\ history \subseteq JobIds
  /\ begun \subseteq JobIds
  /\ ended \subseteq JobIds
  /\ sPc \in {"up", "drain", "stop", "bus", "closed"}
  /\ resumed \in BOOLEAN
  /\ restarts \in 0..MaxRestarts

Init ==
  /\ seq = 0
  /\ jobs = [id \in JobIds |-> NoJob]
  /\ active = {}
  /\ pending = <<>>
  /\ stopping = FALSE
  /\ stopped = FALSE
  /\ wPc = "off"
  /\ wJob = 0
  /\ wOk = FALSE
  /\ history = {}
  /\ begun = {}
  /\ ended = {}
  /\ sPc = "up"
  /\ resumed = TRUE
  /\ restarts = 0

-----------------------------------------------------------------------------
(* Enqueue                                                                 *)

\* Mutant: only waiting jobs are looked at.
DuplicateWaiting(type, lib) ==
  \E id \in active : /\ jobs[id].type = type /\ jobs[id].lib = lib
                     /\ jobs[id].status = "pending"

\* Another job of the type for the library is pending or running.
Duplicate(type, lib) ==
  \E id \in active : jobs[id].type = type /\ jobs[id].lib = lib

MayEnqueue(type, lib) ==
  /\ ~stopping
  /\ ~Duplicate(type, lib)
  /\ Len(pending) < BufSize
  /\ seq < MaxJobs

\* Mutant: the map keeps a job that found the channel full.
EnqueueLeaks(type, lib) ==
  /\ ~stopping
  /\ ~Duplicate(type, lib)
  /\ seq < MaxJobs
  /\ seq' = seq + 1
  /\ jobs' = [jobs EXCEPT ![seq + 1] = [type |-> type, lib |-> lib, status |-> "pending"]]
  /\ active' = active \cup {seq + 1}
  /\ pending' = IF Len(pending) < BufSize THEN Append(pending, seq + 1) ELSE pending
  /\ UNCHANGED <<stopping, stopped>>

\* An accepted job; a rejected one changes nothing.
Enqueue(type, lib) ==
  /\ MayEnqueue(type, lib)
  /\ seq' = seq + 1
  /\ jobs' = [jobs EXCEPT ![seq + 1] = [type |-> type, lib |-> lib, status |-> "pending"]]
  /\ active' = active \cup {seq + 1}
  /\ pending' = Append(pending, seq + 1)
  /\ UNCHANGED <<stopping, stopped>>

\* A request may still be served while main drains HTTP, or later when it outlives
\* the drain's timeout.
Submit(type, lib) ==
  /\ Enqueue(type, lib)
  /\ UNCHANGED <<workerVars, publicVars, sPc, resumed, restarts>>

-----------------------------------------------------------------------------
(* Start, BeginShutdown and Stop, as main calls them                       *)

Start ==
  /\ wPc = "off"
  /\ ~stopping
  /\ wPc' = "select"
  /\ UNCHANGED <<queueVars, wJob, wOk, publicVars, sPc, resumed, restarts>>

Waiting == {id \in active : jobs[id].status = "pending"}

\* Mutants: the waiting jobs stay; nobody closes doneCh of a queue never started.
BeginShutdownKeepsJobs ==
  /\ sPc = "up"
  /\ stopping' = TRUE
  /\ stopped' = (wPc = "off")
  /\ sPc' = "drain"
  /\ UNCHANGED <<seq, jobs, active, pending, workerVars, publicVars, resumed, restarts>>
BeginShutdownNoSignal ==
  /\ sPc = "up"
  /\ stopping' = TRUE
  /\ active' = active \ Waiting
  /\ pending' = <<>>
  /\ sPc' = "drain"
  /\ UNCHANGED <<seq, jobs, stopped, workerVars, publicVars, resumed, restarts>>

\* Admission closes, the waiting jobs are forgotten and the channel is drained; a
\* queue that never started has nobody else to close doneCh.
BeginShutdown ==
  /\ sPc = "up"
  /\ stopping' = TRUE
  /\ stopped' = (wPc = "off")
  /\ active' = active \ Waiting
  /\ pending' = <<>>
  /\ sPc' = "drain"
  /\ UNCHANGED <<seq, jobs, workerVars, publicVars, resumed, restarts>>

\* HTTP was drained and the other workers were stopped.
Drained ==
  /\ sPc = "drain"
  /\ sPc' = "stop"
  /\ UNCHANGED <<queueVars, workerVars, publicVars, resumed, restarts>>

\* Mutant: Stop does not wait.
StopEarly ==
  /\ sPc = "stop"
  /\ sPc' = "bus"
  /\ UNCHANGED <<queueVars, workerVars, publicVars, resumed, restarts>>

\* Stop waits for doneCh; then the bus is stopped, and the database closed.
Stop ==
  /\ sPc = "stop"
  /\ stopped
  /\ sPc' = "bus"
  /\ UNCHANGED <<queueVars, workerVars, publicVars, resumed, restarts>>

CloseDatabase ==
  /\ sPc = "bus"
  /\ sPc' = "closed"
  /\ UNCHANGED <<queueVars, workerVars, publicVars, resumed, restarts>>

-----------------------------------------------------------------------------
(* worker and execute                                                      *)

WorkerGoto(pc) == wPc' = pc /\ UNCHANGED <<wJob, wOk>>
WorkerNextJob == wPc' = "select" /\ wJob' = 0 /\ wOk' = FALSE

\* With both channels ready, select takes either one.
WorkerExit ==
  /\ wPc = "select"
  /\ stopping
  /\ stopped' = TRUE
  /\ WorkerGoto("exited")
  /\ UNCHANGED <<seq, jobs, active, pending, stopping, publicVars, sPc, resumed, restarts>>

Receive ==
  /\ wPc = "select"
  /\ pending # <<>>
  /\ wJob' = Head(pending)
  /\ pending' = Tail(pending)
  /\ wPc' = "claim"
  /\ UNCHANGED <<seq, jobs, active, stopping, stopped, wOk, publicVars, sPc, resumed, restarts>>

SetStatus(id, status) == jobs' = [jobs EXCEPT ![id].status = status]

\* Mutant: a received job runs, closed or not.
ClaimAlways ==
  /\ wPc = "claim"
  /\ WorkerGoto("load") /\ SetStatus(wJob, "running")
  /\ UNCHANGED <<seq, active, pending, stopping, stopped, publicVars, sPc, resumed, restarts>>

\* Receiving is not a claim: once admission is closed, the job is dropped.
Claim ==
  /\ wPc = "claim"
  /\ IF stopping
     THEN WorkerNextJob /\ UNCHANGED jobs
     ELSE WorkerGoto("load") /\ SetStatus(wJob, "running")
  /\ UNCHANGED <<seq, active, pending, stopping, stopped, publicVars, sPc, resumed, restarts>>

\* The records that trimming keeps.  The code orders them by completed_at; one
\* worker completes jobs in the order of their ids.
Newest(ids) == {id \in ids : Cardinality({n \in ids : n > id}) < HistoryLimit}

\* finishJob: the record is written and old ones are trimmed, and either may fail,
\* which is only logged; in any case the job leaves the map.
FinishJob(status) ==
  /\ SetStatus(wJob, status)
  /\ \/ /\ wJob \notin history
        /\ history' \in {Newest(history \cup {wJob}), history \cup {wJob}}
     \/ UNCHANGED history
  /\ active' = active \ {wJob}

\* Mutant: execute returns without finishJob.
LoadFailsSilently ==
  /\ wPc = "load"
  /\ WorkerNextJob
  /\ UNCHANGED <<queueVars, publicVars, sPc, resumed, restarts>>

\* The library is gone: the job fails without an event.
LoadFails ==
  /\ wPc = "load"
  /\ FinishJob("failed")
  /\ WorkerNextJob
  /\ UNCHANGED <<seq, pending, stopping, stopped, begun, ended, sPc, resumed, restarts>>

Begin ==
  /\ wPc = "load"
  /\ begun' = begun \cup {wJob}
  /\ WorkerGoto("work")
  /\ UNCHANGED <<queueVars, history, ended, sPc, resumed, restarts>>

\* SyncLibrary or MatchLibrary returns.
Finish ==
  /\ wPc = "work"
  /\ \E ok \in BOOLEAN :
       /\ FinishJob(IF ok THEN "completed" ELSE "failed")
       /\ wOk' = ok
  /\ wPc' = "announce"
  /\ UNCHANGED <<seq, pending, stopping, stopped, wJob, begun, ended, sPc, resumed, restarts>>

\* Mutant: failures are not announced.
AnnounceSuccess ==
  /\ wPc = "announce"
  /\ ended' = IF wOk THEN ended \cup {wJob} ELSE ended
  /\ IF wOk /\ jobs[wJob].type = "sync" THEN WorkerGoto("follow") ELSE WorkerNextJob
  /\ UNCHANGED <<queueVars, history, begun, sPc, resumed, restarts>>

Announce ==
  /\ wPc = "announce"
  /\ ended' = ended \cup {wJob}
  /\ IF wOk /\ jobs[wJob].type = "sync" THEN WorkerGoto("follow") ELSE WorkerNextJob
  /\ UNCHANGED <<queueVars, history, begun, sPc, resumed, restarts>>

\* A successful sync submits a match job for its library, through the same
\* admission: it may be refused, and is then skipped.
FollowUp ==
  /\ wPc = "follow"
  /\ IF MayEnqueue("match", jobs[wJob].lib)
     THEN Enqueue("match", jobs[wJob].lib)
     ELSE UNCHANGED queueVars
  /\ WorkerNextJob
  /\ UNCHANGED <<publicVars, sPc, resumed, restarts>>

-----------------------------------------------------------------------------
\* Mutant: New begins at zero again.
NothingRecorded == 0

\* The process ends, in order or by a crash, and New continues after the highest
\* recorded id, or from zero when it cannot read it.
MaxRecorded == IF history = {} THEN 0
               ELSE CHOOSE m \in history : \A id \in history : id <= m

Restart ==
  /\ restarts < MaxRestarts
  /\ restarts' = restarts + 1
  /\ \/ resumed' = TRUE /\ seq' = MaxRecorded
     \/ history # {} /\ resumed' = FALSE /\ seq' = 0
  /\ jobs' = [id \in JobIds |-> NoJob]
  /\ active' = {} /\ pending' = <<>>
  /\ stopping' = FALSE /\ stopped' = FALSE
  /\ wPc' = "off" /\ wJob' = 0 /\ wOk' = FALSE
  /\ begun' = {} /\ ended' = {}
  /\ sPc' = "up"
  /\ UNCHANGED history

WorkerStep ==
  \/ WorkerExit \/ Receive \/ Claim \/ LoadFails \/ Begin \/ Finish \/ Announce \/ FollowUp

ShutdownStep == Drained \/ Stop \/ CloseDatabase

Next ==
  \/ Start \/ BeginShutdown \/ ShutdownStep \/ WorkerStep \/ Restart
  \/ \E type \in JobTypes, lib \in Libraries : Submit(type, lib)

Spec == Init /\ [][Next]_vars

-----------------------------------------------------------------------------
(* Safety.                                                                 *)

\* At no moment are two jobs of one type for one library waiting or running,
\* although the worker submits jobs of its own between those of the requests.
OneActiveJobPerLibrary ==
  \A a, b \in active : a # b => <<jobs[a].type, jobs[a].lib>> # <<jobs[b].type, jobs[b].lib>>

\* A waiting job of an open queue is in the channel or in the worker's hands, so it
\* will run: it cannot sit in the list of active jobs with nobody to run it.
WaitingJobsReachable ==
  ~stopping => Waiting = {pending[n] : n \in 1..Len(pending)}
                           \cup (IF wPc = "claim" THEN {wJob} ELSE {})

\* Once admission is closed nothing waits, and what still runs is the one job the
\* worker had claimed before.
ShutdownLeavesOneJob ==
  stopping => /\ pending = <<>>
              /\ \A id \in active : id = wJob /\ wPc \in {"load", "work"}

\* The bus and the database outlive the queue's work: whoever finishes a job finds
\* them open, so neither its record nor its last event can be lost to the shutdown.
TeardownAfterWork == sPc \in {"bus", "closed"} => wPc \in {"off", "exited"}

\* Whoever follows the events sees every job that began end, before the next one
\* begins, and finds a job that ended no longer among the active ones.
EventsFollowJobs ==
  /\ ended \subseteq begun
  /\ begun \ ended \subseteq (IF wPc \in {"work", "announce"} THEN {wJob} ELSE {})
  /\ ended \cap active = {}

\* Unless New could not read the records, the id of a job that finishes is not the id
\* of a record: no record is refused because ids were handed out again after a restart.
RecordIdsUnused ==
  resumed /\ wPc \in {"claim", "load", "work"} => wJob \notin history

\* Enqueue, the follow-up jobs and the claim under the lock: nothing twice, nothing stranded.
AdmissionSafe == OneActiveJobPerLibrary /\ WaitingJobsReachable

\* BeginShutdown, Stop and main's order of teardown leave no work behind that needs them.
ShutdownSafe == ShutdownLeavesOneJob /\ TeardownAfterWork

\* What the events and the records say of jobs is true, also after a restart.
RecordsTrue == EventsFollowJobs /\ RecordIdsUnused

-----------------------------------------------------------------------------
(* Refinement: whatever the channel, the lock and the worker do, a job is   *)
(* in one phase of its life.                                               *)

Phase(id) ==
  IF id > seq THEN "new"
  ELSE IF id \in active THEN (IF jobs[id].status = "pending" THEN "waiting" ELSE "running")
  ELSE IF jobs[id].status = "pending" THEN "discarded"
  ELSE "done"

Service == INSTANCE JobService WITH
  open <- ~stopping, phase <- [id \in JobIds |-> Phase(id)]

\* Jobs are run as JobService says.
ImplementsService == Service!ServiceSpec

-----------------------------------------------------------------------------
(* Liveness.                                                               *)

\* The goroutine is scheduled and the work it calls returns; main starts the queue
\* and, once it shuts down, goes on.
FairSpec == Spec /\ WF_vars(Start) /\ WF_vars(WorkerStep) /\ WF_vars(ShutdownStep)

\* Every accepted job ends or is discarded by a shutdown (or by a crash).
AcceptedJobsEnd ==
  \A id \in JobIds : id \in active ~> id \notin active

\* A shutdown that has begun comes to its end: Stop never waits for ever, also if the
\* queue was not started, or the worker was busy.
ShutdownEnds == stopping ~> sPc = "closed" \/ ~stopping
=============================================================================
