--------------------------- MODULE JobQueueProofs ---------------------------
(***************************************************************************)
(* The safety properties of JobQueue hold for every value of its           *)
(* constants.  None of them is inductive: QueueInv ties the map of active  *)
(* jobs, the channel, the worker, the signals of the shutdown and the      *)
(* history together, and implies all of them.                              *)
(***************************************************************************)
EXTENDS JobQueue, WellFoundedInduction, TLAPS

\* The worker has a job in its hands.
Holding == wPc \in {"claim", "load", "work", "announce", "follow"}

\* The map holds accepted jobs that wait or run.
ActiveJobs ==
  \A id \in active : /\ id <= seq
                     /\ jobs[id] \in Job
                     /\ jobs[id].status \in {"pending", "running"}

\* What the worker has in its hands, by where it stands.
HeldJob ==
  /\ Holding => wJob <= seq /\ jobs[wJob] \in Job
  /\ wPc = "claim" => jobs[wJob].status = "pending"
  /\ wPc \in {"load", "work"} => wJob \in active /\ jobs[wJob].status = "running"
  /\ wPc \in {"announce", "follow"} => wJob \notin active
  /\ wPc \in {"work", "announce"} => wJob \in begun

\* Only the worker runs jobs.
RunningJob ==
  \A id \in active : jobs[id].status = "running" => wPc \in {"load", "work"} /\ id = wJob

\* The channel holds accepted jobs in the order of their ids, after the one the
\* worker has just received.
Fifo ==
  /\ \A n \in 1..Len(pending) : pending[n] <= seq
  /\ \A m, n \in 1..Len(pending) : m < n => pending[m] < pending[n]
  /\ wPc = "claim" => \A n \in 1..Len(pending) : wJob < pending[n]

\* What the signal channels and main's position say of each other.
Signals ==
  /\ stopping <=> sPc # "up"
  /\ stopped => stopping /\ wPc \in {"off", "exited"}
  /\ sPc \in {"bus", "closed"} => stopped

\* Ids of begun and of recorded jobs were handed out.
KnownIds ==
  /\ begun \subseteq 1..seq
  /\ resumed => /\ history \subseteq 1..seq
                /\ history \cap active = {}
                /\ wPc = "claim" => wJob \notin history

QueueInv ==
  /\ TypeOK
  /\ ActiveJobs
  /\ HeldJob
  /\ RunningJob
  /\ Fifo
  /\ Signals
  /\ KnownIds
  /\ OneActiveJobPerLibrary
  /\ WaitingJobsReachable
  /\ ShutdownLeavesOneJob
  /\ EventsFollowJobs

-----------------------------------------------------------------------------
\* A non-empty set of natural numbers has a least element.
LEMMA LeastNatural ==
  ASSUME NEW T, T \subseteq Nat, T # {}
  PROVE  \E x \in T : \A y \in T : x <= y
<1>1. \E x \in T : \A y \in T : ~(<<y, x>> \in OpToRel(<, Nat))
  BY NatLessThanWellFounded, WFMin
<1>2. \A x, y \in Nat : ~(<<y, x>> \in OpToRel(<, Nat)) => x <= y
  BY DEF OpToRel
<1>. QED
  BY <1>1, <1>2

\* A non-empty set of job ids has a greatest element.
LEMMA GreatestId ==
  ASSUME NEW S, S \subseteq JobIds, S # {}
  PROVE  \E m \in S : \A k \in S : k <= m
<1>. DEFINE T == {MaxJobs - k : k \in S}
<1>1. T \subseteq Nat
  BY QueueAssumption DEF JobIds
<1>2. T # {}
  <2>1. PICK k \in S : TRUE
    OBVIOUS
  <2>2. MaxJobs - k \in T
    OBVIOUS
  <2>. QED
    BY <2>2
<1>3. PICK x \in T : \A y \in T : x <= y
  <2>. HIDE DEF T
  <2>. QED
    BY <1>1, <1>2, LeastNatural
<1>4. PICK m \in S : x = MaxJobs - m
  OBVIOUS
<1>5. ASSUME NEW k \in S
      PROVE  k <= m
  <2>1. MaxJobs - k \in T
    OBVIOUS
  <2>2. MaxJobs - m <= MaxJobs - k
    BY <1>3, <1>4, <2>1
  <2>. QED
    BY <2>2, QueueAssumption DEF JobIds
<1>. QED
  BY <1>5

\* New goes on after every recorded id.
LEMMA MaxRecordedBound ==
  ASSUME history \subseteq JobIds
  PROVE  MaxRecorded \in 0..MaxJobs /\ history \subseteq 1..MaxRecorded
<1>1. CASE history = {}
  BY <1>1, QueueAssumption DEF MaxRecorded
<1>2. CASE history # {}
  <2>1. \E m \in history : \A id \in history : id <= m
    BY <1>2, GreatestId
  <2>2. MaxRecorded \in history /\ \A id \in history : id <= MaxRecorded
    BY <1>2, <2>1 DEF MaxRecorded
  <2>. QED
    BY <2>2, QueueAssumption DEF JobIds
<1>. QED
  BY <1>1, <1>2

-----------------------------------------------------------------------------
LEMMA InitEstablishes == Init => QueueInv
<1>. SUFFICES ASSUME Init PROVE QueueInv
  OBVIOUS
<1>. USE QueueAssumption DEF Init
<1>1. TypeOK
  <2>1. jobs \in [JobIds -> Job \cup {NoJob}]
    OBVIOUS
  <2>2. pending \in Seq(JobIds)
    OBVIOUS
  <2>3. /\ seq \in 0..MaxJobs /\ restarts \in 0..MaxRestarts
        /\ active \subseteq JobIds /\ history \subseteq JobIds
        /\ begun \subseteq JobIds /\ ended \subseteq JobIds
    OBVIOUS
  <2>4. wPc = "off" /\ wJob = 0 /\ wOk = FALSE /\ sPc = "up"
    OBVIOUS
  <2>5. stopping = FALSE /\ stopped = FALSE /\ resumed = TRUE
    OBVIOUS
  <2>. HIDE DEF Init
  <2>. QED
    BY <2>1, <2>2, <2>3, <2>4, <2>5 DEF TypeOK, WorkerStates
<1>2. ActiveJobs /\ HeldJob /\ RunningJob /\ Fifo /\ Signals /\ KnownIds
  BY DEF ActiveJobs, HeldJob, Holding, RunningJob, Fifo, Signals, KnownIds
<1>3. OneActiveJobPerLibrary /\ WaitingJobsReachable /\ ShutdownLeavesOneJob
  BY DEF OneActiveJobPerLibrary, WaitingJobsReachable, ShutdownLeavesOneJob, Waiting
<1>4. EventsFollowJobs
  BY DEF EventsFollowJobs
<1>. QED
  BY <1>1, <1>2, <1>3, <1>4 DEF QueueInv

\* Enqueue, in a step that takes the worker from announce or follow to select or
\* leaves it alone.
LEMMA EnqueuePreserves ==
  ASSUME QueueInv, NEW type \in JobTypes, NEW lib \in Libraries, Enqueue(type, lib),
         UNCHANGED <<publicVars, sPc, resumed, restarts>>,
         \/ UNCHANGED workerVars
         \/ wPc = "follow" /\ WorkerNextJob
  PROVE  QueueInv'
<1>. USE QueueAssumption DEF publicVars, workerVars
<1>. DEFINE id == seq + 1
<1>1. /\ id \in JobIds /\ id \notin active /\ ~stopping /\ seq \in Nat
      /\ jobs' = [jobs EXCEPT ![id] = [type |-> type, lib |-> lib, status |-> "pending"]]
      /\ jobs'[id] = [type |-> type, lib |-> lib, status |-> "pending"]
      /\ active' = active \cup {id}
      /\ \A k \in JobIds \ {id} : jobs'[k] = jobs[k]
  BY DEF QueueInv, TypeOK, ActiveJobs, Enqueue, MayEnqueue, JobIds
<1>2. /\ pending' = Append(pending, id)
      /\ pending' \in Seq(JobIds)
      /\ Len(pending') = Len(pending) + 1
      /\ pending'[Len(pending) + 1] = id
      /\ \A n \in 1..Len(pending) : pending'[n] = pending[n]
  BY <1>1 DEF QueueInv, TypeOK, Enqueue
<1>3. TypeOK'
  <2>1. jobs' \in [JobIds -> Job \cup {NoJob}]
    BY <1>1 DEF QueueInv, TypeOK, Job
  <2>2. seq' \in 0..MaxJobs /\ active' \subseteq JobIds
    BY <1>1 DEF QueueInv, TypeOK, Enqueue, JobIds
  <2>3. UNCHANGED <<stopping, stopped, history, begun, ended, sPc, resumed, restarts>>
    BY DEF Enqueue
  <2>4. \/ UNCHANGED <<wPc, wJob, wOk>>
        \/ wPc' = "select" /\ wJob' = 0 /\ wOk' = FALSE
    BY DEF WorkerNextJob
  <2>. QED
    BY <1>2, <2>1, <2>2, <2>3, <2>4 DEF QueueInv, TypeOK, WorkerStates
<1>4. ActiveJobs'
  BY <1>1 DEF QueueInv, TypeOK, ActiveJobs, Enqueue, Job, JobIds
<1>5. HeldJob'
  BY <1>1 DEF QueueInv, TypeOK, HeldJob, Holding, Enqueue, WorkerNextJob, JobIds
<1>6. RunningJob'
  BY <1>1 DEF QueueInv, TypeOK, RunningJob, Enqueue, WorkerNextJob, JobIds
<1>7. Fifo'
  BY <1>1, <1>2 DEF QueueInv, TypeOK, Fifo, HeldJob, Holding, Enqueue, WorkerNextJob, JobIds
<1>8. Signals' /\ KnownIds'
  BY <1>1 DEF QueueInv, TypeOK, Signals, KnownIds, Enqueue, WorkerNextJob, JobIds
<1>9. OneActiveJobPerLibrary'
  <2>1. \A k \in active : <<jobs[k].type, jobs[k].lib>> # <<type, lib>>
    BY DEF Enqueue, MayEnqueue, Duplicate
  <2>2. \A k \in active : k \in JobIds \ {id} /\ jobs'[k] = jobs[k]
    BY <1>1 DEF QueueInv, TypeOK
  <2>. QED
    BY <1>1, <2>1, <2>2 DEF QueueInv, OneActiveJobPerLibrary
<1>10. WaitingJobsReachable'
  BY <1>1, <1>2 DEF QueueInv, TypeOK, WaitingJobsReachable, Waiting, Enqueue, WorkerNextJob, JobIds
<1>11. ShutdownLeavesOneJob' /\ EventsFollowJobs'
  BY <1>1 DEF QueueInv, TypeOK, ShutdownLeavesOneJob, EventsFollowJobs, KnownIds, Enqueue, WorkerNextJob, JobIds
<1>. QED
  BY <1>3, <1>4, <1>5, <1>6, <1>7, <1>8, <1>9, <1>10, <1>11 DEF QueueInv
LEMMA SubmitPreserves ==
  ASSUME QueueInv, NEW type \in JobTypes, NEW lib \in Libraries, Submit(type, lib)
  PROVE  QueueInv'
BY EnqueuePreserves DEF Submit

-----------------------------------------------------------------------------
\* Steps of main.
LEMMA StartPreserves ==
  ASSUME QueueInv, Start
  PROVE  QueueInv'
<1>. USE DEF Start, queueVars, publicVars
<1>1. TypeOK'
  BY DEF QueueInv, TypeOK, WorkerStates
<1>2. ActiveJobs' /\ HeldJob' /\ RunningJob'
  BY DEF QueueInv, ActiveJobs, HeldJob, Holding, RunningJob
<1>3. Fifo' /\ Signals' /\ KnownIds'
  BY DEF QueueInv, Fifo, Signals, KnownIds
<1>4. OneActiveJobPerLibrary' /\ WaitingJobsReachable' /\ ShutdownLeavesOneJob' /\ EventsFollowJobs'
  BY DEF QueueInv, OneActiveJobPerLibrary, WaitingJobsReachable, Waiting, ShutdownLeavesOneJob,
         EventsFollowJobs
<1>. QED
  BY <1>1, <1>2, <1>3, <1>4 DEF QueueInv

\* What survives the end of admission is the job that runs, if there is one.
LEMMA BeginShutdownPreserves ==
  ASSUME QueueInv, BeginShutdown
  PROVE  QueueInv'
<1>. USE DEF BeginShutdown, workerVars, publicVars
<1>1. /\ stopping' = TRUE /\ stopped' \in BOOLEAN /\ sPc' = "drain"
      /\ pending' = <<>> /\ Len(pending') = 0 /\ pending' \in Seq(JobIds)
      /\ active' \subseteq active
      /\ \A id \in active' : jobs[id].status = "running"
  BY DEF QueueInv, ActiveJobs, Waiting
<1>2. TypeOK'
  BY <1>1 DEF QueueInv, TypeOK
<1>3. ActiveJobs' /\ RunningJob' /\ OneActiveJobPerLibrary'
  BY <1>1 DEF QueueInv, ActiveJobs, RunningJob, OneActiveJobPerLibrary
<1>4. HeldJob'
  BY <1>1 DEF QueueInv, HeldJob, Holding, Waiting
<1>5. Fifo' /\ Signals' /\ KnownIds'
  <2>1. Fifo'
    BY <1>1 DEF Fifo
  <2>2. Signals'
    BY <1>1 DEF QueueInv, TypeOK, Signals
  <2>3. KnownIds'
    BY <1>1 DEF QueueInv, KnownIds
  <2>. QED
    BY <2>1, <2>2, <2>3
<1>6. WaitingJobsReachable' /\ ShutdownLeavesOneJob'
  BY <1>1 DEF QueueInv, RunningJob, WaitingJobsReachable, ShutdownLeavesOneJob
<1>7. EventsFollowJobs'
  BY <1>1 DEF QueueInv, EventsFollowJobs
<1>. QED
  BY <1>2, <1>3, <1>4, <1>5, <1>6, <1>7 DEF QueueInv

LEMMA ShutdownStepPreserves ==
  ASSUME QueueInv, ShutdownStep
  PROVE  QueueInv'
<1>1. /\ UNCHANGED <<queueVars, workerVars, publicVars, resumed, restarts>>
      /\ \/ sPc = "drain" /\ sPc' = "stop"
         \/ sPc = "stop" /\ stopped /\ sPc' = "bus"
         \/ sPc = "bus" /\ sPc' = "closed"
  BY DEF ShutdownStep, Drained, Stop, CloseDatabase
<1>. USE <1>1 DEF queueVars, workerVars, publicVars
<1>2. TypeOK'
  BY DEF QueueInv, TypeOK
<1>3. ActiveJobs' /\ HeldJob' /\ RunningJob' /\ Fifo' /\ KnownIds'
  BY DEF QueueInv, ActiveJobs, HeldJob, Holding, RunningJob, Fifo, KnownIds
<1>4. Signals'
  BY DEF QueueInv, Signals
<1>5. OneActiveJobPerLibrary' /\ WaitingJobsReachable' /\ ShutdownLeavesOneJob' /\ EventsFollowJobs'
  BY DEF QueueInv, OneActiveJobPerLibrary, WaitingJobsReachable, Waiting, ShutdownLeavesOneJob,
         EventsFollowJobs
<1>. QED
  BY <1>2, <1>3, <1>4, <1>5 DEF QueueInv

LEMMA RestartPreserves ==
  ASSUME QueueInv, Restart
  PROVE  QueueInv'
<1>. USE QueueAssumption
<1>1. /\ active' = {} /\ pending' = <<>> /\ Len(pending') = 0 /\ pending' \in Seq(JobIds)
      /\ stopping' = FALSE /\ stopped' = FALSE /\ wPc' = "off" /\ wJob' = 0 /\ wOk' = FALSE
      /\ begun' = {} /\ ended' = {} /\ sPc' = "up" /\ history' = history
      /\ resumed' \in BOOLEAN
  <2>1. <<>> \in Seq(JobIds) /\ Len(<<>>) = 0
    OBVIOUS
  <2>2. resumed' \in BOOLEAN
    BY DEF Restart
  <2>3. active' = {} /\ pending' = <<>> /\ begun' = {} /\ ended' = {} /\ history' = history
    BY DEF Restart
  <2>4. /\ stopping' = FALSE /\ stopped' = FALSE /\ wPc' = "off" /\ wJob' = 0 /\ wOk' = FALSE
        /\ sPc' = "up"
    BY DEF Restart
  <2>. QED
    BY <2>1, <2>2, <2>3, <2>4
<1>2. jobs' \in [JobIds -> Job \cup {NoJob}]
  BY DEF Restart
<1>3. history \subseteq JobIds
  BY DEF QueueInv, TypeOK
<1>4. seq' \in 0..MaxJobs /\ (resumed' => history \subseteq 1..seq')
  BY <1>3, MaxRecordedBound DEF Restart
<1>5. restarts' \in 0..MaxRestarts
  BY DEF QueueInv, TypeOK, Restart
<1>6. TypeOK'
  BY <1>1, <1>2, <1>3, <1>4, <1>5 DEF TypeOK, WorkerStates
<1>7. ActiveJobs' /\ HeldJob' /\ RunningJob' /\ Fifo' /\ Signals' /\ KnownIds'
  BY <1>1, <1>4 DEF ActiveJobs, HeldJob, Holding, RunningJob, Fifo, Signals, KnownIds
<1>8. OneActiveJobPerLibrary' /\ WaitingJobsReachable' /\ ShutdownLeavesOneJob' /\ EventsFollowJobs'
  BY <1>1 DEF OneActiveJobPerLibrary, WaitingJobsReachable, Waiting, ShutdownLeavesOneJob,
         EventsFollowJobs
<1>. QED
  BY <1>6, <1>7, <1>8 DEF QueueInv
-----------------------------------------------------------------------------
\* Steps of the worker.
LEMMA WorkerExitPreserves ==
  ASSUME QueueInv, WorkerExit
  PROVE  QueueInv'
<1>1. /\ UNCHANGED <<seq, jobs, active, pending, stopping, wJob, wOk, publicVars, sPc, resumed, restarts>>
      /\ wPc = "select" /\ wPc' = "exited" /\ stopped' = TRUE /\ stopping = TRUE
  BY DEF WorkerExit, WorkerGoto, QueueInv, TypeOK
<1>. USE <1>1 DEF publicVars
<1>2. TypeOK'
  BY DEF QueueInv, TypeOK, WorkerStates
<1>3. ActiveJobs' /\ HeldJob' /\ RunningJob'
  BY DEF QueueInv, ActiveJobs, HeldJob, Holding, RunningJob
<1>4. Fifo' /\ Signals' /\ KnownIds'
  BY DEF QueueInv, Fifo, Signals, KnownIds
<1>5. OneActiveJobPerLibrary' /\ WaitingJobsReachable' /\ ShutdownLeavesOneJob' /\ EventsFollowJobs'
  BY DEF QueueInv, OneActiveJobPerLibrary, WaitingJobsReachable, ShutdownLeavesOneJob,
         EventsFollowJobs
<1>. QED
  BY <1>2, <1>3, <1>4, <1>5 DEF QueueInv

\* The head of the channel passes into the worker's hands.  Nothing is received
\* after admission closed, for the channel was drained under the same lock.
LEMMA ReceivePreserves ==
  ASSUME QueueInv, Receive
  PROVE  QueueInv'
<1>1. /\ UNCHANGED <<seq, jobs, active, stopping, stopped, wOk, publicVars, sPc, resumed, restarts>>
      /\ wPc = "select" /\ wPc' = "claim"
  BY DEF Receive
<1>2. /\ pending \in Seq(JobIds) /\ Len(pending) \in Nat /\ Len(pending) >= 1
      /\ wJob' = pending[1]
      /\ pending' \in Seq(JobIds)
      /\ Len(pending') = Len(pending) - 1
      /\ \A n \in 1..Len(pending') : pending'[n] = pending[n + 1]
  BY DEF Receive, QueueInv, TypeOK
<1>3. ~stopping /\ wJob' \in JobIds
  BY <1>2, <1>1 DEF QueueInv, ShutdownLeavesOneJob
<1>4. Waiting = {pending[n] : n \in 1..Len(pending)}
  BY <1>1, <1>3 DEF QueueInv, WaitingJobsReachable
<1>5. wJob' \in active /\ jobs[wJob'].status = "pending" /\ jobs[wJob'] \in Job /\ wJob' <= seq
  <2>1. wJob' \in Waiting
    BY <1>2, <1>4
  <2>. QED
    BY <2>1 DEF Waiting, QueueInv, ActiveJobs
<1>. USE DEF publicVars
<1>6. TypeOK'
  BY <1>1, <1>2, <1>3 DEF QueueInv, TypeOK, WorkerStates
<1>7. ActiveJobs' /\ HeldJob' /\ RunningJob'
  BY <1>1, <1>5 DEF QueueInv, ActiveJobs, HeldJob, Holding, RunningJob
<1>8. Fifo'
  <2>1. \A n \in 1..Len(pending') : n + 1 \in 1..Len(pending) /\ 1 < n + 1
    BY <1>2
  <2>2. \A n \in 1..Len(pending') : pending'[n] <= seq'
    BY <1>1, <1>2, <2>1 DEF QueueInv, Fifo
  <2>3. \A m, n \in 1..Len(pending') : m < n => pending'[m] < pending'[n]
    BY <1>2, <2>1 DEF QueueInv, Fifo
  <2>4. \A n \in 1..Len(pending') : wJob' < pending'[n]
    BY <1>2, <2>1 DEF QueueInv, Fifo
  <2>. QED
    BY <2>2, <2>3, <2>4 DEF Fifo
<1>9. Signals' /\ KnownIds'
  <2>1. Signals'
    BY <1>1, <1>3 DEF QueueInv, Signals
  <2>2. KnownIds'
    BY <1>1, <1>5 DEF QueueInv, KnownIds
  <2>. QED
    BY <2>1, <2>2
<1>10. WaitingJobsReachable'
  <2>1. Waiting' = Waiting
    BY <1>1 DEF Waiting
  <2>2. \A n \in 1..Len(pending) : n = 1 \/ n - 1 \in 1..Len(pending')
    BY <1>2
  <2>3. {pending[n] : n \in 1..Len(pending)} = {pending'[n] : n \in 1..Len(pending')} \cup {wJob'}
    <3>1. \A n \in 1..Len(pending) :
             pending[n] \in {pending'[k] : k \in 1..Len(pending')} \cup {wJob'}
      <4>. TAKE n \in 1..Len(pending)
      <4>1. CASE n = 1
        BY <4>1, <1>2
      <4>2. CASE n # 1
        <5>1. n - 1 \in 1..Len(pending') /\ pending'[n - 1] = pending[(n - 1) + 1]
          BY <4>2, <2>2, <1>2
        <5>2. (n - 1) + 1 = n
          OBVIOUS
        <5>. QED
          BY <5>1, <5>2
      <4>. QED
        BY <4>1, <4>2
    <3>2. \A n \in 1..Len(pending') : pending'[n] \in {pending[k] : k \in 1..Len(pending)}
      BY <1>2
    <3>3. wJob' \in {pending[k] : k \in 1..Len(pending)}
      BY <1>2
    <3>. QED
      BY <3>1, <3>2, <3>3
  <2>. QED
    BY <1>1, <1>4, <2>1, <2>3 DEF WaitingJobsReachable
<1>11. OneActiveJobPerLibrary' /\ ShutdownLeavesOneJob' /\ EventsFollowJobs'
  BY <1>1, <1>3 DEF QueueInv, OneActiveJobPerLibrary, ShutdownLeavesOneJob, EventsFollowJobs
<1>. QED
  BY <1>6, <1>7, <1>8, <1>9, <1>10, <1>11 DEF QueueInv

\* A received job is dropped when admission has closed in between, and runs otherwise.
LEMMA ClaimPreserves ==
  ASSUME QueueInv, Claim
  PROVE  QueueInv'
<1>1. /\ UNCHANGED <<seq, active, pending, stopping, stopped, publicVars, sPc, resumed, restarts>>
      /\ wPc = "claim" /\ wJob \in JobIds /\ jobs[wJob].status = "pending"
  BY DEF Claim, QueueInv, TypeOK, HeldJob
<1>. USE DEF publicVars
<1>2. CASE stopping
  <2>1. wPc' = "select" /\ wJob' = 0 /\ wOk' = FALSE /\ jobs' = jobs
    BY <1>2 DEF Claim, WorkerNextJob
  <2>2. active = {}
    BY <1>1, <1>2 DEF QueueInv, ShutdownLeavesOneJob
  <2>3. TypeOK'
    BY <1>1, <2>1 DEF QueueInv, TypeOK, WorkerStates
  <2>4. ActiveJobs' /\ HeldJob' /\ RunningJob' /\ OneActiveJobPerLibrary'
    BY <1>1, <2>1, <2>2 DEF ActiveJobs, HeldJob, Holding, RunningJob, OneActiveJobPerLibrary
  <2>5. Fifo' /\ Signals' /\ KnownIds'
    BY <1>1, <2>1 DEF QueueInv, Fifo, Signals, KnownIds
  <2>6. WaitingJobsReachable' /\ ShutdownLeavesOneJob' /\ EventsFollowJobs'
    BY <1>1, <1>2, <2>1, <2>2
       DEF QueueInv, WaitingJobsReachable, ShutdownLeavesOneJob, EventsFollowJobs
  <2>. QED
    BY <2>3, <2>4, <2>5, <2>6 DEF QueueInv
<1>3. CASE ~stopping
  <2>1. /\ wPc' = "load" /\ UNCHANGED <<wJob, wOk>>
        /\ jobs' = [jobs EXCEPT ![wJob].status = "running"]
    BY <1>3 DEF Claim, WorkerGoto, SetStatus
  <2>2. wJob \in active
    BY <1>1, <1>3 DEF QueueInv, WaitingJobsReachable, Waiting
  <2>3. /\ jobs[wJob] \in Job
        /\ jobs'[wJob] = [jobs[wJob] EXCEPT !.status = "running"]
        /\ \A k \in JobIds \ {wJob} : jobs'[k] = jobs[k]
    BY <1>1, <2>1, <2>2 DEF QueueInv, TypeOK, ActiveJobs
  <2>4. /\ jobs'[wJob] \in Job /\ jobs'[wJob].status = "running"
        /\ jobs'[wJob].type = jobs[wJob].type /\ jobs'[wJob].lib = jobs[wJob].lib
    BY <2>3 DEF Job
  <2>5. TypeOK'
    <3>1. jobs' \in [JobIds -> Job \cup {NoJob}]
      BY <1>1, <2>1, <2>3, <2>4 DEF QueueInv, TypeOK
    <3>. QED
      BY <3>1, <1>1, <2>1 DEF QueueInv, TypeOK, WorkerStates
  <2>6. active \subseteq JobIds
    BY DEF QueueInv, TypeOK
  <2>7. \A k \in active \ {wJob} : jobs'[k] = jobs[k] /\ jobs[k].status = "pending"
    BY <1>1, <2>3, <2>6 DEF QueueInv, ActiveJobs, RunningJob
  <2>8. ActiveJobs' /\ HeldJob' /\ RunningJob'
    BY <1>1, <2>1, <2>2, <2>4, <2>7 DEF QueueInv, ActiveJobs, HeldJob, Holding, RunningJob
  <2>9. Fifo' /\ Signals' /\ KnownIds'
    BY <1>1, <1>3, <2>1 DEF QueueInv, Fifo, Signals, KnownIds
  <2>10. OneActiveJobPerLibrary'
    BY <1>1, <2>4, <2>7 DEF QueueInv, OneActiveJobPerLibrary
  <2>11. WaitingJobsReachable'
    <3>1. Waiting' = Waiting \ {wJob}
      BY <1>1, <2>2, <2>4, <2>7 DEF Waiting
    <3>2. \A n \in 1..Len(pending) : pending[n] # wJob
      BY <1>1 DEF QueueInv, TypeOK, Fifo, JobIds
    <3>3. Waiting = {pending[n] : n \in 1..Len(pending)} \cup {wJob}
      BY <1>1, <1>3 DEF QueueInv, WaitingJobsReachable
    <3>4. Waiting' = {pending[n] : n \in 1..Len(pending)}
      BY <3>1, <3>2, <3>3
    <3>. QED
      BY <3>4, <1>1, <2>1 DEF WaitingJobsReachable
  <2>12. ShutdownLeavesOneJob' /\ EventsFollowJobs'
    BY <1>1, <1>3, <2>1 DEF QueueInv, ShutdownLeavesOneJob, EventsFollowJobs
  <2>. QED
    BY <2>5, <2>8, <2>9, <2>10, <2>11, <2>12 DEF QueueInv
<1>. QED
  BY <1>2, <1>3
\* finishJob, by which the job that failed to load or has run leaves the map.
LEMMA FinishJobPreserves ==
  ASSUME QueueInv, NEW status \in {"completed", "failed"}, FinishJob(status),
         UNCHANGED <<seq, pending, stopping, stopped, begun, ended, sPc, resumed, restarts>>,
         \/ wPc = "load" /\ WorkerNextJob
         \/ wPc = "work" /\ wPc' = "announce" /\ wJob' = wJob /\ wOk' \in BOOLEAN
  PROVE  QueueInv'
<1>1. /\ wPc \in {"load", "work"} /\ wJob \in JobIds /\ wJob \in active
      /\ jobs[wJob] \in Job /\ jobs[wJob].status = "running" /\ wJob <= seq
      /\ active \subseteq JobIds
      /\ active' = active \ {wJob}
      /\ jobs' = [jobs EXCEPT ![wJob].status = status]
  BY DEF QueueInv, TypeOK, HeldJob, Holding, FinishJob, SetStatus
<1>2. /\ jobs'[wJob] = [jobs[wJob] EXCEPT !.status = status]
      /\ \A k \in JobIds \ {wJob} : jobs'[k] = jobs[k]
  BY <1>1 DEF QueueInv, TypeOK
<1>3. jobs'[wJob] \in Job
  BY <1>1, <1>2 DEF Job
<1>4. history' \subseteq history \cup {wJob}
  BY DEF FinishJob, Newest
<1>5. \/ wPc' = "select" /\ wJob' = 0 /\ wOk' = FALSE
      \/ wPc' = "announce" /\ wJob' = wJob /\ wOk' \in BOOLEAN /\ wPc = "work"
  BY DEF WorkerNextJob
<1>6. \A k \in active' : k \in active /\ jobs'[k] = jobs[k] /\ jobs[k].status = "pending"
  BY <1>1, <1>2 DEF QueueInv, ActiveJobs, RunningJob
<1>7. TypeOK'
  <2>1. jobs' \in [JobIds -> Job \cup {NoJob}]
    BY <1>1, <1>2, <1>3 DEF QueueInv, TypeOK
  <2>2. active' \subseteq JobIds /\ history' \subseteq JobIds
    BY <1>1, <1>4 DEF QueueInv, TypeOK
  <2>. QED
    BY <2>1, <2>2, <1>1, <1>5 DEF QueueInv, TypeOK, WorkerStates
<1>8. ActiveJobs' /\ RunningJob' /\ OneActiveJobPerLibrary'
  BY <1>6 DEF QueueInv, ActiveJobs, RunningJob, OneActiveJobPerLibrary
<1>9. HeldJob'
  BY <1>1, <1>3, <1>5 DEF QueueInv, HeldJob, Holding
<1>10. Fifo' /\ Signals'
  BY <1>1, <1>5 DEF QueueInv, Fifo, Signals
<1>11. KnownIds'
  <2>1. wJob \in 1..seq
    BY <1>1 DEF QueueInv, TypeOK, JobIds
  <2>. QED
    BY <2>1, <1>1, <1>4, <1>5 DEF QueueInv, KnownIds
<1>12. WaitingJobsReachable'
  <2>1. Waiting' = Waiting
    BY <1>1, <1>6 DEF Waiting
  <2>. QED
    BY <2>1, <1>1, <1>5 DEF QueueInv, WaitingJobsReachable
<1>13. ShutdownLeavesOneJob' /\ EventsFollowJobs'
  BY <1>1, <1>5 DEF QueueInv, ShutdownLeavesOneJob, EventsFollowJobs
<1>. QED
  BY <1>7, <1>8, <1>9, <1>10, <1>11, <1>12, <1>13 DEF QueueInv

LEMMA BeginPreserves ==
  ASSUME QueueInv, Begin
  PROVE  QueueInv'
<1>1. /\ UNCHANGED <<seq, jobs, active, pending, stopping, stopped, wJob, wOk>>
      /\ UNCHANGED <<history, ended, sPc, resumed, restarts>>
      /\ wPc = "load" /\ wPc' = "work" /\ begun' = begun \cup {wJob}
      /\ wJob \in active /\ wJob \in 1..seq /\ wJob \in JobIds
  BY DEF Begin, WorkerGoto, queueVars, QueueInv, TypeOK, HeldJob, Holding, JobIds
<1>2. TypeOK'
  BY <1>1 DEF QueueInv, TypeOK, WorkerStates
<1>3. ActiveJobs' /\ HeldJob' /\ RunningJob'
  BY <1>1 DEF QueueInv, ActiveJobs, HeldJob, Holding, RunningJob
<1>4. Fifo' /\ Signals' /\ KnownIds'
  BY <1>1 DEF QueueInv, Fifo, Signals, KnownIds
<1>5. OneActiveJobPerLibrary' /\ WaitingJobsReachable' /\ ShutdownLeavesOneJob'
  BY <1>1 DEF QueueInv, OneActiveJobPerLibrary, WaitingJobsReachable, Waiting, ShutdownLeavesOneJob
<1>6. EventsFollowJobs'
  BY <1>1 DEF QueueInv, EventsFollowJobs
<1>. QED
  BY <1>2, <1>3, <1>4, <1>5, <1>6 DEF QueueInv

LEMMA AnnouncePreserves ==
  ASSUME QueueInv, Announce
  PROVE  QueueInv'
<1>1. /\ UNCHANGED <<seq, jobs, active, pending, stopping, stopped>>
      /\ UNCHANGED <<history, begun, sPc, resumed, restarts>>
      /\ wPc = "announce" /\ ended' = ended \cup {wJob}
      /\ \/ wPc' = "follow" /\ wJob' = wJob /\ wOk' = wOk
         \/ wPc' = "select" /\ wJob' = 0 /\ wOk' = FALSE
  BY DEF Announce, WorkerGoto, WorkerNextJob, queueVars
<1>2. wJob \notin active /\ wJob \in JobIds
  BY <1>1 DEF QueueInv, TypeOK, HeldJob
<1>3. TypeOK'
  BY <1>1, <1>2 DEF QueueInv, TypeOK, WorkerStates
<1>4. ActiveJobs' /\ HeldJob' /\ RunningJob'
  BY <1>1 DEF QueueInv, ActiveJobs, HeldJob, Holding, RunningJob
<1>5. Fifo' /\ Signals' /\ KnownIds'
  BY <1>1 DEF QueueInv, Fifo, Signals, KnownIds
<1>6. OneActiveJobPerLibrary' /\ WaitingJobsReachable' /\ ShutdownLeavesOneJob'
  BY <1>1 DEF QueueInv, OneActiveJobPerLibrary, WaitingJobsReachable, Waiting, ShutdownLeavesOneJob
<1>7. EventsFollowJobs'
  <2>1. wJob \in begun
    BY <1>1 DEF QueueInv, HeldJob
  <2>. QED
    BY <2>1, <1>1, <1>2 DEF QueueInv, EventsFollowJobs
<1>. QED
  BY <1>3, <1>4, <1>5, <1>6, <1>7 DEF QueueInv

LEMMA FollowUpPreserves ==
  ASSUME QueueInv, FollowUp
  PROVE  QueueInv'
<1>1. wPc = "follow" /\ WorkerNextJob /\ UNCHANGED <<publicVars, sPc, resumed, restarts>>
  BY DEF FollowUp
<1>2. CASE MayEnqueue("match", jobs[wJob].lib)
  <2>1. Enqueue("match", jobs[wJob].lib)
    BY <1>2 DEF FollowUp
  <2>2. jobs[wJob].lib \in Libraries
    BY <1>1 DEF QueueInv, HeldJob, Holding, Job
  <2>3. "match" \in JobTypes
    BY DEF JobTypes
  <2>. QED
    BY <1>1, <2>1, <2>2, <2>3, EnqueuePreserves
<1>3. CASE ~MayEnqueue("match", jobs[wJob].lib)
  <2>1. /\ UNCHANGED <<seq, jobs, active, pending, stopping, stopped, history, begun, ended>>
        /\ UNCHANGED <<sPc, resumed, restarts>>
        /\ wPc' = "select" /\ wJob' = 0 /\ wOk' = FALSE
    BY <1>1, <1>3 DEF FollowUp, WorkerNextJob, queueVars, publicVars
  <2>2. TypeOK'
    BY <2>1 DEF QueueInv, TypeOK, WorkerStates
  <2>3. ActiveJobs' /\ HeldJob' /\ RunningJob'
    BY <1>1, <2>1 DEF QueueInv, ActiveJobs, HeldJob, Holding, RunningJob
  <2>4. Fifo' /\ Signals' /\ KnownIds'
    BY <1>1, <2>1 DEF QueueInv, Fifo, Signals, KnownIds
  <2>5. OneActiveJobPerLibrary' /\ WaitingJobsReachable' /\ ShutdownLeavesOneJob'
    BY <1>1, <2>1 DEF QueueInv, OneActiveJobPerLibrary, WaitingJobsReachable, Waiting,
                      ShutdownLeavesOneJob
  <2>6. EventsFollowJobs'
    BY <1>1, <2>1 DEF QueueInv, EventsFollowJobs
  <2>. QED
    BY <2>2, <2>3, <2>4, <2>5, <2>6 DEF QueueInv
<1>. QED
  BY <1>2, <1>3

LEMMA WorkerStepPreserves ==
  ASSUME QueueInv, WorkerStep
  PROVE  QueueInv'
<1>1. CASE WorkerExit
  BY <1>1, WorkerExitPreserves
<1>2. CASE Receive
  BY <1>2, ReceivePreserves
<1>3. CASE Claim
  BY <1>3, ClaimPreserves
<1>4. CASE LoadFails
  BY <1>4, FinishJobPreserves DEF LoadFails
<1>5. CASE Begin
  BY <1>5, BeginPreserves
<1>6. CASE Finish
  <2>1. PICK ok \in BOOLEAN : FinishJob(IF ok THEN "completed" ELSE "failed") /\ wOk' = ok
    BY <1>6 DEF Finish
  <2>. DEFINE status == IF ok THEN "completed" ELSE "failed"
  <2>2. status \in {"completed", "failed"} /\ FinishJob(status)
    BY <2>1
  <2>3. wPc = "work" /\ wPc' = "announce" /\ wJob' = wJob /\ wOk' \in BOOLEAN
    BY <1>6, <2>1 DEF Finish
  <2>4. UNCHANGED <<seq, pending, stopping, stopped, begun, ended, sPc, resumed, restarts>>
    BY <1>6 DEF Finish
  <2>. HIDE DEF status
  <2>. QED
    BY <2>2, <2>3, <2>4, FinishJobPreserves
<1>7. CASE Announce
  BY <1>7, AnnouncePreserves
<1>8. CASE FollowUp
  BY <1>8, FollowUpPreserves
<1>. QED
  BY <1>1, <1>2, <1>3, <1>4, <1>5, <1>6, <1>7, <1>8 DEF WorkerStep

LEMMA StutteringPreserves ==
  ASSUME QueueInv, UNCHANGED vars
  PROVE  QueueInv'
<1>. USE DEF vars, queueVars, workerVars, publicVars
<1>1. TypeOK'
  BY DEF QueueInv, TypeOK
<1>2. ActiveJobs' /\ HeldJob' /\ RunningJob' /\ Fifo' /\ Signals' /\ KnownIds'
  BY DEF QueueInv, ActiveJobs, HeldJob, Holding, RunningJob, Fifo, Signals, KnownIds
<1>3. OneActiveJobPerLibrary' /\ WaitingJobsReachable' /\ ShutdownLeavesOneJob' /\ EventsFollowJobs'
  BY DEF QueueInv, OneActiveJobPerLibrary, WaitingJobsReachable, Waiting, ShutdownLeavesOneJob,
         EventsFollowJobs
<1>. QED
  BY <1>1, <1>2, <1>3 DEF QueueInv

LEMMA NextPreserves ==
  ASSUME QueueInv, [Next]_vars
  PROVE  QueueInv'
<1>1. CASE Start
  BY <1>1, StartPreserves
<1>2. CASE BeginShutdown
  BY <1>2, BeginShutdownPreserves
<1>3. CASE ShutdownStep
  BY <1>3, ShutdownStepPreserves
<1>4. CASE WorkerStep
  BY <1>4, WorkerStepPreserves
<1>5. CASE Restart
  BY <1>5, RestartPreserves
<1>6. ASSUME NEW type \in JobTypes, NEW lib \in Libraries, Submit(type, lib)
      PROVE  QueueInv'
  BY <1>6, SubmitPreserves
<1>7. CASE UNCHANGED vars
  BY <1>7, StutteringPreserves
<1>. QED
  BY <1>1, <1>2, <1>3, <1>4, <1>5, <1>6, <1>7 DEF Next

-----------------------------------------------------------------------------
(* The theorems.                                                           *)

\* The queue, its worker and main's shutdown keep QueueInv, whatever the number of
\* libraries, the capacity of the channel and the number of records kept.
THEOREM InductiveInvariant == Spec => []QueueInv
<1>1. Init => QueueInv
  BY InitEstablishes
<1>2. QueueInv /\ [Next]_vars => QueueInv'
  BY NextPreserves
<1>. QED
  BY <1>1, <1>2, PTL DEF Spec

\* Every variable of the queue stays within its type.
THEOREM TypeCorrectness == Spec => []TypeOK
<1>1. QueueInv => TypeOK
  BY DEF QueueInv
<1>. QED
  BY <1>1, InductiveInvariant, PTL

\* Never are two jobs of one type for one library waiting or running (Enqueue's
\* duplicate check, against the worker's own submissions and the job's end), and a job
\* that waits in the map of an open queue is in the channel or was just received: Enqueue
\* and the worker never lose one (the rollback when the channel is full, the claim under
\* the lock).
THEOREM AdmissionAlwaysSafe == Spec => []AdmissionSafe
<1>1. QueueInv => AdmissionSafe
  BY DEF QueueInv, AdmissionSafe
<1>. QED
  BY <1>1, InductiveInvariant, PTL

\* BeginShutdown leaves at most the one job that was claimed before it, and nothing is
\* admitted or claimed after it; main stops the event bus and closes the database only
\* when the worker has exited or was never started (Stop waits for doneCh).
THEOREM ShutdownAlwaysSafe == Spec => []ShutdownSafe
<1>1. QueueInv => ShutdownLeavesOneJob
  BY DEF QueueInv
<1>2. QueueInv => TeardownAfterWork
  BY DEF QueueInv, Signals, TeardownAfterWork
<1>3. QueueInv => ShutdownSafe
  BY <1>1, <1>2 DEF ShutdownSafe
<1>. QED
  BY <1>3, InductiveInvariant, PTL

\* Every published start is followed by one published end before the next start, and
\* the end is published only after the job has left the map (execute); as long as New
\* could read the highest recorded id, no job finishes under the id of a record, whatever
\* trimming left of them and however often the process restarted.
THEOREM RecordsAlwaysTrue == Spec => []RecordsTrue
<1>1. QueueInv => EventsFollowJobs
  BY DEF QueueInv
<1>2. QueueInv => RecordIdsUnused
  BY DEF QueueInv, KnownIds, HeldJob, RecordIdsUnused
<1>3. QueueInv => RecordsTrue
  BY <1>1, <1>2 DEF RecordsTrue
<1>. QED
  BY <1>3, InductiveInvariant, PTL
-----------------------------------------------------------------------------
(* JobQueue implements JobService: under the refinement mapping, which      *)
(* reads the phase of a job off the map, its status and the sequence, each  *)
(* step of the queue is one step of the service or leaves it unchanged.     *)


\* The phases that JobService sees.
Phases == [id \in JobIds |-> Phase(id)]

\* What is visible of the service is decided by these variables.
LEMMA Invisible ==
  ASSUME UNCHANGED <<seq, jobs, active, stopping>>
  PROVE  UNCHANGED Service!serviceVars
BY DEF Service!serviceVars, Phase

LEMMA InitRefines == Init => Service!ServiceInit
<1>. SUFFICES ASSUME Init PROVE Service!ServiceInit
  OBVIOUS
<1>1. \A id \in JobIds : Phase(id) = "new"
  BY QueueAssumption DEF Init, Phase, JobIds
<1>2. Phases = [id \in JobIds |-> "new"]
  BY <1>1 DEF Phases
<1>. QED
  BY <1>2 DEF Service!ServiceInit, Phases, Init, JobIds, Service!JobIds

\* The next id is accepted.
LEMMA EnqueueRefines ==
  ASSUME QueueInv, NEW type \in JobTypes, NEW lib \in Libraries, Enqueue(type, lib)
  PROVE  Service!ServiceNext
<1>. PICK new : new = seq + 1
  OBVIOUS
<1>1. /\ new \in JobIds /\ seq \in Nat /\ new = seq + 1 /\ new \notin active
      /\ ~stopping /\ UNCHANGED stopping
      /\ seq' = new /\ active' = active \cup {new}
      /\ jobs'[new].status = "pending"
      /\ \A k \in JobIds \ {new} : jobs'[k] = jobs[k]
  BY QueueAssumption DEF QueueInv, TypeOK, ActiveJobs, Enqueue, MayEnqueue, JobIds
<1>2. \A k \in JobIds : k > seq <=> Phase(k) = "new"
  BY DEF Phase
<1>3. \A k \in JobIds \ {new} : Phase(k)' = Phase(k)
  <2>. TAKE k \in JobIds \ {new}
  <2>1. (k > seq') <=> (k > seq)
    BY <1>1 DEF JobIds
  <2>. QED
    BY <1>1, <2>1 DEF Phase
<1>4. Phase(new)' = "waiting"
  BY <1>1, QueueAssumption DEF Phase, JobIds
<1>5. Phases' = [Phases EXCEPT ![new] = "waiting"]
  <2>1. \A k \in JobIds : Phase(k)' = IF k = new THEN "waiting" ELSE Phase(k)
    BY <1>1, <1>3, <1>4
  <2>. QED
    BY <2>1 DEF Phases
<1>6. Phases[new] = "new" /\ \A e \in 1..(new - 1) : Phases[e] # "new"
  <2>1. \A e \in 1..(new - 1) : e \in JobIds /\ ~(e > seq)
    BY <1>1, QueueAssumption DEF JobIds
  <2>. QED
    BY <1>1, <1>2, <2>1 DEF Phases, JobIds
<1>7. Service!Accept(new)
  BY <1>1, <1>5, <1>6 DEF Service!Accept, Service!Earlier, Phases
<1>. QED
  BY <1>1, <1>7 DEF Service!ServiceNext, Service!JobIds, JobIds

\* The waiting jobs are discarded, all of them.
LEMMA BeginShutdownRefines ==
  ASSUME QueueInv, BeginShutdown
  PROVE  Service!ServiceNext
<1>1. /\ ~stopping /\ stopping' = TRUE
      /\ UNCHANGED <<seq, jobs>> /\ active' = active \ Waiting
  BY DEF BeginShutdown, QueueInv, Signals
<1>2. \A k \in JobIds : Phase(k)' = IF Phase(k) = "waiting" THEN "discarded" ELSE Phase(k)
  <2>. TAKE k \in JobIds
  <2>1. k \in active' <=> k \in active /\ jobs[k].status # "pending"
    BY <1>1 DEF Waiting
  <2>2. k \in active => ~(k > seq)
    BY DEF QueueInv, TypeOK, ActiveJobs, JobIds
  <2>. QED
    BY <1>1, <2>1, <2>2 DEF Phase
<1>3. Phases' = [k \in JobIds |-> IF Phases[k] = "waiting" THEN "discarded" ELSE Phases[k]]
  BY <1>2 DEF Phases
<1>4. Service!Close
  BY <1>1, <1>3 DEF Service!Close, Service!JobIds, Phases, JobIds
<1>. QED
  BY <1>4 DEF Service!ServiceNext

\* The received job is the first of those that wait, and no other runs.
LEMMA ClaimRefines ==
  ASSUME QueueInv, Claim, ~stopping
  PROVE  Service!ServiceNext
<1>. PICK job : job = wJob
  OBVIOUS
<1>1. /\ wPc = "claim" /\ job \in JobIds /\ job <= seq /\ seq \in Nat
      /\ UNCHANGED <<seq, active, stopping>>
      /\ jobs' = [jobs EXCEPT ![job].status = "running"]
      /\ jobs[job] \in Job /\ jobs[job].status = "pending"
  BY DEF Claim, SetStatus, QueueInv, TypeOK, HeldJob, Holding
<1>2. job \in active
  BY <1>1 DEF QueueInv, WaitingJobsReachable, Waiting
<1>3. jobs'[job].status = "running" /\ \A k \in JobIds \ {job} : jobs'[k] = jobs[k]
  BY <1>1 DEF QueueInv, TypeOK, Job
<1>4. Phase(job) = "waiting" /\ Phase(job)' = "running"
  BY <1>1, <1>2, <1>3, QueueAssumption DEF Phase, JobIds
<1>5. \A k \in JobIds \ {job} : Phase(k)' = Phase(k)
  BY <1>1, <1>3 DEF Phase
<1>6. Phases' = [Phases EXCEPT ![job] = "running"]
  <2>1. \A k \in JobIds : Phase(k)' = IF k = job THEN "running" ELSE Phase(k)
    BY <1>1, <1>4, <1>5
  <2>. QED
    BY <2>1 DEF Phases
<1>7. \A e \in JobIds : Phase(e) # "running"
  BY <1>1 DEF Phase, QueueInv, ActiveJobs, RunningJob
<1>8. \A e \in 1..(job - 1) : e \in JobIds /\ Phase(e) # "waiting"
  <2>. TAKE e \in 1..(job - 1)
  <2>1. e \in JobIds /\ e < job
    BY <1>1, QueueAssumption DEF JobIds
  <2>2. ASSUME Phase(e) = "waiting"
        PROVE  FALSE
    <3>1. e \in Waiting
      BY <2>2 DEF Phase, Waiting
    <3>2. PICK n \in 1..Len(pending) : pending[n] = e
      BY <1>1, <2>1, <3>1 DEF QueueInv, WaitingJobsReachable, JobIds
    <3>3. job < e
      BY <1>1, <3>2 DEF QueueInv, Fifo
    <3>. QED
      BY <2>1, <3>3, <1>1 DEF JobIds
  <2>. QED
    BY <2>1, <2>2
<1>9. Service!Run(job)
  BY <1>1, <1>4, <1>6, <1>7, <1>8 DEF Service!Run, Service!Earlier, Service!JobIds, Phases, JobIds
<1>. QED
  BY <1>1, <1>9 DEF Service!ServiceNext, Service!JobIds, JobIds

\* The one running job is done, with or without a record.
LEMMA FinishJobRefines ==
  ASSUME QueueInv, NEW status \in {"completed", "failed"}, FinishJob(status),
         wPc \in {"load", "work"}, UNCHANGED <<seq, stopping>>
  PROVE  Service!ServiceNext
<1>. PICK job : job = wJob
  OBVIOUS
<1>1. /\ job \in JobIds /\ job <= seq /\ seq \in Nat /\ job \in active
      /\ jobs[job] \in Job /\ jobs[job].status = "running"
      /\ active' = active \ {job}
      /\ jobs' = [jobs EXCEPT ![job].status = status]
  BY DEF QueueInv, TypeOK, HeldJob, Holding, FinishJob, SetStatus
<1>2. jobs'[job].status = status /\ \A k \in JobIds \ {job} : jobs'[k] = jobs[k]
  BY <1>1 DEF QueueInv, TypeOK, Job
<1>3. Phase(job) = "running" /\ Phase(job)' = "done"
  BY <1>1, <1>2, QueueAssumption DEF Phase, JobIds
<1>4. \A k \in JobIds \ {job} : Phase(k)' = Phase(k)
  BY <1>1, <1>2 DEF Phase
<1>5. Phases' = [Phases EXCEPT ![job] = "done"]
  <2>1. \A k \in JobIds : Phase(k)' = IF k = job THEN "done" ELSE Phase(k)
    BY <1>1, <1>3, <1>4
  <2>. QED
    BY <2>1 DEF Phases
<1>6. Service!Complete(job)
  BY <1>1, <1>3, <1>5 DEF Service!Complete, Phases
<1>. QED
  BY <1>1, <1>6 DEF Service!ServiceNext, Service!JobIds, JobIds

\* A new process has forgotten all jobs but the ids up to the recorded ones.
LEMMA RestartRefines ==
  ASSUME QueueInv, Restart
  PROVE  Service!ServiceNext
<1>1. seq' \in 0..MaxJobs
  <2>1. history \subseteq JobIds
    BY DEF QueueInv, TypeOK
  <2>. QED
    BY <2>1, MaxRecordedBound, QueueAssumption DEF Restart
<1>2. active' = {} /\ stopping' = FALSE
  BY DEF Restart
<1>3. \A k \in JobIds : jobs'[k].status # "pending"
  BY DEF Restart, NoJob
<1>4. \A k \in JobIds : Phase(k)' = IF k <= seq' THEN "done" ELSE "new"
  BY <1>1, <1>2, <1>3 DEF Phase, JobIds
<1>5. Phases' = [k \in JobIds |-> IF k <= seq' THEN "done" ELSE "new"]
  BY <1>4 DEF Phases
<1>6. Service!Reopen
  BY <1>1, <1>2, <1>5 DEF Service!Reopen, Service!JobIds, Phases, JobIds
<1>. QED
  BY <1>6 DEF Service!ServiceNext

LEMMA WorkerStepRefines ==
  ASSUME QueueInv, WorkerStep
  PROVE  Service!ServiceNext \/ UNCHANGED Service!serviceVars
<1>1. CASE WorkerExit \/ Receive \/ Begin \/ Announce
  BY <1>1, Invisible DEF WorkerExit, Receive, Begin, Announce, queueVars
<1>2. CASE Claim
  <2>1. CASE stopping
    BY <1>2, <2>1, Invisible DEF Claim
  <2>2. CASE ~stopping
    BY <1>2, <2>2, ClaimRefines
  <2>. QED
    BY <2>1, <2>2
<1>3. CASE LoadFails
  BY <1>3, FinishJobRefines DEF LoadFails
<1>4. CASE Finish
  <2>1. PICK ok \in BOOLEAN : FinishJob(IF ok THEN "completed" ELSE "failed")
    BY <1>4 DEF Finish
  <2>. DEFINE status == IF ok THEN "completed" ELSE "failed"
  <2>2. status \in {"completed", "failed"} /\ FinishJob(status)
    BY <2>1
  <2>3. wPc \in {"load", "work"} /\ UNCHANGED <<seq, stopping>>
    BY <1>4 DEF Finish
  <2>. HIDE DEF status
  <2>. QED
    BY <2>2, <2>3, FinishJobRefines
<1>5. CASE FollowUp
  <2>1. wPc = "follow"
    BY <1>5 DEF FollowUp
  <2>2. CASE MayEnqueue("match", jobs[wJob].lib)
    <3>1. jobs[wJob].lib \in Libraries /\ "match" \in JobTypes
      BY <2>1 DEF QueueInv, HeldJob, Holding, Job, JobTypes
    <3>2. Enqueue("match", jobs[wJob].lib)
      BY <1>5, <2>2 DEF FollowUp
    <3>. QED
      BY <3>1, <3>2, EnqueueRefines
  <2>3. CASE ~MayEnqueue("match", jobs[wJob].lib)
    BY <1>5, <2>3, Invisible DEF FollowUp, queueVars
  <2>. QED
    BY <2>2, <2>3
<1>. QED
  BY <1>1, <1>2, <1>3, <1>4, <1>5 DEF WorkerStep

LEMMA StepRefines ==
  ASSUME QueueInv, [Next]_vars
  PROVE  [Service!ServiceNext]_(Service!serviceVars)
<1>1. CASE Start \/ ShutdownStep
  BY <1>1, Invisible DEF Start, ShutdownStep, Drained, Stop, CloseDatabase, queueVars
<1>2. CASE BeginShutdown
  BY <1>2, BeginShutdownRefines
<1>3. CASE WorkerStep
  BY <1>3, WorkerStepRefines
<1>4. CASE Restart
  BY <1>4, RestartRefines
<1>5. ASSUME NEW type \in JobTypes, NEW lib \in Libraries, Submit(type, lib)
      PROVE  Service!ServiceNext
  BY <1>5, EnqueueRefines DEF Submit
<1>6. CASE UNCHANGED vars
  BY <1>6, Invisible DEF vars, queueVars
<1>. QED
  BY <1>1, <1>2, <1>3, <1>4, <1>5, <1>6 DEF Next

\* The queue implements the service: accepted jobs run one at a time and in the order
\* of acceptance, each is run once, and only a shutdown discards jobs, all that wait
\* (Enqueue, BeginShutdown, execute and finishJob together).
THEOREM Refinement == Spec => ImplementsService
<1>1. Init => Service!ServiceInit
  BY InitRefines
<1>2. QueueInv /\ [Next]_vars => [Service!ServiceNext]_(Service!serviceVars)
  BY StepRefines
<1>. QED
  BY <1>1, <1>2, InductiveInvariant, PTL DEF Spec, ImplementsService, Service!ServiceSpec
=============================================================================
