----------------------------- MODULE JobService -----------------------------
(***************************************************************************)
(* What the job queue promises the ones who submit jobs: an accepted job   *)
(* waits, runs and is done; jobs run one at a time, in the order they were *)
(* accepted; only closing the service discards jobs, all waiting ones at   *)
(* once, and afterwards nothing is accepted or started.  JobQueue          *)
(* implements this specification.                                          *)
(***************************************************************************)
EXTENDS Naturals

CONSTANT MaxJobs

VARIABLES
  open,    \* jobs are accepted and started
  phase    \* of each job id: "new", "waiting", "running", "done" or "discarded"

serviceVars == <<open, phase>>

JobIds == 1..MaxJobs

ServiceInit ==
  /\ open = TRUE
  /\ phase = [id \in JobIds |-> "new"]

Earlier(id) == 1..(id - 1)

Accept(id) ==
  /\ open
  /\ phase[id] = "new"
  /\ \A e \in Earlier(id) : phase[e] # "new"
  /\ phase' = [phase EXCEPT ![id] = "waiting"]
  /\ UNCHANGED open

Run(id) ==
  /\ open
  /\ phase[id] = "waiting"
  /\ \A e \in JobIds : phase[e] # "running"
  /\ \A e \in Earlier(id) : phase[e] # "waiting"
  /\ phase' = [phase EXCEPT ![id] = "running"]
  /\ UNCHANGED open

Complete(id) ==
  /\ phase[id] = "running"
  /\ phase' = [phase EXCEPT ![id] = "done"]
  /\ UNCHANGED open

Close ==
  /\ open
  /\ open' = FALSE
  /\ phase' = [id \in JobIds |-> IF phase[id] = "waiting" THEN "discarded" ELSE phase[id]]

\* The process starts again and goes on after the last recorded job.
Reopen ==
  /\ open' = TRUE
  /\ \E last \in 0..MaxJobs :
       phase' = [id \in JobIds |-> IF id <= last THEN "done" ELSE "new"]

ServiceNext ==
  \/ Close \/ Reopen
  \/ \E id \in JobIds : Accept(id) \/ Run(id) \/ Complete(id)

ServiceSpec == ServiceInit /\ [][ServiceNext]_serviceVars
=============================================================================
