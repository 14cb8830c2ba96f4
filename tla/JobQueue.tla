------------------------------ MODULE JobQueue ------------------------------
(***************************************************************************)
(* The queue behind POST /query/async and GET /jobs/{id},                  *)
(* services/job_queue.py: a FIFO of job ids, a pool of workers and a       *)
(* bounded ledger of jobs, from which finished ones are dropped to make    *)
(* room.                                                                   *)
(*                                                                         *)
(* It all runs on one event loop: what lies between two awaits is one      *)
(* action.  put on the unbounded asyncio.Queue does not wait, so enqueue   *)
(* is one action; a worker waits in get and in the handler.                *)
(*                                                                         *)
(* A job is named by its place in the order of submission, which is the    *)
(* order of the ledger's dict too.                                         *)
(***************************************************************************)
EXTENDS WallClock, FiniteSets, SequencesExt

CONSTANTS
  Workers,      \* The worker tasks, max(1, job_workers) of them.
  MaxJobs,      \* max(10, job_queue_max): the bound of the ledger.
  EvictShare,   \* One finished job in EvictShare is dropped, 4 in the code.
  Submissions,  \* Bound: jobs accepted in a behaviour.
  NoJob         \* A worker that waits for a job; a job not in the ledger.

ASSUME JobQueueAssumption ==
  /\ Workers # {}
  /\ IsFiniteSet(Workers)
  /\ MaxJobs \in Nat \ {0}
  /\ EvictShare \in Nat \ {0}
  /\ Submissions \in Nat

VARIABLES
  phase,        \* "starting", "serving" (_started), "stopped"
  accepted,     \* Jobs accepted so far: the next one is accepted + 1.
  jobs,         \* JobQueue._jobs
  queue,        \* JobQueue._queue
  working       \* The job each worker is at.

vars == <<clock, phase, accepted, jobs, queue, working>>

Jobs == 1 .. Submissions

Finished == {"completed", "failed"}

JobRecord == [status: {"queued", "running"} \cup Finished, updated: Time]

ASSUME NoJobAssumption == NoJob \notin Jobs \cup JobRecord

Ledger == {j \in Jobs : jobs[j] # NoJob}

InStatus(statuses) == {j \in Ledger : jobs[j].status \in statuses}

TypeOK ==
  /\ clock \in Time
  /\ phase \in {"starting", "serving", "stopped"}
  /\ accepted \in 0 .. Submissions
  /\ jobs \in [Jobs -> JobRecord \cup {NoJob}]
  /\ queue \in Seq(Jobs)
  /\ working \in [Workers -> Jobs \cup {NoJob}]

Init ==
  /\ clock = 0
  /\ phase = "starting"
  /\ accepted = 0
  /\ jobs = [j \in Jobs |-> NoJob]
  /\ queue = <<>>
  /\ working = [w \in Workers |-> NoJob]

-----------------------------------------------------------------------------
Start ==
  /\ phase = "starting"
  /\ phase' = "serving"
  /\ UNCHANGED <<clock, accepted, jobs, queue, working>>

(* A slip to be caught: newest first. *)
NewerThan(j, k) ==
  \/ jobs[j].updated > jobs[k].updated
  \/ jobs[j].updated = jobs[k].updated /\ j > k

(* The order of the stable sort by updated_at. *)
OlderThan(j, k) ==
  \/ jobs[j].updated < jobs[k].updated
  \/ jobs[j].updated = jobs[k].updated /\ j < k

(* A slip to be caught: no floor under the share. *)
EvictableShare(finished) == finished \div EvictShare

Quota(finished) ==
  IF finished < EvictShare THEN 1 ELSE finished \div EvictShare

(* A slip to be caught: any job may be dropped. *)
AnyJob == Ledger

Candidates == InStatus(Finished)

Evicted ==
  IF Cardinality(Ledger) < MaxJobs THEN {}
  ELSE {j \in Candidates :
          Cardinality({k \in Candidates : OlderThan(k, j)})
            < Quota(Cardinality(Candidates))}

(* A slip to be caught: off by one. *)
RoomForOneMore == Cardinality(Ledger \ Evicted) <= MaxJobs

Room == Cardinality(Ledger \ Evicted) < MaxJobs

Kept == [j \in Jobs |-> IF j \in Evicted THEN NoJob ELSE jobs[j]]

(* A slip to be caught: last in, first out. *)
Ahead(j) == <<j>> \o queue

Behind(j) == Append(queue, j)

Enqueue ==
  /\ phase = "serving"
  /\ accepted < Submissions
  /\ Room
  /\ accepted' = accepted + 1
  /\ jobs' = [Kept EXCEPT ![accepted + 1] = [status |-> "queued", updated |-> clock]]
  /\ queue' = Behind(accepted + 1)
  /\ UNCHANGED <<clock, phase, working>>

(* RuntimeError, which the route turns into 429. *)
Refuse ==
  /\ phase = "serving"
  /\ ~Room
  /\ jobs' = Kept
  /\ UNCHANGED <<clock, phase, accepted, queue, working>>

-----------------------------------------------------------------------------
(* _worker_loop.  Finish and the Take that follows it without an await are *)
(* kept apart: what comes in between here, comes after both there.         *)

WithStatus(j, status) == [jobs EXCEPT ![j] = [status |-> status, updated |-> clock]]

(* An id whose job left the ledger would be dropped: `job is None`.        *)
Take(w) ==
  /\ phase = "serving"
  /\ working[w] = NoJob
  /\ queue # <<>>
  /\ queue' = Tail(queue)
  /\ IF jobs[Head(queue)] = NoJob
       THEN UNCHANGED <<jobs, working>>
       ELSE /\ jobs' = WithStatus(Head(queue), "running")
            /\ working' = [working EXCEPT ![w] = Head(queue)]
  /\ UNCHANGED <<clock, phase, accepted>>

(* The handler returns, or raises an Exception. *)
Finish(w) ==
  /\ phase = "serving"
  /\ working[w] # NoJob
  /\ \E status \in Finished : jobs' = WithStatus(working[w], status)
  /\ working' = [working EXCEPT ![w] = NoJob]
  /\ UNCHANGED <<clock, phase, accepted, queue>>

(* The workers are cancelled.  CancelledError is no Exception: the job a   *)
(* worker is at stays "running".                                           *)
Stop ==
  /\ phase = "serving"
  /\ phase' = "stopped"
  /\ working' = [w \in Workers |-> NoJob]
  /\ UNCHANGED <<clock, accepted, jobs, queue>>

Tick ==
  /\ ClockAdvances
  /\ UNCHANGED <<phase, accepted, jobs, queue, working>>

-----------------------------------------------------------------------------
Next ==
  \/ Start
  \/ Enqueue
  \/ Refuse
  \/ \E w \in Workers : Take(w) \/ Finish(w)
  \/ Stop
  \/ Tick

Spec == Init /\ [][Next]_vars

(* A worker that can take a job does, and every handler ends: the agent's  *)
(* steps and its calls to the model and the index are bounded, with        *)
(* timeouts.                                                               *)
Fairness == \A w \in Workers : WF_vars(Take(w)) /\ WF_vars(Finish(w))

FairSpec == Spec /\ Fairness

-----------------------------------------------------------------------------
(* The queue and the ledger never drift apart: while the service runs, the *)
(* ids in the queue are exactly the jobs in status queued, each once and   *)
(* in order of submission, and the jobs in status running are exactly      *)
(* those of the workers, one each.  So no id is ever popped whose job was  *)
(* dropped, and no job is run twice.                                       *)
QueueMatchesLedger ==
  /\ ToSet(queue) = InStatus({"queued"})
  /\ \A m, n \in 1 .. Len(queue) : m < n => queue[m] < queue[n]
  /\ phase = "serving" =>
       InStatus({"running"}) = {working[w] : w \in Workers} \ {NoJob}
  /\ \A v, w \in Workers : working[v] # NoJob /\ working[v] = working[w] => v = w

(* The ledger stays within its bound. *)
LedgerBounded == Cardinality(Ledger) <= MaxJobs

(* A job leaves the ledger only when it is finished and the ledger is      *)
(* full, and never before a job that finished earlier: a poll of an        *)
(* accepted job is told 404 only after it ended.                           *)
DropsOldestFinished ==
  [][\A j \in Ledger : jobs'[j] = NoJob =>
       /\ jobs[j].status \in Finished
       /\ Cardinality(Ledger) >= MaxJobs
       /\ \A k \in Ledger :
            jobs[k].status \in Finished /\ jobs[k].updated < jobs[j].updated =>
              jobs'[k] = NoJob]_vars

(* A job goes from queued to running to an end, in order of submission,    *)
(* and what a poll was told of a finished job is never taken back.         *)
StatusMovesForward ==
  [][\A j \in Ledger : jobs'[j] # NoJob /\ jobs'[j] # jobs[j] =>
       \/ /\ jobs[j].status = "queued" /\ jobs'[j].status = "running"
          /\ \A k \in InStatus({"queued"}) : j <= k
       \/ jobs[j].status = "running" /\ jobs'[j].status \in Finished]_vars

(* "Job queue is full; retry later" is said only when retrying can help no *)
(* sooner than a running job ends: no finished job still takes up room.    *)
RefusesOnlyLiveJobs == ~Room => InStatus(Finished) = {}

(* Every accepted job ends, unless the service stops first. *)
JobsEnd ==
  \A j \in Jobs :
    (jobs[j] # NoJob /\ jobs[j].status \notin Finished)
      ~> \/ phase = "stopped"
         \/ jobs[j] # NoJob /\ jobs[j].status \in Finished
=============================================================================
