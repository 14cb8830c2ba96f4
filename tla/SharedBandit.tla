---------------------------- MODULE SharedBandit ----------------------------
(***************************************************************************)
(* Several instances of the service that share the bandit's state through  *)
(* Redis, rl/bandit.py with REDIS_URL set.                                 *)
(*                                                                         *)
(* A method of the bandit runs in a worker thread under its instance's     *)
(* lock, so an instance is at one method at a time; its calls to Redis     *)
(* interleave with those of the other instances.  WATCH is called on the   *)
(* client and not on the pipeline that does MULTI and EXEC (redis-py gives *)
(* each its own connection and makes the former a no-op), so it is no step *)
(* here: GET and EXEC are.                                                 *)
(*                                                                         *)
(* The ledger of transactions is a file of each instance: feedback reaches *)
(* the bandit at the instance that answered the query, once unless it was  *)
(* told 410.                                                               *)
(***************************************************************************)
EXTENDS Naturals, FiniteSets

CONSTANTS
  Instances,    \* Processes of the service.
  Txns,         \* Transaction ids.
  Nil,          \* No blob under REDIS_KEY; no instance; no method running.
  Attempts,     \* Rounds of _mutate_with_redis_retry, 5 in the code.
  MaxFaults,    \* Bound: calls on Redis or the file that fail.
  MaxRestarts   \* Bound: restarts of an instance.

ASSUME SharedAssumption ==
  /\ IsFiniteSet(Instances)
  /\ Attempts \in Nat \ {0}
  /\ MaxFaults \in Nat
  /\ MaxRestarts \in Nat
  /\ Nil \notin Instances

VARIABLES
  up,           \* The instances that take requests; the others are not deployed.
  redis,        \* The blob at REDIS_KEY.
  mem,          \* _pending, arms and total_updates of each instance.
  file,         \* The payload in the file of each instance.
  connected,    \* self.redis is not None.
  running,      \* The method an instance is at.
  home,         \* The instance that answered the query.
  status,       \* What became of the query and of its feedback.
  expired,      \* Transactions older than the feedback timeout.
  faults, restarts

vars == <<up, redis, mem, file, connected, running, home, status, expired,
          faults, restarts>>

storage == <<redis, mem, file>>

(* The arms' sums as the set of transactions whose reward is in them, and  *)
(* total_updates, which counts what a set does not: a second time.         *)
Payload == [pending: SUBSET Txns, learned: SUBSET Txns, total: Nat]

ASSUME PayloadAssumption == Nil \notin Payload

Fresh == [pending |-> {}, learned |-> {}, total |-> 0]

Method == [txn: Txns, step: {"get", "exec", "unguarded"}, round: 1 .. Attempts]

Status == {"none", "registering", "open", "scoring", "scored", "gone",
           "failed", "lost"}

TypeOK ==
  /\ up \in SUBSET Instances
  /\ redis \in Payload \cup {Nil}
  /\ mem \in [Instances -> Payload]
  /\ file \in [Instances -> Payload]
  /\ connected \in [Instances -> BOOLEAN]
  /\ running \in [Instances -> Method \cup {Nil}]
  /\ home \in [Txns -> Instances \cup {Nil}]
  /\ status \in [Txns -> Status]
  /\ expired \subseteq Txns
  /\ faults \in 0 .. MaxFaults
  /\ restarts \in 0 .. MaxRestarts

Init ==
  /\ up \in SUBSET Instances \ {{}}
  /\ redis = Nil
  /\ mem = [i \in Instances |-> Fresh]
  /\ file = [i \in Instances |-> Fresh]
  /\ connected = [i \in Instances |-> TRUE]
  /\ running = [i \in Instances |-> Nil]
  /\ home = [t \in Txns |-> Nil]
  /\ status = [t \in Txns |-> "none"]
  /\ expired = {}
  /\ faults = 0
  /\ restarts = 0

-----------------------------------------------------------------------------
NoFault == UNCHANGED faults

Fault ==
  /\ faults < MaxFaults
  /\ faults' = faults + 1

Purged(p) == [p EXCEPT !.pending = @ \ expired]

(* A slip to be caught: decisions known here are kept. *)
MergedPayload(i) ==
  IF redis = Nil THEN mem[i]
  ELSE Purged([redis EXCEPT !.pending = @ \cup mem[i].pending])

(* A slip to be caught: what memory holds is taken to be up to date. *)
NotReloaded(i) == mem[i]

(* _apply_payload, when there is a blob. *)
Reloaded(i) == IF redis = Nil THEN mem[i] ELSE Purged(redis)

(* mutate_fn: what register_pending and apply_feedback do to a payload.    *)
(* The latter raises KeyError when the decision is not there.              *)
Registering(t) == status[t] = "registering"

Raises(t, p) == ~Registering(t) /\ t \notin Purged(p).pending

Mutated(t, p) ==
  IF Registering(t) THEN [Purged(p) EXCEPT !.pending = @ \cup {t}]
  ELSE IF Raises(t, p) THEN Purged(p)
  ELSE [pending |-> Purged(p).pending \ {t},
        learned |-> p.learned \cup {t},
        total   |-> p.total + 1]

(* What the caller is told when the method returns. *)
Returned(t) == IF Registering(t) THEN "open" ELSE "scored"

Ends(i, outcome) ==
  /\ running' = [running EXCEPT ![i] = Nil]
  /\ status' = [status EXCEPT ![running[i].txn] = outcome]

Begins(i, t) ==
  /\ running[i] = Nil
  /\ running' = [running EXCEPT ![i] =
                   [txn |-> t, step |-> "get", round |-> 1]]

(* A slip to be caught: no second round. *)
GivesUp(m) == [m EXCEPT !.step = "unguarded"]

(* The exception handler of the loop: `continue`, or fall out of it. *)
AfterFailure(m) ==
  IF m.round < Attempts
    THEN [txn |-> m.txn, step |-> "get", round |-> m.round + 1]
    ELSE [m EXCEPT !.step = "unguarded"]

NextRound(i) ==
  /\ running' = [running EXCEPT ![i] = AfterFailure(@)]
  /\ UNCHANGED status

At(i, step) == running[i] # Nil /\ running[i].step = step

-----------------------------------------------------------------------------
(* handle_query has an answer for t; handle_feedback reserved t. *)
Register(i, t) ==
  /\ i \in up
  /\ status[t] = "none"
  /\ Begins(i, t)
  /\ home' = [home EXCEPT ![t] = i]
  /\ status' = [status EXCEPT ![t] = "registering"]
  /\ UNCHANGED <<storage, connected, expired, faults, restarts, up>>

Feedback(i, t) ==
  /\ home[t] = i
  /\ status[t] \in {"open", "gone"}
  /\ Begins(i, t)
  /\ status' = [status EXCEPT ![t] = "scoring"]
  /\ UNCHANGED <<storage, connected, home, expired, faults, restarts, up>>

(* _mutate_with_redis_retry: GET, _apply_payload, mutate_fn. *)
GetAndMutate(i) ==
  /\ At(i, "get")
  /\ connected[i]
  /\ LET t == running[i].txn IN
       /\ mem' = [mem EXCEPT ![i] = Mutated(t, Reloaded(i))]
       /\ IF Raises(t, Reloaded(i))
            THEN Ends(i, "gone")
            ELSE /\ running' = [running EXCEPT ![i].step = "exec"]
                 /\ UNCHANGED status
  /\ NoFault
  /\ UNCHANGED <<redis, file, connected, home, expired, restarts, up>>

GetFails(i) ==
  /\ At(i, "get")
  /\ connected[i]
  /\ Fault
  /\ NextRound(i)
  /\ UNCHANGED <<storage, connected, home, expired, restarts, up>>

(* A slip to be caught: the backup is left out. *)
BackupForgotten(i) == UNCHANGED file

Backup(i) == file' = [file EXCEPT ![i] = mem'[i]]

(* EXEC replaces the blob, whatever became of it since GET; then the file. *)
ExecAndBackup(i) ==
  /\ At(i, "exec")
  /\ redis' = mem[i]
  /\ UNCHANGED mem
  /\ Backup(i)
  /\ Ends(i, Returned(running[i].txn))
  /\ NoFault
  /\ UNCHANGED <<connected, home, expired, restarts, up>>

(* EXEC fails, or its reply is lost, or the backup fails after it. *)
ExecFails(i) ==
  /\ At(i, "exec")
  /\ redis' \in {redis, mem[i]}
  /\ Fault
  /\ NextRound(i)
  /\ UNCHANGED <<mem, file, connected, home, expired, restarts, up>>

(* The way out of the loop and the way without Redis: mutate_fn on what    *)
(* memory holds, then _save, which passes over a failing SET.              *)
MutateUnguarded(i) ==
  /\ \/ At(i, "unguarded")
     \/ At(i, "get") /\ ~connected[i]
  /\ LET t == running[i].txn IN
       /\ mem' = [mem EXCEPT ![i] = Mutated(t, mem[i])]
       /\ \/ /\ Raises(t, mem[i])
             /\ Ends(i, "gone")
             /\ NoFault
             /\ UNCHANGED <<redis, file>>
          \/ /\ ~Raises(t, mem[i])
             /\ Backup(i)
             /\ Ends(i, Returned(t))
             /\ \/ NoFault /\ redis' = IF connected[i] THEN mem'[i] ELSE redis
                \/ connected[i] /\ Fault /\ redis' \in {redis, mem'[i]}
          \/ /\ ~Raises(t, mem[i])
             /\ Fault
             /\ Ends(i, "failed")
             /\ UNCHANGED <<redis, file>>
  /\ UNCHANGED <<connected, home, expired, restarts, up>>

-----------------------------------------------------------------------------
(* select_action: _sync_from_redis_locked passes over a failing GET. *)
SelectAction(i) ==
  /\ i \in up
  /\ running[i] = Nil
  /\ \/ /\ connected[i]
        /\ mem' = [mem EXCEPT ![i] = Purged(Reloaded(i))]
        /\ NoFault
     \/ /\ mem' = [mem EXCEPT ![i] = Purged(mem[i])]
        /\ IF connected[i] THEN Fault ELSE NoFault
  /\ mem' # mem
  /\ UNCHANGED <<redis, file, connected, running, home, status, expired,
                 restarts, up>>

(* snapshot: no reload; _save when the purge dropped a decision. *)
Snapshot(i) ==
  /\ i \in up
  /\ running[i] = Nil
  /\ Purged(mem[i]) # mem[i]
  /\ mem' = [mem EXCEPT ![i] = Purged(mem[i])]
  /\ \/ /\ Backup(i)
        /\ NoFault
        /\ redis' = IF connected[i] THEN mem'[i] ELSE redis
     \/ /\ Backup(i)
        /\ connected[i] /\ Fault
        /\ redis' \in {redis, mem'[i]}
     \/ /\ Fault
        /\ UNCHANGED <<redis, file>>
  /\ UNCHANGED <<connected, running, home, status, expired, restarts, up>>

Expire(t) ==
  /\ status[t] # "none"
  /\ t \notin expired
  /\ expired' = expired \cup {t}
  /\ UNCHANGED <<storage, connected, running, home, status, faults, restarts,
                 up>>

-----------------------------------------------------------------------------
(* An instance stops, during a call on Redis perhaps, and starts again:    *)
(* create_redis_client gives no client when the ping fails; _load prefers  *)
(* the blob to the file and the file to nothing.                           *)
Restart(i) ==
  /\ i \in up
  /\ restarts < MaxRestarts
  /\ restarts' = restarts + 1
  /\ running' = [running EXCEPT ![i] = Nil]
  /\ status' = IF running[i] = Nil THEN status
               ELSE [status EXCEPT ![running[i].txn] = "lost"]
  /\ redis' \in IF At(i, "exec") THEN {redis, mem[i]} ELSE {redis}
  /\ \/ /\ NoFault
        /\ connected' = [connected EXCEPT ![i] = TRUE]
        /\ mem' = [mem EXCEPT ![i] =
                     Purged(IF redis' = Nil THEN file[i] ELSE redis')]
     \/ /\ Fault
        /\ \E client \in BOOLEAN : connected' = [connected EXCEPT ![i] = client]
        /\ mem' = [mem EXCEPT ![i] = Purged(file[i])]
  /\ UNCHANGED <<file, home, expired, up>>

-----------------------------------------------------------------------------
Work(i) ==
  \/ GetAndMutate(i)
  \/ GetFails(i)
  \/ ExecAndBackup(i)
  \/ ExecFails(i)
  \/ MutateUnguarded(i)

Next ==
  \/ \E i \in Instances, t \in Txns : Register(i, t) \/ Feedback(i, t)
  \/ \E i \in Instances : Work(i)
  \/ \E i \in Instances : SelectAction(i) \/ Snapshot(i)
  \/ \E t \in Txns : Expire(t)
  \/ \E i \in Instances : Restart(i)

Spec == Init /\ [][Next]_vars
-----------------------------------------------------------------------------
(* Whatever was overwritten, retried or reloaded, no payload - in memory,  *)
(* in a file or in Redis - counts a transaction twice or still waits for   *)
(* feedback it has learned from, so that no later feedback can make it     *)
(* learn again (bandit.py, the whole-payload reload before a mutation).    *)
Coherent(p) ==
  /\ p.total = Cardinality(p.learned)
  /\ p.pending \cap p.learned = {}

PayloadsCoherent ==
  /\ redis # Nil => Coherent(redis)
  /\ \A i \in Instances : Coherent(mem[i]) /\ Coherent(file[i])

(* "Keep file as durable backup" (bandit.py, _mutate_with_redis_retry): a  *)
(* feedback answered 200 was in the instance's file at that moment, by the *)
(* way through Redis as by the way past it.                                *)
ScoredIsBackedUp ==
  [][\A t \in Txns : status[t] # "scored" /\ status'[t] = "scored" =>
       t \in file'[home[t]].learned]_vars

(* One instance alone never unlearns: with fewer failures than rounds and  *)
(* no restart, what Redis has learned stays, lost replies of EXEC and      *)
(* retries notwithstanding, and a feedback answered 200 is in it.          *)
Calm == Cardinality(up) = 1 /\ faults < Attempts /\ restarts = 0

AloneNothingIsLost ==
  Calm => \A t \in Txns :
    status[t] = "scored" => redis # Nil /\ t \in redis.learned

(* An instance deployed alone needs no compare: from its GET to the EXEC   *)
(* nothing that was learned leaves Redis, whatever failed or was restarted *)
(* before and whether or not the EXEC is applied (bandit.py, the lock      *)
(* around _mutate_with_redis_retry and the reload it begins with).         *)
CasKeepsAlone ==
  [][Cardinality(up) = 1 =>
       \A i \in Instances : At(i, "exec") /\ redis # Nil =>
         redis' # Nil /\ redis.learned \subseteq redis'.learned]_vars

-----------------------------------------------------------------------------
(* README.md, "Redis CAS when REDIS_URL is set": the compare-and-set of a  *)
(* mutation never overwrites an update that was committed in between.      *)
CasKeepsUpdates ==
  [][\A i \in Instances :
       ExecAndBackup(i) /\ redis # Nil => redis.learned \subseteq redis'.learned]_vars
=============================================================================
