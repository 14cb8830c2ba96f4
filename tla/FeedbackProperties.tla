------------------------- MODULE FeedbackProperties -------------------------
(***************************************************************************)
(* What must hold of QueryService.                                         *)
(***************************************************************************)
EXTENDS QueryService, FiniteSets

NoFailures == \A kind \in FaultKinds : Faultless(kind)

(* The feedback requests between a successful reservation and its end. *)
Holding == {"apply", "release", "mark"}

Holds(f, t) == fpc[f] \in Holding /\ claim[f].txn = t

(* "Feedback reservation (no double-score races)": two feedback requests   *)
(* never hold the same transaction, and while one holds it nobody else     *)
(* scores or releases its record (transaction_store.py, reserve_feedback   *)
(* to mark_feedback), so that mark_feedback never raises ValueError.       *)
ExclusiveFeedback ==
  /\ \A f, g \in Feedbacks, t \in Txns : Holds(f, t) /\ Holds(g, t) => f = g
  /\ \A f \in Feedbacks, t \in Txns :
       Holds(f, t) /\ items[t] # Absent =>
         items[t].reserved /\ items[t].score = NoScore

(* The sample means stay means: each transaction moved the statistics of   *)
(* its own arm once and total_updates once (bandit.py, apply_feedback), in *)
(* memory and in the file, whatever was retried, lost or reloaded.         *)
Rewarded(p) == {t \in Txns : p.credit[t] # NoScore}

Tallies(p) ==
  /\ p.total = Cardinality(Rewarded(p))
  /\ \A a \in Arms :
       p.pulls[a] = Cardinality({t \in Rewarded(p) : decision[t].arm = a})

LearnedOnce == Tallies(policy) /\ Tallies(banditFile.policy)

(* The two files never contradict each other: a score in the ledger is the *)
(* one the policy absorbed, in memory and on disk, through failed saves    *)
(* and restarts.  (A bandit file that cannot be read back is passed over   *)
(* and later overwritten, so the promise ends with such a failure.)        *)
ScoresAreLearned ==
  Faultless("load") => \A t \in Txns :
    /\ items[t] # Absent /\ items[t].score # NoScore =>
         policy.credit[t] = items[t].score
    /\ txnFile[t] # Absent /\ txnFile[t].score # NoScore =>
         banditFile.policy.credit[t] = txnFile[t].score

(* The audit trail vouches only for what happened: an audited feedback     *)
(* (query_service.py, last step of handle_feedback) is what the policy on  *)
(* disk learned, two for one transaction are never audited, and an answer  *)
(* or a 200 never left without its event: also when the INSERT raised and  *)
(* the append behind it too, and the client was told 500 of a feedback     *)
(* whose row is in the table.                                              *)
AuditTrail ==
  /\ \A f \in Feedbacks : FeedbackEvent(f) \in Audited /\ Faultless("load") =>
       banditFile.policy.credit[claim[f].txn] = claim[f].score
  /\ \A f, g \in Feedbacks :
       /\ FeedbackEvent(f) \in Audited
       /\ FeedbackEvent(g) \in Audited
       /\ claim[f].txn = claim[g].txn
       => f = g
  /\ \A f \in Feedbacks : fpc[f] = "200" => FeedbackEvent(f) \in Audited
  /\ \A t \in Txns : qpc[t] = "answered" => QueryEvent(t) \in Audited

-----------------------------------------------------------------------------
InWindow(t) == clock - decision[t].created <= PendingTimeout

(* "Aligned TTL for transactions + pending bandit decisions": while the    *)
(* feedback window of an answered query is open, the ledger has its record *)
(* and the bandit its decision, unless that decision was already learned   *)
(* from; in memory, and in the files a restart would read.  For lack of a  *)
(* record or a decision a client in time would be told 404 or 410.         *)
Scoreable(t, ledger, decisions, p) ==
  /\ ledger[t] # Absent
  /\ p.credit[t] = NoScore => decisions[t] = decision[t]

AnsweredStaysScoreable ==
  \A t \in Txns : NoFailures /\ qpc[t] = "answered" /\ InWindow(t) =>
    /\ Scoreable(t, items, pending, policy)
    /\ Scoreable(t, txnFile, banditFile.pending, banditFile.policy)

(* A client in time is never told "unknown" or "expired", whether the      *)
(* purge of one store or the other, an overlapping feedback or a restart   *)
(* got in between.                                                         *)
GoneOnlyAfterWindow ==
  \A f \in Feedbacks : NoFailures /\ fpc[f] \in {"404", "410"} =>
    ~InWindow(claim[f].txn)

(* As long as no I/O failed and the process was not stopped, a reservation *)
(* has a request behind it that will score or release it.                  *)
ReservationHasHolder ==
  NoFailures /\ crashes = 0 =>
    \A t \in Txns : items[t] # Absent /\ items[t].reserved =>
      \E f \in Feedbacks : Holds(f, t)

-----------------------------------------------------------------------------
(* The policy absorbs a reward only while the feedback window of its query *)
(* is open, whenever the feedback was reserved (bandit.py, the purge in    *)
(* apply_feedback), and never a second time for one transaction.           *)
LearnsInWindow ==
  [][\A t \in Txns :
       policy'.credit[t] # policy.credit[t] /\ crashes' = crashes =>
         policy.credit[t] = NoScore /\ InWindow(t)]_vars

(* A reservation does not last, short of an I/O failure or a stop of the   *)
(* process: the request that made it scores the record or releases it, or  *)
(* the record expires.                                                     *)
ReservationsResolve ==
  \A t \in Txns :
    (items[t] # Absent /\ items[t].reserved)
      ~> \/ items[t] = Absent \/ ~items[t].reserved
         \/ crashes > 0 \/ ~NoFailures

(* The service implements the contract its clients see.                    *)
Contract == INSTANCE FeedbackContract WITH
  issued  <- {t \in Txns : qpc[t] = "answered"},
  learned <- banditFile.policy.credit,
  acked   <- [f \in Feedbacks |-> IF fpc[f] = "200" THEN claim[f] ELSE Absent]

ImplementsContract == Contract!Spec

(* Short of an I/O failure and a stop, a 409 is the truth: when a feedback *)
(* is refused with it, its query has been learned from, or another request *)
(* holds its transaction (transaction_store.py, reserve_feedback and       *)
(* mark_feedback), whatever was purged, late or released before.           *)
ConflictIsReal(t) ==
  policy.credit[t] # NoScore \/ \E g \in Feedbacks : Holds(g, t)

ConflictsAreReal ==
  [][NoFailures /\ crashes = 0 =>
       \A f \in Feedbacks : fpc[f] # "409" /\ fpc'[f] = "409" =>
         ConflictIsReal(claim'[f].txn)]_vars

-----------------------------------------------------------------------------
(* README.md, Feedback semantics: "409 already scored", with the detail    *)
(* "Feedback already recorded": when a feedback is refused with 409, its   *)
(* query has been learned from, or a running request may learn from it.    *)
ConflictMeansRecorded ==
  [][\A f \in Feedbacks : fpc[f] # "409" /\ fpc'[f] = "409" =>
       ConflictIsReal(claim'[f].txn)]_vars
=============================================================================
