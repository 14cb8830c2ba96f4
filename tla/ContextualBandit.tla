-------------------------- MODULE ContextualBandit --------------------------
(***************************************************************************)
(* The contextual bandit, rl/bandit.py, with its JSON file and no Redis:   *)
(* the decisions that await feedback and what the policy has learned.      *)
(*                                                                         *)
(* An arm here is a (context, action) pair.  The sum of rewards of the     *)
(* arms is kept as the set of rewards it is made of: credit[t] is the      *)
(* score absorbed for transaction t.  Which arm is chosen is left open:    *)
(* with any epsilon, and any means, select_action may return any arm.      *)
(***************************************************************************)
EXTENDS TransactionStore

CONSTANT Arms

VARIABLES
  pending,      \* ContextualBandit._pending
  policy,       \* arms (their pulls, and their total_reward as credit)
                \* and total_updates
  banditFile    \* The payload in the file at rl_state_path.

banditVars == <<pending, policy, banditFile>>

PendingTimeout == AtLeast(1, FeedbackTimeout)

Decision == [created: Time, arm: Arms]

ASSUME DecisionAssumption == Absent \notin Decision

Decisions == [Txns -> Decision \cup {Absent}]

Policy == [pulls: [Arms -> Nat], total: Nat,
           credit: [Txns -> Scores \cup {NoScore}]]

Payload == [pending: Decisions, policy: Policy]

NoDecisions == [t \in Txns |-> Absent]

FreshPolicy == [pulls |-> [a \in Arms |-> 0], total |-> 0,
                credit |-> [t \in Txns |-> NoScore]]

BanditTypeOK ==
  /\ pending \in Decisions
  /\ policy \in Policy
  /\ banditFile \in Payload

BanditInit ==
  /\ pending = NoDecisions
  /\ policy = FreshPolicy
  /\ banditFile = [pending |-> NoDecisions, policy |-> FreshPolicy]

-----------------------------------------------------------------------------
(* A slip to be caught: nothing is purged. *)
AllDecisions(decisions) == decisions

(* _purge_expired_pending_locked: in memory only. *)
Unexpired(decisions) ==
  [t \in Txns |->
     IF decisions[t] # Absent /\ Outlived(decisions[t].created, PendingTimeout)
       THEN Absent ELSE decisions[t]]

(* A slip to be caught: the change stays in memory. *)
SaveForgotten ==
  /\ UNCHANGED banditFile
  /\ NoFault

(* _save: the whole payload, once memory has changed. *)
SaveBandit ==
  /\ banditFile' = [pending |-> pending', policy |-> policy']
  /\ NoFault

SaveBanditFails ==
  /\ UNCHANGED banditFile
  /\ Fault("save")

SelectAction ==
  /\ pending' = Unexpired(pending)
  /\ UNCHANGED <<policy, banditFile>>
  /\ NoFault

WithDecision(t, a, now) ==
  [Unexpired(pending) EXCEPT ![t] = [created |-> now, arm |-> a]]

RegisterPending(t, a, now) ==
  /\ pending' = WithDecision(t, a, now)
  /\ UNCHANGED policy
  /\ SaveBandit

RegisterPendingFails(t, a, now) ==
  /\ pending' = WithDecision(t, a, now)
  /\ UNCHANGED policy
  /\ SaveBanditFails

-----------------------------------------------------------------------------
(* apply_feedback: the decision is popped, its arm updated.  An unknown or *)
(* expired decision raises KeyError before anything is saved, the purge    *)
(* included.                                                               *)
(* A slip to be caught: total_updates is left as it was. *)
LearnedUncounted(t, a, s) ==
  [policy EXCEPT !.pulls[a] = @ + 1, !.credit[t] = s]

Learned(t, a, s) ==
  [pulls  |-> [policy.pulls EXCEPT ![a] = @ + 1],
   total  |-> policy.total + 1,
   credit |-> [policy.credit EXCEPT ![t] = s]]

WithoutDecision(t) == [Unexpired(pending) EXCEPT ![t] = Absent]

Absorb(t, s) ==
  /\ Unexpired(pending)[t] # Absent
  /\ pending' = WithoutDecision(t)
  /\ policy' = Learned(t, pending[t].arm, s)

ApplyFeedback(t, s) == Absorb(t, s) /\ SaveBandit

ApplyFeedbackFails(t, s) == Absorb(t, s) /\ SaveBanditFails

ApplyFeedbackUnknown(t) ==
  /\ Unexpired(pending)[t] = Absent
  /\ pending' = Unexpired(pending)
  /\ UNCHANGED <<policy, banditFile>>
  /\ NoFault

(* snapshot, called by /ready and /rl/state, saves only what it purged. *)
Snapshot ==
  /\ Unexpired(pending) # pending
  /\ pending' = Unexpired(pending)
  /\ UNCHANGED policy
  /\ SaveBandit

SnapshotFails ==
  /\ Unexpired(pending) # pending
  /\ pending' = Unexpired(pending)
  /\ UNCHANGED policy
  /\ SaveBanditFails

-----------------------------------------------------------------------------
(* _load: the file's payload, purged in memory; a file that cannot be read *)
(* is passed over and leaves the fresh policy of __init__.                 *)
LoadBandit ==
  /\ pending' = Unexpired(banditFile.pending)
  /\ policy' = banditFile.policy
  /\ UNCHANGED banditFile

LoadBanditFails ==
  /\ pending' = NoDecisions
  /\ policy' = FreshPolicy
  /\ UNCHANGED banditFile
=============================================================================
