-------------------------- MODULE FeedbackContract --------------------------
(***************************************************************************)
(* What POST /query and POST /feedback promise a client, without ledger,   *)
(* bandit, files or processes:                                             *)
(*   - only an answered query is ever learned from;                        *)
(*   - the policy on disk learns from it once, and never unlearns;         *)
(*   - "200 updated" is given to at most one feedback per query, and only  *)
(*     when its score is what the policy on disk has learned.              *)
(***************************************************************************)
CONSTANTS Txns, Scores, NoScore, Feedbacks, Absent

VARIABLES
  issued,       \* Transaction ids that an answer gave to a client.
  learned,      \* The score the policy on disk absorbed for each of them.
  acked         \* The claim of each feedback that was answered 200.

contractVars == <<issued, learned, acked>>

Init ==
  /\ issued = {}
  /\ learned = [t \in Txns |-> NoScore]
  /\ acked = [f \in Feedbacks |-> Absent]

Issue(t) ==
  /\ issued' = issued \cup {t}
  /\ UNCHANGED <<learned, acked>>

(* Several at a time: a save that failed is made good by the next one. *)
Learn ==
  /\ learned' \in [Txns -> Scores \cup {NoScore}]
  /\ \A t \in Txns : learned'[t] # learned[t] => t \in issued /\ learned[t] = NoScore
  /\ UNCHANGED <<issued, acked>>

Acknowledge(f, t, s) ==
  /\ learned[t] = s
  /\ \A g \in Feedbacks : acked[g] # Absent => acked[g].txn # t
  /\ acked' = [acked EXCEPT ![f] = [txn |-> t, score |-> s]]
  /\ UNCHANGED <<issued, learned>>

Next ==
  \/ \E t \in Txns : Issue(t)
  \/ Learn
  \/ \E f \in Feedbacks, t \in Txns, s \in Scores : Acknowledge(f, t, s)

Spec == Init /\ [][Next]_contractVars
=============================================================================
