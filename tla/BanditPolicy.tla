---------------------------- MODULE BanditPolicy ----------------------------
(***************************************************************************)
(* What the contextual bandit learns and how it chooses, rl/bandit.py and  *)
(* rl/rewards.py: the arms of each context with their pulls and summed     *)
(* rewards, epsilon, the choice by chance or by the best mean, and the     *)
(* state file, which outlives a change of the configured models.           *)
(*                                                                         *)
(* One process without Redis, as in ContextualBandit, whose failing saves  *)
(* and readings of the clock are left out here: a feedback window closes   *)
(* at any moment (WindowCloses).                                           *)
(***************************************************************************)
EXTENDS Integers, FiniteSetsExt, Functions

CONSTANTS
  Txns,         \* Transaction ids, one for each query.
  Contexts,     \* category::complexity, from build_context_key.
  Models,       \* Models that may be configured.
  TopKs,        \* Values of top_k, {2, 5} in the code.
  Latencies,    \* Latencies of an answer, in seconds.
  LatencyCap,   \* rl_latency_cap_seconds
  Certain,      \* An epsilon that always explores; epsilon is in parts of it.
  RlEpsilon,    \* rl_epsilon
  EpsilonMin,   \* rl_epsilon_min
  Decay(_),     \* epsilon * rl_epsilon_decay
  Absent,       \* No file, no arm, no decision, no choice, nothing learned.
  MaxRestarts   \* Bound: times the process stops and starts again.

ASSUME PolicyAssumption ==
  /\ IsFiniteSet(Txns)
  /\ Latencies \subseteq Nat
  /\ LatencyCap \in Int
  /\ Certain \in Nat
  /\ {RlEpsilon, EpsilonMin} \subseteq 0 .. Certain
  /\ \A e \in 0 .. Certain : Decay(e) \in 0 .. e
  /\ MaxRestarts \in Nat

Actions == [llm : Models, topK : TopKs]

Scores == {0, 1}

Stats == [pulls : Nat, reward : Int]

NewStats == [pulls |-> 0, reward |-> 0]

(* The arms of each context; one that was never set up is absent.          *)
Arms == [Contexts -> [Actions -> Stats \cup {Absent}]]

NoArms == [c \in Contexts |-> [a \in Actions |-> Absent]]

Decision == [context : Contexts, action : Actions, latency : Latencies]

Lesson == [decision : Decision, score : Scores]

Payloads ==
  [arms : Arms, epsilon : 0 .. Certain, total : Nat,
   pending : [Txns -> Decision \cup {Absent}]]

ASSUME AbsentAssumption == Absent \notin Stats \cup Payloads \cup Lesson

VARIABLES
  models,       \* settings.llm_models of this start.
  arms, epsilon, total,
  pending,      \* _pending
  file,         \* The payload at rl_state_path.
  stage,        \* Where the query of a transaction is.
  chosen,       \* Its context and action, and the policy that chose.
  late,         \* Transactions whose feedback window has closed.
  learned,      \* History: the decision and score each reward came from.
  restarts

policy == <<arms, epsilon, total>>
queries == <<stage, chosen, late, learned>>

vars == <<models, policy, pending, file, queries, restarts>>

Payload ==
  [arms |-> arms, epsilon |-> epsilon, total |-> total, pending |-> pending]

Nothing == [t \in Txns |-> Absent]

TypeOK ==
  /\ models \in SUBSET Models \ {{}}
  /\ Payload \in Payloads
  /\ file \in Payloads \cup {Absent}
  /\ stage \in [Txns -> {"new", "agent", "open", "lost"}]
  /\ chosen \in [Txns -> [context : Contexts, action : Actions,
                          policy : {"explore", "exploit"}] \cup {Absent}]
  /\ late \subseteq Txns
  /\ learned \in [Txns -> Lesson \cup {Absent}]
  /\ restarts \in 0 .. MaxRestarts

Init ==
  /\ models \in SUBSET Models \ {{}}
  /\ arms = NoArms
  /\ epsilon = RlEpsilon
  /\ total = 0
  /\ pending = Nothing
  /\ file = Absent
  /\ stage = [t \in Txns |-> "new"]
  /\ chosen = Nothing
  /\ late = {}
  /\ learned = Nothing
  /\ restarts = 0

-----------------------------------------------------------------------------
(* _default_actions: the action space. *)
Configured == {a \in Actions : a.llm \in models}

(* _ensure_context: arms of other models stay. *)
Known(c) ==
  [a \in Actions |->
     IF arms[c][a] = Absent /\ a \in Configured THEN NewStats ELSE arms[c][a]]

Purged == [t \in Txns |-> IF t \in late THEN Absent ELSE pending[t]]

Saved == file' = Payload'

(* Means, compared without a division; that of an unpulled arm is zero.    *)
Weight(s) == Max({1, s.pulls})

HigherMean(s, r) == s.reward * Weight(r) > r.reward * Weight(s)

(* The higher mean, and the fewer pulls among equals. *)
Better(s, r) == HigherMean(s, r) \/ (~HigherMean(r, s) /\ s.pulls < r.pulls)

Best(known) ==
  LET there == {a \in Actions : known[a] # Absent} IN
  {a \in there : ~ \E b \in there : Better(known[b], known[a])}

Choose(t, c, a, by) ==
  chosen' = [chosen EXCEPT ![t] = [context |-> c, action |-> a, policy |-> by]]

SelectAction(t, c) ==
  /\ stage[t] = "new"
  /\ stage' = [stage EXCEPT ![t] = "agent"]
  /\ pending' = Purged
  /\ arms' = [arms EXCEPT ![c] = Known(c)]
  /\ \/ epsilon > 0 /\ \E a \in Configured : Choose(t, c, a, "explore")
     \/ epsilon < Certain /\ \E a \in Best(Known(c)) : Choose(t, c, a, "exploit")
  /\ UNCHANGED <<models, epsilon, total, file, late, learned, restarts>>

RegisterPending(t, latency) ==
  /\ stage[t] = "agent"
  /\ stage' = [stage EXCEPT ![t] = "open"]
  /\ pending' = [Purged EXCEPT ![t] =
                   [context |-> chosen[t].context, action |-> chosen[t].action,
                    latency |-> latency]]
  /\ UNCHANGED <<models, policy, chosen, late, learned, restarts>>
  /\ Saved

(* A slip to be caught: the latency counts in full. *)
RewardUncapped(score, latency) == score * 10 - latency

(* compute_reward *)
Reward(score, latency) == score * 10 - Min({latency, Max({LatencyCap, 0})})

(* setdefault *)
StatsOf(arm) == IF arm = Absent THEN NewStats ELSE arm

(* A slip to be caught: an arm set up anew loses what it had. *)
UpdatedAnew(d, score) ==
  [pulls |-> IF d.action \in Configured THEN StatsOf(arms[d.context][d.action]).pulls + 1 ELSE 1,
   reward |-> Reward(score, d.latency)]

(* ArmStats.update *)
Updated(d, score) ==
  LET s == StatsOf(arms[d.context][d.action]) IN
  [pulls |-> s.pulls + 1, reward |-> s.reward + Reward(score, d.latency)]

Decayed(e) == Max({EpsilonMin, Decay(e)})

ApplyFeedback(t, score) ==
  /\ stage[t] = "open"
  /\ Purged[t] # Absent
  /\ LET d == pending[t] IN
       /\ arms' = [arms EXCEPT ![d.context] =
                     [Known(d.context) EXCEPT ![d.action] = Updated(d, score)]]
       /\ learned' = [learned EXCEPT ![t] = [decision |-> d, score |-> score]]
  /\ total' = total + 1
  /\ epsilon' = Decayed(epsilon)
  /\ pending' = [Purged EXCEPT ![t] = Absent]
  /\ UNCHANGED <<models, stage, chosen, late, restarts>>
  /\ Saved

(* KeyError; the purge that went before it is not saved. *)
ApplyFeedbackUnknown(t) ==
  /\ stage[t] = "open"
  /\ Purged[t] = Absent
  /\ pending' = Purged
  /\ UNCHANGED <<models, policy, file, queries, restarts>>

Snapshot ==
  /\ Purged # pending
  /\ pending' = Purged
  /\ UNCHANGED <<models, policy, queries, restarts>>
  /\ Saved

WindowCloses(t) ==
  /\ stage[t] = "open"
  /\ late' = late \cup {t}
  /\ UNCHANGED <<models, policy, pending, file, stage, chosen, learned, restarts>>

-----------------------------------------------------------------------------
(* A slip to be caught: epsilon starts over. *)
LoadedEpsilonAnew == RlEpsilon

LoadedEpsilon == IF file = Absent THEN RlEpsilon ELSE file.epsilon

(* The process stops, its queries with it, and starts again with other     *)
(* models perhaps: __init__ and _load.                                     *)
Restart ==
  /\ restarts < MaxRestarts
  /\ restarts' = restarts + 1
  /\ stage' = [t \in Txns |-> IF stage[t] = "agent" THEN "lost" ELSE stage[t]]
  /\ models' \in SUBSET Models \ {{}}
  /\ epsilon' = LoadedEpsilon
  /\ arms' = IF file = Absent THEN NoArms ELSE file.arms
  /\ total' = IF file = Absent THEN 0 ELSE file.total
  /\ pending' = [t \in Txns |->
       IF file = Absent \/ t \in late THEN Absent ELSE file.pending[t]]
  /\ UNCHANGED <<file, chosen, late, learned>>

Next ==
  \/ \E t \in Txns, c \in Contexts : SelectAction(t, c)
  \/ \E t \in Txns, latency \in Latencies : RegisterPending(t, latency)
  \/ \E t \in Txns, score \in Scores : ApplyFeedback(t, score)
  \/ \E t \in Txns : ApplyFeedbackUnknown(t) \/ WindowCloses(t)
  \/ Snapshot
  \/ Restart

Spec == Init /\ [][Next]_vars
-----------------------------------------------------------------------------
LearnedFrom == {t \in Txns : learned[t] # Absent}

FeedbackOn(c, a) ==
  {t \in LearnedFrom : learned[t].decision.context = c /\ learned[t].decision.action = a}

Rewards ==
  [t \in LearnedFrom |-> Reward(learned[t].score, learned[t].decision.latency)]

TalliesOf(c, a) ==
  [pulls  |-> Cardinality(FeedbackOn(c, a)),
   reward |-> SumFunctionOnSet(Rewards, FeedbackOn(c, a))]

Agrees(p) ==
  /\ p.total = Cardinality(LearnedFrom)
  /\ \A c \in Contexts, a \in Actions :
       StatsOf(p.arms[c][a]) = TalliesOf(c, a)

(* "incremental sample-mean estimates per (context, action)": pulls and    *)
(* rewards of every arm are those of the feedback on its decisions, in     *)
(* memory and in the file, whatever models were configured when a query    *)
(* was routed, when its feedback came and when the process came back.      *)
ArmsAreTheirFeedback ==
  /\ Agrees(Payload)
  /\ IF file = Absent THEN LearnedFrom = {} ELSE Agrees(file)

(* Exploration decays with the updates, and a restart neither starts it    *)
(* over nor lets it fall below its floor (bandit.py, apply_feedback and    *)
(* _load).                                                                 *)
EpsilonAfter ==
  LET after[n \in 0 .. Cardinality(Txns)] ==
        IF n = 0 THEN RlEpsilon ELSE Decayed(after[n - 1])
  IN after

EpsilonFollowsUpdates ==
  /\ epsilon = EpsilonAfter[total]
  /\ file # Absent => file.epsilon = EpsilonAfter[file.total]

(* "preventing slow-but-helpful responses from always losing": exploiting, *)
(* an arm that only ever failed is the last resort: it is chosen when each *)
(* configured arm of the context has failed, never over one that is        *)
(* untried or was only helpful, however slow (rewards.py and bandit.py,    *)
(* select_action; with 0 < latency and a cap in 1 .. 10).                  *)
Failed(c, a) == \E t \in FeedbackOn(c, a) : learned[t].score = 0

OnlyFailed(c, a) ==
  Failed(c, a) /\ \A t \in FeedbackOn(c, a) : learned[t].score = 0

FailureIsLastResort ==
  [][\A t \in Txns :
       chosen'[t] # chosen[t] /\ chosen'[t].policy = "exploit" =>
         LET c == chosen'[t].context IN
         OnlyFailed(c, chosen'[t].action) =>
           \A a \in Configured : Failed(c, a)]_vars
=============================================================================
