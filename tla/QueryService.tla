---------------------------- MODULE QueryService ----------------------------
(***************************************************************************)
(* The service behind POST /query and POST /feedback,                      *)
(* services/query_service.py, over the ledger, the bandit and the audit    *)
(* trail, in one process without Redis.                                    *)
(*                                                                         *)
(* A request is a coroutine that hands each call on a store to a worker    *)
(* thread and awaits it (core/async_utils.py): a step of a request is one  *)
(* such call, and the steps of all requests interleave.  The process may   *)
(* stop at any moment and come back with what its files hold.              *)
(***************************************************************************)
EXTENDS ContextualBandit, AuditStore

CONSTANTS
  Feedbacks,    \* Feedback requests, one identity per POST /feedback.
  MaxCrashes    \* Bound: times the process stops and starts again.

ASSUME ServiceAssumption == MaxCrashes \in Nat

VARIABLES
  qpc,          \* Where the query with transaction id t is.
  decision,     \* Its locals: the arm chosen, time.time() after the agent.
  fpc,          \* Where the feedback f is, or the status it was answered.
  claim,        \* Its payload: a transaction id and a score.
  crashes       \* Stops of the process so far, against MaxCrashes.

requestVars == <<qpc, decision, fpc, claim, crashes>>

vars == <<platformVars, storeVars, banditVars, auditVars, requestVars>>

QueryInFlight == {"agent", "put", "register", "audit"}
QueryOver     == {"answered", "failed", "lost"}

FeedbackInFlight == {"apply", "release", "mark", "audit"}
FeedbackOver     == {"200", "404", "409", "410", "500", "lost"}

Claims == [txn: Txns, score: Scores]

(* The events the audit trail records. *)
QueryEvent(t)    == <<"query", t>>
FeedbackEvent(f) == <<"feedback", f>>

Events == {QueryEvent(t) : t \in Txns} \cup {FeedbackEvent(f) : f \in Feedbacks}

AuditTypeOK ==
  /\ auditPg \subseteq Events
  /\ auditFile \subseteq Events

(* The type invariant of the service and of all it is composed of. *)
TypeOK ==
  /\ PlatformTypeOK
  /\ StoreTypeOK
  /\ BanditTypeOK
  /\ AuditTypeOK
  /\ qpc \in [Txns -> {"idle"} \cup QueryInFlight \cup QueryOver]
  /\ decision \in Decisions
  /\ fpc \in [Feedbacks -> {"idle"} \cup FeedbackInFlight \cup FeedbackOver]
  /\ claim \in [Feedbacks -> Claims \cup {Absent}]
  /\ crashes \in 0 .. MaxCrashes

Init ==
  /\ PlatformInit
  /\ StoreInit
  /\ BanditInit
  /\ AuditInit
  /\ qpc = [t \in Txns |-> "idle"]
  /\ decision = NoDecisions
  /\ fpc = [f \in Feedbacks |-> "idle"]
  /\ claim = [f \in Feedbacks |-> Absent]
  /\ crashes = 0

-----------------------------------------------------------------------------
(* handle_query *)

QueryStep(t, from, to) ==
  /\ qpc[t] = from
  /\ qpc' = [qpc EXCEPT ![t] = to]
  /\ UNCHANGED <<fpc, claim, crashes>>

StartQuery(t, a) ==
  /\ QueryStep(t, "idle", "agent")
  /\ SelectAction
  /\ decision' = [decision EXCEPT ![t] = [created |-> clock, arm |-> a]]
  /\ UNCHANGED <<clock, storeVars, auditVars>>

AgentAnswers(t) ==
  /\ QueryStep(t, "agent", "put")
  /\ decision' = [decision EXCEPT ![t].created = clock]
  /\ UNCHANGED <<platformVars, storeVars, banditVars, auditVars>>

AgentRaises(t) ==
  /\ QueryStep(t, "agent", "failed")
  /\ UNCHANGED <<decision, platformVars, storeVars, banditVars, auditVars>>

PutRecord(t) ==
  /\ \/ QueryStep(t, "put", "register") /\ Put(t, decision[t].created)
     \/ QueryStep(t, "put", "failed") /\ PutFails(t, decision[t].created)
  /\ UNCHANGED <<decision, banditVars, auditVars>>

RegisterDecision(t) ==
  /\ \/ /\ QueryStep(t, "register", "audit")
        /\ RegisterPending(t, decision[t].arm, decision[t].created)
     \/ /\ QueryStep(t, "register", "failed")
        /\ RegisterPendingFails(t, decision[t].arm, decision[t].created)
  /\ UNCHANGED <<decision, clock, storeVars, auditVars>>

AuditQuery(t) ==
  /\ \/ QueryStep(t, "audit", "answered") /\ RecordEvent(QueryEvent(t))
     \/ QueryStep(t, "audit", "failed") /\ RecordEventFails(QueryEvent(t))
  /\ UNCHANGED <<decision, clock, storeVars, banditVars>>

-----------------------------------------------------------------------------
(* handle_feedback, with the status api/routes.py gives each exception *)

FeedbackStep(f, from, to) ==
  /\ fpc[f] = from
  /\ fpc' = [fpc EXCEPT ![f] = to]
  /\ UNCHANGED <<qpc, decision, crashes>>

(* A client knows a transaction id from the answer that carried it. *)
SubmitFeedback(f, t, s) ==
  /\ qpc[t] = "answered"
  /\ \/ FeedbackStep(f, "idle", "apply") /\ ReserveOk(t)
     \/ FeedbackStep(f, "idle", "404") /\ ReserveMissing(t)
     \/ FeedbackStep(f, "idle", "409") /\ ReserveAlreadyScored(t)
     \/ FeedbackStep(f, "idle", "410") /\ ReserveExpired(t)
     \/ FeedbackStep(f, "idle", "500") /\ ReserveFails(t)
  /\ claim' = [claim EXCEPT ![f] = [txn |-> t, score |-> s]]
  /\ UNCHANGED <<banditVars, auditVars>>

ApplyScore(f) ==
  /\ LET t == claim[f].txn
         s == claim[f].score
     IN \/ FeedbackStep(f, "apply", "mark") /\ ApplyFeedback(t, s)
        \/ FeedbackStep(f, "apply", "release") /\ ApplyFeedbackUnknown(t)
        \/ FeedbackStep(f, "apply", "500") /\ ApplyFeedbackFails(t, s)
  /\ UNCHANGED <<claim, clock, storeVars, auditVars>>

ReleaseClaim(f) ==
  /\ \/ FeedbackStep(f, "release", "410") /\ Release(claim[f].txn)
     \/ FeedbackStep(f, "release", "500") /\ ReleaseFails(claim[f].txn)
  /\ UNCHANGED <<claim, banditVars, auditVars>>

(* A slip to be caught: the audit trail is passed by. *)
MarkReplyUnaudited == [ok |-> "200", missing |-> "404", conflict |-> "409"]

MarkReply == [ok |-> "audit", missing |-> "404", conflict |-> "409"]

MarkScore(f) ==
  /\ LET t == claim[f].txn
         s == claim[f].score
     IN \/ FeedbackStep(f, "mark", MarkReply[MarkOutcome(t)]) /\ Mark(t, s)
        \/ FeedbackStep(f, "mark", "500") /\ MarkFails(t, s)
  /\ UNCHANGED <<claim, banditVars, auditVars>>

AuditFeedback(f) ==
  /\ \/ FeedbackStep(f, "audit", "200") /\ RecordEvent(FeedbackEvent(f))
     \/ FeedbackStep(f, "audit", "500") /\ RecordEventFails(FeedbackEvent(f))
  /\ UNCHANGED <<claim, clock, storeVars, banditVars>>

-----------------------------------------------------------------------------
(* GET /ready and GET /rl/state *)
TakeSnapshot ==
  /\ Snapshot \/ SnapshotFails
  /\ UNCHANGED <<clock, storeVars, auditVars, requestVars>>

Tick ==
  /\ ClockAdvances
  /\ UNCHANGED <<faults, storeVars, banditVars, auditVars, requestVars>>

(* The process stops, its requests with it, and build_state reads the      *)
(* bandit's file and then the ledger's.  A worker thread cut short counts  *)
(* as not having run: a save either replaced the file or did not.          *)
Restart ==
  /\ crashes < MaxCrashes
  /\ crashes' = crashes + 1
  /\ qpc' = [t \in Txns |-> IF qpc[t] \in QueryInFlight THEN "lost" ELSE qpc[t]]
  /\ fpc' = [f \in Feedbacks |->
               IF fpc[f] \in FeedbackInFlight THEN "lost" ELSE fpc[f]]
  /\ \/ LoadBandit /\ LoadStore /\ NoFault
     \/ LoadBanditFails /\ LoadStore /\ Fault("load")
     \/ LoadBandit /\ LoadStoreFails /\ Fault("load")
  /\ UNCHANGED <<decision, claim, clock, auditVars>>

-----------------------------------------------------------------------------
QueryProgress(t) ==
  \/ AgentAnswers(t)
  \/ AgentRaises(t)
  \/ PutRecord(t)
  \/ RegisterDecision(t)
  \/ AuditQuery(t)

FeedbackProgress(f) ==
  \/ ApplyScore(f)
  \/ ReleaseClaim(f)
  \/ MarkScore(f)
  \/ AuditFeedback(f)

Next ==
  \/ \E t \in Txns, a \in Arms : StartQuery(t, a)
  \/ \E t \in Txns : QueryProgress(t)
  \/ \E f \in Feedbacks, t \in Txns, s \in Scores : SubmitFeedback(f, t, s)
  \/ \E f \in Feedbacks : FeedbackProgress(f)
  \/ TakeSnapshot
  \/ Tick
  \/ Restart

Spec == Init /\ [][Next]_vars

(* The event loop and the worker threads run every request that started:   *)
(* its next step is always enabled until it is over.  Nothing makes a      *)
(* client ask, the clock move or the process stop.                         *)
Fairness ==
  /\ \A t \in Txns : WF_vars(QueryProgress(t))
  /\ \A f \in Feedbacks : WF_vars(FeedbackProgress(f))

FairSpec == Spec /\ Fairness
=============================================================================
