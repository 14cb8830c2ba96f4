--------------------------- MODULE FeedbackProofs ---------------------------
(***************************************************************************)
(* Type correctness of QueryService, and the safety of feedback, for every *)
(* value of its constants: that one request at a time claims a transaction *)
(* (FeedbackProperties!ExclusiveFeedback), and what the bandit learns from *)
(* it (LearnsInWindow, LearnedOnce, ScoresAreLearned).                     *)
(***************************************************************************)
EXTENDS FeedbackProperties, FiniteSetTheorems, TLAPS

(* The locals of a request are bound once it has started.                  *)
LocalsBound ==
  /\ \A t \in Txns : qpc[t] # "idle" => decision[t] \in Decision
  /\ \A f \in Feedbacks : fpc[f] # "idle" => claim[f] \in Claims

TypeInv == TypeOK /\ LocalsBound

-----------------------------------------------------------------------------
(* The helpers return what their types say.                                *)

LEMMA PurgedType == ASSUME NEW ledger \in Ledger PROVE Purged(ledger) \in Ledger
  BY DEF Purged, Ledger

LEMMA UnexpiredType ==
  ASSUME NEW decisions \in Decisions PROVE Unexpired(decisions) \in Decisions
  BY DEF Unexpired, Decisions

LEMMA FaultsType ==
  ASSUME PlatformTypeOK, NEW kinds, Faults(kinds) \/ NoFault
  PROVE  faults' \in [FaultKinds -> 0 .. MaxFaults]
  <1>1. CASE Faults(kinds)
    <2>1. \A k \in FaultKinds : faults[k] \in 0 .. MaxFaults /\ MaxFaults \in Nat
      BY PlatformAssumption DEF PlatformTypeOK
    <2>2. \A k \in FaultKinds :
            faults[k] + (IF k \in kinds THEN 1 ELSE 0) \in 0 .. MaxFaults
      BY <1>1, <2>1 DEF Faults
    <2> QED BY <1>1, <2>2 DEF Faults
  <1>2. CASE NoFault
    BY <1>2 DEF PlatformTypeOK, NoFault
  <1> QED BY <1>1, <1>2

LEMMA FaultType ==
  ASSUME PlatformTypeOK, NEW kind, Fault(kind) \/ NoFault
  PROVE  faults' \in [FaultKinds -> 0 .. MaxFaults]
  BY FaultsType DEF Fault

LEMMA ClockType ==
  ASSUME PlatformTypeOK, ClockAdvances \/ UNCHANGED clock
  PROVE  clock' \in Time
  BY ClockAssumption DEF PlatformTypeOK, ClockAdvances, Time

(* Every operation of the ledger keeps it, and the platform, well typed.   *)
LEMMA PutType ==
  ASSUME PlatformTypeOK, StoreTypeOK, NEW t \in Txns, NEW now \in Time,
         Put(t, now) \/ PutFails(t, now)
  PROVE  PlatformTypeOK' /\ StoreTypeOK'
  <1>1. Purged(items) \in Ledger /\ FileAfterPurge \in Ledger
    BY PurgedType DEF StoreTypeOK, FileAfterPurge
  <1>2. [Purged(items) EXCEPT ![t] = NewRecord(now)] \in Ledger
    BY <1>1 DEF Ledger, NewRecord, Record
  <1>3. StoreTypeOK'
    BY <1>1, <1>2
    DEF StoreTypeOK, Put, PutFails, PurgeFails, Saved, SaveFails
  <1>4. (Fault("save") \/ NoFault) /\ UNCHANGED clock
    BY DEF Put, PutFails, PurgeFails, Saved, SaveFails
  <1> QED BY <1>3, <1>4, FaultType, ClockType DEF PlatformTypeOK

LEMMA FeedbackOperationsType ==
  ASSUME PlatformTypeOK, StoreTypeOK, NEW t \in Txns, NEW s \in Scores,
         \/ ReserveMissing(t) \/ ReserveAlreadyScored(t) \/ ReserveExpired(t)
         \/ ReserveOk(t) \/ ReserveFails(t)
         \/ Release(t) \/ ReleaseFails(t)
         \/ Mark(t, s) \/ MarkFails(t, s)
  PROVE  PlatformTypeOK' /\ StoreTypeOK'
  <1> DEFINE Popped == [Purged(items) EXCEPT ![t] = Absent]
  <1>1. Purged(items) \in Ledger /\ FileAfterPurge \in Ledger
    BY PurgedType DEF StoreTypeOK, FileAfterPurge
  <1>2. Popped \in Ledger
    BY <1>1 DEF Ledger
  <1>3. Claimable(t) => WithReservation(t) \in Ledger
    BY <1>1 DEF WithReservation, Claimable, Ledger, Record
  <1>4. Releasable(t) => Released(t) \in Ledger
    BY DEF Releasable, Released, StoreTypeOK, Ledger, Record
  <1>5. MarkOutcome(t) = "ok" => Marked(t, s) \in Ledger
    BY DEF MarkOutcome, Marked, StoreTypeOK, Ledger, Record
  <1>6. StoreTypeOK'
    BY <1>1, <1>2, <1>3, <1>4, <1>5
    DEF StoreTypeOK, storeVars, ReserveMissing, ReserveAlreadyScored, ReserveExpired,
        ReserveOk, ReserveFails, ExpiresMeanwhile, Release,
        ReleaseFails, Mark, MarkFails, PurgeOnly, PurgeFails, Saved, SaveFails
  <1>7. Fault("save") \/ NoFault
    BY DEF ReserveMissing, ReserveAlreadyScored, ReserveExpired, ReserveOk,
           ReserveFails, ExpiresMeanwhile, Release, ReleaseFails, Mark,
           MarkFails, PurgeOnly, PurgeFails, Saved, SaveFails
  <1>8. ClockAdvances \/ UNCHANGED clock
    BY DEF ReserveMissing, ReserveAlreadyScored, ReserveExpired, ReserveOk,
           ReserveFails, ExpiresMeanwhile, Release, ReleaseFails, Mark,
           MarkFails
  <1> QED BY <1>6, <1>7, <1>8, FaultType, ClockType DEF PlatformTypeOK

(* So does every operation of the bandit.                                  *)
LEMMA RegisterType ==
  ASSUME PlatformTypeOK, BanditTypeOK,
         NEW t \in Txns, NEW a \in Arms, NEW now \in Time,
         RegisterPending(t, a, now) \/ RegisterPendingFails(t, a, now)
  PROVE  faults' \in [FaultKinds -> 0 .. MaxFaults] /\ BanditTypeOK'
  <1>1. WithDecision(t, a, now) \in Decisions
    BY UnexpiredType DEF BanditTypeOK, WithDecision, Decisions, Decision
  <1>2. BanditTypeOK'
    BY <1>1
    DEF RegisterPending, RegisterPendingFails, SaveBandit, SaveBanditFails,
        BanditTypeOK, Payload
  <1>3. Fault("save") \/ NoFault
    BY DEF RegisterPending, RegisterPendingFails, SaveBandit, SaveBanditFails
  <1> QED BY <1>2, <1>3, FaultType

LEMMA SnapshotType ==
  ASSUME PlatformTypeOK, BanditTypeOK, Snapshot \/ SnapshotFails
  PROVE  faults' \in [FaultKinds -> 0 .. MaxFaults] /\ BanditTypeOK'
  <1>1. BanditTypeOK'
    BY UnexpiredType
    DEF Snapshot, SnapshotFails, SaveBandit, SaveBanditFails, BanditTypeOK, Payload
  <1>2. Fault("save") \/ NoFault
    BY DEF Snapshot, SnapshotFails, SaveBandit, SaveBanditFails
  <1> QED BY <1>1, <1>2, FaultType

LEMMA ApplyType ==
  ASSUME PlatformTypeOK, BanditTypeOK, NEW t \in Txns, NEW s \in Scores,
         \/ ApplyFeedback(t, s) \/ ApplyFeedbackFails(t, s)
         \/ ApplyFeedbackUnknown(t)
  PROVE  faults' \in [FaultKinds -> 0 .. MaxFaults] /\ BanditTypeOK'
  <1>1. Unexpired(pending) \in Decisions
    BY UnexpiredType DEF BanditTypeOK
  <1>2. WithoutDecision(t) \in Decisions
    BY <1>1 DEF WithoutDecision, Decisions
  <1>3. ASSUME Absorb(t, s) PROVE Learned(t, pending[t].arm, s) \in Policy
    <2>1. pending[t] \in Decision
      BY <1>3 DEF Absorb, Unexpired, BanditTypeOK, Decisions
    <2>2. pending[t].arm \in Arms
      BY <2>1 DEF Decision
    <2> QED BY <2>2 DEF Learned, BanditTypeOK, Policy
  <1>4. pending' \in Decisions /\ policy' \in Policy
    BY <1>1, <1>2, <1>3
    DEF ApplyFeedback, ApplyFeedbackFails, ApplyFeedbackUnknown, Absorb, BanditTypeOK
  <1>5. banditFile' \in Payload
    BY <1>4
    DEF ApplyFeedback, ApplyFeedbackFails, ApplyFeedbackUnknown, SaveBandit,
        SaveBanditFails, BanditTypeOK, Payload
  <1>6. Fault("save") \/ NoFault
    BY DEF ApplyFeedback, ApplyFeedbackFails, ApplyFeedbackUnknown, SaveBandit,
           SaveBanditFails
  <1> QED BY <1>4, <1>5, <1>6, FaultType DEF BanditTypeOK

LEMMA AuditOperationsType ==
  ASSUME PlatformTypeOK, AuditTypeOK,
         NEW event \in Events, RecordEvent(event) \/ RecordEventFails(event)
  PROVE  /\ faults' \in [FaultKinds -> 0 .. MaxFaults]
         /\ AuditTypeOK'
  <1>1. NoFault \/ \E kinds : Faults(kinds)
    BY DEF RecordEvent, RecordEventFails, InsertRow, AppendLine, InsertFallsBack,
           AppendFails, InsertAndAppendFail, Fault
  <1>2. faults' \in [FaultKinds -> 0 .. MaxFaults]
    BY <1>1, FaultsType
  <1>3. AuditTypeOK'
    BY DEF RecordEvent, RecordEventFails, InsertRow, AppendLine, InsertFallsBack,
           AppendFails, InsertAndAppendFail, auditVars, AuditTypeOK
  <1> QED BY <1>2, <1>3

LEMMA LoadType ==
  ASSUME PlatformTypeOK, StoreTypeOK, BanditTypeOK,
         LoadBandit \/ LoadBanditFails, LoadStore \/ LoadStoreFails
  PROVE  StoreTypeOK' /\ BanditTypeOK'
  <1>1. Purged(txnFile) \in Ledger /\ EmptyLedger \in Ledger
    BY PurgedType DEF StoreTypeOK, EmptyLedger, Ledger
  <1>2. StoreTypeOK'
    BY <1>1 DEF LoadStore, LoadStoreFails, StoreTypeOK
  <1>3. Unexpired(banditFile.pending) \in Decisions /\ banditFile.policy \in Policy
    BY UnexpiredType DEF BanditTypeOK, Payload
  <1>4. NoDecisions \in Decisions /\ FreshPolicy \in Policy
    BY DEF NoDecisions, Decisions, FreshPolicy, Policy
  <1>5. BanditTypeOK'
    BY <1>3, <1>4 DEF LoadBandit, LoadBanditFails, BanditTypeOK
  <1> QED BY <1>2, <1>5

-----------------------------------------------------------------------------
(* Type correctness.  Each action of the service is one call on one store, *)
(* so its proof is the lemma of that store and the step of the request.    *)

LEMMA InitTypeInv == Init => TypeInv
  <1> SUFFICES ASSUME Init PROVE TypeInv
    OBVIOUS
  <1> USE DEF Init
  <1>1. PlatformTypeOK
    BY PlatformAssumption, ClockAssumption DEF PlatformInit, PlatformTypeOK, Time
  <1>2. StoreTypeOK
    BY DEF StoreInit, StoreTypeOK, EmptyLedger, Ledger
  <1>3. NoDecisions \in Decisions /\ FreshPolicy \in Policy
    BY DEF NoDecisions, Decisions, FreshPolicy, Policy
  <1>4. BanditTypeOK
    BY <1>3 DEF BanditInit, BanditTypeOK, Payload
  <1>5. decision \in Decisions /\ crashes \in 0 .. MaxCrashes
    BY <1>3, ServiceAssumption
  <1>6. AuditTypeOK
    BY DEF AuditInit, AuditTypeOK
  <1>7. /\ qpc \in [Txns -> {"idle"} \cup QueryInFlight \cup QueryOver]
        /\ fpc \in [Feedbacks -> {"idle"} \cup FeedbackInFlight \cup FeedbackOver]
        /\ claim \in [Feedbacks -> Claims \cup {Absent}]
    OBVIOUS
  <1>8. LocalsBound
    BY DEF LocalsBound
  <1> QED BY <1>1, <1>2, <1>4, <1>5, <1>6, <1>7, <1>8 DEF TypeInv, TypeOK

LEMMA QueryStepType ==
  ASSUME TypeInv, NEW t \in Txns, NEW from,
         NEW to \in QueryInFlight \cup QueryOver, QueryStep(t, from, to),
         decision' \in Decisions, decision'[t] \in Decision,
         \A u \in Txns \ {t} : decision'[u] = decision[u]
  PROVE  /\ qpc' \in [Txns -> {"idle"} \cup QueryInFlight \cup QueryOver]
         /\ fpc' \in [Feedbacks -> {"idle"} \cup FeedbackInFlight \cup FeedbackOver]
         /\ claim' \in [Feedbacks -> Claims \cup {Absent}]
         /\ crashes' \in 0 .. MaxCrashes
         /\ LocalsBound'
  BY DEF TypeInv, TypeOK, LocalsBound, QueryStep

LEMMA FeedbackStepType ==
  ASSUME TypeInv, NEW f \in Feedbacks, NEW from,
         NEW to \in FeedbackInFlight \cup FeedbackOver, FeedbackStep(f, from, to),
         claim' \in [Feedbacks -> Claims \cup {Absent}], claim'[f] \in Claims,
         \A g \in Feedbacks \ {f} : claim'[g] = claim[g]
  PROVE  /\ qpc' \in [Txns -> {"idle"} \cup QueryInFlight \cup QueryOver]
         /\ fpc' \in [Feedbacks -> {"idle"} \cup FeedbackInFlight \cup FeedbackOver]
         /\ decision' \in Decisions
         /\ crashes' \in 0 .. MaxCrashes
         /\ LocalsBound'
  BY DEF TypeInv, TypeOK, LocalsBound, FeedbackStep

LEMMA StartQueryType ==
  ASSUME TypeInv, NEW t \in Txns, NEW a \in Arms, StartQuery(t, a)
  PROVE  TypeInv'
  <1>1. clock \in Time
    BY DEF TypeInv, TypeOK, PlatformTypeOK
  <1>2. /\ decision' \in Decisions
        /\ decision'[t] \in Decision
        /\ \A u \in Txns \ {t} : decision'[u] = decision[u]
    BY <1>1 DEF TypeInv, TypeOK, StartQuery, Decisions, Decision
  <1>3. BanditTypeOK'
    BY UnexpiredType
    DEF TypeInv, TypeOK, StartQuery, SelectAction, BanditTypeOK
  <1>4. PlatformTypeOK' /\ StoreTypeOK' /\ AuditTypeOK'
    BY DEF TypeInv, TypeOK, StartQuery, SelectAction, PlatformTypeOK, StoreTypeOK,
           storeVars, auditVars, NoFault,
           AuditTypeOK
  <1>5. QueryStep(t, "idle", "agent")
    BY DEF StartQuery
  <1> QED
    BY <1>2, <1>3, <1>4, <1>5, QueryStepType DEF TypeInv, TypeOK, QueryInFlight

LEMMA QueryProgressType ==
  ASSUME TypeInv, NEW t \in Txns, QueryProgress(t)
  PROVE  TypeInv'
  <1> USE DEF QueryInFlight, QueryOver
  <1>1. /\ PlatformTypeOK /\ StoreTypeOK /\ BanditTypeOK /\ clock \in Time
        /\ AuditTypeOK
    BY DEF TypeInv, TypeOK, PlatformTypeOK
  <1>2. PICK from \in QueryInFlight, to \in QueryInFlight \cup QueryOver :
          QueryStep(t, from, to)
    BY DEF QueryProgress, AgentAnswers, AgentRaises, PutRecord, RegisterDecision,
           AuditQuery
  <1>3. decision[t] \in Decision
    BY <1>2 DEF TypeInv, LocalsBound, QueryStep
  <1>4. /\ decision' \in Decisions
        /\ decision'[t] \in Decision
        /\ \A u \in Txns \ {t} : decision'[u] = decision[u]
    BY <1>1, <1>3
    DEF TypeInv, TypeOK, QueryProgress, AgentAnswers, AgentRaises, PutRecord,
        RegisterDecision, AuditQuery, Decisions, Decision
  <1>5. CASE AgentAnswers(t) \/ AgentRaises(t)
    <2>1. PlatformTypeOK' /\ StoreTypeOK' /\ BanditTypeOK'
      BY <1>1, <1>5
      DEF AgentAnswers, AgentRaises, platformVars, storeVars, banditVars,
          PlatformTypeOK, StoreTypeOK, BanditTypeOK
    <2>2. AuditTypeOK'
      BY <1>1, <1>5 DEF AgentAnswers, AgentRaises, auditVars, AuditTypeOK
    <2> QED BY <1>2, <1>4, <2>1, <2>2, QueryStepType DEF TypeInv, TypeOK
  <1>6. CASE PutRecord(t)
    <2>1. decision[t].created \in Time
      BY <1>3 DEF Decision
    <2>2. PlatformTypeOK' /\ StoreTypeOK'
      <3> DEFINE now == decision[t].created
      <3>1. Put(t, now) \/ PutFails(t, now)
        BY <1>6 DEF PutRecord
      <3>2. now \in Time
        BY <2>1
      <3> HIDE DEF now
      <3> QED BY <1>1, <3>1, <3>2, PutType
    <2>3. BanditTypeOK' /\ AuditTypeOK'
      BY <1>1, <1>6 DEF PutRecord, banditVars, auditVars, BanditTypeOK, AuditTypeOK
    <2> QED BY <1>2, <1>4, <2>2, <2>3, QueryStepType DEF TypeInv, TypeOK
  <1>7. CASE RegisterDecision(t)
    <2>1. faults' \in [FaultKinds -> 0 .. MaxFaults] /\ BanditTypeOK'
      <3> DEFINE now == decision[t].created
                 arm == decision[t].arm
      <3>1. RegisterPending(t, arm, now) \/ RegisterPendingFails(t, arm, now)
        BY <1>7 DEF RegisterDecision
      <3>2. now \in Time /\ arm \in Arms
        BY <1>3 DEF Decision
      <3> HIDE DEF now, arm
      <3> QED BY <1>1, <3>1, <3>2, RegisterType
    <2>2. StoreTypeOK' /\ clock' \in Time /\ AuditTypeOK'
      BY <1>1, <1>7 DEF RegisterDecision, storeVars, auditVars, StoreTypeOK, AuditTypeOK
    <2> QED BY <1>2, <1>4, <2>1, <2>2, QueryStepType DEF TypeInv, TypeOK, PlatformTypeOK
  <1>8. CASE AuditQuery(t)
    <2>1. QueryEvent(t) \in Events
      BY DEF Events
    <2>2. RecordEvent(QueryEvent(t)) \/ RecordEventFails(QueryEvent(t))
      BY <1>8 DEF AuditQuery
    <2>3. /\ faults' \in [FaultKinds -> 0 .. MaxFaults]
          /\ AuditTypeOK'
      BY <1>1, <2>1, <2>2, AuditOperationsType
    <2>4. StoreTypeOK' /\ BanditTypeOK' /\ clock' \in Time
      BY <1>1, <1>8 DEF AuditQuery, storeVars, banditVars, StoreTypeOK, BanditTypeOK
    <2> QED BY <1>2, <1>4, <2>3, <2>4, QueryStepType DEF TypeInv, TypeOK, PlatformTypeOK
  <1> QED BY <1>5, <1>6, <1>7, <1>8 DEF QueryProgress

LEMMA SubmitFeedbackType ==
  ASSUME TypeInv, NEW f \in Feedbacks, NEW t \in Txns, NEW s \in Scores,
         SubmitFeedback(f, t, s)
  PROVE  TypeInv'
  <1>1. PlatformTypeOK' /\ StoreTypeOK'
    BY FeedbackOperationsType DEF TypeInv, TypeOK, SubmitFeedback
  <1>2. BanditTypeOK' /\ AuditTypeOK'
    BY DEF TypeInv, TypeOK, SubmitFeedback, banditVars, auditVars, BanditTypeOK,
           AuditTypeOK
  <1>3. /\ claim' \in [Feedbacks -> Claims \cup {Absent}]
        /\ claim'[f] \in Claims
        /\ \A g \in Feedbacks \ {f} : claim'[g] = claim[g]
    BY DEF TypeInv, TypeOK, SubmitFeedback, Claims
  <1>4. PICK to \in FeedbackInFlight \cup FeedbackOver : FeedbackStep(f, "idle", to)
    BY DEF SubmitFeedback, FeedbackInFlight, FeedbackOver
  <1> QED BY <1>1, <1>2, <1>3, <1>4, FeedbackStepType DEF TypeInv, TypeOK

LEMMA FeedbackProgressType ==
  ASSUME TypeInv, NEW f \in Feedbacks, FeedbackProgress(f)
  PROVE  TypeInv'
  <1> USE DEF FeedbackInFlight, FeedbackOver
  <1>1. /\ PlatformTypeOK /\ StoreTypeOK /\ BanditTypeOK /\ AuditTypeOK
        /\ clock \in Time
    BY DEF TypeInv, TypeOK, PlatformTypeOK
  <1>2. PICK from \in FeedbackInFlight, to \in FeedbackInFlight \cup FeedbackOver :
          FeedbackStep(f, from, to)
    BY DEF FeedbackProgress, ApplyScore, ReleaseClaim, MarkScore, AuditFeedback,
           MarkReply, MarkOutcome
  <1>3. claim[f] \in Claims
    BY <1>2 DEF TypeInv, LocalsBound, FeedbackStep
  <1>4. /\ claim' \in [Feedbacks -> Claims \cup {Absent}]
        /\ claim'[f] \in Claims
        /\ \A g \in Feedbacks \ {f} : claim'[g] = claim[g]
    BY <1>3
    DEF TypeInv, TypeOK, FeedbackProgress, ApplyScore, ReleaseClaim, MarkScore,
        AuditFeedback
  <1> DEFINE t == claim[f].txn
             s == claim[f].score
  <1>5. t \in Txns /\ s \in Scores
    BY <1>3 DEF Claims
  <1>6. CASE ApplyScore(f)
    <2>1. \/ ApplyFeedback(t, s) \/ ApplyFeedbackFails(t, s)
          \/ ApplyFeedbackUnknown(t)
      BY <1>6 DEF ApplyScore
    <2>2. StoreTypeOK' /\ AuditTypeOK' /\ clock' \in Time
      BY <1>1, <1>6
      DEF ApplyScore, storeVars, auditVars, StoreTypeOK, AuditTypeOK
    <2> HIDE DEF t, s
    <2>3. faults' \in [FaultKinds -> 0 .. MaxFaults] /\ BanditTypeOK'
      BY <1>1, <1>5, <2>1, ApplyType
    <2> QED
      BY <1>2, <1>4, <2>2, <2>3, FeedbackStepType DEF TypeInv, TypeOK, PlatformTypeOK
  <1>7. CASE ReleaseClaim(f) \/ MarkScore(f)
    <2>1. \/ Release(t) \/ ReleaseFails(t) \/ Mark(t, s) \/ MarkFails(t, s)
      BY <1>7 DEF ReleaseClaim, MarkScore
    <2>2. BanditTypeOK' /\ AuditTypeOK'
      BY <1>1, <1>7
      DEF ReleaseClaim, MarkScore, banditVars, auditVars, BanditTypeOK, AuditTypeOK
    <2> HIDE DEF t, s
    <2>3. PlatformTypeOK' /\ StoreTypeOK'
      BY <1>1, <1>5, <2>1, FeedbackOperationsType
    <2> QED BY <1>2, <1>4, <2>2, <2>3, FeedbackStepType DEF TypeInv, TypeOK
  <1>8. CASE AuditFeedback(f)
    <2>1. FeedbackEvent(f) \in Events
      BY DEF Events
    <2>2. RecordEvent(FeedbackEvent(f)) \/ RecordEventFails(FeedbackEvent(f))
      BY <1>8 DEF AuditFeedback
    <2>3. faults' \in [FaultKinds -> 0 .. MaxFaults] /\ AuditTypeOK'
      BY <1>1, <2>1, <2>2, AuditOperationsType
    <2>4. StoreTypeOK' /\ BanditTypeOK' /\ clock' \in Time
      BY <1>1, <1>8
      DEF AuditFeedback, storeVars, banditVars, StoreTypeOK, BanditTypeOK
    <2> QED
      BY <1>2, <1>4, <2>3, <2>4, FeedbackStepType DEF TypeInv, TypeOK, PlatformTypeOK
  <1> QED BY <1>6, <1>7, <1>8 DEF FeedbackProgress

LEMMA TakeSnapshotType == ASSUME TypeInv, TakeSnapshot PROVE TypeInv'
  <1>1. faults' \in [FaultKinds -> 0 .. MaxFaults] /\ BanditTypeOK'
    BY SnapshotType DEF TypeInv, TypeOK, TakeSnapshot
  <1> QED
    BY <1>1
    DEF TypeInv, TypeOK, LocalsBound, TakeSnapshot, PlatformTypeOK, StoreTypeOK,
        AuditTypeOK, storeVars, auditVars, requestVars

LEMMA TickType == ASSUME TypeInv, Tick PROVE TypeInv'
  <1>1. clock' \in Time
    BY ClockType DEF TypeInv, TypeOK, Tick
  <1> QED
    BY <1>1
    DEF TypeInv, TypeOK, LocalsBound, Tick, PlatformTypeOK, StoreTypeOK, BanditTypeOK,
        AuditTypeOK, storeVars, banditVars, auditVars, requestVars

LEMMA RestartType == ASSUME TypeInv, Restart PROVE TypeInv'
  <1>1. StoreTypeOK' /\ BanditTypeOK'
    BY LoadType DEF TypeInv, TypeOK, Restart
  <1>2. Fault("load") \/ NoFault
    BY DEF Restart
  <1>3. PlatformTypeOK'
    BY <1>2, FaultType DEF TypeInv, TypeOK, Restart, PlatformTypeOK
  <1>4. crashes' \in 0 .. MaxCrashes
    BY ServiceAssumption DEF TypeInv, TypeOK, Restart
  <1>5. AuditTypeOK'
    BY DEF TypeInv, TypeOK, Restart, AuditTypeOK, auditVars
  <1>6. /\ qpc' \in [Txns -> {"idle"} \cup QueryInFlight \cup QueryOver]
        /\ fpc' \in [Feedbacks -> {"idle"} \cup FeedbackInFlight \cup FeedbackOver]
        /\ decision' \in Decisions
        /\ claim' \in [Feedbacks -> Claims \cup {Absent}]
    BY DEF TypeInv, TypeOK, Restart, QueryOver, FeedbackOver
  <1>7. LocalsBound'
    BY DEF TypeInv, TypeOK, Restart, LocalsBound, QueryInFlight, FeedbackInFlight
  <1> QED BY <1>1, <1>3, <1>4, <1>5, <1>6, <1>7 DEF TypeInv, TypeOK

LEMMA NextTypeInv == TypeInv /\ [Next]_vars => TypeInv'
  <1> SUFFICES ASSUME TypeInv, [Next]_vars PROVE TypeInv'
    OBVIOUS
  <1>1. CASE UNCHANGED vars
    BY <1>1
    DEF vars, platformVars, storeVars, banditVars, auditVars, requestVars, TypeInv,
        TypeOK, LocalsBound, PlatformTypeOK, StoreTypeOK, BanditTypeOK, AuditTypeOK
  <1>2. CASE Next
    BY <1>2, StartQueryType, QueryProgressType, SubmitFeedbackType,
       FeedbackProgressType, TakeSnapshotType, TickType, RestartType
    DEF Next
  <1> QED BY <1>1, <1>2

(* Every variable of the service, its ledger, bandit and audit trail keeps *)
(* its type, and a request in progress always has its locals.              *)
THEOREM TypeCorrect == Spec => []TypeOK
  <1>1. TypeInv => TypeOK
    BY DEF TypeInv
  <1> QED BY <1>1, InitTypeInv, NextTypeInv, PTL DEF Spec

(* The locals of every request under way are bound (query_service.py).    *)
THEOREM TypeInvariant == Spec => []TypeInv
  BY InitTypeInv, NextTypeInv, PTL DEF Spec
-----------------------------------------------------------------------------
(* Feedback is only ever about an answered query: its record was put long  *)
(* ago, and put never touches it again.                                    *)
ClaimsAnswered ==
  \A f \in Feedbacks : fpc[f] # "idle" => qpc[claim[f].txn] = "answered"

ExclusiveInv ==
  /\ TypeInv
  /\ ClaimsAnswered
  /\ ExclusiveFeedback

-----------------------------------------------------------------------------
LEMMA InitExclusive == Init => ExclusiveInv
  <1> SUFFICES ASSUME Init PROVE ExclusiveInv
    OBVIOUS
  <1>1. \A f \in Feedbacks : fpc[f] = "idle"
    BY DEF Init
  <1> QED
    BY <1>1, InitTypeInv
    DEF ExclusiveInv, ClaimsAnswered, ExclusiveFeedback, Holds, Holding

(* A step that starts or ends no feedback, and leaves the records held by  *)
(* one alone or drops them, keeps the invariant.                           *)
LEMMA BystanderKeepsExclusive ==
  ASSUME ExclusiveInv, TypeInv', UNCHANGED <<fpc, claim>>,
         \A t \in Txns : qpc[t] = "answered" => qpc'[t] = "answered",
         \A t \in Txns : qpc[t] = "answered" => items'[t] \in {items[t], Absent}
  PROVE  ExclusiveInv'
  <1>1. \A f \in Feedbacks : fpc[f] # "idle" => claim[f].txn \in Txns
    BY DEF ExclusiveInv, TypeInv, LocalsBound, Claims
  <1>2. ClaimsAnswered'
    BY <1>1 DEF ExclusiveInv, ClaimsAnswered
  <1>3. \A f \in Feedbacks, t \in Txns : Holds(f, t) => qpc[t] = "answered"
    BY DEF ExclusiveInv, ClaimsAnswered, Holds, Holding
  <1>4. ExclusiveFeedback'
    BY <1>3 DEF ExclusiveInv, ExclusiveFeedback, Holds
  <1> QED BY <1>2, <1>4 DEF ExclusiveInv

LEMMA QueryKeepsExclusive ==
  ASSUME ExclusiveInv, TypeInv', NEW t \in Txns,
         (\E a \in Arms : StartQuery(t, a)) \/ QueryProgress(t)
  PROVE  ExclusiveInv'
  <1>1. UNCHANGED <<fpc, claim>>
    BY DEF StartQuery, QueryProgress, AgentAnswers, AgentRaises, PutRecord,
           RegisterDecision, AuditQuery, QueryStep
  <1>2. qpc[t] # "answered" /\ \A u \in Txns \ {t} : qpc'[u] = qpc[u]
    BY DEF StartQuery, QueryProgress, AgentAnswers, AgentRaises, PutRecord,
           RegisterDecision, AuditQuery, QueryStep, ExclusiveInv, TypeInv, TypeOK
  <1>3. \A u \in Txns \ {t} : items'[u] \in {items[u], Absent}
    <2>1. CASE PutRecord(t)
      BY <2>1 DEF PutRecord, Put, PutFails, PurgeFails, Saved, SaveFails, Purged
    <2>2. CASE ~PutRecord(t)
      BY <2>2 DEF StartQuery, QueryProgress, AgentAnswers, AgentRaises,
                  RegisterDecision, AuditQuery, storeVars
    <2> QED BY <2>1, <2>2
  <1> QED BY <1>1, <1>2, <1>3, BystanderKeepsExclusive

(* What a reservation does to the records: it claims at most its own, and  *)
(* only one that nobody holds.                                             *)
LEMMA ReserveEffect ==
  ASSUME StoreTypeOK, NEW t \in Txns,
         \/ ReserveMissing(t) \/ ReserveAlreadyScored(t) \/ ReserveExpired(t)
         \/ ReserveOk(t) \/ ReserveFails(t)
  PROVE  /\ \A u \in Txns \ {t} : items'[u] \in {items[u], Absent}
         /\ items'[t] \in {items[t], Absent} \/ Claimable(t)
  BY DEF ReserveMissing, ReserveAlreadyScored, ReserveExpired, ReserveOk,
         ReserveFails, ExpiresMeanwhile, WithReservation, PurgeOnly, PurgeFails,
         Saved, SaveFails, Purged

LEMMA SubmitKeepsExclusive ==
  ASSUME ExclusiveInv, TypeInv', NEW f \in Feedbacks, NEW t \in Txns,
         NEW s \in Scores, SubmitFeedback(f, t, s)
  PROVE  ExclusiveInv'
  <1>1. /\ qpc[t] = "answered" /\ qpc' = qpc
        /\ fpc[f] = "idle" /\ fpc'[f] # "idle"
        /\ \A g \in Feedbacks \ {f} : fpc'[g] = fpc[g] /\ claim'[g] = claim[g]
        /\ claim'[f].txn = t
    BY DEF SubmitFeedback, FeedbackStep, ExclusiveInv, TypeInv, TypeOK
  <1>2. ClaimsAnswered'
    BY <1>1 DEF ExclusiveInv, ClaimsAnswered
  <1>3. /\ \A u \in Txns \ {t} : items'[u] \in {items[u], Absent}
        /\ items'[t] \in {items[t], Absent} \/ Claimable(t)
    BY ReserveEffect DEF SubmitFeedback, ExclusiveInv, TypeInv, TypeOK
  <1>4. Claimable(t) => \A g \in Feedbacks : ~Holds(g, t)
    BY DEF ExclusiveInv, ExclusiveFeedback, Claimable, Claimed, Purged
  <1>5. \A g \in Feedbacks \ {f}, u \in Txns : Holds(g, u)' <=> Holds(g, u)
    BY <1>1 DEF Holds
  <1>6. CASE fpc'[f] = "apply"
    <2>1. ReserveOk(t)
      BY <1>1, <1>6 DEF SubmitFeedback, FeedbackStep, ExclusiveInv, TypeInv, TypeOK
    <2>2. Claimable(t) /\ items'[t].reserved /\ items'[t].score = NoScore
      BY <2>1
      DEF ReserveOk, Claimable, Claimed, Saved, WithReservation, Purged, ExclusiveInv,
          TypeInv, TypeOK, StoreTypeOK, Ledger, Record
    <2>3. \A u \in Txns : Holds(f, u)' => u = t
      BY <1>1 DEF Holds
    <2>4. ExclusiveFeedback'
      BY <1>3, <1>4, <1>5, <2>2, <2>3 DEF ExclusiveInv, ExclusiveFeedback
    <2> QED BY <1>2, <2>4 DEF ExclusiveInv
  <1>7. CASE fpc'[f] # "apply"
    <2>1. \A u \in Txns : ~Holds(f, u)'
      BY <1>1, <1>7
      DEF SubmitFeedback, FeedbackStep, Holds, Holding, ExclusiveInv, TypeInv, TypeOK
    <2>2. ExclusiveFeedback'
      BY <1>3, <1>4, <1>5, <2>1 DEF ExclusiveInv, ExclusiveFeedback
    <2> QED BY <1>2, <2>2 DEF ExclusiveInv
  <1> QED BY <1>6, <1>7

LEMMA ProgressKeepsExclusive ==
  ASSUME ExclusiveInv, TypeInv', NEW f \in Feedbacks, FeedbackProgress(f)
  PROVE  ExclusiveInv'
  <1> DEFINE t == claim[f].txn
  <1>1. /\ fpc[f] # "idle" /\ qpc' = qpc /\ claim' = claim
        /\ \A g \in Feedbacks \ {f} : fpc'[g] = fpc[g]
    BY DEF FeedbackProgress, ApplyScore, ReleaseClaim, MarkScore, AuditFeedback,
           FeedbackStep, ExclusiveInv, TypeInv, TypeOK
  <1>2. t \in Txns
    BY <1>1 DEF ExclusiveInv, TypeInv, LocalsBound, Claims
  <1>3. ClaimsAnswered'
    BY <1>1 DEF ExclusiveInv, ClaimsAnswered
  <1>4. \A g \in Feedbacks \ {f}, u \in Txns : Holds(g, u)' <=> Holds(g, u)
    BY <1>1 DEF Holds
  <1>5. CASE ApplyScore(f) \/ AuditFeedback(f)
    <2>1. items' = items
      BY <1>5 DEF ApplyScore, AuditFeedback, storeVars
    <2>2. \A u \in Txns : Holds(f, u)' => Holds(f, u)
      BY <1>1, <1>5
      DEF ApplyScore, AuditFeedback, FeedbackStep, Holds, Holding, ExclusiveInv,
          TypeInv, TypeOK
    <2>3. ExclusiveFeedback'
      BY <1>4, <2>1, <2>2 DEF ExclusiveInv, ExclusiveFeedback
    <2> QED BY <1>3, <2>3 DEF ExclusiveInv
  <1>6. CASE ReleaseClaim(f) \/ MarkScore(f)
    <2>1. \A u \in Txns \ {t} : items'[u] = items[u]
      BY <1>2, <1>6
      DEF ReleaseClaim, MarkScore, Release, ReleaseFails, Mark, MarkFails, Released,
          Marked, SaveFails, storeVars, ExclusiveInv, TypeInv, TypeOK, StoreTypeOK,
          Ledger
    <2>2. Holds(f, t) /\ \A u \in Txns : ~Holds(f, u)'
      BY <1>1, <1>2, <1>6
      DEF ReleaseClaim, MarkScore, MarkReply, MarkOutcome, FeedbackStep, Holds,
          Holding, ExclusiveInv, TypeInv, TypeOK
    <2>3. \A g \in Feedbacks \ {f} : ~Holds(g, t)
      BY <1>2, <2>2 DEF ExclusiveInv, ExclusiveFeedback
    <2>4. ExclusiveFeedback'
      BY <1>4, <2>1, <2>2, <2>3 DEF ExclusiveInv, ExclusiveFeedback
    <2> QED BY <1>3, <2>4 DEF ExclusiveInv
  <1> QED BY <1>5, <1>6 DEF FeedbackProgress

LEMMA RestartKeepsExclusive ==
  ASSUME ExclusiveInv, TypeInv', Restart
  PROVE  ExclusiveInv'
  <1>1. \A f \in Feedbacks, t \in Txns : ~Holds(f, t)'
    BY DEF Restart, Holds, Holding, FeedbackInFlight
  <1>2. ExclusiveFeedback'
    BY <1>1 DEF ExclusiveFeedback
  <1>3. \A f \in Feedbacks : fpc[f] # "idle" => claim[f].txn \in Txns
    BY DEF ExclusiveInv, TypeInv, LocalsBound, Claims
  <1>4. ClaimsAnswered'
    BY <1>3
    DEF Restart, ExclusiveInv, ClaimsAnswered, QueryInFlight, FeedbackInFlight
  <1> QED BY <1>2, <1>4 DEF ExclusiveInv

LEMMA NextExclusive == ExclusiveInv /\ [Next]_vars => ExclusiveInv'
  <1> SUFFICES ASSUME ExclusiveInv, [Next]_vars PROVE ExclusiveInv'
    OBVIOUS
  <1>1. TypeInv'
    BY NextTypeInv DEF ExclusiveInv
  <1>2. CASE TakeSnapshot \/ Tick \/ UNCHANGED vars
    BY <1>1, <1>2, BystanderKeepsExclusive
    DEF TakeSnapshot, Tick, vars, storeVars, requestVars
  <1>3. CASE Next
    BY <1>1, <1>2, <1>3, QueryKeepsExclusive, SubmitKeepsExclusive,
       ProgressKeepsExclusive, RestartKeepsExclusive
    DEF Next
  <1> QED BY <1>2, <1>3

(* Two feedback requests never hold one transaction, and its record stays  *)
(* reserved and unscored for the one that does: however the requests       *)
(* interleave, the ledger and the policy are purged, saves and loads fail  *)
(* and the process restarts, a score is applied by one request alone and   *)
(* mark_feedback never finds the record scored by another.                 *)
THEOREM Exclusive == Spec => []ExclusiveFeedback
  <1>1. ExclusiveInv => ExclusiveFeedback
    BY DEF ExclusiveInv
  <1> QED BY <1>1, InitExclusive, NextExclusive, PTL DEF Spec

-----------------------------------------------------------------------------
(* What the bandit learns *)

(* Where a query is once its decision may have been registered.            *)
Registered == {"audit", "answered", "failed", "lost"}

(* A bandit state, in memory or in the file, is coherent with the requests *)
(* when it learned from answered queries alone, holds no decision it has   *)
(* learned from, and every decision it holds is the one its query made.    *)
Coherent(decisions, p, places, made) ==
  \A t \in Txns :
    /\ p.credit[t] # NoScore => places[t] = "answered" /\ decisions[t] = Absent
    /\ decisions[t] # Absent => decisions[t] = made[t] /\ places[t] \in Registered

CoherentInv ==
  /\ ExclusiveInv
  /\ Coherent(pending, policy, qpc, decision)
  /\ Coherent(banditFile.pending, banditFile.policy, qpc, decision)

-----------------------------------------------------------------------------
(* How far a step of the requests moves them: a registered query stays so, *)
(* with its decision, and an answered query stays answered.                *)
Forward ==
  \A t \in Txns :
    /\ qpc[t] \in Registered => qpc'[t] \in Registered /\ decision'[t] = decision[t]
    /\ qpc[t] = "answered" => qpc'[t] = "answered"

LEMMA ForwardKeepsCoherent ==
  ASSUME NEW decisions, NEW p, Forward, Coherent(decisions, p, qpc, decision)
  PROVE  Coherent(decisions, p, qpc', decision')
  BY DEF Coherent, Forward

LEMMA NextForward == ASSUME TypeInv, [Next]_vars PROVE Forward
  <1>1. ASSUME NEW t \in Txns, NEW a \in Arms, StartQuery(t, a) PROVE Forward
    BY <1>1 DEF StartQuery, QueryStep, Forward, Registered, TypeInv, TypeOK, Decisions
  <1>2. ASSUME NEW t \in Txns, QueryProgress(t) PROVE Forward
    BY <1>2
    DEF QueryProgress, AgentAnswers, AgentRaises, PutRecord, RegisterDecision,
        AuditQuery, QueryStep, Forward, Registered, TypeInv, TypeOK, Decisions
  <1>3. ASSUME UNCHANGED <<qpc, decision>> PROVE Forward
    BY <1>3 DEF Forward
  <1>4. ASSUME NEW f \in Feedbacks, FeedbackProgress(f) PROVE UNCHANGED <<qpc, decision>>
    BY <1>4
    DEF FeedbackProgress, ApplyScore, ReleaseClaim, MarkScore, AuditFeedback,
        FeedbackStep
  <1>5. ASSUME NEW f \in Feedbacks, NEW t \in Txns, NEW s \in Scores,
               SubmitFeedback(f, t, s)
        PROVE  UNCHANGED <<qpc, decision>>
    BY <1>5 DEF SubmitFeedback, FeedbackStep
  <1>6. TakeSnapshot \/ Tick \/ UNCHANGED vars => UNCHANGED <<qpc, decision>>
    BY DEF TakeSnapshot, Tick, vars, requestVars
  <1>7. CASE Restart
    BY <1>7 DEF Restart, Forward, Registered, QueryInFlight, TypeInv, TypeOK
  <1> QED BY <1>1, <1>2, <1>3, <1>4, <1>5, <1>6, <1>7 DEF Next

(* The operations of the bandit keep both of its states coherent.          *)
LEMMA PurgeKeepsCoherent ==
  ASSUME NEW decisions, NEW p, Coherent(decisions, p, qpc, decision)
  PROVE  Coherent(Unexpired(decisions), p, qpc, decision)
  BY DEF Coherent, Unexpired

LEMMA RegisterKeepsCoherent ==
  ASSUME CoherentInv, TypeInv', NEW t \in Txns, RegisterDecision(t)
  PROVE  CoherentInv'
  <1> DEFINE kept == WithDecision(t, decision[t].arm, decision[t].created)
  <1>1. /\ qpc[t] = "register" /\ qpc'[t] \in {"audit", "failed"}
        /\ \A u \in Txns \ {t} : qpc'[u] = qpc[u]
        /\ decision' = decision
        /\ UNCHANGED <<fpc, claim, items>>
    BY DEF RegisterDecision, QueryStep, storeVars, CoherentInv, ExclusiveInv, TypeInv,
           TypeOK
  <1>2. ExclusiveInv'
    BY <1>1, BystanderKeepsExclusive DEF CoherentInv
  <1>3. decision[t] \in Decision /\ Unexpired(pending) \in Decisions
    BY <1>1, UnexpiredType
    DEF CoherentInv, ExclusiveInv, TypeInv, TypeOK, LocalsBound, BanditTypeOK
  <1>4. kept[t] = decision[t] /\ \A u \in Txns \ {t} : kept[u] = Unexpired(pending)[u]
    BY <1>3 DEF WithDecision, Decisions, Decision
  <1>5. policy.credit[t] = NoScore
    BY <1>1 DEF CoherentInv, Coherent
  <1>6. Coherent(Unexpired(pending), policy, qpc, decision)
    BY PurgeKeepsCoherent DEF CoherentInv
  <1>7. Coherent(kept, policy, qpc', decision')
    BY <1>1, <1>4, <1>5, <1>6 DEF Coherent, Registered
  <1>8. Coherent(banditFile.pending, banditFile.policy, qpc', decision')
    BY <1>1 DEF CoherentInv, Coherent, Registered
  <1>9. /\ pending' = kept /\ policy' = policy
        /\ banditFile' \in {banditFile, [pending |-> kept, policy |-> policy]}
    BY DEF RegisterDecision, RegisterPending, RegisterPendingFails, SaveBandit,
           SaveBanditFails
  <1> HIDE DEF kept
  <1> QED BY <1>2, <1>7, <1>8, <1>9 DEF CoherentInv

LEMMA ApplyKeepsCoherent ==
  ASSUME CoherentInv, ExclusiveInv', NEW f \in Feedbacks, ApplyScore(f)
  PROVE  CoherentInv'
  <1> DEFINE t == claim[f].txn
             s == claim[f].score
             learned == Learned(t, pending[t].arm, s)
  <1>1. /\ UNCHANGED <<qpc, decision>> /\ fpc[f] = "apply"
    BY DEF ApplyScore, FeedbackStep
  <1>2. t \in Txns /\ s \in Scores /\ qpc[t] = "answered"
    BY <1>1
    DEF CoherentInv, ExclusiveInv, TypeInv, LocalsBound, Claims, ClaimsAnswered
  <1>3. Coherent(Unexpired(pending), policy, qpc, decision)
    BY PurgeKeepsCoherent DEF CoherentInv
  <1>4. Unexpired(pending) \in Decisions /\ policy \in Policy
    BY UnexpiredType DEF CoherentInv, ExclusiveInv, TypeInv, TypeOK, BanditTypeOK
  <1>5. /\ learned.credit[t] = s
        /\ \A u \in Txns \ {t} : learned.credit[u] = policy.credit[u]
        /\ WithoutDecision(t)[t] = Absent
        /\ \A u \in Txns \ {t} : WithoutDecision(t)[u] = Unexpired(pending)[u]
    BY <1>2, <1>4 DEF Learned, Policy, WithoutDecision, Decisions
  <1>6. Coherent(WithoutDecision(t), learned, qpc, decision)
    <2> HIDE DEF learned, t, s
    <2> QED BY <1>2, <1>3, <1>5 DEF Coherent
  <1>7. \/ /\ pending' = Unexpired(pending)
           /\ UNCHANGED <<policy, banditFile>>
        \/ /\ pending' = WithoutDecision(t) /\ policy' = learned
           /\ \/ UNCHANGED banditFile
              \/ banditFile' = [pending |-> WithoutDecision(t), policy |-> learned]
    BY DEF ApplyScore, ApplyFeedback, ApplyFeedbackFails, ApplyFeedbackUnknown, Absorb,
           SaveBandit, SaveBanditFails
  <1> HIDE DEF learned, t, s
  <1> QED BY <1>1, <1>3, <1>6, <1>7 DEF CoherentInv

LEMMA InitCoherent == Init => CoherentInv
  <1> SUFFICES ASSUME Init PROVE CoherentInv
    OBVIOUS
  <1>1. Coherent(NoDecisions, FreshPolicy, qpc, decision)
    BY DEF Coherent, NoDecisions, FreshPolicy
  <1> QED BY <1>1, InitExclusive DEF CoherentInv, Init, BanditInit

LEMMA RestartKeepsCoherent ==
  ASSUME CoherentInv, ExclusiveInv', Restart, Forward PROVE CoherentInv'
  <1>1. Coherent(Unexpired(banditFile.pending), banditFile.policy, qpc', decision')
    BY PurgeKeepsCoherent, ForwardKeepsCoherent DEF CoherentInv
  <1>2. Coherent(banditFile.pending, banditFile.policy, qpc', decision')
    BY ForwardKeepsCoherent DEF CoherentInv
  <1>3. Coherent(NoDecisions, FreshPolicy, qpc', decision')
    BY DEF Coherent, NoDecisions, FreshPolicy
  <1> QED BY <1>1, <1>2, <1>3 DEF CoherentInv, Restart, LoadBandit, LoadBanditFails

LEMMA NextCoherent == CoherentInv /\ [Next]_vars => CoherentInv'
  <1> SUFFICES ASSUME CoherentInv, [Next]_vars PROVE CoherentInv'
    OBVIOUS
  <1>1. ExclusiveInv' /\ TypeInv'
    BY NextExclusive DEF CoherentInv, ExclusiveInv
  <1>2. Forward
    BY NextForward DEF CoherentInv, ExclusiveInv
  <1>3. Coherent(Unexpired(pending), policy, qpc', decision')
    BY <1>2, PurgeKeepsCoherent, ForwardKeepsCoherent DEF CoherentInv
  <1>4. /\ Coherent(pending, policy, qpc', decision')
        /\ Coherent(banditFile.pending, banditFile.policy, qpc', decision')
    BY <1>2, ForwardKeepsCoherent DEF CoherentInv
  <1>5. ASSUME UNCHANGED banditVars PROVE CoherentInv'
    BY <1>1, <1>4, <1>5 DEF CoherentInv, banditVars
  <1>6. ASSUME NEW t \in Txns, NEW a \in Arms, StartQuery(t, a) PROVE CoherentInv'
    BY <1>1, <1>3, <1>4, <1>6 DEF CoherentInv, StartQuery, SelectAction
  <1>7. CASE TakeSnapshot
    BY <1>1, <1>3, <1>4, <1>7
    DEF CoherentInv, TakeSnapshot, Snapshot, SnapshotFails, SaveBandit, SaveBanditFails
  <1>8. ASSUME NEW t \in Txns, QueryProgress(t) PROVE CoherentInv'
    <2>1. CASE RegisterDecision(t)
      BY <1>1, <2>1, RegisterKeepsCoherent
    <2>2. CASE ~RegisterDecision(t)
      BY <1>5, <1>8, <2>2
      DEF QueryProgress, AgentAnswers, AgentRaises, PutRecord, AuditQuery
    <2> QED BY <2>1, <2>2
  <1>9. ASSUME NEW f \in Feedbacks, FeedbackProgress(f) PROVE CoherentInv'
    <2>1. CASE ApplyScore(f)
      BY <1>1, <2>1, ApplyKeepsCoherent
    <2>2. CASE ~ApplyScore(f)
      BY <1>5, <1>9, <2>2 DEF FeedbackProgress, ReleaseClaim, MarkScore, AuditFeedback
    <2> QED BY <2>1, <2>2
  <1>10. ASSUME NEW f \in Feedbacks, NEW t \in Txns, NEW s \in Scores,
                SubmitFeedback(f, t, s)
         PROVE  CoherentInv'
    BY <1>5, <1>10 DEF SubmitFeedback
  <1>11. CASE Tick \/ UNCHANGED vars
    BY <1>5, <1>11 DEF Tick, vars
  <1>12. CASE Restart
    BY <1>1, <1>2, <1>12, RestartKeepsCoherent
  <1> QED
    BY <1>6, <1>7, <1>8, <1>9, <1>10, <1>11, <1>12 DEF Next

(* What the bandit learned and what it waits for agree with the queries. *)
THEOREM CoherentInvariant == Spec => []CoherentInv
  BY InitCoherent, NextCoherent, PTL DEF Spec

(* Only apply_feedback and a restart change what the policy in memory has  *)
(* learned.                                                                *)
LEMMA OnlyApplyLearns ==
  ASSUME TypeInv, [Next]_vars, crashes' = crashes, policy' # policy
  PROVE  \E f \in Feedbacks : ApplyScore(f)
  <1>1. ASSUME UNCHANGED policy PROVE FALSE
    BY <1>1
  <1>2. ~(Tick \/ TakeSnapshot \/ UNCHANGED vars)
    BY <1>1 DEF Tick, TakeSnapshot, Snapshot, SnapshotFails, vars, banditVars
  <1>3. ~Restart
    BY DEF Restart, TypeInv, TypeOK
  <1>4. ASSUME NEW t \in Txns, (\E a \in Arms : StartQuery(t, a)) \/ QueryProgress(t)
        PROVE  FALSE
    BY <1>1, <1>4
    DEF StartQuery, SelectAction, QueryProgress, AgentAnswers, AgentRaises, PutRecord,
        RegisterDecision, RegisterPending, RegisterPendingFails, AuditQuery, banditVars
  <1>5. ASSUME NEW f \in Feedbacks, NEW t \in Txns, NEW s \in Scores,
               SubmitFeedback(f, t, s)
        PROVE  FALSE
    BY <1>1, <1>5 DEF SubmitFeedback, banditVars
  <1>6. ASSUME NEW f \in Feedbacks, FeedbackProgress(f) PROVE ApplyScore(f)
    BY <1>1, <1>6
    DEF FeedbackProgress, ReleaseClaim, MarkScore, AuditFeedback, banditVars
  <1> QED BY <1>2, <1>3, <1>4, <1>5, <1>6 DEF Next, vars

LEMMA StepLearnsInWindow ==
  ASSUME CoherentInv, [Next]_vars, NEW t \in Txns,
         policy'.credit[t] # policy.credit[t], crashes' = crashes
  PROVE  policy.credit[t] = NoScore /\ InWindow(t)
  <1>1. PICK f \in Feedbacks : ApplyScore(f)
    BY OnlyApplyLearns DEF CoherentInv, ExclusiveInv
  <1> DEFINE u == claim[f].txn
             s == claim[f].score
  <1>2. Absorb(u, s)
    BY <1>1
    DEF ApplyScore, ApplyFeedback, ApplyFeedbackFails, ApplyFeedbackUnknown
  <1>3. u \in Txns /\ policy \in Policy
    BY <1>1
    DEF ApplyScore, FeedbackStep, CoherentInv, ExclusiveInv, TypeInv, TypeOK,
        LocalsBound, Claims, BanditTypeOK
  <1>4. t = u
    BY <1>2, <1>3 DEF Absorb, Learned, Policy
  <1>5. pending[u] # Absent /\ ~Outlived(pending[u].created, PendingTimeout)
    BY <1>2, <1>3 DEF Absorb, Unexpired
  <1>6. policy.credit[u] = NoScore /\ pending[u] = decision[u]
    BY <1>3, <1>5 DEF CoherentInv, Coherent
  <1>7. decision[u] \in Decision /\ clock \in Time
    BY <1>5, <1>6, <1>3
    DEF CoherentInv, ExclusiveInv, TypeInv, TypeOK, PlatformTypeOK, BanditTypeOK,
        Decisions
  <1>8. decision[u].created \in Int /\ clock \in Int /\ PendingTimeout \in Int
    BY <1>7, StoreAssumption, ClockAssumption
    DEF Decision, Time, PendingTimeout, AtLeast
  <1> HIDE DEF u
  <1> QED BY <1>4, <1>5, <1>6, <1>8 DEF InWindow, Outlived

(* The policy absorbs a score only while the feedback window of its query  *)
(* is open, and once: whatever was purged, lost or reloaded in between.    *)
THEOREM LearnsOnceInWindow == Spec => LearnsInWindow
  <1>1. CoherentInv /\ [Next]_vars =>
          [\A t \in Txns :
             policy'.credit[t] # policy.credit[t] /\ crashes' = crashes =>
               policy.credit[t] = NoScore /\ InWindow(t)]_vars
    BY StepLearnsInWindow
  <1> QED BY <1>1, CoherentInvariant, PTL DEF Spec, LearnsInWindow

-----------------------------------------------------------------------------
(* The counters of a policy count the transactions it learned from, each   *)
(* in the arm its query chose.                                             *)
Tallied(p, made) ==
  /\ IsFiniteSet(Rewarded(p))
  /\ p.total = Cardinality(Rewarded(p))
  /\ \A a \in Arms :
       p.pulls[a] = Cardinality({t \in Rewarded(p) : made[t].arm = a})

TallyInv ==
  /\ CoherentInv
  /\ Tallied(policy, decision)
  /\ Tallied(banditFile.policy, decision)

LEMMA TalliedAlike ==
  ASSUME NEW p, NEW q, NEW made, NEW now, q = p, now = made, Tallied(p, made)
  PROVE  Tallied(q, now)
  OBVIOUS

LEMMA FreshTallied == ASSUME NEW made PROVE Tallied(FreshPolicy, made)
  <1>1. Rewarded(FreshPolicy) = {}
    BY DEF Rewarded, FreshPolicy
  <1>2. \A a \in Arms : {t \in Rewarded(FreshPolicy) : made[t].arm = a} = {}
    BY <1>1
  <1> QED BY <1>1, <1>2, FS_EmptySet DEF Tallied, FreshPolicy

(* The arm of an answered query is chosen for good.                        *)
LEMMA ForwardKeepsTallied ==
  ASSUME NEW p, NEW decisions, Forward,
         Coherent(decisions, p, qpc, decision), Tallied(p, decision)
  PROVE  Tallied(p, decision')
  <1>1. \A t \in Rewarded(p) : decision'[t] = decision[t]
    BY DEF Coherent, Forward, Rewarded, Registered
  <1>2. \A a \in Arms : {t \in Rewarded(p) : decision'[t].arm = a}
                          = {t \in Rewarded(p) : decision[t].arm = a}
    BY <1>1
  <1> QED BY <1>2 DEF Tallied

(* Learning from a transaction for the first time counts it once.          *)
LEMMA LearningKeepsTallied ==
  ASSUME policy \in Policy, Tallied(policy, decision),
         NEW t \in Txns, NEW a \in Arms, NEW s \in Scores,
         policy.credit[t] = NoScore, decision[t].arm = a
  PROVE  Tallied(Learned(t, a, s), decision)
  <1> DEFINE new    == Learned(t, a, s)
             old(b) == {u \in Rewarded(policy) : decision[u].arm = b}
  <1>1. /\ new.total = policy.total + 1
        /\ new.pulls[a] = policy.pulls[a] + 1
        /\ \A b \in Arms \ {a} : new.pulls[b] = policy.pulls[b]
        /\ new.credit[t] = s
        /\ \A u \in Txns \ {t} : new.credit[u] = policy.credit[u]
    BY DEF Learned, Policy
  <1> HIDE DEF new
  <1>2. t \notin Rewarded(policy) /\ Rewarded(new) = Rewarded(policy) \cup {t}
    BY <1>1, StoreAssumption DEF Rewarded
  <1>3. IsFiniteSet(Rewarded(policy)) /\ policy.total = Cardinality(Rewarded(policy))
    BY DEF Tallied
  <1>4. /\ IsFiniteSet(Rewarded(new))
        /\ Cardinality(Rewarded(new)) = Cardinality(Rewarded(policy)) + 1
    BY <1>2, <1>3, FS_AddElement
  <1>5. IsFiniteSet(old(a)) /\ t \notin old(a)
    BY <1>2, <1>3, FS_Subset
  <1>6. Cardinality(old(a) \cup {t}) = Cardinality(old(a)) + 1
    BY <1>5, FS_AddElement
  <1>7. {u \in Rewarded(new) : decision[u].arm = a} = old(a) \cup {t}
    BY <1>2
  <1>8. \A b \in Arms \ {a} : {u \in Rewarded(new) : decision[u].arm = b} = old(b)
    BY <1>2
  <1>9. \A b \in Arms : policy.pulls[b] = Cardinality(old(b))
    BY DEF Tallied
  <1> HIDE DEF old
  <1>10. \A b \in Arms :
           new.pulls[b] = Cardinality({u \in Rewarded(new) : decision[u].arm = b})
    BY <1>1, <1>6, <1>7, <1>8, <1>9
  <1>11. Tallied(new, decision)
    BY <1>1, <1>3, <1>4, <1>10 DEF Tallied
  <1> QED BY <1>11 DEF new

(* What a step makes of the two policies.                                  *)
LEMMA PolicySources ==
  ASSUME [Next]_vars, \A f \in Feedbacks : ~ApplyScore(f)
  PROVE  /\ policy' \in {policy, banditFile.policy, FreshPolicy}
         /\ banditFile'.policy \in {banditFile.policy, policy}
  <1>1. ASSUME NEW t \in Txns, (\E a \in Arms : StartQuery(t, a)) \/ QueryProgress(t)
        PROVE  policy' = policy /\ banditFile'.policy \in {banditFile.policy, policy}
    BY <1>1
    DEF StartQuery, SelectAction, QueryProgress, AgentAnswers, AgentRaises, PutRecord,
        RegisterDecision, RegisterPending, RegisterPendingFails, SaveBandit,
        SaveBanditFails, AuditQuery, banditVars
  <1>2. ASSUME NEW f \in Feedbacks,
               \/ FeedbackProgress(f)
               \/ \E t \in Txns, s \in Scores : SubmitFeedback(f, t, s)
        PROVE  UNCHANGED banditVars
    BY <1>2
    DEF FeedbackProgress, ReleaseClaim, MarkScore, AuditFeedback, SubmitFeedback
  <1>3. TakeSnapshot => policy' = policy
                        /\ banditFile'.policy \in {banditFile.policy, policy}
    BY DEF TakeSnapshot, Snapshot, SnapshotFails, SaveBandit, SaveBanditFails
  <1>4. Tick \/ UNCHANGED vars => UNCHANGED banditVars
    BY DEF Tick, vars
  <1>5. Restart => UNCHANGED banditFile /\ policy' \in {banditFile.policy, FreshPolicy}
    BY DEF Restart, LoadBandit, LoadBanditFails
  <1> QED BY <1>1, <1>2, <1>3, <1>4, <1>5 DEF Next, banditVars

LEMMA ApplyKeepsTallied ==
  ASSUME TallyInv, NEW f \in Feedbacks, ApplyScore(f)
  PROVE  Tallied(policy', decision) /\ Tallied(banditFile'.policy, decision)
  <1>1. fpc[f] = "apply" /\ policy \in Policy /\ decision \in Decisions
    BY DEF ApplyScore, FeedbackStep, TallyInv, CoherentInv, ExclusiveInv, TypeInv, TypeOK,
           BanditTypeOK
  <1>2. claim[f].txn \in Txns /\ claim[f].score \in Scores
    BY <1>1 DEF TallyInv, CoherentInv, ExclusiveInv, TypeInv, LocalsBound, Claims
  <1>3. PICK t \in Txns, s \in Scores : claim[f].txn = t /\ claim[f].score = s
    BY <1>2
  <1>4. CASE policy' = policy /\ banditFile'.policy = banditFile.policy
    BY <1>4 DEF TallyInv
  <1>5. CASE /\ Unexpired(pending)[t] # Absent
             /\ policy' = Learned(t, pending[t].arm, s)
             /\ banditFile'.policy \in {banditFile.policy, policy'}
    <2>1. pending[t] # Absent
      BY <1>5 DEF Unexpired
    <2>2. policy.credit[t] = NoScore /\ pending[t] = decision[t]
      BY <2>1 DEF TallyInv, CoherentInv, Coherent
    <2>3. decision[t].arm \in Arms
      BY <1>1, <2>1, <2>2 DEF Decisions, Decision
    <2>4. Tallied(policy', decision)
      BY <1>1, <1>5, <2>2, <2>3, LearningKeepsTallied DEF TallyInv
    <2> QED BY <1>5, <2>4 DEF TallyInv
  <1>6. \/ UNCHANGED <<policy, banditFile>>
        \/ /\ Unexpired(pending)[t] # Absent
           /\ policy' = Learned(t, pending[t].arm, s)
           /\ banditFile'.policy \in {banditFile.policy, policy'}
    BY <1>3
    DEF ApplyScore, ApplyFeedback, ApplyFeedbackFails, ApplyFeedbackUnknown, Absorb,
        SaveBandit, SaveBanditFails, Learned
  <1> QED BY <1>4, <1>5, <1>6

LEMMA NextTally == ASSUME TallyInv, [Next]_vars PROVE TallyInv'
  <1>1. CoherentInv' /\ Forward
    BY NextCoherent, NextForward DEF TallyInv, CoherentInv, ExclusiveInv
  <1>2. Tallied(policy, decision') /\ Tallied(banditFile.policy, decision')
    BY <1>1, ForwardKeepsTallied DEF TallyInv, CoherentInv
  <1>3. CASE \E f \in Feedbacks : ApplyScore(f)
    <2>1. decision' = decision
      BY <1>3 DEF ApplyScore, FeedbackStep
    <2>2. Tallied(policy', decision) /\ Tallied(banditFile'.policy, decision)
      BY <1>3, ApplyKeepsTallied
    <2>3. Tallied(policy', decision') /\ Tallied(banditFile'.policy, decision')
      BY <2>1, <2>2, TalliedAlike
    <2> QED BY <1>1, <2>3 DEF TallyInv
  <1>4. CASE \A f \in Feedbacks : ~ApplyScore(f)
    <2>1. /\ policy' \in {policy, banditFile.policy, FreshPolicy}
          /\ banditFile'.policy \in {banditFile.policy, policy}
      BY <1>4, PolicySources
    <2>2. Tallied(FreshPolicy, decision')
      BY FreshTallied
    <2>3. Tallied(policy', decision') /\ Tallied(banditFile'.policy, decision')
      BY <1>2, <2>1, <2>2, TalliedAlike
    <2> QED BY <1>1, <2>3 DEF TallyInv
  <1> QED BY <1>3, <1>4

(* Every transaction moved the statistics of its own arm once, and the     *)
(* total once, in memory and in the file, whatever was retried, lost or    *)
(* reloaded.                                                               *)
THEOREM LearnsOnce == Spec => []LearnedOnce
  <1>1. Init => TallyInv
    <2> SUFFICES ASSUME Init PROVE TallyInv
      OBVIOUS
    <2> QED BY InitCoherent, FreshTallied DEF TallyInv, Init, BanditInit
  <1>2. TallyInv /\ [Next]_vars => TallyInv'
    BY NextTally
  <1>3. TallyInv => LearnedOnce
    BY DEF TallyInv, LearnedOnce, Tallied, Tallies
  <1> QED BY <1>1, <1>2, <1>3, PTL DEF Spec

-----------------------------------------------------------------------------
(* The ledger and the policy agree as long as every load worked: the file  *)
(* of the policy is never ahead of its memory, a request past its apply    *)
(* step is in both, and so is every score in the ledger, in memory or in   *)
(* its file.                                                               *)
PastApply == {"mark", "audit", "200"}

ScoresIn(ledger, p) ==
  \A t \in Txns : ledger[t] # Absent /\ ledger[t].score # NoScore =>
    p.credit[t] = ledger[t].score

DurableInv ==
  /\ \A t \in Txns : banditFile.policy.credit[t] # NoScore =>
       policy.credit[t] = banditFile.policy.credit[t]
  /\ \A f \in Feedbacks : fpc[f] \in PastApply =>
       banditFile.policy.credit[claim[f].txn] = claim[f].score
  /\ ScoresIn(items, banditFile.policy)
  /\ ScoresIn(txnFile, banditFile.policy)

ScoresInv == CoherentInv /\ (Faultless("load") => DurableInv)

(* Nothing durable is ever unlearned.                                      *)
Grows ==
  \A t \in Txns : banditFile.policy.credit[t] # NoScore =>
    banditFile'.policy.credit[t] = banditFile.policy.credit[t]

LEMMA DurableImpliesLearned ==
  ASSUME CoherentInv, DurableInv PROVE ScoresAreLearned
  <1>1. \A t \in Txns :
          /\ items[t] # Absent /\ items[t].score # NoScore => items[t].score \in Scores
          /\ txnFile[t] # Absent /\ txnFile[t].score # NoScore => txnFile[t].score \in Scores
    BY DEF CoherentInv, ExclusiveInv, TypeInv, TypeOK, StoreTypeOK, Ledger, Record
  <1> QED
    BY <1>1 DEF DurableInv, ScoresIn, ScoresAreLearned

LEMMA NextFaults == ASSUME [Next]_vars PROVE NoFault \/ \E kinds : Faults(kinds)
  <1>1. ASSUME NEW t \in Txns, (\E a \in Arms : StartQuery(t, a)) \/ QueryProgress(t)
        PROVE  NoFault \/ \E kinds : Faults(kinds)
    BY <1>1
    DEF StartQuery, SelectAction, QueryProgress, AgentAnswers, AgentRaises, PutRecord,
        Put, PutFails, PurgeFails, Saved, SaveFails, RegisterDecision, RegisterPending,
        RegisterPendingFails, SaveBandit, SaveBanditFails, AuditQuery, RecordEvent,
        RecordEventFails, InsertRow, AppendLine, InsertFallsBack, AppendFails,
        InsertAndAppendFail, platformVars, NoFault, Fault
  <1>2. ASSUME NEW f \in Feedbacks, FeedbackProgress(f)
        PROVE  NoFault \/ \E kinds : Faults(kinds)
    BY <1>2
    DEF FeedbackProgress, ApplyScore, ApplyFeedback, ApplyFeedbackFails,
        ApplyFeedbackUnknown, SaveBandit, SaveBanditFails, ReleaseClaim, Release,
        ReleaseFails, MarkScore, Mark, MarkFails, SaveFails, AuditFeedback, RecordEvent,
        RecordEventFails, InsertRow, AppendLine, InsertFallsBack, AppendFails,
        InsertAndAppendFail, Fault
  <1>3. ASSUME NEW f \in Feedbacks, NEW t \in Txns, NEW s \in Scores,
               SubmitFeedback(f, t, s)
        PROVE  NoFault \/ \E kinds : Faults(kinds)
    BY <1>3
    DEF SubmitFeedback, ReserveOk, ReserveMissing, ReserveAlreadyScored, ReserveExpired,
        ReserveFails, PurgeOnly, PurgeFails, Saved, SaveFails, Fault
  <1>4. CASE TakeSnapshot \/ Tick \/ Restart \/ UNCHANGED vars
    BY <1>4
    DEF TakeSnapshot, Snapshot, SnapshotFails, SaveBandit, SaveBanditFails, Tick,
        Restart, vars, platformVars, NoFault, Fault
  <1> QED BY <1>1, <1>2, <1>3, <1>4 DEF Next

(* A failure leaves its mark in the counts.                                *)
LEMMA FaultsCount ==
  ASSUME TypeInv, [Next]_vars, NEW k \in FaultKinds, faults'[k] = 0
  PROVE  faults[k] = 0 /\ ~Fault(k)
  <1>1. faults[k] \in Nat
    BY PlatformAssumption DEF TypeInv, TypeOK, PlatformTypeOK
  <1>2. \A kinds : Faults(kinds) =>
          faults'[k] = faults[k] + IF k \in kinds THEN 1 ELSE 0
    BY DEF Faults
  <1>3. ~Fault(k)
    BY <1>1, <1>2 DEF Fault
  <1>4. CASE NoFault
    BY <1>3, <1>4 DEF NoFault
  <1>5. CASE \E kinds : Faults(kinds)
    BY <1>1, <1>2, <1>3, <1>5
  <1> QED BY <1>4, <1>5, NextFaults

LEMMA LoadsBefore ==
  ASSUME TypeInv, [Next]_vars, Faultless("load")'
  PROVE  Faultless("load") /\ ~Fault("load")
  <1>1. CASE "load" \in FaultKinds
    BY <1>1, FaultsCount DEF Faultless
  <1>2. CASE "load" \notin FaultKinds
    BY <1>2 DEF Faultless, Fault, Faults
  <1> QED BY <1>1, <1>2

(* Every score in the ledger after a step was there before.                *)
ScoresKept ==
  \A t \in Txns : \A new \in {items'[t], txnFile'[t]} :
    new # Absent /\ new.score # NoScore =>
      \E old \in {items[t], txnFile[t]} : old # Absent /\ old.score = new.score

LEMMA GrowingKeepsDurable ==
  ASSUME TypeInv, DurableInv, ScoresKept,
         Grows,
         \A t \in Txns : banditFile'.policy.credit[t] # NoScore =>
           policy'.credit[t] = banditFile'.policy.credit[t],
         \A f \in Feedbacks : fpc'[f] \in PastApply =>
           /\ claim'[f] = claim[f]
           /\ \/ fpc[f] \in PastApply
              \/ banditFile'.policy.credit[claim[f].txn] = claim[f].score
  PROVE  DurableInv'
  <1>1. \A f \in Feedbacks : fpc[f] \in PastApply =>
          claim[f].txn \in Txns /\ claim[f].score # NoScore
    BY StoreAssumption DEF TypeInv, LocalsBound, Claims, PastApply
  <1>2. \A f \in Feedbacks : fpc'[f] \in PastApply =>
          banditFile'.policy.credit[claim'[f].txn] = claim'[f].score
    BY <1>1 DEF DurableInv, Grows
  <1>3. ScoresIn(items', banditFile'.policy) /\ ScoresIn(txnFile', banditFile'.policy)
    BY DEF DurableInv, ScoresIn, ScoresKept, Grows
  <1> QED BY <1>2, <1>3 DEF DurableInv, ScoresIn

LEMMA StoreKeepsScores ==
  ASSUME StoreTypeOK, NEW t \in Txns,
         \/ ReserveMissing(t) \/ ReserveAlreadyScored(t) \/ ReserveExpired(t)
         \/ ReserveOk(t) \/ ReserveFails(t)
         \/ Release(t) \/ ReleaseFails(t)
         \/ \E now : Put(t, now) \/ PutFails(t, now)
         \/ LoadStore
         \/ UNCHANGED storeVars
  PROVE  ScoresKept
  <1>1. \A u \in Txns : /\ Purged(items)[u] \in {items[u], Absent}
                        /\ Purged(txnFile)[u] \in {txnFile[u], Absent}
                        /\ FileAfterPurge[u] \in {items[u], txnFile[u], Absent}
    BY DEF Purged, FileAfterPurge
  <1>2. Purged(items) \in Ledger /\ items \in Ledger /\ txnFile \in Ledger
    BY PurgedType DEF StoreTypeOK
  <1>3. CASE \E now : Put(t, now) \/ PutFails(t, now)
    BY <1>1, <1>2, <1>3
    DEF ScoresKept, Put, PutFails, PurgeFails, Saved, SaveFails, NewRecord, Ledger
  <1>4. CASE LoadStore \/ UNCHANGED storeVars
    BY <1>1, <1>4 DEF ScoresKept, LoadStore, storeVars
  <1>5. CASE Release(t) \/ ReleaseFails(t)
    <2>1. Releasable(t) => Released(t)[t].score = NoScore
      BY <1>2 DEF Releasable, Released, Ledger, Record
    <2>2. \A u \in Txns \ {t} : Released(t)[u] = items[u]
      BY <1>2 DEF Released, Ledger
    <2> QED
      BY <1>5, <2>1, <2>2 DEF ScoresKept, Release, ReleaseFails, SaveFails, storeVars
  <1>6. CASE ReserveMissing(t) \/ ReserveAlreadyScored(t)
    BY <1>1, <1>6 DEF ScoresKept, ReserveMissing, ReserveAlreadyScored, PurgeOnly
  <1>7. CASE ReserveExpired(t)
    BY <1>1, <1>2, <1>7 DEF ScoresKept, ReserveExpired, Saved, Ledger
  <1>8. CASE ReserveOk(t) \/ ReserveFails(t)
    <2>1. Claimable(t) => WithReservation(t)[t].score = NoScore
      BY <1>2 DEF Claimable, Claimed, WithReservation, Purged, Ledger, Record
    <2>2. \A u \in Txns \ {t} : WithReservation(t)[u] = Purged(items)[u]
      BY <1>2 DEF WithReservation, Ledger
    <2> QED
      BY <1>1, <1>2, <1>8, <2>1, <2>2
      DEF ScoresKept, ReserveOk, ReserveFails, PurgeFails, Saved, SaveFails, Ledger
  <1> QED BY <1>3, <1>4, <1>5, <1>6, <1>7, <1>8

(* The bandit's file either stays or becomes what memory holds.            *)
LEMMA SavedPolicyGrows ==
  ASSUME DurableInv, policy' = policy,
         banditFile'.policy \in {banditFile.policy, policy}
  PROVE  /\ Grows
         /\ \A t \in Txns : banditFile'.policy.credit[t] # NoScore =>
              policy'.credit[t] = banditFile'.policy.credit[t]
  BY DEF DurableInv, Grows

LEMMA QueryKeepsDurable ==
  ASSUME CoherentInv, DurableInv, NEW t \in Txns,
         (\E a \in Arms : StartQuery(t, a)) \/ QueryProgress(t)
  PROVE  DurableInv'
  <1>1. UNCHANGED <<fpc, claim>>
    BY DEF StartQuery, QueryProgress, AgentAnswers, AgentRaises, PutRecord,
           RegisterDecision, AuditQuery, QueryStep
  <1>2. /\ policy' = policy
        /\ banditFile'.policy \in {banditFile.policy, policy}
    BY DEF StartQuery, SelectAction, QueryProgress, AgentAnswers, AgentRaises,
           PutRecord, RegisterDecision, RegisterPending, RegisterPendingFails,
           SaveBandit, SaveBanditFails, AuditQuery, banditVars
  <1>3. \/ UNCHANGED storeVars
        \/ \E now : Put(t, now) \/ PutFails(t, now)
    BY DEF StartQuery, QueryProgress, AgentAnswers, AgentRaises, PutRecord,
           RegisterDecision, AuditQuery
  <1>4. ScoresKept
    BY <1>3, StoreKeepsScores DEF CoherentInv, ExclusiveInv, TypeInv, TypeOK
  <1> QED
    BY <1>1, <1>2, <1>4, SavedPolicyGrows, GrowingKeepsDurable
    DEF CoherentInv, ExclusiveInv

LEMMA SubmitKeepsDurable ==
  ASSUME CoherentInv, DurableInv, NEW f \in Feedbacks, NEW t \in Txns,
         NEW s \in Scores, SubmitFeedback(f, t, s)
  PROVE  DurableInv'
  <1>1. ScoresKept
    BY StoreKeepsScores
    DEF SubmitFeedback, CoherentInv, ExclusiveInv, TypeInv, TypeOK
  <1>2. \A g \in Feedbacks : fpc'[g] \in PastApply =>
          fpc[g] \in PastApply /\ claim'[g] = claim[g]
    BY DEF SubmitFeedback, FeedbackStep, PastApply, CoherentInv, ExclusiveInv, TypeInv,
           TypeOK
  <1>3. policy' = policy /\ banditFile' = banditFile
    BY DEF SubmitFeedback, banditVars
  <1> QED
    BY <1>1, <1>2, <1>3, SavedPolicyGrows, GrowingKeepsDurable
    DEF CoherentInv, ExclusiveInv

(* What apply_feedback absorbs is new to the policy, and so to its file.   *)
LEMMA ApplyKeepsDurable ==
  ASSUME CoherentInv, DurableInv, NEW f \in Feedbacks, ApplyScore(f)
  PROVE  DurableInv'
  <1> DEFINE t == claim[f].txn
             s == claim[f].score
             learned == Learned(t, pending[t].arm, s)
  <1>1. /\ claim' = claim /\ fpc[f] = "apply" /\ UNCHANGED storeVars
        /\ \A g \in Feedbacks \ {f} : fpc'[g] = fpc[g]
    BY DEF ApplyScore, FeedbackStep, CoherentInv, ExclusiveInv, TypeInv, TypeOK
  <1>2. t \in Txns /\ s \in Scores /\ policy \in Policy
    BY <1>1
    DEF CoherentInv, ExclusiveInv, TypeInv, TypeOK, LocalsBound, Claims, BanditTypeOK
  <1>3. ScoresKept
    BY <1>1, <1>2, StoreKeepsScores DEF CoherentInv, ExclusiveInv, TypeInv, TypeOK
  <1>4. CASE policy' = policy
    <2>1. \/ fpc'[f] \notin PastApply /\ banditFile' = banditFile
          \/ Absorb(t, s)
      BY DEF ApplyScore, ApplyFeedback, ApplyFeedbackFails, ApplyFeedbackUnknown,
             FeedbackStep, PastApply, CoherentInv, ExclusiveInv, TypeInv, TypeOK
    <2>2. ~Absorb(t, s)
      BY <1>2, <1>4 DEF Absorb, Learned, Policy
    <2> QED
      BY <1>1, <1>3, <1>4, <2>1, <2>2, SavedPolicyGrows, GrowingKeepsDurable
      DEF CoherentInv, ExclusiveInv
  <1>5. CASE policy' # policy
    <2>1. /\ Absorb(t, s)
          /\ \/ fpc'[f] = "mark" /\ banditFile'.policy = policy'
             \/ fpc'[f] = "500" /\ banditFile' = banditFile
      BY <1>5
      DEF ApplyScore, ApplyFeedback, ApplyFeedbackFails, ApplyFeedbackUnknown,
          SaveBandit, SaveBanditFails, FeedbackStep, CoherentInv, ExclusiveInv,
          TypeInv, TypeOK
    <2>2. /\ policy'.credit[t] = s
          /\ \A u \in Txns \ {t} : policy'.credit[u] = policy.credit[u]
      BY <1>2, <2>1 DEF Absorb, Learned, Policy
    <2>3. pending[t] # Absent
      BY <1>2, <2>1 DEF Absorb, Unexpired
    <2>4. banditFile.policy.credit[t] = NoScore
      BY <1>2, <2>3 DEF CoherentInv, Coherent, DurableInv
    <2> HIDE DEF t, s
    <2>5. /\ Grows
          /\ \A u \in Txns : banditFile'.policy.credit[u] # NoScore =>
               policy'.credit[u] = banditFile'.policy.credit[u]
      BY <1>2, <2>1, <2>2, <2>4 DEF Grows, DurableInv
    <2>6. \A g \in Feedbacks : fpc'[g] \in PastApply =>
            \/ fpc[g] \in PastApply
            \/ g = f /\ banditFile'.policy.credit[t] = s
      BY <1>1, <2>1, <2>2 DEF PastApply
    <2> QED
      BY <1>1, <1>3, <2>5, <2>6, GrowingKeepsDurable DEF CoherentInv, ExclusiveInv, t, s
  <1> QED BY <1>4, <1>5

(* mark_feedback writes the score that is already in the policy's file.    *)
LEMMA MarkKeepsDurable ==
  ASSUME CoherentInv, DurableInv, NEW f \in Feedbacks, MarkScore(f)
  PROVE  DurableInv'
  <1> DEFINE t == claim[f].txn
             s == claim[f].score
  <1>1. /\ claim' = claim /\ fpc[f] = "mark" /\ UNCHANGED banditVars
        /\ \A g \in Feedbacks : fpc'[g] \in PastApply => fpc[g] \in PastApply
    BY DEF MarkScore, FeedbackStep, CoherentInv, ExclusiveInv, TypeInv, TypeOK,
           PastApply
  <1>2. t \in Txns /\ items \in Ledger
    BY <1>1
    DEF CoherentInv, ExclusiveInv, TypeInv, TypeOK, LocalsBound, Claims, StoreTypeOK
  <1>3. banditFile.policy.credit[t] = s
    BY <1>1 DEF DurableInv, PastApply
  <1>4. \A u \in Txns \ {t} : Marked(t, s)[u] = items[u]
    BY <1>2 DEF Marked, Ledger
  <1>5. MarkOutcome(t) = "ok" => Marked(t, s)[t].score = s
    BY <1>2 DEF MarkOutcome, Marked, Ledger, Record
  <1>6. MarkOutcome(t) = "ok" => ScoresIn(Marked(t, s), banditFile.policy)
    BY <1>2, <1>3, <1>4, <1>5 DEF DurableInv, ScoresIn
  <1>7. \/ UNCHANGED storeVars
        \/ /\ MarkOutcome(t) = "ok"
           /\ items' = Marked(t, s) /\ txnFile' \in {txnFile, Marked(t, s)}
    BY DEF MarkScore, Mark, MarkFails, SaveFails
  <1> HIDE DEF t, s
  <1>8. ScoresIn(items', banditFile.policy) /\ ScoresIn(txnFile', banditFile.policy)
    BY <1>6, <1>7 DEF DurableInv, storeVars
  <1> QED BY <1>1, <1>8 DEF DurableInv, ScoresIn, banditVars

LEMMA ProgressKeepsDurable ==
  ASSUME CoherentInv, DurableInv, NEW f \in Feedbacks, FeedbackProgress(f)
  PROVE  DurableInv'
  <1>1. CASE ReleaseClaim(f) \/ AuditFeedback(f)
    <2>1. \E t \in Txns : \/ Release(t) \/ ReleaseFails(t)
                         \/ UNCHANGED storeVars
      BY <1>1
      DEF ReleaseClaim, AuditFeedback, FeedbackStep, CoherentInv, ExclusiveInv, TypeInv,
          LocalsBound, Claims
    <2>2. ScoresKept
      BY <2>1, StoreKeepsScores DEF CoherentInv, ExclusiveInv, TypeInv, TypeOK
    <2>3. /\ claim' = claim /\ UNCHANGED banditVars
          /\ \A g \in Feedbacks : fpc'[g] \in PastApply => fpc[g] \in PastApply
      BY <1>1
      DEF ReleaseClaim, AuditFeedback, FeedbackStep, CoherentInv, ExclusiveInv, TypeInv,
          TypeOK, PastApply
    <2> QED
      BY <2>2, <2>3, SavedPolicyGrows, GrowingKeepsDurable
      DEF CoherentInv, ExclusiveInv, banditVars
  <1> QED
    BY <1>1, ApplyKeepsDurable, MarkKeepsDurable DEF FeedbackProgress

LEMMA RestartKeepsDurable ==
  ASSUME CoherentInv, DurableInv, Restart, ~Fault("load") PROVE DurableInv'
  <1>1. LoadBandit /\ LoadStore
    BY DEF Restart
  <1>2. \A t \in Txns : Purged(txnFile)[t] \in {txnFile[t], Absent}
    BY DEF Purged
  <1>3. ScoresIn(items', banditFile'.policy) /\ ScoresIn(txnFile', banditFile'.policy)
    BY <1>1, <1>2 DEF LoadBandit, LoadStore, DurableInv, ScoresIn
  <1>4. \A f \in Feedbacks : fpc'[f] \in PastApply =>
          fpc[f] \in PastApply /\ claim'[f] = claim[f]
    BY DEF Restart, PastApply, FeedbackInFlight
  <1> QED BY <1>1, <1>3, <1>4 DEF LoadBandit, DurableInv, ScoresIn

LEMMA InitScores == Init => ScoresInv
  <1> SUFFICES ASSUME Init PROVE DurableInv
    BY InitCoherent DEF ScoresInv
  <1>1. \A t \in Txns : /\ banditFile.policy.credit[t] = NoScore
                        /\ items[t] = Absent /\ txnFile[t] = Absent
    BY DEF Init, BanditInit, StoreInit, FreshPolicy, EmptyLedger
  <1>2. \A f \in Feedbacks : fpc[f] \notin PastApply
    BY DEF Init, PastApply
  <1> QED BY <1>1, <1>2 DEF DurableInv, ScoresIn

LEMMA NextScores == ScoresInv /\ [Next]_vars => ScoresInv'
  <1> SUFFICES ASSUME ScoresInv, [Next]_vars PROVE ScoresInv'
    OBVIOUS
  <1>1. CoherentInv /\ CoherentInv'
    BY NextCoherent DEF ScoresInv
  <1>2. SUFFICES ASSUME Faultless("load")' PROVE DurableInv'
    BY <1>1 DEF ScoresInv
  <1>3. DurableInv /\ ~Fault("load")
    BY <1>1, <1>2, LoadsBefore DEF ScoresInv, CoherentInv, ExclusiveInv
  <1>4. CASE TakeSnapshot
    <2>1. /\ UNCHANGED <<fpc, claim, storeVars>> /\ policy' = policy
          /\ banditFile'.policy \in {banditFile.policy, policy}
      BY <1>4
      DEF TakeSnapshot, Snapshot, SnapshotFails, SaveBandit, SaveBanditFails, requestVars
    <2>2. ScoresKept
      BY <2>1 DEF ScoresKept, storeVars
    <2> QED
      BY <1>1, <1>3, <2>1, <2>2, SavedPolicyGrows, GrowingKeepsDurable
      DEF CoherentInv, ExclusiveInv
  <1>5. CASE Tick \/ UNCHANGED vars
    BY <1>3, <1>5
    DEF Tick, vars, requestVars, banditVars, storeVars, DurableInv, ScoresIn
  <1> QED
    BY <1>1, <1>3, <1>4, <1>5, QueryKeepsDurable, SubmitKeepsDurable,
       ProgressKeepsDurable, RestartKeepsDurable
    DEF Next

(* Ledger and policy agree, in memory and between their files, as long as  *)
(* no state file was unreadable.                                           *)
THEOREM ScoresInvariant == Spec => []ScoresInv
  BY InitScores, NextScores, PTL DEF Spec

(* A score in the ledger is the one the policy learned, in memory and on   *)
(* disk, through interleaved requests, failed saves and restarts.          *)
THEOREM LedgerAgreesWithPolicy == Spec => []ScoresAreLearned
  <1>1. ScoresInv => ScoresAreLearned
    BY DurableImpliesLearned DEF ScoresInv, ScoresAreLearned
  <1> QED BY <1>1, ScoresInvariant, PTL
=============================================================================
