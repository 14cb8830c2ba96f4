--------------------------- MODULE ServiceProofs ---------------------------
(***************************************************************************)
(* The other promises of QueryService, for every value of its constants:   *)
(* the audit trail, the contract with the clients, the reservations, the   *)
(* feedback windows.                                                       *)
(*                                                                         *)
(* They follow from the invariants of FeedbackProofs and from a few more,  *)
(* each kept by itself: which status goes with which event (EventsInv),    *)
(* what became of the record of a feedback that was marked or audited      *)
(* (SettledInv), who stands behind a reservation (HolderInv), what both    *)
(* stores keep while a window is open (WindowInv).                         *)
(***************************************************************************)
EXTENDS FeedbackProofs

(* The audit trail: a status 200 and an answer come with their event, and  *)
(* an event of a feedback with its 200, or with a 500 when the call of     *)
(* record raised over a row that was committed.                            *)
EventsInv ==
  /\ \A f \in Feedbacks : fpc[f] = "200" => FeedbackEvent(f) \in Audited
  /\ \A f \in Feedbacks : FeedbackEvent(f) \in Audited => fpc[f] \in {"200", "500"}
  /\ \A t \in Txns : qpc[t] = "answered" => QueryEvent(t) \in Audited

LEMMA EventsDiffer ==
  /\ \A f, g \in Feedbacks : FeedbackEvent(f) = FeedbackEvent(g) => f = g
  /\ \A f \in Feedbacks, t \in Txns : FeedbackEvent(f) # QueryEvent(t)
  BY DEF FeedbackEvent, QueryEvent

LEMMA RecordAddsOne ==
  /\ \A event : RecordEvent(event) => Audited' = Audited \cup {event}
  /\ \A event : RecordEventFails(event) =>
       Audited' \in {Audited, Audited \cup {event}}
  <1>1. ASSUME NEW event, RecordEvent(event) PROVE Audited' = Audited \cup {event}
    BY <1>1 DEF RecordEvent, InsertRow, AppendLine, InsertFallsBack, Audited
  <1>2. ASSUME NEW event, RecordEventFails(event)
        PROVE  Audited' \in {Audited, Audited \cup {event}}
    <2>1. auditFile' = auditFile /\ auditPg' \in {auditPg, auditPg \cup {event}}
      BY <1>2 DEF RecordEventFails, AppendFails, InsertAndAppendFail, auditVars
    <2> QED BY <2>1 DEF Audited
  <1> QED BY <1>1, <1>2

LEMMA NextEvents == TypeInv /\ EventsInv /\ [Next]_vars => EventsInv'
  <1> SUFFICES ASSUME TypeInv, EventsInv, [Next]_vars PROVE EventsInv'
    OBVIOUS
  <1>1. ASSUME UNCHANGED auditVars,
               \A f \in Feedbacks :
                 /\ fpc'[f] = "200" => fpc[f] = "200"
                 /\ fpc[f] \in {"200", "500"} => fpc'[f] = fpc[f],
               \A t \in Txns : qpc'[t] = "answered" => qpc[t] = "answered"
        PROVE  EventsInv'
    BY <1>1 DEF EventsInv, Audited, auditVars
  <1>2. ASSUME NEW t \in Txns, (\E a \in Arms : StartQuery(t, a)) \/ QueryProgress(t)
        PROVE  EventsInv'
    <2>1. CASE AuditQuery(t)
      <3>1. UNCHANGED fpc /\ \A u \in Txns \ {t} : qpc'[u] = qpc[u]
        BY <2>1 DEF AuditQuery, QueryStep, TypeInv, TypeOK
      <3>2. \/ Audited' = Audited \cup {QueryEvent(t)}
            \/ Audited' = Audited /\ qpc'[t] = "failed"
        BY <2>1, RecordAddsOne DEF AuditQuery, QueryStep, TypeInv, TypeOK
      <3>3. \A u \in Txns : qpc'[u] = "answered" => QueryEvent(u) \in Audited'
        BY <3>1, <3>2 DEF EventsInv
      <3>4. \A f \in Feedbacks : FeedbackEvent(f) \in Audited' <=> FeedbackEvent(f) \in Audited
        BY <3>2, EventsDiffer
      <3> QED BY <3>1, <3>3, <3>4 DEF EventsInv
    <2>2. CASE ~AuditQuery(t)
      <3>1. /\ UNCHANGED <<auditVars, fpc>>
            /\ \A u \in Txns : qpc'[u] = "answered" => qpc[u] = "answered"
        BY <1>2, <2>2
        DEF StartQuery, QueryProgress, AgentAnswers, AgentRaises, PutRecord,
            RegisterDecision, QueryStep, TypeInv, TypeOK
      <3> QED BY <1>1, <3>1
    <2> QED BY <2>1, <2>2
  <1>3. ASSUME NEW f \in Feedbacks, NEW t \in Txns, NEW s \in Scores,
               SubmitFeedback(f, t, s)
        PROVE  EventsInv'
    BY <1>1, <1>3 DEF SubmitFeedback, FeedbackStep, TypeInv, TypeOK
  <1>4. ASSUME NEW f \in Feedbacks, FeedbackProgress(f) PROVE EventsInv'
    <2>1. CASE AuditFeedback(f)
      <3>1. /\ UNCHANGED qpc /\ fpc[f] = "audit"
            /\ \A g \in Feedbacks \ {f} : fpc'[g] = fpc[g]
        BY <2>1 DEF AuditFeedback, FeedbackStep, TypeInv, TypeOK
      <3>2. /\ Audited' \in {Audited, Audited \cup {FeedbackEvent(f)}}
            /\ fpc'[f] \in {"200", "500"}
            /\ fpc'[f] = "200" => FeedbackEvent(f) \in Audited'
        BY <2>1, RecordAddsOne DEF AuditFeedback, FeedbackStep, TypeInv, TypeOK
      <3>3. \A g \in Feedbacks :
              /\ fpc'[g] = "200" => FeedbackEvent(g) \in Audited'
              /\ FeedbackEvent(g) \in Audited' => fpc'[g] \in {"200", "500"}
        BY <3>1, <3>2, EventsDiffer DEF EventsInv
      <3>4. \A u \in Txns : qpc'[u] = "answered" => QueryEvent(u) \in Audited'
        BY <3>1, <3>2 DEF EventsInv
      <3> QED BY <3>3, <3>4 DEF EventsInv
    <2>2. CASE ~AuditFeedback(f)
      <3>1. /\ UNCHANGED <<auditVars, qpc>>
            /\ \A g \in Feedbacks :
                 /\ fpc'[g] = "200" => fpc[g] = "200"
                 /\ fpc[g] \in {"200", "500"} => fpc'[g] = fpc[g]
        BY <1>4, <2>2
        DEF FeedbackProgress, ApplyScore, ReleaseClaim, MarkScore, MarkReply,
            MarkOutcome, FeedbackStep, TypeInv, TypeOK
      <3> QED BY <1>1, <3>1
    <2> QED BY <2>1, <2>2
  <1>5. CASE TakeSnapshot \/ Tick \/ UNCHANGED vars
    BY <1>1, <1>5 DEF TakeSnapshot, Tick, vars, requestVars
  <1>6. CASE Restart
    BY <1>1, <1>6 DEF Restart, FeedbackInFlight, QueryInFlight
  <1> QED BY <1>2, <1>3, <1>4, <1>5, <1>6 DEF Next

(* Only a feedback at its last step gets an event, and who has one keeps   *)
(* the claim it was made for.                                              *)
LEMMA WhoAudits ==
  ASSUME TypeInv, EventsInv, [Next]_vars, NEW f \in Feedbacks,
         FeedbackEvent(f) \in Audited'
  PROVE  /\ claim'[f] = claim[f]
         /\ FeedbackEvent(f) \in Audited \/ fpc[f] = "audit"
  <1>1. ASSUME NEW t \in Txns, (\E a \in Arms : StartQuery(t, a)) \/ QueryProgress(t)
        PROVE  claim' = claim /\ FeedbackEvent(f) \in Audited
    <2>1. claim' = claim
      BY <1>1
      DEF StartQuery, QueryProgress, AgentAnswers, AgentRaises, PutRecord,
          RegisterDecision, AuditQuery, QueryStep
    <2>2. UNCHANGED auditVars \/ Audited' \in {Audited, Audited \cup {QueryEvent(t)}}
      BY <1>1, RecordAddsOne
      DEF StartQuery, QueryProgress, AgentAnswers, AgentRaises, PutRecord,
          RegisterDecision, AuditQuery
    <2> QED BY <2>1, <2>2, EventsDiffer DEF Audited, auditVars
  <1>2. ASSUME NEW g \in Feedbacks, NEW t \in Txns, NEW s \in Scores,
               SubmitFeedback(g, t, s)
        PROVE  claim'[f] = claim[f] /\ FeedbackEvent(f) \in Audited
    <2>1. Audited' = Audited /\ fpc[g] = "idle"
      BY <1>2 DEF SubmitFeedback, FeedbackStep, Audited, auditVars
    <2>2. f # g
      BY <2>1 DEF EventsInv
    <2> QED BY <1>2, <2>1, <2>2 DEF SubmitFeedback, TypeInv, TypeOK
  <1>3. ASSUME NEW g \in Feedbacks, FeedbackProgress(g)
        PROVE  /\ claim' = claim
               /\ FeedbackEvent(f) \in Audited \/ fpc[f] = "audit"
    <2>1. CASE AuditFeedback(g)
      <3>1. /\ claim' = claim /\ fpc[g] = "audit"
            /\ Audited' \in {Audited, Audited \cup {FeedbackEvent(g)}}
        BY <2>1, RecordAddsOne DEF AuditFeedback, FeedbackStep
      <3> QED BY <3>1, EventsDiffer
    <2>2. CASE ~AuditFeedback(g)
      BY <1>3, <2>2
      DEF FeedbackProgress, ApplyScore, ReleaseClaim, MarkScore, Audited, auditVars
    <2> QED BY <2>1, <2>2
  <1>4. TakeSnapshot \/ Tick \/ Restart \/ UNCHANGED vars =>
          claim' = claim /\ Audited' = Audited
    BY DEF TakeSnapshot, Tick, Restart, vars, requestVars, Audited, auditVars
  <1> QED BY <1>1, <1>2, <1>3, <1>4 DEF Next

-----------------------------------------------------------------------------
(* A feedback that was marked, or that has an event: its record cannot be  *)
(* claimed again, in memory or from the file.                              *)
Done(f) == fpc[f] \in {"audit", "200"} \/ FeedbackEvent(f) \in Audited

Settled(ledger, t) == ledger[t] = Absent \/ ledger[t].score # NoScore

SettledInv ==
  /\ \A f \in Feedbacks : Done(f) =>
       Settled(items, claim[f].txn) /\ Settled(txnFile, claim[f].txn)
  /\ \A f, g \in Feedbacks :
       Done(f) /\ Done(g) /\ claim[f].txn = claim[g].txn => f = g

(* No operation of the ledger but the put of a record reopens it.          *)
LEMMA SettledStays ==
  ASSUME StoreTypeOK, NEW t \in Txns, Settled(items, t), Settled(txnFile, t),
         NEW u \in Txns,
         \/ ReserveMissing(u) \/ ReserveAlreadyScored(u) \/ ReserveExpired(u)
         \/ ReserveOk(u) \/ ReserveFails(u)
         \/ Release(u) \/ ReleaseFails(u)
         \/ \E s \in Scores : Mark(u, s) \/ MarkFails(u, s)
         \/ u # t /\ \E now : Put(u, now) \/ PutFails(u, now)
         \/ LoadStore \/ LoadStoreFails
         \/ UNCHANGED storeVars
  PROVE  Settled(items', t) /\ Settled(txnFile', t)
  <1>1. /\ Settled(Purged(items), t)
        /\ Settled(Purged(txnFile), t)
        /\ Settled(FileAfterPurge, t)
    BY DEF Purged, FileAfterPurge, Settled
  <1>2. Purged(items) \in Ledger /\ items \in Ledger /\ txnFile \in Ledger
    BY PurgedType DEF StoreTypeOK
  <1>3. CASE u # t /\ \E now : Put(u, now) \/ PutFails(u, now)
    BY <1>1, <1>2, <1>3
    DEF Settled, Put, PutFails, PurgeFails, Saved, SaveFails, Ledger
  <1>4. CASE LoadStore \/ LoadStoreFails \/ UNCHANGED storeVars
    BY <1>1, <1>4 DEF Settled, LoadStore, LoadStoreFails, EmptyLedger, storeVars
  <1>5. CASE Release(u) \/ ReleaseFails(u)
    <2>1. Releasable(u) => u # t
      BY DEF Releasable, Settled
    <2>2. u # t => Released(u)[t] = items[t]
      BY <1>2 DEF Released, Ledger
    <2> QED
      BY <1>5, <2>1, <2>2 DEF Settled, Release, ReleaseFails, SaveFails, storeVars
  <1>6. CASE \E s \in Scores : Mark(u, s) \/ MarkFails(u, s)
    <2>1. PICK s \in Scores : Mark(u, s) \/ MarkFails(u, s)
      BY <1>6
    <2>2. MarkOutcome(u) = "ok" => u # t
      BY DEF MarkOutcome, Settled
    <2>3. u # t => Marked(u, s)[t] = items[t]
      BY <1>2 DEF Marked, Ledger
    <2> QED BY <2>1, <2>2, <2>3 DEF Settled, Mark, MarkFails, SaveFails, storeVars
  <1>7. CASE ReserveMissing(u) \/ ReserveAlreadyScored(u)
    BY <1>1, <1>7 DEF Settled, ReserveMissing, ReserveAlreadyScored, PurgeOnly
  <1>8. CASE ReserveExpired(u)
    BY <1>1, <1>2, <1>8 DEF Settled, ReserveExpired, Saved, Ledger
  <1>9. CASE ReserveOk(u) \/ ReserveFails(u)
    <2>1. Claimable(u) => u # t
      BY DEF Claimable, Claimed, Settled, Purged
    <2>2. u # t => WithReservation(u)[t] = Purged(items)[t]
      BY <1>2 DEF WithReservation, Ledger
    <2>3. [Purged(items) EXCEPT ![u] = Absent][t] \in {Purged(items)[t], Absent}
      BY <1>2 DEF Ledger
    <2> QED
      BY <1>1, <1>9, <2>1, <2>2, <2>3
      DEF Settled, ReserveOk, ReserveFails, PurgeFails, Saved, SaveFails
  <1> QED BY <1>3, <1>4, <1>5, <1>6, <1>7, <1>8, <1>9

(* A step that marks nothing keeps SettledInv if it keeps records settled. *)
LEMMA SettlesNothing ==
  ASSUME SettledInv,
         \A f \in Feedbacks : Done(f)' =>
           Done(f) /\ claim'[f] = claim[f],
         \A f \in Feedbacks : Done(f) =>
           Settled(items', claim[f].txn) /\ Settled(txnFile', claim[f].txn)
  PROVE  SettledInv'
  <1>1. \A f \in Feedbacks : Done(f)' =>
          Settled(items', claim'[f].txn) /\ Settled(txnFile', claim'[f].txn)
    OBVIOUS
  <1>2. \A f, g \in Feedbacks :
          Done(f)' /\ Done(g)' /\ claim'[f].txn = claim'[g].txn => f = g
    BY DEF SettledInv
  <1> QED BY <1>1, <1>2 DEF SettledInv, Settled

LEMMA DoneFeedback ==
  ASSUME ExclusiveInv, EventsInv, NEW f \in Feedbacks, Done(f)
  PROVE  claim[f].txn \in Txns /\ qpc[claim[f].txn] = "answered"
  <1>1. fpc[f] # "idle"
    BY DEF Done, EventsInv
  <1> QED BY <1>1 DEF ExclusiveInv, ClaimsAnswered, TypeInv, LocalsBound, Claims

(* Only the mark makes a feedback one of the done.                         *)
LEMMA WhoIsDone ==
  ASSUME TypeInv, EventsInv, [Next]_vars, NEW f \in Feedbacks, Done(f)', ~MarkScore(f)
  PROVE  Done(f) /\ claim'[f] = claim[f]
  <1>1. CASE FeedbackEvent(f) \in Audited'
    BY <1>1, WhoAudits DEF Done
  <1>2. CASE fpc'[f] \in {"audit", "200"}
    <2>1. ASSUME NEW t \in Txns, (\E a \in Arms : StartQuery(t, a)) \/ QueryProgress(t)
          PROVE  UNCHANGED <<fpc, claim>>
      BY <2>1
      DEF StartQuery, QueryProgress, AgentAnswers, AgentRaises, PutRecord,
          RegisterDecision, AuditQuery, QueryStep
    <2>2. ASSUME NEW g \in Feedbacks, NEW t \in Txns, NEW s \in Scores,
                 SubmitFeedback(g, t, s)
          PROVE  f # g /\ fpc'[f] = fpc[f] /\ claim'[f] = claim[f]
      BY <1>2, <2>2 DEF SubmitFeedback, FeedbackStep, TypeInv, TypeOK
    <2>3. ASSUME NEW g \in Feedbacks, FeedbackProgress(g)
          PROVE  claim' = claim /\ fpc[f] \in {"audit", "200"}
      BY <1>2, <2>3
      DEF FeedbackProgress, ApplyScore, ReleaseClaim, MarkScore, AuditFeedback,
          FeedbackStep, TypeInv, TypeOK
    <2>4. TakeSnapshot \/ Tick \/ Restart \/ UNCHANGED vars =>
            claim' = claim /\ fpc[f] \in {"audit", "200"}
      BY <1>2 DEF TakeSnapshot, Tick, Restart, FeedbackInFlight, vars, requestVars
    <2> QED BY <1>2, <2>1, <2>2, <2>3, <2>4 DEF Next, Done
  <1> QED BY <1>1, <1>2 DEF Done

LEMMA MarkSettles ==
  ASSUME ExclusiveInv, EventsInv, SettledInv, NEW f \in Feedbacks, MarkScore(f)
  PROVE  SettledInv'
  <1> DEFINE t == claim[f].txn
             s == claim[f].score
  <1>1. /\ claim' = claim /\ fpc[f] = "mark"
        /\ \A g \in Feedbacks \ {f} : fpc'[g] = fpc[g]
        /\ Audited' = Audited /\ FeedbackEvent(f) \notin Audited
    BY DEF MarkScore, FeedbackStep, ExclusiveInv, TypeInv, TypeOK, EventsInv, Audited,
           auditVars
  <1>0. \A g \in Feedbacks : Done(g)' => Done(g) \/ g = f
    BY <1>1 DEF Done
  <1>2. t \in Txns /\ s \in Scores /\ StoreTypeOK
    BY <1>1 DEF ExclusiveInv, TypeInv, TypeOK, LocalsBound, Claims
  <1>3. Mark(t, s) \/ MarkFails(t, s)
    BY DEF MarkScore
  <1>4. ASSUME NEW g \in Feedbacks, Done(g)
        PROVE  Settled(items', claim[g].txn) /\ Settled(txnFile', claim[g].txn)
    <2>1. claim[g].txn \in Txns /\ Settled(items, claim[g].txn) /\ Settled(txnFile, claim[g].txn)
      BY <1>4, DoneFeedback DEF SettledInv
    <2> HIDE DEF t, s
    <2> QED BY <1>2, <1>3, <2>1, SettledStays
  <1>5. CASE ~Done(f)'
    <2>1. \A g \in Feedbacks : Done(g)' => Done(g) /\ claim'[g] = claim[g]
      BY <1>0, <1>1, <1>5
    <2> QED BY <1>4, <2>1, SettlesNothing
  <1>6. CASE Done(f)'
    <2>1. MarkOutcome(t) = "ok" /\ Mark(t, s)
      BY <1>1, <1>6
      DEF MarkScore, FeedbackStep, MarkReply, MarkOutcome, Done, ExclusiveInv, TypeInv,
          TypeOK
    <2>2. ~Settled(items, t)
      BY <2>1 DEF MarkOutcome, Settled
    <2>3. \A g \in Feedbacks \ {f} : Done(g) => claim[g].txn # t
      BY <2>2 DEF SettledInv
    <2>4. Settled(Marked(t, s), t)
      BY <1>2, <2>1, StoreAssumption
      DEF Settled, Marked, MarkOutcome, StoreTypeOK, Ledger, Record
    <2>5. items' = Marked(t, s) /\ txnFile' = Marked(t, s)
      BY <2>1 DEF Mark
    <2> HIDE DEF t, s
    <2>7. Settled(items', t) /\ Settled(txnFile', t)
      BY <2>4, <2>5
    <2>8. \A g \in Feedbacks : Done(g)' =>
            Settled(items', claim[g].txn) /\ Settled(txnFile', claim[g].txn)
      BY <1>4, <1>0, <2>7 DEF t
    <2>9. \A g, h \in Feedbacks :
            Done(g)' /\ Done(h)' /\ claim[g].txn = claim[h].txn => g = h
      BY <2>3, <1>0 DEF SettledInv, t
    <2> QED BY <1>1, <2>8, <2>9 DEF SettledInv, Settled
  <1> QED BY <1>5, <1>6

LEMMA NextSettled ==
  ExclusiveInv /\ EventsInv /\ SettledInv /\ [Next]_vars => SettledInv'
  <1> SUFFICES ASSUME ExclusiveInv, EventsInv, SettledInv, [Next]_vars
               PROVE  SettledInv'
    OBVIOUS
  <1>1. CASE \E f \in Feedbacks : MarkScore(f)
    BY <1>1, MarkSettles
  <1>2. CASE \A f \in Feedbacks : ~MarkScore(f)
    <2>1. \A f \in Feedbacks : Done(f)' => Done(f) /\ claim'[f] = claim[f]
      BY <1>2, WhoIsDone DEF ExclusiveInv
    <2>2. SUFFICES ASSUME NEW f \in Feedbacks, Done(f)
                   PROVE  Settled(items', claim[f].txn) /\ Settled(txnFile', claim[f].txn)
      BY <2>1, SettlesNothing
    <2>3. PICK t \in Txns : claim[f].txn = t
      BY <2>2, DoneFeedback
    <2>4. /\ StoreTypeOK /\ qpc[t] = "answered"
          /\ Settled(items, t) /\ Settled(txnFile, t)
      BY <2>2, <2>3, DoneFeedback DEF ExclusiveInv, TypeInv, TypeOK, SettledInv
    <2>5. ASSUME NEW u \in Txns, (\E a \in Arms : StartQuery(u, a)) \/ QueryProgress(u)
          PROVE  \/ UNCHANGED storeVars
                 \/ u # t /\ \E now : Put(u, now) \/ PutFails(u, now)
      BY <2>4, <2>5
      DEF StartQuery, QueryProgress, AgentAnswers, AgentRaises, PutRecord, QueryStep,
          RegisterDecision, AuditQuery
    <2>6. ASSUME NEW g \in Feedbacks, NEW u \in Txns, NEW s \in Scores,
                 SubmitFeedback(g, u, s)
          PROVE  \/ ReserveMissing(u) \/ ReserveAlreadyScored(u) \/ ReserveExpired(u)
                 \/ ReserveOk(u) \/ ReserveFails(u)
      BY <2>6 DEF SubmitFeedback
    <2>7. ASSUME NEW g \in Feedbacks, FeedbackProgress(g)
          PROVE  \/ UNCHANGED storeVars
                 \/ \E u \in Txns : Release(u) \/ ReleaseFails(u)
      <3>1. CASE ReleaseClaim(g)
        <4>1. claim[g].txn \in Txns
          BY <3>1
          DEF ReleaseClaim, FeedbackStep, ExclusiveInv, TypeInv, LocalsBound, Claims
        <4> QED BY <3>1, <4>1 DEF ReleaseClaim
      <3>2. CASE ~ReleaseClaim(g)
        BY <1>2, <2>7, <3>2 DEF FeedbackProgress, ApplyScore, AuditFeedback
      <3> QED BY <3>1, <3>2
    <2>8. TakeSnapshot \/ Tick \/ Restart \/ UNCHANGED vars =>
            LoadStore \/ LoadStoreFails \/ UNCHANGED storeVars
      BY DEF TakeSnapshot, Tick, Restart, vars
    <2>9. Settled(items', t) /\ Settled(txnFile', t)
      BY <2>4, <2>5, <2>6, <2>7, <2>8, SettledStays DEF Next
    <2> QED BY <2>3, <2>9
  <1> QED BY <1>1, <1>2

AuditInv == ScoresInv /\ SettledInv /\ EventsInv

LEMMA InitAudit == Init => AuditInv
  <1> SUFFICES ASSUME Init PROVE SettledInv /\ EventsInv
    BY InitScores DEF AuditInv
  <1>1. /\ \A f \in Feedbacks : fpc[f] = "idle"
        /\ \A t \in Txns : qpc[t] = "idle"
        /\ Audited = {}
    BY DEF Init, AuditInit, Audited
  <1> QED BY <1>1 DEF SettledInv, EventsInv, Done

LEMMA NextAudit == AuditInv /\ [Next]_vars => AuditInv'
  BY NextScores, NextSettled, NextEvents
  DEF AuditInv, ScoresInv, CoherentInv, ExclusiveInv

(* Events and statuses agree (query_service.py, the calls of record).      *)
THEOREM AuditInvariant == Spec => []AuditInv
  BY InitAudit, NextAudit, PTL DEF Spec

-----------------------------------------------------------------------------
(* The contract: each step of the service is one of its steps, or none.    *)

Issued == {t \in Txns : qpc[t] = "answered"}

Acked == [f \in Feedbacks |-> IF fpc[f] = "200" THEN claim[f] ELSE Absent]

LEMMA InitContract == Init => Contract!Init
  <1> SUFFICES ASSUME Init PROVE Contract!Init
    OBVIOUS
  <1>1. Issued = {}
    BY DEF Init, Issued
  <1>2. Acked = [f \in Feedbacks |-> Absent]
    BY DEF Init, Acked
  <1>3. banditFile.policy.credit = [t \in Txns |-> NoScore]
    BY DEF Init, BanditInit, FreshPolicy
  <1> QED BY <1>1, <1>2, <1>3 DEF Contract!Init, Issued, Acked

LEMMA UnmovedAcked ==
  ASSUME \A f \in Feedbacks : fpc'[f] = "200" <=> fpc[f] = "200",
         \A f \in Feedbacks : fpc[f] = "200" => claim'[f] = claim[f]
  PROVE  UNCHANGED Acked
  BY DEF Acked

LEMMA UnmovedIssued ==
  ASSUME \A t \in Txns : qpc'[t] = "answered" <=> qpc[t] = "answered"
  PROVE  UNCHANGED Issued
  BY DEF Issued

(* Whoever writes the file of the bandit writes what memory has learned,   *)
(* from answered queries; the step is a Learn or none.                     *)
LEMMA SavingLearns ==
  ASSUME CoherentInv, CoherentInv', DurableInv, UNCHANGED Issued, UNCHANGED Acked,
         banditFile'.policy \in {banditFile.policy, policy'},
         \A t \in Txns : policy.credit[t] # NoScore => policy'.credit[t] = policy.credit[t]
  PROVE  [Contract!Next]_Contract!contractVars
  <1> DEFINE learned == banditFile.policy.credit
  <1>1. learned' \in [Txns -> Scores \cup {NoScore}]
    BY DEF CoherentInv, ExclusiveInv, TypeInv, TypeOK, BanditTypeOK, Payload, Policy
  <1>2. \A t \in Txns : learned[t] # NoScore => learned'[t] = learned[t]
    BY DEF DurableInv
  <1>3. \A t \in Txns : learned'[t] # NoScore => t \in Issued'
    BY DEF CoherentInv, Coherent, Issued
  <1>4. \A t \in Txns : learned'[t] # learned[t] => t \in Issued /\ learned[t] = NoScore
    BY <1>2, <1>3
  <1>5. Contract!Learn
    BY <1>1, <1>4 DEF Contract!Learn, Issued, Acked
  <1> QED BY <1>5 DEF Contract!Next

LEMMA NothingSeen ==
  ASSUME UNCHANGED Issued, UNCHANGED Acked, banditFile'.policy = banditFile.policy
  PROVE  UNCHANGED Contract!contractVars
  BY DEF Contract!contractVars, Issued, Acked

LEMMA QueryMeetsContract ==
  ASSUME AuditInv, CoherentInv', DurableInv, NEW t \in Txns,
         (\E a \in Arms : StartQuery(t, a)) \/ QueryProgress(t)
  PROVE  [Contract!Next]_Contract!contractVars
  <1> USE DEF AuditInv, ScoresInv, CoherentInv, ExclusiveInv
  <1>1. UNCHANGED <<fpc, claim>>
    BY DEF StartQuery, QueryProgress, AgentAnswers, AgentRaises, PutRecord,
           RegisterDecision, AuditQuery, QueryStep
  <1>2. UNCHANGED Acked
    BY <1>1, UnmovedAcked
  <1>3. policy' = policy /\ banditFile'.policy \in {banditFile.policy, policy'}
    BY DEF StartQuery, SelectAction, QueryProgress, AgentAnswers, AgentRaises, PutRecord,
           RegisterDecision, RegisterPending, RegisterPendingFails, SaveBandit,
           SaveBanditFails, AuditQuery, banditVars
  <1>4. CASE AuditQuery(t)
    <2>1. /\ qpc[t] = "audit" /\ qpc'[t] \in {"answered", "failed"}
          /\ \A u \in Txns \ {t} : qpc'[u] = qpc[u]
      BY <1>4 DEF AuditQuery, QueryStep, TypeInv, TypeOK
    <2>2. Issued' \in {Issued, Issued \cup {t}}
      BY <2>1 DEF Issued
    <2>3. banditFile' = banditFile
      BY <1>4 DEF AuditQuery, banditVars
    <2>4. CASE Issued' = Issued \cup {t}
      <3>1. Contract!Issue(t)
        BY <1>2, <2>3, <2>4 DEF Contract!Issue, Issued, Acked
      <3> QED BY <3>1 DEF Contract!Next
    <2>5. CASE Issued' = Issued
      BY <1>2, <2>3, <2>5, NothingSeen
    <2> QED BY <2>2, <2>4, <2>5
  <1>5. CASE ~AuditQuery(t)
    <2>1. \A u \in Txns : qpc'[u] = "answered" <=> qpc[u] = "answered"
      BY <1>5
      DEF StartQuery, QueryProgress, AgentAnswers, AgentRaises, PutRecord,
          RegisterDecision, QueryStep, TypeInv, TypeOK
    <2> QED BY <1>2, <1>3, <2>1, UnmovedIssued, SavingLearns
  <1> QED BY <1>4, <1>5

LEMMA ProgressMeetsContract ==
  ASSUME AuditInv, CoherentInv', DurableInv, NEW f \in Feedbacks, FeedbackProgress(f)
  PROVE  [Contract!Next]_Contract!contractVars
  <1> USE DEF AuditInv, ScoresInv, CoherentInv, ExclusiveInv
  <1> DEFINE t == claim[f].txn
             s == claim[f].score
  <1>1. UNCHANGED <<qpc, claim>> /\ \A g \in Feedbacks \ {f} : fpc'[g] = fpc[g]
    BY DEF FeedbackProgress, ApplyScore, ReleaseClaim, MarkScore, AuditFeedback,
           FeedbackStep, TypeInv, TypeOK
  <1>2. UNCHANGED Issued
    BY <1>1, UnmovedIssued
  <1>3. fpc[f] \in FeedbackInFlight /\ claim[f] \in Claims
    BY DEF FeedbackProgress, ApplyScore, ReleaseClaim, MarkScore, AuditFeedback,
           FeedbackStep, FeedbackInFlight, TypeInv, LocalsBound
  <1>4. CASE AuditFeedback(f) /\ fpc'[f] = "200"
    <2>1. fpc[f] = "audit" /\ banditFile' = banditFile
      BY <1>4 DEF AuditFeedback, FeedbackStep, banditVars, TypeInv, TypeOK
    <2>2. banditFile.policy.credit[t] = s
      BY <2>1 DEF DurableInv, PastApply
    <2>3. \A g \in Feedbacks : Acked[g] # Absent => Acked[g].txn # t
      BY <2>1 DEF Acked, SettledInv, Done
    <2>4. claim[f] = [txn |-> t, score |-> s] /\ t \in Txns /\ s \in Scores
      BY <1>3 DEF Claims
    <2>5. Acked' = [Acked EXCEPT ![f] = [txn |-> t, score |-> s]]
      BY <1>1, <1>4, <2>4 DEF Acked
    <2>6. PICK u \in Txns, v \in Scores : u = t /\ v = s
      BY <2>4
    <2>7. Contract!Acknowledge(f, u, v)
      BY <1>2, <2>1, <2>2, <2>3, <2>5, <2>6 DEF Contract!Acknowledge, Issued, Acked
    <2> QED BY <2>7 DEF Contract!Next
  <1>5. CASE ~(AuditFeedback(f) /\ fpc'[f] = "200")
    <2>1. fpc'[f] # "200"
      BY <1>5
      DEF FeedbackProgress, ApplyScore, ReleaseClaim, MarkScore, MarkReply,
          MarkOutcome, FeedbackStep, TypeInv, TypeOK
    <2>2. UNCHANGED Acked
      BY <1>1, <1>3, <2>1, UnmovedAcked DEF FeedbackInFlight
    <2>3. CASE ApplyScore(f)
      <3>1. \/ policy' = policy /\ banditFile'.policy = banditFile.policy
            \/ /\ Absorb(t, s)
               /\ banditFile'.policy \in {banditFile.policy, policy'}
        BY <2>3
        DEF ApplyScore, ApplyFeedback, ApplyFeedbackFails, ApplyFeedbackUnknown,
            SaveBandit, SaveBanditFails
      <3>2. t \in Txns /\ policy \in Policy
        BY <1>3 DEF Claims, TypeInv, TypeOK, BanditTypeOK
      <3>3. Absorb(t, s) =>
              /\ policy.credit[t] = NoScore
              /\ \A u \in Txns \ {t} : policy'.credit[u] = policy.credit[u]
        <4>1. Absorb(t, s) => pending[t] # Absent
          BY <3>2 DEF Absorb, Unexpired
        <4>2. Absorb(t, s) => \A u \in Txns \ {t} : policy'.credit[u] = policy.credit[u]
          BY <3>2 DEF Absorb, Learned, Policy
        <4> QED BY <3>2, <4>1, <4>2 DEF Coherent
      <3> HIDE DEF t, s
      <3>4. CASE Absorb(t, s)
        <4>1. \A u \in Txns : policy.credit[u] # NoScore =>
                policy'.credit[u] = policy.credit[u]
          BY <3>3, <3>4
        <4>2. banditFile'.policy \in {banditFile.policy, policy'}
          BY <3>1
        <4> QED BY <1>2, <2>2, <4>1, <4>2, SavingLearns
      <3>5. CASE ~Absorb(t, s)
        BY <1>2, <2>2, <3>1, <3>5, NothingSeen
      <3> QED BY <3>4, <3>5
    <2>4. CASE ~ApplyScore(f)
      <3>1. banditFile' = banditFile
        BY <2>4 DEF FeedbackProgress, ReleaseClaim, MarkScore, AuditFeedback, banditVars
      <3> QED BY <1>2, <2>2, <3>1, NothingSeen
    <2> QED BY <2>3, <2>4
  <1> QED BY <1>4, <1>5

LEMMA NextMeetsContract ==
  ASSUME AuditInv, AuditInv', Faultless("load"), [Next]_vars
  PROVE  [Contract!Next]_Contract!contractVars
  <1> USE DEF AuditInv, ScoresInv
  <1>1. CoherentInv /\ CoherentInv' /\ DurableInv /\ TypeInv
    BY DEF CoherentInv, ExclusiveInv
  <1>2. ASSUME NEW f \in Feedbacks, NEW t \in Txns, NEW s \in Scores,
               SubmitFeedback(f, t, s)
        PROVE  [Contract!Next]_Contract!contractVars
    <2>1. /\ UNCHANGED qpc /\ banditFile' = banditFile
          /\ \A g \in Feedbacks : fpc'[g] = "200" <=> fpc[g] = "200"
          /\ \A g \in Feedbacks : fpc[g] = "200" => claim'[g] = claim[g]
      BY <1>1, <1>2 DEF SubmitFeedback, FeedbackStep, banditVars, TypeInv, TypeOK
    <2> QED BY <2>1, UnmovedAcked, UnmovedIssued, NothingSeen
  <1>3. CASE TakeSnapshot
    <2>1. /\ UNCHANGED <<qpc, fpc, claim, policy>>
          /\ banditFile'.policy \in {banditFile.policy, policy'}
      BY <1>3
      DEF TakeSnapshot, Snapshot, SnapshotFails, SaveBandit, SaveBanditFails, requestVars
    <2> QED BY <1>1, <2>1, UnmovedAcked, UnmovedIssued, SavingLearns
  <1>4. CASE Tick \/ UNCHANGED vars
    BY <1>4, UnmovedAcked, UnmovedIssued, NothingSeen
    DEF Tick, vars, requestVars, banditVars
  <1>5. CASE Restart
    <2>1. /\ \A t \in Txns : qpc'[t] = "answered" <=> qpc[t] = "answered"
          /\ \A f \in Feedbacks : fpc'[f] = "200" <=> fpc[f] = "200"
          /\ UNCHANGED <<claim, banditFile>>
      BY <1>5
      DEF Restart, LoadBandit, LoadBanditFails, QueryInFlight, FeedbackInFlight
    <2> QED BY <2>1, UnmovedAcked, UnmovedIssued, NothingSeen
  <1> QED
    BY <1>1, <1>2, <1>3, <1>4, <1>5, QueryMeetsContract, ProgressMeetsContract DEF Next

(* Where state files can be read back, the service implements the contract *)
(* of its clients: an answered query alone is learned from, once and for   *)
(* good, and 200 is given to one feedback per query, whose score it is.    *)
THEOREM ServiceMeetsContract ==
  ASSUME "load" \notin FaultKinds
  PROVE  Spec => ImplementsContract
  <1>1. Faultless("load")
    BY DEF Faultless
  <1>2. AuditInv /\ AuditInv' /\ [Next]_vars => [Contract!Next]_Contract!contractVars
    BY <1>1, NextMeetsContract
  <1> QED
    BY <1>2, InitContract, AuditInvariant, PTL
    DEF Spec, ImplementsContract, Contract!Spec

-----------------------------------------------------------------------------
(* What the trail vouches for                                              *)

(* Nothing durable is unlearned: the contract has no such step.            *)
LEMMA NothingUnlearned ==
  ASSUME AuditInv, AuditInv', Faultless("load"), [Next]_vars
  PROVE  Grows
  <1>1. [Contract!Next]_Contract!contractVars
    BY NextMeetsContract
  <1>2. Contract!Learn => Grows
    BY DEF Contract!Learn, Grows
  <1>3. UNCHANGED banditFile.policy.credit => Grows
    BY DEF Grows
  <1> QED
    BY <1>1, <1>2, <1>3
    DEF Contract!Next, Contract!Issue, Contract!Acknowledge, Contract!contractVars

VouchedInv ==
  Faultless("load") => \A f \in Feedbacks : FeedbackEvent(f) \in Audited =>
    banditFile.policy.credit[claim[f].txn] = claim[f].score

LEMMA NextVouched ==
  ASSUME AuditInv, AuditInv', VouchedInv, [Next]_vars PROVE VouchedInv'
  <1>1. TypeInv /\ EventsInv
    BY DEF AuditInv, ScoresInv, CoherentInv, ExclusiveInv
  <1>2. SUFFICES ASSUME Faultless("load")', NEW f \in Feedbacks,
                        FeedbackEvent(f) \in Audited'
                 PROVE  banditFile'.policy.credit[claim'[f].txn] = claim'[f].score
    BY DEF VouchedInv, FeedbackEvent
  <1>3. Faultless("load")
    BY <1>1, <1>2, LoadsBefore
  <1>4. /\ claim'[f] = claim[f]
        /\ FeedbackEvent(f) \in Audited \/ fpc[f] = "audit"
    BY <1>1, <1>2, WhoAudits
  <1>5. banditFile.policy.credit[claim[f].txn] = claim[f].score
    BY <1>3, <1>4 DEF VouchedInv, AuditInv, ScoresInv, DurableInv, PastApply
  <1>6. claim[f].txn \in Txns /\ claim[f].score # NoScore
    BY <1>1, <1>4, StoreAssumption DEF TypeInv, LocalsBound, Claims, EventsInv
  <1> QED BY <1>3, <1>4, <1>5, <1>6, NothingUnlearned DEF Grows

(* The audit trail vouches only for what happened, whichever of its writes *)
(* failed: an audited feedback is what the policy on disk learned, and the *)
(* only audited one for its query; no answer and no 200 leaves without its *)
(* event.                                                                  *)
THEOREM TrailIsTrue == Spec => []AuditTrail
  <1>1. Init => VouchedInv
    BY DEF Init, AuditInit, Audited, VouchedInv
  <1>2. ASSUME AuditInv, VouchedInv PROVE AuditTrail
    <2>1. \A f, g \in Feedbacks :
            /\ FeedbackEvent(f) \in Audited
            /\ FeedbackEvent(g) \in Audited
            /\ claim[f].txn = claim[g].txn
            => f = g
      BY <1>2 DEF AuditInv, SettledInv, Done
    <2> QED BY <1>2, <2>1 DEF AuditInv, EventsInv, VouchedInv, AuditTrail
  <1>3. AuditInv /\ AuditInv' /\ VouchedInv /\ [Next]_vars => VouchedInv'
    BY NextVouched
  <1> QED BY <1>1, <1>2, <1>3, AuditInvariant, PTL DEF Spec

-----------------------------------------------------------------------------
(* Reservations *)

LEMMA QuietBefore ==
  ASSUME TypeInv, [Next]_vars, NoFailures'
  PROVE  NoFailures /\ \A kind : ~Fault(kind)
  <1>1. \A k \in FaultKinds : faults[k] = 0 /\ ~Fault(k)
    BY FaultsCount DEF NoFailures, Faultless
  <1>2. \A kind : Fault(kind) => kind \in FaultKinds
    BY DEF Fault, Faults
  <1> QED BY <1>1, <1>2 DEF NoFailures, Faultless

Calm == NoFailures /\ crashes = 0

LEMMA CalmBefore ==
  ASSUME TypeInv, [Next]_vars, Calm'
  PROVE  /\ Calm /\ crashes' = crashes
         /\ \A kind : ~Fault(kind)
  <1>1. NoFailures /\ \A kind : ~Fault(kind)
    BY QuietBefore DEF Calm
  <1>2. crashes \in Nat /\ crashes' = 0
    BY ServiceAssumption DEF TypeInv, TypeOK, Calm
  <1>3. crashes' = crashes \/ crashes' = crashes + 1
    BY DEF Next, StartQuery, QueryProgress, AgentAnswers, AgentRaises, PutRecord,
           RegisterDecision, AuditQuery, QueryStep, SubmitFeedback, FeedbackProgress,
           ApplyScore, ReleaseClaim, MarkScore, AuditFeedback, FeedbackStep,
           TakeSnapshot, Tick, Restart, requestVars, vars
  <1>4. crashes' = crashes /\ crashes = 0
    BY <1>2, <1>3
  <1> QED BY <1>1, <1>4 DEF Calm

Reserved(t) == items[t] # Absent /\ items[t].reserved

HolderInv ==
  Calm => \A t \in Txns : Reserved(t) => \E f \in Feedbacks : Holds(f, t)

(* A step that reserves nothing and lets go of nothing keeps the holders.  *)
LEMMA HoldersStay ==
  ASSUME \A t \in Txns : Reserved(t) => \E f \in Feedbacks : Holds(f, t),
         \A t \in Txns : Reserved(t)' => Reserved(t),
         \A f \in Feedbacks, t \in Txns : Holds(f, t) /\ Reserved(t)' => Holds(f, t)'
  PROVE  \A t \in Txns : Reserved(t)' => \E f \in Feedbacks : Holds(f, t)'
  OBVIOUS

LEMMA NextHolder ==
  ASSUME ExclusiveInv, HolderInv, [Next]_vars, Calm'
  PROVE  \A t \in Txns : Reserved(t)' => \E f \in Feedbacks : Holds(f, t)'
  <1>1. /\ TypeInv /\ StoreTypeOK
        /\ \A kind : ~Fault(kind)
        /\ crashes' = crashes
        /\ \A t \in Txns : Reserved(t) => \E f \in Feedbacks : Holds(f, t)
    BY CalmBefore DEF ExclusiveInv, TypeInv, TypeOK, HolderInv
  <1>2. \A t \in Txns : Purged(items)[t] \in {items[t], Absent}
    BY DEF Purged
  <1>3. ASSUME NEW t \in Txns, (\E a \in Arms : StartQuery(t, a)) \/ QueryProgress(t)
        PROVE  \A u \in Txns : Reserved(u)' => \E f \in Feedbacks : Holds(f, u)'
    <2>1. UNCHANGED <<fpc, claim>>
      BY <1>3
      DEF StartQuery, QueryProgress, AgentAnswers, AgentRaises, PutRecord,
          RegisterDecision, AuditQuery, QueryStep
    <2>2. \A u \in Txns : Reserved(u)' => Reserved(u)
      <3>1. CASE PutRecord(t)
        <4>1. PICK now : items' = [Purged(items) EXCEPT ![t] = NewRecord(now)]
          BY <1>1, <3>1 DEF PutRecord, Put, PutFails, PurgeFails, SaveFails, Saved
        <4>2. Purged(items) \in Ledger
          BY <1>1, PurgedType DEF StoreTypeOK
        <4>3. ~Reserved(t)'
          BY <4>1, <4>2 DEF Reserved, NewRecord, Ledger
        <4>4. \A u \in Txns \ {t} : items'[u] \in {items[u], Absent}
          BY <1>2, <4>1, <4>2 DEF Ledger
        <4> QED BY <4>3, <4>4 DEF Reserved
      <3>2. CASE ~PutRecord(t)
        BY <1>3, <3>2
        DEF StartQuery, QueryProgress, AgentAnswers, AgentRaises, RegisterDecision,
            AuditQuery, storeVars, Reserved
      <3> QED BY <3>1, <3>2
    <2> QED BY <1>1, <2>1, <2>2 DEF Holds
  <1>4. ASSUME NEW f \in Feedbacks, NEW t \in Txns, NEW s \in Scores,
               SubmitFeedback(f, t, s)
        PROVE  \A u \in Txns : Reserved(u)' => \E g \in Feedbacks : Holds(g, u)'
    <2>1. /\ fpc[f] = "idle" /\ claim'[f].txn = t
          /\ \A g \in Feedbacks \ {f} : fpc'[g] = fpc[g] /\ claim'[g] = claim[g]
      BY <1>1, <1>4 DEF SubmitFeedback, FeedbackStep, TypeInv, TypeOK
    <2>2. \A g \in Feedbacks, u \in Txns : Holds(g, u) => Holds(g, u)'
      BY <2>1 DEF Holds, Holding
    <2>3. \A u \in Txns \ {t} : items'[u] \in {items[u], Absent}
      BY <1>4, <1>1, ReserveEffect DEF SubmitFeedback
    <2>4. CASE ReserveOk(t) /\ fpc'[f] = "apply"
      <3>1. Holds(f, t)'
        BY <2>1, <2>4 DEF Holds, Holding
      <3> QED BY <1>1, <2>2, <2>3, <3>1 DEF Reserved
    <2>5. CASE ReserveMissing(t) \/ ReserveAlreadyScored(t) \/ ReserveExpired(t)
      <3>1. items'[t] \in {items[t], Absent}
        <4>1. Purged(items) \in Ledger
          BY <1>1, PurgedType DEF StoreTypeOK
        <4> QED
          BY <1>2, <2>5, <4>1
          DEF ReserveMissing, ReserveAlreadyScored, ReserveExpired, PurgeOnly, Saved,
              Ledger
      <3> QED BY <1>1, <2>2, <2>3, <3>1 DEF Reserved
    <2>6. ~ReserveFails(t)
      BY <1>1 DEF ReserveFails, PurgeFails, SaveFails
    <2>7. ReserveOk(t) => fpc'[f] = "apply"
          \/ ReserveMissing(t) \/ ReserveAlreadyScored(t) \/ ReserveExpired(t)
      BY <1>1, <1>4, <2>6 DEF SubmitFeedback, FeedbackStep, TypeInv, TypeOK
    <2> QED BY <1>4, <2>4, <2>5, <2>6, <2>7 DEF SubmitFeedback
  <1>5. ASSUME NEW f \in Feedbacks, FeedbackProgress(f)
        PROVE  \A u \in Txns : Reserved(u)' => \E g \in Feedbacks : Holds(g, u)'
    <2>1. /\ UNCHANGED claim /\ fpc[f] \in Holding \cup {"audit"}
          /\ \A g \in Feedbacks \ {f} : fpc'[g] = fpc[g]
      BY <1>1, <1>5
      DEF FeedbackProgress, ApplyScore, ReleaseClaim, MarkScore, AuditFeedback,
          FeedbackStep, Holding, TypeInv, TypeOK
    <2>2. claim[f].txn \in Txns
      BY <1>1, <2>1 DEF TypeInv, LocalsBound, Claims, Holding
    <2>3. \A g \in Feedbacks \ {f}, u \in Txns : Holds(g, u) => Holds(g, u)'
      BY <2>1 DEF Holds
    <2>4. CASE ApplyScore(f)
      <3>1. fpc'[f] \in Holding /\ UNCHANGED items
        BY <1>1, <2>4
        DEF ApplyScore, ApplyFeedbackFails, SaveBanditFails, FeedbackStep, Holding,
            TypeInv, TypeOK, storeVars
      <3> QED BY <1>1, <2>1, <2>3, <3>1 DEF Holds, Reserved
    <2>5. CASE AuditFeedback(f)
      <3>1. fpc[f] = "audit" /\ UNCHANGED items
        BY <2>5 DEF AuditFeedback, FeedbackStep, storeVars
      <3> QED BY <1>1, <2>3, <3>1 DEF Holds, Holding, Reserved
    <2>6. CASE ReleaseClaim(f) \/ MarkScore(f)
      <3>1. PICK t \in Txns : claim[f].txn = t
        BY <2>2
      <3>2. Holds(f, t)
        BY <2>6, <3>1 DEF ReleaseClaim, MarkScore, FeedbackStep, Holds, Holding
      <3>3. items[t] = Absent \/ items[t].score = NoScore
        BY <3>2 DEF ExclusiveInv, ExclusiveFeedback
      <3>4. fpc[f] # "idle" /\ claim[f].score \in Scores
        BY <1>1, <2>6
        DEF ReleaseClaim, MarkScore, FeedbackStep, TypeInv, LocalsBound, Claims
      <3>5. \/ items[t] = Absent /\ UNCHANGED items
            \/ items[t] # Absent /\ items' = Released(t)
            \/ items[t] # Absent /\ \E s \in Scores : items' = Marked(t, s)
        <4>1. CASE ReleaseClaim(f)
          BY <1>1, <3>1, <3>3, <4>1
          DEF ReleaseClaim, ReleaseFails, Release, Releasable, Released, SaveFails,
              storeVars
        <4>2. CASE MarkScore(f)
          BY <1>1, <3>1, <3>3, <3>4, <4>2
          DEF MarkScore, MarkFails, Mark, MarkOutcome, Marked, SaveFails, storeVars
        <4> QED BY <2>6, <4>1, <4>2
      <3>6. ~Reserved(t)'
        BY <1>1, <3>5 DEF Released, Marked, Reserved, StoreTypeOK, Ledger, Record
      <3>7. \A u \in Txns \ {t} : items'[u] = items[u]
        BY <1>1, <3>5 DEF Released, Marked, StoreTypeOK, Ledger
      <3>8. \A u \in Txns : Holds(f, u) => u = t
        BY <3>1 DEF Holds
      <3>9. ASSUME NEW u \in Txns, Reserved(u)'
            PROVE  \E g \in Feedbacks : Holds(g, u)'
        <4>1. u # t
          BY <3>6, <3>9
        <4>2. Reserved(u)
          BY <3>7, <3>9, <4>1 DEF Reserved
        <4> QED BY <1>1, <2>3, <3>8, <4>1, <4>2
      <3> QED BY <3>9
    <2> QED BY <1>5, <2>4, <2>5, <2>6 DEF FeedbackProgress
  <1>6. CASE TakeSnapshot \/ Tick \/ UNCHANGED vars
    <2>1. UNCHANGED <<items, fpc, claim>>
      BY <1>6 DEF TakeSnapshot, Tick, vars, requestVars, storeVars
    <2> QED BY <1>1, <2>1 DEF Holds, Reserved
  <1>7. ~Restart
    BY <1>1 DEF Restart, TypeInv, TypeOK
  <1> QED BY <1>3, <1>4, <1>5, <1>6, <1>7 DEF Next

LEMMA HolderInvariant == Spec => []HolderInv
  <1>1. Init => HolderInv
    BY DEF Init, StoreInit, EmptyLedger, HolderInv, Reserved
  <1>2. ExclusiveInv /\ HolderInv /\ [Next]_vars => HolderInv'
    <2> SUFFICES ASSUME ExclusiveInv, HolderInv, [Next]_vars, Calm'
                 PROVE  \A t \in Txns : Reserved(t)' => \E f \in Feedbacks : Holds(f, t)'
      BY DEF HolderInv
    <2> QED BY NextHolder
  <1> QED BY <1>1, <1>2, InitExclusive, NextExclusive, PTL DEF Spec

(* As long as nothing failed, behind every reservation there is a request  *)
(* that will score the record or release it.                               *)
THEOREM ReservationsAreHeld == Spec => []ReservationHasHolder
  <1>1. HolderInv => ReservationHasHolder
    BY DEF HolderInv, ReservationHasHolder, Calm, Reserved
  <1> QED BY <1>1, HolderInvariant, PTL

(* Who is refused with 409 met a record that is reserved or scored, or a   *)
(* conflict at its own mark, after it made the policy learn.               *)
LEMMA RefusedForReason ==
  ASSUME ScoresInv, HolderInv, Calm, Next, NEW f \in Feedbacks,
         fpc[f] # "409", fpc'[f] = "409"
  PROVE  ConflictIsReal(claim'[f].txn)
  <1>1. /\ TypeInv /\ ScoresAreLearned
        /\ \A t \in Txns : Reserved(t) => \E g \in Feedbacks : Holds(g, t)
    BY DurableImpliesLearned
    DEF ScoresInv, CoherentInv, ExclusiveInv, HolderInv, ScoresAreLearned
  <1>2. Faultless("load")
    BY DEF Calm, NoFailures, Faultless
  <1>3. ASSUME NEW g \in Feedbacks, NEW t \in Txns, NEW s \in Scores,
               SubmitFeedback(g, t, s)
        PROVE  ConflictIsReal(claim'[f].txn)
    <2>1. f = g /\ claim'[f].txn = t
      BY <1>1, <1>3 DEF SubmitFeedback, FeedbackStep, TypeInv, TypeOK
    <2>2. ReserveAlreadyScored(t)
      BY <1>1, <1>3, <2>1 DEF SubmitFeedback, FeedbackStep, TypeInv, TypeOK
    <2>3. items[t] # Absent /\ (items[t].score # NoScore \/ items[t].reserved)
      BY <2>2 DEF ReserveAlreadyScored, Purged, Claimed
    <2>4. CASE items[t].score # NoScore
      <3>1. items[t].score \in Scores /\ policy.credit[t] = items[t].score
        BY <1>1, <1>2, <2>3, <2>4
        DEF ScoresAreLearned, TypeInv, TypeOK, StoreTypeOK, Ledger, Record
      <3> QED BY <2>1, <2>4, <3>1 DEF ConflictIsReal
    <2>5. CASE items[t].reserved
      BY <1>1, <2>1, <2>3, <2>5 DEF Reserved, ConflictIsReal
    <2> QED BY <2>3, <2>4, <2>5
  <1>4. ASSUME NEW g \in Feedbacks, FeedbackProgress(g)
        PROVE  ConflictIsReal(claim'[f].txn)
    <2>1. /\ f = g /\ claim' = claim /\ fpc[f] \in Holding
      BY <1>1, <1>4
      DEF FeedbackProgress, ApplyScore, ReleaseClaim, MarkScore, AuditFeedback,
          FeedbackStep, TypeInv, TypeOK, Holding
    <2> QED BY <2>1 DEF ConflictIsReal, Holds
  <1>5. ASSUME NEW t \in Txns, (\E a \in Arms : StartQuery(t, a)) \/ QueryProgress(t)
        PROVE  FALSE
    BY <1>5
    DEF StartQuery, QueryProgress, AgentAnswers, AgentRaises, PutRecord,
        RegisterDecision, AuditQuery, QueryStep
  <1>6. ~(TakeSnapshot \/ Tick)
    BY DEF TakeSnapshot, Tick, requestVars
  <1>7. ~Restart
    BY <1>1 DEF Restart, TypeInv, TypeOK
  <1> QED BY <1>3, <1>4, <1>5, <1>6, <1>7 DEF Next

(* As long as nothing failed and the process was not stopped, 409 is only  *)
(* told of what was learned or is in the hands of a running request.       *)
THEOREM ConflictsAreTrue == Spec => ConflictsAreReal
  <1>1. ScoresInv /\ HolderInv /\ [Next]_vars =>
          [NoFailures /\ crashes = 0 =>
             \A f \in Feedbacks : fpc[f] # "409" /\ fpc'[f] = "409" =>
               ConflictIsReal(claim'[f].txn)]_vars
    BY RefusedForReason DEF Calm
  <1> QED BY <1>1, HolderInvariant, ScoresInvariant, PTL DEF Spec, ConflictsAreReal

-----------------------------------------------------------------------------
(* The feedback windows *)

Recorded  == {"register", "audit", "answered"}
Scorable  == {"audit", "answered"}
Unclaimed == {"apply", "release"}
Gone      == {"release", "404", "410"}

InSync == txnFile = items /\ banditFile.policy = policy

RecordsLast ==
  \A t \in Txns : qpc[t] \in Recorded =>
    /\ items[t] # Absent => items[t].created = decision[t].created
    /\ InWindow(t) => items[t] # Absent

DecisionsLast ==
  \A t \in Txns : qpc[t] \in Scorable /\ InWindow(t) /\ policy.credit[t] = NoScore =>
    pending[t] = decision[t] /\ banditFile.pending[t] = decision[t]

(* Nobody claims what has been learned from, and a refusal is final.       *)
LearnedIsClaimed ==
  \A t \in Txns : policy.credit[t] # NoScore =>
    items[t] = Absent \/ Claimed(items[t])

ClaimIsNew ==
  \A f \in Feedbacks : fpc[f] \in Unclaimed => policy.credit[claim[f].txn] = NoScore

GoneIsLate ==
  \A f \in Feedbacks : fpc[f] \in Gone => ~InWindow(claim[f].txn)

WindowFacts ==
  InSync /\ RecordsLast /\ DecisionsLast /\ LearnedIsClaimed /\ ClaimIsNew /\ GoneIsLate

WindowInv == CoherentInv /\ (NoFailures => WindowFacts)

Quiet == NoFailures /\ \A kind : ~Fault(kind)

(* The ledger outlives the window: its TTL is no shorter.                  *)
LEMMA LedgerOutlivesWindow ==
  PendingTimeout \in Nat /\ Ttl \in Nat /\ PendingTimeout <= Ttl
  BY StoreAssumption DEF PendingTimeout, Ttl, AtLeast

LEMMA TimeGrows ==
  ASSUME TypeInv, [Next]_vars PROVE clock \in Int /\ clock' \in Int /\ clock <= clock'
  <1>1. clock \in Int
    BY ClockAssumption DEF TypeInv, TypeOK, PlatformTypeOK, Time
  <1>2. clock' = clock \/ ClockAdvances
    <2>1. ASSUME NEW t \in Txns, (\E a \in Arms : StartQuery(t, a)) \/ QueryProgress(t)
          PROVE  clock' = clock
      BY <2>1
      DEF StartQuery, QueryProgress, AgentAnswers, AgentRaises, PutRecord, Put, PutFails,
          RegisterDecision, AuditQuery, platformVars
    <2>2. ASSUME NEW f \in Feedbacks, FeedbackProgress(f) PROVE clock' = clock
      BY <2>2
      DEF FeedbackProgress, ApplyScore, ReleaseClaim, Release, ReleaseFails, MarkScore,
          Mark, MarkFails, AuditFeedback
    <2>3. ASSUME NEW f \in Feedbacks, NEW t \in Txns, NEW s \in Scores,
                 SubmitFeedback(f, t, s)
          PROVE  clock' = clock \/ ClockAdvances
      BY <2>3
      DEF SubmitFeedback, ReserveOk, ReserveMissing, ReserveAlreadyScored, ReserveExpired,
          ReserveFails, ExpiresMeanwhile
    <2>4. TakeSnapshot \/ Tick \/ Restart \/ UNCHANGED vars => clock' = clock \/ ClockAdvances
      BY DEF TakeSnapshot, Tick, Restart, vars, platformVars
    <2> QED BY <2>1, <2>2, <2>3, <2>4 DEF Next
  <1> QED BY <1>1, <1>2 DEF ClockAdvances

(* How far a step moves the queries whose record was put.                  *)
LEMMA QueriesMove ==
  ASSUME TypeInv, [Next]_vars, NEW t \in Txns
  PROVE  /\ qpc[t] \in Recorded => decision'[t] = decision[t]
         /\ qpc'[t] \in Recorded => qpc[t] \in Recorded \/ PutRecord(t)
         /\ qpc'[t] \in Scorable => qpc[t] \in Scorable \/ RegisterDecision(t)
  <1>1. ASSUME NEW u \in Txns, NEW a \in Arms, StartQuery(u, a)
        PROVE  /\ qpc[t] \in Recorded => decision'[t] = decision[t]
               /\ qpc'[t] \in Recorded => qpc[t] \in Recorded
               /\ qpc'[t] \in Scorable => qpc[t] \in Scorable
    BY <1>1 DEF StartQuery, QueryStep, Recorded, Scorable, TypeInv, TypeOK, Decisions
  <1>2. ASSUME NEW u \in Txns, AgentAnswers(u) \/ AgentRaises(u) \/ AuditQuery(u)
        PROVE  /\ qpc[t] \in Recorded => decision'[t] = decision[t]
               /\ qpc'[t] \in Recorded => qpc[t] \in Recorded
               /\ qpc'[t] \in Scorable => qpc[t] \in Scorable
    BY <1>2
    DEF AgentAnswers, AgentRaises, AuditQuery, QueryStep, Recorded, Scorable, TypeInv,
        TypeOK, Decisions
  <1>3. ASSUME NEW u \in Txns, PutRecord(u)
        PROVE  /\ decision' = decision
               /\ t # u => qpc'[t] = qpc[t]
               /\ qpc'[u] \notin Scorable
    BY <1>3 DEF PutRecord, QueryStep, Scorable, TypeInv, TypeOK
  <1>4. ASSUME NEW u \in Txns, RegisterDecision(u)
        PROVE  /\ decision' = decision /\ qpc[u] \in Recorded
               /\ t # u => qpc'[t] = qpc[t]
    BY <1>4 DEF RegisterDecision, QueryStep, Recorded, TypeInv, TypeOK
  <1>5. ASSUME NEW f \in Feedbacks,
               \/ FeedbackProgress(f)
               \/ \E u \in Txns, s \in Scores : SubmitFeedback(f, u, s)
        PROVE  UNCHANGED <<qpc, decision>>
    BY <1>5
    DEF FeedbackProgress, ApplyScore, ReleaseClaim, MarkScore, AuditFeedback,
        SubmitFeedback, FeedbackStep
  <1>6. TakeSnapshot \/ Tick \/ UNCHANGED vars => UNCHANGED <<qpc, decision>>
    BY DEF TakeSnapshot, Tick, vars, requestVars
  <1>7. Restart => /\ decision' = decision
                   /\ qpc'[t] \in Recorded \/ qpc'[t] \in Scorable => qpc'[t] = qpc[t]
    BY DEF Restart, Recorded, Scorable, QueryInFlight
  <1> QED
    BY <1>1, <1>2, <1>3, <1>4, <1>5, <1>6, <1>7
    DEF Next, QueryProgress

(* A window, once over, stays over.                                        *)
LEMMA WindowsClose ==
  ASSUME TypeInv, [Next]_vars, NEW t \in Txns, qpc[t] \in Recorded, InWindow(t)'
  PROVE  InWindow(t)
  <1>1. decision'[t] = decision[t] /\ decision[t] \in Decision
    BY QueriesMove DEF TypeInv, LocalsBound, Recorded
  <1>2. decision[t].created \in Int
    BY <1>1, ClockAssumption DEF Decision, Time
  <1> QED BY <1>1, <1>2, TimeGrows, LedgerOutlivesWindow DEF InWindow

(* While nothing fails, the files follow the memories.                     *)
LEMMA InSyncStays == ASSUME TypeInv, Quiet, InSync, [Next]_vars PROVE InSync'
  <1>1. FileAfterPurge = Purged(items)
    BY DEF FileAfterPurge, InSync
  <1>2. ~PurgeFails /\ \A ledger, file : ~SaveFails(ledger, file)
    BY DEF Quiet, PurgeFails, SaveFails
  <1>3. ASSUME NEW t \in Txns, (\E a \in Arms : StartQuery(t, a)) \/ QueryProgress(t)
        PROVE  InSync'
    BY <1>2, <1>3
    DEF Quiet, InSync, StartQuery, SelectAction, QueryProgress, AgentAnswers, AgentRaises,
        PutRecord, Put, PutFails, Saved, RegisterDecision, RegisterPending,
        RegisterPendingFails, SaveBandit, SaveBanditFails, AuditQuery, storeVars,
        banditVars
  <1>4. ASSUME NEW f \in Feedbacks, ApplyScore(f) \/ AuditFeedback(f) PROVE InSync'
    BY <1>4
    DEF Quiet, InSync, ApplyScore, ApplyFeedback, ApplyFeedbackFails,
        ApplyFeedbackUnknown, SaveBandit, SaveBanditFails, AuditFeedback, storeVars,
        banditVars
  <1>5. ASSUME NEW f \in Feedbacks, ReleaseClaim(f) \/ MarkScore(f) PROVE InSync'
    BY <1>2, <1>5
    DEF InSync, ReleaseClaim, Release, ReleaseFails, MarkScore, Mark, MarkFails,
        storeVars, banditVars
  <1>6. ASSUME NEW f \in Feedbacks, NEW t \in Txns, NEW s \in Scores,
               SubmitFeedback(f, t, s)
        PROVE  InSync'
    BY <1>1, <1>2, <1>6
    DEF InSync, SubmitFeedback, ReserveOk, ReserveMissing, ReserveAlreadyScored,
        ReserveExpired, ReserveFails, PurgeOnly, Saved, banditVars
  <1>7. TakeSnapshot \/ Tick \/ UNCHANGED vars => InSync'
    BY DEF Quiet, InSync, TakeSnapshot, Snapshot, SnapshotFails, SaveBandit,
           SaveBanditFails, Tick, vars, storeVars, banditVars
  <1>8. Restart => InSync'
    BY DEF Quiet, InSync, Restart, LoadBandit, LoadStore
  <1> QED BY <1>3, <1>4, <1>5, <1>6, <1>7, <1>8 DEF Next, FeedbackProgress

(* A record, once put, keeps its date until its time to live is over.      *)
Aged(t) ==
  \/ items'[t] = items[t]
  \/ items[t] # Absent /\ items'[t] # Absent /\ items'[t].created = items[t].created
  \/ items'[t] = Absent /\ clock' - items[t].created > Ttl

LEMMA RecordsAge ==
  ASSUME TypeInv, Quiet, InSync, [Next]_vars, NEW t \in Txns, ~PutRecord(t)
  PROVE  Aged(t)
  <1>1. \/ Purged(items)[t] = items[t]
        \/ Purged(items)[t] = Absent /\ clock - items[t].created > Ttl
    BY DEF Purged, Outlived
  <1>2. ~PurgeFails /\ \A ledger, file : ~SaveFails(ledger, file)
    BY DEF Quiet, PurgeFails, SaveFails
  <1>3. Purged(items) \in Ledger /\ items \in Ledger /\ items' \in Ledger
    BY PurgedType, NextTypeInv DEF TypeInv, TypeOK, StoreTypeOK
  <1>4. ASSUME items' = Purged(items), clock' = clock PROVE Aged(t)
    BY <1>1, <1>4 DEF Aged
  <1>5. ASSUME NEW u \in Txns, (\E a \in Arms : StartQuery(u, a)) \/ QueryProgress(u)
        PROVE  Aged(t)
    <2>1. CASE PutRecord(u)
      <3>1. clock' = clock /\ u # t
            /\ \E now : items' = [Purged(items) EXCEPT ![u] = NewRecord(now)]
        BY <1>2, <2>1 DEF PutRecord, Put, PutFails, Saved
      <3>2. items'[t] = Purged(items)[t]
        BY <1>3, <3>1 DEF Ledger
      <3> QED BY <1>1, <3>1, <3>2 DEF Aged
    <2>2. CASE ~PutRecord(u)
      BY <1>5, <2>2
      DEF StartQuery, QueryProgress, AgentAnswers, AgentRaises, RegisterDecision,
          AuditQuery, storeVars, Aged
    <2> QED BY <2>1, <2>2
  <1>6. ASSUME NEW f \in Feedbacks, FeedbackProgress(f) PROVE Aged(t)
    <2>1. CASE ApplyScore(f) \/ AuditFeedback(f)
      BY <2>1 DEF ApplyScore, AuditFeedback, storeVars, Aged
    <2>2. CASE ReleaseClaim(f) \/ MarkScore(f)
      <3>1. /\ fpc[f] # "idle"
            /\ \/ UNCHANGED items
               \/ items[claim[f].txn] # Absent /\ items' = Released(claim[f].txn)
               \/ items[claim[f].txn] # Absent
                  /\ items' = Marked(claim[f].txn, claim[f].score)
        BY <1>2, <2>2
        DEF ReleaseClaim, ReleaseFails, Release, Releasable, MarkScore, MarkFails, Mark,
            MarkOutcome, FeedbackStep, Released, Marked, storeVars
      <3>2. PICK u \in Txns, s \in Scores : claim[f].txn = u /\ claim[f].score = s
        BY <3>1 DEF TypeInv, LocalsBound, Claims
      <3>3. CASE t # u
        BY <1>3, <3>1, <3>2, <3>3 DEF Released, Marked, Ledger, Aged
      <3>4. CASE t = u /\ items[t] # Absent
        <4>1. /\ Released(t)[t] = [items[t] EXCEPT !.reserved = FALSE]
              /\ Marked(t, s)[t] = [items[t] EXCEPT !.score = s, !.reserved = FALSE]
          BY <1>3 DEF Released, Marked, Ledger
        <4>2. items[t] \in Record
          BY <1>3, <3>4 DEF Ledger
        <4>3. /\ Released(t)[t] \in Record /\ Released(t)[t].created = items[t].created
              /\ Marked(t, s)[t] \in Record /\ Marked(t, s)[t].created = items[t].created
          BY <4>1, <4>2 DEF Record
        <4>4. items' \in {items, Released(t), Marked(t, s)}
          BY <3>1, <3>2, <3>4
        <4> QED BY <3>4, <4>3, <4>4, RecordAssumption DEF Aged
      <3> QED BY <3>1, <3>2, <3>3, <3>4 DEF Aged
    <2> QED BY <1>6, <2>1, <2>2 DEF FeedbackProgress
  <1>7. ASSUME NEW f \in Feedbacks, NEW u \in Txns, NEW s \in Scores,
               SubmitFeedback(f, u, s)
        PROVE  Aged(t)
    <2>1. CASE ReserveMissing(u) \/ ReserveAlreadyScored(u)
      BY <1>4, <2>1 DEF ReserveMissing, ReserveAlreadyScored, PurgeOnly
    <2>2. CASE ReserveExpired(u)
      <3>1. /\ clock' - items[u].created > Ttl /\ clock' = clock + 1
            /\ items' = [Purged(items) EXCEPT ![u] = Absent]
        BY <2>2 DEF ReserveExpired, ExpiresMeanwhile, ClockAdvances, Saved
      <3>2. CASE t = u
        BY <1>3, <3>1, <3>2 DEF Aged, Ledger
      <3>3. CASE t # u
        <4>1. items'[t] = Purged(items)[t]
          BY <1>3, <3>1, <3>3 DEF Ledger
        <4>2. CASE Purged(items)[t] = items[t]
          BY <4>1, <4>2 DEF Aged
        <4>3. CASE Purged(items)[t] = Absent /\ items[t] # Absent
          <5>1. items[t].created \in Int /\ clock \in Int
            BY <1>3, <4>3, ClockAssumption
            DEF Ledger, Record, Time, TypeInv, TypeOK, PlatformTypeOK
          <5>2. clock - items[t].created > Ttl
            BY <1>1, <4>3
          <5> QED BY <3>1, <4>1, <4>3, <5>1, <5>2, LedgerOutlivesWindow DEF Aged
        <4> QED BY <1>1, <4>2, <4>3
      <3> QED BY <3>2, <3>3
    <2>3. CASE ReserveOk(u)
      <3>1. clock' = clock /\ items' = WithReservation(u) /\ Purged(items)[u] # Absent
        BY <2>3 DEF ReserveOk, Claimable, Saved
      <3>2. CASE t # u
        BY <1>1, <1>3, <3>1, <3>2 DEF WithReservation, Ledger, Aged
      <3>3. CASE t = u
        <4>1. Purged(items)[t] = items[t] /\ items[t] \in Record
          BY <1>1, <1>3, <3>1, <3>3 DEF Ledger
        <4>2. items'[t] = [items[t] EXCEPT !.reserved = TRUE]
          BY <1>3, <3>1, <3>3, <4>1 DEF WithReservation, Ledger
        <4>3. items'[t] \in Record /\ items'[t].created = items[t].created
          BY <4>1, <4>2 DEF Record
        <4> QED BY <4>1, <4>3, RecordAssumption DEF Aged
      <3> QED BY <3>2, <3>3
    <2>4. ~ReserveFails(u)
      BY <1>2 DEF ReserveFails
    <2> QED BY <1>7, <2>1, <2>2, <2>3, <2>4 DEF SubmitFeedback
  <1>8. TakeSnapshot \/ Tick \/ UNCHANGED vars => Aged(t)
    BY DEF TakeSnapshot, Tick, vars, storeVars, Aged
  <1>9. Restart => Aged(t)
    BY <1>4 DEF Quiet, Restart, LoadStore, InSync
  <1> QED BY <1>5, <1>6, <1>7, <1>8, <1>9 DEF Next

LEMMA RecordsLastStays ==
  ASSUME TypeInv, Quiet, InSync, RecordsLast, [Next]_vars PROVE RecordsLast'
  <1> SUFFICES ASSUME NEW t \in Txns, qpc'[t] \in Recorded
               PROVE  /\ items'[t] # Absent => items'[t].created = decision'[t].created
                      /\ InWindow(t)' => items'[t] # Absent
    BY DEF RecordsLast
  <1>1. CASE PutRecord(t)
    <2>1. items' = [Purged(items) EXCEPT ![t] = NewRecord(decision[t].created)]
          /\ decision' = decision
      BY <1>1 DEF PutRecord, Put, PutFails, PurgeFails, SaveFails, Saved, Quiet
    <2>2. items'[t] = NewRecord(decision[t].created)
      BY <2>1, PurgedType DEF TypeInv, TypeOK, StoreTypeOK, Ledger
    <2>3. decision[t] \in Decision
      BY <1>1 DEF PutRecord, QueryStep, TypeInv, LocalsBound
    <2>4. items'[t] \in Record /\ items'[t].created = decision[t].created
      BY <2>2, <2>3 DEF NewRecord, Record, Decision
    <2> QED BY <2>1, <2>4, RecordAssumption
  <1>2. CASE ~PutRecord(t)
    <2>1. qpc[t] \in Recorded /\ decision'[t] = decision[t]
      BY <1>2, QueriesMove
    <2>2. Aged(t)
      BY <1>2, RecordsAge
    <2>3. InWindow(t)' => InWindow(t)
      BY <2>1, WindowsClose
    <2>4. CASE items'[t] # Absent
      BY <2>1, <2>2, <2>4 DEF Aged, RecordsLast
    <2>5. CASE items'[t] = Absent /\ items[t] # Absent
      <3>1. clock' - items[t].created > Ttl
        BY <2>2, <2>5 DEF Aged
      <3>2. items[t].created = decision'[t].created
        BY <2>1, <2>5 DEF RecordsLast
      <3>3. clock' \in Int /\ decision'[t].created \in Int
        BY <2>1, TimeGrows, ClockAssumption
        DEF TypeInv, LocalsBound, Recorded, Decision, Time
      <3> QED BY <2>5, <3>1, <3>2, <3>3, LedgerOutlivesWindow DEF InWindow
    <2> QED BY <2>1, <2>3, <2>4, <2>5 DEF RecordsLast
  <1> QED BY <1>1, <1>2

(* What a step leaves of a decision that nobody registers, as long as its  *)
(* transaction is not learned from.                                        *)
LEMMA DecisionsMove ==
  ASSUME TypeInv, Quiet, InSync, [Next]_vars, NEW t \in Txns, ~RegisterDecision(t),
         policy'.credit[t] = NoScore
  PROVE  /\ policy.credit[t] = NoScore
         /\ pending'[t] \in {pending[t], Unexpired(pending)[t],
                             Unexpired(banditFile.pending)[t]}
         /\ banditFile'.pending[t] \in {banditFile.pending[t], pending'[t]}
  <1>1. ASSUME NEW u \in Txns, NEW a \in Arms, StartQuery(u, a)
        PROVE  /\ pending' = Unexpired(pending)
               /\ UNCHANGED <<policy, banditFile>>
    BY <1>1 DEF StartQuery, SelectAction
  <1>2. TakeSnapshot => /\ pending' = Unexpired(pending) /\ policy' = policy
                        /\ banditFile' = [pending |-> pending', policy |-> policy']
    BY DEF TakeSnapshot, Snapshot, SnapshotFails, SaveBandit, SaveBanditFails, Quiet
  <1>3. ASSUME NEW u \in Txns, RegisterDecision(u)
        PROVE  /\ policy' = policy /\ pending'[t] = Unexpired(pending)[t]
               /\ banditFile' = [pending |-> pending', policy |-> policy']
    <2>1. Unexpired(pending) \in Decisions /\ u # t
      BY <1>3, UnexpiredType DEF TypeInv, TypeOK, BanditTypeOK
    <2> QED
      BY <1>3, <2>1
      DEF RegisterDecision, RegisterPending, RegisterPendingFails, WithDecision,
          SaveBandit, SaveBanditFails, Decisions, Quiet
  <1>4. ASSUME NEW u \in Txns,
               AgentAnswers(u) \/ AgentRaises(u) \/ PutRecord(u) \/ AuditQuery(u)
        PROVE  UNCHANGED banditVars
    BY <1>4 DEF AgentAnswers, AgentRaises, PutRecord, AuditQuery
  <1>5. ASSUME NEW f \in Feedbacks,
               \/ ReleaseClaim(f) \/ MarkScore(f) \/ AuditFeedback(f)
               \/ \E u \in Txns, s \in Scores : SubmitFeedback(f, u, s)
        PROVE  UNCHANGED banditVars
    BY <1>5 DEF ReleaseClaim, MarkScore, AuditFeedback, SubmitFeedback
  <1>6. Tick \/ UNCHANGED vars => UNCHANGED banditVars
    BY DEF Tick, vars
  <1>7. Restart => /\ pending' = Unexpired(banditFile.pending)
                   /\ policy' = policy /\ banditFile' = banditFile
    BY DEF Restart, LoadBandit, Quiet, InSync
  <1>8. ASSUME NEW f \in Feedbacks, ApplyScore(f)
        PROVE  /\ policy.credit[t] = NoScore
               /\ pending'[t] = Unexpired(pending)[t]
               /\ banditFile'.pending[t] \in {banditFile.pending[t], pending'[t]}
    <2>1. PICK u \in Txns, s \in Scores : claim[f].txn = u /\ claim[f].score = s
      BY <1>8 DEF ApplyScore, FeedbackStep, TypeInv, LocalsBound, Claims
    <2>2. Unexpired(pending) \in Decisions /\ policy \in Policy
      BY UnexpiredType DEF TypeInv, TypeOK, BanditTypeOK
    <2>3. CASE pending' = Unexpired(pending) /\ UNCHANGED <<policy, banditFile>>
      BY <2>3
    <2>4. CASE /\ pending' = WithoutDecision(u)
               /\ policy' = Learned(u, pending[u].arm, s)
               /\ banditFile' = [pending |-> pending', policy |-> policy']
      <3>1. /\ policy'.credit[u] = s
            /\ u # t => policy'.credit[t] = policy.credit[t]
            /\ u # t => pending'[t] = Unexpired(pending)[t]
        BY <2>2, <2>4 DEF Learned, Policy, WithoutDecision, Decisions
      <3>2. u # t
        BY <3>1, StoreAssumption
      <3> QED BY <2>4, <3>1, <3>2
    <2> QED
      BY <1>8, <2>1, <2>3, <2>4
      DEF ApplyScore, ApplyFeedback, ApplyFeedbackFails, ApplyFeedbackUnknown, Absorb,
          SaveBandit, SaveBanditFails, WithoutDecision, Learned, Quiet
  <1>9. UNCHANGED banditVars => UNCHANGED <<pending, policy, banditFile>>
    BY DEF banditVars
  <1> QED
    BY <1>1, <1>2, <1>3, <1>4, <1>5, <1>6, <1>7, <1>8, <1>9
    DEF Next, QueryProgress, FeedbackProgress

(* A decision does not expire before its window is over.                   *)
LEMMA DecisionsKept ==
  ASSUME TypeInv, NEW t \in Txns, qpc[t] # "idle", InWindow(t),
         NEW decisions, decisions[t] = decision[t]
  PROVE  Unexpired(decisions)[t] = decision[t]
  <1>1. decision[t].created \in Int /\ clock \in Int
    BY ClockAssumption
    DEF TypeInv, TypeOK, LocalsBound, PlatformTypeOK, Decision, Time
  <1>2. ~Outlived(decision[t].created, PendingTimeout)
    BY <1>1, LedgerOutlivesWindow DEF Outlived, InWindow
  <1> QED BY <1>2 DEF Unexpired

LEMMA DecisionsLastStays ==
  ASSUME TypeInv, Quiet, InSync, DecisionsLast, [Next]_vars PROVE DecisionsLast'
  <1> SUFFICES ASSUME NEW t \in Txns, qpc'[t] \in Scorable, InWindow(t)',
                      policy'.credit[t] = NoScore
               PROVE  pending'[t] = decision'[t] /\ banditFile'.pending[t] = decision'[t]
    BY DEF DecisionsLast
  <1>1. CASE RegisterDecision(t)
    <2>1. decision[t] \in Decision /\ Unexpired(pending) \in Decisions
      BY <1>1, UnexpiredType
      DEF RegisterDecision, QueryStep, TypeInv, TypeOK, LocalsBound, BanditTypeOK
    <2>2. WithDecision(t, decision[t].arm, decision[t].created)[t] = decision[t]
      BY <2>1 DEF WithDecision, Decision, Decisions
    <2>3. /\ pending' = WithDecision(t, decision[t].arm, decision[t].created)
          /\ banditFile' = [pending |-> pending', policy |-> policy']
          /\ decision' = decision
      BY <1>1
      DEF RegisterDecision, RegisterPending, RegisterPendingFails, SaveBandit,
          SaveBanditFails, WithDecision, Quiet
    <2> QED BY <2>2, <2>3
  <1>2. CASE ~RegisterDecision(t)
    <2>1. qpc[t] \in Scorable /\ decision'[t] = decision[t] /\ InWindow(t)
      BY <1>2, QueriesMove, WindowsClose DEF Scorable, Recorded
    <2>2. /\ policy.credit[t] = NoScore
          /\ pending'[t] \in {pending[t], Unexpired(pending)[t],
                              Unexpired(banditFile.pending)[t]}
          /\ banditFile'.pending[t] \in {banditFile.pending[t], pending'[t]}
      BY <1>2, DecisionsMove
    <2>3. pending[t] = decision[t] /\ banditFile.pending[t] = decision[t]
      BY <2>1, <2>2 DEF DecisionsLast
    <2>4. /\ Unexpired(pending)[t] = decision[t]
          /\ Unexpired(banditFile.pending)[t] = decision[t]
      BY <2>1, <2>3, DecisionsKept DEF Scorable
    <2> QED BY <2>1, <2>2, <2>3, <2>4
  <1> QED BY <1>1, <1>2

(* A feedback is about an answered query.                                  *)
LEMMA ClaimedQuery ==
  ASSUME CoherentInv, NEW f \in Feedbacks, fpc[f] # "idle"
  PROVE  /\ claim[f].txn \in Txns /\ claim[f].score \in Scores
         /\ qpc[claim[f].txn] = "answered" /\ qpc[claim[f].txn] \in Recorded
  BY DEF CoherentInv, ExclusiveInv, ClaimsAnswered, TypeInv, LocalsBound, Claims, Recorded

LEMMA LateStaysLate ==
  ASSUME CoherentInv, GoneIsLate, [Next]_vars, NEW f \in Feedbacks, fpc[f] \in Gone,
         claim'[f] = claim[f]
  PROVE  ~InWindow(claim[f].txn)'
  <1>1. PICK t \in Txns : claim[f].txn = t
    BY ClaimedQuery DEF Gone
  <1>2. qpc[t] \in Recorded /\ ~InWindow(t)
    BY <1>1, ClaimedQuery DEF Gone, GoneIsLate
  <1>3. ~InWindow(t)'
    BY <1>2, WindowsClose DEF CoherentInv, ExclusiveInv
  <1> QED BY <1>1, <1>3 DEF InWindow

(* A step at which no feedback moves on and nothing is learned.            *)
LEMMA RestingKeepsClaims ==
  ASSUME CoherentInv, LearnedIsClaimed, ClaimIsNew, GoneIsLate, [Next]_vars,
         policy' = policy,
         \A f \in Feedbacks : fpc'[f] \in Unclaimed \cup Gone =>
           fpc'[f] = fpc[f] /\ claim'[f] = claim[f],
         \A t \in Txns : qpc[t] = "answered" => items'[t] \in {items[t], Absent}
  PROVE  LearnedIsClaimed' /\ ClaimIsNew' /\ GoneIsLate'
  <1>1. \A t \in Txns : policy.credit[t] # NoScore => qpc[t] = "answered"
    BY DEF CoherentInv, Coherent
  <1>2. LearnedIsClaimed'
    BY <1>1 DEF LearnedIsClaimed, Claimed
  <1>3. ClaimIsNew'
    BY DEF ClaimIsNew
  <1>4. GoneIsLate'
    BY LateStaysLate DEF GoneIsLate
  <1> QED BY <1>2, <1>3, <1>4

LEMMA SubmitKeepsClaims ==
  ASSUME CoherentInv, Quiet, WindowFacts, [Next]_vars,
         NEW f \in Feedbacks, NEW t \in Txns, NEW s \in Scores, SubmitFeedback(f, t, s)
  PROVE  LearnedIsClaimed' /\ ClaimIsNew' /\ GoneIsLate'
  <1>1. /\ qpc[t] = "answered" /\ decision' = decision /\ policy' = policy
        /\ claim'[f].txn = t
        /\ \A g \in Feedbacks \ {f} : fpc'[g] = fpc[g] /\ claim'[g] = claim[g]
    BY DEF SubmitFeedback, FeedbackStep, banditVars, CoherentInv, ExclusiveInv, TypeInv,
           TypeOK
  <1>2. ~ReserveFails(t)
    BY DEF Quiet, ReserveFails, PurgeFails, SaveFails
  <1>3. \/ fpc'[f] = "apply" /\ ReserveOk(t)
        \/ fpc'[f] = "404" /\ ReserveMissing(t)
        \/ fpc'[f] = "409" /\ ReserveAlreadyScored(t)
        \/ fpc'[f] = "410" /\ ReserveExpired(t)
    BY <1>2 DEF SubmitFeedback, FeedbackStep, CoherentInv, ExclusiveInv, TypeInv, TypeOK
  <1>4. Claimable(t) => policy.credit[t] = NoScore
    BY DEF Claimable, Purged, WindowFacts, LearnedIsClaimed
  <1>5. /\ \A u \in Txns \ {t} : items'[u] \in {items[u], Absent}
        /\ items'[t] \in {items[t], Absent} \/ Claimable(t)
    BY <1>3, ReserveEffect DEF CoherentInv, ExclusiveInv, TypeInv, TypeOK
  <1>6. LearnedIsClaimed'
    BY <1>1, <1>4, <1>5 DEF WindowFacts, LearnedIsClaimed, Claimed
  <1>7. ClaimIsNew'
    <2>1. fpc'[f] \in Unclaimed => policy.credit[t] = NoScore
      BY <1>3, <1>4 DEF ReserveOk, Unclaimed
    <2> QED BY <1>1, <2>1 DEF WindowFacts, ClaimIsNew
  <1>8. ASSUME fpc'[f] \in Gone PROVE ~InWindow(t)'
    <2>1. SUFFICES ASSUME InWindow(t)' PROVE FALSE
      OBVIOUS
    <2>2. InWindow(t)
      BY <1>1, <2>1, WindowsClose DEF CoherentInv, ExclusiveInv, Recorded
    <2>3. items[t] # Absent /\ items[t].created = decision[t].created
      BY <1>1, <2>2 DEF WindowFacts, RecordsLast, Recorded
    <2>4. decision[t].created \in Int /\ clock \in Int /\ clock' \in Int
      BY <1>1, TimeGrows, ClockAssumption
      DEF CoherentInv, ExclusiveInv, TypeInv, LocalsBound, Decision, Time
    <2>5. CASE ReserveMissing(t)
      <3>1. clock - items[t].created > Ttl
        BY <2>3, <2>5 DEF ReserveMissing, Purged, Outlived
      <3> QED BY <2>2, <2>3, <2>4, <3>1, LedgerOutlivesWindow DEF InWindow
    <2>6. CASE ReserveExpired(t)
      <3>1. clock' - items[t].created > Ttl
        BY <2>6 DEF ReserveExpired, ExpiresMeanwhile
      <3> QED BY <1>1, <2>1, <2>3, <2>4, <3>1, LedgerOutlivesWindow DEF InWindow
    <2> QED BY <1>3, <1>8, <2>5, <2>6 DEF Gone
  <1>9. ASSUME NEW g \in Feedbacks \ {f}, fpc'[g] \in Gone
        PROVE  ~InWindow(claim[g].txn)' /\ claim'[g].txn = claim[g].txn
    BY <1>1, <1>9, LateStaysLate DEF WindowFacts
  <1>10. GoneIsLate'
    BY <1>1, <1>8, <1>9 DEF GoneIsLate, InWindow
  <1> QED BY <1>6, <1>7, <1>10

LEMMA ApplyKeepsClaims ==
  ASSUME CoherentInv, Quiet, WindowFacts, [Next]_vars, NEW f \in Feedbacks, ApplyScore(f)
  PROVE  LearnedIsClaimed' /\ ClaimIsNew' /\ GoneIsLate'
  <1>1. /\ fpc[f] = "apply" /\ UNCHANGED <<qpc, decision, claim, items>>
        /\ \A g \in Feedbacks \ {f} : fpc'[g] = fpc[g]
    BY DEF ApplyScore, FeedbackStep, storeVars, CoherentInv, ExclusiveInv, TypeInv, TypeOK
  <1>2. PICK t \in Txns, s \in Scores : claim[f].txn = t /\ claim[f].score = s
    BY <1>1, ClaimedQuery
  <1>3. qpc[t] = "answered" /\ Holds(f, t)
    BY <1>1, <1>2, ClaimedQuery DEF Holds, Holding
  <1>4. policy.credit[t] = NoScore
    BY <1>1, <1>2 DEF WindowFacts, ClaimIsNew, Unclaimed
  <1>5. ASSUME NEW g \in Feedbacks \ {f}, fpc'[g] \in Gone
        PROVE  ~InWindow(claim[g].txn)'
    BY <1>1, <1>5, LateStaysLate DEF WindowFacts
  <1>6. CASE /\ Unexpired(pending)[t] = Absent /\ fpc'[f] = "release"
             /\ policy' = policy
    <2>1. ~InWindow(t)'
      <3>1. SUFFICES ASSUME InWindow(t)' PROVE FALSE
        OBVIOUS
      <3>2. InWindow(t)
        BY <1>3, <3>1, WindowsClose DEF CoherentInv, ExclusiveInv, Recorded
      <3>3. pending[t] = decision[t]
        BY <1>3, <1>4, <3>2 DEF WindowFacts, DecisionsLast, Scorable
      <3>4. Unexpired(pending)[t] = decision[t]
        BY <1>3, <3>2, <3>3, DecisionsKept DEF CoherentInv, ExclusiveInv
      <3>5. decision[t] \in Decision
        BY <1>3 DEF CoherentInv, ExclusiveInv, TypeInv, LocalsBound
      <3> QED BY <1>6, <3>4, <3>5, DecisionAssumption
    <2>2. GoneIsLate'
      BY <1>1, <1>2, <1>5, <2>1 DEF GoneIsLate, InWindow
    <2>3. LearnedIsClaimed'
      BY <1>1, <1>6 DEF WindowFacts, LearnedIsClaimed, Claimed
    <2>4. ClaimIsNew'
      BY <1>1, <1>2, <1>4, <1>6 DEF WindowFacts, ClaimIsNew
    <2> QED BY <2>2, <2>3, <2>4
  <1>7. CASE fpc'[f] = "mark" /\ policy' = Learned(t, pending[t].arm, s)
    <2>1. policy \in Policy
      BY DEF CoherentInv, ExclusiveInv, TypeInv, TypeOK, BanditTypeOK
    <2>2. \A u \in Txns \ {t} : policy'.credit[u] = policy.credit[u]
      BY <1>7, <2>1 DEF Learned, Policy
    <2>3. items[t] # Absent => items[t].reserved
      BY <1>3 DEF CoherentInv, ExclusiveInv, ExclusiveFeedback
    <2>4. LearnedIsClaimed'
      BY <1>1, <2>2, <2>3 DEF WindowFacts, LearnedIsClaimed, Claimed
    <2>5. ASSUME NEW g \in Feedbacks, fpc'[g] \in Unclaimed
          PROVE  policy'.credit[claim'[g].txn] = NoScore
      <3>1. g # f /\ fpc[g] \in Unclaimed /\ claim'[g] = claim[g]
        BY <1>1, <1>7, <2>5 DEF Unclaimed
      <3>2. PICK u \in Txns : claim[g].txn = u
        BY <3>1, ClaimedQuery DEF Unclaimed
      <3>3. u # t
        BY <1>3, <3>1, <3>2
        DEF CoherentInv, ExclusiveInv, ExclusiveFeedback, Holds, Holding, Unclaimed
      <3> QED BY <2>2, <3>1, <3>2, <3>3 DEF WindowFacts, ClaimIsNew
    <2>6. ClaimIsNew'
      BY <2>5 DEF ClaimIsNew
    <2>7. GoneIsLate'
      BY <1>1, <1>5, <1>7 DEF GoneIsLate, InWindow, Gone
    <2> QED BY <2>4, <2>6, <2>7
  <1> QED
    BY <1>2, <1>6, <1>7
    DEF ApplyScore, ApplyFeedback, ApplyFeedbackFails, ApplyFeedbackUnknown, Absorb,
        SaveBanditFails, FeedbackStep, Learned, Quiet, CoherentInv, ExclusiveInv, TypeInv,
        TypeOK

LEMMA EndKeepsClaims ==
  ASSUME CoherentInv, Quiet, WindowFacts, [Next]_vars,
         NEW f \in Feedbacks, ReleaseClaim(f) \/ MarkScore(f)
  PROVE  LearnedIsClaimed' /\ ClaimIsNew' /\ GoneIsLate'
  <1>1. /\ fpc[f] \in {"release", "mark"} /\ UNCHANGED <<qpc, decision, claim, policy>>
        /\ \A g \in Feedbacks \ {f} : fpc'[g] = fpc[g]
    BY DEF ReleaseClaim, MarkScore, FeedbackStep, banditVars, CoherentInv, ExclusiveInv,
           TypeInv, TypeOK
  <1>2. PICK t \in Txns, s \in Scores : claim[f].txn = t /\ claim[f].score = s
    BY <1>1, ClaimedQuery
  <1>3. ~ReleaseFails(t) /\ ~MarkFails(t, s)
    BY DEF Quiet, ReleaseFails, MarkFails, SaveFails
  <1>4. items \in Ledger /\ qpc[t] \in Recorded
    BY <1>1, <1>2, ClaimedQuery
    DEF CoherentInv, ExclusiveInv, TypeInv, TypeOK, StoreTypeOK
  <1>5. ASSUME NEW g \in Feedbacks \ {f}, fpc'[g] \in Gone
        PROVE  ~InWindow(claim[g].txn)'
    BY <1>1, <1>5, LateStaysLate DEF WindowFacts
  <1>6. CASE ReleaseClaim(f)
    <2>1. /\ fpc[f] = "release" /\ fpc'[f] = "410"
          /\ \A u \in Txns \ {t} : items'[u] = items[u]
      BY <1>2, <1>4, <1>6
      DEF ReleaseClaim, Release, ReleaseFails, Released, SaveFails, Quiet, FeedbackStep,
          Ledger, storeVars, CoherentInv, ExclusiveInv, TypeInv, TypeOK
    <2>2. policy.credit[t] = NoScore
      BY <1>2, <2>1 DEF WindowFacts, ClaimIsNew, Unclaimed
    <2>3. LearnedIsClaimed'
      BY <1>1, <2>1, <2>2 DEF WindowFacts, LearnedIsClaimed, Claimed
    <2>4. ~InWindow(claim[f].txn)'
      BY <1>1, <2>1, LateStaysLate DEF WindowFacts, Gone
    <2>5. GoneIsLate'
      BY <1>1, <1>5, <2>4 DEF GoneIsLate, InWindow
    <2>6. ClaimIsNew'
      BY <1>1, <2>1 DEF WindowFacts, ClaimIsNew, Unclaimed
    <2> QED BY <2>3, <2>5, <2>6
  <1>7. CASE MarkScore(f)
    <2>1. /\ fpc'[f] = MarkReply[MarkOutcome(t)]
          /\ IF MarkOutcome(t) = "ok" THEN items' = Marked(t, s) ELSE UNCHANGED items
      BY <1>2, <1>7
      DEF MarkScore, Mark, MarkFails, SaveFails, Quiet, FeedbackStep, MarkOutcome, Marked,
          storeVars, CoherentInv, ExclusiveInv, TypeInv, TypeOK
    <2>2. /\ Marked(t, s)[t].score = s \/ items[t] = Absent
          /\ \A u \in Txns \ {t} : Marked(t, s)[u] = items[u]
      BY <1>4 DEF Marked, Ledger, Record
    <2>3. LearnedIsClaimed'
      BY <1>1, <2>1, <2>2, StoreAssumption
      DEF WindowFacts, LearnedIsClaimed, Claimed, MarkOutcome
    <2>4. ClaimIsNew'
      BY <1>1, <2>1 DEF WindowFacts, ClaimIsNew, Unclaimed, MarkReply, MarkOutcome
    <2>5. ASSUME fpc'[f] \in Gone PROVE ~InWindow(t)'
      <3>1. items[t] = Absent
        BY <2>1, <2>5 DEF MarkReply, MarkOutcome, Gone
      <3>2. ~InWindow(t)
        BY <1>4, <3>1 DEF WindowFacts, RecordsLast
      <3> QED BY <1>4, <3>2, WindowsClose DEF CoherentInv, ExclusiveInv
    <2>6. GoneIsLate'
      BY <1>1, <1>2, <1>5, <2>5 DEF GoneIsLate, InWindow
    <2> QED BY <2>3, <2>4, <2>6
  <1> QED BY <1>6, <1>7

LEMMA NextWindowFacts ==
  ASSUME CoherentInv, Quiet, WindowFacts, [Next]_vars PROVE WindowFacts'
  <1>1. InSync' /\ RecordsLast' /\ DecisionsLast'
    BY InSyncStays, RecordsLastStays, DecisionsLastStays
    DEF WindowFacts, CoherentInv, ExclusiveInv
  <1>2. ASSUME NEW t \in Txns, (\E a \in Arms : StartQuery(t, a)) \/ QueryProgress(t)
        PROVE  LearnedIsClaimed' /\ ClaimIsNew' /\ GoneIsLate'
    <2>1. /\ UNCHANGED <<fpc, claim, policy>> /\ qpc[t] # "answered"
      BY <1>2
      DEF StartQuery, SelectAction, QueryProgress, AgentAnswers, AgentRaises, PutRecord,
          RegisterDecision, RegisterPending, RegisterPendingFails, AuditQuery, QueryStep,
          banditVars
    <2>2. \A u \in Txns \ {t} : items'[u] \in {items[u], Absent}
      <3>1. CASE PutRecord(t)
        BY <3>1 DEF PutRecord, Put, PutFails, PurgeFails, Saved, SaveFails, Purged
      <3>2. CASE ~PutRecord(t)
        BY <1>2, <3>2
        DEF StartQuery, QueryProgress, AgentAnswers, AgentRaises, RegisterDecision,
            AuditQuery, storeVars
      <3> QED BY <3>1, <3>2
    <2> QED BY <2>1, <2>2, RestingKeepsClaims DEF WindowFacts
  <1>3. ASSUME NEW f \in Feedbacks, FeedbackProgress(f)
        PROVE  LearnedIsClaimed' /\ ClaimIsNew' /\ GoneIsLate'
    <2>1. CASE AuditFeedback(f)
      <3>1. /\ UNCHANGED <<claim, policy, items>>
            /\ \A g \in Feedbacks : fpc'[g] \in Unclaimed \cup Gone => fpc'[g] = fpc[g]
        BY <2>1
        DEF AuditFeedback, FeedbackStep, Unclaimed, Gone, banditVars, storeVars,
            CoherentInv, ExclusiveInv, TypeInv, TypeOK
      <3> QED BY <3>1, RestingKeepsClaims DEF WindowFacts
    <2> QED BY <1>3, <2>1, ApplyKeepsClaims, EndKeepsClaims DEF FeedbackProgress
  <1>4. ASSUME TakeSnapshot \/ Tick \/ UNCHANGED vars
        PROVE  LearnedIsClaimed' /\ ClaimIsNew' /\ GoneIsLate'
    <2>1. UNCHANGED <<fpc, claim, policy, items>>
      BY <1>4
      DEF TakeSnapshot, Snapshot, SnapshotFails, Tick, vars, requestVars, banditVars,
          storeVars
    <2> QED BY <2>1, RestingKeepsClaims DEF WindowFacts
  <1>5. ASSUME Restart PROVE LearnedIsClaimed' /\ ClaimIsNew' /\ GoneIsLate'
    <2>1. /\ policy' = policy /\ claim' = claim /\ items' = Purged(items)
          /\ \A f \in Feedbacks : fpc'[f] \in Unclaimed \cup Gone => fpc'[f] = fpc[f]
      BY <1>5
      DEF Restart, LoadBandit, LoadStore, Quiet, WindowFacts, InSync, Unclaimed, Gone,
          FeedbackInFlight
    <2>2. \A t \in Txns : items'[t] \in {items[t], Absent}
      BY <2>1 DEF Purged
    <2> QED BY <2>1, <2>2, RestingKeepsClaims DEF WindowFacts
  <1>6. LearnedIsClaimed' /\ ClaimIsNew' /\ GoneIsLate'
    BY <1>2, <1>3, <1>4, <1>5, SubmitKeepsClaims DEF Next
  <1> QED BY <1>1, <1>6 DEF WindowFacts

LEMMA InitWindow == Init => WindowInv
  <1> SUFFICES ASSUME Init PROVE WindowFacts
    BY InitCoherent DEF WindowInv
  <1>1. InSync
    BY DEF Init, StoreInit, BanditInit, InSync
  <1>2. RecordsLast /\ DecisionsLast
    BY DEF Init, RecordsLast, DecisionsLast, Recorded, Scorable
  <1>3. LearnedIsClaimed
    BY DEF Init, BanditInit, FreshPolicy, LearnedIsClaimed
  <1>4. ClaimIsNew /\ GoneIsLate
    BY DEF Init, ClaimIsNew, GoneIsLate, Unclaimed, Gone
  <1> QED BY <1>1, <1>2, <1>3, <1>4 DEF WindowFacts

LEMMA NextWindow == WindowInv /\ [Next]_vars => WindowInv'
  <1> SUFFICES ASSUME WindowInv, [Next]_vars PROVE WindowInv'
    OBVIOUS
  <1>1. CoherentInv' /\ TypeInv
    BY NextCoherent DEF WindowInv, CoherentInv, ExclusiveInv
  <1>2. ASSUME NoFailures' PROVE WindowFacts'
    <2>1. Quiet /\ WindowFacts
      BY <1>1, <1>2, QuietBefore DEF Quiet, WindowInv
    <2> QED BY <2>1, NextWindowFacts DEF WindowInv
  <1> QED BY <1>1, <1>2 DEF WindowInv

(* While the window of an answered query is open, both stores keep what    *)
(* its feedback needs, in memory and in the files, as long as no I/O       *)
(* failed: through purges, other feedback and restarts.                    *)
THEOREM AnswersStayScoreable == Spec => []AnsweredStaysScoreable
  <1>1. WindowInv => AnsweredStaysScoreable
    BY DEF WindowInv, WindowFacts, InSync, RecordsLast, DecisionsLast,
           AnsweredStaysScoreable, Scoreable, Recorded, Scorable
  <1> QED BY <1>1, InitWindow, NextWindow, PTL DEF Spec

(* A client in time is never told 404 or 410.                              *)
THEOREM OnlyTheLateAreTurnedAway == Spec => []GoneOnlyAfterWindow
  <1>1. WindowInv => GoneOnlyAfterWindow
    BY DEF WindowInv, WindowFacts, GoneIsLate, GoneOnlyAfterWindow, Gone
  <1> QED BY <1>1, InitWindow, NextWindow, PTL DEF Spec
=============================================================================
