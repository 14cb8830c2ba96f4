-------------------------- MODULE TransactionStore --------------------------
(***************************************************************************)
(* The transaction ledger, services/transaction_store.py: one record per   *)
(* answered query, claimed and then scored by feedback, dropped after its  *)
(* time to live, rewritten to a file on every change.                      *)
(*                                                                         *)
(* Each method runs in a worker thread under the store's lock, so each is  *)
(* one action; its purge and its save are part of it.  A save replaces the *)
(* file as a whole or raises and leaves the old file.  The methods raise   *)
(* after the in-memory change, which the failing variants keep.            *)
(***************************************************************************)
EXTENDS Platform

CONSTANTS
  Txns,             \* Transaction ids (uuid4), one per query.
  Scores,           \* Feedback scores a client may send.
  NoScore,          \* feedback_score is None.
  Absent,           \* No entry under this id.
  FeedbackTimeout,  \* settings.rl_feedback_timeout_seconds
  MinTtl            \* The floor main.py gives the ledger's TTL, 60 s there.

ASSUME StoreAssumption ==
  /\ NoScore \notin Scores
  /\ FeedbackTimeout \in Nat
  /\ MinTtl \in Nat \ {0}

VARIABLES
  items,            \* TransactionStore._items
  txnFile           \* The records in the file at state_path.

storeVars == <<items, txnFile>>

AtLeast(floor, n) == IF n < floor THEN floor ELSE n

Ttl == AtLeast(MinTtl, FeedbackTimeout)

Record == [created: Time, score: Scores \cup {NoScore}, reserved: BOOLEAN]

ASSUME RecordAssumption == Absent \notin Record

(* A slip to be caught: the record is dated before the agent answered. *)
BackdatedRecord(now) ==
  [created |-> now - 1, score |-> NoScore, reserved |-> FALSE]

NewRecord(now) == [created |-> now, score |-> NoScore, reserved |-> FALSE]

Ledger == [Txns -> Record \cup {Absent}]

EmptyLedger == [t \in Txns |-> Absent]

StoreTypeOK ==
  /\ items \in Ledger
  /\ txnFile \in Ledger

StoreInit ==
  /\ items = EmptyLedger
  /\ txnFile = EmptyLedger

-----------------------------------------------------------------------------
(* _purge_locked: what it leaves of a ledger, and what is in the file once *)
(* it has run, for it saves only when it dropped something.                *)

(* A slip to be caught: >= for >. *)
OutlivedEarly(created, ttl) == clock - created >= ttl

Outlived(created, ttl) == clock - created > ttl

(* A slip to be caught: scored records are purged at once. *)
PurgedWhenScored(ledger) ==
  [t \in Txns |-> IF /\ ledger[t] # Absent
                     /\ \/ Outlived(ledger[t].created, Ttl)
                        \/ ledger[t].score # NoScore
                    THEN Absent ELSE ledger[t]]

Purged(ledger) ==
  [t \in Txns |-> IF ledger[t] # Absent /\ Outlived(ledger[t].created, Ttl)
                    THEN Absent ELSE ledger[t]]

FileAfterPurge == IF Purged(items) = items THEN txnFile ELSE Purged(items)

PurgeOnly ==
  /\ items' = Purged(items)
  /\ txnFile' = FileAfterPurge
  /\ NoFault

PurgeFails ==
  /\ Purged(items) # items
  /\ items' = Purged(items)
  /\ UNCHANGED txnFile
  /\ Fault("save")

Saved(ledger) ==
  /\ items' = ledger
  /\ txnFile' = ledger
  /\ NoFault

SaveFails(ledger, file) ==
  /\ items' = ledger
  /\ txnFile' = file
  /\ Fault("save")

Claimed(record) == record.score # NoScore \/ record.reserved

-----------------------------------------------------------------------------
Put(t, now) ==
  /\ Saved([Purged(items) EXCEPT ![t] = NewRecord(now)])
  /\ UNCHANGED clock

PutFails(t, now) ==
  /\ \/ PurgeFails
     \/ SaveFails([Purged(items) EXCEPT ![t] = NewRecord(now)], FileAfterPurge)
  /\ UNCHANGED clock

(* reserve_feedback, one operator per result. *)
ReserveMissing(t) ==
  /\ Purged(items)[t] = Absent
  /\ PurgeOnly
  /\ UNCHANGED clock

ReserveAlreadyScored(t) ==
  /\ Purged(items)[t] # Absent
  /\ Claimed(items[t])
  /\ PurgeOnly
  /\ UNCHANGED clock

Claimable(t) ==
  /\ Purged(items)[t] # Absent
  /\ ~Claimed(items[t])

(* The second time.time() finds a record expired that the purge's own      *)
(* reading still kept: the clock moved in between.                         *)
ExpiresMeanwhile(t) ==
  /\ Claimable(t)
  /\ ClockAdvances
  /\ clock' - items[t].created > Ttl

ReserveExpired(t) ==
  /\ ExpiresMeanwhile(t)
  /\ Saved([Purged(items) EXCEPT ![t] = Absent])

(* A slip to be caught: the flag is tested but never set. *)
WithoutReservation(t) == Purged(items)

WithReservation(t) == [Purged(items) EXCEPT ![t].reserved = TRUE]

ReserveOk(t) ==
  /\ Claimable(t)
  /\ Saved(WithReservation(t))
  /\ UNCHANGED clock

ReserveFails(t) ==
  \/ PurgeFails /\ UNCHANGED clock
  \/ /\ ExpiresMeanwhile(t)
     /\ SaveFails([Purged(items) EXCEPT ![t] = Absent], FileAfterPurge)
  \/ /\ Claimable(t)
     /\ SaveFails(WithReservation(t), FileAfterPurge)
     /\ UNCHANGED clock

-----------------------------------------------------------------------------
(* release_feedback_reservation: no purge, nothing to do for a record that *)
(* is gone or scored.                                                      *)
Releasable(t) == items[t] # Absent /\ items[t].score = NoScore

(* A slip to be caught: the flag survives the release. *)
ReleasedInName(t) == items

Released(t) == [items EXCEPT ![t].reserved = FALSE]

Release(t) ==
  /\ IF Releasable(t)
       THEN items' = Released(t) /\ txnFile' = Released(t)
       ELSE UNCHANGED storeVars
  /\ NoFault
  /\ UNCHANGED clock

ReleaseFails(t) ==
  /\ Releasable(t)
  /\ SaveFails(Released(t), txnFile)
  /\ UNCHANGED clock

(* mark_feedback: no purge either.  "missing" is its KeyError, "conflict"  *)
(* its ValueError.                                                         *)
MarkOutcome(t) ==
  IF items[t] = Absent THEN "missing"
  ELSE IF items[t].score # NoScore THEN "conflict" ELSE "ok"

(* A slip to be caught: the flag survives the score. *)
MarkedStillReserved(t, s) == [items EXCEPT ![t].score = s]

Marked(t, s) ==
  [items EXCEPT ![t] = [@ EXCEPT !.score = s, !.reserved = FALSE]]

Mark(t, s) ==
  /\ IF MarkOutcome(t) = "ok"
       THEN items' = Marked(t, s) /\ txnFile' = Marked(t, s)
       ELSE UNCHANGED storeVars
  /\ NoFault
  /\ UNCHANGED clock

MarkFails(t, s) ==
  /\ MarkOutcome(t) = "ok"
  /\ SaveFails(Marked(t, s), txnFile)
  /\ UNCHANGED clock

-----------------------------------------------------------------------------
(* __init__: the file is read back and purged, which rewrites it when a    *)
(* record expired; any exception on the way, the rewrite's included, is    *)
(* swallowed and leaves an empty ledger.                                   *)
LoadStore ==
  /\ items' = Purged(txnFile)
  /\ txnFile' = Purged(txnFile)

LoadStoreFails ==
  /\ items' = EmptyLedger
  /\ UNCHANGED txnFile
=============================================================================
