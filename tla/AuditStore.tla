----------------------------- MODULE AuditStore -----------------------------
(***************************************************************************)
(* The audit trail, services/audit_store.py: an event goes to Postgres     *)
(* when a connection was made at startup, and to the JSONL file otherwise  *)
(* or when the INSERT raises.  The append may raise too.  Both only grow.  *)
(***************************************************************************)
EXTENDS Platform

CONSTANT Postgres   \* _init_postgres succeeded: self._pg is not None.

ASSUME AuditAssumption == Postgres \in BOOLEAN

VARIABLES
  auditPg,          \* Events in the table smartops_audit.
  auditFile         \* Events in the file at file_path.

auditVars == <<auditPg, auditFile>>

AuditInit ==
  /\ auditPg = {}
  /\ auditFile = {}

Audited == auditPg \cup auditFile

(* record *)
InsertRow(event) ==
  /\ Postgres
  /\ auditPg' = auditPg \cup {event}
  /\ UNCHANGED auditFile
  /\ NoFault

AppendLine(event) ==
  /\ ~Postgres
  /\ auditFile' = auditFile \cup {event}
  /\ UNCHANGED auditPg
  /\ NoFault

(* The INSERT raises, before the server committed it or after: the event   *)
(* goes to the file, on top of the row that may be there.                  *)
InsertFallsBack(event) ==
  /\ Postgres
  /\ Fault("pg")
  /\ auditPg' \in {auditPg, auditPg \cup {event}}
  /\ auditFile' = auditFile \cup {event}

RecordEvent(event) ==
  \/ InsertRow(event)
  \/ AppendLine(event)
  \/ InsertFallsBack(event)

(* The append raises, and nothing is left to fall back to: the OSError     *)
(* reaches the caller.  Without Postgres no trace of the event is left;    *)
(* behind an INSERT that raised, the row may be there all the same.        *)
AppendFails ==
  /\ ~Postgres
  /\ Fault("save")
  /\ UNCHANGED auditVars

InsertAndAppendFail(event) ==
  /\ Postgres
  /\ Faults({"pg", "save"})
  /\ auditPg' \in {auditPg, auditPg \cup {event}}
  /\ UNCHANGED auditFile

RecordEventFails(event) == AppendFails \/ InsertAndAppendFail(event)
=============================================================================
