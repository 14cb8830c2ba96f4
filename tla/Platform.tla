------------------------------ MODULE Platform ------------------------------
(***************************************************************************)
(* What the stores stand on and do not control: the wall clock and the     *)
(* disk or database under their files.  Of each kind in FaultKinds at most *)
(* MaxFaults calls fail:                                                   *)
(*   "save"  a file write or its rename raises OSError (old file intact);  *)
(*   "load"  a state file cannot be read back when the process starts;     *)
(*   "pg"    an INSERT raises, whether or not the server committed it.     *)
(***************************************************************************)
EXTENDS WallClock

CONSTANTS
  MaxFaults,    \* Bound: calls of one kind that fail in a behaviour.
  FaultKinds    \* The kinds of failure the environment may produce.

ASSUME PlatformAssumption ==
  /\ MaxFaults \in Nat
  /\ FaultKinds \subseteq {"save", "load", "pg"}

VARIABLE faults \* Failures of each kind so far, against MaxFaults.

platformVars == <<clock, faults>>

PlatformTypeOK ==
  /\ clock \in Time
  /\ faults \in [FaultKinds -> 0 .. MaxFaults]

PlatformInit ==
  /\ clock = 0
  /\ faults = [k \in FaultKinds |-> 0]

NoFault == UNCHANGED faults

(* One step may make several calls: one of each of these kinds fails. *)
Faults(kinds) ==
  /\ kinds \subseteq FaultKinds
  /\ \A k \in kinds : faults[k] < MaxFaults
  /\ faults' = [k \in FaultKinds |-> faults[k] + IF k \in kinds THEN 1 ELSE 0]

Fault(kind) == Faults({kind})

Faultless(kind) == kind \in FaultKinds => faults[kind] = 0
=============================================================================
