------------------------------ MODULE WallClock ------------------------------
(***************************************************************************)
(* time.time(), in whole units; it stops at MaxClock.                      *)
(***************************************************************************)
EXTENDS Integers

CONSTANT MaxClock   \* Bound: the last instant of a behaviour.

ASSUME ClockAssumption == MaxClock \in Nat

VARIABLE clock

Time == 0 .. MaxClock

(* Time passes, as an action of its own or between two readings of one     *)
(* operation.                                                              *)
ClockAdvances ==
  /\ clock < MaxClock
  /\ clock' = clock + 1
=============================================================================
