------------------------------- MODULE Clock -------------------------------
(***************************************************************************)
(* The time that Date.now() returns, in coarse units.  It starts at 1: the *)
(* code uses the time 0 for "never".                                       *)
(***************************************************************************)
EXTENDS Integers

CONSTANT MaxTime   \* bound on the clock

ASSUME ClockAssumption == MaxTime \in Nat

VARIABLE now

ClockInit == now = 1

Tick == now < MaxTime /\ now' = now + 1
=============================================================================
