----------------------------- MODULE WallClock -----------------------------
(* The wall clock that handlers read with h.now(), shared by the components *)
(* behind the HTTP endpoints.                                               *)
EXTENDS Integers

CONSTANT MaxClock   \* bound: the clock stops here

ASSUME ClockAssumption == MaxClock \in Nat

VARIABLE clock

Advance == clock < MaxClock /\ clock' = clock + 1
=============================================================================
