----------------------------- MODULE ClockTypes -----------------------------
(* What the two implementations of Clock (clock.hpp) have in common: times  *)
(* are numbers, a timer's id is its place in the order of scheduling.       *)
EXTENDS Naturals, Sequences

CONSTANTS MaxTime,     \* bound: the latest time
          MaxTimers    \* bound: how many callbacks are ever scheduled

ASSUME ClockBounds == MaxTime \in Nat /\ MaxTimers \in Nat

Times == 0..MaxTime
TimerIds == 1..MaxTimers
=============================================================================
