---------------------------- MODULE EitherClock ----------------------------
(* A program is built around a Clock* and is given one of the two clocks:   *)
(* the live one, or the simulated one for a backtest.  Both keep what Clock *)
(* promises.                                                                *)
EXTENDS LiveClock, SimulatedClock

VARIABLE clock       \* the class behind the pointer

allVars == <<clock, liveVars, simVars>>

Init == clock \in {"live", "simulated"} /\ LiveInit /\ SimInit

Next == \/ clock = "live" /\ LiveNext /\ UNCHANGED <<clock, simVars>>
        \/ clock = "simulated" /\ SimNext /\ UNCHANGED <<clock, liveVars>>

Spec == Init /\ [][Next]_allVars
FairSpec == Spec /\ LiveFairness

Promise == INSTANCE Clock WITH
  now    <- IF clock = "live" THEN system_time ELSE current_time_,
  timers <- IF clock = "live" THEN LiveTimers ELSE SimTimers

(* With either clock, a callback is called at most once, not before its     *)
(* time, and never if cancel_callback() set the flag before the thread's    *)
(* last look at it (or before the timer was taken out of the heap); whether *)
(* it was called or cancelled, it stays so.                                 *)
KeepsThePromise == Promise!Spec
=============================================================================
