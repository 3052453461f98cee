-------------------------------- MODULE Clock --------------------------------
(* What a clock promises of the callbacks it is given, whatever its threads *)
(* do: each is settled once, either fired, at its time or later, or         *)
(* cancelled, and what is settled stays so.  A timer is fired from the      *)
(* moment at which the clock has decided to call it.                        *)
EXTENDS ClockTypes

VARIABLES now,       \* what now() returns
          timers     \* by id: the time asked for and what became of it

vars == <<now, timers>>

Pending == {i \in DOMAIN timers : timers[i].state = "pending"}

Init == now \in Times /\ timers = <<>>

Tick == /\ now' \in Times
        /\ UNCHANGED timers

ScheduleCallback(when) ==
  /\ timers' = Append(timers, [when |-> when, state |-> "pending"])
  /\ UNCHANGED now

CancelCallback(i) ==
  /\ timers' = [timers EXCEPT ![i].state = "cancelled"]
  /\ UNCHANGED now

Fire(i) ==
  /\ timers[i].when <= now
  /\ timers' = [timers EXCEPT ![i].state = "fired"]
  /\ UNCHANGED now

Next == \/ Tick
        \/ \E when \in Times : ScheduleCallback(when)
        \/ \E i \in Pending : CancelCallback(i) \/ Fire(i)

Spec == Init /\ [][Next]_vars
=============================================================================
