--------------------------- MODULE SimulatedClock ---------------------------
(* SimulatedClock (clock.cpp:107-176): the program sets the time and calls  *)
(* process_pending_callbacks(), whose first loop takes what is due off the  *)
(* heap with mutex_ held, and whose second calls it with the mutex free:    *)
(* any thread may schedule or cancel meanwhile, the callbacks too.          *)
(* set_time() takes no lock; it is called by the thread that processes,     *)
(* between two calls or from a callback.                                    *)
EXTENDS ClockTypes

VARIABLES
  current_time_,
  sim_when,      \* TimerEntry::when by id; its length is next_timer_id_
  heap,          \* the ids in the queue timers_
  cancelled_,
  ready,         \* the callbacks taken and not yet called
  processing,    \* "out", or the loop process_pending_callbacks() is in
  taken,         \* history, by id: how many timers there were when it was
                 \* taken, 0 if it was not
  called,        \* history: the ids in the order of their calls
  asof           \* history: how many timers there were, and the time, when the
                 \* first loop last ended

simHistory == <<taken, called, asof>>
simVars == <<current_time_, sim_when, heap, cancelled_, ready, processing, simHistory>>

SimIds == DOMAIN sim_when

SimInit ==
  /\ current_time_ \in Times
  /\ sim_when = <<>> /\ heap = {} /\ cancelled_ = {}
  /\ ready = <<>> /\ processing = "out"
  /\ taken = <<>> /\ called = <<>> /\ asof = [ids |-> 0, time |-> 0]

SetTime(new_time) ==
  /\ processing # "taking"
  /\ current_time_' = new_time
  /\ UNCHANGED <<sim_when, heap, cancelled_, ready, processing, simHistory>>

(* mutex_ is held throughout the first loop.                                *)
SimSchedule(when) ==
  /\ processing # "taking" /\ Len(sim_when) < MaxTimers
  /\ sim_when' = Append(sim_when, when) /\ taken' = Append(taken, 0)
  /\ heap' = heap \cup {Len(sim_when) + 1}
  /\ UNCHANGED <<current_time_, cancelled_, ready, processing, called, asof>>

SimCancel(i) ==
  /\ processing # "taking"
  /\ cancelled_' = cancelled_ \cup {i}
  /\ UNCHANGED <<current_time_, sim_when, heap, ready, processing, simHistory>>

----------------------------------------------------------------------------
(* process_pending_callbacks().                                             *)

ProcessPendingCallbacks ==
  /\ processing = "out" /\ processing' = "taking"
  /\ UNCHANGED <<current_time_, sim_when, heap, cancelled_, ready, simHistory>>

(* What top() may be: TimerCompare puts the earliest first and says nothing *)
(* of those of the same time.                                               *)
Top(i) == i \in heap /\ \A j \in heap : sim_when[i] <= sim_when[j]

TopIsDue(i) == Top(i) /\ sim_when[i] <= current_time_

(* The first loop ends: all that is due has left the heap.                  *)
TakingEnded ==
  /\ processing' = "calling"
  /\ asof' = [ids |-> Len(sim_when), time |-> current_time_]

\* Mutant: the loop is left at a cancelled timer, not continued.
SkipAndBreak(i) ==
  /\ processing = "taking" /\ TopIsDue(i) /\ i \in cancelled_
  /\ heap' = heap \ {i} /\ cancelled_' = cancelled_ \ {i}
  /\ TakingEnded
  /\ UNCHANGED <<current_time_, sim_when, ready, taken, called>>

SkipCancelled(i) ==
  /\ processing = "taking" /\ TopIsDue(i) /\ i \in cancelled_
  /\ heap' = heap \ {i} /\ cancelled_' = cancelled_ \ {i}
  /\ UNCHANGED <<current_time_, sim_when, ready, processing, simHistory>>

TakeDue(i) ==
  /\ processing = "taking" /\ TopIsDue(i) /\ i \notin cancelled_
  /\ heap' = heap \ {i}
  /\ ready' = Append(ready, i) /\ taken' = [taken EXCEPT ![i] = Len(sim_when)]
  /\ UNCHANGED <<current_time_, sim_when, cancelled_, processing, called, asof>>

TakingEnds ==
  /\ processing = "taking" /\ ~\E i \in heap : TopIsDue(i)
  /\ TakingEnded
  /\ UNCHANGED <<current_time_, sim_when, heap, cancelled_, ready, taken, called>>

(* The callback runs; what it does to the clock are steps of their own.     *)
CallNext ==
  /\ processing = "calling" /\ ready # <<>>
  /\ ready' = Tail(ready) /\ called' = Append(called, Head(ready))
  /\ UNCHANGED <<current_time_, sim_when, heap, cancelled_, processing, taken, asof>>

ProcessReturns ==
  /\ processing = "calling" /\ ready = <<>> /\ processing' = "out"
  /\ UNCHANGED <<current_time_, sim_when, heap, cancelled_, ready, simHistory>>

SimNext ==
  \/ \E t \in Times : SetTime(t) \/ SimSchedule(t)
  \/ \E i \in SimIds : SimCancel(i) \/ SkipCancelled(i) \/ TakeDue(i)
  \/ ProcessPendingCallbacks \/ TakingEnds \/ CallNext \/ ProcessReturns

----------------------------------------------------------------------------
(* An id in cancelled_ of a timer that was taken means nothing: it was      *)
(* cancelled too late.  One that is neither in the heap nor taken was       *)
(* skipped.                                                                 *)
SimTimers ==
  [i \in SimIds |->
     [when  |-> sim_when[i],
      state |-> IF taken[i] > 0 THEN "fired"
                ELSE IF i \in heap \ cancelled_ THEN "pending" ELSE "cancelled"]]

CallOrder == called \o ready

(* In a backtest callbacks come in the order of time, over any number of    *)
(* calls of process_pending_callbacks() and however the time is set between *)
(* them: only one that was scheduled after another had been taken may be    *)
(* called after it though its time is earlier.                              *)
TimeOrder ==
  \A a, b \in DOMAIN CallOrder :
    a < b => \/ sim_when[CallOrder[a]] <= sim_when[CallOrder[b]]
             \/ CallOrder[b] > taken[CallOrder[a]]

(* And none is late: of what there was when the first loop ended nothing    *)
(* that was due then is in the heap, no cancelled timer hid one behind it.  *)
NothingLeft ==
  \A i \in heap : i <= asof.ids => sim_when[i] > asof.time

DueTakenInOrder == TimeOrder /\ NothingLeft
=============================================================================
