------------------------------ MODULE LiveClock ------------------------------
(* LiveClock (clock.cpp:26-104): a thread per timer sleeps until the timer  *)
(* is due or cancelled.  Callers take timers_mutex_ for a moment, twice in  *)
(* schedule_callback(); shutdown() keeps it while it joins the threads.     *)
(* The callbacks run on the timers' threads and may call the clock.         *)
(* The system clock is taken never to be set back, and a thread can always  *)
(* be started.                                                              *)
EXTENDS ClockTypes, FiniteSets

CONSTANTS Clients,     \* the program's threads that call the clock
          None

ASSUME ClientsAssumption == Clients \cap TimerIds = {} /\ None \notin Clients

VARIABLES
  system_time,       \* std::chrono::system_clock
  live_when,         \* Timer::when by id; its length is next_timer_id_
  timers_,           \* the ids in the map of timers
  timer_threads_,    \* the ids in the map of threads
  cancelled,         \* the timers whose flag is set
  timers_mutex_,     \* the thread in shutdown(), or None
  worker,            \* by id, where the thread of the timer is
  call,              \* by thread, the call of the clock it is in
  stopped            \* the timers whose threads a shutdown() had to join

liveVars == <<system_time, live_when, timers_, timer_threads_, cancelled,
              timers_mutex_, worker, call, stopped>>

Threads == Clients \cup TimerIds
Scheduled == DOMAIN live_when
NoCall == [op |-> "none", id |-> 0]
Idle(t) == call[t] = NoCall
In(t, op) == call[t].op = op
At(t, op, i) == call' = [call EXCEPT ![t] = [op |-> op, id |-> i]]

(* A client, or a callback, between two calls.                              *)
CanCall(t) == Idle(t) /\ (t \in Clients \/ (t \in Scheduled /\ worker[t] = "calling"))
Free == timers_mutex_ = None

LiveInit ==
  /\ system_time = 0
  /\ live_when = <<>> /\ worker = <<>>
  /\ timers_ = {} /\ timer_threads_ = {} /\ cancelled = {} /\ stopped = {}
  /\ timers_mutex_ = None
  /\ call = [t \in Threads |-> NoCall]

Tick == /\ system_time < MaxTime
        /\ system_time' = system_time + 1
        /\ UNCHANGED <<live_when, timers_, timer_threads_, cancelled, timers_mutex_,
                       worker, call, stopped>>

----------------------------------------------------------------------------
(* schedule_callback(): enter the timer, start its thread, store the thread. *)

Enter(t) ==
  /\ CanCall(t)
  /\ \/ /\ Len(live_when) + Cardinality({u \in Threads : In(u, "schedule")}) < MaxTimers
        /\ At(t, "schedule", 0)
     \/ \E i \in Scheduled :      \* an id some schedule_callback() has returned
          /\ \A u \in Threads : call[u].id = i => ~In(u, "spawn") /\ ~In(u, "store")
          /\ At(t, "lookup", i)
     \/ t \in Clients /\ At(t, "shutdown", 0)
  /\ UNCHANGED <<system_time, live_when, timers_, timer_threads_, cancelled,
                 timers_mutex_, worker, stopped>>

Schedule(t, when) ==
  /\ In(t, "schedule") /\ Free
  /\ live_when' = Append(live_when, when)
  /\ timers_' = timers_ \cup {Len(live_when) + 1}
  /\ worker' = Append(worker, "unborn")
  /\ At(t, "spawn", Len(live_when) + 1)
  /\ UNCHANGED <<system_time, timer_threads_, cancelled, timers_mutex_, stopped>>

Spawn(t) ==
  /\ In(t, "spawn")
  /\ worker' = [worker EXCEPT ![call[t].id] = "waiting"]
  /\ At(t, "store", call[t].id)
  /\ UNCHANGED <<system_time, live_when, timers_, timer_threads_, cancelled,
                 timers_mutex_, stopped>>

Store(t) ==
  /\ In(t, "store") /\ Free
  /\ timer_threads_' = timer_threads_ \cup {call[t].id}
  /\ call' = [call EXCEPT ![t] = NoCall]
  /\ UNCHANGED <<system_time, live_when, timers_, cancelled, timers_mutex_, worker, stopped>>

----------------------------------------------------------------------------
(* cancel_callback(): find the timer, release the clock, set its flag.      *)

Lookup(t) ==
  /\ In(t, "lookup") /\ Free
  /\ IF call[t].id \in timers_ THEN At(t, "cancel", call[t].id)
                               ELSE call' = [call EXCEPT ![t] = NoCall]
  /\ UNCHANGED <<system_time, live_when, timers_, timer_threads_, cancelled,
                 timers_mutex_, worker, stopped>>

Cancel(t) ==
  /\ In(t, "cancel")
  /\ cancelled' = cancelled \cup {call[t].id}
  /\ call' = [call EXCEPT ![t] = NoCall]
  /\ UNCHANGED <<system_time, live_when, timers_, timer_threads_, timers_mutex_,
                 worker, stopped>>

----------------------------------------------------------------------------
(* The thread of a timer.                                                   *)

(* Mutant: wait() where wait_until() is meant.                              *)
WakeOnlyCancelled(i) ==
  /\ worker[i] = "waiting" /\ i \in cancelled
  /\ worker' = [worker EXCEPT ![i] = "woken"]
  /\ UNCHANGED <<system_time, live_when, timers_, timer_threads_, cancelled,
                 timers_mutex_, call, stopped>>

(* wait_until() ends.                                                       *)
Wake(i) ==
  /\ worker[i] = "waiting"
  /\ i \in cancelled \/ live_when[i] <= system_time
  /\ worker' = [worker EXCEPT ![i] = "woken"]
  /\ UNCHANGED <<system_time, live_when, timers_, timer_threads_, cancelled,
                 timers_mutex_, call, stopped>>

(* Mutant: the flag is not read again, whatever ended the wait.             *)
CheckNothing(i) ==
  /\ worker[i] = "woken"
  /\ worker' = [worker EXCEPT ![i] = "calling"]
  /\ UNCHANGED <<system_time, live_when, timers_, timer_threads_, cancelled,
                 timers_mutex_, call, stopped>>

(* The flag is read once more, with no lock held.                           *)
Check(i) ==
  /\ worker[i] = "woken"
  /\ worker' = [worker EXCEPT ![i] = IF i \in cancelled THEN "skipped" ELSE "calling"]
  /\ UNCHANGED <<system_time, live_when, timers_, timer_threads_, cancelled,
                 timers_mutex_, call, stopped>>

(* The callback returns, or throws and the exception is swallowed.          *)
Finish(i) ==
  /\ worker[i] = "calling" /\ Idle(i)
  /\ worker' = [worker EXCEPT ![i] = "called"]
  /\ UNCHANGED <<system_time, live_when, timers_, timer_threads_, cancelled,
                 timers_mutex_, call, stopped>>

Ended(i) == worker[i] \in {"skipped", "called"}

----------------------------------------------------------------------------
(* shutdown(), with timers_mutex_ held from the first step to the last.     *)

ShutdownLock(t) ==
  /\ In(t, "shutdown") /\ Free
  /\ timers_mutex_' = t
  /\ stopped' = stopped \cup timer_threads_
  /\ At(t, "cancelall", 0)
  /\ UNCHANGED <<system_time, live_when, timers_, timer_threads_, cancelled, worker>>

(* Mutant: the threads are joined without being cancelled first.            *)
ShutdownCancelNone(t) ==
  /\ In(t, "cancelall") /\ At(t, "join", 0)
  /\ UNCHANGED <<system_time, live_when, timers_, timer_threads_, cancelled,
                 timers_mutex_, worker, stopped>>

ShutdownCancel(t) ==
  /\ In(t, "cancelall")
  /\ \/ \E i \in timers_ \ cancelled :
          cancelled' = cancelled \cup {i} /\ UNCHANGED call
     \/ timers_ \subseteq cancelled /\ At(t, "join", 0) /\ UNCHANGED cancelled
  /\ UNCHANGED <<system_time, live_when, timers_, timer_threads_, timers_mutex_,
                 worker, stopped>>

(* Mutant: the threads are detached instead of joined.                      *)
ShutdownDetaches(t) ==
  /\ In(t, "join")
  /\ timer_threads_' = {} /\ timers_' = {}
  /\ timers_mutex_' = None
  /\ call' = [call EXCEPT ![t] = NoCall]
  /\ UNCHANGED <<system_time, live_when, cancelled, worker, stopped>>

ShutdownReturn(t) ==
  /\ In(t, "join")
  /\ \A i \in timer_threads_ : Ended(i)
  /\ timer_threads_' = {} /\ timers_' = {}
  /\ timers_mutex_' = None
  /\ call' = [call EXCEPT ![t] = NoCall]
  /\ UNCHANGED <<system_time, live_when, cancelled, worker, stopped>>

----------------------------------------------------------------------------
LiveNext ==
  \/ Tick
  \/ \E t \in Threads : \/ Enter(t) \/ \E when \in Times : Schedule(t, when)
                        \/ Spawn(t) \/ Store(t) \/ Lookup(t) \/ Cancel(t)
  \/ \E t \in Clients : ShutdownLock(t) \/ ShutdownCancel(t) \/ ShutdownReturn(t)
  \/ \E i \in Scheduled : Wake(i) \/ Check(i) \/ Finish(i)

----------------------------------------------------------------------------
(* What the clock has decided about a timer: the thread's last look at the  *)
(* flag decides.                                                            *)
LiveTimers ==
  [i \in Scheduled |->
     [when  |-> live_when[i],
      state |-> IF worker[i] \in {"calling", "called"} THEN "fired"
                ELSE IF i \in cancelled THEN "cancelled" ELSE "pending"]]

(* A callback on a thread that shutdown() has to join waits for the mutex   *)
(* shutdown() holds: neither goes on.                                       *)
Jammed ==
  \E i \in timer_threads_ :
    ~Free /\ worker[i] = "calling" /\ call[i].op \in {"schedule", "store", "lookup"}

(* A timer whose schedule_callback() had returned when shutdown() began     *)
(* neither waits nor runs once shutdown() has returned: the caller may      *)
(* destroy what the callback uses.                                          *)
ShutdownSilences == Free => \A i \in stopped : Ended(i)

(* shutdown() returns, even if every timer is due years from now, unless a  *)
(* callback it must wait for itself waits for the clock.                    *)
ShutdownReturns ==
  \A t \in Clients : timers_mutex_ = t ~> (timers_mutex_ # t \/ Jammed)

(* The callback of a due timer is called or was cancelled in the end, while *)
(* other callbacks run, block or fail.                                      *)
TimersSettle ==
  \A i \in TimerIds :
    (i \in Scheduled /\ live_when[i] <= system_time)
      ~> (i \in Scheduled /\ worker[i] \in {"calling", "called", "skipped"})

(* The threads the clock started keep running and callbacks return; the     *)
(* steps between two locks are a thread's own.                              *)
LiveFairness ==
  /\ \A t \in Threads : /\ WF_liveVars(Spawn(t)) /\ WF_liveVars(Cancel(t))
  /\ \A t \in Clients : WF_liveVars(ShutdownCancel(t)) /\ WF_liveVars(ShutdownReturn(t))
  /\ \A i \in TimerIds : /\ WF_liveVars(i \in Scheduled /\ (Wake(i) \/ Check(i)))
                         /\ SF_liveVars(i \in Scheduled /\ Finish(i))
=============================================================================
