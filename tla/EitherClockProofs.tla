-------------------------- MODULE EitherClockProofs --------------------------
(* Both clocks keep what Clock promises, shutdown() joins what it found and *)
(* the simulated clock calls what is due in order: for every set of         *)
(* threads, any number of timers and any times.                             *)
EXTENDS EitherClock, SequenceTheorems, FiniteSetTheorems, TLAPS

WorkerStates == {"unborn", "waiting", "woken", "skipped", "calling", "called"}

Ops == {"none", "schedule", "spawn", "store", "lookup", "cancel", "shutdown",
        "cancelall", "join"}

SpawnsOK ==
  \A t \in Threads : call[t].op = "spawn" =>
    /\ worker[call[t].id] = "unborn"
    /\ \A u \in Threads : call[u].op = "spawn" /\ call[u].id = call[t].id => u = t

(* Of the live clock: a call that names a timer names one that exists, a    *)
(* thread is started once, and one whose timer was not cancelled woke       *)
(* because the time had come.                                               *)
LiveOK ==
  /\ system_time \in Times
  /\ live_when \in Seq(Times)
  /\ worker \in Seq(WorkerStates) /\ Len(worker) = Len(live_when)
  /\ cancelled \subseteq Scheduled
  /\ timers_ \subseteq Scheduled
  /\ call \in [Threads -> [op : Ops, id : Nat]]
  /\ \A t \in Threads : call[t].op \in {"spawn", "store", "lookup", "cancel"} =>
                          call[t].id \in Scheduled
  /\ SpawnsOK
  /\ \A i \in Scheduled : worker[i] = "woken" /\ i \notin cancelled =>
                            live_when[i] <= system_time

(* Of the simulated clock: what was taken has left the heap for good.       *)
SimOK ==
  /\ current_time_ \in Times
  /\ sim_when \in Seq(Times)
  /\ taken \in Seq(Nat) /\ Len(taken) = Len(sim_when)
  /\ heap \subseteq SimIds /\ cancelled_ \subseteq SimIds
  /\ \A i \in heap : taken[i] = 0

Live == INSTANCE Clock WITH now <- system_time, timers <- LiveTimers
Sim == INSTANCE Clock WITH now <- current_time_, timers <- SimTimers

----------------------------------------------------------------------------
LEMMA AppendIndex ==
  ASSUME NEW S, NEW s \in Seq(S), NEW e \in S
  PROVE  /\ Append(s, e) \in Seq(S) /\ Len(Append(s, e)) = Len(s) + 1
         /\ DOMAIN s = 1..Len(s) /\ DOMAIN Append(s, e) = 1..(Len(s) + 1)
         /\ \A i \in 1..Len(s) : Append(s, e)[i] = s[i]
         /\ Append(s, e)[Len(s) + 1] = e
  OBVIOUS

(* A step that only moves a thread to another point of its call.            *)
LEMMA AtKeeps ==
  ASSUME NEW t \in Threads, NEW op \in Ops, NEW i \in Nat,
         call \in [Threads -> [op : Ops, id : Nat]],
         call' = [call EXCEPT ![t] = [op |-> op, id |-> i]]
  PROVE  /\ call' \in [Threads -> [op : Ops, id : Nat]]
         /\ call'[t].op = op /\ call'[t].id = i
         /\ \A u \in Threads : u # t => call'[u] = call[u]
  OBVIOUS

(* Nobody new starts a thread, and those that do have not done so yet.      *)
LEMMA SpawnsKept ==
  ASSUME SpawnsOK,
         \A u \in Threads : call'[u].op = "spawn" =>
           call'[u] = call[u] /\ worker'[call[u].id] = worker[call[u].id]
  PROVE  SpawnsOK'
  BY DEF SpawnsOK

(* Every step of the live clock keeps LiveOK.                               *)
LEMMA LiveOKStep == LiveOK /\ [LiveNext]_liveVars => LiveOK'
<1> SUFFICES ASSUME LiveOK, [LiveNext]_liveVars PROVE LiveOK'
  OBVIOUS
<1> USE ClockBounds, ClientsAssumption
<1> DEFINE Calls == [Threads -> [op : Ops, id : Nat]]
<1>0. /\ call \in Calls
      /\ \A u \in Threads : call[u].op \in Ops /\ call[u].id \in Nat
      /\ Scheduled = 1..Len(live_when) /\ Scheduled \subseteq Nat
      /\ Len(live_when) \in Nat
  BY DEF LiveOK, Scheduled
<1>1. CASE Tick
  BY <1>1 DEF LiveOK, SpawnsOK, Tick, Times, Scheduled
<1>2. ASSUME NEW t \in Threads, Enter(t) PROVE LiveOK'
  <2>1. \/ At(t, "schedule", 0) \/ At(t, "shutdown", 0)
        \/ \E i \in Scheduled : At(t, "lookup", i)
    BY <1>2, Zenon DEF Enter
  <2>2. /\ call' \in Calls
        /\ \A u \in Threads : u # t => call'[u] = call[u]
        /\ \/ call'[t].op = "lookup" /\ call'[t].id \in Scheduled
           \/ call'[t].op \in {"schedule", "shutdown"}
    <3>1. CASE \E i \in Scheduled : At(t, "lookup", i)
      <4> PICK i \in Scheduled : At(t, "lookup", i)
        BY <3>1
      <4> QED
        BY <1>0, AtKeeps DEF At, NoCall, Ops
    <3>2. CASE At(t, "schedule", 0) \/ At(t, "shutdown", 0)
      BY <1>0, <3>2, AtKeeps DEF At, NoCall, Ops
    <3> QED
      BY <2>1, <3>1, <3>2
  <2>3. UNCHANGED <<system_time, live_when, timers_, cancelled, worker>>
    BY <1>2 DEF Enter
  <2>4. SpawnsOK'
    BY <2>2, <2>3, SpawnsKept DEF LiveOK
  <2> QED
    BY <2>2, <2>3, <2>4 DEF LiveOK, Scheduled
<1>3. ASSUME NEW t \in Threads, NEW when \in Times, Schedule(t, when) PROVE LiveOK'
  <2>0. /\ system_time' = system_time /\ cancelled' = cancelled
        /\ timers_' = timers_ \cup {Len(live_when) + 1}
    BY <1>3, Zenon DEF Schedule
  <2>1. /\ live_when' \in Seq(Times) /\ Len(live_when') = Len(live_when) + 1
        /\ Scheduled' = Scheduled \cup {Len(live_when) + 1}
        /\ \A i \in Scheduled : live_when'[i] = live_when[i]
    BY <1>3, AppendIndex DEF LiveOK, Schedule, Scheduled
  <2>2. /\ worker' \in Seq(WorkerStates) /\ Len(worker') = Len(worker) + 1
        /\ \A i \in Scheduled : worker'[i] = worker[i]
        /\ worker'[Len(live_when) + 1] = "unborn"
    <3>1. "unborn" \in WorkerStates /\ worker \in Seq(WorkerStates)
      BY DEF LiveOK, WorkerStates
    <3>2. worker' = Append(worker, "unborn") /\ Len(worker) = Len(live_when)
      BY <1>3 DEF LiveOK, Schedule
    <3> QED
      BY <1>0, <3>1, <3>2, AppendIndex
  <2>3. /\ call' \in Calls
        /\ call'[t].op = "spawn" /\ call'[t].id = Len(live_when) + 1
        /\ \A u \in Threads : u # t => call'[u] = call[u]
    <3>1. At(t, "spawn", Len(live_when) + 1)
      BY <1>3 DEF Schedule
    <3> QED
      BY <1>0, <3>1, AtKeeps DEF At, NoCall, Ops
  <2>4. \A u \in Threads : call'[u].op \in {"spawn", "store", "lookup", "cancel"} =>
                             call'[u].id \in Scheduled'
    <3>1. \A u \in Threads : call[u].op \in {"spawn", "store", "lookup", "cancel"} =>
                               call[u].id \in Scheduled
      BY DEF LiveOK
    <3> QED BY <2>1, <2>3, <3>1
  <2>5. \A i \in Scheduled' : worker'[i] = "woken" /\ i \notin cancelled' =>
                                 live_when'[i] <= system_time'
    <3>2. \A i \in Scheduled : worker[i] = "woken" /\ i \notin cancelled =>
                                 live_when[i] <= system_time
      BY DEF LiveOK
    <3> QED BY <2>0, <2>1, <2>2, <3>2
  <2>6. /\ system_time' \in Times /\ Len(worker') = Len(live_when')
        /\ cancelled' \subseteq Scheduled' /\ timers_' \subseteq Scheduled'
    <3>1. /\ system_time \in Times /\ Len(worker) = Len(live_when)
          /\ cancelled \subseteq Scheduled /\ timers_ \subseteq Scheduled
      BY DEF LiveOK
    <3> QED BY <2>0, <2>1, <2>2, <3>1
  <2>7. SpawnsOK'
    <3>1. \A u \in Threads : u # t /\ call'[u].op = "spawn" =>
            /\ call'[u].id \in Scheduled
            /\ worker'[call'[u].id] = "unborn"
      <4>1. \A u \in Threads : call[u].op = "spawn" =>
              call[u].id \in Scheduled /\ worker[call[u].id] = "unborn"
        BY DEF LiveOK, SpawnsOK
      <4> QED BY <2>2, <2>3, <4>1
    <3>2. worker'[call'[t].id] = "unborn" /\ call'[t].id \notin Scheduled
      BY <1>0, <2>2, <2>3
    <3>3. \A u, v \in Threads : /\ u # t /\ v # t
                               /\ call'[u].op = "spawn" /\ call'[v].op = "spawn"
                               /\ call'[v].id = call'[u].id => v = u
      BY <2>3 DEF LiveOK, SpawnsOK
    <3> QED
      BY <3>1, <3>2, <3>3 DEF SpawnsOK
  <2> QED
    BY <2>1, <2>2, <2>3, <2>4, <2>5, <2>6, <2>7 DEF LiveOK
<1>4. ASSUME NEW t \in Threads, Spawn(t) PROVE LiveOK'
  <2>1. call[t].id \in Scheduled
    BY <1>4 DEF LiveOK, Spawn, In
  <2>2. /\ call' \in Calls /\ call'[t].op = "store" /\ call'[t].id = call[t].id
        /\ \A u \in Threads : u # t => call'[u] = call[u]
    <3>1. At(t, "store", call[t].id)
      BY <1>4 DEF Spawn
    <3> QED
      BY <1>0, <3>1, AtKeeps DEF At, NoCall, Ops
  <2>3. /\ worker' \in Seq(WorkerStates) /\ Len(worker') = Len(worker)
        /\ \A i \in Scheduled : worker'[i] = "woken" => worker[i] = "woken"
        /\ \A i \in Scheduled : i # call[t].id => worker'[i] = worker[i]
        /\ call[t].op = "spawn"
    BY <1>4, <2>1 DEF LiveOK, Spawn, Scheduled, WorkerStates, In
  <2>4. SpawnsOK'
    <3>1. \A u \in Threads : u # t /\ call[u].op = "spawn" =>
            call[u].id \in Scheduled /\ call[u].id # call[t].id
      BY <2>3 DEF LiveOK, SpawnsOK
    <3>2. \A u \in Threads : call'[u].op = "spawn" =>
            call'[u] = call[u] /\ worker'[call[u].id] = worker[call[u].id]
      BY <2>2, <2>3, <3>1
    <3> QED
      BY <3>2, SpawnsKept DEF LiveOK
  <2>5. UNCHANGED <<system_time, live_when, timers_, cancelled>>
    BY <1>4 DEF Spawn
  <2> QED
    BY <2>1, <2>2, <2>3, <2>4, <2>5 DEF LiveOK, Scheduled
<1>5. ASSUME NEW t \in Threads, Store(t) \/ Lookup(t) \/ Cancel(t) PROVE LiveOK'
  <2>1. call' = [call EXCEPT ![t] = NoCall] \/ At(t, "cancel", call[t].id)
    BY <1>5 DEF Store, Lookup, Cancel
  <2>2. call[t].id \in Scheduled
    BY <1>5 DEF LiveOK, Store, Lookup, Cancel, In
  <2>3. /\ call' \in Calls
        /\ call'[t].op = "cancel" => call'[t].id \in Scheduled
        /\ call'[t].op \in {"none", "cancel"}
        /\ \A u \in Threads : u # t => call'[u] = call[u]
    BY <1>0, <2>1, <2>2, AtKeeps DEF At, NoCall, Ops
  <2>4. /\ UNCHANGED <<system_time, live_when, timers_, worker>>
        /\ cancelled \subseteq cancelled' /\ cancelled' \subseteq Scheduled
    BY <1>5, <2>2 DEF LiveOK, Store, Lookup, Cancel
  <2>5. SpawnsOK'
    BY <2>3, <2>4, SpawnsKept DEF LiveOK
  <2> QED
    BY <2>3, <2>4, <2>5 DEF LiveOK, Scheduled
<1>6. ASSUME NEW t \in Clients, ShutdownLock(t) \/ ShutdownCancel(t) \/ ShutdownReturn(t)
      PROVE  LiveOK'
  <2>1. t \in Threads
    BY DEF Threads
  <2>2. \/ UNCHANGED call \/ call' = [call EXCEPT ![t] = NoCall]
        \/ At(t, "cancelall", 0) \/ At(t, "join", 0)
    BY <1>6 DEF ShutdownLock, ShutdownCancel, ShutdownReturn
  <2>3. /\ call' \in Calls
        /\ \A u \in Threads : call'[u] = call[u] \/ call'[u].op \in {"none", "cancelall", "join"}
    <3>1. CASE UNCHANGED call
      BY <1>0, <3>1
    <3>2. CASE call' = [call EXCEPT ![t] = NoCall]
      BY <1>0, <2>1, <3>2, AtKeeps DEF At, NoCall, Ops
    <3>3. CASE At(t, "cancelall", 0)
      BY <1>0, <2>1, <3>3, AtKeeps DEF At, NoCall, Ops
    <3>4. CASE At(t, "join", 0)
      BY <1>0, <2>1, <3>4, AtKeeps DEF At, NoCall, Ops
    <3> QED
      BY <2>2, <3>1, <3>2, <3>3, <3>4
  <2>4. /\ timers_' \subseteq Scheduled /\ cancelled \subseteq cancelled'
        /\ cancelled' \subseteq Scheduled
        /\ UNCHANGED <<system_time, live_when, worker>>
    BY <1>6 DEF LiveOK, ShutdownLock, ShutdownCancel, ShutdownReturn
  <2>5. SpawnsOK'
    BY <2>3, <2>4, SpawnsKept DEF LiveOK
  <2> QED
    BY <2>3, <2>4, <2>5 DEF LiveOK, Scheduled
<1>7. ASSUME NEW i \in Scheduled, Wake(i) \/ Check(i) \/ Finish(i) PROVE LiveOK'
  <2>1. /\ worker' \in Seq(WorkerStates) /\ Len(worker') = Len(worker)
        /\ \A j \in Scheduled : worker[j] = "unborn" => worker'[j] = "unborn"
        /\ \A j \in Scheduled : j # i => worker'[j] = worker[j]
        /\ worker'[i] = "woken" /\ i \notin cancelled => live_when[i] <= system_time
    <3>1. CASE Wake(i)
      BY <3>1 DEF LiveOK, Wake, Scheduled, WorkerStates
    <3>2. CASE Check(i)
      BY <3>2 DEF LiveOK, Check, Scheduled, WorkerStates
    <3>3. CASE Finish(i)
      BY <3>3 DEF LiveOK, Finish, Scheduled, WorkerStates
    <3> QED BY <1>7, <3>1, <3>2, <3>3
  <2>2. UNCHANGED <<system_time, live_when, timers_, cancelled, call>>
    BY <1>7 DEF Wake, Check, Finish
  <2>3. SpawnsOK'
    BY <2>1, <2>2 DEF LiveOK, SpawnsOK
  <2> QED
    BY <2>1, <2>2, <2>3 DEF LiveOK, Scheduled
<1>8. CASE UNCHANGED liveVars
  BY <1>8 DEF LiveOK, SpawnsOK, liveVars, Scheduled
<1> QED
  BY <1>1, <1>2, <1>3, <1>4, <1>5, <1>6, <1>7, <1>8 DEF LiveNext

(* Every step of the simulated clock keeps SimOK.                           *)
LEMMA SimOKStep == SimOK /\ [SimNext]_simVars => SimOK'
<1> SUFFICES ASSUME SimOK, [SimNext]_simVars PROVE SimOK'
  OBVIOUS
<1>0. SimIds = 1..Len(sim_when) /\ Len(sim_when) \in Nat /\ DOMAIN taken = SimIds
  BY DEF SimOK, SimIds
<1>1. ASSUME NEW when \in Times, SimSchedule(when) PROVE SimOK'
  <2>1. /\ sim_when' \in Seq(Times) /\ Len(sim_when') = Len(sim_when) + 1
        /\ SimIds' = 1..(Len(sim_when) + 1)
    BY <1>1, AppendIndex DEF SimOK, SimSchedule, SimIds
  <2>2. /\ taken' \in Seq(Nat) /\ Len(taken') = Len(taken) + 1
        /\ \A i \in SimIds : taken'[i] = taken[i]
        /\ taken'[Len(sim_when) + 1] = 0
    BY <1>0, <1>1, AppendIndex DEF SimOK, SimSchedule
  <2>3. /\ UNCHANGED <<current_time_, cancelled_>>
        /\ heap' = heap \cup {Len(sim_when) + 1}
    BY <1>1 DEF SimSchedule
  <2>4. heap' \subseteq SimIds' /\ cancelled_' \subseteq SimIds'
    <3>1. SimIds \cup {Len(sim_when) + 1} \subseteq SimIds'
      BY <1>0, <2>1
    <3> QED BY <2>3, <3>1 DEF SimOK
  <2>5. \A i \in heap' : taken'[i] = 0
    BY <2>2, <2>3 DEF SimOK
  <2> QED BY <2>1, <2>2, <2>3, <2>4, <2>5 DEF SimOK
<1>2. ASSUME NEW t \in Times, SetTime(t) PROVE SimOK'
  BY <1>2 DEF SimOK, SetTime, SimIds, simHistory
<1>3. ASSUME NEW i \in SimIds, SimCancel(i) \/ SkipCancelled(i) PROVE SimOK'
  BY <1>3 DEF SimOK, SimCancel, SkipCancelled, SimIds, simHistory
<1>4. ASSUME NEW i \in SimIds, TakeDue(i) PROVE SimOK'
  BY <1>0, <1>4 DEF SimOK, TakeDue, SimIds
<1>5. CASE \/ ProcessPendingCallbacks \/ TakingEnds \/ CallNext \/ ProcessReturns
           \/ UNCHANGED simVars
  BY <1>5 DEF SimOK, ProcessPendingCallbacks, TakingEnds, CallNext, ProcessReturns, simVars,
              SimIds, simHistory
<1> QED
  BY <1>1, <1>2, <1>3, <1>4, <1>5 DEF SimNext

----------------------------------------------------------------------------
(* A function on 1..n+1 that agrees with one on 1..n is it with one more    *)
(* element.                                                                 *)
LEMMA AppendIs ==
  ASSUME NEW n \in Nat, NEW f, NEW g, NEW S,
         f \in [1..n -> S], g \in [1..(n + 1) -> S], \A i \in 1..n : g[i] = f[i]
  PROVE  g = Append(f, g[n + 1])
<1>1. f \in Seq(S) /\ g[n + 1] \in S /\ Len(f) = n
  BY LenProperties
<1> DEFINE s == Append(f, g[n + 1])
<1>2. /\ s \in Seq(S) /\ DOMAIN s = 1..(n + 1)
      /\ \A i \in 1..n : s[i] = f[i]
      /\ s[n + 1] = g[n + 1]
  BY <1>1, AppendIndex
<1>3. \A i \in 1..(n + 1) : i \in 1..n \/ i = n + 1
  OBVIOUS
<1>4. s = [i \in 1..(n + 1) |-> s[i]] /\ g = [i \in 1..(n + 1) |-> g[i]]
  BY <1>2
<1> QED
  BY <1>2, <1>3, <1>4

TimerStates == {"pending", "fired", "cancelled"}
Timers == [when : Times, state : TimerStates]

(* Every step of the live clock is a step Clock allows, or none.            *)
LEMMA LiveStep ==
  ASSUME LiveOK, LiveOK', LiveNext
  PROVE  Live!Next \/ UNCHANGED Live!vars
<1>0. /\ Scheduled = 1..Len(live_when) /\ Len(live_when) \in Nat
      /\ DOMAIN worker = Scheduled
      /\ \A i \in Scheduled : live_when[i] \in Times
      /\ LiveTimers \in [Scheduled -> Timers]
  BY DEF LiveOK, Scheduled, LiveTimers, Timers, TimerStates
<1>1. CASE Tick
  <2>1. UNCHANGED LiveTimers /\ system_time' \in Times
    BY <1>1 DEF Tick, LiveOK, LiveTimers, Scheduled
  <2> QED
    BY <2>1 DEF Live!Next, Live!Tick, Live!Times, Times
<1>2. ASSUME NEW t \in Threads, NEW when \in Times, Schedule(t, when)
      PROVE  Live!ScheduleCallback(when)
  <2> DEFINE n == Len(live_when)
  <2>1. /\ Scheduled' = 1..(n + 1)
        /\ \A i \in 1..n : live_when'[i] = live_when[i] /\ worker'[i] = worker[i]
        /\ live_when'[n + 1] = when /\ worker'[n + 1] = "unborn"
    <3>1. "unborn" \in WorkerStates /\ worker \in Seq(WorkerStates)
      BY DEF LiveOK, WorkerStates
    <3>2. worker' = Append(worker, "unborn") /\ Len(worker) = n
      BY <1>2 DEF LiveOK, Schedule
    <3>3. live_when \in Seq(Times) /\ live_when' = Append(live_when, when)
      BY <1>2 DEF LiveOK, Schedule
    <3> QED
      BY <1>0, <3>1, <3>2, <3>3, AppendIndex DEF Scheduled
  <2>2. UNCHANGED <<system_time, cancelled>> /\ n + 1 \notin cancelled
    BY <1>0, <1>2 DEF Schedule, LiveOK
  <2>3. LiveTimers' \in [1..(n + 1) -> Timers]
    BY <2>1, <2>2, <1>0, <1>2 DEF LiveTimers, Timers, TimerStates
  <2>4. \A i \in 1..n : LiveTimers'[i] = LiveTimers[i]
    BY <1>0, <2>1, <2>2 DEF LiveTimers
  <2>5. LiveTimers'[n + 1] = [when |-> when, state |-> "pending"]
    BY <1>0, <2>1, <2>2 DEF LiveTimers
  <2>6. LiveTimers' = Append(LiveTimers, LiveTimers'[n + 1])
    <3> HIDE DEF n
    <3> QED
      BY <1>0, <2>3, <2>4, AppendIs DEF n
  <2> QED
    BY <2>2, <2>5, <2>6 DEF Live!ScheduleCallback
(* A flag set: the timer is cancelled, unless its thread has decided.       *)
<1>3. ASSUME NEW i \in Scheduled, cancelled' = cancelled \cup {i},
             UNCHANGED <<system_time, live_when, worker>>
      PROVE  Live!Next \/ UNCHANGED Live!vars
  <2>1. Scheduled' = Scheduled
    BY <1>3 DEF Scheduled
  <2>2. CASE worker[i] \in {"calling", "called"} \/ i \in cancelled
    BY <1>3, <2>1, <2>2 DEF LiveTimers, Live!vars
  <2>3. CASE ~(worker[i] \in {"calling", "called"} \/ i \in cancelled)
    <3>1. LiveTimers' = [LiveTimers EXCEPT ![i].state = "cancelled"]
      BY <1>3, <2>1, <2>3 DEF LiveTimers
    <3>2. i \in Live!Pending
      BY <2>3 DEF Live!Pending, LiveTimers
    <3> QED
      BY <1>3, <3>1, <3>2 DEF Live!Next, Live!CancelCallback
  <2> QED
    BY <2>2, <2>3
<1>4. ASSUME NEW i \in Scheduled, Check(i) PROVE Live!Next \/ UNCHANGED Live!vars
  <2>1. Scheduled' = Scheduled /\ UNCHANGED <<system_time, live_when, cancelled>>
    BY <1>4 DEF Check, Scheduled
  <2>2. CASE i \in cancelled
    BY <1>0, <1>4, <2>1, <2>2 DEF Check, LiveTimers, Live!vars
  <2>3. CASE i \notin cancelled
    <3>1. worker[i] = "woken" /\ worker' = [worker EXCEPT ![i] = "calling"]
      BY <1>4, <2>3 DEF Check
    <3>2. live_when[i] <= system_time
      BY <2>3, <3>1 DEF LiveOK
    <3>3. LiveTimers' = [LiveTimers EXCEPT ![i].state = "fired"]
      BY <1>0, <2>1, <3>1 DEF LiveTimers
    <3>4. i \in Live!Pending /\ LiveTimers[i].when <= system_time
      BY <2>3, <3>1, <3>2 DEF Live!Pending, LiveTimers
    <3> QED
      BY <2>1, <3>3, <3>4 DEF Live!Next, Live!Fire
  <2> QED
    BY <2>2, <2>3
(* The other steps of a thread decide nothing.                              *)
<1>5. ASSUME NEW i \in Scheduled, Wake(i) \/ Finish(i) PROVE UNCHANGED Live!vars
  BY <1>0, <1>5 DEF Wake, Finish, LiveTimers, Live!vars, Scheduled
<1>6. ASSUME NEW t \in Threads, Spawn(t) PROVE UNCHANGED Live!vars
  <2>1. call[t].id \in Scheduled /\ worker[call[t].id] = "unborn"
    BY <1>6 DEF LiveOK, SpawnsOK, Spawn, In
  <2> QED
    BY <1>0, <1>6, <2>1 DEF Spawn, LiveTimers, Live!vars, Scheduled
<1>7. ASSUME NEW t \in Threads, Enter(t) \/ Store(t) \/ Lookup(t)
      PROVE  UNCHANGED Live!vars
  BY <1>7 DEF Enter, Store, Lookup, LiveTimers, Live!vars, Scheduled
<1>8. ASSUME NEW t \in Threads, Cancel(t) PROVE Live!Next \/ UNCHANGED Live!vars
  <2>1. call[t].id \in Scheduled
    BY <1>8 DEF LiveOK, Cancel, In
  <2> QED
    BY <1>3, <1>8, <2>1 DEF Cancel
<1>9. ASSUME NEW t \in Clients, ShutdownCancel(t)
      PROVE  Live!Next \/ UNCHANGED Live!vars
  <2>1. CASE \E i \in timers_ \ cancelled : cancelled' = cancelled \cup {i}
    BY <1>3, <1>9, <2>1 DEF ShutdownCancel, LiveOK
  <2>2. CASE UNCHANGED cancelled
    BY <1>9, <2>2 DEF ShutdownCancel, LiveTimers, Live!vars, Scheduled
  <2> QED
    BY <1>9, <2>1, <2>2 DEF ShutdownCancel
<1>10. ASSUME NEW t \in Clients, ShutdownLock(t) \/ ShutdownReturn(t)
       PROVE  UNCHANGED Live!vars
  BY <1>10 DEF ShutdownLock, ShutdownReturn, LiveTimers, Live!vars, Scheduled
<1> QED
  BY <1>1, <1>2, <1>4, <1>5, <1>6, <1>7, <1>8, <1>9, <1>10
  DEF LiveNext, Live!Next, Live!Times, Times

(* Every step of the simulated clock is a step Clock allows, or none.       *)
LEMMA SimStep ==
  ASSUME SimOK, SimOK', SimNext
  PROVE  Sim!Next \/ UNCHANGED Sim!vars
<1>0. /\ SimIds = 1..Len(sim_when) /\ Len(sim_when) \in Nat
      /\ \A i \in SimIds : sim_when[i] \in Times
      /\ SimTimers \in [SimIds -> Timers]
  BY DEF SimOK, SimIds, SimTimers, Timers, TimerStates
<1>1. ASSUME NEW t \in Times, SetTime(t) PROVE Sim!Next
  <2>1. UNCHANGED SimTimers /\ current_time_' \in Times
    BY <1>1 DEF SetTime, SimOK, SimTimers, SimIds, simHistory
  <2> QED
    BY <2>1 DEF Sim!Next, Sim!Tick, Sim!Times, Times
<1>2. ASSUME NEW when \in Times, SimSchedule(when) PROVE Sim!ScheduleCallback(when)
  <2> DEFINE n == Len(sim_when)
  <2>1. /\ SimIds' = 1..(n + 1)
        /\ \A i \in 1..n : sim_when'[i] = sim_when[i]
        /\ sim_when'[n + 1] = when
    BY <1>0, <1>2, AppendIndex DEF SimSchedule, SimOK, SimIds
  <2>2. /\ UNCHANGED <<current_time_, cancelled_>>
        /\ heap' = heap \cup {n + 1} /\ n + 1 \notin cancelled_
        /\ \A i \in 1..n : taken'[i] = taken[i]
        /\ taken'[n + 1] = 0
    BY <1>0, <1>2, AppendIndex DEF SimSchedule, SimOK
  <2>3. SimTimers' \in [1..(n + 1) -> Timers]
    BY <2>1, <2>2, <1>0 DEF SimTimers, Timers, TimerStates
  <2>4. \A i \in 1..n : SimTimers'[i] = SimTimers[i]
    BY <1>0, <2>1, <2>2 DEF SimTimers
  <2>5. SimTimers'[n + 1] = [when |-> when, state |-> "pending"]
    BY <1>0, <2>1, <2>2 DEF SimTimers
  <2>6. SimTimers' = Append(SimTimers, SimTimers'[n + 1])
    <3> HIDE DEF n
    <3> QED
      BY <1>0, <2>3, <2>4, AppendIs DEF n
  <2> QED
    BY <2>2, <2>5, <2>6 DEF Sim!ScheduleCallback
(* An id put into cancelled_ counts while its timer is in the heap.         *)
<1>3. ASSUME NEW i \in SimIds, SimCancel(i) PROVE Sim!Next \/ UNCHANGED Sim!vars
  <2>1. /\ SimIds' = SimIds /\ cancelled_' = cancelled_ \cup {i}
        /\ UNCHANGED <<current_time_, sim_when, heap, taken>>
    BY <1>3 DEF SimCancel, SimIds, simHistory
  <2>2. CASE i \in heap \ cancelled_
    <3>1. taken[i] = 0
      BY <2>2 DEF SimOK
    <3>2. SimTimers' = [SimTimers EXCEPT ![i].state = "cancelled"]
      <4>1. SimTimers'[i] = [SimTimers[i] EXCEPT !.state = "cancelled"]
        BY <2>1, <2>2, <3>1 DEF SimTimers
      <4>2. \A j \in SimIds : j # i => SimTimers'[j] = SimTimers[j]
        BY <2>1 DEF SimTimers
      <4>3. SimTimers' = [j \in SimIds |-> SimTimers'[j]]
        BY <2>1 DEF SimTimers
      <4>4. SimTimers = [j \in SimIds |-> SimTimers[j]]
        BY DEF SimTimers
      <4> QED BY <4>1, <4>2, <4>3, <4>4
    <3>3. i \in Sim!Pending
      BY <2>2, <3>1 DEF Sim!Pending, SimTimers
    <3> QED
      BY <2>1, <3>2, <3>3 DEF Sim!Next, Sim!CancelCallback
  <2>3. CASE i \notin heap \ cancelled_
    BY <2>1, <2>3 DEF SimTimers, Sim!vars
  <2> QED
    BY <2>2, <2>3
(* What is due leaves the heap: a cancelled timer stays cancelled, another  *)
(* is fired.                                                                *)
<1>4. ASSUME NEW i \in SimIds, TakeDue(i) PROVE Sim!Next
  <2>1. /\ SimIds' = SimIds /\ UNCHANGED <<current_time_, sim_when, cancelled_>>
        /\ heap' = heap \ {i} /\ taken' = [taken EXCEPT ![i] = Len(sim_when)]
    BY <1>4 DEF TakeDue, SimIds
  <2>2. i \in heap \ cancelled_ /\ sim_when[i] <= current_time_ /\ taken[i] = 0
    BY <1>4 DEF TakeDue, TopIsDue, Top, SimOK
  <2>3. DOMAIN taken = SimIds /\ taken'[i] > 0
    BY <1>0, <2>1 DEF SimOK
  <2>4. SimTimers' = [SimTimers EXCEPT ![i].state = "fired"]
    BY <1>0, <2>1, <2>2, <2>3 DEF SimTimers
  <2>5. i \in Sim!Pending /\ SimTimers[i].when <= current_time_
    BY <2>2 DEF Sim!Pending, SimTimers
  <2> QED
    BY <2>1, <2>4, <2>5 DEF Sim!Next, Sim!Fire
<1>5. ASSUME NEW i \in SimIds, SkipCancelled(i) PROVE UNCHANGED Sim!vars
  <2>1. /\ SimIds' = SimIds /\ UNCHANGED <<current_time_, sim_when, taken>>
        /\ heap' \ cancelled_' = heap \ cancelled_
    BY <1>5 DEF SkipCancelled, SimIds, simHistory
  <2> QED BY <2>1 DEF SimTimers, Sim!vars
<1>6. CASE ProcessPendingCallbacks \/ TakingEnds \/ CallNext \/ ProcessReturns
  BY <1>6 DEF ProcessPendingCallbacks, TakingEnds, CallNext, ProcessReturns, SimTimers,
              SimIds, simHistory, Sim!vars
<1> QED
  BY <1>1, <1>2, <1>3, <1>4, <1>5, <1>6 DEF SimNext, Sim!Next, Sim!Times, Times

----------------------------------------------------------------------------
ClocksOK == clock \in {"live", "simulated"} /\ LiveOK /\ SimOK

LEMMA InitOK == Init => ClocksOK
<1> SUFFICES ASSUME Init PROVE ClocksOK
  OBVIOUS
<1> USE ClockBounds
<1>1. LiveOK
  BY DEF Init, LiveInit, LiveOK, SpawnsOK, Scheduled, Times, NoCall, Ops
<1>2. SimOK
  BY DEF Init, SimInit, SimOK, SimIds
<1> QED
  BY <1>1, <1>2 DEF Init, ClocksOK

LEMMA NextOK == ClocksOK /\ [Next]_allVars => ClocksOK'
<1> SUFFICES ASSUME ClocksOK, [Next]_allVars PROVE ClocksOK'
  OBVIOUS
<1>1. [LiveNext]_liveVars /\ [SimNext]_simVars /\ clock' = clock
  BY DEF Next, allVars
<1> QED
  BY <1>1, LiveOKStep, SimOKStep DEF ClocksOK

LEMMA InitKeeps == Init => Promise!Init
<1> SUFFICES ASSUME Init PROVE Promise!Init
  OBVIOUS
<1>1. LiveTimers = <<>> /\ SimTimers = <<>>
  BY DEF Init, LiveInit, SimInit, LiveTimers, SimTimers, Scheduled, SimIds
<1>2. system_time \in Times /\ current_time_ \in Times
  BY ClockBounds DEF Init, LiveInit, SimInit, Times
<1> QED
  BY <1>1, <1>2 DEF Promise!Init, Promise!Times, Times

LEMMA NextKeeps == ClocksOK /\ ClocksOK' /\ [Next]_allVars => [Promise!Next]_Promise!vars
<1> SUFFICES ASSUME ClocksOK, ClocksOK', [Next]_allVars
             PROVE  [Promise!Next]_Promise!vars
  OBVIOUS
<1>1. CASE clock = "live" /\ LiveNext /\ UNCHANGED <<clock, simVars>>
  <2>1. Live!Next \/ UNCHANGED Live!vars
    BY <1>1, LiveStep DEF ClocksOK
  <2> QED
    BY <1>1, <2>1
    DEF Live!Next, Live!vars, Live!Tick, Live!ScheduleCallback, Live!CancelCallback,
        Live!Fire, Live!Pending, Live!Times,
        Promise!Next, Promise!vars, Promise!Tick, Promise!ScheduleCallback,
        Promise!CancelCallback, Promise!Fire, Promise!Pending, Promise!Times
<1>2. CASE clock = "simulated" /\ SimNext /\ UNCHANGED <<clock, liveVars>>
  <2>1. Sim!Next \/ UNCHANGED Sim!vars
    BY <1>2, SimStep DEF ClocksOK
  <2> QED
    BY <1>2, <2>1
    DEF Sim!Next, Sim!vars, Sim!Tick, Sim!ScheduleCallback, Sim!CancelCallback,
        Sim!Fire, Sim!Pending, Sim!Times,
        Promise!Next, Promise!vars, Promise!Tick, Promise!ScheduleCallback,
        Promise!CancelCallback, Promise!Fire, Promise!Pending, Promise!Times
<1>3. CASE UNCHANGED allVars
  BY <1>3 DEF allVars, liveVars, simVars, simHistory, Promise!vars, LiveTimers, SimTimers,
              Scheduled, SimIds
<1> QED
  BY <1>1, <1>2, <1>3 DEF Next

(* With either clock, a callback is called at most once, not before its     *)
(* time, and never once it is cancelled in time: the clocks implement what  *)
(* Clock promises, for any threads that call them.                          *)
THEOREM EitherClockKeepsThePromise == Spec => KeepsThePromise
<1>1. Init => ClocksOK /\ Promise!Init
  BY InitOK, InitKeeps
<1>2. ClocksOK /\ [Next]_allVars => ClocksOK'
  BY NextOK
<1>3. ClocksOK /\ ClocksOK' /\ [Next]_allVars => [Promise!Next]_Promise!vars
  BY NextKeeps
<1> QED
  BY <1>1, <1>2, <1>3, PTL DEF Spec, KeepsThePromise, Promise!Spec

----------------------------------------------------------------------------
(* A thread that a shutdown() found among the clock's threads has ended, or *)
(* the shutdown() that waits for it still holds the mutex.                  *)
SilenceInv ==
  /\ timer_threads_ \subseteq Scheduled /\ stopped \subseteq Scheduled
  /\ \A i \in stopped : Ended(i) \/ (~Free /\ i \in timer_threads_)

(* A thread that has ended does not start again, whoever schedules, cancels *)
(* or shuts down.                                                           *)
LEMMA EndedStays ==
  ASSUME LiveOK, [LiveNext]_liveVars, NEW i \in Scheduled, Ended(i)
  PROVE  i \in Scheduled' /\ Ended(i)'
<1>1. /\ worker \in Seq(WorkerStates) /\ live_when \in Seq(Times)
      /\ Scheduled = 1..Len(live_when) /\ DOMAIN worker = Scheduled
      /\ Len(worker) = Len(live_when) /\ Len(live_when) \in Nat
  BY DEF LiveOK, Scheduled
<1>2. ASSUME UNCHANGED <<live_when, worker>> PROVE i \in Scheduled' /\ Ended(i)'
  BY <1>2 DEF Scheduled, Ended
<1>3. ASSUME NEW t \in Threads, NEW when \in Times, Schedule(t, when)
      PROVE  i \in Scheduled' /\ Ended(i)'
  <2>1. live_when' = Append(live_when, when) /\ worker' = Append(worker, "unborn")
    BY <1>3 DEF Schedule
  <2>2. "unborn" \in WorkerStates
    BY DEF WorkerStates
  <2> QED BY <1>1, <2>1, <2>2, AppendIndex DEF Scheduled, Ended
<1>4. ASSUME NEW t \in Threads, Spawn(t) PROVE i \in Scheduled' /\ Ended(i)'
  <2>1. call[t].id \in Scheduled /\ worker[call[t].id] = "unborn"
    BY <1>4 DEF LiveOK, SpawnsOK, Spawn, In
  <2> QED BY <1>1, <1>4, <2>1 DEF Spawn, Scheduled, Ended
<1>5. ASSUME NEW j \in Scheduled, Wake(j) \/ Check(j) \/ Finish(j)
      PROVE  i \in Scheduled' /\ Ended(i)'
  BY <1>1, <1>5 DEF Wake, Check, Finish, Scheduled, Ended
<1>6. ASSUME NEW t \in Threads, Enter(t) \/ Store(t) \/ Lookup(t) \/ Cancel(t)
      PROVE  i \in Scheduled' /\ Ended(i)'
  BY <1>2, <1>6 DEF Enter, Store, Lookup, Cancel
<1>7. ASSUME NEW t \in Clients, ShutdownLock(t) \/ ShutdownCancel(t) \/ ShutdownReturn(t)
      PROVE  i \in Scheduled' /\ Ended(i)'
  BY <1>2, <1>7 DEF ShutdownLock, ShutdownCancel, ShutdownReturn
<1>8. ASSUME Tick \/ UNCHANGED liveVars PROVE i \in Scheduled' /\ Ended(i)'
  BY <1>2, <1>8 DEF Tick, liveVars
<1> QED
  BY <1>3, <1>4, <1>5, <1>6, <1>7, <1>8 DEF LiveNext

(* Each step of the live clock keeps it.                                    *)
LEMMA SilenceStep == LiveOK /\ SilenceInv /\ [LiveNext]_liveVars => SilenceInv'
<1> SUFFICES ASSUME LiveOK, SilenceInv, [LiveNext]_liveVars PROVE SilenceInv'
  OBVIOUS
<1> USE ClientsAssumption
<1>1. \A i \in Scheduled : Ended(i) => i \in Scheduled' /\ Ended(i)'
  BY EndedStays
<1>2. Scheduled \subseteq Scheduled'
  <2>1. ASSUME NEW t \in Threads, NEW when \in Times, Schedule(t, when)
        PROVE  Scheduled \subseteq Scheduled'
    BY <2>1, AppendIndex DEF LiveOK, Schedule, Scheduled
  <2>2. ASSUME UNCHANGED live_when PROVE Scheduled \subseteq Scheduled'
    BY <2>2 DEF Scheduled
  <2> QED
    BY <2>1, <2>2 DEF LiveNext, Tick, Enter, Spawn, Store, Lookup, Cancel, ShutdownLock,
      ShutdownCancel, ShutdownReturn, Wake, Check, Finish, liveVars
(* A step that leaves the mutex and the map of threads alone.               *)
<1>3. ASSUME UNCHANGED <<timer_threads_, timers_mutex_, stopped>> PROVE SilenceInv'
  BY <1>1, <1>2, <1>3 DEF SilenceInv, Free
<1>4. ASSUME NEW t \in Threads, Store(t) PROVE SilenceInv'
  <2>1. /\ timer_threads_' = timer_threads_ \cup {call[t].id}
        /\ call[t].id \in Scheduled
        /\ UNCHANGED <<timers_mutex_, stopped>> /\ timers_mutex_ = None
    BY <1>4 DEF Store, In, LiveOK, Free
  <2> QED BY <1>1, <1>2, <2>1 DEF SilenceInv, Free
<1>5. ASSUME NEW t \in Clients, ShutdownLock(t) PROVE SilenceInv'
  <2>1. /\ timers_mutex_ = None /\ timers_mutex_' = t /\ t # None
        /\ stopped' = stopped \cup timer_threads_ /\ timer_threads_' = timer_threads_
    BY <1>5 DEF ShutdownLock, Free
  <2> QED BY <1>1, <1>2, <2>1 DEF SilenceInv, Free
<1>6. ASSUME NEW t \in Clients, ShutdownReturn(t) PROVE SilenceInv'
  <2>1. /\ \A i \in timer_threads_ : Ended(i)
        /\ timer_threads_' = {} /\ stopped' = stopped
    BY <1>6 DEF ShutdownReturn
  <2> QED BY <1>1, <1>2, <2>1 DEF SilenceInv
<1>7. ASSUME NEW t \in Threads, \/ Enter(t) \/ Spawn(t) \/ Lookup(t) \/ Cancel(t)
                                \/ \E when \in Times : Schedule(t, when)
      PROVE  SilenceInv'
  BY <1>3, <1>7 DEF Enter, Spawn, Lookup, Cancel, Schedule
<1>8. ASSUME \/ \E t \in Clients : ShutdownCancel(t)
             \/ \E i \in Scheduled : Wake(i) \/ Check(i) \/ Finish(i)
             \/ Tick \/ UNCHANGED liveVars
      PROVE  SilenceInv'
  BY <1>3, <1>8 DEF ShutdownCancel, Wake, Check, Finish, Tick, liveVars
<1> QED
  BY <1>4, <1>5, <1>6, <1>7, <1>8 DEF LiveNext

(* Once shutdown() has returned, every thread it found has ended, however   *)
(* many threads schedule, cancel and shut down meanwhile: what the          *)
(* callbacks use can be destroyed.                                          *)
THEOREM ShutdownJoinsWhatItFound == Spec => []ShutdownSilences
<1>1. Init => ClocksOK /\ SilenceInv
  <2>1. Init => SilenceInv
    BY DEF Init, LiveInit, SilenceInv, Scheduled
  <2> QED BY <2>1, InitOK
<1>2. ClocksOK /\ SilenceInv /\ [Next]_allVars => SilenceInv'
  <2> SUFFICES ASSUME ClocksOK, SilenceInv, [Next]_allVars PROVE SilenceInv'
    OBVIOUS
  <2>1. [LiveNext]_liveVars
    BY DEF Next, allVars
  <2> QED BY <2>1, SilenceStep DEF ClocksOK
<1>3. SilenceInv => ShutdownSilences
  BY DEF SilenceInv, ShutdownSilences
<1> QED BY <1>1, <1>2, <1>3, NextOK, PTL DEF Spec

----------------------------------------------------------------------------
(* Some timer of a heap that is not empty is on top.                        *)
LEMMA EarliestExists == ASSUME SimOK, heap # {} PROVE \E i \in heap : Top(i)
<1> DEFINE Before(i) == 0..sim_when[i]
           T == {Before(i) : i \in heap}
           R == StrictSubsetOrdering(Nat)
<1>0. \A i \in heap : sim_when[i] \in Nat
  BY ClockBounds DEF SimOK, SimIds, Times
<1>1. T \subseteq FiniteSubsetsOf(Nat) /\ T # {}
  <2>1. ASSUME NEW i \in heap PROVE Before(i) \in SUBSET Nat /\ IsFiniteSet(Before(i))
    BY <1>0, FS_Interval
  <2> QED BY <2>1 DEF FiniteSubsetsOf
<1>2. PICK x \in T : \A y \in T : ~ (<<y, x>> \in R)
  <2>1. IsWellFoundedOn(R, FiniteSubsetsOf(Nat))
    BY FS_StrictSubsetOrderingWellFounded
  <2> HIDE DEF T, R
  <2> QED BY <1>1, <2>1, WFMin
<1>3. PICK i \in heap : x = Before(i)
  OBVIOUS
<1>4. ASSUME NEW j \in heap, sim_when[j] < sim_when[i] PROVE FALSE
  <2>1. /\ Before(j) \in SUBSET Nat /\ Before(i) \in SUBSET Nat
        /\ Before(j) \subseteq Before(i) /\ Before(j) # Before(i)
    <3>1. sim_when[i] \in Before(i) /\ sim_when[i] \notin Before(j)
      BY <1>0, <1>4
    <3> QED BY <1>0, <1>4, <3>1
  <2>2. <<Before(j), Before(i)>> \in R
    BY <2>1 DEF StrictSubsetOrdering
  <2> QED BY <1>2, <1>3, <2>2
<1>5. \A j \in heap : sim_when[i] <= sim_when[j]
  BY <1>0, <1>4
<1> QED BY <1>5 DEF Top

(* What has been taken comes no later than what is still in the heap, or    *)
(* that was scheduled since.                                                *)
TakenBehind ==
  \A a \in DOMAIN CallOrder :
    /\ taken[CallOrder[a]] > 0 /\ taken[CallOrder[a]] <= Len(sim_when)
    /\ \A i \in heap : sim_when[CallOrder[a]] <= sim_when[i] \/ i > taken[CallOrder[a]]

TimeInv ==
  /\ ready \in Seq(SimIds) /\ called \in Seq(SimIds)
  /\ asof.ids \in 0..Len(sim_when)
  /\ TakenBehind /\ DueTakenInOrder

(* The head of one sequence put behind another.                             *)
LEMMA HeadPassed ==
  ASSUME NEW S, NEW s \in Seq(S), NEW r \in Seq(S), r # <<>>
  PROVE  /\ Append(s, Head(r)) \in Seq(S) /\ Tail(r) \in Seq(S)
         /\ Append(s, Head(r)) \o Tail(r) = s \o r
<1> DEFINE h == Head(r)
           t == Tail(r)
<1>1. h \in S /\ t \in Seq(S) /\ Len(t) = Len(r) - 1 /\ Len(r) \in Nat \ {0}
      /\ r[1] = h /\ \A i \in 1..Len(t) : t[i] = r[i + 1]
  BY HeadTailProperties, LenProperties, EmptySeq
<1>2. Append(s, h) \in Seq(S) /\ Len(Append(s, h)) = Len(s) + 1 /\ Len(s) \in Nat
      /\ Append(s, h)[Len(s) + 1] = h
      /\ \A i \in 1..Len(s) : Append(s, h)[i] = s[i]
  BY <1>1, AppendIndex, LenProperties
<1> HIDE DEF h, t
<1>3. /\ Append(s, h) \o t \in Seq(S) /\ s \o r \in Seq(S)
      /\ Len(Append(s, h) \o t) = Len(s \o r)
      /\ \A i \in 1..Len(s \o r) : (Append(s, h) \o t)[i] = (s \o r)[i]
  <2>1. /\ Len(Append(s, h) \o t) = Len(s) + Len(r)
        /\ \A i \in 1..(Len(s) + Len(r)) : (Append(s, h) \o t)[i] =
             IF i <= Len(s) + 1 THEN Append(s, h)[i] ELSE t[i - (Len(s) + 1)]
    <3> DEFINE q == Append(s, h)
    <3>1. q \in Seq(S) /\ Len(q) = Len(s) + 1
      BY <1>2
    <3> HIDE DEF q
    <3>2. /\ Len(q \o t) = Len(q) + Len(t)
          /\ \A i \in 1..(Len(q) + Len(t)) :
               (q \o t)[i] = IF i <= Len(q) THEN q[i] ELSE t[i - Len(q)]
      BY <1>1, <3>1, ConcatProperties
    <3>3. Len(q) + Len(t) = Len(s) + Len(r)
      BY <1>1, <1>2, <3>1
    <3>4. \A i \in 1..(Len(s) + Len(r)) :
            (q \o t)[i] = IF i <= Len(s) + 1 THEN q[i] ELSE t[i - (Len(s) + 1)]
      BY <3>1, <3>2, <3>3
    <3> QED BY <3>2, <3>3, <3>4 DEF q
  <2>2. /\ Len(s \o r) = Len(s) + Len(r)
        /\ \A i \in 1..(Len(s) + Len(r)) :
             (s \o r)[i] = IF i <= Len(s) THEN s[i] ELSE r[i - Len(s)]
    BY ConcatProperties
  <2>3. ASSUME NEW i \in 1..(Len(s) + Len(r))
        PROVE  (Append(s, h) \o t)[i] = (s \o r)[i]
    <3>1. CASE i <= Len(s)
      BY <1>2, <2>1, <2>2, <3>1
    <3>2. CASE i = Len(s) + 1
      BY <1>1, <1>2, <2>1, <2>2, <3>2
    <3>3. CASE i > Len(s) + 1
      <4>1. i - (Len(s) + 1) \in 1..Len(t) /\ i - (Len(s) + 1) + 1 = i - Len(s)
        BY <1>1, <1>2, <3>3
      <4>2. t[i - (Len(s) + 1)] = r[i - Len(s)]
        BY <1>1, <4>1
      <4> QED BY <1>2, <2>1, <2>2, <3>3, <4>2
    <3> QED BY <1>1, <1>2, <3>1, <3>2, <3>3
  <2>4. Append(s, h) \o t \in Seq(S) /\ s \o r \in Seq(S)
    BY <1>1, <1>2, ConcatProperties
  <2> QED BY <2>1, <2>2, <2>3, <2>4
<1>4. Append(s, h) \o t = s \o r
  <2> DEFINE u == Append(s, h) \o t
             v == s \o r
  <2>1. u \in Seq(S) /\ v \in Seq(S) /\ Len(u) = Len(v) /\ \A i \in 1..Len(v) : u[i] = v[i]
    BY <1>3
  <2> HIDE DEF u, v
  <2>2. u = v
    BY <2>1, SeqEqual
  <2> QED BY <2>2 DEF u, v
<1> QED BY <1>1, <1>2, <1>4 DEF h, t

(* One more at the end of two sequences.                                    *)
LEMMA AppendBoth ==
  ASSUME NEW S, NEW s \in Seq(S), NEW r \in Seq(S), NEW e \in S
  PROVE  /\ Append(r, e) \in Seq(S)
         /\ DOMAIN (s \o r) = 1..Len(s \o r) /\ Len(s \o r) \in Nat
         /\ DOMAIN (s \o Append(r, e)) = 1..(Len(s \o r) + 1)
         /\ \A i \in 1..Len(s \o r) : (s \o Append(r, e))[i] = (s \o r)[i]
         /\ (s \o Append(r, e))[Len(s \o r) + 1] = e
<1> DEFINE q == Append(r, e)
           m == Len(s) + Len(r)
<1>1. /\ q \in Seq(S) /\ Len(q) = Len(r) + 1 /\ q[Len(r) + 1] = e
      /\ \A i \in 1..Len(r) : q[i] = r[i]
      /\ Len(s) \in Nat /\ Len(r) \in Nat
  BY AppendIndex, LenProperties
<1> HIDE DEF q
<1>2. /\ s \o r \in Seq(S) /\ Len(s \o r) = m
      /\ \A i \in 1..m : (s \o r)[i] = IF i <= Len(s) THEN s[i] ELSE r[i - Len(s)]
  BY ConcatProperties
<1>3. /\ s \o q \in Seq(S) /\ Len(s \o q) = m + 1
      /\ \A i \in 1..(m + 1) : (s \o q)[i] = IF i <= Len(s) THEN s[i] ELSE q[i - Len(s)]
  <2>1. /\ s \o q \in Seq(S) /\ Len(s \o q) = Len(s) + Len(q)
        /\ \A i \in 1..(Len(s) + Len(q)) :
             (s \o q)[i] = IF i <= Len(s) THEN s[i] ELSE q[i - Len(s)]
    BY <1>1, ConcatProperties
  <2>2. Len(s) + Len(q) = m + 1
    BY <1>1
  <2> QED BY <2>1, <2>2
<1>4. ASSUME NEW i \in 1..m PROVE (s \o q)[i] = (s \o r)[i]
  BY <1>1, <1>2, <1>3
<1>5. (s \o q)[m + 1] = e
  BY <1>1, <1>3
<1>6. DOMAIN (s \o r) = 1..m /\ DOMAIN (s \o q) = 1..(m + 1)
  BY <1>2, <1>3, LenProperties
<1> QED BY <1>1, <1>2, <1>4, <1>5, <1>6 DEF q

(* Each step of the simulated clock keeps it.                               *)
LEMMA TimeStep == SimOK /\ SimOK' /\ TimeInv /\ [SimNext]_simVars => TimeInv'
<1> SUFFICES ASSUME SimOK, SimOK', TimeInv, [SimNext]_simVars PROVE TimeInv'
  OBVIOUS
<1> DEFINE n == Len(sim_when)
           o == CallOrder
<1>1. /\ SimIds = 1..n /\ n \in Nat /\ heap \subseteq SimIds
      /\ \A i \in SimIds : sim_when[i] \in Nat
      /\ taken \in Seq(Nat) /\ DOMAIN taken = SimIds
      /\ \A i \in SimIds : taken[i] \in Nat
  BY ClockBounds DEF SimOK, SimIds, Times
<1>2. o \in Seq(SimIds) /\ \A a \in DOMAIN o : o[a] \in SimIds
  <2>1. o \in Seq(SimIds)
    BY ConcatProperties DEF TimeInv, CallOrder
  <2> HIDE DEF o
  <2> QED BY <2>1, ElementOfSeq, LenProperties
(* A step that at most takes a timer out of the heap.                       *)
<1>3. ASSUME UNCHANGED <<sim_when, taken, asof, CallOrder>>, heap' \subseteq heap,
             ready' \in Seq(SimIds), called' \in Seq(SimIds)
      PROVE  TimeInv'
  <2>1. SimIds' = SimIds
    BY <1>3 DEF SimIds
  <2> QED BY <1>3, <2>1 DEF TimeInv, TakenBehind, DueTakenInOrder, TimeOrder, NothingLeft
<1>4. ASSUME NEW when \in Times, SimSchedule(when) PROVE TimeInv'
  <2>1. /\ SimIds' = 1..(n + 1) /\ Len(sim_when') = n + 1
        /\ \A i \in SimIds : sim_when'[i] = sim_when[i]
    BY <1>1, <1>4, AppendIndex DEF SimOK, SimSchedule, SimIds
  <2>2. \A i \in SimIds : taken'[i] = taken[i]
    BY <1>1, <1>4, AppendIndex DEF SimSchedule
  <2>3. heap' = heap \cup {n + 1} /\ UNCHANGED <<ready, called, asof, CallOrder>>
    BY <1>4 DEF SimSchedule, CallOrder
  <2>4. ready' \in Seq(SimIds') /\ called' \in Seq(SimIds')
    <3>1. SimIds \subseteq SimIds'
      BY <1>1, <2>1
    <3> QED BY <2>3, <3>1 DEF TimeInv
  <2>5. TakenBehind'
    <3> SUFFICES ASSUME NEW a \in DOMAIN o
                 PROVE  /\ taken'[o[a]] > 0 /\ taken'[o[a]] <= n + 1
                        /\ \A i \in heap' : sim_when'[o[a]] <= sim_when'[i] \/ i > taken'[o[a]]
      BY <2>1, <2>3 DEF TakenBehind
    <3>1. /\ taken[o[a]] > 0 /\ taken[o[a]] <= n /\ taken[o[a]] \in Nat
          /\ \A i \in heap : sim_when[o[a]] <= sim_when[i] \/ i > taken[o[a]]
      BY <1>1, <1>2 DEF TimeInv, TakenBehind
    <3> HIDE DEF o
    <3> QED BY <1>1, <1>2, <2>1, <2>2, <2>3, <3>1
  <2>6. TimeOrder'
    BY <1>2, <2>1, <2>2, <2>3 DEF TimeInv, DueTakenInOrder, TimeOrder
  <2>7. NothingLeft'
    <3> SUFFICES ASSUME NEW i \in heap', i <= asof.ids PROVE sim_when'[i] > asof.time
      BY <2>3 DEF NothingLeft
    <3>1. i \in heap
      BY <1>1, <2>3 DEF TimeInv
    <3> QED BY <1>1, <2>1, <3>1 DEF TimeInv, DueTakenInOrder, NothingLeft
  <2>8. asof'.ids \in 0..Len(sim_when')
    BY <1>1, <2>1, <2>3 DEF TimeInv
  <2> QED BY <2>4, <2>5, <2>6, <2>7, <2>8 DEF TimeInv, DueTakenInOrder
(* A timer taken goes behind all that were taken before.                    *)
<1>5. ASSUME NEW i \in SimIds, TakeDue(i) PROVE TimeInv'
  <2>1. /\ i \in heap /\ taken[i] = 0
        /\ \A j \in heap : sim_when[i] <= sim_when[j]
    BY <1>5 DEF TakeDue, TopIsDue, Top, SimOK
  <2>2. /\ heap' = heap \ {i} /\ ready' = Append(ready, i)
        /\ taken' = [taken EXCEPT ![i] = n]
        /\ UNCHANGED <<sim_when, called, asof>>
    BY <1>5 DEF TakeDue
  <2> DEFINE m == Len(o)
  <2>3. /\ ready' \in Seq(SimIds) /\ m \in Nat
        /\ DOMAIN o = 1..m /\ DOMAIN CallOrder' = 1..(m + 1)
        /\ \A a \in 1..m : CallOrder'[a] = o[a]
        /\ CallOrder'[m + 1] = i
    BY <2>2, AppendBoth DEF TimeInv, CallOrder
  <2> HIDE DEF o, m
  <2>4. SimIds' = SimIds
    BY <2>2 DEF SimIds
  <2>5. /\ taken'[i] = n /\ n > 0
        /\ \A a \in 1..m : o[a] # i /\ taken'[o[a]] = taken[o[a]] /\ o[a] \in SimIds
    <3>1. \A a \in 1..m : taken[o[a]] > 0 /\ o[a] \in SimIds
      BY <1>2, <2>3 DEF TimeInv, TakenBehind, o
    <3> QED BY <1>1, <2>1, <2>2, <3>1
  <2>6. \A a \in 1..m : /\ taken[o[a]] > 0 /\ taken[o[a]] <= n
                        /\ \A j \in heap : sim_when[o[a]] <= sim_when[j] \/ j > taken[o[a]]
    BY <2>3 DEF TimeInv, TakenBehind, o
  <2>7. \A a \in 1..(m + 1) : a \in 1..m \/ a = m + 1
    BY <2>3
  <2>8. TakenBehind'
    <3>1. ASSUME NEW a \in 1..m
          PROVE  /\ taken'[CallOrder'[a]] > 0 /\ taken'[CallOrder'[a]] <= Len(sim_when')
                 /\ \A j \in heap' : \/ sim_when'[CallOrder'[a]] <= sim_when'[j]
                                     \/ j > taken'[CallOrder'[a]]
      BY <2>2, <2>3, <2>5, <2>6
    <3>2. /\ taken'[CallOrder'[m + 1]] > 0 /\ taken'[CallOrder'[m + 1]] <= Len(sim_when')
          /\ \A j \in heap' : sim_when'[CallOrder'[m + 1]] <= sim_when'[j]
      BY <1>1, <2>1, <2>2, <2>3, <2>5
    <3> QED BY <2>3, <2>7, <3>1, <3>2 DEF TakenBehind
  <2>9. TimeOrder'
    <3> SUFFICES ASSUME NEW a \in 1..(m + 1), NEW b \in 1..(m + 1), a < b
                 PROVE  \/ sim_when'[CallOrder'[a]] <= sim_when'[CallOrder'[b]]
                        \/ CallOrder'[b] > taken'[CallOrder'[a]]
      BY <2>3 DEF TimeOrder
    <3>1. a \in 1..m
      BY <2>3
    <3>2. CASE b \in 1..m
      <4>1. sim_when[o[a]] <= sim_when[o[b]] \/ o[b] > taken[o[a]]
        BY <2>3, <3>1, <3>2 DEF TimeInv, DueTakenInOrder, TimeOrder, o
      <4> QED BY <2>2, <2>3, <2>5, <3>1, <3>2, <4>1
    <3>3. CASE b = m + 1
      <4>1. sim_when[o[a]] <= sim_when[i] \/ i > taken[o[a]]
        BY <2>1, <2>6, <3>1
      <4> QED BY <2>2, <2>3, <2>5, <3>1, <3>3, <4>1
    <3> QED BY <2>7, <3>2, <3>3
  <2>10. NothingLeft'
    BY <2>2 DEF TimeInv, DueTakenInOrder, NothingLeft
  <2> QED BY <2>2, <2>3, <2>4, <2>8, <2>9, <2>10 DEF TimeInv, DueTakenInOrder
<1>6. CASE TakingEnds
  <2>1. /\ UNCHANGED <<sim_when, heap, ready, called, taken, CallOrder, current_time_>>
        /\ asof' = [ids |-> n, time |-> current_time_]
    BY <1>6 DEF TakingEnds, TakingEnded, CallOrder
  <2>2. \A j \in heap : sim_when[j] > current_time_
    <3> SUFFICES ASSUME NEW j \in heap, ~(sim_when[j] > current_time_) PROVE FALSE
      OBVIOUS
    <3>1. PICK i \in heap : Top(i)
      BY EarliestExists
    <3>2. sim_when[i] <= sim_when[j] /\ sim_when[i] \in Nat /\ sim_when[j] \in Nat
      BY <1>1, <3>1 DEF Top
    <3>3. current_time_ \in Nat
      BY ClockBounds DEF SimOK, Times
    <3>4. TopIsDue(i)
      BY <3>1, <3>2, <3>3 DEF TopIsDue
    <3> QED BY <1>6, <3>4 DEF TakingEnds
  <2>3. SimIds' = SimIds
    BY <2>1 DEF SimIds
  <2> QED BY <1>1, <2>1, <2>2, <2>3
          DEF TimeInv, TakenBehind, DueTakenInOrder, TimeOrder, NothingLeft
<1>7. CASE CallNext
  <2>1. /\ ready # <<>> /\ ready' = Tail(ready) /\ called' = Append(called, Head(ready))
        /\ UNCHANGED <<sim_when, heap, taken, asof>>
    BY <1>7 DEF CallNext
  <2>2. CallOrder' = CallOrder /\ ready' \in Seq(SimIds) /\ called' \in Seq(SimIds)
    BY <2>1, HeadPassed DEF TimeInv, CallOrder
  <2> QED BY <1>3, <2>1, <2>2
<1>8. ASSUME NEW i \in SimIds, SimCancel(i) \/ SkipCancelled(i) PROVE TimeInv'
  BY <1>3, <1>8 DEF SimCancel, SkipCancelled, simHistory, CallOrder, TimeInv
<1>9. CASE \/ \E t \in Times : SetTime(t)
           \/ ProcessPendingCallbacks \/ ProcessReturns \/ UNCHANGED simVars
  BY <1>3, <1>9 DEF SetTime, ProcessPendingCallbacks, ProcessReturns, simVars, simHistory,
                    CallOrder, TimeInv
<1> QED
  BY <1>4, <1>5, <1>6, <1>7, <1>8, <1>9 DEF SimNext

(* In a backtest no callback is called before an earlier one that was there *)
(* when it was taken, in one process_pending_callbacks() or in another and  *)
(* however the time is set, and each call takes all that is due, cancelled  *)
(* timers on top of the heap or not.                                        *)
THEOREM DueIsTakenInOrder == Spec => []DueTakenInOrder
<1>1. Init => TimeInv
  <2> SUFFICES ASSUME Init PROVE TimeInv
    OBVIOUS
  <2>1. /\ sim_when = <<>> /\ ready = <<>> /\ called = <<>> /\ heap = {}
        /\ asof.ids = 0
    BY DEF Init, SimInit
  <2>2. CallOrder = <<>> /\ DOMAIN CallOrder = {}
    BY <2>1 DEF CallOrder
  <2>3. ready \in Seq(SimIds) /\ called \in Seq(SimIds) /\ asof.ids \in 0..Len(sim_when)
    BY <2>1, EmptySeq
  <2> QED BY <2>1, <2>2, <2>3
          DEF TimeInv, TakenBehind, DueTakenInOrder, TimeOrder, NothingLeft
<1>2. ClocksOK /\ ClocksOK' /\ TimeInv /\ [Next]_allVars => TimeInv'
  <2> SUFFICES ASSUME ClocksOK, ClocksOK', TimeInv, [Next]_allVars PROVE TimeInv'
    OBVIOUS
  <2>1. [SimNext]_simVars
    BY DEF Next, allVars
  <2> QED BY <2>1, TimeStep DEF ClocksOK
<1>3. TimeInv => DueTakenInOrder
  BY DEF TimeInv
<1> QED BY <1>1, <1>2, <1>3, InitOK, NextOK, PTL DEF Spec
=============================================================================
