----------------------------- MODULE MessageBus -----------------------------
(***************************************************************************)
(* The event bus of npcTrading (message_bus.hpp, message_bus.cpp): a       *)
(* bounded queue that any thread fills with send() and publish(), that one *)
(* thread empties with run(), and that stop() empties while it holds the   *)
(* queue's mutex.  Handlers run on the thread that dispatches and call the *)
(* bus again, so the state keeps one dispatch frame per loop of the code:  *)
(* "run" for the loop of run(), "drain" for the loop of stop().            *)
(***************************************************************************)
EXTENDS Naturals, Sequences, FiniteSets

CONSTANTS
  Threads,       \* the threads that call the bus
  Loop,          \* the one that calls start() and run() (TradingNode, main)
  Stoppers,      \* the threads that call stop()
  HandlerOps,    \* what the installed handlers call: "send", "subscription",
                 \* "endpoint", "start", "stop"
  Messages,      \* one message per send() or publish() call
  Endpoints, Topics,
  Dest,          \* where each message goes: an endpoint or a topic
  MaxQueueSize,  \* MessageBusConfig::max_queue_size
  MaxTokens,     \* bound: how many subscriptions are ever made
  MaxStarts,     \* bound: how often the bus is started
  None

Tokens   == 1..MaxTokens
Handlers == Endpoints \cup Tokens
Loops    == {"run", "drain"}

ASSUME ThreadsAssumption == Loop \in Threads /\ Stoppers \subseteq Threads
ASSUME DestAssumption    == Dest \in [Messages -> Endpoints \cup Topics]
ASSUME BoundsAssumption  ==
  MaxQueueSize \in Nat \ {0} /\ MaxTokens \in Nat /\ MaxStarts \in Nat
ASSUME NoneAssumption    ==
  None \notin Threads /\ None \notin Messages /\ None \notin Handlers
ASSUME HandlersAssumption == Endpoints \cap Tokens = {}

VARIABLES
  running,           \* running_
  message_queue,     \* message_queue_
  queue_owner,       \* the thread that holds queue_mutex_ from step to step
  message_handlers,  \* the endpoints that have a handler
  subscribers,       \* topic -> tokens (an empty set: no entry)
  token_to_topic,    \* token -> topic, for the live tokens
  next_token,
  pc,                \* where each thread is inside send(), publish() or stop()
  pushing,           \* the message a thread is about to queue
  run_pc,            \* where Loop is in run()
  frame,             \* the dispatch in progress in each of the two loops
  fresh,             \* messages nobody has sent yet
  starts,
  accepted, begun, calls   \* history: queued, dispatched, <<handler, message>>

queueVars == <<running, message_queue, queue_owner>>
subVars   == <<message_handlers, subscribers, token_to_topic, next_token>>
sendVars  == <<pushing, fresh, accepted>>
vars == <<queueVars, subVars, sendVars, pc, run_pc, frame, starts, begun, calls>>

Frame     == [msg : Messages \cup {None}, copied : BOOLEAN,
              todo : SUBSET Handlers, cur : Handlers \cup {None}]
IdleFrame == [msg |-> None, copied |-> FALSE, todo |-> {}, cur |-> None]

Init ==
  /\ running = FALSE /\ message_queue = <<>> /\ queue_owner = None
  /\ message_handlers = {} /\ next_token = 1
  /\ subscribers = [t \in Topics |-> {}] /\ token_to_topic = [k \in {} |-> None]
  /\ pc = [t \in Threads |-> "idle"] /\ pushing = [t \in Threads |-> None]
  /\ run_pc = "out" /\ frame = [f \in Loops |-> IdleFrame]
  /\ fresh = Messages /\ starts = 0
  /\ accepted = <<>> /\ begun = <<>> /\ calls = <<>>

-----------------------------------------------------------------------------
(* Who may call what.  A drain inside a handler suspends the frame of run().*)

Dispatcher(f) == IF f = "drain" THEN queue_owner ELSE Loop

Active(f) ==
  IF f = "drain" THEN queue_owner # None
                 ELSE run_pc = "busy" /\ queue_owner # Loop

InHandler(t) ==
  \E f \in Loops : Active(f) /\ Dispatcher(f) = t /\ frame[f].cur # None

AtTop(t) == queue_owner # t /\ (t = Loop => run_pc = "out")

MayCall(t, op) ==
  pc[t] = "idle" /\ (AtTop(t) \/ (InHandler(t) /\ op \in HandlerOps))

-----------------------------------------------------------------------------
(* send() and publish(): running_ is read before queue_mutex_ is taken.     *)

\* Mutant: running_ is not looked at.
SendUnchecked(t, m) ==
  /\ MayCall(t, "send") /\ m \in fresh
  /\ fresh' = fresh \ {m}
  /\ pc' = [pc EXCEPT ![t] = "push"] /\ pushing' = [pushing EXCEPT ![t] = m]
  /\ UNCHANGED <<queueVars, subVars, run_pc, frame, starts, accepted, begun, calls>>

Send(t, m) ==
  /\ MayCall(t, "send") /\ m \in fresh
  /\ running
  /\ fresh' = fresh \ {m}
  /\ pc' = [pc EXCEPT ![t] = "push"] /\ pushing' = [pushing EXCEPT ![t] = m]
  /\ UNCHANGED <<queueVars, subVars, run_pc, frame, starts, accepted, begun, calls>>

Refuse(t, m) ==
  /\ MayCall(t, "send") /\ m \in fresh
  /\ ~running
  /\ fresh' = fresh \ {m}
  /\ UNCHANGED <<queueVars, subVars, pc, pushing, run_pc, frame, starts,
                 accepted, begun, calls>>

HasRoom == Len(message_queue) < MaxQueueSize

Pushed(t) ==
  /\ pc[t] = "push" /\ queue_owner = None
  /\ pc' = [pc EXCEPT ![t] = "idle"] /\ pushing' = [pushing EXCEPT ![t] = None]
  /\ UNCHANGED <<running, queue_owner, subVars, run_pc, frame, fresh, starts,
                 begun, calls>>

Enqueue(t) ==
  /\ Pushed(t) /\ HasRoom
  /\ message_queue' = Append(message_queue, pushing[t])
  /\ accepted' = Append(accepted, pushing[t])

DropFull(t) == Pushed(t) /\ ~HasRoom /\ UNCHANGED <<message_queue, accepted>>

-----------------------------------------------------------------------------
(* Endpoints (registered by Loop only: the maps have no lock) and topics.   *)

Register(e) ==
  /\ MayCall(Loop, "endpoint")
  /\ message_handlers' = message_handlers \cup {e}
  /\ UNCHANGED <<queueVars, sendVars, subscribers, token_to_topic, next_token, pc,
                 run_pc, frame, starts, begun, calls>>

Unregister(e) ==
  /\ MayCall(Loop, "endpoint")
  /\ message_handlers' = message_handlers \ {e}
  /\ UNCHANGED <<queueVars, sendVars, subscribers, token_to_topic, next_token, pc,
                 run_pc, frame, starts, begun, calls>>

Forget(ks) ==
  token_to_topic' = [k \in DOMAIN token_to_topic \ ks |-> token_to_topic[k]]

Subscribe(t, topic) ==
  /\ MayCall(t, "subscription") /\ next_token <= MaxTokens
  /\ next_token' = next_token + 1
  /\ subscribers' = [subscribers EXCEPT ![topic] = @ \cup {next_token}]
  /\ token_to_topic' = [k \in DOMAIN token_to_topic \cup {next_token} |->
                          IF k = next_token THEN topic ELSE token_to_topic[k]]
  /\ UNCHANGED <<queueVars, sendVars, message_handlers, pc, run_pc, frame, starts,
                 begun, calls>>

\* Mutant: only the reverse map is cleaned.
UnsubscribeHalf(t, k) ==
  /\ MayCall(t, "subscription") /\ k \in DOMAIN token_to_topic
  /\ Forget({k})
  /\ UNCHANGED <<queueVars, sendVars, message_handlers, subscribers, next_token, pc,
                 run_pc, frame, starts, begun, calls>>

Unsubscribe(t, k) ==
  /\ MayCall(t, "subscription") /\ k \in DOMAIN token_to_topic
  /\ subscribers' = [subscribers EXCEPT ![token_to_topic[k]] = @ \ {k}]
  /\ Forget({k})
  /\ UNCHANGED <<queueVars, sendVars, message_handlers, next_token, pc, run_pc,
                 frame, starts, begun, calls>>

\* Mutant: the reverse map keeps the topic's tokens.
UnsubscribeAllHalf(t, topic) ==
  /\ MayCall(t, "subscription")
  /\ subscribers' = [subscribers EXCEPT ![topic] = {}]
  /\ UNCHANGED <<queueVars, sendVars, message_handlers, token_to_topic, next_token,
                 pc, run_pc, frame, starts, begun, calls>>

UnsubscribeAll(t, topic) ==
  /\ MayCall(t, "subscription")
  /\ subscribers' = [subscribers EXCEPT ![topic] = {}]
  /\ Forget(subscribers[topic])
  /\ UNCHANGED <<queueVars, sendVars, message_handlers, next_token, pc, run_pc,
                 frame, starts, begun, calls>>

-----------------------------------------------------------------------------
(* process_message(): counts, copies the handlers under sub_mutex_, calls   *)
(* them in any order outside it; an exception abandons the ones left.       *)

Receivers(m) == IF Dest[m] \in Topics THEN subscribers[Dest[m]]
                                      ELSE {Dest[m]} \cap message_handlers

Turn(f) == Active(f) /\ pc[Dispatcher(f)] = "idle" /\ frame[f].msg # None

Begin(f) ==
  /\ Turn(f) /\ ~frame[f].copied
  /\ begun' = Append(begun, frame[f].msg)
  /\ frame' = [frame EXCEPT ![f].copied = TRUE, ![f].todo = Receivers(frame[f].msg)]
  /\ UNCHANGED <<queueVars, subVars, sendVars, pc, run_pc, starts, calls>>

Deliver(f, h) ==
  /\ Turn(f) /\ frame[f].cur = None /\ h \in frame[f].todo
  /\ calls' = Append(calls, <<h, frame[f].msg>>)
  /\ frame' = [frame EXCEPT ![f].cur = h, ![f].todo = @ \ {h}]
  /\ UNCHANGED <<queueVars, subVars, sendVars, pc, run_pc, starts, begun>>

Return(f) ==
  /\ Turn(f) /\ frame[f].cur # None
  /\ frame' = [frame EXCEPT ![f].cur = None]
  /\ UNCHANGED <<queueVars, subVars, sendVars, pc, run_pc, starts, begun, calls>>

Throw(f) ==
  /\ Turn(f) /\ frame[f].cur # None
  /\ frame' = [frame EXCEPT ![f].cur = None, ![f].todo = {}]
  /\ UNCHANGED <<queueVars, subVars, sendVars, pc, run_pc, starts, begun, calls>>

Done(f) == Turn(f) /\ frame[f].copied /\ frame[f].todo = {} /\ frame[f].cur = None

-----------------------------------------------------------------------------
(* run(): pops under the lock, dispatches outside it, until the queue is    *)
(* empty or the bus is stopped.                                             *)

RunEnter ==
  /\ pc[Loop] = "idle" /\ AtTop(Loop) /\ running
  /\ run_pc' = "check"
  /\ UNCHANGED <<queueVars, subVars, sendVars, pc, frame, starts, begun, calls>>

RunCheck ==
  /\ run_pc = "check"
  /\ run_pc' = IF running THEN "pop" ELSE "out"
  /\ UNCHANGED <<queueVars, subVars, sendVars, pc, frame, starts, begun, calls>>

\* Mutants: the newest message is taken; the last message stays.
RunPopNewest ==
  /\ run_pc = "pop" /\ queue_owner = None /\ message_queue # <<>>
  /\ LET last == Len(message_queue) IN
       /\ message_queue' = SubSeq(message_queue, 1, last - 1)
       /\ frame' = [frame EXCEPT !["run"].msg = message_queue[last]]
  /\ run_pc' = "busy"
  /\ UNCHANGED <<running, queue_owner, subVars, sendVars, pc, starts, begun, calls>>

RunPopKeepsOne ==
  /\ run_pc = "pop" /\ queue_owner = None /\ Len(message_queue) > 1
  /\ message_queue' = Tail(message_queue)
  /\ frame' = [frame EXCEPT !["run"].msg = Head(message_queue)]
  /\ run_pc' = "busy"
  /\ UNCHANGED <<running, queue_owner, subVars, sendVars, pc, starts, begun, calls>>

RunPop ==
  /\ run_pc = "pop" /\ queue_owner = None /\ message_queue # <<>>
  /\ message_queue' = Tail(message_queue)
  /\ frame' = [frame EXCEPT !["run"].msg = Head(message_queue)]
  /\ run_pc' = "busy"
  /\ UNCHANGED <<running, queue_owner, subVars, sendVars, pc, starts, begun, calls>>

RunDrained ==
  /\ run_pc = "pop" /\ queue_owner = None /\ message_queue = <<>>
  /\ run_pc' = "out"
  /\ UNCHANGED <<queueVars, subVars, sendVars, pc, frame, starts, begun, calls>>

RunFinish ==
  /\ Done("run")
  /\ frame' = [frame EXCEPT !["run"] = IdleFrame] /\ run_pc' = "check"
  /\ UNCHANGED <<queueVars, subVars, sendVars, pc, starts, begun, calls>>

-----------------------------------------------------------------------------
(* start() and stop().  stop() clears running_, then takes queue_mutex_ and *)
(* dispatches every message left without releasing it; a message leaves the *)
(* queue only after its handlers have run.                                  *)

Start ==
  /\ MayCall(Loop, "start") /\ ~running /\ starts < MaxStarts
  /\ running' = TRUE /\ starts' = starts + 1
  /\ UNCHANGED <<message_queue, queue_owner, subVars, sendVars, pc, run_pc, frame,
                 begun, calls>>

StopCheck(t) ==
  /\ t \in Stoppers /\ MayCall(t, "stop") /\ running
  /\ pc' = [pc EXCEPT ![t] = "stop"]
  /\ UNCHANGED <<queueVars, subVars, sendVars, run_pc, frame, starts, begun, calls>>

StopClear(t) ==
  /\ pc[t] = "stop"
  /\ running' = FALSE /\ pc' = [pc EXCEPT ![t] = "lock"]
  /\ UNCHANGED <<message_queue, queue_owner, subVars, sendVars, run_pc, frame,
                 starts, begun, calls>>

StopLock(t) ==
  /\ pc[t] = "lock" /\ queue_owner = None
  /\ queue_owner' = t /\ pc' = [pc EXCEPT ![t] = "idle"]
  /\ UNCHANGED <<running, message_queue, subVars, sendVars, run_pc, frame, starts,
                 begun, calls>>

Draining == queue_owner # None /\ frame["drain"].msg = None

DrainNext ==
  /\ Draining /\ message_queue # <<>>
  /\ frame' = [frame EXCEPT !["drain"].msg = Head(message_queue)]
  /\ UNCHANGED <<queueVars, subVars, sendVars, pc, run_pc, starts, begun, calls>>

\* Mutants: the message is not removed after its dispatch; all are.
DrainFinishKeeps ==
  /\ Done("drain")
  /\ frame' = [frame EXCEPT !["drain"] = IdleFrame]
  /\ UNCHANGED <<queueVars, subVars, sendVars, pc, run_pc, starts, begun, calls>>

DrainFinishAll ==
  /\ Done("drain")
  /\ frame' = [frame EXCEPT !["drain"] = IdleFrame]
  /\ message_queue' = <<>>
  /\ UNCHANGED <<running, queue_owner, subVars, sendVars, pc, run_pc, starts,
                 begun, calls>>

DrainFinish ==
  /\ Done("drain")
  /\ frame' = [frame EXCEPT !["drain"] = IdleFrame]
  /\ message_queue' = Tail(message_queue)
  /\ UNCHANGED <<running, queue_owner, subVars, sendVars, pc, run_pc, starts,
                 begun, calls>>

StopReturn ==
  /\ Draining /\ message_queue = <<>>
  /\ queue_owner' = None
  /\ UNCHANGED <<running, message_queue, subVars, sendVars, pc, run_pc, frame,
                 starts, begun, calls>>

-----------------------------------------------------------------------------
SendStep(t)  == Enqueue(t) \/ DropFull(t)
StopStep(t)  == StopClear(t) \/ StopLock(t)
DispatchStep == \E f \in Loops : Begin(f) \/ Return(f) \/ Throw(f)
                                 \/ \E h \in Handlers : Deliver(f, h)
RunStep      == RunEnter \/ RunCheck \/ RunPop \/ RunDrained \/ RunFinish
DrainStep    == DrainNext \/ DrainFinish \/ StopReturn

Next ==
  \/ \E t \in Threads :
       \/ \E m \in Messages : Send(t, m) \/ Refuse(t, m)
       \/ \E topic \in Topics : Subscribe(t, topic) \/ UnsubscribeAll(t, topic)
       \/ \E k \in Tokens : Unsubscribe(t, k)
       \/ SendStep(t) \/ StopCheck(t) \/ StopStep(t)
  \/ \E e \in Endpoints : Register(e) \/ Unregister(e)
  \/ Start \/ RunStep \/ DispatchStep \/ DrainStep

(* A thread inside a call goes on, Loop keeps calling run(), and a handler  *)
(* that was called returns or throws.                                       *)
Fairness ==
  /\ \A t \in Threads : WF_vars(SendStep(t)) /\ WF_vars(StopStep(t))
  /\ WF_vars(RunStep) /\ WF_vars(DispatchStep) /\ WF_vars(DrainStep)

Spec     == Init /\ [][Next]_vars
FairSpec == Spec /\ Fairness

-----------------------------------------------------------------------------
Elems(s) == {s[i] : i \in DOMAIN s}

(* Every variable has its type, and a thread that is about to queue holds a *)
(* message.                                                                 *)
TypeOK ==
  /\ running \in BOOLEAN /\ message_queue \in Seq(Messages)
  /\ queue_owner \in Threads \cup {None}
  /\ message_handlers \subseteq Endpoints
  /\ subscribers \in [Topics -> SUBSET Tokens]
  /\ next_token \in 1..(MaxTokens + 1)
  /\ DOMAIN token_to_topic \subseteq Tokens
  /\ \A k \in DOMAIN token_to_topic : token_to_topic[k] \in Topics
  /\ pc \in [Threads -> {"idle", "push", "stop", "lock"}]
  /\ pushing \in [Threads -> Messages \cup {None}]
  /\ \A t \in Threads : pc[t] = "push" => pushing[t] \in Messages
  /\ run_pc \in {"out", "check", "pop", "busy"}
  /\ frame \in [Loops -> Frame]
  /\ fresh \subseteq Messages /\ starts \in Nat
  /\ accepted \in Seq(Messages) /\ begun \in Seq(Messages)
  /\ calls \in Seq(Handlers \X Messages)

(* The queue never outgrows max_queue_size, whoever raced to fill it.       *)
QueueBounded == Len(message_queue) <= MaxQueueSize

(* subscribers_ and token_to_topic_ say the same, and every token they hold *)
(* was handed out.                                                          *)
TokenMapsAgree ==
  /\ \A topic \in Topics :
       subscribers[topic] = {k \in DOMAIN token_to_topic : token_to_topic[k] = topic}
  /\ \A k \in DOMAIN token_to_topic : k < next_token

(* What run() has popped and not yet begun, then what nobody has begun: a   *)
(* message stop() is dispatching is still at the head of the queue.         *)
Popped  == IF frame["run"].msg # None /\ ~frame["run"].copied
           THEN <<frame["run"].msg>> ELSE <<>>
Waiting == IF frame["drain"].copied THEN Tail(message_queue) ELSE message_queue

(* Messages are dispatched in the order they were accepted, each once, none *)
(* lost, whichever of run() and stop() takes them off the queue.            *)
AcceptedInOrder == accepted = begun \o Popped \o Waiting

(* The same without the order: what still holds when another thread stops.  *)
NoneLost ==
  /\ Len(accepted) = Len(begun) + Len(Popped) + Len(Waiting)
  /\ Elems(accepted) = Elems(begun) \cup Elems(Popped) \cup Elems(Waiting)

(* One subscriber, or one endpoint, sees its messages in the order they     *)
(* were accepted and no message twice (test MessageProcessingOrder).        *)
PositionOf(m) == CHOOSE i \in DOMAIN accepted : accepted[i] = m
HandlerSeesFifo ==
  \A i, j \in DOMAIN calls :
    (i < j /\ calls[i][1] = calls[j][1])
      => PositionOf(calls[i][2]) < PositionOf(calls[j][2])

Ordered == INSTANCE OrderedDelivery

(* All of that at once, as a specification: whoever sends, subscribes or    *)
(* stops meanwhile, the queue and the two loops that empty it take messages *)
(* up one at a time, in the order accepted, and no handler is called with a *)
(* message that is not the last taken up, or twice with one.                *)
DeliversInOrder == Ordered!DeliverySpec

(* A token that was given back, and that no dispatch under way has copied,  *)
(* is never called again: Actor gives its tokens back before it dies.       *)
Gone(k) ==
  /\ k < next_token /\ k \notin DOMAIN token_to_topic
  /\ \A f \in Loops : k \notin frame[f].todo /\ k # frame[f].cur
GoneStaysGone == [][\A k \in Tokens : Gone(k) => Gone(k)']_vars

(* stop(): "Process remaining messages in queue".                           *)
StopReturned ==
  ~running /\ queue_owner = None /\ \A t \in Threads : pc[t] \notin {"stop", "lock"}
StopLeavesNothing == StopReturned => message_queue = <<>>

(* stop() runs handlers with queue_mutex_ held.  One that sends or stops    *)
(* finds running_ false and comes back; but when start() has set running_   *)
(* again meanwhile, it goes on to lock the mutex its own thread holds.      *)
LetThrough(t) == queue_owner = t /\ running /\ pc[t] \in {"push", "stop"}
MutexComesFree == [](\A t \in Threads : ~LetThrough(t))

(* stop() returns, whatever its handlers call and whoever else sends, runs, *)
(* starts and stops, unless a start() during it lets one of its handlers    *)
(* through to the mutex, which then is never free again.                    *)
StopReturns ==
  MutexComesFree => \A t \in Threads : pc[t] = "stop" ~> (pc[t] = "idle" /\ queue_owner # t)

(* A message that was accepted is dispatched, unless the bus is stopped or  *)
(* its mutex is never free again.                                           *)
AcceptedIsBegun ==
  MutexComesFree =>
    \A m \in Messages : m \in Elems(accepted) ~> (m \in Elems(begun) \/ ~running)
=============================================================================
