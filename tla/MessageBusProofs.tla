-------------------------- MODULE MessageBusProofs --------------------------
(* What MessageBus keeps for every set of threads, messages and handlers.   *)
EXTENDS MessageBus, SequenceTheorems, TLAPS

(* What the dispatch frames say of the loop they belong to.                 *)
FramesOK ==
  /\ run_pc = "busy" <=> frame["run"].msg # None
  /\ queue_owner = None => frame["drain"].msg = None
  /\ frame["drain"].msg # None =>
       message_queue # <<>> /\ Head(message_queue) = frame["drain"].msg
  /\ \A f \in Loops : frame[f].msg = None => frame[f] = IdleFrame
  /\ \A f \in Loops : ~frame[f].copied => frame[f].todo = {} /\ frame[f].cur = None

(* Only a stopper drains, and a Loop that stops the bus is not between the  *)
(* pop and the dispatch of a message.                                       *)
StoppersOK ==
  /\ queue_owner \in Stoppers \cup {None}
  /\ \A t \in Threads : pc[t] \in {"stop", "lock"} => t \in Stoppers
  /\ (pc[Loop] \in {"stop", "lock"} \/ queue_owner = Loop) =>
       run_pc = "out" \/ (run_pc = "busy" /\ frame["run"].copied)

(* Every variable keeps its type: the step from one state to the next.      *)
LEMMA TypeOKStep == TypeOK /\ FramesOK /\ [Next]_vars => TypeOK'
<1> SUFFICES ASSUME TypeOK, FramesOK, [Next]_vars PROVE TypeOK'
  OBVIOUS
<1> USE ThreadsAssumption, DestAssumption, BoundsAssumption
<1> USE DEF TypeOK, queueVars, subVars, sendVars
<1>1. ASSUME NEW t \in Threads, NEW m \in Messages, Send(t, m) \/ Refuse(t, m)
      PROVE  TypeOK'
  BY <1>1 DEF Send, Refuse
<1>2. ASSUME NEW t \in Threads, Enqueue(t) PROVE TypeOK'
  <2>1. message_queue' \in Seq(Messages) /\ accepted' \in Seq(Messages)
    BY <1>2, AppendProperties DEF Enqueue, Pushed
  <2> QED BY <2>1, <1>2 DEF Enqueue, Pushed
<1>3. ASSUME NEW t \in Threads, DropFull(t) PROVE TypeOK'
  BY <1>3 DEF DropFull, Pushed
<1>4. ASSUME NEW e \in Endpoints, Register(e) \/ Unregister(e) PROVE TypeOK'
  BY <1>4 DEF Register, Unregister
<1>5. ASSUME NEW t \in Threads, NEW topic \in Topics, Subscribe(t, topic)
      PROVE  TypeOK'
  BY <1>5 DEF Subscribe, Tokens
<1>6. ASSUME NEW t \in Threads, NEW topic \in Topics, UnsubscribeAll(t, topic)
      PROVE  TypeOK'
  BY <1>6 DEF UnsubscribeAll, Forget
<1>7. ASSUME NEW t \in Threads, NEW k \in Tokens, Unsubscribe(t, k) PROVE TypeOK'
  BY <1>7 DEF Unsubscribe, Forget
<1>8. ASSUME NEW f \in Loops, Begin(f) PROVE TypeOK'
  <2>1. Receivers(frame[f].msg) \subseteq Handlers
    BY <1>8 DEF Begin, Turn, Receivers, Frame, Handlers
  <2>2. begun' \in Seq(Messages)
    BY <1>8, AppendProperties DEF Begin, Turn, Frame
  <2>3. frame' = [frame EXCEPT ![f] = [frame[f] EXCEPT !.copied = TRUE,
                                          !.todo = Receivers(frame[f].msg)]]
    BY <1>8 DEF Begin
  <2>4. [frame[f] EXCEPT !.copied = TRUE, !.todo = Receivers(frame[f].msg)] \in Frame
    BY <2>1 DEF Frame
  <2>5. frame' \in [Loops -> Frame]
    BY <2>3, <2>4
  <2> QED BY <1>8, <2>2, <2>5 DEF Begin
<1>9. ASSUME NEW f \in Loops, NEW h \in Handlers, Deliver(f, h) PROVE TypeOK'
  <2>1. <<h, frame[f].msg>> \in Handlers \X Messages
    BY <1>9 DEF Deliver, Turn, Frame
  <2>2. calls' \in Seq(Handlers \X Messages)
    BY <1>9, <2>1, AppendProperties DEF Deliver
  <2>3. h \in Handlers /\ frame[f] \in Frame /\ frame[f].todo \ {h} \in SUBSET Handlers
    BY DEF Frame
  <2>4. [frame[f] EXCEPT !.cur = h, !.todo = @ \ {h}] \in Frame
    BY <2>3 DEF Frame
  <2>5. frame' = [frame EXCEPT ![f] = [frame[f] EXCEPT !.cur = h, !.todo = @ \ {h}]]
    BY <1>9 DEF Deliver
  <2>6. frame' \in [Loops -> Frame]
    BY <2>4, <2>5
  <2> QED BY <1>9, <2>2, <2>6 DEF Deliver
<1>10. ASSUME NEW f \in Loops, Return(f) \/ Throw(f) PROVE TypeOK'
  <2>1. \A r \in Frame : /\ [r EXCEPT !.cur = None] \in Frame
                         /\ [r EXCEPT !.cur = None, !.todo = {}] \in Frame
    BY DEF Frame
  <2>2. \/ frame' = [frame EXCEPT ![f] = [frame[f] EXCEPT !.cur = None]]
        \/ frame' = [frame EXCEPT ![f] = [frame[f] EXCEPT !.cur = None, !.todo = {}]]
    BY <1>10 DEF Return, Throw
  <2>3. frame[f] \in Frame /\ frame \in [Loops -> Frame]
    OBVIOUS
  <2> HIDE DEF TypeOK
  <2>4. frame' \in [Loops -> Frame]
    BY <2>1, <2>2, <2>3
  <2> QED BY <1>10, <2>4 DEF Return, Throw, TypeOK
<1>11. ASSUME RunEnter \/ RunCheck \/ RunDrained PROVE TypeOK'
  BY <1>11 DEF RunEnter, RunCheck, RunDrained
<1>12. ASSUME RunPop PROVE TypeOK'
  <2>1. Head(message_queue) \in Messages /\ message_queue' \in Seq(Messages)
    BY <1>12, HeadTailProperties DEF RunPop
  <2>2. frame' \in [Loops -> Frame]
    BY <1>12, <2>1 DEF RunPop, Frame
  <2> QED BY <1>12, <2>1, <2>2 DEF RunPop
<1>13. IdleFrame \in Frame
  BY DEF IdleFrame, Frame
<1>14. ASSUME RunFinish PROVE TypeOK'
  BY <1>13, <1>14 DEF RunFinish
<1>15. ASSUME Start PROVE TypeOK'
  BY <1>15 DEF Start
<1>16. ASSUME NEW t \in Threads, StopCheck(t) \/ StopClear(t) \/ StopLock(t)
       PROVE  TypeOK'
  BY <1>16 DEF StopCheck, StopClear, StopLock
<1>17. ASSUME DrainNext PROVE TypeOK'
  <2>1. Head(message_queue) \in Messages
    BY <1>17, HeadTailProperties DEF DrainNext
  <2>2. frame' \in [Loops -> Frame]
    BY <1>17, <2>1 DEF DrainNext, Frame
  <2> QED BY <1>17, <2>2 DEF DrainNext
<1>18. ASSUME DrainFinish PROVE TypeOK'
  <2>1. message_queue # <<>>
    BY <1>18 DEF DrainFinish, Done, Turn, FramesOK
  <2>2. message_queue' \in Seq(Messages)
    BY <1>18, <2>1, HeadTailProperties DEF DrainFinish
  <2> QED BY <1>13, <1>18, <2>2 DEF DrainFinish
<1>19. ASSUME StopReturn PROVE TypeOK'
  BY <1>19 DEF StopReturn
<1>20. ASSUME UNCHANGED vars PROVE TypeOK'
  BY <1>20 DEF vars
<1> QED
  BY <1>1, <1>2, <1>3, <1>4, <1>5, <1>6, <1>7, <1>8, <1>9, <1>10, <1>11, <1>12,
     <1>14, <1>15, <1>16, <1>17, <1>18, <1>19, <1>20
  DEF Next, SendStep, StopStep, DispatchStep, RunStep, DrainStep

(* The frames keep describing the loops.                                    *)
LEMMA FramesOKStep == TypeOK /\ FramesOK /\ [Next]_vars => FramesOK'
<1> SUFFICES ASSUME TypeOK, FramesOK, [Next]_vars PROVE FramesOK'
  OBVIOUS
<1> USE ThreadsAssumption, NoneAssumption
<1> USE DEF FramesOK, queueVars, subVars, sendVars, Loops
<1>1. frame \in [Loops -> Frame] /\ message_queue \in Seq(Messages)
  BY DEF TypeOK
<1>2. ASSUME UNCHANGED <<message_queue, queue_owner, run_pc, frame>> PROVE FramesOK'
  BY <1>2
<1>3. ASSUME NEW t \in Threads, Enqueue(t) PROVE FramesOK'
  <2>1. queue_owner = None /\ UNCHANGED <<queue_owner, run_pc, frame>>
    BY <1>3 DEF Enqueue, Pushed
  <2> QED BY <2>1
<1>4. ASSUME NEW f \in Loops, Begin(f) PROVE FramesOK'
  BY <1>1, <1>4 DEF Begin, Turn, Frame
<1>5. ASSUME NEW f \in Loops, NEW h \in Handlers, Deliver(f, h) PROVE FramesOK'
  BY <1>1, <1>5 DEF Deliver, Turn, Frame
<1>6. ASSUME NEW f \in Loops, Return(f) \/ Throw(f) PROVE FramesOK'
  BY <1>1, <1>6 DEF Return, Throw, Turn, Frame
<1>7. ASSUME RunEnter \/ RunCheck \/ RunDrained PROVE FramesOK'
  BY <1>7 DEF RunEnter, RunCheck, RunDrained, AtTop
<1>8. ASSUME RunPop PROVE FramesOK'
  <2>1. Head(message_queue) # None
    BY <1>1, <1>8, HeadTailProperties DEF RunPop
  <2> QED BY <1>1, <1>8, <2>1 DEF RunPop, Frame, IdleFrame
<1>9. ASSUME RunFinish PROVE FramesOK'
  BY <1>1, <1>9 DEF RunFinish, IdleFrame, Frame
<1>10. ASSUME NEW t \in Threads, StopLock(t) PROVE FramesOK'
  BY <1>10 DEF StopLock
<1>11. ASSUME DrainNext PROVE FramesOK'
  <2>1. Head(message_queue) # None
    BY <1>1, <1>11, HeadTailProperties DEF DrainNext
  <2> QED BY <1>1, <1>11, <2>1 DEF DrainNext, Draining, Frame, IdleFrame
<1>12. ASSUME DrainFinish PROVE FramesOK'
  BY <1>1, <1>12 DEF DrainFinish, IdleFrame, Frame
<1>13. ASSUME StopReturn PROVE FramesOK'
  BY <1>13 DEF StopReturn, Draining
<1> QED
  BY <1>2, <1>3, <1>4, <1>5, <1>6, <1>7, <1>8, <1>9, <1>10, <1>11, <1>12, <1>13
  DEF Next, SendStep, StopStep, DispatchStep, RunStep, DrainStep, vars,
      Send, Refuse, DropFull, Pushed, Register, Unregister, Subscribe,
      UnsubscribeAll, Unsubscribe, Start, StopCheck, StopClear

(* Stoppers keep stopping where they may.                                   *)
LEMMA StoppersOKStep ==
  TypeOK /\ FramesOK /\ StoppersOK /\ [Next]_vars => StoppersOK'
<1> SUFFICES ASSUME TypeOK, FramesOK, StoppersOK, [Next]_vars PROVE StoppersOK'
  OBVIOUS
<1> USE ThreadsAssumption, NoneAssumption
<1> USE DEF StoppersOK, queueVars, subVars, sendVars, Loops
<1>1. /\ frame \in [Loops -> Frame]
      /\ pc \in [Threads -> {"idle", "push", "stop", "lock"}]
  BY DEF TypeOK
<1>2. ASSUME UNCHANGED <<pc, queue_owner, run_pc, frame>> PROVE StoppersOK'
  BY <1>2
<1>3. ASSUME NEW t \in Threads,
             \/ \E m \in Messages : Send(t, m)
             \/ Enqueue(t) \/ DropFull(t)
      PROVE  StoppersOK'
  BY <1>1, <1>3 DEF Send, Enqueue, DropFull, Pushed
<1>4. ASSUME NEW f \in Loops,
             \/ Begin(f) \/ Return(f) \/ Throw(f)
             \/ \E h \in Handlers : Deliver(f, h)
      PROVE  StoppersOK'
  <2>1. UNCHANGED <<pc, queue_owner, run_pc>>
    BY <1>4 DEF Begin, Return, Throw, Deliver
  <2>2. frame["run"].copied => frame'["run"].copied
    <3>1. ASSUME NEW h \in Handlers, Deliver(f, h)
          PROVE  frame'["run"].copied = frame["run"].copied
      BY <1>1, <3>1 DEF Deliver, Frame
    <3>2. ASSUME Begin(f) PROVE frame["run"].copied => frame'["run"].copied
      BY <1>1, <3>2 DEF Begin, Frame
    <3>3. ASSUME Return(f) \/ Throw(f)
          PROVE  frame'["run"].copied = frame["run"].copied
      BY <1>1, <3>3 DEF Return, Throw, Frame
    <3> QED BY <1>4, <3>1, <3>2, <3>3
  <2> QED BY <2>1, <2>2
<1>5. ASSUME RunStep PROVE StoppersOK'
  BY <1>1, <1>5 DEF RunStep, RunEnter, RunCheck, RunPop, RunDrained, RunFinish,
                    Done, Turn, Active, Dispatcher, AtTop
<1>6. ASSUME NEW t \in Threads, StopCheck(t) PROVE StoppersOK'
  <2>1. CASE t = Loop
    <3>1. CASE AtTop(Loop)
      BY <1>1, <1>6, <2>1, <3>1 DEF StopCheck, AtTop
    <3>2. CASE InHandler(Loop)
      BY <1>1, <1>6, <2>1, <3>2 DEF StopCheck, InHandler, Active, Dispatcher, FramesOK
    <3> QED BY <1>6, <2>1, <3>1, <3>2 DEF StopCheck, MayCall
  <2>2. CASE t # Loop
    BY <1>1, <1>6, <2>2 DEF StopCheck
  <2> QED BY <2>1, <2>2
<1>7. ASSUME NEW t \in Threads, StopClear(t) \/ StopLock(t) PROVE StoppersOK'
  BY <1>1, <1>7 DEF StopClear, StopLock
<1>8. ASSUME DrainStep PROVE StoppersOK'
  BY <1>1, <1>8 DEF DrainStep, DrainNext, DrainFinish, StopReturn, Draining, Frame
<1>9. ASSUME \/ \E t \in Threads, m \in Messages : Refuse(t, m)
             \/ \E t \in Threads, topic \in Topics :
                  Subscribe(t, topic) \/ UnsubscribeAll(t, topic)
             \/ \E t \in Threads, k \in Tokens : Unsubscribe(t, k)
             \/ \E e \in Endpoints : Register(e) \/ Unregister(e)
             \/ Start \/ UNCHANGED vars
      PROVE  StoppersOK'
  BY <1>2, <1>9 DEF Refuse, Subscribe, UnsubscribeAll, Unsubscribe, Register,
                    Unregister, Start, vars
<1> QED
  BY <1>3, <1>4, <1>5, <1>6, <1>7, <1>8, <1>9
  DEF Next, SendStep, StopStep, DispatchStep

(* The queue stays within its limit: the limit is tested under the lock.    *)
LEMMA QueueBoundedStep ==
  TypeOK /\ FramesOK /\ QueueBounded /\ [Next]_vars => QueueBounded'
<1> SUFFICES ASSUME TypeOK, FramesOK, QueueBounded, [Next]_vars
             PROVE  QueueBounded'
  OBVIOUS
<1> USE DEF QueueBounded, queueVars
<1>1. message_queue \in Seq(Messages) /\ MaxQueueSize \in Nat
  BY BoundsAssumption DEF TypeOK
<1>2. ASSUME NEW t \in Threads, Enqueue(t) PROVE QueueBounded'
  <2>1. Len(message_queue') = Len(message_queue) + 1
    BY <1>1, <1>2, AppendProperties DEF Enqueue, Pushed, TypeOK
  <2> QED BY <1>1, <1>2, <2>1, LenProperties DEF Enqueue, HasRoom
<1>3. ASSUME RunPop \/ DrainFinish PROVE QueueBounded'
  <2>1. message_queue # <<>> /\ message_queue' = Tail(message_queue)
    BY <1>3 DEF RunPop, DrainFinish, Done, Turn, FramesOK
  <2> QED BY <1>1, <2>1, HeadTailProperties, LenProperties
<1>4. ASSUME UNCHANGED message_queue PROVE QueueBounded'
  BY <1>4
<1>5. ASSUME DispatchStep \/ DrainNext \/ StopReturn \/ Start
      PROVE  QueueBounded'
  BY <1>4, <1>5 DEF DispatchStep, Begin, Deliver, Return, Throw, DrainNext,
                    StopReturn, Start
<1> QED
  BY <1>2, <1>3, <1>4, <1>5
  DEF Next, SendStep, StopStep, RunStep, DrainStep, vars,
      Send, Refuse, DropFull, Register, Unregister, Subscribe, UnsubscribeAll,
      Unsubscribe, StopCheck, StopClear, StopLock, RunEnter, RunCheck, RunDrained,
      RunFinish

(* The two token maps keep saying the same.                                 *)
LEMMA TokenMapsAgreeStep ==
  TypeOK /\ TokenMapsAgree /\ [Next]_vars => TokenMapsAgree'
<1> SUFFICES ASSUME TypeOK, TokenMapsAgree, [Next]_vars PROVE TokenMapsAgree'
  OBVIOUS
<1> USE DEF TokenMapsAgree, subVars
<1>1. /\ subscribers \in [Topics -> SUBSET Tokens]
      /\ next_token \in Nat
      /\ DOMAIN token_to_topic \subseteq Nat
      /\ \A k \in DOMAIN token_to_topic : token_to_topic[k] \in Topics
  BY BoundsAssumption DEF TypeOK, Tokens
<1>2. ASSUME NEW t \in Threads, NEW topic \in Topics, Subscribe(t, topic)
      PROVE  TokenMapsAgree'
  <2>1. next_token \notin DOMAIN token_to_topic
    BY <1>1
  <2> QED BY <1>1, <1>2, <2>1 DEF Subscribe
<1>3. ASSUME NEW t \in Threads, NEW topic \in Topics, UnsubscribeAll(t, topic)
      PROVE  TokenMapsAgree'
  BY <1>1, <1>3 DEF UnsubscribeAll, Forget
<1>4. ASSUME NEW t \in Threads, NEW k \in Tokens, Unsubscribe(t, k)
      PROVE  TokenMapsAgree'
  BY <1>1, <1>4 DEF Unsubscribe, Forget
<1>5. ASSUME UNCHANGED <<subscribers, token_to_topic, next_token>>
      PROVE  TokenMapsAgree'
  BY <1>5
<1>6. ASSUME DispatchStep \/ RunStep \/ DrainStep PROVE TokenMapsAgree'
  BY <1>5, <1>6
  DEF DispatchStep, Begin, Deliver, Return, Throw, RunStep, RunEnter, RunCheck,
      RunPop, RunDrained, RunFinish, DrainStep, DrainNext, DrainFinish, StopReturn
<1> QED
  BY <1>2, <1>3, <1>4, <1>5, <1>6
  DEF Next, SendStep, StopStep, vars, Send, Refuse, Enqueue, DropFull, Pushed,
      Register, Unregister, Start, StopCheck, StopClear, StopLock

(* The initial state satisfies all of it.                                   *)
LEMMA InitOK ==
  Init => TypeOK /\ FramesOK /\ StoppersOK /\ QueueBounded /\ TokenMapsAgree
<1> SUFFICES ASSUME Init
             PROVE  TypeOK /\ FramesOK /\ StoppersOK /\ QueueBounded /\ TokenMapsAgree
  OBVIOUS
<1> USE ThreadsAssumption, BoundsAssumption DEF Init
<1>1. TypeOK
  <2>1. [f \in Loops |-> IdleFrame] \in [Loops -> Frame]
    BY DEF IdleFrame, Frame
  <2>2. <<>> \in Seq(Messages) /\ <<>> \in Seq(Handlers \X Messages)
    BY EmptySeq
  <2>3. DOMAIN token_to_topic = {}
    OBVIOUS
  <2>4. next_token \in 1..(MaxTokens + 1)
    OBVIOUS
  <2> QED BY <2>1, <2>2, <2>3, <2>4 DEF TypeOK
<1>2. FramesOK
  BY DEF FramesOK, IdleFrame, Loops
<1>3. StoppersOK
  BY DEF StoppersOK
<1>4. QueueBounded /\ TokenMapsAgree
  BY DEF QueueBounded, TokenMapsAgree
<1> QED BY <1>1, <1>2, <1>3, <1>4

(* Every state of every behaviour has the types, the frames and the         *)
(* stoppers the code expects.                                               *)
THEOREM BusTypeCorrect == Spec => [](TypeOK /\ FramesOK /\ StoppersOK)
<1>1. Init => TypeOK /\ FramesOK /\ StoppersOK
  BY InitOK
<1>2. TypeOK /\ FramesOK /\ StoppersOK /\ [Next]_vars
        => (TypeOK /\ FramesOK /\ StoppersOK)'
  BY TypeOKStep, FramesOKStep, StoppersOKStep
<1> QED BY <1>1, <1>2, PTL DEF Spec

(* Producers that race for the last place of the queue never take two: the  *)
(* queue stays within max_queue_size.                                       *)
THEOREM QueueNeverOverflows == Spec => []QueueBounded
<1>1. Init => QueueBounded
  BY InitOK
<1> QED BY <1>1, QueueBoundedStep, BusTypeCorrect, PTL DEF Spec

(* Whatever threads and handlers subscribe and unsubscribe, the map from    *)
(* topics to tokens and the map back agree.                                 *)
THEOREM TokenMapsAlwaysAgree == Spec => []TokenMapsAgree
<1>1. Init => TokenMapsAgree
  BY InitOK
<1> QED BY <1>1, TokenMapsAgreeStep, BusTypeCorrect, PTL DEF Spec
-----------------------------------------------------------------------------
(* Moving the head of a sequence to the end of the one before it.           *)
LEMMA MoveHead ==
  ASSUME NEW S, NEW a \in Seq(S), NEW q \in Seq(S), q # <<>>
  PROVE  a \o q = (a \o <<Head(q)>>) \o Tail(q)
<1>1. Head(q) \in S /\ Tail(q) \in Seq(S) /\ q = <<Head(q)>> \o Tail(q)
  BY HeadTailProperties
<1>2. <<Head(q)>> \in Seq(S)
  BY <1>1
<1> QED BY <1>1, <1>2, ConcatAssociative

(* A handler that is called, returns or throws leaves each loop with the    *)
(* message it dispatches.                                                   *)
LEMMA OnlyDelivers ==
  ASSUME frame \in [Loops -> Frame], NEW f \in Loops,
         Return(f) \/ Throw(f) \/ \E h \in Handlers : Deliver(f, h)
  PROVE  \A g \in Loops : /\ frame'[g].copied = frame[g].copied
                          /\ frame'[g].msg = frame[g].msg
<1> SUFFICES ASSUME NEW g \in Loops
             PROVE  frame'[g].copied = frame[g].copied /\ frame'[g].msg = frame[g].msg
  OBVIOUS
<1>1. ASSUME Return(f) \/ Throw(f)
      PROVE  frame'[g].copied = frame[g].copied /\ frame'[g].msg = frame[g].msg
  <2>1. \/ frame' = [frame EXCEPT ![f] = [frame[f] EXCEPT !.cur = None]]
        \/ frame' = [frame EXCEPT ![f] = [frame[f] EXCEPT !.cur = None, !.todo = {}]]
    BY <1>1 DEF Return, Throw
  <2>2. \A r \in Frame : /\ [r EXCEPT !.cur = None].copied = r.copied
                         /\ [r EXCEPT !.cur = None].msg = r.msg
                         /\ [r EXCEPT !.cur = None, !.todo = {}].copied = r.copied
                         /\ [r EXCEPT !.cur = None, !.todo = {}].msg = r.msg
    BY DEF Frame
  <2>3. CASE g = f
    BY <2>1, <2>2, <2>3
  <2>4. CASE g # f
    BY <2>1, <2>4
  <2> QED BY <2>3, <2>4
<1>2. ASSUME NEW h \in Handlers, Deliver(f, h)
      PROVE  frame'[g].copied = frame[g].copied /\ frame'[g].msg = frame[g].msg
  BY <1>2 DEF Deliver, Frame, Loops
<1> QED BY <1>1, <1>2

(* When only Loop stops the bus, each step keeps the accepted messages to   *)
(* be those dispatched, the one popped and those waiting, in this order.    *)
LEMMA AcceptedInOrderStep ==
  ASSUME Stoppers \subseteq {Loop}
  PROVE  TypeOK /\ FramesOK /\ StoppersOK /\ AcceptedInOrder /\ [Next]_vars
           => AcceptedInOrder'
<1> SUFFICES ASSUME TypeOK, FramesOK, StoppersOK, AcceptedInOrder, [Next]_vars
             PROVE  AcceptedInOrder'
  OBVIOUS
<1> USE ThreadsAssumption, NoneAssumption
<1> USE DEF AcceptedInOrder, Popped, Waiting, queueVars, subVars, sendVars, Loops
<1>1. /\ frame \in [Loops -> Frame] /\ frame["run"] \in Frame /\ frame["drain"] \in Frame
      /\ message_queue \in Seq(Messages) /\ begun \in Seq(Messages)
      /\ accepted \in Seq(Messages)
  BY DEF TypeOK
<1>2. ASSUME UNCHANGED <<accepted, begun, frame, message_queue>>
      PROVE  AcceptedInOrder'
  BY <1>2
<1>3. queue_owner = None => Waiting = message_queue
  BY <1>1 DEF FramesOK, IdleFrame
<1>4. Popped \in Seq(Messages) /\ begun \o Popped \in Seq(Messages)
  <2>1. Popped \in Seq(Messages)
    BY <1>1, EmptySeq DEF Frame
  <2> QED BY <1>1, <2>1, ConcatProperties
<1>5. ASSUME NEW t \in Threads, Enqueue(t) PROVE AcceptedInOrder'
  <2>1. /\ accepted' = Append(accepted, pushing[t])
        /\ message_queue' = Append(message_queue, pushing[t])
        /\ pushing[t] \in Messages
        /\ queue_owner = None /\ UNCHANGED <<begun, frame>>
    BY <1>5 DEF Enqueue, Pushed, TypeOK
  <2>2. accepted = (begun \o Popped) \o message_queue
    BY <1>3, <2>1
  <2>3. accepted' = (begun \o Popped) \o message_queue'
    <3> HIDE DEF AcceptedInOrder, Popped, Waiting
    <3>1. /\ begun \o Popped \in Seq(Messages) /\ message_queue \in Seq(Messages)
          /\ pushing[t] \in Messages
      BY <1>1, <1>4, <2>1
    <3>2. /\ accepted' = accepted \o <<pushing[t]>>
          /\ message_queue' = message_queue \o <<pushing[t]>>
          /\ <<pushing[t]>> \in Seq(Messages)
      BY <1>1, <2>1, <3>1, AppendIsConcat
    <3>3. (begun \o Popped) \o (message_queue \o <<pushing[t]>>)
            = ((begun \o Popped) \o message_queue) \o <<pushing[t]>>
      BY <3>1, <3>2, ConcatAssociative
    <3> QED BY <2>2, <3>2, <3>3
  <2>4. Waiting' = message_queue' /\ Popped' = Popped
    BY <1>1, <2>1 DEF FramesOK, IdleFrame
  <2> QED BY <2>1, <2>3, <2>4
<1>6. ASSUME RunPop PROVE AcceptedInOrder'
  <2>1. /\ queue_owner = None /\ message_queue # <<>> /\ run_pc # "busy"
        /\ message_queue' = Tail(message_queue) /\ Head(message_queue) \in Messages
        /\ UNCHANGED <<begun, accepted>>
        /\ frame' = [frame EXCEPT !["run"].msg = Head(message_queue)]
    BY <1>1, <1>6, HeadTailProperties DEF RunPop
  <2>2. Popped = <<>> /\ frame["run"].msg = None /\ ~frame["run"].copied
    BY <1>1, <2>1 DEF FramesOK, IdleFrame
  <2>3. Popped' = <<Head(message_queue)>>
    BY <1>1, <2>1, <2>2 DEF Frame
  <2>4. Waiting' = Tail(message_queue)
    BY <1>1, <2>1 DEF FramesOK, IdleFrame
  <2>5. accepted = begun \o message_queue
    BY <1>1, <1>3, <2>1, <2>2, ConcatEmptySeq
  <2>6. begun \o message_queue = (begun \o <<Head(message_queue)>>) \o Tail(message_queue)
    BY <1>1, <2>1, MoveHead
  <2> HIDE DEF Popped, Waiting
  <2> QED BY <2>1, <2>3, <2>4, <2>5, <2>6
<1>7. ASSUME Begin("run") PROVE AcceptedInOrder'
  <2>1. /\ frame["run"].msg # None /\ ~frame["run"].copied
        /\ frame["run"].msg \in Messages
        /\ begun' = Append(begun, frame["run"].msg)
        /\ UNCHANGED <<accepted, message_queue>>
    BY <1>1, <1>7 DEF Begin, Turn, Frame
  <2>2. frame'["run"].copied /\ frame'["drain"] = frame["drain"]
    BY <1>1, <1>7 DEF Begin, Frame
  <2>3. begun' = begun \o Popped
    BY <1>1, <2>1, AppendIsConcat
  <2>4. Popped' = <<>> /\ Waiting' = Waiting
    BY <2>1, <2>2
  <2>5. begun' \o <<>> = begun'
    BY <1>4, <2>3, ConcatEmptySeq
  <2> QED BY <2>1, <2>3, <2>4, <2>5
<1>8. ASSUME Begin("drain") PROVE AcceptedInOrder'
  <2>1. /\ frame["drain"].msg # None /\ ~frame["drain"].copied
        /\ queue_owner = Loop
        /\ frame["drain"].msg \in Messages
        /\ begun' = Append(begun, frame["drain"].msg)
        /\ UNCHANGED <<accepted, message_queue>>
    BY <1>1, <1>8 DEF Begin, Turn, Active, Frame, StoppersOK
  <2>2. frame'["drain"].copied /\ frame'["run"] = frame["run"]
    BY <1>1, <1>8 DEF Begin, Frame
  <2>3. Popped = <<>> /\ Popped' = <<>>
    BY <2>1, <2>2 DEF StoppersOK, FramesOK
  <2>4. /\ Waiting = message_queue /\ Waiting' = Tail(message_queue)
        /\ message_queue # <<>> /\ Head(message_queue) = frame["drain"].msg
    BY <2>1, <2>2 DEF FramesOK
  <2>5. accepted = begun \o message_queue
    BY <1>1, <2>3, <2>4, ConcatEmptySeq
  <2>6. begun' = begun \o <<Head(message_queue)>> /\ begun' \in Seq(Messages)
    BY <1>1, <2>1, <2>4, AppendIsConcat, AppendProperties
  <2>7. begun' \o Popped' = begun'
    BY <2>3, <2>6, ConcatEmptySeq
  <2>8. accepted = begun' \o Tail(message_queue)
    BY <1>1, <2>4, <2>5, <2>6, MoveHead
  <2> QED BY <2>1, <2>4, <2>7, <2>8
<1>9. ASSUME NEW f \in Loops,
             Return(f) \/ Throw(f) \/ \E h \in Handlers : Deliver(f, h)
      PROVE  AcceptedInOrder'
  <2>1. UNCHANGED <<accepted, begun, message_queue>>
    BY <1>9 DEF Return, Throw, Deliver
  <2>2. \A g \in Loops : frame'[g].copied = frame[g].copied
                         /\ frame'[g].msg = frame[g].msg
    BY <1>1, <1>9, OnlyDelivers
  <2> QED BY <2>1, <2>2
<1>10. ASSUME RunFinish PROVE AcceptedInOrder'
  <2>1. Popped = <<>> /\ UNCHANGED <<accepted, begun, message_queue>>
    BY <1>10 DEF RunFinish, Done
  <2>2. Popped' = <<>> /\ Waiting' = Waiting
    BY <1>1, <1>10 DEF RunFinish, IdleFrame
  <2> QED BY <2>1, <2>2
<1>11. ASSUME DrainNext PROVE AcceptedInOrder'
  <2>1. ~frame["drain"].copied /\ UNCHANGED <<accepted, begun, message_queue>>
    BY <1>1, <1>11 DEF DrainNext, Draining, FramesOK, IdleFrame
  <2>2. ~frame'["drain"].copied /\ frame'["run"] = frame["run"]
    BY <1>1, <1>11, <2>1 DEF DrainNext, Frame
  <2> QED BY <2>1, <2>2
<1>12. ASSUME DrainFinish PROVE AcceptedInOrder'
  <2>1. /\ Waiting = Tail(message_queue) /\ message_queue' = Tail(message_queue)
        /\ UNCHANGED <<accepted, begun>>
    BY <1>12 DEF DrainFinish, Done
  <2>2. Waiting' = message_queue' /\ Popped' = Popped
    BY <1>1, <1>12 DEF DrainFinish, IdleFrame
  <2> QED BY <2>1, <2>2
<1>13. ASSUME RunEnter \/ RunCheck \/ RunDrained \/ StopReturn \/ Start
       PROVE  AcceptedInOrder'
  BY <1>2, <1>13 DEF RunEnter, RunCheck, RunDrained, StopReturn, Start
<1> QED
  BY <1>2, <1>5, <1>6, <1>7, <1>8, <1>9, <1>10, <1>11, <1>12, <1>13
  DEF Next, SendStep, StopStep, DispatchStep, RunStep, DrainStep, vars,
      Send, Refuse, DropFull, Pushed, Register, Unregister, Subscribe,
      UnsubscribeAll, Unsubscribe, StopCheck, StopClear, StopLock

(* When the thread that runs the bus is the only one that stops it,         *)
(* messages are dispatched in the order they were accepted, none lost and   *)
(* none twice, also when a handler stops the bus in the middle of run().    *)
THEOREM DispatchFollowsAcceptance ==
  ASSUME Stoppers \subseteq {Loop}
  PROVE  Spec => []AcceptedInOrder
<1>1. Init => AcceptedInOrder
  <2>1. <<>> \o <<>> = <<>>
    BY EmptySeq, ConcatEmptySeq
  <2> QED BY <2>1 DEF Init, AcceptedInOrder, Popped, Waiting, IdleFrame, Loops
<1>2. TypeOK /\ FramesOK /\ StoppersOK /\ AcceptedInOrder /\ [Next]_vars
        => AcceptedInOrder'
  BY AcceptedInOrderStep
<1> QED BY <1>1, <1>2, BusTypeCorrect, PTL DEF Spec

-----------------------------------------------------------------------------
(* The elements of a sequence that grew at its end, and of one that is      *)
(* split into its head and its tail.                                        *)
LEMMA ElemsAppend ==
  ASSUME NEW S, NEW s \in Seq(S), NEW e \in S
  PROVE  Elems(Append(s, e)) = Elems(s) \cup {e}
<1>1. /\ DOMAIN s = 1..Len(s) /\ DOMAIN Append(s, e) = 1..(Len(s) + 1)
      /\ Len(s) \in Nat
      /\ \A i \in 1..Len(s) : Append(s, e)[i] = s[i]
      /\ Append(s, e)[Len(s) + 1] = e
  BY AppendProperties, LenProperties
<1>2. 1..(Len(s) + 1) = 1..Len(s) \cup {Len(s) + 1}
  BY <1>1
<1> QED BY <1>1, <1>2 DEF Elems

LEMMA ElemsHeadTail ==
  ASSUME NEW S, NEW s \in Seq(S), s # <<>>
  PROVE  /\ Elems(s) = {Head(s)} \cup Elems(Tail(s))
         /\ Len(s) = 1 + Len(Tail(s))
<1>1. /\ Len(s) \in Nat /\ Len(s) > 0 /\ DOMAIN s = 1..Len(s)
      /\ Head(s) = s[1] /\ Tail(s) \in Seq(S) /\ Len(Tail(s)) = Len(s) - 1
      /\ \A i \in 1..Len(Tail(s)) : Tail(s)[i] = s[i + 1]
  BY HeadTailProperties, LenProperties, EmptySeq
<1>2. DOMAIN Tail(s) = 1..(Len(s) - 1)
  BY <1>1, LenProperties
<1>3. ASSUME NEW x \in Elems(s) PROVE x = Head(s) \/ x \in Elems(Tail(s))
  <2>1. PICK i \in 1..Len(s) : x = s[i]
    BY <1>1 DEF Elems
  <2>2. CASE i = 1
    BY <1>1, <2>1, <2>2
  <2>3. CASE i # 1
    <3>1. i - 1 \in 1..(Len(s) - 1) /\ (i - 1) + 1 = i
      BY <1>1, <2>3
    <3>2. Tail(s)[i - 1] = x
      BY <1>1, <2>1, <3>1
    <3> QED BY <1>2, <3>1, <3>2 DEF Elems
  <2> QED BY <2>2, <2>3
<1>4. ASSUME NEW x \in Elems(Tail(s)) PROVE x \in Elems(s)
  <2>1. PICK i \in 1..(Len(s) - 1) : x = Tail(s)[i]
    BY <1>2 DEF Elems
  <2>2. i + 1 \in DOMAIN s /\ x = s[i + 1]
    BY <1>1, <2>1
  <2> QED BY <2>2 DEF Elems
<1>5. Head(s) \in Elems(s)
  BY <1>1 DEF Elems
<1> QED BY <1>1, <1>3, <1>4, <1>5

(* A sequence of one element, and the empty one.                            *)
LEMMA ElemsSmall ==
  /\ Elems(<<>>) = {} /\ Len(<<>>) = 0
  /\ \A e : Elems(<<e>>) = {e} /\ Len(<<e>>) = 1
<1>1. Elems(<<>>) = {} /\ Len(<<>>) = 0
  BY DEF Elems
<1>2. ASSUME NEW e PROVE Elems(<<e>>) = {e} /\ Len(<<e>>) = 1
  BY DEF Elems
<1> QED BY <1>1, <1>2

(* A step keeps what is accepted the sum of what is begun, popped and       *)
(* waiting: NoneLost speaks of lengths and elements, so a message that two  *)
(* threads dispatch in an order of their own is still counted once.         *)
LEMMA NoneLostStep == TypeOK /\ FramesOK /\ NoneLost /\ [Next]_vars => NoneLost'
<1> SUFFICES ASSUME TypeOK, FramesOK, NoneLost, [Next]_vars PROVE NoneLost'
  OBVIOUS
<1> USE NoneAssumption
<1> USE DEF queueVars, subVars, sendVars, Loops
<1>1. /\ frame \in [Loops -> Frame] /\ frame["run"] \in Frame /\ frame["drain"] \in Frame
      /\ message_queue \in Seq(Messages) /\ begun \in Seq(Messages)
      /\ accepted \in Seq(Messages)
  BY DEF TypeOK
<1>2. ASSUME UNCHANGED <<accepted, begun, Popped, Waiting>> PROVE NoneLost'
  BY <1>2 DEF NoneLost
<1>3. ASSUME UNCHANGED <<accepted, begun, message_queue, frame>> PROVE NoneLost'
  <2>1. UNCHANGED <<Popped, Waiting>>
    BY <1>3 DEF Popped, Waiting
  <2> QED BY <1>2, <1>3, <2>1
<1>4. /\ Len(begun) \in Nat /\ Len(Popped) \in Nat /\ Len(Waiting) \in Nat
      /\ Len(accepted) \in Nat /\ Waiting \in Seq(Messages)
  <2>1. Popped \in Seq(Messages)
    BY <1>1, EmptySeq DEF Popped, Frame
  <2>2. CASE frame["drain"].copied
    <3>1. message_queue # <<>>
      BY <1>1, <2>2 DEF FramesOK, IdleFrame
    <3> QED BY <1>1, <2>1, <2>2, <3>1, HeadTailProperties, LenProperties DEF Waiting
  <2>3. CASE ~frame["drain"].copied
    BY <1>1, <2>1, <2>3, LenProperties DEF Waiting
  <2> QED BY <2>2, <2>3
<1>5. queue_owner = None => Waiting = message_queue
  BY <1>1 DEF FramesOK, IdleFrame, Waiting
<1>6. ASSUME NEW t \in Threads, Enqueue(t) PROVE NoneLost'
  <2>1. /\ accepted' = Append(accepted, pushing[t])
        /\ message_queue' = Append(message_queue, pushing[t])
        /\ pushing[t] \in Messages
        /\ queue_owner = None /\ UNCHANGED <<queue_owner, begun, frame>>
    BY <1>6 DEF Enqueue, Pushed, TypeOK
  <2>2. Popped' = Popped /\ Waiting = message_queue /\ Waiting' = message_queue'
    BY <1>1, <1>5, <2>1 DEF FramesOK, IdleFrame, Popped, Waiting
  <2>3. /\ Elems(accepted') = Elems(accepted) \cup {pushing[t]}
        /\ Elems(message_queue') = Elems(message_queue) \cup {pushing[t]}
        /\ Len(accepted') = Len(accepted) + 1
        /\ Len(message_queue') = Len(message_queue) + 1
    BY <1>1, <2>1, ElemsAppend, AppendProperties
  <2>4. Len(accepted') = Len(begun) + Len(Popped) + Len(message_queue')
    BY <1>4, <2>2, <2>3 DEF NoneLost
  <2>5. Elems(accepted') = Elems(begun) \cup Elems(Popped) \cup Elems(message_queue')
    BY <2>2, <2>3 DEF NoneLost
  <2> QED BY <2>1, <2>2, <2>4, <2>5 DEF NoneLost
<1>7. ASSUME RunPop PROVE NoneLost'
  <2>1. /\ queue_owner = None /\ message_queue # <<>> /\ run_pc # "busy"
        /\ message_queue' = Tail(message_queue) /\ Head(message_queue) \in Messages
        /\ UNCHANGED <<begun, accepted>>
        /\ frame' = [frame EXCEPT !["run"].msg = Head(message_queue)]
    BY <1>1, <1>7, HeadTailProperties DEF RunPop
  <2>2. Popped = <<>> /\ frame["run"].msg = None /\ ~frame["run"].copied
    BY <1>1, <2>1 DEF FramesOK, IdleFrame, Popped
  <2>3. Popped' = <<Head(message_queue)>>
    BY <1>1, <2>1, <2>2 DEF Frame, Popped
  <2>4. Waiting = message_queue /\ Waiting' = Tail(message_queue)
    BY <1>1, <1>5, <2>1 DEF FramesOK, IdleFrame, Waiting
  <2>5. /\ Elems(Waiting) = Elems(Popped') \cup Elems(Waiting')
        /\ Elems(Popped) = {}
    BY <1>1, <2>1, <2>2, <2>3, <2>4, ElemsHeadTail, ElemsSmall
  <2>6. Len(Waiting) = Len(Popped') + Len(Waiting') /\ Len(Popped) = 0
    BY <1>1, <2>1, <2>2, <2>3, <2>4, ElemsHeadTail, ElemsSmall
  <2>7. Len(accepted) = Len(begun) + Len(Popped') + Len(Waiting')
    <3>1. Len(Popped') \in Nat /\ Len(Waiting') \in Nat
      BY <1>1, <2>1, <2>3, <2>4, ElemsSmall, HeadTailProperties, LenProperties
    <3> QED BY <1>4, <2>6, <3>1 DEF NoneLost
  <2>8. Elems(accepted) = Elems(begun) \cup Elems(Popped') \cup Elems(Waiting')
    BY <2>5 DEF NoneLost
  <2> QED BY <2>1, <2>7, <2>8 DEF NoneLost
<1>8. ASSUME Begin("run") PROVE NoneLost'
  <2>1. /\ frame["run"].msg # None /\ ~frame["run"].copied
        /\ frame["run"].msg \in Messages
        /\ begun' = Append(begun, frame["run"].msg)
        /\ UNCHANGED <<accepted, message_queue>>
    BY <1>1, <1>8 DEF Begin, Turn, Frame
  <2>2. frame'["run"].copied /\ frame'["drain"] = frame["drain"]
    BY <1>1, <1>8 DEF Begin, Frame
  <2>3. Popped = <<frame["run"].msg>> /\ Popped' = <<>> /\ Waiting' = Waiting
    BY <2>1, <2>2 DEF Popped, Waiting
  <2>4. /\ Elems(begun') = Elems(begun) \cup Elems(Popped)
        /\ Elems(Popped') = {} /\ Len(Popped) = 1 /\ Len(Popped') = 0
        /\ Len(begun') = Len(begun) + 1
    BY <1>1, <2>1, <2>3, ElemsAppend, ElemsSmall, AppendProperties
  <2>5. Len(accepted) = Len(begun') + Len(Popped') + Len(Waiting)
    BY <1>4, <2>4 DEF NoneLost
  <2>6. Elems(accepted) = Elems(begun') \cup Elems(Popped') \cup Elems(Waiting)
    BY <2>4 DEF NoneLost
  <2> QED BY <2>1, <2>3, <2>5, <2>6 DEF NoneLost
<1>9. ASSUME Begin("drain") PROVE NoneLost'
  <2>1. /\ frame["drain"].msg # None /\ ~frame["drain"].copied
        /\ frame["drain"].msg \in Messages
        /\ begun' = Append(begun, frame["drain"].msg)
        /\ UNCHANGED <<accepted, message_queue>>
    BY <1>1, <1>9 DEF Begin, Turn, Frame
  <2>2. frame'["drain"].copied /\ frame'["run"] = frame["run"]
    BY <1>1, <1>9 DEF Begin, Frame
  <2>3. /\ Popped' = Popped
        /\ Waiting = message_queue /\ Waiting' = Tail(message_queue)
        /\ message_queue # <<>> /\ Head(message_queue) = frame["drain"].msg
    BY <2>1, <2>2 DEF FramesOK, Popped, Waiting
  <2>4. /\ Elems(begun') = Elems(begun) \cup {Head(message_queue)}
        /\ Elems(Waiting) = {Head(message_queue)} \cup Elems(Waiting')
    BY <1>1, <2>1, <2>3, ElemsAppend, ElemsHeadTail
  <2>5. Len(begun') = Len(begun) + 1 /\ Len(Waiting) = 1 + Len(Waiting')
        /\ Len(Waiting') \in Nat
    BY <1>1, <2>1, <2>3, ElemsHeadTail, AppendProperties, HeadTailProperties,
       LenProperties
  <2>6. Len(accepted) = Len(begun') + Len(Popped) + Len(Waiting')
    BY <1>4, <2>5 DEF NoneLost
  <2>7. Elems(accepted) = Elems(begun') \cup Elems(Popped) \cup Elems(Waiting')
    BY <2>4 DEF NoneLost
  <2> QED BY <2>1, <2>3, <2>6, <2>7 DEF NoneLost
<1>10. ASSUME NEW f \in Loops,
              Return(f) \/ Throw(f) \/ \E h \in Handlers : Deliver(f, h)
       PROVE  NoneLost'
  <2>1. UNCHANGED <<accepted, begun, message_queue>>
    BY <1>10 DEF Return, Throw, Deliver
  <2>2. \A g \in Loops : frame'[g].copied = frame[g].copied
                         /\ frame'[g].msg = frame[g].msg
    BY <1>1, <1>10, OnlyDelivers
  <2> QED BY <1>2, <2>1, <2>2 DEF Popped, Waiting
<1>11. ASSUME RunFinish PROVE NoneLost'
  <2>1. Popped = <<>> /\ UNCHANGED <<accepted, begun, message_queue>>
    BY <1>11 DEF RunFinish, Done, Popped
  <2>2. Popped' = <<>> /\ Waiting' = Waiting
    BY <1>1, <1>11 DEF RunFinish, IdleFrame, Popped, Waiting
  <2> QED BY <1>2, <2>1, <2>2
<1>12. ASSUME DrainNext PROVE NoneLost'
  <2>1. ~frame["drain"].copied /\ UNCHANGED <<accepted, begun, message_queue>>
    BY <1>1, <1>12 DEF DrainNext, Draining, FramesOK, IdleFrame
  <2>2. ~frame'["drain"].copied /\ frame'["run"] = frame["run"]
    BY <1>1, <1>12, <2>1 DEF DrainNext, Frame
  <2> QED BY <1>2, <2>1, <2>2 DEF Popped, Waiting
<1>13. ASSUME DrainFinish PROVE NoneLost'
  <2>1. /\ Waiting = Tail(message_queue) /\ message_queue' = Tail(message_queue)
        /\ UNCHANGED <<accepted, begun>>
    BY <1>13 DEF DrainFinish, Done, Waiting
  <2>2. Waiting' = message_queue' /\ Popped' = Popped
    BY <1>1, <1>13 DEF DrainFinish, IdleFrame, Popped, Waiting
  <2> QED BY <1>2, <2>1, <2>2
<1>14. ASSUME RunEnter \/ RunCheck \/ RunDrained \/ StopReturn \/ Start
       PROVE  NoneLost'
  BY <1>3, <1>14 DEF RunEnter, RunCheck, RunDrained, StopReturn, Start
<1> QED
  BY <1>3, <1>6, <1>7, <1>8, <1>9, <1>10, <1>11, <1>12, <1>13, <1>14
  DEF Next, SendStep, StopStep, DispatchStep, RunStep, DrainStep, vars,
      Send, Refuse, DropFull, Pushed, Register, Unregister, Subscribe,
      UnsubscribeAll, Unsubscribe, StopCheck, StopClear, StopLock

(* Whichever threads stop the bus, and however their dispatch interleaves   *)
(* with run(): every accepted message is begun, popped or waiting, none     *)
(* twice.                                                                   *)
THEOREM NoMessageIsLost == Spec => []NoneLost
<1>1. Init => NoneLost
  <2> SUFFICES ASSUME Init PROVE NoneLost
    OBVIOUS
  <2>1. accepted = <<>> /\ begun = <<>> /\ Popped = <<>> /\ Waiting = <<>>
    BY DEF Init, Popped, Waiting, IdleFrame, Loops
  <2> QED BY <2>1, ElemsSmall DEF NoneLost
<1> QED BY <1>1, NoneLostStep, BusTypeCorrect, PTL DEF Spec

-----------------------------------------------------------------------------
(* The dispatch of run() is over before Loop stops the bus, when no handler *)
(* may stop it: stop() called from a handler would dispatch newer messages  *)
(* in the middle of an older one.                                           *)
Alone == (pc[Loop] \in {"stop", "lock"} \/ queue_owner = Loop) => run_pc = "out"

(* A message is on its way to the queue once and was never accepted before. *)
SentOnce ==
  /\ \A t \in Threads : pc[t] = "push" =>
       pushing[t] \notin fresh /\ pushing[t] \notin Elems(accepted)
  /\ \A t, u \in Threads :
       pc[t] = "push" /\ pc[u] = "push" /\ pushing[t] = pushing[u] => t = u
  /\ fresh \cap Elems(accepted) = {}
  /\ \A i, j \in DOMAIN accepted : accepted[i] = accepted[j] => i = j

(* What was begun are the first messages that were accepted.                *)
BegunFirst ==
  Len(begun) <= Len(accepted) /\ \A i \in 1..Len(begun) : begun[i] = accepted[i]

(* What is being delivered was begun last, to handlers it has not reached   *)
(* yet; what was delivered was begun, and in that order to each handler.    *)
CallsFollow ==
  /\ \A f \in Loops : frame[f].copied =>
       begun # <<>> /\ frame[f].msg = begun[Len(begun)]
  /\ \A f \in Loops : \A h \in frame[f].todo : <<h, frame[f].msg>> \notin Elems(calls)
  /\ \A i \in DOMAIN calls : calls[i][2] \in Elems(begun)
  /\ \A i, j \in DOMAIN calls : i < j /\ calls[i][1] = calls[j][1] =>
       \E p, q \in DOMAIN begun :
         p < q /\ begun[p] = calls[i][2] /\ begun[q] = calls[j][2]

FifoInv == Alone /\ SentOnce /\ CallsFollow

(* Each step keeps the dispatch of run() apart from stop().                 *)
LEMMA AloneStep ==
  ASSUME "stop" \notin HandlerOps
  PROVE  TypeOK /\ Alone /\ [Next]_vars => Alone'
<1> SUFFICES ASSUME TypeOK, Alone, [Next]_vars PROVE Alone'
  OBVIOUS
<1> USE ThreadsAssumption, NoneAssumption
<1> USE DEF Alone, queueVars, subVars, sendVars
<1>1. pc \in [Threads -> {"idle", "push", "stop", "lock"}]
  BY DEF TypeOK
<1>2. ASSUME UNCHANGED <<pc, queue_owner, run_pc>> PROVE Alone'
  BY <1>2
<1>3. ASSUME NEW t \in Threads,
             \/ \E m \in Messages : Send(t, m)
             \/ Enqueue(t) \/ DropFull(t)
      PROVE  Alone'
  BY <1>1, <1>3 DEF Send, Enqueue, DropFull, Pushed
<1>4. ASSUME RunStep PROVE Alone'
  <2>1. CASE RunEnter
    BY <1>1, <2>1 DEF RunEnter, AtTop
  <2>2. CASE RunCheck \/ RunDrained
    BY <2>2 DEF RunCheck, RunDrained
  <2>3. CASE RunPop
    BY <1>1, <2>3 DEF RunPop
  <2>4. CASE RunFinish
    BY <1>1, <2>4 DEF RunFinish, Done, Turn, Active, Dispatcher
  <2> QED BY <1>4, <2>1, <2>2, <2>3, <2>4 DEF RunStep
<1>5. ASSUME NEW t \in Threads, StopCheck(t) PROVE Alone'
  <2>1. t = Loop => run_pc = "out"
    BY <1>5 DEF StopCheck, MayCall, AtTop
  <2>2. pc' = [pc EXCEPT ![t] = "stop"] /\ UNCHANGED <<queue_owner, run_pc>>
    BY <1>5 DEF StopCheck
  <2> QED BY <1>1, <2>1, <2>2
<1>6. ASSUME NEW t \in Threads, StopClear(t) \/ StopLock(t) PROVE Alone'
  BY <1>1, <1>6 DEF StopClear, StopLock
<1>7. ASSUME StopReturn PROVE Alone'
  BY <1>7 DEF StopReturn
<1>8. ASSUME DispatchStep \/ DrainNext \/ DrainFinish \/ Start PROVE Alone'
  BY <1>2, <1>8 DEF DispatchStep, Begin, Return, Throw, Deliver, DrainNext,
                    DrainFinish, Start
<1>9. ASSUME \/ \E t \in Threads, m \in Messages : Refuse(t, m)
             \/ \E t \in Threads, topic \in Topics :
                  Subscribe(t, topic) \/ UnsubscribeAll(t, topic)
             \/ \E t \in Threads, k \in Tokens : Unsubscribe(t, k)
             \/ \E e \in Endpoints : Register(e) \/ Unregister(e)
             \/ UNCHANGED vars
      PROVE  Alone'
  BY <1>2, <1>9 DEF Refuse, Subscribe, UnsubscribeAll, Unsubscribe, Register,
                    Unregister, vars
<1> QED
  BY <1>3, <1>4, <1>5, <1>6, <1>7, <1>8, <1>9
  DEF Next, SendStep, StopStep, DrainStep

(* Each step keeps every message on its way once.                           *)
LEMMA SentOnceStep == TypeOK /\ SentOnce /\ [Next]_vars => SentOnce'
<1> SUFFICES ASSUME TypeOK, SentOnce, [Next]_vars PROVE SentOnce'
  OBVIOUS
<1> USE DEF queueVars, subVars, sendVars
<1>1. /\ pc \in [Threads -> {"idle", "push", "stop", "lock"}]
      /\ pushing \in [Threads -> Messages \cup {None}]
      /\ accepted \in Seq(Messages)
  BY DEF TypeOK
<1>2. ASSUME NEW t \in Threads, NEW m \in Messages, Send(t, m) PROVE SentOnce'
  <2>1. /\ m \in fresh /\ fresh' = fresh \ {m} /\ accepted' = accepted
        /\ pc' = [pc EXCEPT ![t] = "push"] /\ pushing' = [pushing EXCEPT ![t] = m]
    BY <1>2 DEF Send
  <2>2. m \notin Elems(accepted)
    BY <2>1 DEF SentOnce
  <2>3. \A u \in Threads : pc'[u] = "push" =>
          pushing'[u] \notin fresh' /\ pushing'[u] \notin Elems(accepted')
    BY <1>1, <2>1, <2>2 DEF SentOnce
  <2>4. \A u, v \in Threads :
          pc'[u] = "push" /\ pc'[v] = "push" /\ pushing'[u] = pushing'[v] => u = v
    <3> SUFFICES ASSUME NEW u \in Threads, NEW v \in Threads,
                        pc'[u] = "push", pc'[v] = "push", pushing'[u] = pushing'[v],
                        u # v
                 PROVE  FALSE
      OBVIOUS
    <3>1. CASE u = t
      BY <1>1, <2>1, <3>1 DEF SentOnce
    <3>2. CASE v = t
      BY <1>1, <2>1, <3>2 DEF SentOnce
    <3>3. CASE u # t /\ v # t
      BY <1>1, <2>1, <3>3 DEF SentOnce
    <3> QED BY <3>1, <3>2, <3>3
  <2>5. fresh' \cap Elems(accepted') = {}
    BY <2>1 DEF SentOnce
  <2>6. \A i, j \in DOMAIN accepted' : accepted'[i] = accepted'[j] => i = j
    BY <2>1 DEF SentOnce
  <2> QED BY <2>3, <2>4, <2>5, <2>6 DEF SentOnce
<1>3. ASSUME NEW t \in Threads, NEW m \in Messages, Refuse(t, m) PROVE SentOnce'
  <2>1. fresh' \subseteq fresh /\ UNCHANGED <<pc, pushing, accepted>>
    BY <1>3 DEF Refuse
  <2> QED BY <2>1 DEF SentOnce
<1>4. ASSUME NEW t \in Threads, Enqueue(t) PROVE SentOnce'
  <2>1. /\ pc[t] = "push" /\ fresh' = fresh
        /\ pc' = [pc EXCEPT ![t] = "idle"] /\ pushing' = [pushing EXCEPT ![t] = None]
        /\ accepted' = Append(accepted, pushing[t]) /\ pushing[t] \in Messages
    BY <1>4 DEF Enqueue, Pushed, TypeOK
  <2>2. Elems(accepted') = Elems(accepted) \cup {pushing[t]}
    BY <1>1, <2>1, ElemsAppend
  <2>3. \A u \in Threads : pc'[u] = "push" => u # t /\ pc[u] = "push"
    BY <1>1, <2>1
  <2>4. \A u \in Threads : pc'[u] = "push" =>
          pushing'[u] \notin fresh' /\ pushing'[u] \notin Elems(accepted')
    <3> SUFFICES ASSUME NEW u \in Threads, pc'[u] = "push"
                 PROVE  pushing'[u] \notin fresh' /\ pushing'[u] \notin Elems(accepted')
      OBVIOUS
    <3>1. u # t /\ pc[u] = "push" /\ pushing'[u] = pushing[u]
      BY <1>1, <2>1, <2>3
    <3>2. pushing[u] # pushing[t]
      BY <2>1, <3>1 DEF SentOnce
    <3> QED BY <2>1, <2>2, <3>1, <3>2 DEF SentOnce
  <2>5. \A u, v \in Threads :
          pc'[u] = "push" /\ pc'[v] = "push" /\ pushing'[u] = pushing'[v] => u = v
    BY <1>1, <2>1, <2>3 DEF SentOnce
  <2>6. fresh' \cap Elems(accepted') = {}
    BY <2>1, <2>2 DEF SentOnce
  <2>7. \A i, j \in DOMAIN accepted' : accepted'[i] = accepted'[j] => i = j
    <3>1. /\ DOMAIN accepted = 1..Len(accepted) /\ Len(accepted) \in Nat
          /\ DOMAIN accepted' = 1..(Len(accepted) + 1)
          /\ \A i \in 1..Len(accepted) : accepted'[i] = accepted[i]
          /\ accepted'[Len(accepted) + 1] = pushing[t]
      BY <1>1, <2>1, AppendProperties, LenProperties
    <3>2. \A i \in 1..Len(accepted) : accepted'[i] # pushing[t]
      BY <2>1, <3>1 DEF SentOnce, Elems
    <3> SUFFICES ASSUME NEW i \in DOMAIN accepted', NEW j \in DOMAIN accepted',
                        accepted'[i] = accepted'[j]
                 PROVE  i = j
      OBVIOUS
    <3>3. CASE i = Len(accepted) + 1 \/ j = Len(accepted) + 1
      BY <3>1, <3>2, <3>3
    <3>4. CASE i # Len(accepted) + 1 /\ j # Len(accepted) + 1
      <4>1. i \in 1..Len(accepted) /\ j \in 1..Len(accepted)
        BY <3>1, <3>4
      <4> QED BY <3>1, <4>1 DEF SentOnce
    <3> QED BY <3>3, <3>4
  <2> QED BY <2>4, <2>5, <2>6, <2>7 DEF SentOnce
<1>5. ASSUME NEW t \in Threads, DropFull(t) PROVE SentOnce'
  <2>1. /\ UNCHANGED <<fresh, accepted>>
        /\ pc' = [pc EXCEPT ![t] = "idle"] /\ pushing' = [pushing EXCEPT ![t] = None]
    BY <1>5 DEF DropFull, Pushed
  <2>2. \A u \in Threads : pc'[u] = "push" => pc[u] = "push" /\ pushing'[u] = pushing[u]
    BY <1>1, <2>1
  <2> QED BY <2>1, <2>2 DEF SentOnce
<1>6. ASSUME NEW t \in Threads, StopCheck(t) \/ StopClear(t) \/ StopLock(t)
      PROVE  SentOnce'
  <2>1. /\ UNCHANGED <<fresh, accepted, pushing>>
        /\ \E w \in {"stop", "lock", "idle"} : pc' = [pc EXCEPT ![t] = w]
    BY <1>6 DEF StopCheck, StopClear, StopLock
  <2>2. \A u \in Threads : pc'[u] = "push" => pc[u] = "push"
    BY <1>1, <2>1
  <2> QED BY <2>1, <2>2 DEF SentOnce
<1>7. ASSUME UNCHANGED <<pc, pushing, fresh, accepted>> PROVE SentOnce'
  BY <1>7 DEF SentOnce
<1>8. ASSUME DispatchStep \/ RunStep \/ DrainStep \/ Start PROVE SentOnce'
  BY <1>7, <1>8 DEF DispatchStep, Begin, Return, Throw, Deliver, RunStep, RunEnter,
    RunCheck, RunPop, RunDrained, RunFinish, DrainStep, DrainNext, DrainFinish,
    StopReturn, Start
<1>9. ASSUME \/ \E t \in Threads, topic \in Topics :
                  Subscribe(t, topic) \/ UnsubscribeAll(t, topic)
             \/ \E t \in Threads, k \in Tokens : Unsubscribe(t, k)
             \/ \E e \in Endpoints : Register(e) \/ Unregister(e)
             \/ UNCHANGED vars
      PROVE  SentOnce'
  BY <1>7, <1>9 DEF Subscribe, UnsubscribeAll, Unsubscribe, Register, Unregister, vars
<1> QED
  BY <1>2, <1>3, <1>4, <1>5, <1>6, <1>8, <1>9
  DEF Next, SendStep, StopStep

(* What follows a sequence does not change its elements.                    *)
LEMMA PrefixOf ==
  ASSUME NEW S, NEW a \in Seq(S), NEW b \in Seq(S), NEW c \in Seq(S)
  PROVE  /\ Len(a) <= Len(a \o b \o c)
         /\ \A i \in 1..Len(a) : (a \o b \o c)[i] = a[i]
<1>1. /\ a \o b \in Seq(S) /\ Len(a \o b) = Len(a) + Len(b)
      /\ \A i \in 1..Len(a) : (a \o b)[i] = a[i]
  BY ConcatProperties, LenProperties
<1>2. /\ Len((a \o b) \o c) = Len(a \o b) + Len(c)
      /\ \A i \in 1..Len(a \o b) : ((a \o b) \o c)[i] = (a \o b)[i]
  BY <1>1, ConcatProperties, LenProperties
<1>3. Len(a) \in Nat /\ Len(b) \in Nat /\ Len(c) \in Nat
  BY LenProperties
<1> QED BY <1>1, <1>2, <1>3

(* It follows from the order of acceptance.                                 *)
LEMMA BegunFirstHolds == TypeOK /\ FramesOK /\ AcceptedInOrder => BegunFirst
<1> SUFFICES ASSUME TypeOK, FramesOK, AcceptedInOrder PROVE BegunFirst
  OBVIOUS
<1>1. /\ frame \in [Loops -> Frame] /\ message_queue \in Seq(Messages)
      /\ begun \in Seq(Messages)
  BY DEF TypeOK
<1>2. Popped \in Seq(Messages)
  BY <1>1, EmptySeq DEF Popped, Frame, Loops
<1>3. Waiting \in Seq(Messages)
  <2>1. frame["drain"].copied => message_queue # <<>>
    BY <1>1 DEF FramesOK, IdleFrame, Loops
  <2> QED BY <1>1, <2>1, HeadTailProperties DEF Waiting
<1> QED BY <1>1, <1>2, <1>3, PrefixOf DEF AcceptedInOrder, BegunFirst

(* Each step keeps the calls in the order of the messages begun.            *)
LEMMA CallsFollowStep ==
  ASSUME Stoppers \subseteq {Loop}
  PROVE  TypeOK /\ FramesOK /\ StoppersOK /\ Alone /\ SentOnce /\ CallsFollow
           /\ BegunFirst' /\ [Next]_vars => CallsFollow'
<1> SUFFICES ASSUME TypeOK, FramesOK, StoppersOK, Alone, SentOnce, CallsFollow,
                    BegunFirst', [Next]_vars
             PROVE  CallsFollow'
  OBVIOUS
<1> USE DEF queueVars, subVars, sendVars
<1>1. /\ frame \in [Loops -> Frame] /\ begun \in Seq(Messages)
      /\ calls \in Seq(Handlers \X Messages) /\ accepted \in Seq(Messages)
      /\ message_queue \in Seq(Messages)
  BY DEF TypeOK
<1>2. /\ DOMAIN begun = 1..Len(begun) /\ Len(begun) \in Nat
      /\ DOMAIN calls = 1..Len(calls) /\ Len(calls) \in Nat
  BY <1>1, LenProperties
<1>3. ASSUME UNCHANGED <<begun, calls>>,
             \A g \in Loops : /\ frame'[g].copied => frame[g].copied
                              /\ frame'[g].copied => frame'[g].msg = frame[g].msg
                              /\ frame'[g].todo \subseteq frame[g].todo
                              /\ frame'[g].todo # {} => frame'[g].copied
      PROVE  CallsFollow'
  <2>1. \A g \in Loops : frame'[g].copied =>
          begun' # <<>> /\ frame'[g].msg = begun'[Len(begun')]
    BY <1>3 DEF CallsFollow
  <2>2. \A g \in Loops : \A h \in frame'[g].todo :
          <<h, frame'[g].msg>> \notin Elems(calls')
    BY <1>3 DEF CallsFollow, Elems
  <2>3. \A i \in DOMAIN calls' : calls'[i][2] \in Elems(begun')
    BY <1>3 DEF CallsFollow, Elems
  <2> QED BY <1>3, <2>1, <2>2, <2>3 DEF CallsFollow
<1>4. ASSUME UNCHANGED <<begun, calls, frame>> PROVE CallsFollow'
  BY <1>4 DEF CallsFollow, Elems
<1>5. ASSUME NEW f \in Loops, Begin(f) PROVE CallsFollow'
  <2> DEFINE m == frame[f].msg
  <2>1. /\ m \in Messages /\ m # None /\ ~frame[f].copied /\ begun' = Append(begun, m)
        /\ Active(f) /\ UNCHANGED <<calls, accepted>>
    BY <1>1, <1>5 DEF Begin, Turn, Frame
  <2>2. /\ frame'[f].copied /\ frame'[f].msg = m
        /\ \A g \in Loops : g # f => frame'[g] = frame[g]
    BY <1>1, <1>5 DEF Begin, Frame, Loops
  <2>3. \A g \in Loops : g # f => ~frame[g].copied /\ frame[g].todo = {}
    <3>1. CASE f = "run"
      <4>1. queue_owner = None
        BY <2>1, <3>1 DEF Active, StoppersOK, Alone
      <4>2. frame["drain"].msg = None
        BY <4>1 DEF FramesOK
      <4> QED BY <3>1, <4>2 DEF FramesOK, IdleFrame, Loops
    <3>2. CASE f = "drain"
      <4>1. run_pc = "out"
        BY <2>1, <3>2 DEF Active, StoppersOK, Alone
      <4>2. frame["run"].msg = None
        BY <4>1 DEF FramesOK
      <4> QED BY <3>2, <4>2 DEF FramesOK, IdleFrame, Loops
    <3> QED BY <3>1, <3>2 DEF Loops
  <2>4. /\ begun' \in Seq(Messages) /\ Len(begun') = Len(begun) + 1
        /\ DOMAIN begun' = 1..(Len(begun) + 1)
        /\ \A i \in 1..Len(begun) : begun'[i] = begun[i]
        /\ begun'[Len(begun) + 1] = m
    BY <1>1, <2>1, AppendProperties, LenProperties
  <2>5. /\ Len(begun') <= Len(accepted')
        /\ \A i \in 1..Len(begun') : begun'[i] = accepted'[i]
    BY DEF BegunFirst
  <2>6. m \notin Elems(begun)
    <3> SUFFICES ASSUME NEW i \in 1..Len(begun), begun[i] = m PROVE FALSE
      BY <1>2 DEF Elems
    <3>1. i \in 1..(Len(begun) + 1) /\ Len(begun) + 1 \in 1..(Len(begun) + 1)
      BY <1>2
    <3>2. accepted[i] = m /\ accepted[Len(begun) + 1] = m
      BY <2>1, <2>4, <2>5, <3>1
    <3>3. i \in DOMAIN accepted /\ Len(begun) + 1 \in DOMAIN accepted
      BY <1>1, <1>2, <2>1, <2>4, <2>5, <3>1, LenProperties
    <3>4. i = Len(begun) + 1
      BY <3>2, <3>3 DEF SentOnce
    <3> QED BY <1>2, <3>4
  <2>7. \A i \in DOMAIN calls : calls[i][2] # m
    BY <2>6 DEF CallsFollow
  <2>8. \A g \in Loops : frame'[g].copied =>
          begun' # <<>> /\ frame'[g].msg = begun'[Len(begun')]
    <3>1. begun' # <<>>
      BY <1>2, <2>4, EmptySeq
    <3> QED BY <2>2, <2>3, <2>4, <3>1
  <2>9. \A g \in Loops : \A h \in frame'[g].todo :
          <<h, frame'[g].msg>> \notin Elems(calls')
    <3>1. \A h : <<h, m>> \notin Elems(calls')
      BY <2>1, <2>7 DEF Elems
    <3> QED BY <2>2, <2>3, <3>1
  <2>10. Elems(begun) \subseteq Elems(begun')
    BY <1>2, <2>4 DEF Elems
  <2>11. \A i \in DOMAIN calls' : calls'[i][2] \in Elems(begun')
    BY <2>1, <2>10 DEF CallsFollow
  <2>12. \A i, j \in DOMAIN calls' : i < j /\ calls'[i][1] = calls'[j][1] =>
           \E p, q \in DOMAIN begun' :
             p < q /\ begun'[p] = calls'[i][2] /\ begun'[q] = calls'[j][2]
    <3> SUFFICES ASSUME NEW i \in DOMAIN calls, NEW j \in DOMAIN calls,
                        i < j, calls[i][1] = calls[j][1]
                 PROVE  \E p, q \in DOMAIN begun' :
                          p < q /\ begun'[p] = calls[i][2] /\ begun'[q] = calls[j][2]
      BY <2>1
    <3>1. PICK p \in DOMAIN begun, q \in DOMAIN begun :
            p < q /\ begun[p] = calls[i][2] /\ begun[q] = calls[j][2]
      BY DEF CallsFollow
    <3>2. p \in DOMAIN begun' /\ q \in DOMAIN begun'
      BY <1>2, <2>4
    <3> QED BY <1>2, <2>4, <3>1, <3>2
  <2> QED BY <2>8, <2>9, <2>11, <2>12 DEF CallsFollow
<1>6. ASSUME NEW f \in Loops, NEW h \in Handlers, Deliver(f, h) PROVE CallsFollow'
  <2> DEFINE m == frame[f].msg
  <2>1. /\ h \in frame[f].todo /\ m \in Messages /\ begun' = begun
        /\ calls' = Append(calls, <<h, m>>)
    BY <1>1, <1>6 DEF Deliver, Turn, Frame
  <2>2. \A g \in Loops : frame'[g].copied = frame[g].copied
                         /\ frame'[g].msg = frame[g].msg
    BY <1>1, <1>6, OnlyDelivers
  <2>3. /\ h \notin frame'[f].todo /\ frame'[f].todo \subseteq frame[f].todo
        /\ \A g \in Loops : g # f => frame'[g] = frame[g]
    BY <1>1, <1>6 DEF Deliver, Frame, Loops
  <2>4. frame[f].copied
    BY <2>1 DEF FramesOK
  <2>5. begun # <<>> /\ m = begun[Len(begun)] /\ Len(begun) \in DOMAIN begun
    <3>1. begun # <<>> /\ m = begun[Len(begun)]
      BY <2>4 DEF CallsFollow
    <3>2. Len(begun) > 0
      BY <1>1, <3>1, EmptySeq, LenProperties
    <3> QED BY <1>2, <3>1, <3>2
  <2>6. /\ DOMAIN calls' = 1..(Len(calls) + 1)
        /\ \A i \in 1..Len(calls) : calls'[i] = calls[i]
        /\ calls'[Len(calls) + 1] = <<h, m>>
    <3>1. <<h, m>> \in Handlers \X Messages
      BY <2>1
    <3> QED BY <1>1, <2>1, <3>1, AppendProperties, LenProperties
  <2>7. \A g \in Loops : g # f => frame[g].todo = {}
    <3>1. CASE f = "run"
      <4>1. queue_owner = None
        BY <1>6, <3>1 DEF Deliver, Turn, Active, StoppersOK, Alone
      <4>2. frame["drain"].msg = None
        BY <4>1 DEF FramesOK
      <4> QED BY <3>1, <4>2 DEF FramesOK, IdleFrame, Loops
    <3>2. CASE f = "drain"
      <4>1. run_pc = "out"
        BY <1>6, <3>2 DEF Deliver, Turn, Active, StoppersOK, Alone
      <4>2. frame["run"].msg = None
        BY <4>1 DEF FramesOK
      <4> QED BY <3>2, <4>2 DEF FramesOK, IdleFrame, Loops
    <3> QED BY <3>1, <3>2 DEF Loops
  <2>8. \A g \in Loops : frame'[g].copied =>
          begun' # <<>> /\ frame'[g].msg = begun'[Len(begun')]
    BY <2>1, <2>2 DEF CallsFollow
  <2>9. \A g \in Loops : \A k \in frame'[g].todo :
          <<k, frame'[g].msg>> \notin Elems(calls')
    <3>1. \A g \in Loops : g # f => frame'[g].todo = {}
      BY <2>3, <2>7
    <3>2. Elems(calls') = Elems(calls) \cup {<<h, m>>}
      <4>1. <<h, m>> \in Handlers \X Messages
        BY <2>1
      <4>2. ASSUME NEW s \in Seq(Handlers \X Messages), NEW e \in Handlers \X Messages
            PROVE  Elems(Append(s, e)) = Elems(s) \cup {e}
        BY ElemsAppend
      <4> QED BY <1>1, <2>1, <4>1, <4>2
    <3>3. \A k \in frame'[f].todo : k # h /\ <<k, m>> \notin Elems(calls)
      BY <2>3 DEF CallsFollow
    <3>4. \A k \in frame'[f].todo : <<k, m>> \notin Elems(calls')
      BY <3>2, <3>3
    <3>5. frame'[f].msg = m
      BY <2>2
    <3> QED BY <3>1, <3>4, <3>5
  <2>10. \A i \in DOMAIN calls' : calls'[i][2] \in Elems(begun')
    <3> SUFFICES ASSUME NEW i \in DOMAIN calls' PROVE calls'[i][2] \in Elems(begun)
      BY <2>1
    <3>1. CASE i = Len(calls) + 1
      BY <2>5, <2>6, <3>1 DEF Elems
    <3>2. CASE i # Len(calls) + 1
      <4>1. i \in 1..Len(calls)
        BY <1>2, <2>6, <3>2
      <4> QED BY <1>2, <2>6, <4>1 DEF CallsFollow
    <3> QED BY <3>1, <3>2
  <2>11. ASSUME NEW i \in DOMAIN calls', NEW j \in DOMAIN calls',
                i < j, calls'[i][1] = calls'[j][1]
         PROVE  \E p, q \in DOMAIN begun :
                  p < q /\ begun[p] = calls'[i][2] /\ begun[q] = calls'[j][2]
    <3>1. i \in 1..Len(calls) /\ calls'[i] = calls[i]
      BY <1>2, <2>6, <2>11
    <3>2. CASE j = Len(calls) + 1
      <4>1. calls[i][1] = h /\ calls'[j][2] = m
        BY <2>6, <2>11, <3>1, <3>2
      <4>2. calls[i] \in Handlers \X Messages
        BY <1>1, <1>2, <3>1, ElementOfSeq
      <4>3. calls[i][2] # m
        <5>1. ASSUME calls[i][2] = m PROVE <<h, m>> \in Elems(calls)
          <6>1. calls[i] = <<h, m>>
            BY <4>1, <4>2, <5>1
          <6> QED BY <1>2, <3>1, <6>1 DEF Elems
        <5> QED BY <2>1, <5>1 DEF CallsFollow
      <4>4. PICK p \in DOMAIN begun : begun[p] = calls[i][2]
        BY <1>2, <3>1 DEF CallsFollow, Elems
      <4>5. p < Len(begun)
        BY <1>2, <2>5, <4>3, <4>4
      <4> QED BY <2>5, <3>1, <4>1, <4>4, <4>5
    <3>3. CASE j # Len(calls) + 1
      <4>1. j \in 1..Len(calls) /\ calls'[j] = calls[j]
        BY <1>2, <2>6, <3>3
      <4> QED BY <1>2, <2>11, <3>1, <4>1 DEF CallsFollow
    <3> QED BY <3>2, <3>3
  <2>12. \A i, j \in DOMAIN calls' : i < j /\ calls'[i][1] = calls'[j][1] =>
           \E p, q \in DOMAIN begun' :
             p < q /\ begun'[p] = calls'[i][2] /\ begun'[q] = calls'[j][2]
    BY <2>1, <2>11
  <2> QED BY <2>8, <2>9, <2>10, <2>12 DEF CallsFollow
<1>7. ASSUME NEW f \in Loops, Return(f) \/ Throw(f) PROVE CallsFollow'
  <2>1. \A g \in Loops : frame'[g].copied = frame[g].copied
                         /\ frame'[g].msg = frame[g].msg
    BY <1>1, <1>7, OnlyDelivers
  <2>2. UNCHANGED <<begun, calls>>
    BY <1>7 DEF Return, Throw
  <2>3. \A g \in Loops : frame'[g].todo \subseteq frame[g].todo
    <3>1. \/ frame' = [frame EXCEPT ![f] = [frame[f] EXCEPT !.cur = None]]
          \/ frame' = [frame EXCEPT ![f] = [frame[f] EXCEPT !.cur = None, !.todo = {}]]
      BY <1>7 DEF Return, Throw
    <3>2. \A r \in Frame : /\ [r EXCEPT !.cur = None].todo = r.todo
                           /\ [r EXCEPT !.cur = None, !.todo = {}].todo = {}
      BY DEF Frame
    <3>3. frame[f] \in Frame
      BY <1>1
    <3>4. frame'[f].todo \subseteq frame[f].todo
      BY <1>1, <3>1, <3>2, <3>3
    <3>5. \A g \in Loops : g # f => frame'[g] = frame[g]
      BY <1>1, <3>1
    <3> QED BY <3>4, <3>5
  <2>4. \A g \in Loops : frame'[g].todo # {} => frame'[g].copied
    BY <2>1, <2>3 DEF FramesOK
  <2> QED BY <1>3, <2>1, <2>2, <2>3, <2>4
<1>8. ASSUME RunPop \/ DrainNext PROVE CallsFollow'
  <2>1. PICK f \in Loops :
          /\ frame' = [frame EXCEPT ![f] = [frame[f] EXCEPT !.msg = Head(message_queue)]]
          /\ frame[f].msg = None
    BY <1>8 DEF RunPop, DrainNext, Draining, FramesOK, Loops
  <2>2. frame[f] = IdleFrame /\ UNCHANGED <<begun, calls>>
    BY <1>8, <2>1 DEF FramesOK, RunPop, DrainNext
  <2>3. ~frame'[f].copied /\ frame'[f].todo = {}
    BY <1>1, <2>1, <2>2 DEF IdleFrame
  <2>4. \A g \in Loops : g # f => frame'[g] = frame[g]
    BY <1>1, <2>1
  <2>5. \A g \in Loops : frame[g].todo # {} => frame[g].copied
    BY DEF FramesOK
  <2> QED BY <1>3, <2>2, <2>3, <2>4, <2>5
<1>9. ASSUME RunFinish \/ DrainFinish PROVE CallsFollow'
  <2>1. PICK f \in Loops : frame' = [frame EXCEPT ![f] = IdleFrame]
    BY <1>9 DEF RunFinish, DrainFinish, Loops
  <2>2. ~frame'[f].copied /\ frame'[f].todo = {} /\ UNCHANGED <<begun, calls>>
    BY <1>1, <1>9, <2>1 DEF IdleFrame, RunFinish, DrainFinish
  <2>3. \A g \in Loops : g # f => frame'[g] = frame[g]
    BY <1>1, <2>1
  <2>4. \A g \in Loops : frame[g].todo # {} => frame[g].copied
    BY DEF FramesOK
  <2> QED BY <1>3, <2>2, <2>3, <2>4
<1>10. ASSUME RunEnter \/ RunCheck \/ RunDrained \/ StopReturn \/ Start
       PROVE  CallsFollow'
  BY <1>4, <1>10 DEF RunEnter, RunCheck, RunDrained, StopReturn, Start
<1> QED
  BY <1>4, <1>5, <1>6, <1>7, <1>8, <1>9, <1>10
  DEF Next, SendStep, StopStep, DispatchStep, RunStep, DrainStep, vars,
      Send, Refuse, Enqueue, DropFull, Pushed, Register, Unregister, Subscribe,
      UnsubscribeAll, Unsubscribe, StopCheck, StopClear, StopLock

(* Calls in the order of the messages begun are calls in the order they     *)
(* were accepted.                                                           *)
LEMMA FifoHolds ==
  TypeOK /\ BegunFirst /\ SentOnce /\ CallsFollow => HandlerSeesFifo
<1> SUFFICES ASSUME TypeOK, BegunFirst, SentOnce, CallsFollow,
                    NEW i \in DOMAIN calls, NEW j \in DOMAIN calls,
                    i < j, calls[i][1] = calls[j][1]
             PROVE  PositionOf(calls[i][2]) < PositionOf(calls[j][2])
  BY DEF HandlerSeesFifo
<1>1. /\ Len(begun) <= Len(accepted)
      /\ \A p \in 1..Len(begun) : begun[p] = accepted[p]
  BY DEF BegunFirst
<1>2. /\ DOMAIN begun = 1..Len(begun) /\ DOMAIN accepted = 1..Len(accepted)
      /\ Len(begun) \in Nat /\ Len(accepted) \in Nat
  BY LenProperties DEF TypeOK
<1>3. PICK p \in DOMAIN begun, q \in DOMAIN begun :
        p < q /\ begun[p] = calls[i][2] /\ begun[q] = calls[j][2]
  BY DEF CallsFollow
<1>4. ASSUME NEW r \in DOMAIN begun PROVE PositionOf(begun[r]) = r
  <2>1. r \in DOMAIN accepted /\ accepted[r] = begun[r]
    BY <1>1, <1>2
  <2>2. \A s \in DOMAIN accepted : accepted[s] = begun[r] => s = r
    BY <2>1 DEF SentOnce
  <2> QED BY <2>1, <2>2 DEF PositionOf
<1> QED BY <1>3, <1>4

(* The invariant holds with one thread that both runs and stops the bus,    *)
(* and no handler that stops it.                                            *)
LEMMA FifoInvHolds ==
  ASSUME Stoppers \subseteq {Loop}, "stop" \notin HandlerOps
  PROVE  Spec => [](TypeOK /\ FramesOK /\ FifoInv /\ BegunFirst)
<1>1. Init => FifoInv
  <2> SUFFICES ASSUME Init PROVE FifoInv
    OBVIOUS
  <2>1. Alone
    BY DEF Init, Alone
  <2>2. SentOnce
    BY ThreadsAssumption DEF Init, SentOnce, Elems
  <2>3. CallsFollow
    BY DEF Init, CallsFollow, IdleFrame
  <2> QED BY <2>1, <2>2, <2>3 DEF FifoInv
<1>2. TypeOK /\ FramesOK /\ StoppersOK /\ FifoInv /\ BegunFirst' /\ [Next]_vars
        => FifoInv'
  BY AloneStep, SentOnceStep, CallsFollowStep DEF FifoInv
<1> QED
  BY <1>1, <1>2, BegunFirstHolds, BusTypeCorrect, DispatchFollowsAcceptance, PTL
  DEF Spec

(* With one thread that both runs and stops the bus, and no handler that    *)
(* stops it, each subscriber and each endpoint is called with its messages  *)
(* in the order they were accepted, and with none of them twice, whatever   *)
(* it subscribes, gives back or sends meanwhile.                            *)
THEOREM EachHandlerSeesFifo ==
  ASSUME Stoppers \subseteq {Loop}, "stop" \notin HandlerOps
  PROVE  Spec => []HandlerSeesFifo
<1>1. TypeOK /\ BegunFirst /\ FifoInv => HandlerSeesFifo
  BY FifoHolds DEF FifoInv
<1> QED BY <1>1, FifoInvHolds, PTL

-----------------------------------------------------------------------------
(* Each step of the bus is one of OrderedDelivery, or none: what is pushed  *)
(* was never accepted before, what is begun is the next that was accepted,  *)
(* and who is called has not had the message begun last.                    *)
LEMMA DeliveryStep ==
  TypeOK /\ FramesOK /\ SentOnce /\ CallsFollow /\ BegunFirst' /\ [Next]_vars
    => [Ordered!DeliveryNext]_<<accepted, begun, calls>>
<1> SUFFICES ASSUME TypeOK, FramesOK, SentOnce, CallsFollow, BegunFirst', [Next]_vars
             PROVE  [Ordered!DeliveryNext]_<<accepted, begun, calls>>
  OBVIOUS
<1> USE DEF queueVars, subVars, sendVars
<1>1. /\ frame \in [Loops -> Frame] /\ begun \in Seq(Messages)
      /\ accepted \in Seq(Messages)
  BY DEF TypeOK
<1>2. ASSUME NEW t \in Threads, Enqueue(t) PROVE Ordered!Accept(pushing[t])
  <2>1. pc[t] = "push" /\ accepted' = Append(accepted, pushing[t])
    BY <1>2 DEF Enqueue, Pushed
  <2>2. pushing[t] \notin Elems(accepted)
    BY <2>1 DEF SentOnce
  <2>3. UNCHANGED <<begun, calls>>
    BY <1>2 DEF Enqueue, Pushed
  <2> QED BY <2>1, <2>2, <2>3 DEF Ordered!Accept, Ordered!IsIn, Elems
<1>3. ASSUME NEW t \in Threads, Enqueue(t) PROVE pushing[t] \in Messages
  BY <1>3 DEF Enqueue, Pushed, TypeOK
<1>4. ASSUME NEW f \in Loops, Begin(f) PROVE Ordered!TakeUp
  <2> DEFINE m == frame[f].msg
             n == Len(begun) + 1
  <2>1. m \in Messages /\ begun' = Append(begun, m) /\ UNCHANGED <<accepted, calls>>
    BY <1>1, <1>4 DEF Begin, Turn, Frame
  <2>2. Len(begun) \in Nat /\ Len(begun') = n /\ begun'[n] = m /\ Len(accepted) \in Nat
    BY <1>1, <2>1, AppendProperties, LenProperties
  <2>3. n <= Len(accepted) /\ accepted[n] = m
    <3>1. n \in 1..Len(begun')
      BY <2>2
    <3> QED BY <2>1, <2>2, <3>1 DEF BegunFirst
  <2> QED BY <2>1, <2>2, <2>3 DEF Ordered!TakeUp
<1>5. ASSUME NEW f \in Loops, NEW h \in Handlers, Deliver(f, h) PROVE Ordered!Call(h)
  <2> DEFINE m == frame[f].msg
  <2>1. /\ h \in frame[f].todo /\ calls' = Append(calls, <<h, m>>)
        /\ UNCHANGED <<accepted, begun>>
    BY <1>5 DEF Deliver
  <2>2. begun # <<>> /\ m = begun[Len(begun)]
    BY <2>1 DEF FramesOK, CallsFollow
  <2>3. <<h, m>> \notin Elems(calls)
    BY <2>1 DEF CallsFollow
  <2> HIDE DEF m
  <2> QED BY <2>1, <2>2, <2>3 DEF Ordered!Call, Ordered!IsIn, Elems
<1>6. ASSUME NEW f \in Loops, Return(f) \/ Throw(f)
      PROVE  UNCHANGED <<accepted, begun, calls>>
  BY <1>6 DEF Return, Throw
<1>7. ASSUME RunStep \/ DrainStep \/ Start \/ UNCHANGED vars
      PROVE  UNCHANGED <<accepted, begun, calls>>
  BY <1>7 DEF RunStep, RunEnter, RunCheck, RunPop, RunDrained, RunFinish, DrainStep,
              DrainNext, DrainFinish, StopReturn, Start, vars
<1>8. ASSUME \/ \E t \in Threads :
                  \/ \E m \in Messages : Send(t, m) \/ Refuse(t, m)
                  \/ \E topic \in Topics : Subscribe(t, topic) \/ UnsubscribeAll(t, topic)
                  \/ \E k \in Tokens : Unsubscribe(t, k)
                  \/ DropFull(t) \/ StopCheck(t) \/ StopStep(t)
             \/ \E e \in Endpoints : Register(e) \/ Unregister(e)
      PROVE  UNCHANGED <<accepted, begun, calls>>
  BY <1>8 DEF Send, Refuse, Subscribe, UnsubscribeAll, Unsubscribe, DropFull, Pushed,
              StopCheck, StopStep, StopClear, StopLock, Register, Unregister
<1> QED
  BY <1>2, <1>3, <1>4, <1>5, <1>6, <1>7, <1>8
  DEF Next, SendStep, DispatchStep, Ordered!DeliveryNext

(* Under the same two assumptions the bus implements OrderedDelivery: with  *)
(* any number of threads that send, and of messages, endpoints, topics and  *)
(* subscriptions, whatever run() and stop() take off the queue is taken up  *)
(* in the order accepted, one message at a time.                            *)
THEOREM BusDeliversInOrder ==
  ASSUME Stoppers \subseteq {Loop}, "stop" \notin HandlerOps
  PROVE  Spec => DeliversInOrder
<1>1. Spec => [](TypeOK /\ FramesOK /\ FifoInv /\ BegunFirst)
  BY FifoInvHolds
<1>2. Init => Ordered!DeliveryInit
  BY DEF Init, Ordered!DeliveryInit
<1>3. (TypeOK /\ FramesOK /\ FifoInv /\ BegunFirst) /\ BegunFirst' /\ [Next]_vars
        => [Ordered!DeliveryNext]_<<accepted, begun, calls>>
  BY DeliveryStep DEF FifoInv
<1> QED
  BY <1>1, <1>2, <1>3, PTL
  DEF Spec, DeliversInOrder, Ordered!DeliverySpec, Ordered!deliveryVars

-----------------------------------------------------------------------------
(* A token nobody holds stays out of every dispatch: one step.              *)
LEMMA GoneStep ==
  TypeOK /\ TokenMapsAgree /\ [Next]_vars
    => \A k \in Tokens : Gone(k) => Gone(k)'
<1> SUFFICES ASSUME TypeOK, TokenMapsAgree, [Next]_vars,
                    NEW k \in Tokens, Gone(k)
             PROVE  Gone(k)'
  OBVIOUS
<1> USE NoneAssumption DEF Gone, queueVars, subVars, sendVars
<1>1. /\ frame \in [Loops -> Frame]
      /\ subscribers \in [Topics -> SUBSET Tokens] /\ next_token \in Nat
      /\ k \in Handlers /\ k \in Nat /\ k # None
  BY BoundsAssumption DEF TypeOK, Tokens, Handlers
<1>2. ASSUME UNCHANGED <<next_token, token_to_topic, frame>> PROVE Gone(k)'
  BY <1>2
<1>3. ASSUME NEW t \in Threads, NEW topic \in Topics, Subscribe(t, topic)
      PROVE  Gone(k)'
  BY <1>1, <1>3 DEF Subscribe
<1>4. ASSUME UNCHANGED <<next_token, frame>>, NEW ks, Forget(ks) PROVE Gone(k)'
  BY <1>1, <1>4 DEF Forget
<1>5. ASSUME NEW f \in Loops, Begin(f) PROVE Gone(k)'
  <2>1. \A topic \in Topics : k \notin subscribers[topic]
    BY DEF TokenMapsAgree
  <2>2. k \notin Receivers(frame[f].msg)
    BY <2>1, <1>1, <1>5, HandlersAssumption, DestAssumption
    DEF Receivers, Begin, Turn, Frame, TypeOK
  <2>3. /\ \A g \in Loops : frame'[g].cur = frame[g].cur
        /\ \A g \in Loops : frame'[g].todo =
             IF g = f THEN Receivers(frame[f].msg) ELSE frame[g].todo
    BY <1>1, <1>5 DEF Begin, Frame
  <2> QED BY <1>5, <2>2, <2>3 DEF Begin
<1>6. ASSUME NEW f \in Loops, NEW h \in Handlers, Deliver(f, h) PROVE Gone(k)'
  <2>1. h # k
    BY <1>6 DEF Deliver
  <2>2. \A r \in Frame : /\ [r EXCEPT !.cur = h, !.todo = @ \ {h}].cur = h
                         /\ [r EXCEPT !.cur = h, !.todo = @ \ {h}].todo = r.todo \ {h}
    BY DEF Frame
  <2>3. frame' = [frame EXCEPT ![f] = [frame[f] EXCEPT !.cur = h, !.todo = @ \ {h}]]
    BY <1>6 DEF Deliver
  <2> QED BY <1>1, <1>6, <2>1, <2>2, <2>3 DEF Deliver
<1>7. ASSUME NEW f \in Loops, Return(f) \/ Throw(f) PROVE Gone(k)'
  <2>1. \A r \in Frame : /\ [r EXCEPT !.cur = None].cur = None
                         /\ [r EXCEPT !.cur = None].todo = r.todo
                         /\ [r EXCEPT !.cur = None, !.todo = {}].cur = None
                         /\ [r EXCEPT !.cur = None, !.todo = {}].todo = {}
    BY DEF Frame
  <2>2. \/ frame' = [frame EXCEPT ![f] = [frame[f] EXCEPT !.cur = None]]
        \/ frame' = [frame EXCEPT ![f] = [frame[f] EXCEPT !.cur = None, !.todo = {}]]
    BY <1>7 DEF Return, Throw
  <2>3. frame[f] \in Frame /\ UNCHANGED <<next_token, token_to_topic>>
    BY <1>1, <1>7 DEF Return, Throw
  <2>4. frame'[f].cur = None /\ k \notin frame'[f].todo
    BY <1>1, <2>1, <2>2, <2>3
  <2>5. \A g \in Loops : g # f => frame'[g] = frame[g]
    BY <1>1, <2>2
  <2> QED BY <1>1, <2>3, <2>4, <2>5
<1>8. ASSUME RunPop \/ DrainNext PROVE Gone(k)'
  <2>1. \A m : \A r \in Frame :
                         /\ [r EXCEPT !.msg = m].cur = r.cur
                         /\ [r EXCEPT !.msg = m].todo = r.todo
    BY DEF Frame
  <2>2. \E f \in Loops :
          frame' = [frame EXCEPT ![f] = [frame[f] EXCEPT !.msg = Head(message_queue)]]
    BY <1>8 DEF RunPop, DrainNext, Loops
  <2> QED BY <1>1, <1>8, <2>1, <2>2 DEF RunPop, DrainNext
<1>9. ASSUME RunFinish \/ DrainFinish PROVE Gone(k)'
  <2>1. \E f \in Loops : frame' = [frame EXCEPT ![f] = IdleFrame]
    BY <1>9 DEF RunFinish, DrainFinish, Loops
  <2>2. IdleFrame.cur = None /\ IdleFrame.todo = {}
    BY DEF IdleFrame
  <2>3. UNCHANGED <<next_token, token_to_topic>>
    BY <1>9 DEF RunFinish, DrainFinish
  <2> QED BY <1>1, <2>1, <2>2, <2>3
<1>10. ASSUME RunEnter \/ RunCheck \/ RunDrained \/ StopReturn \/ Start
       PROVE  Gone(k)'
  BY <1>2, <1>10 DEF RunEnter, RunCheck, RunDrained, StopReturn, Start
<1>11. ASSUME NEW t \in Threads,
              \/ \E topic \in Topics : UnsubscribeAll(t, topic)
              \/ \E j \in Tokens : Unsubscribe(t, j)
       PROVE  Gone(k)'
  BY <1>4, <1>11 DEF UnsubscribeAll, Unsubscribe
<1> QED
  BY <1>2, <1>3, <1>5, <1>6, <1>7, <1>8, <1>9, <1>10, <1>11
  DEF Next, SendStep, StopStep, DispatchStep, RunStep, DrainStep, vars,
      Send, Refuse, Enqueue, DropFull, Pushed, Register, Unregister,
      StopCheck, StopClear, StopLock

(* After unsubscribe() or unsubscribe_all() gave a token back, and once the *)
(* dispatches that had copied it are over, its handler is never called.     *)
THEOREM GoneForever == Spec => GoneStaysGone
<1>1. TypeOK /\ TokenMapsAgree /\ [Next]_vars
        => [\A k \in Tokens : Gone(k) => Gone(k)']_vars
  BY GoneStep
<1> QED
  BY <1>1, BusTypeCorrect, TokenMapsAlwaysAgree, PTL DEF Spec, GoneStaysGone
=============================================================================
