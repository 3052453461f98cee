----------------------- MODULE DataSubscriptionsProofs -----------------------
(***************************************************************************)
(* Theorems about DataSubscriptions, for any actors, feeds and depths, and *)
(* for any length of the queue and of the run.                             *)
(***************************************************************************)
EXTENDS DataSubscriptions, SequenceTheorems, FiniteSetTheorems, TLAPS

Kinds   == {"subscribe", "unsubscribe", "data", "topic"}
Message == [kind : Kinds, feed : Feeds, arg : Nat]

-----------------------------------------------------------------------------
(* What a message leaves of the queue it is put into, or taken from.        *)
LEMMA SendKeeps ==
  ASSUME NEW b \in Seq(Message), Len(b) <= BusCapacity, NEW m \in Message
  PROVE  /\ Send(b, m) \in Seq(Message) /\ Len(Send(b, m)) <= BusCapacity
         /\ \A i \in DOMAIN Send(b, m) :
              \/ i \in DOMAIN b /\ Send(b, m)[i] = b[i]
              \/ Send(b, m)[i] = m
<1>1. CASE Len(b) < BusCapacity
  <2>1. /\ Append(b, m) \in Seq(Message) /\ Len(Append(b, m)) = Len(b) + 1
        /\ \A i \in 1..Len(b) : Append(b, m)[i] = b[i]
        /\ Append(b, m)[Len(b) + 1] = m
    BY AppendProperties
  <2>2. DOMAIN Append(b, m) = 1..(Len(b) + 1) /\ DOMAIN b = 1..Len(b) /\ Len(b) \in Nat
    BY <2>1, LenProperties
  <2> QED BY <1>1, <2>1, <2>2, LimitsAssumption DEF Send
<1>2. CASE ~(Len(b) < BusCapacity)
  BY <1>2 DEF Send
<1> QED BY <1>1, <1>2

LEMMA TailKeeps ==
  ASSUME NEW b \in Seq(Message), b # <<>>, Len(b) <= BusCapacity
  PROVE  /\ Head(b) \in Message /\ 1 \in DOMAIN b /\ Head(b) = b[1]
         /\ Tail(b) \in Seq(Message) /\ Len(Tail(b)) <= BusCapacity
         /\ Len(Tail(b)) < BusCapacity
         /\ \A i \in DOMAIN Tail(b) : i + 1 \in DOMAIN b /\ Tail(b)[i] = b[i + 1]
<1>1. /\ Head(b) \in Message /\ Tail(b) \in Seq(Message) /\ Len(Tail(b)) = Len(b) - 1
      /\ \A i \in 1..Len(Tail(b)) : Tail(b)[i] = b[i + 1]
  BY HeadTailProperties
<1>2. Len(b) \in Nat /\ Len(b) # 0 /\ DOMAIN b = 1..Len(b)
  BY EmptySeq, LenProperties
<1>3. DOMAIN Tail(b) = 1..Len(Tail(b))
  BY <1>1, LenProperties
<1>4. Head(b) = b[1]
  BY HeadTailProperties
<1> QED BY <1>1, <1>2, <1>3, <1>4, LimitsAssumption

-----------------------------------------------------------------------------
(* Depths are naturals, commands speak of feeds and of depths these have.   *)
QueueOK ==
  /\ bus \in Seq(Message) /\ Len(bus) <= BusCapacity
  /\ \A i \in DOMAIN bus : bus[i].kind = "subscribe" => bus[i].arg \in DepthsOf[bus[i].feed]
  /\ now \in Nat

LEMMA QueueStep == QueueOK /\ [Next]_vars => QueueOK'
<1> SUFFICES ASSUME QueueOK, [Next]_vars PROVE QueueOK'
  OBVIOUS
<1> USE DEF QueueOK, progVars
<1> USE DepthsAssumption, LimitsAssumption
<1>1. ASSUME NEW a \in Actors, NEW f \in Feeds, NEW d \in DepthsOf[f], Subscribe(a, f, d)
      PROVE  QueueOK'
  <2> DEFINE m == [kind |-> "subscribe", feed |-> f, arg |-> d]
  <2>1. m \in Message /\ m.kind = "subscribe" /\ m.feed = f /\ m.arg = d
    BY DEF Message, Kinds
  <2>2. bus' = Send(bus, m) /\ now' = now
    BY <1>1 DEF Subscribe, Command
  <2> HIDE DEF m
  <2> QED BY <2>1, <2>2, SendKeeps
<1>2. ASSUME NEW a \in Actors, NEW f \in Feeds, Unsubscribe(a, f) PROVE QueueOK'
  <2> DEFINE m == [kind |-> "unsubscribe", feed |-> f, arg |-> 0]
  <2>1. m \in Message /\ m.kind = "unsubscribe"
    BY DEF Message, Kinds
  <2>2. bus' = Send(bus, m) /\ now' = now
    BY <1>2 DEF Unsubscribe, Command
  <2> HIDE DEF m
  <2> QED BY <2>1, <2>2, SendKeeps
<1>3. ASSUME NEW f \in Feeds, NEW ts \in 0..now, Inject(f, ts) PROVE QueueOK'
  <2> DEFINE m == [kind |-> "data", feed |-> f, arg |-> ts]
  <2>1. m \in Message /\ m.kind = "data"
    BY DEF Message, Kinds
  <2>2. bus' = Send(bus, m) /\ now' = now
    BY <1>3 DEF Inject
  <2> HIDE DEF m
  <2> QED BY <2>1, <2>2, SendKeeps
<1>4. CASE ExecSubscribe \/ ExecUnsubscribe \/ Receive
  <2>1. bus # <<>> /\ bus' = Tail(bus) /\ now' = now
    BY <1>4 DEF ExecSubscribe, ExecUnsubscribe, Receive, Serving
  <2> QED BY <2>1, TailKeeps
<1>5. CASE ProcessData
  <2> DEFINE m == [kind |-> "topic", feed |-> Head(bus).feed, arg |-> Head(bus).arg]
  <2>1. bus # <<>> /\ bus' = Send(Tail(bus), m) /\ now' = now
    BY <1>5 DEF ProcessData, Serving
  <2>2. m \in Message /\ m.kind = "topic"
    BY <2>1, TailKeeps DEF Message, Kinds
  <2> HIDE DEF m
  <2>3. Tail(bus) \in Seq(Message) /\ Len(Tail(bus)) <= BusCapacity
    BY <2>1, TailKeeps
  <2>4. \A i \in DOMAIN Tail(bus) :
          Tail(bus)[i].kind = "subscribe" => Tail(bus)[i].arg \in DepthsOf[Tail(bus)[i].feed]
    BY <2>1, TailKeeps
  <2> QED BY <2>1, <2>2, <2>3, <2>4, SendKeeps
<1>6. ASSUME NEW f \in Feeds, IoReadData(f) PROVE QueueOK'
  <2> DEFINE m == [kind |-> "data", feed |-> f, arg |-> now']
  <2>1. m \in Message /\ m.kind = "data" /\ now' \in Nat
    BY <1>6 DEF Message, Kinds, IoReadData
  <2>2. bus' = Send(bus, m)
    BY <1>6 DEF IoReadData
  <2> HIDE DEF m
  <2> QED BY <2>1, <2>2, SendKeeps
<1>7. CASE EngineStart \/ EngineStop \/ EngineStopped \/ ExecRegrow
  BY <1>7 DEF EngineStart, EngineStop, EngineStopped, ExecRegrow
<1>8. CASE \/ IoBuild \/ IoConnected \/ IoLoop \/ IoCheck \/ IoReadOther \/ IoExit
           \/ IoError
  BY <1>8 DEF IoBuild, IoConnected, IoLoop, IoCheck, IoReadOther, IoExit, IoError
<1>9. CASE UNCHANGED vars
  BY <1>9 DEF vars
<1> QED
  BY <1>1, <1>2, <1>3, <1>4, <1>5, <1>6, <1>7, <1>8, <1>9 DEF Next, ServeStep, IoStep

-----------------------------------------------------------------------------
(* The client's set of feeds after a command of the engine.                 *)
LEMMA ClientDomain ==
  ASSUME NEW f, NEW d
  PROVE  /\ DOMAIN With(client_subs, f, d) = DOMAIN client_subs \cup {f}
         /\ DOMAIN Without(client_subs, f) = DOMAIN client_subs \ {f}
         /\ ClientSubscribes(f, d) =>
              /\ DOMAIN client_subs' = DOMAIN client_subs \cup {f}
              /\ needs_resubscribe' = (needs_resubscribe \/ f \notin DOMAIN client_subs)
         /\ ClientUnsubscribes(f) =>
              /\ DOMAIN client_subs' = DOMAIN client_subs \ {f}
              /\ needs_resubscribe' = (needs_resubscribe \/ f \in DOMAIN client_subs)
  BY DEF With, Without, ClientSubscribes, ClientUnsubscribes

(* No change of the client's subscriptions is lost while its thread builds  *)
(* the list of streams, connects and reads: the connection carries what the *)
(* client is subscribed to, or the thread is going to look.                 *)
THEOREM StreamsStayCurrent == Spec => []StreamsCurrent
<1>1. Init => StreamsCurrent
  BY DEF Init, StreamsCurrent
<1>2. StreamsCurrent /\ [Next]_vars => StreamsCurrent'
  <2> SUFFICES ASSUME StreamsCurrent, [Next]_vars PROVE StreamsCurrent'
    OBVIOUS
  <2> USE DEF StreamsCurrent, progVars, engineVars, clientVars, ioVars
  <2>1. ASSUME NEW f, NEW d, ClientSubscribes(f, d) \/ ClientUnsubscribes(f),
               UNCHANGED ioVars
        PROVE  StreamsCurrent'
    BY <2>1, ClientDomain
  <2>2. CASE ExecSubscribe
    <3> DEFINE f == Head(bus).feed
               d == WantedDepth(f, Head(bus).arg)
    <3>1. UNCHANGED ioVars
      BY <2>2 DEF ExecSubscribe
    <3>2. ClientSubscribes(f, d) \/ ClientUnsubscribes(f) \/ UNCHANGED clientVars
      BY <2>2 DEF ExecSubscribe
    <3> QED BY <2>1, <3>1, <3>2
  <2>3. CASE ExecUnsubscribe
    <3>1. UNCHANGED ioVars
      BY <2>3 DEF ExecUnsubscribe
    <3>2. ClientUnsubscribes(Head(bus).feed) \/ UNCHANGED clientVars
      BY <2>3 DEF ExecUnsubscribe
    <3> QED BY <2>1, <3>1, <3>2
  <2>4. CASE ExecRegrow
    <3>1. UNCHANGED ioVars /\ \E f \in regrow : ClientSubscribes(f, active_depth[f])
      BY <2>4 DEF ExecRegrow
    <3> QED BY <2>1, <3>1
  <2>5. ASSUME NEW a \in Actors, NEW f \in Feeds, NEW d,
               Subscribe(a, f, d) \/ Unsubscribe(a, f)
        PROVE  StreamsCurrent'
    BY <2>5 DEF Subscribe, Unsubscribe
  <2>6. CASE EngineStart \/ EngineStop \/ EngineStopped
    BY <2>6 DEF EngineStart, EngineStop, EngineStopped
  <2>7. CASE ProcessData \/ Receive
    BY <2>7 DEF ProcessData, Receive
  <2>8. CASE \/ IoBuild \/ IoConnected \/ IoLoop \/ IoCheck \/ IoReadOther \/ IoExit
             \/ IoError
    BY <2>8 DEF IoBuild, IoConnected, IoLoop, IoCheck, IoReadOther, IoExit, IoError, IoOnly
  <2>9. ASSUME NEW f \in Feeds, IoReadData(f) PROVE StreamsCurrent'
    BY <2>9 DEF IoReadData, IoOnly
  <2>10. CASE UNCHANGED vars
    BY <2>10 DEF vars
  <2>11. ASSUME NEW f \in Feeds, NEW ts, Inject(f, ts) PROVE StreamsCurrent'
    BY <2>11 DEF Inject
  <2> QED
    BY <2>2, <2>3, <2>4, <2>5, <2>6, <2>7, <2>8, <2>9, <2>10, <2>11
    DEF Next, ServeStep, IoStep
<1> QED BY <1>1, <1>2, PTL DEF Spec

-----------------------------------------------------------------------------
(* handle_process() writes the cache before it publishes: a topic message   *)
(* finds the cache no older, because what is cached never gets older.       *)
CacheInv == QueueOK /\ cache \in [Feeds -> Nat] /\ CacheNotBehind

LEMMA CacheStep == CacheInv /\ [Next]_vars => CacheInv'
<1> SUFFICES ASSUME CacheInv, [Next]_vars PROVE CacheInv'
  OBVIOUS
<1>0. QueueOK /\ QueueOK'
  BY QueueStep DEF CacheInv
<1> SUFFICES (cache \in [Feeds -> Nat])' /\ CacheNotBehind'
  BY <1>0 DEF CacheInv
<1>1. bus \in Seq(Message) /\ Len(bus) <= BusCapacity
  BY <1>0 DEF QueueOK
<1>2. \A i \in DOMAIN bus : bus[i] \in Message
  BY <1>1, ElementOfSeq, LenProperties
<1> USE DEF CacheInv, CacheNotBehind, progVars
<1>3. ASSUME NEW m \in Message, m.kind # "topic", bus' = Send(bus, m), cache' = cache
      PROVE  (cache \in [Feeds -> Nat])' /\ CacheNotBehind'
  BY <1>1, <1>3, SendKeeps
<1>4. ASSUME bus # <<>>, bus' = Tail(bus), cache' = cache
      PROVE  (cache \in [Feeds -> Nat])' /\ CacheNotBehind'
  BY <1>1, <1>4, TailKeeps
<1>5. ASSUME NEW a \in Actors, NEW f \in Feeds, NEW d \in DepthsOf[f], Subscribe(a, f, d)
      PROVE  (cache \in [Feeds -> Nat])' /\ CacheNotBehind'
  <2>1. [kind |-> "subscribe", feed |-> f, arg |-> d] \in Message
    BY DepthsAssumption DEF Message, Kinds
  <2> QED BY <1>3, <1>5, <2>1 DEF Subscribe, Command
<1>6. ASSUME NEW a \in Actors, NEW f \in Feeds, Unsubscribe(a, f)
      PROVE  (cache \in [Feeds -> Nat])' /\ CacheNotBehind'
  <2>1. [kind |-> "unsubscribe", feed |-> f, arg |-> 0] \in Message
    BY DEF Message, Kinds
  <2> QED BY <1>3, <1>6, <2>1 DEF Unsubscribe, Command
<1>7. ASSUME NEW f \in Feeds, NEW ts \in 0..now, Inject(f, ts)
      PROVE  (cache \in [Feeds -> Nat])' /\ CacheNotBehind'
  <2>1. [kind |-> "data", feed |-> f, arg |-> ts] \in Message
    BY <1>0 DEF Message, Kinds, QueueOK
  <2> QED BY <1>3, <1>7, <2>1 DEF Inject
<1>8. CASE ExecSubscribe \/ ExecUnsubscribe \/ Receive
  BY <1>4, <1>8 DEF ExecSubscribe, ExecUnsubscribe, Receive, Serving
<1>9. CASE ProcessData
  <2> DEFINE f == Head(bus).feed
             ts == Head(bus).arg
             m == [kind |-> "topic", feed |-> f, arg |-> ts]
             b == Tail(bus)
  <2>1. bus # <<>> /\ bus' = Send(b, m)
    BY <1>9 DEF ProcessData, Serving
  <2>2. f \in Feeds /\ ts \in Nat /\ m \in Message /\ m.feed = f /\ m.arg = ts
    BY <2>1, <1>1, TailKeeps DEF Message, Kinds
  <2>3. cache' = IF ts > cache[f] THEN [cache EXCEPT ![f] = ts] ELSE cache
    BY <1>9 DEF ProcessData, Newer
  <2> HIDE DEF f, ts, m
  <2>4. /\ cache' \in [Feeds -> Nat] /\ cache'[f] >= ts
        /\ \A g \in Feeds : cache'[g] >= cache[g]
    BY <2>2, <2>3
  <2>5. /\ b \in Seq(Message) /\ Len(b) <= BusCapacity
        /\ \A i \in DOMAIN b : b[i] \in Message /\ (b[i].kind = "topic" => cache[b[i].feed] >= b[i].arg)
    BY <2>1, <1>1, <1>2, TailKeeps
  <2>6. \A i \in DOMAIN b : b[i].kind = "topic" => cache'[b[i].feed] >= b[i].arg
    <3> SUFFICES ASSUME NEW i \in DOMAIN b, b[i].kind = "topic"
                 PROVE  cache'[b[i].feed] >= b[i].arg
      OBVIOUS
    <3>1. b[i].feed \in Feeds /\ b[i].arg \in Nat
      BY <2>5 DEF Message
    <3>2. /\ cache'[b[i].feed] >= cache[b[i].feed] /\ cache[b[i].feed] >= b[i].arg
          /\ cache'[b[i].feed] \in Nat /\ cache[b[i].feed] \in Nat
      BY <2>4, <2>5, <3>1
    <3> QED BY <3>1, <3>2
  <2> HIDE DEF b
  <2>7. \A i \in DOMAIN bus' : (i \in DOMAIN b /\ bus'[i] = b[i]) \/ bus'[i] = m
    BY <2>1, <2>2, <2>5, SendKeeps
  <2> QED BY <2>2, <2>4, <2>6, <2>7
<1>10. ASSUME NEW f \in Feeds, IoReadData(f)
       PROVE  (cache \in [Feeds -> Nat])' /\ CacheNotBehind'
  <2>1. [kind |-> "data", feed |-> f, arg |-> now'] \in Message
    BY <1>0 DEF Message, Kinds, QueueOK
  <2> QED BY <1>3, <1>10, <2>1 DEF IoReadData, IoOnly
<1>11. CASE EngineStart \/ EngineStop \/ EngineStopped \/ ExecRegrow
  BY <1>11 DEF EngineStart, EngineStop, EngineStopped, ExecRegrow
<1>12. CASE \/ IoBuild \/ IoConnected \/ IoLoop \/ IoCheck \/ IoReadOther \/ IoExit
            \/ IoError
  BY <1>12 DEF IoBuild, IoConnected, IoLoop, IoCheck, IoReadOther, IoExit, IoError, IoOnly
<1>13. CASE UNCHANGED vars
  BY <1>13 DEF vars
<1> QED
  BY <1>5, <1>6, <1>7, <1>8, <1>9, <1>10, <1>11, <1>12, <1>13 DEF Next, ServeStep, IoStep

(* Who is told of data finds the cache no older, whatever was injected and  *)
(* whatever arrived late.                                                   *)
THEOREM PublishedIsCached == Spec => []CacheNotBehind
<1>1. Init => CacheInv
  <2>1. Init => bus = <<>> /\ DOMAIN bus = {}
    BY DEF Init
  <2> QED BY <2>1, LimitsAssumption DEF Init, CacheInv, QueueOK, CacheNotBehind
<1>2. CacheInv => CacheNotBehind
  BY DEF CacheInv
<1> QED BY <1>1, <1>2, CacheStep, PTL DEF Spec

-----------------------------------------------------------------------------
(* The counts of the engine and the sets of the client.                     *)
EngineInv ==
  /\ QueueOK /\ refcount \in [Feeds -> Nat]
  /\ \A f \in regrow : f \in Feeds /\ refcount[f] > 0 /\ \A g \in regrow : g = f
  /\ DOMAIN client_subs \subseteq Feeds
  /\ stopping => stopped
  /\ ClientFollowsEngine

LEMMA EngineStep == EngineInv /\ [Next]_vars => EngineInv'
<1> SUFFICES ASSUME EngineInv, [Next]_vars PROVE EngineInv'
  OBVIOUS
<1>0. QueueOK /\ QueueOK'
  BY QueueStep DEF EngineInv
<1>1. bus # <<>> => Head(bus).feed \in Feeds
  BY <1>0, TailKeeps DEF QueueOK, Message
<1> USE DEF EngineInv, ClientFollowsEngine, progVars, engineVars, clientVars, ioVars
<1>2. ASSUME UNCHANGED <<engineVars, clientVars, stopping, stopped>> PROVE EngineInv'
  BY <1>0, <1>2
<1>3. CASE ExecSubscribe
  <2> DEFINE f == Head(bus).feed
             d == WantedDepth(f, Head(bus).arg)
  <2>1. /\ f \in Feeds /\ regrow = {} /\ refcount' = [refcount EXCEPT ![f] = @ + 1]
        /\ UNCHANGED <<stopping, stopped>>
    BY <1>1, <1>3 DEF ExecSubscribe, Serving
  <2>2. \/ refcount[f] = 0 /\ ClientSubscribes(f, d) /\ regrow' = {}
        \/ refcount[f] > 0 /\ ClientUnsubscribes(f) /\ regrow' = {f}
        \/ refcount[f] > 0 /\ regrow' = {} /\ UNCHANGED client_subs
    BY <1>3, <2>1 DEF ExecSubscribe
  <2> HIDE DEF f, d
  <2>3. \/ refcount[f] = 0 /\ DOMAIN client_subs' = DOMAIN client_subs \cup {f} /\ regrow' = {}
        \/ refcount[f] > 0 /\ DOMAIN client_subs' = DOMAIN client_subs \ {f} /\ regrow' = {f}
        \/ refcount[f] > 0 /\ DOMAIN client_subs' = DOMAIN client_subs /\ regrow' = {}
    BY <2>2, ClientDomain
  <2>4. /\ refcount' \in [Feeds -> Nat] /\ refcount'[f] > 0
        /\ \A g \in Feeds \ {f} : refcount'[g] = refcount[g]
    BY <2>1
  <2> QED BY <1>0, <2>1, <2>3, <2>4
<1>4. CASE ExecUnsubscribe
  <2> DEFINE f == Head(bus).feed
  <2>1. f \in Feeds /\ regrow = {} /\ UNCHANGED <<stopping, stopped>>
    BY <1>1, <1>4 DEF ExecUnsubscribe, Serving
  <2>2. CASE refcount[f] = 0
    BY <1>2, <1>4, <2>2 DEF ExecUnsubscribe
  <2>3. CASE refcount[f] = 1
    <3>1. /\ refcount' = [refcount EXCEPT ![f] = @ - 1] /\ ClientUnsubscribes(f)
          /\ regrow' = {}
      BY <1>4, <2>1, <2>3 DEF ExecUnsubscribe, LastOne
    <3>2. DOMAIN client_subs' = DOMAIN client_subs \ {f}
      BY <3>1, ClientDomain
    <3> QED BY <1>0, <2>1, <2>3, <3>1, <3>2
  <2>4. CASE refcount[f] > 1
    <3>1. /\ refcount' = [refcount EXCEPT ![f] = @ - 1] /\ UNCHANGED client_subs
          /\ regrow' = {}
      BY <1>4, <2>1, <2>4 DEF ExecUnsubscribe, LastOne
    <3> QED BY <1>0, <2>1, <2>4, <3>1
  <2> QED BY <2>1, <2>2, <2>3, <2>4
<1>5. CASE ExecRegrow
  <2>1. PICK f \in regrow : ClientSubscribes(f, active_depth[f])
    BY <1>5 DEF ExecRegrow
  <2>2. DOMAIN client_subs' = DOMAIN client_subs \cup {f}
    BY <2>1, ClientDomain
  <2>3. regrow' = {} /\ UNCHANGED <<refcount, stopping, stopped>>
    BY <1>5 DEF ExecRegrow
  <2> QED BY <1>0, <2>1, <2>2, <2>3
<1>6. CASE EngineStop
  BY <1>0, <1>6 DEF EngineStop
<1>7. CASE EngineStopped
  BY <1>0, <1>7 DEF EngineStopped
<1>8. CASE EngineStart
  BY <1>0, <1>8 DEF EngineStart
<1>9. ASSUME NEW a \in Actors, NEW f \in Feeds, NEW d,
             Subscribe(a, f, d) \/ Unsubscribe(a, f)
      PROVE  EngineInv'
  BY <1>2, <1>9 DEF Subscribe, Unsubscribe
<1>10. ASSUME NEW f \in Feeds, NEW ts, Inject(f, ts) \/ IoReadData(f) PROVE EngineInv'
  BY <1>2, <1>10 DEF Inject, IoReadData, IoOnly
<1>11. CASE ProcessData \/ Receive
  BY <1>2, <1>11 DEF ProcessData, Receive
<1>12. CASE \/ IoBuild \/ IoConnected \/ IoLoop \/ IoReadOther \/ IoExit \/ IoError
  BY <1>2, <1>12 DEF IoBuild, IoConnected, IoLoop, IoReadOther, IoExit, IoError, IoOnly
<1>13. CASE IoCheck
  BY <1>0, <1>13 DEF IoCheck, IoOnly
<1>14. CASE UNCHANGED vars
  BY <1>2, <1>14 DEF vars
<1> QED
  BY <1>3, <1>4, <1>5, <1>6, <1>7, <1>8, <1>9, <1>10, <1>11, <1>12, <1>13, <1>14
  DEF Next, ServeStep, IoStep

(* The client streams no feed without a subscriber and, until it is stopped,*)
(* every feed that has one, but for the moment in which a book grows deeper.*)
THEOREM ClientKeepsUp == Spec => []ClientFollowsEngine
<1>1. Init => EngineInv
  <2>1. Init => bus = <<>> /\ DOMAIN bus = {} /\ DOMAIN client_subs = {}
    BY DEF Init
  <2> QED BY <2>1, LimitsAssumption DEF Init, EngineInv, QueueOK, ClientFollowsEngine
<1>2. EngineInv => ClientFollowsEngine
  BY DEF EngineInv
<1> QED BY <1>1, <1>2, EngineStep, PTL DEF Spec

-----------------------------------------------------------------------------
(* How many of the first k messages of a queue are such a command.          *)
Places(b, kind, f, k) == {i \in 1..k : b[i].kind = kind /\ b[i].feed = f}
First(b, kind, f, k)  == Cardinality(Places(b, kind, f, k))

LEMMA PlacesFinite ==
  ASSUME NEW b, NEW kind, NEW f, NEW k \in Nat
  PROVE  IsFiniteSet(Places(b, kind, f, k)) /\ First(b, kind, f, k) \in Nat
<1>1. IsFiniteSet(1..k) /\ Places(b, kind, f, k) \in SUBSET (1..k)
  BY FS_Interval DEF Places
<1>2. IsFiniteSet(Places(b, kind, f, k))
  BY <1>1, FS_Subset
<1> QED BY <1>2, FS_CardinalityType DEF First

(* One more message at the end.                                             *)
LEMMA FirstOfLonger ==
  ASSUME NEW b \in Seq(Message), NEW m \in Message, NEW kind, NEW f, NEW k \in 0..Len(b)
  PROVE  /\ First(Append(b, m), kind, f, k) = First(b, kind, f, k)
         /\ First(Append(b, m), kind, f, Len(b) + 1) =
              First(b, kind, f, Len(b)) + IF m.kind = kind /\ m.feed = f THEN 1 ELSE 0
<1> DEFINE c == Append(b, m)
           n == Len(b)
<1>1. n \in Nat /\ (\A i \in 1..n : c[i] = b[i]) /\ c[n + 1] = m
  BY AppendProperties, LenProperties
<1> HIDE DEF c, n
<1>2. Places(c, kind, f, k) = Places(b, kind, f, k)
  <2>1. k \in 0..n
    BY DEF n
  <2> QED BY <1>1, <2>1 DEF Places
<1>3. Places(c, kind, f, n + 1) = IF m.kind = kind /\ m.feed = f
                                  THEN Places(b, kind, f, n) \cup {n + 1}
                                  ELSE Places(b, kind, f, n)
  BY <1>1 DEF Places
<1>4. n + 1 \notin Places(b, kind, f, n)
  BY <1>1 DEF Places
<1>5. IsFiniteSet(Places(b, kind, f, n)) /\ First(b, kind, f, n) \in Nat
  BY <1>1, PlacesFinite
<1>6. Cardinality(Places(b, kind, f, n) \cup {n + 1}) = Cardinality(Places(b, kind, f, n)) + 1
  BY <1>4, <1>5, FS_AddElement
<1>7. First(c, kind, f, n + 1) =
        First(b, kind, f, n) + IF m.kind = kind /\ m.feed = f THEN 1 ELSE 0
  BY <1>3, <1>5, <1>6 DEF First
<1> QED BY <1>2, <1>7 DEF First, c, n

(* One message less at the front.                                           *)
LEMMA FirstOfShorter ==
  ASSUME NEW b \in Seq(Message), b # <<>>, NEW kind, NEW f, NEW k \in 0..Len(Tail(b))
  PROVE  First(b, kind, f, k + 1) =
           First(Tail(b), kind, f, k) + IF b[1].kind = kind /\ b[1].feed = f THEN 1 ELSE 0
<1> DEFINE c == Tail(b)
           S == Places(c, kind, f, k)
           T == {i + 1 : i \in S}
           shift == [i \in S |-> i + 1]
<1>1. \A i \in 1..Len(c) : c[i] = b[i + 1]
  BY HeadTailProperties
<1>2. k \in Nat /\ Len(c) \in Nat /\ k <= Len(c)
  BY HeadTailProperties, LenProperties
<1>3. IsFiniteSet(S) /\ First(c, kind, f, k) \in Nat /\ S \subseteq 1..k
  <2>1. IsFiniteSet(S) /\ First(c, kind, f, k) \in Nat
    BY <1>2, PlacesFinite
  <2>2. S \subseteq 1..k
    BY DEF Places
  <2> QED BY <2>1, <2>2
<1>4. \A i \in S : i \in Nat /\ i > 0
  BY <1>2, <1>3
<1>5. shift \in Bijection(S, T)
  BY <1>4 DEF Bijection, Injection, Surjection, IsInjective
<1>6. IsFiniteSet(T) /\ Cardinality(T) = Cardinality(S)
  BY <1>3, <1>5, FS_Bijection DEF ExistsBijection
<1>7. 1 \notin T
  BY <1>4
<1>8. Places(b, kind, f, k + 1) = IF b[1].kind = kind /\ b[1].feed = f
                                  THEN T \cup {1} ELSE T
  <2>1. ASSUME NEW i \in 1..(k + 1), i # 1, b[i].kind = kind, b[i].feed = f PROVE i \in T
    <3>1. i - 1 \in 1..k /\ c[i - 1] = b[i] /\ i = (i - 1) + 1
      BY <1>1, <1>2, <2>1
    <3> QED BY <2>1, <3>1 DEF Places
  <2>2. ASSUME NEW i \in T
        PROVE  i \in 1..(k + 1) /\ b[i].kind = kind /\ b[i].feed = f
    <3>1. PICK j \in S : i = j + 1
      BY <2>2
    <3>2. j \in 1..k /\ c[j].kind = kind /\ c[j].feed = f /\ c[j] = b[j + 1]
      BY <1>1, <1>2, <3>1 DEF Places
    <3> QED BY <1>2, <3>1, <3>2
  <2>3. 1 \in 1..(k + 1)
    BY <1>2
  <2> HIDE DEF T
  <2> QED BY <2>1, <2>2, <2>3 DEF Places
<1>9. Cardinality(T \cup {1}) = Cardinality(T) + 1
  BY <1>6, <1>7, FS_AddElement
<1> HIDE DEF T, S
<1>10. First(c, kind, f, k) = Cardinality(T) /\ Cardinality(T) \in Nat
  BY <1>3, <1>6 DEF First, S
<1> QED BY <1>8, <1>9, <1>10 DEF First

-----------------------------------------------------------------------------
(* CountsAddUp alone is not inductive: an engine that counts 0 ignores an   *)
(* unsubscribe command.  That no such command comes is a matter of the      *)
(* order of the queue: at no point of it have more unsubscribed than had    *)
(* subscribed before (NeverBelow).                                          *)
Sub(b, f, k)   == First(b, "subscribe", f, k)
Unsub(b, f, k) == First(b, "unsubscribe", f, k)

NeverBelow(b, f, n) == \A k \in 0..Len(b) : Unsub(b, f, k) <= n + Sub(b, f, k)

AddsUp(b, f, n, w) ==
  n + Sub(b, f, Len(b)) = Cardinality(w) + Unsub(b, f, Len(b)) /\ NeverBelow(b, f, n)

CountsInv ==
  /\ QueueOK /\ refcount \in [Feeds -> Nat] /\ DOMAIN subs = Actors
  /\ \A f \in Feeds \ lost : AddsUp(bus, f, refcount[f], Wanted(f))

LEMMA CountsAreNat ==
  ASSUME NEW b \in Seq(Message), NEW f, NEW k \in 0..Len(b)
  PROVE  Sub(b, f, k) \in Nat /\ Unsub(b, f, k) \in Nat
<1>1. k \in Nat
  BY LenProperties
<1> QED BY <1>1, PlacesFinite DEF Sub, Unsub

LEMMA QueuedIsAll ==
  ASSUME NEW f, bus \in Seq(Message)
  PROVE  /\ Queued("subscribe", f) = Sub(bus, f, Len(bus))
         /\ Queued("unsubscribe", f) = Unsub(bus, f, Len(bus))
<1>1. DOMAIN bus = 1..Len(bus)
  BY LenProperties
<1> QED BY <1>1 DEF Queued, Sub, Unsub, First, Places

(* A message put into the queue.                                            *)
LEMMA AddsUpLonger ==
  ASSUME NEW b \in Seq(Message), NEW m \in Message, NEW f, NEW n \in Nat, NEW w, NEW v,
         Cardinality(w) \in Nat, AddsUp(b, f, n, w),
         \/ ~(m.kind \in {"subscribe", "unsubscribe"} /\ m.feed = f) /\ v = w
         \/ m.kind = "subscribe" /\ m.feed = f /\ Cardinality(v) = Cardinality(w) + 1
         \/ /\ m.kind = "unsubscribe" /\ m.feed = f
            /\ Cardinality(w) = Cardinality(v) + 1 /\ Cardinality(v) \in Nat
  PROVE  AddsUp(Append(b, m), f, n, v)
<1> DEFINE c == Append(b, m)
           l == Len(b)
<1>0. l \in 0..l
  BY LenProperties
<1>1. c \in Seq(Message) /\ Len(c) = l + 1 /\ l \in Nat
  BY AppendProperties, LenProperties
<1>2. \A k \in 0..l : Sub(c, f, k) = Sub(b, f, k) /\ Unsub(c, f, k) = Unsub(b, f, k)
  <2> SUFFICES ASSUME NEW k \in 0..l
               PROVE  Sub(c, f, k) = Sub(b, f, k) /\ Unsub(c, f, k) = Unsub(b, f, k)
    OBVIOUS
  <2>1. First(c, "subscribe", f, k) = First(b, "subscribe", f, k)
    BY FirstOfLonger
  <2>2. First(c, "unsubscribe", f, k) = First(b, "unsubscribe", f, k)
    BY FirstOfLonger
  <2> QED BY <2>1, <2>2 DEF Sub, Unsub
<1>3. Sub(c, f, l + 1) =
        Sub(b, f, l) + IF m.kind = "subscribe" /\ m.feed = f THEN 1 ELSE 0
  BY <1>0, FirstOfLonger DEF Sub
<1>4. Unsub(c, f, l + 1) =
        Unsub(b, f, l) + IF m.kind = "unsubscribe" /\ m.feed = f THEN 1 ELSE 0
  BY <1>0, FirstOfLonger DEF Unsub
<1>5. \A k \in 0..l : Unsub(b, f, k) <= n + Sub(b, f, k)
  BY DEF AddsUp, NeverBelow
<1>6. n + Sub(b, f, l) = Cardinality(w) + Unsub(b, f, l)
  BY DEF AddsUp
<1>7. Sub(b, f, l) \in Nat /\ Unsub(b, f, l) \in Nat
  BY <1>1, CountsAreNat
<1> HIDE DEF c, l
<1>8. n + Sub(c, f, l + 1) = Cardinality(v) + Unsub(c, f, l + 1)
  BY <1>3, <1>4, <1>6, <1>7
<1>9. Unsub(c, f, l + 1) <= n + Sub(c, f, l + 1)
  BY <1>3, <1>4, <1>6, <1>7
<1>10. \A k \in 0..(l + 1) : Unsub(c, f, k) <= n + Sub(c, f, k)
  <2> SUFFICES ASSUME NEW k \in 0..(l + 1) PROVE Unsub(c, f, k) <= n + Sub(c, f, k)
    OBVIOUS
  <2>1. CASE k = l + 1
    BY <1>9, <2>1
  <2>2. CASE k \in 0..l
    BY <1>2, <1>5, <2>2
  <2> QED BY <1>1, <2>1, <2>2
<1>11. AddsUp(c, f, n, v)
  BY <1>1, <1>8, <1>10 DEF AddsUp, NeverBelow
<1> QED BY <1>11 DEF c

(* A message taken from the queue, with what the engine does of it.         *)
LEMMA AddsUpShorter ==
  ASSUME NEW b \in Seq(Message), b # <<>>, NEW f, NEW n \in Nat, NEW p \in Nat, NEW w,
         Cardinality(w) \in Nat, AddsUp(b, f, n, w),
         \/ ~(b[1].kind \in {"subscribe", "unsubscribe"} /\ b[1].feed = f) /\ p = n
         \/ b[1].kind = "subscribe" /\ b[1].feed = f /\ p = n + 1
         \/ /\ b[1].kind = "unsubscribe" /\ b[1].feed = f
            /\ n > 0 => p = n - 1
            /\ n = 0 => p = 0
  PROVE  AddsUp(Tail(b), f, p, w)
<1> DEFINE c == Tail(b)
           l == Len(c)
<1>1. c \in Seq(Message) /\ Len(b) = l + 1 /\ l \in Nat
  <2>1. c \in Seq(Message) /\ Len(c) = Len(b) - 1 /\ Len(b) \in Nat /\ Len(c) \in Nat
    BY HeadTailProperties, LenProperties
  <2> QED BY <2>1
<1>2. \A k \in 0..l : Sub(b, f, k + 1) =
        Sub(c, f, k) + IF b[1].kind = "subscribe" /\ b[1].feed = f THEN 1 ELSE 0
  BY FirstOfShorter DEF Sub
<1>3. \A k \in 0..l : Unsub(b, f, k + 1) =
        Unsub(c, f, k) + IF b[1].kind = "unsubscribe" /\ b[1].feed = f THEN 1 ELSE 0
  BY FirstOfShorter DEF Unsub
<1>4. \A k \in 0..l : Unsub(b, f, k + 1) <= n + Sub(b, f, k + 1)
  <2>1. \A k \in 0..l : k + 1 \in 0..Len(b)
    BY <1>1
  <2> QED BY <2>1 DEF AddsUp, NeverBelow
<1>5. n + Sub(b, f, l + 1) = Cardinality(w) + Unsub(b, f, l + 1)
  BY <1>1 DEF AddsUp
<1>6. \A k \in 0..l : Sub(c, f, k) \in Nat /\ Unsub(c, f, k) \in Nat
  BY <1>1, CountsAreNat
<1> HIDE DEF c, l
<1>7. l \in 0..l /\ 0 \in 0..l /\ n \in Nat /\ p \in Nat /\ Cardinality(w) \in Nat
  BY <1>1
<1>8. CASE b[1].kind = "unsubscribe" /\ b[1].feed = f
  <2>1. \A k \in 0..l : /\ Sub(b, f, k + 1) = Sub(c, f, k)
                        /\ Unsub(b, f, k + 1) = Unsub(c, f, k) + 1
    BY <1>2, <1>3, <1>6, <1>8
  <2>2. Sub(c, f, 0) = 0
    BY FS_EmptySet DEF Sub, First, Places
  <2>3. n > 0 /\ p = n - 1
    BY <1>4, <1>6, <1>7, <1>8, <2>1, <2>2
  <2>4. \A k \in 0..l : Unsub(c, f, k) <= p + Sub(c, f, k)
    BY <1>4, <1>6, <1>7, <2>1, <2>3
  <2>5. p + Sub(c, f, l) = Cardinality(w) + Unsub(c, f, l)
    <3> DEFINE x == Sub(c, f, l)
               y == Unsub(c, f, l)
               z == Cardinality(w)
    <3>1. x \in Nat /\ y \in Nat /\ z \in Nat /\ n \in Nat /\ p = n - 1
      BY <1>6, <1>7, <2>3
    <3>2. n + x = z + (y + 1)
      BY <1>5, <1>7, <2>1
    <3> HIDE DEF x, y, z
    <3>3. p + x = z + y
      BY <3>1, <3>2
    <3> QED BY <3>3 DEF x, y, z
  <2>6. AddsUp(c, f, p, w)
    BY <2>4, <2>5 DEF AddsUp, NeverBelow, l
  <2> QED BY <2>6 DEF c
<1>9. CASE ~(b[1].kind = "unsubscribe" /\ b[1].feed = f)
  <2>1. \A k \in 0..l : /\ n + Sub(b, f, k + 1) = p + Sub(c, f, k)
                        /\ Unsub(b, f, k + 1) = Unsub(c, f, k)
    <3> SUFFICES ASSUME NEW k \in 0..l
                 PROVE  /\ n + Sub(b, f, k + 1) = p + Sub(c, f, k)
                        /\ Unsub(b, f, k + 1) = Unsub(c, f, k)
      OBVIOUS
    <3>1. Sub(c, f, k) \in Nat /\ Unsub(c, f, k) \in Nat
      BY <1>6
    <3>2. Unsub(b, f, k + 1) = Unsub(c, f, k)
      BY <1>3, <1>9, <3>1
    <3>3. CASE b[1].kind = "subscribe" /\ b[1].feed = f
      <4>1. Sub(b, f, k + 1) = Sub(c, f, k) + 1 /\ p = n + 1
        BY <1>2, <3>3
      <4> QED BY <1>7, <3>1, <3>2, <4>1
    <3>4. CASE ~(b[1].kind = "subscribe" /\ b[1].feed = f)
      <4>1. Sub(b, f, k + 1) = Sub(c, f, k) + 0 /\ p = n
        BY <1>2, <1>9, <3>4
      <4> QED BY <1>7, <3>1, <3>2, <4>1
    <3> QED BY <3>3, <3>4
  <2>2. \A k \in 0..l : Unsub(c, f, k) <= p + Sub(c, f, k)
    BY <1>4, <2>1
  <2>3. p + Sub(c, f, l) = Cardinality(w) + Unsub(c, f, l)
    BY <1>5, <1>7, <2>1
  <2>4. AddsUp(c, f, p, w)
    BY <2>2, <2>3 DEF AddsUp, NeverBelow, l
  <2> QED BY <2>4 DEF c
<1> QED BY <1>8, <1>9


-----------------------------------------------------------------------------
(* Who wants a feed, after an actor subscribed or unsubscribed.             *)
LEMMA WantedStep ==
  ASSUME DOMAIN subs = Actors, NEW a \in Actors, NEW f, NEW d
  PROVE  /\ subs' = [subs EXCEPT ![a] = With(@, f, d)] =>
              /\ DOMAIN subs' = Actors
              /\ Wanted(f)' = Wanted(f) \cup {a}
              /\ \A g : g # f => Wanted(g)' = Wanted(g)
         /\ subs' = [subs EXCEPT ![a] = Without(@, f)] =>
              /\ DOMAIN subs' = Actors
              /\ Wanted(f)' = Wanted(f) \ {a}
              /\ \A g : g # f => Wanted(g)' = Wanted(g)
<1>1. ASSUME subs' = [subs EXCEPT ![a] = With(@, f, d)]
      PROVE  /\ DOMAIN subs' = Actors /\ DOMAIN subs'[a] = DOMAIN subs[a] \cup {f}
             /\ \A c \in Actors \ {a} : subs'[c] = subs[c]
  BY <1>1 DEF With
<1>2. ASSUME subs' = [subs EXCEPT ![a] = Without(@, f)]
      PROVE  /\ DOMAIN subs' = Actors /\ DOMAIN subs'[a] = DOMAIN subs[a] \ {f}
             /\ \A c \in Actors \ {a} : subs'[c] = subs[c]
  BY <1>2 DEF Without
<1> QED BY <1>1, <1>2 DEF Wanted

LEMMA WantedFinite ==
  ASSUME NEW f
  PROVE  IsFiniteSet(Wanted(f)) /\ Cardinality(Wanted(f)) \in Nat
<1>1. Wanted(f) \in SUBSET Actors
  BY DEF Wanted
<1>2. IsFiniteSet(Wanted(f))
  BY <1>1, ActorsAssumption, FS_Subset
<1> QED BY <1>2, FS_CardinalityType

(* A message that is no command is put into the queue, or dropped.          *)
LEMMA CountsOther ==
  ASSUME NEW b \in Seq(Message), NEW m \in Message, m.kind \in {"data", "topic"},
         NEW f, NEW n \in Nat, NEW w, Cardinality(w) \in Nat, AddsUp(b, f, n, w)
  PROVE  AddsUp(Send(b, m), f, n, w)
<1>1. ~(m.kind \in {"subscribe", "unsubscribe"} /\ m.feed = f)
  OBVIOUS
<1>2. AddsUp(Append(b, m), f, n, w)
  BY <1>1, AddsUpLonger
<1> QED BY <1>2 DEF Send

LEMMA CountsStep == Polite /\ CountsInv /\ [Next]_vars => CountsInv'
<1> SUFFICES ASSUME Polite, CountsInv, [Next]_vars PROVE CountsInv'
  OBVIOUS
<1>0. QueueOK /\ QueueOK'
  BY QueueStep DEF CountsInv
<1>1. /\ bus \in Seq(Message) /\ Len(bus) <= BusCapacity
      /\ refcount \in [Feeds -> Nat] /\ DOMAIN subs = Actors
      /\ \A f \in Feeds \ lost : AddsUp(bus, f, refcount[f], Wanted(f))
      /\ \A f \in Feeds : Cardinality(Wanted(f)) \in Nat
  BY <1>0, WantedFinite DEF CountsInv, QueueOK
<1>2. ASSUME refcount' \in [Feeds -> Nat], DOMAIN subs' = Actors,
             \A f \in Feeds \ lost' : AddsUp(bus', f, refcount'[f], Wanted(f)')
      PROVE  CountsInv'
  BY <1>0, <1>2 DEF CountsInv
<1>3. subs' = subs => \A f : Wanted(f)' = Wanted(f)
  BY DEF Wanted
<1>4. ASSUME UNCHANGED <<subs, bus, refcount, lost>> PROVE CountsInv'
  BY <1>1, <1>2, <1>3, <1>4
<1>5. ASSUME NEW a \in Actors, NEW f \in Feeds, NEW d \in DepthsOf[f], Subscribe(a, f, d)
      PROVE  CountsInv'
  <2> DEFINE m == [kind |-> "subscribe", feed |-> f, arg |-> d]
  <2>1. m \in Message /\ m.kind = "subscribe" /\ m.feed = f
    BY DepthsAssumption DEF Message, Kinds
  <2>2. /\ bus' = Send(bus, m) /\ refcount' = refcount
        /\ lost' = IF Len(bus) < BusCapacity THEN lost ELSE lost \cup {f}
        /\ f \notin DOMAIN subs[a] /\ subs' = [subs EXCEPT ![a] = With(@, f, d)]
    BY <1>5 DEF Subscribe, Command, engineVars
  <2> HIDE DEF m
  <2>3. /\ DOMAIN subs' = Actors /\ Wanted(f)' = Wanted(f) \cup {a}
        /\ \A g \in Feeds : g # f => Wanted(g)' = Wanted(g)
    BY <1>1, <2>2, WantedStep
  <2>4. Cardinality(Wanted(f)') = Cardinality(Wanted(f)) + 1
    <3>1. a \notin Wanted(f)
      BY <2>2 DEF Wanted
    <3> QED BY <2>3, <3>1, WantedFinite, FS_AddElement
  <2>5. ASSUME NEW g \in Feeds \ lost' PROVE AddsUp(bus', g, refcount'[g], Wanted(g)')
    <3>1. g \in Feeds \ lost /\ refcount[g] \in Nat /\ Cardinality(Wanted(g)) \in Nat
          /\ AddsUp(bus, g, refcount[g], Wanted(g))
      BY <1>1, <2>2
    <3>2. CASE Len(bus) < BusCapacity
      <4>1. AddsUp(Append(bus, m), g, refcount[g], Wanted(g)')
        <5>1. CASE g = f
          BY <1>1, <2>1, <2>4, <3>1, <5>1, AddsUpLonger
        <5>2. CASE g # f
          BY <1>1, <2>1, <2>3, <3>1, <5>2, AddsUpLonger
        <5> QED BY <5>1, <5>2
      <4> QED BY <2>2, <3>2, <4>1 DEF Send
    <3>3. CASE ~(Len(bus) < BusCapacity)
      BY <2>2, <2>3, <3>1, <3>3 DEF Send
    <3> QED BY <3>2, <3>3
  <2> QED BY <1>1, <1>2, <2>2, <2>3, <2>5
<1>6. ASSUME NEW a \in Actors, NEW f \in Feeds, Unsubscribe(a, f) PROVE CountsInv'
  <2> DEFINE m == [kind |-> "unsubscribe", feed |-> f, arg |-> 0]
  <2>1. m \in Message /\ m.kind = "unsubscribe" /\ m.feed = f
    BY DEF Message, Kinds
  <2>2. /\ bus' = Send(bus, m) /\ refcount' = refcount
        /\ lost' = IF Len(bus) < BusCapacity THEN lost ELSE lost \cup {f}
        /\ f \in DOMAIN subs[a] /\ subs' = [subs EXCEPT ![a] = Without(@, f)]
    BY <1>6 DEF Unsubscribe, Command, engineVars
  <2> HIDE DEF m
  <2>3. /\ DOMAIN subs' = Actors /\ Wanted(f)' = Wanted(f) \ {a}
        /\ \A g \in Feeds : g # f => Wanted(g)' = Wanted(g)
    BY <1>1, <2>2, WantedStep
  <2>4. /\ Cardinality(Wanted(f)) = Cardinality(Wanted(f)') + 1
        /\ Cardinality(Wanted(f)') \in Nat
    <3>1. a \in Wanted(f)
      BY <2>2 DEF Wanted
    <3>2. /\ IsFiniteSet(Wanted(f) \ {a})
          /\ Cardinality(Wanted(f) \ {a}) = Cardinality(Wanted(f)) - 1
      BY <3>1, WantedFinite, FS_RemoveElement
    <3>3. Cardinality(Wanted(f) \ {a}) \in Nat
      BY <3>2, FS_CardinalityType
    <3> QED BY <2>3, <3>2, <3>3, WantedFinite
  <2>5. ASSUME NEW g \in Feeds \ lost' PROVE AddsUp(bus', g, refcount'[g], Wanted(g)')
    <3>1. g \in Feeds \ lost /\ refcount[g] \in Nat /\ Cardinality(Wanted(g)) \in Nat
          /\ AddsUp(bus, g, refcount[g], Wanted(g))
      BY <1>1, <2>2
    <3>2. CASE Len(bus) < BusCapacity
      <4>1. AddsUp(Append(bus, m), g, refcount[g], Wanted(g)')
        <5>1. CASE g = f
          BY <1>1, <2>1, <2>4, <3>1, <5>1, AddsUpLonger
        <5>2. CASE g # f
          BY <1>1, <2>1, <2>3, <3>1, <5>2, AddsUpLonger
        <5> QED BY <5>1, <5>2
      <4> QED BY <2>2, <3>2, <4>1 DEF Send
    <3>3. CASE ~(Len(bus) < BusCapacity)
      BY <2>2, <2>3, <3>1, <3>3 DEF Send
    <3> QED BY <3>2, <3>3
  <2> QED BY <1>1, <1>2, <2>2, <2>3, <2>5
<1>7. ASSUME NEW m \in Message, m.kind \in {"data", "topic"}, bus' = Send(bus, m),
             UNCHANGED <<subs, refcount, lost>>
      PROVE  CountsInv'
  <2>1. ASSUME NEW f \in Feeds \ lost PROVE AddsUp(bus', f, refcount'[f], Wanted(f)')
    BY <1>1, <1>3, <1>7, CountsOther
  <2> QED BY <1>1, <1>2, <1>7, <2>1
<1>8. ASSUME NEW f \in Feeds, NEW ts \in 0..now, Inject(f, ts) PROVE CountsInv'
  <2>1. [kind |-> "data", feed |-> f, arg |-> ts] \in Message
    BY <1>0 DEF Message, Kinds, QueueOK
  <2> QED BY <1>7, <1>8, <2>1 DEF Inject, engineVars
<1>9. ASSUME NEW f \in Feeds, IoReadData(f) PROVE CountsInv'
  <2>1. [kind |-> "data", feed |-> f, arg |-> now'] \in Message
    BY <1>0 DEF Message, Kinds, QueueOK
  <2> QED BY <1>7, <1>9, <2>1 DEF IoReadData, IoOnly, engineVars
<1>10. ASSUME bus # <<>>, UNCHANGED <<subs, lost>>, refcount' \in [Feeds -> Nat],
              NEW h, h = bus[1],
              \A f \in Feeds :
                \/ ~(h.kind \in {"subscribe", "unsubscribe"} /\ h.feed = f)
                   /\ refcount'[f] = refcount[f]
                \/ h.kind = "subscribe" /\ h.feed = f /\ refcount'[f] = refcount[f] + 1
                \/ /\ h.kind = "unsubscribe" /\ h.feed = f
                   /\ refcount[f] > 0 => refcount'[f] = refcount[f] - 1
                   /\ refcount[f] = 0 => refcount'[f] = 0
       PROVE  \A f \in Feeds \ lost : AddsUp(Tail(bus), f, refcount'[f], Wanted(f))
  <2> SUFFICES ASSUME NEW f \in Feeds \ lost
               PROVE  AddsUp(Tail(bus), f, refcount'[f], Wanted(f))
    OBVIOUS
  <2>1. /\ refcount[f] \in Nat /\ refcount'[f] \in Nat /\ Cardinality(Wanted(f)) \in Nat
        /\ AddsUp(bus, f, refcount[f], Wanted(f))
    BY <1>1, <1>10
  <2> QED BY <1>1, <1>10, <2>1, AddsUpShorter
<1>11. bus # <<>> => Head(bus) = bus[1] /\ Head(bus).feed \in Feeds /\ Head(bus) \in Message
  BY <1>1, TailKeeps DEF Message
<1>12. CASE ExecSubscribe
  <2>1. /\ bus # <<>> /\ Head(bus).kind = "subscribe" /\ bus' = Tail(bus)
        /\ refcount' = [refcount EXCEPT ![Head(bus).feed] = @ + 1]
        /\ UNCHANGED <<subs, lost>>
    BY <1>12 DEF ExecSubscribe, Serving, progVars
  <2>2. /\ refcount' \in [Feeds -> Nat]
        /\ \A f \in Feeds : refcount'[f] = IF f = Head(bus).feed THEN refcount[f] + 1
                                           ELSE refcount[f]
    BY <1>1, <1>11, <2>1
  <2>3. \A f \in Feeds \ lost : AddsUp(Tail(bus), f, refcount'[f], Wanted(f))
    BY <1>10, <1>11, <2>1, <2>2
  <2> QED BY <1>1, <1>2, <1>3, <2>1, <2>2, <2>3
<1>13. CASE ExecUnsubscribe
  <2>1. /\ bus # <<>> /\ Head(bus).kind = "unsubscribe" /\ bus' = Tail(bus)
        /\ refcount' = IF refcount[Head(bus).feed] = 0 THEN refcount
                       ELSE [refcount EXCEPT ![Head(bus).feed] = @ - 1]
        /\ UNCHANGED <<subs, lost>>
    BY <1>13 DEF ExecUnsubscribe, Serving, progVars, engineVars
  <2>2. /\ refcount' \in [Feeds -> Nat]
        /\ \A f \in Feeds : refcount'[f] = IF f = Head(bus).feed /\ refcount[f] # 0
                                           THEN refcount[f] - 1 ELSE refcount[f]
    BY <1>1, <1>11, <2>1
  <2>3. \A f \in Feeds \ lost : AddsUp(Tail(bus), f, refcount'[f], Wanted(f))
    BY <1>1, <1>10, <1>11, <2>1, <2>2
  <2> QED BY <1>1, <1>2, <1>3, <2>1, <2>2, <2>3
<1>14. CASE Receive
  <2>1. /\ bus # <<>> /\ Head(bus).kind = "topic" /\ bus' = Tail(bus)
        /\ UNCHANGED <<subs, lost, refcount>>
    BY <1>14 DEF Receive, Serving, progVars, engineVars
  <2>2. \A f \in Feeds \ lost : AddsUp(Tail(bus), f, refcount'[f], Wanted(f))
    BY <1>1, <1>10, <1>11, <2>1
  <2> QED BY <1>1, <1>2, <1>3, <2>1, <2>2
<1>15. CASE ProcessData
  <2> DEFINE m == [kind |-> "topic", feed |-> Head(bus).feed, arg |-> Head(bus).arg]
  <2>1. /\ bus # <<>> /\ Head(bus).kind = "data" /\ bus' = Send(Tail(bus), m)
        /\ UNCHANGED <<subs, lost, refcount>>
    BY <1>15 DEF ProcessData, Serving, progVars, engineVars
  <2>2. m \in Message /\ m.kind = "topic"
    BY <1>11, <2>1 DEF Message, Kinds
  <2> HIDE DEF m
  <2>3. \A f \in Feeds \ lost : AddsUp(Tail(bus), f, refcount'[f], Wanted(f))
    BY <1>1, <1>10, <1>11, <2>1
  <2>4. Tail(bus) \in Seq(Message)
    BY <1>1, <2>1, TailKeeps
  <2>5. ASSUME NEW f \in Feeds \ lost PROVE AddsUp(bus', f, refcount'[f], Wanted(f)')
    BY <1>1, <1>3, <2>1, <2>2, <2>3, <2>4, CountsOther
  <2> QED BY <1>1, <1>2, <2>1, <2>5
<1>16. CASE EngineStart \/ EngineStop \/ EngineStopped \/ ExecRegrow
  BY <1>4, <1>16 DEF EngineStart, EngineStop, EngineStopped, ExecRegrow, progVars, engineVars
<1>17. CASE \/ IoBuild \/ IoConnected \/ IoLoop \/ IoCheck \/ IoReadOther \/ IoExit
            \/ IoError
  BY <1>4, <1>17 DEF IoBuild, IoConnected, IoLoop, IoCheck, IoReadOther, IoExit, IoError,
                     IoOnly, engineVars
<1>18. CASE UNCHANGED vars
  BY <1>4, <1>18 DEF vars, progVars, engineVars
<1> QED
  BY <1>5, <1>6, <1>8, <1>9, <1>12, <1>13, <1>14, <1>15, <1>16, <1>17, <1>18
  DEF Next, ServeStep, IoStep

(* Nothing is counted, asked for or queued at first.                        *)
LEMMA CountsStart == Init => CountsInv
<1> SUFFICES ASSUME Init PROVE CountsInv
  OBVIOUS
<1>1. /\ bus = <<>> /\ Len(bus) = 0 /\ bus \in Seq(Message) /\ DOMAIN bus = {}
      /\ refcount = [f \in Feeds |-> 0] /\ now = 0 /\ DOMAIN subs = Actors
  BY DEF Init
<1>2. QueueOK /\ refcount \in [Feeds -> Nat]
  BY <1>1, LimitsAssumption DEF QueueOK
<1>3. ASSUME NEW f \in Feeds PROVE AddsUp(bus, f, refcount[f], Wanted(f))
  <2>1. Wanted(f) = {} /\ Cardinality(Wanted(f)) = 0
    BY FS_EmptySet DEF Init, Wanted
  <2>2. Sub(bus, f, 0) = 0 /\ Unsub(bus, f, 0) = 0
    BY FS_EmptySet DEF Sub, Unsub, First, Places
  <2>3. Len(bus) = 0 /\ refcount[f] = 0 /\ \A k \in 0..Len(bus) : k = 0
    BY <1>1
  <2> QED BY <2>1, <2>2, <2>3 DEF AddsUp, NeverBelow
<1> QED BY <1>1, <1>2, <1>3 DEF CountsInv

(* The engine counts subscribers without knowing them: if actors unsubscribe*)
(* only from what they subscribed to, the counts are right for any number   *)
(* of actors, in whatever order their commands queue up.                    *)
THEOREM CountsKeepAddingUp == ASSUME Polite PROVE Spec => []CountsAddUp
<1>1. CountsInv => CountsAddUp
  BY QueuedIsAll DEF CountsInv, CountsAddUp, AddsUp, QueueOK
<1> QED BY <1>1, CountsStart, CountsStep, PTL DEF Spec

-----------------------------------------------------------------------------
(* The types, and the life of the client's thread.                          *)
TypeInv ==
  /\ EngineInv /\ DataTypeOK
  /\ DOMAIN subs = Actors /\ depths \in [Feeds -> SUBSET Nat]
  /\ stopping => ~running

LEMMA TypeStep == TypeInv /\ [Next]_vars => TypeInv'
<1> SUFFICES ASSUME TypeInv, [Next]_vars PROVE TypeInv'
  OBVIOUS
<1>0. EngineInv /\ EngineInv'
  BY EngineStep DEF TypeInv
<1>1. /\ (Len(bus) <= BusCapacity)' /\ \A f \in Feeds : (refcount[f] \in Nat)'
      /\ (DOMAIN client_subs \subseteq Feeds)'
  BY <1>0 DEF EngineInv, QueueOK
<1>2. /\ DOMAIN subs = Actors /\ depths \in [Feeds -> SUBSET Nat]
      /\ \A f \in Feeds : depths[f] \subseteq DepthsOf[f]
      /\ \A a \in Actors : \A f \in DOMAIN subs[a] : subs[a][f] \in DepthsOf[f]
  BY DEF TypeInv, DataTypeOK
<1> DEFINE SubsOK == DOMAIN subs = Actors
                     /\ \A a \in Actors : \A f \in DOMAIN subs[a] : subs[a][f] \in DepthsOf[f]
           DepthsOK == depths \in [Feeds -> SUBSET Nat]
                       /\ \A f \in Feeds : depths[f] \subseteq DepthsOf[f]
           ThreadOK == /\ streams \subseteq Feeds
                       /\ io \in {"off", "idle", "dial", "loop", "check", "read"}
                       /\ running => io # "off"
                       /\ io # "off" => running \/ stopping
                       /\ stopping => ~running
<1>3. SubsOK'
  <2>1. ASSUME NEW a \in Actors, NEW f \in Feeds, NEW d \in DepthsOf[f],
               subs' = [subs EXCEPT ![a] = With(@, f, d)]
        PROVE  SubsOK'
    BY <1>2, <2>1 DEF With
  <2>2. ASSUME NEW a \in Actors, NEW f \in Feeds,
               subs' = [subs EXCEPT ![a] = Without(@, f)]
        PROVE  SubsOK'
    BY <1>2, <2>2 DEF Without
  <2>3. ASSUME subs' = subs PROVE SubsOK'
    BY <1>2, <2>3
  <2>4. \/ \E a \in Actors, f \in Feeds : Unsubscribe(a, f) \/
             \E d \in DepthsOf[f] : Subscribe(a, f, d)
        \/ subs' = subs
    BY DEF Next, ServeStep, IoStep, Inject, EngineStart, EngineStop, EngineStopped,
           ExecSubscribe, ExecRegrow, ExecUnsubscribe, ProcessData, Receive, IoBuild,
           IoConnected, IoLoop, IoCheck, IoReadOther, IoExit, IoReadData, IoError, IoOnly,
           vars
  <2> QED BY <2>1, <2>2, <2>3, <2>4 DEF Subscribe, Unsubscribe
<1>4. DepthsOK'
  <2>1. CASE ExecSubscribe
    <3>1. bus # <<>> => /\ Head(bus) = bus[1] /\ 1 \in DOMAIN bus /\ Head(bus).feed \in Feeds
                        /\ Head(bus).arg \in Nat
      BY <1>0, TailKeeps DEF EngineInv, QueueOK, Message
    <3>2. /\ Head(bus).feed \in Feeds /\ Head(bus).arg \in DepthsOf[Head(bus).feed]
          /\ Head(bus).arg \in Nat
          /\ depths' = [depths EXCEPT ![Head(bus).feed] = @ \cup {Head(bus).arg}]
      BY <1>0, <2>1, <3>1 DEF ExecSubscribe, Serving, EngineInv, QueueOK
    <3> QED BY <1>2, <3>2
  <2>2. CASE ExecUnsubscribe
    <3>1. depths' = depths \/ depths' = [depths EXCEPT ![Head(bus).feed] = {}]
      BY <2>2 DEF ExecUnsubscribe, engineVars
    <3> QED BY <1>2, <3>1
  <2>3. ExecSubscribe \/ ExecUnsubscribe \/ depths' = depths
    BY DEF Next, ServeStep, IoStep, Subscribe, Unsubscribe, Inject, EngineStart, EngineStop,
           EngineStopped, ExecRegrow, ProcessData, Receive, IoBuild, IoConnected, IoLoop,
           IoCheck, IoReadOther, IoExit, IoReadData, IoError, IoOnly, vars, engineVars
  <2> QED BY <1>2, <2>1, <2>2, <2>3
<1>5. ThreadOK'
  <2>1. ThreadOK /\ DOMAIN client_subs \subseteq Feeds
    BY DEF TypeInv, DataTypeOK
  <2>2. CASE EngineStart \/ EngineStop \/ EngineStopped
    BY <2>1, <2>2 DEF EngineStart, EngineStop, EngineStopped
  <2>3. CASE IoBuild \/ IoConnected \/ IoLoop \/ IoCheck
    BY <2>1, <2>3 DEF IoBuild, IoConnected, IoLoop, IoCheck, IoOnly
  <2>4. CASE IoReadOther \/ IoExit \/ IoError
    BY <2>1, <2>4 DEF IoReadOther, IoExit, IoError, IoOnly
  <2>7. ASSUME NEW f \in Feeds, IoReadData(f) PROVE ThreadOK'
    BY <2>1, <2>7 DEF IoReadData, IoOnly
  <2>5. CASE UNCHANGED ioVars
    BY <2>1, <2>5 DEF ioVars
  <2>6. CASE ServeStep
    BY <2>5, <2>6 DEF ServeStep, ExecSubscribe, ExecRegrow, ExecUnsubscribe, ProcessData,
                      Receive
  <2> QED
    BY <2>2, <2>3, <2>4, <2>5, <2>6, <2>7
    DEF Next, IoStep, Subscribe, Unsubscribe, Inject, vars, ioVars
<1> QED BY <1>0, <1>1, <1>3, <1>4, <1>5 DEF TypeInv, DataTypeOK

(* Every variable keeps its type, and the client's thread is there as long  *)
(* as the client runs: connect() starts it, disconnect() waits for it.      *)
THEOREM DataTypeCorrect == Spec => []DataTypeOK
<1>1. Init => TypeInv
  <2> SUFFICES ASSUME Init PROVE TypeInv
    OBVIOUS
  <2>1. /\ bus = <<>> /\ DOMAIN bus = {} /\ DOMAIN client_subs = {} /\ Len(bus) = 0
        /\ bus \in Seq(Message)
        /\ DOMAIN subs = Actors /\ \A a \in Actors : DOMAIN subs[a] = {}
    BY DEF Init
  <2>2. EngineInv
    BY <2>1, LimitsAssumption DEF Init, EngineInv, QueueOK, ClientFollowsEngine
  <2>3. depths = [f \in Feeds |-> {}] /\ refcount = [f \in Feeds |-> 0]
    BY DEF Init
  <2> QED BY <2>1, <2>2, <2>3, LimitsAssumption DEF Init, TypeInv, DataTypeOK
<1>2. TypeInv => DataTypeOK
  BY DEF TypeInv
<1> QED BY <1>1, <1>2, TypeStep, PTL DEF Spec

-----------------------------------------------------------------------------
(* DepthServed.  What an actor asked for is either counted by the engine    *)
(* already or still in the queue; and from there to the end of the queue    *)
(* the count of the feed never comes down to 0, which would make the engine *)
(* forget the depths it was asked for (PromiseInv).                         *)
Above(b, f, n, k) == Unsub(b, f, k) < n + Sub(b, f, k)

StaysAbove(b, f, n, k) == \A j \in k..Len(b) : Above(b, f, n, j)

Promised(b, f, n, kept, d) ==
  \/ d \in kept /\ StaysAbove(b, f, n, 0)
  \/ \E i \in 1..Len(b) : /\ b[i].kind = "subscribe" /\ b[i].feed = f /\ b[i].arg = d
                          /\ StaysAbove(b, f, n, i)

PromiseInv ==
  \A f \in Feeds \ lost : \A a \in Wanted(f) :
    Promised(bus, f, refcount[f], depths[f], subs[a][f])

(* What the engine is asked for is what it has the client subscribed to.    *)
DepthInv ==
  /\ depths \in [Feeds -> SUBSET Nat] /\ active_depth \in [Feeds -> Nat]
  /\ \A f \in Feeds :
       /\ refcount[f] = 0 => depths[f] = {}
       /\ refcount[f] > 0 => /\ active_depth[f] \in depths[f]
                             /\ \A d \in depths[f] : d <= active_depth[f]
       /\ f \in DOMAIN client_subs => /\ client_subs[f] \in Nat
                                      /\ client_subs[f] >= active_depth[f]

(* Somebody wants the feed when the queue is worked off: its count is not 0 *)
(* then.                                                                    *)
LEMMA AboveAtEnd ==
  ASSUME NEW b \in Seq(Message), NEW f, NEW n \in Nat, NEW w, IsFiniteSet(w),
         AddsUp(b, f, n, w), NEW a \in w
  PROVE  Above(b, f, n, Len(b))
<1>1. Cardinality(w) \in Nat /\ Cardinality(w) # 0
  BY FS_CardinalityType, FS_EmptySet
<1>2. Len(b) \in 0..Len(b)
  BY LenProperties
<1>3. Sub(b, f, Len(b)) \in Nat /\ Unsub(b, f, Len(b)) \in Nat
  BY <1>2, CountsAreNat
<1>4. n + Sub(b, f, Len(b)) = Cardinality(w) + Unsub(b, f, Len(b))
  BY DEF AddsUp
<1> QED BY <1>1, <1>3, <1>4 DEF Above

(* One more message in the queue, with the count above 0 after it.          *)
LEMMA PromiseLonger ==
  ASSUME NEW b \in Seq(Message), NEW m \in Message, NEW f, NEW n \in Nat, NEW kept, NEW d,
         Above(Append(b, m), f, n, Len(b) + 1),
         \/ Promised(b, f, n, kept, d)
         \/ m.kind = "subscribe" /\ m.feed = f /\ m.arg = d
  PROVE  Promised(Append(b, m), f, n, kept, d)
<1> DEFINE c == Append(b, m)
           l == Len(b)
<1>1. /\ l \in Nat /\ Len(c) = l + 1 /\ c[l + 1] = m
      /\ \A i \in 1..l : c[i] = b[i]
  BY AppendProperties, LenProperties
<1>2. \A k \in 0..l : Above(b, f, n, k) => Above(c, f, n, k)
  <2> SUFFICES ASSUME NEW k \in 0..l PROVE Sub(c, f, k) = Sub(b, f, k)
                                           /\ Unsub(c, f, k) = Unsub(b, f, k)
    BY DEF Above
  <2>1. First(c, "subscribe", f, k) = First(b, "subscribe", f, k)
    BY FirstOfLonger
  <2>2. First(c, "unsubscribe", f, k) = First(b, "unsubscribe", f, k)
    BY FirstOfLonger
  <2> QED BY <2>1, <2>2 DEF Sub, Unsub
<1>3. Above(c, f, n, l + 1)
  OBVIOUS
<1> HIDE DEF c, l
<1>4. ASSUME NEW k \in 0..l, \A j \in k..l : Above(b, f, n, j) PROVE StaysAbove(c, f, n, k)
  <2> SUFFICES ASSUME NEW j \in k..(l + 1) PROVE Above(c, f, n, j)
    BY <1>1 DEF StaysAbove
  <2>1. j = l + 1 \/ (j \in k..l /\ j \in 0..l)
    BY <1>1
  <2> QED BY <1>2, <1>3, <1>4, <2>1
<1>5. CASE Promised(b, f, n, kept, d)
  <2>1. CASE d \in kept /\ StaysAbove(b, f, n, 0)
    <3>1. 0 \in 0..l
      BY <1>1
    <3>2. StaysAbove(c, f, n, 0)
      BY <1>4, <2>1, <3>1 DEF StaysAbove, l
    <3> QED BY <2>1, <3>2 DEF Promised, c
  <2>2. ASSUME NEW i \in 1..l, b[i].kind = "subscribe", b[i].feed = f, b[i].arg = d,
               StaysAbove(b, f, n, i)
        PROVE  Promised(c, f, n, kept, d)
    <3>1. i \in 0..l /\ i \in 1..Len(c) /\ c[i] = b[i]
      BY <1>1
    <3>2. StaysAbove(c, f, n, i)
      BY <1>4, <2>2, <3>1 DEF StaysAbove, l
    <3> QED BY <2>2, <3>1, <3>2 DEF Promised
  <2> QED BY <1>5, <2>1, <2>2 DEF Promised, c, l
<1>6. CASE m.kind = "subscribe" /\ m.feed = f /\ m.arg = d
  <2>1. l + 1 \in 1..Len(c) /\ \A j \in (l + 1)..Len(c) : j = l + 1
    BY <1>1
  <2>2. StaysAbove(c, f, n, l + 1)
    BY <1>3, <2>1 DEF StaysAbove
  <2>3. Promised(c, f, n, kept, d)
    BY <1>1, <1>6, <2>1, <2>2 DEF Promised
  <2> QED BY <2>3 DEF c
<1> QED BY <1>5, <1>6

(* A message is taken from the queue; the engine counts what it is asked    *)
(* for, and forgets it all when the count comes down to 0.                  *)
LEMMA PromiseShorter ==
  ASSUME NEW b \in Seq(Message), b # <<>>, NEW f, NEW n \in Nat, NEW p \in Nat,
         NEW old, NEW new, NEW d, NeverBelow(b, f, n), Promised(b, f, n, old, d),
         \/ /\ ~(b[1].kind \in {"subscribe", "unsubscribe"} /\ b[1].feed = f)
            /\ p = n /\ new = old
         \/ /\ b[1].kind = "subscribe" /\ b[1].feed = f
            /\ p = n + 1 /\ new = old \cup {b[1].arg}
         \/ /\ b[1].kind = "unsubscribe" /\ b[1].feed = f
            /\ n > 0 => p = n - 1 /\ (n # 1 => new = old)
            /\ n = 0 => p = n /\ new = old
  PROVE  Promised(Tail(b), f, p, new, d)
<1> DEFINE c == Tail(b)
           l == Len(c)
<1>1. /\ Len(b) = l + 1 /\ l \in Nat /\ \A i \in 1..l : c[i] = b[i + 1]
  BY HeadTailProperties, LenProperties
<1>2. c \in Seq(Message)
  BY HeadTailProperties
<1>3. \A k \in 0..l :
        /\ Sub(b, f, k + 1) =
             Sub(c, f, k) + IF b[1].kind = "subscribe" /\ b[1].feed = f THEN 1 ELSE 0
        /\ Unsub(b, f, k + 1) =
             Unsub(c, f, k) + IF b[1].kind = "unsubscribe" /\ b[1].feed = f THEN 1 ELSE 0
  BY FirstOfShorter DEF Sub, Unsub
<1>4. \A k \in 0..l : Sub(c, f, k) \in Nat /\ Unsub(c, f, k) \in Nat
  BY <1>2, CountsAreNat
<1>5. Sub(c, f, 0) = 0 /\ Unsub(c, f, 0) = 0
  BY FS_EmptySet DEF Sub, Unsub, First, Places
<1>6. 0 \in 0..l /\ 1 \in 0..Len(b)
  BY <1>1
<1>7. Unsub(b, f, 1) <= n + Sub(b, f, 1)
  BY <1>6 DEF NeverBelow
<1> HIDE DEF c, l
<1>8. b[1].kind = "unsubscribe" /\ b[1].feed = f => n > 0
  BY <1>3, <1>5, <1>6, <1>7
<1>9. \A k \in 0..l : Above(b, f, n, k + 1) => Above(c, f, p, k)
  <2> SUFFICES ASSUME NEW k \in 0..l, Above(b, f, n, k + 1) PROVE Above(c, f, p, k)
    OBVIOUS
  <2>1. Sub(c, f, k) \in Nat /\ Unsub(c, f, k) \in Nat
    BY <1>4
  <2>2. CASE b[1].kind = "subscribe" /\ b[1].feed = f
    <3>1. Sub(b, f, k + 1) = Sub(c, f, k) + 1 /\ Unsub(b, f, k + 1) = Unsub(c, f, k) + 0
          /\ p = n + 1
      BY <1>3, <2>2
    <3> QED BY <2>1, <3>1 DEF Above
  <2>3. CASE b[1].kind = "unsubscribe" /\ b[1].feed = f
    <3>1. Sub(b, f, k + 1) = Sub(c, f, k) + 0 /\ Unsub(b, f, k + 1) = Unsub(c, f, k) + 1
          /\ p = n - 1
      BY <1>3, <1>8, <2>3
    <3> QED BY <2>1, <3>1 DEF Above
  <2>4. CASE ~(b[1].kind \in {"subscribe", "unsubscribe"} /\ b[1].feed = f)
    <3>1. Sub(b, f, k + 1) = Sub(c, f, k) + 0 /\ Unsub(b, f, k + 1) = Unsub(c, f, k) + 0
          /\ p = n
      BY <1>3, <2>4
    <3> QED BY <2>1, <3>1 DEF Above
  <2> QED BY <2>2, <2>3, <2>4
<1>10. ASSUME NEW k \in 0..l, \A j \in (k + 1)..(l + 1) : Above(b, f, n, j)
       PROVE  StaysAbove(c, f, p, k)
  <2> SUFFICES ASSUME NEW j \in k..l PROVE Above(c, f, p, j)
    BY DEF StaysAbove, l
  <2>1. j \in 0..l /\ j + 1 \in (k + 1)..(l + 1)
    BY <1>1
  <2> QED BY <1>9, <1>10, <2>1
<1>11. CASE d \in old /\ StaysAbove(b, f, n, 0)
  <2>1. \A j \in 0..(l + 1) : Above(b, f, n, j)
    BY <1>1, <1>11 DEF StaysAbove
  <2>2. StaysAbove(c, f, p, 0)
    <3>1. \A j \in (0 + 1)..(l + 1) : Above(b, f, n, j)
      BY <1>1, <2>1
    <3> QED BY <1>6, <1>10, <3>1
  <2>3. ~(b[1].kind = "unsubscribe" /\ b[1].feed = f /\ n = 1)
    <3> SUFFICES ASSUME b[1].kind = "unsubscribe", b[1].feed = f, n = 1 PROVE FALSE
      OBVIOUS
    <3>1. Sub(b, f, 0 + 1) = 0 /\ Unsub(b, f, 0 + 1) = 1
      BY <1>3, <1>5, <1>6
    <3>2. Above(b, f, n, 0 + 1)
      BY <1>1, <2>1
    <3> QED BY <3>1, <3>2 DEF Above
  <2>4. d \in new
    BY <1>8, <1>11, <2>3
  <2> QED BY <2>2, <2>4 DEF Promised, c
<1>12. ASSUME NEW i \in 1..(l + 1), b[i].kind = "subscribe", b[i].feed = f, b[i].arg = d,
              StaysAbove(b, f, n, i)
       PROVE  Promised(c, f, p, new, d)
  <2>1. \A j \in i..(l + 1) : Above(b, f, n, j)
    BY <1>1, <1>12 DEF StaysAbove
  <2>2. CASE i = 1
    <3>1. \A j \in (0 + 1)..(l + 1) : Above(b, f, n, j)
      BY <2>1, <2>2
    <3>2. StaysAbove(c, f, p, 0)
      BY <1>6, <1>10, <3>1
    <3>3. d \in new
      BY <1>12, <2>2
    <3> QED BY <3>2, <3>3 DEF Promised
  <2>3. CASE i # 1
    <3>1. i - 1 \in 0..l /\ i - 1 \in 1..l /\ c[i - 1] = b[i] /\ (i - 1) + 1 = i
      BY <1>1, <2>3
    <3>2. StaysAbove(c, f, p, i - 1)
      BY <1>10, <2>1, <3>1
    <3> QED BY <1>12, <3>1, <3>2 DEF Promised, l
  <2> QED BY <2>2, <2>3
<1> QED BY <1>1, <1>11, <1>12 DEF Promised, c

(* The largest of a set that has one.                                       *)
LEMMA MaxOf ==
  ASSUME NEW S \in SUBSET Nat, NEW x \in S, \A y \in S : y <= x
  PROVE  Max(S) = x
<1>1. \A y \in S : x >= y
  OBVIOUS
<1>2. ASSUME NEW z \in S, \A y \in S : z >= y PROVE z = x
  BY <1>1, <1>2
<1> QED BY <1>1, <1>2 DEF Max

(* The engine keeps the deepest it was asked for, and the client streams no *)
(* less.                                                                    *)
LEMMA DepthStep == EngineInv /\ DepthInv /\ [Next]_vars => DepthInv'
<1> SUFFICES ASSUME EngineInv, DepthInv, [Next]_vars PROVE DepthInv'
  OBVIOUS
<1>0. /\ QueueOK /\ refcount \in [Feeds -> Nat]
      /\ \A f \in Feeds : f \in DOMAIN client_subs => refcount[f] > 0
      /\ \A f \in regrow : f \in Feeds
  BY DEF EngineInv, ClientFollowsEngine
<1>1. bus # <<>> => Head(bus).feed \in Feeds /\ Head(bus).arg \in Nat
  BY <1>0, TailKeeps DEF QueueOK, Message
<1> USE DEF DepthInv, progVars, engineVars, clientVars, ioVars
<1>2. ASSUME UNCHANGED <<refcount, depths, active_depth, client_subs>> PROVE DepthInv'
  BY <1>2
<1>3. CASE ExecSubscribe
  <2> DEFINE f == Head(bus).feed
             x == Head(bus).arg
             d == WantedDepth(f, x)
  <2>1. /\ f \in Feeds /\ x \in Nat /\ refcount' = [refcount EXCEPT ![f] = @ + 1]
        /\ depths' = [depths EXCEPT ![f] = @ \cup {x}]
        /\ active_depth' = [active_depth EXCEPT ![f] = IF refcount[f] = 0 \/ d > @ THEN d ELSE @]
        /\ \/ refcount[f] = 0 /\ ClientSubscribes(f, d)
           \/ refcount[f] > 0 /\ d > active_depth[f] /\ ClientUnsubscribes(f)
           \/ refcount[f] > 0 /\ d <= active_depth[f] /\ UNCHANGED client_subs
    BY <1>1, <1>3 DEF ExecSubscribe, Serving
  <2>2. d = Max(depths[f] \cup {x})
    BY DEF WantedDepth
  <2> HIDE DEF f, x, d
  <2>3. /\ depths[f] \cup {x} \in SUBSET Nat /\ d \in depths[f] \cup {x} /\ d \in Nat
        /\ \A y \in depths[f] \cup {x} : y <= d
        /\ refcount[f] > 0 => d >= active_depth[f]
    <3>1. depths[f] \in SUBSET Nat /\ refcount[f] \in Nat /\ active_depth[f] \in Nat
      BY <1>0, <2>1
    <3>2. CASE refcount[f] = 0
      <4>1. depths[f] \cup {x} = {x}
        BY <2>1, <3>2
      <4>2. d = x
        BY <2>1, <2>2, <4>1, MaxOf
      <4> QED BY <2>1, <3>2, <4>1, <4>2
    <3>3. CASE refcount[f] > 0 /\ x <= active_depth[f]
      <4>1. active_depth[f] \in depths[f] \cup {x}
            /\ \A y \in depths[f] \cup {x} : y <= active_depth[f]
        BY <2>1, <3>3
      <4>2. d = active_depth[f]
        BY <2>1, <2>2, <3>1, <4>1, MaxOf
      <4> QED BY <2>1, <3>1, <4>1, <4>2
    <3>4. CASE refcount[f] > 0 /\ ~(x <= active_depth[f])
      <4>1. \A y \in depths[f] : y \in Nat /\ y <= active_depth[f]
        BY <2>1, <3>1, <3>4
      <4>2. \A y \in depths[f] \cup {x} : y <= x
        BY <2>1, <3>1, <3>4, <4>1
      <4>3. d = x
        BY <2>1, <2>2, <3>1, <4>2, MaxOf
      <4> QED BY <2>1, <3>1, <3>4, <4>2, <4>3
    <3> QED BY <3>1, <3>2, <3>3, <3>4
  <2>4. active_depth' = [active_depth EXCEPT ![f] = d]
    <3>1. (IF refcount[f] = 0 \/ d > active_depth[f] THEN d ELSE active_depth[f]) = d
      BY <1>0, <2>1, <2>3
    <3> QED BY <2>1, <3>1
  <2>5. /\ f \in DOMAIN client_subs' =>
             client_subs'[f] \in Nat /\ client_subs'[f] >= d
        /\ \A g \in Feeds \ {f} : /\ g \in DOMAIN client_subs' <=> g \in DOMAIN client_subs
                                  /\ g \in DOMAIN client_subs' =>
                                       client_subs'[g] = client_subs[g]
    <3>1. CASE refcount[f] = 0 /\ ClientSubscribes(f, d)
      <4>1. client_subs' = With(client_subs, f, d)
        BY <1>0, <2>1, <3>1 DEF ClientSubscribes
      <4> QED BY <2>3, <4>1 DEF With
    <3>2. CASE ClientUnsubscribes(f)
      BY <3>2 DEF ClientUnsubscribes, Without
    <3>3. CASE refcount[f] > 0 /\ d <= active_depth[f] /\ UNCHANGED client_subs
      <4>1. active_depth[f] \in Nat /\ d = active_depth[f]
        BY <2>1, <2>3, <3>3
      <4> QED BY <2>1, <3>3, <4>1
    <3> QED BY <2>1, <3>1, <3>2, <3>3
  <2>6. ASSUME NEW g \in Feeds
        PROVE  /\ refcount'[g] = 0 => depths'[g] = {}
               /\ refcount'[g] > 0 => /\ active_depth'[g] \in depths'[g]
                                      /\ \A y \in depths'[g] : y <= active_depth'[g]
               /\ g \in DOMAIN client_subs' => /\ client_subs'[g] \in Nat
                                               /\ client_subs'[g] >= active_depth'[g]
    <3>1. CASE g = f
      <4>1. /\ refcount'[f] = refcount[f] + 1 /\ refcount[f] \in Nat
            /\ depths'[f] = depths[f] \cup {x} /\ active_depth'[f] = d
        BY <1>0, <2>1, <2>4
      <4> QED BY <2>3, <2>5, <3>1, <4>1
    <3>2. CASE g # f
      <4>1. /\ refcount'[g] = refcount[g] /\ depths'[g] = depths[g]
            /\ active_depth'[g] = active_depth[g]
        BY <1>0, <2>1, <2>4, <3>2
      <4> QED BY <2>5, <3>2, <4>1
    <3> QED BY <3>1, <3>2
  <2>7. depths' \in [Feeds -> SUBSET Nat] /\ active_depth' \in [Feeds -> Nat]
    BY <2>1, <2>3, <2>4
  <2> QED BY <2>6, <2>7
<1>4. CASE ExecUnsubscribe
  <2> DEFINE f == Head(bus).feed
  <2>1. f \in Feeds
    BY <1>1, <1>4 DEF ExecUnsubscribe, Serving
  <2>2. CASE refcount[f] = 0
    BY <1>2, <1>4, <2>2 DEF ExecUnsubscribe
  <2>3. CASE refcount[f] = 1
    <3>1. /\ refcount' = [refcount EXCEPT ![f] = @ - 1]
          /\ depths' = [depths EXCEPT ![f] = {}]
          /\ active_depth' = [active_depth EXCEPT ![f] = 0]
          /\ client_subs' = Without(client_subs, f)
      BY <1>4, <2>1, <2>3 DEF ExecUnsubscribe, LastOne, ClientUnsubscribes
    <3>2. /\ f \notin DOMAIN client_subs'
          /\ \A g \in DOMAIN client_subs' : g \in DOMAIN client_subs
                                            /\ client_subs'[g] = client_subs[g]
      BY <3>1 DEF Without
    <3> HIDE DEF f
    <3> QED BY <1>0, <2>1, <2>3, <3>1, <3>2
  <2>4. CASE refcount[f] > 1
    <3>1. /\ refcount' = [refcount EXCEPT ![f] = @ - 1]
          /\ UNCHANGED <<depths, active_depth, client_subs>>
      BY <1>4, <2>1, <2>4 DEF ExecUnsubscribe, LastOne
    <3> HIDE DEF f
    <3>2. \A g \in Feeds :
            \/ refcount'[g] > 0 /\ refcount[g] > 0
            \/ refcount'[g] = refcount[g]
      BY <1>0, <2>1, <2>4, <3>1
    <3> QED BY <1>0, <3>1, <3>2
  <2> QED BY <1>0, <2>1, <2>2, <2>3, <2>4
<1>5. CASE ExecRegrow
  <2>1. PICK f \in regrow : ClientSubscribes(f, active_depth[f])
    BY <1>5 DEF ExecRegrow
  <2>2. f \in Feeds /\ UNCHANGED <<refcount, depths, active_depth>>
    BY <1>0, <1>5 DEF ExecRegrow
  <2>3. \/ UNCHANGED client_subs
        \/ client_subs' = With(client_subs, f, active_depth[f])
    BY <2>1 DEF ClientSubscribes
  <2>4. CASE client_subs' = With(client_subs, f, active_depth[f])
    <3>1. /\ DOMAIN client_subs' = DOMAIN client_subs \cup {f}
          /\ client_subs'[f] = active_depth[f]
          /\ \A g \in DOMAIN client_subs \ {f} : client_subs'[g] = client_subs[g]
      BY <2>4 DEF With
    <3> QED BY <2>2, <3>1
  <2> QED BY <1>2, <2>2, <2>3, <2>4
<1>6. CASE EngineStop \/ EngineStart
  BY <1>2, <1>6 DEF EngineStop, EngineStart
<1>7. CASE EngineStopped
  <2>1. DOMAIN client_subs' = {} /\ UNCHANGED <<refcount, depths, active_depth>>
    BY <1>7 DEF EngineStopped
  <2> QED BY <2>1
<1>8. ASSUME NEW a \in Actors, NEW f \in Feeds, NEW d,
             Subscribe(a, f, d) \/ Unsubscribe(a, f)
      PROVE  DepthInv'
  BY <1>2, <1>8 DEF Subscribe, Unsubscribe
<1>9. ASSUME NEW f \in Feeds, NEW ts, Inject(f, ts) \/ IoReadData(f) PROVE DepthInv'
  BY <1>2, <1>9 DEF Inject, IoReadData, IoOnly
<1>10. CASE ProcessData \/ Receive
  BY <1>2, <1>10 DEF ProcessData, Receive
<1>11. CASE \/ IoBuild \/ IoConnected \/ IoLoop \/ IoCheck \/ IoReadOther \/ IoExit
            \/ IoError
  BY <1>2, <1>11 DEF IoBuild, IoConnected, IoLoop, IoCheck, IoReadOther, IoExit, IoError, IoOnly
<1>12. CASE UNCHANGED vars
  BY <1>2, <1>12 DEF vars
<1> QED
  BY <1>3, <1>4, <1>5, <1>6, <1>7, <1>8, <1>9, <1>10, <1>11, <1>12
  DEF Next, ServeStep, IoStep

(* An actor's wish is kept in the queue and in the counts, whatever is put  *)
(* into the queue or taken from it.                                         *)
LEMMA PromiseStep ==
  Polite /\ CountsInv /\ DepthInv /\ PromiseInv /\ [Next]_vars => PromiseInv'
<1> SUFFICES ASSUME Polite, CountsInv, DepthInv, PromiseInv, [Next]_vars PROVE PromiseInv'
  OBVIOUS
<1>0. CountsInv'
  BY CountsStep
<1>1. /\ bus \in Seq(Message) /\ Len(bus) <= BusCapacity
      /\ refcount \in [Feeds -> Nat] /\ DOMAIN subs = Actors /\ QueueOK
      /\ \A f \in Feeds \ lost : AddsUp(bus, f, refcount[f], Wanted(f))
  BY DEF CountsInv, QueueOK
<1>2. /\ refcount' \in [Feeds -> Nat] /\ bus' \in Seq(Message)
      /\ \A f \in Feeds \ lost' : AddsUp(bus', f, refcount'[f], Wanted(f)')
  BY <1>0 DEF CountsInv, QueueOK
<1>3. \A f \in Feeds : IsFiniteSet(Wanted(f)')
  <2> SUFFICES ASSUME NEW f \in Feeds PROVE IsFiniteSet(Wanted(f)')
    OBVIOUS
  <2>1. Wanted(f)' \in SUBSET Actors
    BY DEF Wanted
  <2> QED BY <2>1, ActorsAssumption, FS_Subset
<1>4. \A f \in Feeds \ lost' : \A a \in Wanted(f)' : Above(bus', f, refcount'[f], Len(bus'))
  BY <1>2, <1>3, AboveAtEnd
<1>5. subs' = subs => \A f : Wanted(f)' = Wanted(f)
  BY DEF Wanted
(* A message is put into a queue in which every wish is kept.               *)
<1>6. ASSUME NEW b \in Seq(Message), NEW m \in Message, bus' = Send(b, m),
             NEW f \in Feeds \ lost', NEW a \in Wanted(f)',
             \/ Promised(b, f, refcount'[f], depths'[f], subs'[a][f])
             \/ /\ m.kind = "subscribe" /\ m.feed = f /\ m.arg = subs'[a][f]
                /\ bus' = Append(b, m)
      PROVE  Promised(bus', f, refcount'[f], depths'[f], subs'[a][f])
  <2>1. CASE bus' = Append(b, m)
    <3>1. Len(bus') = Len(b) + 1
      BY <2>1, AppendProperties
    <3>2. Above(Append(b, m), f, refcount'[f], Len(b) + 1)
      BY <1>4, <1>6, <2>1, <3>1
    <3>3. refcount'[f] \in Nat
      BY <1>2
    <3> QED BY <1>6, <2>1, <3>2, <3>3, PromiseLonger
  <2>2. CASE bus' = b /\ bus' # Append(b, m)
    BY <1>6, <2>2
  <2> QED BY <1>6, <2>1, <2>2 DEF Send
<1>7. ASSUME UNCHANGED <<subs, bus, refcount, depths, lost>> PROVE PromiseInv'
  BY <1>5, <1>7 DEF PromiseInv
<1>8. ASSUME NEW m \in Message, bus' = Send(bus, m), UNCHANGED <<subs, refcount, depths, lost>>
      PROVE  PromiseInv'
  <2> SUFFICES ASSUME NEW f \in Feeds \ lost', NEW a \in Wanted(f)'
               PROVE  Promised(bus', f, refcount'[f], depths'[f], subs'[a][f])
    BY DEF PromiseInv
  <2>1. Promised(bus, f, refcount'[f], depths'[f], subs'[a][f])
    BY <1>5, <1>8 DEF PromiseInv
  <2> QED BY <1>1, <1>6, <1>8, <2>1
<1>9. ASSUME NEW a \in Actors, NEW f \in Feeds, NEW d \in DepthsOf[f], Subscribe(a, f, d)
      PROVE  PromiseInv'
  <2> DEFINE m == [kind |-> "subscribe", feed |-> f, arg |-> d]
  <2>1. m \in Message /\ m.kind = "subscribe" /\ m.feed = f /\ m.arg = d
    BY DepthsAssumption DEF Message, Kinds
  <2>2. /\ bus' = Send(bus, m) /\ UNCHANGED <<refcount, depths>>
        /\ lost' = IF Len(bus) < BusCapacity THEN lost ELSE lost \cup {f}
        /\ subs' = [subs EXCEPT ![a] = With(@, f, d)]
    BY <1>9 DEF Subscribe, Command, engineVars
  <2> HIDE DEF m
  <2> SUFFICES ASSUME NEW g \in Feeds \ lost', NEW c \in Wanted(g)'
               PROVE  Promised(bus', g, refcount'[g], depths'[g], subs'[c][g])
    BY DEF PromiseInv
  <2>3. g \notin lost /\ c \in Actors
    BY <2>2 DEF Wanted
  <2>4. CASE g = f /\ c = a
    <3>1. subs'[c][g] = d
      BY <1>1, <2>2, <2>4 DEF With
    <3>2. Len(bus) < BusCapacity
      BY <2>2, <2>4
    <3>3. bus' = Append(bus, m)
      BY <2>2, <3>2 DEF Send
    <3> QED BY <1>1, <1>6, <2>1, <2>2, <2>4, <3>1, <3>3
  <2>5. CASE ~(g = f /\ c = a)
    <3>1. c \in Wanted(g) /\ subs'[c][g] = subs[c][g]
      BY <1>1, <2>2, <2>3, <2>5 DEF Wanted, With
    <3>2. Promised(bus, g, refcount'[g], depths'[g], subs'[c][g])
      BY <2>2, <2>3, <3>1 DEF PromiseInv
    <3> QED BY <1>1, <1>6, <2>1, <2>2, <3>2
  <2> QED BY <2>4, <2>5
<1>10. ASSUME NEW a \in Actors, NEW f \in Feeds, Unsubscribe(a, f) PROVE PromiseInv'
  <2> DEFINE m == [kind |-> "unsubscribe", feed |-> f, arg |-> 0]
  <2>1. m \in Message
    BY DEF Message, Kinds
  <2>2. /\ bus' = Send(bus, m) /\ UNCHANGED <<refcount, depths>>
        /\ lost' = IF Len(bus) < BusCapacity THEN lost ELSE lost \cup {f}
        /\ subs' = [subs EXCEPT ![a] = Without(@, f)]
    BY <1>10 DEF Unsubscribe, Command, engineVars
  <2> HIDE DEF m
  <2> SUFFICES ASSUME NEW g \in Feeds \ lost', NEW c \in Wanted(g)'
               PROVE  Promised(bus', g, refcount'[g], depths'[g], subs'[c][g])
    BY DEF PromiseInv
  <2>3. g \notin lost /\ c \in Wanted(g) /\ subs'[c][g] = subs[c][g]
    BY <1>1, <2>2 DEF Wanted, Without
  <2>4. Promised(bus, g, refcount'[g], depths'[g], subs'[c][g])
    BY <2>2, <2>3 DEF PromiseInv
  <2> QED BY <1>1, <1>6, <2>1, <2>2, <2>4
<1>11. ASSUME NEW f \in Feeds, NEW ts \in 0..now, Inject(f, ts) PROVE PromiseInv'
  <2>1. [kind |-> "data", feed |-> f, arg |-> ts] \in Message
    BY <1>1 DEF Message, Kinds, QueueOK
  <2> QED BY <1>8, <1>11, <2>1 DEF Inject, engineVars
<1>12. ASSUME NEW f \in Feeds, IoReadData(f) PROVE PromiseInv'
  <2>1. [kind |-> "data", feed |-> f, arg |-> now'] \in Message
    BY <1>1, <1>12 DEF Message, Kinds, QueueOK, IoReadData
  <2> QED BY <1>8, <1>12, <2>1 DEF IoReadData, IoOnly, engineVars
(* The message at the head is taken, and what it asks for is counted.       *)
<1>13. ASSUME bus # <<>>, UNCHANGED <<subs, lost>>,
              \A f \in Feeds :
                \/ /\ ~(bus[1].kind \in {"subscribe", "unsubscribe"} /\ bus[1].feed = f)
                   /\ refcount'[f] = refcount[f] /\ depths'[f] = depths[f]
                \/ /\ bus[1].kind = "subscribe" /\ bus[1].feed = f
                   /\ refcount'[f] = refcount[f] + 1
                   /\ depths'[f] = depths[f] \cup {bus[1].arg}
                \/ /\ bus[1].kind = "unsubscribe" /\ bus[1].feed = f
                   /\ refcount[f] > 0 => /\ refcount'[f] = refcount[f] - 1
                                         /\ refcount[f] # 1 => depths'[f] = depths[f]
                   /\ refcount[f] = 0 => refcount'[f] = refcount[f] /\ depths'[f] = depths[f],
              NEW f \in Feeds \ lost', NEW a \in Wanted(f)'
       PROVE  Promised(Tail(bus), f, refcount'[f], depths'[f], subs'[a][f])
  <2>1. /\ NeverBelow(bus, f, refcount[f])
        /\ Promised(bus, f, refcount[f], depths[f], subs'[a][f])
        /\ refcount[f] \in Nat /\ refcount'[f] \in Nat
    BY <1>1, <1>2, <1>5, <1>13 DEF PromiseInv, AddsUp
  <2> QED BY <1>1, <1>13, <2>1, PromiseShorter
<1>14. bus # <<>> => Head(bus) = bus[1] /\ Head(bus).feed \in Feeds /\ Head(bus) \in Message
  BY <1>1, TailKeeps DEF Message
<1>15. CASE ExecSubscribe
  <2>1. /\ bus # <<>> /\ bus[1].kind = "subscribe" /\ bus' = Tail(bus)
        /\ refcount' = [refcount EXCEPT ![bus[1].feed] = @ + 1]
        /\ depths' = [depths EXCEPT ![bus[1].feed] = @ \cup {bus[1].arg}]
        /\ UNCHANGED <<subs, lost>>
    BY <1>14, <1>15 DEF ExecSubscribe, Serving, progVars
  <2>2. \A f \in Feeds :
           IF f = bus[1].feed
           THEN refcount'[f] = refcount[f] + 1 /\ depths'[f] = depths[f] \cup {bus[1].arg}
           ELSE refcount'[f] = refcount[f] /\ depths'[f] = depths[f]
    BY <1>1, <2>1 DEF DepthInv
  <2>3. ASSUME NEW f \in Feeds \ lost', NEW a \in Wanted(f)'
        PROVE  Promised(bus', f, refcount'[f], depths'[f], subs'[a][f])
    BY <1>13, <2>1, <2>2
  <2> QED BY <2>3 DEF PromiseInv
<1>16. CASE ExecUnsubscribe
  <2>1. /\ bus # <<>> /\ bus[1].kind = "unsubscribe" /\ bus' = Tail(bus)
        /\ UNCHANGED <<subs, lost>>
    BY <1>14, <1>16 DEF ExecUnsubscribe, Serving, progVars
  <2>2. IF refcount[bus[1].feed] = 0 THEN UNCHANGED <<refcount, depths>>
        ELSE /\ refcount' = [refcount EXCEPT ![bus[1].feed] = @ - 1]
             /\ \/ refcount[bus[1].feed] = 1 /\ depths' = [depths EXCEPT ![bus[1].feed] = {}]
                \/ refcount[bus[1].feed] # 1 /\ depths' = depths
    BY <1>14, <1>16, <2>1 DEF ExecUnsubscribe, LastOne, engineVars
  <2>3. \A f \in Feeds :
           \/ f # bus[1].feed /\ refcount'[f] = refcount[f] /\ depths'[f] = depths[f]
           \/ /\ f = bus[1].feed
              /\ refcount[f] > 0 => /\ refcount'[f] = refcount[f] - 1
                                    /\ refcount[f] # 1 => depths'[f] = depths[f]
              /\ refcount[f] = 0 => refcount'[f] = refcount[f] /\ depths'[f] = depths[f]
    BY <1>1, <2>2 DEF DepthInv
  <2>4. ASSUME NEW f \in Feeds \ lost', NEW a \in Wanted(f)'
        PROVE  Promised(bus', f, refcount'[f], depths'[f], subs'[a][f])
    BY <1>13, <2>1, <2>3
  <2> QED BY <2>4 DEF PromiseInv
<1>17. CASE Receive
  <2>1. /\ bus # <<>> /\ bus[1].kind = "topic" /\ bus' = Tail(bus)
        /\ UNCHANGED <<subs, lost, refcount, depths>>
    BY <1>14, <1>17 DEF Receive, Serving, progVars, engineVars
  <2>2. ASSUME NEW f \in Feeds \ lost', NEW a \in Wanted(f)'
        PROVE  Promised(bus', f, refcount'[f], depths'[f], subs'[a][f])
    BY <1>13, <2>1
  <2> QED BY <2>2 DEF PromiseInv
<1>18. CASE ProcessData
  <2> DEFINE m == [kind |-> "topic", feed |-> Head(bus).feed, arg |-> Head(bus).arg]
  <2>1. /\ bus # <<>> /\ bus[1].kind = "data" /\ bus' = Send(Tail(bus), m)
        /\ UNCHANGED <<subs, lost, refcount, depths>>
    BY <1>14, <1>18 DEF ProcessData, Serving, progVars, engineVars
  <2>2. m \in Message
    BY <1>14, <2>1 DEF Message, Kinds
  <2> HIDE DEF m
  <2>3. Tail(bus) \in Seq(Message)
    BY <1>1, <2>1, TailKeeps
  <2>4. ASSUME NEW f \in Feeds \ lost', NEW a \in Wanted(f)'
        PROVE  Promised(bus', f, refcount'[f], depths'[f], subs'[a][f])
    <3>1. Promised(Tail(bus), f, refcount'[f], depths'[f], subs'[a][f])
      BY <1>13, <2>1
    <3> QED BY <1>6, <2>1, <2>2, <2>3, <3>1
  <2> QED BY <2>4 DEF PromiseInv
<1>19. CASE EngineStart \/ EngineStop \/ EngineStopped \/ ExecRegrow
  BY <1>7, <1>19 DEF EngineStart, EngineStop, EngineStopped, ExecRegrow, progVars, engineVars
<1>20. CASE \/ IoBuild \/ IoConnected \/ IoLoop \/ IoCheck \/ IoReadOther \/ IoExit
            \/ IoError
  BY <1>7, <1>20 DEF IoBuild, IoConnected, IoLoop, IoCheck, IoReadOther, IoExit, IoError,
                     IoOnly, engineVars
<1>21. CASE UNCHANGED vars
  BY <1>7, <1>21 DEF vars, progVars, engineVars
<1> QED
  BY <1>9, <1>10, <1>11, <1>12, <1>15, <1>16, <1>17, <1>18, <1>19, <1>20, <1>21
  DEF Next, ServeStep, IoStep

(* Actors subscribe to feeds.                                               *)
LEMMA SubscribedFeeds ==
  ASSUME DOMAIN subs = Actors, \A a \in Actors : DOMAIN subs[a] \subseteq Feeds, [Next]_vars
  PROVE  \A a \in Actors : DOMAIN subs'[a] \subseteq Feeds
<1>1. ASSUME NEW a \in Actors, NEW f \in Feeds, NEW d, subs' = [subs EXCEPT ![a] = With(@, f, d)]
      PROVE  \A c \in Actors : DOMAIN subs'[c] \subseteq Feeds
  BY <1>1 DEF With
<1>2. ASSUME NEW a \in Actors, NEW f \in Feeds, subs' = [subs EXCEPT ![a] = Without(@, f)]
      PROVE  \A c \in Actors : DOMAIN subs'[c] \subseteq Feeds
  BY <1>2 DEF Without
<1>3. \/ \E a \in Actors, f \in Feeds :
           Unsubscribe(a, f) \/ \E d \in DepthsOf[f] : Subscribe(a, f, d)
      \/ subs' = subs
  BY DEF Next, ServeStep, IoStep, Inject, EngineStart, EngineStop, EngineStopped,
         ExecSubscribe, ExecRegrow, ExecUnsubscribe, ProcessData, Receive, IoBuild,
         IoConnected, IoLoop, IoCheck, IoReadOther, IoExit, IoReadData, IoError, IoOnly,
         vars
<1> QED BY <1>1, <1>2, <1>3 DEF Subscribe, Unsubscribe

(* If actors unsubscribe only from what they subscribed to, an actor whose  *)
(* commands are handled has its feed at the depth it asked for, however     *)
(* many others subscribe, deepen and unsubscribe meanwhile.                 *)
THEOREM EveryoneIsServed == ASSUME Polite PROVE Spec => []DepthServed
<1> DEFINE OfFeeds == \A a \in Actors : DOMAIN subs[a] \subseteq Feeds
           Inv == CountsInv /\ EngineInv /\ DepthInv /\ PromiseInv /\ OfFeeds
<1>1. Init => Inv
  <2> SUFFICES ASSUME Init PROVE Inv
    OBVIOUS
  <2>1. /\ bus = <<>> /\ DOMAIN bus = {} /\ DOMAIN client_subs = {}
        /\ \A f \in Feeds : Wanted(f) = {}
    BY DEF Init, Wanted
  <2>2. CountsInv
    BY CountsStart
  <2>3. EngineInv
    BY <2>1, LimitsAssumption DEF Init, EngineInv, QueueOK, ClientFollowsEngine
  <2>4. DepthInv
    BY <2>1 DEF Init, DepthInv
  <2>5. PromiseInv
    BY <2>1 DEF PromiseInv
  <2>6. OfFeeds
    BY DEF Init
  <2> QED BY <2>2, <2>3, <2>4, <2>5, <2>6
<1>2. Inv /\ [Next]_vars => Inv'
  <2> SUFFICES ASSUME Inv, [Next]_vars PROVE Inv'
    OBVIOUS
  <2>1. OfFeeds'
    BY SubscribedFeeds DEF CountsInv
  <2> QED BY <2>1, CountsStep, EngineStep, DepthStep, PromiseStep
<1>3. Inv => DepthServed
  <2> SUFFICES ASSUME Inv, NEW a \in Actors, NEW f \in DOMAIN subs[a] \ (lost \cup regrow),
                      ~stopped,
                      Queued("subscribe", f) + Queued("unsubscribe", f) = 0
               PROVE  f \in DOMAIN client_subs /\ client_subs[f] >= subs[a][f]
    BY DEF DepthServed
  <2>1. f \in Feeds /\ bus \in Seq(Message) /\ refcount[f] \in Nat /\ Len(bus) \in 0..Len(bus)
    BY LenProperties DEF CountsInv, QueueOK
  <2>2. Sub(bus, f, Len(bus)) = 0 /\ Unsub(bus, f, Len(bus)) = 0
    <3>1. Sub(bus, f, Len(bus)) \in Nat /\ Unsub(bus, f, Len(bus)) \in Nat
      BY <2>1, CountsAreNat
    <3>2. Sub(bus, f, Len(bus)) + Unsub(bus, f, Len(bus)) = 0
      BY <2>1, QueuedIsAll
    <3> QED BY <3>1, <3>2
  <2>3. \A i \in 1..Len(bus) : ~(bus[i].kind = "subscribe" /\ bus[i].feed = f)
    <3>1. IsFiniteSet(Places(bus, "subscribe", f, Len(bus)))
      BY <2>1, PlacesFinite
    <3>2. Places(bus, "subscribe", f, Len(bus)) = {}
      BY <2>2, <3>1, FS_EmptySet DEF Sub, First
    <3> QED BY <3>2 DEF Places
  <2>4. Promised(bus, f, refcount[f], depths[f], subs[a][f])
    BY <2>1 DEF PromiseInv, Wanted
  <2>5. subs[a][f] \in depths[f] /\ Above(bus, f, refcount[f], Len(bus))
    BY <2>1, <2>3, <2>4 DEF Promised, StaysAbove
  <2>6. refcount[f] > 0
    BY <2>1, <2>2, <2>5 DEF Above
  <2>7. f \in DOMAIN client_subs
    BY <2>1, <2>6 DEF EngineInv, ClientFollowsEngine
  <2>8. /\ client_subs[f] \in Nat /\ active_depth[f] \in Nat /\ subs[a][f] \in Nat
        /\ client_subs[f] >= active_depth[f] /\ subs[a][f] <= active_depth[f]
    BY <2>1, <2>5, <2>6, <2>7 DEF DepthInv
  <2> QED BY <2>7, <2>8
<1> QED BY <1>1, <1>2, <1>3, PTL DEF Spec
=============================================================================
