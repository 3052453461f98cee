-------------------------- MODULE DataSubscriptions --------------------------
(***************************************************************************)
(* How an actor's subscription becomes a stream of the exchange: Actor     *)
(* (strategy.cpp) -> DataEngine with its reference counts -> the Binance   *)
(* data client and the thread that keeps its WebSocket connection; and how *)
(* the data comes back, into the cache and then to the actors.             *)
(***************************************************************************)
EXTENDS Naturals, Sequences, FiniteSets, FiniteSetsExt

CONSTANTS
  Actors,
  Feeds,        \* a feed: quotes, trades or the book of an instrument, a bar type
  DepthsOf,     \* per feed: the depths one can ask for ({0} but for books)
  Polite,       \* actors unsubscribe only from what they are subscribed to
  BusCapacity,  \* MessageBusConfig::max_queue_size
  MaxCommands,  \* bound: what the program does, besides starting
  MaxTime       \* bound: timestamps of the data

ASSUME ActorsAssumption == IsFiniteSet(Actors)
ASSUME DepthsAssumption == DepthsOf \in [Feeds -> SUBSET Nat]
ASSUME LimitsAssumption ==
  BusCapacity \in Nat \ {0} /\ MaxCommands \in Nat /\ MaxTime \in Nat /\ Polite \in BOOLEAN

VARIABLES
  subs,          \* per actor: feed -> depth, what it is subscribed to
  bus,           \* the message queue, oldest first
  refcount,      \* quote_refcount_ and its like
  depths,        \* book_depth_counts_: the depths that were asked for
  active_depth,  \* book_active_depth_
  client_subs,   \* the client's sets: feed -> depth
  needs_resubscribe,
  regrow,        \* the book the engine is between dropping and subscribing to deeper
  running,       \* the client's running_ and connected_
  io,            \* its thread: "off", "idle", "dial", "loop", "check" or "read"
  streams,       \* the feeds the connection in use was made for
  stopping,      \* the engine is inside disconnect()
  cache,         \* timestamp of the cached data of each feed
  stopped,       \* the engine was stopped
  now, commands,
  lost           \* history: feeds a command for was dropped by a full bus

progVars   == <<commands, now, lost>>
engineVars == <<refcount, depths, active_depth, regrow>>
clientVars == <<client_subs, needs_resubscribe>>
ioVars     == <<running, io, streams, stopping, stopped>>
vars == <<subs, bus, cache, progVars, engineVars, clientVars, ioVars>>

Init ==
  /\ subs = [a \in Actors |-> [f \in {} |-> 0]] /\ bus = <<>>
  /\ refcount = [f \in Feeds |-> 0] /\ depths = [f \in Feeds |-> {}]
  /\ active_depth = [f \in Feeds |-> 0]
  /\ client_subs = [f \in {} |-> 0] /\ needs_resubscribe = FALSE
  /\ running = FALSE /\ io = "off" /\ streams = {} /\ stopping = FALSE
  /\ cache = [f \in Feeds |-> 0] /\ now = 0 /\ commands = 0 /\ stopped = FALSE
  /\ lost = {} /\ regrow = {}

Send(b, msg) == IF Len(b) < BusCapacity THEN Append(b, msg) ELSE b

Command(kind, f, d) ==
  /\ bus' = Send(bus, [kind |-> kind, feed |-> f, arg |-> d])
  /\ lost' = IF Len(bus) < BusCapacity THEN lost ELSE lost \cup {f}

IsBook(f) == 0 \notin DepthsOf[f]

With(map, f, d) == [g \in DOMAIN map \cup {f} |-> IF g = f THEN d ELSE map[g]]
Without(map, f) == [g \in DOMAIN map \ {f} |-> map[g]]

-----------------------------------------------------------------------------
(* The program, on the thread that runs the bus.                            *)

MayAct == ~stopping /\ regrow = {} /\ commands < MaxCommands
Acted  == commands' = commands + 1

\* Mutant: subscribing twice sends two commands.
SubscribeAgain(a, f, d) ==
  /\ MayAct /\ Acted
  /\ subs' = [subs EXCEPT ![a] = With(@, f, d)]
  /\ Command("subscribe", f, d)
  /\ UNCHANGED <<cache, now, engineVars, clientVars, ioVars>>

Subscribe(a, f, d) ==
  /\ MayAct /\ Acted /\ f \notin DOMAIN subs[a]
  /\ subs' = [subs EXCEPT ![a] = With(@, f, d)]
  /\ Command("subscribe", f, d)
  /\ UNCHANGED <<cache, now, engineVars, clientVars, ioVars>>

(* The command goes out whether or not the actor was subscribed.            *)
Unsubscribe(a, f) ==
  /\ MayAct /\ Acted /\ (Polite => f \in DOMAIN subs[a])
  /\ subs' = [subs EXCEPT ![a] = Without(@, f)]
  /\ Command("unsubscribe", f, 0)
  /\ UNCHANGED <<cache, now, engineVars, clientVars, ioVars>>

(* DataEngine.process.historical: data of any age.                          *)
Inject(f, ts) ==
  /\ MayAct /\ Acted
  /\ bus' = Send(bus, [kind |-> "data", feed |-> f, arg |-> ts])
  /\ UNCHANGED <<subs, cache, now, lost, engineVars, clientVars, ioVars>>

(* DataEngine::on_start() and on_stop() connect and disconnect the client,  *)
(* which joins its thread and then forgets every subscription.  A component *)
(* that was stopped does not start again (component.cpp).                   *)
EngineStart ==
  /\ ~stopping /\ regrow = {} /\ ~running /\ ~stopped
  /\ running' = TRUE /\ io' = "idle"
  /\ UNCHANGED <<subs, bus, cache, progVars, engineVars, clientVars, streams,
                 stopping, stopped>>

EngineStop ==
  /\ MayAct /\ Acted /\ running
  /\ running' = FALSE /\ stopping' = TRUE /\ stopped' = TRUE
  /\ UNCHANGED <<subs, bus, cache, now, lost, engineVars, clientVars, io, streams>>

EngineStopped ==
  /\ stopping /\ io = "off"
  /\ stopping' = FALSE /\ client_subs' = [f \in {} |-> 0]
  /\ UNCHANGED <<subs, bus, cache, progVars, engineVars, needs_resubscribe, running, io,
                 streams, stopped>>

-----------------------------------------------------------------------------
(* DataEngine::handle_execute(): the first subscription to a feed, and a    *)
(* deeper one to a book, reach the client; so does the end of the last.     *)

Serving(kind) == ~stopping /\ regrow = {} /\ bus # <<>> /\ Head(bus).kind = kind

\* Mutant: a client that is told of a subscription does not tell its thread.
ClientSubscribesQuietly(f, d) ==
  /\ client_subs' = IF f \in DOMAIN client_subs /\ client_subs[f] >= d
                    THEN client_subs ELSE With(client_subs, f, d)
  /\ UNCHANGED needs_resubscribe

ClientSubscribes(f, d) ==
  /\ client_subs' = IF f \in DOMAIN client_subs /\ client_subs[f] >= d
                    THEN client_subs ELSE With(client_subs, f, d)
  /\ needs_resubscribe' = (needs_resubscribe \/ f \notin DOMAIN client_subs)

\* Mutant: the set shrinks and the thread is not told.
ClientUnsubscribesQuietly(f) ==
  client_subs' = Without(client_subs, f) /\ UNCHANGED needs_resubscribe

ClientUnsubscribes(f) ==
  /\ client_subs' = Without(client_subs, f)
  /\ needs_resubscribe' = (needs_resubscribe \/ f \in DOMAIN client_subs)

\* Mutant: the largest depth is looked up before the new one is counted.
WantedDepthBefore(f, d) == IF depths[f] = {} THEN d ELSE Max(depths[f])

WantedDepth(f, d) == Max(depths[f] \cup {d})

ExecSubscribe ==
  /\ Serving("subscribe") /\ bus' = Tail(bus)
  /\ LET f == Head(bus).feed
         d == WantedDepth(f, Head(bus).arg)
     IN /\ refcount' = [refcount EXCEPT ![f] = @ + 1]
        /\ depths' = [depths EXCEPT ![f] = @ \cup {Head(bus).arg}]
        /\ active_depth' = [active_depth EXCEPT
             ![f] = IF refcount[f] = 0 \/ d > @ THEN d ELSE @]
        /\ \/ refcount[f] = 0 /\ ClientSubscribes(f, d) /\ UNCHANGED regrow
           \/ /\ refcount[f] > 0 /\ d > active_depth[f]
              /\ ClientUnsubscribes(f) /\ regrow' = {f}
           \/ /\ refcount[f] > 0 /\ d <= active_depth[f]
              /\ UNCHANGED <<regrow, clientVars>>
  /\ UNCHANGED <<subs, cache, progVars, ioVars>>

(* The second half of a deeper subscription: the client's mutex is free     *)
(* between the two, and its thread may look.                                *)
ExecRegrow ==
  /\ \E f \in regrow : ClientSubscribes(f, active_depth[f])
  /\ regrow' = {}
  /\ UNCHANGED <<subs, bus, cache, refcount, depths, active_depth, progVars, ioVars>>

\* Mutant: the count goes down and nothing is ever given up.
LastOneNever(f) == FALSE

LastOne(f) == refcount[f] = 1

ExecUnsubscribe ==
  /\ Serving("unsubscribe") /\ bus' = Tail(bus)
  /\ LET f == Head(bus).feed IN
       IF refcount[f] = 0 THEN UNCHANGED <<engineVars, clientVars>>
       ELSE /\ refcount' = [refcount EXCEPT ![f] = @ - 1]
            /\ IF LastOne(f)
               THEN /\ depths' = [depths EXCEPT ![f] = {}]
                    /\ active_depth' = [active_depth EXCEPT ![f] = 0]
                    /\ ClientUnsubscribes(f)
               ELSE UNCHANGED <<depths, active_depth, clientVars>>
            /\ UNCHANGED regrow
  /\ UNCHANGED <<subs, cache, progVars, ioVars>>

(* DataEngine::handle_process(): into the cache, unless it has something    *)
(* as new, and then, in any case, to the topic.                             *)

\* Mutant: whatever arrives is cached.
NewerAlways(f, ts) == TRUE

Newer(f, ts) == ts > cache[f]

ProcessData ==
  /\ Serving("data")
  /\ LET f == Head(bus).feed  ts == Head(bus).arg IN
       /\ cache' = IF Newer(f, ts) THEN [cache EXCEPT ![f] = ts] ELSE cache
       /\ bus' = Send(Tail(bus), [kind |-> "topic", feed |-> f, arg |-> ts])
  /\ UNCHANGED <<subs, progVars, engineVars, clientVars, ioVars>>

Receive ==
  /\ Serving("topic") /\ bus' = Tail(bus)
  /\ UNCHANGED <<subs, cache, progVars, engineVars, clientVars, ioVars>>

-----------------------------------------------------------------------------
(* The client's thread: run_io_loop() and run_ws_connection().              *)

IoOnly == UNCHANGED <<subs, cache, commands, engineVars, client_subs, running, stopping,
                      stopped, lost>>

(* With nothing to subscribe to, the thread sleeps and looks again.         *)
IoBuild ==
  /\ io = "idle" /\ running /\ DOMAIN client_subs # {}
  /\ io' = "dial" /\ streams' = DOMAIN client_subs
  /\ IoOnly /\ UNCHANGED <<bus, now, needs_resubscribe>>

IoConnected ==
  /\ io = "dial" /\ io' = "loop"
  /\ IoOnly /\ UNCHANGED <<bus, now, needs_resubscribe, streams>>

\* Mutant: the read loop does not look at running_.
IoLoopBlind ==
  /\ io = "loop" /\ io' = "check"
  /\ IoOnly /\ UNCHANGED <<bus, now, needs_resubscribe, streams>>

IoLoop ==
  /\ io = "loop" /\ io' = IF running THEN "check" ELSE "idle"
  /\ IoOnly /\ UNCHANGED <<bus, now, needs_resubscribe, streams>>

(* Changed subscriptions are looked for between two messages.               *)
IoCheck ==
  /\ io = "check" /\ needs_resubscribe' = FALSE
  /\ io' = IF needs_resubscribe THEN "idle" ELSE "read"
  /\ IoOnly /\ UNCHANGED <<bus, now, streams>>

(* A book that was dropped has no place for its updates.                    *)
IoReadData(f) ==
  /\ io = "read" /\ f \in streams /\ now < MaxTime
  /\ IsBook(f) => f \in DOMAIN client_subs
  /\ io' = "loop" /\ now' = now + 1
  /\ bus' = Send(bus, [kind |-> "data", feed |-> f, arg |-> now'])
  /\ IoOnly /\ UNCHANGED <<needs_resubscribe, streams>>

(* A message that tells nothing, such as a bar that is not closed yet.      *)
IoReadOther ==
  /\ io = "read" /\ io' = "loop"
  /\ IoOnly /\ UNCHANGED <<bus, now, needs_resubscribe, streams>>

IoError ==
  /\ io \in {"dial", "read"} /\ io' = "idle"
  /\ IoOnly /\ UNCHANGED <<bus, now, needs_resubscribe, streams>>

IoExit ==
  /\ io = "idle" /\ ~running /\ io' = "off"
  /\ IoOnly /\ UNCHANGED <<bus, now, needs_resubscribe, streams>>

-----------------------------------------------------------------------------
ServeStep == ExecSubscribe \/ ExecRegrow \/ ExecUnsubscribe \/ ProcessData \/ Receive

IoStep == IoBuild \/ IoConnected \/ IoLoop \/ IoCheck \/ IoReadOther \/ IoExit
          \/ \E f \in Feeds : IoReadData(f)

Next ==
  \/ \E f \in Feeds :
       \/ \E a \in Actors : Unsubscribe(a, f) \/ \E d \in DepthsOf[f] : Subscribe(a, f, d)
       \/ \E ts \in 0..now : Inject(f, ts)
  \/ EngineStart \/ EngineStop \/ EngineStopped
  \/ ServeStep \/ IoStep \/ IoError

(* The bus is run, the thread goes on and is sent something on its          *)
(* connection, and of repeated attempts to connect one succeeds.            *)
Fairness ==
  /\ WF_vars(ServeStep) /\ WF_vars(EngineStopped) /\ WF_vars(IoStep)
  /\ SF_vars(IoConnected)

Spec     == Init /\ [][Next]_vars
FairSpec == Spec /\ Fairness

-----------------------------------------------------------------------------
(* Every variable has its type, and a client that runs has a thread         *)
(* (connect() starts it, disconnect() joins it).                            *)
DataTypeOK ==
  /\ \A a \in Actors : \A f \in DOMAIN subs[a] : subs[a][f] \in DepthsOf[f]
  /\ Len(bus) <= BusCapacity
  /\ \A f \in Feeds : refcount[f] \in Nat /\ depths[f] \subseteq DepthsOf[f]
  /\ DOMAIN client_subs \subseteq Feeds /\ streams \subseteq Feeds
  /\ io \in {"off", "idle", "dial", "loop", "check", "read"}
  /\ running => io # "off"
  /\ io # "off" => running \/ stopping

Wanted(f) == {a \in Actors : f \in DOMAIN subs[a]}
Queued(kind, f) ==
  Cardinality({i \in DOMAIN bus : bus[i].kind = kind /\ bus[i].feed = f})

(* data_engine.cpp counts subscribers without knowing them: the count of a  *)
(* feed is the number of its subscribers once the commands on the bus are   *)
(* counted in, unless a full bus dropped one.                               *)
CountsAddUp ==
  \A f \in Feeds \ lost :
    refcount[f] + Queued("subscribe", f) = Cardinality(Wanted(f)) + Queued("unsubscribe", f)

(* The sets of the client (quote_subs_ and its like) and the counts of the  *)
(* engine are kept in two objects: the client streams no feed that has no   *)
(* subscriber and, until it is stopped, every feed that has.                *)
ClientFollowsEngine ==
  \A f \in Feeds :
    /\ f \in DOMAIN client_subs => refcount[f] > 0
    /\ ~stopped /\ refcount[f] > 0 => f \in DOMAIN client_subs \cup regrow

(* Once its commands are handled, an actor's feed is one the client has, at *)
(* no less than the depth the actor asked for, whoever else comes and goes. *)
DepthServed ==
  \A a \in Actors : \A f \in DOMAIN subs[a] \ (lost \cup regrow) :
    ~stopped /\ Queued("subscribe", f) + Queued("unsubscribe", f) = 0
      => f \in DOMAIN client_subs /\ client_subs[f] >= subs[a][f]

(* run_ws_connection(): the connection carries what the client is           *)
(* subscribed to or needs_resubscribe_ is up: no change is lost between     *)
(* building the list of streams, connecting and reading.                    *)
StreamsCurrent ==
  running /\ io \in {"dial", "loop", "check", "read"} /\ ~needs_resubscribe
    => streams = DOMAIN client_subs

(* cache.hpp: "Write-before-publish guarantees temporal consistency": who   *)
(* is told of data finds the cache no older, late and historical data       *)
(* included.                                                                *)
CacheNotBehind ==
  \A i \in DOMAIN bus : bus[i].kind = "topic" => cache[bus[i].feed] >= bus[i].arg

(* A feed somebody wants is read from the exchange in the end.              *)
FeedGoesLive ==
  \A f \in Feeds :
    (running /\ Wanted(f) # {})
      ~> (Wanted(f) = {} \/ stopped \/ f \in lost \/ (io = "read" /\ f \in streams))

(* disconnect() joins a thread that may be blocked in a read, and comes     *)
(* back.                                                                    *)
EngineStopReturns == stopping ~> ~stopping
=============================================================================
