# A TLA+ model of the NPC Trading System

This directory holds a verification project for the C++ program in `src/`: TLA+
modules translated from its source, TLC configurations that check them on small
instances, and theorems with proofs that TLAPS checks for every instance.
Paths below are relative to the repository's root: its sources are `src/*.cpp`, its
headers `include/npcTrading/*.hpp`.

- `tlc -workers 2 -config MCX_run.cfg MCX` checks one run,
- `tlapm XProofs.tla` checks the proofs of one module,
- `PROJECT.json` lists components, runs, mutants (a plausible bug for each
  property, which TLC must then find violated), the source lines every
  definition stands for, findings, hazards and theorems.

## 1. The system

An event-driven trading program. One thread, the program's own, runs the message
bus and with it every handler of every engine, actor and strategy. Other threads
belong to the Binance clients: one per client that reads a WebSocket, one per
order and per cancel request, one per order book snapshot. They reach the engines
only by sending messages; the bus is what makes the engines single-threaded.

| Component (source) | State | Operations | Talks to |
|---|---|---|---|
| Message bus (`src/message_bus.cpp`) | bounded queue, `running_`, handlers, two maps of subscriptions | send, publish, subscribe, unsubscribe, (un)register, start, run, stop, request | everybody |
| Binance execution client (`src/binance/binance_execution_client.cpp`) | own copy of each order, buffer of pending orders, threads, stream | submit, cancel, sync, connect, disconnect; answers and reports | exchange; `ExecEngine.process` |
| Execution engine (`src/execution_engine.cpp`) | clients by venue | route commands, apply events to orders, update cache, publish | clients, cache, bus |
| Risk engine (`src/risk_engine.cpp`) | limits, trading state | check a command, forward or deny | `ExecEngine.execute`, order topics |
| Strategy (`src/strategy.cpp`) | the orders it holds | submit, list, cancel, modify; on_event | `RiskEngine.execute` |
| Actor (`src/strategy.cpp`) | subscriptions and tokens | subscribe, unsubscribe four kinds of feed | bus, `DataEngine.execute` |
| Data engine (`src/data_engine.cpp`) | counts per feed, depths of books | commands, data, requests, start, stop | data clients, cache, bus |
| Binance data client (`src/binance/binance_data_client.cpp`) | subscription sets, `needs_resubscribe_`, local order books, threads | subscribe, unsubscribe, connect, disconnect; stream and snapshots | exchange; `DataEngine.process` |
| Cache (`src/cache.cpp`) | orders, positions, latest data with its timestamp, ring buffers | add, update (stale data is dropped), queries | read by all |
| Clock (`src/clock.cpp`) | timers; one thread per live timer | schedule, cancel, shutdown; set time and process | callbacks into anything |
| Order book (`src/market_data.cpp`) | two sorted vectors of levels, statistics | deltas, clear, queries, validation | its owner |
| Rate limiter (`src/utils/rate_limiter.cpp`) | tokens, time of the last refill | consume (waits), refill | every thread that makes a request |
| Component lifecycle (`src/component.cpp`) | a state | initialize, start, stop, reset, dispose | hooks of the component |
| Dashboard server (`src/monitoring/dashboard_server.cpp`) | list of WebSocket sessions; per session a queue of messages and `writing_` | start, stop, accept, broadcast, send; HTTP requests | three threads of its own and the program's; peers |
| Metrics collector (`src/monitoring/`) | atomic counters | increment, read | read-only |

What is hard, and the properties that make each part correct:

- **Bus.** Any thread may send while another stops; `stop()` dispatches with the
  queue's mutex held and handlers call the bus again; `running_` is read before
  the mutex is taken. Wanted: no message lost or dispatched twice, order of
  acceptance kept, the queue bounded, the two subscription maps in step, a token
  given back never called again, `stop()` returns, accepted messages are dispatched.
- **Order path.** What happens to an order is reported twice, by the answer to
  its request and by the stream, on two threads in either order; requests and
  answers get lost, the stream drops. Wanted: fills conserved, no order posted
  twice, a live order is one somebody holds, *canceled* means canceled, every
  submission is settled, `disconnect()` returns.
- **Subscriptions.** Three objects keep the same information (actor, engine,
  client) and a fourth acts on it (the client's thread). Wanted: they agree, no
  change is missed between building the list of streams and reading, a wanted feed
  is read in the end, the cache never lags behind what is published.
- **Local order book.** Snapshots and events race. Wanted: no gap but those
  with a known cause, nothing newer than the book's own update id, a subscribed
  book gets initialized.
- **Clock.** Timers that are cancelled while due, callbacks that call the clock, a
  shutdown that joins callbacks with a mutex held. Wanted: called at most once, not
  before the time, not after a cancellation that came in time; a shutdown returns
  and nothing runs after it.
- **Cache.** An update of an unknown order is two steps with the lock free in
  between; stale data is dropped, and a ring of recent data goes round. Wanted: a
  lookup finds the newest of what was written, the history is the last *n* of what
  was new.
- **Order book.** Levels are removed with a tolerance and inserted exactly, and every
  query trusts the order. Wanted: a delta does to the depth what it says, no tick
  twice, average prices and volumes right.
- **Rate limiter.** Requesters wait with the mutex free, wake early or late, and
  refill for each other. Wanted: never more than the bucket and what flowed in.
- **Dashboard server.** Sessions are written to by two threads without a lock, and
  `stop()` waits for peers with the list locked. Wanted: one write at a time, open
  sessions get the broadcasts, messages queued are written, `stop()` returns.

## 2. Plan

| # | Module | State | Status |
|---|---|---|---|
| 1 | `MessageBus` implements `OrderedDelivery` (abstract) + `MessageBusProofs` | the bus with all its threads | done, proved |
| 2 | `BinanceExecution`, composed by `OrderFlow` with strategy, risk engine, execution engine and cache; `OrderFlowProofs` | the order path | done; invariants proved |
| 3 | `DataSubscriptions` + `DataSubscriptionsProofs` | actor, data engine, data client and its thread | done; invariants proved |
| 4 | `DepthBook` + `DepthBookProofs` | the local order book | done, proved |
| 5 | `Clock` (abstract), `LiveClock`, `SimulatedClock`, `EitherClock` + `EitherClockProofs` | the two clocks implement one promise | done; refinement and invariants proved |
| 6 | `MarketCache` + `MarketCacheProofs` | the cache under several writers | done, proved |
| 7 | `OrderBookLevels` implements `PriceLevels` (abstract) + `PartsProofs` | the order book's two vectors | done; refinement and queries proved |
| 8 | `RateLimiter` + `PartsProofs` | the token bucket | done, proved |
| 9 | `DashboardServer` + `DashboardServerProofs` | sessions and their three threads | done; invariants proved |
| 10 | cached books under two clocks | `DepthBook` beside `MarketCache`: a snapshot is stamped with the local clock, an event with the exchange's | not done |
| 11 | data requests | `request_*()` from actor to client and back, on one thread | not done |

Every invariant and action property of the runs expected to pass is a theorem
(section 7); liveness is not. Wanted next: rows 10 and 11.

## 3. The modules and the code

### MessageBus

One action per step between two points where another thread can come in.
`send()` and `publish()` are `Send` (read `running_`; the message is now in hand,
`pc = "push"`) and `Enqueue` or `DropFull` (under `queue_mutex_`). `run()` is
`RunEnter`, `RunCheck`, `RunPop` or `RunDrained`, then `Begin` (handlers copied
under `sub_mutex_`), `Deliver`, `Return` or `Throw` per handler, `RunFinish`.
`stop()` is `StopCheck`, `StopClear`, `StopLock`, then the same dispatch once per
message left, the message leaving the queue after it (`DrainFinish`),
`StopReturn`. There are two dispatch frames, `run` and `drain`, because a handler
called by `run()` may call `stop()`. What handlers call is a constant,
`HandlerOps`; a handler has no state of its own. `accepted`, `begun` and `calls`
are history.

`OrderedDelivery` is what a user of the bus may think it is: messages accepted one after
the other, taken up one at a time in that order, each handed to some handlers and to
none twice. `accepted`, `begun` and `calls` are its state; `Enqueue` maps to `Accept`,
`Begin` to `TakeUp`, `Deliver` to `Call`, all else to a stutter. `OrderFlow` and
`DataSubscriptions`, where the bus is a bounded sequence, rely on this order.

Not in the model: `request()` and its handlers (a direct call on the caller's
thread that touches nothing else), `queue_size()`, the counters of the monitor.

### BinanceExecution and OrderFlow

`BinanceExecution` has the client and the exchange: `SubmitOrder` (buffered when
disconnected, otherwise `SendOrders`: announced as submitted, posted by a
thread), the exchange's answer (`ExchangeAccept`, `ExchangeFillAtOnce`,
`ExchangeRefuse`) or its loss (`PostLost`), `AnswerPost` and `AnswerDelete` for
the two threads' last steps, `StreamDial`, `StreamUp` (which flushes the buffer),
`ReadReport`, `StreamError` (with the emergency cancel), `StreamExit`, `Connect`,
`Disconnect`, `Joined`. The exchange trades, expires and cancels; each change
goes on the user data stream if there is one. Quantities are lots, prices and
order types are not modelled: no property depends on them.

`OrderFlow` extends it with everything that runs on the bus's thread: `Submit`,
`SubmitNext`, `Send` (the strategy's calls), `SubmitDirect` and `SyncOpenOrders`
(the program calling the client), `RiskExecute`, `ExecSubmit`, `ExecCancel`,
`ExecIgnore`, `ProcessEvent` (status, filled quantity, cache, topic), `OnEvent`.
The bus is one bounded sequence here; that it behaves like one is what the
MessageBus runs and theorems are about. Whether a command passes the risk checks
is a nondeterministic choice, so the theorems about orders hold for any limits.

### DataSubscriptions

`Subscribe`, `Unsubscribe` (`Actor`), `Inject` (the historical endpoint),
`EngineStart`, `EngineStop`, `EngineStopped` (`on_start()`, `on_stop()`, the
client's `connect()` and `disconnect()`), `ExecSubscribe`, `ExecRegrow`,
`ExecUnsubscribe` (`handle_execute()`), `ProcessData` (`handle_process()` and the
cache's staleness check), `Receive`, and the client's thread: `IoBuild`,
`IoConnected`, `IoLoop`, `IoCheck`, `IoReadData`, `IoReadOther`, `IoError`,
`IoExit`. The four kinds of feed run through four copies of the same code; the
model has one, with a set of depths that is `{0}` but for books. A deeper
subscription to a book is two calls of the client with its mutex free in between,
hence two actions and the variable `regrow`.

Not in the model: the choice between several clients and the requests for
instruments and bars.

### DepthBook

The exchange numbers the changes of a book and gathers those since its last event
into the next. A snapshot thread asks (`Subscribe`), is answered at some later
moment (`ExchangeAnswers`), and at some later moment still takes the mutex and
replaces the book there is then (`SnapshotArrives`), or fails (`SnapshotFails`), or
fails while it replaces the levels: the old ones are gone, some new ones are there, and
`last_update_id` and `initialized` are as before (`SnapshotBreaksOff`; the book is
`torn`). That takes an answer with a level that is none. The events of the stream are
taken to be well formed, and are applied by `ProcessDepthUpdate`. The content of a book is the set of changes it reflects;
this is exact because an event carries the quantities a level has at its end, and
it ignores that a snapshot is limited to some number of levels. `missed` is
history: changes that passed while the book was not initialized, between two
connections, or that a snapshot (an older one, or one that broke off) or a new
subscription undid.

### Clock, LiveClock, SimulatedClock, EitherClock

`Clock` is abstract: what `Clock` in `clock.hpp` promises of a callback, pending,
then fired or cancelled for good. `LiveClock` has a step between any two points
where another thread can come in: `Enter` (a client or a running callback begins a
call), `Schedule`, `Spawn` and `Store` for the two locked parts of
`schedule_callback()` with the start of the thread between them, `Lookup` and
`Cancel`, `Wake`, `Check` and `Finish` for a timer's thread, and `ShutdownLock`,
`ShutdownCancel`, `ShutdownReturn` with `timers_mutex_` held throughout. A lock held
for one statement only is part of the step. `Timer::mutex` is not a variable: the
flag is set under it and the wait reads the flag under it, so no wakeup is lost.
`SimulatedClock` has one action per operation, and for `process_pending_callbacks()` one
per turn of its two loops: `SkipCancelled` and `TakeDue` take the top of the heap, any of
the earliest (`Top`), while `mutex_` keeps everybody else out; `TakingEnds`; then
`CallNext` with the mutex free, so that other threads or the callbacks schedule and
cancel in between. `set_time()` takes no lock: it is called between two calls of
`process_pending_callbacks()`, forward or back, or from a callback. `taken`, `called`
and `asof` are history. Calling `process_pending_callbacks()` from a callback, or from
two threads at once, is left out.

`EitherClock` is a program with one of the two. The mapping to `Clock` says when a
timer is decided: for the live clock at the thread's last look at the flag
(`clock.cpp:49`), for the simulated one when it is taken out of the heap. A
callback cancelled after that moment still runs, even when `cancel_callback()` has
returned before it begins.

### MarketCache

The cache's eight stores (orders, positions, quotes, trades, bars, order books and
their like) run through the same code: `is_stale_and_update()`, the map, and for
three of them a ring. The model has one store with a key for each of the kinds that
differ: `TwoStep` keys are orders and positions, `Capacity` says which keep a
history. `Add` is any `add_*()`; `Update` is `update_order()` or
`update_position()` of what is there or stale, all under the mutex;
`UpdateUnknown` notes the timestamp, unlocks, and leaves the thread on its way to
`add_order()` (`AddUpdated`), which then meets its own timestamp. `Clear` is
`clear()`. `Push`, `Recent` and `RecentQuotes` are the ring and its readers. A datum
is its timestamp. `OrderFlow` and `DataSubscriptions` have the part of the cache
they need inside their own actions, on the bus's thread.

### OrderBookLevels and PriceLevels

`PriceLevels` is what a book is: per side a function from ticks to sizes, where a
delta sets or drops one tick. `OrderBookLevels` is the code: `DeltaSet` and
`DeltaDelete` are `apply_delta()` (ADD and UPDATE the same, a size of 0 the same as
DELETE), each with `remove_level()` (within `Tol`), `insert_level()` (exact
comparisons) and the statistics; `ClearBook` is `clear()`. A price is a whole number of a
small unit; one tick has several prices less than `Tol` apart, as doubles of one
meant price are. `Vwap`, `ImpactSign`, `VolumeAt`, `Crossed` and `Valid` are the
queries; means are kept as numerator and denominator. `LevelsAt` is a filter without
recursion: each level kept goes where its rank among those kept says, so that it can be
reasoned about. `Sums`, and `Taking` for the loop of `calculate_vwap()`, are recursive
functions with a value for each level passed. `Offered` counts what a tick offers one by one, for the same reason.

### RateLimiter

`Request` is `consume()` up to the end or its first wait, `Wake` one more turn of its
loop; both refill (`Refilled`) before they look. `wait_for()` ends whenever it likes:
the length it computes is not relied on. `Mark` is history: it chooses the moment
`WithinBudget` counts from. Tokens and rate are whole numbers; the code's are doubles.

### DashboardServer

Three threads: *io* (every handler), *cast* (a broadcast each second), *main*
(`stop()`). `send()` and `do_write()` run on io and on cast and are `PushMessage`,
`TestWriting`, `TestEmpty`, `ClearWriting`, `StartWrite`, with the other thread in
between. Of the io thread: `UpgradeAsked` and `Register` (a session goes into the
list and begins its handshake), `Accepted` (`on_accept()`: open, read, greet),
`HandshakeFails`, `ReadFails`, `Written` and `WriteFails` (`on_write()`),
`PopsNothing` (`pop()` of an empty queue, after which the program is `crashed`),
`ServeFile`, then `FileServed` or `FileWriteThrows` (the peer broke off, `http::write()`
throws and nothing above `ioc_.run()` catches it: `crashed` too), `IoStops`. Of the broadcast: `CastWakes`, `CastBegins`
(locks the list), `CastVisits` (sends, or erases who is not open), `CastEnds`. Of
`stop()`: `StopCalled`, `StopLocks`, `CloseSkips`, `CloseBegins`, `CloseReturns`
(waits for the peer), `StopUnlocks`, `StopIo`, `Joined`. Messages are counted, not
kept: what they say is the counters of the moment. `overtaken` and `raced` are
history and name the two sessions the code does not serve as it should (section 6).

### MCParts

Cache, order book, rate limiter and dashboard server neither call nor wait for each
other. `MCParts` checks them in one run: a variable `part` chooses which one moves,
the others stay as they began.

## 4. The runs

| Run | Question | Bounds |
|---|---|---|
| `bus_fifo` | ordered delivery, maps and tokens when the owner alone stops the bus | 2 threads, 3 messages, queue of 2, 2 tokens, 2 starts |
| `bus_stop` | nothing lost when anybody stops it, handlers included; `stop()` returns; accepted messages are dispatched | 2 threads, 3 messages, queue of 2, 1 token, 2 starts |
| `bus_race` (violation) | is the queue empty after `stop()`? | 2 threads, 3 messages, queue of 2, no tokens, 2 starts |
| `order_fills` | fills conserved, live orders known, *submitted* heard first | 1 order of 2 lots, 1 cancel |
| `order_faults` | never twice, whatever is lost | the same order also handed to the client directly, all faults, bus of 2, 2 sessions |
| `order_live` | every submission settled, `disconnect()` returns | 1 lot, drops, 2 sessions |
| `order_final` (violation) | does a fill end the order | 1 order of 1 lot, no faults |
| `data_subs` | actor, engine, client, thread and cache in step; feeds go live | 2 actors, 2 feeds, a book of 2 depths, 4 commands, bus of 2 |
| `data_others` (violation) | does giving up a feed one never had leave others alone | 2 actors, 1 feed, 3 commands |
| `depth_book` | gaps, update ids, initialization, `disconnect()` | 4 changes, 2 subscriptions |
| `parts` | lookups and histories; depth and queries; the budget; sessions, broadcasts and `stop()` | cache: 2 writers, 3 keys (one of two steps, one with a ring of 2), 5 writes, timestamps to 3; book: 3 ticks of 2 prices, sizes 1 and 2; limiter: 2 requesters, burst 3, rate 1, time to 5; dashboard: 1 session, `MaxQueue` 2 |
| `clocks` | do both clocks keep `Clock`'s promise; does a shutdown return and silence; is what is due taken, and called in order | 2 timers, times 0 and 1, 2 client threads |

Why the bounds are enough to meet the cases that matter: two threads are all a
race on the queue's mutex takes, three messages fill a queue of two and leave one
to drop; two lots give a partial fill, a last fill and a cancel between them; two
sessions give a reconnect after a drop and a disconnect with work under way; two
actors and two depths give the deeper subscription after the first, the shallower
that stays and the last that leaves, in every order; two subscriptions of a book
give two snapshot threads in flight, and four changes an event of two or more
that straddles a snapshot; two starts of the bus give a `start()` while another thread is in
`stop()`; two timers, one of which the other's callback schedules,
with two callers, give a cancel and a shutdown against a wait, a look at the flag and
a callback inside the clock. In `parts`: two writers give a write between the two steps of
an update; five writes and three timestamps take a ring of two round and meet stale
data on the way; three ticks with two prices each give a neighbour on either side
and the same tick told twice; a burst of three with weights of one and two gives a
requester that waits while others take, and five units of time fill the bucket past
its brim; one session whose queue holds two messages gives a write under way, one
waiting and one pushed, and sessions share nothing but the list. (Two sessions
with `MaxQueue = 1` were checked by hand, with the proof's invariants: 695,000
states and no error.) `order_fills` keeps the stream up while orders are sent
(`StreamFirst`): without that, fills reported before the stream is dialled are
lost (see section 6), and `order_faults` covers that case. Deadlock is checked in
`bus_fifo` and `bus_race`; in `bus_stop` the check is off because a handler that a
`start()` lets through to the mutex stops the bus for good (section 6); elsewhere the system may come to rest, with every order settled or
everything disconnected, and the check is off; in `clocks` it is off because a
callback that waits for the clock and the shutdown that waits for the callback do
stop each other (`Jammed`, section 6); in `parts` writes, time and sessions run out.

`MaxCommands`, `MaxSessions`, `MaxTokens`, `MaxStarts`, `MaxTime`, `MaxTimers`, `MaxUpdates`,
`MaxSubscriptions`, `MaxOffers`, `MaxTimestamp`, `MaxClock`, `MaxQuantity` and `MaxQueue` are bounds of
the model; a session's queue has none in the code: `MaxQueue` lets a broadcast wait for
a peer or a handler that is that far behind, which the second between two
broadcasts does not promise. `MaxQueueSize` and `BusCapacity` are
the program's own limit, made small. `Polite` says that actors unsubscribe only
from what they are subscribed to; the code does not enforce it (see `data_others`).

## 5. Fairness

Safety properties need none. For liveness:

- *Bus*: a thread inside `send()` or `stop()` goes on and gets the mutex, the owner
  keeps calling `run()` (the example's loop does), handlers return or throw. The
  thread that runs the bus may call `start()` at any time; both properties leave out the
  one case in which the mutex is then never free again (`MutexComesFree`).
- *Order path*: the same, and the exchange answers every request it got and ends
  a stream nobody keeps alive (Binance closes one after 24 hours): only on this
  does `disconnect()` rely when its thread is blocked in a read. Nothing is assumed
  of the exchange's matching.
- *Subscriptions*: the client's thread goes on and is sent *something* now and
  then (so a read returns), and of repeated attempts to connect one succeeds:
  strong fairness of `IoConnected`, since a failed attempt disables it in between.
- *Local book*: a request for a snapshot is answered or fails, and the stream
  ends when `running_` is no longer set.

- *Clocks*: a timer's thread is scheduled, callbacks return when the clock lets
  them (strongly fair, since a callback may call the clock many times), a shutdown
  goes on. Time need not pass: `ShutdownReturns` holds with timers that never come due.
- *Dashboard*: its two threads and `stop()` go on; a peer of a session reads what is
  written to it or its connection breaks (strong fairness of `Peer`, since the io thread
  has other handlers in between), and it answers a close: `stop()` relies on this, since
  it closes with no timeout of its own. A broken connection does no harm to a session. While
  a file is written it ends the process (section 6): `QueuedIsWritten` and
  `ServerStopReturns` leave that, and `pop()` of an empty queue, out (`crashed`).

## 6. Where code and text disagree

Checked by runs that TLC must find violated:

1. `bus_race`: a producer that has passed the `running_` check queues its message
   after `stop()` has drained the queue; it stays there (`src/message_bus.cpp:73`).
2. `order_final`: the answer's `OrderAccepted` comes after the stream's fill and
   sets a filled order back to `ACCEPTED` (`src/execution_engine.cpp:171`).
3. `data_others`: giving up a feed one never had lowers the count of those who do,
   and takes the feed from the last of them.

Seen while reading, not stated as runs:

- The cached status of an order never changes after it was added: every copy has
  the timestamp it was made with, and updates with the same timestamp are dropped
  as stale (`src/cache.cpp:81`), against the comment on consistency in
  `include/npcTrading/cache.hpp:83`.
- An order the exchange took, whose answer is lost or unreadable, is announced as
  rejected (`src/binance/binance_execution_client.cpp:310`).
- `disconnect()` does not cancel open orders, which
  `binance_execution_client.hpp:144` says it does: a stream that ends because
  `running_` is false raises no exception, and only an exception cancels.
- `submit_order_list()` is called atomic (`strategy.hpp:223`) and sends one message
  per order into a bounded queue.
- `CancelAllOrders` has no case in the execution engine, which logs it.
- Depth events before the snapshot are skipped, although the comment says they are
  buffered: those between the snapshot and its arrival are lost for good.
- The snapshot of an earlier subscription replaces the book of a later one; a
  deeper subscription right after the first one makes that likely.
- `LiveClock::shutdown()` joins with `timers_mutex_` held (`clock.cpp:71-83`): a callback
  that calls `schedule_callback()` or `cancel_callback()` meanwhile never returns, and
  neither does `shutdown()`. `ShutdownReturns` names exactly this exception.
- A snapshot is stamped with the local clock and events with the exchange's time:
  the cache drops the events that were on their way as stale.
- A snapshot whose answer holds a level that is none leaves the book partly replaced: the
  old levels are cleared before the new ones are read, and the number of the last change
  is set after them (`src/binance/binance_data_client.cpp:842-862`). Later events are
  applied to it as if it were whole.
- `start()` on the thread that runs the bus, while another thread is in `stop()`, sets
  `running_` again. A handler called by that `stop()` which sends then passes the check
  (`src/message_bus.cpp:78`) and locks `queue_mutex_` (`:85`), which its own thread holds
  since `:236`; one that stops does the same. Neither `stop()` nor the bus goes on.
  `StopReturns` and `AcceptedIsBegun` name exactly this exception (`MutexComesFree`).
- An order filled at once is reported filled by the answer and by the stream, and its
  filled quantity is doubled. `Instant` names such orders; the runs about fills set it
empty, `order_live` does not.
- The first update of an order or position the cache does not hold is lost: it notes
  the timestamp, and the `add_order()` it then calls finds it stale
  (`src/cache.cpp:81-92`, `159-171`). Orders handed to the client directly are never
  added, so the cache does not learn of them.
- `OrderBook::is_crossed()` compares exactly, `is_locked()` with a tolerance;
  `get_volume_at_level()` has none and misses a level told with another double of the
  same price. The statistics are all zero when one side is empty.
- The execution client's limiter is commented as 1200 a minute
  (`src/binance/binance_execution_client.cpp:169`); a burst of 100 and a rate of 1200
  a minute give out up to 1300 in one. A request heavier than the burst never
  returns, and light requesters can keep a heavy one waiting.
- A session is in the list before its handshake is over; a broadcast in between takes
  it for dead and erases it, and it is greeted and never sent to again, against
  "Streams metrics updates in real-time" (`dashboard_server.hpp`).
- `serve_file()` writes with `http::write()` without an `error_code`
  (`src/monitoring/dashboard_server.cpp:307`, `326`, `338`, `355`, `369`), on the thread of
  `ioc_.run()` (`:91`), where nothing catches: a peer that breaks off while it is sent a
  file ends the whole program.
- A broadcast that meets `on_accept()` may start a second `async_write()`, and the
  second `on_write()` then pops an empty queue. The queue has no bound. The JSON of a
  broadcast is built before the list is locked and may be older than a greeting
  queued before it. A message pushed while `do_write()` gives up waits for the next
  broadcast.

## 7. What is proved

All theorems hold for every value of the constants that satisfies the modules'
assumptions (any number of threads, messages, tokens, orders, actors, feeds, keys,
sessions; any bounds). Type invariants are proved rather than run. An invariant is
seldom inductive as it stands; what follows names what was added and why.

**MessageBusProofs.** `BusTypeCorrect` (`TypeOK`), `QueueNeverOverflows`,
`TokenMapsAlwaysAgree`, `GoneForever`, and, assuming that only the thread that runs
the bus stops it (`Stoppers \subseteq {Loop}`), `DispatchFollowsAcceptance`. `TypeOK` is not inductive by
itself: that a frame's message is one, or that the head of the queue exists while
`stop()` dispatches it, depends on where the threads are. `FramesOK` ties the two
frames to `run_pc` and to the owner of the mutex (a frame that has called a handler
has a message, the drain frame is idle when nobody owns the mutex, its message is
the head of the queue). Dispatch in order additionally needs `StoppersOK`: no other
thread is in `stop()`, so the two frames are never both between taking a message
and beginning it. `GoneForever` is an action property and follows from `FramesOK`,
`TokenMapsAgree` and that tokens are handed out in increasing order.
`NoMessageIsLost` has no hypothesis: `FramesOK` says where each message is that is
neither queued nor begun, whoever stops. `EachHandlerSeesFifo` assumes the same as
`DispatchFollowsAcceptance` and that no handler calls `stop()`. The second is needed,
as TLC showed: a `stop()` from a handler dispatches the rest of the queue before
`run()` has called the remaining handlers of the older message, which then get it after
newer ones. The invariant (`FifoInv`) says that the two frames are not at work at the
same time (`Alone`), that a message is pushed once and then accepted once (`SentOnce`), and
that a frame's message is the last begun, while its handlers still to be called have
not had it (`CallsFollow`); with `BegunFirst`, positions among the messages begun are
positions among those accepted. The same invariant gives `BusDeliversInOrder`, the
refinement of `OrderedDelivery`, under the same two assumptions: `SentOnce` is the guard of
`Accept`, `BegunFirst` after the step is `TakeUp`, and `CallsFollow` is the guard of `Call`.

**OrderFlowProofs.** `NoOrderGoesOutTwice`: an order that is not settled is a token
in exactly one place, with whoever still has to submit it, on the bus, in the client's
buffer, posted, or denied (`OneToken`), and every action moves it from one place to the
next. That takes that no message on the bus submits an order twice (`SubmitsOnce`)
and that a list under way repeats none and holds only fresh ones (`ListInv`); the
assumption is that a list given to the strategy repeats no
order. `CanceledCanBeReliedOn`: every place a cancel is announced from, stream,
answer or bus, holds it only when the exchange has canceled (`CanceledInv`).
`OrderTypeCorrect`: every report, event and thread speaks of an order the client
tracks (`TrackedInv`, `PlacesOK`); all else is bookkeeping.

Four more are about an order's way back. Quantities on their way are counted lot by
lot, as the size of a set (`Quantity`), which a prover can split where it cannot
unfold a sum. `NothingFilledTwice` has no hypothesis: in every step what leaves the
exchange, the stream or the bus arrives at the next place or nowhere
(`FillsWithin`, with what `FillTypes` says of the thread that may report a fill of its own). Orders
the exchange fills as it accepts them are excluded by the property: there the answer
and the stream both report the fill (section 6). `NoFillIsLost` assumes what the run
assumes, that the stream is up before orders go out and neither drops nor is
disconnected, and that the bus is never full; in `order_fills` it is not, which TLC
checked. The equality holds inductively once the stream is known to be up whenever an order is
out (`FillsKept`, `StreamHeld`). `NoOrderIsForgotten` assumes that no answer is lost: after a lost
answer the client announces a rejection of an order that may live (section 6). What
makes the strategy forget an order is said of one that is over already, at every place
such an event is announced from (`KnownInv`). `SubmittedComesFirst` assumes only
that the bus is never full, since a full one drops *submitted* like any other event:
whatever says something of an order has *submitted* ahead of it in the queue
or already heard, counting that an event passes the queue twice, first to the
execution engine and then to its topic (`FirstInv`, `Heralded`).

**DataSubscriptionsProofs.** `StreamsStayCurrent` is inductive alone. `ClientKeepsUp`
needs what the engine's counts, depths and `regrow` say of each other (`EngineInv`);
`PublishedIsCached` that what is announced was put in the cache first and that the
cache never goes back. `CountsKeepAddingUp` assumes `Polite` and finitely many actors:
the count of a feed and the commands on the bus add up to the actors that are
subscribed, and, for a count never to be lowered below zero on the way, every prefix
of the queue leaves it at least zero (`NeverBelow`). `EveryoneIsServed` assumes the
same. Commands do not say whose they are, so the invariant follows the depth an actor asked
for: it is counted by the engine or still on the bus, and from there to the end of
the queue the count of the feed stays above zero (`PromiseInv`), for at zero the engine
forgets all depths; the engine's active depth is the largest it counts, and
the client has no less (`DepthInv`). `DataTypeCorrect` is the type
invariant with the client's thread tied to its state.

**DepthBookProofs.** `EveryGapExplained` and `NeverAhead` (of a book no snapshot left torn). An event that is applied
sets `last_update_id` to its last change and says nothing of the changes before its
first, so the invariant has to speak of the wire: events follow each other without
a gap (`WireInOrder`), and everything before the first of them was applied or missed
(`DeliveredAccounted`). Every step keeps *applied or missed* from shrinking
(`NothingForgotten`); an event then extends it by exactly its own changes
(`DepthUpdateStep`). `Typing` is part of the invariant.

**EitherClockProofs.** `EitherClockKeepsThePromise`: both clocks implement `Clock`. The
mapped step of a live timer's last look needs that a thread whose timer is not
cancelled woke because its time had come; that, in turn, that a thread is started
once and that calls in progress name timers that exist (`LiveOK`, `SpawnsOK`). For the
simulated clock it is enough that what was taken has left the heap (`SimOK`).
`ShutdownJoinsWhatItFound`: a timer a shutdown found has ended, or the shutdown still
holds the mutex and the timer is among the threads it waits for (`SilenceInv`); ended
threads do not start again. 
`DueIsTakenInOrder` is about the loop over the heap, turn by turn. What was taken comes no
later than anything still in the heap, except what was scheduled since (`TakenBehind`):
this is so because the top is the earliest, and it is what keeps the order from one call
of `process_pending_callbacks()` to the next, however the time is set. A call moves from
the batch to the calls made without changing their common order (`HeadPassed`). That
nothing due is left when the loop ends needs that a heap which is not empty has a top
(`EarliestExists`, from the library's well-foundedness of finite sets of numbers).

**MarketCacheProofs.** `LookupsFindTheNewest`: the noted timestamp is the newest
offered since the last clear (`NotedIsNewest`), and what is stored has the noted
timestamp; what is noted and not stored was first written by an update
(`StoredIsNoted`). `HistoriesAreRecent`: the invariant says what is in each slot of a ring,
counted back from the head (`Nth`, `Holds`): a push shifts every slot by one and puts
the new value first (`PushShifts`), a value that is pushed is newer than all before it
(by `NotedIsNewest`), and what `recent()` reads is those slots in reverse
(`RecentIsNth`). Keys with a two-step update are excluded by the property.

**PartsProofs.** The rate limiter: `NeverOverBudget` says nothing of what is still in the
bucket, so the invariant counts the tokens in hand with those spent: up to the last
refill, if that came after the mark, they are together no more than a full bucket and
what flowed in between the two, and otherwise nothing was spent (`InHand`).

The order book: `BookImplementsDepth`. The invariant is that a side is in order, the best
first and no tick twice (`BookInv`). Two prices mean one tick if and only if they are
less than `Tol` apart (`OneTick`, the only use of `GridAssumption`'s arithmetic), so
`remove_level()` takes the one level of its tick and no other (`RemoveOK`), for the
ranks of the places kept are the places of the new vector (`Ranks`,
`LevelsAtPlaces`); the levels ahead of a new one are a beginning of the vector
(`Beginning`), so `insert_level()` keeps the order (`InsertOK`). In a book in order
the depth at a tick is the size of its one level (`DepthAtLevel`), and each delta maps to a
step of `PriceLevels`.

`QueriesAreTrusted` is what the queries make of that order; with it the statistics are those
of the levels (`StatsOfLevels`). For `get_volume_at_level()` and `validate()` it is
enough that the levels not behind a price are a beginning of the vector
(`VolumesAreTrue`, `OnlyCrossedIsInvalid`). `calculate_vwap()` needs induction over the
levels, which is had from a least counterexample (`FirstOf`, `UpTo`; `Carried` says
that a recursive function exists). Before each level the loop has taken all of the
levels so far or all that was asked for (`FillsUp`), hence never less than
another way to fill the same quantity takes from them; and who has more of what is
cheaper first pays no more in the end (`CheapFirst`, `FillIsBest`). In a book that is
not crossed every level of a side lies on its side of mid, hence so does what is paid
for any of them (`NoGainOnMid`).

**DashboardServerProofs.** `OneWriteAtATimeHolds`: unless `on_accept()` is met by a
broadcast, at most one of three is busy with a session's queue, the io thread between two
writes, the broadcast thread, or a write under way, and `writing_` keeps the broadcast
out in the first and the last case (`OneWriter`); before its handshake ends nobody has
written to a session (`UnbornIsQuiet`), and while it is greeted only the io thread does
(`Greeted`). `OpenIsRegisteredHolds`: only a broadcast erases, and only who is
not open.

**Only model-checked.** All liveness properties (fairness and `ENABLED` are beyond
the prover). The
invariants of all proofs were checked by TLC on small instances before they were proved.

## 8. What is not modelled

- Request signing, listen keys and their keepalive, JSON, TLS and the synchronous
  REST requests of both clients are input and output.
- The bus's `request()` and its handlers: one call on the caller's thread that touches
  nothing else. The data requests of actor and data engine are such calls.
- The choice between several clients of a venue, and positions, which are stubs in
  the execution engine.
- Component lifecycle beyond the data engine's start and stop: the program calls all
  its operations on one thread, before and after the bus runs; the other hooks
  register handlers or log.
- The metrics collector is a set of atomic counters; the web dashboard shows them.
- Of the dashboard server: `start()` itself (a `stop()` from a signal handler may come
  during it), and HTTP keep-alive.
- The domain model: values and names without behaviour; what orders and levels do is
  part of `OrderFlow` and `OrderBookLevels`. `OrderBook::update_level()` is called by nobody.
