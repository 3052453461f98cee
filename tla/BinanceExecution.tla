-------------------------- MODULE BinanceExecution --------------------------
(***************************************************************************)
(* The Binance execution client (binance_execution_client.cpp) and the     *)
(* exchange it talks to.  Every order goes out on a thread of its own      *)
(* (REST), what happens to it comes back twice: as the answer of that      *)
(* thread and as reports of the user data stream (WebSocket).  Both end as *)
(* events for ExecEngine.process on the message bus.                       *)
(***************************************************************************)
EXTENDS Naturals, Sequences

CONSTANTS
  Orders,
  Qty,          \* the quantity of an order, in lots
  Instant,      \* the orders the exchange may fill while it accepts them
  Faults,       \* what may happen besides: "drop", "lostPost", "lostAnswer",
                \* "reject", "expire", "disconnect"
  BusCapacity   \* MessageBusConfig::max_queue_size

ASSUME QtyAssumption      == Qty \in Nat \ {0}
ASSUME InstantAssumption  == Instant \subseteq Orders
ASSUME CapacityAssumption == BusCapacity \in Nat \ {0}

VARIABLES
  bus,        \* the message queue, oldest first
  running, connected,
  ws,         \* the stream's thread: "off", "down", "dial" or "up" (in read)
  joining,    \* main is inside disconnect(), waiting for the threads
  tracked,    \* orders_: the client's own copy of each order it sent
  pending_orders,
  post,       \* the thread that posts each order
  deletes,    \* the threads that cancel it; those under way at once are one,
              \* as the exchange cancels an order once and the rest is logged
  exch,       \* the order at the exchange
  stream,     \* reports on their way to the client
  posts       \* history: how often each order was posted

connVars   == <<running, connected, joining>>
sentVars   == <<tracked, post, posts>>
clientVars == <<connVars, ws, sentVars, pending_orders, deletes, exch, stream>>

EventTypes == {"Submitted", "Accepted", "Rejected", "Canceled", "Filled", "Denied"}
PostStates == {"none", "out", "accepted", "filled", "fill", "refused", "failed", "done"}
NewOrder   == [status |-> "INITIALIZED", filled |-> 0]
Live(o)    == exch[o].state = "live"

Event(type, o, n) == [to |-> "process", type |-> type, order |-> o, qty |-> n]

(* MessageBus::send(): a message that finds the queue full is dropped.      *)
Post(b, msg) == IF Len(b) < BusCapacity THEN Append(b, msg) ELSE b

Emit(type, o, n) == bus' = Post(bus, Event(type, o, n))

ClientInit ==
  /\ bus = <<>> /\ running = FALSE /\ connected = FALSE /\ ws = "off"
  /\ joining = FALSE
  /\ tracked = [o \in {} |-> NewOrder] /\ pending_orders = <<>>
  /\ post = [o \in Orders |-> "none"] /\ deletes = [o \in Orders |-> "none"]
  /\ exch = [o \in Orders |-> [state |-> "none", done |-> 0]]
  /\ stream = <<>> /\ posts = [o \in Orders |-> 0]

-----------------------------------------------------------------------------
(* What the execution engine calls, on the thread that runs the bus.        *)

(* submit_order_internal() for a set of orders: track a copy, post it.      *)
SendOrders(os) ==
  /\ tracked' = [o \in DOMAIN tracked \cup os |->
                   IF o \in os THEN NewOrder ELSE tracked[o]]
  /\ post'  = [o \in Orders |-> IF o \in os THEN "out" ELSE post[o]]
  /\ posts' = [o \in Orders |-> IF o \in os THEN posts[o] + 1 ELSE posts[o]]

\* Mutant: only a buffered order is announced.
SubmitOrderSilent(o, b) ==
  /\ bus' = IF connected THEN b ELSE Post(b, Event("Submitted", o, 0))
  /\ IF connected
     THEN SendOrders({o}) /\ UNCHANGED pending_orders
     ELSE pending_orders' = Append(pending_orders, o) /\ UNCHANGED sentVars
  /\ UNCHANGED <<connVars, ws, deletes, exch, stream>>

(* submit_order(): emits OrderSubmitted behind the messages b, then buffers *)
(* or sends.                                                                *)
SubmitOrder(o, b) ==
  /\ bus' = Post(b, Event("Submitted", o, 0))
  /\ IF connected
     THEN SendOrders({o}) /\ UNCHANGED pending_orders
     ELSE pending_orders' = Append(pending_orders, o) /\ UNCHANGED sentVars
  /\ UNCHANGED <<connVars, ws, deletes, exch, stream>>

(* cancel_order() for a set of orders: a thread for each request.           *)
RequestCancels(os) ==
  deletes' = [o \in Orders |->
                IF o \in os /\ deletes[o] = "none" THEN "out" ELSE deletes[o]]

CancelOrders(os, b) ==
  /\ bus' = b /\ RequestCancels(os)
  /\ UNCHANGED <<connVars, ws, sentVars, pending_orders, exch, stream>>

-----------------------------------------------------------------------------
(* connect(), disconnect() and the thread of the user data stream.          *)

Connect ==
  /\ ~running /\ ~joining
  /\ running' = TRUE /\ connected' = TRUE /\ ws' = "down"
  /\ UNCHANGED <<bus, joining, sentVars, pending_orders, deletes, exch, stream>>

\* Mutant: the reconnect loop does not look at running_.
StreamDialAlways ==
  /\ ws = "down" /\ ws' = "dial"
  /\ UNCHANGED <<bus, connVars, sentVars, pending_orders, deletes, exch, stream>>

StreamDial ==
  /\ ws = "down" /\ running
  /\ ws' = "dial"
  /\ UNCHANGED <<bus, connVars, sentVars, pending_orders, deletes, exch, stream>>

\* Mutant: what was buffered is sent and stays buffered.
StreamUpKeeps ==
  /\ ws = "dial" /\ ws' = IF running THEN "up" ELSE "down"
  /\ SendOrders({pending_orders[i] : i \in DOMAIN pending_orders})
  /\ UNCHANGED <<bus, connVars, pending_orders, deletes, exch, stream>>

(* Connected, the thread flushes what was buffered before it reads; told to *)
(* stop while it dialled, it closes the stream again.                       *)
StreamUp ==
  /\ ws = "dial"
  /\ ws' = IF running THEN "up" ELSE "down"
  /\ SendOrders({pending_orders[i] : i \in DOMAIN pending_orders})
  /\ pending_orders' = <<>>
  /\ UNCHANGED <<bus, connVars, deletes, exch, stream>>

(* An exception there cancels every order ever sent; reports under way are  *)
(* gone.  Without keepalives the exchange ends the stream.                  *)
StreamError ==
  /\ ws \in {"dial", "up"}
  /\ "drop" \in Faults \/ ~running
  /\ ws' = "down" /\ stream' = <<>>
  /\ RequestCancels(DOMAIN tracked)
  /\ UNCHANGED <<bus, connVars, sentVars, pending_orders, exch>>

StreamExit ==
  /\ ws = "down" /\ ~running
  /\ ws' = "off"
  /\ UNCHANGED <<bus, connVars, sentVars, pending_orders, deletes, exch, stream>>

Disconnect ==
  /\ "disconnect" \in Faults /\ running /\ ~joining
  /\ running' = FALSE /\ connected' = FALSE /\ joining' = TRUE
  /\ UNCHANGED <<bus, ws, sentVars, pending_orders, deletes, exch, stream>>

Joined ==
  /\ joining /\ ws = "off"
  /\ \A o \in Orders : post[o] \in {"none", "done"} /\ deletes[o] = "none"
  /\ joining' = FALSE
  /\ UNCHANGED <<bus, running, connected, ws, sentVars, pending_orders, deletes, exch,
                 stream>>

-----------------------------------------------------------------------------
(* process_execution_report(): a report about an order that is tracked      *)
(* becomes an event; a stream that was told to stop ends after one report.  *)

ReportEvent(r) ==
  CASE r.type = "NEW"      -> Event("Accepted", r.order, 0)
    [] r.type = "TRADE"    -> Event("Filled", r.order, r.qty)
    [] r.type = "REJECTED" -> Event("Rejected", r.order, 0)
    [] r.type \in {"CANCELED", "EXPIRED"} -> Event("Canceled", r.order, 0)

\* Mutant: the buffer is not consumed.
ReadReportAgain ==
  /\ ws = "up" /\ stream # <<>>
  /\ bus' = IF Head(stream).order \in DOMAIN tracked
            THEN Post(bus, ReportEvent(Head(stream))) ELSE bus
  /\ stream' = stream
  /\ UNCHANGED <<ws, connVars, sentVars, pending_orders, deletes, exch>>

ReadReport ==
  /\ ws = "up" /\ stream # <<>>
  /\ bus' = IF Head(stream).order \in DOMAIN tracked
            THEN Post(bus, ReportEvent(Head(stream))) ELSE bus
  /\ stream' = IF running THEN Tail(stream) ELSE <<>>
  /\ ws'     = IF running THEN "up" ELSE "down"
  /\ UNCHANGED <<connVars, sentVars, pending_orders, deletes, exch>>

(* process_order_response(): an accepted order is announced, and announced  *)
(* as filled when the answer says so; an error answer and a failure of the  *)
(* request are both announced as a rejection.                               *)
AnswerPost(o) ==
  /\ \/ post[o] = "accepted" /\ Emit("Accepted", o, 0)
        /\ post' = [post EXCEPT ![o] = "done"]
     \/ post[o] = "filled" /\ Emit("Accepted", o, 0)
        /\ post' = [post EXCEPT ![o] = "fill"]
     \/ post[o] = "fill" /\ Emit("Filled", o, Qty)
        /\ post' = [post EXCEPT ![o] = "done"]
     \/ post[o] \in {"refused", "failed"} /\ Emit("Rejected", o, 0)
        /\ post' = [post EXCEPT ![o] = "done"]
  /\ UNCHANGED <<connVars, ws, tracked, posts, pending_orders, deletes, exch, stream>>

(* process_cancel_response(): only a successful answer is announced.        *)
AnswerDelete(o) ==
  /\ deletes[o] = "canceled"
  /\ deletes' = [deletes EXCEPT ![o] = "none"]
  /\ bus' = IF o \in DOMAIN tracked THEN Post(bus, Event("Canceled", o, 0)) ELSE bus
  /\ UNCHANGED <<connVars, ws, sentVars, pending_orders, exch, stream>>

-----------------------------------------------------------------------------
(* The exchange, as the client sees it: it answers each request once, fills *)
(* and cancels live orders, and reports to a stream that is up.             *)

Report(type, o, n) == [type |-> type, order |-> o, qty |-> n]
Reports(rs)  == stream' = IF ws = "up" THEN stream \o rs ELSE stream
ExchangeOnly == UNCHANGED <<bus, connVars, ws, tracked, posts, pending_orders>>

(* The answer to an order that was taken may get lost on its way back.      *)
Answered(o, answer) ==
  \/ post' = [post EXCEPT ![o] = answer]
  \/ "lostAnswer" \in Faults /\ post' = [post EXCEPT ![o] = "failed"]

ExchangeAccept(o) ==
  /\ post[o] = "out"
  /\ exch' = [exch EXCEPT ![o].state = "live"]
  /\ Answered(o, "accepted")
  /\ Reports(<<Report("NEW", o, 0)>>)
  /\ ExchangeOnly /\ UNCHANGED deletes

ExchangeFillAtOnce(o) ==
  /\ post[o] = "out" /\ o \in Instant
  /\ exch' = [exch EXCEPT ![o] = [state |-> "filled", done |-> Qty]]
  /\ Answered(o, "filled")
  /\ Reports(<<Report("NEW", o, 0), Report("TRADE", o, Qty)>>)
  /\ ExchangeOnly /\ UNCHANGED deletes

ExchangeRefuse(o) ==
  /\ post[o] = "out" /\ "reject" \in Faults
  /\ exch' = [exch EXCEPT ![o].state = "refused"]
  /\ post' = [post EXCEPT ![o] = "refused"]
  /\ Reports(<<>>) \/ Reports(<<Report("REJECTED", o, 0)>>)
  /\ ExchangeOnly /\ UNCHANGED deletes

PostLost(o) ==
  /\ post[o] = "out" /\ "lostPost" \in Faults
  /\ post' = [post EXCEPT ![o] = "failed"]
  /\ ExchangeOnly /\ UNCHANGED <<deletes, exch, stream>>

ExchangeTrade(o, n) ==
  /\ Live(o) /\ exch[o].done + n <= Qty
  /\ exch' = [exch EXCEPT ![o] = [state |-> IF @.done + n = Qty THEN "filled" ELSE "live",
                                  done  |-> @.done + n]]
  /\ Reports(<<Report("TRADE", o, n)>>)
  /\ ExchangeOnly /\ UNCHANGED <<post, deletes>>

ExchangeExpire(o) ==
  /\ "expire" \in Faults /\ Live(o)
  /\ exch' = [exch EXCEPT ![o].state = "canceled"]
  /\ Reports(<<Report("EXPIRED", o, 0)>>)
  /\ ExchangeOnly /\ UNCHANGED <<post, deletes>>

ExchangeCancel(o) ==
  /\ deletes[o] = "out" /\ Live(o)
  /\ exch' = [exch EXCEPT ![o].state = "canceled"]
  /\ deletes' = [deletes EXCEPT ![o] = "canceled"]
  /\ Reports(<<Report("CANCELED", o, 0)>>)
  /\ ExchangeOnly /\ UNCHANGED post

\* Mutant: an error answer to a cancel request is taken for a success.
CancelFailsAnnounced(o) ==
  /\ deletes[o] = "out" /\ (~Live(o) \/ "lostPost" \in Faults)
  /\ deletes' = [deletes EXCEPT ![o] = "canceled"]
  /\ ExchangeOnly /\ UNCHANGED <<post, exch, stream>>

(* Nothing to cancel, or the request failed: the client only logs it.       *)
CancelFails(o) ==
  /\ deletes[o] = "out" /\ (~Live(o) \/ "lostPost" \in Faults)
  /\ deletes' = [deletes EXCEPT ![o] = "none"]
  /\ ExchangeOnly /\ UNCHANGED <<post, exch, stream>>

-----------------------------------------------------------------------------
StreamStep == StreamDial \/ StreamUp \/ StreamExit \/ ReadReport

(* The exchange owes an answer to every request, and no more than that.     *)
AnswersOrder(o) ==
  ExchangeAccept(o) \/ ExchangeFillAtOnce(o) \/ ExchangeRefuse(o) \/ PostLost(o)

AnswersCancel(o) == ExchangeCancel(o) \/ CancelFails(o)

ExchangeStep(o) ==
  \/ AnswersOrder(o) \/ AnswersCancel(o) \/ ExchangeExpire(o)
  \/ \E n \in 1..Qty : ExchangeTrade(o, n)
=============================================================================
