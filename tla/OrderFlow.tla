------------------------------ MODULE OrderFlow ------------------------------
(***************************************************************************)
(* An order's way through the program: Strategy -> RiskEngine ->           *)
(* ExecutionEngine -> BinanceExecutionClient, all by messages of one bus,  *)
(* and the events' way back.  One thread runs the bus and calls the        *)
(* handlers, each a single step here: none sends more than one message.    *)
(***************************************************************************)
EXTENDS BinanceExecution, FiniteSets

CONSTANTS
  Direct,         \* orders the program may hand to the client itself
  Lists,          \* the order lists a strategy may submit
  BypassChoices,  \* RiskEngineConfig::bypass_risk
  StreamFirst,    \* the program submits only once the stream is up, as the
                  \* two seconds of examples/binance_place_order.cpp intend
  MaxCommands,    \* bound: commands that are not submissions
  MaxSessions     \* bound: how often the program connects

ASSUME ProgramAssumption ==
  /\ Direct \subseteq Orders /\ StreamFirst \in BOOLEAN /\ MaxCommands \in Nat
  /\ MaxSessions \in Nat
  /\ BypassChoices \subseteq BOOLEAN
  /\ \A list \in Lists :
       list \in Seq(Orders) /\ \A i, j \in DOMAIN list : list[i] = list[j] => i = j

VARIABLES
  bypass_risk,
  orders,     \* Strategy::orders_
  cached,     \* the orders of the cache, by status
  latest,     \* latest_order_ts_: every copy of an order has the same timestamp
  fresh,      \* orders the program has not submitted yet
  listing,    \* what is left of a submit_order_list() under way
  commands, sessions,
  told        \* history: the events the strategy was told of each order

flowVars == <<bypass_risk, orders, cached, latest, fresh, listing, commands, sessions,
              told>>
vars == <<bus, clientVars, flowVars>>

Init ==
  /\ ClientInit
  /\ bypass_risk \in BypassChoices
  /\ orders = {} /\ cached = [o \in {} |-> "INITIALIZED"] /\ latest = {}
  /\ fresh = Orders /\ listing = <<>> /\ commands = 0 /\ sessions = 0
  /\ told = [o \in Orders |-> {}]

-----------------------------------------------------------------------------
(* The program and its strategy, on the thread that runs the bus.           *)

Idle  == ~joining /\ listing = <<>>
Ready == StreamFirst => ws = "up"

Command(to, type, o) == [to |-> to, type |-> type, order |-> o, qty |-> 0]

(* submit_order(), which submit_market_order() and submit_limit_order() end *)
(* in; a list is submitted one by one while other threads use the bus.      *)
Submit(o) ==
  /\ orders' = orders \cup {o} /\ fresh' = fresh \ {o}
  /\ bus' = Post(bus, Command("risk", "Submit", o))
  /\ UNCHANGED <<clientVars, bypass_risk, cached, latest, commands, sessions,
                 told>>

SubmitOne(o) ==
  Idle /\ Ready /\ o \in fresh /\ Submit(o) /\ UNCHANGED listing

SubmitList(list) ==
  /\ Idle /\ Ready /\ \A i \in DOMAIN list : list[i] \in fresh
  /\ listing' = list
  /\ UNCHANGED <<bus, clientVars, bypass_risk, orders, cached, latest, fresh,
                 commands, sessions,
                 told>>

SubmitNext ==
  listing # <<>> /\ Submit(Head(listing)) /\ listing' = Tail(listing)

(* cancel_order(), modify_order() and cancel_all_orders() of an order the   *)
(* strategy holds.                                                          *)
Send(type, o) ==
  /\ Idle /\ o \in orders /\ commands < MaxCommands
  /\ bus' = Post(bus, Command("risk", type, o))
  /\ commands' = commands + 1
  /\ UNCHANGED <<clientVars, bypass_risk, orders, cached, latest, fresh, listing, sessions,
                 told>>

(* The client's own interface: submit_order() and sync_open_orders().       *)
SubmitDirect(o) ==
  /\ Idle /\ o \in fresh \cap Direct
  /\ fresh' = fresh \ {o}
  /\ SubmitOrder(o, bus)
  /\ UNCHANGED <<bypass_risk, orders, cached, latest, listing, commands, sessions,
                 told>>

SyncOpenOrders ==
  /\ Idle /\ commands < MaxCommands
  /\ CancelOrders(DOMAIN tracked, bus)
  /\ commands' = commands + 1
  /\ UNCHANGED <<bypass_risk, orders, cached, latest, fresh, listing, sessions,
                 told>>

OpenSession ==
  /\ Idle /\ sessions < MaxSessions /\ Connect
  /\ sessions' = sessions + 1
  /\ UNCHANGED <<bypass_risk, orders, cached, latest, fresh, listing, commands, told>>

CloseSession == Idle /\ Disconnect /\ UNCHANGED flowVars

-----------------------------------------------------------------------------
(* RiskEngine::handle_execute(): with risk checks on, everything is denied; *)
(* of a denied order the execution engine gets a copy.                      *)
Serving(to) == Idle /\ bus # <<>> /\ Head(bus).to = to

\* Mutant: nobody is told of a denied order.
RiskDeniesSilently ==
  /\ Serving("risk")
  /\ bus' = IF bypass_risk THEN Post(Tail(bus), [Head(bus) EXCEPT !.to = "exec"])
            ELSE Tail(bus)
  /\ UNCHANGED <<clientVars, flowVars>>

RiskExecute ==
  /\ Serving("risk")
  /\ LET cmd == Head(bus) IN
       bus' = IF bypass_risk THEN Post(Tail(bus), [cmd EXCEPT !.to = "exec"])
              ELSE IF cmd.type = "Submit"
              THEN Post(Tail(bus), Event("Denied", cmd.order, 0))
              ELSE Tail(bus)
  /\ UNCHANGED <<clientVars, flowVars>>

(* ExecutionEngine::handle_execute(): the cache gets the order, the client  *)
(* too if it is connected; if not, the rejection goes to the topic as is.   *)
ExecSubmit ==
  /\ Serving("exec") /\ Head(bus).type = "Submit"
  /\ LET o == Head(bus).order IN
       /\ latest' = latest \cup {o}
       /\ cached' = IF o \in latest THEN cached
                    ELSE [p \in DOMAIN cached \cup {o} |->
                            IF p = o THEN "INITIALIZED" ELSE cached[p]]
       /\ IF connected THEN SubmitOrder(o, Tail(bus))
          ELSE /\ bus' = Post(Tail(bus), [Event("Rejected", o, 0) EXCEPT !.to = "topic"])
               /\ UNCHANGED clientVars
  /\ UNCHANGED <<bypass_risk, orders, fresh, listing, commands, sessions,
                 told>>

ExecCancel ==
  /\ Serving("exec") /\ Head(bus).type = "Cancel"
  /\ CancelOrders(IF connected THEN {Head(bus).order} ELSE {}, Tail(bus))
  /\ UNCHANGED flowVars

(* The client's modify_order() only logs; CancelAllOrders is no command the *)
(* engine knows.                                                            *)
ExecIgnore ==
  /\ Serving("exec") /\ Head(bus).type \in {"Modify", "CancelAll"}
  /\ bus' = Tail(bus)
  /\ UNCHANGED <<clientVars, flowVars>>

-----------------------------------------------------------------------------
(* ExecutionEngine::handle_process(): the event's order is the client's own *)
(* copy, but for OrderSubmitted and OrderDenied, which carry another one.   *)

StatusAfter(e) ==
  CASE e.type = "Accepted" -> "ACCEPTED"
    [] e.type = "Rejected" -> "REJECTED"
    [] e.type = "Canceled" -> "CANCELED"
    [] e.type = "Filled"   -> IF tracked[e.order].filled + e.qty >= Qty
                              THEN "FILLED" ELSE "PARTIALLY_FILLED"

\* Mutant: the last fill replaces the ones before it.
FilledAfterLast(e) == IF e.type = "Filled" THEN e.qty ELSE tracked[e.order].filled

FilledAfter(e) == tracked[e.order].filled + e.qty

OwnCopy(e) == e.type \in {"Accepted", "Rejected", "Canceled", "Filled"}

(* Cache::update_order(): never newer than what latest_order_ts_ has; of an *)
(* order the cache does not know, only the timestamp is kept.               *)
ProcessEvent ==
  /\ Serving("process")
  /\ LET e == Head(bus) IN
       /\ tracked' = IF OwnCopy(e)
                     THEN [tracked EXCEPT ![e.order] =
                             [status |-> StatusAfter(e), filled |-> FilledAfter(e)]]
                     ELSE tracked
       /\ latest' = latest \cup {e.order}
       /\ bus' = Post(Tail(bus), [e EXCEPT !.to = "topic"])
  /\ UNCHANGED <<connVars, ws, post, posts, pending_orders, deletes, exch, stream,
                 bypass_risk, orders, cached, fresh, listing, commands, sessions,
                 told>>

(* Strategy::on_event(), subscribed to "OrderEvent": an order that is over  *)
(* is forgotten.                                                            *)

\* Mutant: any fill ends an order.
OverAnyFill(e) == e.type \in {"Rejected", "Denied", "Canceled", "Filled"}

Over(e) ==
  \/ e.type \in {"Rejected", "Denied", "Canceled"}
  \/ e.type = "Filled" /\ tracked[e.order].status = "FILLED"

OnEvent ==
  /\ Serving("topic")
  /\ LET e == Head(bus) IN
       /\ told'   = [told EXCEPT ![e.order] = @ \cup {e.type}]
       /\ orders' = IF Over(e) THEN orders \ {e.order} ELSE orders
  /\ bus' = Tail(bus)
  /\ UNCHANGED <<clientVars, bypass_risk, cached, latest, fresh, listing, commands,
                 sessions>>

-----------------------------------------------------------------------------
ServeStep == RiskExecute \/ ExecSubmit \/ ExecCancel \/ ExecIgnore \/ ProcessEvent
             \/ OnEvent

ClientStep ==
  /\ \/ Joined \/ StreamError \/ StreamStep
     \/ \E o \in Orders : AnswerPost(o) \/ AnswerDelete(o) \/ ExchangeStep(o)
  /\ UNCHANGED flowVars

ProgramStep ==
  \/ \E o \in Orders : SubmitOne(o) \/ SubmitDirect(o)
                       \/ \E type \in {"Cancel", "Modify", "CancelAll"} : Send(type, o)
  \/ \E list \in Lists : SubmitList(list)
  \/ SubmitNext \/ SyncOpenOrders
  \/ OpenSession \/ CloseSession

Next == ProgramStep \/ ServeStep \/ ClientStep

(* The program keeps running the bus, threads go on, the exchange answers   *)
(* every request, and ends a stream nobody keeps alive.                     *)
Fairness ==
  /\ WF_vars(ServeStep) /\ WF_vars(SubmitNext)
  /\ WF_vars(Joined /\ UNCHANGED flowVars) /\ WF_vars(StreamStep /\ UNCHANGED flowVars)
  /\ WF_vars(~running /\ StreamError /\ UNCHANGED flowVars)
  /\ \A o \in Orders :
       /\ WF_vars(AnswerPost(o) /\ UNCHANGED flowVars)
       /\ WF_vars(AnswerDelete(o) /\ UNCHANGED flowVars)
       /\ WF_vars(AnswersOrder(o) /\ UNCHANGED flowVars)
       /\ WF_vars(AnswersCancel(o) /\ UNCHANGED flowVars)

Spec     == Init /\ [][Next]_vars
FairSpec == Spec /\ Fairness

-----------------------------------------------------------------------------
(* Every variable has its type, and every order a thread, a report or an    *)
(* event speaks of is one the client tracks.                                *)
OrderTypeOK ==
  /\ \A i \in DOMAIN bus :
       /\ bus[i].to \in {"risk", "exec", "process", "topic"}
       /\ bus[i].type \in EventTypes \cup {"Submit", "Cancel", "Modify", "CancelAll"}
       /\ bus[i].to = "process" /\ OwnCopy(bus[i]) => bus[i].order \in DOMAIN tracked
  /\ running \in BOOLEAN /\ connected \in BOOLEAN /\ joining \in BOOLEAN
  /\ ws \in {"off", "down", "dial", "up"}
  /\ DOMAIN tracked \subseteq Orders
  /\ \A o \in Orders :
       /\ post[o] \in PostStates /\ deletes[o] \in {"none", "out", "canceled"}
       /\ post[o] # "none" <=> o \in DOMAIN tracked
       /\ exch[o].done \in 0..Qty
  /\ \A i \in DOMAIN stream : stream[i].order \in DOMAIN tracked
  /\ orders \subseteq Orders /\ DOMAIN cached \subseteq latest

(* The quantity of the messages of s at the places I, lot by lot.           *)
Quantity(s, I) == Cardinality({lot \in I \X (1..Qty) : lot[2] <= s[lot[1]].qty})

(* What is on its way to the client's copy of an order.                     *)
FillsAt(o)  == {i \in DOMAIN bus : bus[i].to = "process" /\ bus[i].type = "Filled"
                                    /\ bus[i].order = o}
TradesAt(o) == {i \in DOMAIN stream : stream[i].type = "TRADE" /\ stream[i].order = o}

Counted(o) ==
  tracked[o].filled + Quantity(bus, FillsAt(o)) + Quantity(stream, TradesAt(o))

(* With nothing lost, the program's filled quantity of an order is what the *)
(* exchange executed, once what is under way has arrived: each fill counts, *)
(* and counts once, in whatever order threads deliver.                      *)
FillsConserved ==
  \A o \in DOMAIN tracked \ (Direct \cup Instant) : Counted(o) = exch[o].done

(* With faults, reports get lost, but never counted twice; only what the    *)
(* exchange fills as it accepts is, by the answer and by the report.        *)
FilledWithinExecuted ==
  \A o \in DOMAIN tracked \ Instant : Counted(o) <= exch[o].done

(* An order that is live at the exchange is one the strategy still holds.   *)
LiveIsKnown == \A o \in Orders \ Direct : Live(o) => o \in orders

(* The strategy hears Submitted before anything the exchange says of an     *)
(* order, although threads and the stream answer while the bus is behind.   *)
SubmittedIsFirst ==
  \A o \in Orders : told[o] \cap {"Accepted", "Filled", "Canceled"} # {}
                     => "Submitted" \in told[o]

(* No order goes out twice, flushed or not; one that was denied never does. *)
PostedAtMostOnce == \A o \in Orders : posts[o] <= IF "Denied" \in told[o] THEN 0 ELSE 1

(* Whoever hears that an order is canceled can rely on it.                  *)
CanceledIsCanceled ==
  \A o \in Orders : "Canceled" \in told[o] => exch[o].state = "canceled"

(* Every order a strategy submits reaches the exchange or is turned down.   *)
SubmissionIsSettled ==
  \A o \in Orders : o \in orders ~> \/ exch[o].state # "none"
                                     \/ told[o] \cap {"Rejected", "Denied"} # {}

(* disconnect() comes back: the threads it joins all end.                   *)
DisconnectReturns == joining ~> ~joining

-----------------------------------------------------------------------------
(* What comments and documents say, and the code does not do.               *)

(* README.md: the lifecycle of an order ends with Filled.                   *)
FilledIsFinal ==
  [][\A o \in DOMAIN tracked :
       tracked[o].status = "FILLED" => tracked'[o].status = "FILLED"]_vars
=============================================================================
