--------------------------- MODULE OrderFlowProofs ---------------------------
(***************************************************************************)
(* Theorems about OrderFlow and its BinanceExecution, for any orders,      *)
(* faults, queue length and number of commands and sessions.               *)
(***************************************************************************)
EXTENDS OrderFlow, SequenceTheorems, FiniteSetTheorems, TLAPS

CommandTypes == {"Submit", "Cancel", "Modify", "CancelAll"}
Message == [to : {"risk", "exec", "process", "topic"}, type : EventTypes \cup CommandTypes,
            order : Orders, qty : Nat]

ReportTypes == {"NEW", "TRADE", "REJECTED", "CANCELED", "EXPIRED"}
ReportSet   == [type : ReportTypes, order : Orders, qty : Nat]

ExchangeStates == {"none", "live", "filled", "canceled", "refused"}

(* What a queue holds, in whatever order.                                   *)
Held(s) == {s[i] : i \in DOMAIN s}

(* No two requests to submit the same order.                                *)
SubmitsOnce(b) ==
  \A i, j \in DOMAIN b :
    b[i].type = "Submit" /\ b[j].type = "Submit" /\ b[i].order = b[j].order => i = j

Submitting(b, o) == \E m \in Held(b) : m.type = "Submit" /\ m.order = o

-----------------------------------------------------------------------------
LEMMA AppendHolds ==
  ASSUME NEW S, NEW s \in Seq(S), NEW x \in S
  PROVE  /\ Append(s, x) \in Seq(S) /\ Held(Append(s, x)) = Held(s) \cup {x}
         /\ DOMAIN Append(s, x) = DOMAIN s \cup {Len(s) + 1} /\ Append(s, x)[Len(s) + 1] = x
         /\ \A i \in DOMAIN s : Append(s, x)[i] = s[i] /\ i # Len(s) + 1
<1>1. /\ Append(s, x) \in Seq(S) /\ Len(Append(s, x)) = Len(s) + 1
      /\ \A i \in 1..Len(s) : Append(s, x)[i] = s[i]
      /\ Append(s, x)[Len(s) + 1] = x
  BY AppendProperties
<1>2. DOMAIN Append(s, x) = 1..(Len(s) + 1) /\ DOMAIN s = 1..Len(s) /\ Len(s) \in Nat
  BY <1>1, LenProperties
<1>3. DOMAIN Append(s, x) = DOMAIN s \cup {Len(s) + 1} /\ \A i \in DOMAIN s : i # Len(s) + 1
  BY <1>2
<1>4. Held(Append(s, x)) = Held(s) \cup {x}
  BY <1>1, <1>2, <1>3 DEF Held
<1> QED BY <1>1, <1>2, <1>3, <1>4

LEMMA TailHolds ==
  ASSUME NEW S, NEW s \in Seq(S), s # <<>>
  PROVE  /\ Head(s) \in S /\ Head(s) \in Held(s) /\ 1 \in DOMAIN s /\ Head(s) = s[1]
         /\ Tail(s) \in Seq(S) /\ Held(Tail(s)) \subseteq Held(s)
         /\ \A i \in DOMAIN Tail(s) : i + 1 \in DOMAIN s /\ Tail(s)[i] = s[i + 1] /\ i \in Nat
                                      /\ i + 1 # 1
<1>1. /\ Head(s) \in S /\ Tail(s) \in Seq(S) /\ Len(Tail(s)) = Len(s) - 1 /\ Head(s) = s[1]
      /\ \A i \in 1..Len(Tail(s)) : Tail(s)[i] = s[i + 1]
  BY HeadTailProperties
<1>2. DOMAIN Tail(s) = 1..(Len(s) - 1) /\ DOMAIN s = 1..Len(s) /\ Len(s) \in Nat /\ Len(s) # 0
  BY <1>1, EmptySeq, LenProperties
<1>3. \A i \in DOMAIN Tail(s) : i + 1 \in DOMAIN s /\ Tail(s)[i] = s[i + 1] /\ i \in Nat
                                /\ i + 1 # 1
  BY <1>1, <1>2
<1>4. Held(Tail(s)) \subseteq Held(s)
  BY <1>3 DEF Held
<1>5. 1 \in DOMAIN s
  BY <1>2
<1> QED BY <1>1, <1>3, <1>4, <1>5 DEF Held

LEMMA ConcatHolds ==
  ASSUME NEW S, NEW s \in Seq(S), NEW t \in Seq(S)
  PROVE  s \o t \in Seq(S) /\ Held(s \o t) = Held(s) \cup Held(t)
<1>1. /\ s \o t \in Seq(S) /\ Len(s \o t) = Len(s) + Len(t)
      /\ \A i \in 1..(Len(s) + Len(t)) :
           (s \o t)[i] = IF i <= Len(s) THEN s[i] ELSE t[i - Len(s)]
  BY ConcatProperties
<1>2. /\ DOMAIN (s \o t) = 1..(Len(s) + Len(t)) /\ DOMAIN s = 1..Len(s) /\ DOMAIN t = 1..Len(t)
      /\ Len(s) \in Nat /\ Len(t) \in Nat
  BY <1>1, LenProperties
<1>3. ASSUME NEW i \in DOMAIN (s \o t) PROVE (s \o t)[i] \in Held(s) \cup Held(t)
  <2>1. CASE i <= Len(s)
    BY <1>1, <1>2, <2>1 DEF Held
  <2>2. CASE ~(i <= Len(s))
    <3>1. i - Len(s) \in DOMAIN t /\ (s \o t)[i] = t[i - Len(s)]
      BY <1>1, <1>2, <2>2
    <3> QED BY <3>1 DEF Held
  <2> QED BY <2>1, <2>2
<1>4. ASSUME NEW i \in DOMAIN s PROVE s[i] \in Held(s \o t)
  <2>1. i \in DOMAIN (s \o t) /\ (s \o t)[i] = s[i]
    BY <1>1, <1>2
  <2> QED BY <2>1 DEF Held
<1>5. ASSUME NEW i \in DOMAIN t PROVE t[i] \in Held(s \o t)
  <2>1. i + Len(s) \in 1..(Len(s) + Len(t)) /\ ~(i + Len(s) <= Len(s)) /\ (i + Len(s)) - Len(s) = i
    BY <1>2
  <2>2. i + Len(s) \in DOMAIN (s \o t) /\ (s \o t)[i + Len(s)] = t[i]
    BY <1>1, <1>2, <2>1
  <2> QED BY <2>2 DEF Held
<1>6. Held(s \o t) \subseteq Held(s) \cup Held(t)
  BY <1>3 DEF Held
<1>7. Held(s) \subseteq Held(s \o t) /\ Held(t) \subseteq Held(s \o t)
  BY <1>4, <1>5 DEF Held
<1> QED BY <1>1, <1>6, <1>7

(* A message put into the queue, or dropped because it is full.             *)
LEMMA PostHolds ==
  ASSUME NEW b \in Seq(Message), NEW m \in Message
  PROVE  /\ Post(b, m) \in Seq(Message) /\ Held(Post(b, m)) \subseteq Held(b) \cup {m}
         /\ SubmitsOnce(b) /\ (m.type = "Submit" => ~Submitting(b, m.order))
              => SubmitsOnce(Post(b, m))
<1>1. CASE Len(b) < BusCapacity
  <2> DEFINE c == Append(b, m)
  <2>1. /\ c \in Seq(Message) /\ Held(c) = Held(b) \cup {m}
        /\ DOMAIN c = DOMAIN b \cup {Len(b) + 1} /\ c[Len(b) + 1] = m
        /\ \A i \in DOMAIN b : c[i] = b[i] /\ i # Len(b) + 1
    BY AppendHolds
  <2> HIDE DEF c
  <2>2. ASSUME SubmitsOnce(b), m.type = "Submit" => ~Submitting(b, m.order)
        PROVE  SubmitsOnce(c)
    BY <2>1, <2>2 DEF SubmitsOnce, Submitting, Held
  <2> QED BY <1>1, <2>1, <2>2 DEF Post, c
<1>2. CASE ~(Len(b) < BusCapacity)
  BY <1>2 DEF Post
<1> QED BY <1>1, <1>2

LEMMA TailSubmits ==
  ASSUME NEW b \in Seq(Message), b # <<>>, SubmitsOnce(b)
  PROVE  /\ SubmitsOnce(Tail(b))
         /\ Head(b).type = "Submit" => ~Submitting(Tail(b), Head(b).order)
<1>1. /\ 1 \in DOMAIN b /\ Head(b) = b[1]
      /\ \A i \in DOMAIN Tail(b) : i + 1 \in DOMAIN b /\ Tail(b)[i] = b[i + 1] /\ i \in Nat
                                   /\ i + 1 # 1
  BY TailHolds
<1>2. SubmitsOnce(Tail(b))
  <2> SUFFICES ASSUME NEW i \in DOMAIN Tail(b), NEW j \in DOMAIN Tail(b),
                      Tail(b)[i].type = "Submit", Tail(b)[j].type = "Submit",
                      Tail(b)[i].order = Tail(b)[j].order
               PROVE  i = j
    BY DEF SubmitsOnce
  <2>1. i + 1 = j + 1
    BY <1>1 DEF SubmitsOnce
  <2> QED BY <1>1, <2>1
<1>3. ASSUME Head(b).type = "Submit", NEW i \in DOMAIN Tail(b), Tail(b)[i].type = "Submit",
             Tail(b)[i].order = Head(b).order
      PROVE  FALSE
  BY <1>1, <1>3 DEF SubmitsOnce
<1> QED BY <1>2, <1>3 DEF Submitting, Held

-----------------------------------------------------------------------------
(* The types of the two queues, and who sends what to whom.                 *)
QueuesOK ==
  /\ bus \in Seq(Message) /\ stream \in Seq(ReportSet)
  /\ \A m \in Held(bus) :
       /\ m.to \in {"risk", "exec"} => m.type \in CommandTypes
       /\ m.to \in {"process", "topic"} => m.type \in EventTypes

StatesOK ==
  /\ pending_orders \in Seq(Orders) /\ listing \in Seq(Orders) /\ fresh \subseteq Orders
  /\ post \in [Orders -> PostStates] /\ posts \in [Orders -> Nat]
  /\ deletes \in [Orders -> {"none", "out", "canceled"}]
  /\ exch \in [Orders -> [state : ExchangeStates, done : 0..Qty]]
  /\ told \in [Orders -> SUBSET EventTypes]

(* A message whose receiver and type fit.                                   *)
Fits(m) ==
  /\ m \in Message
  /\ m.to \in {"risk", "exec"} => m.type \in CommandTypes
  /\ m.to \in {"process", "topic"} => m.type \in EventTypes

LEMMA EventFits ==
  ASSUME NEW o \in Orders, NEW type \in EventTypes, NEW n \in Nat
  PROVE  Fits(Event(type, o, n)) /\ Event(type, o, n).type = type
         /\ Event(type, o, n).order = o /\ Event(type, o, n).to = "process"
  BY DEF Event, Fits, Message

LEMMA ReportEventFits ==
  ASSUME NEW r \in ReportSet
  PROVE  /\ Fits(ReportEvent(r)) /\ ReportEvent(r).order = r.order
         /\ ReportEvent(r).to = "process"
         /\ ReportEvent(r).type \in {"Accepted", "Rejected", "Canceled", "Filled"}
         /\ ReportEvent(r).type = "Canceled" => r.type \in {"CANCELED", "EXPIRED"}
<1>1. r.type \in ReportTypes /\ r.order \in Orders /\ r.qty \in Nat
  BY DEF ReportSet
<1>2. CASE r.type = "NEW"
  BY <1>1, <1>2 DEF ReportEvent, Event, Fits, Message, EventTypes, CommandTypes
<1>3. CASE r.type = "TRADE"
  BY <1>1, <1>3 DEF ReportEvent, Event, Fits, Message, EventTypes, CommandTypes
<1>4. CASE r.type = "REJECTED"
  BY <1>1, <1>4 DEF ReportEvent, Event, Fits, Message, EventTypes, CommandTypes
<1>5. CASE r.type \in {"CANCELED", "EXPIRED"}
  BY <1>1, <1>5 DEF ReportEvent, Event, Fits, Message, EventTypes, CommandTypes
<1> QED BY <1>1, <1>2, <1>3, <1>4, <1>5 DEF ReportTypes

(* How one step changes the bus: a message is put into it, one is taken     *)
(* from it, or one taken and its answer put.                                *)
BusGets(m)     == Fits(m) /\ bus' = Post(bus, m)
BusLoses       == bus # <<>> /\ bus' = Tail(bus)
BusAnswers(m)  == bus # <<>> /\ Fits(m) /\ bus' = Post(Tail(bus), m)

LEMMA BusStep ==
  ASSUME QueuesOK
  PROVE  /\ \A m : BusGets(m) =>
              /\ (bus \in Seq(Message))' /\ Held(bus)' \subseteq Held(bus) \cup {m}
              /\ \A x \in Held(bus)' : Fits(x)
         /\ BusLoses =>
              /\ (bus \in Seq(Message))' /\ Held(bus)' \subseteq Held(bus)
              /\ \A x \in Held(bus)' : Fits(x)
         /\ \A m : BusAnswers(m) =>
              /\ (bus \in Seq(Message))' /\ Held(bus)' \subseteq Held(bus) \cup {m}
              /\ \A x \in Held(bus)' : Fits(x)
         /\ \A x \in Held(bus) : Fits(x)
<1>1. bus \in Seq(Message) /\ \A x \in Held(bus) : Fits(x)
  <2>1. \A i \in DOMAIN bus : bus[i] \in Message
    BY ElementOfSeq, LenProperties DEF QueuesOK
  <2> QED BY <2>1 DEF QueuesOK, Fits, Held
<1>2. ASSUME NEW m, BusGets(m)
      PROVE  bus' \in Seq(Message) /\ Held(bus') \subseteq Held(bus) \cup {m} /\ Fits(m)
  BY <1>1, <1>2, PostHolds DEF BusGets, Fits
<1>3. ASSUME BusLoses PROVE bus' \in Seq(Message) /\ Held(bus') \subseteq Held(bus)
  BY <1>1, <1>3, TailHolds DEF BusLoses
<1>4. ASSUME NEW m, BusAnswers(m)
      PROVE  bus' \in Seq(Message) /\ Held(bus') \subseteq Held(bus) \cup {m} /\ Fits(m)
  <2>1. Tail(bus) \in Seq(Message) /\ Held(Tail(bus)) \subseteq Held(bus)
    BY <1>1, <1>4, TailHolds DEF BusAnswers
  <2>2. Fits(m) /\ m \in Message /\ bus' = Post(Tail(bus), m)
    BY <1>4 DEF BusAnswers, Fits
  <2>3. Post(Tail(bus), m) \in Seq(Message)
        /\ Held(Post(Tail(bus), m)) \subseteq Held(Tail(bus)) \cup {m}
    BY <2>1, <2>2, PostHolds
  <2> QED BY <2>1, <2>2, <2>3
<1> QED BY <1>1, <1>2, <1>3, <1>4

(* What each step does to the bus.                                          *)
LEMMA BusEffects ==
  ASSUME QueuesOK, StatesOK
  PROVE  /\ \A o \in Orders : Submit(o) => BusGets(Command("risk", "Submit", o))
         /\ \A o \in Orders : \A type \in {"Cancel", "Modify", "CancelAll"} :
              Send(type, o) => BusGets(Command("risk", type, o))
         /\ \A o \in Orders : SubmitDirect(o) => BusGets(Event("Submitted", o, 0))
         /\ RiskExecute =>
              \/ BusLoses
              \/ bypass_risk /\ BusAnswers([Head(bus) EXCEPT !.to = "exec"])
              \/ Head(bus).type = "Submit" /\ BusAnswers(Event("Denied", Head(bus).order, 0))
         /\ ExecSubmit =>
              \/ connected /\ BusAnswers(Event("Submitted", Head(bus).order, 0))
              \/ ~connected
                 /\ BusAnswers([Event("Rejected", Head(bus).order, 0) EXCEPT !.to = "topic"])
         /\ ExecCancel \/ ExecIgnore \/ OnEvent => BusLoses
         /\ ProcessEvent => BusAnswers([Head(bus) EXCEPT !.to = "topic"])
         /\ ReadReport => \/ bus' = bus
                          \/ Head(stream).order \in DOMAIN tracked
                             /\ BusGets(ReportEvent(Head(stream)))
         /\ \A o \in Orders : AnswerPost(o) =>
              \E type \in {"Accepted", "Filled", "Rejected"} : \E n \in {0, Qty} :
                BusGets(Event(type, o, n))
         /\ \A o \in Orders : AnswerDelete(o) =>
              \/ bus' = bus
              \/ o \in DOMAIN tracked /\ BusGets(Event("Canceled", o, 0))
<1> USE QtyAssumption
<1>1. \A o \in Orders : \A type \in CommandTypes : Fits(Command("risk", type, o))
  BY DEF Fits, Command, Message, CommandTypes
<1>2. bus # <<>> => Head(bus) \in Held(bus) /\ Fits(Head(bus)) /\ Head(bus).order \in Orders
  <2>1. bus # <<>> => Head(bus) \in Held(bus)
    BY TailHolds DEF QueuesOK
  <2> QED BY <2>1, BusStep DEF Fits, Message
<1>3. ASSUME NEW o \in Orders, Submit(o) PROVE BusGets(Command("risk", "Submit", o))
  BY <1>1, <1>3 DEF Submit, BusGets, CommandTypes
<1>4. ASSUME NEW o \in Orders, NEW type \in {"Cancel", "Modify", "CancelAll"}, Send(type, o)
      PROVE  BusGets(Command("risk", type, o))
  BY <1>1, <1>4 DEF Send, BusGets, CommandTypes
<1>5. ASSUME NEW o \in Orders, SubmitDirect(o) PROVE BusGets(Event("Submitted", o, 0))
  BY <1>5, EventFits DEF SubmitDirect, SubmitOrder, BusGets, EventTypes
<1>6. ASSUME RiskExecute
      PROVE  \/ BusLoses
             \/ bypass_risk /\ BusAnswers([Head(bus) EXCEPT !.to = "exec"])
             \/ Head(bus).type = "Submit" /\ BusAnswers(Event("Denied", Head(bus).order, 0))
  <2>1. bus # <<>> /\ Head(bus).to = "risk"
    BY <1>6 DEF RiskExecute, Serving
  <2>2. Fits([Head(bus) EXCEPT !.to = "exec"])
    BY <1>2, <2>1 DEF Fits, Message
  <2>3. Fits(Event("Denied", Head(bus).order, 0))
    BY <1>2, <2>1, EventFits DEF EventTypes
  <2> QED BY <1>6, <2>1, <2>2, <2>3 DEF RiskExecute, BusLoses, BusAnswers
<1>7. ASSUME ExecSubmit
      PROVE  \/ connected /\ BusAnswers(Event("Submitted", Head(bus).order, 0))
             \/ ~connected
                /\ BusAnswers([Event("Rejected", Head(bus).order, 0) EXCEPT !.to = "topic"])
  <2>1. bus # <<>>
    BY <1>7 DEF ExecSubmit, Serving
  <2>2. Fits(Event("Submitted", Head(bus).order, 0))
    BY <1>2, <2>1, EventFits DEF EventTypes
  <2>3. Fits([Event("Rejected", Head(bus).order, 0) EXCEPT !.to = "topic"])
    BY <1>2, <2>1 DEF EventTypes, Event, Fits, Message
  <2> QED BY <1>7, <2>1, <2>2, <2>3 DEF ExecSubmit, SubmitOrder, BusAnswers
<1>8. ExecCancel \/ ExecIgnore \/ OnEvent => BusLoses
  BY DEF ExecCancel, ExecIgnore, OnEvent, CancelOrders, Serving, BusLoses
<1>9. ProcessEvent => BusAnswers([Head(bus) EXCEPT !.to = "topic"])
  <2>1. ASSUME ProcessEvent
        PROVE  bus # <<>> /\ Head(bus).to = "process"
               /\ bus' = Post(Tail(bus), [Head(bus) EXCEPT !.to = "topic"])
    BY <2>1 DEF ProcessEvent, Serving
  <2>2. ASSUME ProcessEvent PROVE Fits([Head(bus) EXCEPT !.to = "topic"])
    BY <1>2, <2>1, <2>2 DEF Fits, Message
  <2> QED BY <2>1, <2>2 DEF BusAnswers
<1>10. ASSUME ReadReport
       PROVE  \/ bus' = bus
              \/ Head(stream).order \in DOMAIN tracked /\ BusGets(ReportEvent(Head(stream)))
  <2>1. Head(stream) \in ReportSet
    BY <1>10, TailHolds DEF ReadReport, QueuesOK
  <2> QED BY <1>10, <2>1, ReportEventFits DEF ReadReport, BusGets
<1>11. ASSUME NEW o \in Orders, AnswerPost(o)
       PROVE  \E type \in {"Accepted", "Filled", "Rejected"} : \E n \in {0, Qty} :
                BusGets(Event(type, o, n))
  <2>1. \A type \in {"Accepted", "Filled", "Rejected"} : \A n \in {0, Qty} :
          Fits(Event(type, o, n))
    BY EventFits DEF EventTypes
  <2> QED BY <1>11, <2>1 DEF AnswerPost, Emit, BusGets
<1>12. ASSUME NEW o \in Orders, AnswerDelete(o)
       PROVE  \/ bus' = bus
              \/ o \in DOMAIN tracked /\ BusGets(Event("Canceled", o, 0))
  BY <1>12, EventFits DEF AnswerDelete, BusGets, EventTypes
<1> QED BY <1>3, <1>4, <1>5, <1>6, <1>7, <1>8, <1>9, <1>10, <1>11, <1>12

LEMMA QueuesStep ==
  ASSUME QueuesOK, StatesOK, [Next]_vars
  PROVE  QueuesOK'
<1> DEFINE BusMoves == \/ bus' = bus \/ BusLoses
                       \/ \E m : BusGets(m) \/ BusAnswers(m)
           StreamMoves == \/ stream' = stream \/ stream' = <<>>
                          \/ stream # <<>> /\ stream' = Tail(stream)
                          \/ \E rs \in Seq(ReportSet) : stream' = stream \o rs
<1>1. BusMoves => (bus \in Seq(Message))' /\ \A m \in Held(bus)' : Fits(m)
  <2>1. CASE bus' = bus
    BY <2>1, BusStep DEF QueuesOK
  <2> QED BY <2>1, BusStep
<1>2. StreamMoves => (stream \in Seq(ReportSet))'
  <2>1. stream \in Seq(ReportSet) /\ <<>> \in Seq(ReportSet)
    BY DEF QueuesOK
  <2>2. ASSUME NEW rs \in Seq(ReportSet) PROVE stream \o rs \in Seq(ReportSet)
    BY <2>1, ConcatProperties
  <2>3. stream # <<>> => Tail(stream) \in Seq(ReportSet)
    BY <2>1, HeadTailProperties
  <2> QED BY <2>1, <2>2, <2>3
<1> SUFFICES BusMoves /\ StreamMoves
  BY <1>1, <1>2 DEF QueuesOK, Fits
<1> HIDE DEF BusMoves, StreamMoves
<1>3. ASSUME NEW o \in Orders, SubmitOne(o) PROVE BusMoves /\ StreamMoves
  BY <1>3, BusEffects DEF SubmitOne, Submit, clientVars, BusMoves, StreamMoves
<1>4. ASSUME NEW o \in Orders, SubmitDirect(o) PROVE BusMoves /\ StreamMoves
  BY <1>4, BusEffects DEF SubmitDirect, SubmitOrder, BusMoves, StreamMoves
<1>5. ASSUME NEW o \in Orders, NEW type \in {"Cancel", "Modify", "CancelAll"}, Send(type, o)
      PROVE  BusMoves /\ StreamMoves
  BY <1>5, BusEffects DEF Send, clientVars, BusMoves, StreamMoves
<1>6. CASE (\E list \in Lists : SubmitList(list)) \/ OpenSession \/ CloseSession
  BY <1>6 DEF SubmitList, OpenSession, CloseSession, Connect, Disconnect, clientVars,
              BusMoves, StreamMoves
<1>7. CASE SubmitNext
  <2>1. Head(listing) \in Orders
    BY <1>7, HeadTailProperties DEF SubmitNext, StatesOK
  <2> QED BY <1>7, <2>1, BusEffects DEF SubmitNext, Submit, clientVars, BusMoves, StreamMoves
<1>8. CASE SyncOpenOrders
  BY <1>8 DEF SyncOpenOrders, CancelOrders, BusMoves, StreamMoves
<1>9. CASE ServeStep
  <2>1. CASE RiskExecute
    BY <2>1, BusEffects DEF RiskExecute, clientVars, BusMoves, StreamMoves
  <2>2. CASE ExecSubmit
    BY <2>2, BusEffects DEF ExecSubmit, SubmitOrder, clientVars, BusMoves, StreamMoves
  <2>3. CASE ExecCancel \/ ExecIgnore \/ OnEvent
    BY <2>3, BusEffects DEF ExecCancel, ExecIgnore, OnEvent, CancelOrders, clientVars,
                            BusMoves, StreamMoves
  <2>4. CASE ProcessEvent
    BY <2>4, BusEffects DEF ProcessEvent, BusMoves, StreamMoves
  <2> QED BY <1>9, <2>1, <2>2, <2>3, <2>4 DEF ServeStep
<1>10. CASE Joined \/ StreamError \/ StreamDial \/ StreamUp \/ StreamExit
  BY <1>10 DEF Joined, StreamError, StreamDial, StreamUp, StreamExit, BusMoves, StreamMoves
<1>11. CASE ReadReport
  BY <1>11, BusEffects DEF ReadReport, BusMoves, StreamMoves
<1>12. ASSUME NEW o \in Orders, AnswerPost(o) \/ AnswerDelete(o) PROVE BusMoves /\ StreamMoves
  BY <1>12, BusEffects DEF AnswerPost, AnswerDelete, BusMoves, StreamMoves
<1>13. ASSUME NEW o \in Orders, ExchangeStep(o) PROVE BusMoves /\ StreamMoves
  <2>1. \A type \in ReportTypes : \A n \in 0..Qty : Report(type, o, n) \in ReportSet
    BY QtyAssumption DEF Report, ReportSet
  <2>2. \A type \in ReportTypes : \A n \in 0..Qty : <<Report(type, o, n)>> \in Seq(ReportSet)
    BY <2>1
  <2>3. <<Report("NEW", o, 0), Report("TRADE", o, Qty)>> \in Seq(ReportSet)
    BY <2>1, QtyAssumption DEF ReportTypes
  <2>4. 0 \in 0..Qty /\ (\A n \in 1..Qty : n \in 0..Qty) /\ <<>> \in Seq(ReportSet)
    BY QtyAssumption
  <2>5. ASSUME NEW rs \in Seq(ReportSet), Reports(rs) PROVE StreamMoves
    BY <2>5 DEF Reports, StreamMoves
  <2>6. bus' = bus => BusMoves
    BY DEF BusMoves
  <2>7. stream' = stream => StreamMoves
    BY DEF StreamMoves
  <2>8. CASE ExchangeAccept(o) \/ ExchangeFillAtOnce(o)
    BY <2>2, <2>3, <2>4, <2>5, <2>6, <2>8
    DEF ExchangeAccept, ExchangeFillAtOnce, ExchangeOnly, ReportTypes
  <2>9. CASE ExchangeRefuse(o)
    BY <2>2, <2>4, <2>5, <2>6, <2>9 DEF ExchangeRefuse, ExchangeOnly, ReportTypes
  <2>10. CASE PostLost(o) \/ CancelFails(o)
    BY <2>6, <2>7, <2>10 DEF PostLost, CancelFails, ExchangeOnly
  <2>11. CASE ExchangeExpire(o) \/ ExchangeCancel(o)
    BY <2>2, <2>4, <2>5, <2>6, <2>11
    DEF ExchangeExpire, ExchangeCancel, ExchangeOnly, ReportTypes
  <2>12. ASSUME NEW n \in 1..Qty, ExchangeTrade(o, n) PROVE BusMoves /\ StreamMoves
    BY <2>2, <2>4, <2>5, <2>6, <2>12 DEF ExchangeTrade, ExchangeOnly, ReportTypes
  <2> QED
    BY <1>13, <2>8, <2>9, <2>10, <2>11, <2>12 DEF ExchangeStep, AnswersOrder, AnswersCancel
<1>14. CASE UNCHANGED vars
  BY <1>14 DEF vars, clientVars, BusMoves, StreamMoves
<1> QED
  BY <1>3, <1>4, <1>5, <1>6, <1>7, <1>8, <1>9, <1>10, <1>11, <1>12, <1>13, <1>14
  DEF Next, ProgramStep, ClientStep, StreamStep

LEMMA HeadFits ==
  ASSUME QueuesOK, bus # <<>>
  PROVE  Head(bus) \in Held(bus) /\ Fits(Head(bus)) /\ Head(bus).order \in Orders
<1>1. Head(bus) \in Held(bus)
  BY TailHolds DEF QueuesOK
<1> QED BY <1>1, BusStep DEF Fits, Message

(* What sending a set of orders does to them.                               *)
LEMMA OrdersSent ==
  ASSUME StatesOK, NEW os, os \subseteq Orders, SendOrders(os)
  PROVE  /\ post' \in [Orders -> PostStates] /\ posts' \in [Orders -> Nat]
         /\ DOMAIN tracked' = DOMAIN tracked \cup os
         /\ \A o \in Orders : /\ post'[o]  = IF o \in os THEN "out" ELSE post[o]
                              /\ posts'[o] = IF o \in os THEN posts[o] + 1 ELSE posts[o]
  BY DEF SendOrders, StatesOK, PostStates

LEMMA StatesStep ==
  ASSUME QueuesOK, StatesOK, [Next]_vars
  PROVE  StatesOK'
<1> USE QtyAssumption
<1> USE DEF connVars, sentVars, clientVars, flowVars, vars
<1>1. ASSUME UNCHANGED <<pending_orders, listing, fresh, post, posts, deletes, exch, told>>
      PROVE  StatesOK'
  BY <1>1 DEF StatesOK
<1>2. ASSUME NEW o \in Orders, SubmitOne(o) PROVE StatesOK'
  BY <1>2 DEF SubmitOne, Submit, StatesOK
<1>3. ASSUME NEW o \in Orders, NEW b, SubmitOrder(o, b)
      PROVE  /\ pending_orders' \in Seq(Orders)
             /\ post' \in [Orders -> PostStates] /\ posts' \in [Orders -> Nat]
             /\ UNCHANGED <<deletes, exch>>
  <2>1. pending_orders \in Seq(Orders) /\ Append(pending_orders, o) \in Seq(Orders)
    BY AppendProperties DEF StatesOK
  <2>2. connected => post' \in [Orders -> PostStates] /\ posts' \in [Orders -> Nat]
    BY <1>3, OrdersSent DEF SubmitOrder
  <2> QED BY <1>3, <2>1, <2>2 DEF SubmitOrder, StatesOK
<1>4. ASSUME NEW o \in Orders, SubmitDirect(o) PROVE StatesOK'
  <2>1. SubmitOrder(o, bus) /\ UNCHANGED <<listing, told>> /\ fresh' \subseteq fresh
    BY <1>4 DEF SubmitDirect
  <2> QED BY <2>1, <1>3 DEF StatesOK
<1>5. ASSUME NEW o \in Orders, NEW type, Send(type, o) PROVE StatesOK'
  BY <1>1, <1>5 DEF Send
<1>6. ASSUME NEW list \in Lists, SubmitList(list) PROVE StatesOK'
  <2>1. list \in Seq(Orders)
    BY ProgramAssumption
  <2> QED BY <1>6, <2>1 DEF SubmitList, StatesOK
<1>7. CASE OpenSession \/ CloseSession
  BY <1>1, <1>7 DEF OpenSession, CloseSession, Connect, Disconnect
<1>8. CASE SubmitNext
  <2>1. Tail(listing) \in Seq(Orders)
    BY <1>8, HeadTailProperties DEF SubmitNext, StatesOK
  <2> QED BY <1>8, <2>1 DEF SubmitNext, Submit, StatesOK
<1>9. ASSUME NEW os, RequestCancels(os)
      PROVE  deletes' \in [Orders -> {"none", "out", "canceled"}]
  BY <1>9 DEF RequestCancels, StatesOK
<1>10. CASE SyncOpenOrders
  BY <1>9, <1>10 DEF SyncOpenOrders, CancelOrders, StatesOK
<1>11. CASE RiskExecute \/ ExecIgnore \/ ProcessEvent
  BY <1>1, <1>11 DEF RiskExecute, ExecIgnore, ProcessEvent
<1>12. CASE ExecSubmit
  <2>1. Head(bus).order \in Orders
    BY <1>12, HeadFits DEF ExecSubmit, Serving
  <2>2. CASE connected
    <3>1. SubmitOrder(Head(bus).order, Tail(bus)) /\ UNCHANGED <<listing, fresh, told>>
      BY <1>12, <2>2 DEF ExecSubmit
    <3> QED BY <1>3, <2>1, <3>1 DEF StatesOK
  <2>3. CASE ~connected
    BY <1>1, <1>12, <2>3 DEF ExecSubmit
  <2> QED BY <2>2, <2>3
<1>13. CASE ExecCancel
  BY <1>9, <1>13 DEF ExecCancel, CancelOrders, StatesOK
<1>14. CASE OnEvent
  <2>1. Head(bus).order \in Orders /\ Head(bus).type \in EventTypes
    BY <1>14, HeadFits DEF OnEvent, Serving, Fits
  <2>2. told' = [told EXCEPT ![Head(bus).order] = @ \cup {Head(bus).type}]
    BY <1>14 DEF OnEvent
  <2>3. told' \in [Orders -> SUBSET EventTypes]
    BY <2>1, <2>2 DEF StatesOK
  <2> QED BY <1>14, <2>3 DEF OnEvent, StatesOK
<1>15. UNCHANGED flowVars => UNCHANGED <<listing, fresh, told>>
  OBVIOUS
<1>16. ASSUME Joined \/ StreamDial \/ StreamExit \/ ReadReport, UNCHANGED flowVars
       PROVE  StatesOK'
  BY <1>1, <1>15, <1>16 DEF Joined, StreamDial, StreamExit, ReadReport
<1>17. ASSUME StreamError, UNCHANGED flowVars PROVE StatesOK'
  BY <1>9, <1>15, <1>17 DEF StreamError, StatesOK
<1>18. ASSUME StreamUp, UNCHANGED flowVars PROVE StatesOK'
  <2>1. {pending_orders[i] : i \in DOMAIN pending_orders} \subseteq Orders
    BY ElementOfSeq, LenProperties DEF StatesOK
  <2>2. post' \in [Orders -> PostStates] /\ posts' \in [Orders -> Nat]
        /\ pending_orders' = <<>> /\ UNCHANGED <<deletes, exch>>
    BY <1>18, <2>1, OrdersSent DEF StreamUp
  <2> QED BY <1>15, <1>18, <2>1, <2>2 DEF StreamUp, StatesOK
<1>19. ASSUME NEW o \in Orders, AnswerPost(o) \/ AnswerDelete(o), UNCHANGED flowVars
       PROVE  StatesOK'
  BY <1>15, <1>19 DEF AnswerPost, AnswerDelete, StatesOK, PostStates
<1>20. ASSUME NEW o \in Orders, UNCHANGED flowVars,
              ExchangeAccept(o) \/ ExchangeFillAtOnce(o) \/ ExchangeRefuse(o)
       PROVE  StatesOK'
  <2>1. CASE ExchangeAccept(o)
    <3>1. exch' \in [Orders -> [state : ExchangeStates, done : 0..Qty]]
      BY <2>1 DEF ExchangeAccept, StatesOK, ExchangeStates
    <3>2. post' \in [Orders -> PostStates]
      BY <2>1 DEF ExchangeAccept, Answered, StatesOK, PostStates
    <3>3. UNCHANGED <<posts, pending_orders, deletes>>
      BY <2>1 DEF ExchangeAccept, ExchangeOnly
    <3> QED BY <1>15, <1>20, <3>1, <3>2, <3>3 DEF StatesOK
  <2>2. CASE ExchangeFillAtOnce(o)
    <3>1. [state |-> "filled", done |-> Qty] \in [state : ExchangeStates, done : 0..Qty]
      BY DEF ExchangeStates
    <3>2. exch' \in [Orders -> [state : ExchangeStates, done : 0..Qty]]
      BY <2>2, <3>1 DEF ExchangeFillAtOnce, StatesOK
    <3>3. post' \in [Orders -> PostStates]
      BY <2>2 DEF ExchangeFillAtOnce, Answered, StatesOK, PostStates
    <3>4. UNCHANGED <<posts, pending_orders, deletes>>
      BY <2>2 DEF ExchangeFillAtOnce, ExchangeOnly
    <3> QED BY <1>15, <1>20, <3>2, <3>3, <3>4 DEF StatesOK
  <2>3. CASE ExchangeRefuse(o)
    BY <1>15, <1>20, <2>3 DEF ExchangeRefuse, ExchangeOnly, StatesOK, PostStates,
                              ExchangeStates
  <2> QED BY <1>20, <2>1, <2>2, <2>3
<1>21. ASSUME NEW o \in Orders, UNCHANGED flowVars,
              PostLost(o) \/ ExchangeExpire(o) \/ ExchangeCancel(o) \/ CancelFails(o)
       PROVE  StatesOK'
  <2>1. UNCHANGED <<posts, pending_orders>>
    BY <1>21 DEF PostLost, ExchangeExpire, ExchangeCancel, CancelFails, ExchangeOnly
  <2>2. CASE PostLost(o)
    BY <1>15, <1>21, <2>1, <2>2 DEF PostLost, StatesOK, PostStates
  <2>3. CASE ExchangeExpire(o)
    BY <1>15, <1>21, <2>1, <2>3 DEF ExchangeExpire, StatesOK, ExchangeStates
  <2>4. CASE ExchangeCancel(o)
    BY <1>15, <1>21, <2>1, <2>4 DEF ExchangeCancel, StatesOK, ExchangeStates
  <2>5. CASE CancelFails(o)
    BY <1>15, <1>21, <2>1, <2>5 DEF CancelFails, StatesOK
  <2> QED BY <1>21, <2>2, <2>3, <2>4, <2>5
<1>22. ASSUME NEW o \in Orders, UNCHANGED flowVars, NEW n \in 1..Qty, ExchangeTrade(o, n)
       PROVE  StatesOK'
  <2>1. exch[o].done + n \in 0..Qty /\ UNCHANGED <<post, posts, pending_orders, deletes>>
    BY <1>22 DEF ExchangeTrade, ExchangeOnly, StatesOK
  <2>2. exch' \in [Orders -> [state : ExchangeStates, done : 0..Qty]]
    BY <1>22, <2>1 DEF ExchangeTrade, StatesOK, ExchangeStates
  <2> QED BY <1>15, <1>22, <2>1, <2>2 DEF StatesOK
<1>23. CASE UNCHANGED vars
  BY <1>1, <1>23
<1> QED
  BY <1>2, <1>4, <1>5, <1>6, <1>7, <1>8, <1>10, <1>11, <1>12, <1>13, <1>14, <1>16, <1>17,
     <1>18, <1>19, <1>20, <1>21, <1>22, <1>23
  DEF Next, ProgramStep, ServeStep, ClientStep, StreamStep, ExchangeStep, AnswersOrder,
      AnswersCancel

-----------------------------------------------------------------------------
(* An order goes from the program to the exchange as a token: it is fresh,  *)
(* or a request on the bus, or buffered, or posted, or denied.  Only one    *)
(* that was never posted can be in one of the other places, and none is in  *)
(* two of them.                                                             *)
Buffered(o) == o \in Held(pending_orders)

DeniedOrder(o) ==
  "Denied" \in told[o] \/ \E m \in Held(bus) : m.type = "Denied" /\ m.order = o

Waiting(o) == o \in fresh \/ Submitting(bus, o) \/ Buffered(o)

OneToken(o) ==
  /\ posts[o] <= 1
  /\ posts[o] = 0 => post[o] = "none" /\ exch[o].state = "none"
  /\ post[o] = "out" => exch[o].state = "none"
  /\ Waiting(o) => posts[o] = 0 /\ ~DeniedOrder(o)
  /\ o \in fresh => ~Submitting(bus, o) /\ ~Buffered(o)
  /\ Submitting(bus, o) => ~Buffered(o)
  /\ DeniedOrder(o) => posts[o] = 0

ListInv ==
  /\ \A i \in DOMAIN listing : listing[i] \in fresh
  /\ \A i, j \in DOMAIN listing : listing[i] = listing[j] => i = j

TokenInv == SubmitsOnce(bus) /\ ListInv /\ \A o \in Orders : OneToken(o)

(* What the bus' three moves mean for requests.                             *)
LEMMA SubmitMoves ==
  ASSUME QueuesOK, SubmitsOnce(bus), NEW m
  PROVE  /\ BusGets(m) /\ (m.type = "Submit" => ~Submitting(bus, m.order))
              => SubmitsOnce(bus')
         /\ BusLoses => SubmitsOnce(bus')
         /\ BusAnswers(m) /\ (m.type = "Submit" => Head(bus).type = "Submit"
                                                   /\ m.order = Head(bus).order)
              => SubmitsOnce(bus')
         /\ BusAnswers(m) /\ Head(bus).type = "Submit" /\ m.type # "Submit"
              => ~Submitting(bus', Head(bus).order)
<1>1. bus \in Seq(Message)
  BY DEF QueuesOK
<1>2. ASSUME bus # <<>>
      PROVE  /\ Tail(bus) \in Seq(Message) /\ SubmitsOnce(Tail(bus))
             /\ Head(bus).type = "Submit" => ~Submitting(Tail(bus), Head(bus).order)
  BY <1>1, <1>2, TailHolds, TailSubmits
<1>3. ASSUME BusGets(m), m.type = "Submit" => ~Submitting(bus, m.order)
      PROVE  SubmitsOnce(bus')
  BY <1>1, <1>3, PostHolds DEF BusGets, Fits
<1>4. ASSUME BusAnswers(m)
      PROVE  /\ m \in Message /\ bus # <<>> /\ bus' = Post(Tail(bus), m)
             /\ Held(bus') \subseteq Held(Tail(bus)) \cup {m}
  BY <1>2, <1>4, PostHolds DEF BusAnswers, Fits
<1>5. ASSUME BusAnswers(m),
             m.type = "Submit" => Head(bus).type = "Submit" /\ m.order = Head(bus).order
      PROVE  SubmitsOnce(bus')
  <2>1. m.type = "Submit" => ~Submitting(Tail(bus), m.order)
    BY <1>2, <1>4, <1>5
  <2>2. Tail(bus) \in Seq(Message) /\ SubmitsOnce(Tail(bus)) /\ m \in Message
    BY <1>2, <1>4, <1>5
  <2>3. SubmitsOnce(Post(Tail(bus), m))
    BY <2>1, <2>2, PostHolds
  <2>4. bus' = Post(Tail(bus), m)
    BY <1>4, <1>5
  <2> QED BY <2>3, <2>4
<1>6. ASSUME BusAnswers(m), Head(bus).type = "Submit", m.type # "Submit"
      PROVE  ~Submitting(bus', Head(bus).order)
  BY <1>2, <1>4, <1>6 DEF Submitting
<1> QED BY <1>2, <1>3, <1>5, <1>6 DEF BusLoses

(* A step that leaves an order where it is, or takes it off the bus.        *)
LEMMA TokenRests ==
  ASSUME StatesOK, NEW o \in Orders, OneToken(o),
         posts' = posts, pending_orders' = pending_orders, fresh' = fresh,
         Submitting(bus', o) => Submitting(bus, o), DeniedOrder(o)' => DeniedOrder(o),
         exch' = exch, post'[o] = post[o] \/ (post[o] # "none" /\ post'[o] # "out")
  PROVE  OneToken(o)'
<1>1. posts[o] \in Nat
  BY DEF StatesOK
<1> QED BY <1>1 DEF OneToken, Waiting, Buffered

LEMMA TokenStep ==
  ASSUME QueuesOK, StatesOK, TokenInv, [Next]_vars
  PROVE  SubmitsOnce(bus') /\ \A o \in Orders : OneToken(o)'
<1> USE DEF connVars, sentVars, clientVars, flowVars, vars
<1> DEFINE Goal == SubmitsOnce(bus') /\ \A o \in Orders : OneToken(o)'
<1> SUFFICES Goal
  OBVIOUS
<1> HIDE DEF Goal
<1>1. /\ SubmitsOnce(bus) /\ \A o \in Orders : OneToken(o) /\ posts[o] \in Nat
      /\ \A x \in Held(bus) : Fits(x)
  BY BusStep DEF TokenInv, StatesOK
(* Steps that move no order towards the exchange.                           *)
<1>2. ASSUME SubmitsOnce(bus'), UNCHANGED <<posts, pending_orders, fresh, exch>>,
             \A o \in Orders : /\ Submitting(bus', o) => Submitting(bus, o)
                               /\ DeniedOrder(o)' => DeniedOrder(o)
                               /\ \/ post'[o] = post[o]
                                  \/ post[o] # "none" /\ post'[o] # "out"
      PROVE  Goal
  BY <1>1, <1>2, TokenRests DEF Goal
<1>3. ASSUME UNCHANGED <<bus, posts, pending_orders, fresh, exch, post, told>> PROVE Goal
  BY <1>1, <1>2, <1>3 DEF DeniedOrder
<1>4. ASSUME BusLoses, UNCHANGED <<posts, pending_orders, fresh, exch, post, told>> PROVE Goal
  <2>1. SubmitsOnce(bus') /\ Held(bus') \subseteq Held(bus)
    BY <1>1, <1>4, SubmitMoves, BusStep
  <2> QED BY <1>2, <1>4, <2>1 DEF DeniedOrder, Submitting
<1>5. ASSUME NEW m, BusGets(m), m.type \notin {"Submit", "Denied"},
             UNCHANGED <<posts, pending_orders, fresh, exch, told>>,
             \A o \in Orders : post'[o] = post[o] \/ (post[o] # "none" /\ post'[o] # "out")
      PROVE  Goal
  <2>1. SubmitsOnce(bus') /\ Held(bus') \subseteq Held(bus) \cup {m}
    BY <1>1, <1>5, SubmitMoves, BusStep
  <2> QED BY <1>2, <1>5, <2>1 DEF DeniedOrder, Submitting
<1>6. ASSUME UNCHANGED <<posts, pending_orders, fresh, exch, post, told>>,
             NEW place, BusAnswers([Head(bus) EXCEPT !.to = place])
      PROVE  Goal
  <2> DEFINE m == [Head(bus) EXCEPT !.to = place]
  <2>1. bus # <<>> /\ Head(bus) \in Held(bus) /\ Fits(Head(bus))
    BY <1>6, HeadFits DEF BusAnswers
  <2>2. m.type = Head(bus).type /\ m.order = Head(bus).order
    BY <2>1 DEF Fits, Message
  <2> HIDE DEF m
  <2>3. SubmitsOnce(bus') /\ Held(bus') \subseteq Held(bus) \cup {m}
    BY <1>1, <1>6, <2>2, SubmitMoves, BusStep DEF m
  <2> QED BY <1>2, <1>6, <2>1, <2>2, <2>3 DEF DeniedOrder, Submitting
(* A request is put on the bus: the order was fresh.                        *)
<1>7. ASSUME NEW p \in fresh, Submit(p) PROVE Goal
  <2> DEFINE m == Command("risk", "Submit", p)
  <2>1. /\ p \in Orders /\ BusGets(m) /\ m.type = "Submit" /\ m.order = p
        /\ fresh' = fresh \ {p}
        /\ UNCHANGED <<posts, pending_orders, exch, post, told>>
    BY <1>7, BusEffects DEF Submit, Command, StatesOK
  <2> HIDE DEF m
  <2>2. OneToken(p) /\ ~Submitting(bus, p)
    BY <1>1, <1>7, <2>1 DEF OneToken
  <2>3. SubmitsOnce(bus') /\ Held(bus') \subseteq Held(bus) \cup {m}
    BY <1>1, <2>1, <2>2, SubmitMoves, BusStep
  <2>4. \A o \in Orders : /\ DeniedOrder(o)' => DeniedOrder(o)
                          /\ o # p => (Submitting(bus', o) => Submitting(bus, o))
    BY <2>1, <2>3 DEF DeniedOrder, Submitting
  <2>5. ASSUME NEW o \in Orders PROVE OneToken(o)'
    <3>1. OneToken(o) /\ posts[o] \in Nat /\ posts' = posts /\ post' = post /\ exch' = exch
          /\ (DeniedOrder(o)' => DeniedOrder(o)) /\ (Buffered(o)' <=> Buffered(o))
      BY <1>1, <2>1, <2>4 DEF Buffered
    <3>2. CASE o = p
      BY <1>7, <2>1, <3>1, <3>2 DEF OneToken, Waiting
    <3>3. CASE o # p
      <4>1. (o \in fresh' <=> o \in fresh) /\ (Submitting(bus', o) => Submitting(bus, o))
        BY <2>1, <2>4, <3>3
      <4> QED BY <3>1, <4>1 DEF OneToken, Waiting
    <3> QED BY <3>2, <3>3
  <2> QED BY <2>3, <2>5 DEF Goal
(* The client is handed an order it was never handed: it posts or buffers it.*)
<1>8. ASSUME NEW p \in Orders, NEW b, SubmitOrder(p, b), SubmitsOnce(bus'), p \notin fresh',
             fresh' \subseteq fresh, told' = told, Waiting(p), ~Buffered(p),
             ~Submitting(bus', p),
             \A o \in Orders : (Submitting(bus', o) => Submitting(bus, o))
                               /\ (DeniedOrder(o)' => DeniedOrder(o)),
             \A o \in Orders \ {p} : o \in fresh' <=> o \in fresh
      PROVE  Goal
  <2>1. OneToken(p) /\ posts[p] = 0 /\ exch' = exch /\ ~DeniedOrder(p)
        /\ exch[p].state = "none" /\ post[p] = "none"
    BY <1>1, <1>8 DEF OneToken, SubmitOrder
  <2>2. CASE connected
    <3>1. SendOrders({p}) /\ pending_orders' = pending_orders
      BY <1>8, <2>2 DEF SubmitOrder
    <3>2. \A o \in Orders : /\ post'[o]  = IF o = p THEN "out" ELSE post[o]
                            /\ posts'[o] = IF o = p THEN posts[o] + 1 ELSE posts[o]
      <4>1. {p} \subseteq Orders
        OBVIOUS
      <4>2. \A o \in Orders :
              /\ post'[o]  = IF o \in {p} THEN "out" ELSE post[o]
              /\ posts'[o] = IF o \in {p} THEN posts[o] + 1 ELSE posts[o]
        BY <3>1, <4>1, OrdersSent
      <4> QED BY <4>2
    <3>3. ASSUME NEW o \in Orders PROVE OneToken(o)'
      <4>1. OneToken(o) /\ posts[o] \in Nat /\ exch' = exch
            /\ (DeniedOrder(o)' => DeniedOrder(o)) /\ (Buffered(o)' <=> Buffered(o))
            /\ (Submitting(bus', o) => Submitting(bus, o))
        BY <1>1, <1>8, <2>1, <3>1 DEF Buffered
      <4>2. CASE o = p
        <5>1. posts'[o] = 1 /\ post'[o] = "out" /\ ~Waiting(o)' /\ ~DeniedOrder(o)'
              /\ exch'[o].state = "none"
          BY <1>8, <2>1, <3>2, <4>1, <4>2 DEF Waiting
        <5> QED BY <5>1 DEF OneToken, Waiting
      <4>3. CASE o # p
        <5>1. posts'[o] = posts[o] /\ post'[o] = post[o] /\ (o \in fresh' <=> o \in fresh)
          BY <1>8, <3>2, <4>3
        <5> QED BY <4>1, <5>1 DEF OneToken, Waiting
      <4> QED BY <4>2, <4>3
    <3> QED BY <1>8, <3>3 DEF Goal
  <2>3. CASE ~connected
    <3>1. /\ pending_orders' = Append(pending_orders, p)
          /\ posts' = posts /\ post' = post
      BY <1>8, <2>3 DEF SubmitOrder
    <3>2. Held(pending_orders') = Held(pending_orders) \cup {p}
      BY <3>1, AppendHolds DEF StatesOK
    <3>3. ASSUME NEW o \in Orders PROVE OneToken(o)'
      <4>1. OneToken(o) /\ posts[o] \in Nat /\ exch' = exch /\ posts' = posts /\ post' = post
            /\ (DeniedOrder(o)' => DeniedOrder(o))
            /\ (Submitting(bus', o) => Submitting(bus, o))
        BY <1>1, <1>8, <2>1, <3>1
      <4>2. CASE o = p
        <5>1. posts[o] = 0 /\ ~DeniedOrder(o)' /\ o \notin fresh' /\ ~Submitting(bus', o)
          BY <1>8, <2>1, <4>1, <4>2
        <5> QED BY <4>1, <5>1 DEF OneToken, Waiting
      <4>3. CASE o # p
        <5>1. (Buffered(o)' <=> Buffered(o)) /\ (o \in fresh' <=> o \in fresh)
          BY <1>8, <3>2, <4>3 DEF Buffered
        <5> QED BY <4>1, <5>1 DEF OneToken, Waiting
      <4> QED BY <4>2, <4>3
    <3> QED BY <1>8, <3>3 DEF Goal
  <2> QED BY <2>2, <2>3
(* The exchange has the order, or had it: it was posted.                    *)
<1>9. ASSUME NEW p \in Orders, UNCHANGED <<bus, posts, pending_orders, fresh, told>>,
             \A o \in Orders \ {p} : exch'[o] = exch[o] /\ post'[o] = post[o],
             post[p] = "out" \/ Live(p), post'[p] = "out" => Live(p) /\ post[p] = "out"
      PROVE  Goal
  <2>1. posts[p] # 0 /\ post'[p] # "out"
    BY <1>1, <1>9 DEF OneToken, Live
  <2>2. ASSUME NEW o \in Orders PROVE OneToken(o)'
    <3>1. OneToken(o) /\ posts' = posts /\ (DeniedOrder(o)' <=> DeniedOrder(o))
          /\ bus' = bus /\ fresh' = fresh /\ (Buffered(o)' <=> Buffered(o))
      BY <1>1, <1>9 DEF DeniedOrder, Buffered
    <3>2. CASE o = p
      BY <2>1, <3>1, <3>2 DEF OneToken, Waiting
    <3>3. CASE o # p
      BY <1>9, <3>1, <3>3 DEF OneToken, Waiting
    <3> QED BY <3>2, <3>3
  <2> QED BY <1>1, <1>9, <2>2 DEF Goal
<1>10. ASSUME NEW o \in Orders, SubmitOne(o) PROVE Goal
  BY <1>7, <1>10 DEF SubmitOne
<1>11. CASE SubmitNext
  <2>1. listing # <<>> /\ listing \in Seq(Orders)
    BY <1>11 DEF SubmitNext, StatesOK
  <2>2. 1 \in DOMAIN listing /\ Head(listing) = listing[1]
    BY <2>1, TailHolds
  <2>3. Head(listing) \in fresh
    BY <2>2 DEF TokenInv, ListInv
  <2> QED BY <1>7, <1>11, <2>3 DEF SubmitNext
<1>12. ASSUME NEW p \in Orders, SubmitDirect(p) PROVE Goal
  <2> DEFINE m == Event("Submitted", p, 0)
  <2>1. BusGets(m) /\ m.type = "Submitted" /\ SubmitOrder(p, bus)
        /\ p \in fresh /\ fresh' = fresh \ {p} /\ told' = told
    BY <1>12, BusEffects DEF SubmitDirect, Event
  <2> HIDE DEF m
  <2>2. SubmitsOnce(bus') /\ Held(bus') \subseteq Held(bus) \cup {m}
    BY <1>1, <2>1, SubmitMoves, BusStep
  <2>3. \A o \in Orders : (Submitting(bus', o) => Submitting(bus, o))
                          /\ (DeniedOrder(o)' => DeniedOrder(o))
    BY <2>1, <2>2 DEF Submitting, DeniedOrder
  <2>4. Waiting(p) /\ ~Buffered(p) /\ ~Submitting(bus', p)
    BY <1>1, <2>1, <2>3 DEF OneToken, Waiting
  <2> QED BY <1>8, <2>1, <2>2, <2>3, <2>4
<1>13. CASE ExecSubmit
  <2> DEFINE p == Head(bus).order
  <2>1. bus # <<>> /\ Head(bus).type = "Submit" /\ fresh' = fresh /\ told' = told
    BY <1>13 DEF ExecSubmit, Serving
  <2>2. p \in Orders /\ Head(bus) \in Held(bus)
    BY <2>1, HeadFits
  <2>3. Submitting(bus, p)
    BY <2>1, <2>2 DEF Submitting
  <2>4. PICK m : BusAnswers(m) /\ m.type \in {"Submitted", "Rejected"}
    <3>1. Event("Submitted", p, 0).type = "Submitted"
          /\ [Event("Rejected", p, 0) EXCEPT !.to = "topic"].type = "Rejected"
      BY DEF Event
    <3> QED BY <1>13, <3>1, BusEffects
  <2>5. SubmitsOnce(bus') /\ ~Submitting(bus', p) /\ Held(bus') \subseteq Held(bus) \cup {m}
    BY <1>1, <2>1, <2>4, SubmitMoves, BusStep
  <2>6. \A o \in Orders : (Submitting(bus', o) => Submitting(bus, o))
                          /\ (DeniedOrder(o)' => DeniedOrder(o))
    BY <2>1, <2>4, <2>5 DEF Submitting, DeniedOrder
  <2>7. CASE connected
    <3>1. SubmitOrder(p, Tail(bus)) /\ Waiting(p) /\ p \notin fresh /\ ~Buffered(p)
      BY <1>1, <1>13, <2>2, <2>3, <2>7 DEF ExecSubmit, OneToken, Waiting
    <3> QED BY <1>8, <2>1, <2>2, <2>5, <2>6, <3>1
  <2>8. CASE ~connected
    <3>1. UNCHANGED <<posts, pending_orders, fresh, exch, post>>
      BY <1>13, <2>8 DEF ExecSubmit
    <3> QED BY <1>2, <2>5, <2>6, <3>1
  <2> QED BY <2>7, <2>8
<1>14. CASE RiskExecute
  <2>1. UNCHANGED <<posts, pending_orders, fresh, exch, post, told>>
    BY <1>14 DEF RiskExecute
  <2>2. CASE Head(bus).type = "Submit" /\ BusAnswers(Event("Denied", Head(bus).order, 0))
    <3> DEFINE p == Head(bus).order
               m == Event("Denied", p, 0)
    <3>1. bus # <<>> /\ m.type = "Denied" /\ m.order = p
      BY <2>2 DEF BusAnswers, Event
    <3>2. p \in Orders /\ Head(bus) \in Held(bus) /\ Submitting(bus, p)
      BY <2>2, <3>1, HeadFits DEF Submitting
    <3>3. BusAnswers(m)
      BY <2>2
    <3> HIDE DEF m
    <3>4. SubmitsOnce(bus') /\ ~Submitting(bus', p) /\ Held(bus') \subseteq Held(bus) \cup {m}
      BY <1>1, <2>2, <3>1, <3>3, SubmitMoves, BusStep
    <3>5. \A o \in Orders : /\ Submitting(bus', o) => Submitting(bus, o)
                            /\ o # p => (DeniedOrder(o)' => DeniedOrder(o))
      BY <2>1, <3>1, <3>4 DEF Submitting, DeniedOrder
    <3>6. ASSUME NEW o \in Orders PROVE OneToken(o)'
      <4>1. CASE o = p
        <5>1. OneToken(o) /\ posts' = posts /\ post' = post /\ exch' = exch /\ fresh' = fresh
              /\ (Buffered(o)' <=> Buffered(o))
          BY <1>1, <2>1, <3>2 DEF Buffered
        <5>2. posts[o] = 0 /\ o \notin fresh /\ ~Buffered(o) /\ ~Submitting(bus', o)
          BY <3>2, <3>4, <4>1, <5>1 DEF OneToken, Waiting
        <5> QED BY <5>1, <5>2 DEF OneToken, Waiting
      <4>2. CASE o # p
        BY <1>1, <2>1, <3>5, <4>2, TokenRests
      <4> QED BY <4>1, <4>2
    <3> QED BY <3>4, <3>6 DEF Goal
  <2> QED BY <1>4, <1>6, <1>14, <2>1, <2>2, BusEffects
<1>15. CASE ExecCancel \/ ExecIgnore
  BY <1>4, <1>15, BusEffects DEF ExecCancel, ExecIgnore, CancelOrders
<1>16. CASE OnEvent
  <2>1. BusLoses /\ UNCHANGED <<posts, pending_orders, fresh, exch, post>>
    BY <1>16, BusEffects DEF OnEvent
  <2>2. bus # <<>> /\ Head(bus) \in Held(bus) /\ Head(bus).order \in Orders
    BY <2>1, HeadFits DEF BusLoses
  <2>3. told' = [told EXCEPT ![Head(bus).order] = @ \cup {Head(bus).type}]
    BY <1>16 DEF OnEvent
  <2>4. SubmitsOnce(bus') /\ Held(bus') \subseteq Held(bus)
    BY <1>1, <2>1, SubmitMoves, BusStep
  <2>5. \A o \in Orders : DeniedOrder(o)' => DeniedOrder(o)
    BY <2>2, <2>3, <2>4 DEF DeniedOrder, StatesOK
  <2> QED BY <1>2, <2>1, <2>4, <2>5 DEF Submitting
<1>17. CASE ProcessEvent
  BY <1>6, <1>17, BusEffects DEF ProcessEvent
<1>18. ASSUME NEW o \in Orders, NEW type \in {"Cancel", "Modify", "CancelAll"}, Send(type, o)
       PROVE  Goal
  <2>1. Command("risk", type, o).type = type
    BY DEF Command
  <2>2. UNCHANGED <<posts, pending_orders, fresh, exch, told, post>>
    BY <1>18 DEF Send
  <2> QED BY <1>5, <1>18, <2>1, <2>2, BusEffects
<1>19. CASE (\E list \in Lists : SubmitList(list)) \/ OpenSession \/ CloseSession
            \/ SyncOpenOrders
  BY <1>3, <1>19 DEF SubmitList, OpenSession, CloseSession, Connect, Disconnect,
                     SyncOpenOrders, CancelOrders
<1>20. ASSUME Joined \/ StreamError \/ StreamDial \/ StreamExit, UNCHANGED flowVars
       PROVE  Goal
  BY <1>3, <1>20 DEF Joined, StreamError, StreamDial, StreamExit
<1>21. ASSUME StreamUp, UNCHANGED flowVars PROVE Goal
  <2> DEFINE os == Held(pending_orders)
  <2>1. os = {pending_orders[i] : i \in DOMAIN pending_orders} /\ os \subseteq Orders
    BY ElementOfSeq, LenProperties DEF Held, StatesOK
  <2>2. SendOrders(os) /\ pending_orders' = <<>> /\ UNCHANGED <<bus, exch, fresh, told>>
    BY <1>21, <2>1 DEF StreamUp
  <2> HIDE DEF os
  <2>3. \A o \in Orders : /\ post'[o]  = IF o \in os THEN "out" ELSE post[o]
                          /\ posts'[o] = IF o \in os THEN posts[o] + 1 ELSE posts[o]
    BY <2>1, <2>2, OrdersSent
  <2>4. Held(pending_orders') = {}
    BY <2>2 DEF Held
  <2>5. ASSUME NEW o \in Orders PROVE OneToken(o)'
    <3>1. OneToken(o) /\ posts[o] \in Nat /\ (DeniedOrder(o)' <=> DeniedOrder(o))
          /\ bus' = bus /\ fresh' = fresh /\ exch' = exch /\ ~Buffered(o)'
      BY <1>1, <2>2, <2>4 DEF DeniedOrder, Buffered
    <3>2. CASE o \in os
      <4>1. Buffered(o)
        BY <3>2 DEF Buffered, os
      <4>2. posts'[o] = 1 /\ post'[o] = "out" /\ exch[o].state = "none"
            /\ ~Submitting(bus, o) /\ o \notin fresh /\ ~DeniedOrder(o)
        BY <2>3, <3>1, <3>2, <4>1 DEF OneToken, Waiting
      <4> QED BY <3>1, <4>2 DEF OneToken, Waiting
    <3>3. CASE o \notin os
      <4>1. posts'[o] = posts[o] /\ post'[o] = post[o]
        BY <2>3, <3>3
      <4> QED BY <3>1, <4>1 DEF OneToken, Waiting
    <3> QED BY <3>2, <3>3
  <2> QED BY <1>1, <2>2, <2>5 DEF Goal
<1>22. ASSUME ReadReport, UNCHANGED flowVars PROVE Goal
  <2>1. UNCHANGED <<posts, pending_orders, exch, post, fresh, told>>
    BY <1>22 DEF ReadReport
  <2>2. Head(stream) \in ReportSet
    BY <1>22, TailHolds DEF ReadReport, QueuesOK
  <2>3. ReportEvent(Head(stream)).type \notin {"Submit", "Denied"}
    BY <2>2, ReportEventFits
  <2> QED BY <1>3, <1>5, <1>22, <2>1, <2>3, BusEffects
<1>23. ASSUME NEW o \in Orders, AnswerPost(o), UNCHANGED flowVars PROVE Goal
  <2>1. PICK type \in {"Accepted", "Filled", "Rejected"}, n \in {0, Qty} :
          BusGets(Event(type, o, n))
    BY <1>23, BusEffects
  <2>2. Event(type, o, n).type = type
    BY DEF Event
  <2>3. UNCHANGED <<posts, pending_orders, exch, fresh, told>>
        /\ \A x \in Orders : post'[x] = post[x] \/ (post[x] # "none" /\ post'[x] # "out")
    BY <1>23 DEF AnswerPost, StatesOK
  <2> QED BY <1>5, <2>1, <2>2, <2>3
<1>24. ASSUME NEW o \in Orders, AnswerDelete(o), UNCHANGED flowVars PROVE Goal
  <2>1. UNCHANGED <<posts, pending_orders, exch, post, fresh, told>>
    BY <1>24 DEF AnswerDelete
  <2>2. Event("Canceled", o, 0).type = "Canceled"
    BY DEF Event
  <2> QED BY <1>3, <1>5, <1>24, <2>1, <2>2, BusEffects
<1>25. ASSUME NEW o \in Orders, ExchangeStep(o), UNCHANGED flowVars PROVE Goal
  <2>1. CASE ExchangeAccept(o) \/ ExchangeFillAtOnce(o) \/ ExchangeRefuse(o)
    BY <1>9, <1>25, <2>1 DEF ExchangeAccept, ExchangeFillAtOnce, ExchangeRefuse, Answered,
                             ExchangeOnly, StatesOK
  <2>2. CASE PostLost(o)
    <3>1. \A x \in Orders : post'[x] = post[x] \/ (post[x] # "none" /\ post'[x] # "out")
      BY <2>2 DEF PostLost, StatesOK
    <3>2. UNCHANGED <<bus, posts, pending_orders, exch, fresh, told>>
      BY <1>25, <2>2 DEF PostLost, ExchangeOnly
    <3> QED BY <1>1, <1>2, <3>1, <3>2 DEF DeniedOrder
  <2>3. CASE CancelFails(o)
    BY <1>3, <1>25, <2>3 DEF CancelFails, ExchangeOnly
  <2>4. CASE ExchangeExpire(o) \/ ExchangeCancel(o) \/ \E n \in 1..Qty : ExchangeTrade(o, n)
    BY <1>9, <1>25, <2>4 DEF ExchangeExpire, ExchangeCancel, ExchangeTrade, ExchangeOnly,
                             StatesOK
  <2> QED BY <1>25, <2>1, <2>2, <2>3, <2>4 DEF ExchangeStep, AnswersOrder, AnswersCancel
<1>26. CASE UNCHANGED vars
  BY <1>3, <1>26
<1> QED
  BY <1>10, <1>11, <1>12, <1>13, <1>14, <1>15, <1>16, <1>17, <1>18, <1>19, <1>20, <1>21,
     <1>22, <1>23, <1>24, <1>25, <1>26
  DEF Next, ProgramStep, ServeStep, ClientStep, StreamStep

(* What is left of a list is fresh, whatever other threads do meanwhile.    *)
LEMMA ListStep ==
  ASSUME StatesOK, TokenInv, [Next]_vars
  PROVE  ListInv'
<1> USE DEF connVars, sentVars, clientVars, flowVars, vars
<1>1. ListInv
  BY DEF TokenInv
<1>2. ASSUME UNCHANGED <<listing, fresh>> PROVE ListInv'
  BY <1>1, <1>2 DEF ListInv
<1>3. ASSUME listing = <<>>, listing' = listing PROVE ListInv'
  BY <1>3 DEF ListInv
<1>4. ASSUME NEW list \in Lists, SubmitList(list) PROVE ListInv'
  BY <1>4, ProgramAssumption DEF SubmitList, ListInv
<1>5. CASE SubmitNext
  <2>1. listing \in Seq(Orders) /\ listing # <<>>
    BY <1>5 DEF SubmitNext, StatesOK
  <2>2. /\ 1 \in DOMAIN listing /\ Head(listing) = listing[1]
        /\ \A i \in DOMAIN Tail(listing) : i + 1 \in DOMAIN listing /\ i \in Nat
                                           /\ Tail(listing)[i] = listing[i + 1] /\ i + 1 # 1
    BY <2>1, TailHolds
  <2>3. listing' = Tail(listing) /\ fresh' = fresh \ {Head(listing)}
    BY <1>5 DEF SubmitNext, Submit
  <2>4. ASSUME NEW i \in DOMAIN listing' PROVE listing'[i] \in fresh'
    <3>1. i + 1 \in DOMAIN listing /\ listing'[i] = listing[i + 1] /\ i + 1 # 1
      BY <2>2, <2>3
    <3>2. listing[i + 1] # listing[1] /\ listing[i + 1] \in fresh
      BY <1>1, <2>2, <3>1 DEF ListInv
    <3> QED BY <2>2, <2>3, <3>1, <3>2
  <2>5. ASSUME NEW i \in DOMAIN listing', NEW j \in DOMAIN listing', listing'[i] = listing'[j]
        PROVE  i = j
    <3>1. i + 1 = j + 1
      BY <1>1, <2>2, <2>3, <2>5 DEF ListInv
    <3> QED BY <2>2, <2>3, <3>1
  <2> QED BY <2>4, <2>5 DEF ListInv
<1>6. ASSUME NEW o \in Orders, SubmitOne(o) \/ SubmitDirect(o) PROVE ListInv'
  BY <1>3, <1>6 DEF SubmitOne, SubmitDirect, Idle
<1>7. ASSUME NEW o \in Orders, NEW type, Send(type, o) PROVE ListInv'
  BY <1>2, <1>7 DEF Send
<1>8. CASE OpenSession \/ CloseSession \/ SyncOpenOrders \/ ServeStep
  BY <1>2, <1>8 DEF OpenSession, CloseSession, SyncOpenOrders, ServeStep, RiskExecute,
                    ExecSubmit, ExecCancel, ExecIgnore, ProcessEvent, OnEvent
<1>9. CASE ClientStep
  BY <1>2, <1>9 DEF ClientStep
<1>10. CASE UNCHANGED vars
  BY <1>2, <1>10
<1> QED
  BY <1>4, <1>5, <1>6, <1>7, <1>8, <1>9, <1>10 DEF Next, ProgramStep

FlowInv == QueuesOK /\ StatesOK /\ TokenInv

LEMMA FlowInvHolds == Spec => []FlowInv
<1>1. Init => FlowInv
  <2> SUFFICES ASSUME Init PROVE FlowInv
    OBVIOUS
  <2> USE DEF Init, ClientInit
  <2>1. bus = <<>> /\ stream = <<>> /\ pending_orders = <<>> /\ listing = <<>>
    OBVIOUS
  <2>2. Held(bus) = {} /\ Held(pending_orders) = {} /\ DOMAIN listing = {} /\ DOMAIN bus = {}
    BY <2>1 DEF Held
  <2>3. QueuesOK
    BY <2>1, <2>2 DEF QueuesOK
  <2>4. StatesOK
    BY <2>1, QtyAssumption DEF StatesOK, PostStates, ExchangeStates
  <2>5. SubmitsOnce(bus) /\ ListInv
    BY <2>2 DEF SubmitsOnce, ListInv
  <2>6. ASSUME NEW o \in Orders PROVE OneToken(o)
    <3>1. ~DeniedOrder(o) /\ ~Submitting(bus, o) /\ ~Buffered(o) /\ posts[o] = 0
          /\ post[o] = "none" /\ exch[o].state = "none"
      BY <2>2 DEF DeniedOrder, Submitting, Buffered
    <3> QED BY <3>1 DEF OneToken, Waiting
  <2> QED BY <2>3, <2>4, <2>5, <2>6 DEF FlowInv, TokenInv
<1>2. FlowInv /\ [Next]_vars => FlowInv'
  <2> SUFFICES ASSUME FlowInv, [Next]_vars PROVE FlowInv'
    OBVIOUS
  <2>1. QueuesOK /\ StatesOK /\ TokenInv
    BY DEF FlowInv
  <2>2. QueuesOK' /\ StatesOK'
    BY <2>1, QueuesStep, StatesStep
  <2>3. TokenInv'
    BY <2>1, TokenStep, ListStep DEF TokenInv
  <2> QED BY <2>2, <2>3 DEF FlowInv
<1> QED BY <1>1, <1>2, PTL DEF Spec

(* No order is posted to the exchange twice, whatever is buffered, flushed, *)
(* listed, dropped or sent directly, over any number of sessions; and one   *)
(* the risk engine denied is never posted.                                  *)
THEOREM NoOrderGoesOutTwice == Spec => []PostedAtMostOnce
<1>1. FlowInv => PostedAtMostOnce
  <2> SUFFICES ASSUME FlowInv, NEW o \in Orders
               PROVE  posts[o] <= IF "Denied" \in told[o] THEN 0 ELSE 1
    BY DEF PostedAtMostOnce
  <2>1. OneToken(o) /\ posts[o] \in Nat
    BY DEF FlowInv, TokenInv, StatesOK
  <2> QED BY <2>1 DEF OneToken, DeniedOrder
<1> QED BY <1>1, FlowInvHolds, PTL

-----------------------------------------------------------------------------
(* Who speaks of a canceled order, a thread, a report, an event or what the *)
(* strategy was told, speaks of one that is canceled at the exchange.       *)
CanceledInv ==
  /\ \A m \in Held(bus) : m.type = "Canceled" => exch[m.order].state = "canceled"
  /\ \A r \in Held(stream) : r.type \in {"CANCELED", "EXPIRED"}
                               => exch[r.order].state = "canceled"
  /\ \A o \in Orders : "Canceled" \in told[o] \/ deletes[o] = "canceled"
                         => exch[o].state = "canceled"

(* A canceled order stays canceled: its request has been answered.          *)
LEMMA CanceledStays ==
  ASSUME StatesOK, TokenInv, [Next]_vars, NEW o \in Orders, exch[o].state = "canceled"
  PROVE  exch'[o].state = "canceled"
<1> USE DEF connVars, sentVars, clientVars, flowVars, vars
<1>1. post[o] # "out" /\ ~Live(o)
  BY DEF TokenInv, OneToken, Live
<1>2. CASE exch' = exch
  BY <1>2
<1>3. ASSUME NEW p \in Orders, ExchangeStep(p) PROVE exch'[o].state = "canceled"
  <2>1. CASE p = o
    BY <1>1, <1>3, <2>1
    DEF ExchangeStep, AnswersOrder, AnswersCancel, ExchangeAccept, ExchangeFillAtOnce,
        ExchangeRefuse, PostLost, ExchangeTrade, ExchangeExpire, ExchangeCancel, CancelFails
  <2>2. CASE p # o
    BY <1>3, <2>2
    DEF ExchangeStep, AnswersOrder, AnswersCancel, ExchangeAccept, ExchangeFillAtOnce,
        ExchangeRefuse, PostLost, ExchangeTrade, ExchangeExpire, ExchangeCancel, CancelFails,
        StatesOK
  <2> QED BY <2>1, <2>2
<1>4. CASE ProgramStep
  BY <1>2, <1>4 DEF ProgramStep, SubmitOne, Submit, SubmitDirect, SubmitOrder, Send,
     SubmitList, SubmitNext, SyncOpenOrders, CancelOrders, OpenSession, CloseSession,
     Connect, Disconnect
<1>5. CASE ServeStep
  BY <1>2, <1>5 DEF ServeStep, RiskExecute, ExecSubmit, SubmitOrder, ExecCancel,
     CancelOrders, ExecIgnore, ProcessEvent, OnEvent
<1>6. CASE ClientStep
  <2>1. CASE Joined \/ StreamError \/ StreamStep
    BY <1>2, <2>1 DEF Joined, StreamError, StreamStep, StreamDial, StreamUp, StreamExit,
                      ReadReport
  <2>2. ASSUME NEW p \in Orders, AnswerPost(p) \/ AnswerDelete(p) PROVE exch' = exch
    BY <2>2 DEF AnswerPost, AnswerDelete
  <2> QED BY <1>2, <1>3, <1>6, <2>1, <2>2 DEF ClientStep
<1>7. CASE UNCHANGED vars
  BY <1>2, <1>7
<1> QED BY <1>4, <1>5, <1>6, <1>7 DEF Next

LEMMA CanceledStep ==
  ASSUME QueuesOK, StatesOK, TokenInv, CanceledInv, [Next]_vars
  PROVE  CanceledInv'
<1> USE DEF connVars, sentVars, clientVars, flowVars, vars
(* A step is sound when what it adds is canceled after it.                  *)
<1> DEFINE Gone(o)   == exch'[o].state = "canceled"
           BusOK     == \A m \in Held(bus') : m.type = "Canceled" => Gone(m.order)
           StreamOK  == \A r \in Held(stream') : r.type \in {"CANCELED", "EXPIRED"}
                                                   => Gone(r.order)
           DeletesOK == \A o \in Orders : deletes'[o] = "canceled" => Gone(o)
           ToldOK    == \A o \in Orders : "Canceled" \in told'[o] => Gone(o)
<1> SUFFICES BusOK /\ StreamOK /\ DeletesOK /\ ToldOK
  BY DEF CanceledInv
<1>1. /\ \A m \in Held(bus) : /\ m.order \in Orders
                              /\ m.type = "Canceled" => Gone(m.order)
      /\ \A r \in Held(stream) : /\ r.order \in Orders
                                 /\ r.type \in {"CANCELED", "EXPIRED"} => Gone(r.order)
      /\ \A o \in Orders : "Canceled" \in told[o] \/ deletes[o] = "canceled" => Gone(o)
  <2>1. \A m \in Held(bus) : m.order \in Orders
    BY BusStep DEF Fits, Message
  <2>2. \A r \in Held(stream) : r.order \in Orders
    <3>1. \A i \in DOMAIN stream : stream[i] \in ReportSet
      BY ElementOfSeq, LenProperties DEF QueuesOK
    <3> QED BY <3>1 DEF Held, ReportSet
  <2> QED BY <2>1, <2>2, CanceledStays DEF CanceledInv
<1>2. bus' = bus => BusOK
  BY <1>1
<1>3. BusLoses => BusOK
  BY <1>1, BusStep
<1>4. ASSUME NEW m, BusGets(m) \/ BusAnswers(m), m.type = "Canceled" => Gone(m.order)
      PROVE  BusOK
  <2>1. Held(bus') \subseteq Held(bus) \cup {m}
    BY <1>4, BusStep
  <2> QED BY <1>1, <1>4, <2>1
<1>5. stream' = stream => StreamOK
  BY <1>1
<1>6. stream' = <<>> => StreamOK
  BY DEF Held
<1>7. ASSUME stream # <<>>, stream' = Tail(stream) PROVE StreamOK
  <2>1. Held(stream') \subseteq Held(stream)
    BY <1>7, TailHolds DEF QueuesOK
  <2> QED BY <1>1, <2>1
<1>8. ASSUME NEW rs \in Seq(ReportSet), Reports(rs),
             \A r \in Held(rs) : r.type \in {"CANCELED", "EXPIRED"} => Gone(r.order)
      PROVE  StreamOK
  <2>1. Held(stream') \subseteq Held(stream) \cup Held(rs)
    BY <1>8, ConcatHolds DEF Reports, QueuesOK
  <2> QED BY <1>1, <1>8, <2>1
<1>9. deletes' = deletes => DeletesOK
  BY <1>1
<1>10. ASSUME NEW os, RequestCancels(os) PROVE DeletesOK
  BY <1>1, <1>10 DEF RequestCancels
<1>11. told' = told => ToldOK
  BY <1>1
<1> HIDE DEF Gone, BusOK, StreamOK, DeletesOK, ToldOK
<1>12. ASSUME UNCHANGED <<stream, deletes, told>> PROVE StreamOK /\ DeletesOK /\ ToldOK
  BY <1>5, <1>9, <1>11, <1>12
<1>13. ASSUME NEW o \in Orders, SubmitOne(o) \/ SubmitNext \/ SubmitDirect(o)
       PROVE  BusOK /\ StreamOK /\ DeletesOK /\ ToldOK
  <2>1. \A p : Command("risk", "Submit", p).type # "Canceled"
               /\ Event("Submitted", p, 0).type # "Canceled"
    BY DEF Command, Event
  <2>2. UNCHANGED <<stream, deletes, told>>
    BY <1>13 DEF SubmitOne, SubmitNext, Submit, SubmitDirect, SubmitOrder
  <2>3. listing # <<>> => Head(listing) \in Orders
    BY HeadTailProperties DEF StatesOK
  <2>4. PICK p : BusGets(Command("risk", "Submit", p)) \/ BusGets(Event("Submitted", p, 0))
    BY <1>13, <2>3, BusEffects DEF SubmitOne, SubmitNext
  <2> QED BY <1>4, <1>12, <2>1, <2>2, <2>4
<1>14. ASSUME NEW o \in Orders, NEW type \in {"Cancel", "Modify", "CancelAll"}, Send(type, o)
       PROVE  BusOK /\ StreamOK /\ DeletesOK /\ ToldOK
  <2>1. BusGets(Command("risk", type, o)) /\ Command("risk", type, o).type # "Canceled"
    BY <1>14, BusEffects DEF Command
  <2>2. UNCHANGED <<stream, deletes, told>>
    BY <1>14 DEF Send
  <2> QED BY <1>4, <1>12, <2>1, <2>2
<1>15. CASE (\E list \in Lists : SubmitList(list)) \/ OpenSession \/ CloseSession
  BY <1>2, <1>12, <1>15 DEF SubmitList, OpenSession, CloseSession, Connect, Disconnect
<1>16. CASE SyncOpenOrders \/ ExecCancel
  <2>1. UNCHANGED <<stream, told>> /\ \E os : RequestCancels(os)
    BY <1>16 DEF SyncOpenOrders, ExecCancel, CancelOrders
  <2>2. bus' = bus \/ BusLoses
    BY <1>16, BusEffects DEF SyncOpenOrders, CancelOrders
  <2> QED BY <1>2, <1>3, <1>5, <1>10, <1>11, <2>1, <2>2
<1>17. CASE RiskExecute \/ ProcessEvent
  <2>1. UNCHANGED <<stream, deletes, told>>
    BY <1>17 DEF RiskExecute, ProcessEvent
  <2>2. bus # <<>>
    BY <1>17 DEF RiskExecute, ProcessEvent, Serving
  <2>3. Head(bus) \in Held(bus) /\ Fits(Head(bus))
    BY <2>2, HeadFits
  <2>4. \A place : [Head(bus) EXCEPT !.to = place].type = Head(bus).type
                   /\ [Head(bus) EXCEPT !.to = place].order = Head(bus).order
    BY <2>3 DEF Fits, Message
  <2>5. Event("Denied", Head(bus).order, 0).type # "Canceled"
    BY DEF Event
  <2>6. ASSUME NEW place, BusAnswers([Head(bus) EXCEPT !.to = place]) PROVE BusOK
    BY <1>1, <1>4, <2>3, <2>4, <2>6
  <2>7. BusOK
    BY <1>3, <1>4, <1>17, <2>5, <2>6, BusEffects
  <2> QED BY <1>12, <2>1, <2>7
<1>18. CASE ExecSubmit
  <2>1. UNCHANGED <<stream, deletes, told>>
    BY <1>18 DEF ExecSubmit, SubmitOrder
  <2>2. \A p : Event("Submitted", p, 0).type # "Canceled"
               /\ [Event("Rejected", p, 0) EXCEPT !.to = "topic"].type # "Canceled"
    BY DEF Event
  <2> QED BY <1>4, <1>12, <1>18, <2>1, <2>2, BusEffects
<1>19. CASE ExecIgnore
  BY <1>3, <1>12, <1>19, BusEffects DEF ExecIgnore
<1>20. CASE OnEvent
  <2>1. BusLoses /\ UNCHANGED <<stream, deletes>>
    BY <1>20, BusEffects DEF OnEvent
  <2>2. Head(bus) \in Held(bus)
    BY <2>1, HeadFits DEF BusLoses
  <2>3. told' = [told EXCEPT ![Head(bus).order] = @ \cup {Head(bus).type}]
    BY <1>20 DEF OnEvent
  <2>4. ToldOK
    <3> SUFFICES ASSUME NEW o \in Orders, "Canceled" \in told'[o] PROVE Gone(o)
      BY DEF ToldOK
    <3>1. CASE "Canceled" \in told[o]
      BY <1>1, <3>1
    <3>2. CASE "Canceled" \notin told[o]
      <4>1. o = Head(bus).order /\ Head(bus).type = "Canceled"
        BY <2>3, <3>2 DEF StatesOK
      <4> QED BY <1>1, <2>2, <4>1
    <3> QED BY <3>1, <3>2
  <2> QED BY <1>3, <1>5, <1>9, <2>1, <2>4
<1>21. ASSUME Joined \/ StreamDial \/ StreamUp \/ StreamExit, UNCHANGED flowVars
       PROVE  BusOK /\ StreamOK /\ DeletesOK /\ ToldOK
  BY <1>2, <1>12, <1>21 DEF Joined, StreamDial, StreamUp, StreamExit
<1>22. ASSUME StreamError, UNCHANGED flowVars
       PROVE  BusOK /\ StreamOK /\ DeletesOK /\ ToldOK
  BY <1>2, <1>6, <1>10, <1>11, <1>22 DEF StreamError
<1>23. ASSUME ReadReport, UNCHANGED flowVars
       PROVE  BusOK /\ StreamOK /\ DeletesOK /\ ToldOK
  <2>1. stream # <<>> /\ UNCHANGED <<deletes, told>>
        /\ (stream' = <<>> \/ stream' = Tail(stream))
    BY <1>23 DEF ReadReport
  <2>2. Head(stream) \in Held(stream) /\ Head(stream) \in ReportSet
    BY <2>1, TailHolds DEF QueuesOK
  <2>3. /\ ReportEvent(Head(stream)).order = Head(stream).order
        /\ ReportEvent(Head(stream)).type = "Canceled"
             => Head(stream).type \in {"CANCELED", "EXPIRED"}
    BY <2>2, ReportEventFits
  <2>4. BusOK
    BY <1>1, <1>2, <1>4, <1>23, <2>2, <2>3, BusEffects
  <2> QED BY <1>6, <1>7, <1>9, <1>11, <2>1, <2>4
<1>24. ASSUME NEW o \in Orders, AnswerPost(o), UNCHANGED flowVars
       PROVE  BusOK /\ StreamOK /\ DeletesOK /\ ToldOK
  <2>1. UNCHANGED <<stream, deletes, told>>
    BY <1>24 DEF AnswerPost
  <2>2. PICK type \in {"Accepted", "Filled", "Rejected"}, n \in {0, Qty} :
          BusGets(Event(type, o, n))
    BY <1>24, BusEffects
  <2>3. Event(type, o, n).type # "Canceled"
    BY DEF Event
  <2> QED BY <1>4, <1>12, <2>1, <2>2, <2>3
<1>25. ASSUME NEW o \in Orders, AnswerDelete(o), UNCHANGED flowVars
       PROVE  BusOK /\ StreamOK /\ DeletesOK /\ ToldOK
  <2>1. UNCHANGED <<stream, told>> /\ deletes[o] = "canceled"
        /\ \A x \in Orders : deletes'[x] = "canceled" => deletes[x] = "canceled"
    BY <1>25 DEF AnswerDelete, StatesOK
  <2>2. Event("Canceled", o, 0).order = o
    BY DEF Event
  <2>3. BusOK
    BY <1>1, <1>2, <1>4, <1>25, <2>1, <2>2, BusEffects
  <2> QED BY <1>1, <1>5, <1>11, <2>1, <2>3 DEF DeletesOK
<1>26. ASSUME NEW o \in Orders, ExchangeStep(o), UNCHANGED flowVars
       PROVE  BusOK /\ StreamOK /\ DeletesOK /\ ToldOK
  <2>1. UNCHANGED <<bus, told>>
    BY <1>26 DEF ExchangeStep, AnswersOrder, AnswersCancel, ExchangeAccept,
       ExchangeFillAtOnce, ExchangeRefuse, PostLost, ExchangeTrade, ExchangeExpire,
       ExchangeCancel, CancelFails, ExchangeOnly
  <2>2. BusOK /\ ToldOK
    BY <1>2, <1>11, <2>1
  <2>3. \A type \in ReportTypes : \A n \in 0..Qty : Report(type, o, n) \in ReportSet
    BY QtyAssumption DEF Report, ReportSet
  <2>4. ASSUME NEW type \in ReportTypes, NEW n \in 0..Qty, Reports(<<Report(type, o, n)>>),
               type \in {"CANCELED", "EXPIRED"} => Gone(o)
        PROVE  StreamOK
    <3> DEFINE r == Report(type, o, n)
    <3>1. r \in ReportSet /\ r.type = type /\ r.order = o
      BY <2>3, <2>4 DEF Report
    <3> HIDE DEF r
    <3>2. <<r>> \in Seq(ReportSet) /\ Held(<<r>>) = {r}
      BY <3>1 DEF Held
    <3>3. Reports(<<r>>)
      BY <2>4 DEF r
    <3> QED BY <1>8, <2>4, <3>1, <3>2, <3>3
  <2>5. 0 \in 0..Qty /\ \A n \in 1..Qty : n \in 0..Qty
    BY QtyAssumption
  <2>6. CASE ExchangeAccept(o)
    <3>1. Reports(<<Report("NEW", o, 0)>>) /\ deletes' = deletes
      BY <2>6 DEF ExchangeAccept
    <3> QED BY <1>9, <2>2, <2>4, <2>5, <3>1 DEF ReportTypes
  <2>7. CASE ExchangeFillAtOnce(o)
    <3> DEFINE r == Report("NEW", o, 0)
               q == Report("TRADE", o, Qty)
    <3>1. r \in ReportSet /\ q \in ReportSet /\ r.type = "NEW" /\ q.type = "TRADE"
      <4>1. Qty \in 0..Qty
        BY QtyAssumption
      <4> QED BY <2>3, <2>5, <4>1 DEF Report, ReportTypes
    <3>2. Reports(<<r, q>>) /\ deletes' = deletes
      BY <2>7 DEF ExchangeFillAtOnce
    <3> HIDE DEF r, q
    <3>3. <<r, q>> \in Seq(ReportSet) /\ Held(<<r, q>>) = {r, q}
      <4>1. DOMAIN <<r, q>> = {1, 2}
        OBVIOUS
      <4> QED BY <3>1, <4>1 DEF Held
    <3>4. StreamOK
      BY <1>8, <3>1, <3>2, <3>3
    <3> QED BY <1>9, <2>2, <3>2, <3>4
  <2>8. CASE ExchangeRefuse(o)
    <3>1. (Reports(<<>>) \/ Reports(<<Report("REJECTED", o, 0)>>)) /\ deletes' = deletes
      BY <2>8 DEF ExchangeRefuse
    <3>2. Reports(<<>>) => StreamOK
      <4>1. <<>> \in Seq(ReportSet) /\ Held(<<>>) = {}
        BY DEF Held
      <4> QED BY <1>8, <4>1
    <3> QED BY <1>9, <2>2, <2>4, <2>5, <3>1, <3>2 DEF ReportTypes
  <2>9. CASE PostLost(o)
    BY <1>5, <1>9, <2>2, <2>9 DEF PostLost
  <2>10. ASSUME NEW n \in 1..Qty, ExchangeTrade(o, n) PROVE StreamOK /\ DeletesOK
    <3>1. Reports(<<Report("TRADE", o, n)>>) /\ deletes' = deletes
      BY <2>10 DEF ExchangeTrade
    <3> QED BY <1>9, <2>4, <2>5, <3>1 DEF ReportTypes
  <2>11. CASE ExchangeExpire(o)
    <3>1. Reports(<<Report("EXPIRED", o, 0)>>) /\ deletes' = deletes /\ Gone(o)
      BY <2>11 DEF ExchangeExpire, StatesOK, Gone
    <3> QED BY <1>9, <2>2, <2>4, <2>5, <3>1 DEF ReportTypes
  <2>12. CASE ExchangeCancel(o)
    <3>1. Reports(<<Report("CANCELED", o, 0)>>) /\ Gone(o)
          /\ \A x \in Orders : x # o => deletes'[x] = deletes[x]
      BY <2>12 DEF ExchangeCancel, StatesOK, Gone
    <3>2. DeletesOK
      BY <1>1, <3>1 DEF DeletesOK
    <3> QED BY <2>2, <2>4, <2>5, <3>1, <3>2 DEF ReportTypes
  <2>13. CASE CancelFails(o)
    <3>1. \A x \in Orders : deletes'[x] = "canceled" => deletes[x] = "canceled"
      BY <2>13 DEF CancelFails, StatesOK
    <3>2. DeletesOK
      BY <1>1, <3>1 DEF DeletesOK
    <3> QED BY <1>5, <2>2, <2>13, <3>2 DEF CancelFails
  <2> QED
    BY <1>26, <2>2, <2>6, <2>7, <2>8, <2>9, <2>10, <2>11, <2>12, <2>13
    DEF ExchangeStep, AnswersOrder, AnswersCancel
<1>27. CASE UNCHANGED vars
  BY <1>2, <1>12, <1>27
<1>28. ASSUME SubmitNext PROVE BusOK /\ StreamOK /\ DeletesOK /\ ToldOK
  <2>1. Head(listing) \in Orders
    BY <1>28, HeadTailProperties DEF SubmitNext, StatesOK
  <2> QED BY <1>13, <1>28, <2>1
<1> QED
  BY <1>13, <1>14, <1>15, <1>16, <1>17, <1>18, <1>19, <1>20, <1>21, <1>22, <1>23, <1>24,
     <1>25, <1>26, <1>27, <1>28
  DEF Next, ProgramStep, ServeStep, ClientStep, StreamStep

LEMMA CanceledInvHolds == Spec => []CanceledInv
<1>1. Init => CanceledInv
  BY DEF Init, ClientInit, CanceledInv, Held
<1>2. FlowInv /\ CanceledInv /\ [Next]_vars => CanceledInv'
  BY CanceledStep DEF FlowInv
<1> QED BY <1>1, <1>2, FlowInvHolds, PTL DEF Spec

(* When the strategy hears that an order is canceled, the exchange has      *)
(* canceled it: no error answer, lost request, dropped event or reconnect   *)
(* makes the client announce a cancel that did not happen.                  *)
THEOREM CanceledCanBeReliedOn == Spec => []CanceledIsCanceled
<1>1. CanceledInv => CanceledIsCanceled
  BY DEF CanceledInv, CanceledIsCanceled
<1> QED BY <1>1, CanceledInvHolds, PTL

-----------------------------------------------------------------------------
(* Who speaks of an order to the client's own copy has one to speak of.     *)
TrackedInv ==
  /\ DOMAIN tracked \subseteq Orders
  /\ \A o \in Orders : /\ post[o] # "none" <=> o \in DOMAIN tracked
                       /\ exch[o].state # "none" => o \in DOMAIN tracked
  /\ \A m \in Held(bus) : m.to = "process" /\ OwnCopy(m) => m.order \in DOMAIN tracked
  /\ \A r \in Held(stream) : r.order \in DOMAIN tracked

PlacesOK ==
  /\ running \in BOOLEAN /\ connected \in BOOLEAN /\ joining \in BOOLEAN
  /\ ws \in {"off", "down", "dial", "up"}
  /\ orders \subseteq Orders /\ DOMAIN cached \subseteq latest

LEMMA PlacesStep ==
  ASSUME QueuesOK, StatesOK, PlacesOK, [Next]_vars
  PROVE  PlacesOK'
<1> USE DEF connVars, sentVars, clientVars, flowVars, vars
<1>1. ASSUME NEW o \in Orders, Submit(o) PROVE PlacesOK'
  BY <1>1 DEF Submit, PlacesOK
<1>2. CASE ProgramStep
  <2>1. listing # <<>> => Head(listing) \in Orders
    BY HeadTailProperties DEF StatesOK
  <2>2. CASE SubmitNext \/ \E o \in Orders : SubmitOne(o)
    BY <1>1, <2>1, <2>2 DEF SubmitNext, SubmitOne
  <2>3. CASE (\E o \in Orders : SubmitDirect(o)) \/ SyncOpenOrders
    BY <2>3 DEF SubmitDirect, SubmitOrder, SyncOpenOrders, CancelOrders, PlacesOK
  <2>4. CASE \E o \in Orders : \E type \in {"Cancel", "Modify", "CancelAll"} : Send(type, o)
    BY <2>4 DEF Send, PlacesOK
  <2>5. CASE (\E list \in Lists : SubmitList(list)) \/ OpenSession \/ CloseSession
    BY <2>5 DEF SubmitList, OpenSession, CloseSession, Connect, Disconnect, PlacesOK
  <2> QED BY <1>2, <2>2, <2>3, <2>4, <2>5 DEF ProgramStep
<1>3. CASE ExecSubmit
  <2>1. /\ latest' = latest \cup {Head(bus).order}
        /\ \/ cached' = cached
           \/ DOMAIN cached' = DOMAIN cached \cup {Head(bus).order}
    BY <1>3 DEF ExecSubmit
  <2>2. UNCHANGED <<running, connected, joining, ws, orders>>
    BY <1>3 DEF ExecSubmit, SubmitOrder
  <2> QED BY <2>1, <2>2 DEF PlacesOK
<1>4. CASE RiskExecute \/ ExecCancel \/ ExecIgnore \/ ProcessEvent \/ OnEvent
  BY <1>4 DEF RiskExecute, ExecCancel, CancelOrders, ExecIgnore, ProcessEvent, OnEvent,
              PlacesOK
<1>5. CASE ClientStep
  <2>1. CASE Joined \/ StreamError \/ StreamStep
    BY <1>5, <2>1 DEF ClientStep, StreamStep, Joined, StreamError, StreamDial, StreamUp,
                      StreamExit, ReadReport, PlacesOK
  <2>2. ASSUME NEW o \in Orders, AnswerPost(o) \/ AnswerDelete(o) \/ ExchangeStep(o)
        PROVE  UNCHANGED <<running, connected, joining, ws>>
    BY <2>2 DEF AnswerPost, AnswerDelete, ExchangeStep, AnswersOrder, AnswersCancel,
       ExchangeAccept, ExchangeFillAtOnce, ExchangeRefuse, PostLost, ExchangeTrade,
       ExchangeExpire, ExchangeCancel, CancelFails, ExchangeOnly
  <2> QED BY <1>5, <2>1, <2>2 DEF ClientStep, PlacesOK
<1>6. CASE UNCHANGED vars
  BY <1>6 DEF PlacesOK
<1> QED BY <1>2, <1>3, <1>4, <1>5, <1>6 DEF Next, ServeStep

LEMMA TrackedStep ==
  ASSUME QueuesOK, StatesOK, TrackedInv, [Next]_vars
  PROVE  TrackedInv'
<1> USE DEF connVars, sentVars, clientVars, flowVars, vars
<1> DEFINE Known(o) == o \in DOMAIN tracked'
           BusOK    == \A m \in Held(bus') : m.to = "process" /\ OwnCopy(m) => Known(m.order)
           StreamOK == \A r \in Held(stream') : Known(r.order)
           SentOK   == /\ DOMAIN tracked' \subseteq Orders
                       /\ \A o \in Orders : post'[o] # "none" <=> Known(o)
           ExchOK   == \A o \in Orders : exch'[o].state # "none" => Known(o)
<1> SUFFICES BusOK /\ StreamOK /\ SentOK /\ ExchOK
  BY DEF TrackedInv, OwnCopy
<1>1. ASSUME NEW os, os \subseteq Orders, SendOrders(os) PROVE SentOK
  <2>1. /\ DOMAIN tracked' = DOMAIN tracked \cup os
        /\ \A o \in Orders : post'[o] = IF o \in os THEN "out" ELSE post[o]
    BY <1>1, OrdersSent
  <2> QED BY <1>1, <2>1 DEF TrackedInv
<1>2. ASSUME UNCHANGED <<tracked, post>> PROVE SentOK
  BY <1>2 DEF TrackedInv
<1>3. ASSUME tracked' = tracked, NEW p \in DOMAIN tracked, NEW answer, answer # "none",
             post' = [post EXCEPT ![p] = answer]
      PROVE  SentOK
  BY <1>3 DEF TrackedInv, StatesOK
<1> DEFINE Grows == DOMAIN tracked \subseteq DOMAIN tracked'
<1>4. Grows /\ SentOK
  <2>1. ASSUME UNCHANGED <<tracked, post>> PROVE Grows /\ SentOK
    BY <1>2, <2>1
  <2>2. ASSUME NEW os, os \subseteq Orders, SendOrders(os) PROVE Grows /\ SentOK
    BY <1>1, <2>2 DEF SendOrders
  <2>3. ASSUME NEW p \in Orders, NEW b, SubmitOrder(p, b) PROVE Grows /\ SentOK
    <3>1. {p} \subseteq Orders
      OBVIOUS
    <3> QED BY <2>1, <2>2, <2>3, <3>1 DEF SubmitOrder
  <2>4. CASE ProgramStep
    <3>1. CASE \E o \in Orders : SubmitDirect(o)
      BY <2>3, <3>1 DEF SubmitDirect
    <3>2. CASE SyncOpenOrders \/ OpenSession \/ CloseSession \/ SubmitNext
               \/ (\E list \in Lists : SubmitList(list))
      BY <2>1, <3>2 DEF SyncOpenOrders, CancelOrders, OpenSession, CloseSession, Connect,
                        Disconnect, SubmitNext, Submit, SubmitList
    <3>3. ASSUME NEW o \in Orders, NEW type, SubmitOne(o) \/ Send(type, o)
          PROVE  UNCHANGED <<tracked, post>>
      BY <3>3 DEF SubmitOne, Submit, Send
    <3> QED BY <2>1, <2>4, <3>1, <3>2, <3>3 DEF ProgramStep
  <2>5. CASE ExecSubmit
    <3>1. Head(bus).order \in Orders
      BY <2>5, HeadFits DEF ExecSubmit, Serving
    <3> QED BY <2>1, <2>3, <2>5, <3>1 DEF ExecSubmit
  <2>6. CASE ProcessEvent
    <3>1. DOMAIN tracked' = DOMAIN tracked /\ post' = post
      BY <2>6 DEF ProcessEvent
    <3> QED BY <3>1 DEF TrackedInv
  <2>7. CASE RiskExecute \/ ExecCancel \/ ExecIgnore \/ OnEvent
    BY <2>1, <2>7 DEF RiskExecute, ExecCancel, CancelOrders, ExecIgnore, OnEvent
  <2>8. CASE StreamUp
    <3>1. {pending_orders[i] : i \in DOMAIN pending_orders} \subseteq Orders
      BY ElementOfSeq, LenProperties DEF StatesOK
    <3> QED BY <2>2, <2>8, <3>1 DEF StreamUp
  <2>9. CASE Joined \/ StreamError \/ StreamDial \/ StreamExit \/ ReadReport
    BY <2>1, <2>9 DEF Joined, StreamError, StreamDial, StreamExit, ReadReport
  <2>10. ASSUME NEW p \in Orders, AnswerPost(p) PROVE Grows /\ SentOK
    <3>1. post[p] # "none" /\ tracked' = tracked
          /\ \E answer \in {"done", "fill"} : post' = [post EXCEPT ![p] = answer]
      BY <2>10 DEF AnswerPost
    <3>2. p \in DOMAIN tracked
      BY <3>1 DEF TrackedInv
    <3> QED BY <1>3, <3>1, <3>2
  <2>11. ASSUME NEW p \in Orders, AnswersOrder(p) PROVE Grows /\ SentOK
    <3>1. post[p] = "out" /\ tracked' = tracked
          /\ \E answer \in {"accepted", "filled", "failed", "refused"} :
               post' = [post EXCEPT ![p] = answer]
      BY <2>11 DEF AnswersOrder, ExchangeAccept, ExchangeFillAtOnce, ExchangeRefuse, PostLost,
                   Answered, ExchangeOnly
    <3>2. p \in DOMAIN tracked
      BY <3>1 DEF TrackedInv
    <3> QED BY <1>3, <3>1, <3>2
  <2>12. ASSUME NEW p \in Orders, AnswerDelete(p) \/ AnswersCancel(p) \/ ExchangeExpire(p)
                                  \/ \E n \in 1..Qty : ExchangeTrade(p, n)
         PROVE  UNCHANGED <<tracked, post>>
    BY <2>12 DEF AnswerDelete, AnswersCancel, ExchangeCancel, CancelFails, ExchangeExpire,
                 ExchangeTrade, ExchangeOnly
  <2>13. CASE ClientStep
    BY <2>1, <2>8, <2>9, <2>10, <2>11, <2>12, <2>13 DEF ClientStep, StreamStep, ExchangeStep
  <2>14. CASE UNCHANGED vars
    BY <2>1, <2>14
  <2> QED BY <2>4, <2>5, <2>6, <2>7, <2>13, <2>14 DEF Next, ServeStep
<1>5. /\ \A m \in Held(bus) : m.to = "process" /\ OwnCopy(m) => Known(m.order)
      /\ \A r \in Held(stream) : Known(r.order)
      /\ \A o \in DOMAIN tracked : Known(o)
      /\ \A o \in Orders : exch[o].state # "none" \/ post[o] # "none" => Known(o)
  BY <1>4 DEF TrackedInv
<1>6. BusLoses \/ bus' = bus => BusOK
  BY <1>5, BusStep
<1>7. ASSUME NEW m, BusGets(m) \/ BusAnswers(m),
             m.to = "process" /\ OwnCopy(m) => Known(m.order)
      PROVE  BusOK
  <2>1. Held(bus') \subseteq Held(bus) \cup {m}
    BY <1>7, BusStep
  <2> QED BY <1>5, <1>7, <2>1
<1>8. stream' = stream \/ stream' = <<>> => StreamOK
  BY <1>5 DEF Held
<1>9. ASSUME stream # <<>>, stream' = Tail(stream) PROVE StreamOK
  <2>1. Held(stream') \subseteq Held(stream)
    BY <1>9, TailHolds DEF QueuesOK
  <2> QED BY <1>5, <2>1
<1>10. ASSUME NEW rs \in Seq(ReportSet), Reports(rs), \A r \in Held(rs) : Known(r.order)
       PROVE  StreamOK
  <2>1. Held(stream') \subseteq Held(stream) \cup Held(rs)
    BY <1>10, ConcatHolds DEF Reports, QueuesOK
  <2> QED BY <1>5, <1>10, <2>1
<1>11. exch' = exch => ExchOK
  BY <1>5
<1> HIDE DEF Known, BusOK, StreamOK, SentOK, ExchOK, Grows
<1>12. UNCHANGED <<stream, exch>> => StreamOK /\ ExchOK
  BY <1>8, <1>11
<1>13. CASE ProgramStep
  <2>1. \A o : Command("risk", "Submit", o).to # "process"
               /\ ~OwnCopy(Event("Submitted", o, 0))
    BY DEF Command, Event, OwnCopy
  <2>2. listing # <<>> => Head(listing) \in Orders
    BY HeadTailProperties DEF StatesOK
  <2>3. ASSUME NEW o \in Orders, SubmitOne(o) \/ SubmitNext \/ SubmitDirect(o)
        PROVE  BusOK /\ StreamOK /\ ExchOK
    <3>1. UNCHANGED <<stream, exch>>
      BY <2>3 DEF SubmitOne, SubmitNext, Submit, SubmitDirect, SubmitOrder
    <3>2. PICK p : BusGets(Command("risk", "Submit", p)) \/ BusGets(Event("Submitted", p, 0))
      BY <2>2, <2>3, BusEffects DEF SubmitOne, SubmitNext
    <3> QED BY <1>7, <1>12, <2>1, <3>1, <3>2
  <2>4. ASSUME SubmitNext PROVE BusOK /\ StreamOK /\ ExchOK
    BY <2>2, <2>3, <2>4 DEF SubmitNext
  <2>5. ASSUME NEW o \in Orders, NEW type \in {"Cancel", "Modify", "CancelAll"}, Send(type, o)
        PROVE  BusOK /\ StreamOK /\ ExchOK
    <3>1. BusGets(Command("risk", type, o)) /\ Command("risk", type, o).to # "process"
      BY <2>5, BusEffects DEF Command
    <3>2. UNCHANGED <<stream, exch>>
      BY <2>5 DEF Send
    <3> QED BY <1>7, <1>12, <3>1, <3>2
  <2>6. CASE (\E list \in Lists : SubmitList(list)) \/ OpenSession \/ CloseSession
             \/ SyncOpenOrders
    <3>1. UNCHANGED <<bus, stream, exch>>
      BY <2>6 DEF SubmitList, OpenSession, CloseSession, Connect, Disconnect,
                  SyncOpenOrders, CancelOrders
    <3> QED BY <1>4, <1>6, <1>12, <3>1
  <2> QED BY <1>4, <1>13, <2>3, <2>4, <2>5, <2>6 DEF ProgramStep
<1>14. CASE RiskExecute \/ ProcessEvent
  <2>1. UNCHANGED <<stream, exch>> /\ bus # <<>>
    BY <1>14 DEF RiskExecute, ProcessEvent, Serving
  <2>2. Fits(Head(bus))
    BY <2>1, HeadFits
  <2>3. \A place \in {"exec", "topic"} : [Head(bus) EXCEPT !.to = place].to # "process"
    BY <2>2 DEF Fits, Message
  <2>4. ~OwnCopy(Event("Denied", Head(bus).order, 0))
    BY DEF Event, OwnCopy
  <2>5. BusOK
    BY <1>6, <1>7, <1>14, <2>3, <2>4, BusEffects
  <2> QED BY <1>4, <1>12, <2>1, <2>5
<1>15. CASE ExecSubmit
  <2>1. UNCHANGED <<stream, exch>>
    BY <1>15 DEF ExecSubmit, SubmitOrder
  <2>2. \A o : ~OwnCopy(Event("Submitted", o, 0))
               /\ [Event("Rejected", o, 0) EXCEPT !.to = "topic"].to # "process"
    BY DEF Event, OwnCopy
  <2> QED BY <1>4, <1>7, <1>12, <1>15, <2>1, <2>2, BusEffects
<1>16. CASE ExecCancel \/ ExecIgnore \/ OnEvent
  BY <1>4, <1>6, <1>12, <1>16, BusEffects DEF ExecCancel, CancelOrders, ExecIgnore, OnEvent
<1>17. CASE Joined \/ StreamError \/ StreamDial \/ StreamUp \/ StreamExit
  BY <1>4, <1>6, <1>8, <1>11, <1>17
  DEF Joined, StreamError, StreamDial, StreamUp, StreamExit
<1>18. CASE ReadReport
  <2>1. stream # <<>> /\ exch' = exch /\ (stream' = <<>> \/ stream' = Tail(stream))
    BY <1>18 DEF ReadReport
  <2>2. Head(stream) \in Held(stream) /\ Head(stream) \in ReportSet
    BY <2>1, TailHolds DEF QueuesOK
  <2>3. BusOK
    BY <1>5, <1>6, <1>7, <1>18, <2>2, ReportEventFits, BusEffects
  <2> QED BY <1>4, <1>8, <1>9, <1>11, <2>1, <2>3
<1>19. ASSUME NEW o \in Orders, AnswerPost(o) \/ AnswerDelete(o)
       PROVE  BusOK /\ StreamOK /\ ExchOK
  <2>1. UNCHANGED <<stream, exch>>
    BY <1>19 DEF AnswerPost, AnswerDelete
  <2>2. \A type, n : Event(type, o, n).order = o
    BY DEF Event
  <2>3. AnswerPost(o) => Known(o)
    BY <1>5 DEF AnswerPost
  <2>4. BusOK
    BY <1>5, <1>6, <1>7, <1>19, <2>2, <2>3, BusEffects
  <2> QED BY <1>12, <2>1, <2>4
<1>20. ASSUME NEW o \in Orders, ExchangeStep(o) PROVE BusOK /\ StreamOK /\ ExchOK
  <2>1. bus' = bus
    BY <1>20 DEF ExchangeStep, AnswersOrder, AnswersCancel, ExchangeAccept,
       ExchangeFillAtOnce, ExchangeRefuse, PostLost, ExchangeTrade, ExchangeExpire,
       ExchangeCancel, CancelFails, ExchangeOnly
  <2>2. (Live(o) \/ post[o] = "out") => Known(o)
    BY <1>5 DEF Live
  <2>3. CASE PostLost(o) \/ CancelFails(o)
    BY <1>6, <1>12, <2>1, <2>3 DEF PostLost, CancelFails
  <2>4. ASSUME Known(o), \A x \in Orders : x # o => exch'[x] = exch[x] PROVE ExchOK
    BY <1>5, <2>4 DEF ExchOK
  <2>5. ASSUME NEW rs, Reports(rs), Known(o), Held(rs) \subseteq ReportSet, rs \in Seq(ReportSet),
               \A r \in Held(rs) : r.order = o
        PROVE  StreamOK
    BY <1>10, <2>5
  <2>6. ASSUME ~(PostLost(o) \/ CancelFails(o))
        PROVE  Known(o) /\ (\A x \in Orders : x # o => exch'[x] = exch[x])
    BY <1>20, <2>2, <2>6 DEF ExchangeStep, AnswersOrder, AnswersCancel, ExchangeAccept,
       ExchangeFillAtOnce, ExchangeRefuse, ExchangeTrade, ExchangeExpire, ExchangeCancel,
       StatesOK
  <2>7. \A type \in ReportTypes : \A n \in 0..Qty :
          Report(type, o, n) \in ReportSet /\ Report(type, o, n).order = o
    BY QtyAssumption DEF Report, ReportSet
  <2>8. 0 \in 0..Qty /\ Qty \in 0..Qty /\ \A n \in 1..Qty : n \in 0..Qty
    BY QtyAssumption
  <2>9. ASSUME NEW r \in ReportSet, r.order = o, Reports(<<r>>), Known(o) PROVE StreamOK
    <3>1. <<r>> \in Seq(ReportSet) /\ Held(<<r>>) = {r}
      BY DEF Held
    <3> QED BY <2>5, <2>9, <3>1
  <2>10. ASSUME NEW r \in ReportSet, NEW q \in ReportSet, r.order = o, q.order = o,
                Reports(<<r, q>>), Known(o)
         PROVE  StreamOK
    <3>1. DOMAIN <<r, q>> = {1, 2}
      OBVIOUS
    <3>2. <<r, q>> \in Seq(ReportSet) /\ Held(<<r, q>>) = {r, q}
      BY <3>1 DEF Held
    <3> QED BY <2>5, <2>10, <3>2
  <2>11. ASSUME Reports(<<>>) PROVE StreamOK
    <3>1. <<>> \in Seq(ReportSet) /\ Held(<<>>) = {}
      BY DEF Held
    <3> QED BY <1>10, <2>11, <3>1
  <2>12. ASSUME Known(o), ExchangeAccept(o) \/ ExchangeExpire(o) \/ ExchangeCancel(o)
                          \/ ExchangeRefuse(o) \/ \E n \in 1..Qty : ExchangeTrade(o, n)
         PROVE  StreamOK
    <3>1. \/ Reports(<<>>)
          \/ \E type \in ReportTypes : \E n \in 0..Qty : Reports(<<Report(type, o, n)>>)
      BY <2>8, <2>12 DEF ExchangeAccept, ExchangeExpire, ExchangeCancel, ExchangeRefuse,
                         ExchangeTrade, ReportTypes
    <3> QED BY <2>7, <2>9, <2>11, <2>12, <3>1
  <2>13. ASSUME Known(o), ExchangeFillAtOnce(o) PROVE StreamOK
    <3>1. Reports(<<Report("NEW", o, 0), Report("TRADE", o, Qty)>>)
      BY <2>13 DEF ExchangeFillAtOnce
    <3> QED BY <2>7, <2>8, <2>10, <2>13, <3>1 DEF ReportTypes
  <2>14. CASE ~(PostLost(o) \/ CancelFails(o))
    <3>1. Known(o) /\ ExchOK
      BY <2>4, <2>6, <2>14
    <3>2. StreamOK
      BY <1>20, <2>12, <2>13, <2>14, <3>1 DEF ExchangeStep, AnswersOrder, AnswersCancel
    <3> QED BY <1>6, <2>1, <3>1, <3>2
  <2> QED BY <2>3, <2>14
<1>21. CASE ClientStep
  BY <1>4, <1>17, <1>18, <1>19, <1>20, <1>21 DEF ClientStep, StreamStep
<1>22. CASE UNCHANGED vars
  BY <1>4, <1>6, <1>12, <1>22
<1> QED BY <1>13, <1>14, <1>15, <1>16, <1>21, <1>22 DEF Next, ServeStep

LEMMA TrackedHolds == Spec => []TrackedInv
<1>1. Init => TrackedInv
  <2> SUFFICES ASSUME Init PROVE TrackedInv
    OBVIOUS
  <2> USE DEF Init, ClientInit
  <2>1. Held(bus) = {} /\ Held(stream) = {} /\ DOMAIN tracked = {}
    BY DEF Held
  <2> QED BY <2>1 DEF TrackedInv
<1>2. FlowInv /\ TrackedInv /\ [Next]_vars => TrackedInv'
  BY TrackedStep DEF FlowInv
<1> QED BY <1>1, <1>2, FlowInvHolds, PTL DEF Spec

(* Every variable keeps its type, and no report, event or thread speaks of  *)
(* an order the client does not track: orders_ is never asked in vain.      *)
THEOREM OrderTypeCorrect == Spec => []OrderTypeOK
<1>1. Init => PlacesOK
  <2> SUFFICES ASSUME Init PROVE PlacesOK
    OBVIOUS
  <2>1. DOMAIN cached = {}
    BY DEF Init
  <2> QED BY <2>1 DEF Init, ClientInit, PlacesOK
<1>2. FlowInv /\ PlacesOK /\ [Next]_vars => PlacesOK'
  BY PlacesStep DEF FlowInv
<1>3. FlowInv /\ TrackedInv /\ PlacesOK => OrderTypeOK
  <2> SUFFICES ASSUME FlowInv, TrackedInv, PlacesOK PROVE OrderTypeOK
    OBVIOUS
  <2>1. \A i \in DOMAIN bus : bus[i] \in Message /\ bus[i] \in Held(bus)
    BY ElementOfSeq, LenProperties DEF FlowInv, QueuesOK, Held
  <2>2. \A i \in DOMAIN bus :
          /\ bus[i].to \in {"risk", "exec", "process", "topic"}
          /\ bus[i].type \in EventTypes \cup {"Submit", "Cancel", "Modify", "CancelAll"}
    BY <2>1 DEF Message, CommandTypes
  <2>3. \A i \in DOMAIN stream : stream[i] \in Held(stream)
    BY DEF Held
  <2>4. \A o \in Orders : exch[o].done \in 0..Qty
    BY DEF FlowInv, StatesOK
  <2>5. \A o \in Orders : post[o] \in PostStates /\ deletes[o] \in {"none", "out", "canceled"}
    BY DEF FlowInv, StatesOK
  <2> QED BY <2>1, <2>2, <2>3, <2>4, <2>5 DEF OrderTypeOK, TrackedInv, PlacesOK
<1> QED BY <1>1, <1>2, <1>3, FlowInvHolds, TrackedHolds, PTL DEF Spec

-----------------------------------------------------------------------------
(* What the messages of a queue carry together: a sum, counted lot by lot,  *)
(* that a message put at the end adds to and the head takes from.           *)
Lots(s, I) == {lot \in I \X (1..Qty) : lot[2] <= s[lot[1]].qty}

(* The places of the messages of s that are in C, and what they carry.      *)
At(s, C)  == {i \in DOMAIN s : s[i] \in C}
Sum(s, C) == Quantity(s, At(s, C))

LEMMA LotsFinite ==
  ASSUME NEW s, NEW I, IsFiniteSet(I)
  PROVE  /\ IsFiniteSet(Lots(s, I)) /\ Quantity(s, I) = Cardinality(Lots(s, I))
         /\ Quantity(s, I) \in Nat /\ (I = {} => Quantity(s, I) = 0)
<1>1. IsFiniteSet(1..Qty)
  BY QtyAssumption, FS_Interval
<1>2. IsFiniteSet(I \X (1..Qty))
  BY <1>1, FS_Product
<1>3. Lots(s, I) \in SUBSET (I \X (1..Qty))
  BY DEF Lots
<1>4. IsFiniteSet(Lots(s, I))
  BY <1>2, <1>3, FS_Subset
<1>5. Quantity(s, I) = Cardinality(Lots(s, I))
  BY DEF Quantity, Lots
<1>6. I = {} => Lots(s, I) = {}
  BY DEF Lots
<1> QED BY <1>4, <1>5, <1>6, FS_CardinalityType, FS_EmptySet

LEMMA LotsShift ==
  ASSUME NEW s, NEW t, NEW I \in SUBSET Nat, IsFiniteSet(I),
         \A i \in I : t[i] = s[i + 1]
  PROVE  Quantity(s, {i + 1 : i \in I}) = Quantity(t, I)
<1> DEFINE J == {i + 1 : i \in I}
           f == [lot \in Lots(t, I) |-> <<lot[1] + 1, lot[2]>>]
<1>1. ASSUME NEW lot \in Lots(t, I)
      PROVE  lot[1] \in I /\ lot[1] \in Nat /\ lot[2] \in 1..Qty /\ lot = <<lot[1], lot[2]>>
             /\ lot[2] <= t[lot[1]].qty /\ f[lot] \in Lots(s, J)
  <2>1. /\ lot[1] \in I /\ lot[1] \in Nat /\ lot[2] \in 1..Qty /\ lot = <<lot[1], lot[2]>>
        /\ lot[2] <= t[lot[1]].qty
    <3>1. lot \in I \X (1..Qty) /\ lot[2] <= t[lot[1]].qty
      BY DEF Lots
    <3>2. lot[1] \in I /\ lot[2] \in 1..Qty /\ lot = <<lot[1], lot[2]>>
      BY <3>1
    <3> QED BY <3>1, <3>2
  <2>2. lot[1] + 1 \in J /\ t[lot[1]] = s[lot[1] + 1]
    BY <2>1
  <2>3. <<lot[1] + 1, lot[2]>> \in Lots(s, J)
    BY <2>1, <2>2 DEF Lots
  <2> QED BY <2>1, <2>3
<1>2. f \in [Lots(t, I) -> Lots(s, J)]
  BY <1>1
<1>3. ASSUME NEW a \in Lots(t, I), NEW b \in Lots(t, I), f[a] = f[b] PROVE a = b
  <2>1. a[1] + 1 = b[1] + 1 /\ a[2] = b[2]
    BY <1>3
  <2>2. a[1] = b[1]
    <3>1. a[1] \in Nat /\ b[1] \in Nat
      BY <1>1
    <3> QED BY <2>1, <3>1
  <2>3. a = <<a[1], a[2]>> /\ b = <<b[1], b[2]>>
    BY <1>1
  <2> QED BY <2>1, <2>2, <2>3
<1>4. ASSUME NEW b \in Lots(s, J) PROVE \E a \in Lots(t, I) : f[a] = b
  <2>1. b[1] \in J /\ b[2] \in 1..Qty /\ b = <<b[1], b[2]>> /\ b[2] <= s[b[1]].qty
    BY DEF Lots
  <2>2. PICK i \in I : b[1] = i + 1
    BY <2>1
  <2>3. <<i, b[2]>> \in Lots(t, I)
    BY <2>1, <2>2 DEF Lots
  <2> QED BY <2>1, <2>2, <2>3
<1>5. f \in Bijection(Lots(t, I), Lots(s, J))
  BY <1>2, <1>3, <1>4 DEF Bijection, Injection, Surjection, IsInjective
<1>6. ExistsBijection(Lots(t, I), Lots(s, J))
  BY <1>5 DEF ExistsBijection
<1>7. Cardinality(Lots(s, J)) = Cardinality(Lots(t, I))
  BY <1>6, LotsFinite, FS_Bijection
<1> QED BY <1>7 DEF Quantity, Lots

LEMMA LotsOfOne ==
  ASSUME NEW s, NEW i, s[i].qty \in 0..Qty
  PROVE  Quantity(s, {i}) = s[i].qty
<1> DEFINE n == s[i].qty
           f == [k \in 1..n |-> <<i, k>>]
<1>1. n \in Nat /\ n <= Qty /\ Qty \in Nat
  BY QtyAssumption
<1> HIDE DEF n
<1>2. Lots(s, {i}) = {<<i, k>> : k \in 1..n}
  <2>1. ASSUME NEW lot \in Lots(s, {i}) PROVE lot \in {<<i, k>> : k \in 1..n}
    <3>1. lot[1] = i /\ lot[2] \in 1..Qty /\ lot = <<lot[1], lot[2]>> /\ lot[2] <= n
      BY DEF Lots, n
    <3> QED BY <1>1, <3>1
  <2>2. ASSUME NEW k \in 1..n PROVE <<i, k>> \in Lots(s, {i})
    BY <1>1 DEF Lots, n
  <2> QED BY <2>1, <2>2
<1>3. f \in Bijection(1..n, Lots(s, {i}))
  <2>1. f \in [1..n -> Lots(s, {i})] /\ \A b \in Lots(s, {i}) : \E a \in 1..n : f[a] = b
    BY <1>2
  <2>2. ASSUME NEW a \in 1..n, NEW b \in 1..n, f[a] = f[b] PROVE a = b
    BY <2>2
  <2> QED BY <2>1, <2>2 DEF Bijection, Injection, Surjection, IsInjective
<1>4. IsFiniteSet(1..n) /\ Cardinality(1..n) = n
  <2>1. 1 \in Int /\ n \in Int /\ (1 > n => n = 0) /\ n - 1 + 1 = n
    BY <1>1
  <2>2. IsFiniteSet(1..n) /\ Cardinality(1..n) = IF 1 > n THEN 0 ELSE n - 1 + 1
    BY <2>1, FS_Interval
  <2> QED BY <2>1, <2>2
<1>5. Cardinality(Lots(s, {i})) = n
  BY <1>3, <1>4, FS_Bijection DEF ExistsBijection
<1> QED BY <1>5 DEF n, Quantity, Lots

LEMMA LotsAdd ==
  ASSUME NEW s, NEW I, IsFiniteSet(I), NEW i, i \notin I, s[i].qty \in 0..Qty
  PROVE  Quantity(s, I \cup {i}) = Quantity(s, I) + s[i].qty
<1>1. Lots(s, I \cup {i}) = Lots(s, I) \cup Lots(s, {i})
  BY DEF Lots
<1>2. Lots(s, I) \cap Lots(s, {i}) = {}
  BY DEF Lots
<1>3. IsFiniteSet({i})
  BY FS_Singleton
<1>4. /\ IsFiniteSet(Lots(s, I)) /\ Quantity(s, I) = Cardinality(Lots(s, I))
      /\ IsFiniteSet(Lots(s, {i})) /\ Quantity(s, {i}) = Cardinality(Lots(s, {i}))
  BY <1>3, LotsFinite
<1>5. /\ Quantity(s, I) \in Nat /\ Quantity(s, {i}) = s[i].qty
      /\ Quantity(s, I \cup {i}) = Cardinality(Lots(s, I \cup {i}))
  BY LotsFinite, LotsOfOne DEF Quantity, Lots
<1>6. Cardinality(Lots(s, I) \cup Lots(s, {i}))
        = Cardinality(Lots(s, I)) + Cardinality(Lots(s, {i}))
  <2> DEFINE A == Lots(s, I)
             B == Lots(s, {i})
  <2>1. A \cap B = {} /\ IsFiniteSet(A) /\ IsFiniteSet(B) /\ Cardinality({}) = 0
    BY <1>2, <1>4, FS_EmptySet
  <2> HIDE DEF A, B
  <2>2. Cardinality(A \cup B) = Cardinality(A) + Cardinality(B) - Cardinality(A \cap B)
    BY <2>1, FS_Union
  <2>3. Cardinality(A) \in Nat /\ Cardinality(B) \in Nat
    BY <2>1, FS_CardinalityType
  <2>4. Cardinality(A \cup B) = Cardinality(A) + Cardinality(B)
    <3>1. Cardinality(A \cap B) = 0
      BY <2>1
    <3> QED BY <2>2, <2>3, <3>1
  <2> QED BY <2>4 DEF A, B
<1> QED BY <1>1, <1>4, <1>5, <1>6

LEMMA SumType ==
  ASSUME NEW S, NEW s \in Seq(S), NEW C
  PROVE  /\ IsFiniteSet(At(s, C)) /\ At(s, C) \subseteq Nat /\ Sum(s, C) \in Nat
         /\ (\A i \in DOMAIN s : s[i] \notin C) => Sum(s, C) = 0
<1>1. DOMAIN s = 1..Len(s) /\ Len(s) \in Nat
  BY LenProperties
<1>2. IsFiniteSet(1..Len(s)) /\ At(s, C) \in SUBSET (1..Len(s))
  BY <1>1, FS_Interval DEF At
<1>3. IsFiniteSet(At(s, C)) /\ At(s, C) \subseteq Nat
  BY <1>2, FS_Subset
<1>4. (\A i \in DOMAIN s : s[i] \notin C) => At(s, C) = {}
  BY DEF At
<1> QED BY <1>3, <1>4, LotsFinite DEF Sum

LEMMA SumAppend ==
  ASSUME NEW S, NEW s \in Seq(S), NEW x \in S, x.qty \in 0..Qty, NEW C
  PROVE  Sum(Append(s, x), C) = Sum(s, C) + (IF x \in C THEN x.qty ELSE 0)
<1> DEFINE t == Append(s, x)
           n == Len(s) + 1
<1>1. /\ DOMAIN t = DOMAIN s \cup {n} /\ t[n] = x
      /\ \A i \in DOMAIN s : t[i] = s[i] /\ i # n
  <2>1. /\ Len(t) = Len(s) + 1 /\ t \in Seq(S)
        /\ \A i \in 1..Len(s) : t[i] = s[i]
        /\ t[Len(s) + 1] = x
    BY AppendProperties
  <2>2. DOMAIN t = 1..(Len(s) + 1) /\ DOMAIN s = 1..Len(s) /\ Len(s) \in Nat
    BY <2>1, LenProperties
  <2> QED BY <2>1, <2>2
<1> HIDE DEF t, n
<1>2. IsFiniteSet(At(s, C)) /\ At(s, C) \subseteq DOMAIN s /\ At(s, C) \subseteq Nat
      /\ Sum(s, C) \in Nat
  BY SumType DEF At
<1>3. Quantity(t, At(s, C)) = Quantity(s, At(s, C))
  <2>1. Lots(t, At(s, C)) = Lots(s, At(s, C))
    BY <1>1, <1>2 DEF Lots
  <2> QED BY <2>1, <1>2, LotsFinite
<1>4. CASE x \in C
  <2>1. At(t, C) = At(s, C) \cup {n} /\ n \notin At(s, C)
    BY <1>1, <1>4 DEF At
  <2>2. t[n].qty \in 0..Qty
    BY <1>1
  <2>3. Quantity(t, At(s, C) \cup {n}) = Quantity(t, At(s, C)) + t[n].qty
    BY <1>2, <2>1, <2>2, LotsAdd
  <2> QED BY <1>1, <1>3, <1>4, <2>1, <2>3 DEF Sum, t
<1>5. CASE x \notin C
  <2>1. At(t, C) = At(s, C)
    BY <1>1, <1>5 DEF At
  <2> QED BY <1>2, <1>3, <1>5, <2>1 DEF Sum, t
<1> QED BY <1>4, <1>5

LEMMA SumTail ==
  ASSUME NEW S, NEW s \in Seq(S), s # <<>>, Head(s).qty \in 0..Qty, NEW C
  PROVE  Sum(s, C) = Sum(Tail(s), C) + (IF Head(s) \in C THEN Head(s).qty ELSE 0)
<1> DEFINE t == Tail(s)
           J == {i + 1 : i \in At(t, C)}
<1>1. /\ t \in Seq(S) /\ Len(t) = Len(s) - 1 /\ Head(s) = s[1]
      /\ \A i \in 1..Len(t) : t[i] = s[i + 1]
  BY HeadTailProperties
<1>2. /\ DOMAIN t = 1..(Len(s) - 1) /\ DOMAIN s = 1..Len(s) /\ Len(s) \in Nat /\ Len(s) # 0
  BY <1>1, EmptySeq, LenProperties
<1> HIDE DEF t
<1>3. IsFiniteSet(At(t, C)) /\ At(t, C) \subseteq Nat /\ Sum(t, C) \in Nat
  BY <1>1, SumType
<1>4. \A i \in At(t, C) : t[i] = s[i + 1]
  BY <1>1, <1>2 DEF At
<1>5. Quantity(s, J) = Quantity(t, At(t, C))
  <2> DEFINE I == At(t, C)
  <2>1. I \in SUBSET Nat /\ IsFiniteSet(I) /\ 1 \in Nat /\ \A i \in I : t[i] = s[i + 1]
    BY <1>3, <1>4
  <2> HIDE DEF I
  <2>2. Quantity(s, {i + 1 : i \in I}) = Quantity(t, I)
    BY ONLY <2>1, LotsShift
  <2> QED BY <2>2 DEF I
<1>6. At(s, C) = IF Head(s) \in C THEN J \cup {1} ELSE J
  <2>1. ASSUME NEW i \in At(s, C), i # 1 PROVE i \in J
    <3>1. i \in 1..Len(s) /\ s[i] \in C
      BY <1>2 DEF At
    <3>2. i - 1 \in 1..(Len(s) - 1) /\ (i - 1) + 1 = i
      BY <1>2, <2>1, <3>1
    <3>3. t[i - 1] = s[i]
      BY <1>1, <1>2, <3>2
    <3>4. i - 1 \in At(t, C)
      BY <1>2, <3>1, <3>2, <3>3 DEF At
    <3> QED BY <3>2, <3>4
  <2>2. ASSUME NEW i \in At(t, C) PROVE i + 1 \in At(s, C) /\ i + 1 # 1
    BY <1>1, <1>2 DEF At
  <2>3. 1 \in At(s, C) <=> Head(s) \in C
    BY <1>1, <1>2 DEF At
  <2>4. J \subseteq At(s, C) /\ 1 \notin J /\ At(s, C) \subseteq J \cup {1}
    BY <2>1, <2>2
  <2> QED BY <2>3, <2>4
<1>7. 1 \notin J /\ IsFiniteSet(J)
  <2>1. 1 \notin J
    BY <1>2 DEF At
  <2>2. J \subseteq 1..Len(s)
    BY <1>2 DEF At
  <2>3. J \in SUBSET (1..Len(s)) /\ IsFiniteSet(1..Len(s))
    <3>1. 1 \in Int /\ Len(s) \in Int
      BY <1>2
    <3>2. IsFiniteSet(1..Len(s))
      BY <3>1, FS_Interval
    <3> QED BY <2>2, <3>2
  <2>4. IsFiniteSet(J)
    BY <2>3, FS_Subset
  <2> QED BY <2>1, <2>4
<1>8. CASE Head(s) \in C
  <2>1. s[1].qty \in 0..Qty
    BY <1>1
  <2>2. Quantity(s, J \cup {1}) = Quantity(s, J) + s[1].qty
    BY <1>7, <2>1, LotsAdd
  <2> QED BY <1>1, <1>5, <1>6, <1>8, <2>2 DEF Sum, t
<1>9. CASE Head(s) \notin C
  <2>1. Sum(s, C) = Sum(t, C)
    BY <1>5, <1>6, <1>9 DEF Sum
  <2> QED BY <1>3, <1>9, <2>1 DEF t
<1> QED BY <1>8, <1>9

-----------------------------------------------------------------------------
(* Whose fills, and what a message is worth among those of C.               *)
Fills(o)  == {m \in Message : m.to = "process" /\ m.type = "Filled" /\ m.order = o}
Trades(o) == {r \in ReportSet : r.type = "TRADE" /\ r.order = o}
Worth(m, C) == IF m \in C THEN m.qty ELSE 0

(* Filled in the answer to its post: such an order is counted twice.        *)
Doubled(o) == o \in Instant /\ exch[o].state = "filled"

(* Only fills carry a quantity, and of orders the client tracks.  An order  *)
(* nobody executed has executed nothing, and one executed in full is over.  *)
FillTypes ==
  /\ \A m \in Held(bus) : IF m.type = "Filled" THEN m.order \in DOMAIN tracked /\ m.qty \in 0..Qty
                          ELSE m.qty = 0
  /\ \A r \in Held(stream) : r.qty \in 0..Qty
  /\ \A o \in DOMAIN tracked :
       /\ tracked[o].filled \in Nat
       /\ tracked[o].status = "FILLED" => tracked[o].filled >= Qty
  /\ \A o \in Orders :
       /\ post[o] \in {"filled", "fill"} => Doubled(o)
       /\ exch[o].state = "none" => exch[o].done = 0
       /\ exch[o].done = Qty => exch[o].state = "filled"

(* Inductive: the copy, the events for it and the reports of it never add   *)
(* up to more than the exchange executed.                                   *)
FillsWithin ==
  FillTypes /\ \A o \in DOMAIN tracked : Doubled(o) \/ Counted(o) <= exch[o].done

(* The queue is not full: nothing that is sent now is dropped.              *)
Room == Len(bus) < BusCapacity

(* What may be put on the bus, and when.                                    *)
ForThread(m, o) ==
  \/ post[o] \in {"accepted", "filled"} /\ m = Event("Accepted", o, 0)
  \/ post[o] = "fill" /\ m = Event("Filled", o, Qty)
  \/ post[o] \in {"refused", "failed"} /\ m = Event("Rejected", o, 0)
  \/ deletes[o] = "canceled" /\ o \in DOMAIN tracked /\ m = Event("Canceled", o, 0)

ForHead(m) ==
  \/ m = [Head(bus) EXCEPT !.to = "exec"] /\ Head(bus).to = "risk"
  \/ m = [Head(bus) EXCEPT !.to = "topic"] /\ ProcessEvent
  \/ Head(bus).to = "risk" /\ Head(bus).type = "Submit"
     /\ m = Event("Denied", Head(bus).order, 0)
  \/ /\ Head(bus).to = "exec" /\ Head(bus).type = "Submit"
     /\ \/ m = Event("Submitted", Head(bus).order, 0)
        \/ /\ ~connected /\ UNCHANGED <<clientVars, fresh>>
           /\ m = [Event("Rejected", Head(bus).order, 0) EXCEPT !.to = "topic"]

News(m) ==
  \/ BusAnswers(m) /\ ForHead(m)
  \/ /\ BusGets(m)
     /\ \/ \E o \in Orders : \/ \E type \in CommandTypes : m = Command("risk", type, o)
                                  /\ (type = "Submit" => o \in fresh)
                             \/ m = Event("Submitted", o, 0)
                             \/ ForThread(m, o)
        \/ /\ ReadReport /\ Head(stream).order \in DOMAIN tracked
           /\ m = ReportEvent(Head(stream))

(* The head of the queue is taken and nothing comes in its place.           *)
BusLosesOne ==
  BusLoses /\ Head(bus).to # "process" /\ (Head(bus).to = "topic" => OnEvent)

LEMMA NewsOnly ==
  ASSUME QueuesOK, StatesOK, TokenInv, [Next]_vars
  PROVE  bus' = bus \/ BusLosesOne \/ \E m : News(m)
<1> USE DEF connVars, sentVars, clientVars, flowVars, vars
<1> DEFINE Goal == bus' = bus \/ BusLosesOne \/ \E m : News(m)
<1> SUFFICES Goal
  OBVIOUS
<1>1. ASSUME NEW o \in Orders, NEW type \in CommandTypes, BusGets(Command("risk", type, o)),
             type = "Submit" => o \in fresh
      PROVE  Goal
  BY <1>1 DEF News
<1>2. ASSUME NEW o \in Orders, BusGets(Event("Submitted", o, 0)) PROVE Goal
  BY <1>2 DEF News
<1>3. ASSUME NEW m, BusAnswers(m), ForHead(m) PROVE Goal
  BY <1>3 DEF News
<1>4. ASSUME NEW o \in Orders, NEW m, BusGets(m), ForThread(m, o) PROVE Goal
  BY <1>4 DEF News
<1>5. ASSUME ReadReport PROVE Goal
  BY <1>5, BusEffects DEF News, ReadReport
<1>6. bus' = bus \/ BusLosesOne => Goal
  OBVIOUS
<1> HIDE DEF Goal
<1>7. CASE ProgramStep
  <2>1. listing # <<>> => Head(listing) \in Orders /\ Head(listing) \in fresh
    <3> SUFFICES ASSUME listing # <<>> PROVE Head(listing) \in Orders /\ Head(listing) \in fresh
      OBVIOUS
    <3>1. 1 \in DOMAIN listing /\ Head(listing) = listing[1] /\ Head(listing) \in Orders
      BY TailHolds DEF StatesOK
    <3> QED BY <3>1 DEF TokenInv, ListInv
  <2>2. ASSUME NEW o \in Orders, o \in fresh, Submit(o) PROVE Goal
    BY <1>1, <2>2, BusEffects DEF CommandTypes
  <2>3. ASSUME NEW o \in Orders, NEW type \in {"Cancel", "Modify", "CancelAll"}, Send(type, o)
        PROVE  Goal
    BY <1>1, <2>3, BusEffects DEF CommandTypes
  <2>4. ASSUME NEW o \in Orders, SubmitDirect(o) PROVE Goal
    BY <1>2, <2>4, BusEffects
  <2>5. CASE (\E list \in Lists : SubmitList(list)) \/ OpenSession \/ CloseSession
             \/ SyncOpenOrders
    BY <1>6, <2>5 DEF SubmitList, OpenSession, CloseSession, Connect, Disconnect,
                      SyncOpenOrders, CancelOrders
  <2> QED BY <1>7, <2>1, <2>2, <2>3, <2>4, <2>5 DEF ProgramStep, SubmitOne, SubmitNext
<1>8. CASE RiskExecute
  <2>1. Head(bus).to = "risk"
    BY <1>8 DEF RiskExecute, Serving
  <2> QED BY <1>3, <1>6, <1>8, <2>1, BusEffects DEF ForHead, BusLosesOne
<1>9. CASE ExecSubmit
  <2>1. Head(bus).to = "exec" /\ Head(bus).type = "Submit"
    BY <1>9 DEF ExecSubmit, Serving
  <2> DEFINE o == Head(bus).order
  <2>2. ASSUME BusAnswers(Event("Submitted", o, 0)) PROVE Goal
    BY <1>3, <2>1, <2>2 DEF ForHead
  <2>3. ASSUME ~connected, BusAnswers([Event("Rejected", o, 0) EXCEPT !.to = "topic"]) PROVE Goal
    <3>1. UNCHANGED <<clientVars, fresh>>
      BY <1>9, <2>3 DEF ExecSubmit
    <3> QED BY <1>3, <2>1, <2>3, <3>1 DEF ForHead
  <2>4. \/ BusAnswers(Event("Submitted", o, 0))
        \/ ~connected /\ BusAnswers([Event("Rejected", o, 0) EXCEPT !.to = "topic"])
    BY <1>9, BusEffects DEF ExecSubmit, SubmitOrder
  <2> QED BY <2>2, <2>3, <2>4
<1>10. CASE ExecCancel \/ ExecIgnore \/ OnEvent
  <2>1. Head(bus).to # "process" /\ (Head(bus).to = "topic" => OnEvent)
    BY <1>10 DEF ExecCancel, ExecIgnore, OnEvent, Serving
  <2> QED BY <1>6, <1>10, <2>1, BusEffects DEF BusLosesOne
<1>11. CASE ProcessEvent
  BY <1>3, <1>11, BusEffects DEF ForHead
<1>12. CASE Joined \/ StreamError \/ StreamDial \/ StreamUp \/ StreamExit
  BY <1>6, <1>12 DEF Joined, StreamError, StreamDial, StreamUp, StreamExit
<1>13. ASSUME NEW o \in Orders, AnswerPost(o) PROVE Goal
  <2>1. \A type \in {"Accepted", "Filled", "Rejected"} : \A n \in {0, Qty} :
          Fits(Event(type, o, n))
    BY EventFits, QtyAssumption DEF EventTypes
  <2>2. PICK m : ForThread(m, o) /\ bus' = Post(bus, m)
                 /\ \E type \in {"Accepted", "Filled", "Rejected"} : \E n \in {0, Qty} :
                      m = Event(type, o, n)
    BY <1>13 DEF AnswerPost, Emit, ForThread
  <2> QED BY <1>4, <2>1, <2>2 DEF BusGets
<1>14. ASSUME NEW o \in Orders, AnswerDelete(o) PROVE Goal
  BY <1>4, <1>6, <1>14, BusEffects DEF ForThread, AnswerDelete
<1>15. ASSUME NEW o \in Orders, ExchangeStep(o) PROVE bus' = bus
  BY <1>15 DEF ExchangeStep, AnswersOrder, AnswersCancel, ExchangeAccept,
     ExchangeFillAtOnce, ExchangeRefuse, PostLost, ExchangeTrade, ExchangeExpire,
     ExchangeCancel, CancelFails, ExchangeOnly
<1>16. CASE UNCHANGED vars
  BY <1>6, <1>16
<1> QED BY <1>5, <1>6, <1>7, <1>8, <1>9, <1>10, <1>11, <1>12, <1>13, <1>14, <1>15, <1>16
        DEF Next, ServeStep, ClientStep, StreamStep

(* How the client's copies change: not at all, by new copies of orders it   *)
(* never sent, or by an event.                                              *)
Sends(os) ==
  /\ os \subseteq Orders \ DOMAIN tracked /\ SendOrders(os)
  /\ \A o \in os : posts[o] = 0 /\ post[o] = "none" /\ exch[o].state = "none"
  /\ UNCHANGED <<exch, stream, deletes>>

LEMMA TrackedMoves ==
  ASSUME QueuesOK, StatesOK, TokenInv, TrackedInv, [Next]_vars
  PROVE  /\ tracked' = tracked \/ ProcessEvent \/ \E os \in SUBSET Orders : Sends(os)
         /\ DOMAIN tracked \subseteq DOMAIN tracked'
<1> USE DEF connVars, sentVars, clientVars, flowVars, vars
<1> DEFINE Goal == tracked' = tracked \/ ProcessEvent \/ \E os \in SUBSET Orders : Sends(os)
<1>1. tracked' = tracked \/ ProcessEvent => Goal
  OBVIOUS
<1>2. ASSUME NEW os \in SUBSET Orders, SendOrders(os), \A o \in os : Waiting(o),
             UNCHANGED <<exch, stream, deletes>>
      PROVE  Goal
  <2>1. ASSUME NEW o \in os
        PROVE  posts[o] = 0 /\ post[o] = "none" /\ exch[o].state = "none"
               /\ o \notin DOMAIN tracked
    BY <1>2 DEF TokenInv, OneToken, TrackedInv
  <2>2. os \subseteq Orders \ DOMAIN tracked
    BY <2>1
  <2> QED BY <1>2, <2>1, <2>2 DEF Sends
<1>3. ASSUME NEW p \in Orders, NEW b, SubmitOrder(p, b), Waiting(p) PROVE Goal
  <2>1. {p} \in SUBSET Orders /\ \A o \in {p} : Waiting(o)
    BY <1>3
  <2>2. UNCHANGED <<exch, stream, deletes>> /\ (tracked' = tracked \/ SendOrders({p}))
    BY <1>3 DEF SubmitOrder
  <2> QED BY <1>1, <1>2, <2>1, <2>2
<1> HIDE DEF Goal
<1>4. ASSUME StreamUp PROVE Goal
  <2> DEFINE os == {pending_orders[i] : i \in DOMAIN pending_orders}
  <2>1. SendOrders(os) /\ UNCHANGED <<exch, stream, deletes>>
    BY <1>4 DEF StreamUp
  <2>2. os \in SUBSET Orders
    BY ElementOfSeq, LenProperties DEF StatesOK
  <2>3. \A o \in os : Waiting(o)
    BY DEF Waiting, Buffered, Held
  <2> HIDE DEF os
  <2> QED BY <1>2, <2>1, <2>2, <2>3
<1>5. ASSUME ProgramStep PROVE Goal
  <2>1. ASSUME NEW o \in Orders, SubmitDirect(o) PROVE Goal
    BY <1>3, <2>1 DEF SubmitDirect, Waiting
  <2>2. ASSUME SyncOpenOrders \/ OpenSession \/ CloseSession \/ SubmitNext
               \/ (\E list \in Lists : SubmitList(list))
        PROVE  Goal
    BY <1>1, <2>2 DEF SyncOpenOrders, CancelOrders, OpenSession, CloseSession, Connect,
                      Disconnect, SubmitNext, Submit, SubmitList
  <2>3. ASSUME NEW o \in Orders, NEW type, SubmitOne(o) \/ Send(type, o)
        PROVE  Goal
    BY <1>1, <2>3 DEF SubmitOne, Submit, Send
  <2> QED BY <1>5, <2>1, <2>2, <2>3 DEF ProgramStep
<1>6. ASSUME ExecSubmit PROVE Goal
  <2>1. bus # <<>> /\ Head(bus).type = "Submit"
    BY <1>6 DEF ExecSubmit, Serving
  <2>2. Head(bus).order \in Orders /\ Waiting(Head(bus).order)
    BY <2>1, HeadFits DEF Waiting, Submitting
  <2>3. SubmitOrder(Head(bus).order, Tail(bus)) \/ tracked' = tracked
    BY <1>6 DEF ExecSubmit
  <2> QED BY <1>1, <1>3, <2>2, <2>3
<1>7. ASSUME RiskExecute \/ ExecCancel \/ ExecIgnore \/ OnEvent PROVE Goal
  BY <1>1, <1>7 DEF RiskExecute, ExecCancel, CancelOrders, ExecIgnore, OnEvent
<1>8. ASSUME Joined \/ StreamError \/ StreamDial \/ StreamExit \/ ReadReport PROVE Goal
  BY <1>1, <1>8 DEF Joined, StreamError, StreamDial, StreamExit, ReadReport
<1>9. ASSUME NEW p \in Orders, AnswerPost(p) \/ AnswerDelete(p) \/ ExchangeStep(p)
      PROVE  Goal
  BY <1>1, <1>9 DEF AnswerPost, AnswerDelete, ExchangeStep, AnswersOrder, AnswersCancel,
     ExchangeAccept, ExchangeFillAtOnce, ExchangeRefuse, PostLost, ExchangeTrade,
     ExchangeExpire, ExchangeCancel, CancelFails, ExchangeOnly
<1>10. ASSUME UNCHANGED vars PROVE Goal
  BY <1>1, <1>10
<1>11. Goal
  BY <1>1, <1>4, <1>5, <1>6, <1>7, <1>8, <1>9, <1>10
  DEF Next, ServeStep, ClientStep, StreamStep
<1>12. ProcessEvent => DOMAIN tracked \subseteq DOMAIN tracked'
  BY DEF ProcessEvent
<1>13. \A os : Sends(os) => DOMAIN tracked \subseteq DOMAIN tracked'
  BY DEF Sends, SendOrders
<1> QED BY <1>11, <1>12, <1>13 DEF Goal

LEMMA ReportEventQty ==
  ASSUME NEW r \in ReportSet
  PROVE  /\ ReportEvent(r).type = "Filled" => r.type = "TRADE" /\ ReportEvent(r).qty = r.qty
         /\ ReportEvent(r).type # "Filled" => r.type # "TRADE" /\ ReportEvent(r).qty = 0
         /\ ReportEvent(r).type = "Rejected" => r.type = "REJECTED"
<1>1. r.type \in ReportTypes
  BY DEF ReportSet
<1>2. CASE r.type \in {"NEW", "TRADE"}
  BY <1>1, <1>2 DEF ReportEvent, Event
<1>3. CASE r.type \in {"REJECTED", "CANCELED", "EXPIRED"}
  BY <1>1, <1>3 DEF ReportEvent, Event
<1> QED BY <1>1, <1>2, <1>3 DEF ReportTypes

(* A step of the exchange changes one order, and reports it.                *)
LEMMA ExchangeMoves ==
  ASSUME StatesOK, TokenInv, NEW p \in Orders, ExchangeStep(p)
  PROVE  /\ \A o \in Orders \ {p} : UNCHANGED <<exch[o], post[o], deletes[o]>>
         /\ UNCHANGED <<bus, tracked, connVars, ws, posts, pending_orders>>
         /\ exch[p].state \in {"filled", "canceled", "refused"} => exch'[p] = exch[p]
<1>1. UNCHANGED <<bus, tracked, connVars, ws, posts, pending_orders>>
  BY DEF ExchangeStep, AnswersOrder, AnswersCancel, ExchangeAccept, ExchangeFillAtOnce,
     ExchangeRefuse, PostLost, ExchangeTrade, ExchangeExpire, ExchangeCancel, CancelFails,
     ExchangeOnly
<1>2. ASSUME NEW o \in Orders \ {p} PROVE UNCHANGED <<exch[o], post[o], deletes[o]>>
  BY DEF ExchangeStep, AnswersOrder, AnswersCancel, ExchangeAccept, ExchangeFillAtOnce,
     ExchangeRefuse, PostLost, ExchangeTrade, ExchangeExpire, ExchangeCancel, CancelFails,
     Answered, StatesOK
<1>3. ASSUME exch[p].state \in {"filled", "canceled", "refused"} PROVE exch'[p] = exch[p]
  <2>1. post[p] # "out" /\ ~Live(p)
    BY <1>3 DEF TokenInv, OneToken, Live
  <2> QED
    BY <2>1 DEF ExchangeStep, AnswersOrder, AnswersCancel, ExchangeAccept,
       ExchangeFillAtOnce, ExchangeRefuse, PostLost, ExchangeTrade, ExchangeExpire,
       ExchangeCancel, CancelFails
<1> QED BY <1>1, <1>2, <1>3

(* Where reports and the orders of the exchange change.                     *)
LEMMA StreamMoves ==
  ASSUME [Next]_vars
  PROVE  \/ UNCHANGED <<exch, stream>>
         \/ StreamError \/ ReadReport \/ \E p \in Orders : ExchangeStep(p)
<1> USE DEF connVars, sentVars, clientVars, flowVars, vars
<1>1. CASE ProgramStep
  BY <1>1 DEF ProgramStep, SubmitOne, Submit, SubmitDirect, SubmitOrder, Send,
     SubmitList, SubmitNext, SyncOpenOrders, CancelOrders, OpenSession, CloseSession,
     Connect, Disconnect
<1>2. CASE ServeStep
  BY <1>2 DEF ServeStep, RiskExecute, ExecSubmit, SubmitOrder, ExecCancel,
     CancelOrders, ExecIgnore, ProcessEvent, OnEvent
<1>3. CASE ClientStep
  <2>1. Joined \/ StreamDial \/ StreamUp \/ StreamExit => UNCHANGED <<exch, stream>>
    BY DEF Joined, StreamDial, StreamUp, StreamExit
  <2>2. \A o \in Orders : AnswerPost(o) \/ AnswerDelete(o) => UNCHANGED <<exch, stream>>
    BY DEF AnswerPost, AnswerDelete
  <2> QED BY <1>3, <2>1, <2>2 DEF ClientStep, StreamStep
<1>4. CASE UNCHANGED vars
  BY <1>4
<1> QED BY <1>1, <1>2, <1>3, <1>4 DEF Next

(* What an order filled at the exchange stays.                              *)
LEMMA DoubledStays ==
  ASSUME StatesOK, TokenInv, [Next]_vars, NEW o \in Orders
  PROVE  /\ Doubled(o) => Doubled(o)'
         /\ exch[o].state \in {"filled", "canceled", "refused"} => exch'[o] = exch[o]
<1>1. CASE exch' = exch
  BY <1>1 DEF Doubled
<1>2. ASSUME NEW p \in Orders, ExchangeStep(p)
      PROVE  exch[o].state \in {"filled", "canceled", "refused"} => exch'[o] = exch[o]
  BY <1>2, ExchangeMoves
<1>3. ReadReport \/ StreamError => exch' = exch
  BY DEF ReadReport, StreamError
<1> QED BY <1>1, <1>2, <1>3, StreamMoves DEF Doubled

(* Messages that carry a quantity speak of an order the client tracks.      *)
LEMMA FilledAreTracked ==
  ASSUME QueuesOK, StatesOK, TokenInv, TrackedInv, FillTypes, [Next]_vars
  PROVE  \A m \in Held(bus') : IF m.type = "Filled"
                               THEN m.order \in DOMAIN tracked /\ m.qty \in 0..Qty
                               ELSE m.qty = 0
<1> DEFINE Good(m) == IF m.type = "Filled" THEN m.order \in DOMAIN tracked /\ m.qty \in 0..Qty
                      ELSE m.qty = 0
<1>1. \A m \in Held(bus) : Good(m)
  BY DEF FillTypes
<1>2. ASSUME NEW m, News(m) PROVE Good(m)
  <2>1. CASE ForHead(m) /\ BusAnswers(m)
    <3>1. Good(Head(bus)) /\ Fits(Head(bus))
      BY <1>1, <2>1, HeadFits DEF BusAnswers
    <3>2. \A to : Good([Head(bus) EXCEPT !.to = to])
      BY <3>1 DEF Fits, Message
    <3>3. \A o : /\ Good(Event("Denied", o, 0)) /\ Good(Event("Submitted", o, 0))
                 /\ Good([Event("Rejected", o, 0) EXCEPT !.to = "topic"])
      BY DEF Event
    <3> HIDE DEF Good
    <3> QED BY <2>1, <3>2, <3>3 DEF ForHead
  <2>2. ASSUME NEW o \in Orders, ForThread(m, o) PROVE Good(m)
    BY <2>2, QtyAssumption DEF ForThread, Event, TrackedInv
  <2>3. ASSUME ReadReport, Head(stream).order \in DOMAIN tracked, m = ReportEvent(Head(stream))
        PROVE  Good(m)
    <3>1. Head(stream) \in Held(stream) /\ Head(stream) \in ReportSet
      BY <2>3, TailHolds DEF QueuesOK, ReadReport
    <3> QED BY <2>3, <3>1, ReportEventQty, ReportEventFits DEF FillTypes
  <2> QED BY <1>2, <2>1, <2>2, <2>3 DEF News, Command, Event, CommandTypes
<1>3. BusLosesOne => BusLoses
  BY DEF BusLosesOne
<1> QED BY <1>1, <1>2, <1>3, NewsOnly, BusStep DEF News

(* Where the threads that post orders change.                               *)
LEMMA PostMoves ==
  ASSUME QueuesOK, StatesOK, [Next]_vars
  PROVE  \/ UNCHANGED <<post, exch>>
         \/ exch' = exch /\ \E os \in SUBSET Orders : SendOrders(os)
         \/ \E p \in Orders : AnswerPost(p) \/ ExchangeStep(p)
<1> USE DEF connVars, sentVars, clientVars, flowVars, vars
<1> DEFINE Goal == \/ UNCHANGED <<post, exch>>
                   \/ exch' = exch /\ \E os \in SUBSET Orders : SendOrders(os)
                   \/ \E p \in Orders : AnswerPost(p) \/ ExchangeStep(p)
<1> SUFFICES Goal
  OBVIOUS
<1>1. ASSUME NEW p \in Orders, NEW b, SubmitOrder(p, b) PROVE Goal
  <2>1. {p} \in SUBSET Orders /\ exch' = exch /\ (post' = post \/ SendOrders({p}))
    BY <1>1 DEF SubmitOrder
  <2> QED BY <2>1
<1>2. CASE StreamUp
  <2>1. {pending_orders[i] : i \in DOMAIN pending_orders} \in SUBSET Orders
    BY ElementOfSeq, LenProperties DEF StatesOK
  <2> QED BY <1>2, <2>1 DEF StreamUp
<1>3. UNCHANGED <<post, exch>> => Goal
  OBVIOUS
<1>4. ASSUME NEW p \in Orders, AnswerPost(p) \/ ExchangeStep(p) PROVE Goal
  BY <1>4
<1> HIDE DEF Goal
<1>5. CASE ProgramStep
  <2>1. ASSUME NEW o \in Orders, SubmitDirect(o) PROVE Goal
    BY <1>1, <2>1 DEF SubmitDirect
  <2>2. CASE SyncOpenOrders \/ OpenSession \/ CloseSession \/ SubmitNext
             \/ (\E list \in Lists : SubmitList(list))
    BY <1>3, <2>2 DEF SyncOpenOrders, CancelOrders, OpenSession, CloseSession, Connect,
                      Disconnect, SubmitNext, Submit, SubmitList
  <2>3. ASSUME NEW o \in Orders, NEW type, SubmitOne(o) \/ Send(type, o) PROVE Goal
    BY <1>3, <2>3 DEF SubmitOne, Submit, Send
  <2> QED BY <1>5, <2>1, <2>2, <2>3 DEF ProgramStep
<1>6. CASE ExecSubmit
  <2>1. Head(bus).order \in Orders
    BY <1>6, HeadFits DEF ExecSubmit, Serving
  <2>2. SubmitOrder(Head(bus).order, Tail(bus)) \/ UNCHANGED <<post, exch>>
    BY <1>6 DEF ExecSubmit
  <2> QED BY <1>1, <1>3, <2>1, <2>2
<1>7. CASE RiskExecute \/ ExecCancel \/ ExecIgnore \/ ProcessEvent \/ OnEvent
  BY <1>3, <1>7 DEF RiskExecute, ExecCancel, CancelOrders, ExecIgnore, ProcessEvent, OnEvent
<1>8. CASE Joined \/ StreamError \/ StreamDial \/ StreamExit \/ ReadReport
  BY <1>3, <1>8 DEF Joined, StreamError, StreamDial, StreamExit, ReadReport
<1>9. ASSUME NEW p \in Orders, AnswerDelete(p) PROVE Goal
  BY <1>3, <1>9 DEF AnswerDelete
<1>10. CASE UNCHANGED vars
  BY <1>3, <1>10
<1> QED BY <1>2, <1>4, <1>5, <1>6, <1>7, <1>8, <1>9, <1>10
        DEF Next, ServeStep, ClientStep, StreamStep

LEMMA FillTypesStep ==
  ASSUME QueuesOK, StatesOK, TokenInv, TrackedInv, FillTypes, [Next]_vars
  PROVE  FillTypes'
<1> USE DEF connVars, sentVars, clientVars, flowVars, vars
<1> DEFINE OrderOK(o) == /\ post[o] \in {"filled", "fill"} => Doubled(o)
                         /\ exch[o].state = "none" => exch[o].done = 0
                         /\ exch[o].done = Qty => exch[o].state = "filled"
           CopyOK(o)  == /\ tracked[o].filled \in Nat
                         /\ tracked[o].status = "FILLED" => tracked[o].filled >= Qty
<1>1. /\ \A o \in Orders : OrderOK(o)
      /\ \A o \in DOMAIN tracked : CopyOK(o)
      /\ DOMAIN tracked \subseteq DOMAIN tracked'
  BY TrackedMoves DEF FillTypes
<1>2. \A m \in Held(bus') : IF m.type = "Filled"
                            THEN m.order \in DOMAIN tracked' /\ m.qty \in 0..Qty
                            ELSE m.qty = 0
  BY <1>1, FilledAreTracked
<1>3. \A r \in Held(stream') : r.qty \in 0..Qty
  <2>1. ASSUME stream # <<>>, stream' = Tail(stream) PROVE Held(stream') \subseteq Held(stream)
    BY <2>1, TailHolds DEF QueuesOK
  <2>2. stream' = <<>> => Held(stream') = {}
    BY DEF Held
  <2>3. ASSUME NEW rs \in Seq(ReportSet), Reports(rs)
        PROVE  Held(stream') \subseteq Held(stream) \cup Held(rs)
    BY <2>3, ConcatHolds DEF Reports, QueuesOK
  <2>4. ASSUME NEW p \in Orders, ExchangeStep(p)
        PROVE  \/ stream' = stream
               \/ \E rs \in Seq(ReportSet) : Reports(rs) /\ \A r \in Held(rs) : r.qty \in 0..Qty
    <3> DEFINE Goal == \E rs \in Seq(ReportSet) :
                         Reports(rs) /\ \A r \in Held(rs) : r.qty \in 0..Qty
    <3>1. ASSUME NEW type \in ReportTypes, NEW n \in 0..Qty, Reports(<<Report(type, p, n)>>)
          PROVE  Goal
      <4>1. Report(type, p, n) \in ReportSet /\ Report(type, p, n).qty = n
        BY QtyAssumption DEF Report, ReportSet
      <4>2. <<Report(type, p, n)>> \in Seq(ReportSet)
            /\ Held(<<Report(type, p, n)>>) = {Report(type, p, n)}
        BY <4>1 DEF Held
      <4> QED BY <3>1, <4>1, <4>2
    <3>2. ASSUME Reports(<<>>) PROVE Goal
      <4>1. <<>> \in Seq(ReportSet) /\ Held(<<>>) = {}
        BY DEF Held
      <4> QED BY <3>2, <4>1
    <3>3. ASSUME Reports(<<Report("NEW", p, 0), Report("TRADE", p, Qty)>>) PROVE Goal
      <4> DEFINE r == Report("NEW", p, 0)
                 q == Report("TRADE", p, Qty)
      <4>1. r \in ReportSet /\ q \in ReportSet /\ r.qty \in 0..Qty /\ q.qty \in 0..Qty
        BY QtyAssumption DEF Report, ReportSet, ReportTypes
      <4> HIDE DEF r, q
      <4>2. DOMAIN <<r, q>> = {1, 2}
        OBVIOUS
      <4>3. <<r, q>> \in Seq(ReportSet) /\ Held(<<r, q>>) = {r, q}
        BY <4>1, <4>2 DEF Held
      <4>4. \A x \in Held(<<r, q>>) : x.qty \in 0..Qty
        BY <4>1, <4>3
      <4>5. Reports(<<r, q>>)
        BY <3>3 DEF r, q
      <4> QED BY <4>3, <4>4, <4>5
    <3> HIDE DEF Goal
    <3>4. 0 \in 0..Qty /\ \A n \in 1..Qty : n \in 0..Qty
      BY QtyAssumption
    <3>5. PostLost(p) \/ CancelFails(p) => stream' = stream
      BY DEF PostLost, CancelFails
    <3>6. ExchangeAccept(p) \/ ExchangeRefuse(p) \/ ExchangeExpire(p) \/ ExchangeCancel(p)
            => Goal
      BY <3>1, <3>2, <3>4
      DEF ExchangeAccept, ExchangeRefuse, ExchangeExpire, ExchangeCancel, ReportTypes
    <3>7. ASSUME NEW n \in 1..Qty, ExchangeTrade(p, n) PROVE Goal
      BY <3>1, <3>4, <3>7 DEF ExchangeTrade, ReportTypes
    <3>8. ExchangeFillAtOnce(p) => Goal
      BY <3>3 DEF ExchangeFillAtOnce
    <3> QED BY <2>4, <3>5, <3>6, <3>7, <3>8 DEF Goal, ExchangeStep, AnswersOrder, AnswersCancel
  <2>5. StreamError \/ ReadReport => stream' = <<>> \/ (stream # <<>> /\ stream' = Tail(stream))
    BY DEF StreamError, ReadReport
  <2>6. \A r \in Held(stream) : r.qty \in 0..Qty
    BY DEF FillTypes
  <2> QED BY <2>1, <2>2, <2>3, <2>4, <2>5, <2>6, StreamMoves
<1>4. \A o \in DOMAIN tracked' : CopyOK(o)'
  <2>1. CASE tracked' = tracked
    BY <1>1, <2>1
  <2>2. ASSUME NEW os \in SUBSET Orders, Sends(os), NEW o \in DOMAIN tracked' PROVE CopyOK(o)'
    <3>1. tracked'[o] = IF o \in os THEN NewOrder ELSE tracked[o]
      BY <2>2 DEF Sends, SendOrders
    <3>2. o \notin os => o \in DOMAIN tracked
      BY <2>2 DEF Sends, SendOrders
    <3> QED BY <1>1, <3>1, <3>2 DEF NewOrder
  <2>3. ASSUME ProcessEvent, NEW o \in DOMAIN tracked' PROVE CopyOK(o)'
    <3> DEFINE e == Head(bus)
    <3>1. bus # <<>> /\ e.to = "process" /\ DOMAIN tracked' = DOMAIN tracked
      BY <2>3 DEF ProcessEvent, Serving
    <3>2. e \in Held(bus) /\ e.qty \in Nat
      BY <3>1, HeadFits, QtyAssumption DEF FillTypes
    <3>3. CASE ~OwnCopy(e) \/ e.order # o
      <4>1. tracked'[o] = tracked[o]
        BY <2>3, <3>1, <3>3 DEF ProcessEvent
      <4> QED BY <1>1, <3>1, <4>1
    <3>4. CASE OwnCopy(e) /\ e.order = o
      <4>1. tracked'[o] = [status |-> StatusAfter(e), filled |-> tracked[o].filled + e.qty]
        BY <2>3, <3>1, <3>4 DEF ProcessEvent, FilledAfter
      <4>2. tracked[o].filled \in Nat
        BY <1>1, <3>1
      <4>3. StatusAfter(e) = "FILLED" => tracked[o].filled + e.qty >= Qty
        BY <3>4 DEF StatusAfter, OwnCopy
      <4> QED BY <3>2, <4>1, <4>2, <4>3
    <3> QED BY <3>3, <3>4
  <2> QED BY <2>1, <2>2, <2>3, TrackedMoves
<1>5. ASSUME NEW o \in Orders PROVE OrderOK(o)'
  <2>1. CASE post'[o] = post[o] /\ exch'[o] = exch[o]
    BY <1>1, <2>1 DEF Doubled
  <2>2. ASSUME NEW os, os \subseteq Orders, SendOrders(os), exch' = exch PROVE OrderOK(o)'
    <3>1. post'[o] = post[o] \/ post'[o] = "out"
      BY <2>2, OrdersSent
    <3> QED BY <1>1, <2>2, <3>1 DEF Doubled
  <2>3. ASSUME NEW p \in Orders, AnswerPost(p) PROVE OrderOK(o)'
    <3>1. exch' = exch /\ (post'[o] \in {"filled", "fill"} => post[o] \in {"filled", "fill"})
      BY <2>3 DEF AnswerPost, StatesOK
    <3> QED BY <1>1, <3>1 DEF Doubled
  <2>4. ASSUME NEW p \in Orders, ExchangeStep(p) PROVE OrderOK(o)'
    <3>1. CASE p # o
      <4>1. post'[o] = post[o] /\ exch'[o] = exch[o]
        BY <2>4, <3>1, ExchangeMoves
      <4> QED BY <2>1, <4>1
    <3>2. CASE p = o
      <4>1. OrderOK(o) /\ Qty # 0 /\ Qty \in Nat /\ exch[o].done \in 0..Qty
        BY <1>1, QtyAssumption DEF StatesOK
      <4>2. exch \in [Orders -> [state : ExchangeStates, done : 0..Qty]]
            /\ post \in [Orders -> PostStates]
        BY DEF StatesOK
      <4>3. post[o] = "out" => exch[o].state = "none" /\ exch[o].done = 0
        BY <4>1 DEF TokenInv, OneToken
      <4>4. Live(o) => exch[o].done # Qty /\ post[o] \notin {"out", "filled", "fill"}
        BY <4>1, <4>3 DEF Live, Doubled
      <4>5. CASE ExchangeAccept(o)
        BY <4>1, <4>2, <4>3, <4>5 DEF ExchangeAccept, Answered
      <4>6. CASE ExchangeFillAtOnce(o)
        BY <4>1, <4>2, <4>6 DEF ExchangeFillAtOnce, Answered, Doubled
      <4>7. CASE ExchangeRefuse(o)
        BY <4>1, <4>2, <4>3, <4>7 DEF ExchangeRefuse
      <4>8. CASE PostLost(o)
        BY <4>1, <4>2, <4>3, <4>8 DEF PostLost
      <4>9. CASE ExchangeExpire(o) \/ ExchangeCancel(o)
        BY <4>1, <4>2, <4>4, <4>9 DEF ExchangeExpire, ExchangeCancel
      <4>10. ASSUME NEW n \in 1..Qty, ExchangeTrade(o, n) PROVE OrderOK(o)'
        BY <4>1, <4>2, <4>4, <4>10 DEF ExchangeTrade
      <4>11. CASE CancelFails(o)
        BY <2>1, <4>11 DEF CancelFails
      <4> QED BY <2>4, <3>2, <4>5, <4>6, <4>7, <4>8, <4>9, <4>10, <4>11
              DEF ExchangeStep, AnswersOrder, AnswersCancel
    <3> QED BY <3>1, <3>2
  <2>5. \/ UNCHANGED <<post, exch>>
        \/ exch' = exch /\ \E os \in SUBSET Orders : SendOrders(os)
        \/ \E p \in Orders : AnswerPost(p) \/ ExchangeStep(p)
    BY PostMoves
  <2> HIDE DEF OrderOK
  <2> QED BY <2>1, <2>2, <2>3, <2>4, <2>5
<1> QED BY <1>2, <1>3, <1>4, <1>5 DEF FillTypes

LEMMA WorthNat ==
  ASSUME NEW m, m.qty \in 0..Qty, NEW C
  PROVE  Worth(m, C) \in Nat /\ (m \notin C => Worth(m, C) = 0)
  BY QtyAssumption DEF Worth

LEMMA SumNat ==
  ASSUME NEW S, NEW s \in Seq(S), NEW C
  PROVE  Sum(s, C) \in Nat
  BY SumType

LEMMA BusSum ==
  ASSUME QueuesOK, \A m \in Held(bus) : m.qty \in 0..Qty, NEW C
  PROVE  /\ Sum(bus, C) \in Nat /\ (bus' \in Seq(Message) => Sum(bus', C) \in Nat)
         /\ BusLoses => Sum(bus, C) = Sum(bus', C) + Worth(Head(bus), C)
         /\ \A m : BusGets(m) /\ m.qty \in 0..Qty =>
              /\ Sum(bus', C) <= Sum(bus, C) + Worth(m, C)
              /\ Room => Sum(bus', C) = Sum(bus, C) + Worth(m, C)
         /\ \A m : BusAnswers(m) /\ m.qty \in 0..Qty =>
              /\ Sum(bus', C) + Worth(Head(bus), C) <= Sum(bus, C) + Worth(m, C)
              /\ Room => Sum(bus', C) + Worth(Head(bus), C) = Sum(bus, C) + Worth(m, C)
<1>1. bus \in Seq(Message)
  BY DEF QueuesOK
<1>2. ASSUME NEW b \in Seq(Message), NEW m \in Message, m.qty \in 0..Qty
      PROVE  /\ Sum(Post(b, m), C) <= Sum(b, C) + Worth(m, C)
             /\ Len(b) < BusCapacity => Sum(Post(b, m), C) = Sum(b, C) + Worth(m, C)
  <2>1. Sum(b, C) \in Nat /\ Worth(m, C) \in Nat
    BY <1>2, SumType, QtyAssumption DEF Worth
  <2>2. Sum(Append(b, m), C) = Sum(b, C) + Worth(m, C)
    BY <1>2, SumAppend DEF Worth
  <2>3. CASE Len(b) < BusCapacity
    <3>1. Post(b, m) = Append(b, m)
      BY <2>3 DEF Post
    <3> QED BY <2>1, <2>2, <3>1
  <2>4. CASE ~(Len(b) < BusCapacity)
    <3>1. Post(b, m) = b
      BY <2>4 DEF Post
    <3> QED BY <2>1, <2>4, <3>1
  <2> QED BY <2>3, <2>4
<1>3. ASSUME bus # <<>>
      PROVE  /\ Tail(bus) \in Seq(Message) /\ Sum(Tail(bus), C) \in Nat
             /\ Len(bus) \in Nat /\ Len(Tail(bus)) = Len(bus) - 1
             /\ Sum(bus, C) = Sum(Tail(bus), C) + Worth(Head(bus), C)
             /\ Worth(Head(bus), C) \in Nat
  <2>1. Tail(bus) \in Seq(Message) /\ Len(bus) \in Nat /\ Len(Tail(bus)) = Len(bus) - 1
    BY <1>1, <1>3, HeadTailProperties, LenProperties
  <2>2. Head(bus).qty \in 0..Qty
    BY <1>3, HeadFits
  <2>3. Sum(bus, C) = Sum(Tail(bus), C) + Worth(Head(bus), C)
    BY <1>1, <1>3, <2>2, SumTail DEF Worth
  <2>4. Sum(Tail(bus), C) \in Nat /\ Worth(Head(bus), C) \in Nat
    BY <2>1, <2>2, SumNat, WorthNat
  <2> QED BY <2>1, <2>3, <2>4
<1>4. Sum(bus, C) \in Nat /\ (bus' \in Seq(Message) => Sum(bus', C) \in Nat)
  BY <1>1, SumType
<1>5. BusLoses => Sum(bus, C) = Sum(bus', C) + Worth(Head(bus), C)
  BY <1>3 DEF BusLoses
<1>6. ASSUME NEW m, BusGets(m), m.qty \in 0..Qty
      PROVE  /\ Sum(bus', C) <= Sum(bus, C) + Worth(m, C)
             /\ Room => Sum(bus', C) = Sum(bus, C) + Worth(m, C)
  BY <1>1, <1>2, <1>6 DEF BusGets, Fits, Room
<1>7. ASSUME NEW m, BusAnswers(m), m.qty \in 0..Qty
      PROVE  /\ Sum(bus', C) + Worth(Head(bus), C) <= Sum(bus, C) + Worth(m, C)
             /\ Room => Sum(bus', C) + Worth(Head(bus), C) = Sum(bus, C) + Worth(m, C)
  <2>1. bus # <<>> /\ m \in Message /\ bus' = Post(Tail(bus), m)
    BY <1>7 DEF BusAnswers, Fits
  <2>2. /\ Sum(bus', C) <= Sum(Tail(bus), C) + Worth(m, C)
        /\ Len(Tail(bus)) < BusCapacity => Sum(bus', C) = Sum(Tail(bus), C) + Worth(m, C)
    BY <1>2, <1>3, <1>7, <2>1
  <2>3. Room => Len(Tail(bus)) < BusCapacity
    BY <1>3, <2>1, CapacityAssumption DEF Room
  <2>4. bus' \in Seq(Message) /\ Sum(bus', C) \in Nat /\ Worth(m, C) \in Nat
    <3>1. bus' \in Seq(Message)
      BY <1>3, <2>1, PostHolds
    <3> QED BY <1>4, <1>7, <3>1, QtyAssumption DEF Worth
  <2> QED BY <1>3, <2>1, <2>2, <2>3, <2>4
<1> QED BY <1>4, <1>5, <1>6, <1>7

LEMMA StreamSum ==
  ASSUME QueuesOK, \A r \in Held(stream) : r.qty \in 0..Qty, NEW C
  PROVE  /\ Sum(stream, C) \in Nat /\ Sum(<<>>, C) = 0
         /\ stream # <<>> => /\ Sum(stream, C) = Sum(Tail(stream), C) + Worth(Head(stream), C)
                             /\ Sum(Tail(stream), C) \in Nat
                             /\ Worth(Head(stream), C) \in Nat
         /\ Reports(<<>>) => Sum(stream', C) = Sum(stream, C)
         /\ \A r \in ReportSet : Reports(<<r>>) /\ r.qty \in 0..Qty =>
              /\ Sum(stream', C) = IF ws = "up" THEN Sum(stream, C) + Worth(r, C)
                                   ELSE Sum(stream, C)
         /\ \A r, q \in ReportSet :
              Reports(<<r, q>>) /\ r.qty \in 0..Qty /\ q.qty \in 0..Qty
                /\ r \notin C /\ q \notin C => Sum(stream', C) = Sum(stream, C)
<1>1. stream \in Seq(ReportSet)
  BY DEF QueuesOK
<1>2. Sum(stream, C) \in Nat
  BY <1>1, SumType
<1>3. Sum(<<>>, C) = 0
  <2>1. <<>> \in Seq(ReportSet) /\ DOMAIN <<>> = {}
    OBVIOUS
  <2> QED BY <2>1, SumType
<1>4. ASSUME stream # <<>>
      PROVE  /\ Sum(stream, C) = Sum(Tail(stream), C) + Worth(Head(stream), C)
             /\ Sum(Tail(stream), C) \in Nat /\ Worth(Head(stream), C) \in Nat
  <2>1. Head(stream) \in Held(stream) /\ Tail(stream) \in Seq(ReportSet)
    BY <1>1, <1>4, TailHolds
  <2>2. Head(stream).qty \in 0..Qty
    BY <2>1
  <2>3. Sum(Tail(stream), C) \in Nat /\ Worth(Head(stream), C) \in Nat
    BY <2>1, <2>2, SumNat, WorthNat
  <2>4. Sum(stream, C) = Sum(Tail(stream), C) + Worth(Head(stream), C)
    BY <1>1, <1>4, <2>2, SumTail DEF Worth
  <2> QED BY <2>3, <2>4
<1>5. Reports(<<>>) => stream' = stream
  BY <1>1, ConcatProperties, EmptySeq DEF Reports
<1>6. ASSUME NEW r \in ReportSet, Reports(<<r>>)
      PROVE  stream' = IF ws = "up" THEN Append(stream, r) ELSE stream
  <2>1. stream \o <<r>> = Append(stream, r)
    BY <1>1
  <2> QED BY <1>6, <2>1 DEF Reports
<1>7. ASSUME NEW r \in ReportSet, r.qty \in 0..Qty
      PROVE  Sum(Append(stream, r), C) = Sum(stream, C) + Worth(r, C)
  BY <1>1, <1>7, SumAppend DEF Worth
<1>8. ASSUME NEW r \in ReportSet, NEW q \in ReportSet, Reports(<<r, q>>),
             r.qty \in 0..Qty, q.qty \in 0..Qty, r \notin C, q \notin C
      PROVE  Sum(stream', C) = Sum(stream, C)
  <2>1. stream \o <<r, q>> = Append(Append(stream, r), q) /\ Append(stream, r) \in Seq(ReportSet)
    BY <1>1
  <2>2. Sum(Append(Append(stream, r), q), C) = Sum(Append(stream, r), C)
    <3> DEFINE t == Append(stream, r)
    <3>1. t \in Seq(ReportSet)
      BY <2>1
    <3> HIDE DEF t
    <3>2. Sum(t, C) \in Nat /\ Sum(Append(t, q), C) = Sum(t, C) + 0
      BY <1>8, <3>1, SumNat, SumAppend
    <3>3. Sum(Append(t, q), C) = Sum(t, C)
      BY <3>2
    <3> QED BY <3>3 DEF t
  <2>3. Sum(Append(stream, r), C) = Sum(stream, C)
    BY <1>2, <1>7, <1>8 DEF Worth
  <2> QED BY <1>8, <2>1, <2>2, <2>3 DEF Reports
<1> QED BY <1>2, <1>3, <1>4, <1>5, <1>6, <1>7, <1>8

LEMMA CountedIs ==
  ASSUME QueuesOK, NEW o
  PROVE  Counted(o) = tracked[o].filled + Sum(bus, Fills(o)) + Sum(stream, Trades(o))
<1>1. \A i \in DOMAIN bus : bus[i] \in Message
  BY ElementOfSeq, LenProperties DEF QueuesOK
<1>2. \A i \in DOMAIN stream : stream[i] \in ReportSet
  BY ElementOfSeq, LenProperties DEF QueuesOK
<1>3. FillsAt(o) = At(bus, Fills(o))
  BY <1>1 DEF FillsAt, At, Fills
<1>4. TradesAt(o) = At(stream, Trades(o))
  BY <1>2 DEF TradesAt, At, Trades
<1> QED BY <1>3, <1>4 DEF Counted, Sum

(* Nothing can be lost in a step from here.                                 *)
Safe == Room /\ running /\ ws = "up" /\ "drop" \notin Faults

(* Each step takes from the message or report what it adds to the copy, and *)
(* takes from no order more than it executed.                               *)
LEMMA FillMoves ==
  ASSUME QueuesOK, StatesOK, TokenInv, TrackedInv, FillTypes, [Next]_vars, QueuesOK',
         NEW o \in DOMAIN tracked'
  PROVE  \/ Counted(o)' = exch'[o].done
         \/ Doubled(o)'
         \/ /\ o \in DOMAIN tracked
            /\ Counted(o)' + exch[o].done <= Counted(o) + exch'[o].done
            /\ Safe => Counted(o)' + exch[o].done = Counted(o) + exch'[o].done
<1> DEFINE B  == Sum(bus, Fills(o))
           B1 == Sum(bus', Fills(o))
           T  == Sum(stream, Trades(o))
           T1 == Sum(stream', Trades(o))
           G  == tracked[o].filled
           G1 == tracked'[o].filled
           D  == exch[o].done
           D1 == exch'[o].done
           In(m) == Worth(m, Fills(o))
<1>0. o \in Orders
  <2>1. ProcessEvent => DOMAIN tracked' = DOMAIN tracked
    BY DEF ProcessEvent
  <2>2. \A os \in SUBSET Orders : Sends(os) => DOMAIN tracked' = DOMAIN tracked \cup os
    BY DEF Sends, SendOrders
  <2> QED BY <2>1, <2>2, TrackedMoves DEF TrackedInv
<1>1. Counted(o) = G + B + T
  BY CountedIs
<1>2. Counted(o)' = G1 + B1 + T1
  <2>1. \A i \in DOMAIN bus' : bus'[i] \in Message
    BY ElementOfSeq, LenProperties DEF QueuesOK
  <2>2. \A i \in DOMAIN stream' : stream'[i] \in ReportSet
    BY ElementOfSeq, LenProperties DEF QueuesOK
  <2>3. FillsAt(o)' = At(bus', Fills(o))
    BY <2>1 DEF FillsAt, At, Fills
  <2>4. TradesAt(o)' = At(stream', Trades(o))
    BY <2>2 DEF TradesAt, At, Trades
  <2> QED BY <2>3, <2>4 DEF Counted, Sum
<1>3. /\ \A m \in Held(bus) : m.qty \in 0..Qty
      /\ \A r \in Held(stream) : r.qty \in 0..Qty
  BY QtyAssumption DEF FillTypes
<1>4. B \in Nat /\ B1 \in Nat /\ T \in Nat /\ T1 \in Nat /\ D \in Nat /\ D1 \in Nat
  <2>1. B \in Nat /\ B1 \in Nat /\ T \in Nat /\ T1 \in Nat
    BY SumNat DEF QueuesOK
  <2>2. D \in Nat /\ D1 \in Nat
    BY <1>0, StatesStep, QtyAssumption DEF StatesOK
  <2> QED BY <2>1, <2>2
<1>5. o \in DOMAIN tracked => G \in Nat
  BY DEF FillTypes
(* A message that is no fill of o weighs nothing.                           *)
<1>6. \A m : m.type # "Filled" \/ m.order # o \/ m.to # "process" => In(m) = 0
  BY DEF Worth, Fills
<1> HIDE DEF B, B1, T, T1, G, G1, D, D1, In
<1> DEFINE Goal == \/ Counted(o)' = exch'[o].done
                   \/ Doubled(o)'
                   \/ /\ o \in DOMAIN tracked
                      /\ Counted(o)' + exch[o].done <= Counted(o) + exch'[o].done
                      /\ Safe => Counted(o)' + exch[o].done = Counted(o) + exch'[o].done
<1>7. ASSUME o \in DOMAIN tracked, G1 \in Nat, G1 + B1 + T1 + D <= G + B + T + D1,
             Safe => G1 + B1 + T1 + D = G + B + T + D1
      PROVE  Goal
  BY <1>1, <1>2, <1>4, <1>5, <1>7 DEF D, D1
<1>8. CASE o \notin DOMAIN tracked
  <2>1. PICK os \in SUBSET Orders : Sends(os) /\ o \in os
    <3>1. tracked' # tracked /\ ~ProcessEvent
      BY <1>8 DEF ProcessEvent
    <3>2. \A os \in SUBSET Orders : Sends(os) => DOMAIN tracked' = DOMAIN tracked \cup os
      BY DEF Sends, SendOrders
    <3> QED BY <1>8, <3>1, <3>2, TrackedMoves
  <2>2. G1 = 0
    BY <2>1 DEF Sends, SendOrders, NewOrder, G1
  <2>3. B1 = 0
    <3>1. \A m \in Held(bus') : m \notin Fills(o)
      BY <1>8, FilledAreTracked DEF Fills
    <3>2. \A i \in DOMAIN bus' : bus'[i] \notin Fills(o)
      BY <3>1 DEF Held
    <3> QED BY <3>2, SumType DEF B1, QueuesOK
  <2>4. T1 = 0
    <3>1. stream' = stream /\ \A r \in Held(stream) : r.order # o
      BY <1>8, <2>1 DEF Sends, TrackedInv
    <3>2. \A i \in DOMAIN stream' : stream'[i] \notin Trades(o)
      BY <3>1 DEF Held, Trades
    <3> QED BY <3>2, SumType DEF T1, QueuesOK
  <2>5. D1 = 0
    BY <1>0, <2>1 DEF Sends, FillTypes, D1
  <2> QED BY <1>2, <2>2, <2>3, <2>4, <2>5 DEF D1
<1>9. ASSUME o \in DOMAIN tracked, ~ProcessEvent PROVE G1 = G
  <2>1. ASSUME NEW os \in SUBSET Orders, Sends(os) PROVE tracked'[o] = tracked[o]
    BY <1>9, <2>1 DEF Sends, SendOrders
  <2> QED BY <1>9, <2>1, TrackedMoves DEF G, G1
(* Outside process and the stream, fills are neither made nor taken.        *)
<1>10. ASSUME ~ProcessEvent, ~ReadReport
       PROVE  (B1 <= B /\ (Room => B1 = B)) \/ Doubled(o)
  <2>1. CASE bus' = bus
    BY <1>4, <2>1 DEF B, B1
  <2>2. CASE BusLosesOne
    <3>1. B = B1 + In(Head(bus)) /\ In(Head(bus)) = 0
      BY <1>3, <1>6, <2>2, BusSum DEF BusLosesOne, B, B1, In
    <3> QED BY <1>4, <3>1
  <2>3. ASSUME NEW m, BusAnswers(m), ForHead(m)
        PROVE  B1 <= B /\ (Room => B1 = B)
    <3>1. bus # <<>> /\ Fits(Head(bus)) /\ Head(bus).to # "process"
      BY <1>10, <2>3, HeadFits DEF BusAnswers, ForHead
    <3>2. In(Head(bus)) = 0
      BY <1>6, <3>1
    <3>3. m.to # "process" \/ m.type # "Filled"
      <4>1. [Head(bus) EXCEPT !.to = "exec"].to = "exec"
        BY <3>1 DEF Fits, Message
      <4>2. \A p : Event("Denied", p, 0).type = "Denied"
                   /\ Event("Submitted", p, 0).type = "Submitted"
                   /\ [Event("Rejected", p, 0) EXCEPT !.to = "topic"].type = "Rejected"
        BY DEF Event
      <4> QED BY <1>10, <2>3, <4>1, <4>2 DEF ForHead
    <3>4. In(m) = 0 /\ m \in Held(bus') \cup {m}
      BY <1>6, <3>3
    <3>5. m.qty \in 0..Qty
      <4>1. Head(bus) \in Held(bus) /\ [Head(bus) EXCEPT !.to = "exec"].qty = Head(bus).qty
        BY <3>1, HeadFits DEF Fits, Message
      <4>2. \A p : Event("Denied", p, 0).qty = 0 /\ Event("Submitted", p, 0).qty = 0
                   /\ [Event("Rejected", p, 0) EXCEPT !.to = "topic"].qty = 0
        BY DEF Event
      <4>3. 0 \in 0..Qty
        BY QtyAssumption
      <4> QED BY <1>3, <1>10, <2>3, <4>1, <4>2, <4>3 DEF ForHead
    <3>6. /\ B1 + In(Head(bus)) <= B + In(m)
          /\ Room => B1 + In(Head(bus)) = B + In(m)
      BY <1>3, <2>3, <3>5, BusSum DEF B, B1, In
    <3> QED BY <1>4, <3>2, <3>4, <3>6
  <2>4. ASSUME NEW m, BusGets(m), m.qty \in 0..Qty, In(m) = 0
        PROVE  B1 <= B /\ (Room => B1 = B)
    <3>1. B1 <= B + In(m) /\ (Room => B1 = B + In(m))
      BY <1>3, <2>4, BusSum DEF B, B1, In
    <3> QED BY <1>4, <2>4, <3>1
  <2>5. ASSUME NEW m, BusGets(m), NEW p \in Orders,
               (\E type \in CommandTypes : m = Command("risk", type, p))
                 \/ m = Event("Submitted", p, 0)
        PROVE  B1 <= B /\ (Room => B1 = B)
    <3>1. m.qty = 0 /\ (m.to # "process" \/ m.type # "Filled")
      BY <2>5 DEF Command, Event
    <3> QED BY <1>6, <2>4, <2>5, <3>1, QtyAssumption
  <2>6. ASSUME NEW m, BusGets(m), NEW p \in Orders, ForThread(m, p)
        PROVE  (B1 <= B /\ (Room => B1 = B)) \/ Doubled(o)
    <3>1. CASE m.type # "Filled"
      <4>1. m.qty = 0
        BY <2>6, <3>1 DEF ForThread, Event
      <4> QED BY <1>6, <2>4, <2>6, <3>1, <4>1, QtyAssumption
    <3>2. CASE m.type = "Filled"
      <4>1. m = Event("Filled", p, Qty) /\ post[p] = "fill"
        BY <2>6, <3>2 DEF ForThread, Event
      <4>2. m.order = p /\ m.qty = Qty /\ Doubled(p)
        BY <4>1 DEF Event, FillTypes
      <4> QED BY <1>6, <2>4, <2>6, <4>2, QtyAssumption
    <3> QED BY <3>1, <3>2
  <2> QED BY <1>10, <2>1, <2>2, <2>3, <2>5, <2>6, NewsOnly DEF News
<1>11. CASE o \in DOMAIN tracked /\ ProcessEvent
  <2> DEFINE e == Head(bus)
             m == [e EXCEPT !.to = "topic"]
  <2>1. bus # <<>> /\ e.to = "process" /\ BusAnswers(m) /\ UNCHANGED <<stream, exch>>
    BY <1>11, BusEffects DEF ProcessEvent, Serving
  <2>2. e \in Held(bus) /\ Fits(e) /\ e \in Message
    BY <2>1, HeadFits DEF Fits
  <2>3. m.to = "topic" /\ m.qty = e.qty /\ e.qty \in 0..Qty
    BY <1>3, <2>2 DEF Message
  <2>4. In(m) = 0
    BY <1>6, <2>3
  <2>5. /\ B1 + In(e) <= B + In(m)
        /\ Room => B1 + In(e) = B + In(m)
    BY <1>3, <2>1, <2>3, BusSum DEF B, B1, In
  <2>6. G1 = G + In(e)
    <3>1. CASE e.order = o /\ OwnCopy(e)
      <4>1. G1 = G + e.qty
        BY <1>11, <3>1 DEF ProcessEvent, FilledAfter, G, G1
      <4>2. In(e) = e.qty
        <5>1. CASE e.type = "Filled"
          BY <2>1, <2>2, <3>1, <5>1 DEF In, Worth, Fills
        <5>2. CASE e.type # "Filled"
          BY <1>6, <2>2, <5>2 DEF FillTypes
        <5> QED BY <5>1, <5>2
      <4> QED BY <4>1, <4>2
    <3>2. CASE ~(e.order = o /\ OwnCopy(e))
      <4>1. G1 = G
        BY <1>11, <3>2 DEF ProcessEvent, G, G1
      <4>2. In(e) = 0
        BY <1>6, <3>2 DEF OwnCopy
      <4> QED BY <1>5, <1>11, <4>1, <4>2
    <3> QED BY <3>1, <3>2
  <2>7. In(e) \in Nat
    BY <2>3, WorthNat DEF In
  <2>8. T1 = T /\ D1 = D
    BY <2>1 DEF T, T1, D, D1
  <2> HIDE DEF e, m
  <2> QED BY <1>4, <1>5, <1>7, <1>11, <2>4, <2>5, <2>6, <2>7, <2>8 DEF Safe
<1>12. CASE o \in DOMAIN tracked /\ ReadReport
  <2> DEFINE r == Head(stream)
             m == ReportEvent(r)
  <2>1. stream # <<>> /\ UNCHANGED <<tracked, exch>>
        /\ stream' = (IF running THEN Tail(stream) ELSE <<>>)
    BY <1>12 DEF ReadReport, sentVars
  <2>2. r \in Held(stream) /\ r \in ReportSet /\ r.qty \in 0..Qty
    BY <1>3, <2>1, TailHolds DEF QueuesOK
  <2>3. r.order \in DOMAIN tracked
    BY <2>2 DEF TrackedInv
  <2>4. BusGets(m)
    <3>1. bus' = Post(bus, m)
      BY <1>12, <2>3 DEF ReadReport
    <3> QED BY <2>2, <3>1, ReportEventFits DEF BusGets
  <2>5. In(m) = Worth(r, Trades(o)) /\ m.qty \in 0..Qty
    <3>1. /\ m \in Message /\ m.to = "process" /\ m.order = r.order
          /\ m.type = "Filled" => r.type = "TRADE" /\ m.qty = r.qty
          /\ m.type # "Filled" => r.type # "TRADE" /\ m.qty = 0
      BY <2>2, ReportEventFits, ReportEventQty DEF Fits
    <3> HIDE DEF m
    <3> QED BY <2>2, <3>1, QtyAssumption DEF In, Worth, Fills, Trades
  <2>6. /\ B1 <= B + In(m)
        /\ Room => B1 = B + In(m)
    BY <1>3, <2>4, <2>5, BusSum DEF B, B1, In
  <2>7. /\ T = Sum(Tail(stream), Trades(o)) + In(m) /\ Sum(Tail(stream), Trades(o)) \in Nat
        /\ In(m) \in Nat /\ Sum(<<>>, Trades(o)) = 0
    BY <1>3, <2>1, <2>5, StreamSum DEF T
  <2>8. T1 + In(m) <= T /\ (running => T1 + In(m) = T)
    BY <2>1, <2>7 DEF T1
  <2>9. G1 = G /\ D1 = D
    BY <2>1 DEF G, G1, D, D1
  <2> HIDE DEF r, m
  <2>10. G \in Nat /\ G1 \in Nat /\ In(m) \in Nat
    BY <1>5, <1>12, <2>7, <2>9
  <2> HIDE DEF In
  <2> DEFINE w == In(m)
  <2> HIDE DEF w
  <2>11. /\ w \in Nat /\ B1 <= B + w /\ T1 + w <= T
         /\ Room => B1 = B + w
         /\ running => T1 + w = T
    BY <2>6, <2>8, <2>10 DEF w
  <2>12. G1 + B1 + T1 + D <= G + B + T + D1
    BY <1>4, <2>9, <2>10, <2>11
  <2>13. ASSUME Room, running PROVE G1 + B1 + T1 + D = G + B + T + D1
    <3>1. B1 = B + w /\ T1 + w = T
      BY <2>11, <2>13
    <3> QED BY <1>4, <2>9, <2>10, <2>11, <3>1
  <2> QED BY <1>7, <1>12, <2>10, <2>12, <2>13 DEF Safe
<1>13. CASE o \in DOMAIN tracked /\ ~ProcessEvent /\ ~ReadReport /\ StreamError
  <2>1. UNCHANGED <<bus, tracked, exch>> /\ stream' = <<>>
        /\ ("drop" \in Faults \/ ~running)
    BY <1>13 DEF StreamError, sentVars
  <2>2. T1 = 0
    BY <1>3, <2>1, StreamSum DEF T1
  <2>3. G1 = G /\ B1 = B /\ D1 = D /\ ~Safe
    BY <2>1 DEF G, G1, B, B1, D, D1, Safe
  <2> QED BY <1>4, <1>5, <1>7, <1>13, <2>2, <2>3
<1>14. ASSUME o \in DOMAIN tracked, ~ProcessEvent, ~ReadReport, NEW p \in Orders, ExchangeStep(p)
       PROVE  Goal
  <2>1. G1 = G /\ B1 = B
    <3>1. bus' = bus
      BY <1>14, ExchangeMoves
    <3> QED BY <1>9, <1>14, <3>1 DEF B, B1
  <2>2. \A type, q, n : Report(type, q, n).type = type /\ Report(type, q, n).order = q
                        /\ Report(type, q, n).qty = n
    BY DEF Report
  <2>3. \A type \in ReportTypes : \A n \in 0..Qty :
          /\ Report(type, p, n) \in ReportSet
          /\ p # o \/ type # "TRADE" => Worth(Report(type, p, n), Trades(o)) = 0
                                       /\ Report(type, p, n) \notin Trades(o)
          /\ type = "TRADE" /\ p = o => Worth(Report(type, p, n), Trades(o)) = n
    <3>1. \A type \in ReportTypes : \A n \in 0..Qty : Report(type, p, n) \in ReportSet
      BY QtyAssumption DEF Report, ReportSet
    <3> QED BY <2>2, <3>1 DEF Worth, Trades
  <2>4. ASSUME NEW type \in ReportTypes, NEW n \in 0..Qty, Reports(<<Report(type, p, n)>>)
        PROVE  T1 = IF ws = "up" THEN T + Worth(Report(type, p, n), Trades(o)) ELSE T
    <3> DEFINE r == Report(type, p, n)
    <3>1. r \in ReportSet /\ r.qty \in 0..Qty /\ Reports(<<r>>)
      BY <2>2, <2>3, <2>4
    <3> HIDE DEF r
    <3>2. T1 = IF ws = "up" THEN T + Worth(r, Trades(o)) ELSE T
      BY <1>3, <3>1, StreamSum DEF T, T1
    <3> QED BY <3>2 DEF r
  <2>5. ASSUME T1 = T, D1 = D PROVE Goal
    BY <1>4, <1>5, <1>7, <1>14, <2>1, <2>5
  <2>6. 0 \in 0..Qty /\ Qty \in 0..Qty /\ \A n \in 1..Qty : n \in 0..Qty
    BY QtyAssumption
  <2>7. exch \in [Orders -> [state : ExchangeStates, done : 0..Qty]]
    BY DEF StatesOK
  <2>8. CASE ExchangeAccept(p) \/ ExchangeExpire(p) \/ ExchangeCancel(p) \/ ExchangeRefuse(p)
    <3>1. \/ Reports(<<>>)
          \/ \E type \in ReportTypes \ {"TRADE"} : Reports(<<Report(type, p, 0)>>)
      BY <2>8 DEF ExchangeAccept, ExchangeExpire, ExchangeCancel, ExchangeRefuse, ReportTypes
    <3>2. Reports(<<>>) => T1 = T
      BY <1>3, StreamSum DEF T, T1
    <3>3. T1 = T
      <4>1. ASSUME NEW type \in ReportTypes \ {"TRADE"}, Reports(<<Report(type, p, 0)>>)
            PROVE  T1 = T
        <5>1. Worth(Report(type, p, 0), Trades(o)) = 0
          BY <2>3, <2>6, <4>1
        <5>2. T1 = T + 0 \/ T1 = T
          BY <2>4, <2>6, <4>1, <5>1
        <5> QED BY <1>4, <5>2
      <4> QED BY <3>1, <3>2, <4>1
    <3>4. D1 = D
      <4>1. exch' = [exch EXCEPT ![p].state = "live"]
            \/ exch' = [exch EXCEPT ![p].state = "canceled"]
            \/ exch' = [exch EXCEPT ![p].state = "refused"]
        BY <2>8 DEF ExchangeAccept, ExchangeExpire, ExchangeCancel, ExchangeRefuse
      <4> QED BY <1>0, <2>7, <4>1 DEF D, D1
    <3> QED BY <2>5, <3>3, <3>4
  <2>9. CASE PostLost(p) \/ CancelFails(p)
    <3>1. UNCHANGED <<exch, stream>>
      BY <2>9 DEF PostLost, CancelFails
    <3> QED BY <2>5, <3>1 DEF T, T1, D, D1
  <2>10. CASE ExchangeFillAtOnce(p)
    <3>1. CASE p = o
      <4>1. Doubled(o)'
        BY <2>7, <2>10, <3>1 DEF ExchangeFillAtOnce, Doubled
      <4> QED BY <4>1
    <3>2. CASE p # o
      <4> DEFINE r == Report("NEW", p, 0)
                 q == Report("TRADE", p, Qty)
      <4>1. Reports(<<r, q>>) /\ r \in ReportSet /\ q \in ReportSet
            /\ r \notin Trades(o) /\ q \notin Trades(o) /\ r.qty \in 0..Qty /\ q.qty \in 0..Qty
        BY <2>2, <2>3, <2>6, <2>10, <3>2 DEF ExchangeFillAtOnce, ReportTypes
      <4> HIDE DEF r, q
      <4>2. T1 = T
        BY <1>3, <4>1, StreamSum DEF T, T1
      <4>3. D1 = D
        BY <2>7, <2>10, <3>2 DEF D, D1, ExchangeFillAtOnce
      <4> QED BY <2>5, <4>2, <4>3
    <3> QED BY <3>1, <3>2
  <2>11. ASSUME NEW n \in 1..Qty, ExchangeTrade(p, n) PROVE Goal
    <3>1. "TRADE" \in ReportTypes /\ n \in 0..Qty /\ n \in Nat
      BY <2>6 DEF ReportTypes
    <3>2. Reports(<<Report("TRADE", p, n)>>)
      BY <2>11 DEF ExchangeTrade
    <3>3. T1 = IF ws = "up" THEN T + Worth(Report("TRADE", p, n), Trades(o)) ELSE T
      BY <2>4, <3>1, <3>2
    <3>4. CASE p = o
      <4>1. D1 = D + n
        BY <2>7, <2>11, <3>4 DEF D, D1, ExchangeTrade
      <4>2. T1 = IF ws = "up" THEN T + n ELSE T
        BY <2>3, <3>1, <3>3, <3>4
      <4> QED BY <1>4, <1>5, <1>7, <1>14, <2>1, <3>1, <4>1, <4>2 DEF Safe
    <3>5. CASE p # o
      <4>1. D1 = D
        BY <2>7, <2>11, <3>5 DEF D, D1, ExchangeTrade
      <4>2. T1 = T
        BY <1>4, <2>3, <3>1, <3>3, <3>5
      <4> QED BY <2>5, <4>1, <4>2
    <3> QED BY <3>4, <3>5
  <2> QED BY <1>14, <2>8, <2>9, <2>10, <2>11 DEF ExchangeStep, AnswersOrder, AnswersCancel
<1>15. CASE o \in DOMAIN tracked /\ ~ProcessEvent /\ ~ReadReport /\ UNCHANGED <<exch, stream>>
  <2>1. G1 = G /\ T1 = T /\ D1 = D
    BY <1>9, <1>15 DEF T, T1, D, D1
  <2>2. CASE Doubled(o)
    BY <1>0, <2>2, DoubledStays
  <2>3. CASE B1 <= B /\ (Room => B1 = B)
    BY <1>4, <1>5, <1>7, <1>15, <2>1, <2>3 DEF Safe
  <2> QED BY <1>10, <1>15, <2>2, <2>3
<1> QED BY <1>8, <1>11, <1>12, <1>13, <1>14, <1>15, StreamMoves

-----------------------------------------------------------------------------
LEMMA FillsInit ==
  ASSUME Init
  PROVE  FillTypes /\ DOMAIN tracked = {}
<1> USE DEF Init, ClientInit
<1>1. Held(bus) = {} /\ Held(stream) = {} /\ DOMAIN tracked = {}
  BY DEF Held
<1>2. 0 # Qty
  BY QtyAssumption
<1> QED BY <1>1, <1>2 DEF FillTypes

LEMMA CountedNat ==
  ASSUME FlowInv, FillTypes, NEW o \in DOMAIN tracked
  PROVE  Counted(o) \in Nat
<1>1. Sum(bus, Fills(o)) \in Nat /\ Sum(stream, Trades(o)) \in Nat
  BY SumNat DEF FlowInv, QueuesOK
<1>2. tracked[o].filled \in Nat
  BY DEF FillTypes
<1>3. Counted(o) = tracked[o].filled + Sum(bus, Fills(o)) + Sum(stream, Trades(o))
  BY CountedIs DEF FlowInv
<1> QED BY <1>1, <1>2, <1>3

(* What is counted of an order moves with what the exchange executes of it. *)
LEMMA CountedMoves ==
  ASSUME FlowInv, TrackedInv, FillTypes, [Next]_vars, FlowInv', FillTypes',
         NEW o \in DOMAIN tracked', ~Doubled(o)'
  PROVE  /\ Counted(o)' \in Nat /\ exch'[o].done \in Nat
         /\ \/ Counted(o)' = exch'[o].done
            \/ /\ o \in DOMAIN tracked /\ o \in Orders /\ ~Doubled(o)
               /\ Counted(o) <= exch[o].done => Counted(o)' <= exch'[o].done
               /\ Safe /\ Counted(o) = exch[o].done => Counted(o)' = exch'[o].done
<1>1. QueuesOK /\ StatesOK /\ TokenInv /\ QueuesOK' /\ StatesOK' /\ TrackedInv'
  BY TrackedStep DEF FlowInv
<1>2. o \in Orders
  BY <1>1 DEF TrackedInv
<1>3. exch[o].done \in Nat /\ exch'[o].done \in Nat
  BY <1>1, <1>2, QtyAssumption DEF StatesOK
<1>4. Counted(o)' \in Nat
  <2>1. Sum(bus', Fills(o)) \in Nat /\ Sum(stream', Trades(o)) \in Nat
    BY <1>1, SumNat DEF QueuesOK
  <2>2. (tracked[o].filled)' \in Nat
    BY DEF FillTypes
  <2>3. \A i \in DOMAIN bus' : bus'[i] \in Message
    BY <1>1, ElementOfSeq, LenProperties DEF QueuesOK
  <2>4. \A i \in DOMAIN stream' : stream'[i] \in ReportSet
    BY <1>1, ElementOfSeq, LenProperties DEF QueuesOK
  <2>5. FillsAt(o)' = At(bus', Fills(o))
    BY <2>3 DEF FillsAt, At, Fills
  <2>6. TradesAt(o)' = At(stream', Trades(o))
    BY <2>4 DEF TradesAt, At, Trades
  <2>7. Counted(o)' = tracked'[o].filled + Sum(bus', Fills(o)) + Sum(stream', Trades(o))
    BY <2>5, <2>6 DEF Counted, Sum
  <2> QED BY <2>1, <2>2, <2>7
<1>5. CASE Counted(o)' = exch'[o].done
  BY <1>3, <1>4, <1>5
<1>6. CASE /\ o \in DOMAIN tracked
           /\ Counted(o)' + exch[o].done <= Counted(o) + exch'[o].done
           /\ Safe => Counted(o)' + exch[o].done = Counted(o) + exch'[o].done
  <2>1. Counted(o) \in Nat
    BY <1>6, CountedNat
  <2>2. ~Doubled(o)
    BY <1>1, <1>2, DoubledStays
  <2>3. Counted(o) <= exch[o].done => Counted(o)' <= exch'[o].done
    BY <1>3, <1>4, <1>6, <2>1
  <2>4. Safe /\ Counted(o) = exch[o].done => Counted(o)' = exch'[o].done
    BY <1>3, <1>4, <1>6, <2>1
  <2> QED BY <1>2, <1>3, <1>4, <1>6, <2>2, <2>3, <2>4
<1> QED BY <1>1, <1>5, <1>6, FillMoves

LEMMA FillsWithinHolds == Spec => []FillsWithin
<1>1. Init => FillsWithin
  BY FillsInit DEF FillsWithin
<1>2. FlowInv /\ FlowInv' /\ TrackedInv /\ FillsWithin /\ [Next]_vars => FillsWithin'
  <2> SUFFICES ASSUME FlowInv, FlowInv', TrackedInv, FillsWithin, [Next]_vars PROVE FillsWithin'
    OBVIOUS
  <2>1. FillTypes'
    BY FillTypesStep DEF FlowInv, FillsWithin
  <2>2. ASSUME NEW o \in DOMAIN tracked', ~Doubled(o)' PROVE (Counted(o) <= exch[o].done)'
    BY <2>1, <2>2, CountedMoves DEF FillsWithin
  <2> QED BY <2>1, <2>2 DEF FillsWithin
<1> QED BY <1>1, <1>2, FlowInvHolds, TrackedHolds, PTL DEF Spec

(* Whatever is lost, dropped or refused, reconnected or canceled: no fill   *)
(* is counted twice, so the client never believes more than was executed.   *)
THEOREM NothingFilledTwice == Spec => []FilledWithinExecuted
<1>1. FillsWithin => FilledWithinExecuted
  BY DEF FillsWithin, FilledWithinExecuted, Doubled
<1> QED BY <1>1, FillsWithinHolds, PTL

-----------------------------------------------------------------------------
(* The stream is up before any order goes out, and stays up.                *)
StreamHeld ==
  /\ running <=> connected
  /\ ws = "up" => running
  /\ listing # <<>> => ws = "up"
  /\ \A o \in Orders \ Direct : o \notin fresh => ws = "up"

(* While there is room, nothing is lost between exchange and copy.          *)
FillsKept ==
  FillTypes /\ StreamHeld
  /\ \A o \in DOMAIN tracked \ Direct : Doubled(o) \/ Counted(o) = exch[o].done

LEMMA StreamHeldStep ==
  ASSUME StreamFirst, "drop" \notin Faults, "disconnect" \notin Faults,
         FlowInv, StreamHeld, [Next]_vars
  PROVE  StreamHeld'
<1> USE DEF connVars, sentVars, clientVars, flowVars, vars
<1>1. CASE UNCHANGED <<running, connected, ws, listing, fresh>>
  BY <1>1 DEF StreamHeld
<1>2. CASE ProgramStep
  <2>1. ASSUME NEW o \in Orders, SubmitOne(o) PROVE StreamHeld'
    BY <2>1 DEF SubmitOne, Submit, Ready, StreamHeld
  <2>2. CASE SubmitNext
    BY <2>2 DEF SubmitNext, Submit, StreamHeld
  <2>3. ASSUME NEW list, SubmitList(list) PROVE StreamHeld'
    BY <2>3 DEF SubmitList, Ready, StreamHeld
  <2>4. ASSUME NEW o \in Orders, SubmitDirect(o) PROVE StreamHeld'
    BY <2>4 DEF SubmitDirect, SubmitOrder, StreamHeld
  <2>5. CASE OpenSession
    BY <2>5 DEF OpenSession, Connect, StreamHeld
  <2>6. ~CloseSession
    BY DEF CloseSession, Disconnect
  <2>7. ASSUME SyncOpenOrders \/ \E o \in Orders, type \in {"Cancel", "Modify", "CancelAll"} :
                                    Send(type, o)
        PROVE  StreamHeld'
    BY <1>1, <2>7 DEF SyncOpenOrders, CancelOrders, Send
  <2> QED BY <1>2, <2>1, <2>2, <2>3, <2>4, <2>5, <2>6, <2>7 DEF ProgramStep
<1>3. CASE ServeStep
  BY <1>1, <1>3 DEF ServeStep, RiskExecute, ExecSubmit, SubmitOrder, ExecCancel,
     CancelOrders, ExecIgnore, ProcessEvent, OnEvent
<1>4. CASE ClientStep
  <2>1. CASE Joined \/ StreamDial \/ StreamUp \/ StreamExit \/ StreamError \/ ReadReport
    BY <1>4, <2>1 DEF ClientStep, Joined, StreamDial, StreamUp, StreamExit, StreamError,
                      ReadReport, StreamHeld
  <2>2. ASSUME NEW o \in Orders, AnswerPost(o) \/ AnswerDelete(o) \/ ExchangeStep(o)
        PROVE  StreamHeld'
    BY <1>1, <1>4, <2>2 DEF ClientStep, AnswerPost, AnswerDelete, ExchangeStep, AnswersOrder,
       AnswersCancel, ExchangeAccept, ExchangeFillAtOnce, ExchangeRefuse, PostLost,
       ExchangeTrade, ExchangeExpire, ExchangeCancel, CancelFails, ExchangeOnly
  <2> QED BY <1>4, <2>1, <2>2 DEF ClientStep, StreamStep
<1>5. CASE UNCHANGED vars
  BY <1>1, <1>5
<1> QED BY <1>2, <1>3, <1>4, <1>5 DEF Next

(* Once the stream is up, it stays up, and the queue never runs full: then  *)
(* every fill arrives, once, whichever of the threads is ahead of the rest. *)
THEOREM NoFillIsLost ==
  ASSUME StreamFirst, "drop" \notin Faults, "disconnect" \notin Faults
  PROVE  Spec /\ [](Len(bus) < BusCapacity) => []FillsConserved
<1>1. Init => FillsKept
  <2> SUFFICES ASSUME Init PROVE FillsKept
    OBVIOUS
  <2>1. StreamHeld
    BY DEF Init, ClientInit, StreamHeld
  <2> QED BY <2>1, FillsInit DEF FillsKept
<1>2. FlowInv /\ FlowInv' /\ TrackedInv /\ Room /\ FillsKept /\ [Next]_vars => FillsKept'
  <2> SUFFICES ASSUME FlowInv, FlowInv', TrackedInv, Room, FillsKept, [Next]_vars
               PROVE  FillsKept'
    OBVIOUS
  <2>1. FillTypes' /\ StreamHeld'
    BY FillTypesStep, StreamHeldStep DEF FlowInv, FillsKept
  <2>2. ASSUME NEW o \in DOMAIN tracked' \ Direct, ~Doubled(o)'
        PROVE  (Counted(o) = exch[o].done)'
    <3>1. ASSUME o \in DOMAIN tracked, o \in Orders PROVE Safe
      <4>1. post[o] # "none"
        BY <3>1 DEF TrackedInv
      <4>2. o \notin fresh
        BY <3>1, <4>1 DEF FlowInv, TokenInv, OneToken, Waiting
      <4> QED BY <2>2, <3>1, <4>2 DEF Safe, FillsKept, StreamHeld
    <3> QED BY <2>1, <2>2, <3>1, CountedMoves DEF FillsKept
  <2> QED BY <2>1, <2>2 DEF FillsKept
<1>3. FillsKept => FillsConserved
  BY DEF FillsKept, FillsConserved, Doubled
<1>4. Len(bus) < BusCapacity => Room
  BY DEF Room
<1> QED BY <1>1, <1>2, <1>3, <1>4, FlowInvHolds, TrackedHolds, PTL DEF Spec

-----------------------------------------------------------------------------
(* Orders only leave the places where they wait to be sent, and what is     *)
(* sent has waited.                                                         *)
LEMMA WaitingShrinks ==
  ASSUME FlowInv, [Next]_vars, NEW o \in Orders
  PROVE  /\ Waiting(o)' => Waiting(o)
         /\ post'[o] = "out" => post[o] = "out" \/ Waiting(o)
<1> USE DEF connVars, sentVars, clientVars, flowVars, vars
<1>0. QueuesOK /\ StatesOK /\ TokenInv
  BY DEF FlowInv
<1>1. Submitting(bus', o) => Waiting(o)
  <2>1. BusLosesOne => Held(bus') \subseteq Held(bus)
    BY <1>0, BusStep DEF BusLosesOne
  <2>2. ASSUME NEW m, News(m), m.type = "Submit", m.order = o PROVE Waiting(o)
    <3>1. CASE BusAnswers(m) /\ ForHead(m)
      <4>1. Head(bus) \in Held(bus) /\ Head(bus) \in Message
        BY <1>0, <3>1, HeadFits DEF BusAnswers, Fits
      <4>2. /\ \A p : Event("Denied", p, 0).type # "Submit"
                      /\ Event("Submitted", p, 0).type # "Submit"
                      /\ [Event("Rejected", p, 0) EXCEPT !.to = "topic"].type # "Submit"
            /\ \A to : [Head(bus) EXCEPT !.to = to].type = Head(bus).type
                       /\ [Head(bus) EXCEPT !.to = to].order = Head(bus).order
        BY <4>1 DEF Event, Message
      <4>3. Head(bus).type = "Submit" /\ Head(bus).order = o
        BY <2>2, <3>1, <4>2 DEF ForHead
      <4> QED BY <4>1, <4>3 DEF Waiting, Submitting
    <3>2. ASSUME NEW p \in Orders, ForThread(m, p) PROVE FALSE
      BY <2>2, <3>2 DEF ForThread, Event
    <3>3. ASSUME ReadReport, m = ReportEvent(Head(stream)) PROVE FALSE
      <4>1. Head(stream) \in ReportSet
        BY <1>0, <3>3, TailHolds DEF QueuesOK, ReadReport
      <4> QED BY <2>2, <3>3, <4>1, ReportEventFits
    <3>4. ASSUME NEW p \in Orders, NEW type \in CommandTypes, m = Command("risk", type, p),
                 type = "Submit" => p \in fresh
          PROVE  Waiting(o)
      BY <2>2, <3>4 DEF Command, Waiting
    <3>5. \A p : m # Event("Submitted", p, 0)
      BY <2>2 DEF Event
    <3> QED BY <2>2, <3>1, <3>2, <3>3, <3>4, <3>5 DEF News
  <2>3. \A m : News(m) => Held(bus') \subseteq Held(bus) \cup {m}
    BY <1>0, BusStep DEF News
  <2> QED BY <1>0, <2>1, <2>2, <2>3, NewsOnly DEF Submitting, Waiting
<1>2. o \in fresh' => o \in fresh
  <2>1. fresh' \subseteq fresh
    BY DEF Next, ProgramStep, SubmitOne, Submit, SubmitDirect, Send, SubmitList, SubmitNext,
       SyncOpenOrders, OpenSession, CloseSession, ServeStep, RiskExecute, ExecSubmit,
       ExecCancel, ExecIgnore, ProcessEvent, OnEvent, ClientStep
  <2> QED BY <2>1
<1> DEFINE Rest == /\ Buffered(o)' => Waiting(o)
                   /\ post'[o] = "out" => post[o] = "out" \/ Waiting(o)
<1>3. ASSUME pending_orders' = pending_orders, post'[o] = "out" => post[o] = "out" PROVE Rest
  BY <1>3 DEF Buffered, Waiting
<1>4. ASSUME NEW p \in Orders, NEW b, SubmitOrder(p, b), Waiting(p) PROVE Rest
  <2>1. /\ \/ pending_orders' = pending_orders \/ pending_orders' = Append(pending_orders, p)
        /\ post'[o] = "out" => post[o] = "out" \/ o = p
    BY <1>4 DEF SubmitOrder, SendOrders
  <2>2. Buffered(o)' => Buffered(o) \/ o = p
    <3>1. pending_orders \in Seq(Orders) /\ p \in Orders
      BY <1>0, <1>4 DEF StatesOK
    <3>2. Held(Append(pending_orders, p)) = Held(pending_orders) \cup {p}
      BY <3>1, AppendHolds
    <3> QED BY <2>1, <3>2 DEF Buffered
  <2> QED BY <1>4, <2>1, <2>2 DEF Waiting
<1>5. ASSUME StreamUp PROVE Rest
  <2>1. Held(pending_orders') = {}
    BY <1>5 DEF StreamUp, Held
  <2>2. post'[o] = "out" => post[o] = "out" \/ o \in Held(pending_orders)
    BY <1>5 DEF StreamUp, SendOrders, Held
  <2> QED BY <2>1, <2>2 DEF Buffered, Waiting
<1>6. ASSUME NEW p \in Orders, SubmitDirect(p) PROVE Rest
  BY <1>4, <1>6 DEF SubmitDirect, Waiting
<1>7. ASSUME ExecSubmit PROVE Rest
  <2>1. bus # <<>> /\ Head(bus).type = "Submit"
    BY <1>7 DEF ExecSubmit, Serving
  <2>2. Head(bus).order \in Orders /\ Waiting(Head(bus).order)
    BY <1>0, <2>1, HeadFits DEF Waiting, Submitting
  <2>3. SubmitOrder(Head(bus).order, Tail(bus)) \/ UNCHANGED <<pending_orders, post>>
    BY <1>7 DEF ExecSubmit
  <2> QED BY <1>3, <1>4, <2>2, <2>3
<1>8. ASSUME NEW p \in Orders, AnswerPost(p) \/ AnswerDelete(p) \/ ExchangeStep(p) PROVE Rest
  <2>1. pending_orders' = pending_orders /\ (post'[o] = "out" => post[o] = "out")
    BY <1>0, <1>8 DEF AnswerPost, AnswerDelete, ExchangeStep, AnswersOrder, AnswersCancel,
       ExchangeAccept, ExchangeFillAtOnce, ExchangeRefuse, PostLost, ExchangeTrade,
       ExchangeExpire, ExchangeCancel, CancelFails, ExchangeOnly, Answered, StatesOK
  <2> QED BY <1>3, <2>1
<1>9. ASSUME UNCHANGED <<pending_orders, post>> PROVE Rest
  BY <1>3, <1>9
<1> HIDE DEF Rest
<1>10. ASSUME ProgramStep PROVE Rest
  <2>1. ASSUME ~\E p \in Orders : SubmitDirect(p) PROVE Rest
    BY <1>9, <1>10, <2>1 DEF ProgramStep, SyncOpenOrders, CancelOrders, OpenSession,
       CloseSession, Connect, Disconnect, SubmitNext, Submit, SubmitList, SubmitOne, Send
  <2> QED BY <1>6, <2>1
<1>11. ASSUME RiskExecute \/ ExecCancel \/ ExecIgnore \/ ProcessEvent \/ OnEvent PROVE Rest
  BY <1>9, <1>11 DEF RiskExecute, ExecCancel, CancelOrders, ExecIgnore, ProcessEvent, OnEvent
<1>12. ASSUME Joined \/ StreamError \/ StreamDial \/ StreamExit \/ ReadReport PROVE Rest
  BY <1>9, <1>12 DEF Joined, StreamError, StreamDial, StreamExit, ReadReport
<1>13. ASSUME UNCHANGED vars PROVE Rest
  BY <1>9, <1>13
<1>14. Rest
  BY <1>5, <1>7, <1>8, <1>10, <1>11, <1>12, <1>13 DEF Next, ServeStep, ClientStep, StreamStep
<1> QED BY <1>1, <1>2, <1>14 DEF Rest, Waiting

-----------------------------------------------------------------------------
(* An order whose copy is filled is filled at the exchange.                 *)
LEMMA FilledIsOver ==
  ASSUME FlowInv, FillsWithin, NEW o \in DOMAIN tracked \cap Orders,
         tracked[o].status = "FILLED"
  PROVE  exch[o].state = "filled"
<1>1. FillTypes /\ StatesOK /\ QueuesOK
  BY DEF FillsWithin, FlowInv
<1>2. tracked[o].filled \in Nat /\ tracked[o].filled >= Qty
  BY <1>1 DEF FillTypes
<1>3. Sum(bus, Fills(o)) \in Nat /\ Sum(stream, Trades(o)) \in Nat
  BY <1>1, SumNat DEF QueuesOK
<1>4. Counted(o) = tracked[o].filled + Sum(bus, Fills(o)) + Sum(stream, Trades(o))
  BY <1>1, CountedIs
<1>5. exch[o].done \in 0..Qty
  BY <1>1 DEF StatesOK
<1>6. CASE Doubled(o)
  BY <1>6 DEF Doubled
<1>7. CASE Counted(o) <= exch[o].done
  <2>1. exch[o].done = Qty
    BY <1>2, <1>3, <1>4, <1>5, <1>7, QtyAssumption
  <2> QED BY <1>1, <2>1 DEF FillTypes
<1> QED BY <1>6, <1>7 DEF FillsWithin

(* Over for good: the exchange has ended it, or will never see it.          *)
Ended(o) ==
  \/ exch[o].state \in {"filled", "canceled", "refused"}
  \/ exch[o].state = "none" /\ post[o] # "out" /\ ~Waiting(o)

(* An order the strategy no longer holds is over, and so is one it is about *)
(* to be told is over.                                                      *)
KnownInv ==
  /\ \A m \in Held(bus) : m.type = "Rejected" => Ended(m.order)
  /\ \A r \in Held(stream) : r.type = "REJECTED" => Ended(r.order)
  /\ \A o \in Orders :
       /\ post[o] \in {"refused", "failed"} => Ended(o)
       /\ o \in orders \/ o \in fresh \/ o \in Direct \/ Ended(o)

LEMMA EndedStays ==
  ASSUME FlowInv, [Next]_vars, NEW o \in Orders, Ended(o)
  PROVE  Ended(o)'
<1>0. StatesOK /\ TokenInv /\ QueuesOK
  BY DEF FlowInv
<1>1. CASE exch[o].state \in {"filled", "canceled", "refused"}
  BY <1>0, <1>1, DoubledStays DEF Ended
<1>2. CASE exch[o].state = "none" /\ post[o] # "out" /\ ~Waiting(o)
  <2>1. post'[o] # "out" /\ ~Waiting(o)'
    BY <1>2, WaitingShrinks
  <2>2. exch'[o] = exch[o]
    <3>1. ASSUME NEW p \in Orders, ExchangeStep(p) PROVE exch'[o] = exch[o]
      <4>1. CASE p # o
        BY <1>0, <3>1, <4>1, ExchangeMoves
      <4>2. CASE p = o
        BY <1>2, <3>1, <4>2 DEF ExchangeStep, AnswersOrder, AnswersCancel, ExchangeAccept,
           ExchangeFillAtOnce, ExchangeRefuse, PostLost, ExchangeTrade, ExchangeExpire,
           ExchangeCancel, CancelFails, Live
      <4> QED BY <4>1, <4>2
    <3>2. ReadReport \/ StreamError => exch' = exch
      BY DEF ReadReport, StreamError
    <3> QED BY <3>1, <3>2, StreamMoves
  <2> QED BY <1>2, <2>1, <2>2 DEF Ended
<1> QED BY <1>1, <1>2 DEF Ended

(* The order of an OrderDenied was never sent, and waits no longer.         *)
LEMMA DeniedEnded ==
  ASSUME FlowInv, NEW o \in Orders, DeniedOrder(o)
  PROVE  Ended(o)
  BY DEF FlowInv, TokenInv, OneToken, Ended

(* Where the strategy's orders come and go.                                 *)
LEMMA OrdersMove ==
  ASSUME FlowInv, [Next]_vars, NEW o \in Orders
  PROVE  /\ o \in orders => \/ o \in orders'
                            \/ bus # <<>> /\ Over(Head(bus)) /\ Head(bus).order = o
         /\ o \in fresh => o \in fresh' \/ o \in orders' \/ o \in Direct
<1> USE DEF connVars, sentVars, clientVars, flowVars, vars
<1> DEFINE Goal == /\ o \in orders => \/ o \in orders'
                                      \/ bus # <<>> /\ Over(Head(bus)) /\ Head(bus).order = o
                   /\ o \in fresh => o \in fresh' \/ o \in orders' \/ o \in Direct
<1> SUFFICES Goal
  OBVIOUS
<1>1. UNCHANGED <<orders, fresh>> => Goal
  OBVIOUS
<1>2. ASSUME NEW p, Submit(p) PROVE Goal
  BY <1>2 DEF Submit
<1>3. ASSUME NEW p, SubmitDirect(p) PROVE Goal
  BY <1>3 DEF SubmitDirect
<1>4. ASSUME OnEvent PROVE Goal
  BY <1>4 DEF OnEvent, Serving
<1> HIDE DEF Goal
<1>5. CASE ProgramStep
  BY <1>1, <1>2, <1>3, <1>5 DEF ProgramStep, SubmitOne, SubmitNext, Send, SubmitList,
     SyncOpenOrders, OpenSession, CloseSession
<1>6. CASE RiskExecute \/ ExecSubmit \/ ExecCancel \/ ExecIgnore \/ ProcessEvent
  BY <1>1, <1>6 DEF RiskExecute, ExecSubmit, ExecCancel, ExecIgnore, ProcessEvent
<1>7. CASE ClientStep
  BY <1>1, <1>7 DEF ClientStep
<1>8. CASE UNCHANGED vars
  BY <1>1, <1>8
<1> QED BY <1>4, <1>5, <1>6, <1>7, <1>8 DEF Next, ServeStep

LEMMA KnownStep ==
  ASSUME "lostAnswer" \notin Faults, FlowInv, FlowInv', FillsWithin, CanceledInv, KnownInv,
         [Next]_vars
  PROVE  KnownInv'
<1>0. QueuesOK /\ StatesOK /\ TokenInv /\ QueuesOK' /\ FillTypes
  BY DEF FlowInv, FillsWithin
<1>1. \A o \in Orders : Ended(o) => Ended(o)'
  BY EndedStays
<1>2. ASSUME NEW m \in Held(bus'), m.type = "Rejected" PROVE (Ended(m.order))'
  <2>1. ASSUME m \in Held(bus) PROVE Ended(m.order)'
    <3>1. m.order \in Orders
      BY <1>0, <2>1, BusStep DEF Fits, Message
    <3> QED BY <1>1, <1>2, <2>1, <3>1 DEF KnownInv
  <2>2. ASSUME News(m) PROVE Ended(m.order)'
    <3>1. CASE BusAnswers(m) /\ ForHead(m)
      <4> DEFINE h == Head(bus)
      <4>1. bus # <<>> /\ h \in Held(bus) /\ h \in Message /\ h.order \in Orders
        BY <1>0, <3>1, HeadFits DEF BusAnswers, Fits
      <4>2. \A to : [h EXCEPT !.to = to].type = h.type /\ [h EXCEPT !.to = to].order = h.order
        BY <4>1 DEF Message
      <4>3. CASE h.type = "Rejected" /\ h.order = m.order
        BY <1>1, <4>1, <4>3 DEF KnownInv
      <4>4. CASE /\ h.type = "Submit" /\ UNCHANGED <<clientVars, fresh>>
                 /\ m.order = h.order
        <5>1. Submitting(bus, h.order) /\ OneToken(h.order)
          BY <1>0, <4>1, <4>4 DEF Submitting, TokenInv
        <5>2. h.order \notin fresh /\ ~Buffered(h.order)
              /\ post[h.order] = "none" /\ exch[h.order].state = "none"
          BY <5>1 DEF OneToken, Waiting
        <5>3. ~Submitting(bus', h.order)
          BY <1>0, <1>2, <3>1, <4>4, SubmitMoves DEF TokenInv
        <5> QED BY <4>4, <5>2, <5>3 DEF Ended, Waiting, Buffered, clientVars, sentVars
      <4>5. /\ \A p : Event("Denied", p, 0).type # "Rejected"
                      /\ Event("Submitted", p, 0).type # "Rejected"
                      /\ [Event("Rejected", p, 0) EXCEPT !.to = "topic"].order = p
        BY DEF Event
      <4>6. ASSUME NEW to, m = [h EXCEPT !.to = to] PROVE Ended(m.order)'
        BY <1>2, <4>2, <4>3, <4>6
      <4>7. ASSUME h.type = "Submit", UNCHANGED <<clientVars, fresh>>,
                   m = [Event("Rejected", h.order, 0) EXCEPT !.to = "topic"]
            PROVE  Ended(m.order)'
        BY <4>4, <4>5, <4>7
      <4> HIDE DEF h
      <4>8. m # Event("Denied", h.order, 0) /\ m # Event("Submitted", h.order, 0)
        BY <1>2, <4>5
      <4> QED BY <3>1, <4>6, <4>7, <4>8 DEF ForHead, h
    <3>2. ASSUME NEW p \in Orders, ForThread(m, p) PROVE Ended(m.order)'
      <4>1. post[p] \in {"refused", "failed"} /\ m.order = p
        BY <1>2, <3>2 DEF ForThread, Event
      <4> QED BY <1>1, <4>1 DEF KnownInv
    <3>3. ASSUME ReadReport, m = ReportEvent(Head(stream)) PROVE Ended(m.order)'
      <4>1. Head(stream) \in ReportSet /\ Head(stream) \in Held(stream)
        BY <1>0, <3>3, TailHolds DEF QueuesOK, ReadReport
      <4>2. Head(stream).type = "REJECTED" /\ m.order = Head(stream).order /\ m.order \in Orders
        BY <1>2, <3>3, <4>1, ReportEventFits, ReportEventQty DEF ReportSet
      <4> QED BY <1>1, <4>1, <4>2 DEF KnownInv
    <3>4. \A p : \A type \in CommandTypes : m # Command("risk", type, p)
      BY <1>2 DEF Command, CommandTypes
    <3>5. \A p : m # Event("Submitted", p, 0)
      BY <1>2 DEF Event
    <3> QED BY <2>2, <3>1, <3>2, <3>3, <3>4, <3>5 DEF News
  <2>3. bus' = bus \/ BusLosesOne => m \in Held(bus)
    BY <1>0, <1>2, BusStep DEF BusLosesOne
  <2>4. \A n : News(n) => m \in Held(bus) \cup {n}
    BY <1>0, <1>2, BusStep DEF News
  <2> QED BY <1>0, <2>1, <2>2, <2>3, <2>4, NewsOnly
<1>3. ASSUME NEW r \in Held(stream'), r.type = "REJECTED" PROVE (Ended(r.order))'
  <2>1. ASSUME r \in Held(stream) PROVE (Ended(r.order))'
    <3>1. r.order \in Orders
      <4>1. \A i \in DOMAIN stream : stream[i] \in ReportSet
        BY <1>0, ElementOfSeq, LenProperties DEF QueuesOK
      <4> QED BY <2>1, <4>1 DEF Held, ReportSet
    <3> QED BY <1>1, <1>3, <2>1, <3>1 DEF KnownInv
  <2>2. ReadReport \/ StreamError => r \in Held(stream)
    <3>1. stream' = <<>> => r \notin Held(stream')
      BY DEF Held
    <3>2. stream # <<>> /\ stream' = Tail(stream) => r \in Held(stream)
      BY <1>0, <1>3, TailHolds DEF QueuesOK
    <3>3. ReadReport \/ StreamError
            => stream' = <<>> \/ (stream # <<>> /\ stream' = Tail(stream))
      BY DEF ReadReport, StreamError
    <3> QED BY <1>3, <3>1, <3>2, <3>3
  <2>3. ASSUME NEW p \in Orders, ExchangeStep(p), r \notin Held(stream) PROVE (Ended(r.order))'
    <3>0. ASSUME NEW rs \in Seq(ReportSet), Reports(rs) PROVE r \in Held(rs)
      <4>1. stream \in Seq(ReportSet) /\ (stream' = stream \/ stream' = stream \o rs)
        BY <1>0, <3>0 DEF QueuesOK, Reports
      <4>2. Held(stream \o rs) = Held(stream) \cup Held(rs)
        BY <3>0, <4>1, ConcatHolds
      <4> QED BY <1>3, <2>3, <4>1, <4>2
    <3>1. ASSUME NEW type \in ReportTypes, Reports(<<Report(type, p, 0)>>)
          PROVE  type = "REJECTED" /\ r.order = p
      <4>1. Report(type, p, 0) \in ReportSet
        BY DEF Report, ReportSet
      <4>2. <<Report(type, p, 0)>> \in Seq(ReportSet)
            /\ Held(<<Report(type, p, 0)>>) = {Report(type, p, 0)}
        BY <4>1 DEF Held
      <4>3. r = Report(type, p, 0)
        BY <3>0, <3>1, <4>2
      <4> QED BY <1>3, <4>3 DEF Report
    <3>2. ~Reports(<<>>)
      <4>1. stream \o <<>> = stream
        BY <1>0, ConcatProperties, EmptySeq DEF QueuesOK
      <4> QED BY <1>3, <2>3, <4>1 DEF Reports
    <3>3. ASSUME NEW q, NEW s, q.type # "REJECTED", s.type # "REJECTED", q \in ReportSet,
                 s \in ReportSet
          PROVE  ~Reports(<<q, s>>)
      <4>1. <<q, s>> \in Seq(ReportSet) /\ DOMAIN <<q, s>> = {1, 2}
        BY <3>3
      <4>2. Held(<<q, s>>) = {q, s}
        BY <4>1 DEF Held
      <4>3. r # q /\ r # s
        BY <1>3, <3>3
      <4> QED BY <3>0, <4>1, <4>2, <4>3
    <3>4. ASSUME NEW type \in ReportTypes, NEW n \in Nat, type # "REJECTED"
          PROVE  ~Reports(<<Report(type, p, n)>>)
      <4>1. Report(type, p, n) \in ReportSet
        BY DEF Report, ReportSet
      <4>2. <<Report(type, p, n)>> \in Seq(ReportSet)
            /\ Held(<<Report(type, p, n)>>) = {Report(type, p, n)}
        BY <4>1 DEF Held
      <4>3. r # Report(type, p, n)
        BY <1>3, <3>4 DEF Report
      <4> QED BY <3>0, <4>2, <4>3
    <3>5. CASE ExchangeRefuse(p)
      <4>1. r.order = p
        BY <3>1, <3>2, <3>5 DEF ExchangeRefuse, ReportTypes
      <4>2. exch'[p].state = "refused"
        BY <1>0, <3>5 DEF ExchangeRefuse, StatesOK
      <4> QED BY <4>1, <4>2 DEF Ended
    <3>6. ~(ExchangeAccept(p) \/ ExchangeExpire(p) \/ ExchangeCancel(p))
      BY <3>4 DEF ExchangeAccept, ExchangeExpire, ExchangeCancel, ReportTypes
    <3>7. ~ExchangeFillAtOnce(p)
      <4>1. /\ Report("NEW", p, 0) \in ReportSet /\ Report("TRADE", p, Qty) \in ReportSet
            /\ Report("NEW", p, 0).type # "REJECTED" /\ Report("TRADE", p, Qty).type # "REJECTED"
        BY QtyAssumption DEF Report, ReportSet, ReportTypes
      <4> QED BY <3>3, <4>1 DEF ExchangeFillAtOnce
    <3>8. \A n \in 1..Qty : ~ExchangeTrade(p, n)
      <4>1. \A n \in 1..Qty : n \in Nat
        BY QtyAssumption
      <4> QED BY <3>4, <4>1 DEF ExchangeTrade, ReportTypes
    <3>9. ~(PostLost(p) \/ CancelFails(p))
      BY <1>3, <2>3 DEF PostLost, CancelFails
    <3> QED BY <2>3, <3>5, <3>6, <3>7, <3>8, <3>9 DEF ExchangeStep, AnswersOrder, AnswersCancel
  <2> QED BY <1>3, <2>1, <2>2, <2>3, StreamMoves
<1>4. ASSUME NEW o \in Orders, post'[o] \in {"refused", "failed"} PROVE Ended(o)'
  <2>1. CASE post'[o] = post[o]
    BY <1>1, <1>4, <2>1 DEF KnownInv
  <2>2. ASSUME NEW os \in SUBSET Orders, SendOrders(os) PROVE post'[o] = post[o]
    BY <1>0, <1>4, <2>2, OrdersSent
  <2>3. ASSUME NEW p \in Orders, AnswerPost(p) PROVE post'[o] = post[o]
    BY <1>0, <1>4, <2>3 DEF AnswerPost, StatesOK
  <2>4. ASSUME NEW p \in Orders, ExchangeStep(p), post'[o] # post[o] PROVE Ended(o)'
    <3>1. p = o
      BY <1>0, <2>4, ExchangeMoves
    <3>2. ExchangeRefuse(o) \/ PostLost(o)
      BY <1>0, <1>4, <2>4, <3>1 DEF ExchangeStep, AnswersOrder, AnswersCancel,
         ExchangeAccept, ExchangeFillAtOnce, ExchangeTrade, ExchangeExpire, ExchangeCancel,
         CancelFails, Answered, StatesOK
    <3>3. CASE ExchangeRefuse(o)
      BY <1>0, <3>3 DEF ExchangeRefuse, StatesOK, Ended
    <3>4. CASE PostLost(o)
      <4>1. post[o] = "out" /\ exch' = exch
        BY <3>4 DEF PostLost
      <4>2. exch[o].state = "none" /\ ~Waiting(o)
        BY <1>0, <4>1 DEF TokenInv, OneToken
      <4>3. ~Waiting(o)'
        BY <4>2, WaitingShrinks
      <4> QED BY <1>4, <4>1, <4>2, <4>3 DEF Ended
    <3> QED BY <3>2, <3>3, <3>4
  <2> QED BY <1>0, <2>1, <2>2, <2>3, <2>4, PostMoves
<1>5. ASSUME NEW o \in Orders
      PROVE  (o \in orders \/ o \in fresh \/ o \in Direct \/ Ended(o))'
  <2>1. ASSUME o \in orders, o \notin orders' PROVE Ended(o)'
    <3> DEFINE e == Head(bus)
    <3>1. bus # <<>> /\ Over(e) /\ e.order = o
      BY <2>1, OrdersMove
    <3>2. e \in Held(bus)
      BY <1>0, <3>1, HeadFits
    <3>3. CASE e.type = "Rejected"
      BY <1>1, <3>1, <3>2, <3>3 DEF KnownInv
    <3>4. CASE e.type = "Denied"
      <4>1. DeniedOrder(o)
        BY <3>1, <3>2, <3>4 DEF DeniedOrder
      <4> QED BY <1>1, <4>1, DeniedEnded
    <3>5. CASE e.type = "Canceled"
      <4>1. Ended(o)
        BY <3>1, <3>2, <3>5 DEF CanceledInv, Ended
      <4> QED BY <1>1, <4>1
    <3>6. CASE e.type = "Filled" /\ tracked[e.order].status = "FILLED"
      <4>1. o \in DOMAIN tracked
        BY <1>0, <3>1, <3>2, <3>6 DEF FillTypes
      <4>2. Ended(o)
        BY <3>1, <3>6, <4>1, FilledIsOver DEF Ended
      <4> QED BY <1>1, <4>2
    <3> QED BY <3>1, <3>3, <3>4, <3>5, <3>6 DEF Over
  <2> QED BY <1>1, <2>1, OrdersMove DEF KnownInv
<1> QED BY <1>2, <1>3, <1>4, <1>5 DEF KnownInv

(* Unless the answer to a post gets lost, the strategy holds every order    *)
(* that is live at the exchange: none of the events that make it forget one *)
(* is early.                                                                *)
THEOREM NoOrderIsForgotten ==
  ASSUME "lostAnswer" \notin Faults
  PROVE  Spec => []LiveIsKnown
<1>1. Init => KnownInv
  <2> SUFFICES ASSUME Init PROVE KnownInv
    OBVIOUS
  <2> USE DEF Init, ClientInit
  <2>1. Held(bus) = {} /\ Held(stream) = {}
    BY DEF Held
  <2> QED BY <2>1 DEF KnownInv
<1>2. FlowInv /\ FlowInv' /\ FillsWithin /\ CanceledInv /\ KnownInv /\ [Next]_vars => KnownInv'
  BY KnownStep
<1>3. FlowInv /\ KnownInv => LiveIsKnown
  <2> SUFFICES ASSUME FlowInv, KnownInv, NEW o \in Orders \ Direct, Live(o) PROVE o \in orders
    BY DEF LiveIsKnown
  <2>1. exch[o].state = "live"
    BY DEF Live
  <2>2. ~Waiting(o)
    BY <2>1 DEF FlowInv, TokenInv, OneToken
  <2> QED BY <2>1, <2>2 DEF KnownInv, Ended, Waiting
<1> QED BY <1>1, <1>2, <1>3, FlowInvHolds, FillsWithinHolds, CanceledInvHolds, PTL DEF Spec

-----------------------------------------------------------------------------
(* What the exchange said of an order, and what it must come after: the     *)
(* OrderSubmitted of that order, already told, or further ahead on the same *)
(* leg of the way, or on the last leg while this one is on the first.       *)
Says(m) == m.type \in {"Accepted", "Filled", "Canceled"}
Announces(m, o, to) == m.type = "Submitted" /\ m.order = o /\ m.to = to

Heralded(b, i, heard) ==
  \/ "Submitted" \in heard[b[i].order]
  \/ \E j \in 1..(i - 1) : Announces(b[j], b[i].order, b[i].to)
  \/ b[i].to = "process" /\ \E j \in DOMAIN b : Announces(b[j], b[i].order, "topic")

AllHeralded(b, heard) == \A i \in DOMAIN b : Says(b[i]) => Heralded(b, i, heard)

Announced(o) ==
  "Submitted" \in told[o] \/ \E m \in Held(bus) : m.type = "Submitted" /\ m.order = o

FirstInv ==
  /\ \A o \in Orders : post[o] # "none" \/ Buffered(o) => Announced(o)
  /\ AllHeralded(bus, told)
  /\ SubmittedIsFirst

LEMMA AppendHeralded ==
  ASSUME NEW b \in Seq(Message), NEW m \in Message, NEW heard, AllHeralded(b, heard),
         Says(m) => \/ "Submitted" \in heard[m.order]
                    \/ \E x \in Held(b) : \/ Announces(x, m.order, m.to)
                                          \/ m.to = "process" /\ Announces(x, m.order, "topic")
  PROVE  AllHeralded(Append(b, m), heard)
<1> DEFINE c == Append(b, m)
<1>1. /\ DOMAIN c = DOMAIN b \cup {Len(b) + 1} /\ c[Len(b) + 1] = m
      /\ \A i \in DOMAIN b : c[i] = b[i] /\ i # Len(b) + 1
  BY AppendHolds
<1>2. DOMAIN b = 1..Len(b) /\ Len(b) \in Nat
  BY LenProperties
<1> HIDE DEF c
<1>3. ASSUME NEW i \in DOMAIN b, Says(c[i]) PROVE Heralded(c, i, heard)
  <2>1. Heralded(b, i, heard) /\ c[i] = b[i]
    BY <1>1, <1>3 DEF AllHeralded
  <2>2. \A j \in 1..(i - 1) : c[j] = b[j]
    BY <1>1, <1>2
  <2> QED BY <1>1, <2>1, <2>2 DEF Heralded
<1>4. ASSUME Says(m) PROVE Heralded(c, Len(b) + 1, heard)
  <2>1. CASE "Submitted" \in heard[m.order]
    BY <1>1, <2>1 DEF Heralded
  <2>2. ASSUME NEW j \in DOMAIN b,
               \/ Announces(b[j], m.order, m.to)
               \/ m.to = "process" /\ Announces(b[j], m.order, "topic")
        PROVE  Heralded(c, Len(b) + 1, heard)
    <3>1. j \in 1..((Len(b) + 1) - 1) /\ j \in DOMAIN c /\ c[j] = b[j]
      BY <1>1, <1>2
    <3> QED BY <1>1, <2>2, <3>1 DEF Heralded
  <2> QED BY <1>4, <2>1, <2>2 DEF Held
<1>5. ASSUME NEW i \in DOMAIN c, Says(c[i]) PROVE Heralded(c, i, heard)
  <2>1. CASE i \in DOMAIN b
    BY <1>3, <1>5, <2>1
  <2>2. CASE i = Len(b) + 1
    BY <1>1, <1>4, <1>5, <2>2
  <2> QED BY <1>1, <2>1, <2>2
<1> QED BY <1>5 DEF AllHeralded, c

(* The head has gone: it was no OrderSubmitted, or has been heard.          *)
LEMMA TailHeralded ==
  ASSUME NEW b \in Seq(Message), b # <<>>, NEW heard, NEW hears, AllHeralded(b, heard),
         \A o \in Orders : "Submitted" \in heard[o] => "Submitted" \in hears[o],
         Head(b).type = "Submitted" => "Submitted" \in hears[Head(b).order]
  PROVE  AllHeralded(Tail(b), hears)
<1> DEFINE c == Tail(b)
<1>1. /\ 1 \in DOMAIN b /\ Head(b) = b[1]
      /\ \A i \in DOMAIN c : i + 1 \in DOMAIN b /\ c[i] = b[i + 1] /\ i \in Nat
  BY TailHolds
<1>2. /\ DOMAIN b = 1..Len(b) /\ Len(b) \in Nat /\ DOMAIN c = 1..(Len(b) - 1)
      /\ \A i \in DOMAIN b : b[i] \in Message
  BY HeadTailProperties, LenProperties, ElementOfSeq
<1> HIDE DEF c
<1>3. ASSUME NEW i \in DOMAIN c, Says(c[i]) PROVE Heralded(c, i, hears)
  <2>1. i + 1 \in DOMAIN b /\ c[i] = b[i + 1] /\ i \in Nat /\ Heralded(b, i + 1, heard)
    BY <1>1, <1>3 DEF AllHeralded
  <2>2. c[i].order \in Orders
    BY <1>2, <2>1 DEF Message
  <2>3. ASSUME NEW j \in DOMAIN b, NEW to, Announces(b[j], c[i].order, to)
        PROVE  \/ "Submitted" \in hears[c[i].order]
               \/ j - 1 \in DOMAIN c /\ Announces(c[j - 1], c[i].order, to)
    <3>1. CASE j = 1
      BY <1>1, <2>3, <3>1 DEF Announces
    <3>2. CASE j # 1
      <4>1. j - 1 \in DOMAIN c /\ (j - 1) + 1 = j
        BY <1>2, <3>2
      <4> QED BY <1>1, <2>3, <4>1
    <3> QED BY <3>1, <3>2
  <2>4. CASE "Submitted" \in heard[c[i].order]
    BY <2>2, <2>4 DEF Heralded
  <2>5. ASSUME NEW j \in 1..i, Announces(b[j], c[i].order, c[i].to)
        PROVE  Heralded(c, i, hears)
    <3>1. j \in DOMAIN b
      BY <1>2, <2>1
    <3>2. j - 1 \in DOMAIN c => j - 1 \in 1..(i - 1)
      BY <1>2, <2>1
    <3> QED BY <2>3, <2>5, <3>1, <3>2 DEF Heralded
  <2>6. ASSUME c[i].to = "process", NEW j \in DOMAIN b, Announces(b[j], c[i].order, "topic")
        PROVE  Heralded(c, i, hears)
    BY <2>3, <2>6 DEF Heralded
  <2>7. (i + 1) - 1 = i
    BY <2>1
  <2> QED BY <2>1, <2>4, <2>5, <2>6, <2>7 DEF Heralded
<1> QED BY <1>3 DEF AllHeralded, c

(* An event goes from the engine to its topic: the OrderSubmitted is behind *)
(* those it was ahead of, but on the last leg.                              *)
LEMMA TopicHeralded ==
  ASSUME NEW b \in Seq(Message), b # <<>>, NEW heard, AllHeralded(b, heard),
         Head(b).to = "process"
  PROVE  AllHeralded(Append(Tail(b), [Head(b) EXCEPT !.to = "topic"]), heard)
<1> DEFINE m == [Head(b) EXCEPT !.to = "topic"]
           t == Tail(b)
           c == Append(t, m)
<1>1. /\ 1 \in DOMAIN b /\ Head(b) = b[1] /\ t \in Seq(Message) /\ Head(b) \in Message
      /\ \A i \in DOMAIN t : i + 1 \in DOMAIN b /\ t[i] = b[i + 1] /\ i \in Nat
  BY TailHolds
<1>2. m \in Message /\ m.type = Head(b).type /\ m.order = Head(b).order /\ m.to = "topic"
  BY <1>1 DEF Message
<1>3. /\ DOMAIN b = 1..Len(b) /\ Len(b) \in Nat /\ DOMAIN t = 1..(Len(b) - 1)
      /\ Len(t) = Len(b) - 1 /\ Len(t) \in Nat
  BY HeadTailProperties, LenProperties, <1>1
<1>4. /\ DOMAIN c = DOMAIN t \cup {Len(t) + 1} /\ c[Len(t) + 1] = m
      /\ \A i \in DOMAIN t : c[i] = t[i]
  BY <1>1, <1>2, AppendHolds
<1> HIDE DEF m, t, c
(* Where the messages of b are in c.                                        *)
<1>5. ASSUME NEW j \in DOMAIN b, j # 1
      PROVE  j - 1 \in DOMAIN c /\ c[j - 1] = b[j]
  <2>1. j - 1 \in DOMAIN t /\ (j - 1) + 1 = j
    BY <1>3, <1>5
  <2> QED BY <1>1, <1>4, <2>1
<1>6. ASSUME NEW i \in DOMAIN t, Says(c[i]) PROVE Heralded(c, i, heard)
  <2>1. i + 1 \in DOMAIN b /\ c[i] = b[i + 1] /\ i \in Nat /\ Heralded(b, i + 1, heard)
    BY <1>1, <1>4, <1>6 DEF AllHeralded
  <2>2. CASE "Submitted" \in heard[c[i].order]
    BY <2>2 DEF Heralded
  <2>3. ASSUME NEW j \in 1..i, Announces(b[j], c[i].order, c[i].to)
        PROVE  Heralded(c, i, heard)
    <3>1. j \in DOMAIN b
      BY <1>3, <2>1
    <3>2. CASE j = 1
      <4>1. c[i].to = "process" /\ Announces(c[Len(t) + 1], c[i].order, "topic")
        BY <1>1, <1>2, <1>4, <2>3, <3>2 DEF Announces
      <4> QED BY <1>4, <4>1 DEF Heralded
    <3>3. CASE j # 1
      <4>1. j - 1 \in 1..(i - 1)
        BY <2>1, <3>3
      <4> QED BY <1>5, <2>3, <3>1, <3>3, <4>1 DEF Heralded
    <3> QED BY <3>2, <3>3
  <2>4. ASSUME c[i].to = "process", NEW j \in DOMAIN b, Announces(b[j], c[i].order, "topic")
        PROVE  Heralded(c, i, heard)
    <3>1. j # 1
      BY <1>1, <2>4 DEF Announces
    <3> QED BY <1>5, <2>4, <3>1 DEF Heralded
  <2>5. (i + 1) - 1 = i
    BY <2>1
  <2> QED BY <2>1, <2>2, <2>3, <2>4, <2>5 DEF Heralded
<1>7. ASSUME Says(m) PROVE Heralded(c, Len(t) + 1, heard)
  <2>1. Heralded(b, 1, heard)
    BY <1>1, <1>2, <1>7 DEF AllHeralded, Says
  <2>2. CASE "Submitted" \in heard[m.order]
    BY <1>4, <2>2 DEF Heralded
  <2>3. ASSUME NEW j \in DOMAIN b, Announces(b[j], m.order, "topic")
        PROVE  Heralded(c, Len(t) + 1, heard)
    <3>1. j # 1
      BY <1>1, <2>3 DEF Announces
    <3>2. j - 1 \in 1..((Len(t) + 1) - 1)
      BY <1>3, <3>1
    <3> QED BY <1>2, <1>4, <1>5, <2>3, <3>1, <3>2 DEF Heralded
  <2>4. 1..(1 - 1) = {}
    OBVIOUS
  <2> QED BY <1>1, <1>2, <2>1, <2>2, <2>3, <2>4 DEF Heralded
<1>8. ASSUME NEW i \in DOMAIN c, Says(c[i]) PROVE Heralded(c, i, heard)
  <2>1. CASE i \in DOMAIN t
    BY <1>6, <1>8, <2>1
  <2>2. CASE i = Len(t) + 1
    BY <1>4, <1>7, <1>8, <2>2
  <2> QED BY <1>4, <2>1, <2>2
<1> QED BY <1>8 DEF AllHeralded, c, t, m

-----------------------------------------------------------------------------
(* With room in the queue, nothing that is put there is lost.               *)
LEMMA HeldSplits ==
  ASSUME NEW S, NEW s \in Seq(S), s # <<>>
  PROVE  Held(s) = Held(Tail(s)) \cup {Head(s)}
<1>1. /\ Len(s) \in Nat /\ DOMAIN s = 1..Len(s) /\ Head(s) = s[1]
      /\ DOMAIN Tail(s) = 1..(Len(s) - 1)
      /\ \A i \in 1..(Len(s) - 1) : Tail(s)[i] = s[i + 1]
  BY HeadTailProperties, LenProperties
<1>2. ASSUME NEW i \in DOMAIN s PROVE s[i] \in Held(Tail(s)) \cup {Head(s)}
  <2>1. CASE i = 1
    BY <1>1, <2>1
  <2>2. CASE i # 1
    <3>1. i - 1 \in 1..(Len(s) - 1) /\ (i - 1) + 1 = i
      BY <1>1, <2>2
    <3>2. Tail(s)[i - 1] = s[i] /\ i - 1 \in DOMAIN Tail(s)
      BY <1>1, <3>1
    <3> QED BY <3>2 DEF Held
  <2> QED BY <2>1, <2>2
<1>3. Held(Tail(s)) \subseteq Held(s) /\ Head(s) \in Held(s)
  BY TailHolds
<1>4. Held(s) \subseteq Held(Tail(s)) \cup {Head(s)}
  BY <1>2 DEF Held
<1> QED BY <1>3, <1>4

LEMMA RoomPosts ==
  ASSUME QueuesOK, Room, NEW m
  PROVE  /\ BusGets(m) => bus' = Append(bus, m) /\ m \in Message
                          /\ Held(bus') = Held(bus) \cup {m}
         /\ BusAnswers(m) => /\ bus' = Append(Tail(bus), m) /\ m \in Message
                             /\ Held(bus') = Held(Tail(bus)) \cup {m}
                             /\ Held(bus) = Held(Tail(bus)) \cup {Head(bus)}
<1>1. bus \in Seq(Message)
  BY DEF QueuesOK
<1>2. ASSUME BusGets(m)
      PROVE  bus' = Append(bus, m) /\ m \in Message /\ Held(bus') = Held(bus) \cup {m}
  <2>1. bus' = Append(bus, m) /\ m \in Message
    BY <1>2 DEF BusGets, Fits, Post, Room
  <2> QED BY <1>1, <2>1, AppendHolds
<1>3. ASSUME BusAnswers(m)
      PROVE  /\ bus' = Append(Tail(bus), m) /\ m \in Message
             /\ Held(bus') = Held(Tail(bus)) \cup {m}
  <2>1. bus # <<>> /\ m \in Message /\ bus' = Post(Tail(bus), m)
    BY <1>3 DEF BusAnswers, Fits
  <2>2. Tail(bus) \in Seq(Message) /\ Len(Tail(bus)) = Len(bus) - 1 /\ Len(bus) \in Nat
    BY <1>1, <2>1, HeadTailProperties, LenProperties
  <2>3. Len(Tail(bus)) < BusCapacity
    BY <2>2, CapacityAssumption DEF Room
  <2>4. bus' = Append(Tail(bus), m)
    BY <2>1, <2>3 DEF Post
  <2>5. Held(Append(Tail(bus), m)) = Held(Tail(bus)) \cup {m}
    <3> DEFINE t == Tail(bus)
    <3>1. t \in Seq(Message) /\ m \in Message
      BY <2>1, <2>2
    <3> HIDE DEF t
    <3>2. Held(Append(t, m)) = Held(t) \cup {m}
      BY <3>1, AppendHolds
    <3> QED BY <3>2 DEF t
  <2> QED BY <2>1, <2>4, <2>5
<1>4. BusAnswers(m) => Held(bus) = Held(Tail(bus)) \cup {Head(bus)}
  BY <1>1, HeldSplits DEF BusAnswers
<1> QED BY <1>2, <1>3, <1>4

(* An order that goes to the client is announced in the same step.          *)
LEMMA AnnouncedWhenSent ==
  ASSUME FlowInv, [Next]_vars, NEW o \in Orders, post'[o] # "none" \/ Buffered(o)'
  PROVE  post[o] # "none" \/ Buffered(o) \/ News(Event("Submitted", o, 0))
<1> USE DEF connVars, sentVars, clientVars, flowVars, vars
<1> DEFINE Goal == post[o] # "none" \/ Buffered(o) \/ News(Event("Submitted", o, 0))
<1> SUFFICES Goal
  OBVIOUS
<1>0. QueuesOK /\ StatesOK
  BY DEF FlowInv
<1>1. ASSUME pending_orders' = pending_orders, post[o] = "none" => post'[o] = "none" PROVE Goal
  BY <1>1 DEF Buffered
<1>2. ASSUME NEW p \in Orders, NEW b, SubmitOrder(p, b), News(Event("Submitted", p, 0)) PROVE Goal
  <2>1. CASE o = p
    BY <1>2, <2>1
  <2>2. CASE o # p
    <3>1. post'[o] = post[o]
          /\ (pending_orders' = pending_orders \/ pending_orders' = Append(pending_orders, p))
      BY <1>2, <2>2 DEF SubmitOrder, SendOrders
    <3>2. Held(Append(pending_orders, p)) = Held(pending_orders) \cup {p}
      BY <1>0, AppendHolds DEF StatesOK
    <3>3. Buffered(o)' => Buffered(o)
      BY <2>2, <3>1, <3>2 DEF Buffered
    <3> QED BY <3>1, <3>3
  <2> QED BY <2>1, <2>2
<1>3. ASSUME UNCHANGED <<pending_orders, post>> PROVE Goal
  BY <1>1, <1>3
<1>4. ASSUME StreamUp PROVE Goal
  <2>1. ~Buffered(o)'
    BY <1>4 DEF StreamUp, Buffered, Held
  <2>2. post'[o] = post[o] \/ o \in Held(pending_orders)
    BY <1>4 DEF StreamUp, SendOrders, Held
  <2> QED BY <2>1, <2>2 DEF Buffered
<1> HIDE DEF Goal
<1>5. ASSUME NEW p \in Orders, SubmitDirect(p) PROVE Goal
  <2>1. BusGets(Event("Submitted", p, 0)) /\ SubmitOrder(p, bus)
    BY <1>0, <1>5, BusEffects DEF SubmitDirect
  <2>2. News(Event("Submitted", p, 0))
    BY <2>1 DEF News
  <2> QED BY <1>2, <2>1, <2>2
<1>6. ASSUME ExecSubmit PROVE Goal
  <2> DEFINE p == Head(bus).order
  <2>1. bus # <<>> /\ Head(bus).type = "Submit" /\ Head(bus).to = "exec"
    BY <1>6 DEF ExecSubmit, Serving
  <2>2. p \in Orders
    BY <1>0, <2>1, HeadFits
  <2>3. CASE connected
    <3>1. SubmitOrder(p, Tail(bus)) /\ BusAnswers(Event("Submitted", p, 0))
      BY <1>0, <1>6, <2>3, BusEffects DEF ExecSubmit
    <3>2. News(Event("Submitted", p, 0))
      BY <2>1, <3>1 DEF News, ForHead
    <3> QED BY <1>2, <2>2, <3>1, <3>2
  <2>4. CASE ~connected
    BY <1>3, <1>6, <2>4 DEF ExecSubmit
  <2> QED BY <2>3, <2>4
<1>7. ASSUME NEW p \in Orders, AnswerPost(p) \/ AnswerDelete(p) \/ ExchangeStep(p) PROVE Goal
  <2>1. pending_orders' = pending_orders /\ (post[o] = "none" => post'[o] = "none")
    BY <1>0, <1>7 DEF AnswerPost, AnswerDelete, ExchangeStep, AnswersOrder, AnswersCancel,
       ExchangeAccept, ExchangeFillAtOnce, ExchangeRefuse, PostLost, ExchangeTrade,
       ExchangeExpire, ExchangeCancel, CancelFails, ExchangeOnly, Answered, StatesOK
  <2> QED BY <1>1, <2>1
<1>8. ASSUME ProgramStep PROVE Goal
  <2>1. ASSUME ~\E p \in Orders : SubmitDirect(p) PROVE Goal
    BY <1>3, <1>8, <2>1 DEF ProgramStep, SyncOpenOrders, CancelOrders, OpenSession,
       CloseSession, Connect, Disconnect, SubmitNext, Submit, SubmitList, SubmitOne, Send
  <2> QED BY <1>5, <2>1
<1>9. ASSUME RiskExecute \/ ExecCancel \/ ExecIgnore \/ ProcessEvent \/ OnEvent PROVE Goal
  BY <1>3, <1>9 DEF RiskExecute, ExecCancel, CancelOrders, ExecIgnore, ProcessEvent, OnEvent
<1>10. ASSUME Joined \/ StreamError \/ StreamDial \/ StreamExit \/ ReadReport PROVE Goal
  BY <1>3, <1>10 DEF Joined, StreamError, StreamDial, StreamExit, ReadReport
<1>11. ASSUME UNCHANGED vars PROVE Goal
  BY <1>3, <1>11
<1> QED BY <1>4, <1>6, <1>7, <1>8, <1>9, <1>10, <1>11
        DEF Next, ServeStep, ClientStep, StreamStep

LEMMA ToldMoves ==
  ASSUME [Next]_vars
  PROVE  told' = told \/ OnEvent
<1> USE DEF connVars, sentVars, clientVars, flowVars, vars
<1>1. CASE ProgramStep
  BY <1>1 DEF ProgramStep, SubmitOne, Submit, SubmitDirect, SubmitList, SubmitNext, Send,
     SyncOpenOrders, OpenSession, CloseSession
<1>2. CASE RiskExecute \/ ExecSubmit \/ ExecCancel \/ ExecIgnore \/ ProcessEvent
  BY <1>2 DEF RiskExecute, ExecSubmit, ExecCancel, ExecIgnore, ProcessEvent
<1>3. CASE ClientStep
  BY <1>3 DEF ClientStep
<1> QED BY <1>1, <1>2, <1>3 DEF Next, ServeStep

(* What is told of an order, and what is said of it where.                  *)
LEMMA EventHeard ==
  ASSUME FlowInv, OnEvent
  PROVE  /\ bus # <<>> /\ bus' = Tail(bus) /\ Head(bus).to = "topic"
         /\ Head(bus).order \in Orders
         /\ \A o \in Orders : told'[o] = IF o = Head(bus).order
                                         THEN told[o] \cup {Head(bus).type} ELSE told[o]
<1>1. bus # <<>> /\ bus' = Tail(bus) /\ Head(bus).to = "topic"
      /\ told' = [told EXCEPT ![Head(bus).order] = @ \cup {Head(bus).type}]
  BY DEF OnEvent, Serving
<1>2. Head(bus).order \in Orders
  BY <1>1, HeadFits DEF FlowInv
<1>3. told \in [Orders -> SUBSET EventTypes]
  BY DEF FlowInv, StatesOK
<1> QED BY <1>1, <1>2, <1>3

LEMMA FirstStep ==
  ASSUME Room, FlowInv, TrackedInv, FirstInv, [Next]_vars
  PROVE  FirstInv'
<1>0. QueuesOK /\ StatesOK /\ TokenInv /\ bus \in Seq(Message)
  BY DEF FlowInv, QueuesOK
<1>1. ASSUME NEW o \in Orders, "Submitted" \in told[o] PROVE "Submitted" \in told'[o]
  BY <1>1, ToldMoves, EventHeard
(* The head that is lost or answered.                                       *)
<1>2. ASSUME bus # <<>>, Head(bus).to \in {"risk", "exec"}
      PROVE  Head(bus).type # "Submitted" /\ ~OnEvent
  <2>1. Head(bus).type \in CommandTypes
    BY <1>0, <1>2, HeadFits DEF Fits
  <2> QED BY <1>2, <2>1, EventHeard DEF CommandTypes
<1>3. ASSUME BusLosesOne
      PROVE  /\ bus # <<>> /\ bus' = Tail(bus)
             /\ Head(bus).type = "Submitted" => "Submitted" \in told'[Head(bus).order]
  <2>1. bus # <<>> /\ bus' = Tail(bus) /\ Fits(Head(bus)) /\ Head(bus).order \in Orders
    BY <1>0, <1>3, HeadFits DEF BusLosesOne, BusLoses
  <2>2. CASE OnEvent
    BY <2>1, <2>2, EventHeard
  <2>3. CASE ~OnEvent
    <3>1. Head(bus).to \in {"risk", "exec"}
      BY <1>3, <2>1, <2>3 DEF BusLosesOne, Fits, Message
    <3> QED BY <1>2, <2>1, <3>1
  <2> QED BY <2>1, <2>2, <2>3
<1>4. ASSUME NEW m, BusAnswers(m), ForHead(m)
      PROVE  \/ ProcessEvent /\ m = [Head(bus) EXCEPT !.to = "topic"]
                /\ Head(bus).to = "process"
             \/ ~Says(m) /\ Head(bus).type # "Submitted"
  <2>1. bus # <<>> /\ Head(bus) \in Message /\ Fits(Head(bus))
    BY <1>0, <1>4, HeadFits DEF BusAnswers, Fits
  <2>2. \A p : /\ ~Says(Event("Denied", p, 0)) /\ ~Says(Event("Submitted", p, 0))
               /\ ~Says([Event("Rejected", p, 0) EXCEPT !.to = "topic"])
    BY DEF Says, Event
  <2>3. ASSUME Head(bus).to = "risk" PROVE ~Says([Head(bus) EXCEPT !.to = "exec"])
    BY <2>1, <2>3 DEF Says, Fits, Message, CommandTypes
  <2>4. ProcessEvent => Head(bus).to = "process"
    BY DEF ProcessEvent, Serving
  <2> QED BY <1>2, <1>4, <2>1, <2>2, <2>3, <2>4 DEF ForHead
<1>5. ASSUME NEW o \in Orders, Announced(o) PROVE Announced(o)'
  <2>1. CASE "Submitted" \in told[o]
    BY <1>1, <2>1 DEF Announced
  <2>2. ASSUME NEW x \in Held(bus), x.type = "Submitted", x.order = o PROVE Announced(o)'
    <3>1. bus' = bus => Announced(o)'
      BY <2>2 DEF Announced
    <3>2. ASSUME BusLosesOne PROVE Announced(o)'
      <4>1. Held(bus) = Held(Tail(bus)) \cup {Head(bus)}
        BY <1>0, <1>3, <3>2, HeldSplits
      <4> QED BY <1>3, <2>2, <3>2, <4>1 DEF Announced
    <3>3. ASSUME NEW m, BusGets(m) PROVE Announced(o)'
      BY <1>0, <2>2, <3>3, RoomPosts DEF Announced
    <3>4. ASSUME NEW m, BusAnswers(m), ForHead(m) PROVE Announced(o)'
      <4>1. Held(bus') = Held(Tail(bus)) \cup {m} /\ Held(bus) = Held(Tail(bus)) \cup {Head(bus)}
        BY <1>0, <3>4, RoomPosts
      <4>2. CASE x \in Held(Tail(bus))
        BY <2>2, <4>1, <4>2 DEF Announced
      <4>3. CASE x = Head(bus)
        <5>1. m = [x EXCEPT !.to = "topic"] /\ x \in Message
          BY <1>0, <1>4, <2>2, <3>4, <4>3, HeadFits DEF BusAnswers, Fits
        <5>2. m.type = x.type /\ m.order = x.order
          BY <5>1 DEF Message
        <5> QED BY <2>2, <4>1, <5>2 DEF Announced
      <4> QED BY <2>2, <4>1, <4>2, <4>3
    <3> QED BY <1>0, <3>1, <3>2, <3>3, <3>4, NewsOnly DEF News
  <2> QED BY <1>5, <2>1, <2>2 DEF Announced
<1>6. ASSUME NEW o \in Orders, post'[o] # "none" \/ Buffered(o)' PROVE Announced(o)'
  <2>1. CASE post[o] # "none" \/ Buffered(o)
    BY <1>5, <2>1 DEF FirstInv
  <2>2. CASE News(Event("Submitted", o, 0))
    <3>1. Event("Submitted", o, 0) \in Held(bus')
      BY <1>0, <2>2, RoomPosts DEF News
    <3> QED BY <3>1 DEF Announced, Event
  <2> QED BY <1>6, <2>1, <2>2, AnnouncedWhenSent
<1>7. AllHeralded(bus', told')
  <2>1. AllHeralded(bus, told) /\ \A o \in Orders : "Submitted" \in told[o]
                                                      => "Submitted" \in told'[o]
    BY <1>1 DEF FirstInv
  <2>2. CASE BusLosesOne
    BY <1>0, <1>3, <2>1, <2>2, TailHeralded
  <2>3. ASSUME ~BusLosesOne PROVE told' = told
    <3>1. OnEvent => BusLosesOne
      BY EventHeard DEF BusLosesOne, BusLoses
    <3> QED BY <2>3, <3>1, ToldMoves
  <2>4. CASE bus' = bus /\ ~BusLosesOne
    BY <2>1, <2>3, <2>4
  <2>5. ASSUME NEW m, BusGets(m), News(m), ~BusLosesOne, ~\E n : BusAnswers(n) /\ ForHead(n)
        PROVE  AllHeralded(bus', told')
    <3>1. bus' = Append(bus, m) /\ m \in Message
      BY <1>0, <2>5, RoomPosts
    <3>2. ASSUME Says(m) PROVE m.to = "process" /\ m.order \in Orders /\ post[m.order] # "none"
      <4>1. ASSUME NEW o \in Orders, ForThread(m, o)
            PROVE  m.to = "process" /\ m.order = o /\ post[o] # "none"
        BY <3>2, <4>1 DEF ForThread, Event, Says, TrackedInv
      <4>2. ASSUME ReadReport, Head(stream).order \in DOMAIN tracked,
                   m = ReportEvent(Head(stream))
            PROVE  m.to = "process" /\ m.order \in Orders /\ post[m.order] # "none"
        <5>1. Head(stream) \in ReportSet
          BY <1>0, <4>2, TailHolds DEF QueuesOK, ReadReport
        <5>2. m.to = "process" /\ m.order = Head(stream).order /\ m.order \in Orders
          BY <4>2, <5>1, ReportEventFits DEF ReportSet
        <5> QED BY <4>2, <5>2 DEF TrackedInv
      <4>3. \A p : m # Event("Submitted", p, 0)
                   /\ \A type \in CommandTypes : m # Command("risk", type, p)
        BY <3>2 DEF Says, Event, Command, CommandTypes
      <4> QED BY <2>5, <4>1, <4>2, <4>3 DEF News
    <3>3. ASSUME Says(m)
          PROVE  \/ "Submitted" \in told[m.order]
                 \/ \E x \in Held(bus) : \/ Announces(x, m.order, m.to)
                                         \/ m.to = "process" /\ Announces(x, m.order, "topic")
      <4>1. Announced(m.order) /\ m.to = "process"
        BY <3>2, <3>3 DEF FirstInv
      <4>2. \A x \in Held(bus) : x.type = "Submitted" => x.to \in {"process", "topic"}
        <5>1. \A x \in Held(bus) : Fits(x)
          BY <1>0, BusStep
        <5> QED BY <5>1 DEF Fits, Message, CommandTypes
      <4> QED BY <4>1, <4>2 DEF Announced, Announces
    <3> QED BY <1>0, <2>1, <2>3, <2>5, <3>1, <3>3, AppendHeralded
  <2>6. ASSUME NEW m, BusAnswers(m), ForHead(m), ~BusLosesOne
        PROVE  AllHeralded(bus', told')
    <3>1. bus' = Append(Tail(bus), m) /\ m \in Message /\ bus # <<>>
          /\ Tail(bus) \in Seq(Message)
      BY <1>0, <2>6, RoomPosts, TailHolds DEF BusAnswers
    <3>2. CASE m = [Head(bus) EXCEPT !.to = "topic"] /\ Head(bus).to = "process"
      BY <1>0, <2>1, <2>3, <2>6, <3>1, <3>2, TopicHeralded
    <3>3. CASE ~Says(m) /\ Head(bus).type # "Submitted"
      <4>1. AllHeralded(Tail(bus), told)
        BY <1>0, <2>1, <3>1, <3>3, TailHeralded
      <4> QED BY <2>3, <2>6, <3>1, <3>3, <4>1, AppendHeralded
    <3> QED BY <1>4, <2>6, <3>2, <3>3
  <2> QED BY <1>0, <2>2, <2>4, <2>5, <2>6, NewsOnly DEF News
<1>8. SubmittedIsFirst'
  <2> SUFFICES ASSUME NEW o \in Orders, told'[o] \cap {"Accepted", "Filled", "Canceled"} # {}
               PROVE  "Submitted" \in told'[o]
    BY DEF SubmittedIsFirst
  <2>1. CASE told[o] \cap {"Accepted", "Filled", "Canceled"} # {}
    BY <1>1, <2>1 DEF FirstInv, SubmittedIsFirst
  <2>2. CASE OnEvent /\ o = Head(bus).order /\ Says(Head(bus))
    <3>1. 1 \in DOMAIN bus /\ Head(bus) = bus[1] /\ Head(bus).to = "topic"
      BY <1>0, <2>2, EventHeard, TailHolds
    <3>2. Heralded(bus, 1, told)
      BY <2>2, <3>1 DEF FirstInv, AllHeralded
    <3>3. 1..(1 - 1) = {}
      OBVIOUS
    <3>4. "Submitted" \in told[o]
      BY <2>2, <3>1, <3>2, <3>3 DEF Heralded
    <3> QED BY <1>1, <3>4
  <2> QED BY <2>1, <2>2, ToldMoves, EventHeard DEF Says
<1> QED BY <1>6, <1>7, <1>8 DEF FirstInv

(* While the queue does not overflow, the strategy hears of the exchange's  *)
(* view of an order only after OrderSubmitted, whichever thread is faster   *)
(* and however often the program connects.                                  *)
THEOREM SubmittedComesFirst ==
  Spec /\ [](Len(bus) < BusCapacity) => []SubmittedIsFirst
<1>1. Init => FirstInv
  <2> SUFFICES ASSUME Init PROVE FirstInv
    OBVIOUS
  <2> USE DEF Init, ClientInit
  <2>1. Held(pending_orders) = {} /\ DOMAIN bus = {}
    BY DEF Held
  <2> QED BY <2>1 DEF FirstInv, Buffered, AllHeralded, SubmittedIsFirst
<1>2. FlowInv /\ TrackedInv /\ Room /\ FirstInv /\ [Next]_vars => FirstInv'
  BY FirstStep
<1>3. FirstInv => SubmittedIsFirst
  BY DEF FirstInv
<1>4. Len(bus) < BusCapacity => Room
  BY DEF Room
<1> QED BY <1>1, <1>2, <1>3, <1>4, FlowInvHolds, TrackedHolds, PTL DEF Spec
=============================================================================
