--------------------------- MODULE DepthBookProofs ---------------------------
(***************************************************************************)
(* Theorems about DepthBook, for any number of changes and subscriptions.  *)
(*                                                                         *)
(* GapsExplained is not inductive: an event that is applied sets           *)
(* last_update_id to its last change, and says nothing of the changes      *)
(* before its first.  The strengthening adds what the connection has       *)
(* delivered so far: the events on the wire follow one another without a   *)
(* gap up to `sent' (WireInOrder), and everything before the first of them *)
(* was applied or missed (DeliveredAccounted).                             *)
(***************************************************************************)
EXTENDS DepthBook, SequenceTheorems, TLAPS

Event == [first : Nat, final : Nat]
Books == [initialized : BOOLEAN, last_update_id : Nat, has : SUBSET Nat, torn : BOOLEAN]

(* The last change whose fate is settled on this connection.                *)
Delivered == IF wire = <<>> THEN sent ELSE wire[1].first - 1

WireInOrder ==
  /\ \A i \in 1..Len(wire) : wire[i].first >= 1 /\ wire[i].first <= wire[i].final
  /\ \A i \in 1..(Len(wire) - 1) : wire[i + 1].first = wire[i].final + 1
  /\ wire # <<>> => wire[Len(wire)].final = sent

DeliveredAccounted == connected => 1..Delivered \subseteq book.has \cup missed

Typing ==
  /\ running \in BOOLEAN /\ disconnecting \in BOOLEAN
  /\ subscribed \in BOOLEAN /\ connected \in BOOLEAN
  /\ book \in Books
  /\ version \in [Threads -> Nat]
  /\ wire \in Seq(Event) /\ sent \in Nat /\ exchange \in Nat
  /\ missed \subseteq Nat
  /\ ~subscribed => book = NewBook

IInv == Typing /\ WireInOrder /\ DeliveredAccounted /\ GapsExplained /\ NothingAhead

-----------------------------------------------------------------------------
(* The initial state has no book and an empty wire.                         *)
LEMMA InitIInv == Init => IInv
  <1> SUFFICES ASSUME Init PROVE IInv
    OBVIOUS
  <1>1. Typing
    <2>1. <<>> \in Seq(Event)
      OBVIOUS
    <2>2. book \in Books
      BY DEF Init, NewBook, Books
    <2> QED BY <2>1, <2>2 DEF Init, Typing
  <1>2. WireInOrder
    BY DEF Init, WireInOrder
  <1>3. DeliveredAccounted /\ GapsExplained /\ NothingAhead
    BY DEF Init, DeliveredAccounted, GapsExplained, NothingAhead, NewBook
  <1> QED BY <1>1, <1>2, <1>3 DEF IInv

(* Each operation keeps the types of what it changes.                       *)
LEMMA TypingStep == Typing /\ [Next]_vars => Typing'
  <1> SUFFICES ASSUME Typing, [Next]_vars PROVE Typing'
    OBVIOUS
  <1> USE DEF Typing, Books, bookVars, threadVars, streamVars
  <1>1. CASE ExchangeChanges
    BY <1>1 DEF ExchangeChanges
  <1>2. CASE ExchangeSends
    BY <1>2 DEF ExchangeSends, Event
  <1>3. CASE Unsubscribe
    BY <1>3 DEF Unsubscribe, NewBook
  <1>4. CASE Connect
    BY <1>4 DEF Connect
  <1>5. CASE Disconnect
    BY <1>5 DEF Disconnect
  <1>6. CASE Joined
    BY <1>6 DEF Joined, NewBook
  <1>7. ASSUME NEW k \in Threads, Subscribe(k) PROVE Typing'
    BY <1>7 DEF Subscribe, NewBook
  <1>8. ASSUME NEW k \in Threads, ExchangeAnswers(k) PROVE Typing'
    BY <1>8 DEF ExchangeAnswers
  <1>9. ASSUME NEW k \in Threads, SnapshotArrives(k) PROVE Typing'
    <2>1. version[k] \in Nat /\ 1..version[k] \subseteq Nat
      OBVIOUS
    <2>2. book' \in Books
      <3>1. CASE book' = book
        BY <3>1
      <3>2. CASE book' = [initialized |-> TRUE, last_update_id |-> version[k],
                          has |-> 1..version[k], torn |-> FALSE]
        BY <3>2, <2>1
      <3> QED BY <1>9, <3>1, <3>2 DEF SnapshotArrives
    <2>3. missed' \subseteq Nat
      BY <1>9 DEF SnapshotArrives
    <2> QED BY <1>9, <2>2, <2>3 DEF SnapshotArrives
  <1>10. ASSUME NEW k \in Threads, SnapshotFails(k) PROVE Typing'
    BY <1>10 DEF SnapshotFails
  <1>11. CASE StreamUp
    <2>1. <<>> \in Seq(Event) /\ 1..exchange \subseteq Nat
      OBVIOUS
    <2>2. missed' \subseteq Nat
      BY <1>11, <2>1 DEF StreamUp
    <2> QED BY <1>11, <2>1, <2>2 DEF StreamUp
  <1>12. CASE StreamDown
    <2>1. <<>> \in Seq(Event)
      OBVIOUS
    <2> QED BY <1>12, <2>1 DEF StreamDown
  <1>13. CASE ProcessDepthUpdate
    <2>1. wire # <<>> /\ Head(wire) \in Event /\ Tail(wire) \in Seq(Event)
      BY <1>13 DEF ProcessDepthUpdate
    <2>2. Head(wire).first \in Nat /\ Head(wire).final \in Nat
      BY <2>1 DEF Event
    <2>3. Head(wire).first..Head(wire).final \subseteq Nat
      BY <2>2
    <2>4. book' \in Books
      <3>1. CASE book' = book
        BY <3>1
      <3>2. CASE book' = [book EXCEPT !.last_update_id = Head(wire).final,
                                      !.has = @ \cup (Head(wire).first..Head(wire).final)]
        BY <3>2, <2>2, <2>3
      <3> QED BY <1>13, <3>1, <3>2 DEF ProcessDepthUpdate
    <2>5. missed' \subseteq Nat
      BY <1>13, <2>3 DEF ProcessDepthUpdate
    <2>6. ~subscribed' => book' = NewBook'
      BY <1>13 DEF ProcessDepthUpdate, NewBook
    <2> QED BY <1>13, <2>1, <2>4, <2>5, <2>6 DEF ProcessDepthUpdate
  <1>14. CASE UNCHANGED vars
    BY <1>14 DEF vars
  <1>15. ASSUME NEW k \in Threads, SnapshotBreaksOff(k) PROVE Typing'
    <2>1. PICK part \in SUBSET (1..version[k]) :
            /\ book' = [book EXCEPT !.has = part, !.torn = TRUE]
            /\ missed' = missed \cup (book.has \ part)
      BY <1>15 DEF SnapshotBreaksOff
    <2>2. part \subseteq Nat
      OBVIOUS
    <2>3. book' \in Books /\ missed' \subseteq Nat
      BY <2>1, <2>2
    <2> QED BY <1>15, <2>3 DEF SnapshotBreaksOff
  <1> QED
    BY <1>1, <1>2, <1>3, <1>4, <1>5, <1>6, <1>7, <1>8, <1>9, <1>10, <1>11, <1>12, <1>13,
       <1>14, <1>15 DEF Next, SnapshotStep

-----------------------------------------------------------------------------
(* The events of a connection stay in order: one is added behind the last   *)
(* change sent, and the first one is taken.                                 *)
LEMMA WireStep == IInv /\ [Next]_vars => WireInOrder'
  <1> SUFFICES ASSUME IInv, [Next]_vars PROVE WireInOrder'
    OBVIOUS
  <1> USE DEF IInv, Typing, streamVars
  <1>1. CASE ExchangeSends
    <2> DEFINE e == [first |-> sent + 1, final |-> exchange]
    <2>1. wire' = Append(wire, e) /\ sent' = exchange /\ sent + 1 <= exchange
      BY <1>1 DEF ExchangeSends
    <2>2. e \in Event
      BY DEF Event
    <2>3. /\ Len(wire') = Len(wire) + 1 /\ wire'[Len(wire) + 1] = e
          /\ \A i \in 1..Len(wire) : wire'[i] = wire[i]
      BY <2>1, <2>2
    <2>4. \A i \in 1..Len(wire') : wire'[i].first >= 1 /\ wire'[i].first <= wire'[i].final
      BY <2>1, <2>3 DEF WireInOrder
    <2>5. \A i \in 1..(Len(wire') - 1) : wire'[i + 1].first = wire'[i].final + 1
      <3> TAKE i \in 1..(Len(wire') - 1)
      <3>1. CASE i < Len(wire)
        BY <3>1, <2>3 DEF WireInOrder
      <3>2. CASE i = Len(wire)
        BY <3>2, <2>3 DEF WireInOrder
      <3> QED BY <3>1, <3>2, <2>3
    <2>6. wire'[Len(wire')].final = sent'
      BY <2>1, <2>3
    <2> QED BY <2>4, <2>5, <2>6 DEF WireInOrder
  <1>2. CASE StreamUp
    BY <1>2 DEF StreamUp, WireInOrder
  <1>3. CASE StreamDown
    BY <1>3 DEF StreamDown, WireInOrder
  <1>4. CASE ProcessDepthUpdate
    <2>1. wire # <<>> /\ wire' = Tail(wire) /\ sent' = sent
      BY <1>4 DEF ProcessDepthUpdate
    <2>2. /\ Len(wire') = Len(wire) - 1
          /\ \A i \in 1..Len(wire') : wire'[i] = wire[i + 1]
      BY <2>1
    <2> QED BY <2>1, <2>2 DEF WireInOrder
  <1>5. CASE UNCHANGED <<wire, sent>>
    BY <1>5 DEF WireInOrder
  <1> QED
    BY <1>1, <1>2, <1>3, <1>4, <1>5
    DEF Next, vars, SnapshotStep, ExchangeChanges, Unsubscribe, Connect, Disconnect, Joined,
        Subscribe, ExchangeAnswers, SnapshotArrives, SnapshotFails, SnapshotBreaksOff

(* What the book has or missed is never forgotten: it may only pass from    *)
(* the one to the other.                                                    *)
LEMMA NothingForgotten ==
  ASSUME IInv, [Next]_vars
  PROVE  book.has \cup missed \subseteq book'.has \cup missed'
  <1> USE DEF IInv, Typing, Books, bookVars
  <1>1. CASE Unsubscribe \/ Joined
    BY <1>1 DEF Unsubscribe, Joined, NewBook
  <1>2. ASSUME NEW k \in Threads, Subscribe(k)
        PROVE  book.has \cup missed \subseteq book'.has \cup missed'
    BY <1>2 DEF Subscribe, NewBook
  <1>3. ASSUME NEW k \in Threads, SnapshotArrives(k)
        PROVE  book.has \cup missed \subseteq book'.has \cup missed'
    BY <1>3 DEF SnapshotArrives
  <1>4. CASE StreamUp
    BY <1>4 DEF StreamUp
  <1>5. CASE ProcessDepthUpdate
    BY <1>5 DEF ProcessDepthUpdate
  <1>6. CASE UNCHANGED <<book, missed>>
    BY <1>6
  <1>7. ASSUME NEW k \in Threads, SnapshotBreaksOff(k)
        PROVE  book.has \cup missed \subseteq book'.has \cup missed'
    BY <1>7 DEF SnapshotBreaksOff
  <1> QED
    BY <1>1, <1>2, <1>3, <1>4, <1>5, <1>6, <1>7
    DEF Next, vars, SnapshotStep, ExchangeChanges, ExchangeSends, Connect, Disconnect,
        ExchangeAnswers, SnapshotFails, StreamDown

(* What is left when the first element of a sequence is taken.              *)
LEMMA FirstTaken ==
  ASSUME NEW S, NEW s \in Seq(S), s # <<>>
  PROVE  /\ Head(s) = s[1] /\ Head(s) \in S /\ Len(s) \in Nat
         /\ \/ Len(s) = 1 /\ Tail(s) = <<>>
            \/ Len(s) > 1 /\ Tail(s) # <<>> /\ Tail(s)[1] = s[2]
  <1> DEFINE n == Len(s)
             t == Tail(s)
  <1>1. Head(s) = s[1] /\ Head(s) \in S
    OBVIOUS
  <1>2. n \in Nat \ {0}
    BY EmptySeq
  <1>3. t \in Seq(S) /\ Len(t) = n - 1 /\ \A i \in 1..Len(t) : t[i] = s[i + 1]
    BY HeadTailProperties
  <1>4. t # <<>> => Len(t) \in Nat \ {0}
    BY <1>3, EmptySeq
  <1>5. t = <<>> => Len(t) = 0
    BY EmptySeq
  <1> HIDE DEF n, t
  <1>6. CASE t = <<>>
    BY <1>1, <1>2, <1>3, <1>5, <1>6 DEF n, t
  <1>7. CASE t # <<>>
    <2>1. n > 1 /\ t[1] = s[1 + 1]
      BY <1>2, <1>3, <1>4, <1>7
    <2> QED BY <1>1, <1>2, <1>7, <2>1 DEF n, t
  <1> QED BY <1>6, <1>7

(* Taking the first event moves Delivered to the end of that event.         *)
LEMMA DeliveredMoves ==
  ASSUME IInv, wire # <<>>, wire' = Tail(wire), sent' = sent
  PROVE  /\ Head(wire).first \in Nat /\ Head(wire).final \in Nat
         /\ Head(wire).first >= 1 /\ Head(wire).first <= Head(wire).final
         /\ Delivered = Head(wire).first - 1
         /\ Delivered' = Head(wire).final
  <1>1. wire \in Seq(Event) /\ sent \in Nat
    BY DEF IInv, Typing
  <1>2. /\ Head(wire) = wire[1] /\ Head(wire) \in Event /\ Len(wire) \in Nat
        /\ \/ Len(wire) = 1 /\ Tail(wire) = <<>>
           \/ Len(wire) > 1 /\ Tail(wire) # <<>> /\ Tail(wire)[1] = wire[2]
    BY <1>1, FirstTaken
  <1>3. wire[1].first \in Nat /\ wire[1].final \in Nat
    BY <1>2 DEF Event
  <1>4. /\ wire[1].first >= 1 /\ wire[1].first <= wire[1].final
        /\ Len(wire) = 1 => wire[1].final = sent
        /\ Len(wire) > 1 => wire[2].first = wire[1].final + 1
    BY <1>2 DEF IInv, WireInOrder
  <1>5. Delivered = wire[1].first - 1
    BY DEF Delivered
  <1>6. Delivered' = wire[1].final
    <2>1. CASE Len(wire) = 1 /\ Tail(wire) = <<>>
      BY <1>4, <2>1 DEF Delivered
    <2>2. CASE Len(wire) > 1 /\ Tail(wire) # <<>> /\ Tail(wire)[1] = wire[2]
      <3>1. Delivered' = wire[2].first - 1
        BY <2>2 DEF Delivered
      <3> QED BY <1>3, <1>4, <2>2, <3>1
    <2> QED BY <1>2, <2>1, <2>2
  <1> QED BY <1>2, <1>3, <1>4, <1>5, <1>6

(* Whatever becomes of the first event, its changes and all before them are *)
(* accounted for afterwards.                                                *)
LEMMA DepthUpdateStep ==
  ASSUME IInv, ProcessDepthUpdate
  PROVE  DeliveredAccounted' /\ GapsExplained' /\ NothingAhead'
  <1> DEFINE e == Head(wire)
  <1> USE DEF IInv, Typing, Books
  <1>1. wire # <<>> /\ wire' = Tail(wire) /\ sent' = sent /\ connected /\ connected'
    BY DEF ProcessDepthUpdate
  <1>2. /\ e.first \in Nat /\ e.final \in Nat /\ e.first >= 1 /\ e.first <= e.final
        /\ Delivered = e.first - 1 /\ Delivered' = e.final
    BY <1>1, DeliveredMoves
  <1>3. 1..(e.first - 1) \subseteq book.has \cup missed
    BY <1>1, <1>2 DEF DeliveredAccounted
  <1>4. CASE subscribed /\ book.initialized /\ ~TooOld(e)
    <2>1. /\ book' = [book EXCEPT !.last_update_id = e.final,
                                  !.has = @ \cup (e.first..e.final)]
          /\ missed' = missed
      BY <1>4 DEF ProcessDepthUpdate
    <2>2. /\ book'.has = book.has \cup (e.first..e.final)
          /\ book'.last_update_id = e.final
      BY <2>1
    <2>3. 1..e.final \subseteq book'.has \cup missed'
      BY <1>2, <1>3, <2>1, <2>2
    <2>4. book'.torn = book.torn /\ (book.torn \/ book'.has \subseteq 1..e.final)
      BY <1>2, <1>4, <2>1, <2>2 DEF NothingAhead, TooOld
    <2> QED BY <1>2, <2>2, <2>3, <2>4 DEF DeliveredAccounted, GapsExplained, NothingAhead
  <1>5. CASE subscribed /\ book.initialized /\ TooOld(e)
    <2>1. book' = book /\ missed' = missed
      BY <1>5 DEF ProcessDepthUpdate
    <2>2. 1..e.final \subseteq 1..book.last_update_id
      BY <1>2, <1>5 DEF TooOld
    <2>3. 1..e.final \subseteq book'.has \cup missed'
      BY <1>5, <2>1, <2>2 DEF GapsExplained
    <2> QED BY <1>2, <2>1, <2>3 DEF DeliveredAccounted, GapsExplained, NothingAhead
  <1>6. CASE ~(subscribed /\ book.initialized)
    <2>1. book' = book /\ missed' = missed \cup (e.first..e.final)
      BY <1>6 DEF ProcessDepthUpdate
    <2>2. 1..e.final \subseteq book'.has \cup missed'
      BY <1>2, <1>3, <2>1
    <2> QED BY <1>2, <2>1, <2>2 DEF DeliveredAccounted, GapsExplained, NothingAhead
  <1> QED BY <1>4, <1>5, <1>6

(* Every other step only adds to what is accounted for, or starts with an   *)
(* empty wire.                                                              *)
LEMMA OtherSteps ==
  ASSUME IInv, [Next]_vars, ~ProcessDepthUpdate
  PROVE  DeliveredAccounted' /\ GapsExplained' /\ NothingAhead'
  <1> USE DEF IInv, Typing, Books
  <1>0. book.has \cup missed \subseteq book'.has \cup missed'
    BY NothingForgotten
  <1> DEFINE SameStream == connected' = connected /\ wire' = wire /\ sent' = sent
  <1>1. ASSUME SameStream PROVE DeliveredAccounted'
    BY <1>0, <1>1 DEF DeliveredAccounted, Delivered
  <1>2. ASSUME book' = book PROVE GapsExplained' /\ NothingAhead'
    BY <1>0, <1>2 DEF GapsExplained, NothingAhead
  <1>3. ASSUME book' = NewBook PROVE GapsExplained' /\ NothingAhead'
    BY <1>3 DEF GapsExplained, NothingAhead, NewBook
  <1>4. CASE ExchangeSends
    <2> DEFINE e == [first |-> sent + 1, final |-> exchange]
    <2>1. connected' = connected /\ book' = book /\ wire' = Append(wire, e)
      BY <1>4 DEF ExchangeSends, bookVars
    <2>2. Delivered' = Delivered
      <3>1. CASE wire = <<>>
        BY <2>1, <3>1 DEF Delivered
      <3>2. CASE wire # <<>>
        BY <2>1, <3>2 DEF Delivered
      <3> QED BY <3>1, <3>2
    <2>3. DeliveredAccounted'
      BY <1>0, <2>1, <2>2 DEF DeliveredAccounted
    <2> QED BY <1>2, <2>1, <2>3
  <1>5. CASE StreamUp
    <2>1. book' = book /\ wire' = <<>> /\ sent' = exchange
          /\ missed' = missed \cup (1..exchange \ book.has)
      BY <1>5 DEF StreamUp
    <2>2. DeliveredAccounted'
      BY <2>1 DEF DeliveredAccounted, Delivered
    <2> QED BY <1>2, <2>1, <2>2
  <1>6. CASE StreamDown
    <2>1. book' = book /\ ~connected'
      BY <1>6 DEF StreamDown, bookVars
    <2> QED BY <1>2, <2>1 DEF DeliveredAccounted
  <1>7. CASE Unsubscribe \/ Joined
    <2>1. SameStream /\ book' = NewBook
      BY <1>7 DEF Unsubscribe, Joined, streamVars
    <2> QED BY <1>1, <1>3, <2>1
  <1>8. ASSUME NEW k \in Threads, Subscribe(k)
        PROVE  DeliveredAccounted' /\ GapsExplained' /\ NothingAhead'
    <2>1. SameStream /\ book' = NewBook
      BY <1>8 DEF Subscribe, streamVars
    <2> QED BY <1>1, <1>3, <2>1
  <1>9. ASSUME NEW k \in Threads, SnapshotArrives(k)
        PROVE  DeliveredAccounted' /\ GapsExplained' /\ NothingAhead'
    <2>1. SameStream
      BY <1>9 DEF SnapshotArrives, streamVars
    <2>2. CASE book' = book
      BY <1>1, <1>2, <2>1, <2>2
    <2>3. CASE book' = [initialized |-> TRUE, last_update_id |-> version[k],
                        has |-> 1..version[k], torn |-> FALSE]
      <3>1. GapsExplained' /\ NothingAhead'
        BY <2>3 DEF GapsExplained, NothingAhead
      <3> QED BY <1>1, <2>1, <3>1
    <2> QED BY <1>9, <2>2, <2>3 DEF SnapshotArrives
  <1>10. CASE SameStream /\ book' = book
    BY <1>1, <1>2, <1>10
  <1>11. ASSUME NEW k \in Threads, SnapshotBreaksOff(k)
         PROVE  DeliveredAccounted' /\ GapsExplained' /\ NothingAhead'
    <2>1. SameStream
      BY <1>11 DEF SnapshotBreaksOff, streamVars
    <2>2. /\ book'.torn /\ book'.initialized = book.initialized
          /\ book'.last_update_id = book.last_update_id
      BY <1>11 DEF SnapshotBreaksOff
    <2>3. GapsExplained' /\ NothingAhead'
      BY <1>0, <2>2 DEF GapsExplained, NothingAhead
    <2> QED BY <1>1, <2>1, <2>3
  <1> QED
    BY <1>4, <1>5, <1>6, <1>7, <1>8, <1>9, <1>10, <1>11
    DEF Next, vars, SnapshotStep, ExchangeChanges, Connect, Disconnect, ExchangeAnswers,
        SnapshotFails, streamVars, bookVars

-----------------------------------------------------------------------------
(* The inductive invariant holds throughout.                                *)
THEOREM BookInvariant == Spec => []IInv
  <1>1. IInv /\ [Next]_vars => IInv'
    <2> SUFFICES ASSUME IInv, [Next]_vars PROVE IInv'
      OBVIOUS
    <2>1. Typing' /\ WireInOrder'
      BY TypingStep, WireStep DEF IInv
    <2>2. DeliveredAccounted' /\ GapsExplained' /\ NothingAhead'
      BY DepthUpdateStep, OtherSteps
    <2> QED BY <2>1, <2>2 DEF IInv
  <1> QED BY InitIInv, <1>1, PTL DEF Spec

(* process_depth_update() never applies the events of a connection with a   *)
(* gap between them: what an initialized book lacks was made before its     *)
(* snapshot or between two connections, or was undone by a snapshot that    *)
(* was older or broke off.                                                  *)
THEOREM EveryGapExplained == Spec => []GapsExplained
  <1>1. IInv => GapsExplained
    BY DEF IInv
  <1> QED BY BookInvariant, <1>1, PTL

(* The book never shows a change newer than its last_update_id, so no event *)
(* it still needs is dropped as too old, unless a snapshot broke off.       *)
THEOREM NeverAhead == Spec => []NothingAhead
  <1>1. IInv => NothingAhead
    BY DEF IInv
  <1> QED BY BookInvariant, <1>1, PTL
=============================================================================
