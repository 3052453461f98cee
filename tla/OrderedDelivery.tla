--------------------------- MODULE OrderedDelivery ---------------------------
(***************************************************************************)
(* What the event bus is to those who use it: messages are accepted one    *)
(* after the other, taken up one at a time in that order, and the one that *)
(* was taken up last is handed to some handlers, to none of them twice.    *)
(* MessageBus implements it with a queue, two loops that empty it and the  *)
(* handlers' own calls of the bus.                                         *)
(***************************************************************************)
EXTENDS Naturals, Sequences

CONSTANTS Messages, Handlers

VARIABLES
  accepted,   \* the messages accepted
  begun,      \* the messages taken up
  calls       \* <<handler, message>>, for each call of a handler

deliveryVars == <<accepted, begun, calls>>

IsIn(e, s) == \E i \in DOMAIN s : s[i] = e

Accept(m) ==
  /\ ~IsIn(m, accepted)
  /\ accepted' = Append(accepted, m)
  /\ UNCHANGED <<begun, calls>>

TakeUp ==
  /\ Len(begun) < Len(accepted)
  /\ begun' = Append(begun, accepted[Len(begun) + 1])
  /\ UNCHANGED <<accepted, calls>>

Call(h) ==
  /\ begun # <<>> /\ ~IsIn(<<h, begun[Len(begun)]>>, calls)
  /\ calls' = Append(calls, <<h, begun[Len(begun)]>>)
  /\ UNCHANGED <<accepted, begun>>

DeliveryInit == accepted = <<>> /\ begun = <<>> /\ calls = <<>>

DeliveryNext ==
  (\E m \in Messages : Accept(m)) \/ TakeUp \/ (\E h \in Handlers : Call(h))

DeliverySpec == DeliveryInit /\ [][DeliveryNext]_deliveryVars
=============================================================================
