---------------------------- MODULE MCMessageBus ----------------------------
(* Instances of MessageBus for TLC.                                         *)
EXTENDS MessageBus

CONSTANTS main, io, m1, m2, m3, ep, tp

MCDest == [m \in Messages |-> IF m = m1 THEN ep ELSE tp]
=============================================================================
