------------------------- MODULE MCDataSubscriptions -------------------------
(* Instances of DataSubscriptions for TLC.                                  *)
EXTENDS DataSubscriptions

CONSTANTS a1, a2, quotes, book

MCDepthsOf == [f \in Feeds |-> IF f = book THEN {1, 2} ELSE {0}]
=============================================================================
