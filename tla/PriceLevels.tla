----------------------------- MODULE PriceLevels -----------------------------
(***************************************************************************)
(* What an order book is: on each side, how much is offered at which tick. *)
(* OrderBookLevels implements it with two sorted vectors of levels.        *)
(***************************************************************************)
EXTENDS Naturals

CONSTANTS Ticks, Sizes

VARIABLE depth   \* per side: tick -> size

BookSides == {"BUY", "SELL"}

AnyDepth == UNION {[T -> Sizes] : T \in SUBSET Ticks}

SetLevel(side, t, size) ==
  depth' = [depth EXCEPT ![side] =
              [u \in DOMAIN depth[side] \cup {t} |-> IF u = t THEN size ELSE depth[side][u]]]

DropLevel(side, t) ==
  depth' = [depth EXCEPT ![side] = [u \in DOMAIN depth[side] \ {t} |-> depth[side][u]]]

Empty == depth' = [side \in BookSides |-> [t \in {} |-> 0]]

LevelsInit == depth \in [BookSides -> AnyDepth]

LevelsNext ==
  \/ Empty
  \/ \E side \in BookSides, t \in Ticks :
       DropLevel(side, t) \/ \E size \in Sizes : SetLevel(side, t, size)

LevelsSpec == LevelsInit /\ [][LevelsNext]_depth
=============================================================================
