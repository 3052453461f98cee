--------------------------- MODULE OrderBookLevels ---------------------------
(***************************************************************************)
(* OrderBook (market_data.cpp): two vectors of levels, the best first,     *)
(* changed by deltas, and the statistics kept with them.  A price is a     *)
(* whole number of some small unit.  What is meant as one price may come   *)
(* as doubles that are not quite the same, so a tick is a set of prices    *)
(* less than Tol apart (1e-8 in the code), and those of two ticks are at   *)
(* least Tol apart.  The timestamp and the sequence number are carried     *)
(* along and read by nobody here.                                          *)
(***************************************************************************)
EXTENDS Integers, FiniteSets, SequencesExt

CONSTANTS
  Ticks,   \* the prices, as they are meant
  Skews,   \* how far off a double may be
  Width,   \* the distance of two ticks
  Tol,     \* the tolerance of remove_level()
  Sizes,   \* quantities above zero: 1..n
  MaxQuantity  \* bound: the quantities one asks about

ASSUME GridAssumption ==
  /\ Ticks \subseteq Nat /\ Skews \subseteq Nat /\ Sizes \subseteq Nat \ {0}
  /\ Width \in Nat /\ Tol \in Nat
  /\ \A r, s \in Skews : r - s < Tol /\ Width + r - s >= Tol

VARIABLES
  levels,  \* bids_ and asks_
  stats    \* stats_

bookVars == <<levels, stats>>

Sides    == {"BUY", "SELL"}
Prices   == {Width * t + s : t \in Ticks, s \in Skews}
Distance(p, q) == IF p < q THEN q - p ELSE p - q

Level == [price : Prices, size : Sizes]

(* What the price is meant to be.                                           *)
Tick(p) == CHOOSE t \in Ticks : \E s \in Skews : p = Width * t + s

(* Bids go down, asks go up.                                                *)
Before(side, p, q) == IF side = "BUY" THEN p > q ELSE p < q

(* The best first, and no tick twice.                                       *)
InOrder(side, ls) ==
  \A i, j \in DOMAIN ls : i < j =>
    Before(side, ls[i].price, ls[j].price) /\ Tick(ls[i].price) # Tick(ls[j].price)

-----------------------------------------------------------------------------
(* The statistics: all zero when one side is empty.  The mean price and the *)
(* weighted one are kept as the sums they are quotients of.                 *)

(* The sums of a sequence of numbers, up to each place.                     *)
Sums(ns) ==
  LET sum[i \in 0..Len(ns)] == IF i = 0 THEN 0 ELSE sum[i - 1] + ns[i] IN sum

Total(ns) == Sums(ns)[Len(ns)]

TotalSize(ls)  == Total([i \in DOMAIN ls |-> ls[i].size])
TotalValue(ls) == Total([i \in DOMAIN ls |-> ls[i].price * ls[i].size])

NoStats == [spread |-> 0, twice_mid |-> 0, bid_volume |-> 0, ask_volume |-> 0,
            bid_value |-> 0, ask_value |-> 0, bid_levels |-> 0, ask_levels |-> 0]

ComputeStats(bids, asks) ==
  IF bids = <<>> \/ asks = <<>> THEN NoStats
  ELSE [spread |-> asks[1].price - bids[1].price,
        twice_mid |-> asks[1].price + bids[1].price,
        bid_volume |-> TotalSize(bids), ask_volume |-> TotalSize(asks),
        bid_value |-> TotalValue(bids), ask_value |-> TotalValue(asks),
        bid_levels |-> Len(bids), ask_levels |-> Len(asks)]

-----------------------------------------------------------------------------
(* The constructor takes what it is given: the caller's levels are sorted   *)
(* and of one price each (both come out of a map ordered by price).         *)
SortedLevels(side) ==
  {ls \in BoundedSeq(Level, Cardinality(Ticks)) : InOrder(side, ls)}

BookInit ==
  /\ \E bids \in SortedLevels("BUY"), asks \in SortedLevels("SELL") :
       levels = [side \in Sides |-> IF side = "BUY" THEN bids ELSE asks]
  /\ stats = ComputeStats(levels["BUY"], levels["SELL"])

-----------------------------------------------------------------------------
(* The levels at these places, in their order: each goes where its rank     *)
(* among them says.                                                         *)
LevelsAt(ls, places) ==
  [k \in 1..Cardinality(places) |->
     ls[CHOOSE i \in places : Cardinality({j \in places : j <= i}) = k]]

\* Mutant: levels of exactly this price are removed.
RemoveExact(ls, price) == LevelsAt(ls, {i \in DOMAIN ls : ls[i].price # price})

RemoveLevel(ls, price) ==
  LevelsAt(ls, {i \in DOMAIN ls : Distance(ls[i].price, price) >= Tol})

\* Mutant: asks are inserted as bids are.
InsertDescending(ls, side, level) ==
  LET ahead == {i \in DOMAIN ls : \A j \in 1..i : Before("BUY", ls[j].price, level.price)}
  IN InsertAt(ls, Cardinality(ahead) + 1, level)

(* Before the first level that is not ahead of the new one.                 *)
InsertLevel(ls, side, level) ==
  LET ahead == {i \in DOMAIN ls : \A j \in 1..i : Before(side, ls[j].price, level.price)}
  IN InsertAt(ls, Cardinality(ahead) + 1, level)

Changed(side, ls) ==
  /\ levels' = [levels EXCEPT ![side] = ls]
  /\ stats' = ComputeStats(levels'["BUY"], levels'["SELL"])

(* apply_delta(): ADD and UPDATE are the same; one of size 0 and DELETE are *)
(* the same; a SNAPSHOT is refused.                                         *)
DeltaSet(side, price, size) ==
  Changed(side, InsertLevel(RemoveLevel(levels[side], price), side,
                            [price |-> price, size |-> size]))

DeltaDelete(side, price) == Changed(side, RemoveLevel(levels[side], price))

ClearBook ==
  levels' = [side \in Sides |-> <<>>] /\ stats' = NoStats

BookNext ==
  \/ ClearBook
  \/ \E side \in Sides, p \in Prices :
       DeltaDelete(side, p) \/ \E size \in Sizes : DeltaSet(side, p, size)

BookSpec == BookInit /\ [][BookNext]_bookVars

-----------------------------------------------------------------------------
(* The questions one asks of a book.                                        *)

Opposite(side) == IF side = "BUY" THEN "SELL" ELSE "BUY"

Take(taken, level) ==
  LET size == IF taken.left < level.size THEN taken.left ELSE level.size
  IN [left |-> taken.left - size,
      cost |-> taken.cost + level.price * size,
      size |-> taken.size + size]

(* What is taken once the loop is past each level.                          *)
Taking(ls, quantity) ==
  LET taken[i \in 0..Len(ls)] ==
        IF i = 0 THEN [left |-> quantity, cost |-> 0, size |-> 0]
                 ELSE Take(taken[i - 1], ls[i])
  IN taken

(* calculate_vwap() is cost / size, or 0 when size is 0.                    *)
Vwap(side, quantity) ==
  LET ls == levels[Opposite(side)] IN Taking(ls, quantity)[Len(ls)]

(* calculate_market_impact(): the sign of vwap - mid, 0 when either is 0.   *)
ImpactSign(side, quantity) ==
  LET v == Vwap(side, quantity) IN
  IF v.cost = 0 \/ stats.twice_mid = 0 \/ 2 * v.cost = stats.twice_mid * v.size THEN 0
  ELSE IF 2 * v.cost > stats.twice_mid * v.size THEN 1 ELSE -1

Crossed ==
  /\ levels["BUY"] # <<>> /\ levels["SELL"] # <<>>
  /\ levels["BUY"][1].price >= levels["SELL"][1].price

(* get_volume_at_level(), with no tolerance.                                *)
VolumeAt(side, price) ==
  TotalSize(LevelsAt(levels[side],
                     {i \in DOMAIN levels[side] : ~Before(side, price, levels[side][i].price)}))

(* validate().                                                              *)
Valid ==
  /\ \A side \in Sides : \A i \in 2..Len(levels[side]) :
       ~Before(side, levels[side][i].price, levels[side][i - 1].price)
  /\ ~Crossed

-----------------------------------------------------------------------------
(* Every way to fill a quantity from the levels of one side, and its cost.  *)
Ways(ls, quantity) ==
  {w \in [DOMAIN ls -> {0} \cup Sizes] :
     /\ \A i \in DOMAIN ls : w[i] <= ls[i].size
     /\ Total(w) = quantity}
CostOf(ls, w) == Total([i \in DOMAIN ls |-> w[i] * ls[i].price])

(* No other way to fill the quantity is better for the one who trades; all  *)
(* of it is filled, or all there is; and in a book that is not crossed the  *)
(* price is no better than mid.                                             *)
VwapIsBest(side, quantity) ==
  LET ls == levels[Opposite(side)]
      v  == Vwap(side, quantity)
  IN /\ v.size = IF quantity < TotalSize(ls) THEN quantity ELSE TotalSize(ls)
     /\ \A w \in Ways(ls, v.size) : ~Before(Opposite(side), CostOf(ls, w), v.cost)
     /\ ~Crossed => ImpactSign(side, quantity) # (IF side = "BUY" THEN -1 ELSE 1)

(* The volume at a level is that of the levels up to it.                    *)
VolumesAddUp ==
  \A side \in Sides : \A i \in DOMAIN levels[side] :
    VolumeAt(side, levels[side][i].price) = TotalSize(SubSeq(levels[side], 1, i))

(* calculate_vwap(), get_volume_at_level() and validate() trust the order   *)
(* of the levels, which is kept by insert_level() alone: whatever deltas    *)
(* made the book, the average price is the best there is, the volume at a   *)
(* level is that of the levels up to it, and only a crossed book is invalid.*)
QueriesTrustTheOrder ==
  /\ \A side \in Sides, quantity \in 1..MaxQuantity : VwapIsBest(side, quantity)
  /\ VolumesAddUp
  /\ Valid = ~Crossed

(* What the two vectors stand for: at each tick all that is offered, one by *)
(* one.                                                                     *)
Offered(ls, t) ==
  UNION {{i} \X (1..ls[i].size) : i \in {j \in DOMAIN ls : Tick(ls[j].price) = t}}

DepthOf(ls) ==
  [t \in {Tick(ls[i].price) : i \in DOMAIN ls} |-> Cardinality(Offered(ls, t))]

Depth == INSTANCE PriceLevels WITH depth <- [side \in Sides |-> DepthOf(levels[side])]

(* remove_level() compares with a tolerance, insert_level() exactly: with   *)
(* prices that are not quite the same every delta still does to the book    *)
(* what it says, replaces a tick, never doubles it or takes its neighbour.  *)
BookIsDepth == Depth!LevelsSpec
=============================================================================
