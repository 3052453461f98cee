----------------------------- MODULE PartsProofs -----------------------------
(***************************************************************************)
(* Two of the parts MCParts runs: the budget of RateLimiter, for any       *)
(* number of requesters, any weights, any burst and any rate; and          *)
(* OrderBookLevels, as an implementation of PriceLevels and as what its    *)
(* queries trust it to be, for any ticks, sizes and tolerance that         *)
(* GridAssumption allows.                                                  *)
(***************************************************************************)
EXTENDS RateLimiter, OrderBookLevels, SequenceTheorems, FiniteSetTheorems, TLAPS

-----------------------------------------------------------------------------
(* The rate limiter.  WithinBudget is not inductive: it says nothing of     *)
(* what is still in the bucket.  The strengthening counts the tokens in     *)
(* hand with those spent: since the last refill, if that came after the     *)
(* mark, they are together no more than a full bucket and what flowed in    *)
(* between the two (InHand).                                                *)

LimiterTypeOK ==
  /\ tokens \in Nat /\ tokens <= Burst
  /\ clock \in Nat /\ last_refill \in Nat /\ marked \in Nat /\ spent \in Nat
  /\ last_refill <= clock /\ marked <= clock
  /\ \A r \in DOMAIN asleep : asleep[r] \in Nat

InHand ==
  IF marked <= last_refill THEN tokens + spent <= Burst + Rate * (last_refill - marked)
                           ELSE spent = 0

LimiterInv == LimiterTypeOK /\ InHand

-----------------------------------------------------------------------------
(* Time that passes in two parts fills the bucket as time that passes at    *)
(* once.                                                                    *)
LEMMA RateSplits ==
  ASSUME NEW rate \in Nat, NEW a \in Nat, NEW b \in Nat, NEW c \in Nat, a <= b, b <= c
  PROVE  /\ rate * (c - a) = rate * (b - a) + (c - b) * rate
         /\ rate * (c - a) \in Nat /\ rate * (b - a) \in Nat /\ (c - b) * rate \in Nat
<1>1. PICK m \in Nat, n \in Nat : b = a + m /\ c = b + n
  <2>1. b - a \in Nat /\ c - b \in Nat /\ b = a + (b - a) /\ c = b + (c - b)
    OBVIOUS
  <2> QED BY <2>1
<1>2. b - a = m /\ c - b = n /\ c - a = m + n
  BY <1>1
<1>3. rate * (m + n) = rate * m + n * rate
  OBVIOUS
<1>4. rate * m \in Nat /\ n * rate \in Nat
  OBVIOUS
<1> QED BY <1>2, <1>3, <1>4

(* A refill leaves the tokens in hand within the budget up to now.          *)
LEMMA RefillWithinBudget ==
  ASSUME LimiterInv
  PROVE  /\ Refilled \in Nat /\ Refilled <= Burst
         /\ Refilled + spent <= Burst + Rate * (clock - marked)
<1> USE LimiterAssumption DEF LimiterInv, LimiterTypeOK
<1> DEFINE flow == (clock - last_refill) * Rate
<1>1. flow \in Nat /\ Rate * (clock - marked) \in Nat
  BY RateSplits
<1>2. Refilled \in Nat /\ Refilled <= Burst /\ Refilled <= tokens + flow
  BY <1>1 DEF Refilled
<1>3. CASE marked <= last_refill
  <2>1. /\ Rate * (clock - marked) = Rate * (last_refill - marked) + flow
        /\ Rate * (last_refill - marked) \in Nat
    BY <1>3, RateSplits
  <2>2. tokens + spent <= Burst + Rate * (last_refill - marked)
    BY <1>3 DEF InHand
  <2> HIDE DEF flow
  <2> QED BY <1>1, <1>2, <2>1, <2>2
<1>4. CASE ~(marked <= last_refill)
  <2>1. spent = 0
    BY <1>4 DEF InHand
  <2> QED BY <1>1, <1>2, <2>1
<1> QED BY <1>3, <1>4

(* A turn of consume()'s loop keeps the invariant, granted or not.          *)
LEMMA TurnKeeps ==
  ASSUME LimiterInv, NEW weight \in Nat, Granted(weight) \/ Refused(weight),
         UNCHANGED <<clock, marked>>,
         \A r \in DOMAIN asleep' : asleep'[r] \in Nat
  PROVE  LimiterInv'
<1>1. /\ Refilled \in Nat /\ Refilled <= Burst
      /\ Refilled + spent <= Burst + Rate * (clock - marked)
  BY RefillWithinBudget
<1>2. /\ tokens' \in Nat /\ tokens' <= Burst /\ spent' \in Nat
      /\ tokens' + spent' = Refilled + spent /\ last_refill' = clock
  <2> USE LimiterAssumption DEF LimiterInv, LimiterTypeOK
  <2>1. CASE Granted(weight)
    BY <1>1, <2>1 DEF Granted
  <2>2. CASE Refused(weight)
    BY <1>1, <2>2 DEF Refused
  <2> QED BY <2>1, <2>2
<1>3. LimiterTypeOK'
  BY <1>2 DEF LimiterInv, LimiterTypeOK
<1>4. InHand'
  BY <1>1, <1>2 DEF LimiterInv, LimiterTypeOK, InHand
<1> QED BY <1>3, <1>4 DEF LimiterInv

(* Every step keeps it.                                                     *)
LEMMA LimiterStep == LimiterInv /\ [LimiterNext]_limiterVars => LimiterInv'
<1> SUFFICES ASSUME LimiterInv, [LimiterNext]_limiterVars PROVE LimiterInv'
  OBVIOUS
<1> USE LimiterAssumption
<1>1. CASE TimePasses
  BY <1>1 DEF TimePasses, LimiterInv, LimiterTypeOK, InHand
<1>2. CASE Mark
  <2>1. LimiterTypeOK'
    BY <1>2 DEF Mark, LimiterInv, LimiterTypeOK
  <2>2. CASE last_refill = clock
    <3>1. Rate * (clock - clock) = 0
      BY DEF LimiterInv, LimiterTypeOK
    <3>2. InHand'
      BY <1>2, <2>2, <3>1 DEF Mark, LimiterInv, LimiterTypeOK, InHand
    <3> QED BY <2>1, <3>2 DEF LimiterInv
  <2>3. CASE last_refill # clock
    <3>1. InHand'
      BY <1>2, <2>3 DEF Mark, LimiterInv, LimiterTypeOK, InHand
    <3> QED BY <2>1, <3>1 DEF LimiterInv
  <2> QED BY <2>2, <2>3
<1>3. ASSUME NEW r \in Requesters, Wake(r) PROVE LimiterInv'
  <2>1. asleep[r] \in Nat /\ (Granted(asleep[r]) \/ Refused(asleep[r]))
    BY <1>3 DEF Wake, LimiterInv, LimiterTypeOK
  <2>2. \A s \in DOMAIN asleep' : asleep'[s] \in Nat
    BY <1>3 DEF Wake, LimiterInv, LimiterTypeOK
  <2>3. UNCHANGED <<clock, marked>>
    BY <1>3 DEF Wake
  <2> QED BY <2>1, <2>2, <2>3, TurnKeeps
<1>4. ASSUME NEW r \in Requesters, NEW weight \in Weights, Request(r, weight)
      PROVE  LimiterInv'
  <2>1. weight \in Nat /\ (Granted(weight) \/ Refused(weight))
    BY <1>4 DEF Request
  <2>2. \A s \in DOMAIN asleep' : asleep'[s] \in Nat
    BY <1>4, <2>1 DEF Request, LimiterInv, LimiterTypeOK
  <2>3. UNCHANGED <<clock, marked>>
    BY <1>4 DEF Request
  <2> QED BY <2>1, <2>2, <2>3, TurnKeeps
<1>5. CASE UNCHANGED limiterVars
  BY <1>5 DEF limiterVars, LimiterInv, LimiterTypeOK, InHand
<1> QED BY <1>1, <1>2, <1>3, <1>4, <1>5 DEF LimiterNext

-----------------------------------------------------------------------------
(* rate_limiter.hpp, "Allows bursting up to `burst_size` tokens, then       *)
(* refills at `tokens_per_minute` rate": over any stretch of time consume() *)
(* gives out no more than a full bucket and what flowed in, however many    *)
(* threads ask and whenever they wake.                                      *)
THEOREM NeverOverBudget == LimiterSpec => []WithinBudget
<1>1. LimiterInit => LimiterInv
  <2> SUFFICES ASSUME LimiterInit PROVE LimiterInv
    OBVIOUS
  <2>1. Rate * (0 - 0) = 0
    BY LimiterAssumption
  <2> QED BY <2>1, LimiterAssumption DEF LimiterInit, LimiterInv, LimiterTypeOK, InHand
<1>2. LimiterInv => WithinBudget
  <2> SUFFICES ASSUME LimiterInv PROVE WithinBudget
    OBVIOUS
  <2>1. /\ Refilled \in Nat
        /\ Refilled + spent <= Burst + Rate * (clock - marked)
    BY RefillWithinBudget
  <2>2. Burst \in Nat /\ spent \in Nat /\ Rate * (clock - marked) \in Nat
    BY LimiterAssumption, RateSplits DEF LimiterInv, LimiterTypeOK
  <2> QED BY <2>1, <2>2 DEF WithinBudget
<1> QED BY <1>1, <1>2, LimiterStep, PTL DEF LimiterSpec

-----------------------------------------------------------------------------
(* The order book.  The invariant is the order of the vectors: the best     *)
(* level first, and no tick twice.                                          *)

BookInv ==
  /\ levels \in [Sides -> Seq(Level)]
  /\ \A side \in Sides : InOrder(side, levels[side])

(* What a delta does to the depth of a side.                                *)
Replaced(depth, t, size) ==
  [u \in DOMAIN depth \cup {t} |-> IF u = t THEN size ELSE depth[u]]

Dropped(depth, t) == [u \in DOMAIN depth \ {t} |-> depth[u]]

-----------------------------------------------------------------------------
(* Two prices are less than Tol apart if and only if one tick is meant.     *)
LEMMA OneTick ==
  ASSUME NEW p \in Prices, NEW q \in Prices
  PROVE  /\ p \in Nat /\ Tick(p) \in Ticks
         /\ Tick(p) = Tick(q) <=> Distance(p, q) < Tol
<1> USE GridAssumption
<1>0. ASSUME NEW x \in Prices
      PROVE  Tick(x) \in Ticks /\ \E s \in Skews : x = Width * Tick(x) + s
  <2>1. \E t \in Ticks : \E s \in Skews : x = Width * t + s
    BY DEF Prices
  <2> QED BY <2>1, Zenon DEF Tick
<1>1. PICK s \in Skews : p = Width * Tick(p) + s
  BY <1>0
<1>2. PICK r \in Skews : q = Width * Tick(q) + r
  BY <1>0
<1> DEFINE t == Tick(p)
           u == Tick(q)
<1>3. t \in Nat /\ u \in Nat /\ s \in Nat /\ r \in Nat
  BY <1>0
<1>4. r - s < Tol /\ s - r < Tol /\ Width + r - s >= Tol /\ Width + s - r >= Tol
  OBVIOUS
<1>5. ASSUME NEW a \in Nat, NEW b \in Nat, a < b
      PROVE  Width * b >= Width * a + Width /\ Width * a \in Nat /\ Width * b \in Nat
  <2>1. PICK m \in Nat : b = a + 1 + m
    <3>1. b - a - 1 \in Nat /\ b = a + 1 + (b - a - 1)
      BY <1>5
    <3> QED BY <3>1
  <2>2. Width * (a + 1 + m) = Width * a + Width + Width * m
    OBVIOUS
  <2>3. Width * a \in Nat /\ Width * m \in Nat
    OBVIOUS
  <2> QED BY <2>1, <2>2, <2>3
<1> HIDE DEF t, u
<1>6. p = Width * t + s /\ q = Width * u + r /\ t \in Ticks
  BY <1>0, <1>1, <1>2 DEF t, u
<1>7. Width * t \in Nat /\ Width * u \in Nat
  BY <1>3
<1>8. CASE t = u
  BY <1>3, <1>4, <1>6, <1>7, <1>8 DEF Distance, t, u
<1>9. CASE t < u
  BY <1>3, <1>4, <1>5, <1>6, <1>7, <1>9 DEF Distance, t, u
<1>10. CASE u < t
  BY <1>3, <1>4, <1>5, <1>6, <1>7, <1>10 DEF Distance, t, u
<1> QED BY <1>3, <1>8, <1>9, <1>10

(* The places up to one are no more than there are of them, and to a later  *)
(* one there are more: the ranks are 1 to the number of places.             *)
LEMMA Ranks ==
  ASSUME NEW n \in Nat, NEW K \in SUBSET (1..n)
  PROVE  /\ Cardinality(K) \in Nat
         /\ \A i \in K : Cardinality({j \in K : j <= i}) \in 1..Cardinality(K)
         /\ \A i, j \in K : i < j =>
              Cardinality({k \in K : k <= i}) < Cardinality({k \in K : k <= j})
         /\ \A k \in 1..Cardinality(K) :
              \E i \in K : Cardinality({j \in K : j <= i}) = k
<1> DEFINE Upto(i) == {j \in K : j <= i}
           f == [i \in K |-> Cardinality(Upto(i))]
           c == Cardinality(K)
<1>1. /\ IsFiniteSet(K) /\ c \in Nat
      /\ \A T \in SUBSET K : /\ IsFiniteSet(T) /\ Cardinality(T) \in Nat /\ Cardinality(T) <= c
                             /\ Cardinality(T) = c => T = K
  <2>1. IsFiniteSet(1..n)
    BY FS_Interval
  <2>2. IsFiniteSet(K)
    BY <2>1, FS_Subset
  <2> QED BY <2>2, FS_Subset, FS_CardinalityType
<1>2. ASSUME NEW i \in K
      PROVE  Cardinality(Upto(i)) \in 1..c
  <2>1. i \in Upto(i) /\ Upto(i) \in SUBSET K
    <3>1. i \in Int
      OBVIOUS
    <3> QED BY <3>1
  <2>2. Cardinality(Upto(i)) # 0
    BY <1>1, <2>1, FS_EmptySet
  <2> QED BY <1>1, <2>1, <2>2
<1>3. ASSUME NEW i \in K, NEW j \in K, i < j
      PROVE  Cardinality(Upto(i)) < Cardinality(Upto(j))
  <2>1. /\ Upto(i) \in SUBSET Upto(j) /\ Upto(i) # Upto(j)
        /\ Upto(i) \in SUBSET K /\ Upto(j) \in SUBSET K
    <3>1. K \subseteq Int
      OBVIOUS
    <3>2. j \in Upto(j) /\ j \notin Upto(i)
      BY <1>3, <3>1
    <3>3. \A k \in Upto(i) : k \in Upto(j)
      BY <1>3, <3>1
    <3> QED BY <3>2, <3>3
  <2>2. /\ IsFiniteSet(Upto(j)) /\ Cardinality(Upto(i)) \in Nat
        /\ Cardinality(Upto(j)) \in Nat
    BY <1>1, <2>1
  <2> HIDE DEF Upto
  <2>3. /\ Cardinality(Upto(i)) <= Cardinality(Upto(j))
        /\ Cardinality(Upto(i)) # Cardinality(Upto(j))
    BY <2>1, <2>2, FS_Subset
  <2> QED BY <2>2, <2>3
<1>4. f \in Injection(K, 1..c)
  <2>1. f \in [K -> 1..c]
    BY <1>2
  <2>2. ASSUME NEW i \in K, NEW j \in K, f[i] = f[j]
        PROVE  i = j
    <3>1. i \in Int /\ j \in Int
      OBVIOUS
    <3>2. Cardinality(Upto(i)) = Cardinality(Upto(j)) /\ Cardinality(Upto(i)) \in Nat
      BY <1>2, <2>2
    <3> HIDE DEF Upto, f
    <3> QED BY <1>3, <3>1, <3>2
  <2> HIDE DEF f
  <2> QED BY <2>1, <2>2 DEF Injection, IsInjective
<1>5. f \in Surjection(K, 1..c)
  <2>1. IsFiniteSet(1..c) /\ Cardinality(1..c) = Cardinality(K)
    BY <1>1, FS_Interval
  <2> HIDE DEF f, c
  <2> QED BY <1>4, <2>1, FS_Injection
<1>6. \A k \in 1..c : \E i \in K : f[i] = k
  <2> HIDE DEF f, c
  <2> QED BY <1>5 DEF Surjection
<1> QED BY <1>1, <1>2, <1>3, <1>6

(* What LevelsAt keeps, and that it keeps the order.                        *)
LEMMA LevelsAtPlaces ==
  ASSUME NEW ls \in Seq(Level), NEW K \in SUBSET (1..Len(ls))
  PROVE  /\ Cardinality(K) \in Nat
         /\ \E at \in [1..Cardinality(K) -> K] :
              /\ LevelsAt(ls, K) = [k \in 1..Cardinality(K) |-> ls[at[k]]]
              /\ \A k, l \in 1..Cardinality(K) : k < l => at[k] < at[l]
              /\ \A i \in K : \E k \in 1..Cardinality(K) : at[k] = i
<1> DEFINE c == Cardinality(K)
           rank(i) == Cardinality({j \in K : j <= i})
           at == [k \in 1..c |-> CHOOSE i \in K : rank(i) = k]
<1>0. Len(ls) \in Nat
  OBVIOUS
<1>1. /\ c \in Nat
      /\ \A i \in K : rank(i) \in 1..c
      /\ \A i, j \in K : i < j => rank(i) < rank(j)
      /\ \A k \in 1..c : \E i \in K : rank(i) = k
  BY <1>0, Ranks
<1>2. LevelsAt(ls, K) = [k \in 1..c |-> ls[at[k]]]
  BY DEF LevelsAt
<1> HIDE DEF rank, c
<1>3. \A k \in 1..c : at[k] \in K /\ rank(at[k]) = k
  BY <1>1, Zenon
<1> HIDE DEF at
<1>4. at \in [1..c -> K]
  BY <1>3 DEF at
<1>5. \A i, j \in K : rank(i) = rank(j) => i = j
  <2>1. K \subseteq Int /\ \A i \in K : rank(i) \in Int
    BY <1>1
  <2> QED BY <1>1, <2>1
<1>6. ASSUME NEW k \in 1..c, NEW l \in 1..c, k < l
      PROVE  at[k] < at[l]
  <2>1. at[k] \in K /\ at[l] \in K /\ rank(at[k]) = k /\ rank(at[l]) = l
    BY <1>3
  <2>2. at[k] \in Int /\ at[l] \in Int /\ k \in Int /\ l \in Int
    <3>1. K \subseteq Int /\ c \in Nat
      BY <1>0, <1>1
    <3>2. k \in Int /\ l \in Int
      BY <3>1
    <3> QED BY <2>1, <3>1, <3>2
  <2>3. ~ at[l] < at[k] /\ at[k] # at[l]
    BY <1>1, <1>6, <2>1, <2>2
  <2> HIDE DEF c
  <2> QED BY <2>2, <2>3
<1>7. ASSUME NEW i \in K
      PROVE  \E k \in 1..c : at[k] = i
  <2>1. rank(i) \in 1..c
    BY <1>1
  <2>2. at[rank(i)] \in K /\ rank(at[rank(i)]) = rank(i)
    BY <1>3, <2>1
  <2> QED BY <1>5, <2>1, <2>2
<1> QED BY <1>1, <1>2, <1>4, <1>6, <1>7 DEF c

(* As many numbers of a sequence as one pleases, with all before each of    *)
(* them, are a beginning of it.                                             *)
LEMMA Beginning ==
  ASSUME NEW n \in Nat, NEW A \in SUBSET (1..n),
         \A i \in A : \A j \in 1..i : j \in A
  PROVE  Cardinality(A) \in 0..n /\ A = 1..Cardinality(A)
<1>1. /\ IsFiniteSet(1..n) /\ Cardinality(1..n) = n
      /\ IsFiniteSet(A) /\ Cardinality(A) \in Nat /\ Cardinality(A) <= n
  <2>1. IsFiniteSet(1..n) /\ Cardinality(1..n) = n
    BY FS_Interval
  <2>2. IsFiniteSet(A) /\ Cardinality(A) <= Cardinality(1..n)
    BY <2>1, FS_Subset
  <2>3. Cardinality(A) \in Nat
    BY <2>2, FS_CardinalityType
  <2> QED BY <2>1, <2>2, <2>3
<1>2. \A i \in A : i <= Cardinality(A)
  <2>1. TAKE i \in A
  <2>2. i \in Nat /\ 1..i \in SUBSET A
    BY <2>1
  <2>3. Cardinality(1..i) = i
    <3>1. i >= 1
      OBVIOUS
    <3> QED BY <2>2, <3>1, FS_Interval
  <2>4. Cardinality(1..i) <= Cardinality(A)
    BY <1>1, <2>2, FS_Subset
  <2> QED BY <2>3, <2>4
<1>3. A \in SUBSET (1..Cardinality(A))
  <2>1. \A i \in A : i \in Nat /\ i >= 1
    OBVIOUS
  <2> QED BY <1>1, <1>2, <2>1
<1>4. IsFiniteSet(1..Cardinality(A)) /\ Cardinality(1..Cardinality(A)) = Cardinality(A)
  BY <1>1, FS_Interval
<1>5. A = 1..Cardinality(A)
  BY <1>3, <1>4, FS_Subset
<1> QED BY <1>1, <1>5

LEMMA Lots ==
  ASSUME NEW i, NEW n \in Nat
  PROVE  Cardinality({i} \X (1..n)) = n
<1> DEFINE one == {i}
           lots == 1..n
<1>1. IsFiniteSet(one) /\ Cardinality(one) = 1
  BY FS_Singleton
<1>2. IsFiniteSet(lots) /\ Cardinality(lots) = n
  <2>1. IsFiniteSet(lots) /\ Cardinality(lots) = IF 1 > n THEN 0 ELSE n - 1 + 1
    BY FS_Interval
  <2> QED BY <2>1
<1> HIDE DEF one, lots
<1>3. Cardinality(one \X lots) = Cardinality(one) * Cardinality(lots)
  BY <1>1, <1>2, FS_Product
<1>4. Cardinality(one \X lots) = n
  BY <1>1, <1>2, <1>3
<1> QED BY <1>4 DEF one, lots

(* In a book in order the depth at a tick is the size of its one level.     *)
LEMMA DepthAtLevel ==
  ASSUME NEW side, NEW ls \in Seq(Level), InOrder(side, ls),
         NEW i \in 1..Len(ls)
  PROVE  DepthOf(ls)[Tick(ls[i].price)] = ls[i].size
<1> DEFINE t == Tick(ls[i].price)
           n == ls[i].size
<1>1. ls[i] \in Level /\ n \in Nat
  <2>1. ls[i] \in Level
    OBVIOUS
  <2> QED BY <2>1, GridAssumption DEF Level
<1>2. {j \in DOMAIN ls : Tick(ls[j].price) = t} = {i}
  <2>1. ASSUME NEW j \in 1..Len(ls), Tick(ls[j].price) = t
        PROVE  j = i
    <3>1. ~ i < j /\ ~ j < i
      BY <2>1 DEF InOrder
    <3> QED BY <3>1
  <2> QED BY <2>1
<1>3. Offered(ls, t) = {i} \X (1..n)
  BY <1>2 DEF Offered
<1>4. Cardinality({i} \X (1..n)) = n
  BY <1>1, Lots
<1>5. DepthOf(ls)[t] = Cardinality(Offered(ls, t))
  <2>1. t \in {Tick(ls[j].price) : j \in DOMAIN ls}
    OBVIOUS
  <2> QED BY <2>1 DEF DepthOf
<1> QED BY <1>3, <1>4, <1>5

(* The levels at some places: a book in order, with the depth of those.     *)
LEMMA LevelsAtKeeps ==
  ASSUME NEW side, NEW ls \in Seq(Level), InOrder(side, ls), NEW K \in SUBSET (1..Len(ls))
  PROVE  LET kept == LevelsAt(ls, K)
         IN /\ kept \in Seq(Level) /\ InOrder(side, kept)
            /\ \A k \in 1..Len(kept) : \E i \in K : kept[k] = ls[i]
            /\ \A i \in K : \E k \in 1..Len(kept) : kept[k] = ls[i]
<1> DEFINE c == Cardinality(K)
           kept == LevelsAt(ls, K)
<1>1. PICK at \in [1..c -> K] :
        /\ kept = [k \in 1..c |-> ls[at[k]]]
        /\ \A k, l \in 1..c : k < l => at[k] < at[l]
        /\ \A i \in K : \E k \in 1..c : at[k] = i
  BY LevelsAtPlaces
<1>2. c \in Nat
  BY LevelsAtPlaces
<1> HIDE DEF c, kept
<1>3. \A k \in 1..c : at[k] \in K /\ at[k] \in 1..Len(ls)
  OBVIOUS
<1>4. \A k \in 1..c : kept[k] = ls[at[k]] /\ kept[k] \in Level
  BY <1>1, <1>3
<1>5. kept \in Seq(Level) /\ Len(kept) = c /\ DOMAIN kept = 1..c
  BY <1>1, <1>2, <1>4
<1>6. InOrder(side, kept)
  <2>1. SUFFICES ASSUME NEW k \in 1..c, NEW l \in 1..c, k < l
                 PROVE  /\ Before(side, kept[k].price, kept[l].price)
                        /\ Tick(kept[k].price) # Tick(kept[l].price)
    BY <1>5, Zenon DEF InOrder
  <2>2. at[k] < at[l] /\ at[k] \in DOMAIN ls /\ at[l] \in DOMAIN ls
    BY <1>1, <1>3, <2>1
  <2>3. /\ Before(side, ls[at[k]].price, ls[at[l]].price)
        /\ Tick(ls[at[k]].price) # Tick(ls[at[l]].price)
    BY <2>2, Zenon DEF InOrder
  <2> QED BY <1>4, <2>3
<1>7. \A i \in K : \E k \in 1..c : kept[k] = ls[i]
  BY <1>1, <1>4
<1> QED BY <1>3, <1>4, <1>5, <1>6, <1>7, Zenon DEF kept

(* remove_level() takes the level of the tick, if there is one, and no      *)
(* other.                                                                   *)
LEMMA RemoveOK ==
  ASSUME NEW side, NEW ls \in Seq(Level), InOrder(side, ls), NEW p \in Prices
  PROVE  LET rest == RemoveLevel(ls, p)
         IN /\ rest \in Seq(Level) /\ InOrder(side, rest)
            /\ \A k \in 1..Len(rest) : Tick(rest[k].price) # Tick(p)
            /\ DepthOf(rest) = Dropped(DepthOf(ls), Tick(p))
<1> DEFINE K == {i \in DOMAIN ls : Distance(ls[i].price, p) >= Tol}
           rest == RemoveLevel(ls, p)
<1>1. rest = LevelsAt(ls, K) /\ K \in SUBSET (1..Len(ls))
  BY DEF RemoveLevel
<1>2. /\ rest \in Seq(Level) /\ InOrder(side, rest)
      /\ \A k \in 1..Len(rest) : \E i \in K : rest[k] = ls[i]
      /\ \A i \in K : \E k \in 1..Len(rest) : rest[k] = ls[i]
  <2> HIDE DEF K, rest
  <2> DEFINE kept == LevelsAt(ls, K)
  <2>1. /\ kept \in Seq(Level) /\ InOrder(side, kept)
        /\ \A k \in 1..Len(kept) : \E i \in K : kept[k] = ls[i]
        /\ \A i \in K : \E k \in 1..Len(kept) : kept[k] = ls[i]
    BY <1>1, LevelsAtKeeps
  <2> HIDE DEF kept
  <2>2. rest = kept
    BY <1>1 DEF kept
  <2> QED BY <2>1, <2>2
<1>3. \A i \in 1..Len(ls) : i \in K <=> Tick(ls[i].price) # Tick(p)
  <2>1. TAKE i \in 1..Len(ls)
  <2>2. ls[i].price \in Prices
    <3>1. ls[i] \in Level
      OBVIOUS
    <3> QED BY <3>1 DEF Level
  <2>3. /\ Distance(ls[i].price, p) \in Int /\ Tol \in Int
        /\ Tick(ls[i].price) = Tick(p) <=> Distance(ls[i].price, p) < Tol
    BY <2>2, OneTick, GridAssumption DEF Distance
  <2> QED BY <2>3
<1>4. \A k \in 1..Len(rest) : Tick(rest[k].price) # Tick(p)
  <2> HIDE DEF K, rest
  <2>1. TAKE k \in 1..Len(rest)
  <2>2. PICK i \in K : rest[k] = ls[i]
    BY <1>2
  <2>3. i \in 1..Len(ls)
    BY <1>1
  <2> QED BY <1>3, <2>2, <2>3
<1>5. DOMAIN DepthOf(rest) = DOMAIN DepthOf(ls) \ {Tick(p)}
  <2> HIDE DEF K, rest
  <2>1. ASSUME NEW k \in 1..Len(rest)
        PROVE  Tick(rest[k].price) \in {Tick(ls[i].price) : i \in 1..Len(ls)} \ {Tick(p)}
    <3>1. PICK i \in K : rest[k] = ls[i]
      BY <1>2
    <3>2. i \in 1..Len(ls)
      BY <1>1
    <3> QED BY <1>4, <3>1, <3>2
  <2>2. ASSUME NEW i \in 1..Len(ls), Tick(ls[i].price) # Tick(p)
        PROVE  Tick(ls[i].price) \in {Tick(rest[k].price) : k \in 1..Len(rest)}
    BY <1>2, <1>3, <2>2
  <2>3. DOMAIN ls = 1..Len(ls) /\ DOMAIN rest = 1..Len(rest)
    BY <1>2
  <2> QED BY <2>1, <2>2, <2>3 DEF DepthOf
<1>6. \A u \in DOMAIN DepthOf(rest) : DepthOf(rest)[u] = DepthOf(ls)[u]
  <2> HIDE DEF K, rest
  <2>1. TAKE u \in DOMAIN DepthOf(rest)
  <2>2. PICK k \in 1..Len(rest) : u = Tick(rest[k].price)
    <3>1. DOMAIN rest = 1..Len(rest)
      BY <1>2
    <3> QED BY <3>1 DEF DepthOf
  <2>3. PICK i \in 1..Len(ls) : rest[k] = ls[i]
    BY <1>1, <1>2
  <2>4. DepthOf(rest)[Tick(rest[k].price)] = rest[k].size
    BY <1>2, DepthAtLevel
  <2>5. DepthOf(ls)[Tick(ls[i].price)] = ls[i].size
    BY DepthAtLevel
  <2> QED BY <2>2, <2>3, <2>4, <2>5
<1>7. DepthOf(rest) = [u \in DOMAIN DepthOf(rest) |-> DepthOf(rest)[u]]
  BY DEF DepthOf
<1> HIDE DEF rest, K
<1>8. DepthOf(rest) = Dropped(DepthOf(ls), Tick(p))
  BY <1>5, <1>6, <1>7 DEF Dropped
<1> QED BY <1>2, <1>4, <1>8 DEF rest

LEMMA PriceOfLevel ==
  ASSUME NEW ls \in Seq(Level), NEW i \in 1..Len(ls)
  PROVE  ls[i] \in Level /\ ls[i].price \in Prices
<1>1. ls[i] \in Level
  OBVIOUS
<1> QED BY <1>1 DEF Level

(* In two prices of two ticks one is before the other, on either side.      *)
LEMMA BeforeIsOrder ==
  ASSUME NEW side
  PROVE  /\ \A p, q \in Prices : Tick(p) # Tick(q) => Before(side, p, q) \/ Before(side, q, p)
         /\ \A p, q \in Prices : ~ (Before(side, p, q) /\ Before(side, q, p))
         /\ \A p, q, r \in Prices :
              Before(side, p, q) /\ Before(side, q, r) => Before(side, p, r)
<1>1. \A p \in Prices : p \in Nat
  BY OneTick
<1>2. ASSUME NEW p \in Prices, NEW q \in Prices
      PROVE  /\ Tick(p) # Tick(q) => Before(side, p, q) \/ Before(side, q, p)
             /\ ~ (Before(side, p, q) /\ Before(side, q, p))
  <2>1. p \in Nat /\ q \in Nat /\ (Tick(p) # Tick(q) => p # q)
    BY <1>1
  <2>2. Tick(p) # Tick(q) => p > q \/ p < q
    BY <2>1
  <2> QED BY <2>1, <2>2 DEF Before
<1>3. ASSUME NEW p \in Prices, NEW q \in Prices, NEW r \in Prices,
             Before(side, p, q), Before(side, q, r)
      PROVE  Before(side, p, r)
  BY <1>1, <1>3 DEF Before
<1> QED BY <1>2, <1>3

(* A level is put behind all those before it.                               *)
LEMMA InsertedAt ==
  ASSUME NEW ls \in Seq(Level), NEW e \in Level, NEW n \in 0..Len(ls)
  PROVE  LET s == InsertAt(ls, n + 1, e)
         IN /\ s \in Seq(Level) /\ Len(s) = Len(ls) + 1
            /\ s[n + 1] = e
            /\ \A i \in 1..n : s[i] = ls[i]
            /\ \A i \in (n + 2)..(Len(ls) + 1) : s[i] = ls[i - 1]
<1> DEFINE a == SubSeq(ls, 1, n)
           b == <<e>>
           d == SubSeq(ls, n + 1, Len(ls))
<1>0. Len(ls) \in Nat /\ n \in Nat /\ n <= Len(ls)
  OBVIOUS
<1>1. InsertAt(ls, n + 1, e) = (a \o b) \o d
  <2> DEFINE m == n + 1
  <2>1. m - 1 = n
    BY <1>0
  <2>2. InsertAt(ls, m, e) = SubSeq(ls, 1, m - 1) \o <<e>> \o SubSeq(ls, m, Len(ls))
    BY Zenon DEF InsertAt
  <2> QED BY <2>1, <2>2, Zenon
<1>2. a \in Seq(Level) /\ Len(a) = n /\ \A i \in 1..n : a[i] = ls[i]
  BY <1>0
<1>3. /\ d \in Seq(Level) /\ Len(d) = Len(ls) - n
      /\ \A i \in 1..(Len(ls) - n) : d[i] = ls[i + n]
  BY <1>0
<1>4. b \in Seq(Level) /\ Len(b) = 1 /\ b[1] = e
  OBVIOUS
<1> HIDE DEF a, b, d
<1>5. /\ a \o b \in Seq(Level) /\ Len(a \o b) = n + 1
      /\ \A i \in 1..n : (a \o b)[i] = ls[i]
      /\ (a \o b)[n + 1] = e
  <2>1. a \o b \in Seq(Level) /\ Len(a \o b) = Len(a) + Len(b)
    BY <1>2, <1>4, ConcatProperties
  <2>2. \A i \in 1..(Len(a) + Len(b)) :
          (a \o b)[i] = IF i <= Len(a) THEN a[i] ELSE b[i - Len(a)]
    BY <1>2, <1>4, ConcatProperties
  <2>3. ASSUME NEW i \in 1..n
        PROVE  (a \o b)[i] = ls[i]
    BY <1>0, <1>2, <1>4, <2>2
  <2>4. n + 1 \in 1..(Len(a) + Len(b)) /\ ~ n + 1 <= Len(a) /\ n + 1 - Len(a) = 1
    BY <1>0, <1>2, <1>4
  <2>5. (a \o b)[n + 1] = b[1]
    BY <2>2, <2>4
  <2> QED BY <1>2, <1>4, <2>1, <2>3, <2>5
<1> DEFINE ab == a \o b
<1>6. /\ ab \in Seq(Level) /\ Len(ab) = n + 1
      /\ \A i \in 1..n : ab[i] = ls[i]
      /\ ab[n + 1] = e
  BY <1>5
<1>7. InsertAt(ls, n + 1, e) = ab \o d
  BY <1>1
<1> HIDE DEF ab
<1>8. /\ ab \o d \in Seq(Level) /\ Len(ab \o d) = Len(ls) + 1
      /\ (ab \o d)[n + 1] = e
      /\ \A i \in 1..n : (ab \o d)[i] = ls[i]
  <2>1. /\ ab \o d \in Seq(Level) /\ Len(ab \o d) = Len(ls) + 1
        /\ \A i \in 1..(Len(ls) + 1) :
             (ab \o d)[i] = IF i <= n + 1 THEN ab[i] ELSE d[i - (n + 1)]
    <3>1. Len(ab) + Len(d) = Len(ls) + 1
      BY <1>0, <1>3, <1>6
    <3> QED BY <1>3, <1>6, <3>1, ConcatProperties
  <2> QED BY <1>0, <1>6, <2>1
<1>9. ASSUME NEW i \in (n + 2)..(Len(ls) + 1)
      PROVE  (ab \o d)[i] = ls[i - 1]
  <2>1. (ab \o d)[i] = d[i - (n + 1)]
    BY <1>0, <1>3, <1>6
  <2>2. i - (n + 1) \in 1..(Len(ls) - n) /\ i - (n + 1) + n = i - 1
    BY <1>0
  <2> QED BY <1>3, <2>1, <2>2
<1> QED BY <1>7, <1>8, <1>9

(* insert_level() adds one level to a book that has none of its tick, and   *)
(* leaves it in order.                                                      *)
LEMMA InsertOK ==
  ASSUME NEW side, NEW ls \in Seq(Level), InOrder(side, ls), NEW e \in Level,
         \A k \in 1..Len(ls) : Tick(ls[k].price) # Tick(e.price)
  PROVE  LET more == InsertLevel(ls, side, e)
         IN /\ more \in Seq(Level) /\ InOrder(side, more)
            /\ DepthOf(more) = Replaced(DepthOf(ls), Tick(e.price), e.size)
<1> DEFINE A == {i \in DOMAIN ls : \A j \in 1..i : Before(side, ls[j].price, e.price)}
           n == Cardinality(A)
           more == InsertLevel(ls, side, e)
           t == Tick(e.price)
<1>0. /\ Len(ls) \in Nat /\ DOMAIN ls = 1..Len(ls)
      /\ e.price \in Prices /\ e.size \in Sizes
      /\ \A i \in 1..Len(ls) : ls[i] \in Level /\ ls[i].price \in Prices
  <2>1. \A l \in Level : l.price \in Prices /\ l.size \in Sizes
    BY DEF Level
  <2> QED BY <2>1
<1>1. n \in 0..Len(ls) /\ A = 1..n
  <2>1. A \in SUBSET (1..Len(ls))
    BY <1>0
  <2>2. \A i \in A : \A j \in 1..i : j \in A
    <3>1. TAKE i \in A
    <3>2. TAKE j \in 1..i
    <3>3. i \in 1..Len(ls) /\ j \in 1..Len(ls) /\ \A k \in 1..j : k \in 1..i
      BY <1>0
    <3> QED BY <1>0, <3>3
  <2> HIDE DEF A
  <2> QED BY <1>0, <2>1, <2>2, Beginning
<1>2. more = InsertAt(ls, n + 1, e)
  BY DEF InsertLevel
<1>3. ASSUME NEW i \in 1..n
      PROVE  i \in 1..Len(ls) /\ Before(side, ls[i].price, e.price)
  <2>1. i \in A
    BY <1>1
  <2> QED BY <1>0, <2>1
<1>4. ASSUME NEW i \in (n + 1)..Len(ls)
      PROVE  i \in 1..Len(ls) /\ Before(side, e.price, ls[i].price)
  <2>1. i \in 1..Len(ls) /\ n + 1 \in 1..Len(ls) /\ n + 1 \notin A
    <3> HIDE DEF A, n
    <3>1. n \in Nat /\ n <= Len(ls) /\ \A k \in A : k <= n
      BY <1>0, <1>1
    <3> QED BY <1>0, <3>1
  <2>2. PICK j \in 1..(n + 1) : ~ Before(side, ls[j].price, e.price)
    BY <1>0, <2>1
  <2>3. j = n + 1
    BY <1>1, <1>3, <2>2
  <2>4. Before(side, e.price, ls[n + 1].price)
    BY <1>0, <2>1, <2>2, <2>3, BeforeIsOrder
  <2>5. CASE i = n + 1
    BY <2>1, <2>4, <2>5
  <2>6. CASE i # n + 1
    <3>1. Before(side, ls[n + 1].price, ls[i].price)
      BY <1>0, <1>1, <2>1, <2>6 DEF InOrder
    <3> QED BY <1>0, <2>1, <2>4, <3>1, BeforeIsOrder
  <2> QED BY <2>5, <2>6
<1> HIDE DEF A, n
<1>5. /\ more \in Seq(Level) /\ Len(more) = Len(ls) + 1
      /\ more[n + 1] = e
      /\ \A i \in 1..n : more[i] = ls[i]
      /\ \A i \in (n + 2)..(Len(ls) + 1) : more[i] = ls[i - 1]
  <2> DEFINE s == InsertAt(ls, n + 1, e)
  <2>1. /\ s \in Seq(Level) /\ Len(s) = Len(ls) + 1
        /\ s[n + 1] = e
        /\ \A i \in 1..n : s[i] = ls[i]
        /\ \A i \in (n + 2)..(Len(ls) + 1) : s[i] = ls[i - 1]
    BY <1>1, InsertedAt
  <2> HIDE DEF s, more
  <2>2. more = s
    BY <1>2 DEF s
  <2> QED BY <2>1, <2>2
<1> HIDE DEF more
(* Where each level of the new book was.                                    *)
<1> DEFINE was(i) == IF i <= n THEN i ELSE i - 1
<1>6. ASSUME NEW i \in 1..(Len(ls) + 1), i # n + 1
      PROVE  /\ was(i) \in 1..Len(ls) /\ more[i] = ls[was(i)]
             /\ i < n + 1 => was(i) \in 1..n
             /\ n + 1 < i => was(i) \in (n + 1)..Len(ls)
  BY <1>0, <1>1, <1>5, <1>6
<1>7. InOrder(side, more)
  <2>1. SUFFICES ASSUME NEW i \in 1..(Len(ls) + 1), NEW j \in 1..(Len(ls) + 1), i < j
                 PROVE  /\ Before(side, more[i].price, more[j].price)
                        /\ Tick(more[i].price) # Tick(more[j].price)
    <3>1. DOMAIN more = 1..(Len(ls) + 1)
      BY <1>5
    <3> QED BY <3>1, Zenon DEF InOrder
  <2>2. n \in Nat /\ i \in Int /\ j \in Int
    BY <1>0, <1>1
  <2>3. CASE i = n + 1
    <3>1. j # n + 1 /\ n + 1 < j
      BY <2>1, <2>2, <2>3
    <3>2. more[i] = e /\ was(j) \in (n + 1)..Len(ls) /\ more[j] = ls[was(j)]
      BY <1>5, <1>6, <2>3, <3>1
    <3> QED BY <1>4, <3>2
  <2>4. CASE j = n + 1
    <3>1. i # n + 1 /\ i < n + 1
      BY <2>1, <2>2, <2>4
    <3>2. more[j] = e /\ was(i) \in 1..n /\ more[i] = ls[was(i)]
      BY <1>5, <1>6, <2>4, <3>1
    <3> QED BY <1>3, <3>2
  <2>5. CASE i # n + 1 /\ j # n + 1
    <3>1. /\ was(i) \in 1..Len(ls) /\ more[i] = ls[was(i)]
          /\ was(j) \in 1..Len(ls) /\ more[j] = ls[was(j)]
      BY <1>6, <2>5
    <3>2. was(i) < was(j)
      BY <2>1, <2>2, <2>5
    <3> HIDE DEF was
    <3> QED BY <1>0, <3>1, <3>2 DEF InOrder
  <2> QED BY <2>3, <2>4, <2>5
<1>8. n + 1 \in 1..(Len(ls) + 1) /\ DOMAIN more = 1..(Len(ls) + 1)
  BY <1>0, <1>1, <1>5
<1>9. DOMAIN DepthOf(more) = DOMAIN DepthOf(ls) \cup {t}
  <2>1. ASSUME NEW i \in 1..(Len(ls) + 1)
        PROVE  Tick(more[i].price) \in {Tick(ls[k].price) : k \in 1..Len(ls)} \cup {t}
    <3>1. CASE i = n + 1
      BY <1>5, <3>1
    <3>2. CASE i # n + 1
      <4> HIDE DEF was
      <4> QED BY <1>6, <3>2
    <3> QED BY <3>1, <3>2
  <2>2. t \in {Tick(more[i].price) : i \in 1..(Len(ls) + 1)}
    BY <1>5, <1>8
  <2>3. ASSUME NEW k \in 1..Len(ls)
        PROVE  Tick(ls[k].price) \in {Tick(more[i].price) : i \in 1..(Len(ls) + 1)}
    <3>1. CASE k <= n
      <4>1. k \in 1..n /\ k \in 1..(Len(ls) + 1)
        BY <1>0, <1>1, <3>1
      <4> QED BY <1>5, <4>1
    <3>2. CASE ~ k <= n
      <4>1. k + 1 \in (n + 2)..(Len(ls) + 1) /\ k + 1 \in 1..(Len(ls) + 1) /\ k + 1 - 1 = k
        BY <1>0, <1>1, <3>2
      <4>2. more[k + 1] = ls[k]
        BY <1>5, <4>1
      <4> QED BY <4>1, <4>2
    <3> QED BY <3>1, <3>2
  <2> HIDE DEF t
  <2> QED BY <1>0, <1>8, <2>1, <2>2, <2>3 DEF DepthOf
<1>10. DepthOf(more)[t] = e.size
  <2>1. n + 1 \in 1..Len(more)
    BY <1>5, <1>8
  <2> QED BY <1>5, <1>7, <2>1, DepthAtLevel
<1>11. ASSUME NEW u \in DOMAIN DepthOf(more), u # t
       PROVE  DepthOf(more)[u] = DepthOf(ls)[u]
  <2>1. PICK i \in 1..(Len(ls) + 1) : u = Tick(more[i].price)
    BY <1>8 DEF DepthOf
  <2>2. i # n + 1
    BY <1>5, <1>11, <2>1
  <2>3. was(i) \in 1..Len(ls) /\ more[i] = ls[was(i)] /\ i \in 1..Len(more)
    BY <1>5, <1>6, <2>2
  <2> HIDE DEF was
  <2>4. DepthOf(more)[Tick(more[i].price)] = more[i].size
    BY <1>5, <1>7, <2>3, DepthAtLevel
  <2>5. DepthOf(ls)[Tick(ls[was(i)].price)] = ls[was(i)].size
    BY <2>3, DepthAtLevel
  <2> QED BY <2>1, <2>3, <2>4, <2>5
<1>12. DepthOf(more) = [u \in DOMAIN DepthOf(more) |-> DepthOf(more)[u]]
  BY DEF DepthOf
<1> HIDE DEF t
<1>13. DepthOf(more) = Replaced(DepthOf(ls), t, e.size)
  BY <1>9, <1>10, <1>11, <1>12 DEF Replaced
<1> QED BY <1>5, <1>7, <1>13 DEF more, t

-----------------------------------------------------------------------------
LEMMA BookStarts ==
  ASSUME BookInit
  PROVE  BookInv
<1>1. PICK bids \in SortedLevels("BUY"), asks \in SortedLevels("SELL") :
        levels = [side \in Sides |-> IF side = "BUY" THEN bids ELSE asks]
  BY DEF BookInit
<1>2. ASSUME NEW side, NEW ls \in SortedLevels(side)
      PROVE  ls \in Seq(Level) /\ InOrder(side, ls)
  <2>1. InOrder(side, ls) /\ ls \in UNION {[1..m -> Level] : m \in 0..Cardinality(Ticks)}
    BY DEF SortedLevels, BoundedSeq, SeqOf
  <2>2. PICK m \in 0..Cardinality(Ticks) : ls \in [1..m -> Level]
    BY <2>1
  <2>3. m \in Nat
    BY <2>2
  <2> QED BY <2>1, <2>2, <2>3
<1>3. /\ bids \in Seq(Level) /\ InOrder("BUY", bids)
      /\ asks \in Seq(Level) /\ InOrder("SELL", asks)
  BY <1>2
<1>4. levels["BUY"] = bids /\ levels["SELL"] = asks
  BY <1>1 DEF Sides
<1> QED BY <1>1, <1>3, <1>4 DEF BookInv, Sides

(* What a delta does to the levels of its side, and to the depth there.     *)
DepthNow == [side \in Sides |-> DepthOf(levels[side])]

LEMMA ChangedOK ==
  ASSUME BookInv, NEW side \in Sides, NEW ls \in Seq(Level), InOrder(side, ls),
         Changed(side, ls)
  PROVE  BookInv' /\ DepthNow' = [DepthNow EXCEPT ![side] = DepthOf(ls)]
<1>1. levels' = [levels EXCEPT ![side] = ls] /\ levels \in [Sides -> Seq(Level)]
  BY DEF Changed, BookInv
<1>2. levels' \in [Sides -> Seq(Level)]
  BY <1>1
<1>3. levels'[side] = ls /\ \A s \in Sides : s # side => levels'[s] = levels[s]
  BY <1>1
<1>4. BookInv'
  BY <1>2, <1>3 DEF BookInv
<1>5. DepthNow' = [s \in Sides |-> DepthOf(levels'[s])]
  BY DEF DepthNow, DepthOf, Offered
<1>6. \A s \in Sides : DepthOf(levels'[s]) =
                         IF s = side THEN DepthOf(ls) ELSE DepthOf(levels[s])
  BY <1>3
<1> QED BY <1>4, <1>5, <1>6 DEF DepthNow

LEMMA DeleteStep ==
  ASSUME BookInv, NEW side \in Sides, NEW p \in Prices, DeltaDelete(side, p)
  PROVE  BookInv' /\ Depth!DropLevel(side, Tick(p))
<1> DEFINE ls == levels[side]
           rest == RemoveLevel(ls, p)
<1>1. ls \in Seq(Level) /\ InOrder(side, ls)
  BY DEF BookInv
<1>2. /\ rest \in Seq(Level) /\ InOrder(side, rest)
      /\ DepthOf(rest) = Dropped(DepthOf(ls), Tick(p))
  BY <1>1, RemoveOK
<1>3. Changed(side, rest)
  BY DEF DeltaDelete
<1> HIDE DEF rest
<1>4. BookInv' /\ DepthNow' = [DepthNow EXCEPT ![side] = DepthOf(rest)]
  BY <1>2, <1>3, ChangedOK
<1>5. DepthNow[side] = DepthOf(ls)
  BY DEF DepthNow
<1> QED BY <1>2, <1>4, <1>5 DEF Depth!DropLevel, DepthNow, Dropped

LEMMA SetStep ==
  ASSUME BookInv, NEW side \in Sides, NEW p \in Prices, NEW size \in Sizes,
         DeltaSet(side, p, size)
  PROVE  BookInv' /\ Depth!SetLevel(side, Tick(p), size)
<1> DEFINE ls == levels[side]
           rest == RemoveLevel(ls, p)
           e == [price |-> p, size |-> size]
           more == InsertLevel(rest, side, e)
           t == Tick(p)
<1>1. ls \in Seq(Level) /\ InOrder(side, ls)
  BY DEF BookInv
<1>2. /\ rest \in Seq(Level) /\ InOrder(side, rest)
      /\ \A k \in 1..Len(rest) : Tick(rest[k].price) # t
      /\ DepthOf(rest) = Dropped(DepthOf(ls), t)
  BY <1>1, RemoveOK
<1>3. e \in Level /\ e.price = p /\ e.size = size
  BY DEF Level
<1>4. Changed(side, more)
  BY DEF DeltaSet
<1> HIDE DEF rest, e, t
<1>5. /\ more \in Seq(Level) /\ InOrder(side, more)
      /\ DepthOf(more) = Replaced(DepthOf(rest), t, size)
  <2>1. \A k \in 1..Len(rest) : Tick(rest[k].price) # Tick(e.price)
    BY <1>2, <1>3 DEF t
  <2>2. /\ more \in Seq(Level) /\ InOrder(side, more)
        /\ DepthOf(more) = Replaced(DepthOf(rest), Tick(e.price), e.size)
    BY <1>2, <1>3, <2>1, InsertOK
  <2> HIDE DEF more
  <2> QED BY <1>3, <2>2 DEF t
<1> HIDE DEF more
<1>6. BookInv' /\ DepthNow' = [DepthNow EXCEPT ![side] = DepthOf(more)]
  BY <1>4, <1>5, ChangedOK
<1>7. DepthNow[side] = DepthOf(ls)
  BY DEF DepthNow
<1>8. DepthOf(more) = Replaced(DepthOf(ls), t, size)
  BY <1>2, <1>5 DEF Replaced, Dropped
<1> QED BY <1>6, <1>7, <1>8 DEF Depth!SetLevel, DepthNow, Replaced, t

LEMMA ClearStep ==
  ASSUME BookInv, ClearBook
  PROVE  BookInv' /\ Depth!Empty
<1>1. levels' = [side \in Sides |-> <<>>]
  BY DEF ClearBook
<1>2. BookInv'
  BY <1>1 DEF BookInv, InOrder
<1>3. DepthNow' = [s \in Sides |-> DepthOf(levels'[s])]
  BY DEF DepthNow, DepthOf, Offered
<1>4. DepthOf(<<>>) = [t \in {} |-> 0]
  BY DEF DepthOf
<1> QED BY <1>1, <1>2, <1>3, <1>4 DEF Depth!Empty, Depth!BookSides, Sides, DepthNow

LEMMA BookStep ==
  ASSUME BookInv, [BookNext]_bookVars
  PROVE  BookInv' /\ [Depth!LevelsNext]_DepthNow
<1>1. CASE ClearBook
  BY <1>1, ClearStep DEF Depth!LevelsNext
<1>2. CASE \E side \in Sides, p \in Prices : DeltaDelete(side, p)
  <2>1. PICK side \in Sides, p \in Prices : DeltaDelete(side, p)
    BY <1>2
  <2>2. Tick(p) \in Ticks /\ side \in Depth!BookSides
    BY OneTick DEF Depth!BookSides, Sides
  <2>3. BookInv' /\ Depth!DropLevel(side, Tick(p))
    BY <2>1, DeleteStep
  <2> QED BY <2>2, <2>3 DEF Depth!LevelsNext
<1>3. CASE \E side \in Sides, p \in Prices, size \in Sizes : DeltaSet(side, p, size)
  <2>1. PICK side \in Sides, p \in Prices, size \in Sizes : DeltaSet(side, p, size)
    BY <1>3
  <2>2. Tick(p) \in Ticks /\ side \in Depth!BookSides
    BY OneTick DEF Depth!BookSides, Sides
  <2>3. BookInv' /\ Depth!SetLevel(side, Tick(p), size)
    BY <2>1, SetStep
  <2> QED BY <2>2, <2>3 DEF Depth!LevelsNext
<1>4. CASE UNCHANGED bookVars
  <2>1. levels' = levels
    BY <1>4 DEF bookVars
  <2> QED BY <2>1 DEF BookInv, InOrder, DepthNow, DepthOf, Offered
<1> QED BY <1>1, <1>2, <1>3, <1>4 DEF BookNext

LEMMA DepthStarts ==
  ASSUME BookInv
  PROVE  Depth!LevelsInit
<1>1. ASSUME NEW side \in Sides
      PROVE  DepthOf(levels[side]) \in Depth!AnyDepth
  <2> DEFINE ls == levels[side]
             T == {Tick(ls[i].price) : i \in DOMAIN ls}
  <2>1. ls \in Seq(Level) /\ InOrder(side, ls) /\ DOMAIN ls = 1..Len(ls)
    BY DEF BookInv
  <2>2. \A i \in 1..Len(ls) : Tick(ls[i].price) \in Ticks /\ ls[i].size \in Sizes
    <3>1. \A l \in Level : l.price \in Prices /\ l.size \in Sizes
      BY DEF Level
    <3>2. \A i \in 1..Len(ls) : ls[i] \in Level
      BY <2>1
    <3> HIDE DEF ls
    <3> QED BY <3>1, <3>2, OneTick
  <2> HIDE DEF ls
  <2>3. T \in SUBSET Ticks
    BY <2>1, <2>2
  <2>4. \A u \in T : DepthOf(ls)[u] \in Sizes
    <3>1. TAKE u \in T
    <3>2. PICK i \in 1..Len(ls) : u = Tick(ls[i].price)
      BY <2>1
    <3> QED BY <2>1, <2>2, <3>2, DepthAtLevel
  <2>5. DepthOf(ls) = [u \in T |-> DepthOf(ls)[u]]
    BY DEF DepthOf
  <2> HIDE DEF T
  <2>6. DepthOf(ls) \in [T -> Sizes]
    BY <2>4, <2>5
  <2> QED BY <2>3, <2>6 DEF Depth!AnyDepth, ls
<1> QED BY <1>1 DEF Depth!LevelsInit, Depth!BookSides, Sides

(* Whatever deltas come, with prices off by less than the tolerance, the    *)
(* two sorted vectors are one size per tick: a delta replaces its tick,     *)
(* never doubles it or takes its neighbour, for every grid and every depth. *)
THEOREM BookImplementsDepth == BookSpec => BookIsDepth
<1>1. BookInit => BookInv /\ Depth!LevelsInit
  BY BookStarts, DepthStarts
<1>2. BookInv /\ [BookNext]_bookVars => BookInv' /\ [Depth!LevelsNext]_DepthNow
  BY BookStep
<1> QED BY <1>1, <1>2, PTL DEF BookSpec, BookIsDepth, Depth!LevelsSpec, DepthNow

-----------------------------------------------------------------------------
(* Induction over the levels.  No theorem of the library gives one that the *)
(* provers can use here, so it is had from the least counterexample: a set  *)
(* of finite sets has one that holds no other.                              *)

(* The first number up to n that is in a set, if one is: the intervals up   *)
(* to them are finite sets, among which one has none below it.              *)
LEMMA FirstOf ==
  ASSUME NEW n \in Nat, NEW S, NEW m \in 0..n, m \in S
  PROVE  \E k \in 0..n : k \in S /\ \A j \in 0..n : j < k => j \notin S
<1> DEFINE T == {0..i : i \in {j \in 0..n : j \in S}}
           R == StrictSubsetOrdering(Nat)
<1>1. T \subseteq FiniteSubsetsOf(Nat)
  <2>1. ASSUME NEW i \in 0..n
        PROVE  0..i \in SUBSET Nat /\ IsFiniteSet(0..i)
    BY FS_Interval
  <2> QED BY <2>1 DEF FiniteSubsetsOf
<1>2. T # {}
  OBVIOUS
<1>3. PICK x \in T : \A y \in T : ~ (<<y, x>> \in R)
  <2>1. IsWellFoundedOn(R, FiniteSubsetsOf(Nat))
    BY FS_StrictSubsetOrderingWellFounded
  <2> HIDE DEF T, R
  <2> QED BY <1>1, <1>2, <2>1, WFMin
<1>4. PICK k \in 0..n : k \in S /\ x = 0..k
  OBVIOUS
<1>5. ASSUME NEW j \in 0..n, j < k, j \in S
      PROVE  FALSE
  <2>1. 0..j \in T
    BY <1>5
  <2>2. 0..j \in SUBSET Nat /\ 0..k \in SUBSET Nat /\ 0..j \subseteq 0..k /\ 0..j # 0..k
    <3>1. k \in 0..k /\ k \notin 0..j
      BY <1>5
    <3> QED BY <1>5, <3>1
  <2>3. <<0..j, 0..k>> \in R
    BY <2>2 DEF StrictSubsetOrdering
  <2> QED BY <1>3, <1>4, <2>1, <2>3
<1> QED BY <1>4, <1>5

(* Induction up to n.                                                       *)
LEMMA UpTo ==
  ASSUME NEW n \in Nat, NEW S, 0 \in S, \A i \in 1..n : i - 1 \in S => i \in S
  PROVE  \A i \in 0..n : i \in S
<1> SUFFICES ASSUME NEW i \in 0..n, i \notin S PROVE FALSE
  OBVIOUS
<1> DEFINE bad == {j \in 0..n : j \notin S}
<1>1. i \in bad
  OBVIOUS
<1>2. PICK k \in 0..n : k \in bad /\ \A j \in 0..n : j < k => j \notin bad
  <2> HIDE DEF bad
  <2> QED BY <1>1, FirstOf
<1>3. k # 0 /\ k \in 1..n /\ k - 1 \in 0..n /\ k - 1 < k
  BY <1>2
<1>4. k - 1 \in S
  BY <1>2, <1>3
<1> QED BY <1>2, <1>3, <1>4

(* A value carried from step to step, whatever the step does.               *)
Carries(g, c, n, step) == g[0] = c /\ \A i \in 1..n : g[i] = step[i][g[i - 1]]

LEMMA Carried ==
  ASSUME NEW V, NEW c \in V, NEW n \in Nat, NEW step \in [1..n -> [V -> V]]
  PROVE  \E g \in [0..n -> V] : Carries(g, c, n, step)
<1> DEFINE S == {k \in 0..n : \E g \in [0..k -> V] : Carries(g, c, k, step)}
<1>1. 0 \in S
  <2> DEFINE g == [i \in 0..0 |-> c]
  <2>1. g \in [0..0 -> V] /\ Carries(g, c, 0, step)
    BY DEF Carries
  <2> HIDE DEF g
  <2> QED BY <2>1
<1>2. ASSUME NEW k \in 1..n, k - 1 \in S
      PROVE  k \in S
  <2>1. PICK g \in [0..(k - 1) -> V] : Carries(g, c, k - 1, step)
    BY <1>2
  <2> DEFINE last == step[k][g[k - 1]]
             h == [i \in 0..k |-> IF i = k THEN last ELSE g[i]]
  <2>2. k \in Nat /\ k - 1 \in 0..(k - 1) /\ 0 \in 0..(k - 1) /\ k - 1 # k /\ 0 # k
    OBVIOUS
  <2>3. last \in V
    <3>1. g[k - 1] \in V /\ step[k] \in [V -> V]
      BY <2>2
    <3> QED BY <3>1
  <2>4. h \in [0..k -> V] /\ h[0] = c
    <3>1. g[0] = c
      BY <2>1 DEF Carries
    <3> HIDE DEF last
    <3> QED BY <3>1, <2>2, <2>3
  <2>5. ASSUME NEW i \in 1..k
        PROVE  h[i] = step[i][h[i - 1]]
    <3>1. CASE i = k
      <4>1. h[i] = last /\ h[i - 1] = g[k - 1]
        <5> HIDE DEF last
        <5> QED BY <2>2, <3>1
      <4> QED BY <3>1, <4>1
    <3>2. CASE i # k
      <4>1. i \in 1..(k - 1) /\ i - 1 \in 0..(k - 1) /\ i - 1 # k /\ i \in 0..k /\ i - 1 \in 0..k
        BY <2>2, <3>2
      <4>2. h[i] = g[i] /\ h[i - 1] = g[i - 1]
        <5> HIDE DEF last
        <5> QED BY <3>2, <4>1
      <4>3. g[i] = step[i][g[i - 1]]
        BY <2>1, <4>1 DEF Carries
      <4> QED BY <4>2, <4>3
    <3> QED BY <3>1, <3>2
  <2> HIDE DEF h
  <2>6. Carries(h, c, k, step)
    BY <2>4, <2>5 DEF Carries
  <2>7. k \in 0..n
    OBVIOUS
  <2> QED BY <2>4, <2>6, <2>7
<1>3. n \in S
  <2> HIDE DEF S
  <2>1. \A i \in 0..n : i \in S
    BY ONLY <1>1, <1>2, UpTo, n \in Nat
  <2> QED BY <2>1
<1> QED BY <1>3

(* The sums of a sequence, one number at a time.                            *)
LEMMA SumsAre ==
  ASSUME NEW ns \in Seq(Int)
  PROVE  /\ Sums(ns) \in [0..Len(ns) -> Int] /\ Sums(ns)[0] = 0
         /\ \A i \in 1..Len(ns) : Sums(ns)[i] = Sums(ns)[i - 1] + ns[i]
<1> DEFINE n == Len(ns)
           Def(f) == [i \in 0..n |-> IF i = 0 THEN 0 ELSE f[i - 1] + ns[i]]
           step == [i \in 1..n |-> [x \in Int |-> x + ns[i]]]
<1>0. n \in Nat /\ \A i \in 1..n : ns[i] \in Int
  OBVIOUS
<1>1. step \in [1..n -> [Int -> Int]]
  BY <1>0
<1>2. PICK g \in [0..n -> Int] : Carries(g, 0, n, step)
  <2>1. n \in Nat /\ 0 \in Int
    OBVIOUS
  <2> HIDE DEF step, n
  <2> QED BY <1>1, <2>1, Carried
<1>3. \A i \in 1..n : g[i - 1] \in Int /\ g[i] = g[i - 1] + ns[i]
  <2> TAKE i \in 1..n
  <2>1. i - 1 \in 0..n
    BY <1>0
  <2>2. g[i] = step[i][g[i - 1]] /\ g[i - 1] \in Int
    BY <1>2, <2>1 DEF Carries
  <2> QED BY <2>2
<1>4. g = Def(g)
  <2> HIDE DEF n, step
  <2>1. \A i \in 0..n : g[i] = IF i = 0 THEN 0 ELSE g[i - 1] + ns[i]
    BY <1>0, <1>2, <1>3 DEF Carries
  <2> QED BY <2>1
<1>5. Sums(ns) = Def(Sums(ns))
  <2>1. Sums(ns) = CHOOSE f : f = Def(f)
    BY DEF Sums
  <2> HIDE DEF Def
  <2> QED BY <1>4, <2>1
<1> DEFINE f == Sums(ns)
<1> HIDE DEF f, step
<1>6. /\ f[0] = 0 /\ \A i \in 1..n : f[i] = f[i - 1] + ns[i]
      /\ f = [i \in 0..n |-> f[i]]
  <2>1. f = Def(f)
    BY <1>5 DEF f
  <2> HIDE DEF n
  <2>2. 0 \in 0..n /\ \A i \in 1..n : i \in 0..n /\ i # 0
    BY <1>0
  <2> QED BY <2>1, <2>2
<1>7. \A i \in 0..n : f[i] \in Int
  <2> DEFINE S == {i \in 0..n : f[i] \in Int}
  <2>1. 0 \in S
    BY <1>0, <1>6
  <2>2. ASSUME NEW i \in 1..n, i - 1 \in S
        PROVE  i \in S
    <3>1. i \in 0..n /\ f[i - 1] \in Int /\ ns[i] \in Int
      BY <1>0, <2>2
    <3> HIDE DEF n
    <3>2. f[i] = f[i - 1] + ns[i]
      BY <1>6
    <3> QED BY <3>1, <3>2
  <2> HIDE DEF S, n
  <2>3. \A i \in 0..n : i \in S
    BY <1>0, <2>1, <2>2, UpTo
  <2> QED BY <2>3 DEF S
<1>8. f \in [0..n -> Int]
  <2> HIDE DEF n
  <2> QED BY <1>6, <1>7
<1> QED BY <1>6, <1>8 DEF f

-----------------------------------------------------------------------------
(* The loop of calculate_vwap().                                            *)

(* What has been taken, and what is left to take.                           *)
Accounts == [left : Int, cost : Int, size : Int]

(* The loop of calculate_vwap(), one level at a time.                       *)
LEMMA TakingAre ==
  ASSUME NEW ls \in Seq(Level), NEW quantity \in Nat
  PROVE  LET taken == Taking(ls, quantity)
         IN /\ taken \in [0..Len(ls) -> Accounts]
            /\ taken[0] = [left |-> quantity, cost |-> 0, size |-> 0]
            /\ \A i \in 1..Len(ls) : taken[i] = Take(taken[i - 1], ls[i])
<1> DEFINE n == Len(ls)
           c == [left |-> quantity, cost |-> 0, size |-> 0]
           Def(f) == [i \in 0..n |-> IF i = 0 THEN c ELSE Take(f[i - 1], ls[i])]
           step == [i \in 1..n |-> [a \in Accounts |-> Take(a, ls[i])]]
<1>0. n \in Nat /\ \A i \in 1..n : ls[i].price \in Int /\ ls[i].size \in Int
  <2>1. \A i \in 1..n : ls[i] \in Level /\ ls[i].price \in Nat
    BY PriceOfLevel, OneTick
  <2>2. \A l \in Level : l.size \in Nat
    BY GridAssumption DEF Level
  <2> QED BY <2>1, <2>2
<1>1. ASSUME NEW a \in Accounts, NEW i \in 1..n
      PROVE  Take(a, ls[i]) \in Accounts
  <2> HIDE DEF n
  <2>1. ls[i].price \in Int /\ ls[i].size \in Int
    BY <1>0
  <2>2. a.left \in Int /\ a.cost \in Int /\ a.size \in Int
    BY DEF Accounts
  <2> DEFINE s == IF a.left < ls[i].size THEN a.left ELSE ls[i].size
  <2>3. s \in Int
    BY <2>1, <2>2
  <2>4. Take(a, ls[i]) = [left |-> a.left - s, cost |-> a.cost + ls[i].price * s,
                          size |-> a.size + s]
    BY DEF Take
  <2> HIDE DEF s
  <2>5. a.left - s \in Int /\ a.cost + ls[i].price * s \in Int /\ a.size + s \in Int
    <3>1. ls[i].price * s \in Int
      BY <2>1, <2>3
    <3> QED BY <2>2, <2>3, <3>1
  <2> QED BY <2>4, <2>5 DEF Accounts
<1>2. step \in [1..n -> [Accounts -> Accounts]]
  <2> HIDE DEF n
  <2> QED BY <1>1
<1>3. c \in Accounts
  BY DEF Accounts
<1>4. PICK g \in [0..n -> Accounts] :
        Carries(g, c, n, step)
  <2>1. n \in Nat
    OBVIOUS
  <2> HIDE DEF step, n, c
  <2> QED BY <1>2, <1>3, <2>1, Carried
<1>5. \A i \in 1..n : g[i] = Take(g[i - 1], ls[i])
  <2> TAKE i \in 1..n
  <2>1. i - 1 \in 0..n
    BY <1>0
  <2>2. g[i - 1] \in Accounts
    BY <2>1
  <2>3. step[i][g[i - 1]] = Take(g[i - 1], ls[i])
    BY <2>2
  <2>4. g[i] = step[i][g[i - 1]]
    BY <1>4 DEF Carries
  <2> QED BY <2>3, <2>4
<1> HIDE DEF c
<1>6. g = Def(g)
  <2> HIDE DEF n, step
  <2>1. \A i \in 0..n : g[i] = IF i = 0 THEN c ELSE Take(g[i - 1], ls[i])
    BY <1>0, <1>4, <1>5 DEF Carries
  <2> QED BY <2>1
<1>7. Taking(ls, quantity) = Def(Taking(ls, quantity))
  <2>1. Taking(ls, quantity) = CHOOSE f : f = Def(f)
    BY DEF Taking, c
  <2> HIDE DEF Def
  <2> QED BY <1>6, <2>1
<1> DEFINE f == Taking(ls, quantity)
<1> HIDE DEF f, step
<1>8. /\ f[0] = c /\ \A i \in 1..n : f[i] = Take(f[i - 1], ls[i])
      /\ f = [i \in 0..n |-> f[i]]
  <2>1. f = Def(f)
    BY <1>7 DEF f
  <2> HIDE DEF n
  <2>2. 0 \in 0..n /\ \A i \in 1..n : i \in 0..n /\ i # 0
    BY <1>0
  <2> QED BY <2>1, <2>2
<1>9. \A i \in 0..n : f[i] \in Accounts
  <2> DEFINE S == {i \in 0..n : f[i] \in Accounts}
  <2>1. 0 \in S
    BY <1>0, <1>3, <1>8
  <2>2. ASSUME NEW i \in 1..n, i - 1 \in S
        PROVE  i \in S
    <3>1. i \in 0..n /\ f[i - 1] \in Accounts
      BY <1>0, <2>2
    <3> HIDE DEF n
    <3>2. f[i] = Take(f[i - 1], ls[i])
      BY <1>8
    <3> QED BY <1>1, <3>1, <3>2
  <2> HIDE DEF S, n
  <2>3. \A i \in 0..n : i \in S
    BY <1>0, <2>1, <2>2, UpTo
  <2> QED BY <2>3 DEF S
<1>10. f \in [0..n -> Accounts]
  <2> HIDE DEF n
  <2> QED BY <1>8, <1>9
<1> QED BY <1>8, <1>10 DEF f, c

(* Numbers that are not negative add up to no less at each place.           *)
LEMMA SumsGrow ==
  ASSUME NEW ns \in Seq(Int), \A i \in 1..Len(ns) : ns[i] >= 0
  PROVE  \A i \in 0..Len(ns) : Sums(ns)[i] <= Total(ns)
<1> DEFINE n == Len(ns)
           f == Sums(ns)
           S == {k \in 0..n : f[n - k] <= f[n]}
<1>1. /\ n \in Nat /\ f \in [0..n -> Int] /\ \A i \in 1..n : ns[i] \in Int /\ ns[i] >= 0
      /\ \A i \in 1..n : f[i] = f[i - 1] + ns[i]
  BY SumsAre
<1> HIDE DEF f
<1>2. 0 \in S
  <2>1. 0 \in 0..n /\ n - 0 = n /\ f[n] \in Int
    BY <1>1
  <2> HIDE DEF n
  <2> QED BY <2>1
<1>3. ASSUME NEW k \in 1..n, k - 1 \in S
      PROVE  k \in S
  <2>1. n - k + 1 \in 1..n /\ n - k \in 0..n /\ n - (k - 1) = n - k + 1 /\ n - k + 1 - 1 = n - k
    BY <1>1
  <2>2. f[n - k + 1] <= f[n]
    BY <1>3, <2>1
  <2>3. /\ f[n - k + 1] = f[n - k] + ns[n - k + 1] /\ ns[n - k + 1] \in Int
        /\ ns[n - k + 1] >= 0
    BY <1>1, <2>1
  <2>4. f[n] \in Int /\ f[n - k] \in Int
    <3>1. n \in 0..n
      BY <1>1
    <3> HIDE DEF n
    <3> QED BY <1>1, <2>1, <3>1
  <2>5. f[n - k] <= f[n]
    BY <2>2, <2>3, <2>4
  <2> QED BY <2>1, <2>5
<1>4. \A k \in 0..n : k \in S
  <2> HIDE DEF S, n
  <2> QED BY ONLY <1>1, <1>2, <1>3, UpTo
<1>5. ASSUME NEW i \in 0..n
      PROVE  f[i] <= f[n]
  <2>1. n - i \in 0..n /\ n - (n - i) = i
    BY <1>1
  <2>2. n - i \in S
    BY <1>4, <2>1
  <2> QED BY <2>1, <2>2
<1> QED BY <1>5 DEF f, Total

(* What comes out of the loop at each level: something of the level, all of *)
(* it as long as anything is left to fill.                                  *)
Fills(ls, quantity, taken, sums) ==
  /\ taken \in [0..Len(ls) -> Accounts] /\ sums \in [0..Len(ls) -> Int]
  /\ taken[0].cost = 0 /\ taken[0].size = 0 /\ sums[0] = 0
  /\ \A i \in 0..Len(ls) :
       /\ taken[i].left >= 0 /\ taken[i].left + taken[i].size = quantity
       /\ taken[i].size <= sums[i]
       /\ taken[i].left = 0 \/ taken[i].size = sums[i]
  /\ \A i \in 1..Len(ls) :
       /\ taken[i].size >= taken[i - 1].size
       /\ taken[i].cost = taken[i - 1].cost
                            + ls[i].price * (taken[i].size - taken[i - 1].size)
       /\ sums[i] = sums[i - 1] + ls[i].size

LEMMA FillsUp ==
  ASSUME NEW ls \in Seq(Level), NEW quantity \in Nat
  PROVE  Fills(ls, quantity, Taking(ls, quantity), Sums([i \in DOMAIN ls |-> ls[i].size]))
<1> DEFINE taken == Taking(ls, quantity)
           sums == Sums([i \in DOMAIN ls |-> ls[i].size])
           n == Len(ls)
           zs == [i \in DOMAIN ls |-> ls[i].size]
<1>1. n \in Nat /\ \A i \in 1..n : ls[i].price \in Nat /\ ls[i].size \in Nat /\ ls[i].size > 0
  <2>1. \A i \in 1..n : ls[i] \in Level /\ ls[i].price \in Nat
    BY PriceOfLevel, OneTick
  <2>2. \A l \in Level : l.size \in Nat /\ l.size > 0
    <3>1. \A l \in Level : l.size \in Sizes
      BY DEF Level
    <3>2. Sizes \subseteq Nat \ {0}
      BY GridAssumption
    <3>3. \A s \in Sizes : s \in Nat /\ s > 0
      BY <3>2
    <3> QED BY <3>1, <3>3
  <2> QED BY <2>1, <2>2
<1>2. zs \in Seq(Int) /\ Len(zs) = n /\ \A i \in 1..n : zs[i] = ls[i].size
  <2>1. DOMAIN ls = 1..n
    OBVIOUS
  <2>2. zs = [i \in 1..n |-> ls[i].size]
    BY <2>1
  <2>3. zs \in [1..n -> Int]
    BY <1>1, <2>2
  <2> HIDE DEF n
  <2> QED BY <1>1, <2>2, <2>3
<1>3. /\ sums \in [0..n -> Int] /\ sums[0] = 0
      /\ \A i \in 1..n : sums[i] = sums[i - 1] + ls[i].size
  <2>1. /\ Sums(zs) \in [0..Len(zs) -> Int] /\ Sums(zs)[0] = 0
        /\ \A i \in 1..Len(zs) : Sums(zs)[i] = Sums(zs)[i - 1] + zs[i]
    BY <1>2, SumsAre
  <2>2. sums = Sums(zs)
    OBVIOUS
  <2> HIDE DEF zs, n, sums
  <2> QED BY <1>2, <2>1, <2>2
<1>4. /\ taken \in [0..n -> Accounts] /\ taken[0] = [left |-> quantity, cost |-> 0, size |-> 0]
      /\ \A i \in 1..n : taken[i] = Take(taken[i - 1], ls[i])
  BY TakingAre
<1> HIDE DEF taken, sums
<1> DEFINE Right(i) == /\ taken[i].left >= 0 /\ taken[i].left + taken[i].size = quantity
                       /\ taken[i].size <= sums[i]
                       /\ taken[i].left = 0 \/ taken[i].size = sums[i]
           More(i) == /\ taken[i].size >= taken[i - 1].size
                      /\ taken[i].cost = taken[i - 1].cost
                                           + ls[i].price * (taken[i].size - taken[i - 1].size)
           S == {i \in 0..n : Right(i)}
<1>5. 0 \in S
  BY <1>1, <1>3, <1>4
<1>6. ASSUME NEW i \in 1..n, Right(i - 1)
      PROVE  Right(i) /\ More(i)
  <2> DEFINE a == taken[i - 1]
             s == IF a.left < ls[i].size THEN a.left ELSE ls[i].size
  <2>1. i - 1 \in 0..n /\ i \in 0..n
    BY <1>1
  <2>2. a.left \in Int /\ a.cost \in Int /\ a.size \in Int /\ sums[i - 1] \in Int
    BY <1>3, <1>4, <2>1 DEF Accounts
  <2>3. /\ ls[i].price \in Nat /\ ls[i].size \in Nat /\ ls[i].size > 0
        /\ sums[i] = sums[i - 1] + ls[i].size
    BY <1>1, <1>3
  <2>4. taken[i] = Take(a, ls[i])
    BY <1>4
  <2>5. taken[i].left = a.left - s /\ taken[i].size = a.size + s
    BY <2>4 DEF Take
  <2>11. taken[i].cost = a.cost + ls[i].price * s
    BY <2>4 DEF Take
  <2>6. /\ a.left >= 0 /\ a.left + a.size = quantity /\ a.size <= sums[i - 1]
        /\ a.left = 0 \/ a.size = sums[i - 1]
    BY <1>6
  <2> HIDE DEF a, n
  <2>7. s \in Int /\ s >= 0 /\ s <= a.left /\ s <= ls[i].size /\ (s = a.left \/ s = ls[i].size)
    BY <2>2, <2>3, <2>6
  <2> HIDE DEF s
  <2>8. Right(i)
    <3> DEFINE l == a.left
               z == a.size
               q == sums[i - 1]
               y == ls[i].size
    <3>1. /\ l \in Int /\ z \in Int /\ q \in Int /\ y \in Int /\ s \in Int
          /\ l >= 0 /\ l + z = quantity /\ z <= q /\ (l = 0 \/ z = q)
          /\ y > 0 /\ s >= 0 /\ s <= l /\ s <= y /\ (s = l \/ s = y)
      BY <2>2, <2>3, <2>6, <2>7
    <3>2. taken[i].left = l - s /\ taken[i].size = z + s /\ sums[i] = q + y
      BY <2>3, <2>5
    <3> HIDE DEF l, z, q, y
    <3>3. l - s >= 0 /\ (l - s) + (z + s) = quantity /\ z + s <= q + y
      BY <3>1
    <3>4. l - s = 0 \/ z + s = q + y
      BY <3>1
    <3> QED BY <3>2, <3>3, <3>4
  <2>9. taken[i].size - a.size = s
    BY <2>2, <2>5, <2>7
  <2>10. More(i)
    BY <2>2, <2>5, <2>7, <2>9, <2>11 DEF a
  <2> QED BY <2>8, <2>10
<1>7. \A i \in 0..n : i \in S
  <2>1. \A i \in 1..n : i - 1 \in S => i \in S
    <3>1. \A i \in 1..n : i \in 0..n
      BY <1>1
    <3> HIDE DEF Right, More, n
    <3> QED BY <1>6, <3>1
  <2> HIDE DEF S, n
  <2> QED BY ONLY <1>1, <1>5, <2>1, UpTo
<1>8. \A i \in 0..n : Right(i)
  BY <1>7
<1>9. \A i \in 1..n : More(i)
  <2>1. \A i \in 1..n : i - 1 \in 0..n
    BY <1>1
  <2> HIDE DEF Right, More, n
  <2> QED BY <1>6, <1>8, <2>1
<1>10. Fills(ls, quantity, taken, sums)
  <2>1. taken[0].cost = 0 /\ taken[0].size = 0
    BY <1>4
  <2> QED BY <1>3, <1>4, <1>8, <1>9, <2>1, Zenon DEF Fills
<1> QED BY <1>10 DEF taken, sums

(* Where what one has more of comes cheaper first, it costs no more.        *)
LEMMA CheapFirst ==
  ASSUME NEW n \in Nat, NEW p \in [1..n -> Int],
         NEW E \in [0..n -> Int], NEW D \in [0..n -> Int],
         D[0] = 0, E[0] = 0, E[n] = 0, \A i \in 0..n : E[i] >= 0,
         \A i \in 1..n : D[i] = D[i - 1] + p[i] * (E[i] - E[i - 1]),
         \A i \in 1..n : i - 1 \in 1..n => p[i - 1] <= p[i]
  PROVE  D[n] <= 0
<1>0. ASSUME NEW a \in Int, NEW b \in Int, NEW e \in Int, a <= b, e >= 0
      PROVE  a * e <= b * e
  <2>1. PICK d \in Nat : b = a + d
    <3>1. b - a \in Nat /\ b = a + (b - a)
      BY <1>0
    <3> QED BY <3>1
  <2>2. d * e \in Nat /\ a * e \in Int
    BY <1>0
  <2>3. (a + d) * e = a * e + d * e
    OBVIOUS
  <2> QED BY <2>1, <2>2, <2>3
<1>6. ASSUME NEW a \in Int, NEW b \in Int
      PROVE  a * b \in Int
  OBVIOUS
<1> DEFINE S == {i \in 0..n : i = 0 \/ D[i] <= p[i] * E[i]}
<1>1. 0 \in S
  OBVIOUS
<1>2. ASSUME NEW i \in 1..n, i - 1 \in S
      PROVE  i \in S
  <2>1. i - 1 \in 0..n /\ i \in 0..n
    OBVIOUS
  <2>2. D[i] \in Int /\ D[i - 1] \in Int /\ E[i] \in Int /\ E[i - 1] \in Int /\ p[i] \in Int
        /\ E[i - 1] >= 0
    BY <2>1
  <2>3. D[i - 1] <= p[i] * E[i - 1]
    <3>1. CASE i = 1
      <4>1. D[i - 1] = 0 /\ E[i - 1] = 0
        BY <3>1
      <4> QED BY <2>2, <4>1
    <3>2. CASE i # 1
      <4>1. i - 1 \in 1..n /\ i - 1 # 0
        BY <3>2
      <4>2. D[i - 1] <= p[i - 1] * E[i - 1] /\ p[i - 1] <= p[i] /\ p[i - 1] \in Int
        BY <1>2, <4>1
      <4>3. p[i - 1] * E[i - 1] <= p[i] * E[i - 1]
        BY <1>0, <2>2, <4>2
      <4>4. p[i - 1] * E[i - 1] \in Int /\ p[i] * E[i - 1] \in Int
        BY <1>6, <2>2, <4>2
      <4> QED BY <2>2, <4>2, <4>3, <4>4
    <3> QED BY <3>1, <3>2
  <2>4. D[i] = D[i - 1] + p[i] * (E[i] - E[i - 1])
    OBVIOUS
  <2>5. p[i] * (E[i] - E[i - 1]) = p[i] * E[i] - p[i] * E[i - 1]
    BY <2>2
  <2>6. p[i] * E[i] \in Int /\ p[i] * E[i - 1] \in Int
    BY <1>6, <2>2
  <2>7. D[i] <= p[i] * E[i]
    BY <2>2, <2>3, <2>4, <2>5, <2>6
  <2> QED BY <2>1, <2>7
<1>3. n \in S
  <2> HIDE DEF S
  <2>1. \A i \in 0..n : i \in S
    BY ONLY <1>1, <1>2, UpTo, n \in Nat
  <2> QED BY <2>1
<1>4. CASE n = 0
  BY <1>4
<1>5. CASE n # 0
  <2>1. n \in 1..n /\ D[n] <= p[n] * E[n]
    BY <1>3, <1>5
  <2>2. p[n] \in Int /\ p[n] * E[n] = 0
    BY <2>1
  <2> QED BY <2>1, <2>2
<1> QED BY <1>4, <1>5

(* calculate_vwap() on one side of a book: it fills what it is asked for or *)
(* all there is, and no other way to fill as much is better for the one who *)
(* trades against that side.                                                *)
LEMMA FillIsBest ==
  ASSUME NEW ls \in Seq(Level), NEW side \in Sides, InOrder(side, ls), NEW quantity \in Nat,
         NEW v, v = Taking(ls, quantity)[Len(ls)]
  PROVE  /\ v.size = IF quantity < TotalSize(ls) THEN quantity ELSE TotalSize(ls)
         /\ \A w \in Ways(ls, v.size) : ~Before(side, CostOf(ls, w), v.cost)
<1> DEFINE n == Len(ls)
           taken == Taking(ls, quantity)
           sums == Sums([i \in DOMAIN ls |-> ls[i].size])
<1>1. /\ n \in Nat /\ DOMAIN ls = 1..n /\ 0 \in 0..n /\ n \in 0..n
      /\ \A i \in 1..n : i \in 0..n /\ i - 1 \in 0..n /\ i \in Int
      /\ \A i \in 1..n : ls[i].price \in Prices
      /\ \A i \in 1..n : ls[i].price \in Nat
  <2>1. n \in Nat /\ DOMAIN ls = 1..n
    OBVIOUS
  <2>2. \A i \in 1..n : ls[i].price \in Prices /\ ls[i].price \in Nat
    BY PriceOfLevel, OneTick
  <2> HIDE DEF n
  <2> QED BY <2>1, <2>2
<1>2. /\ taken \in [0..n -> Accounts] /\ sums \in [0..n -> Int]
      /\ taken[0].cost = 0 /\ taken[0].size = 0 /\ sums[0] = 0
      /\ \A i \in 0..n :
           /\ taken[i].left >= 0 /\ taken[i].left + taken[i].size = quantity
           /\ taken[i].size <= sums[i]
           /\ taken[i].left = 0 \/ taken[i].size = sums[i]
      /\ \A i \in 1..n :
           /\ taken[i].size >= taken[i - 1].size
           /\ taken[i].cost = taken[i - 1].cost
                                + ls[i].price * (taken[i].size - taken[i - 1].size)
           /\ sums[i] = sums[i - 1] + ls[i].size
  <2>1. Fills(ls, quantity, taken, sums)
    BY FillsUp
  <2> HIDE DEF taken, sums
  <2> QED BY <2>1 DEF Fills
<1>3. TotalSize(ls) = sums[n] /\ v = taken[n]
  <2>1. Len([i \in DOMAIN ls |-> ls[i].size]) = n
    <3>1. [i \in DOMAIN ls |-> ls[i].size] = [i \in 1..n |-> ls[i].size] /\ n \in Nat
      BY <1>1
    <3> HIDE DEF n
    <3> QED BY <3>1
  <2> QED BY <2>1 DEF TotalSize, Total
<1> HIDE DEF n, taken, sums
<1>4. /\ \A i \in 0..n : taken[i].left \in Int /\ taken[i].cost \in Int /\ taken[i].size \in Int
      /\ \A i \in 0..n : sums[i] \in Int
  BY <1>2 DEF Accounts
<1>5. v.size = IF quantity < TotalSize(ls) THEN quantity ELSE TotalSize(ls)
  <2>1. /\ taken[n].left >= 0 /\ taken[n].left + taken[n].size = quantity
        /\ taken[n].size <= sums[n] /\ (taken[n].left = 0 \/ taken[n].size = sums[n])
        /\ taken[n].left \in Int /\ taken[n].size \in Int /\ sums[n] \in Int
    BY <1>1, <1>2, <1>4
  <2> QED BY <1>3, <2>1
<1>6. ASSUME NEW w \in Ways(ls, v.size)
      PROVE  ~Before(side, CostOf(ls, w), v.cost)
  <2> DEFINE costs == [i \in DOMAIN ls |-> w[i] * ls[i].price]
             W == Sums(w)
             C == Sums(costs)
  <2>1. /\ w \in [1..n -> {0} \cup Sizes] /\ \A i \in 1..n : w[i] <= ls[i].size
        /\ Total(w) = v.size
    BY <1>1 DEF Ways
  <2>2. \A i \in 1..n : w[i] \in Int /\ w[i] >= 0
    <3>1. Sizes \subseteq Nat \ {0}
      BY GridAssumption
    <3>2. \A s \in {0} \cup Sizes : s \in Int /\ s >= 0
      BY <3>1
    <3> QED BY <2>1, <3>2
  <2>3. w \in Seq(Int) /\ Len(w) = n
    <3>1. w \in [1..n -> Int]
      BY <2>1, <2>2
    <3> QED BY <1>1, <2>1, <3>1
  <2>4. costs \in Seq(Int) /\ Len(costs) = n /\ \A i \in 1..n : costs[i] = w[i] * ls[i].price
    <3>1. costs = [i \in 1..n |-> w[i] * ls[i].price]
      BY <1>1
    <3>2. \A i \in 1..n : w[i] * ls[i].price \in Int
      BY <1>1, <2>2
    <3>3. costs \in [1..n -> Int]
      BY <3>1, <3>2
    <3> HIDE DEF costs
    <3> QED BY <1>1, <3>1, <3>3
  <2>5. /\ W \in [0..n -> Int] /\ W[0] = 0 /\ \A i \in 1..n : W[i] = W[i - 1] + w[i]
        /\ \A i \in 0..n : W[i] <= W[n]
    <3>1. /\ W \in [0..n -> Int] /\ W[0] = 0
          /\ \A i \in 1..n : W[i] = W[i - 1] + w[i]
      BY <2>3, SumsAre
    <3>2. \A i \in 0..n : W[i] <= W[n]
      BY <2>2, <2>3, SumsGrow DEF Total
    <3> QED BY <3>1, <3>2
  <2> HIDE DEF costs
  <2>6. C \in [0..n -> Int] /\ C[0] = 0 /\ \A i \in 1..n : C[i] = C[i - 1] + w[i] * ls[i].price
    BY <2>4, SumsAre
  <2>7. W[n] = v.size /\ C[n] = CostOf(ls, w)
    BY <2>1, <2>3, <2>4 DEF Total, CostOf, costs
  <2> HIDE DEF W, C
  <2>8. \A i \in 0..n : W[i] \in Int /\ C[i] \in Int
    BY <2>5, <2>6
  <2>9. \A i \in 0..n : W[i] <= sums[i]
    <3> DEFINE S == {i \in 0..n : W[i] <= sums[i]}
    <3>1. 0 \in S
      BY <1>1, <1>2, <2>5
    <3>2. ASSUME NEW i \in 1..n, i - 1 \in S
          PROVE  i \in S
      <4>1. i \in 0..n /\ i - 1 \in 0..n
        BY <1>1
      <4>2. /\ W[i] \in Int /\ W[i - 1] \in Int /\ sums[i] \in Int /\ sums[i - 1] \in Int
            /\ w[i] \in Int
        BY <1>4, <2>2, <2>8, <4>1
      <4>3. ls[i].size \in Int
        <5>1. ls[i] \in Level
          BY DEF n
        <5>2. ls[i].size \in Sizes
          BY <5>1 DEF Level
        <5>3. Sizes \subseteq Int
          BY GridAssumption
        <5> QED BY <5>2, <5>3
      <4>4. W[i] = W[i - 1] + w[i] /\ sums[i] = sums[i - 1] + ls[i].size /\ w[i] <= ls[i].size
        BY <1>2, <2>1, <2>5
      <4>5. W[i - 1] <= sums[i - 1]
        BY <3>2
      <4>6. W[i] <= sums[i]
        BY <4>2, <4>3, <4>4, <4>5
      <4> QED BY <4>1, <4>6
    <3>3. \A i \in 0..n : i \in S
      <4> HIDE DEF S
      <4> QED BY ONLY <1>1, <3>1, <3>2, UpTo
    <3> QED BY <3>3
(* As much or more is taken from the levels up to each than in the other    *)
(* way.                                                                     *)
  <2> DEFINE E == [i \in 0..n |-> taken[i].size - W[i]]
             sign == IF side = "SELL" THEN 1 ELSE -1
             p == [i \in 1..n |-> sign * ls[i].price]
             D == [i \in 0..n |-> sign * (taken[i].cost - C[i])]
  <2>10. \A i \in 0..n : E[i] \in Int /\ E[i] >= 0
    <3> TAKE i \in 0..n
    <3>1. /\ taken[i].size \in Int /\ taken[i].left \in Int /\ W[i] \in Int /\ sums[i] \in Int
          /\ W[n] \in Int /\ taken[n].size \in Int /\ taken[n].left \in Int
      BY <1>1, <1>4, <2>8
    <3>2. /\ W[i] <= W[n] /\ W[i] <= sums[i] /\ W[n] = taken[n].size
          /\ taken[n].left >= 0 /\ taken[n].left + taken[n].size = quantity
          /\ taken[i].left + taken[i].size = quantity
          /\ (taken[i].left = 0 \/ taken[i].size = sums[i])
      BY <1>1, <1>2, <1>3, <2>5, <2>7, <2>9
    <3>3. W[i] <= taken[i].size
      <4>1. CASE taken[i].size = sums[i]
        BY <3>2, <4>1
      <4>2. CASE taken[i].left = 0
        <5>1. taken[i].size = quantity
          BY <3>1, <3>2, <4>2
        <5>2. taken[n].size <= quantity
          BY <3>1, <3>2
        <5> QED BY <3>1, <3>2, <5>1, <5>2
      <4> QED BY <3>2, <4>1, <4>2
    <3>4. E[i] = taken[i].size - W[i]
      OBVIOUS
    <3> QED BY <3>1, <3>3, <3>4
  <2>11. E[0] = 0 /\ E[n] = 0
    BY <1>1, <1>2, <1>3, <1>4, <2>5, <2>7, <2>8
  <2>12. sign \in Int /\ (sign = 1 \/ sign = -1)
    OBVIOUS
  <2>13. p \in [1..n -> Int] /\ D \in [0..n -> Int] /\ E \in [0..n -> Int] /\ D[0] = 0
    <3>1. \A i \in 1..n : sign * ls[i].price \in Int
      BY <1>1, <2>12
    <3>2. \A i \in 0..n : sign * (taken[i].cost - C[i]) \in Int
      BY <1>4, <2>8, <2>12
    <3>3. sign * (0 - 0) = 0
      BY <2>12
    <3>4. D[0] = 0
      BY <1>1, <1>2, <2>6, <3>3
    <3> HIDE DEF sign
    <3> QED BY <2>10, <3>1, <3>2, <3>4
  <2>14. ASSUME NEW i \in 1..n
         PROVE  D[i] = D[i - 1] + p[i] * (E[i] - E[i - 1])
    <3> DEFINE x == ls[i].price
               y == taken[i].size
               z == taken[i - 1].size
               b == taken[i - 1].cost
               c == C[i - 1]
               u == W[i - 1]
               o == w[i]
    <3>1. i \in 0..n /\ i - 1 \in 0..n
      BY <1>1
    <3>2. /\ x \in Int /\ y \in Int /\ z \in Int /\ b \in Int /\ c \in Int
          /\ u \in Int /\ o \in Int
      BY <1>1, <1>4, <2>2, <2>8, <3>1
    <3>3. taken[i].cost = b + x * (y - z) /\ C[i] = c + o * x /\ W[i] = u + o
      BY <1>2, <2>5, <2>6
    <3>4. E[i] = y - (u + o) /\ E[i - 1] = z - u
      BY <3>1, <3>3
    <3>5. /\ D[i] = sign * ((b + x * (y - z)) - (c + o * x)) /\ D[i - 1] = sign * (b - c)
          /\ p[i] = sign * x
      BY <3>1, <3>3
    <3> HIDE DEF D, E, p, x, y, z, b, c, u, o, sign
    <3>6. E[i] - E[i - 1] = y - z - o
      BY <3>2, <3>4
    <3>7. /\ (b + x * (y - z)) - (c + o * x) = (b - c) + x * (y - z - o)
          /\ x * (y - z - o) \in Int /\ b - c \in Int
      BY <3>2
    <3>8. CASE sign = 1
      BY <3>2, <3>5, <3>6, <3>7, <3>8
    <3>9. CASE sign = -1
      <4>1. (-1 * x) * (y - z - o) = -(x * (y - z - o))
        BY <3>2
      <4> QED BY <3>2, <3>5, <3>6, <3>7, <3>9, <4>1
    <3> QED BY <2>12, <3>8, <3>9
  <2>15. ASSUME NEW i \in 1..n, i - 1 \in 1..n
         PROVE  p[i - 1] <= p[i]
    <3>1. Before(side, ls[i - 1].price, ls[i].price)
      BY <1>1, <2>15 DEF InOrder
    <3>2. ls[i - 1].price \in Nat /\ ls[i].price \in Nat
      BY <1>1, <2>15
    <3> QED BY <2>15, <3>1, <3>2 DEF Before, Sides
  <2>16. D[n] <= 0
    <3> HIDE DEF D, E, p
    <3> QED BY ONLY <1>1, <2>10, <2>11, <2>13, <2>14, <2>15, CheapFirst
  <2>17. D[n] = sign * (v.cost - CostOf(ls, w)) /\ v.cost \in Int /\ CostOf(ls, w) \in Int
    BY <1>1, <1>3, <1>4, <2>7, <2>8
  <2> HIDE DEF D
  <2> QED BY <2>16, <2>17 DEF Before, Sides
<1> QED BY <1>5, <1>6

(* The statistics are those of the levels.                                  *)
StatsOfLevels == stats = ComputeStats(levels["BUY"], levels["SELL"])

(* In a book that is not crossed every level of a side lies on its side of  *)
(* mid, and so does any average of them.                                    *)
LEMMA NoGainOnMid ==
  ASSUME BookInv, StatsOfLevels, ~Crossed, NEW side \in Sides, NEW quantity \in Nat
  PROVE  ImpactSign(side, quantity) # (IF side = "BUY" THEN -1 ELSE 1)
<1> DEFINE ls == levels[Opposite(side)]
           n == Len(ls)
           taken == Taking(ls, quantity)
           sums == Sums([i \in DOMAIN ls |-> ls[i].size])
           mid == stats.twice_mid
<1>1. CASE levels["BUY"] = <<>> \/ levels["SELL"] = <<>>
  <2>1. mid = 0
    BY <1>1 DEF StatsOfLevels, ComputeStats, NoStats
  <2>2. ImpactSign(side, quantity) = 0
    BY <2>1 DEF ImpactSign
  <2> QED BY <2>2
<1>2. CASE levels["BUY"] # <<>> /\ levels["SELL"] # <<>>
  <2> DEFINE bid == levels["BUY"][1].price
             ask == levels["SELL"][1].price
  <2>1. mid = ask + bid
    BY <1>2 DEF StatsOfLevels, ComputeStats
  <2>2. /\ ls \in Seq(Level) /\ InOrder(Opposite(side), ls)
        /\ levels["BUY"] \in Seq(Level) /\ levels["SELL"] \in Seq(Level)
    BY DEF BookInv, Sides, Opposite
  <2>3. bid \in Nat /\ ask \in Nat /\ bid < ask
    <3>1. ASSUME NEW l \in Seq(Level), l # <<>>
          PROVE  l[1].price \in Nat
      <4>1. 1 \in 1..Len(l)
        BY <3>1
      <4> QED BY <4>1, PriceOfLevel, OneTick
    <3>2. bid \in Nat /\ ask \in Nat
      BY <1>2, <2>2, <3>1
    <3>3. ~ bid >= ask
      BY <1>2 DEF Crossed
    <3> HIDE DEF bid, ask
    <3> QED BY <3>2, <3>3
  <2>4. /\ n \in Nat /\ DOMAIN ls = 1..n
        /\ \A i \in 1..n : i \in 0..n /\ i - 1 \in 0..n /\ ls[i].price \in Nat
    <3>1. \A i \in 1..n : ls[i].price \in Nat
      BY <2>2, PriceOfLevel, OneTick
    <3>2. n \in Nat /\ DOMAIN ls = 1..n
      BY <2>2
    <3> HIDE DEF n, ls
    <3> QED BY <3>1, <3>2
  <2> DEFINE Aside(x, y) == IF side = "BUY" THEN x <= y ELSE y <= x
  <2>5. ASSUME NEW i \in 1..n
        PROVE  Aside(mid, 2 * ls[i].price)
    <3>1. 1 \in 1..n /\ ls[1].price \in Nat /\ ls[i].price \in Nat /\ (i = 1 \/ 1 < i)
      BY <2>4
    <3>2. i = 1 \/ Before(Opposite(side), ls[1].price, ls[i].price)
      <4> HIDE DEF ls, n
      <4> QED BY <2>2, <2>4, <3>1 DEF InOrder
    <3>3. CASE side = "BUY"
      <4>1. ls[1].price = ask /\ Opposite(side) = "SELL"
        BY <3>3 DEF Opposite
      <4>2. ask <= ls[i].price
        <5> HIDE DEF ls, ask
        <5> QED BY <3>1, <3>2, <4>1 DEF Before
      <4> HIDE DEF bid, ask, ls, mid
      <4> QED BY <2>1, <2>3, <3>1, <3>3, <4>2
    <3>4. CASE side = "SELL"
      <4>1. ls[1].price = bid /\ Opposite(side) = "BUY"
        BY <3>4 DEF Opposite
      <4>2. ls[i].price <= bid
        <5> HIDE DEF ls, bid
        <5> QED BY <3>1, <3>2, <4>1 DEF Before
      <4> HIDE DEF bid, ask, ls, mid
      <4> QED BY <2>1, <2>3, <3>1, <3>4, <4>2
    <3> QED BY <3>3, <3>4 DEF Sides
  <2>6. mid \in Nat
    <3> HIDE DEF bid, ask, mid
    <3> QED BY <2>1, <2>3
  <2> HIDE DEF bid, ask, mid
  <2>7. Fills(ls, quantity, taken, sums)
    BY <2>2, FillsUp
  <2> HIDE DEF taken, sums
  <2>8. /\ taken[0].cost = 0 /\ taken[0].size = 0
        /\ \A i \in 0..n : taken[i].cost \in Int /\ taken[i].size \in Int
        /\ \A i \in 1..n :
             /\ taken[i].size >= taken[i - 1].size
             /\ taken[i].cost = taken[i - 1].cost
                                  + ls[i].price * (taken[i].size - taken[i - 1].size)
    BY <2>7 DEF Fills, Accounts
  <2> HIDE DEF ls, n
  <2>9. \A i \in 0..n : Aside(mid * taken[i].size, 2 * taken[i].cost)
    <3> DEFINE S == {i \in 0..n : Aside(mid * taken[i].size, 2 * taken[i].cost)}
    <3>1. 0 \in S
      <4>1. mid * 0 = 0 /\ 2 * 0 = 0 /\ 0 \in 0..n
        BY <2>4, <2>6
      <4> QED BY <2>8, <4>1
    <3>2. ASSUME NEW i \in 1..n, i - 1 \in S
          PROVE  i \in S
      <4> DEFINE p == ls[i].price
                 c == taken[i - 1].cost
                 z == taken[i - 1].size
                 y == taken[i].size
                 g == y - z
      <4>1. i \in 0..n /\ i - 1 \in 0..n
        BY <2>4
      <4>2. p \in Nat /\ c \in Int /\ z \in Int /\ y \in Int /\ z <= y
        BY <2>4, <2>8, <4>1
      <4>3. taken[i].cost = c + p * g
        BY <2>8
      <4>4. Aside(mid * z, 2 * c) /\ Aside(mid, 2 * p)
        BY <2>5, <3>2
      <4> HIDE DEF p, c, z, y
      <4>5. g \in Nat /\ y = z + g
        BY <4>2
      <4> HIDE DEF g
      <4>6. Aside(mid * y, 2 * (c + p * g))
        <5>1. /\ mid * (z + g) = mid * z + mid * g /\ 2 * (c + p * g) = 2 * c + (2 * p) * g
              /\ mid * z \in Int /\ mid * g \in Int /\ (2 * p) * g \in Int /\ 2 * c \in Int
          BY <2>6, <4>2, <4>5
        <5>2. ASSUME NEW a \in Nat, NEW b \in Nat, a <= b
              PROVE  a * g <= b * g
          <6>1. PICK d \in Nat : b = a + d
            <7>1. b - a \in Nat /\ b = a + (b - a)
              BY <5>2
            <7> QED BY <7>1
          <6>2. (a + d) * g = a * g + d * g /\ d * g \in Nat /\ a * g \in Nat
            BY <4>5
          <6> QED BY <6>1, <6>2
        <5>3. 2 * p \in Nat
          BY <4>2
        <5>4. Aside(mid * g, (2 * p) * g)
          BY <2>6, <4>4, <5>2, <5>3
        <5> QED BY <4>4, <4>5, <5>1, <5>4
      <4> QED BY <4>1, <4>3, <4>6 DEF y
    <3>3. \A i \in 0..n : i \in S
      <4> HIDE DEF S
      <4> QED BY ONLY <2>4, <3>1, <3>2, UpTo
    <3> QED BY <3>3
  <2>10. n \in 0..n
    BY <2>4
  <2>11. Vwap(side, quantity) = taken[n]
    BY DEF Vwap, taken, n, ls
  <2>12. CASE side = "BUY"
    <3>1. mid * taken[n].size <= 2 * taken[n].cost
      BY <2>9, <2>10, <2>12
    <3>2. mid * taken[n].size \in Int /\ 2 * taken[n].cost \in Int
      BY <2>6, <2>8, <2>10
    <3>3. ImpactSign(side, quantity) \in {0, 1}
      BY <2>11, <3>1, <3>2 DEF ImpactSign, mid
    <3> QED BY <2>12, <3>3
  <2>13. CASE side = "SELL"
    <3>1. 2 * taken[n].cost <= mid * taken[n].size
      BY <2>9, <2>10, <2>13
    <3>2. mid * taken[n].size \in Int /\ 2 * taken[n].cost \in Int
      BY <2>6, <2>8, <2>10
    <3>3. ImpactSign(side, quantity) \in {0, -1}
      BY <2>11, <3>1, <3>2 DEF ImpactSign, mid
    <3> QED BY <2>13, <3>3
  <2> QED BY <2>12, <2>13 DEF Sides
<1> QED BY <1>1, <1>2

LEMMA StatsStep ==
  ASSUME [BookNext]_bookVars, StatsOfLevels
  PROVE  StatsOfLevels'
<1>1. CASE ClearBook
  BY <1>1 DEF ClearBook, StatsOfLevels, ComputeStats, Sides
<1>2. ASSUME NEW side \in Sides, NEW ls, Changed(side, ls)
      PROVE  StatsOfLevels'
  BY <1>2 DEF Changed, StatsOfLevels
<1>3. CASE UNCHANGED bookVars
  BY <1>3 DEF bookVars, StatsOfLevels
<1> QED BY <1>1, <1>2, <1>3 DEF BookNext, DeltaSet, DeltaDelete

-----------------------------------------------------------------------------
(* get_volume_at_level() and validate() need no more than the order: the    *)
(* volume at a level is that of the levels up to it, and only a crossed     *)
(* book is invalid.                                                         *)
LEMMA VolumesAreTrue == BookInv => VolumesAddUp
<1> SUFFICES ASSUME BookInv, NEW side \in Sides, NEW i \in DOMAIN levels[side]
             PROVE  VolumeAt(side, levels[side][i].price) =
                      TotalSize(SubSeq(levels[side], 1, i))
  BY DEF VolumesAddUp
<1> DEFINE ls == levels[side]
           K == {j \in DOMAIN ls : ~Before(side, ls[i].price, ls[j].price)}
<1>1. /\ ls \in Seq(Level) /\ InOrder(side, ls) /\ DOMAIN ls = 1..Len(ls)
      /\ Len(ls) \in Nat
  BY DEF BookInv
<1>2. \A j \in 1..Len(ls) : ls[j].price \in Prices
  BY <1>1, PriceOfLevel
<1> HIDE DEF ls
<1>3. i \in 1..Len(ls) /\ i \in Nat
  BY <1>1 DEF ls
<1>4. K = 1..i
  <2>1. ASSUME NEW j \in 1..Len(ls)
        PROVE  Before(side, ls[i].price, ls[j].price) <=> i < j
    <3>1. CASE i < j
      BY <1>1, <1>3, <3>1 DEF InOrder
    <3>2. CASE j < i
      <4>1. Before(side, ls[j].price, ls[i].price)
        BY <1>1, <1>3, <3>2 DEF InOrder
      <4>2. ~ Before(side, ls[i].price, ls[j].price) /\ ~ i < j
        BY <1>2, <1>3, <3>2, <4>1, BeforeIsOrder
      <4> QED BY <4>2
    <3>3. CASE i = j
      BY <1>2, <1>3, <3>3, BeforeIsOrder
    <3> QED BY <1>3, <3>1, <3>2, <3>3
  <2> QED BY <1>1, <1>3, <2>1
<1>5. LevelsAt(ls, K) = SubSeq(ls, 1, i)
  <2>1. ASSUME NEW j \in 0..i
        PROVE  Cardinality(1..j) = j
    <3>1. j \in Nat /\ Cardinality(1..j) = IF 1 > j THEN 0 ELSE j - 1 + 1
      BY <1>3, FS_Interval
    <3> QED BY <3>1
  <2>2. Cardinality(K) = i
    <3>1. i \in 0..i
      BY <1>3
    <3> QED BY <1>4, <2>1, <3>1
  <2> DEFINE at(k) == CHOOSE j \in K : Cardinality({l \in K : l <= j}) = k
  <2>3. LevelsAt(ls, K) = [k \in 1..i |-> ls[at(k)]]
    BY <2>2 DEF LevelsAt
  <2>4. ASSUME NEW j \in K
        PROVE  Cardinality({l \in K : l <= j}) = j
    <3>1. j \in 0..i /\ j \in Nat
      BY <1>3, <1>4
    <3>2. {l \in K : l <= j} = 1..j
      BY <1>3, <1>4, <3>1
    <3> QED BY <2>1, <3>1, <3>2
  <2>5. ASSUME NEW k \in 1..i
        PROVE  at(k) = k
    <3>1. k \in K
      BY <1>4
    <3> HIDE DEF K
    <3> QED BY <2>4, <3>1
  <2>6. SubSeq(ls, 1, i) = [k \in 1..i |-> ls[k]]
    BY <1>1, <1>3
  <2> HIDE DEF at, K
  <2> QED BY <2>3, <2>5, <2>6
<1> HIDE DEF K
<1>6. VolumeAt(side, ls[i].price) = TotalSize(LevelsAt(ls, K))
  BY DEF VolumeAt, K, ls
<1> QED BY <1>5, <1>6 DEF ls

LEMMA OnlyCrossedIsInvalid == BookInv => Valid = ~Crossed
<1> SUFFICES ASSUME BookInv, NEW side \in Sides, NEW i \in 2..Len(levels[side])
             PROVE  ~Before(side, levels[side][i].price, levels[side][i - 1].price)
  BY DEF Valid
<1> DEFINE ls == levels[side]
<1>1. ls \in Seq(Level) /\ InOrder(side, ls) /\ DOMAIN ls = 1..Len(ls)
  BY DEF BookInv
<1>2. i \in 1..Len(ls) /\ i - 1 \in 1..Len(ls) /\ i - 1 < i
  BY <1>1
<1>3. ls[i].price \in Prices /\ ls[i - 1].price \in Prices
  BY <1>1, <1>2, PriceOfLevel
<1> HIDE DEF ls
<1>4. Before(side, ls[i - 1].price, ls[i].price)
  BY <1>1, <1>2 DEF InOrder
<1>5. ~Before(side, ls[i].price, ls[i - 1].price)
  BY <1>3, <1>4, BeforeIsOrder
<1> QED BY <1>5 DEF ls

(* Whatever deltas made the book, the questions that trust the order of its *)
(* levels are answered right: calculate_vwap() fills the quantity or all    *)
(* there is, at a cost no other way to fill it betters; the price is no     *)
(* better than mid unless the book is crossed; get_volume_at_level() is the *)
(* sum up to the level; validate() rejects a crossed book and no other.     *)
THEOREM QueriesAreTrusted == BookSpec => []QueriesTrustTheOrder
<1>1. BookInit => BookInv /\ StatsOfLevels
  BY BookStarts DEF BookInit, StatsOfLevels
<1>2. BookInv /\ StatsOfLevels /\ [BookNext]_bookVars => (BookInv /\ StatsOfLevels)'
  BY BookStep, StatsStep
<1>3. BookInv /\ StatsOfLevels =>
        \A side \in Sides, quantity \in 1..MaxQuantity : VwapIsBest(side, quantity)
  <2> SUFFICES ASSUME BookInv, StatsOfLevels, NEW side \in Sides, NEW quantity \in 1..MaxQuantity
               PROVE  VwapIsBest(side, quantity)
    OBVIOUS
  <2>1. Opposite(side) \in Sides /\ quantity \in Nat
    BY DEF Opposite, Sides
  <2>2. levels[Opposite(side)] \in Seq(Level) /\ InOrder(Opposite(side), levels[Opposite(side)])
    BY <2>1 DEF BookInv
  <2> DEFINE ls == levels[Opposite(side)]
             v == Vwap(side, quantity)
  <2>3. v = Taking(ls, quantity)[Len(ls)]
    BY DEF Vwap
  <2>4. /\ v.size = IF quantity < TotalSize(ls) THEN quantity ELSE TotalSize(ls)
        /\ \A w \in Ways(ls, v.size) : ~Before(Opposite(side), CostOf(ls, w), v.cost)
    <3> HIDE DEF ls, v
    <3> QED BY <2>1, <2>2, <2>3, FillIsBest DEF ls
  <2>5. ~Crossed => ImpactSign(side, quantity) # (IF side = "BUY" THEN -1 ELSE 1)
    BY <2>1, NoGainOnMid
  <2> QED BY <2>4, <2>5 DEF VwapIsBest
<1>4. BookInv /\ StatsOfLevels => QueriesTrustTheOrder
  BY <1>3, VolumesAreTrue, OnlyCrossedIsInvalid DEF QueriesTrustTheOrder
<1> QED BY <1>1, <1>2, <1>4, PTL DEF BookSpec
=============================================================================
