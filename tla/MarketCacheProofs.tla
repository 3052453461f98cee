-------------------------- MODULE MarketCacheProofs --------------------------
(***************************************************************************)
(* NewestIsStored and HistoryIsRecent of MarketCache, for any writers,     *)
(* keys, capacities and timestamps.                                        *)
(*                                                                         *)
(* NewestIsStored says nothing of `latest', which decides what is dropped. *)
(* The invariant adds that a timestamp noted is the newest written         *)
(* (NotedIsNewest), and that what is stored bears the timestamp that is    *)
(* noted (StoredIsNoted): what the second step of an update finds may have *)
(* changed since the first, but then both were written together.           *)
(*                                                                         *)
(* HistoryIsRecent says what can be read of a ring; the invariant says of  *)
(* every slot, counted back from the head, what is in it (HistoryInv).     *)
(***************************************************************************)
EXTENDS MarketCache, SequenceTheorems, FiniteSetTheorems, TLAPS

CacheTypeOK ==
  /\ DOMAIN latest \subseteq Keys
  /\ \A k \in DOMAIN latest : latest[k] \in Timestamps
  /\ DOMAIN stored \subseteq DOMAIN latest
  /\ adding \in [Writers -> SUBSET Pending]
  /\ offered \in [Keys -> Seq(Timestamps)]

NotedIsNewest ==
  \A k \in Keys :
    /\ k \in DOMAIN latest =>
         /\ \E i \in DOMAIN offered[k] : offered[k][i] = latest[k]
         /\ \A i \in DOMAIN offered[k] : offered[k][i] <= latest[k]
    /\ k \notin DOMAIN latest => offered[k] = <<>>

StoredIsNoted ==
  \A k \in Keys :
    /\ k \in DOMAIN stored => stored[k] = latest[k]
    /\ k \in DOMAIN latest \ DOMAIN stored => k \in updates

CacheInv == CacheTypeOK /\ NotedIsNewest /\ StoredIsNoted

-----------------------------------------------------------------------------
(* One more timestamp at the end of what was written to a key.              *)
LEMMA OneMore ==
  ASSUME NEW s \in Seq(Timestamps), NEW ts \in Timestamps
  PROVE  /\ Append(s, ts) \in Seq(Timestamps)
         /\ DOMAIN Append(s, ts) = DOMAIN s \cup {Len(s) + 1}
         /\ \A i \in DOMAIN s : Append(s, ts)[i] = s[i] /\ s[i] \in Timestamps
         /\ Append(s, ts)[Len(s) + 1] = ts
<1>1. /\ Append(s, ts) \in Seq(Timestamps) /\ Len(Append(s, ts)) = Len(s) + 1
      /\ \A i \in 1..Len(s) : Append(s, ts)[i] = s[i]
      /\ Append(s, ts)[Len(s) + 1] = ts
  BY AppendProperties
<1>2. DOMAIN Append(s, ts) = 1..(Len(s) + 1) /\ DOMAIN s = 1..Len(s) /\ Len(s) \in Nat
  BY <1>1, LenProperties
<1>3. \A i \in DOMAIN s : s[i] \in Timestamps
  BY ElementOfSeq, <1>2
<1> QED BY <1>1, <1>2, <1>3

(* A timestamp is written to a key and, if it is not stale, noted: what is  *)
(* noted is still the newest written, of that key and of every other.       *)
LEMMA WriteKeepsNewest ==
  ASSUME CacheTypeOK, NotedIsNewest, NEW k \in Keys, NEW ts \in Timestamps,
         offered' = [offered EXCEPT ![k] = Append(@, ts)],
         \/ Stale(k, ts) /\ latest' = latest
         \/ ~Stale(k, ts) /\ latest' = With(latest, k, ts)
  PROVE  /\ NotedIsNewest'
         /\ DOMAIN latest' \subseteq Keys
         /\ \A j \in DOMAIN latest' : latest'[j] \in Timestamps
         /\ offered' \in [Keys -> Seq(Timestamps)]
<1> DEFINE old == offered[k]
           new == Append(old, ts)
<1>1. old \in Seq(Timestamps)
  BY DEF CacheTypeOK
<1>2. /\ new \in Seq(Timestamps) /\ DOMAIN new = DOMAIN old \cup {Len(old) + 1}
      /\ \A i \in DOMAIN old : new[i] = old[i] /\ old[i] \in Timestamps
      /\ new[Len(old) + 1] = ts
  BY <1>1, OneMore
<1>3. offered' \in [Keys -> Seq(Timestamps)] /\ offered'[k] = new
  BY <1>2 DEF CacheTypeOK
<1>4. \A j \in Keys \ {k} : offered'[j] = offered[j]
  BY DEF CacheTypeOK
<1>5. Timestamps \subseteq Nat
  BY BoundsAssumption DEF Timestamps
<1> HIDE DEF new
<1>6. CASE Stale(k, ts) /\ latest' = latest
  <2>1. k \in DOMAIN latest /\ ts <= latest[k]
    BY <1>6 DEF Stale
  <2>2. /\ \E i \in DOMAIN new : new[i] = latest'[k]
        /\ \A i \in DOMAIN new : new[i] <= latest'[k]
    BY <1>2, <1>6, <2>1 DEF NotedIsNewest
  <2>3. NotedIsNewest'
    BY <1>3, <1>4, <1>6, <2>1, <2>2 DEF NotedIsNewest
  <2> QED BY <1>3, <1>6, <2>3 DEF CacheTypeOK
<1>7. CASE ~Stale(k, ts) /\ latest' = With(latest, k, ts)
  <2>1. /\ DOMAIN latest' = DOMAIN latest \cup {k} /\ latest'[k] = ts
        /\ \A j \in DOMAIN latest \ {k} : latest'[j] = latest[j]
    BY <1>7 DEF With
  <2>2. \A i \in DOMAIN old : old[i] <= ts
    <3>1. CASE k \in DOMAIN latest
      <4>1. latest[k] \in Nat /\ ts \in Nat /\ latest[k] < ts
        <5>1. latest[k] \in Nat /\ ts \in Nat
          BY <1>5, <3>1 DEF CacheTypeOK
        <5>2. ~(ts <= latest[k])
          BY <1>7, <3>1 DEF Stale
        <5> QED BY <5>1, <5>2
      <4>2. \A i \in DOMAIN old : old[i] <= latest[k] /\ old[i] \in Nat
        BY <1>2, <1>5, <3>1 DEF NotedIsNewest
      <4> QED BY <4>1, <4>2
    <3>2. CASE k \notin DOMAIN latest
      <4>1. DOMAIN old = {}
        BY <3>2 DEF NotedIsNewest
      <4> QED BY <4>1
    <3> QED BY <3>1, <3>2
  <2>3. /\ \E i \in DOMAIN new : new[i] = latest'[k]
        /\ \A i \in DOMAIN new : new[i] <= latest'[k]
    BY <1>2, <1>5, <2>1, <2>2
  <2>4. NotedIsNewest'
    BY <1>3, <1>4, <2>1, <2>3 DEF NotedIsNewest
  <2> QED BY <1>3, <2>1, <2>4 DEF CacheTypeOK
<1> QED BY <1>6, <1>7

(* What add_order() and its like do keeps the invariant, whatever update is *)
(* on its way.                                                              *)
LEMMA PutKeeps ==
  ASSUME CacheInv, NEW k \in Keys, NEW ts \in Timestamps, Put(k, ts), Offer(k, ts),
         adding' \in [Writers -> SUBSET Pending], UNCHANGED updates
  PROVE  CacheInv'
<1>1. \/ Stale(k, ts) /\ latest' = latest /\ stored' = stored
      \/ /\ ~Stale(k, ts)
         /\ latest' = With(latest, k, ts) /\ stored' = With(stored, k, ts)
  BY DEF Put
<1>2. /\ NotedIsNewest' /\ DOMAIN latest' \subseteq Keys
      /\ \A j \in DOMAIN latest' : latest'[j] \in Timestamps
      /\ offered' \in [Keys -> Seq(Timestamps)]
  BY <1>1, WriteKeepsNewest DEF CacheInv, Offer
<1>3. DOMAIN stored' \subseteq DOMAIN latest' /\ StoredIsNoted'
  BY <1>1 DEF CacheInv, CacheTypeOK, StoredIsNoted, With
<1> QED BY <1>2, <1>3 DEF CacheInv, CacheTypeOK

-----------------------------------------------------------------------------
(* Every operation keeps the invariant.                                     *)
LEMMA CacheStep == CacheInv /\ [CacheNext]_cacheVars => CacheInv'
<1> SUFFICES ASSUME CacheInv, [CacheNext]_cacheVars PROVE CacheInv'
  OBVIOUS
<1>0. adding \in [Writers -> SUBSET Pending]
  BY DEF CacheInv, CacheTypeOK
<1>1. ASSUME NEW w \in Writers, AddUpdated(w) PROVE CacheInv'
  <2>1. PICK p \in adding[w] : Put(p.key, p.ts) /\ Offer(p.key, p.ts)
    BY <1>1 DEF AddUpdated
  <2>2. p.key \in Keys /\ p.ts \in Timestamps
    BY <1>0, KeysAssumption DEF Pending
  <2>3. adding' \in [Writers -> SUBSET Pending] /\ UNCHANGED updates
    BY <1>0, <1>1 DEF AddUpdated
  <2> QED BY <2>1, <2>2, <2>3, PutKeeps
<1>2. ASSUME NEW w \in Writers, Clear(w) PROVE CacheInv'
  <2>1. /\ latest' = [k \in {} |-> 0] /\ stored' = [k \in {} |-> 0]
        /\ offered' = [k \in Keys |-> <<>>] /\ adding' = adding
    BY <1>2 DEF Clear, Nothing
  <2>2. <<>> \in Seq(Timestamps)
    BY EmptySeq
  <2> QED BY <1>0, <2>1, <2>2 DEF CacheInv, CacheTypeOK, NotedIsNewest, StoredIsNoted
<1>3. ASSUME NEW w \in Writers, NEW k \in Keys, NEW ts \in Timestamps,
             Add(w, k, ts) \/ Update(w, k, ts)
      PROVE  CacheInv'
  <2>1. Put(k, ts) /\ Offer(k, ts) /\ adding' = adding /\ UNCHANGED updates
    BY <1>3 DEF Add, Update
  <2> QED BY <1>0, <2>1, PutKeeps
<1>4. ASSUME NEW w \in Writers, NEW k \in Keys, NEW ts \in Timestamps,
             UpdateUnknown(w, k, ts)
      PROVE  CacheInv'
  <2>1. /\ ~Stale(k, ts) /\ k \notin DOMAIN stored /\ stored' = stored
        /\ latest' = With(latest, k, ts) /\ updates' = updates \cup {k}
    BY <1>4 DEF UpdateUnknown
  <2>2. /\ NotedIsNewest' /\ DOMAIN latest' \subseteq Keys
        /\ \A j \in DOMAIN latest' : latest'[j] \in Timestamps
        /\ offered' \in [Keys -> Seq(Timestamps)]
    BY <1>4, <2>1, WriteKeepsNewest DEF CacheInv, Offer, UpdateUnknown
  <2>3. adding' \in [Writers -> SUBSET Pending]
    <3>1. k \in TwoStep
      BY <1>4 DEF UpdateUnknown
    <3>2. [key |-> k, ts |-> ts] \in Pending
      BY <3>1 DEF Pending
    <3> QED BY <1>0, <1>4, <3>2 DEF UpdateUnknown
  <2>4. DOMAIN stored' \subseteq DOMAIN latest' /\ StoredIsNoted'
    BY <2>1 DEF CacheInv, CacheTypeOK, StoredIsNoted, With
  <2> QED BY <2>2, <2>3, <2>4 DEF CacheInv, CacheTypeOK
<1>5. CASE UNCHANGED cacheVars
  BY <1>5 DEF cacheVars, CacheInv, CacheTypeOK, NotedIsNewest, StoredIsNoted
<1> QED BY <1>1, <1>2, <1>3, <1>4, <1>5 DEF CacheNext

-----------------------------------------------------------------------------
(* The cache starts out with nothing written to it.                         *)
LEMMA CacheStart == CacheInit => CacheInv
<1> SUFFICES ASSUME CacheInit PROVE CacheInv
  OBVIOUS
<1>1. /\ latest = [k \in {} |-> 0] /\ stored = [k \in {} |-> 0]
      /\ offered = [k \in Keys |-> <<>>] /\ adding = [w \in Writers |-> {}]
  BY DEF CacheInit, Nothing
<1>2. <<>> \in Seq(Timestamps)
  BY EmptySeq
<1> QED BY <1>1, <1>2 DEF CacheInv, CacheTypeOK, NotedIsNewest, StoredIsNoted

(* Whoever writes what in any order, a lookup finds the newest of all that  *)
(* was written since the last clear(), or, of an order or position that was *)
(* first written by an update, perhaps nothing.                             *)
THEOREM LookupsFindTheNewest == CacheSpec => []NewestIsStored
<1>1. CacheInv => NewestIsStored
  BY DEF CacheInv, CacheTypeOK, NotedIsNewest, StoredIsNoted, NewestIsStored, Lookup
<1> QED BY <1>1, CacheStart, CacheStep, PTL DEF CacheSpec

-----------------------------------------------------------------------------
(* HistoryIsRecent.  The j-th newest value of a ring of capacity c lies j   *)
(* slots behind the head, around the end of the buffer if need be.          *)
Nth(r, c, j) == r.buffer[IF j <= r.head THEN r.head - j ELSE c + r.head - j]

RingOK(r, c) ==
  r \in [buffer : [0..(c - 1) -> Nat], head : 0..(c - 1), size : 0..c]

(* What a ring keeps of a set of timestamps: from the newest back, as many  *)
(* as there are and as it has room for.                                     *)
Holds(r, c, set) ==
  /\ r.size = Smaller(c, Cardinality(set))
  /\ \A j \in 1..r.size : Nth(r, c, j) \in set
  /\ \A i, j \in 1..r.size : i < j => Nth(r, c, j) < Nth(r, c, i)
  /\ \A ts \in set : \/ \E j \in 1..r.size : Nth(r, c, j) = ts
                     \/ \A j \in 1..r.size : ts < Nth(r, c, j)

HistoryInv ==
  /\ updates \subseteq TwoStep
  /\ ring = [k \in Keys |-> ring[k]]
  /\ \A k \in Keys \ TwoStep :
       /\ k \in DOMAIN latest => latest[k] \in Records(offered[k])
       /\ Capacity[k] > 0 => RingOK(ring[k], Capacity[k])
                             /\ Holds(ring[k], Capacity[k], Records(offered[k]))

(* Once around the ring and no further.                                     *)
LEMMA ModSmall ==
  ASSUME NEW c \in Nat \ {0}, NEW x \in 0..(2 * c - 1)
  PROVE  x % c = IF x < c THEN x ELSE x - c
OBVIOUS

(* The records of a sequence are timestamps, and finitely many.             *)
LEMMA RecordsAreFew ==
  ASSUME NEW s \in Seq(Timestamps)
  PROVE  /\ Records(s) \subseteq Timestamps /\ IsFiniteSet(Records(s))
         /\ Cardinality(Records(s)) \in Nat
         /\ \A ts \in Records(s) : \E i \in DOMAIN s : s[i] = ts
<1>1. \A i \in DOMAIN s : s[i] \in Timestamps
  BY ElementOfSeq, LenProperties
<1>2. Records(s) \subseteq Timestamps /\ \A ts \in Records(s) : \E i \in DOMAIN s : s[i] = ts
  BY <1>1 DEF Records
<1>3. IsFiniteSet(Timestamps)
  BY BoundsAssumption, FS_Interval DEF Timestamps
<1>4. IsFiniteSet(Records(s))
  BY <1>2, <1>3, FS_Subset
<1> QED BY <1>2, <1>4, FS_CardinalityType

(* A timestamp newer than all before it is one more record; another is      *)
(* none.                                                                    *)
LEMMA RecordsOfOneMore ==
  ASSUME NEW s \in Seq(Timestamps), NEW ts \in Timestamps
  PROVE  /\ (\E i \in DOMAIN s : ts <= s[i]) => Records(Append(s, ts)) = Records(s)
         /\ (\A i \in DOMAIN s : s[i] < ts) =>
              Records(Append(s, ts)) = Records(s) \cup {ts} /\ ts \notin Records(s)
<1> DEFINE new == Append(s, ts)
           Rec(q) == {j \in DOMAIN q : \A h \in 1..(j - 1) : q[h] < q[j]}
<1>1. /\ DOMAIN new = DOMAIN s \cup {Len(s) + 1} /\ new[Len(s) + 1] = ts
      /\ \A i \in DOMAIN s : new[i] = s[i] /\ s[i] \in Timestamps
  BY OneMore
<1>2. DOMAIN s = 1..Len(s) /\ Len(s) \in Nat
  BY LenProperties
<1>3. Timestamps \subseteq Nat
  BY BoundsAssumption DEF Timestamps
<1>4. Records(s) = {s[i] : i \in Rec(s)} /\ Records(new) = {new[i] : i \in Rec(new)}
  BY DEF Records
<1> HIDE DEF new
<1>5. \A j \in DOMAIN s : j \in Rec(s) <=> j \in Rec(new)
  BY <1>1, <1>2
<1>6. ASSUME NEW i \in DOMAIN s, ts <= s[i] PROVE Records(new) = Records(s)
  <2>0. ts \in Nat /\ s[i] \in Nat
    BY <1>1, <1>3
  <2>1. ~(s[i] < ts) /\ i \in 1..(Len(s) + 1 - 1)
    BY <1>2, <1>6, <2>0
  <2>2. Len(s) + 1 \notin Rec(new)
    BY <1>1, <2>1
  <2>3. Rec(new) = Rec(s)
    BY <1>1, <1>5, <2>2
  <2> QED BY <1>1, <1>4, <2>3
<1>7. ASSUME \A i \in DOMAIN s : s[i] < ts
      PROVE  Records(new) = Records(s) \cup {ts} /\ ts \notin Records(s)
  <2>1. Len(s) + 1 \in Rec(new)
    BY <1>1, <1>2, <1>7
  <2>2. Rec(new) = Rec(s) \cup {Len(s) + 1}
    BY <1>1, <1>5, <2>1
  <2>3. Records(new) = Records(s) \cup {ts}
    <3>1. \A i \in Rec(s) : new[i] = s[i]
      BY <1>1
    <3> HIDE DEF Rec
    <3> QED BY <1>1, <1>4, <2>2, <3>1
  <2>4. \A i \in DOMAIN s : s[i] # ts
    BY <1>1, <1>3, <1>7
  <2> QED BY <1>4, <2>3, <2>4
<1> QED BY <1>6, <1>7 DEF new

(* A value is pushed: it is the newest, and every other one older by one.   *)
LEMMA PushShifts ==
  ASSUME NEW c \in Nat \ {0}, NEW r, RingOK(r, c), NEW ts \in Nat
  PROVE  /\ RingOK(Push(r, c, ts), c)
         /\ Push(r, c, ts).size = (IF r.size < c THEN r.size + 1 ELSE r.size)
         /\ Nth(Push(r, c, ts), c, 1) = ts
         /\ \A j \in 1..(c - 1) : Nth(Push(r, c, ts), c, j + 1) = Nth(r, c, j)
<1> DEFINE p == Push(r, c, ts)
<1>1. /\ r.buffer \in [0..(c - 1) -> Nat] /\ r.head \in 0..(c - 1) /\ r.size \in 0..c
  BY DEF RingOK
<1>2. p = [buffer |-> [r.buffer EXCEPT ![r.head] = ts], head |-> (r.head + 1) % c,
           size |-> IF r.size < c THEN r.size + 1 ELSE r.size]
  BY DEF Push
<1>3. (r.head + 1) % c = (IF r.head + 1 < c THEN r.head + 1 ELSE 0)
  <2> DEFINE x == r.head + 1
  <2>1. x \in 0..(2 * c - 1) /\ (x < c \/ x = c)
    BY <1>1
  <2>2. \A y \in 0..(2 * c - 1) : y % c = IF y < c THEN y ELSE y - c
    BY ModSmall
  <2> HIDE DEF x
  <2>3. x % c = IF x < c THEN x ELSE x - c
    BY <2>1, <2>2
  <2>4. x % c = IF x < c THEN x ELSE 0
    BY <2>1, <2>3
  <2> QED BY <2>4 DEF x
<1>4. /\ p.buffer = [r.buffer EXCEPT ![r.head] = ts]
      /\ p.head = (IF r.head + 1 < c THEN r.head + 1 ELSE 0)
      /\ p.size = (IF r.size < c THEN r.size + 1 ELSE r.size)
  BY <1>2, <1>3
<1>5. RingOK(p, c)
  <2>1. p.buffer \in [0..(c - 1) -> Nat] /\ p.head \in 0..(c - 1) /\ p.size \in 0..c
    BY <1>1, <1>4
  <2> QED BY <1>2, <2>1 DEF RingOK
<1> HIDE DEF p
<1>6. Nth(p, c, 1) = ts
  <2> DEFINE first == IF 1 <= p.head THEN p.head - 1 ELSE c + p.head - 1
  <2>1. p.head = (IF r.head + 1 < c THEN r.head + 1 ELSE 0) /\ r.head \in 0..(c - 1)
    BY <1>1, <1>4
  <2>2. first = r.head
    BY <2>1
  <2>3. Nth(p, c, 1) = p.buffer[first]
    BY DEF Nth
  <2> HIDE DEF first
  <2> QED BY <1>1, <1>4, <2>2, <2>3
<1>7. ASSUME NEW j \in 1..(c - 1) PROVE Nth(p, c, j + 1) = Nth(r, c, j)
  <2> DEFINE at  == IF j <= r.head THEN r.head - j ELSE c + r.head - j
             now == IF j + 1 <= p.head THEN p.head - (j + 1) ELSE c + p.head - (j + 1)
  <2>1. at = now /\ at # r.head /\ at \in 0..(c - 1)
    <3>1. r.head \in Nat /\ r.head <= c - 1 /\ j \in Nat /\ 1 <= j /\ j <= c - 1
      BY <1>1
    <3>2. p.head = (IF r.head + 1 < c THEN r.head + 1 ELSE 0)
      BY <1>4
    <3>3. CASE r.head + 1 < c
      BY <3>1, <3>2, <3>3
    <3>4. CASE ~(r.head + 1 < c)
      BY <3>1, <3>2, <3>4
    <3> QED BY <3>3, <3>4
  <2>2. Nth(p, c, j + 1) = p.buffer[now] /\ Nth(r, c, j) = r.buffer[at]
    BY DEF Nth
  <2> HIDE DEF at, now
  <2> QED BY <1>1, <1>4, <2>1, <2>2
<1> QED BY <1>4, <1>5, <1>6, <1>7 DEF p

(* What is pushed when it is newer than all of the set, the ring keeps of   *)
(* the set with that one more.                                              *)
LEMMA PushHolds ==
  ASSUME NEW c \in Nat \ {0}, NEW r, RingOK(r, c), NEW set \in SUBSET Nat, IsFiniteSet(set),
         Holds(r, c, set), NEW ts \in Nat, \A t \in set : t < ts
  PROVE  Holds(Push(r, c, ts), c, set \cup {ts})
<1> DEFINE p == Push(r, c, ts)
           all == set \cup {ts}
<1>1. /\ p.size = (IF r.size < c THEN r.size + 1 ELSE r.size)
      /\ Nth(p, c, 1) = ts
      /\ \A j \in 1..(c - 1) : Nth(p, c, j + 1) = Nth(r, c, j)
  BY PushShifts
<1>2. r.size \in 0..c
  BY DEF RingOK
<1>3. /\ r.size = Smaller(c, Cardinality(set))
      /\ \A j \in 1..r.size : Nth(r, c, j) \in set
      /\ \A i, j \in 1..r.size : i < j => Nth(r, c, j) < Nth(r, c, i)
      /\ \A t \in set : \/ \E j \in 1..r.size : Nth(r, c, j) = t
                        \/ \A j \in 1..r.size : t < Nth(r, c, j)
  BY DEF Holds
<1>4. Cardinality(set) \in Nat /\ Cardinality(all) = Cardinality(set) + 1
  <2>1. ts \notin set
    OBVIOUS
  <2> QED BY <2>1, FS_CardinalityType, FS_AddElement
<1> HIDE DEF p
<1>5. \A j \in 1..p.size : j = 1 \/ /\ j - 1 \in 1..r.size /\ j - 1 \in 1..(c - 1)
                                    /\ Nth(p, c, j) = Nth(r, c, j - 1)
  <2> SUFFICES ASSUME NEW j \in 1..p.size, j # 1
               PROVE  /\ j - 1 \in 1..r.size /\ j - 1 \in 1..(c - 1)
                      /\ Nth(p, c, j) = Nth(r, c, j - 1)
    OBVIOUS
  <2>1. j - 1 \in 1..r.size /\ j - 1 \in 1..(c - 1) /\ (j - 1) + 1 = j
    BY <1>1, <1>2
  <2> QED BY <1>1, <2>1
<1>6. p.size = Smaller(c, Cardinality(all))
  BY <1>1, <1>2, <1>3, <1>4 DEF Smaller
<1>7. \A j \in 1..p.size : Nth(p, c, j) \in all
  BY <1>1, <1>3, <1>5
<1>8. ASSUME NEW i \in 1..p.size, NEW j \in 1..p.size, i < j
      PROVE  Nth(p, c, j) < Nth(p, c, i)
  <2>1. j # 1 /\ j - 1 \in 1..r.size /\ Nth(p, c, j) = Nth(r, c, j - 1)
    BY <1>1, <1>2, <1>5, <1>8
  <2>2. CASE i = 1
    BY <1>1, <1>3, <2>1, <2>2
  <2>3. CASE i # 1
    <3>1. i - 1 \in 1..r.size /\ Nth(p, c, i) = Nth(r, c, i - 1)
      BY <1>5, <2>3
    <3>2. i - 1 < j - 1
      BY <1>8, <1>1, <1>2
    <3> QED BY <1>3, <2>1, <3>1, <3>2
  <2> QED BY <2>2, <2>3
<1>9. ASSUME NEW t \in all
      PROVE  \/ \E j \in 1..p.size : Nth(p, c, j) = t
             \/ \A j \in 1..p.size : t < Nth(p, c, j)
  <2>1. CASE t = ts
    <3>1. 1 \in 1..p.size
      BY <1>1, <1>2
    <3> QED BY <1>1, <2>1, <3>1
  <2>2. CASE t \in set /\ \A j \in 1..r.size : t < Nth(r, c, j)
    BY <1>1, <1>5, <2>2
  <2>3. ASSUME t \in set, NEW j \in 1..r.size, Nth(r, c, j) = t
        PROVE  \/ \E i \in 1..p.size : Nth(p, c, i) = t
               \/ \A i \in 1..p.size : t < Nth(p, c, i)
    <3>1. CASE j + 1 \in 1..p.size
      <4>1. j \in 1..(c - 1)
        BY <1>1, <1>2, <3>1
      <4> QED BY <1>1, <2>3, <3>1, <4>1
    <3>2. CASE j + 1 \notin 1..p.size
      <4>1. p.size = r.size /\ j = r.size
        BY <1>1, <1>2, <3>2
      <4>2. ASSUME NEW i \in 1..p.size PROVE t < Nth(p, c, i)
        <5>1. CASE i = 1
          BY <1>1, <2>3, <5>1
        <5>2. CASE i # 1
          <6>1. i - 1 \in 1..r.size /\ i - 1 < j /\ Nth(p, c, i) = Nth(r, c, i - 1)
            BY <1>1, <1>2, <1>5, <4>1, <5>2
          <6> QED BY <1>3, <2>3, <6>1
        <5> QED BY <5>1, <5>2
      <4> QED BY <4>2
    <3> QED BY <3>1, <3>2
  <2> QED BY <1>3, <2>1, <2>2, <2>3
<1>10. Holds(p, c, all)
  BY <1>6, <1>7, <1>8, <1>9 DEF Holds
<1> QED BY <1>10 DEF p

-----------------------------------------------------------------------------
(* recent() finds the j-th newest value where Nth says it is.               *)
LEMMA RecentIsNth ==
  ASSUME NEW k \in Keys, Capacity[k] \in Nat \ {0}, RingOK(ring[k], Capacity[k]),
         NEW n \in Nat
  PROVE  LET m == IF n < ring[k].size THEN n ELSE ring[k].size
         IN  Recent(k, n) = [i \in 1..m |-> Nth(ring[k], Capacity[k], m - i + 1)]
<1> DEFINE r == ring[k]
           c == Capacity[k]
           m == IF n < r.size THEN n ELSE r.size
<1>1. c \in Nat \ {0} /\ r.head \in 0..(c - 1) /\ r.size \in 0..c
  BY DEF RingOK
<1>2. m \in 0..c
  BY <1>1
<1>3. Recent(k, n) = [i \in 1..m |-> r.buffer[(r.head + c - 1 - (m - i)) % c]]
  BY DEF Recent
<1> HIDE DEF r, c, m
<1>4. ASSUME NEW i \in 1..m
      PROVE  r.buffer[(r.head + c - 1 - (m - i)) % c] = Nth(r, c, m - i + 1)
  <2> DEFINE j == m - i + 1
             x == r.head + c - 1 - (m - i)
  <2>1. j \in 1..c /\ x = r.head + c - j
    BY <1>1, <1>2
  <2>2. x \in 0..(2 * c - 1)
    BY <1>1, <2>1
  <2>3. \A y \in 0..(2 * c - 1) : y % c = IF y < c THEN y ELSE y - c
    BY <1>1, ModSmall
  <2>4. x % c = IF x < c THEN x ELSE x - c
    <3> HIDE DEF x
    <3> QED BY <2>2, <2>3
  <2>5. x % c = IF j <= r.head THEN r.head - j ELSE c + r.head - j
    <3> HIDE DEF j
    <3>1. CASE j <= r.head
      <4>1. ~(x < c) /\ x - c = r.head - j
        BY <1>1, <2>1, <3>1
      <4> QED BY <2>4, <3>1, <4>1
    <3>2. CASE ~(j <= r.head)
      <4>1. x < c /\ x = c + r.head - j
        BY <1>1, <2>1, <3>2
      <4> QED BY <2>4, <3>2, <4>1
    <3> QED BY <3>1, <3>2
  <2> HIDE DEF j, x
  <2>6. r.buffer[x % c] = Nth(r, c, j)
    BY <2>5 DEF Nth
  <2> QED BY <2>6 DEF j, x
<1>5. Recent(k, n) = [i \in 1..m |-> Nth(r, c, m - i + 1)]
  BY <1>3, <1>4
<1> QED BY <1>5 DEF r, c, m

(* A ring that holds the newest of a set gives back the last n of it, in    *)
(* the order they came.                                                     *)
LEMMA RecentIsTheLast ==
  ASSUME NEW k \in Keys, Capacity[k] \in Nat \ {0}, RingOK(ring[k], Capacity[k]),
         NEW set, Cardinality(set) \in Nat, Holds(ring[k], Capacity[k], set), NEW n \in Nat
  PROVE  AreTheLast(Recent(k, n), Smaller(n, Capacity[k]), set)
<1> DEFINE r == ring[k]
           c == Capacity[k]
           m == IF n < r.size THEN n ELSE r.size
           q == Recent(k, n)
<1>1. q = [i \in 1..m |-> Nth(r, c, m - i + 1)]
  BY RecentIsNth
<1>2. c \in Nat \ {0} /\ r.size \in 0..c
  BY DEF RingOK
<1>3. /\ r.size = Smaller(c, Cardinality(set))
      /\ \A j \in 1..r.size : Nth(r, c, j) \in set
      /\ \A i, j \in 1..r.size : i < j => Nth(r, c, j) < Nth(r, c, i)
      /\ \A t \in set : \/ \E j \in 1..r.size : Nth(r, c, j) = t
                        \/ \A j \in 1..r.size : t < Nth(r, c, j)
  BY DEF Holds
<1> HIDE DEF r, c
<1>4. m \in Nat /\ m <= r.size /\ m = Smaller(Smaller(n, c), Cardinality(set))
  BY <1>2, <1>3 DEF Smaller
<1> HIDE DEF m, q
<1>5. Len(q) = m
  BY <1>1, <1>4
<1>6. \A i \in 1..m : m - i + 1 \in 1..r.size /\ q[i] = Nth(r, c, m - i + 1)
  BY <1>1, <1>2, <1>4
<1>7. \A i \in 1..m : q[i] \in set
  BY <1>3, <1>6
<1>8. ASSUME NEW i \in 1..m, NEW j \in 1..m, i < j PROVE q[i] < q[j]
  <2>1. m - j + 1 < m - i + 1
    BY <1>4, <1>8
  <2> QED BY <1>3, <1>6, <2>1
<1>9. ASSUME NEW t \in set
      PROVE  (\E i \in 1..m : q[i] = t) \/ \A i \in 1..m : t < q[i]
  <2>1. CASE \A j \in 1..r.size : t < Nth(r, c, j)
    BY <1>6, <2>1
  <2>2. ASSUME NEW j \in 1..r.size, Nth(r, c, j) = t
        PROVE  (\E i \in 1..m : q[i] = t) \/ \A i \in 1..m : t < q[i]
    <3>1. CASE j <= m
      <4>1. m - j + 1 \in 1..m /\ m - (m - j + 1) + 1 = j
        BY <1>4, <3>1
      <4> QED BY <1>6, <2>2, <4>1
    <3>2. CASE ~(j <= m)
      <4>1. ASSUME NEW i \in 1..m PROVE t < q[i]
        <5>1. m - i + 1 < j
          BY <1>2, <1>4, <3>2
        <5> QED BY <1>3, <1>6, <2>2, <5>1
      <4> QED BY <4>1
    <3> QED BY <3>1, <3>2
  <2> QED BY <1>3, <2>1, <2>2
<1>10. AreTheLast(q, Smaller(n, c), set)
  BY <1>4, <1>5, <1>7, <1>8, <1>9 DEF AreTheLast
<1> QED BY <1>10 DEF q, c

(* A new ring holds nothing of nothing.                                     *)
LEMMA NewRingIsEmpty ==
  ASSUME NEW k \in Keys, Capacity[k] > 0
  PROVE  RingOK(NoRings[k], Capacity[k]) /\ Holds(NoRings[k], Capacity[k], Records(<<>>))
<1> DEFINE c == Capacity[k]
           r == NoRings[k]
<1>1. c \in Nat \ {0}
  BY KeysAssumption
<1>2. r = [buffer |-> [i \in 0..(c - 1) |-> 0], head |-> 0, size |-> 0]
  BY DEF NoRings, NewRing
<1>3. RingOK(r, c)
  BY <1>1, <1>2 DEF RingOK
<1>4. Records(<<>>) = {} /\ Cardinality({}) = 0
  BY FS_EmptySet DEF Records
<1>5. r.size = 0 /\ Smaller(c, 0) = 0
  BY <1>1, <1>2 DEF Smaller
<1> HIDE DEF r, c
<1>6. Holds(r, c, {})
  BY <1>4, <1>5 DEF Holds
<1> QED BY <1>3, <1>4, <1>6 DEF r, c

(* What a key holds, once more written to it: of a key without two-step     *)
(* updates, the ring still holds the newest.                                *)
LEMMA PutKeepsHistory ==
  ASSUME CacheInv, HistoryInv, NEW k \in Keys, NEW ts \in Timestamps, Put(k, ts), Offer(k, ts),
         UNCHANGED updates
  PROVE  HistoryInv'
<1> DEFINE log == offered[k]
           c   == Capacity[k]
<1>1. log \in Seq(Timestamps) /\ Timestamps \subseteq Nat /\ c \in Nat
  BY BoundsAssumption, KeysAssumption DEF CacheInv, CacheTypeOK, Timestamps
<1>2. \A j \in Keys \ {k} : offered'[j] = offered[j]
  BY DEF Offer, CacheInv, CacheTypeOK
<1>3. offered'[k] = Append(log, ts)
  BY DEF Offer, CacheInv, CacheTypeOK
<1>4. CASE Stale(k, ts) /\ UNCHANGED <<latest, ring>>
  <2>1. \E i \in DOMAIN log : ts <= log[i]
    BY <1>4 DEF Stale, CacheInv, NotedIsNewest
  <2>2. Records(offered'[k]) = Records(log)
    BY <1>1, <1>3, <2>1, RecordsOfOneMore
  <2> QED BY <1>2, <1>4, <2>2 DEF HistoryInv
<1>5. CASE /\ ~Stale(k, ts) /\ latest' = With(latest, k, ts)
           /\ ring' = [ring EXCEPT ![k] = Push(@, Capacity[k], ts)]
  <2>1. /\ latest'[k] = ts /\ DOMAIN latest' = DOMAIN latest \cup {k}
        /\ \A j \in DOMAIN latest \ {k} : latest'[j] = latest[j]
    BY <1>5 DEF With
  <2>2. /\ ring' = [j \in Keys |-> ring'[j]]
        /\ ring'[k] = Push(ring[k], c, ts)
        /\ \A j \in Keys \ {k} : ring'[j] = ring[j]
    BY <1>5 DEF HistoryInv
  <2>3. \A i \in DOMAIN log : log[i] < ts
    <3>1. \A i \in DOMAIN log : log[i] \in Timestamps
      BY <1>1, OneMore
    <3>2. ASSUME NEW i \in DOMAIN log PROVE log[i] < ts
      <4>1. k \in DOMAIN latest /\ log[i] <= latest[k]
        BY DEF CacheInv, NotedIsNewest
      <4>2. latest[k] \in Nat /\ ts \in Nat /\ log[i] \in Nat /\ ~(ts <= latest[k])
        BY <1>1, <1>5, <3>1, <4>1 DEF Stale, CacheInv, CacheTypeOK
      <4> QED BY <4>1, <4>2
    <3> QED BY <3>2
  <2>4. Records(offered'[k]) = Records(log) \cup {ts}
    BY <1>1, <1>3, <2>3, RecordsOfOneMore
  <2>5. ASSUME k \notin TwoStep, c > 0
        PROVE  RingOK(ring'[k], c) /\ Holds(ring'[k], c, Records(offered'[k]))
    <3>1. RingOK(ring[k], c) /\ Holds(ring[k], c, Records(log))
      BY <2>5 DEF HistoryInv
    <3>2. /\ Records(log) \in SUBSET Nat /\ IsFiniteSet(Records(log))
          /\ \A t \in Records(log) : t < ts
      BY <1>1, <2>3, RecordsAreFew
    <3>3. c \in Nat \ {0} /\ ts \in Nat
      BY <1>1, <2>5
    <3> HIDE DEF c, log
    <3>4. Holds(Push(ring[k], c, ts), c, Records(log) \cup {ts})
      BY <3>1, <3>2, <3>3, PushHolds
    <3>5. RingOK(Push(ring[k], c, ts), c)
      BY <3>1, <3>3, PushShifts
    <3> QED BY <2>2, <2>4, <3>4, <3>5
  <2> QED BY <1>2, <2>1, <2>2, <2>4, <2>5 DEF HistoryInv
<1> QED BY <1>4, <1>5 DEF Put

(* Every operation keeps what the rings hold.                               *)
LEMMA HistoryStep == CacheInv /\ HistoryInv /\ [CacheNext]_cacheVars => HistoryInv'
<1> SUFFICES ASSUME CacheInv, HistoryInv, [CacheNext]_cacheVars PROVE HistoryInv'
  OBVIOUS
<1>1. ASSUME NEW w \in Writers, AddUpdated(w) PROVE HistoryInv'
  <2>1. PICK p \in adding[w] : Put(p.key, p.ts) /\ Offer(p.key, p.ts)
    BY <1>1 DEF AddUpdated
  <2>2. p.key \in Keys /\ p.ts \in Timestamps /\ UNCHANGED updates
    BY <1>1, KeysAssumption DEF Pending, CacheInv, CacheTypeOK, AddUpdated
  <2> QED BY <2>1, <2>2, PutKeepsHistory
<1>2. ASSUME NEW w \in Writers, Clear(w) PROVE HistoryInv'
  <2>1. /\ ring' = NoRings /\ offered' = [k \in Keys |-> <<>>] /\ updates' = {}
        /\ DOMAIN latest' = {}
    BY <1>2 DEF Clear, Nothing
  <2>2. NoRings = [k \in Keys |-> NoRings[k]]
    BY DEF NoRings
  <2> QED BY <2>1, <2>2, NewRingIsEmpty DEF HistoryInv
<1>3. ASSUME NEW w \in Writers, NEW k \in Keys, NEW ts \in Timestamps,
             Add(w, k, ts) \/ Update(w, k, ts)
      PROVE  HistoryInv'
  BY <1>3, PutKeepsHistory DEF Add, Update
<1>4. ASSUME NEW w \in Writers, NEW k \in Keys, NEW ts \in Timestamps,
             UpdateUnknown(w, k, ts)
      PROVE  HistoryInv'
  <2>1. /\ k \in TwoStep /\ updates' = updates \cup {k} /\ UNCHANGED ring
        /\ latest' = With(latest, k, ts)
        /\ offered' = [offered EXCEPT ![k] = Append(@, ts)]
    BY <1>4 DEF UpdateUnknown, Offer
  <2>2. \A j \in Keys \ TwoStep :
           /\ offered'[j] = offered[j]
           /\ j \in DOMAIN latest' <=> j \in DOMAIN latest
           /\ j \in DOMAIN latest => latest'[j] = latest[j]
    BY <2>1 DEF With, CacheInv, CacheTypeOK
  <2> QED BY <2>1, <2>2 DEF HistoryInv
<1>5. CASE UNCHANGED cacheVars
  BY <1>5 DEF cacheVars, HistoryInv
<1> QED BY <1>1, <1>2, <1>3, <1>4, <1>5 DEF CacheNext

(* However much is written, by whom and in whatever order, the histories    *)
(* return the last of what was new, in order, as far as they go; and that   *)
(* of quotes, which has none, the last.                                     *)
THEOREM HistoriesAreRecent == CacheSpec => []HistoryIsRecent
<1>1. CacheInit => CacheInv /\ HistoryInv
  <2> SUFFICES ASSUME CacheInit PROVE CacheInv /\ HistoryInv
    OBVIOUS
  <2>1. CacheInv
    BY CacheStart
  <2>2. /\ ring = NoRings /\ offered = [k \in Keys |-> <<>>] /\ updates = {}
        /\ DOMAIN latest = {}
    BY DEF CacheInit, Nothing
  <2>3. NoRings = [k \in Keys |-> NoRings[k]]
    BY DEF NoRings
  <2>4. HistoryInv
    BY <2>2, <2>3, NewRingIsEmpty DEF HistoryInv
  <2> QED BY <2>1, <2>4
<1>2. CacheInv /\ HistoryInv => HistoryIsRecent
  <2> SUFFICES ASSUME CacheInv, HistoryInv, NEW k \in Keys \ TwoStep,
                      NEW n \in 0..(Capacity[k] + 1)
               PROVE  IF Capacity[k] > 0
                      THEN AreTheLast(Recent(k, n), Smaller(n, Capacity[k]), Records(offered[k]))
                      ELSE AreTheLast(RecentQuotes(k, n), Smaller(n, 1), Records(offered[k]))
    BY DEF HistoryIsRecent
  <2> DEFINE R == Records(offered[k])
  <2>1. Capacity[k] \in Nat /\ n \in Nat
    BY KeysAssumption
  <2>2. offered[k] \in Seq(Timestamps)
    BY DEF CacheInv, CacheTypeOK
  <2>3. /\ R \subseteq Timestamps /\ IsFiniteSet(R) /\ Cardinality(R) \in Nat
        /\ \A ts \in R : \E i \in DOMAIN offered[k] : offered[k][i] = ts
    BY <2>2, RecordsAreFew
  <2> HIDE DEF R
  <2>4. CASE Capacity[k] > 0
    <3>1. RingOK(ring[k], Capacity[k]) /\ Holds(ring[k], Capacity[k], R)
      BY <2>4 DEF HistoryInv, R
    <3>2. AreTheLast(Recent(k, n), Smaller(n, Capacity[k]), R)
      BY <2>1, <2>3, <2>4, <3>1, RecentIsTheLast
    <3> QED BY <2>4, <3>2 DEF R
  <2>5. CASE ~(Capacity[k] > 0) /\ k \notin DOMAIN stored
    <3>1. offered[k] = <<>>
      BY <2>5 DEF CacheInv, NotedIsNewest, StoredIsNoted, HistoryInv
    <3>2. R = {}
      BY <2>3, <3>1
    <3>3. Cardinality(R) = 0
      BY <3>2, FS_EmptySet
    <3>4. RecentQuotes(k, n) = <<>> /\ Smaller(Smaller(n, 1), Cardinality(R)) = 0
      BY <2>1, <2>5, <3>3 DEF RecentQuotes, Smaller
    <3>5. AreTheLast(RecentQuotes(k, n), Smaller(n, 1), R)
      BY <3>2, <3>4 DEF AreTheLast
    <3> QED BY <2>5, <3>5 DEF R
  <2>6. CASE ~(Capacity[k] > 0) /\ k \in DOMAIN stored
    <3>1. stored[k] \in R /\ \A ts \in R : ts <= stored[k]
      BY <2>3, <2>6 DEF CacheInv, CacheTypeOK, NotedIsNewest, StoredIsNoted, HistoryInv, R
    <3>2. Cardinality(R) \in Nat \ {0}
      BY <2>3, <3>1, FS_EmptySet
    <3>3. R \subseteq Nat
      BY <2>3, BoundsAssumption DEF Timestamps
    <3> DEFINE q    == RecentQuotes(k, n)
               size == Cardinality(R)
    <3> SUFFICES AreTheLast(q, Smaller(n, 1), R)
      BY <2>6 DEF R
    <3> HIDE DEF size
    <3>4. CASE n = 0
      <4>1. Smaller(n, 1) = 0 /\ Smaller(0, size) = 0
        BY <3>2, <3>4 DEF Smaller, size
      <4>2. q = <<>> /\ Len(q) = 0
        BY <3>4 DEF RecentQuotes
      <4> HIDE DEF q
      <4> QED BY <4>1, <4>2 DEF AreTheLast, size
    <3>5. CASE n # 0
      <4>1. Smaller(n, 1) = 1 /\ Smaller(1, size) = 1
        BY <2>1, <3>2, <3>5 DEF Smaller, size
      <4>2. q = <<stored[k]>>
        BY <2>6, <3>5 DEF RecentQuotes
      <4>3. Len(q) = 1 /\ q[1] = stored[k]
        BY <4>2
      <4>4. \A ts \in R : q[1] = ts \/ ts < q[1]
        <5> DEFINE last == stored[k]
        <5>1. last \in Nat /\ \A ts \in R : ts \in Nat /\ ts <= last
          BY <3>1, <3>3
        <5> HIDE DEF last
        <5>2. \A ts \in R : last = ts \/ ts < last
          BY <5>1
        <5> QED BY <4>3, <5>2 DEF last
      <4> HIDE DEF q
      <4> QED BY <3>1, <4>1, <4>3, <4>4 DEF AreTheLast, size
    <3> QED BY <3>4, <3>5
  <2> QED BY <2>4, <2>5, <2>6
<1> QED BY <1>1, <1>2, CacheStep, HistoryStep, PTL DEF CacheSpec
=============================================================================
