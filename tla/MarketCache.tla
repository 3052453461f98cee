----------------------------- MODULE MarketCache -----------------------------
(***************************************************************************)
(* Cache (cache.hpp, cache.cpp): what the program knows, by key, with the  *)
(* timestamp of the newest of each, and the ring buffers of recent trades, *)
(* bars and books.  Its eight stores differ only in what a key is, in      *)
(* whether they keep a history, and in having an update() of two steps     *)
(* (orders and positions).  A datum is its timestamp: of two that have the *)
(* same, the cache keeps the first and drops the other.                    *)
(***************************************************************************)
EXTENDS Integers, Sequences, FiniteSets

LOCAL INSTANCE Functions

CONSTANTS
  Writers,      \* threads that write
  Keys,         \* orders, instruments, bar types...
  TwoStep,      \* the keys of orders and positions
  Capacity,     \* per key: CacheConfig's capacity of its history, 0 for none
  MaxOffers,    \* bound: what is written between two clear()
  MaxTimestamp  \* bound: timestamps

ASSUME KeysAssumption == TwoStep \subseteq Keys /\ Capacity \in [Keys -> Nat]
ASSUME BoundsAssumption == MaxOffers \in Nat /\ MaxTimestamp \in Nat \ {0}

VARIABLES
  latest,   \* latest_order_ts_ and its like
  stored,   \* orders_, trade_ticks_...
  ring,     \* trade_history_ and its like: RingBuffer
  adding,   \* per thread: an update_order() that has unlocked, on its way to add_order()
  offered,  \* history: what was written to each key since the last clear()
  updates   \* history: the keys written to by an update before anything was stored

cacheVars == <<latest, stored, ring, adding, offered, updates>>

Timestamps == 1..MaxTimestamp
Pending    == [key : TwoStep, ts : Timestamps]

NewRing(cap) == [buffer |-> [i \in 0..(cap - 1) |-> 0], head |-> 0, size |-> 0]
NoRings      == [k \in Keys |-> NewRing(Capacity[k])]
Nothing      == [k \in {} |-> 0]

CacheInit ==
  /\ latest = Nothing /\ stored = Nothing /\ ring = NoRings
  /\ adding = [w \in Writers |-> {}]
  /\ offered = [k \in Keys |-> <<>>] /\ updates = {}

-----------------------------------------------------------------------------
(* RingBuffer: overwrites the oldest when it is full.                       *)

\* Mutant: the head goes round one slot late.
PushLate(r, cap, value) ==
  IF cap = 0 THEN r
  ELSE [buffer |-> [r.buffer EXCEPT ![r.head % cap] = value],
        head   |-> (r.head + 1) % (cap + 1),
        size   |-> IF r.size < cap THEN r.size + 1 ELSE r.size]

Push(r, cap, value) ==
  IF cap = 0 THEN r
  ELSE [buffer |-> [r.buffer EXCEPT ![r.head] = value],
        head   |-> (r.head + 1) % cap,
        size   |-> IF r.size < cap THEN r.size + 1 ELSE r.size]

(* recent(): back from the head, then reversed.                             *)
Recent(k, n) ==
  LET r == ring[k]
      m == IF n < r.size THEN n ELSE r.size
  IN [i \in 1..m |-> r.buffer[(r.head + Capacity[k] - 1 - (m - i)) % Capacity[k]]]

(* recent_quotes(): no history is kept of quotes.                           *)
RecentQuotes(k, n) == IF n = 0 \/ k \notin DOMAIN stored THEN <<>> ELSE <<stored[k]>>

(* quote_tick(), bar(), order() and so on: what was found, if anything.     *)
Lookup(k) == IF k \in DOMAIN stored THEN {stored[k]} ELSE {}

-----------------------------------------------------------------------------
(* The writers.  Each holds mutex_ from the first line of an operation to   *)
(* its return, but for an update of what is not there.                      *)

With(map, k, v) == [j \in DOMAIN map \cup {k} |-> IF j = k THEN v ELSE map[j]]

Stale(k, ts) == k \in DOMAIN latest /\ ts <= latest[k]

Idle(w) == adding[w] = {}

Room == FoldFunction(LAMBDA log, n : Len(log) + n, 0, offered) < MaxOffers

Offer(k, ts) == offered' = [offered EXCEPT ![k] = Append(@, ts)]

(* What add_order(), add_position(), add_quote_tick() and so on do.         *)
Put(k, ts) ==
  IF Stale(k, ts) THEN UNCHANGED <<latest, stored, ring>>
  ELSE /\ latest' = With(latest, k, ts) /\ stored' = With(stored, k, ts)
       /\ ring' = [ring EXCEPT ![k] = Push(@, Capacity[k], ts)]

Add(w, k, ts) ==
  /\ Idle(w) /\ Room
  /\ Put(k, ts) /\ Offer(k, ts)
  /\ UNCHANGED <<adding, updates>>

(* update_order(), update_position() of what is there, or of what is stale. *)
Update(w, k, ts) ==
  /\ Idle(w) /\ k \in TwoStep /\ Room
  /\ Stale(k, ts) \/ k \in DOMAIN stored
  /\ Put(k, ts) /\ Offer(k, ts)
  /\ UNCHANGED <<adding, updates>>

(* The timestamp is noted, the lock given back; then add_order() is called. *)
UpdateUnknown(w, k, ts) ==
  /\ Idle(w) /\ k \in TwoStep /\ Room
  /\ ~Stale(k, ts) /\ k \notin DOMAIN stored
  /\ latest' = With(latest, k, ts)
  /\ adding' = [adding EXCEPT ![w] = {[key |-> k, ts |-> ts]}]
  /\ updates' = updates \cup {k} /\ Offer(k, ts)
  /\ UNCHANGED <<stored, ring>>

AddUpdated(w) ==
  /\ \E p \in adding[w] : Put(p.key, p.ts) /\ Offer(p.key, p.ts)
  /\ adding' = [adding EXCEPT ![w] = {}]
  /\ UNCHANGED updates

\* Mutant: the timestamps outlive what they belong to.
ClearData(w) ==
  /\ Idle(w) /\ stored' = Nothing /\ ring' = NoRings
  /\ offered' = [k \in Keys |-> <<>>] /\ updates' = {}
  /\ UNCHANGED <<adding, latest>>

Clear(w) ==
  /\ Idle(w) /\ latest' = Nothing /\ stored' = Nothing /\ ring' = NoRings
  /\ offered' = [k \in Keys |-> <<>>] /\ updates' = {}
  /\ UNCHANGED adding

CacheNext ==
  \E w \in Writers :
    \/ AddUpdated(w) \/ Clear(w)
    \/ \E k \in Keys, ts \in Timestamps :
         Add(w, k, ts) \/ Update(w, k, ts) \/ UpdateUnknown(w, k, ts)

CacheSpec == CacheInit /\ [][CacheNext]_cacheVars

-----------------------------------------------------------------------------
(* What is worth keeping of a sequence of timestamps: those that are newer  *)
(* than everything before them.                                             *)
Records(s) == {s[i] : i \in {j \in DOMAIN s : \A h \in 1..(j - 1) : s[h] < s[j]}}

Smaller(m, n) == IF m < n THEN m ELSE n

(* The last n of a set of timestamps, in order.                             *)
AreTheLast(r, n, set) ==
  /\ Len(r) = Smaller(n, Cardinality(set))
  /\ \A i \in 1..Len(r) : r[i] \in set
  /\ \A i, j \in 1..Len(r) : i < j => r[i] < r[j]
  /\ \A ts \in set : (\E i \in 1..Len(r) : r[i] = ts) \/ \A i \in 1..Len(r) : ts < r[i]

(* cache.hpp, "up to n, chronological": however much was written and        *)
(* whatever was stale, recent_trades(), recent_bars() and                   *)
(* recent_order_books() return the last n of what was new, as far as the    *)
(* capacity goes, the ring at its limit and cleared included; and           *)
(* recent_quotes() the last.                                                *)
HistoryIsRecent ==
  \A k \in Keys \ TwoStep : \A n \in 0..(Capacity[k] + 1) :
    IF Capacity[k] > 0
    THEN AreTheLast(Recent(k, n), Smaller(n, Capacity[k]), Records(offered[k]))
    ELSE AreTheLast(RecentQuotes(k, n), Smaller(n, 1), Records(offered[k]))

(* is_stale_and_update() and the two halves of update_order(): what a       *)
(* lookup finds is the newest of all that was written since the last        *)
(* clear(), by any thread and in any order.  An order or position whose     *)
(* first write was an update may be missing, never outdated.                *)
NewestIsStored ==
  \A k \in Keys :
    /\ \A ts \in Lookup(k) :
         /\ \E i \in DOMAIN offered[k] : offered[k][i] = ts
         /\ \A i \in DOMAIN offered[k] : offered[k][i] <= ts
    /\ offered[k] # <<>> /\ Lookup(k) = {} => k \in updates
=============================================================================
