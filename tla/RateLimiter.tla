----------------------------- MODULE RateLimiter -----------------------------
(***************************************************************************)
(* TokenBucketRateLimiter (rate_limiter.cpp): every request to Binance     *)
(* takes a token first, on the thread that makes it.  Tokens are not added *)
(* as time passes but counted when somebody asks, under the mutex; who     *)
(* finds too few sleeps, with the mutex free, and counts again.            *)
(***************************************************************************)
EXTENDS Integers

CONSTANTS
  Requesters,  \* the threads of orders and cancels
  Weights,     \* what consume() is asked for
  Burst,       \* burst_size_
  Rate,        \* refill_rate_, in tokens per unit of time
  MaxClock     \* bound: the time

ASSUME LimiterAssumption ==
  /\ Burst \in Nat /\ Rate \in Nat /\ Weights \subseteq Nat /\ MaxClock \in Nat

VARIABLES
  tokens, last_refill,
  clock,      \* steady_clock::now()
  asleep,     \* the requesters in wait_for(): requester -> weight
  marked,     \* history: some moment...
  spent       \* ...and the tokens given out since

limiterVars == <<tokens, last_refill, clock, asleep, marked, spent>>

LimiterInit ==
  /\ tokens = Burst /\ last_refill = 0 /\ clock = 0
  /\ asleep = [r \in {} |-> 0]
  /\ marked = 0 /\ spent = 0

TimePasses ==
  /\ clock < MaxClock /\ clock' = clock + 1
  /\ UNCHANGED <<tokens, last_refill, asleep, marked, spent>>

Mark ==
  /\ marked' = clock /\ spent' = 0
  /\ UNCHANGED <<tokens, last_refill, clock, asleep>>

-----------------------------------------------------------------------------
\* Mutant: the bucket has no brim.
RefilledOver == tokens + (clock - last_refill) * Rate

(* refill().                                                                *)
Refilled ==
  LET filled == tokens + (clock - last_refill) * Rate
  IN IF filled < Burst THEN filled ELSE Burst

(* One turn of the loop in consume(), with the mutex: the end of the call,  *)
(* or of the turn.                                                          *)
Granted(weight) ==
  /\ Refilled >= weight
  /\ tokens' = Refilled - weight /\ last_refill' = clock
  /\ spent' = spent + weight

Refused(weight) ==
  /\ Refilled < weight
  /\ tokens' = Refilled /\ last_refill' = clock
  /\ UNCHANGED spent

Request(r, weight) ==
  /\ r \notin DOMAIN asleep
  /\ \/ Granted(weight) /\ UNCHANGED asleep
     \/ /\ Refused(weight)
        /\ asleep' = [s \in DOMAIN asleep \cup {r} |-> IF s = r THEN weight ELSE asleep[s]]
  /\ UNCHANGED <<clock, marked>>

(* wait_for() ends when it likes: after the time that was computed, later,  *)
(* or before.                                                               *)
Wake(r) ==
  /\ r \in DOMAIN asleep
  /\ \/ /\ Granted(asleep[r])
        /\ asleep' = [s \in DOMAIN asleep \ {r} |-> asleep[s]]
     \/ Refused(asleep[r]) /\ UNCHANGED asleep
  /\ UNCHANGED <<clock, marked>>

LimiterNext ==
  \/ TimePasses \/ Mark
  \/ \E r \in Requesters : Wake(r) \/ \E weight \in Weights : Request(r, weight)

LimiterSpec == LimiterInit /\ [][LimiterNext]_limiterVars

-----------------------------------------------------------------------------
(* rate_limiter.hpp, "Allows bursting up to `burst_size` tokens, then       *)
(* refills at `tokens_per_minute` rate": from any moment on, whoever asked, *)
(* slept or woke early, no more was given out than a full bucket and what   *)
(* flowed in since.                                                         *)
WithinBudget == spent <= Burst + Rate * (clock - marked)
=============================================================================
