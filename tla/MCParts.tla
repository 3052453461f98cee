------------------------------ MODULE MCParts ------------------------------
(* The parts of the program that neither call nor wait for each other, for  *)
(* TLC: one run, in which one of them moves and the others stay as they     *)
(* began.                                                                   *)
EXTENDS MarketCache, OrderBookLevels, RateLimiter, DashboardServer

CONSTANTS order, trade, quote

VARIABLE part

MCCapacity == [k \in {order, trade, quote} |-> IF k = trade THEN 2 ELSE 0]

PartsInit ==
  /\ part \in {"cache", "book", "limiter", "dashboard"}
  /\ CacheInit /\ LimiterInit /\ Init
  /\ BookInit /\ (part # "book" => levels = [side \in Sides |-> <<>>])

PartsNext ==
  /\ UNCHANGED part
  /\ \/ part = "cache" /\ CacheNext /\ UNCHANGED <<bookVars, limiterVars, vars>>
     \/ part = "book" /\ BookNext /\ UNCHANGED <<cacheVars, limiterVars, vars>>
     \/ part = "limiter" /\ LimiterNext /\ UNCHANGED <<cacheVars, bookVars, vars>>
     \/ part = "dashboard" /\ Next /\ UNCHANGED <<cacheVars, bookVars, limiterVars>>

PartsSpec ==
  /\ PartsInit /\ [][PartsNext]_<<part, cacheVars, bookVars, limiterVars, vars>>
  /\ Fairness
=============================================================================
