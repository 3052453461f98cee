------------------------------ MODULE DepthBook ------------------------------
(***************************************************************************)
(* The local order book of one instrument in the Binance data client       *)
(* (binance_data_client.cpp): a snapshot, fetched by a thread of its own   *)
(* for every subscription, and the depth events of the stream, which the   *)
(* client's thread applies to it.  The exchange numbers its changes; the   *)
(* levels of a book are abstracted to the set of changes they reflect; a   *)
(* book is `torn' when a snapshot broke off while it replaced the levels.  *)
(***************************************************************************)
EXTENDS Naturals, Sequences

CONSTANTS
  MaxUpdates,       \* bound: changes of the book at the exchange
  MaxSubscriptions  \* bound: how often the book is subscribed to

ASSUME LimitsAssumption == MaxUpdates \in Nat /\ MaxSubscriptions \in Nat

Threads == 1..MaxSubscriptions

VARIABLES
  running,     \* the client's running_
  disconnecting,
  subscribed,  \* book_subs_ and order_books_ have the instrument
  book,        \* its LocalOrderBook
  snapshots,   \* per snapshot thread: "none", "asked", "got", "done" or "failed"
  version,     \* and the lastUpdateId it was answered with
  connected,   \* the stream carries the depth events of the instrument
  wire,        \* the events on their way, oldest first
  sent, exchange,  \* the last change sent on this connection, the last of all
  missed       \* history: changes the book did not get or lost again

bookVars   == <<subscribed, book, missed>>
threadVars == <<snapshots, version>>
streamVars == <<connected, wire, sent>>
vars == <<running, disconnecting, bookVars, threadVars, streamVars, exchange>>

NewBook == [initialized |-> FALSE, last_update_id |-> 0, has |-> {}, torn |-> FALSE]

Init ==
  /\ running = FALSE /\ disconnecting = FALSE
  /\ subscribed = FALSE /\ book = NewBook /\ missed = {}
  /\ snapshots = [k \in Threads |-> "none"] /\ version = [k \in Threads |-> 0]
  /\ connected = FALSE /\ wire = <<>> /\ sent = 0 /\ exchange = 0

-----------------------------------------------------------------------------
(* The exchange: changes, depth events that gather those since the last     *)
(* event of the connection, answers to a request for a snapshot.            *)

ExchangeChanges ==
  /\ exchange < MaxUpdates /\ exchange' = exchange + 1
  /\ UNCHANGED <<running, disconnecting, bookVars, threadVars, streamVars>>

ExchangeSends ==
  /\ connected /\ sent < exchange
  /\ wire' = Append(wire, [first |-> sent + 1, final |-> exchange])
  /\ sent' = exchange
  /\ UNCHANGED <<running, disconnecting, bookVars, threadVars, connected, exchange>>

ExchangeAnswers(k) ==
  /\ snapshots[k] = "asked"
  /\ snapshots' = [snapshots EXCEPT ![k] = "got"]
  /\ version' = [version EXCEPT ![k] = exchange]
  /\ UNCHANGED <<running, disconnecting, bookVars, streamVars, exchange>>

-----------------------------------------------------------------------------
(* The program, through the data engine.                                    *)

Subscribe(k) ==
  /\ ~disconnecting /\ ~subscribed
  /\ snapshots[k] = "none" /\ \A j \in 1..(k - 1) : snapshots[j] # "none"
  /\ subscribed' = TRUE /\ book' = NewBook
  /\ snapshots' = [snapshots EXCEPT ![k] = "asked"]
  /\ UNCHANGED <<running, disconnecting, missed, version, streamVars, exchange>>

Unsubscribe ==
  /\ ~disconnecting /\ subscribed
  /\ subscribed' = FALSE /\ book' = NewBook /\ missed' = missed \cup book.has
  /\ UNCHANGED <<running, disconnecting, threadVars, streamVars, exchange>>

Connect ==
  /\ ~running /\ ~disconnecting /\ running' = TRUE
  /\ UNCHANGED <<disconnecting, bookVars, threadVars, streamVars, exchange>>

Disconnect ==
  /\ running /\ running' = FALSE /\ disconnecting' = TRUE
  /\ UNCHANGED <<bookVars, threadVars, streamVars, exchange>>

(* The client's thread and those of the snapshots are joined first.         *)
Joined ==
  /\ disconnecting /\ ~connected
  /\ \A k \in Threads : snapshots[k] \in {"none", "done", "failed"}
  /\ disconnecting' = FALSE
  /\ subscribed' = FALSE /\ book' = NewBook /\ missed' = missed \cup book.has
  /\ UNCHANGED <<running, threadVars, streamVars, exchange>>

-----------------------------------------------------------------------------
(* The snapshot threads: schedule_book_snapshot().                          *)

\* Mutants: the old levels stay; initialized is not set; disconnect() joins
\* the thread with sub_mutex_ held.
SnapshotOverlays(k) ==
  /\ snapshots[k] = "got" /\ snapshots' = [snapshots EXCEPT ![k] = "done"]
  /\ book' = IF ~subscribed THEN book
             ELSE [initialized |-> TRUE, last_update_id |-> version[k],
                   has |-> book.has \cup 1..version[k], torn |-> FALSE]
  /\ UNCHANGED <<running, disconnecting, subscribed, missed, version, streamVars,
                 exchange>>

SnapshotUnflagged(k) ==
  /\ snapshots[k] = "got" /\ snapshots' = [snapshots EXCEPT ![k] = "done"]
  /\ book' = IF ~subscribed THEN book
             ELSE [book EXCEPT !.last_update_id = version[k], !.has = 1..version[k],
                               !.torn = FALSE]
  /\ UNCHANGED <<running, disconnecting, subscribed, missed, version, streamVars,
                 exchange>>

SnapshotBlocked(k) ==
  /\ snapshots[k] = "got" /\ ~disconnecting
  /\ snapshots' = [snapshots EXCEPT ![k] = "done"]
  /\ book' = IF ~subscribed THEN book
             ELSE [initialized |-> TRUE, last_update_id |-> version[k],
                   has |-> 1..version[k], torn |-> FALSE]
  /\ missed' = missed \cup (book.has \ 1..version[k])
  /\ UNCHANGED <<running, disconnecting, subscribed, version, streamVars, exchange>>

(* Whichever subscription it was asked for, the snapshot replaces the book  *)
(* there is now.                                                            *)
SnapshotArrives(k) ==
  /\ snapshots[k] = "got" /\ snapshots' = [snapshots EXCEPT ![k] = "done"]
  /\ \/ /\ subscribed
        /\ book' = [initialized |-> TRUE, last_update_id |-> version[k],
                    has |-> 1..version[k], torn |-> FALSE]
        /\ missed' = missed \cup (book.has \ 1..version[k])
     \/ ~subscribed /\ UNCHANGED <<book, missed>>
  /\ UNCHANGED <<running, disconnecting, subscribed, version, streamVars, exchange>>

(* An answer that is no snapshot, or none: nobody asks again.               *)
SnapshotFails(k) ==
  /\ snapshots[k] \in {"asked", "got"}
  /\ snapshots' = [snapshots EXCEPT ![k] = "failed"]
  /\ UNCHANGED <<running, disconnecting, bookVars, version, streamVars, exchange>>

(* A level that is none, behind others that were: the levels of before are  *)
(* gone, some of the new ones are there, and what the book says of itself   *)
(* is as it was.                                                            *)
SnapshotBreaksOff(k) ==
  /\ snapshots[k] = "got" /\ subscribed
  /\ snapshots' = [snapshots EXCEPT ![k] = "failed"]
  /\ \E part \in SUBSET (1..version[k]) :
       /\ book' = [book EXCEPT !.has = part, !.torn = TRUE]
       /\ missed' = missed \cup (book.has \ part)
  /\ UNCHANGED <<running, disconnecting, subscribed, version, streamVars, exchange>>

-----------------------------------------------------------------------------
(* The client's thread: run_ws_connection() and process_depth_update().     *)

StreamUp ==
  /\ running /\ subscribed /\ ~connected
  /\ connected' = TRUE /\ wire' = <<>> /\ sent' = exchange
  /\ missed' = missed \cup (1..exchange \ book.has)
  /\ UNCHANGED <<running, disconnecting, subscribed, book, threadVars, exchange>>

(* An error, a change of subscriptions, or running_ no longer set.          *)
StreamDown ==
  /\ connected /\ connected' = FALSE /\ wire' = <<>>
  /\ UNCHANGED <<running, disconnecting, bookVars, threadVars, sent, exchange>>

\* Mutant: an event is too old when it begins at or before the last change.
TooOldAtFirst(event) == event.first <= book.last_update_id

TooOld(event) == event.final <= book.last_update_id

ProcessDepthUpdate ==
  /\ connected /\ wire # <<>> /\ wire' = Tail(wire)
  /\ LET event   == Head(wire)
         changes == event.first..event.final
     IN \/ /\ subscribed /\ book.initialized /\ ~TooOld(event)
           /\ book' = [book EXCEPT !.last_update_id = event.final,
                                   !.has = @ \cup changes]
           /\ UNCHANGED missed
        \/ /\ subscribed /\ book.initialized /\ TooOld(event)
           /\ UNCHANGED <<book, missed>>
        \/ /\ ~(subscribed /\ book.initialized)
           /\ missed' = missed \cup changes /\ UNCHANGED book
  /\ UNCHANGED <<running, disconnecting, subscribed, threadVars, connected, sent, exchange>>

-----------------------------------------------------------------------------
SnapshotStep(k) == ExchangeAnswers(k) \/ SnapshotArrives(k)

Next ==
  \/ ExchangeChanges \/ ExchangeSends
  \/ Unsubscribe \/ Connect \/ Disconnect \/ Joined
  \/ \E k \in Threads :
       Subscribe(k) \/ SnapshotStep(k) \/ SnapshotFails(k) \/ SnapshotBreaksOff(k)
  \/ StreamUp \/ StreamDown \/ ProcessDepthUpdate

(* Threads go on, requests are answered, and the stream ends when running_  *)
(* is no longer set.                                                        *)
Fairness ==
  /\ WF_vars(Joined) /\ WF_vars(~running /\ StreamDown)
  /\ \A k \in Threads : WF_vars(SnapshotStep(k))

Spec     == Init /\ [][Next]_vars
FairSpec == Spec /\ Fairness

-----------------------------------------------------------------------------
(* last_update_id decides which events are too old, so no level may be      *)
(* newer than it says, even when the snapshot of an earlier subscription    *)
(* replaces a book that was further on.  Only a snapshot that broke off     *)
(* leaves new levels under the old number.                                  *)
NothingAhead == book.torn \/ book.has \subseteq 1..book.last_update_id

(* Three things make an initialized book incomplete: changes of the time    *)
(* before its snapshot, changes between two connections, and a snapshot     *)
(* that was older than the book or broke off.  Applying the events of a     *)
(* connection adds no gap.                                                  *)
GapsExplained ==
  book.initialized => 1..book.last_update_id \subseteq book.has \cup missed

(* A book that stays subscribed is initialized, unless a snapshot failed.   *)
BookIsInitialized ==
  subscribed ~> (~subscribed \/ book.initialized
                 \/ \E k \in Threads : snapshots[k] = "failed")

(* disconnect() comes back although it joins every snapshot thread.         *)
DepthDisconnectReturns == disconnecting ~> ~disconnecting
=============================================================================
