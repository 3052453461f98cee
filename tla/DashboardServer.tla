--------------------------- MODULE DashboardServer ---------------------------
(***************************************************************************)
(* DashboardServer (dashboard_server.cpp): the sessions that watch the     *)
(* program over a WebSocket.  Three threads touch a session: the io thread *)
(* runs its handlers one after another, the broadcast thread sends to all  *)
(* sessions once a second, and the main thread closes them in stop().  The *)
(* list of sessions has a mutex; a session's queue of messages and its     *)
(* writing_ have none.  Messages are only counted: what they say is the    *)
(* counters of the moment.  The queue's push() and pop() touch two ends of *)
(* a deque and are taken to be atomic.  The program does not survive pop() *)
(* of nothing, nor a peer that breaks off while a file is written to it.   *)
(***************************************************************************)
EXTENDS Naturals, FiniteSets

CONSTANTS
  Sessions,  \* the WsSession objects the run may create
  MaxQueue   \* bound: the server waits for a peer that is that far behind

ASSUME QueueAssumption == MaxQueue \in Nat \ {0}

VARIABLES
  running,     \* running_
  registered,  \* ws_sessions_
  fresh,       \* sessions still to come
  open,        \* the sessions with open_ set
  handshake,   \* those whose async_accept() is under way
  reading,     \* those with an async_read() under way
  queue,       \* write_queue_, counted
  writing,     \* those with writing_ set
  writes,      \* per session: the async_write()s under way
  mutex,       \* sessions_mutex_: who holds it
  at, of,      \* where the io and the broadcast thread are, and in which session
  todo,        \* the sessions a broadcast has still to come to
  main,        \* where the main thread is in stop()
  closing,     \* the sessions it has still to close
  greeting,    \* history: the session whose on_accept() is under way
  overtaken,   \* history: a broadcast came before the end of the handshake
  raced,       \* history: a broadcast came during on_accept()
  crashed      \* history: the program has ended by itself

sessionVars == <<open, handshake, reading, queue, writing, writes>>
listVars    == <<registered, fresh, overtaken>>
stopVars    == <<running, main, closing>>
histVars    == <<greeting, raced, crashed>>
vars == <<sessionVars, listVars, stopVars, histVars, mutex, at, of, todo>>

Threads == {"io", "cast"}

(* start() has returned: both threads run.                                  *)
Init ==
  /\ running = TRUE /\ registered = {} /\ fresh = Sessions /\ overtaken = {}
  /\ open = {} /\ handshake = {} /\ reading = {}
  /\ queue = [s \in Sessions |-> 0] /\ writing = {} /\ writes = [s \in Sessions |-> 0]
  /\ mutex = "free" /\ todo = {}
  /\ at = [t \in Threads |-> "rest"] /\ of = [t \in Threads |-> {}]
  /\ main = "out" /\ closing = {} /\ greeting = {} /\ raced = {} /\ crashed = FALSE

(* A session lives as long as a handler of it is to come.                   *)
Alive(s) == s \in handshake \cup reading \cup of["io"] \/ writes[s] > 0

Go(t, place)    == at' = [at EXCEPT ![t] = place] /\ UNCHANGED of
Enter(t, p, s)  == at' = [at EXCEPT ![t] = p] /\ of' = [of EXCEPT ![t] = {s}]

-----------------------------------------------------------------------------
(* send() and do_write(), on the io thread or on the broadcast thread, with *)
(* a step between any two places where the other may come in.               *)

(* Back into the broadcast's loop, or out of the handler.                   *)
Done(t) ==
  /\ at' = [at EXCEPT ![t] = IF t = "io" THEN "rest" ELSE "turn"]
  /\ of' = [of EXCEPT ![t] = {}]
  /\ greeting' = IF t = "io" THEN {} ELSE greeting

PushMessage(t, s) ==
  /\ at[t] = "push" /\ of[t] = {s}
  /\ \/ s \in open /\ queue' = [queue EXCEPT ![s] = @ + 1] /\ Go(t, "test")
        /\ UNCHANGED greeting
     \/ s \notin open /\ Done(t) /\ UNCHANGED queue
  /\ UNCHANGED <<open, handshake, reading, writing, writes, listVars, stopVars, raced,
                 crashed, mutex, todo>>

TestWriting(t, s) ==
  /\ at[t] = "test" /\ of[t] = {s}
  /\ IF s \in writing THEN Done(t) ELSE Go(t, "empty") /\ UNCHANGED greeting
  /\ UNCHANGED <<sessionVars, listVars, stopVars, raced, crashed, mutex, todo>>

TestEmpty(t, s) ==
  /\ at[t] = "empty" /\ of[t] = {s}
  /\ Go(t, IF queue[s] = 0 THEN "clear" ELSE "start")
  /\ UNCHANGED <<sessionVars, listVars, stopVars, histVars, mutex, todo>>

\* Mutant: the end of the queue leaves writing_ set.
ClearWritingForgotten(t, s) ==
  /\ at[t] = "clear" /\ of[t] = {s} /\ Done(t)
  /\ UNCHANGED <<sessionVars, listVars, stopVars, raced, crashed, mutex, todo>>

ClearWriting(t, s) ==
  /\ at[t] = "clear" /\ of[t] = {s} /\ Done(t)
  /\ writing' = writing \ {s}
  /\ UNCHANGED <<open, handshake, reading, queue, writes, listVars, stopVars, raced,
                 crashed, mutex, todo>>

\* Mutant: writing_ is never set.
StartWriteUnmarked(t, s) ==
  /\ at[t] = "start" /\ of[t] = {s} /\ Done(t)
  /\ writes' = [writes EXCEPT ![s] = @ + 1]
  /\ UNCHANGED <<open, handshake, reading, queue, writing, listVars, stopVars, raced,
                 crashed, mutex, todo>>

StartWrite(t, s) ==
  /\ at[t] = "start" /\ of[t] = {s} /\ Done(t)
  /\ writing' = writing \cup {s} /\ writes' = [writes EXCEPT ![s] = @ + 1]
  /\ UNCHANGED <<open, handshake, reading, queue, listVars, stopVars, raced, crashed,
                 mutex, todo>>

SendStep(t) ==
  \E s \in Sessions :
    PushMessage(t, s) \/ TestWriting(t, s) \/ TestEmpty(t, s) \/ ClearWriting(t, s)
    \/ StartWrite(t, s)

-----------------------------------------------------------------------------
(* The io thread: one handler at a time, none any more once it was stopped. *)

IoFree == at["io"] = "rest" /\ main # "join"

(* handle_request() of an upgrade: a session, which has to wait for the     *)
(* list; of a file: written to the socket by the handler itself.            *)
UpgradeAsked(s) ==
  /\ IoFree /\ s \in fresh /\ fresh' = fresh \ {s} /\ Enter("io", "list", s)
  /\ UNCHANGED <<sessionVars, registered, overtaken, stopVars, histVars, mutex, todo>>

Register(s) ==
  /\ at["io"] = "list" /\ of["io"] = {s} /\ mutex = "free"
  /\ registered' = registered \cup {s} /\ handshake' = handshake \cup {s}
  /\ Done("io")
  /\ UNCHANGED <<open, reading, queue, writing, writes, fresh, overtaken, stopVars, raced,
                 crashed, mutex, todo>>

ServeFile ==
  /\ IoFree /\ Go("io", "file")
  /\ UNCHANGED <<sessionVars, listVars, stopVars, histVars, mutex, todo>>

FileServed ==
  /\ at["io"] = "file" /\ Done("io")
  /\ UNCHANGED <<sessionVars, listVars, stopVars, raced, crashed, mutex, todo>>

(* serve_file() has five http::write(), none with an error_code: when the   *)
(* peer breaks off they throw, and nothing above ioc_.run() catches it.     *)
FileWriteThrows ==
  /\ at["io"] = "file" /\ crashed' = TRUE
  /\ UNCHANGED <<sessionVars, listVars, stopVars, greeting, raced, mutex, at, of, todo>>

(* WsSession::on_accept(): the read it begins after send() is noted here,   *)
(* no handler of it can run before.                                         *)
Accepted(s) ==
  /\ IoFree /\ s \in handshake /\ handshake' = handshake \ {s}
  /\ open' = open \cup {s} /\ reading' = reading \cup {s}
  /\ Enter("io", "push", s) /\ greeting' = {s}
  /\ UNCHANGED <<queue, writing, writes, listVars, stopVars, raced, crashed, mutex, todo>>

HandshakeFails(s) ==
  /\ IoFree /\ s \in handshake /\ handshake' = handshake \ {s}
  /\ UNCHANGED <<open, reading, queue, writing, writes, listVars, stopVars, histVars, mutex,
                 at, of, todo>>

ReadFails(s) ==
  /\ IoFree /\ s \in reading
  /\ reading' = reading \ {s} /\ open' = open \ {s}
  /\ UNCHANGED <<handshake, queue, writing, writes, listVars, stopVars, histVars, mutex,
                 at, of, todo>>

(* The end of an async_write(), and the next one or the end of writing.     *)
Written(s) ==
  /\ IoFree /\ writes[s] > 0 /\ queue[s] > 0
  /\ writes' = [writes EXCEPT ![s] = @ - 1] /\ queue' = [queue EXCEPT ![s] = @ - 1]
  /\ Enter("io", "empty", s)
  /\ UNCHANGED <<open, handshake, reading, writing, listVars, stopVars, histVars, mutex,
                 todo>>

(* writing_ stays set: a session that failed writes no more.                *)
WriteFails(s) ==
  /\ IoFree /\ writes[s] > 0 /\ queue[s] > 0
  /\ writes' = [writes EXCEPT ![s] = @ - 1] /\ queue' = [queue EXCEPT ![s] = @ - 1]
  /\ open' = open \ {s}
  /\ UNCHANGED <<handshake, reading, writing, listVars, stopVars, histVars, mutex, at, of,
                 todo>>

PopsNothing(s) ==
  /\ IoFree /\ writes[s] > 0 /\ queue[s] = 0 /\ crashed' = TRUE
  /\ UNCHANGED <<sessionVars, listVars, stopVars, greeting, raced, mutex, at, of, todo>>

IoStops ==
  /\ at["io"] = "rest" /\ main = "join" /\ Go("io", "off")
  /\ UNCHANGED <<sessionVars, listVars, stopVars, histVars, mutex, todo>>

-----------------------------------------------------------------------------
(* The broadcast thread.  It sleeps a second between two broadcasts; that   *)
(* the io thread or a peer stays behind for long is left out.               *)

Behind(s) ==
  \/ queue[s] >= MaxQueue /\ (writes[s] > 0 \/ s \in of["io"])
  \/ queue[s] > MaxQueue + 1

\* Mutant: the thread does not look at running_ again.
CastWakesBlind ==
  /\ at["cast"] = "rest"
  /\ ~\E s \in Sessions : Behind(s)
  /\ Go("cast", "awake")
  /\ UNCHANGED <<sessionVars, listVars, stopVars, histVars, mutex, todo>>

CastWakes ==
  /\ at["cast"] = "rest"
  /\ running => ~\E s \in Sessions : Behind(s)
  /\ Go("cast", IF running THEN "awake" ELSE "off")
  /\ UNCHANGED <<sessionVars, listVars, stopVars, histVars, mutex, todo>>

CastBegins ==
  /\ at["cast"] = "awake" /\ mutex = "free"
  /\ mutex' = "cast" /\ todo' = registered /\ Go("cast", "turn")
  /\ UNCHANGED <<sessionVars, listVars, stopVars, histVars>>

\* Mutant: erase() in both branches.
CastVisitsErasing(s) ==
  /\ at["cast"] = "turn" /\ s \in todo /\ todo' = todo \ {s}
  /\ IF Alive(s) /\ s \in open
     THEN /\ Enter("cast", "push", s)
          /\ raced' = raced \cup (greeting \cap {s})
          /\ registered' = registered \ {s}
          /\ UNCHANGED <<fresh, overtaken>>
     ELSE /\ registered' = registered \ {s}
          /\ overtaken' = overtaken \cup (handshake \cap {s})
          /\ UNCHANGED <<fresh, at, of, raced>>
  /\ UNCHANGED <<sessionVars, stopVars, greeting, crashed, mutex>>

CastVisits(s) ==
  /\ at["cast"] = "turn" /\ s \in todo /\ todo' = todo \ {s}
  /\ IF Alive(s) /\ s \in open
     THEN /\ Enter("cast", "push", s)
          /\ raced' = raced \cup (greeting \cap {s})
          /\ UNCHANGED listVars
     ELSE /\ registered' = registered \ {s}
          /\ overtaken' = overtaken \cup (handshake \cap {s})
          /\ UNCHANGED <<fresh, at, of, raced>>
  /\ UNCHANGED <<sessionVars, stopVars, greeting, crashed, mutex>>

CastEnds ==
  /\ at["cast"] = "turn" /\ todo = {} /\ mutex' = "free" /\ Go("cast", "rest")
  /\ UNCHANGED <<sessionVars, listVars, stopVars, histVars, todo>>

-----------------------------------------------------------------------------
(* stop(), on the main thread.  The close of a session waits for the peer   *)
(* with the list locked.                                                    *)

StopCalled ==
  /\ main = "out" /\ running /\ main' = "lock" /\ running' = FALSE
  /\ UNCHANGED <<sessionVars, listVars, histVars, closing, mutex, at, of, todo>>

StopLocks ==
  /\ main = "lock" /\ mutex = "free" /\ main' = "close"
  /\ mutex' = "main" /\ closing' = registered
  /\ UNCHANGED <<sessionVars, listVars, histVars, running, at, of, todo>>

CloseSkips(s) ==
  /\ main = "close" /\ s \in closing /\ ~(Alive(s) /\ s \in open)
  /\ closing' = closing \ {s}
  /\ UNCHANGED <<sessionVars, listVars, histVars, running, main, mutex, at, of, todo>>

CloseBegins(s) ==
  /\ main = "close" /\ s \in closing /\ Alive(s) /\ s \in open
  /\ open' = open \ {s} /\ closing' = closing \ {s} /\ main' = "wait"
  /\ UNCHANGED <<handshake, reading, queue, writing, writes, listVars, histVars, running,
                 mutex, at, of, todo>>

CloseReturns ==
  /\ main = "wait" /\ main' = "close"
  /\ UNCHANGED <<sessionVars, listVars, histVars, running, closing, mutex, at, of, todo>>

StopUnlocks ==
  /\ main = "close" /\ closing = {} /\ main' = "unlocked"
  /\ registered' = {} /\ mutex' = "free"
  /\ UNCHANGED <<sessionVars, fresh, overtaken, histVars, running, closing, at, of, todo>>

StopIo ==
  /\ main = "unlocked" /\ main' = "join"
  /\ UNCHANGED <<sessionVars, listVars, histVars, running, closing, mutex, at, of, todo>>

Joined ==
  /\ main = "join" /\ \A t \in Threads : at[t] = "off"
  /\ main' = "stopped"
  /\ UNCHANGED <<sessionVars, listVars, histVars, running, closing, mutex, at, of, todo>>

-----------------------------------------------------------------------------
IoStep ==
  \/ SendStep("io") \/ FileServed \/ IoStops
  \/ \E s \in Sessions : Register(s)

CastStep ==
  \/ SendStep("cast") \/ CastWakes \/ CastBegins \/ CastEnds
  \/ \E s \in Sessions : CastVisits(s)

StopStep ==
  \/ StopLocks \/ CloseReturns \/ StopUnlocks \/ StopIo \/ Joined
  \/ \E s \in Sessions : CloseSkips(s) \/ CloseBegins(s)

(* What others bring about.                                                 *)
Peer(s) == Written(s) \/ WriteFails(s)

PeerStep ==
  \/ ServeFile \/ FileWriteThrows
  \/ \E s \in Sessions :
       UpgradeAsked(s) \/ Accepted(s) \/ HandshakeFails(s) \/ ReadFails(s) \/ Peer(s)
       \/ PopsNothing(s)

Next == ~crashed /\ (IoStep \/ CastStep \/ StopCalled \/ StopStep \/ PeerStep)

(* The threads go on; a peer reads, and answers a close, or its connection  *)
(* breaks.                                                                  *)
Fairness ==
  /\ WF_vars(~crashed /\ IoStep) /\ WF_vars(~crashed /\ CastStep)
  /\ WF_vars(~crashed /\ StopStep)
  /\ \A s \in Sessions : SF_vars(~crashed /\ Peer(s))

Spec     == Init /\ [][Next]_vars
FairSpec == Spec /\ Fairness

-----------------------------------------------------------------------------
(* WsSession::send() and do_write() have no lock: outside of the moment in  *)
(* which a broadcast meets on_accept(), two threads that send to a session  *)
(* never have two writes under way, and what is being written is still in   *)
(* the queue.                                                               *)
OneWriteAtATime ==
  \A s \in Sessions \ raced : writes[s] <= 1 /\ writes[s] <= queue[s]

(* dashboard_server.hpp, "Streams metrics updates in real-time": a session  *)
(* that is open is one the broadcasts reach, unless one came before the end *)
(* of its handshake and took it for dead, or the server is stopping.        *)
OpenIsRegistered == running => open \subseteq registered \cup overtaken

(* A message pushed while do_write() was about to clear writing_ is left in *)
(* the queue with nobody writing: a later broadcast takes it along.         *)
QueuedIsWritten ==
  \A s \in Sessions :
    (queue[s] > 0 /\ writes[s] = 0)
      ~> (writes[s] > 0 \/ s \notin open \/ s \in overtaken \/ ~running \/ crashed)

(* stop() holds the list while it waits for peers and joins two threads     *)
(* that want the list: it comes back, unless the program ends before.       *)
ServerStopReturns == main = "lock" ~> (main = "stopped" \/ crashed)
=============================================================================
