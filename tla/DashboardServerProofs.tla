------------------------ MODULE DashboardServerProofs ------------------------
(***************************************************************************)
(* Theorems about DashboardServer, for any number of sessions.             *)
(*                                                                         *)
(* OneWriteAtATime needs to know who may write next.  At any moment at     *)
(* most one of three is busy with a session's queue: the io thread, the    *)
(* broadcast thread, or a write under way (OneWriter).  writing_ is what   *)
(* keeps the broadcast out; it is up whenever a write is under way or the  *)
(* io thread is between two, but not yet while on_accept() sends the       *)
(* greeting (Greeted), which is why `raced' sessions are left out.         *)
(***************************************************************************)
EXTENDS DashboardServer, TLAPS

Places == {"rest", "list", "file", "push", "test", "empty", "clear", "start",
           "awake", "turn", "off"}
Busy   == {"empty", "clear", "start"}

On(t, s) == of[t] = {s}

ThreadsOK ==
  /\ at \in [Threads -> Places] /\ of \in [Threads -> SUBSET Sessions]
  /\ \A t \in Threads : at[t] \in {"rest", "file", "awake", "turn", "off"} => of[t] = {}
  /\ queue \in [Sessions -> Nat] /\ writes \in [Sessions -> Nat]

(* Nothing has happened to a session whose handshake has not ended.         *)
Unborn(s) == s \in fresh \/ s \in handshake \/ (On("io", s) /\ at["io"] = "list")
UnbornIsQuiet(s) ==
  /\ s \in fresh => s \notin handshake /\ ~On("io", s)
  /\ Unborn(s) =>
       /\ s \notin open /\ s \notin writing /\ writes[s] = 0 /\ queue[s] = 0
       /\ ~On("cast", s) /\ (On("io", s) => at["io"] = "list")

(* While on_accept() sends the first message, nobody else is there.         *)
Greeted(s) ==
  s \in greeting =>
    /\ On("io", s) /\ at["io"] \in {"push", "test", "empty", "start"}
    /\ at["io"] # "push" => queue[s] > 0
    /\ s \notin raced => ~On("cast", s) /\ writes[s] = 0 /\ s \notin writing

OneWriter(s) ==
  s \notin greeting =>
    /\ writes[s] <= 1
    /\ writes[s] = 1 => /\ s \in writing /\ queue[s] > 0 /\ ~On("io", s)
                        /\ On("cast", s) => at["cast"] \in {"push", "test"}
    /\ On("io", s) => at["io"] \in {"list"} \cup Busy
    /\ On("io", s) /\ at["io"] \in Busy =>
         /\ writes[s] = 0 /\ s \in writing
         /\ at["io"] = "start" => queue[s] > 0
         /\ On("cast", s) => at["cast"] \in {"push", "test"}
    /\ On("cast", s) => at["cast"] \in {"push", "test"} \cup Busy
    /\ On("cast", s) /\ at["cast"] \in Busy =>
         /\ writes[s] = 0 /\ s \notin writing /\ ~On("io", s)
         /\ at["cast"] = "start" => queue[s] > 0

SessionOK(s) == UnbornIsQuiet(s) /\ Greeted(s) /\ (s \notin raced => OneWriter(s))

ServerInv == ThreadsOK /\ \A s \in Sessions : SessionOK(s)

-----------------------------------------------------------------------------
(* The program counters, and the sessions the threads are in.               *)
LEMMA ThreadsStep == ThreadsOK /\ [Next]_vars => ThreadsOK'
<1> SUFFICES ASSUME ThreadsOK, [Next]_vars PROVE ThreadsOK'
  OBVIOUS
<1> USE DEF ThreadsOK, Threads, Places, sessionVars, histVars, listVars, stopVars,
            Enter, Go, Done
<1>1. ASSUME NEW t \in Threads, NEW s \in Sessions, PushMessage(t, s) PROVE ThreadsOK'
  BY <1>1 DEF PushMessage
<1>2. ASSUME NEW t \in Threads, NEW s \in Sessions, TestWriting(t, s) PROVE ThreadsOK'
  BY <1>2 DEF TestWriting
<1>3. ASSUME NEW t \in Threads, NEW s \in Sessions, TestEmpty(t, s) PROVE ThreadsOK'
  BY <1>3 DEF TestEmpty
<1>4. ASSUME NEW t \in Threads, NEW s \in Sessions, ClearWriting(t, s) PROVE ThreadsOK'
  BY <1>4 DEF ClearWriting
<1>5. ASSUME NEW t \in Threads, NEW s \in Sessions, StartWrite(t, s) PROVE ThreadsOK'
  BY <1>5 DEF StartWrite
<1>6. ASSUME NEW s \in Sessions, UpgradeAsked(s) \/ Register(s) \/ Accepted(s)
      PROVE  ThreadsOK'
  BY <1>6 DEF UpgradeAsked, Register, Accepted, IoFree
<1>7. ASSUME NEW s \in Sessions, HandshakeFails(s) \/ ReadFails(s) \/ PopsNothing(s)
      PROVE  ThreadsOK'
  BY <1>7 DEF HandshakeFails, ReadFails, PopsNothing
<1>8. ASSUME NEW s \in Sessions, Written(s) \/ WriteFails(s) PROVE ThreadsOK'
  BY <1>8 DEF Written, WriteFails, IoFree
<1>9. CASE ServeFile \/ FileServed \/ FileWriteThrows \/ IoStops
  BY <1>9 DEF ServeFile, FileServed, FileWriteThrows, IoStops, IoFree
<1>10. CASE CastWakes \/ CastBegins \/ CastEnds
  BY <1>10 DEF CastWakes, CastBegins, CastEnds
<1>11. ASSUME NEW s \in Sessions, CastVisits(s) PROVE ThreadsOK'
  BY <1>11 DEF CastVisits
<1>12. CASE StopCalled \/ StopStep
  BY <1>12 DEF StopCalled, StopStep, StopLocks, CloseSkips, CloseBegins, CloseReturns,
               StopUnlocks, StopIo, Joined
<1>13. CASE UNCHANGED vars
  BY <1>13 DEF vars
<1> QED
  BY <1>1, <1>2, <1>3, <1>4, <1>5, <1>6, <1>7, <1>8, <1>9, <1>10, <1>11, <1>12, <1>13
  DEF Next, IoStep, CastStep, PeerStep, SendStep, Peer

-----------------------------------------------------------------------------
(* What one step does to one session, whichever session the step is about. *)
LEMMA SessionStep ==
  ASSUME ThreadsOK, NEW s \in Sessions, SessionOK(s), [Next]_vars
  PROVE  SessionOK(s)'
<1> USE DEF ThreadsOK, Threads, Places, sessionVars, histVars, listVars, stopVars,
            Enter, Go, Done, SessionOK, UnbornIsQuiet, Greeted, OneWriter, Unborn, Busy, On
<1>1. ASSUME NEW t \in Threads, NEW r \in Sessions, PushMessage(t, r) PROVE SessionOK(s)'
  <2>1. CASE r = s /\ t = "io"
    <3>1. CASE s \in open
      BY <3>1, <2>1, <1>1 DEF PushMessage
    <3>2. CASE s \notin open
      BY <3>2, <2>1, <1>1 DEF PushMessage
    <3> QED BY <3>1, <3>2
  <2>2. CASE r = s /\ t = "cast"
    <3>1. CASE s \in open
      BY <3>1, <2>2, <1>1 DEF PushMessage
    <3>2. CASE s \notin open
      BY <3>2, <2>2, <1>1 DEF PushMessage
    <3> QED BY <3>1, <3>2
  <2>3. CASE r # s /\ t = "io"
    BY <2>3, <1>1 DEF PushMessage
  <2>4. CASE r # s /\ t = "cast"
    BY <2>4, <1>1 DEF PushMessage
  <2> QED BY <2>1, <2>2, <2>3, <2>4
<1>2. ASSUME NEW t \in Threads, NEW r \in Sessions, TestWriting(t, r) PROVE SessionOK(s)'
  <2>1. CASE r = s /\ t = "io"
    BY <2>1, <1>2 DEF TestWriting
  <2>2. CASE r = s /\ t = "cast"
    BY <2>2, <1>2 DEF TestWriting
  <2>3. CASE r # s
    BY <2>3, <1>2 DEF TestWriting
  <2> QED BY <2>1, <2>2, <2>3
<1>3. ASSUME NEW t \in Threads, NEW r \in Sessions, TestEmpty(t, r) PROVE SessionOK(s)'
  <2>1. CASE r = s /\ t = "io"
    BY <2>1, <1>3 DEF TestEmpty
  <2>2. CASE r = s /\ t = "cast"
    BY <2>2, <1>3 DEF TestEmpty
  <2>3. CASE r # s
    BY <2>3, <1>3 DEF TestEmpty
  <2> QED BY <2>1, <2>2, <2>3
<1>4. ASSUME NEW t \in Threads, NEW r \in Sessions, ClearWriting(t, r) PROVE SessionOK(s)'
  <2>1. CASE r = s /\ t = "io"
    BY <2>1, <1>4 DEF ClearWriting
  <2>2. CASE r = s /\ t = "cast"
    BY <2>2, <1>4 DEF ClearWriting
  <2>3. CASE r # s
    BY <2>3, <1>4 DEF ClearWriting
  <2> QED BY <2>1, <2>2, <2>3
<1>5. ASSUME NEW t \in Threads, NEW r \in Sessions, StartWrite(t, r) PROVE SessionOK(s)'
  <2>1. CASE r = s /\ t = "io"
    BY <2>1, <1>5 DEF StartWrite
  <2>2. CASE r = s /\ t = "cast"
    BY <2>2, <1>5 DEF StartWrite
  <2>3. CASE r # s
    BY <2>3, <1>5 DEF StartWrite
  <2> QED BY <2>1, <2>2, <2>3
<1>6. ASSUME NEW r \in Sessions, UpgradeAsked(r) PROVE SessionOK(s)'
  BY <1>6 DEF UpgradeAsked, IoFree
<1>7. ASSUME NEW r \in Sessions, Register(r) PROVE SessionOK(s)'
  BY <1>7 DEF Register
<1>8. ASSUME NEW r \in Sessions, Accepted(r) PROVE SessionOK(s)'
  <2>1. /\ (of["io"] = {} /\ greeting = {}) \/ s \notin greeting
        /\ at' = [at EXCEPT !["io"] = "push"] /\ of' = [of EXCEPT !["io"] = {r}]
    BY <1>8 DEF Accepted, IoFree
  <2>2. CASE r = s
    BY <2>1, <2>2, <1>8 DEF Accepted
  <2>3. CASE r # s
    BY <2>1, <2>3, <1>8 DEF Accepted
  <2> QED BY <2>2, <2>3
<1>9. ASSUME NEW r \in Sessions, HandshakeFails(r) \/ ReadFails(r) \/ PopsNothing(r)
      PROVE  SessionOK(s)'
  BY <1>9 DEF HandshakeFails, ReadFails, PopsNothing
<1>10. ASSUME NEW r \in Sessions, Written(r) PROVE SessionOK(s)'
  <2>1. CASE r = s
    BY <2>1, <1>10 DEF Written, IoFree
  <2>2. CASE r # s
    BY <2>2, <1>10 DEF Written, IoFree
  <2> QED BY <2>1, <2>2
<1>11. ASSUME NEW r \in Sessions, WriteFails(r) PROVE SessionOK(s)'
  BY <1>11 DEF WriteFails, IoFree
<1>12. CASE ServeFile \/ FileServed \/ FileWriteThrows \/ IoStops
  BY <1>12 DEF ServeFile, FileServed, FileWriteThrows, IoStops, IoFree
<1>13. CASE CastWakes \/ CastBegins \/ CastEnds
  BY <1>13 DEF CastWakes, CastBegins, CastEnds
<1>14. ASSUME NEW r \in Sessions, CastVisits(r) PROVE SessionOK(s)'
  BY <1>14 DEF CastVisits
<1>15. CASE StopCalled \/ StopStep
  BY <1>15 DEF StopCalled, StopStep, StopLocks, CloseSkips, CloseBegins, CloseReturns,
               StopUnlocks, StopIo, Joined
<1>16. CASE UNCHANGED vars
  BY <1>16 DEF vars
<1> QED
  BY <1>1, <1>2, <1>3, <1>4, <1>5, <1>6, <1>7, <1>8, <1>9, <1>10, <1>11, <1>12, <1>13,
     <1>14, <1>15, <1>16
  DEF Next, IoStep, CastStep, PeerStep, SendStep, Peer

-----------------------------------------------------------------------------
(* Outside of the moment in which a broadcast meets on_accept(), a session  *)
(* never has two async_write()s under way, and what is being written is     *)
(* still in the queue: writing_ is enough where send() has no lock.         *)
THEOREM OneWriteAtATimeHolds == Spec => []OneWriteAtATime
<1>1. Init => ServerInv
  BY DEF Init, ServerInv, ThreadsOK, Threads, Places, SessionOK, UnbornIsQuiet, Unborn,
         Greeted, OneWriter, Busy, On
<1>2. ServerInv /\ [Next]_vars => ServerInv'
  <2> SUFFICES ASSUME ServerInv, [Next]_vars PROVE ServerInv'
    OBVIOUS
  <2>1. ThreadsOK'
    BY ThreadsStep DEF ServerInv
  <2>2. ASSUME NEW s \in Sessions PROVE SessionOK(s)'
    BY SessionStep DEF ServerInv
  <2> QED BY <2>1, <2>2 DEF ServerInv
<1>3. ServerInv => OneWriteAtATime
  <2> SUFFICES ASSUME ServerInv, NEW s \in Sessions \ raced
               PROVE  writes[s] <= 1 /\ writes[s] <= queue[s]
    BY DEF OneWriteAtATime
  <2>1. writes[s] \in Nat /\ queue[s] \in Nat
    BY DEF ServerInv, ThreadsOK
  <2> QED BY <2>1 DEF ServerInv, SessionOK, Greeted, OneWriter
<1> QED BY <1>1, <1>2, <1>3, PTL DEF Spec

-----------------------------------------------------------------------------
(* What a broadcast takes for dead has no handshake to come and no read     *)
(* under way; the list is emptied only once the server stops.               *)
ListInv ==
  /\ open \subseteq reading
  /\ running => open \cup handshake \subseteq registered \cup overtaken
  /\ main # "out" => ~running

(* A session that is open stays in the list as long as the server runs,     *)
(* unless a broadcast came before the end of its handshake.                 *)
THEOREM OpenIsRegisteredHolds == Spec => []OpenIsRegistered
<1>1. Init => ListInv
  BY DEF Init, ListInv
<1>2. ListInv /\ [Next]_vars => ListInv'
  <2> SUFFICES ASSUME ListInv, [Next]_vars PROVE ListInv'
    OBVIOUS
  <2> USE DEF ListInv, sessionVars, listVars, stopVars
  <2>1. ASSUME NEW t \in Threads, NEW s \in Sessions,
               PushMessage(t, s) \/ TestWriting(t, s) \/ TestEmpty(t, s)
               \/ ClearWriting(t, s) \/ StartWrite(t, s)
        PROVE  ListInv'
    BY <2>1 DEF PushMessage, TestWriting, TestEmpty, ClearWriting, StartWrite
  <2>2. ASSUME NEW s \in Sessions,
               UpgradeAsked(s) \/ Register(s) \/ Accepted(s) \/ HandshakeFails(s)
               \/ ReadFails(s)
        PROVE  ListInv'
    BY <2>2 DEF UpgradeAsked, Register, Accepted, HandshakeFails, ReadFails
  <2>3. ASSUME NEW s \in Sessions, Written(s) \/ WriteFails(s) \/ PopsNothing(s)
        PROVE  ListInv'
    BY <2>3 DEF Written, WriteFails, PopsNothing
  <2>4. ASSUME NEW s \in Sessions, CastVisits(s) PROVE ListInv'
    BY <2>4 DEF CastVisits, Alive
  <2>5. CASE \/ ServeFile \/ FileServed \/ FileWriteThrows \/ IoStops
             \/ CastWakes \/ CastBegins \/ CastEnds
    BY <2>5 DEF ServeFile, FileServed, FileWriteThrows, IoStops, CastWakes, CastBegins,
                CastEnds
  <2>6. CASE StopCalled \/ StopStep
    BY <2>6 DEF StopCalled, StopStep, StopLocks, CloseSkips, CloseBegins, CloseReturns,
                StopUnlocks, StopIo, Joined
  <2>7. CASE UNCHANGED vars
    BY <2>7 DEF vars
  <2> QED
    BY <2>1, <2>2, <2>3, <2>4, <2>5, <2>6, <2>7
    DEF Next, IoStep, CastStep, PeerStep, SendStep, Peer, Threads
<1>3. ListInv => OpenIsRegistered
  BY DEF ListInv, OpenIsRegistered
<1> QED BY <1>1, <1>2, <1>3, PTL DEF Spec
=============================================================================
