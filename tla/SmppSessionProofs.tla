-------------------------- MODULE SmppSessionProofs --------------------------
(***************************************************************************)
(* Proofs that a session comes to life, ends and tells at most once, that  *)
(* its connection is shut down by one thread only, and that nothing is     *)
(* left of it when it tells, for any number of users and pool threads.     *)
(*                                                                         *)
(* The inductive invariant follows the three threads that matter: the one  *)
(* inside Bind, the one that ends the session, and the one that shuts the  *)
(* connection down.  There is never more than one of each.                 *)
(***************************************************************************)
EXTENDS SmppSession, TLAPS

(***************************************************************************)
(* The invariant.                                                          *)
(***************************************************************************)
Terminating == Shutting \cup Closing
AllParts == vTcpIpSession /\ vTrans /\ vRespHandler /\ vStreamParser
NoParts == ~vTcpIpSession /\ ~vTrans /\ ~vRespHandler /\ ~vStreamParser

\* The thread can be at this label, busy with this.
OkAt(t, label, busy) ==
    IF t = Parser
    THEN /\ label \in {"idle", "handle", "handleShut", "handleClose"} \cup ReceivePc \cup ParserPc
         /\ busy = "none"
    ELSE /\ label \in SendPc \cup EndPc \cup SessionPc
         /\ busy \in Jobs \cup {"none", "bind", "call", "elapsed", "ending"}
         /\ label = "idle" <=> busy = "none"
         /\ label \in {"wait", "waiting"} => busy \in {"bind", "ending", "call", "elapsed"}
         /\ label \in EndPc \cup {"destroyTcp", "disassemble"} => busy \in {"bind", "ending"}
         /\ label = "tell" => busy = "ending"
         /\ label \in {"subscribe", "markAlive", "setBound"} => busy = "bind"

Labels == \A t \in Threads : OkAt(t, pc[t], task[t])

\* Before Bind nothing has begun.
Fresh ==
    session = "none" =>
        /\ \A t \in Threads : pc[t] = "idle"
        /\ jobs = {}
        /\ tcpLock = {}
        /\ ~vTimer /\ ~vIsAlive
        /\ ended = 0 /\ told = 0

\* The thread inside Bind has the session to itself up to MarkAlive.
Binding ==
    /\ \A t, u \in Threads : task[t] = "bind" /\ task[u] = "bind" => t = u
    /\ \A t \in Threads : task[t] = "bind" =>
           /\ session = "binding"
           /\ pc[t] # "setBound" => ended = 0 /\ ~vIsAlive /\ AllParts
           /\ pc[t] = "disassemble" => ~tcpAlive

\* One thread at most ends the session, once, and takes its parts only at the end.
Ending ==
    /\ \A t, u \in Threads : task[t] = "ending" /\ task[u] = "ending" => t = u
    /\ \A t \in Threads : task[t] = "ending" =>
           /\ ended = 1 /\ told = 0 /\ ~abandoned /\ ~vIsAlive
           /\ pc[t] # "tell" => AllParts
           /\ pc[t] = "tell" => NoParts
           /\ pc[t] \in {"disassemble", "tell"} => ~tcpAlive
    /\ vIsAlive => ended = 0 /\ AllParts
    /\ ended = 0 => told = 0 /\ ~abandoned
    /\ told = 1 => ~tcpAlive /\ NoParts /\ ~vTimer

\* One thread at most shuts the connection down; EndSession does so inside its lock, the
\* others only after they have marked the connection as not alive.
Connection ==
    /\ \A t, u \in Threads : pc[t] \in Terminating /\ pc[u] \in Terminating => t = u
    /\ \A t \in Threads :
           /\ pc[t] \in Shutting => socket \in {"up", "finished", "broken"}
           /\ pc[t] \in Closing => socket = "shut"
           /\ t \in tcpLock <=> pc[t] \in {"tcpShut", "tcpClose"}
           /\ pc[t] \in Terminating => (tcpAlive <=> pc[t] \in {"tcpShut", "tcpClose"})
    /\ tcpAlive => socket \in {"up", "finished", "broken", "shut"}
    /\ tcpAlive /\ socket = "shut" => tcpLock # {}

\* A connection that is not alive is closed, or somebody is about to close it, or has
\* failed to.
Down ==
    ~tcpAlive /\ session # "none" =>
        \/ socket = "closed"
        \/ \E t \in Threads : pc[t] \in Terminating
        \/ CloseMayFail /\ socket = "broken"

IInv == TypeOK /\ Labels /\ Fresh /\ Binding /\ Ending /\ Connection /\ Down

Labelled == SendPc \cup ReceivePc \cup EndPc \cup SessionPc \cup ParserPc
Tasks == Jobs \cup {"none", "bind", "call", "elapsed", "ending"}

(***************************************************************************)
(* Steps that only move a thread.                                          *)
(***************************************************************************)

\* The thread goes to a label, and is busy with something, where no fact of the invariant
\* depends on it being there.
Moves(t, label, busy) ==
    /\ pc' = [pc EXCEPT ![t] = label]
    /\ task' = [task EXCEPT ![t] = busy]
    /\ OkAt(t, label, busy)
    /\ label \notin Terminating \cup {"setBound", "disassemble", "tell"}
    /\ busy \in {"bind", "ending"} => busy = task[t] /\ pc[t] \notin {"setBound", "tell"}

\* What a step that only moves a thread leaves alone.
Stays == UNCHANGED <<socket, tcpAlive, tcpLock, fieldVars, session, vIsAlive, ended, told,
                     abandoned>>

\* The variables that the invariant only types.
OthersTyped ==
    /\ jobs' \subseteq Jobs
    /\ tcpSubscribed' \in BOOLEAN
    /\ vState' \in {"open", "bound", "closed"}
    /\ vRunning' \in BOOLEAN
    /\ vStopOnNextCycle' \in BOOLEAN
    /\ reply' \in [Threads -> {"none", "sent", "answered"}]

LEMMA MoveKeeps ==
    ASSUME IInv, session # "none", NEW t \in Threads, NEW label, NEW busy,
           Moves(t, label, busy), pc[t] \notin Terminating, Stays, OthersTyped
    PROVE  IInv'
<1> USE DEF IInv
<1>1. /\ pc \in [Threads -> Labelled] /\ task \in [Threads -> Tasks]
      /\ \A u \in Threads : pc'[u] = IF u = t THEN label ELSE pc[u]
      /\ \A u \in Threads : task'[u] = IF u = t THEN busy ELSE task[u]
  BY DEF TypeOK, Moves, Labelled, Tasks
<1>2. label \in Labelled /\ busy \in Tasks
  BY DEF Moves, OkAt, Labelled, Tasks, SendPc, ReceivePc, SessionPc, ParserPc
<1>3. pc' \in [Threads -> Labelled] /\ task' \in [Threads -> Tasks]
  BY <1>1, <1>2 DEF Moves
<1>4. TypeOK'
  BY <1>3 DEF TypeOK, Stays, OthersTyped, fieldVars, Labelled, Tasks
<1>5. Labels'
  BY <1>1 DEF Labels, Moves
<1>6. Fresh'
  BY DEF Fresh, Stays
<1>7. Binding'
  BY <1>1 DEF Binding, Moves, Stays, fieldVars, AllParts
<1>8. Ending'
  BY <1>1 DEF Ending, Moves, Stays, fieldVars, AllParts, NoParts
<1>9. Connection'
  BY <1>1 DEF Connection, Moves, Stays, Terminating, Shutting, Closing
<1>10. Down'
  BY <1>1 DEF Down, Moves, Stays
<1> QED
  BY <1>4, <1>5, <1>6, <1>7, <1>8, <1>9, <1>10

Busy(t, label) == IF label = "idle" THEN "none" ELSE task[t]

\* Goto is such a move.
LEMMA GotoKeeps ==
    ASSUME IInv, session # "none", NEW t \in Threads, NEW label, Goto(t, label),
           OkAt(t, label, Busy(t, label)),
           label \notin Terminating \cup {"setBound", "disassemble", "tell"},
           pc[t] \notin Terminating \cup {"setBound", "tell"},
           Stays, OthersTyped
    PROVE  IInv'
<1>1. task \in [Threads -> Tasks]
  BY DEF IInv, TypeOK, Tasks
<1>2. pc' = [pc EXCEPT ![t] = label] /\ task' = [task EXCEPT ![t] = Busy(t, label)]
  BY <1>1 DEF Goto, Busy
<1>3. Busy(t, label) \in {"bind", "ending"} => Busy(t, label) = task[t]
  BY DEF Busy
<1>4. Moves(t, label, Busy(t, label))
  BY <1>2, <1>3 DEF Moves
<1> QED
  BY <1>4, MoveKeeps

\* A thread that begins something.
LEMMA BeginKeeps ==
    ASSUME IInv, session # "none", NEW t \in Threads, NEW job, NEW label, Begin(t, job, label),
           OkAt(t, label, job), job \notin {"bind", "ending"},
           label \notin Terminating \cup {"setBound", "disassemble", "tell"},
           Stays, OthersTyped
    PROVE  IInv'
<1>1. Moves(t, label, job) /\ pc[t] \notin Terminating
  BY DEF Begin, Moves, Terminating, Shutting, Closing
<1> QED
  BY <1>1, MoveKeeps

\* A thread of the application or the pool that is not idle runs after Bind has begun.
LEMMA BusyIsAfter ==
    ASSUME IInv, NEW t \in Threads, pc[t] # "idle"
    PROVE  session # "none"
BY DEF IInv, Fresh

\* The threads of the application and the pool.
LEMMA OthersAreThreads ==
    ASSUME NEW t \in Users \cup Pool
    PROVE  t \in Threads /\ t # Parser
BY ThreadsAssumption DEF Threads

LEMMA CallKeeps ==
    ASSUME IInv, NEW t \in Users, Call(t)
    PROVE  IInv'
<1>1. t \in Threads /\ t # Parser
  BY OthersAreThreads
<1>2. session # "none" /\ Stays /\ OthersTyped
  BY DEF Call, Stays, OthersTyped, IInv, TypeOK, tcpVars, lifeVars, parserVars
<1>3. ASSUME Begin(t, "call", "checkState") PROVE IInv'
  BY <1>1, <1>2, <1>3, BeginKeeps DEF OkAt, SessionPc, EndPc, Jobs, TcpJobs, Terminating, Shutting, Closing
<1>4. ASSUME Begin(t, "call", "endSession") PROVE IInv'
  BY <1>1, <1>2, <1>4, BeginKeeps DEF OkAt, SessionPc, EndPc, Jobs, TcpJobs, Terminating, Shutting, Closing
<1> QED
  BY <1>3, <1>4 DEF Call

LEMMA ElapsedKeeps ==
    ASSUME IInv, NEW t \in Pool, Elapsed(t)
    PROVE  IInv'
<1>1. t \in Threads /\ t # Parser
  BY OthersAreThreads
<1>2. session # "none" /\ Stays /\ OthersTyped
  BY DEF Elapsed, Stays, OthersTyped, IInv, TypeOK, Fresh, tcpVars, lifeVars, parserVars
<1>3. Begin(t, "elapsed", "checkState")
  BY DEF Elapsed
<1> QED
  BY <1>1, <1>2, <1>3, BeginKeeps DEF OkAt, SessionPc, EndPc, Jobs, TcpJobs, Terminating, Shutting, Closing

LEMMA DeliverKeeps ==
    ASSUME IInv, NEW t \in Pool, NEW job \in Jobs, Deliver(t, job)
    PROVE  IInv'
<1>1. t \in Threads /\ t # Parser
  BY OthersAreThreads
<1>2. session # "none" /\ Stays /\ OthersTyped
  BY DEF Deliver, Stays, OthersTyped, IInv, TypeOK, Fresh, tcpVars, lifeVars, parserVars
<1>3. ASSUME pc[t] = "idle", UNCHANGED threadVars PROVE IInv'
  <2>1. pc' = [pc EXCEPT ![t] = "idle"] /\ task' = [task EXCEPT ![t] = "none"]
    BY <1>1, <1>3 DEF threadVars, IInv, TypeOK, Labels, OkAt
  <2>2. Goto(t, "idle")
    BY <2>1 DEF Goto
  <2> QED
    BY <1>1, <1>2, <1>3, <2>2, GotoKeeps
       DEF OkAt, Busy, Jobs, TcpJobs, SessionPc, EndPc, Terminating, Shutting, Closing
<1>4. ASSUME job \in {"unbind", "request"}, Begin(t, job, "checkState") PROVE IInv'
  BY <1>1, <1>2, <1>4, BeginKeeps DEF OkAt, SessionPc, EndPc, Jobs, TcpJobs, Terminating, Shutting, Closing
<1>5. ASSUME job \in {"tcpEnded", "tcpError", "parserException"}, Begin(t, job, "endSession")
      PROVE  IInv'
  BY <1>1, <1>2, <1>5, BeginKeeps DEF OkAt, SessionPc, EndPc, Jobs, TcpJobs, Terminating, Shutting, Closing
<1> QED
  BY <1>3, <1>4, <1>5 DEF Deliver

LEMMA CheckStateKeeps ==
    ASSUME IInv, NEW t \in Users \cup Pool, CheckState(t)
    PROVE  IInv'
<1>1. t \in Threads /\ t # Parser
  BY OthersAreThreads
<1>2. /\ session # "none" /\ Stays /\ OthersTyped
      /\ pc[t] = "checkState" /\ OkAt(t, pc[t], task[t])
  BY <1>1, BusyIsAfter
     DEF CheckState, Stays, OthersTyped, IInv, TypeOK, Labels, tcpVars, lifeVars, parserVars
<1>3. ASSUME NEW label \in {"send", "endSession", "idle"}, Goto(t, label) PROVE IInv'
  BY <1>1, <1>2, <1>3, GotoKeeps
     DEF OkAt, Busy, SendPc, SessionPc, EndPc, Terminating, Shutting, Closing
<1> QED
  BY <1>3 DEF CheckState

LEMMA WaitResponseKeeps ==
    ASSUME IInv, NEW t \in Users \cup Pool, WaitResponse(t)
    PROVE  IInv'
<1>1. t \in Threads /\ t # Parser
  BY OthersAreThreads
<1>2. /\ session # "none" /\ Stays /\ OthersTyped
      /\ pc[t] = "wait" /\ OkAt(t, pc[t], task[t])
  BY <1>1, BusyIsAfter
     DEF WaitResponse, Stays, OthersTyped, IInv, TypeOK, Labels, tcpVars, lifeVars, parserVars
<1>3. ASSUME NEW label \in {"waiting", "destroyTcp", "idle"}, Goto(t, label),
             label = "destroyTcp" => task[t] \in {"bind", "ending"}
      PROVE  IInv'
  BY <1>1, <1>2, <1>3, GotoKeeps
     DEF OkAt, Busy, SendPc, SessionPc, EndPc, Terminating, Shutting, Closing
<1> QED
  BY <1>3 DEF WaitResponse

LEMMA AnsweredKeeps ==
    ASSUME IInv, NEW t \in Users \cup Pool, Answered(t)
    PROVE  IInv'
<1>1. t \in Threads /\ t # Parser
  BY OthersAreThreads
<1>2. /\ session # "none" /\ Stays /\ OthersTyped
      /\ pc[t] = "waiting" /\ OkAt(t, pc[t], task[t])
  BY <1>1, BusyIsAfter
     DEF Answered, Stays, OthersTyped, IInv, TypeOK, Labels, tcpVars, lifeVars, parserVars
<1>3. ASSUME NEW label \in {"markAlive", "destroyTcp", "idle"}, Goto(t, label),
             label = "destroyTcp" => task[t] \in {"bind", "ending"},
             label = "markAlive" => task[t] = "bind"
      PROVE  IInv'
  BY <1>1, <1>2, <1>3, GotoKeeps
     DEF OkAt, Busy, SendPc, SessionPc, EndPc, Terminating, Shutting, Closing
<1> QED
  BY <1>3 DEF Answered

LEMMA TimesOutKeeps ==
    ASSUME IInv, NEW t \in Users \cup Pool, TimesOut(t)
    PROVE  IInv'
<1>1. t \in Threads /\ t # Parser
  BY OthersAreThreads
<1>2. /\ session # "none" /\ Stays /\ OthersTyped
      /\ pc[t] = "waiting" /\ OkAt(t, pc[t], task[t])
  BY <1>1, BusyIsAfter
     DEF TimesOut, Stays, OthersTyped, IInv, TypeOK, Labels, tcpVars, lifeVars, parserVars
<1>3. ASSUME NEW label \in {"endSession", "destroyTcp", "idle"}, Goto(t, label),
             label = "destroyTcp" => task[t] \in {"bind", "ending"}
      PROVE  IInv'
  BY <1>1, <1>2, <1>3, GotoKeeps
     DEF OkAt, Busy, SendPc, SessionPc, EndPc, Terminating, Shutting, Closing
<1> QED
  BY <1>1, <1>2, <1>3 DEF TimesOut, OkAt

LEMMA BindSessionKeeps ==
    ASSUME IInv, NEW t \in Users \cup Pool, BindSession(t)
    PROVE  IInv'
<1>1. t \in Threads /\ t # Parser
  BY OthersAreThreads
<1>2. /\ session # "none" /\ Stays /\ OthersTyped
      /\ pc[t] = "subscribe" /\ OkAt(t, pc[t], task[t])
  BY <1>1, BusyIsAfter
     DEF BindSession, Step, Stays, OthersTyped, IInv, TypeOK, Labels, lifeVars, parserVars
<1>3. Goto(t, "send")
  BY DEF BindSession, Step
<1> QED
  BY <1>1, <1>2, <1>3, GotoKeeps
     DEF OkAt, Busy, SendPc, SessionPc, EndPc, Terminating, Shutting, Closing

(***************************************************************************)
(* Steps on the connection.                                                *)
(***************************************************************************)

\* A thread may go to this label without anything else depending on it.
MayGo(t, label) ==
    /\ OkAt(t, label, Busy(t, label))
    /\ label \notin Terminating \cup {"setBound", "disassemble", "tell"}

\* What a step on the connection leaves alone.
SessionStays == UNCHANGED <<fieldVars, parserVars, lifeVars>>

\* Only the connection's own facts depend on what a step does to the connection, and that
\* it does not come to life again.
LEMMA TcpKeeps ==
    ASSUME IInv, session # "none", NEW t \in Threads, NEW label, Goto(t, label),
           OkAt(t, label, Busy(t, label)),
           pc[t] \notin {"setBound", "tell"}, label \notin {"setBound", "tell"},
           label = "disassemble" => ~tcpAlive',
           tcpAlive' => tcpAlive,
           tcpAlive' \in BOOLEAN, socket' \in Sockets, tcpLock' \subseteq Threads,
           tcpSubscribed' = tcpSubscribed, jobs' \subseteq Jobs,
           reply' \in [Threads -> {"none", "sent", "answered"}],
           SessionStays, Connection', Down'
    PROVE  IInv'
<1> USE DEF IInv, SessionStays, fieldVars, parserVars, lifeVars
<1>1. /\ pc \in [Threads -> Labelled] /\ task \in [Threads -> Tasks]
      /\ \A u \in Threads : pc'[u] = IF u = t THEN label ELSE pc[u]
      /\ \A u \in Threads : task'[u] = IF u = t THEN Busy(t, label) ELSE task[u]
  BY DEF TypeOK, Goto, Busy, Labelled, Tasks
<1>2. label \in Labelled /\ Busy(t, label) \in Tasks
  BY <1>1 DEF OkAt, Labelled, Tasks, SendPc, ReceivePc, SessionPc, ParserPc
<1>3. pc' \in [Threads -> Labelled] /\ task' \in [Threads -> Tasks]
  BY <1>1, <1>2 DEF Goto, Busy, Tasks
<1>4. TypeOK'
  BY <1>3 DEF TypeOK, Labelled, Tasks
<1>5. Labels'
  BY <1>1 DEF Labels
<1>6. Fresh'
  BY DEF Fresh
<1>7. \A u \in Threads : task'[u] \in {"bind", "ending"} =>
          /\ task[u] = task'[u]
          /\ u = t => pc[u] \notin {"setBound", "tell"}
  BY <1>1 DEF Busy
<1>8. Binding'
  BY <1>1, <1>7 DEF Binding, AllParts
<1>9. Ending'
  BY <1>1, <1>7 DEF Ending, AllParts, NoParts
<1> QED
  BY <1>4, <1>5, <1>6, <1>8, <1>9

\* Whoever may go somewhere from inside the connection keeps the invariant, if the step
\* leaves the connection as it is.
LEMMA TcpMoveKeeps ==
    ASSUME IInv, session # "none", NEW t \in Threads, NEW label, Goto(t, label),
           MayGo(t, label), pc[t] \notin Terminating \cup {"setBound", "tell"},
           UNCHANGED tcpVars, jobs' \subseteq Jobs, SessionStays,
           reply' \in [Threads -> {"none", "sent", "answered"}]
    PROVE  IInv'
<1>1. Stays /\ OthersTyped
  BY DEF Stays, OthersTyped, SessionStays, tcpVars, lifeVars, parserVars, IInv, TypeOK
<1> QED
  BY <1>1, GotoKeeps DEF MayGo

\* A Send or Receive that has failed.
LEMMA TerminateKeeps ==
    ASSUME IInv, NEW t \in Threads, NEW thrown, NEW raw, TerminateStep(t, thrown, raw),
           OkAt(t, "handleShut", task[t]), OkAt(t, "handleClose", task[t]),
           MayGo(t, thrown), MayGo(t, raw), SessionStays, UNCHANGED reply
    PROVE  IInv'
<1>1. /\ reply' \in [Threads -> {"none", "sent", "answered"}]
      /\ jobs \subseteq Jobs /\ socket \in Sockets
      /\ tcpAlive \in BOOLEAN /\ tcpLock \subseteq Threads
      /\ pc \in [Threads -> Labelled]
      /\ Connection /\ Down
  BY DEF IInv, TypeOK, Labelled
<1>2. pc[t] \in {"handle", "handleShut", "handleClose"}
  BY DEF TerminateStep, HandleException, Shutdown, Close, Step
<1>3. session # "none"
  BY <1>2, BusyIsAfter
<1>4. \A label : Goto(t, label) =>
          \A u \in Threads : pc'[u] = IF u = t THEN label ELSE pc[u]
  BY <1>1 DEF Goto
<1>5. CASE HandleException(t, thrown)
  <2>1. CASE ~tcpAlive
    <3>1. Goto(t, thrown) /\ UNCHANGED <<tcpVars, jobs>> /\ pc[t] = "handle"
      BY <1>1, <1>5, <2>1 DEF HandleException, Step, tcpVars
    <3> QED
      BY <1>1, <1>3, <3>1, TcpMoveKeeps DEF Terminating, Shutting, Closing
  <2>2. CASE tcpAlive
    <3>1. /\ Goto(t, "handleShut") /\ pc[t] = "handle" /\ tcpLock = {} /\ tcpLock' = {}
          /\ tcpAlive' = FALSE /\ UNCHANGED <<socket, tcpSubscribed, jobs>>
      BY <1>5, <2>2 DEF HandleException, Step
    <3>2. socket \in {"up", "finished", "broken"}
      BY <1>1, <2>2, <3>1 DEF Connection
    <3>3. \A u \in Threads : pc[u] \notin Terminating
      BY <1>1, <2>2, <3>1 DEF Connection
    <3>4. \A u \in Threads : pc'[u] = IF u = t THEN "handleShut" ELSE pc[u]
      BY <1>4, <3>1
    <3>5. Connection'
      BY <3>1, <3>2, <3>3, <3>4 DEF Connection, Terminating, Shutting, Closing
    <3>6. Down'
      BY <3>4 DEF Down, Terminating, Shutting
    <3>7. Busy(t, "handleShut") = task[t]
      BY DEF Busy
    <3> QED
      BY <1>1, <1>3, <3>1, <3>5, <3>6, <3>7, TcpKeeps
  <2> QED
    BY <2>1, <2>2
<1>6. CASE Shutdown(t, "handleShut", "handleClose", raw) /\ UNCHANGED tcpLock
  <2>1. /\ pc[t] = "handleShut" /\ UNCHANGED <<tcpAlive, tcpSubscribed, jobs, tcpLock>>
    BY <1>6 DEF Shutdown, Step
  <2>2. ~tcpAlive /\ t \in Threads /\ pc[t] \in Terminating
    BY <1>1, <2>1 DEF Connection, Terminating, Shutting
  <2>3. CASE Goto(t, "handleClose") /\ socket' = "shut"
    <3>1. \A u \in Threads : pc'[u] = IF u = t THEN "handleClose" ELSE pc[u]
      BY <1>4, <2>3
    <3>2. Connection'
      BY <1>1, <2>1, <2>2, <2>3, <3>1 DEF Connection, Terminating, Shutting, Closing
    <3>3. Down'
      BY <3>1 DEF Down, Terminating, Closing
    <3>4. Busy(t, "handleClose") = task[t] /\ socket' \in Sockets
      BY <2>3 DEF Busy, Sockets
    <3> QED
      BY <1>1, <1>3, <2>1, <2>3, <3>2, <3>3, <3>4, TcpKeeps
  <2>4. CASE CloseMayFail /\ socket = "broken" /\ Goto(t, raw) /\ UNCHANGED socket
    <3>1. \A u \in Threads : pc'[u] = IF u = t THEN raw ELSE pc[u]
      BY <1>4, <2>4
    <3>2. raw \notin Terminating /\ raw \notin {"setBound", "disassemble", "tell"}
      BY DEF MayGo
    <3>3. Connection'
      BY <1>1, <2>1, <2>2, <2>4, <3>1, <3>2 DEF Connection, Terminating, Shutting, Closing
    <3>4. Down'
      BY <2>4 DEF Down
    <3> QED
      BY <1>1, <1>3, <2>1, <2>4, <3>2, <3>3, <3>4, TcpKeeps DEF MayGo
  <2> QED
    BY <1>6, <2>3, <2>4 DEF Shutdown, Step
<1>7. CASE Close(t, "handleClose", thrown, "tcpError") /\ UNCHANGED <<tcpAlive, tcpLock>>
  <2>1. /\ pc[t] = "handleClose" /\ Goto(t, thrown) /\ socket' = "closed"
        /\ UNCHANGED <<tcpAlive, tcpLock, tcpSubscribed>>
        /\ jobs' \subseteq Jobs
    BY <1>1, <1>7 DEF Close, Step, Jobs, TcpJobs
  <2>2. ~tcpAlive /\ pc[t] \in Terminating
    BY <1>1, <2>1 DEF Connection, Terminating, Closing
  <2>3. \A u \in Threads : pc'[u] = IF u = t THEN thrown ELSE pc[u]
    BY <1>4, <2>1
  <2>4. thrown \notin Terminating /\ thrown \notin {"setBound", "disassemble", "tell"}
    BY DEF MayGo
  <2>5. Connection'
    BY <1>1, <2>1, <2>2, <2>3, <2>4 DEF Connection, Terminating, Shutting, Closing
  <2>6. Down' /\ socket' \in Sockets
    BY <2>1 DEF Down, Sockets
  <2> QED
    BY <1>1, <1>3, <2>1, <2>4, <2>5, <2>6, TcpKeeps DEF MayGo
<1> QED
  BY <1>5, <1>6, <1>7 DEF TerminateStep

(***************************************************************************)
(* Sending.                                                                *)
(***************************************************************************)

\* Where a sender goes on.
LEMMA SendersMayGo ==
    ASSUME IInv, NEW t \in Users \cup Pool, pc[t] \in SendPc
    PROVE  /\ MayGo(t, Sent(t)) /\ MayGo(t, NotSent(t))
           /\ MayGo(t, "sendSocket") /\ MayGo(t, "handle")
           /\ OkAt(t, "handleShut", task[t]) /\ OkAt(t, "handleClose", task[t])
<1>1. t \in Threads /\ t # Parser
  BY OthersAreThreads
<1>2. OkAt(t, pc[t], task[t]) /\ task[t] # "none" /\ task[t] \in Tasks
  BY <1>1 DEF IInv, Labels, OkAt, SendPc, Tasks
<1> USE DEF MayGo, OkAt, Busy, SendPc, EndPc, SessionPc, Terminating, Shutting, Closing
<1>3. MayGo(t, Sent(t))
  <2>1. CASE task[t] \in {"bind", "ending", "call", "elapsed"}
    BY <1>1, <1>2, <2>1 DEF Sent, Tasks
  <2>2. CASE task[t] = "unbind"
    BY <1>1, <1>2, <2>2 DEF Sent, Tasks
  <2>3. CASE task[t] \notin {"bind", "ending", "call", "elapsed", "unbind"}
    <3>1. Sent(t) = "idle"
      BY <2>3 DEF Sent
    <3> QED
      BY <1>1, <1>2, <3>1
  <2> QED
    BY <2>1, <2>2, <2>3
<1>4. MayGo(t, NotSent(t))
  <2>1. CASE task[t] \in {"bind", "ending"}
    <3>1. NotSent(t) = "destroyTcp"
      BY <1>1, <2>1 DEF NotSent
    <3> QED
      BY <1>1, <1>2, <2>1, <3>1 DEF Tasks
  <2>2. CASE task[t] \notin {"bind", "ending"}
    <3>1. NotSent(t) = Sent(t)
      BY <1>1, <2>2 DEF NotSent
    <3> QED
      BY <1>3, <3>1
  <2> QED
    BY <2>1, <2>2
<1>5. MayGo(t, "sendSocket") /\ MayGo(t, "handle")
  BY <1>1, <1>2 DEF Tasks
<1>6. OkAt(t, "handleShut", task[t]) /\ OkAt(t, "handleClose", task[t])
  BY <1>1, <1>2 DEF Tasks
<1> QED
  BY <1>3, <1>4, <1>5, <1>6

LEMMA SendKeeps ==
    ASSUME IInv, NEW t \in Users \cup Pool, SendStep(t)
    PROVE  IInv'
<1>1. t \in Threads /\ t # Parser
  BY OthersAreThreads
<1>2. pc[t] \in SendPc
  BY DEF SendStep, CheckSession, SendSocket, TerminateStep, HandleException, Shutdown, Close,
         Step, SendPc
<1>3. session # "none"
  BY <1>1, <1>2, BusyIsAfter DEF SendPc
<1>4. /\ MayGo(t, Sent(t)) /\ MayGo(t, NotSent(t))
      /\ MayGo(t, "sendSocket") /\ MayGo(t, "handle")
      /\ OkAt(t, "handleShut", task[t]) /\ OkAt(t, "handleClose", task[t])
  BY <1>2, SendersMayGo
<1>5. /\ SessionStays /\ jobs \subseteq Jobs
      /\ reply \in [Threads -> {"none", "sent", "answered"}]
  BY DEF SendStep, SessionStays, IInv, TypeOK
<1>6. ASSUME NEW label \in {Sent(t), NotSent(t), "sendSocket", "handle"}, Goto(t, label),
             pc[t] \in {"send", "sendSocket"}, UNCHANGED <<tcpVars, jobs>>,
             reply' \in [Threads -> {"none", "sent", "answered"}]
      PROVE  IInv'
  BY <1>1, <1>3, <1>4, <1>5, <1>6, TcpMoveKeeps DEF Terminating, Shutting, Closing
<1>7. CASE /\ CheckSession(t, "send", IF vTrans THEN "sendSocket" ELSE NotSent(t), NotSent(t))
           /\ UNCHANGED reply
  BY <1>5, <1>6, <1>7 DEF CheckSession, Step
<1>8. CASE /\ SendSocket(t, Sent(t), NotSent(t))
           /\ reply' = IF pc'[t] = "wait" /\ socket \in {"up", "finished"}
                       THEN [reply EXCEPT ![t] = "sent"] ELSE reply
  <2>1. reply' \in [Threads -> {"none", "sent", "answered"}]
    BY <1>5, <1>8
  <2> QED
    BY <1>6, <1>8, <2>1 DEF SendSocket, Step
<1>9. CASE TerminateStep(t, NotSent(t), NotSent(t)) /\ UNCHANGED reply
  BY <1>1, <1>4, <1>5, <1>9, TerminateKeeps
<1> QED
  BY <1>7, <1>8, <1>9 DEF SendStep

(***************************************************************************)
(* Binding and ending.                                                     *)
(***************************************************************************)

\* One thread's label and task change.
LEMMA UpdateIs ==
    ASSUME TypeOK, NEW t \in Threads, NEW label \in Labelled, NEW busy \in Tasks,
           pc' = [pc EXCEPT ![t] = label], task' = [task EXCEPT ![t] = busy]
    PROVE  /\ pc' \in [Threads -> Labelled] /\ task' \in [Threads -> Tasks]
           /\ \A u \in Threads : pc'[u] = IF u = t THEN label ELSE pc[u]
           /\ \A u \in Threads : task'[u] = IF u = t THEN busy ELSE task[u]
<1>1. pc \in [Threads -> Labelled] /\ task \in [Threads -> Tasks]
  BY DEF TypeOK, Labelled, Tasks
<1> QED
  BY <1>1

\* The labels and tasks of the steps below.
LEMMA LabelsExist ==
    /\ {"subscribe", "setBound", "idle", "destroyTcp", "send", "tell", "disassemble",
        "tcpShut", "tcpClose", "zeroShut", "zeroClose", "handle", "receive"} \subseteq Labelled
    /\ {"none", "bind", "ending"} \subseteq Tasks
BY DEF Labelled, Tasks, SendPc, ReceivePc, EndPc, SessionPc

LEMMA BindKeeps ==
    ASSUME IInv, NEW t \in Users, Bind(t)
    PROVE  IInv'
<1> USE DEF IInv
<1>1. t \in Threads /\ t # Parser
  BY OthersAreThreads
<1>2. /\ session = "none"
      /\ \A u \in Threads : pc[u] = "idle" /\ task[u] = "none"
      /\ jobs = {} /\ tcpLock = {} /\ ~vTimer /\ ~vIsAlive /\ ended = 0 /\ told = 0
      /\ ~abandoned
  BY DEF Bind, Fresh, Labels, OkAt, Ending
<1>3. /\ pc' = [pc EXCEPT ![t] = "subscribe"] /\ task' = [task EXCEPT ![t] = "bind"]
      /\ socket' = "up" /\ tcpAlive' = TRUE /\ session' = "binding" /\ vState' = "open"
      /\ AllParts'
      /\ UNCHANGED <<tcpLock, tcpSubscribed, jobs, parserVars, vIsAlive, ended, told,
                     abandoned, vTimer, reply>>
  BY DEF Bind, Begin, OpenClientSession, AllParts
<1>4. /\ pc' \in [Threads -> Labelled] /\ task' \in [Threads -> Tasks]
      /\ \A u \in Threads : pc'[u] = IF u = t THEN "subscribe" ELSE pc[u]
      /\ \A u \in Threads : task'[u] = IF u = t THEN "bind" ELSE task[u]
  BY <1>1, <1>3, UpdateIs, LabelsExist
<1>5. TypeOK'
  BY <1>3, <1>4 DEF TypeOK, AllParts, parserVars, Sockets, Labelled, Tasks
<1>6. Labels'
  <2>1. OkAt(t, "subscribe", "bind")
    BY <1>1 DEF OkAt, SessionPc, EndPc
  <2> QED
    BY <1>4, <2>1 DEF Labels
<1>7. Fresh' /\ Down'
  BY <1>3 DEF Fresh, Down
<1>8. Binding'
  BY <1>2, <1>3, <1>4 DEF Binding, AllParts
<1>9. Ending'
  BY <1>2, <1>3, <1>4 DEF Ending
<1>10. Connection'
  BY <1>2, <1>3, <1>4 DEF Connection, Terminating, Shutting, Closing
<1> QED
  BY <1>5, <1>6, <1>7, <1>8, <1>9, <1>10

\* The thread inside Bind is the only one that can bring the session to life, and nobody
\* has ended it before.
LEMMA MarkAliveKeeps ==
    ASSUME IInv, NEW t \in Users \cup Pool, MarkAlive(t)
    PROVE  IInv' /\ Life!Live
<1> USE DEF IInv
<1>1. t \in Threads /\ t # Parser
  BY OthersAreThreads
<1>2. /\ pc[t] = "markAlive" /\ task[t] = "bind"
      /\ session = "binding" /\ ended = 0 /\ told = 0 /\ ~abandoned /\ ~vIsAlive /\ AllParts
  BY <1>1 DEF MarkAlive, Step, Labels, OkAt, Binding, Ending
<1>3. /\ pc' = [pc EXCEPT ![t] = "setBound"] /\ task' = [task EXCEPT ![t] = "bind"]
      /\ vTimer' = TRUE /\ vIsAlive' = TRUE
      /\ UNCHANGED <<jobs, tcpVars, vTcpIpSession, vTrans, vRespHandler, vStreamParser,
                     parserVars, session, vState, ended, told, abandoned, reply>>
  BY <1>1, <1>2 DEF MarkAlive, Step, Goto, TypeOK
<1>4. /\ pc' \in [Threads -> Labelled] /\ task' \in [Threads -> Tasks]
      /\ \A u \in Threads : pc'[u] = IF u = t THEN "setBound" ELSE pc[u]
      /\ \A u \in Threads : task'[u] = IF u = t THEN "bind" ELSE task[u]
  BY <1>1, <1>3, UpdateIs, LabelsExist
<1>5. TypeOK'
  BY <1>3, <1>4 DEF TypeOK, parserVars, tcpVars, Labelled, Tasks
<1>6. Labels'
  <2>1. OkAt(t, "setBound", "bind")
    BY <1>1 DEF OkAt, SessionPc, EndPc
  <2> QED
    BY <1>4, <2>1 DEF Labels
<1>7. Fresh'
  BY <1>2, <1>3 DEF Fresh
<1>8. Down'
  BY <1>2, <1>3, <1>4 DEF Down, tcpVars, Terminating, Shutting, Closing
<1>9. Binding'
  <2>1. \A u \in Threads : task'[u] = "bind" => u = t
    BY <1>1, <1>2, <1>4 DEF Binding
  <2> QED
    BY <1>2, <1>3, <1>4, <2>1 DEF Binding
<1>10. Ending'
  BY <1>2, <1>3, <1>4 DEF Ending, AllParts, NoParts
<1>11. Connection'
  BY <1>2, <1>3, <1>4 DEF Connection, tcpVars, Terminating, Shutting, Closing
<1>12. Life!Live
  BY <1>2, <1>3 DEF Life!Live
<1> QED
  BY <1>5, <1>6, <1>7, <1>8, <1>9, <1>10, <1>11, <1>12

LEMMA SetBoundKeeps ==
    ASSUME IInv, NEW t \in Users \cup Pool, SetBound(t)
    PROVE  IInv'
<1> USE DEF IInv
<1>1. t \in Threads /\ t # Parser
  BY OthersAreThreads
<1>2. pc[t] = "setBound" /\ task[t] = "bind" /\ session = "binding"
  BY <1>1 DEF SetBound, Step, Labels, OkAt, Binding
<1>3. /\ pc' = [pc EXCEPT ![t] = "idle"] /\ task' = [task EXCEPT ![t] = "none"]
      /\ vState' = "bound" /\ session' = "given"
      /\ UNCHANGED <<jobs, tcpVars, fieldVars, parserVars, vIsAlive, ended, told, abandoned,
                     reply>>
  BY DEF SetBound, Step, Goto
<1>4. /\ pc' \in [Threads -> Labelled] /\ task' \in [Threads -> Tasks]
      /\ \A u \in Threads : pc'[u] = IF u = t THEN "idle" ELSE pc[u]
      /\ \A u \in Threads : task'[u] = IF u = t THEN "none" ELSE task[u]
  BY <1>1, <1>3, UpdateIs, LabelsExist
<1>5. TypeOK'
  BY <1>3, <1>4 DEF TypeOK, parserVars, fieldVars, tcpVars, Labelled, Tasks
<1>6. Labels'
  <2>1. OkAt(t, "idle", "none")
    BY <1>1 DEF OkAt, SessionPc, EndPc
  <2> QED
    BY <1>4, <2>1 DEF Labels
<1>7. Fresh'
  BY <1>3 DEF Fresh
<1>8. Down'
  BY <1>2, <1>3, <1>4 DEF Down, tcpVars, Terminating, Shutting, Closing
<1>9. Binding'
  BY <1>1, <1>2, <1>4 DEF Binding
<1>10. Ending'
  BY <1>3, <1>4 DEF Ending, fieldVars, tcpVars, AllParts, NoParts
<1>11. Connection'
  BY <1>2, <1>3, <1>4 DEF Connection, tcpVars, Terminating, Shutting, Closing
<1> QED
  BY <1>5, <1>6, <1>7, <1>8, <1>9, <1>10, <1>11

\* The first to find the session alive ends it; the others do nothing.
LEMMA EndSessionKeeps ==
    ASSUME IInv, NEW t \in Users \cup Pool, EndSession(t)
    PROVE  IInv' /\ (Life!End \/ UNCHANGED Life!vars)
<1> USE DEF IInv
<1>1. t \in Threads /\ t # Parser
  BY OthersAreThreads
<1>2. pc[t] = "endSession" /\ session # "none" /\ OkAt(t, pc[t], task[t])
  BY <1>1, BusyIsAfter DEF EndSession, Labels
<1>3. CASE ~vIsAlive
  <2>1. Goto(t, "idle") /\ Stays /\ OthersTyped /\ UNCHANGED Life!vars
    BY <1>3 DEF EndSession, Stays, OthersTyped, TypeOK, tcpVars, parserVars, Life!vars
  <2> QED
    BY <1>1, <1>2, <2>1, GotoKeeps
       DEF OkAt, Busy, SessionPc, EndPc, Jobs, TcpJobs, Terminating, Shutting, Closing
<1>4. CASE vIsAlive
  <2> DEFINE label == IF task[t] = "unbind" THEN "destroyTcp" ELSE "send"
  <2>1. ended = 0 /\ told = 0 /\ ~abandoned /\ AllParts
    BY <1>4 DEF Ending
  <2>2. /\ pc' = [pc EXCEPT ![t] = label] /\ task' = [task EXCEPT ![t] = "ending"]
        /\ vIsAlive' = FALSE /\ vState' = "closed" /\ ended' = 1
        /\ UNCHANGED <<jobs, tcpVars, fieldVars, parserVars, session, told, abandoned, reply>>
    BY <1>4, <2>1 DEF EndSession
  <2>3. label \in {"destroyTcp", "send"}
    OBVIOUS
  <2> HIDE DEF label
  <2>4. /\ pc' \in [Threads -> Labelled] /\ task' \in [Threads -> Tasks]
        /\ \A u \in Threads : pc'[u] = IF u = t THEN label ELSE pc[u]
        /\ \A u \in Threads : task'[u] = IF u = t THEN "ending" ELSE task[u]
    BY <1>1, <2>2, <2>3, UpdateIs, LabelsExist
  <2>5. TypeOK'
    <3>1. pc' \in [Threads -> Labelled] /\ task' \in [Threads -> Tasks]
      BY <2>4
    <3>2. ended' \in {0, 1} /\ vIsAlive' \in BOOLEAN /\ vState' \in {"open", "bound", "closed"}
      BY <2>2
    <3>3. UNCHANGED <<jobs, socket, tcpAlive, tcpLock, tcpSubscribed, vTcpIpSession, vTrans,
                      vRespHandler, vStreamParser, vTimer, vRunning, vStopOnNextCycle,
                      session, told, abandoned, reply>>
      BY <2>2 DEF parserVars, fieldVars, tcpVars
    <3> QED
      BY <3>1, <3>2, <3>3 DEF TypeOK, Labelled, Tasks
  <2>6. Labels'
    <3>1. OkAt(t, "destroyTcp", "ending") /\ OkAt(t, "send", "ending")
      BY <1>1 DEF OkAt, SendPc, SessionPc, EndPc
    <3> QED
      BY <2>3, <2>4, <3>1 DEF Labels
  <2>7. Fresh'
    BY <1>2, <2>2 DEF Fresh
  <2>8. Down'
    BY <1>2, <2>2, <2>4 DEF Down, tcpVars, Terminating, Shutting, Closing
  <2>9. \A u \in Threads : task[u] # "ending"
    BY <2>1 DEF Ending
  <2>10. \A u \in Threads : task[u] = "bind" => pc[u] = "setBound"
    BY <1>4 DEF Binding
  <2>11. Binding'
    BY <2>2, <2>4, <2>10 DEF Binding
  <2>12. Ending'
    BY <2>1, <2>2, <2>3, <2>4, <2>9 DEF Ending, fieldVars, tcpVars, AllParts
  <2>13. Connection'
    BY <1>2, <2>2, <2>3, <2>4 DEF Connection, tcpVars, Terminating, Shutting, Closing
  <2>14. Life!End
    BY <1>4, <2>1, <2>2 DEF Life!End
  <2> QED
    BY <2>5, <2>6, <2>7, <2>8, <2>11, <2>12, <2>13, <2>14
<1> QED
  BY <1>3, <1>4

(***************************************************************************)
(* Taking the session apart.                                               *)
(***************************************************************************)

\* Who destroys the connection still has it.
LEMMA DestroyKeeps ==
    ASSUME IInv, NEW t \in Users \cup Pool, DestroyTcpIpSession(t)
    PROVE  IInv'
<1>1. t \in Threads /\ t # Parser
  BY OthersAreThreads
<1>2. /\ pc[t] = "destroyTcp" /\ session # "none" /\ task[t] \in {"bind", "ending"}
  BY <1>1, BusyIsAfter DEF DestroyTcpIpSession, Step, IInv, Labels, OkAt
<1>3. AllParts
  BY <1>1, <1>2 DEF IInv, Binding, Ending
<1>4. Goto(t, "tcpEnd") /\ Stays /\ OthersTyped
  BY <1>3 DEF DestroyTcpIpSession, Step, AllParts, Stays, OthersTyped, IInv, TypeOK,
              parserVars, lifeVars
<1>5. OkAt(t, "tcpEnd", Busy(t, "tcpEnd"))
  BY <1>1, <1>2 DEF OkAt, Busy, EndPc, SessionPc
<1> QED
  BY <1>1, <1>2, <1>4, <1>5, GotoKeeps DEF Terminating, Shutting, Closing

\* EndSession of the connection.
LEMMA TcpEndKeeps ==
    ASSUME IInv, NEW t \in Users \cup Pool, TcpEndStep(t)
    PROVE  IInv' /\ (Life!GiveUp \/ UNCHANGED Life!vars)
<1>1. t \in Threads /\ t # Parser
  BY OthersAreThreads
<1>2. pc[t] \in EndPc
  BY DEF TcpEndStep, TcpEnd, TcpShut, TcpClose, Shutdown, Close, Step, EndPc
<1>3. /\ task[t] \in {"bind", "ending"} /\ session # "none"
      /\ \A label \in EndPc \cup {"disassemble"} : OkAt(t, label, Busy(t, label))
  <2>1. task[t] \in {"bind", "ending"}
    BY <1>1, <1>2 DEF IInv, Labels, OkAt
  <2>2. session # "none"
    BY <1>1, <1>2, BusyIsAfter DEF EndPc
  <2> QED
    BY <1>1, <2>1, <2>2 DEF OkAt, Busy, EndPc, SessionPc
<1>4. /\ UNCHANGED <<fieldVars, parserVars, vIsAlive, vState, ended, told, reply>>
      /\ TypeOK /\ Connection /\ Down
      /\ pc \in [Threads -> Labelled]
      /\ reply \in [Threads -> {"none", "sent", "answered"}]
      /\ tcpAlive \in BOOLEAN /\ tcpLock \subseteq Threads /\ jobs \subseteq Jobs
      /\ socket \in Sockets
  BY DEF TcpEndStep, IInv, TypeOK, Labelled
<1>5. \A label : Goto(t, label) =>
          \A u \in Threads : pc'[u] = IF u = t THEN label ELSE pc[u]
  BY <1>4 DEF Goto
<1>6. \A label \in EndPc \cup {"disassemble"} : label \notin {"setBound", "tell", "idle"}
  BY DEF EndPc
<1>7. pc[t] \notin {"setBound", "tell"}
  BY <1>2 DEF EndPc
<1>8. ASSUME TcpEnd(t, "disassemble"), UNCHANGED <<session, abandoned>>
      PROVE  IInv' /\ UNCHANGED Life!vars
  <2>1. SessionStays /\ UNCHANGED Life!vars
    BY <1>4, <1>8 DEF SessionStays, lifeVars, Life!vars
  <2>2. pc[t] = "tcpEnd" /\ tcpLock = {} /\ UNCHANGED <<socket, tcpAlive, tcpSubscribed, jobs>>
    BY <1>8 DEF TcpEnd, Step
  <2>3. CASE tcpAlive
    <3>1. Goto(t, "tcpShut") /\ tcpLock' = {t}
      BY <1>8, <2>3 DEF TcpEnd, Step
    <3>2. \A u \in Threads : pc'[u] = IF u = t THEN "tcpShut" ELSE pc[u]
      BY <1>5, <3>1
    <3>3. /\ socket \in {"up", "finished", "broken"}
          /\ \A u \in Threads : pc[u] \notin Terminating
      BY <1>4, <2>2, <2>3 DEF Connection
    <3>4. Connection'
      BY <1>1, <2>2, <2>3, <3>1, <3>2, <3>3 DEF Connection, Terminating, Shutting, Closing
    <3>5. Down'
      BY <2>2, <2>3 DEF Down
    <3>6. "tcpShut" \in EndPc
      BY DEF EndPc
    <3> QED
      BY <1>1, <1>3, <1>4, <1>6, <1>7, <2>1, <2>2, <3>1, <3>4, <3>5, <3>6, TcpKeeps
  <2>4. CASE ~tcpAlive
    <3>1. Goto(t, "disassemble") /\ tcpLock' = {}
      BY <1>8, <2>4 DEF TcpEnd, Step
    <3>2. \A u \in Threads : pc'[u] = IF u = t THEN "disassemble" ELSE pc[u]
      BY <1>5, <3>1
    <3>3. Connection'
      BY <1>1, <1>4, <2>2, <2>4, <3>1, <3>2 DEF Connection, Terminating, Shutting, Closing
    <3>4. Down'
      BY <1>4, <2>1, <2>2, <2>4, <3>2
         DEF Down, SessionStays, lifeVars, Terminating, Shutting, Closing
    <3> QED
      BY <1>1, <1>3, <1>4, <1>6, <1>7, <2>1, <2>2, <2>4, <3>1, <3>3, <3>4, TcpKeeps
  <2> QED
    BY <2>1, <2>3, <2>4
<1>9. ASSUME TcpClose(t, "disassemble"), UNCHANGED <<session, abandoned>>
      PROVE  IInv' /\ UNCHANGED Life!vars
  <2>1. SessionStays /\ UNCHANGED Life!vars
    BY <1>4, <1>9 DEF SessionStays, lifeVars, Life!vars
  <2>2. /\ pc[t] = "tcpClose" /\ Goto(t, "disassemble") /\ socket' = "closed"
        /\ tcpAlive' = FALSE /\ tcpLock' = {} /\ tcpSubscribed' = tcpSubscribed
        /\ jobs' \subseteq Jobs
    BY <1>4, <1>9 DEF TcpClose, Close, Step, Jobs, TcpJobs
  <2>3. \A u \in Threads : pc'[u] = IF u = t THEN "disassemble" ELSE pc[u]
    BY <1>5, <2>2
  <2>4. \A u \in Threads : u # t => pc[u] \notin Terminating
    BY <1>1, <1>4, <2>2 DEF Connection, Terminating, Closing
  <2>5. Connection'
    BY <1>1, <1>4, <2>2, <2>3, <2>4 DEF Connection, Terminating, Shutting, Closing
  <2>6. Down' /\ socket' \in Sockets
    BY <2>2 DEF Down, Sockets
  <2> QED
    BY <1>1, <1>3, <1>4, <1>6, <1>7, <2>1, <2>2, <2>5, <2>6, TcpKeeps
<1>10. ASSUME Step(t, "tcpShut", "tcpClose"), socket' = "shut", tcpLock' = tcpLock,
              UNCHANGED <<tcpAlive, tcpSubscribed, jobs, session, abandoned>>
       PROVE  IInv' /\ UNCHANGED Life!vars
  <2>1. SessionStays /\ UNCHANGED Life!vars
    BY <1>4, <1>10 DEF SessionStays, lifeVars, Life!vars
  <2>2. pc[t] = "tcpShut" /\ Goto(t, "tcpClose")
    BY <1>10 DEF Step
  <2>3. \A u \in Threads : pc'[u] = IF u = t THEN "tcpClose" ELSE pc[u]
    BY <1>5, <2>2
  <2>4. /\ tcpAlive /\ t \in tcpLock
        /\ \A u \in Threads : u # t => pc[u] \notin Terminating
    BY <1>1, <1>4, <2>2 DEF Connection, Terminating, Shutting
  <2>5. Connection'
    BY <1>1, <1>4, <1>10, <2>2, <2>3, <2>4 DEF Connection, Terminating, Shutting, Closing
  <2>6. Down' /\ socket' \in Sockets
    BY <1>10, <2>4 DEF Down, Sockets
  <2>7. "tcpClose" \in EndPc
    BY DEF EndPc
  <2> QED
    BY <1>1, <1>3, <1>4, <1>6, <1>7, <1>10, <2>1, <2>2, <2>5, <2>6, <2>7, TcpKeeps
<1>11. ASSUME CloseMayFail, socket = "broken", Step(t, "tcpShut", "idle"), tcpLock' = {},
              UNCHANGED <<socket, tcpAlive, tcpSubscribed, jobs>>,
              session' = IF task[t] = "bind" THEN "failed" ELSE session,
              abandoned' = (abandoned \/ task[t] = "ending")
       PROVE  IInv' /\ (Life!GiveUp \/ UNCHANGED Life!vars)
  <2> USE DEF IInv
  <2>1. /\ pc[t] = "tcpShut"
        /\ pc' = [pc EXCEPT ![t] = "idle"] /\ task' = [task EXCEPT ![t] = "none"]
    BY <1>11 DEF Step, Goto
  <2>2. /\ pc' \in [Threads -> Labelled] /\ task' \in [Threads -> Tasks]
        /\ \A u \in Threads : pc'[u] = IF u = t THEN "idle" ELSE pc[u]
        /\ \A u \in Threads : task'[u] = IF u = t THEN "none" ELSE task[u]
    BY <1>1, <1>4, <2>1, UpdateIs, LabelsExist
  <2>3. /\ session' \in {"none", "binding", "given", "failed"} /\ session' # "none"
        /\ abandoned' \in BOOLEAN
    BY <1>3, <1>11 DEF TypeOK
  <2>4. TypeOK'
    BY <1>4, <1>11, <2>2, <2>3 DEF TypeOK, fieldVars, parserVars, Labelled, Tasks
  <2>5. Labels'
    <3>1. OkAt(t, "idle", "none")
      BY <1>1 DEF OkAt, SessionPc, EndPc
    <3> QED
      BY <2>2, <3>1 DEF Labels
  <2>6. Fresh'
    BY <2>3 DEF Fresh
  <2>7. \A u \in Threads : u # t /\ task[u] = "bind" => session' = session
    BY <1>1, <1>11 DEF Binding
  <2>8. Binding'
    BY <1>4, <1>11, <2>2, <2>7 DEF Binding, fieldVars, AllParts
  <2>9. task[t] = "ending" => \A u \in Threads : u # t => task[u] # "ending"
    BY <1>1 DEF Ending
  <2>10. task[t] # "ending" => abandoned' = abandoned
    BY <1>11 DEF TypeOK
  <2>11. task[t] = "ending" => ended = 1 /\ told = 0 /\ ~abandoned
    BY <1>1 DEF Ending
  <2>12. Ending'
    BY <1>4, <1>11, <2>2, <2>9, <2>10, <2>11 DEF Ending, fieldVars, AllParts, NoParts
  <2>13. tcpAlive /\ \A u \in Threads : u # t => pc[u] \notin Terminating
    BY <1>1, <1>4, <2>1 DEF Connection, Terminating, Shutting
  <2>14. Connection'
    BY <1>4, <1>11, <2>2, <2>13 DEF Connection, Terminating, Shutting, Closing
  <2>15. Down'
    BY <1>11 DEF Down
  <2>16. CASE task[t] = "ending"
    <3>1. abandoned' = TRUE
      BY <1>11, <2>16
    <3>2. told < ended
      BY <2>11, <2>16
    <3>3. Life!GiveUp
      BY <1>4, <2>11, <2>16, <3>1, <3>2 DEF Life!GiveUp
    <3> QED
      BY <2>4, <2>5, <2>6, <2>8, <2>12, <2>14, <2>15, <3>3
  <2>17. CASE task[t] # "ending"
    BY <1>4, <2>10, <2>17, <2>4, <2>5, <2>6, <2>8, <2>12, <2>14, <2>15 DEF Life!vars
  <2> QED
    BY <2>16, <2>17
<1>12. ASSUME TcpShut(t, "idle"),
              session' = IF pc'[t] = "idle" /\ task[t] = "bind" THEN "failed" ELSE session,
              abandoned' = (abandoned \/ (pc'[t] = "idle" /\ task[t] = "ending"))
       PROVE  IInv' /\ (Life!GiveUp \/ UNCHANGED Life!vars)
  <2>1. UNCHANGED <<tcpAlive, tcpSubscribed, jobs>>
    BY <1>12 DEF TcpShut, Shutdown
  <2>2. CASE Step(t, "tcpShut", "tcpClose") /\ socket' = "shut"
    <3>1. pc'[t] = "tcpClose" /\ tcpLock' = tcpLock
      BY <1>1, <1>4, <1>12, <2>2 DEF Step, Goto, TcpShut
    <3>2. session' = session /\ abandoned' = abandoned
      BY <1>4, <1>12, <3>1 DEF TypeOK
    <3> QED
      BY <1>10, <2>1, <2>2, <3>1, <3>2
  <2>3. CASE /\ CloseMayFail /\ socket = "broken" /\ Step(t, "tcpShut", "idle")
             /\ UNCHANGED socket
    <3>1. pc'[t] = "idle" /\ tcpLock' = {}
      BY <1>1, <1>4, <1>12, <2>3 DEF Step, Goto, TcpShut
    <3> QED
      BY <1>11, <1>12, <2>1, <2>3, <3>1
  <2> QED
    BY <1>12, <2>2, <2>3 DEF TcpShut, Shutdown
<1> QED
  BY <1>8, <1>9, <1>12 DEF TcpEndStep

\* Nobody who could still need the parts is left when they are taken.
LEMMA DisassembleKeeps ==
    ASSUME IInv, NEW t \in Users \cup Pool, Disassemble(t)
    PROVE  IInv'
<1> USE DEF IInv
<1>1. t \in Threads /\ t # Parser
  BY OthersAreThreads
<1>2. /\ pc[t] = "disassemble" /\ session # "none" /\ task[t] \in {"bind", "ending"}
  BY <1>1, BusyIsAfter DEF Disassemble, Step, Labels, OkAt
<1>3. AllParts /\ ~tcpAlive /\ ~vIsAlive
  BY <1>1, <1>2 DEF Binding, Ending
<1>4. /\ Goto(t, IF task[t] = "bind" THEN "idle" ELSE "tell")
      /\ session' = IF task[t] = "bind" THEN "failed" ELSE session
      /\ NoParts'
      /\ vStopOnNextCycle' \in BOOLEAN
      /\ vTcpIpSession' \in BOOLEAN /\ vTrans' \in BOOLEAN /\ vRespHandler' \in BOOLEAN
      /\ vStreamParser' \in BOOLEAN
      /\ UNCHANGED <<jobs, socket, tcpAlive, tcpLock, tcpSubscribed, vTimer, vRunning,
                     vIsAlive, vState, ended, told, abandoned, reply>>
  BY <1>3 DEF Disassemble, Step, NoParts, AllParts, tcpVars
<1>5. session' \in {"none", "binding", "given", "failed"} /\ session' # "none"
  BY <1>2, <1>4 DEF TypeOK
<1> DEFINE label == IF task[t] = "bind" THEN "idle" ELSE "tell"
           busy == IF task[t] = "bind" THEN "none" ELSE "ending"
<1>6. /\ pc' = [pc EXCEPT ![t] = label] /\ task' = [task EXCEPT ![t] = busy]
      /\ label \in Labelled /\ busy \in Tasks
      /\ OkAt(t, label, busy) /\ label \in {"idle", "tell"}
  <2>1. CASE task[t] = "bind"
    BY <1>1, <1>4, <2>1, LabelsExist DEF Goto, OkAt, SessionPc, EndPc
  <2>2. CASE task[t] = "ending"
    <3>1. task' = [task EXCEPT ![t] = "ending"]
      BY <1>4, <2>2 DEF Goto, TypeOK
    <3> QED
      BY <1>1, <1>4, <2>2, <3>1, LabelsExist DEF Goto, OkAt, SessionPc, EndPc
  <2> QED
    BY <1>2, <2>1, <2>2
<1>7. /\ task[t] = "bind" => label = "idle" /\ busy = "none"
      /\ task[t] # "bind" => label = "tell" /\ busy = "ending"
  OBVIOUS
<1> HIDE DEF label, busy
<1>8. /\ pc' \in [Threads -> Labelled] /\ task' \in [Threads -> Tasks]
      /\ \A u \in Threads : pc'[u] = IF u = t THEN label ELSE pc[u]
      /\ \A u \in Threads : task'[u] = IF u = t THEN busy ELSE task[u]
  BY <1>1, <1>6, UpdateIs
<1>9. TypeOK'
  BY <1>4, <1>5, <1>8 DEF TypeOK, Labelled, Tasks
<1>10. Labels'
  BY <1>6, <1>8 DEF Labels
<1>11. Fresh'
  BY <1>5 DEF Fresh
<1>12. Connection'
  BY <1>2, <1>4, <1>6, <1>8 DEF Connection, Terminating, Shutting, Closing
<1>13. Down'
  BY <1>2, <1>4, <1>8 DEF Down, Terminating, Shutting, Closing
<1>14. CASE task[t] = "bind"
  <2>1. /\ \A u \in Threads : task[u] # "ending"
        /\ \A u \in Threads : u # t => task[u] # "bind"
        /\ ended = 0 /\ told = 0
    BY <1>1, <1>2, <1>14 DEF Binding, Ending
  <2>2. \A u \in Threads : task'[u] \notin {"bind", "ending"}
    BY <1>7, <1>8, <1>14, <2>1
  <2>3. Binding'
    BY <2>2 DEF Binding
  <2>4. Ending'
    BY <1>3, <1>4, <2>1, <2>2 DEF Ending
  <2> QED
    BY <1>9, <1>10, <1>11, <1>12, <1>13, <2>3, <2>4
<1>15. CASE task[t] = "ending"
  <2>1. /\ \A u \in Threads : task[u] = "ending" => u = t
        /\ ended = 1 /\ told = 0 /\ ~abandoned
    BY <1>1, <1>15 DEF Ending
  <2>2. \A u \in Threads : task[u] = "bind" => pc[u] = "setBound"
    BY <2>1 DEF Binding
  <2>3. label = "tell" /\ busy = "ending" /\ session' = session
    BY <1>4, <1>7, <1>15
  <2>4. Binding'
    BY <1>8, <2>2, <2>3 DEF Binding
  <2>5. Ending'
    BY <1>3, <1>4, <1>8, <2>1, <2>3 DEF Ending
  <2> QED
    BY <1>9, <1>10, <1>11, <1>12, <1>13, <2>4, <2>5
<1> QED
  BY <1>2, <1>14, <1>15

LEMMA TellKeeps ==
    ASSUME IInv, NEW t \in Users \cup Pool, Tell(t)
    PROVE  IInv' /\ Life!Tell
<1> USE DEF IInv
<1>1. t \in Threads /\ t # Parser
  BY OthersAreThreads
<1>2. /\ pc[t] = "tell" /\ session # "none" /\ task[t] = "ending"
  BY <1>1, BusyIsAfter DEF Tell, DestroyTimer, RaiseSessionClosedEvent, Step, Labels, OkAt
<1>3. /\ NoParts /\ ~tcpAlive /\ ~vIsAlive /\ ended = 1 /\ told = 0 /\ ~abandoned
      /\ \A u \in Threads : task[u] = "ending" => u = t
      /\ \A u \in Threads : task[u] = "bind" => pc[u] = "setBound"
  BY <1>1, <1>2 DEF Ending, Binding
<1>4. /\ pc' = [pc EXCEPT ![t] = "idle"] /\ task' = [task EXCEPT ![t] = "none"]
      /\ vTimer' = FALSE /\ told' = 1
      /\ UNCHANGED <<jobs, socket, tcpAlive, tcpLock, tcpSubscribed, vTcpIpSession, vTrans,
                     vRespHandler, vStreamParser, vRunning, vStopOnNextCycle, session,
                     vIsAlive, vState, ended, abandoned, reply>>
  BY <1>3 DEF Tell, DestroyTimer, RaiseSessionClosedEvent, Step, Goto, tcpVars, parserVars
<1>5. /\ pc' \in [Threads -> Labelled] /\ task' \in [Threads -> Tasks]
      /\ \A u \in Threads : pc'[u] = IF u = t THEN "idle" ELSE pc[u]
      /\ \A u \in Threads : task'[u] = IF u = t THEN "none" ELSE task[u]
  BY <1>1, <1>4, UpdateIs, LabelsExist
<1>6. TypeOK'
  <2>1. pc' \in [Threads -> Labelled] /\ task' \in [Threads -> Tasks]
    BY <1>5
  <2>2. told' \in {0, 1} /\ vTimer' \in BOOLEAN
    BY <1>4
  <2> QED
    BY <1>4, <2>1, <2>2 DEF TypeOK, Labelled, Tasks
<1>7. Labels'
  <2>1. OkAt(t, "idle", "none")
    BY <1>1 DEF OkAt, SessionPc, EndPc
  <2> QED
    BY <1>5, <2>1 DEF Labels
<1>8. Fresh'
  BY <1>2, <1>4 DEF Fresh
<1>9. Connection'
  BY <1>2, <1>4, <1>5 DEF Connection, Terminating, Shutting, Closing
<1>10. Down'
  BY <1>2, <1>4, <1>5 DEF Down, Terminating, Shutting, Closing
<1>11. Binding'
  BY <1>3, <1>4, <1>5 DEF Binding
<1>12. Ending'
  <2>1. \A u \in Threads : task'[u] # "ending"
    BY <1>3, <1>5
  <2> QED
    BY <1>3, <1>4, <2>1 DEF Ending, NoParts
<1>13. Life!Tell
  BY <1>3, <1>4 DEF Life!Tell
<1> QED
  BY <1>6, <1>7, <1>8, <1>9, <1>10, <1>11, <1>12, <1>13

(***************************************************************************)
(* The parser, and the network.                                            *)
(***************************************************************************)

LEMMA ParserMayGo ==
    /\ Parser \in Threads
    /\ \A label \in {"cycle", "stopped", "receive", "receiveSocket", "blocked", "zero",
                     "handle", "raise", "dead"} :
           task[Parser] = "none" => MayGo(Parser, label)
    /\ \A label \in {"handleShut", "handleClose", "zeroShut", "zeroClose"} :
           task[Parser] = "none" => OkAt(Parser, label, Busy(Parser, label))
BY DEF Threads, MayGo, OkAt, Busy, ReceivePc, ParserPc, Terminating, Shutting, Closing

\* A Receive that got no bytes.
LEMMA ZeroKeeps ==
    ASSUME IInv, ZeroStep(Parser), SessionStays, UNCHANGED reply
    PROVE  IInv'
<1>1. /\ reply' \in [Threads -> {"none", "sent", "answered"}]
      /\ jobs \subseteq Jobs /\ socket \in Sockets
      /\ tcpAlive \in BOOLEAN /\ tcpLock \subseteq Threads
      /\ pc \in [Threads -> Labelled]
      /\ Connection /\ Down /\ task[Parser] = "none"
  BY DEF IInv, TypeOK, Labelled, Labels, OkAt, Threads
<1>2. pc[Parser] \in {"zero", "zeroShut", "zeroClose"} /\ session # "none"
  <2>1. pc[Parser] \in {"zero", "zeroShut", "zeroClose"}
    BY DEF ZeroStep, ReceiveZero, Shutdown, Close, Step
  <2> QED
    BY <2>1, ParserMayGo, BusyIsAfter
<1>3. \A label : Goto(Parser, label) =>
          \A u \in Threads : pc'[u] = IF u = Parser THEN label ELSE pc[u]
  BY <1>1 DEF Goto
<1>4. CASE ReceiveZero(Parser)
  <2>1. CASE ~tcpAlive
    <3>1. /\ Goto(Parser, "receive") /\ UNCHANGED <<tcpVars, jobs>> /\ pc[Parser] = "zero"
      BY <1>1, <1>4, <2>1 DEF ReceiveZero, Step, tcpVars
    <3> QED
      BY <1>1, <1>2, <3>1, ParserMayGo, TcpMoveKeeps DEF Terminating, Shutting, Closing
  <2>2. CASE tcpAlive
    <3>1. /\ Goto(Parser, "zeroShut") /\ pc[Parser] = "zero" /\ tcpLock = {} /\ tcpLock' = {}
          /\ tcpAlive' = FALSE /\ UNCHANGED <<socket, tcpSubscribed, jobs>>
      BY <1>4, <2>2 DEF ReceiveZero, Step
    <3>2. /\ socket \in {"up", "finished", "broken"}
          /\ \A u \in Threads : pc[u] \notin Terminating
      BY <1>1, <2>2, <3>1 DEF Connection
    <3>3. \A u \in Threads : pc'[u] = IF u = Parser THEN "zeroShut" ELSE pc[u]
      BY <1>3, <3>1
    <3>4. Connection'
      BY <3>1, <3>2, <3>3 DEF Connection, Terminating, Shutting, Closing
    <3>5. Down'
      BY <3>3, ParserMayGo DEF Down, Terminating, Shutting
    <3> QED
      BY <1>1, <1>2, <3>1, <3>4, <3>5, ParserMayGo, TcpKeeps
  <2> QED
    BY <2>1, <2>2
<1>5. CASE Shutdown(Parser, "zeroShut", "zeroClose", "handle") /\ UNCHANGED tcpLock
  <2>1. /\ pc[Parser] = "zeroShut" /\ UNCHANGED <<tcpAlive, tcpSubscribed, jobs, tcpLock>>
    BY <1>5 DEF Shutdown, Step
  <2>2. ~tcpAlive /\ pc[Parser] \in Terminating
    BY <1>1, <2>1, ParserMayGo DEF Connection, Terminating, Shutting
  <2>3. CASE Goto(Parser, "zeroClose") /\ socket' = "shut"
    <3>1. \A u \in Threads : pc'[u] = IF u = Parser THEN "zeroClose" ELSE pc[u]
      BY <1>3, <2>3
    <3>2. Connection'
      BY <1>1, <2>1, <2>2, <2>3, <3>1, ParserMayGo
         DEF Connection, Terminating, Shutting, Closing
    <3>3. Down' /\ socket' \in Sockets
      BY <2>3, <3>1, ParserMayGo DEF Down, Sockets, Terminating, Closing
    <3> QED
      BY <1>1, <1>2, <2>1, <2>3, <3>2, <3>3, ParserMayGo, TcpKeeps
  <2>4. CASE CloseMayFail /\ socket = "broken" /\ Goto(Parser, "handle") /\ UNCHANGED socket
    <3>1. \A u \in Threads : pc'[u] = IF u = Parser THEN "handle" ELSE pc[u]
      BY <1>3, <2>4
    <3>2. Connection'
      BY <1>1, <2>1, <2>2, <2>4, <3>1 DEF Connection, Terminating, Shutting, Closing
    <3>3. Down'
      BY <2>4 DEF Down
    <3> QED
      BY <1>1, <1>2, <2>1, <2>4, <3>2, <3>3, ParserMayGo, TcpKeeps DEF MayGo
  <2> QED
    BY <1>5, <2>3, <2>4 DEF Shutdown, Step
<1>6. CASE /\ Close(Parser, "zeroClose", "receive", "tcpShutdown")
           /\ UNCHANGED <<tcpAlive, tcpLock>>
  <2>1. /\ pc[Parser] = "zeroClose" /\ Goto(Parser, "receive") /\ socket' = "closed"
        /\ UNCHANGED <<tcpAlive, tcpLock, tcpSubscribed>>
        /\ jobs' \subseteq Jobs
    BY <1>1, <1>6 DEF Close, Step, Jobs, TcpJobs
  <2>2. ~tcpAlive /\ pc[Parser] \in Terminating
    BY <1>1, <2>1, ParserMayGo DEF Connection, Terminating, Closing
  <2>3. \A u \in Threads : pc'[u] = IF u = Parser THEN "receive" ELSE pc[u]
    BY <1>3, <2>1
  <2>4. Connection'
    BY <1>1, <2>1, <2>2, <2>3, ParserMayGo DEF Connection, Terminating, Shutting, Closing
  <2>5. Down' /\ socket' \in Sockets
    BY <2>1 DEF Down, Sockets
  <2> QED
    BY <1>1, <1>2, <2>1, <2>4, <2>5, ParserMayGo, TcpKeeps DEF MayGo
<1> QED
  BY <1>4, <1>5, <1>6 DEF ZeroStep

LEMMA ParserKeeps ==
    ASSUME IInv, ParserStep \/ Receive
    PROVE  IInv' /\ UNCHANGED Life!vars
<1>1. /\ task[Parser] = "none" /\ jobs \subseteq Jobs /\ Parser \in Threads
      /\ reply \in [Threads -> {"none", "sent", "answered"}]
      /\ vRunning \in BOOLEAN /\ vStopOnNextCycle \in BOOLEAN
      /\ tcpSubscribed \in BOOLEAN /\ vState \in {"open", "bound", "closed"}
  BY DEF IInv, TypeOK, Labels, OkAt, Threads
<1>2. UNCHANGED lifeVars /\ UNCHANGED fieldVars
  BY DEF ParserStep, ParserStarts, Cycle, ReceiveStep, RaiseParserException, Receive
<1>3. UNCHANGED Life!vars
  BY <1>2 DEF lifeVars, Life!vars
<1> SUFFICES IInv'
  BY <1>3
<1>4. ASSUME NEW label \in {"cycle", "stopped", "receive"}, Goto(Parser, label),
             pc[Parser] \in {"idle", "cycle", "raise", "blocked"}, session # "none",
             UNCHANGED tcpVars, jobs' \subseteq Jobs,
             vRunning' \in BOOLEAN, vStopOnNextCycle' \in BOOLEAN,
             reply' \in [Threads -> {"none", "sent", "answered"}]
      PROVE  IInv'
  <2>1. Stays /\ OthersTyped
    BY <1>1, <1>2, <1>4 DEF Stays, OthersTyped, tcpVars, lifeVars
  <2> QED
    BY <1>1, <1>4, <2>1, ParserMayGo, GotoKeeps DEF MayGo, Terminating, Shutting, Closing
<1>5. pc[Parser] # "idle" => session # "none"
  BY <1>1, BusyIsAfter
<1>6. CASE ParserStarts
  BY <1>1, <1>4, <1>6 DEF ParserStarts, Step
<1>7. CASE Cycle
  BY <1>1, <1>4, <1>5, <1>7 DEF Cycle, Step
<1>8. CASE RaiseParserException
  <2>1. jobs' \subseteq Jobs
    BY <1>1, <1>8 DEF RaiseParserException, Jobs
  <2> QED
    BY <1>1, <1>4, <1>5, <1>8, <2>1 DEF RaiseParserException, Step
<1>9. CASE Receive
  <2>1. jobs' \subseteq Jobs /\ reply' \in [Threads -> {"none", "sent", "answered"}]
    BY <1>1, <1>9 DEF Receive, Jobs
  <2> QED
    BY <1>1, <1>4, <1>5, <1>9, <2>1 DEF Receive, Step, parserVars
<1>10. CASE ReceiveStep
  <2>1. SessionStays /\ UNCHANGED reply
    BY <1>10 DEF ReceiveStep, SessionStays
  <2>2. ASSUME NEW label \in {"receiveSocket", "raise", "dead", "blocked", "zero", "handle"},
               Goto(Parser, label), pc[Parser] \in {"receive", "receiveSocket", "blocked"},
               UNCHANGED <<tcpVars, jobs>>
        PROVE  IInv'
    BY <1>1, <1>5, <2>1, <2>2, ParserMayGo, TcpMoveKeeps DEF Terminating, Shutting, Closing
  <2>3. CASE CheckSession(Parser, "receive", "receiveSocket", "raise")
    BY <2>2, <2>3 DEF CheckSession, Step
  <2>4. CASE ReceiveSocket(Parser, "dead")
    BY <2>2, <2>4 DEF ReceiveSocket, Step
  <2>5. CASE ReceiveEnds(Parser)
    BY <2>2, <2>5 DEF ReceiveEnds, Step
  <2>6. CASE ZeroStep(Parser)
    BY <2>1, <2>6, ZeroKeeps
  <2>7. CASE TerminateStep(Parser, "raise", "dead")
    <3>1. /\ OkAt(Parser, "handleShut", task[Parser])
          /\ OkAt(Parser, "handleClose", task[Parser])
          /\ MayGo(Parser, "raise") /\ MayGo(Parser, "dead")
      BY <1>1, ParserMayGo DEF Busy
    <3> QED
      BY <1>1, <2>1, <2>7, <3>1, TerminateKeeps
  <2> QED
    BY <1>10, <2>3, <2>4, <2>5, <2>6, <2>7 DEF ReceiveStep
<1> QED
  BY <1>6, <1>7, <1>8, <1>9, <1>10 DEF ParserStep

LEMMA EnvironmentKeeps ==
    ASSUME IInv, Environment
    PROVE  IInv' /\ UNCHANGED Life!vars
<1> USE DEF IInv
<1>1. /\ socket \in {"up", "finished"} /\ socket' \in {"finished", "broken"}
      /\ UNCHANGED <<pc, task, jobs, tcpAlive, tcpLock, tcpSubscribed, fieldVars, parserVars,
                     lifeVars, reply>>
  BY DEF Environment, PeerFinishes, Breaks, threadVars
<1>2. TypeOK'
  BY <1>1 DEF TypeOK, fieldVars, parserVars, lifeVars, Sockets
<1>3. Labels' /\ Fresh'
  BY <1>1 DEF Labels, Fresh, fieldVars, lifeVars
<1>4. Binding' /\ Ending'
  BY <1>1 DEF Binding, Ending, fieldVars, lifeVars, AllParts, NoParts
<1>5. Connection'
  BY <1>1 DEF Connection
<1>6. Down'
  BY <1>1 DEF Down, lifeVars
<1>7. UNCHANGED Life!vars
  BY <1>1 DEF lifeVars, Life!vars
<1> QED
  BY <1>2, <1>3, <1>4, <1>5, <1>6, <1>7

(***************************************************************************)
(* The theorems.                                                           *)
(***************************************************************************)

LEMMA InitHolds ==
    ASSUME Init
    PROVE  IInv /\ Life!Init
<1>1. /\ pc = [t \in Threads |-> "idle"] /\ task = [t \in Threads |-> "none"]
      /\ jobs = {} /\ socket = "none" /\ tcpAlive = FALSE /\ tcpLock = {}
      /\ session = "none" /\ vIsAlive = FALSE /\ vTimer = FALSE
      /\ ended = 0 /\ told = 0 /\ abandoned = FALSE
  BY DEF Init, TcpInit
<1>2. TypeOK
  BY DEF Init, TcpInit, TypeOK, Sockets, SessionPc
<1>3. Labels
  BY <1>1 DEF Labels, OkAt, SessionPc, EndPc
<1>4. Fresh /\ Down /\ Binding /\ Ending
  BY <1>1 DEF Fresh, Down, Binding, Ending
<1>5. Connection
  BY <1>1 DEF Connection, Terminating, Shutting, Closing
<1>6. Life!Init
  BY <1>1 DEF Life!Init
<1> QED
  BY <1>2, <1>3, <1>4, <1>5, <1>6 DEF IInv

\* Every step keeps the invariant, and is a step of SessionLife or leaves it unchanged.
LEMMA StepHolds ==
    ASSUME IInv, [Next]_vars
    PROVE  IInv' /\ [Life!Next]_(Life!vars)
<1>1. ASSUME UNCHANGED vars PROVE IInv' /\ UNCHANGED Life!vars
  <2> USE <1>1 DEF vars, threadVars, tcpVars, fieldVars, parserVars, lifeVars
  <2>1. UNCHANGED Life!vars
    BY DEF Life!vars
  <2>2. TypeOK' /\ Labels' /\ Fresh'
    BY DEF IInv, TypeOK, Labels, Fresh
  <2>3. Binding' /\ Ending' /\ Connection' /\ Down'
    BY DEF IInv, Binding, Ending, Connection, Down, AllParts, NoParts
  <2> QED
    BY <2>1, <2>2, <2>3 DEF IInv
<1>2. ASSUME NEW t \in Users, Bind(t) PROVE IInv' /\ UNCHANGED Life!vars
  BY <1>2, BindKeeps DEF Bind, Life!vars
<1>3. ASSUME NEW t \in Users, Call(t) PROVE IInv' /\ UNCHANGED Life!vars
  BY <1>3, CallKeeps DEF Call, lifeVars, Life!vars
<1>4. ASSUME NEW t \in Pool, Elapsed(t) PROVE IInv' /\ UNCHANGED Life!vars
  BY <1>4, ElapsedKeeps DEF Elapsed, lifeVars, Life!vars
<1>5. ASSUME NEW t \in Pool, NEW job \in Jobs, Deliver(t, job)
      PROVE  IInv' /\ UNCHANGED Life!vars
  BY <1>5, DeliverKeeps DEF Deliver, lifeVars, Life!vars
<1>6. ASSUME NEW t \in Users \cup Pool, ThreadStep(t)
      PROVE  IInv' /\ [Life!Next]_(Life!vars)
  <2>1. CASE CheckState(t)
    BY <2>1, CheckStateKeeps DEF CheckState, lifeVars, Life!vars
  <2>2. CASE SendStep(t)
    BY <2>2, SendKeeps DEF SendStep, lifeVars, Life!vars
  <2>3. CASE WaitResponse(t)
    BY <2>3, WaitResponseKeeps DEF WaitResponse, lifeVars, Life!vars
  <2>4. CASE Answered(t)
    BY <2>4, AnsweredKeeps DEF Answered, lifeVars, Life!vars
  <2>5. CASE TimesOut(t)
    BY <2>5, TimesOutKeeps DEF TimesOut, lifeVars, Life!vars
  <2>6. CASE BindSession(t)
    BY <2>6, BindSessionKeeps DEF BindSession, lifeVars, Life!vars
  <2>7. CASE MarkAlive(t)
    BY <2>7, MarkAliveKeeps DEF Life!Next
  <2>8. CASE SetBound(t)
    BY <2>8, SetBoundKeeps DEF SetBound, Life!vars
  <2>9. CASE EndSession(t)
    BY <2>9, EndSessionKeeps DEF Life!Next
  <2>10. CASE DestroyTcpIpSession(t)
    BY <2>10, DestroyKeeps DEF DestroyTcpIpSession, lifeVars, Life!vars
  <2>11. CASE TcpEndStep(t)
    BY <2>11, TcpEndKeeps DEF Life!Next
  <2>12. CASE Disassemble(t)
    BY <2>12, DisassembleKeeps DEF Disassemble, Life!vars
  <2>13. CASE Tell(t)
    BY <2>13, TellKeeps DEF Life!Next
  <2> QED
    BY <1>6, <2>1, <2>2, <2>3, <2>4, <2>5, <2>6, <2>7, <2>8, <2>9, <2>10, <2>11, <2>12, <2>13
       DEF ThreadStep
<1>7. ASSUME ParserStep \/ Receive PROVE IInv' /\ UNCHANGED Life!vars
  BY <1>7, ParserKeeps
<1>8. ASSUME Environment PROVE IInv' /\ UNCHANGED Life!vars
  BY <1>8, EnvironmentKeeps
<1> QED
  BY <1>1, <1>2, <1>3, <1>4, <1>5, <1>6, <1>7, <1>8 DEF Next

LEMMA Invariant == Spec => []IInv
<1>1. Init => IInv
  BY InitHolds
<1>2. IInv /\ [Next]_vars => IInv'
  BY StepHolds
<1> QED
  BY <1>1, <1>2, PTL DEF Spec

\* The variables of the session keep their types; in particular it ends and tells at most
\* once (ended and told stay at most 1).
THEOREM SessionTypes == Spec => []TypeOK
<1>1. IInv => TypeOK
  BY DEF IInv
<1> QED
  BY <1>1, Invariant, PTL

\* The connection is shut down by one thread only, although senders, the receiver and
\* EndSession may all find it over at the same time.
THEOREM ShutDownOnce == Spec => []TerminatedOnce
<1>1. IInv => TerminatedOnce
  BY DEF IInv, Connection, TerminatedOnce, Terminating, Shutting, Closing
<1> QED
  BY <1>1, Invariant, PTL

\* Nobody takes the parts of a session that is alive, or that still has to unbind.
THEOREM PartsOutliveTheSession == Spec => []AliveHasParts
<1>1. IInv => AliveHasParts
  BY DEF IInv, Binding, Ending, AliveHasParts, AllParts, SendPc
<1> QED
  BY <1>1, Invariant, PTL

\* When a session tells that it has ended, its connection is down, its parts are gone and
\* its timer is off, and they stay so.
THEOREM ToldWhenDown == Spec => []ToldIsDown
<1>1. ASSUME IInv, told > 0 PROVE ToldIsDown
  <2>1. told = 1
    BY <1>1 DEF IInv, TypeOK
  <2>2. ~tcpAlive /\ NoParts /\ ~vTimer /\ session # "none"
    BY <1>1, <2>1 DEF IInv, Ending, Fresh
  <2> QED
    BY <1>1, <2>2 DEF IInv, Down, ToldIsDown, NoParts, Terminating
<1>2. IInv => ToldIsDown
  BY <1>1 DEF ToldIsDown
<1> QED
  BY <1>2, Invariant, PTL

\* Every step of a session is a step of SessionLife or leaves it unchanged: it comes to
\* life once at most, and ends and tells once at most, whoever ends it.
THEOREM LivesOnce == Spec => Life!Init /\ [][Life!Next]_(Life!vars)
<1>1. Init => Life!Init
  BY InitHolds
<1>2. IInv /\ [Next]_vars => [Life!Next]_(Life!vars)
  BY StepHolds
<1> QED
  BY <1>1, <1>2, Invariant, PTL DEF Spec
=============================================================================
