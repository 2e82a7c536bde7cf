------------------------------ MODULE SmppClient ------------------------------
(***************************************************************************)
(* The connection of an SmppClient (SmppClient.cs): opening, closing and   *)
(* automatic reconnection.                                                 *)
(*                                                                         *)
(* The processes are the application's threads, which call Start,          *)
(* Shutdown, Restart and ForceConnect, and the threads of the thread pool, *)
(* which run the callback of the reconnect timer and the handler of a      *)
(* session's SessionClosed event.  Only Open takes the lock vConnSyncRoot; *)
(* everything else reads and writes the fields as it comes.                *)
(*                                                                         *)
(* A session (SmppClientSession) is known here by what the client sees of  *)
(* it: it is bound, it ends once, either because the client ends it or     *)
(* because the connection is lost, and if somebody has subscribed by then  *)
(* it has its SessionClosed event delivered by the pool, sometime, unless  *)
(* the ending is cut short by an exception (GiveUp in SessionLife).        *)
(***************************************************************************)
EXTENDS Integers, FiniteSets

CONSTANTS
    Callers,        \* threads of the application
    Workers,        \* threads of the thread pool
    Operations,     \* the operations that the application uses
    MaxOperations,  \* bound on the number of operations called
    MaxSessions,    \* bound on the number of sessions that anybody remembers at a time
    Separately      \* {TRUE}: v33, two connections; {FALSE}: one; BOOLEAN: it may change

ASSUME ConstantsAssumption ==
    /\ Callers \cap Workers = {}
    /\ Operations \subseteq {"Start", "Shutdown", "Restart", "ForceConnect"}
    /\ MaxOperations \in Nat
    /\ MaxSessions \in Nat \ {0}
    /\ Separately \subseteq BOOLEAN

Procs == Callers \cup Workers
Sessions == 1..MaxSessions
null == 0

VARIABLES
    pc,             \* what each process executes next
    separate,       \* useSeparateConnections of the OpenSession a process is in
    session,        \* the session a process binds or ends
    restarting,     \* the callers that are inside Restart
    operations,     \* the number of operations called so far
    vState,
    vTrans,
    vRecv,
    vStarted,
    vTimer,         \* TRUE while the reconnect timer is armed
    vLastException, \* TRUE if it is not null
    vConnSyncRoot,  \* the thread inside the monitor, if any
    alive,          \* the sessions whose vIsAlive is TRUE
    closing,        \* lost sessions that have not yet raised SessionClosed
    subscribed,     \* the sessions the client's handlers are attached to
    notices         \* SessionClosed events on their way to the handler

localVars   == <<separate, session, restarting, operations>>
fieldVars   == <<vState, vTrans, vRecv>>
monitorVars == <<vLastException, vConnSyncRoot>>
sessionVars == <<alive, closing, subscribed, notices>>
vars == <<pc, localVars, fieldVars, vStarted, vTimer, monitorVars, sessionVars>>

OpenPc == {"tryEnter", "enter", "waited", "check", "connecting", "bindBoth", "setRecv",
           "subscribeBoth", "connected", "smscId", "failed", "rearm", "bindRecv",
           "subscribeRecv", "bindTrans", "subscribeTrans", "dropRecv", "recvDropped",
           "clearDropped", "succeeded", "threw"}
ClosePc == {"close", "setClosed", "endTrans", "transEnding", "endRecv", "recvEnding",
            "clearTrans", "clearRecv"}
CallerPc == {"start", "startTimer", "shutTimer"}
WorkerPc == {"timer", "timerStop", "after", "timerStart", "timerStopAgain", "handlerTimer"}

Notice == [session : Sessions, reason : {"EndSessionCalled", "Lost"}]

TypeOK ==
    /\ pc \in [Procs -> {"idle"} \cup OpenPc \cup ClosePc \cup CallerPc \cup WorkerPc]
    /\ separate \in [Procs -> BOOLEAN]
    /\ session \in [Procs -> Sessions \cup {null}]
    /\ restarting \subseteq Callers
    /\ operations \in 0..MaxOperations
    /\ vState \in {"Closed", "Connecting", "Connected"}
    /\ vTrans \in Sessions \cup {null}
    /\ vRecv \in Sessions \cup {null}
    /\ vStarted \in BOOLEAN
    /\ vTimer \in BOOLEAN
    /\ vLastException \in BOOLEAN
    /\ vConnSyncRoot \subseteq Procs
    /\ alive \subseteq Sessions
    /\ closing \subseteq Sessions
    /\ subscribed \subseteq Sessions
    /\ notices \subseteq Notice

Init ==
    /\ pc = [p \in Procs |-> "idle"]
    /\ separate = [p \in Procs |-> FALSE]
    /\ session = [p \in Procs |-> null]
    /\ restarting = {}
    /\ operations = 0
    /\ vState = "Closed"
    /\ vTrans = null
    /\ vRecv = null
    /\ vStarted = FALSE
    /\ vTimer = FALSE
    /\ vLastException = FALSE
    /\ vConnSyncRoot = {}
    /\ alive = {}
    /\ closing = {}
    /\ subscribed = {}
    /\ notices = {}

Goto(p, label) == pc' = [pc EXCEPT ![p] = label]
Step(p, from, to) == pc[p] = from /\ Goto(p, to)

(***************************************************************************)
(* What a session does.                                                    *)
(***************************************************************************)

\* The names of sessions that nothing refers to any more are used again.
Unused ==
    Sessions \ (alive \cup closing \cup {n.session : n \in notices}
                   \cup {vTrans, vRecv} \cup {session[p] : p \in Procs})
NewSession == CHOOSE s \in Unused : TRUE

\* Bind returns a session that is alive, and to which nobody has subscribed.
Bound ==
    /\ Unused # {}
    /\ alive' = alive \cup {NewSession}
    /\ subscribed' = subscribed \ {NewSession}
    /\ UNCHANGED <<separate, restarting, operations, closing, notices>>

\* EndSession does nothing to null or to a session that has ended; otherwise it unbinds,
\* which takes time, and then raises the event.
EndSession(p, s, ending, next) ==
    IF s \in alive
    THEN /\ alive' = alive \ {s}
         /\ session' = [session EXCEPT ![p] = s]
         /\ Goto(p, ending)
    ELSE /\ UNCHANGED <<alive, session>>
         /\ Goto(p, next)

\* It raises the event once, so that the subscription has served its purpose.
RaiseSessionClosed(s, reason) ==
    /\ notices' = IF s \in subscribed
                  THEN notices \cup {[session |-> s, reason |-> reason]}
                  ELSE notices
    /\ subscribed' = subscribed \ {s}

SessionEnded(p) ==
    /\ RaiseSessionClosed(session[p], "EndSessionCalled")
    /\ session' = [session EXCEPT ![p] = null]

\* The connection is lost, the peer unbinds, or an enquire-link is not answered.
Lose(s) ==
    /\ s \in alive
    /\ alive' = alive \ {s}
    /\ closing' = closing \cup {s}
    /\ UNCHANGED <<pc, localVars, fieldVars, vStarted, vTimer, monitorVars, subscribed, notices>>

Closed(s) ==
    /\ s \in closing
    /\ closing' = closing \ {s}
    /\ RaiseSessionClosed(s, "Lost")
    /\ UNCHANGED <<pc, localVars, fieldVars, vStarted, vTimer, monitorVars, alive>>

\* Shutting down the socket of a broken connection may throw (TcpIpSession.TerminateSession,
\* DestroyTcpIpSession): the session has ended, and nobody is told.
Abandoned(s) ==
    /\ s \in closing
    /\ closing' = closing \ {s}
    /\ UNCHANGED <<pc, localVars, fieldVars, vStarted, vTimer, monitorVars, alive, subscribed,
                   notices>>

\* An ending that the client makes itself may throw in the same way.  OpenSession catches
\* that; CloseSession does not: vTrans and vRecv keep their sessions, the other one is not
\* ended, and the exception leaves Shutdown or Restart too.  (A pool thread throws it once
\* more, in EndInvoke, where nothing need catch it.  Here the program goes on.)
CutShort(p) ==
    /\ \/ Step(p, "recvDropped", "clearDropped") /\ UNCHANGED restarting
       \/ /\ pc[p] \in {"transEnding", "recvEnding"}
          /\ Goto(p, "idle")
          /\ restarting' = restarting \ {p}
    /\ session' = [session EXCEPT ![p] = null]
    /\ UNCHANGED <<separate, operations, fieldVars, vStarted, vTimer, monitorVars, sessionVars>>

InitializeSession(s) == subscribed' = subscribed \cup {s}

(***************************************************************************)
(* Open.                                                                   *)
(***************************************************************************)
TryEnter(p) ==
    /\ pc[p] = "tryEnter"
    /\ IF vConnSyncRoot = {}
       THEN vConnSyncRoot' = {p} /\ Goto(p, "check")
       ELSE vConnSyncRoot' = vConnSyncRoot /\ Goto(p, "enter")
    /\ UNCHANGED <<localVars, fieldVars, vStarted, vTimer, vLastException, sessionVars>>

\* Another thread is connecting: wait until it has finished.
Enter(p) ==
    /\ Step(p, "enter", "waited")
    /\ vConnSyncRoot = {}
    /\ vConnSyncRoot' = {p}
    /\ UNCHANGED <<localVars, fieldVars, vStarted, vTimer, vLastException, sessionVars>>

\* A worker goes on with the timer callback, a caller has returned from ForceConnect.
Returned(p) == Goto(p, IF p \in Workers THEN "after" ELSE "idle")

\* The result of the other thread is this one's result; it is not touched.
Waited(p) ==
    /\ pc[p] = "waited"
    /\ Returned(p)
    /\ vConnSyncRoot' = {}
    /\ UNCHANGED <<localVars, fieldVars, vStarted, vTimer, vLastException, sessionVars>>

Check(p) ==
    /\ pc[p] = "check"
    /\ \/ /\ vState # "Closed"
          /\ Goto(p, "threw")
          /\ UNCHANGED separate
       \/ /\ vState = "Closed"
          /\ Goto(p, "connecting")
          /\ \E b \in Separately : separate' = [separate EXCEPT ![p] = b]
    /\ UNCHANGED <<session, restarting, operations, fieldVars, vStarted, vTimer, monitorVars,
                   sessionVars>>

\* Mutant: an Open that fails does not leave the monitor.
KeepLocked(p) ==
    /\ pc[p] \in {"succeeded", "threw"}
    /\ Returned(p)
    /\ vLastException' = (pc[p] = "threw")
    /\ vConnSyncRoot' = IF pc[p] = "threw" THEN vConnSyncRoot ELSE {}
    /\ separate' = [separate EXCEPT ![p] = FALSE]
    /\ UNCHANGED <<session, restarting, operations, fieldVars, vStarted, vTimer, sessionVars>>

\* vLastException is set before the monitor is left; nobody reads it outside.  The local
\* of OpenSession is gone.
Exit(p) ==
    /\ pc[p] \in {"succeeded", "threw"}
    /\ Returned(p)
    /\ vLastException' = (pc[p] = "threw")
    /\ vConnSyncRoot' = {}
    /\ separate' = [separate EXCEPT ![p] = FALSE]
    /\ UNCHANGED <<session, restarting, operations, fieldVars, vStarted, vTimer, sessionVars>>

(***************************************************************************)
(* OpenSession.                                                            *)
(***************************************************************************)
Connecting(p) ==
    /\ Step(p, "connecting", IF separate[p] THEN "bindRecv" ELSE "bindBoth")
    /\ vState' = "Connecting"
    /\ UNCHANGED <<localVars, vTrans, vRecv, vStarted, vTimer, monitorVars, sessionVars>>

\* One session for both.  If the SMSC does not know bind_transceiver, OpenSession is called
\* again for separate connections.
BindBoth(p) ==
    /\ pc[p] = "bindBoth"
    /\ \/ /\ Bound
          /\ vTrans' = NewSession
          /\ session' = [session EXCEPT ![p] = NewSession]
          /\ Goto(p, "setRecv")
       \/ Goto(p, "failed") /\ UNCHANGED <<localVars, vTrans, sessionVars>>
       \/ /\ Goto(p, "connecting")
          /\ separate' = [separate EXCEPT ![p] = TRUE]
          /\ UNCHANGED <<session, restarting, operations, vTrans, sessionVars>>
    /\ UNCHANGED <<vState, vRecv, vStarted, vTimer, monitorVars>>

SetRecv(p) ==
    /\ Step(p, "setRecv", "subscribeBoth")
    /\ vRecv' = session[p]
    /\ UNCHANGED <<localVars, vState, vTrans, vStarted, vTimer, monitorVars, sessionVars>>

SubscribeBoth(p) ==
    /\ Step(p, "subscribeBoth", "connected")
    /\ InitializeSession(session[p])
    /\ session' = [session EXCEPT ![p] = null]
    /\ UNCHANGED <<separate, restarting, operations, fieldVars, vStarted, vTimer, monitorVars,
                   alive, closing, notices>>

Connected(p) ==
    /\ Step(p, "connected", "smscId")
    /\ vState' = "Connected"
    /\ UNCHANGED <<localVars, vTrans, vRecv, vStarted, vTimer, monitorVars, sessionVars>>

\* vTrans.SmscID throws if CloseSession has meanwhile set vTrans to null.  With separate
\* connections nothing catches that inside OpenSession.
SmscId(p) ==
    /\ pc[p] = "smscId"
    /\ \/ vTrans # null /\ Goto(p, "succeeded")
       \/ vTrans = null /\ Goto(p, IF separate[p] THEN "threw" ELSE "failed")
    /\ UNCHANGED <<localVars, fieldVars, vStarted, vTimer, monitorVars, sessionVars>>

BindRecv(p) ==
    /\ pc[p] = "bindRecv"
    /\ \/ Bound /\ vRecv' = NewSession /\ Goto(p, "subscribeRecv") /\ UNCHANGED session
       \/ Goto(p, "failed") /\ UNCHANGED <<localVars, vRecv, sessionVars>>
    /\ UNCHANGED <<vState, vTrans, vStarted, vTimer, monitorVars>>

\* Mutant: a session that has been set to null meanwhile goes unnoticed.
SubscribeUnchecked(p) ==
    /\ Step(p, "subscribeRecv", "bindTrans")
    /\ InitializeSession(vRecv)
    /\ UNCHANGED <<localVars, fieldVars, vStarted, vTimer, monitorVars, alive,
                   closing, notices>>

\* InitializeSession(vRecv) and, below, (vTrans) throw if the field is null again.
SubscribeRecv(p) ==
    /\ pc[p] = "subscribeRecv"
    /\ \/ vRecv # null /\ InitializeSession(vRecv) /\ Goto(p, "bindTrans")
       \/ vRecv = null /\ Goto(p, "failed") /\ UNCHANGED subscribed
    /\ UNCHANGED <<localVars, fieldVars, vStarted, vTimer, monitorVars, alive,
                   closing, notices>>

BindTrans(p) ==
    /\ pc[p] = "bindTrans"
    /\ \/ Bound /\ vTrans' = NewSession /\ Goto(p, "subscribeTrans") /\ UNCHANGED session
       \/ Goto(p, "dropRecv") /\ UNCHANGED <<localVars, vTrans, sessionVars>>
    /\ UNCHANGED <<vState, vRecv, vStarted, vTimer, monitorVars>>

SubscribeTrans(p) ==
    /\ pc[p] = "subscribeTrans"
    /\ \/ vTrans # null /\ InitializeSession(vTrans) /\ Goto(p, "connected")
       \/ vTrans = null /\ Goto(p, "dropRecv") /\ UNCHANGED subscribed
    /\ UNCHANGED <<localVars, fieldVars, vStarted, vTimer, monitorVars, alive,
                   closing, notices>>

\* Mutant: the receiving session is forgotten, not ended.
ForgetRecv(p) ==
    /\ Step(p, "dropRecv", "clearDropped")
    /\ UNCHANGED <<localVars, fieldVars, vStarted, vTimer, monitorVars, sessionVars>>

\* There is no transmitting session: the receiving one is ended too.
DropRecv(p) ==
    /\ pc[p] = "dropRecv"
    /\ EndSession(p, vRecv, "recvDropped", "clearDropped")
    /\ UNCHANGED <<separate, restarting, operations, fieldVars, vStarted, vTimer, monitorVars,
                   closing, subscribed, notices>>

RecvDropped(p) ==
    /\ Step(p, "recvDropped", "clearDropped")
    /\ SessionEnded(p)
    /\ UNCHANGED <<separate, restarting, operations, fieldVars, vStarted, vTimer, monitorVars,
                   alive, closing>>

ClearDropped(p) ==
    /\ Step(p, "clearDropped", "failed")
    /\ vRecv' = null
    /\ UNCHANGED <<localVars, vState, vTrans, vStarted, vTimer, monitorVars, sessionVars>>

\* Mutant: the state is not changed back.
FailQuietly(p) ==
    /\ Step(p, "failed", "rearm")
    /\ UNCHANGED <<localVars, fieldVars, vStarted, vTimer, monitorVars, sessionVars>>

Failed(p) ==
    /\ Step(p, "failed", "rearm")
    /\ vState' = "Closed"
    /\ UNCHANGED <<localVars, vTrans, vRecv, vStarted, vTimer, monitorVars, sessionVars>>

Rearm(p) ==
    /\ Step(p, "rearm", "threw")
    /\ vTimer' = TRUE
    /\ UNCHANGED <<localVars, fieldVars, vStarted, monitorVars, sessionVars>>

(***************************************************************************)
(* CloseSession, called by Shutdown and by SessionClosedEventHandler.      *)
(***************************************************************************)

\* A caller goes on with Start if it is restarting; a worker's handler is done.
CloseReturned(p) == Goto(p, IF p \in restarting THEN "start" ELSE "idle")

Close(p) ==
    /\ pc[p] = "close"
    /\ IF vState = "Closed" THEN CloseReturned(p) ELSE Goto(p, "setClosed")
    /\ UNCHANGED <<localVars, fieldVars, vStarted, vTimer, monitorVars, sessionVars>>

\* Mutant: the state is left as it is.
CloseKeepingState(p) ==
    /\ Step(p, "setClosed", "endTrans")
    /\ UNCHANGED <<localVars, fieldVars, vStarted, vTimer, monitorVars, sessionVars>>

SetClosed(p) ==
    /\ Step(p, "setClosed", "endTrans")
    /\ vState' = "Closed"
    /\ UNCHANGED <<localVars, vTrans, vRecv, vStarted, vTimer, monitorVars, sessionVars>>

EndTrans(p) ==
    /\ pc[p] = "endTrans"
    /\ EndSession(p, vTrans, "transEnding", "endRecv")
    /\ UNCHANGED <<separate, restarting, operations, fieldVars, vStarted, vTimer, monitorVars,
                   closing, subscribed, notices>>

TransEnding(p) ==
    /\ Step(p, "transEnding", "endRecv")
    /\ SessionEnded(p)
    /\ UNCHANGED <<separate, restarting, operations, fieldVars, vStarted, vTimer, monitorVars,
                   alive, closing>>

EndRecv(p) ==
    /\ pc[p] = "endRecv"
    /\ EndSession(p, vRecv, "recvEnding", "clearTrans")
    /\ UNCHANGED <<separate, restarting, operations, fieldVars, vStarted, vTimer, monitorVars,
                   closing, subscribed, notices>>

RecvEnding(p) ==
    /\ Step(p, "recvEnding", "clearTrans")
    /\ SessionEnded(p)
    /\ UNCHANGED <<separate, restarting, operations, fieldVars, vStarted, vTimer, monitorVars,
                   alive, closing>>

ClearTrans(p) ==
    /\ Step(p, "clearTrans", "clearRecv")
    /\ vTrans' = null
    /\ UNCHANGED <<localVars, vState, vRecv, vStarted, vTimer, monitorVars, sessionVars>>

ClearRecv(p) ==
    /\ pc[p] = "clearRecv"
    /\ CloseReturned(p)
    /\ vRecv' = null
    /\ UNCHANGED <<localVars, vState, vTrans, vStarted, vTimer, monitorVars, sessionVars>>

(***************************************************************************)
(* The operations of the application.                                      *)
(***************************************************************************)
Called(p, operation) ==
    /\ pc[p] = "idle"
    /\ operation \in Operations
    /\ operations < MaxOperations
    /\ operations' = operations + 1

\* Start, and the second half of Restart.
Start(p) ==
    /\ \/ Called(p, "Start") /\ UNCHANGED restarting
       \/ /\ pc[p] = "start"
          /\ restarting' = restarting \ {p}
          /\ UNCHANGED operations
    /\ vStarted' = TRUE
    /\ Goto(p, "startTimer")
    /\ UNCHANGED <<separate, session, fieldVars, vTimer, monitorVars, sessionVars>>

StartTimer(p) ==
    /\ Step(p, "startTimer", "idle")
    /\ vTimer' = TRUE
    /\ UNCHANGED <<localVars, fieldVars, vStarted, monitorVars, sessionVars>>

\* Shutdown, and the first half of Restart.
Shutdown(p) ==
    /\ \/ Called(p, "Shutdown") /\ UNCHANGED restarting
       \/ Called(p, "Restart") /\ restarting' = restarting \cup {p}
    /\ vStarted' = FALSE
    /\ Goto(p, IF vStarted THEN "shutTimer"
               ELSE IF p \in restarting' THEN "start" ELSE "idle")
    /\ UNCHANGED <<separate, session, fieldVars, vTimer, monitorVars, sessionVars>>

ShutTimer(p) ==
    /\ Step(p, "shutTimer", "close")
    /\ vTimer' = FALSE
    /\ UNCHANGED <<localVars, fieldVars, vStarted, monitorVars, sessionVars>>

ForceConnect(p) ==
    /\ Called(p, "ForceConnect")
    /\ Goto(p, "tryEnter")
    /\ UNCHANGED <<separate, session, restarting, fieldVars, vStarted, vTimer, monitorVars,
                   sessionVars>>

(***************************************************************************)
(* What the thread pool runs: AutoReconnectTimerEventHandler and           *)
(* SessionClosedEventHandler.  The timer stays armed when it fires, so     *)
(* that several callbacks may run at a time.                               *)
(***************************************************************************)
TimerFires(w) ==
    /\ vTimer
    /\ Step(w, "idle", "timer")
    /\ UNCHANGED <<localVars, fieldVars, vStarted, vTimer, monitorVars, sessionVars>>

Timer(w) ==
    /\ Step(w, "timer", IF vStarted THEN "timerStop" ELSE "idle")
    /\ UNCHANGED <<localVars, fieldVars, vStarted, vTimer, monitorVars, sessionVars>>

TimerStop(w) ==
    /\ Step(w, "timerStop", "tryEnter")
    /\ vTimer' = FALSE
    /\ UNCHANGED <<localVars, fieldVars, vStarted, monitorVars, sessionVars>>

\* Every exception of Open is swallowed; what counts is the state seen afterwards.
After(w) ==
    /\ Step(w, "after", IF vState = "Closed" THEN "timerStart" ELSE "timerStopAgain")
    /\ UNCHANGED <<localVars, fieldVars, vStarted, vTimer, monitorVars, sessionVars>>

TimerChange(w) ==
    /\ \/ Step(w, "timerStart", "idle") /\ vTimer' = TRUE
       \/ Step(w, "timerStopAgain", "idle") /\ vTimer' = FALSE
    /\ UNCHANGED <<localVars, fieldVars, vStarted, monitorVars, sessionVars>>

\* A session that the client ended itself does not start the timer.
SessionClosed(w, n) ==
    /\ n \in notices
    /\ notices' = notices \ {n}
    /\ Step(w, "idle", IF n.reason # "EndSessionCalled" THEN "handlerTimer" ELSE "close")
    /\ UNCHANGED <<localVars, fieldVars, vStarted, vTimer, monitorVars, alive, closing,
                   subscribed>>

\* Mutant: the timer is not started.
HandlerWithoutTimer(w) ==
    /\ Step(w, "handlerTimer", "close")
    /\ UNCHANGED <<localVars, fieldVars, vStarted, vTimer, monitorVars, sessionVars>>

HandlerTimer(w) ==
    /\ Step(w, "handlerTimer", "close")
    /\ vTimer' = TRUE
    /\ UNCHANGED <<localVars, fieldVars, vStarted, monitorVars, sessionVars>>

(***************************************************************************)
(* The specification.                                                      *)
(***************************************************************************)
OpenStep(p) ==
    \/ TryEnter(p) \/ Enter(p) \/ Waited(p) \/ Check(p) \/ Exit(p)
    \/ Connecting(p) \/ BindBoth(p) \/ SetRecv(p) \/ SubscribeBoth(p)
    \/ Connected(p) \/ SmscId(p)
    \/ BindRecv(p) \/ SubscribeRecv(p) \/ BindTrans(p) \/ SubscribeTrans(p)
    \/ DropRecv(p) \/ RecvDropped(p) \/ ClearDropped(p)
    \/ Failed(p) \/ Rearm(p)

CloseStep(p) ==
    \/ Close(p) \/ SetClosed(p) \/ EndTrans(p) \/ TransEnding(p) \/ EndRecv(p)
    \/ RecvEnding(p) \/ ClearTrans(p) \/ ClearRecv(p)

Operation(p) == Start(p) \/ Shutdown(p) \/ ForceConnect(p)

CallerStep(p) == StartTimer(p) \/ ShutTimer(p)
WorkerStep(w) == Timer(w) \/ TimerStop(w) \/ After(w) \/ TimerChange(w) \/ HandlerTimer(w)

\* Nobody is inside the client and no event is on its way.
Settled ==
    /\ \A p \in Procs : pc[p] = "idle"
    /\ notices = {}
    /\ closing = {}

\* Whatever is not forced to happen may not happen.
Rest == Settled /\ ~vTimer /\ UNCHANGED vars

Next ==
    \/ \E p \in Procs : OpenStep(p) \/ CloseStep(p) \/ CutShort(p)
    \/ \E p \in Callers : Operation(p) \/ CallerStep(p)
    \/ \E w \in Workers : TimerFires(w) \/ WorkerStep(w) \/ \E n \in notices : SessionClosed(w, n)
    \/ \E s \in Sessions : Lose(s) \/ Closed(s) \/ Abandoned(s)
    \/ Rest

Running(p) ==
    \/ OpenStep(p) \/ CloseStep(p) \/ CutShort(p)
    \/ p \in Callers /\ (CallerStep(p) \/ (pc[p] = "start" /\ Start(p)))
    \/ p \in Workers /\ WorkerStep(p)

\* A thread that can run does; the pool runs what is queued; an armed timer fires.  Pool
\* threads may be scarce for a while, hence strong fairness.  Nobody has to call, no
\* connection has to be lost, and an ending may or may not be cut short.
Fairness ==
    /\ \A p \in Procs : WF_vars(Running(p))
    /\ \A s \in Sessions : WF_vars(Closed(s) \/ Abandoned(s))
    /\ SF_vars(\E w \in Workers, n \in notices : SessionClosed(w, n))
    /\ SF_vars(\E w \in Workers : TimerFires(w))

Spec == Init /\ [][Next]_vars
FairSpec == Spec /\ Fairness

(***************************************************************************)
(* Properties.                                                             *)
(***************************************************************************)

\* Whoever looks at ConnectionState and finds Connecting may rely on somebody being at it:
\* an Open that ended, in whatever way, has left the state Connected or Closed.
ConnectingIsOpening ==
    vState = "Connecting" =>
        \E p \in vConnSyncRoot : pc[p] \in OpenPc \ {"waited", "check", "succeeded", "threw"}

\* No Open hangs in the monitor, whether it binds itself or waits for another one.
OpenReturns == \A p \in Procs : pc[p] \in OpenPc ~> pc[p] \notin OpenPc

\* A client that says that it is connected, while nobody opens or closes it and no event is
\* on its way, has a session to send with, which is alive.
ConnectedIsUsable == vState = "Connected" /\ Settled => vTrans \in alive

\* A session is not left bound behind the client's back, where nobody would end it.
NoOrphans == Settled => alive \subseteq {vTrans, vRecv}

\* A client that is started and has no connection does not rest: with nobody at it, the
\* timer is armed, so that it will try to connect.
StartedIsArmed == vStarted /\ vState = "Closed" /\ Settled => vTimer

\* "The time to wait before attempting to reconnect after a connection is lost": when a
\* client that is started has no session left, it attempts to connect.
Attempting == \E p \in Procs : pc[p] \in {"bindBoth", "bindRecv", "bindTrans"}
Reconnects == vStarted /\ alive = {} ~> Attempting \/ ~vStarted

\* "Do not reconnect if SmppClient is shutdown": once everything has settled, a client that
\* has been shut down is closed.
ShutdownCloses == Settled /\ ~vStarted => vState = "Closed"
=============================================================================
