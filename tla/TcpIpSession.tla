---------------------------- MODULE TcpIpSession ----------------------------
(***************************************************************************)
(* A connection (Networking/TcpIpSession.cs) and the threads that use it.  *)
(* Any thread may send, one thread receives, any may end the session; each *)
(* of them may find the socket broken and then shuts it down itself.       *)
(*                                                                         *)
(* A call of the connection is a few steps of the calling thread; the      *)
(* labels at which the caller goes on are parameters of those steps.       *)
(***************************************************************************)
EXTENDS Naturals, FiniteSets

CONSTANT CloseMayFail   \* Socket.Shutdown of a broken socket may throw

ASSUME CloseMayFailAssumption == CloseMayFail \in BOOLEAN

VARIABLES
    pc,             \* what each thread executes next
    task,           \* what each thread is busy with
    jobs,           \* events handed to the thread pool (BeginInvoke) and not yet begun
    socket,         \* "none", "up", "finished" by the peer, "broken", "shut" down, "closed"
    tcpAlive,       \* TcpIpSession.vIsAlive
    tcpLock,        \* the thread inside EndSession's lock, if any
    tcpSubscribed   \* somebody listens to TcpIpSession.SessionClosed

threadVars == <<pc, task>>
tcpVars == <<socket, tcpAlive, tcpLock, tcpSubscribed>>

Sockets == {"none", "up", "finished", "broken", "shut", "closed"}
TcpJobs == {"tcpEnded", "tcpError", "tcpShutdown"}
SendPc == {"send", "sendSocket", "handle", "handleShut", "handleClose"}
ReceivePc == {"receive", "receiveSocket", "blocked", "zero", "zeroShut", "zeroClose"}
EndPc == {"tcpEnd", "tcpShut", "tcpClose"}

\* A thread that goes idle has nothing left to do.
Goto(t, label) ==
    /\ pc' = [pc EXCEPT ![t] = label]
    /\ task' = IF label = "idle" THEN [task EXCEPT ![t] = "none"] ELSE task
Step(t, from, to) == pc[t] = from /\ Goto(t, to)

TcpInit ==
    /\ jobs = {}
    /\ socket = "none"
    /\ tcpAlive = FALSE
    /\ tcpLock = {}
    /\ tcpSubscribed = FALSE

OpenClientSession ==
    /\ socket' = "up"
    /\ tcpAlive' = TRUE
    /\ UNCHANGED <<tcpLock, tcpSubscribed, jobs>>

CheckSession(t, from, alive, thrown) ==
    /\ tcpLock = {}
    /\ Step(t, from, IF tcpAlive THEN alive ELSE thrown)
    /\ UNCHANGED <<tcpVars, jobs>>

\* vSocket.Send.  A socket that has been closed since CheckSession throws
\* ObjectDisposedException, which is not a SocketException and is not handled here.
SendSocket(t, sent, disposed) ==
    /\ \/ socket \in {"up", "finished"} /\ Step(t, "sendSocket", sent)
       \/ socket \in {"broken", "shut"} /\ Step(t, "sendSocket", "handle")
       \/ socket = "closed" /\ Step(t, "sendSocket", disposed)
    /\ UNCHANGED <<tcpVars, jobs>>

\* vSocket.Receive, and what it says to the thread that blocks in it.
ReceiveSocket(t, disposed) ==
    /\ Step(t, "receiveSocket", IF socket = "closed" THEN disposed ELSE "blocked")
    /\ UNCHANGED <<tcpVars, jobs>>

ReceiveEnds(t) ==
    /\ \/ socket \in {"finished", "shut"} /\ Step(t, "blocked", "zero")
       \/ socket \in {"broken", "shut", "closed"} /\ Step(t, "blocked", "handle")
    /\ UNCHANGED <<tcpVars, jobs>>

\* Receive that got no bytes: the first to notice ends the session.
ReceiveZero(t) ==
    /\ tcpLock = {}
    /\ Step(t, "zero", IF tcpAlive THEN "zeroShut" ELSE "receive")
    /\ tcpAlive' = FALSE
    /\ UNCHANGED <<socket, tcpLock, tcpSubscribed, jobs>>

\* Mutant: whoever meets an exception shuts the connection down.
HandleEveryException(t, thrown) ==
    /\ tcpLock = {}
    /\ Step(t, "handle", "handleShut")
    /\ tcpAlive' = FALSE
    /\ UNCHANGED <<socket, tcpLock, tcpSubscribed, jobs>>

\* HandleException, up to its call of TerminateSession.
HandleException(t, thrown) ==
    /\ tcpLock = {}
    /\ Step(t, "handle", IF tcpAlive THEN "handleShut" ELSE thrown)
    /\ tcpAlive' = FALSE
    /\ UNCHANGED <<socket, tcpLock, tcpSubscribed, jobs>>

\* TerminateSession: Shutdown and Disconnect, which may throw, then Close and the event.
Shutdown(t, from, to, thrown) ==
    /\ \/ Step(t, from, to) /\ socket' = "shut"
       \/ CloseMayFail /\ socket = "broken" /\ Step(t, from, thrown) /\ UNCHANGED socket
    /\ UNCHANGED <<tcpAlive, tcpSubscribed, jobs>>

Close(t, from, to, event) ==
    /\ Step(t, from, to)
    /\ socket' = "closed"
    /\ jobs' = IF tcpSubscribed THEN jobs \cup {event} ELSE jobs
    /\ UNCHANGED tcpSubscribed

\* EndSession terminates the session inside its lock, which an exception releases too.
TcpEnd(t, over) ==
    /\ tcpLock = {}
    /\ Step(t, "tcpEnd", IF tcpAlive THEN "tcpShut" ELSE over)
    /\ tcpLock' = IF tcpAlive THEN {t} ELSE {}
    /\ UNCHANGED <<socket, tcpAlive, tcpSubscribed, jobs>>

TcpShut(t, thrown) ==
    /\ Shutdown(t, "tcpShut", "tcpClose", thrown)
    /\ tcpLock' = IF socket' = "shut" THEN tcpLock ELSE {}

TcpClose(t, over) ==
    /\ Close(t, "tcpClose", over, "tcpEnded")
    /\ tcpAlive' = FALSE
    /\ tcpLock' = {}

\* The steps of a failed Send or Receive that shut the connection down.
TerminateStep(t, thrown, raw) ==
    \/ HandleException(t, thrown)
    \/ Shutdown(t, "handleShut", "handleClose", raw) /\ UNCHANGED tcpLock
    \/ Close(t, "handleClose", thrown, "tcpError") /\ UNCHANGED <<tcpAlive, tcpLock>>

\* A Shutdown that throws here does so inside the try block of Receive.
ZeroStep(t) ==
    \/ ReceiveZero(t)
    \/ Shutdown(t, "zeroShut", "zeroClose", "handle") /\ UNCHANGED tcpLock
    \/ Close(t, "zeroClose", "receive", "tcpShutdown") /\ UNCHANGED <<tcpAlive, tcpLock>>

\* The peer and the network.
PeerFinishes ==
    /\ socket = "up"
    /\ socket' = "finished"
    /\ UNCHANGED <<threadVars, jobs, tcpAlive, tcpLock, tcpSubscribed>>

Breaks ==
    /\ socket \in {"up", "finished"}
    /\ socket' = "broken"
    /\ UNCHANGED <<threadVars, jobs, tcpAlive, tcpLock, tcpSubscribed>>
=============================================================================
