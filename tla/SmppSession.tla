----------------------------- MODULE SmppSession -----------------------------
(***************************************************************************)
(* The life of an SMPP session (SmppClientSession.cs) on its connection    *)
(* (TcpIpSession) and with its parser's thread (StreamParser.cs,           *)
(* Util/RunningComponent.cs).                                              *)
(*                                                                         *)
(* A user binds the session, sends requests and ends it.  The parser reads *)
(* what comes in.  The threads of the pool run the session's event         *)
(* handlers and the callback of the enquire-link timer.  Each of them may  *)
(* find that the session is over, and ends it.                             *)
(*                                                                         *)
(* Which response belongs to which request is the business of              *)
(* ResponseHandler; here a thread's request is answered, or is not.        *)
(***************************************************************************)
EXTENDS TcpIpSession

CONSTANTS
    Users,      \* threads of the application
    Pool,       \* threads of the thread pool
    Parser      \* the parser's thread

ASSUME ThreadsAssumption ==
    /\ Users \cap Pool = {}
    /\ Parser \notin Users \cup Pool

Threads == Users \cup Pool \cup {Parser}

VARIABLES
    session,            \* what Bind has come to: "none", "binding", "given", "failed"
    vIsAlive,
    vState,             \* "open", "bound" or "closed"
    vTcpIpSession,      \* these four are TRUE while the field is not null
    vTrans,
    vRespHandler,
    vStreamParser,
    vTimer,             \* the enquire-link timer is running
    vRunning,           \* RunningComponent.vRunning of the parser
    vStopOnNextCycle,
    reply,              \* each thread's request: "none", "sent", "answered"
    ended,              \* history: how often EndSession has ended the session
    told,               \* history: how often SessionClosed has been raised
    abandoned           \* history: an exception of the socket has cut EndSession short

fieldVars == <<vTcpIpSession, vTrans, vRespHandler, vStreamParser, vTimer>>
parserVars == <<vRunning, vStopOnNextCycle>>
lifeVars == <<session, vIsAlive, vState, ended, told, abandoned>>
vars == <<threadVars, jobs, tcpVars, fieldVars, parserVars, lifeVars, reply>>

Jobs == TcpJobs \cup {"parserException", "unbind", "request"}
SessionPc == {"idle", "subscribe", "checkState", "wait", "waiting", "markAlive",
              "setBound", "endSession", "destroyTcp", "disassemble", "tell"}
ParserPc == {"ready", "cycle", "raise", "stopped", "dead"}

TypeOK ==
    /\ pc \in [Threads -> SendPc \cup ReceivePc \cup EndPc \cup SessionPc \cup ParserPc]
    /\ task \in [Threads -> Jobs \cup {"none", "bind", "call", "elapsed", "ending"}]
    /\ jobs \subseteq Jobs
    /\ socket \in Sockets
    /\ tcpAlive \in BOOLEAN
    /\ tcpLock \subseteq Threads
    /\ tcpSubscribed \in BOOLEAN
    /\ session \in {"none", "binding", "given", "failed"}
    /\ vIsAlive \in BOOLEAN
    /\ vState \in {"open", "bound", "closed"}
    /\ vTcpIpSession \in BOOLEAN
    /\ vTrans \in BOOLEAN
    /\ vRespHandler \in BOOLEAN
    /\ vStreamParser \in BOOLEAN
    /\ vTimer \in BOOLEAN
    /\ vRunning \in BOOLEAN
    /\ vStopOnNextCycle \in BOOLEAN
    /\ reply \in [Threads -> {"none", "sent", "answered"}]
    /\ ended \in {0, 1}
    /\ told \in {0, 1}
    /\ abandoned \in BOOLEAN

Init ==
    /\ pc = [t \in Threads |-> "idle"]
    /\ task = [t \in Threads |-> "none"]
    /\ TcpInit
    /\ session = "none"
    /\ vIsAlive = FALSE
    /\ vState = "closed"
    /\ vTcpIpSession = FALSE
    /\ vTrans = FALSE
    /\ vRespHandler = FALSE
    /\ vStreamParser = FALSE
    /\ vTimer = FALSE
    /\ vRunning = FALSE
    /\ vStopOnNextCycle = FALSE
    /\ reply = [t \in Threads |-> "none"]
    /\ ended = 0
    /\ told = 0
    /\ abandoned = FALSE

Begin(t, job, label) ==
    /\ pc[t] = "idle"
    /\ pc' = [pc EXCEPT ![t] = label]
    /\ task' = [task EXCEPT ![t] = job]

(***************************************************************************)
(* Sending a PDU, and waiting for its response.                            *)
(***************************************************************************)

\* Where a thread goes on when its PDU is out, and when SendPduBase or the code around
\* vTrans.Send has dealt with an exception.
Sent(t) ==
    CASE task[t] \in {"bind", "ending", "call", "elapsed"} -> "wait"
      [] task[t] = "unbind" -> "endSession"
      [] OTHER -> "idle"

NotSent(t) ==
    CASE t = Parser -> "raise"
      [] task[t] \in {"bind", "ending"} -> "destroyTcp"
      [] OTHER -> Sent(t)

\* CheckState, whose exception ends a call or an enquire-link, and is swallowed elsewhere.
CheckState(t) ==
    /\ pc[t] = "checkState"
    /\ Goto(t, IF vState = "bound" THEN "send"
               ELSE IF task[t] = "unbind" THEN "endSession" ELSE "idle")
    /\ UNCHANGED <<jobs, tcpVars, fieldVars, parserVars, lifeVars, reply>>

\* vTrans.Send.  vTrans is null only when the connection has ended, so that a sender that
\* still finds it fares no better.
SendStep(t) ==
    /\ \/ /\ CheckSession(t, "send", IF vTrans THEN "sendSocket" ELSE NotSent(t), NotSent(t))
          /\ UNCHANGED reply
       \/ /\ SendSocket(t, Sent(t), NotSent(t))
          /\ reply' = IF pc'[t] = "wait" /\ socket \in {"up", "finished"}
                      THEN [reply EXCEPT ![t] = "sent"] ELSE reply
       \/ t # Parser /\ TerminateStep(t, NotSent(t), NotSent(t)) /\ UNCHANGED reply
    /\ UNCHANGED <<fieldVars, parserVars, lifeVars>>

\* vRespHandler.WaitResponse: the exception of a missing handler goes to the caller, or is
\* swallowed by the timer, by EndSession or by Bind.
WaitResponse(t) ==
    /\ pc[t] = "wait"
    /\ Goto(t, CASE vRespHandler -> "waiting"
                 [] ~vRespHandler /\ task[t] \in {"bind", "ending"} -> "destroyTcp"
                 [] OTHER -> "idle")
    /\ reply' = IF vRespHandler THEN reply ELSE [reply EXCEPT ![t] = "none"]
    /\ UNCHANGED <<jobs, tcpVars, fieldVars, parserVars, lifeVars>>

\* Mutant: an enquire-link that is not answered is ignored.
TimesOutQuietly(t) ==
    /\ Step(t, "waiting", IF task[t] \in {"elapsed", "call"} THEN "idle" ELSE "destroyTcp")
    /\ reply' = [reply EXCEPT ![t] = "none"]
    /\ UNCHANGED <<jobs, tcpVars, fieldVars, parserVars, lifeVars>>

\* The SMSC refuses a bind with an error code.
Answered(t) ==
    /\ pc[t] = "waiting" /\ reply[t] = "answered"
    /\ \/ task[t] = "bind" /\ Goto(t, "markAlive")
       \/ task[t] \in {"bind", "ending"} /\ Goto(t, "destroyTcp")
       \/ task[t] \in {"call", "elapsed"} /\ Goto(t, "idle")
    /\ reply' = [reply EXCEPT ![t] = "none"]
    /\ UNCHANGED <<jobs, tcpVars, fieldVars, parserVars, lifeVars>>

TimesOut(t) ==
    /\ pc[t] = "waiting"
    /\ Goto(t, CASE task[t] = "elapsed" -> "endSession"
                 [] task[t] = "call" -> "idle"
                 [] OTHER -> "destroyTcp")
    /\ reply' = [reply EXCEPT ![t] = "none"]
    /\ UNCHANGED <<jobs, tcpVars, fieldVars, parserVars, lifeVars>>

(***************************************************************************)
(* Bind.                                                                   *)
(***************************************************************************)

\* CreateTcpIpSession and AssembleComponents, which starts the parser's thread.
Bind(t) ==
    /\ session = "none"
    /\ Begin(t, "bind", "subscribe")
    /\ OpenClientSession
    /\ session' = "binding"
    /\ vState' = "open"
    /\ vTcpIpSession' = TRUE
    /\ vTrans' = TRUE
    /\ vRespHandler' = TRUE
    /\ vStreamParser' = TRUE
    /\ UNCHANGED <<parserVars, vIsAlive, ended, told, abandoned, vTimer, reply>>

BindSession(t) ==
    /\ Step(t, "subscribe", "send")
    /\ tcpSubscribed' = TRUE
    /\ UNCHANGED <<jobs, socket, tcpAlive, tcpLock, fieldVars, parserVars, lifeVars, reply>>

MarkAlive(t) ==
    /\ Step(t, "markAlive", "setBound")
    /\ vTimer' = TRUE
    /\ vIsAlive' = TRUE
    /\ UNCHANGED <<jobs, tcpVars, vTcpIpSession, vTrans, vRespHandler, vStreamParser,
                   parserVars, session, vState, ended, told, abandoned, reply>>

\* Mutant: the timer is started last.
SetBoundAndTimer(t) ==
    /\ Step(t, "setBound", "idle")
    /\ vState' = "bound"
    /\ session' = "given"
    /\ vTimer' = TRUE
    /\ UNCHANGED <<jobs, tcpVars, vTcpIpSession, vTrans, vRespHandler, vStreamParser,
                   parserVars, vIsAlive, ended, told, abandoned, reply>>

\* ChangeState does not look whether the session has ended meanwhile.
SetBound(t) ==
    /\ Step(t, "setBound", "idle")
    /\ vState' = "bound"
    /\ session' = "given"
    /\ UNCHANGED <<jobs, tcpVars, fieldVars, parserVars, vIsAlive, ended, told, abandoned, reply>>

(***************************************************************************)
(* EndSession.                                                             *)
(***************************************************************************)

\* Mutant: who finds the session alive does not mark it as ended before the unbind.
EndWithoutMark(t) ==
    /\ pc[t] = "endSession"
    /\ IF vIsAlive
       THEN /\ vState' = "closed"
            /\ ended' = ended + 1
            /\ pc' = [pc EXCEPT ![t] = IF task[t] = "unbind" THEN "destroyTcp" ELSE "send"]
            /\ task' = [task EXCEPT ![t] = "ending"]
       ELSE Goto(t, "idle") /\ UNCHANGED <<vState, ended>>
    /\ UNCHANGED <<jobs, tcpVars, fieldVars, parserVars, session, vIsAlive, told, abandoned,
                   reply>>

\* The test and the assignments are made under the lock.
EndSession(t) ==
    /\ pc[t] = "endSession"
    /\ IF vIsAlive
       THEN /\ vIsAlive' = FALSE
            /\ vState' = "closed"
            /\ ended' = ended + 1
            /\ pc' = [pc EXCEPT ![t] = IF task[t] = "unbind" THEN "destroyTcp" ELSE "send"]
            /\ task' = [task EXCEPT ![t] = "ending"]
       ELSE /\ Goto(t, "idle")
            /\ UNCHANGED <<vIsAlive, vState, ended>>
    /\ UNCHANGED <<jobs, tcpVars, fieldVars, parserVars, session, told, abandoned,
                   reply>>

DestroyTcpIpSession(t) ==
    /\ Step(t, "destroyTcp", IF vTcpIpSession THEN "tcpEnd" ELSE "disassemble")
    /\ tcpSubscribed' = IF vTcpIpSession THEN FALSE ELSE tcpSubscribed
    /\ UNCHANGED <<jobs, socket, tcpAlive, tcpLock, fieldVars, parserVars, lifeVars, reply>>

\* An exception of the socket's Shutdown goes through DestroyTcpIpSession to whoever
\* called: nothing of what follows is done.
TcpEndStep(t) ==
    /\ \/ /\ TcpEnd(t, "disassemble") \/ TcpClose(t, "disassemble")
          /\ UNCHANGED <<session, abandoned>>
       \/ /\ TcpShut(t, "idle")
          /\ session' = IF pc'[t] = "idle" /\ task[t] = "bind" THEN "failed" ELSE session
          /\ abandoned' = (abandoned \/ (pc'[t] = "idle" /\ task[t] = "ending"))
    /\ UNCHANGED <<fieldVars, parserVars, vIsAlive, vState, ended, told, reply>>

\* The rest of DestroyTcpIpSession, and DisassembleComponents: the fields are set to null
\* one after the other, but a thread that finds one of them gone finds the connection
\* ended, too.  Stop(true) of a parser whose thread has not yet set vRunning does nothing.
Disassemble(t) ==
    /\ Step(t, "disassemble", IF task[t] = "bind" THEN "idle" ELSE "tell")
    /\ session' = IF task[t] = "bind" THEN "failed" ELSE session
    /\ vStopOnNextCycle' = (vStopOnNextCycle \/ (vStreamParser /\ vRunning))
    /\ vTcpIpSession' = FALSE
    /\ vStreamParser' = FALSE
    /\ vTrans' = (vTrans /\ ~vStreamParser)
    /\ vRespHandler' = (vRespHandler /\ ~vStreamParser)
    /\ UNCHANGED <<jobs, tcpVars, vTimer, vRunning, vIsAlive, vState, ended, told, abandoned,
                   reply>>

DestroyTimer == vTimer' = FALSE
RaiseSessionClosedEvent == told' = told + 1

Tell(t) ==
    /\ Step(t, "tell", "idle")
    /\ DestroyTimer
    /\ RaiseSessionClosedEvent
    /\ UNCHANGED <<jobs, tcpVars, vTcpIpSession, vTrans, vRespHandler, vStreamParser,
                   parserVars, session, vIsAlive, vState, ended, abandoned,
                   reply>>

(***************************************************************************)
(* The users and the pool.                                                 *)
(***************************************************************************)
Call(t) ==
    /\ session = "given"
    /\ \/ Begin(t, "call", "checkState")            \* SendPdu
       \/ Begin(t, "call", "endSession")            \* EndSession
    /\ UNCHANGED <<jobs, tcpVars, fieldVars, parserVars, lifeVars, reply>>

Elapsed(t) ==
    /\ vTimer
    /\ Begin(t, "elapsed", "checkState")
    /\ UNCHANGED <<jobs, tcpVars, fieldVars, parserVars, lifeVars, reply>>

\* TcpIpSessionClosedEventHandler has no case for a socket that the peer has shut down.
Deliver(t, job) ==
    /\ job \in jobs
    /\ jobs' = jobs \ {job}
    /\ \/ job = "tcpShutdown" /\ pc[t] = "idle" /\ UNCHANGED threadVars
       \/ job \in {"unbind", "request"} /\ Begin(t, job, "checkState")
       \/ job \in {"tcpEnded", "tcpError", "parserException"} /\ Begin(t, job, "endSession")
    /\ UNCHANGED <<tcpVars, fieldVars, parserVars, lifeVars, reply>>

(***************************************************************************)
(* The parser's thread.                                                    *)
(***************************************************************************)
ParserStarts ==
    /\ session # "none"
    /\ Step(Parser, "idle", "cycle")
    /\ vRunning' = TRUE
    /\ UNCHANGED <<jobs, tcpVars, fieldVars, vStopOnNextCycle, lifeVars, reply>>

Cycle ==
    /\ Step(Parser, "cycle", IF vStopOnNextCycle THEN "stopped" ELSE "receive")
    /\ vRunning' = ~vStopOnNextCycle
    /\ UNCHANGED <<jobs, tcpVars, fieldVars, vStopOnNextCycle, lifeVars, reply>>

ReceiveStep ==
    /\ \/ CheckSession(Parser, "receive", "receiveSocket", "raise")
       \/ ReceiveSocket(Parser, "dead")
       \/ ReceiveEnds(Parser)
       \/ ZeroStep(Parser)
       \/ TerminateStep(Parser, "raise", "dead")
    /\ UNCHANGED <<fieldVars, parserVars, lifeVars, reply>>

\* A PDU has come in: a response for somebody, an unbind request, another request, or
\* something that concerns nobody.
Receive ==
    /\ socket = "up"
    /\ Step(Parser, "blocked", "cycle")
    /\ \/ /\ \E t \in Threads :
               reply[t] = "sent" /\ reply' = [reply EXCEPT ![t] = "answered"]
          /\ UNCHANGED jobs
       \/ /\ jobs' \in {jobs, jobs \cup {"unbind"}, jobs \cup {"request"}}
          /\ UNCHANGED reply
    /\ UNCHANGED <<tcpVars, fieldVars, parserVars, lifeVars>>

\* Mutant: the parser does not tell itself to stop.
RaiseAndGoOn ==
    /\ Step(Parser, "raise", "cycle")
    /\ jobs' = IF vStreamParser THEN jobs \cup {"parserException"} ELSE jobs
    /\ UNCHANGED <<tcpVars, fieldVars, parserVars, lifeVars, reply>>

\* HandleException of the parser, whose caller throws again into RunNow.
RaiseParserException ==
    /\ Step(Parser, "raise", "cycle")
    /\ jobs' = IF vStreamParser THEN jobs \cup {"parserException"} ELSE jobs
    /\ vStopOnNextCycle' = TRUE
    /\ UNCHANGED <<tcpVars, fieldVars, vRunning, lifeVars, reply>>

Environment ==
    /\ PeerFinishes \/ Breaks
    /\ UNCHANGED <<fieldVars, parserVars, lifeVars, reply>>

(***************************************************************************)
(* The steps that a thread takes by itself once it has begun.              *)
(***************************************************************************)
ThreadStep(t) ==
    \/ CheckState(t)
    \/ SendStep(t)
    \/ WaitResponse(t)
    \/ Answered(t)
    \/ TimesOut(t)
    \/ BindSession(t)
    \/ MarkAlive(t)
    \/ SetBound(t)
    \/ EndSession(t)
    \/ DestroyTcpIpSession(t)
    \/ TcpEndStep(t)
    \/ Disassemble(t)
    \/ Tell(t)

ParserStep == ParserStarts \/ Cycle \/ ReceiveStep \/ RaiseParserException

Next ==
    \/ \E t \in Users : Bind(t) \/ Call(t)
    \/ \E t \in Pool : Elapsed(t) \/ \E job \in Jobs : Deliver(t, job)
    \/ \E t \in Users \cup Pool : ThreadStep(t)
    \/ ParserStep
    \/ Receive
    \/ Environment

\* Threads run.  The pool sooner or later runs what it has been given, and the timer's
\* callback as long as the timer is on.  Nobody has to call, and the peer need not answer.
Fairness ==
    /\ \A t \in Users \cup Pool : WF_vars(ThreadStep(t))
    /\ WF_vars(ParserStep)
    /\ SF_vars(\E t \in Pool, job \in Jobs : Deliver(t, job))
    /\ SF_vars(\E t \in Pool : Elapsed(t))

Spec == Init /\ [][Next]_vars /\ Fairness

(***************************************************************************)
(* Properties.                                                             *)
(***************************************************************************)

\* The connection is shut down by one thread only, and once, although senders, the
\* receiver and EndSession may all find it over at the same time (HandleException: "not
\* more than once per session ... to prevent duplicate events").
Shutting == {"handleShut", "zeroShut", "tcpShut"}
Closing == {"handleClose", "zeroClose", "tcpClose"}
TerminatedOnce ==
    \A t, u \in Threads : pc[t] \in Shutting \cup Closing =>
        /\ pc[u] \in Shutting \cup Closing => t = u
        /\ socket = "shut" <=> pc[t] \in Closing
        /\ socket # "closed"

\* A session that is alive has all its parts, and the thread that ends it still has those
\* it needs to unbind: nobody else takes them apart (EndSession, DisassembleComponents).
AliveHasParts ==
    /\ vIsAlive => vTcpIpSession /\ vTrans /\ vRespHandler /\ vStreamParser
    /\ \A t \in Threads :
           task[t] \in {"bind", "ending"} /\ pc[t] \in SendPc \cup {"wait", "waiting"} =>
               vTcpIpSession /\ vTrans /\ vRespHandler /\ vStreamParser

\* When SessionClosed is raised nothing is left behind: the connection is closed, or a
\* thread whose Send or Receive has failed is closing it (or has failed to), the parts are
\* gone, and the timer is off.
ToldIsDown ==
    told > 0 =>
        /\ ~tcpAlive
        /\ \/ socket = "closed"
           \/ \E t \in Threads : pc[t] \in Shutting \cup Closing
           \/ CloseMayFail /\ socket = "broken"
        /\ ~vTcpIpSession /\ ~vTrans /\ ~vRespHandler /\ ~vStreamParser
        /\ ~vTimer

\* Every exception that ends the parser's thread is raised as a ParserException
\* (StreamParser.cs: "Raised when an exception is thrown while a byte stream is being
\* parsed or during pdu creation").
ExceptionsAreRaised == pc[Parser] # "dead"

\* The session keeps what SessionLife promises.
Life == INSTANCE SessionLife WITH alive <- vIsAlive
ImplementsSessionLife == Life!Spec

\* A bound session whose connection is lost comes to its end, if by nothing else then by
\* an enquire-link (TcpIpSessionClosedEventHandler, ParserExceptionEventHandler,
\* TimerCallback).
LostEnds == (vIsAlive /\ socket # "up") ~> ~vIsAlive

\* The parser's thread ends after its session has, or could not be bound, even when Stop
\* came too early to be noticed (RunningComponent.Stop).
ParserStops == (ended > 0 \/ session = "failed") ~> (pc[Parser] \in {"stopped", "dead"})
=============================================================================
