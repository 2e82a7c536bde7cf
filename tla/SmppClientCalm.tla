--------------------------- MODULE SmppClientCalm ---------------------------
(***************************************************************************)
(* SmppClient in a calm environment: losing connections and opening them   *)
(* do not overlap.  No connection is lost while somebody opens one or the  *)
(* timer's callback runs; and while the end of a session is being dealt    *)
(* with the timer, which is armed for five seconds at least, does not      *)
(* fire, and no Open begins.  The timer's callback runs alone: the timer   *)
(* does not fire while it runs or somebody else opens, nor is ForceConnect *)
(* called meanwhile.  Nobody shuts the client down.  And no ending of a    *)
(* session is cut short by an exception, so that whoever has subscribed is *)
(* told of it.                                                             *)
(***************************************************************************)
EXTENDS SmppClient

CallbackRunning ==
    \E w \in Workers :
        pc[w] \in OpenPc \cup {"timer", "timerStop", "after", "timerStart", "timerStopAgain"}

Opening == CallbackRunning \/ \E p \in Callers : pc[p] \in OpenPc

Losing ==
    \/ closing # {}
    \/ notices # {}
    \/ \E w \in Workers : pc[w] \in ClosePc \cup {"handlerTimer"}

CalmNext ==
    \/ \E p \in Procs : (OpenStep(p) /\ (pc[p] = "tryEnter" => ~Losing)) \/ CloseStep(p)
    \/ \E p \in Callers : Start(p) \/ CallerStep(p) \/ (~CallbackRunning /\ ForceConnect(p))
    \/ \E w \in Workers : WorkerStep(w) \/ \E n \in notices : SessionClosed(w, n)
    \/ ~Opening /\ ~Losing /\ \E w \in Workers : TimerFires(w)
    \/ ~Opening /\ \E s \in Sessions : Lose(s)
    \/ \E s \in Sessions : Closed(s)
    \/ Rest

\* Sooner or later the SMSC accepts a bind, of a receiver and of a transmitter.
Accepts ==
    /\ SF_vars(\E p \in Procs : BindRecv(p) /\ alive' # alive)
    /\ SF_vars(\E p \in Procs : (BindBoth(p) \/ BindTrans(p)) /\ alive' # alive)

CalmSpec == Init /\ [][CalmNext]_vars /\ Fairness /\ Accepts

\* In a calm environment, where every session that is lost tells so, a client that is
\* started is always connected again, with a session that is alive.
Recovers == vStarted ~> vState = "Connected" /\ vTrans \in alive
=============================================================================
