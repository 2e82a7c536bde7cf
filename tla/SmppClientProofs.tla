-------------------------- MODULE SmppClientProofs --------------------------
(***************************************************************************)
(* Proofs about SmppClient, for any number of users and pool threads, any  *)
(* mix of operations and any bounds; and, in the last section, about       *)
(* SmppClient in its calm environment.                                     *)
(***************************************************************************)
EXTENDS SmppClientCalm, TLAPS

USE ConstantsAssumption

(***************************************************************************)
(* The monitor.  A thread owns vConnSyncRoot exactly while its label lies  *)
(* between the entry and the exit of Open, and the state is Connecting     *)
(* only while the owner is where OpenSession will still change it.         *)
(***************************************************************************)
Labels == {"idle"} \cup OpenPc \cup ClosePc \cup CallerPc \cup WorkerPc
InMonitor == OpenPc \ {"tryEnter", "enter"}
Busy == InMonitor \ {"waited", "check", "smscId", "rearm", "succeeded", "threw"}

Owner ==
    /\ pc \in [Procs -> Labels]
    /\ vConnSyncRoot \subseteq Procs
    /\ \A p \in Procs : p \in vConnSyncRoot <=> pc[p] \in InMonitor
    /\ \A p, q \in vConnSyncRoot : p = q

OwnerIsBusy == vState = "Connecting" => \E p \in vConnSyncRoot : pc[p] \in Busy

Monitor == Owner /\ OwnerIsBusy

LEMMA MonitorInit == Init => Monitor
BY DEF Init, Monitor, Owner, OwnerIsBusy, Labels, InMonitor, OpenPc

\* A step of one thread that stays on its side of the monitor, and does not leave the
\* state Connecting behind.
LEMMA StaysOnItsSide ==
    ASSUME Monitor,
           NEW p \in Procs, NEW l \in Labels,
           Goto(p, l),
           vConnSyncRoot' = vConnSyncRoot,
           pc[p] \in InMonitor <=> l \in InMonitor,
           \/ vState' = vState /\ (pc[p] \in Busy => l \in Busy)
           \/ vState' = "Connecting" /\ pc[p] \in Busy /\ l \in Busy
           \/ vState' # "Connecting"
    PROVE  Monitor'
<1>1. Owner'
  BY DEF Monitor, Owner, Goto
<1>2. ASSUME vState' = "Connecting"
      PROVE  \E q \in vConnSyncRoot : pc'[q] \in Busy
  <2>1. CASE pc[p] \in Busy
    BY <2>1, <1>2 DEF Monitor, Owner, Busy, Goto
  <2>2. CASE pc[p] \notin Busy
    <3>1. PICK q \in vConnSyncRoot : pc[q] \in Busy
      BY <2>2, <1>2 DEF Monitor, OwnerIsBusy
    <3> QED
      BY <3>1, <2>2 DEF Monitor, Owner, Goto
  <2> QED
    BY <2>1, <2>2
<1> QED
  BY <1>1, <1>2 DEF Monitor, OwnerIsBusy

LEMMA MonitorStep == Monitor /\ [Next]_vars => Monitor'
<1> SUFFICES ASSUME Monitor, [Next]_vars
             PROVE  Monitor'
  OBVIOUS
<1> USE DEF Step, Procs, Labels, InMonitor, Busy, OpenPc, ClosePc, CallerPc, WorkerPc,
            fieldVars, monitorVars
<1>1. ASSUME NEW p \in Procs, TryEnter(p) PROVE Monitor'
  <2>1. CASE vConnSyncRoot = {}
    BY <1>1, <2>1 DEF TryEnter, Goto, Monitor, Owner, OwnerIsBusy
  <2>2. CASE vConnSyncRoot # {}
    BY <1>1, <2>2, StaysOnItsSide DEF TryEnter
  <2> QED
    BY <2>1, <2>2
<1>2. ASSUME NEW p \in Procs, Enter(p) PROVE Monitor'
  BY <1>2 DEF Enter, Goto, Monitor, Owner, OwnerIsBusy
<1>3. ASSUME NEW p \in Procs, Waited(p) PROVE Monitor'
  BY <1>3 DEF Waited, Returned, Goto, Monitor, Owner, OwnerIsBusy
<1>4. ASSUME NEW p \in Procs, Exit(p) PROVE Monitor'
  <2>1. /\ pc[p] \in {"succeeded", "threw"}
        /\ Goto(p, "after") \/ Goto(p, "idle")
        /\ vConnSyncRoot' = {} /\ vState' = vState
    BY <1>4 DEF Exit, Returned
  <2> QED
    BY <2>1 DEF Goto, Monitor, Owner, OwnerIsBusy
<1>5. ASSUME NEW p \in Procs, Check(p) PROVE Monitor'
  BY <1>5, StaysOnItsSide DEF Check
<1>6. ASSUME NEW p \in Procs, Connecting(p) PROVE Monitor'
  BY <1>6, StaysOnItsSide DEF Connecting
<1>7. ASSUME NEW p \in Procs, BindBoth(p) PROVE Monitor'
  BY <1>7, StaysOnItsSide DEF BindBoth
<1>8. ASSUME NEW p \in Procs, SetRecv(p) PROVE Monitor'
  BY <1>8, StaysOnItsSide DEF SetRecv
<1>9. ASSUME NEW p \in Procs, SubscribeBoth(p) PROVE Monitor'
  BY <1>9, StaysOnItsSide DEF SubscribeBoth
<1>10. ASSUME NEW p \in Procs, Connected(p) PROVE Monitor'
  BY <1>10, StaysOnItsSide DEF Connected
<1>11. ASSUME NEW p \in Procs, SmscId(p) PROVE Monitor'
  BY <1>11, StaysOnItsSide DEF SmscId
<1>12. ASSUME NEW p \in Procs, BindRecv(p) PROVE Monitor'
  BY <1>12, StaysOnItsSide DEF BindRecv
<1>13. ASSUME NEW p \in Procs, SubscribeRecv(p) PROVE Monitor'
  BY <1>13, StaysOnItsSide DEF SubscribeRecv
<1>14. ASSUME NEW p \in Procs, BindTrans(p) PROVE Monitor'
  BY <1>14, StaysOnItsSide DEF BindTrans
<1>15. ASSUME NEW p \in Procs, SubscribeTrans(p) PROVE Monitor'
  BY <1>15, StaysOnItsSide DEF SubscribeTrans
<1>16. ASSUME NEW p \in Procs, DropRecv(p) PROVE Monitor'
  BY <1>16, StaysOnItsSide DEF DropRecv, EndSession
<1>17. ASSUME NEW p \in Procs, RecvDropped(p) PROVE Monitor'
  BY <1>17, StaysOnItsSide DEF RecvDropped
<1>18. ASSUME NEW p \in Procs, ClearDropped(p) PROVE Monitor'
  BY <1>18, StaysOnItsSide DEF ClearDropped
<1>19. ASSUME NEW p \in Procs, Failed(p) PROVE Monitor'
  BY <1>19, StaysOnItsSide DEF Failed
<1>20. ASSUME NEW p \in Procs, Rearm(p) PROVE Monitor'
  BY <1>20, StaysOnItsSide DEF Rearm
<1>21. ASSUME NEW p \in Procs, Close(p) PROVE Monitor'
  BY <1>21, StaysOnItsSide DEF Close, CloseReturned
<1>22. ASSUME NEW p \in Procs, SetClosed(p) PROVE Monitor'
  BY <1>22, StaysOnItsSide DEF SetClosed
<1>23. ASSUME NEW p \in Procs, EndTrans(p) PROVE Monitor'
  BY <1>23, StaysOnItsSide DEF EndTrans, EndSession
<1>24. ASSUME NEW p \in Procs, TransEnding(p) PROVE Monitor'
  BY <1>24, StaysOnItsSide DEF TransEnding
<1>25. ASSUME NEW p \in Procs, EndRecv(p) PROVE Monitor'
  BY <1>25, StaysOnItsSide DEF EndRecv, EndSession
<1>26. ASSUME NEW p \in Procs, RecvEnding(p) PROVE Monitor'
  BY <1>26, StaysOnItsSide DEF RecvEnding
<1>27. ASSUME NEW p \in Procs, ClearTrans(p) PROVE Monitor'
  BY <1>27, StaysOnItsSide DEF ClearTrans
<1>28. ASSUME NEW p \in Procs, ClearRecv(p) PROVE Monitor'
  BY <1>28, StaysOnItsSide DEF ClearRecv, CloseReturned
<1>29. ASSUME NEW p \in Callers, Start(p) PROVE Monitor'
  BY <1>29, StaysOnItsSide DEF Start, Called
<1>30. ASSUME NEW p \in Callers, Shutdown(p) PROVE Monitor'
  BY <1>30, StaysOnItsSide DEF Shutdown, Called
<1>31. ASSUME NEW p \in Callers, ForceConnect(p) PROVE Monitor'
  BY <1>31, StaysOnItsSide DEF ForceConnect, Called
<1>32. ASSUME NEW p \in Callers, StartTimer(p) PROVE Monitor'
  BY <1>32, StaysOnItsSide DEF StartTimer
<1>33. ASSUME NEW p \in Callers, ShutTimer(p) PROVE Monitor'
  BY <1>33, StaysOnItsSide DEF ShutTimer
<1>34. ASSUME NEW w \in Workers, Timer(w) PROVE Monitor'
  BY <1>34, StaysOnItsSide DEF Timer
<1>35. ASSUME NEW w \in Workers, TimerStop(w) PROVE Monitor'
  BY <1>35, StaysOnItsSide DEF TimerStop
<1>36. ASSUME NEW w \in Workers, After(w) PROVE Monitor'
  BY <1>36, StaysOnItsSide DEF After
<1>37. ASSUME NEW w \in Workers, TimerChange(w) PROVE Monitor'
  BY <1>37, StaysOnItsSide DEF TimerChange
<1>38. ASSUME NEW w \in Workers, HandlerTimer(w) PROVE Monitor'
  BY <1>38, StaysOnItsSide DEF HandlerTimer
<1>39. ASSUME NEW w \in Workers, TimerFires(w) PROVE Monitor'
  BY <1>39, StaysOnItsSide DEF TimerFires
<1>40. ASSUME NEW w \in Workers, NEW n \in notices, SessionClosed(w, n) PROVE Monitor'
  BY <1>40, StaysOnItsSide DEF SessionClosed
<1>41. ASSUME UNCHANGED <<pc, vConnSyncRoot, vState>> PROVE Monitor'
  BY <1>41 DEF Monitor, Owner, OwnerIsBusy
<1>42. ASSUME NEW p \in Procs, CutShort(p) PROVE Monitor'
  <2>1. /\ \/ pc[p] = "recvDropped" /\ Goto(p, "clearDropped")
           \/ pc[p] \in {"transEnding", "recvEnding"} /\ Goto(p, "idle")
        /\ UNCHANGED <<vConnSyncRoot, vState>>
    BY <1>42 DEF CutShort
  <2> QED
    BY <2>1, StaysOnItsSide
<1> QED
  BY <1>1, <1>2, <1>3, <1>4, <1>5, <1>6, <1>7, <1>8, <1>9, <1>10, <1>11, <1>12, <1>13,
     <1>14, <1>15, <1>16, <1>17, <1>18, <1>19, <1>20, <1>21, <1>22, <1>23, <1>24, <1>25,
     <1>26, <1>27, <1>28, <1>29, <1>30, <1>31, <1>32, <1>33, <1>34, <1>35, <1>36, <1>37,
     <1>38, <1>39, <1>40, <1>41, <1>42 DEF Next, OpenStep, CloseStep, Operation,
     CallerStep, WorkerStep, Lose, Closed, Abandoned, Rest, vars

\* Whoever finds the client Connecting may rely on a thread being at it, which holds the
\* monitor (SmppClient.cs, Open and OpenSession).
THEOREM ConnectingIsSomebodys == Spec => []ConnectingIsOpening
<1>1. Monitor => ConnectingIsOpening
  BY DEF Monitor, Owner, OwnerIsBusy, ConnectingIsOpening, Busy, InMonitor
<1> QED
  BY MonitorInit, MonitorStep, <1>1, PTL DEF Spec

(***************************************************************************)
(* The types.                                                              *)
(***************************************************************************)

\* Which actions change which variable.
LEMMA Footprints ==
    ASSUME [Next]_vars
    PROVE  /\ \/ UNCHANGED separate
              \/ \E p \in Procs : Check(p) \/ BindBoth(p) \/ Exit(p)
           /\ \/ UNCHANGED session
              \/ \E p \in Procs : BindBoth(p) \/ SubscribeBoth(p) \/ DropRecv(p) \/
                     RecvDropped(p) \/ EndTrans(p) \/ TransEnding(p) \/ EndRecv(p) \/
                     RecvEnding(p) \/ CutShort(p)
           /\ \/ UNCHANGED restarting
              \/ \E p \in Callers : Start(p) \/ Shutdown(p)
              \/ \E p \in Procs : CutShort(p)
           /\ \/ UNCHANGED operations
              \/ \E p \in Callers : Start(p) \/ Shutdown(p) \/ ForceConnect(p)
           /\ \/ UNCHANGED vTrans
              \/ \E p \in Procs : BindBoth(p) \/ BindTrans(p) \/ ClearTrans(p)
           /\ \/ UNCHANGED vRecv
              \/ \E p \in Procs : SetRecv(p) \/ BindRecv(p) \/ ClearDropped(p) \/
                     ClearRecv(p)
           /\ \/ UNCHANGED vState
              \/ \E p \in Procs : Connecting(p) \/ Connected(p) \/ Failed(p) \/ SetClosed(p)
           /\ \/ UNCHANGED vStarted
              \/ \E p \in Callers : Start(p) \/ Shutdown(p)
           /\ \/ UNCHANGED vTimer
              \/ \E p \in Procs : Rearm(p)
              \/ \E p \in Callers : StartTimer(p) \/ ShutTimer(p)
              \/ \E w \in Workers : TimerStop(w) \/ TimerChange(w) \/ HandlerTimer(w)
           /\ \/ UNCHANGED vLastException
              \/ \E p \in Procs : Exit(p)
           /\ \/ UNCHANGED alive
              \/ \E p \in Procs : BindBoth(p) \/ BindRecv(p) \/ BindTrans(p) \/ DropRecv(p)
                     \/ EndTrans(p) \/ EndRecv(p)
              \/ \E s \in Sessions : Lose(s)
           /\ \/ UNCHANGED closing
              \/ \E s \in Sessions : Lose(s) \/ Closed(s) \/ Abandoned(s)
           /\ \/ UNCHANGED subscribed
              \/ \E p \in Procs : BindBoth(p) \/ BindRecv(p) \/ BindTrans(p) \/
                     SubscribeBoth(p) \/ SubscribeRecv(p) \/ SubscribeTrans(p) \/
                     RecvDropped(p) \/ TransEnding(p) \/ RecvEnding(p)
              \/ \E s \in Sessions : Closed(s)
           /\ \/ UNCHANGED notices
              \/ \E p \in Procs : RecvDropped(p) \/ TransEnding(p) \/ RecvEnding(p)
              \/ \E s \in Sessions : Closed(s)
              \/ \E w \in Workers, n \in notices : SessionClosed(w, n)
<1> USE DEF Next, OpenStep, CloseStep, Operation, CallerStep, WorkerStep, Rest, vars,
            localVars, fieldVars, monitorVars, sessionVars, TryEnter, Enter, Waited,
            Exit, Check, Connecting, BindBoth, SetRecv, SubscribeBoth, Connected,
            SmscId, BindRecv, SubscribeRecv, BindTrans, SubscribeTrans, DropRecv,
            RecvDropped, ClearDropped, Failed, Rearm, Close, SetClosed, EndTrans,
            TransEnding, EndRecv, RecvEnding, ClearTrans, ClearRecv, Start, Shutdown,
            ForceConnect, StartTimer, ShutTimer, Timer, TimerStop, After, TimerChange,
            HandlerTimer, TimerFires, SessionClosed, Lose, Closed, Abandoned, CutShort,
            EndSession, SessionEnded, Bound
<1>1. \/ UNCHANGED separate
      \/ \E p \in Procs : Check(p) \/ BindBoth(p) \/ Exit(p)
  OBVIOUS
<1>2. \/ UNCHANGED session
      \/ \E p \in Procs : BindBoth(p) \/ SubscribeBoth(p) \/ DropRecv(p) \/ RecvDropped(p)
             \/ EndTrans(p) \/ TransEnding(p) \/ EndRecv(p) \/ RecvEnding(p) \/ CutShort(p)
  OBVIOUS
<1>3. \/ UNCHANGED restarting
      \/ \E p \in Callers : Start(p) \/ Shutdown(p)
      \/ \E p \in Procs : CutShort(p)
  OBVIOUS
<1>4. \/ UNCHANGED operations
      \/ \E p \in Callers : Start(p) \/ Shutdown(p) \/ ForceConnect(p)
  OBVIOUS
<1>5. \/ UNCHANGED vTrans
      \/ \E p \in Procs : BindBoth(p) \/ BindTrans(p) \/ ClearTrans(p)
  OBVIOUS
<1>6. \/ UNCHANGED vRecv
      \/ \E p \in Procs : SetRecv(p) \/ BindRecv(p) \/ ClearDropped(p) \/ ClearRecv(p)
  OBVIOUS
<1>7. \/ UNCHANGED vState
      \/ \E p \in Procs : Connecting(p) \/ Connected(p) \/ Failed(p) \/ SetClosed(p)
  OBVIOUS
<1>8. \/ UNCHANGED vStarted
      \/ \E p \in Callers : Start(p) \/ Shutdown(p)
  OBVIOUS
<1>9. \/ UNCHANGED vTimer
      \/ \E p \in Procs : Rearm(p)
      \/ \E p \in Callers : StartTimer(p) \/ ShutTimer(p)
      \/ \E w \in Workers : TimerStop(w) \/ TimerChange(w) \/ HandlerTimer(w)
  OBVIOUS
<1>10. \/ UNCHANGED vLastException
       \/ \E p \in Procs : Exit(p)
  OBVIOUS
<1>11. \/ UNCHANGED alive
       \/ \E p \in Procs : BindBoth(p) \/ BindRecv(p) \/ BindTrans(p) \/ DropRecv(p) \/
              EndTrans(p) \/ EndRecv(p)
       \/ \E s \in Sessions : Lose(s)
  OBVIOUS
<1>12. \/ UNCHANGED closing
       \/ \E s \in Sessions : Lose(s) \/ Closed(s) \/ Abandoned(s)
  OBVIOUS
<1>13. \/ UNCHANGED subscribed
       \/ \E p \in Procs : BindBoth(p) \/ BindRecv(p) \/ BindTrans(p) \/ SubscribeBoth(p) \/
              SubscribeRecv(p) \/ SubscribeTrans(p) \/ RecvDropped(p) \/ TransEnding(p) \/
              RecvEnding(p)
       \/ \E s \in Sessions : Closed(s)
  OBVIOUS
<1>14. \/ UNCHANGED notices
       \/ \E p \in Procs : RecvDropped(p) \/ TransEnding(p) \/ RecvEnding(p)
       \/ \E s \in Sessions : Closed(s)
       \/ \E w \in Workers, n \in notices : SessionClosed(w, n)
  OBVIOUS
<1> QED
  BY <1>1, <1>2, <1>3, <1>4, <1>5, <1>6, <1>7, <1>8, <1>9, <1>10, <1>11, <1>12, <1>13,
     <1>14, Zenon

\* Between Bind and the subscription, the thread that binds one session for both purposes
\* has it in a local variable.
Held == \A p \in Procs : pc[p] \in {"setRecv", "subscribeBoth"} => session[p] # null

Typed == Monitor /\ TypeOK /\ Held

LEMMA NewOne == Unused # {} => NewSession \in Sessions
BY DEF NewSession, Unused

LEMMA HeldStep == Typed /\ [Next]_vars => Held'
<1> SUFFICES ASSUME Typed, [Next]_vars,
                    NEW p \in Procs, pc'[p] \in {"setRecv", "subscribeBoth"}
             PROVE  session'[p] # null
  BY DEF Held
<1>1. /\ pc \in [Procs -> Labels]
      /\ session \in [Procs -> Sessions \cup {null}]
      /\ pc[p] \in {"setRecv", "subscribeBoth"} => session[p] # null
  BY DEF Typed, Held, TypeOK, Monitor, Owner
<1> HIDE DEF Typed
<1>2. \/ pc'[p] = pc[p]
      \/ BindBoth(p) \/ SetRecv(p)
  <2> USE DEF Goto, Step, Returned, CloseReturned, Procs
  <2>1. ASSUME NEW q \in Procs, OpenStep(q), q # p PROVE pc'[p] = pc[p]
    BY <1>1, <2>1 DEF OpenStep, TryEnter, Enter, Waited, Exit, Check, Connecting, BindBoth,
          SetRecv, SubscribeBoth, Connected, SmscId, BindRecv, SubscribeRecv, BindTrans,
          SubscribeTrans, DropRecv, RecvDropped, ClearDropped, Failed, Rearm, EndSession
  <2>2. ASSUME OpenStep(p), ~BindBoth(p), ~SetRecv(p) PROVE FALSE
    <3> HIDE DEF BindBoth, SetRecv
    <3> QED
      BY <1>1, <2>2 DEF OpenStep, TryEnter, Enter, Waited, Exit, Check, Connecting,
            SubscribeBoth, Connected, SmscId, BindRecv, SubscribeRecv, BindTrans,
            SubscribeTrans, DropRecv, RecvDropped, ClearDropped, Failed, Rearm, EndSession
  <2>3. ASSUME NEW q \in Procs, CloseStep(q) PROVE pc'[p] = pc[p]
    BY <1>1, <2>3 DEF CloseStep, Close, SetClosed, EndTrans, TransEnding, EndRecv,
          RecvEnding, ClearTrans, ClearRecv, EndSession
  <2>4. ASSUME NEW q \in Callers, Operation(q) \/ CallerStep(q) PROVE pc'[p] = pc[p]
    BY <1>1, <2>4 DEF Operation, CallerStep, Start, Shutdown, ForceConnect, StartTimer,
          ShutTimer,
          Called
  <2>5. ASSUME NEW w \in Workers, TimerFires(w) \/ WorkerStep(w) PROVE pc'[p] = pc[p]
    BY <1>1, <2>5 DEF TimerFires, WorkerStep, Timer, TimerStop, After, TimerChange,
          HandlerTimer
  <2>6. ASSUME NEW w \in Workers, NEW n \in notices, SessionClosed(w, n) PROVE pc'[p] = pc[p]
    BY <1>1, <2>6 DEF SessionClosed
  <2>7. ASSUME NEW q \in Procs, CutShort(q) PROVE pc'[p] = pc[p]
    BY <1>1, <2>7 DEF CutShort
  <2> QED
    BY <2>1, <2>2, <2>3, <2>4, <2>5, <2>6, <2>7 DEF Next, Lose, Closed, Abandoned, Rest, vars
<1>3. ASSUME BindBoth(p) PROVE session'[p] # null
  BY <1>1, <1>3, NewOne DEF BindBoth, Bound, Goto, Sessions, null
<1>4. ASSUME SetRecv(p) PROVE session'[p] # null
  BY <1>1, <1>4 DEF SetRecv, Step, localVars
<1>5. ASSUME pc'[p] = pc[p] PROVE session'[p] # null
  <2>1. ASSUME NEW q \in Procs,
               \/ BindBoth(q) \/ SubscribeBoth(q) \/ DropRecv(q) \/ RecvDropped(q)
               \/ EndTrans(q) \/ TransEnding(q) \/ EndRecv(q) \/ RecvEnding(q) \/ CutShort(q)
        PROVE  session'[p] # null
    <3>1. q # p
      BY <1>1, <1>5, <2>1 DEF BindBoth, SubscribeBoth, DropRecv, RecvDropped, EndTrans,
         TransEnding, EndRecv, RecvEnding, CutShort, EndSession, Goto, Step
    <3>2. session'[p] = session[p]
      BY <1>1, <2>1, <3>1 DEF BindBoth, SubscribeBoth, DropRecv, RecvDropped, EndTrans,
         TransEnding, EndRecv, RecvEnding, CutShort, EndSession, SessionEnded, localVars
    <3> QED
      BY <1>1, <1>5, <3>2
  <2>2. CASE UNCHANGED session
    BY <1>1, <1>5, <2>2
  <2> QED
    BY <2>1, <2>2, Footprints
<1> QED
  BY <1>2, <1>3, <1>4, <1>5

LEMMA TypeStep == Typed /\ [Next]_vars => TypeOK'
<1> SUFFICES ASSUME Typed, [Next]_vars
             PROVE  TypeOK'
  OBVIOUS
<1>1. TypeOK /\ Held /\ null \notin Sessions
  BY DEF Typed, Sessions, null
<1>2. pc' \in [Procs -> Labels] /\ vConnSyncRoot' \subseteq Procs
  BY MonitorStep DEF Typed, Monitor, Owner
<1>3. separate' \in [Procs -> BOOLEAN]
  <2>1. separate \in [Procs -> BOOLEAN]
    BY <1>1 DEF TypeOK
  <2>2. ASSUME NEW p \in Procs, Check(p) PROVE separate' \in [Procs -> BOOLEAN]
    BY <2>1, <2>2 DEF Check
  <2>3. ASSUME NEW p \in Procs, BindBoth(p) PROVE separate' \in [Procs -> BOOLEAN]
    BY <2>1, <2>3 DEF BindBoth, Bound, localVars
  <2>4. ASSUME NEW p \in Procs, Exit(p) PROVE separate' \in [Procs -> BOOLEAN]
    BY <2>1, <2>4 DEF Exit
  <2> QED
    BY <2>1, <2>2, <2>3, <2>4, Footprints
<1>4. session' \in [Procs -> Sessions \cup {null}]
  BY <1>1, NewOne, Footprints
     DEF TypeOK, BindBoth, Bound, SubscribeBoth, DropRecv, RecvDropped, EndTrans, TransEnding,
         EndRecv, RecvEnding, CutShort, EndSession, SessionEnded, localVars
<1>5. restarting' \subseteq Callers
  BY <1>1, Footprints DEF TypeOK, Start, Shutdown, CutShort
<1>6. operations' \in 0..MaxOperations
  <2>1. operations \in 0..MaxOperations
    BY <1>1 DEF TypeOK
  <2>2. ASSUME NEW p \in Callers, Start(p) \/ Shutdown(p) \/ ForceConnect(p)
        PROVE  operations' \in 0..MaxOperations
    BY <2>1, <2>2 DEF Start, Shutdown, ForceConnect, Called
  <2> QED
    BY <2>1, <2>2, Footprints
<1>7. vTrans' \in Sessions \cup {null}
  BY <1>1, NewOne, Footprints DEF TypeOK, BindBoth, BindTrans, Bound, ClearTrans
<1>8. vRecv' \in Sessions \cup {null}
  BY <1>1, NewOne, Footprints
     DEF TypeOK, SetRecv, BindRecv, Bound, ClearDropped, ClearRecv, Step
<1>9. vState' \in {"Closed", "Connecting", "Connected"}
  BY <1>1, Footprints DEF TypeOK, Connecting, Connected, Failed, SetClosed
<1>10. vStarted' \in BOOLEAN
  BY <1>1, Footprints DEF TypeOK, Start, Shutdown
<1>11. vTimer' \in BOOLEAN
  BY <1>1, Footprints
     DEF TypeOK, Rearm, StartTimer, ShutTimer, TimerStop, TimerChange, HandlerTimer
<1>12. vLastException' \in BOOLEAN
  BY <1>1, Footprints DEF TypeOK, Exit
<1>13. alive' \subseteq Sessions
  BY <1>1, NewOne, Footprints
     DEF TypeOK, BindBoth, BindRecv, BindTrans, Bound, DropRecv, EndTrans, EndRecv, EndSession,
         sessionVars, Lose
<1>14. closing' \subseteq Sessions
  BY <1>1, Footprints DEF TypeOK, Lose, Closed, Abandoned
<1>15. subscribed' \subseteq Sessions
  <2>1. ASSUME NEW p \in Procs, SubscribeBoth(p) PROVE session[p] \in Sessions
    BY <1>1, <2>1 DEF TypeOK, Held, SubscribeBoth, Step
  <2> QED
    BY <1>1, <2>1, Footprints
       DEF TypeOK, BindBoth, BindRecv, BindTrans, Bound, SubscribeBoth, SubscribeRecv,
           SubscribeTrans, InitializeSession, RecvDropped, TransEnding, RecvEnding,
           SessionEnded, RaiseSessionClosed, Closed, sessionVars
<1>16. notices' \subseteq Notice
  BY <1>1, Footprints
     DEF TypeOK, Notice, RecvDropped, TransEnding, RecvEnding, SessionEnded, RaiseSessionClosed,
         Closed, SessionClosed
<1> QED
  BY <1>2, <1>3, <1>4, <1>5, <1>6, <1>7, <1>8, <1>9, <1>10, <1>11, <1>12, <1>13, <1>14, <1>15,
     <1>16 DEF TypeOK, Labels

LEMMA InitTyped == Init => Typed
<1> SUFFICES ASSUME Init PROVE Typed
  OBVIOUS
<1>1. separate \in [Procs -> BOOLEAN] /\ operations \in 0..MaxOperations
  BY DEF Init
<1>2. TypeOK
  BY <1>1 DEF Init, TypeOK
<1>3. Held
  BY DEF Init, Held
<1> QED
  BY <1>2, <1>3, MonitorInit DEF Typed

LEMMA TypedStep == Typed /\ [Next]_vars => Typed'
BY MonitorStep, TypeStep, HeldStep DEF Typed

\* Every field keeps its type; in particular, nobody subscribes to null.
THEOREM ClientTypeCorrect == Spec => []TypeOK
<1>1. Typed => TypeOK
  BY DEF Typed
<1> QED
  BY InitTyped, TypedStep, <1>1, PTL DEF Spec

(***************************************************************************)
(* The calm environment.  While it lasts, what a thread does between two   *)
(* of its steps in Open or CloseSession is not undone by the others: each  *)
(* label determines which sessions are alive, and what the fields are.     *)
(***************************************************************************)
QuietPc == InMonitor \ {"waited", "clearDropped", "failed", "rearm", "threw"}
AfterSetClosed == {"endTrans", "transEnding", "endRecv", "recvEnding", "clearTrans", "clearRecv"}

\* Only the pool closes sessions.
CallersCalm == \A p \in Callers : pc[p] \notin ClosePc \cup {"shutTimer"}

\* As long as an Open may succeed, no end of a session is being dealt with.
Quiet == \A p \in Procs : pc[p] \in QuietPc => ~Losing

\* What a thread inside OpenSession has made of the sessions and the fields.
Opener(p) ==
    /\ pc[p] \in {"connecting", "bindBoth", "bindRecv", "recvDropped", "clearDropped", "failed"}
          => alive = {}
    /\ pc[p] \in {"setRecv", "subscribeBoth"}
          => vTrans # null /\ session[p] = vTrans /\ alive = {vTrans}
    /\ pc[p] = "subscribeBoth" => vRecv = vTrans
    /\ pc[p] \in {"subscribeRecv", "bindTrans", "dropRecv"} => vRecv # null /\ alive = {vRecv}
    /\ pc[p] \in {"subscribeTrans", "connected"} => vTrans # null /\ alive \subseteq {vTrans, vRecv}
    /\ pc[p] = "smscId" => vTrans # null
    /\ pc[p] \in {"connecting", "clearDropped", "failed"} => vState # "Connected"
    /\ pc[p] \in {"bindBoth", "setRecv", "subscribeBoth", "bindRecv", "subscribeRecv", "bindTrans",
                  "subscribeTrans", "dropRecv", "recvDropped", "connected"}
          => vState = "Connecting"

\* What a thread inside CloseSession has made of them.
Closer(w) ==
    /\ pc[w] \in AfterSetClosed => vState = "Closed" /\ alive \subseteq {vTrans, vRecv}
    /\ pc[w] \in AfterSetClosed \ {"endTrans"} => vTrans \notin alive
    /\ pc[w] \in {"recvEnding", "clearTrans", "clearRecv"} => vRecv \notin alive

Openers == \A p \in Procs : Opener(p)
Closers == \A w \in Workers : Closer(w)

ConnectedIsBound == vState = "Connected" => vTrans # null /\ alive \subseteq {vTrans, vRecv}

ClosedIsEnding ==
    vState = "Closed" =>
        alive = {} \/ \E w \in Workers : pc[w] \in {"endTrans", "transEnding", "endRecv"}

Structure == Openers /\ Closers /\ ConnectedIsBound /\ ClosedIsEnding

CalmInv == Typed /\ CallersCalm /\ Quiet /\ Structure

LEMMA CalmIsAStep == [CalmNext]_vars => [Next]_vars
BY DEF CalmNext, Next, Operation

LEMMA CallersStayCalm == CalmInv /\ [CalmNext]_vars => CallersCalm'
<1> SUFFICES ASSUME CalmInv, [CalmNext]_vars, NEW c \in Callers
             PROVE  pc'[c] \notin ClosePc \cup {"shutTimer"}
  BY DEF CallersCalm
<1>1. pc \in [Procs -> Labels] /\ c \in Procs /\ c \notin Workers
  BY DEF CalmInv, Typed, Monitor, Owner, Procs
<1>2. pc[c] \notin ClosePc \cup {"shutTimer"}
  BY DEF CalmInv, CallersCalm
<1> HIDE DEF CalmInv
<1> USE DEF Goto, Step, Returned, CloseReturned, Procs, ClosePc
<1>3. ASSUME NEW p \in Procs, OpenStep(p) PROVE pc'[c] \notin ClosePc \cup {"shutTimer"}
  BY <1>1, <1>2, <1>3 DEF OpenStep, TryEnter, Enter, Waited, Exit, Check, Connecting, BindBoth,
        SetRecv, SubscribeBoth, Connected, SmscId, BindRecv, SubscribeRecv, BindTrans,
        SubscribeTrans, DropRecv, RecvDropped, ClearDropped, Failed, Rearm, EndSession
<1>4. ASSUME NEW p \in Procs, CloseStep(p) PROVE pc'[c] \notin ClosePc \cup {"shutTimer"}
  <2>1. pc[p] \in ClosePc
    BY <1>4 DEF CloseStep, Close, SetClosed, EndTrans, TransEnding, EndRecv, RecvEnding,
       ClearTrans, ClearRecv, EndSession
  <2>2. p # c
    BY <2>1, <1>2
  <2>3. pc'[c] = pc[c]
    BY <1>1, <2>2, <1>4 DEF CloseStep, Close, SetClosed, EndTrans, TransEnding, EndRecv, RecvEnding,
       ClearTrans, ClearRecv, EndSession
  <2> QED
    BY <2>3, <1>2
<1>5. ASSUME NEW p \in Callers, Start(p) \/ CallerStep(p) \/ ForceConnect(p)
      PROVE  pc'[c] \notin ClosePc \cup {"shutTimer"}
  BY <1>1, <1>2, <1>5 DEF CallerStep, Start, ForceConnect, StartTimer, ShutTimer, Called
<1>6. ASSUME NEW w \in Workers, TimerFires(w) \/ WorkerStep(w)
      PROVE  pc'[c] \notin ClosePc \cup {"shutTimer"}
  BY <1>1, <1>2, <1>6 DEF TimerFires, WorkerStep, Timer, TimerStop, After, TimerChange, HandlerTimer
<1>7. ASSUME NEW w \in Workers, NEW n \in notices, SessionClosed(w, n)
      PROVE  pc'[c] \notin ClosePc \cup {"shutTimer"}
  BY <1>1, <1>2, <1>7 DEF SessionClosed
<1> QED
  BY <1>2, <1>3, <1>4, <1>5, <1>6, <1>7 DEF CalmNext, Lose, Closed, Rest, vars

\* The end of a session begins to be dealt with only where it already is, and in an Open
\* that gives up.
LEMMA LosingStep ==
    ASSUME CalmInv, [CalmNext]_vars, ~Losing, Opening, ~(\E p \in Procs : RecvDropped(p))
    PROVE  ~Losing'
<1>1. /\ closing = {} /\ notices = {}
      /\ \A w \in Workers : pc[w] \notin ClosePc \cup {"handlerTimer"}
  BY DEF Losing
<1>2. \A p \in Procs : pc[p] \notin ClosePc
  BY <1>1 DEF CalmInv, CallersCalm, Procs
<1>3. \A p \in Callers : pc[p] # "shutTimer"
  BY DEF CalmInv, CallersCalm
<1>4. pc \in [Procs -> Labels]
  BY DEF CalmInv, Typed, Monitor, Owner
<1> HIDE DEF CalmInv
<1>5. ~(\E p \in Procs : CloseStep(p))
  BY <1>2 DEF CloseStep, Close, SetClosed, EndTrans, TransEnding, EndRecv, RecvEnding,
     ClearTrans, ClearRecv, EndSession, ClosePc, Step
<1>6. closing' = {} /\ notices' = {}
  <2>1. ASSUME NEW p \in Procs, OpenStep(p) PROVE UNCHANGED <<closing, notices>>
    <3> HIDE DEF RecvDropped
    <3> QED
      BY <2>1 DEF OpenStep, TryEnter, Enter, Waited, Exit, Check, Connecting, BindBoth,
          SetRecv, SubscribeBoth, Connected, SmscId, BindRecv, SubscribeRecv, BindTrans,
          SubscribeTrans, DropRecv, ClearDropped, Failed, Rearm, EndSession, Bound, sessionVars
  <2>2. ASSUME NEW p \in Callers, Start(p) \/ CallerStep(p) \/ ForceConnect(p)
        PROVE  UNCHANGED <<closing, notices>>
    BY <2>2 DEF CallerStep, Start, ForceConnect, StartTimer, ShutTimer, sessionVars
  <2>3. ASSUME NEW w \in Workers, TimerFires(w) \/ WorkerStep(w)
        PROVE  UNCHANGED <<closing, notices>>
    BY <2>3 DEF TimerFires, WorkerStep, Timer, TimerStop, After, TimerChange, HandlerTimer,
       sessionVars
  <2> QED
    BY <1>1, <1>5, <2>1, <2>2, <2>3 DEF CalmNext, Closed, Rest, vars, sessionVars
<1>7. ASSUME NEW w \in Workers PROVE pc'[w] \notin ClosePc \cup {"handlerTimer"}
  <2> USE DEF Goto, Step, Returned, Procs, ClosePc
  <2>1. ASSUME NEW p \in Procs, OpenStep(p) PROVE pc'[w] \notin ClosePc \cup {"handlerTimer"}
    BY <1>1, <1>4, <2>1 DEF OpenStep, TryEnter, Enter, Waited, Exit, Check, Connecting, BindBoth,
          SetRecv, SubscribeBoth, Connected, SmscId, BindRecv, SubscribeRecv, BindTrans,
          SubscribeTrans, DropRecv, RecvDropped, ClearDropped, Failed, Rearm, EndSession
  <2>2. ASSUME NEW p \in Callers, Start(p) \/ CallerStep(p) \/ ForceConnect(p)
        PROVE  pc'[w] \notin ClosePc \cup {"handlerTimer"}
    BY <1>1, <1>3, <1>4, <2>2 DEF CallerStep, Start, ForceConnect, StartTimer, ShutTimer, Called
  <2>3. ASSUME NEW v \in Workers, TimerFires(v) \/ WorkerStep(v)
        PROVE  pc'[w] \notin ClosePc \cup {"handlerTimer"}
    BY <1>1, <1>4, <2>3
       DEF TimerFires, WorkerStep, Timer, TimerStop, After, TimerChange, HandlerTimer
  <2> QED
    BY <1>1, <1>5, <2>1, <2>2, <2>3 DEF CalmNext, Lose, Closed, Rest, vars
<1> QED
  BY <1>6, <1>7 DEF Losing

LEMMA QuietStep == CalmInv /\ [CalmNext]_vars => Quiet'
<1> SUFFICES ASSUME CalmInv, [CalmNext]_vars,
                    NEW p \in Procs, pc'[p] \in QuietPc
             PROVE  ~Losing'
  BY DEF Quiet
<1>1. /\ pc \in [Procs -> Labels]
      /\ \A q, r \in Procs : pc[q] \in InMonitor /\ pc[r] \in InMonitor => q = r
      /\ pc[p] \in QuietPc => ~Losing
  BY DEF CalmInv, Typed, Monitor, Owner, Quiet
<1> HIDE DEF CalmInv
<1>2. pc[p] \in QuietPc \/ (TryEnter(p) /\ ~Losing)
  <2> USE DEF Goto, Step, Returned, CloseReturned, Procs, QuietPc, InMonitor, OpenPc
  <2>1. ASSUME NEW q \in Procs, OpenStep(q), q # p PROVE pc'[p] = pc[p]
    BY <1>1, <2>1 DEF OpenStep, TryEnter, Enter, Waited, Exit, Check, Connecting, BindBoth,
          SetRecv, SubscribeBoth, Connected, SmscId, BindRecv, SubscribeRecv, BindTrans,
          SubscribeTrans, DropRecv, RecvDropped, ClearDropped, Failed, Rearm, EndSession
  <2>2. ASSUME OpenStep(p), pc[p] = "tryEnter" PROVE TryEnter(p)
    <3> HIDE DEF TryEnter
    <3> QED
      BY <2>2 DEF OpenStep, Enter, Waited, Exit, Check, Connecting, BindBoth,
          SetRecv, SubscribeBoth, Connected, SmscId, BindRecv, SubscribeRecv, BindTrans,
          SubscribeTrans, DropRecv, RecvDropped, ClearDropped, Failed, Rearm, EndSession
  <2>3. ASSUME OpenStep(p), pc[p] # "tryEnter" PROVE pc[p] \in QuietPc
    BY <1>1, <2>3 DEF OpenStep, TryEnter, Enter, Waited, Exit, Check, Connecting, BindBoth,
          SetRecv, SubscribeBoth, Connected, SmscId, BindRecv, SubscribeRecv, BindTrans,
          SubscribeTrans, DropRecv, RecvDropped, ClearDropped, Failed, Rearm, EndSession
  <2>4. ASSUME NEW q \in Procs, CloseStep(q) PROVE pc'[p] = pc[p]
    BY <1>1, <2>4 DEF CloseStep, Close, SetClosed, EndTrans, TransEnding, EndRecv,
          RecvEnding, ClearTrans, ClearRecv, EndSession
  <2>5. ASSUME NEW q \in Callers, Start(q) \/ CallerStep(q) \/ ForceConnect(q)
        PROVE  pc'[p] = pc[p]
    BY <1>1, <2>5 DEF CallerStep, Start, ForceConnect, StartTimer, ShutTimer, Called
  <2>6. ASSUME NEW w \in Workers, TimerFires(w) \/ WorkerStep(w) PROVE pc'[p] = pc[p]
    BY <1>1, <2>6
       DEF TimerFires, WorkerStep, Timer, TimerStop, After, TimerChange, HandlerTimer
  <2>7. ASSUME NEW w \in Workers, NEW n \in notices, SessionClosed(w, n) PROVE pc'[p] = pc[p]
    BY <1>1, <2>7 DEF SessionClosed
  <2> HIDE DEF QuietPc, InMonitor, OpenPc
  <2> QED
    BY <2>1, <2>2, <2>3, <2>4, <2>5, <2>6, <2>7 DEF CalmNext, Lose, Closed, Rest, vars
<1>3. ~Losing
  BY <1>1, <1>2
<1>4. Opening
  BY <1>2 DEF QuietPc, InMonitor, TryEnter, OpenPc, Opening, CallbackRunning, Procs
<1>5. ASSUME NEW q \in Procs, RecvDropped(q) PROVE FALSE
  <2>1. pc[q] \in InMonitor \cap QuietPc /\ pc'[q] = "clearDropped"
    BY <1>1, <1>5 DEF RecvDropped, Step, Goto, QuietPc, InMonitor, OpenPc
  <2>2. p # q
    BY <2>1 DEF QuietPc
  <2>3. pc'[p] = pc[p]
    BY <1>1, <1>5, <2>2 DEF RecvDropped, Step, Goto
  <2> QED
    BY <1>1, <2>1, <2>2, <2>3 DEF QuietPc
<1> QED
  BY <1>3, <1>4, <1>5, LosingStep

\* A thread moves on outside of the monitor, without touching a session or a field.
LEMMA PlainStep ==
    ASSUME CalmInv, NEW p \in Procs, NEW l \in Labels, Goto(p, l),
           UNCHANGED <<fieldVars, alive, session>>,
           l \notin Busy \cup {"smscId"} \cup AfterSetClosed,
           pc[p] \notin AfterSetClosed
    PROVE  Structure'
<1>1. pc \in [Procs -> Labels] /\ Structure /\ Workers \subseteq Procs
  BY DEF CalmInv, Typed, Monitor, Owner, Procs
<1>2. /\ pc' \in [Procs -> Labels] /\ pc'[p] = l
      /\ \A q \in Procs : q # p => pc'[q] = pc[q]
  BY <1>1 DEF Goto
<1> HIDE DEF CalmInv, Goto
<1>3. Openers'
  BY <1>1, <1>2 DEF Structure, Openers, Opener, fieldVars, Busy, InMonitor, OpenPc
<1>4. Closers'
  BY <1>1, <1>2 DEF Structure, Closers, Closer, fieldVars, AfterSetClosed
<1>5. ClosedIsEnding'
  <2>1. ASSUME NEW w \in Workers, pc[w] \in {"endTrans", "transEnding", "endRecv"}
        PROVE  pc'[w] = pc[w]
    BY <1>1, <1>2, <2>1 DEF AfterSetClosed
  <2> QED
    BY <1>1, <2>1 DEF Structure, ClosedIsEnding, fieldVars
<1>6. ConnectedIsBound'
  BY <1>1 DEF Structure, ConnectedIsBound, fieldVars
<1> QED
  BY <1>3, <1>4, <1>5, <1>6 DEF Structure

\* The owner of the monitor moves on.
LEMMA OwnerStep ==
    ASSUME CalmInv, NEW p \in Procs, NEW l \in Labels \ AfterSetClosed, Goto(p, l),
           pc[p] \in InMonitor,
           \/ pc[p] \in QuietPc
           \/ alive = {} /\ alive' = {} /\ vState' \in {vState, "Closed"},
           Opener(p)', ConnectedIsBound',
           vState' = "Closed" => alive' = {} \/ UNCHANGED <<vState, alive>>
    PROVE  Structure'
<1>1. /\ pc \in [Procs -> Labels] /\ Structure /\ Workers \subseteq Procs
      /\ \A q \in Procs : pc[q] \in InMonitor => q = p
      /\ pc[p] \in QuietPc => \A w \in Workers : pc[w] \notin ClosePc
  BY DEF CalmInv, Typed, Monitor, Owner, Procs, Quiet, Losing
<1>2. /\ pc' \in [Procs -> Labels] /\ pc'[p] = l
      /\ \A q \in Procs : q # p => pc'[q] = pc[q]
  BY <1>1 DEF Goto
<1> HIDE DEF CalmInv, Goto
<1>3. ASSUME NEW q \in Procs PROVE Opener(q)'
  <2>1. CASE q = p
    BY <2>1
  <2>2. CASE q # p
    <3>1. pc'[q] \notin InMonitor
      BY <1>1, <1>2, <2>2
    <3> QED
      BY <3>1 DEF Opener, InMonitor, OpenPc
  <2> QED
    BY <2>1, <2>2
<1>4. ASSUME NEW w \in Workers PROVE Closer(w)'
  <2>1. CASE w = p
    BY <1>1, <1>2, <2>1 DEF Closer, AfterSetClosed
  <2>2. CASE w # p /\ pc[p] \in QuietPc
    BY <1>1, <1>2, <2>2 DEF Closer, AfterSetClosed, ClosePc
  <2>3. CASE w # p /\ pc[p] \notin QuietPc
    BY <1>1, <1>2, <2>3 DEF Structure, Closers, Closer, AfterSetClosed
  <2> QED
    BY <2>1, <2>2, <2>3
<1>5. ClosedIsEnding'
  <2>1. ASSUME NEW w \in Workers, pc[w] \in {"endTrans", "transEnding", "endRecv"}
        PROVE  pc'[w] = pc[w]
    BY <1>1, <1>2, <2>1 DEF InMonitor, OpenPc
  <2> QED
    BY <1>1, <2>1 DEF Structure, ClosedIsEnding
<1> QED
  BY <1>3, <1>4, <1>5 DEF Structure, Openers, Closers

LEMMA OpenKeepsStructure ==
    ASSUME CalmInv, NEW p \in Procs, OpenStep(p)
    PROVE  Structure'
<1>1. /\ pc \in [Procs -> Labels] /\ pc[p] \in Labels /\ null \notin Sessions
      /\ Opener(p) /\ ConnectedIsBound /\ ClosedIsEnding
      /\ vState \in {"Closed", "Connecting", "Connected"}
      /\ session \in [Procs -> Sessions \cup {null}]
      /\ pc[p] \in {"check", "connecting"} => \A w \in Workers : pc[w] \notin ClosePc
  BY DEF CalmInv, Typed, TypeOK, Monitor, Owner, Structure, Openers, Sessions, null, Quiet,
     QuietPc, InMonitor, OpenPc, Losing
<1>2. \A l \in Labels : Goto(p, l) => pc'[p] = l
  BY <1>1 DEF Goto
<1> USE DEF Labels, InMonitor, QuietPc, Busy, OpenPc, ClosePc, AfterSetClosed, WorkerPc,
            localVars, fieldVars, sessionVars
<1> DEFINE Good == /\ Opener(p)' /\ ConnectedIsBound'
                   /\ vState' = "Closed" => alive' = {} \/ UNCHANGED <<vState, alive>>
<1>3. CASE TryEnter(p)
  BY <1>3, PlainStep DEF TryEnter
<1>4. CASE Enter(p)
  BY <1>4, PlainStep DEF Enter, Step
<1>5. CASE Waited(p)
  BY <1>5, PlainStep DEF Waited, Returned
<1>6. CASE Exit(p)
  BY <1>6, PlainStep DEF Exit, Returned
<1>7. CASE Rearm(p)
  BY <1>7, PlainStep DEF Rearm, Step
<1>8. CASE Check(p)
  <2>1. Goto(p, "threw") \/ (Goto(p, "connecting") /\ vState = "Closed")
    BY <1>8 DEF Check
  <2>2. Good
    BY <1>1, <1>2, <1>8, <2>1 DEF Check, ClosedIsEnding, Opener, ConnectedIsBound
  <2> QED
    BY <1>8, <2>1, <2>2, OwnerStep DEF Check
<1>9. CASE Connecting(p)
  <2>1. Goto(p, "bindRecv") \/ Goto(p, "bindBoth")
    BY <1>1, <1>9 DEF Connecting, Step
  <2>2. Good
    BY <1>1, <1>2, <1>9, <2>1 DEF Connecting, Step, Opener, ConnectedIsBound
  <2> QED
    BY <1>1, <1>9, <2>1, <2>2, OwnerStep DEF Connecting, Step
<1>10. CASE BindBoth(p)
  <2>1. Goto(p, "setRecv") \/ Goto(p, "failed") \/ Goto(p, "connecting")
    BY <1>1, <1>10 DEF BindBoth
  <2>2. Good
    BY <1>1, <1>2, <1>10, <2>1, NewOne DEF BindBoth, Bound, Opener, ConnectedIsBound
  <2> QED
    BY <1>1, <1>10, <2>1, <2>2, OwnerStep DEF BindBoth
<1>11. CASE SetRecv(p)
  <2>1. Goto(p, "subscribeBoth")
    BY <1>1, <1>11 DEF SetRecv, Step
  <2>2. Good
    BY <1>1, <1>2, <1>11, <2>1 DEF SetRecv, Step, Opener, ConnectedIsBound
  <2> QED
    BY <1>1, <1>11, <2>1, <2>2, OwnerStep DEF SetRecv, Step
<1>12. CASE SubscribeBoth(p)
  <2>1. Goto(p, "connected")
    BY <1>1, <1>12 DEF SubscribeBoth, Step
  <2>2. Good
    BY <1>1, <1>2, <1>12, <2>1 DEF SubscribeBoth, Step, Opener, ConnectedIsBound
  <2> QED
    BY <1>1, <1>12, <2>1, <2>2, OwnerStep DEF SubscribeBoth, Step
<1>13. CASE Connected(p)
  <2>1. Goto(p, "smscId")
    BY <1>1, <1>13 DEF Connected, Step
  <2>2. Good
    BY <1>1, <1>2, <1>13, <2>1 DEF Connected, Step, Opener, ConnectedIsBound
  <2> QED
    BY <1>1, <1>13, <2>1, <2>2, OwnerStep DEF Connected, Step
<1>14. CASE SmscId(p)
  <2>1. Goto(p, "succeeded") /\ vTrans # null
    BY <1>1, <1>14 DEF SmscId, Opener
  <2>2. Good
    BY <1>1, <1>2, <1>14, <2>1 DEF SmscId, Opener, ConnectedIsBound
  <2> QED
    BY <1>1, <1>14, <2>1, <2>2, OwnerStep DEF SmscId
<1>15. CASE BindRecv(p)
  <2>1. Goto(p, "subscribeRecv") \/ Goto(p, "failed")
    BY <1>1, <1>15 DEF BindRecv
  <2>2. Good
    BY <1>1, <1>2, <1>15, <2>1, NewOne DEF BindRecv, Bound, Opener, ConnectedIsBound
  <2> QED
    BY <1>1, <1>15, <2>1, <2>2, OwnerStep DEF BindRecv
<1>16. CASE SubscribeRecv(p)
  <2>1. Goto(p, "bindTrans") \/ Goto(p, "failed")
    BY <1>1, <1>16 DEF SubscribeRecv
  <2>2. Good
    BY <1>1, <1>2, <1>16, <2>1 DEF SubscribeRecv, Opener, ConnectedIsBound
  <2> QED
    BY <1>1, <1>16, <2>1, <2>2, OwnerStep DEF SubscribeRecv
<1>17. CASE BindTrans(p)
  <2>1. Goto(p, "subscribeTrans") \/ Goto(p, "dropRecv")
    BY <1>1, <1>17 DEF BindTrans
  <2>2. Good
    BY <1>1, <1>2, <1>17, <2>1, NewOne DEF BindTrans, Bound, Opener, ConnectedIsBound
  <2> QED
    BY <1>1, <1>17, <2>1, <2>2, OwnerStep DEF BindTrans
<1>18. CASE SubscribeTrans(p)
  <2>1. Goto(p, "connected") \/ Goto(p, "dropRecv")
    BY <1>1, <1>18 DEF SubscribeTrans
  <2>2. Good
    BY <1>1, <1>2, <1>18, <2>1 DEF SubscribeTrans, Opener, ConnectedIsBound
  <2> QED
    BY <1>1, <1>18, <2>1, <2>2, OwnerStep DEF SubscribeTrans
<1>19. CASE DropRecv(p)
  <2>1. Goto(p, "recvDropped") \/ Goto(p, "clearDropped")
    BY <1>1, <1>19 DEF DropRecv, EndSession
  <2>2. Good
    BY <1>1, <1>2, <1>19, <2>1 DEF DropRecv, EndSession, Opener, ConnectedIsBound
  <2> QED
    BY <1>1, <1>19, <2>1, <2>2, OwnerStep DEF DropRecv
<1>20. CASE RecvDropped(p)
  <2>1. Goto(p, "clearDropped")
    BY <1>1, <1>20 DEF RecvDropped, Step
  <2>2. Good
    BY <1>1, <1>2, <1>20, <2>1 DEF RecvDropped, Step, Opener, ConnectedIsBound
  <2> QED
    BY <1>1, <1>20, <2>1, <2>2, OwnerStep DEF RecvDropped, Step
<1>21. CASE ClearDropped(p)
  <2>1. Goto(p, "failed")
    BY <1>1, <1>21 DEF ClearDropped, Step
  <2>2. Good
    BY <1>1, <1>2, <1>21, <2>1 DEF ClearDropped, Step, Opener, ConnectedIsBound
  <2> QED
    BY <1>1, <1>21, <2>1, <2>2, OwnerStep DEF ClearDropped, Step, Opener
<1>22. CASE Failed(p)
  <2>1. Goto(p, "rearm")
    BY <1>1, <1>22 DEF Failed, Step
  <2>2. Good
    BY <1>1, <1>2, <1>22, <2>1 DEF Failed, Step, Opener, ConnectedIsBound
  <2> QED
    BY <1>1, <1>22, <2>1, <2>2, OwnerStep DEF Failed, Step, Opener
<1> QED
  BY <1>3, <1>4, <1>5, <1>6, <1>7, <1>8, <1>9, <1>10, <1>11, <1>12, <1>13, <1>14, <1>15, <1>16,
     <1>17, <1>18, <1>19, <1>20, <1>21, <1>22 DEF OpenStep

\* A handler moves on inside CloseSession.
LEMMA HandlerStep ==
    ASSUME CalmInv, NEW w \in Workers, NEW l \in {"idle", "start"} \cup AfterSetClosed,
           Goto(w, l), pc[w] \in ClosePc,
           vState' = "Closed", alive' \subseteq alive,
           alive' = {} \/ l \in {"endTrans", "transEnding", "endRecv"},
           alive = {} \/ UNCHANGED <<vTrans, vRecv>>,
           Closer(w)'
    PROVE  Structure'
<1>1. /\ pc \in [Procs -> Labels] /\ Structure /\ Workers \subseteq Procs
      /\ \A q \in Procs : pc[q] \notin QuietPc
  BY DEF CalmInv, Typed, Monitor, Owner, Procs, Quiet, Losing
<1>2. /\ pc'[w] = l
      /\ \A q \in Procs : q # w => pc'[q] = pc[q]
  BY <1>1 DEF Goto
<1> HIDE DEF CalmInv, Goto
<1>3. ASSUME NEW q \in Procs PROVE Opener(q)'
  <2>1. CASE q = w
    BY <1>2, <2>1 DEF Opener, AfterSetClosed
  <2>2. CASE q # w
    BY <1>1, <1>2, <2>2 DEF Structure, Openers, Opener, QuietPc, InMonitor, OpenPc
  <2> QED
    BY <2>1, <2>2
<1>4. ASSUME NEW v \in Workers PROVE Closer(v)'
  <2>1. CASE v # w
    BY <1>1, <1>2, <2>1 DEF Structure, Closers, Closer
  <2> QED
    BY <2>1
<1>5. ClosedIsEnding' /\ ConnectedIsBound'
  BY <1>2 DEF ClosedIsEnding, ConnectedIsBound
<1> QED
  BY <1>3, <1>4, <1>5 DEF Structure, Openers, Closers

LEMMA CloseKeepsStructure ==
    ASSUME CalmInv, NEW p \in Procs, CloseStep(p)
    PROVE  Structure'
<1>1. /\ pc \in [Procs -> Labels] /\ Structure /\ Workers \subseteq Procs
      /\ vState \in {"Closed", "Connecting", "Connected"}
  BY DEF CalmInv, Typed, TypeOK, Monitor, Owner, Procs
<1>2. pc[p] \in ClosePc
  BY DEF CloseStep, Close, SetClosed, EndTrans, TransEnding, EndRecv, RecvEnding, ClearTrans,
     ClearRecv, ClosePc, Step
<1>3. p \in Workers
  BY <1>2 DEF CalmInv, CallersCalm, Procs
<1>4. Closer(p)
  BY <1>1, <1>3 DEF Structure, Closers
<1>5. \A l \in Labels : Goto(p, l) => pc'[p] = l
  BY <1>1 DEF Goto
<1> USE DEF Labels, ClosePc, AfterSetClosed
<1> HIDE DEF CalmInv
<1>6. CASE Close(p)
  <2>1. Goto(p, "start") \/ Goto(p, "idle") \/ Goto(p, "setClosed")
    BY <1>6 DEF Close, CloseReturned
  <2> QED
    BY <1>6, <2>1, PlainStep DEF Close, localVars, sessionVars, Busy, InMonitor, OpenPc, CallerPc
<1>7. CASE SetClosed(p)
  <2>1. Goto(p, "endTrans") /\ UNCHANGED <<vTrans, vRecv, alive>> /\ vState' = "Closed"
    BY <1>7 DEF SetClosed, Step, sessionVars
  <2>2. alive \subseteq {vTrans, vRecv}
    <3>1. CASE vState = "Connected"
      BY <1>1, <3>1 DEF Structure, ConnectedIsBound
    <3>2. CASE vState = "Closed"
      BY <1>1, <3>2 DEF Structure, ClosedIsEnding, Closers, Closer
    <3>3. CASE vState = "Connecting"
      <4>1. PICK q \in Procs : pc[q] \in Busy
        BY <3>3 DEF CalmInv, Typed, Monitor, Owner, OwnerIsBusy
      <4>2. pc[q] \in {"clearDropped", "failed"}
        BY <1>2, <1>3, <4>1 DEF CalmInv, Quiet, Losing, QuietPc, Busy
      <4> QED
        BY <1>1, <4>2 DEF Structure, Openers, Opener
    <3> QED
      BY <1>1, <3>1, <3>2, <3>3
  <2>3. Closer(p)'
    BY <1>5, <2>1, <2>2 DEF Closer
  <2> QED
    BY <1>2, <1>3, <2>1, <2>3, HandlerStep
<1>8. CASE EndTrans(p)
  <2>1. /\ Goto(p, "transEnding") \/ Goto(p, "endRecv")
        /\ UNCHANGED <<vState, vTrans, vRecv>> /\ alive' = alive \ {vTrans}
        /\ pc[p] = "endTrans"
    BY <1>8 DEF EndTrans, EndSession, fieldVars
  <2>2. Closer(p)'
    BY <1>4, <1>5, <2>1 DEF Closer
  <2> QED
    BY <1>2, <1>3, <1>4, <2>1, <2>2, HandlerStep DEF Closer
<1>9. CASE TransEnding(p)
  <2>1. Goto(p, "endRecv") /\ UNCHANGED <<vState, vTrans, vRecv, alive>> /\ pc[p] = "transEnding"
    BY <1>9 DEF TransEnding, Step, fieldVars
  <2>2. Closer(p)'
    BY <1>4, <1>5, <2>1 DEF Closer
  <2> QED
    BY <1>2, <1>3, <1>4, <2>1, <2>2, HandlerStep DEF Closer
<1>10. CASE EndRecv(p)
  <2>1. /\ Goto(p, "recvEnding") \/ Goto(p, "clearTrans")
        /\ UNCHANGED <<vState, vTrans, vRecv>> /\ alive' = alive \ {vRecv}
        /\ pc[p] = "endRecv"
    BY <1>10 DEF EndRecv, EndSession, fieldVars
  <2>2. Closer(p)' /\ alive' = {}
    BY <1>4, <1>5, <2>1 DEF Closer
  <2> QED
    BY <1>2, <1>3, <1>4, <2>1, <2>2, HandlerStep DEF Closer
<1>11. ASSUME RecvEnding(p) \/ ClearTrans(p) \/ ClearRecv(p) PROVE Structure'
  <2>1. /\ Goto(p, "clearTrans") \/ Goto(p, "clearRecv") \/ Goto(p, "idle") \/ Goto(p, "start")
        /\ UNCHANGED <<vState, alive>>
        /\ pc[p] \in {"recvEnding", "clearTrans", "clearRecv"}
    BY <1>11 DEF RecvEnding, ClearTrans, ClearRecv, CloseReturned, Step, fieldVars, sessionVars
  <2>2. alive = {} /\ vState = "Closed"
    BY <1>4, <2>1 DEF Closer
  <2>3. Closer(p)'
    BY <1>5, <2>1, <2>2 DEF Closer
  <2> QED
    BY <1>2, <1>3, <2>1, <2>2, <2>3, HandlerStep
<1> QED
  BY <1>6, <1>7, <1>8, <1>9, <1>10, <1>11 DEF CloseStep

LEMMA StructureStep == CalmInv /\ [CalmNext]_vars => Structure'
<1> SUFFICES ASSUME CalmInv, [CalmNext]_vars
             PROVE  Structure'
  OBVIOUS
<1>1. Structure
  BY DEF CalmInv
<1> HIDE DEF CalmInv
<1>2. ASSUME NEW p \in Callers, Start(p) \/ CallerStep(p) \/ ForceConnect(p) PROVE Structure'
  <2>1. /\ Goto(p, "startTimer") \/ Goto(p, "idle") \/ Goto(p, "close") \/ Goto(p, "tryEnter")
        /\ pc[p] \in {"idle", "start", "startTimer", "shutTimer"}
        /\ UNCHANGED <<fieldVars, alive, session>>
    BY <1>2 DEF Start, Called, CallerStep, StartTimer, ShutTimer, ForceConnect, Step, localVars,
       sessionVars
  <2> QED
    BY <2>1, PlainStep DEF Labels, ClosePc, CallerPc, OpenPc, Busy, InMonitor, AfterSetClosed, Procs
<1>3. ASSUME NEW w \in Workers, TimerFires(w) \/ WorkerStep(w) PROVE Structure'
  <2>1. /\ \/ Goto(w, "timer") \/ Goto(w, "timerStop") \/ Goto(w, "idle") \/ Goto(w, "tryEnter")
           \/ Goto(w, "timerStart") \/ Goto(w, "timerStopAgain") \/ Goto(w, "close")
        /\ pc[w] \in {"idle"} \cup WorkerPc
        /\ UNCHANGED <<fieldVars, alive, session>>
    BY <1>3 DEF TimerFires, WorkerStep, Timer, TimerStop, After, TimerChange, HandlerTimer, Step,
       localVars, sessionVars, WorkerPc
  <2> QED
    BY <2>1, PlainStep DEF Labels, ClosePc, WorkerPc, OpenPc, Busy, InMonitor, AfterSetClosed, Procs
<1>4. ASSUME NEW w \in Workers, NEW n \in notices, SessionClosed(w, n) PROVE Structure'
  <2>1. /\ Goto(w, "handlerTimer") \/ Goto(w, "close")
        /\ pc[w] = "idle"
        /\ UNCHANGED <<fieldVars, alive, session>>
    BY <1>4 DEF SessionClosed, Step, localVars
  <2> QED
    BY <2>1, PlainStep DEF Labels, ClosePc, WorkerPc, OpenPc, Busy, InMonitor, AfterSetClosed, Procs
<1>5. ASSUME NEW s \in Sessions, Lose(s), ~Opening PROVE Structure'
  <2>1. /\ UNCHANGED <<pc, session, fieldVars>> /\ alive' \subseteq alive
        /\ \A p \in Procs : pc[p] \notin OpenPc
    BY <1>5 DEF Lose, localVars, Opening, CallbackRunning, Procs
  <2>2. Openers'
    BY <2>1 DEF Openers, Opener, OpenPc
  <2>3. Closers'
    BY <1>1, <2>1 DEF Structure, Closers, Closer, fieldVars
  <2>4. ClosedIsEnding' /\ ConnectedIsBound'
    BY <1>1, <2>1 DEF Structure, ClosedIsEnding, ConnectedIsBound, fieldVars
  <2> QED
    BY <2>2, <2>3, <2>4 DEF Structure
<1>6. ASSUME UNCHANGED <<pc, session, fieldVars, alive>> PROVE Structure'
  BY <1>1, <1>6 DEF Structure, Openers, Opener, Closers, Closer, ClosedIsEnding,
     ConnectedIsBound, fieldVars
<1>7. ASSUME NEW s \in Sessions, Closed(s) PROVE Structure'
  BY <1>6, <1>7 DEF Closed, localVars
<1>8. ASSUME UNCHANGED vars PROVE Structure'
  BY <1>6, <1>8 DEF vars, localVars, sessionVars
<1> QED
  BY <1>2, <1>3, <1>4, <1>5, <1>7, <1>8, OpenKeepsStructure, CloseKeepsStructure
     DEF CalmNext, Rest

LEMMA CalmInit == Init => CalmInv
<1> SUFFICES ASSUME Init PROVE CalmInv
  OBVIOUS
<1>1. Typed
  BY InitTyped
<1>2. \A p \in Procs : pc[p] = "idle"
  BY DEF Init
<1>3. CallersCalm /\ Quiet
  BY <1>2 DEF CallersCalm, Quiet, ClosePc, QuietPc, InMonitor, OpenPc, Procs
<1>4. Openers /\ Closers
  BY <1>2 DEF Openers, Opener, Closers, Closer, AfterSetClosed, Procs
<1>5. ConnectedIsBound /\ ClosedIsEnding
  BY DEF Init, ConnectedIsBound, ClosedIsEnding
<1> QED
  BY <1>1, <1>3, <1>4, <1>5 DEF CalmInv, Structure

LEMMA CalmStep == CalmInv /\ [CalmNext]_vars => CalmInv'
BY CalmIsAStep, TypedStep, CallersStayCalm, QuietStep, StructureStep DEF CalmInv

\* Somebody who closes the client knows that the session to send with is gone, or will be
\* told: the client has subscribed to it before it said that it was connected.
Told ==
    \/ vTrans \in (alive \cup closing) \cap subscribed
    \/ notices # {}
    \/ \E w \in Workers : pc[w] \in {"handlerTimer", "close", "setClosed"}

Ready(p) ==
    /\ pc[p] = "subscribeTrans" => vTrans \in alive
    /\ pc[p] = "connected" => vTrans \in alive \cap subscribed

ServedInv == (vState = "Connected" => Told) /\ \A p \in Procs : Ready(p)

\* While a thread is in between, nobody else touches the sessions.
LEMMA ReadyStep == CalmInv /\ ServedInv /\ [CalmNext]_vars => \A p \in Procs : Ready(p)'
<1> SUFFICES ASSUME CalmInv, ServedInv, [CalmNext]_vars, NEW p \in Procs
             PROVE  Ready(p)'
  OBVIOUS
<1>1. /\ pc \in [Procs -> Labels] /\ session \in [Procs -> Sessions \cup {null}]
      /\ \A q, r \in Procs : pc[q] \in InMonitor /\ pc[r] \in InMonitor => q = r
      /\ pc[p] \in {"bindTrans", "subscribeTrans", "subscribeBoth", "connected"} =>
             /\ closing = {} /\ notices = {}
             /\ \A w \in Workers : pc[w] \notin ClosePc
      /\ pc[p] = "subscribeBoth" => session[p] = vTrans /\ vTrans \in alive
      /\ \A c \in Callers : pc[c] \notin ClosePc
  BY DEF CalmInv, Typed, TypeOK, Monitor, Owner, Quiet, QuietPc, InMonitor, OpenPc, Losing,
     Structure, Openers, Opener, CallersCalm
<1>2. Ready(p)
  BY DEF ServedInv
<1> HIDE DEF CalmInv, ServedInv
<1>3. CASE OpenStep(p)
  <2> USE DEF Goto, Step, Ready
  <2>1. CASE SubscribeBoth(p)
    BY <1>1, <2>1 DEF SubscribeBoth, InitializeSession, fieldVars
  <2>2. CASE BindTrans(p)
    BY <1>1, <2>2 DEF BindTrans, Bound
  <2>3. CASE SubscribeTrans(p)
    BY <1>1, <1>2, <2>3 DEF SubscribeTrans, InitializeSession, fieldVars
  <2>4. ASSUME ~SubscribeBoth(p), ~BindTrans(p), ~SubscribeTrans(p)
        PROVE  pc'[p] \notin {"subscribeTrans", "connected"}
    <3> HIDE DEF SubscribeBoth, BindTrans, SubscribeTrans
    <3> QED
      BY <1>1, <1>3, <2>4 DEF OpenStep, TryEnter, Enter, Waited, Exit, Check, Connecting, BindBoth,
        SetRecv, Connected, SmscId, BindRecv, SubscribeRecv, DropRecv, RecvDropped, ClearDropped,
        Failed, Rearm, EndSession, Returned
  <2> QED
    BY <2>1, <2>2, <2>3, <2>4
<1>4. ASSUME NEW q \in Procs, OpenStep(q), q # p PROVE Ready(p)'
  <2>1. pc'[p] = pc[p]
    BY <1>1, <1>4 DEF OpenStep, TryEnter, Enter, Waited, Exit, Check, Connecting, BindBoth,
        SetRecv, SubscribeBoth, Connected, SmscId, BindRecv, SubscribeRecv, BindTrans,
        SubscribeTrans, DropRecv, RecvDropped, ClearDropped, Failed, Rearm, EndSession, Goto, Step,
        Returned
  <2>2. pc[q] \in InMonitor \/ TryEnter(q) \/ Enter(q)
    <3> HIDE DEF TryEnter, Enter
    <3> QED
      BY <1>4 DEF OpenStep, Waited, Exit, Check, Connecting, BindBoth,
        SetRecv, SubscribeBoth, Connected, SmscId, BindRecv, SubscribeRecv, BindTrans,
        SubscribeTrans, DropRecv, RecvDropped, ClearDropped, Failed, Rearm, Step, InMonitor, OpenPc
  <2>3. CASE pc[q] \in InMonitor
    BY <1>1, <1>4, <2>1, <2>3 DEF Ready, InMonitor, OpenPc
  <2>4. CASE TryEnter(q) \/ Enter(q)
    BY <1>2, <2>1, <2>4 DEF Ready, TryEnter, Enter, fieldVars, sessionVars
  <2> QED
    BY <2>2, <2>3, <2>4
<1>5. ASSUME NEW q \in Procs, CloseStep(q) PROVE Ready(p)'
  <2>1. pc[q] \in ClosePc /\ pc'[p] \in {pc[p]} \cup ClosePc \cup {"start", "idle"}
    BY <1>1, <1>5 DEF CloseStep, Close, SetClosed, EndTrans, TransEnding, EndRecv, RecvEnding,
       ClearTrans, ClearRecv, EndSession, CloseReturned, ClosePc, Step, Goto
  <2>2. pc[p] \notin {"subscribeTrans", "connected"}
    BY <1>1, <2>1 DEF Procs
  <2> QED
    BY <2>1, <2>2 DEF Ready, ClosePc
<1>6. ASSUME NEW c \in Callers, Start(c) \/ CallerStep(c) \/ ForceConnect(c) PROVE Ready(p)'
  <2>1. /\ pc'[p] \in {pc[p], "startTimer", "idle", "close", "tryEnter"}
        /\ UNCHANGED <<vTrans, alive, subscribed>>
    BY <1>1, <1>6 DEF Start, Called, CallerStep, StartTimer, ShutTimer, ForceConnect, Step, Goto,
       Procs, fieldVars, sessionVars
  <2> QED
    BY <1>2, <2>1 DEF Ready
<1>7. ASSUME NEW w \in Workers, TimerFires(w) \/ WorkerStep(w) PROVE Ready(p)'
  <2>1. /\ pc'[p] \in {pc[p], "idle", "tryEnter", "close"} \cup WorkerPc
        /\ UNCHANGED <<vTrans, alive, subscribed>>
    BY <1>1, <1>7 DEF TimerFires, WorkerStep, Timer, TimerStop, After, TimerChange, HandlerTimer,
       Step, Goto, Procs, WorkerPc, fieldVars, sessionVars
  <2> QED
    BY <1>2, <2>1 DEF Ready, WorkerPc
<1>8. ASSUME NEW w \in Workers, NEW n \in notices, SessionClosed(w, n) PROVE Ready(p)'
  BY <1>1, <1>2, <1>8 DEF SessionClosed, Step, Goto, Procs, Ready, fieldVars
<1>9. ASSUME NEW s \in Sessions, Lose(s), ~Opening PROVE Ready(p)'
  BY <1>9 DEF Lose, Opening, CallbackRunning, Procs, Ready, OpenPc
<1>10. ASSUME NEW s \in Sessions, Closed(s) PROVE Ready(p)'
  BY <1>1, <1>10 DEF Closed, Ready
<1>11. ASSUME UNCHANGED vars PROVE Ready(p)'
  BY <1>2, <1>11 DEF Ready, vars, fieldVars, sessionVars
<1> QED
  BY <1>3, <1>4, <1>5, <1>6, <1>7, <1>8, <1>9, <1>10, <1>11 DEF CalmNext, Rest

LEMMA ToldStep == CalmInv /\ ServedInv /\ [CalmNext]_vars => (vState = "Connected" => Told)'
<1> SUFFICES ASSUME CalmInv, ServedInv, [CalmNext]_vars, vState' = "Connected"
             PROVE  Told'
  OBVIOUS
<1>1. /\ pc \in [Procs -> Labels] /\ Workers \subseteq Procs
      /\ \A p \in Procs : pc[p] \in {"bindBoth", "bindRecv", "subscribeBoth", "subscribeRecv",
             "bindTrans", "subscribeTrans", "dropRecv", "recvDropped"} => vState = "Connecting"
      /\ \A w \in Workers : pc[w] \in AfterSetClosed => vState = "Closed"
      /\ \A c \in Callers : pc[c] \notin ClosePc
  BY DEF CalmInv, Typed, Monitor, Owner, Structure, Openers, Opener, Closers, Closer, CallersCalm,
     Procs
<1>2. vState = "Connected" => Told
  BY DEF ServedInv
<1>3. \A p \in Procs : pc[p] = "connected" => vTrans \in alive \cap subscribed
  BY DEF ServedInv, Ready
<1>4. [Next]_vars
  BY CalmIsAStep
<1> HIDE DEF CalmInv, ServedInv
<1>5. ASSUME NEW p \in Procs, Connected(p) PROVE Told'
  BY <1>3, <1>5 DEF Connected, Step, Told, sessionVars
<1>6. ASSUME ~(\E p \in Procs : Connected(p)) PROVE Told'
  <2>1. vState = "Connected"
    <3>1. ASSUME NEW p \in Procs, Connecting(p) \/ Failed(p) \/ SetClosed(p) PROVE FALSE
      BY <3>1 DEF Connecting, Failed, SetClosed
    <3> QED
      BY <1>4, <1>6, <3>1, Footprints
  <2>2. Told
    BY <1>2, <2>1
  <2>3. ASSUME NEW w \in Workers, pc[w] \in {"handlerTimer", "close", "setClosed"},
               NEW p \in Procs, OpenStep(p)
        PROVE  pc'[w] = pc[w]
    BY <1>1, <2>3 DEF OpenStep, TryEnter, Enter, Waited, Exit, Check, Connecting, BindBoth,
        SetRecv, SubscribeBoth, Connected, SmscId, BindRecv, SubscribeRecv, BindTrans,
        SubscribeTrans, DropRecv, RecvDropped, ClearDropped, Failed, Rearm, EndSession, Goto, Step,
        Returned
  <2>4. ASSUME NEW p \in Procs, OpenStep(p) PROVE Told'
    <3>1. UNCHANGED <<vTrans, alive, closing, subscribed, notices>>
      BY <1>1, <2>1, <2>4 DEF OpenStep, TryEnter, Enter, Waited, Exit, Check, Connecting, BindBoth,
        SetRecv, SubscribeBoth, Connected, SmscId, BindRecv, SubscribeRecv, BindTrans,
        SubscribeTrans, DropRecv, RecvDropped, ClearDropped, Failed, Rearm, Step, fieldVars,
        sessionVars
    <3> QED
      BY <2>2, <2>3, <2>4, <3>1 DEF Told
  <2>5. ASSUME NEW p \in Procs, CloseStep(p) PROVE Told'
    <3>1. p \in Workers /\ (Close(p) \/ SetClosed(p))
      BY <1>1, <2>1, <2>5 DEF CloseStep, Close, SetClosed, EndTrans, TransEnding, EndRecv, RecvEnding,
         ClearTrans, ClearRecv, Step, ClosePc, AfterSetClosed, Procs
    <3>2. Close(p)
      BY <3>1 DEF SetClosed
    <3>3. pc'[p] = "setClosed"
      BY <1>1, <2>1, <2>5, <3>2 DEF Close, Goto
    <3> QED
      BY <3>1, <3>3 DEF Told
  <2>6. ASSUME NEW w \in Workers, HandlerTimer(w) PROVE Told'
    BY <1>1, <2>6 DEF HandlerTimer, Step, Goto, Told
  <2>7. ASSUME NEW w \in Workers, NEW n \in notices, SessionClosed(w, n) PROVE Told'
    BY <1>1, <2>7 DEF SessionClosed, Step, Goto, Told
  <2>8. ASSUME NEW s \in Sessions, Lose(s) PROVE Told'
    BY <2>2, <2>8 DEF Lose, Told, fieldVars
  <2>9. ASSUME NEW s \in Sessions, Closed(s) PROVE Told'
    BY <2>2, <2>9 DEF Closed, RaiseSessionClosed, Told, fieldVars
  <2>10. ASSUME NEW c \in Callers, Start(c) \/ CallerStep(c) \/ ForceConnect(c) PROVE Told'
    <3>1. UNCHANGED <<vTrans, alive, closing, subscribed, notices>>
      BY <2>10 DEF Start, CallerStep, StartTimer, ShutTimer, ForceConnect, fieldVars, sessionVars
    <3>2. \A w \in Workers : pc'[w] = pc[w]
      <4>1. \A w \in Workers : w # c
        BY ConstantsAssumption
      <4> QED
        BY <1>1, <2>10, <4>1 DEF Start, CallerStep, StartTimer, ShutTimer, ForceConnect, Step, Goto
    <3> QED
      BY <2>2, <3>1, <3>2 DEF Told
  <2>11. ASSUME NEW v \in Workers,
                TimerFires(v) \/ Timer(v) \/ TimerStop(v) \/ After(v) \/ TimerChange(v)
         PROVE  Told'
    <3>1. UNCHANGED <<vTrans, alive, closing, subscribed, notices>>
      BY <2>11 DEF TimerFires, Timer, TimerStop, After, TimerChange, fieldVars, sessionVars
    <3>2. ASSUME NEW w \in Workers, pc[w] \in {"handlerTimer", "close", "setClosed"}
          PROVE  pc'[w] = pc[w]
      BY <1>1, <2>11, <3>2 DEF TimerFires, Timer, TimerStop, After, TimerChange, Step, Goto
    <3> QED
      BY <2>2, <3>1, <3>2 DEF Told
  <2>12. ASSUME UNCHANGED vars PROVE Told'
    BY <2>2, <2>12 DEF Told, vars, fieldVars, sessionVars
  <2> QED
    BY <2>4, <2>5, <2>6, <2>7, <2>8, <2>9, <2>10, <2>11, <2>12 DEF CalmNext, WorkerStep, Rest
<1> QED
  BY <1>5, <1>6

\* In a calm environment a client that says that it is connected, with nothing going on, has
\* a session to send with, which is alive (SmppClient.cs, OpenSession, InitializeSession and
\* CloseSession): whenever it is not, somebody is on the way to close the client.
THEOREM CalmConnectedIsUsable == CalmSpec => []ConnectedIsUsable
<1>1. Init => ServedInv
  BY DEF Init, ServedInv, Ready
<1>2. CalmInv /\ ServedInv /\ [CalmNext]_vars => ServedInv'
  BY ReadyStep, ToldStep DEF ServedInv
<1>3. ServedInv => ConnectedIsUsable
  BY DEF ServedInv, Told, ConnectedIsUsable, Settled, Procs
<1> QED
  BY CalmInit, CalmStep, <1>1, <1>2, <1>3, PTL DEF CalmSpec

\* In a calm environment no session is left bound that the client does not know of, so that
\* nobody would ever end it.
THEOREM CalmLeavesNoOrphans == CalmSpec => []NoOrphans
<1>1. ASSUME CalmInv, Settled PROVE alive \subseteq {vTrans, vRecv}
  <2>1. vState # "Connecting"
    BY <1>1 DEF CalmInv, Typed, Monitor, Owner, OwnerIsBusy, Settled, InMonitor, OpenPc
  <2>2. CASE vState = "Connected"
    BY <1>1, <2>2 DEF CalmInv, Structure, ConnectedIsBound
  <2>3. CASE vState = "Closed"
    BY <1>1, <2>3 DEF CalmInv, Structure, ClosedIsEnding, Settled, Procs
  <2> QED
    BY <1>1, <2>1, <2>2, <2>3 DEF CalmInv, Typed, TypeOK
<1>2. CalmInv => NoOrphans
  BY <1>1 DEF NoOrphans
<1> QED
  BY CalmInit, CalmStep, <1>2, PTL DEF CalmSpec

(***************************************************************************)
(* The timer in the calm environment.  The only steps that stop it are     *)
(* those of its callback, which runs alone: it arms the timer again unless *)
(* it has seen the client connected, and nothing has been lost since.      *)
(***************************************************************************)
CallbackPc == OpenPc \cup {"timer", "timerStop", "after", "timerStart", "timerStopAgain"}

Alone ==
    \A w \in Workers : pc[w] \in CallbackPc =>
        /\ \A p \in Procs : pc[p] \in OpenPc => p = w
        /\ \A v \in Workers : pc[v] \in CallbackPc => v = w

\* While the callback runs, no end of a session of a connected client is being dealt with.
Undisturbed == CallbackRunning /\ vState = "Connected" => ~Losing

\* The client does not end a session itself and stay connected.
OwnEnds == (\E n \in notices : n.reason = "EndSessionCalled") => vState # "Connected"

\* Who is about to close a connected client has armed the timer.
ArmedBefore ==
    \A w \in Workers : pc[w] \in {"close", "setClosed"} => vState # "Connected" \/ vTimer

StoppedWhenConnected == \A w \in Workers : pc[w] = "timerStopAgain" => vState = "Connected"

\* A client that is started and closed has its timer armed, or somebody will arm it.
Armed ==
    vStarted /\ vState = "Closed" =>
        \/ vTimer
        \/ \E c \in Callers : pc[c] = "startTimer"
        \/ \E w \in Workers : pc[w] \in OpenPc \cup {"after", "timerStart"}
        \/ \E p \in Procs : pc[p] \in {"clearDropped", "failed", "rearm"}

TimerInv == Alone /\ Undisturbed /\ OwnEnds /\ ArmedBefore /\ StoppedWhenConnected /\ Armed

\* Where threads begin to open and to close.
LEMMA Entries ==
    ASSUME CalmInv, [CalmNext]_vars
    PROVE  /\ \/ ~CallbackRunning /\ \E c \in Callers : ForceConnect(c)
              \/ ~Opening /\ ~Losing /\ \E w \in Workers : TimerFires(w)
              \/ \A p \in Procs :
                     /\ pc'[p] \in OpenPc =>
                            pc[p] \in OpenPc \/ (p \in Workers /\ pc[p] = "timerStop")
                     /\ p \in Workers /\ pc'[p] \in CallbackPc => pc[p] \in CallbackPc
           /\ \A w \in Workers :
                  /\ pc'[w] \in {"close", "setClosed"} =>
                         \/ pc[w] \in {"close", "setClosed"}
                         \/ HandlerTimer(w)
                         \/ \E n \in notices :
                                n.reason = "EndSessionCalled" /\ SessionClosed(w, n)
                  /\ pc'[w] = "timerStopAgain" => pc[w] = "timerStopAgain" \/ After(w)
<1>1. pc \in [Procs -> Labels] /\ Workers \subseteq Procs /\ Callers \subseteq Procs
  BY DEF CalmInv, Typed, Monitor, Owner, Procs
<1>2. \A c \in Callers : c \notin Workers /\ pc[c] # "shutTimer"
  BY DEF CalmInv, CallersCalm
<1> HIDE DEF CalmInv
<1> DEFINE NoneOpens ==
               \A p \in Procs :
                   /\ pc'[p] \in OpenPc =>
                          pc[p] \in OpenPc \/ (p \in Workers /\ pc[p] = "timerStop")
                   /\ p \in Workers /\ pc'[p] \in CallbackPc => pc[p] \in CallbackPc
           Seldom(w) ==
               /\ pc'[w] \in {"close", "setClosed"} =>
                      \/ pc[w] \in {"close", "setClosed"}
                      \/ HandlerTimer(w)
                      \/ \E n \in notices : n.reason = "EndSessionCalled" /\ SessionClosed(w, n)
               /\ pc'[w] = "timerStopAgain" => pc[w] = "timerStopAgain" \/ After(w)
<1> USE DEF Goto, Step, Returned, CloseReturned, ClosePc, OpenPc, CallbackPc
<1>3. ASSUME NEW q \in Procs, OpenStep(q) PROVE NoneOpens /\ \A w \in Workers : Seldom(w)
  <2>1. \E l \in OpenPc \cup {"after", "idle"} :
            /\ Goto(q, l) /\ pc[q] \in OpenPc
            /\ l = "after" => q \in Workers
    BY <1>3 DEF OpenStep, TryEnter, Enter, Waited, Exit, Check, Connecting, BindBoth,
        SetRecv, SubscribeBoth, Connected, SmscId, BindRecv, SubscribeRecv, BindTrans,
        SubscribeTrans, DropRecv, RecvDropped, ClearDropped, Failed, Rearm, EndSession
  <2> QED
    BY <1>1, <2>1
<1>4. ASSUME NEW q \in Procs, CloseStep(q) PROVE NoneOpens /\ \A w \in Workers : Seldom(w)
  <2>1. \E l \in (ClosePc \ {"close"}) \cup {"start", "idle"} :
            /\ Goto(q, l) /\ pc[q] \in ClosePc
            /\ l = "setClosed" => pc[q] = "close"
    BY <1>4 DEF CloseStep, Close, SetClosed, EndTrans, TransEnding, EndRecv, RecvEnding,
       ClearTrans, ClearRecv, EndSession
  <2> QED
    BY <1>1, <2>1
<1>5. ASSUME NEW c \in Callers, Start(c) \/ CallerStep(c)
      PROVE  NoneOpens /\ \A w \in Workers : Seldom(w)
  <2>1. Goto(c, "startTimer") \/ Goto(c, "idle")
    BY <1>2, <1>5 DEF Start, Called, CallerStep, StartTimer, ShutTimer
  <2> QED
    BY <1>1, <1>2, <2>1
<1>6. ASSUME NEW c \in Callers, ForceConnect(c) PROVE \A w \in Workers : Seldom(w)
  BY <1>1, <1>2, <1>6 DEF ForceConnect
<1>7. ASSUME NEW v \in Workers, WorkerStep(v) PROVE NoneOpens /\ \A w \in Workers : Seldom(w)
  <2>1. CASE HandlerTimer(v)
    BY <1>1, <2>1 DEF HandlerTimer
  <2>2. CASE After(v)
    BY <1>1, <2>2 DEF After
  <2>3. CASE Timer(v) \/ TimerStop(v) \/ TimerChange(v)
    BY <1>1, <2>3 DEF Timer, TimerStop, TimerChange
  <2> QED
    BY <1>7, <2>1, <2>2, <2>3 DEF WorkerStep
<1>8. ASSUME NEW v \in Workers, TimerFires(v) PROVE \A w \in Workers : Seldom(w)
  BY <1>1, <1>8 DEF TimerFires
<1>9. ASSUME NEW v \in Workers, NEW n \in notices, SessionClosed(v, n)
      PROVE  NoneOpens /\ \A w \in Workers : Seldom(w)
  <2>1. /\ Goto(v, "handlerTimer") \/ Goto(v, "close")
        /\ Goto(v, "close") => n.reason = "EndSessionCalled" \/ pc'[v] = "handlerTimer"
        /\ pc'[v] = "close" => n.reason = "EndSessionCalled"
    BY <1>1, <1>9 DEF SessionClosed
  <2> HIDE DEF SessionClosed
  <2> QED
    BY <1>1, <1>9, <2>1
<1>10. ASSUME UNCHANGED pc PROVE NoneOpens /\ \A w \in Workers : Seldom(w)
  BY <1>10
<1> HIDE DEF NoneOpens, Seldom, Goto, Step, Returned, CloseReturned, ClosePc, OpenPc, CallbackPc
<1>11. CalmNext \/ UNCHANGED pc
  BY DEF vars
<1>12. (\E s \in Sessions : Lose(s) \/ Closed(s)) \/ Rest => UNCHANGED pc
  BY DEF Lose, Closed, Rest, vars
<1>13. \A w \in Workers : Seldom(w)
  BY <1>3, <1>4, <1>5, <1>6, <1>7, <1>8, <1>9, <1>10, <1>11, <1>12 DEF CalmNext
<1>14. \/ ~CallbackRunning /\ \E c \in Callers : ForceConnect(c)
       \/ ~Opening /\ ~Losing /\ \E w \in Workers : TimerFires(w)
       \/ NoneOpens
  BY <1>3, <1>4, <1>5, <1>7, <1>9, <1>10, <1>11, <1>12 DEF CalmNext
<1> QED
  BY <1>13, <1>14 DEF NoneOpens, Seldom

LEMMA AloneStep == CalmInv /\ Alone /\ [CalmNext]_vars => Alone'
<1> SUFFICES ASSUME CalmInv, Alone, [CalmNext]_vars
             PROVE  Alone'
  OBVIOUS
<1>1. pc \in [Procs -> Labels] /\ Workers \subseteq Procs /\ \A c \in Callers : c \notin Workers
  BY DEF CalmInv, Typed, Monitor, Owner, Procs
<1> HIDE DEF CalmInv
<1>2. ASSUME NEW c \in Callers, ForceConnect(c), ~CallbackRunning PROVE Alone'
  <2>1. \A w \in Workers : pc'[w] \notin CallbackPc
    BY <1>1, <1>2 DEF ForceConnect, Goto, CallbackRunning, CallbackPc
  <2> QED
    BY <2>1 DEF Alone
<1>3. ASSUME NEW w \in Workers, TimerFires(w), ~Opening PROVE Alone'
  <2>1. \A p \in Procs : pc'[p] \notin OpenPc
    BY <1>1, <1>3 DEF TimerFires, Step, Goto, Opening, CallbackRunning, OpenPc, Procs
  <2>2. \A v \in Workers : pc'[v] \in CallbackPc => v = w
    BY <1>1, <1>3 DEF TimerFires, Step, Goto, Opening, CallbackRunning, CallbackPc
  <2> QED
    BY <2>1, <2>2 DEF Alone
<1>4. ASSUME \A p \in Procs :
                 /\ pc'[p] \in OpenPc => pc[p] \in OpenPc \/ (p \in Workers /\ pc[p] = "timerStop")
                 /\ p \in Workers /\ pc'[p] \in CallbackPc => pc[p] \in CallbackPc
      PROVE  Alone'
  BY <1>1, <1>4 DEF Alone, CallbackPc
<1> QED
  BY <1>2, <1>3, <1>4, Entries

LEMMA UndisturbedStep == CalmInv /\ Undisturbed /\ [CalmNext]_vars => Undisturbed'
<1> SUFFICES ASSUME CalmInv, Undisturbed, [CalmNext]_vars, CallbackRunning', vState' = "Connected"
             PROVE  ~Losing'
  BY DEF Undisturbed
<1>1. /\ pc \in [Procs -> Labels] /\ Workers \subseteq Procs
      /\ \A p \in Procs : pc[p] = "connected" => ~Losing
      /\ \A p \in Procs : pc[p] = "recvDropped" => vState = "Connecting"
  BY DEF CalmInv, Typed, Monitor, Owner, Procs, Quiet, QuietPc, InMonitor, OpenPc, Structure, Openers,
     Opener
<1>2. [Next]_vars
  BY CalmIsAStep
<1>3. \A p \in Procs : RecvDropped(p) => vState = "Connecting" /\ vState' = vState
  BY <1>1 DEF RecvDropped, Step, fieldVars
<1>4. CASE CallbackRunning
  <2>1. Opening
    BY <1>4 DEF Opening
  <2>2. ~Losing
    <3>1. CASE UNCHANGED vState
      BY <1>4, <3>1 DEF Undisturbed
    <3>2. ASSUME NEW p \in Procs, Connecting(p) \/ Failed(p) \/ SetClosed(p) PROVE FALSE
      BY <3>2 DEF Connecting, Failed, SetClosed
    <3>3. ASSUME NEW p \in Procs, Connected(p) PROVE ~Losing
      BY <1>1, <3>3 DEF Connected, Step
    <3> QED
      BY <1>2, <3>1, <3>2, <3>3, Footprints
  <2> QED
    BY <1>3, <2>1, <2>2, LosingStep
<1>5. CASE ~CallbackRunning
  <2>1. PICK w \in Workers : pc'[w] \in CallbackPc
    BY DEF CallbackRunning, CallbackPc
  <2>2. pc[w] \notin CallbackPc
    BY <1>5 DEF CallbackRunning, CallbackPc
  <2>3. ASSUME NEW c \in Callers, ForceConnect(c) PROVE FALSE
    <3>1. c # w
      BY ConstantsAssumption
    <3> QED
      BY <1>1, <2>1, <2>2, <2>3, <3>1 DEF ForceConnect, Goto
  <2>4. ASSUME NEW v \in Workers, TimerFires(v), ~Losing PROVE ~Losing'
    BY <1>1, <2>4 DEF TimerFires, Step, Goto, Losing, sessionVars, ClosePc
  <2> QED
    BY <1>1, <2>1, <2>2, <2>3, <2>4, Entries
<1> QED
  BY <1>4, <1>5

LEMMA OwnEndsStep == CalmInv /\ OwnEnds /\ [CalmNext]_vars => OwnEnds'
<1> SUFFICES ASSUME CalmInv, OwnEnds, [CalmNext]_vars,
                    NEW n \in notices', n.reason = "EndSessionCalled", vState' = "Connected"
             PROVE  FALSE
  BY DEF OwnEnds
<1>1. /\ pc \in [Procs -> Labels]
      /\ \A p \in Procs : pc[p] = "connected" => notices = {}
      /\ \A p \in Procs : pc[p] = "recvDropped" => vState = "Connecting"
      /\ \A p \in Procs : pc[p] \in {"transEnding", "recvEnding"} => vState = "Closed"
  BY DEF CalmInv, Typed, Monitor, Owner, Procs, Quiet, QuietPc, InMonitor, OpenPc, Structure, Openers,
     Opener, Losing, CallersCalm, ClosePc, Closers, Closer, AfterSetClosed
<1>2. [Next]_vars
  BY CalmIsAStep
<1> HIDE DEF CalmInv
<1>3. ASSUME NEW p \in Procs, Connected(p) PROVE FALSE
  BY <1>1, <1>3 DEF Connected, Step, sessionVars
<1>4. vState = "Connected"
  <2>1. ASSUME NEW p \in Procs, Connecting(p) \/ Failed(p) \/ SetClosed(p) PROVE FALSE
    BY <2>1 DEF Connecting, Failed, SetClosed
  <2> QED
    BY <1>2, <1>3, <2>1, Footprints
<1>5. n \notin notices
  BY <1>4 DEF OwnEnds
<1>6. ASSUME NEW p \in Procs, RecvDropped(p) \/ TransEnding(p) \/ RecvEnding(p) PROVE FALSE
  BY <1>1, <1>4, <1>6 DEF RecvDropped, TransEnding, RecvEnding, Step
<1>7. ASSUME NEW s \in Sessions, Closed(s) PROVE FALSE
  BY <1>5, <1>7 DEF Closed, RaiseSessionClosed
<1>8. ASSUME NEW w \in Workers, NEW m \in notices, SessionClosed(w, m) PROVE FALSE
  BY <1>5, <1>8 DEF SessionClosed
<1> QED
  BY <1>2, <1>5, <1>6, <1>7, <1>8, Footprints

LEMMA ArmedBeforeStep ==
    CalmInv /\ Undisturbed /\ OwnEnds /\ ArmedBefore /\ [CalmNext]_vars => ArmedBefore'
<1> SUFFICES ASSUME CalmInv, Undisturbed, OwnEnds, ArmedBefore, [CalmNext]_vars,
                    NEW w \in Workers, pc'[w] \in {"close", "setClosed"}, vState' = "Connected"
             PROVE  vTimer'
  BY DEF ArmedBefore
<1>1. /\ pc \in [Procs -> Labels] /\ w \in Procs
      /\ \A p \in Procs : pc[p] = "connected" =>
             notices = {} /\ pc[w] \notin ClosePc \cup {"handlerTimer"}
      /\ \A c \in Callers : pc[c] # "shutTimer"
  BY DEF CalmInv, Typed, Monitor, Owner, Procs, Quiet, QuietPc, InMonitor, OpenPc, Losing, CallersCalm
<1>2. [Next]_vars
  BY CalmIsAStep
<1>3. \/ pc[w] \in {"close", "setClosed"}
      \/ HandlerTimer(w)
      \/ \E n \in notices : n.reason = "EndSessionCalled" /\ SessionClosed(w, n)
  BY Entries
<1> HIDE DEF CalmInv
<1>4. vState = "Connected"
  <2>1. ASSUME NEW p \in Procs, Connecting(p) \/ Failed(p) \/ SetClosed(p) PROVE FALSE
    BY <2>1 DEF Connecting, Failed, SetClosed
  <2>2. ASSUME NEW p \in Procs, Connected(p) PROVE FALSE
    BY <1>1, <1>3, <2>2 DEF Connected, Step, ClosePc, HandlerTimer
  <2> QED
    BY <1>2, <2>1, <2>2, Footprints
<1>5. CASE pc[w] \in {"close", "setClosed"}
  <2>1. vTimer /\ Losing
    BY <1>4, <1>5 DEF ArmedBefore, Losing, ClosePc
  <2>2. ~CallbackRunning
    BY <1>4, <2>1 DEF Undisturbed
  <2>3. ASSUME NEW v \in Workers, TimerStop(v) \/ TimerChange(v) PROVE FALSE
    BY <2>2, <2>3 DEF CallbackRunning, TimerStop, TimerChange, Step
  <2>4. ASSUME NEW p \in Procs, Rearm(p) PROVE vTimer'
    BY <2>4 DEF Rearm
  <2>5. ASSUME NEW c \in Callers, StartTimer(c) \/ ShutTimer(c) PROVE vTimer'
    BY <1>1, <2>5 DEF StartTimer, ShutTimer, Step
  <2>6. ASSUME NEW v \in Workers, HandlerTimer(v) PROVE vTimer'
    BY <2>6 DEF HandlerTimer
  <2> QED
    BY <1>2, <2>1, <2>3, <2>4, <2>5, <2>6, Footprints
<1>6. CASE HandlerTimer(w)
  BY <1>6 DEF HandlerTimer
<1>7. CASE \E n \in notices : n.reason = "EndSessionCalled"
  BY <1>4, <1>7 DEF OwnEnds
<1> QED
  BY <1>3, <1>5, <1>6, <1>7

LEMMA StoppedStep ==
    CalmInv /\ Alone /\ Undisturbed /\ StoppedWhenConnected /\ [CalmNext]_vars
        => StoppedWhenConnected'
<1> SUFFICES ASSUME CalmInv, Alone, Undisturbed, StoppedWhenConnected, [CalmNext]_vars,
                    NEW w \in Workers, pc'[w] = "timerStopAgain"
             PROVE  vState' = "Connected"
  BY DEF StoppedWhenConnected
<1>1. /\ pc \in [Procs -> Labels] /\ w \in Procs
      /\ vState \in {"Closed", "Connecting", "Connected"}
      /\ vState = "Connecting" => \E p \in Procs : pc[p] \in Busy
      /\ \A c \in Callers : pc[c] \notin ClosePc
  BY DEF CalmInv, Typed, TypeOK, Monitor, Owner, OwnerIsBusy, Procs, CallersCalm
<1>2. [Next]_vars
  BY CalmIsAStep
<1>3. pc[w] = "timerStopAgain" \/ After(w)
  BY Entries
<1> HIDE DEF CalmInv
<1>4. pc[w] \in {"timerStopAgain", "after"}
  BY <1>3 DEF After, Step
<1>5. \A p \in Procs : pc[p] \notin OpenPc
  BY <1>1, <1>4 DEF Alone, CallbackPc, OpenPc
<1>6. vState = "Connected"
  <2>1. CASE After(w)
    <3>1. vState # "Closed"
      BY <1>1, <2>1 DEF After, Step, Goto
    <3>2. vState # "Connecting"
      BY <1>1, <1>5 DEF Busy, InMonitor
    <3> QED
      BY <1>1, <3>1, <3>2
  <2> QED
    BY <1>3, <2>1 DEF StoppedWhenConnected
<1>7. \A p \in Procs : pc[p] \notin ClosePc
  BY <1>1, <1>4, <1>6 DEF Undisturbed, CallbackRunning, Losing, Procs
<1>8. ASSUME NEW p \in Procs, Connecting(p) \/ Connected(p) \/ Failed(p) \/ SetClosed(p)
      PROVE  FALSE
  BY <1>5, <1>7, <1>8 DEF Connecting, Connected, Failed, SetClosed, Step, OpenPc, ClosePc
<1> QED
  BY <1>2, <1>6, <1>8, Footprints

LEMMA ArmedStep == CalmInv /\ TimerInv /\ [CalmNext]_vars => Armed'
<1> SUFFICES ASSUME CalmInv, TimerInv, [CalmNext]_vars, vStarted', vState' = "Closed"
             PROVE  Armed'
  BY DEF Armed
<1>1. /\ pc \in [Procs -> Labels] /\ Workers \subseteq Procs /\ Callers \subseteq Procs
      /\ vState \in {"Closed", "Connecting", "Connected"} /\ vTimer \in BOOLEAN
      /\ vState = "Connecting" => \E p \in Procs : pc[p] \in Busy
      /\ \A c \in Callers : c \notin Workers /\ pc[c] \notin ClosePc \cup {"shutTimer"}
      /\ \A p \in Procs : pc[p] \in QuietPc => ~Losing
  BY DEF CalmInv, Typed, TypeOK, Monitor, Owner, OwnerIsBusy, Procs, CallersCalm, Quiet
<1>2. Armed /\ ArmedBefore /\ StoppedWhenConnected
  BY DEF TimerInv
<1> HIDE DEF CalmInv, TimerInv
<1> USE DEF Armed
<1>3. ASSUME NEW p \in Procs, OpenStep(p) PROVE Armed'
  <2>1. \E l \in OpenPc \cup {"after", "idle"} :
            /\ Goto(p, l) /\ pc[p] \in OpenPc
            /\ p \in Workers => l # "idle"
            /\ pc[p] = "clearDropped" => l = "failed"
            /\ pc[p] = "failed" => l = "rearm"
    BY <1>3 DEF OpenStep, TryEnter, Enter, Waited, Exit, Check, Connecting, BindBoth,
        SetRecv, SubscribeBoth, Connected, SmscId, BindRecv, SubscribeRecv, BindTrans,
        SubscribeTrans, DropRecv, RecvDropped, ClearDropped, Failed, Rearm, EndSession, OpenPc,
        Step, Returned
  <2>2. /\ pc[p] = "rearm" => vTimer'
        /\ vTimer => vTimer'
        /\ vStarted' = vStarted
        /\ vState' = vState \/ pc[p] = "failed"
    <3>1. pc[p] = "rearm" \/ vTimer' = vTimer
      BY <1>3 DEF OpenStep, TryEnter, Enter, Waited, Exit, Check, Connecting, BindBoth,
          SetRecv, SubscribeBoth, Connected, SmscId, BindRecv, SubscribeRecv, BindTrans,
          SubscribeTrans, DropRecv, RecvDropped, ClearDropped, Failed, Rearm, EndSession, OpenPc,
          Step, Returned
    <3>2. vStarted' = vStarted
      BY <1>3 DEF OpenStep, TryEnter, Enter, Waited, Exit, Check, Connecting, BindBoth,
          SetRecv, SubscribeBoth, Connected, SmscId, BindRecv, SubscribeRecv, BindTrans,
          SubscribeTrans, DropRecv, RecvDropped, ClearDropped, Failed, Rearm, EndSession, OpenPc,
          Step, Returned
    <3>3. vState' = vState \/ pc[p] = "failed"
      BY <1>3 DEF OpenStep, TryEnter, Enter, Waited, Exit, Check, Connecting, BindBoth,
          SetRecv, SubscribeBoth, Connected, SmscId, BindRecv, SubscribeRecv, BindTrans,
          SubscribeTrans, DropRecv, RecvDropped, ClearDropped, Failed, Rearm, EndSession, OpenPc,
          Step, Returned, fieldVars
    <3>4. pc[p] = "rearm" => vTimer'
      BY <1>3 DEF OpenStep, TryEnter, Enter, Waited, Exit, Check, Connecting, BindBoth,
          SetRecv, SubscribeBoth, Connected, SmscId, BindRecv, SubscribeRecv, BindTrans,
          SubscribeTrans, DropRecv, RecvDropped, ClearDropped, Failed, Rearm, EndSession, OpenPc,
          Step, Returned
    <3> QED
      BY <1>1, <3>1, <3>2, <3>3, <3>4
  <2> QED
    BY <1>1, <1>2, <2>1, <2>2 DEF Goto, OpenPc
<1>4. ASSUME NEW p \in Procs, CloseStep(p) PROVE Armed'
  <2>1. /\ pc[p] \in ClosePc
        /\ \E l \in ClosePc \cup {"start", "idle"} : Goto(p, l)
        /\ vTimer' = vTimer /\ vStarted' = vStarted
        /\ vState' = vState \/ pc[p] = "setClosed"
    BY <1>4 DEF CloseStep, Close, SetClosed, EndTrans, TransEnding, EndRecv, RecvEnding,
       ClearTrans, ClearRecv, EndSession, CloseReturned, ClosePc, Step, fieldVars
  <2>2. p \in Workers /\ Losing
    BY <1>1, <2>1 DEF Procs, Losing
  <2>3. CASE vState = "Closed"
    BY <1>1, <1>2, <2>1, <2>3 DEF Goto, OpenPc, ClosePc
  <2>4. CASE vState = "Connected"
    BY <1>2, <2>1, <2>2, <2>4 DEF ArmedBefore
  <2>5. CASE vState = "Connecting"
    <3>1. PICK q \in Procs : pc[q] \in {"clearDropped", "failed"}
      BY <1>1, <2>2, <2>5 DEF Busy, QuietPc
    <3>2. pc'[q] = pc[q]
      BY <1>1, <2>1, <3>1 DEF Goto, ClosePc
    <3> QED
      BY <3>1, <3>2
  <2> QED
    BY <1>1, <2>3, <2>4, <2>5
<1>5. ASSUME NEW c \in Callers, Start(c) \/ CallerStep(c) PROVE Armed'
  <2>1. (Goto(c, "startTimer") \/ vTimer')
    BY <1>1, <1>5 DEF Start, CallerStep, StartTimer, ShutTimer, Step
  <2> QED
    BY <1>1, <2>1 DEF Goto
<1>6. ASSUME NEW w \in Workers, WorkerStep(w) PROVE Armed'
  <2>1. CASE TimerStop(w)
    BY <1>1, <2>1 DEF TimerStop, Step, Goto, OpenPc
  <2>2. CASE Timer(w)
    BY <1>1, <1>2, <2>2 DEF Timer, Step, Goto, OpenPc, fieldVars
  <2>3. CASE After(w)
    BY <1>1, <2>3 DEF After, Step, Goto, fieldVars
  <2>4. CASE TimerChange(w)
    BY <1>2, <2>4 DEF TimerChange, Step, fieldVars, StoppedWhenConnected
  <2>5. CASE HandlerTimer(w)
    BY <2>5 DEF HandlerTimer
  <2> QED
    BY <1>6, <2>1, <2>2, <2>3, <2>4, <2>5 DEF WorkerStep
<1>7. ASSUME NEW p \in Procs, NEW l \in Labels, pc[p] = "idle", Goto(p, l),
             UNCHANGED <<vState, vStarted, vTimer>>
      PROVE  Armed'
  BY <1>1, <1>2, <1>7 DEF Goto, OpenPc
<1>8. ASSUME NEW c \in Callers, ForceConnect(c) PROVE Armed'
  BY <1>1, <1>7, <1>8 DEF ForceConnect, Called, fieldVars, Labels, OpenPc
<1>9. ASSUME NEW w \in Workers, TimerFires(w) PROVE Armed'
  BY <1>1, <1>7, <1>9 DEF TimerFires, Step, fieldVars, Labels, WorkerPc
<1>10. ASSUME NEW w \in Workers, NEW n \in notices, SessionClosed(w, n) PROVE Armed'
  BY <1>1, <1>7, <1>10 DEF SessionClosed, Step, fieldVars, Labels, WorkerPc, ClosePc
<1>11. CASE UNCHANGED <<pc, vState, vStarted, vTimer>>
  BY <1>2, <1>11
<1>12. ASSUME NEW s \in Sessions, Lose(s) \/ Closed(s) PROVE Armed'
  BY <1>11, <1>12 DEF Lose, Closed, fieldVars
<1>13. CASE UNCHANGED vars
  BY <1>11, <1>13 DEF vars, fieldVars
<1> HIDE DEF Armed
<1> QED
  BY <1>3, <1>4, <1>5, <1>6, <1>8, <1>9, <1>10, <1>12, <1>13 DEF CalmNext, Rest

\* In a calm environment a client that is started never rests closed without its timer
\* (SmppClient.cs, AutoReconnectTimerEventHandler, SessionClosedEventHandler): with nothing
\* going on, it is armed.
THEOREM CalmStartedIsArmed == CalmSpec => []StartedIsArmed
<1>1. Init => TimerInv
  <2> SUFFICES ASSUME Init PROVE TimerInv
    OBVIOUS
  <2>1. (\A p \in Procs : pc[p] = "idle") /\ Workers \subseteq Procs /\ Callers \subseteq Procs
    BY DEF Init, Procs
  <2> QED
    BY <2>1 DEF Init, TimerInv, Alone, Undisturbed, CallbackRunning, OwnEnds, ArmedBefore,
       StoppedWhenConnected, Armed, CallbackPc, OpenPc
<1>2. CalmInv /\ TimerInv /\ [CalmNext]_vars => TimerInv'
  BY AloneStep, UndisturbedStep, OwnEndsStep, ArmedBeforeStep, StoppedStep, ArmedStep
     DEF TimerInv
<1>3. TimerInv => StartedIsArmed
  BY DEF TimerInv, Armed, StartedIsArmed, Settled, OpenPc, Procs
<1> QED
  BY CalmInit, CalmStep, <1>1, <1>2, <1>3, PTL DEF CalmSpec
=============================================================================
