------------------------ MODULE ResponseHandlerProofs ------------------------
(***************************************************************************)
(* Proofs about ResponseHandler, for any number of threads, calls, answers *)
(* and any size of the sequence number.                                    *)
(***************************************************************************)
EXTENDS ResponseHandler, SequenceLemmas

USE ConstantsAssumption

(***************************************************************************)
(* The two searches.                                                       *)
(***************************************************************************)

\* PositionOf finds a response with the number looked for if there is one, and says 0 only
\* if there is none.
LEMMA PositionFound ==
    ASSUME NEW S, NEW q \in Seq(S), NEW n
    PROVE  /\ PositionOf(q, n) \in 0..Len(q)
           /\ PositionOf(q, n) # 0 => q[PositionOf(q, n)].seq = n
           /\ PositionOf(q, n) = 0 => \A i \in 1..Len(q) : q[i].seq # n
<1> DEFINE I == {i \in 1..Len(q) : q[i].seq = n}
<1>1. PositionOf(q, n) = IF I # {} THEN Min(I) ELSE 0
  BY DEF PositionOf, SelectInSeq
<1>2. I \in SUBSET Nat /\ Len(q) \in Nat
  OBVIOUS
<1>3. \A i : i \in I <=> i \in 1..Len(q) /\ q[i].seq = n
  OBVIOUS
<1> HIDE DEF I
<1>4. CASE I = {}
  BY <1>4, <1>1, <1>2, <1>3
<1>5. CASE I # {}
  <2>1. Min(I) \in I
    BY <1>5, <1>2, MinOfNaturals
  <2> QED
    BY <2>1, <1>5, <1>1, <1>2, <1>3
<1> QED
  BY <1>4, <1>5

\* The same for the search through the waiting contexts.
LEMMA ContextFound ==
    ASSUME vWaitingQueue \in Seq(Calls)
    PROVE  /\ MatchingContext \in 0..Len(vWaitingQueue)
           /\ MatchingContext # 0 => seqNo[vWaitingQueue[MatchingContext]] = pdu.seq
           /\ MatchingContext = 0 =>
                  \A i \in 1..Len(vWaitingQueue) : seqNo[vWaitingQueue[i]] # pdu.seq
<1> DEFINE I == {i \in 1..Len(vWaitingQueue) : seqNo[vWaitingQueue[i]] = pdu.seq}
<1>1. MatchingContext = IF I # {} THEN Min(I) ELSE 0
  BY DEF MatchingContext, SelectInSeq
<1>2. I \in SUBSET Nat /\ Len(vWaitingQueue) \in Nat
  OBVIOUS
<1>3. \A i : i \in I <=> i \in 1..Len(vWaitingQueue) /\ seqNo[vWaitingQueue[i]] = pdu.seq
  OBVIOUS
<1> HIDE DEF I
<1>4. CASE I = {}
  BY <1>4, <1>1, <1>2, <1>3
<1>5. CASE I # {}
  <2>1. Min(I) \in I
    BY <1>5, <1>2, MinOfNaturals
  <2> QED
    BY <2>1, <1>5, <1>1, <1>2, <1>3
<1> QED
  BY <1>4, <1>5

(***************************************************************************)
(* The locks.                                                              *)
(***************************************************************************)

Labels ==
    /\ pc \in [Procs -> ThreadPc \cup ParserPc]
    /\ \A t \in Threads : pc[t] \in ThreadPc
    /\ pc[Parser] \in ParserPc
    /\ vResponseEvent \in BOOLEAN
    /\ vWaitingEvent \in BOOLEAN

\* An event that is set has nobody inside.
Locks ==
    /\ Labels
    /\ MutualExclusion
    /\ vResponseEvent => \A p \in Procs : ~InResponseQueue(p)
    /\ vWaitingEvent => \A p \in Procs : ~InWaitingQueue(p)

LEMMA LocksInit == Init => Locks
BY DEF Init, Locks, Labels, MutualExclusion, InResponseQueue, InWaitingQueue, Procs,
       ThreadPc, ParserPc

LEMMA LocksStep == Locks /\ [Next]_vars => Locks'
<1> SUFFICES ASSUME Locks, [Next]_vars
             PROVE  Locks'
  OBVIOUS
<1> USE DEF Locks, Labels, MutualExclusion, InResponseQueue, InWaitingQueue, Procs, ThreadPc,
            ParserPc, Goto
<1>1. ASSUME NEW t \in Threads, NewRequest(t) PROVE Locks'
  BY <1>1 DEF NewRequest, queueVars
<1>2. ASSUME NEW t \in Threads, Send(t) PROVE Locks'
  BY <1>2 DEF Send, queueVars
<1>3. ASSUME NEW p \in Procs, FetchLock(p) PROVE Locks'
  <2>1. /\ pc[p] = "fetchLock"
        /\ pc' = [pc EXCEPT ![p] = "fetchFind"]
        /\ p \in Procs
        /\ vResponseEvent' = FALSE
        /\ vWaitingEvent' = vWaitingEvent
        /\ \A q \in Procs : ~InResponseQueue(q)
    BY <1>3 DEF FetchLock
  <2>2. Labels'
    BY <2>1
  <2>3. \A q \in Procs : (InResponseQueue(q)' => q = p) /\ (InWaitingQueue(q)' => InWaitingQueue(q))
    BY <2>1
  <2> HIDE DEF Labels, InResponseQueue, InWaitingQueue
  <2> QED
    BY <2>1, <2>2, <2>3
<1>4. ASSUME NEW p \in Procs, FetchFind(p) PROVE Locks'
  BY <1>4 DEF FetchFind, queueVars
<1>5. ASSUME NEW t \in Threads, FetchTake(t) PROVE Locks'
  BY <1>5 DEF FetchTake, TakeResponse
<1>6. ASSUME NEW t \in Threads, WaitLock(t) PROVE Locks'
  <2>1. /\ pc' = [pc EXCEPT ![t] = "waitAdd"]
        /\ t \in Procs
        /\ vWaitingEvent' = FALSE
        /\ vResponseEvent' = vResponseEvent
        /\ \A q \in Procs : ~InWaitingQueue(q)
    BY <1>6 DEF WaitLock
  <2>2. Labels'
    BY <2>1
  <2>3. \A q \in Procs : (InWaitingQueue(q)' => q = t) /\ (InResponseQueue(q)' => InResponseQueue(q))
    BY <2>1
  <2> HIDE DEF Labels, InWaitingQueue, InResponseQueue
  <2> QED
    BY <2>1, <2>2, <2>3
<1>7. ASSUME NEW t \in Threads, WaitAdd(t) PROVE Locks'
  BY <1>7 DEF WaitAdd
<1>8. ASSUME NEW t \in Threads, Wake(t) PROVE Locks'
  BY <1>8 DEF Wake, queueVars
<1>9. ASSUME NEW t \in Threads, Expire(t) PROVE Locks'
  BY <1>9 DEF Expire, queueVars
<1>10. ASSUME NEW t \in Threads, SetTimedOut(t) PROVE Locks'
  BY <1>10 DEF SetTimedOut, queueVars
<1>11. ASSUME NEW c \in Calls, Receive(c) PROVE Locks'
  BY <1>11 DEF Receive, queueVars
<1>12. CASE AddLock
  <2>1. /\ pc' = [pc EXCEPT ![Parser] = "add"]
        /\ Parser \in Procs
        /\ vResponseEvent' = FALSE
        /\ vWaitingEvent' = vWaitingEvent
        /\ \A q \in Procs : ~InResponseQueue(q)
    BY <1>12 DEF AddLock
  <2>2. Labels'
    BY <2>1
  <2>3. \A q \in Procs : (InResponseQueue(q)' => q = Parser) /\ (InWaitingQueue(q)' => InWaitingQueue(q))
    BY <2>1
  <2> HIDE DEF Labels, InResponseQueue, InWaitingQueue
  <2> QED
    BY <2>1, <2>2, <2>3
<1>13. CASE AddResponse
  BY <1>13 DEF AddResponse
<1>14. CASE ScanLock
  <2>1. /\ pc' = [pc EXCEPT ![Parser] = "scan"]
        /\ Parser \in Procs
        /\ vWaitingEvent' = FALSE
        /\ vResponseEvent' = vResponseEvent
        /\ \A q \in Procs : ~InWaitingQueue(q)
    BY <1>14 DEF ScanLock
  <2>2. Labels'
    BY <2>1
  <2>3. \A q \in Procs : (InWaitingQueue(q)' => q = Parser) /\ (InResponseQueue(q)' => InResponseQueue(q))
    BY <2>1
  <2> HIDE DEF Labels, InWaitingQueue, InResponseQueue
  <2> QED
    BY <2>1, <2>2, <2>3
<1>15. CASE Scan
  BY <1>15 DEF Scan
<1>16. CASE CheckTimedOut
  BY <1>16 DEF CheckTimedOut, queueVars
<1>17. CASE Discard
  BY <1>17 DEF Discard, TakeResponse
<1>18. CASE Release
  BY <1>18 DEF Release
<1>19. CASE UNCHANGED vars
  BY <1>19 DEF vars, queueVars
<1> QED
  BY <1>1, <1>2, <1>3, <1>4, <1>5, <1>6, <1>7, <1>8, <1>9, <1>10, <1>11, <1>12, <1>13,
     <1>14, <1>15, <1>16, <1>17, <1>18, <1>19
     DEF Next, WaitStep, HandleStep, Finished

\* The AutoResetEvents exclude all other threads, for any number of callers.
THEOREM LocksExclude == Spec => []MutualExclusion
<1>1. Locks => MutualExclusion
  BY DEF Locks
<1> QED
  BY LocksInit, LocksStep, <1>1, PTL DEF Spec

\* An event that is not set has somebody inside.
Held ==
    /\ ~vResponseEvent => \E p \in Procs : InResponseQueue(p)
    /\ ~vWaitingEvent => \E p \in Procs : InWaitingQueue(p)

LEMMA HeldStep == Locks /\ Held /\ [Next]_vars => Held'
<1> SUFFICES ASSUME Locks, Held, [Next]_vars
             PROVE  Held'
  OBVIOUS
<1> USE DEF Locks, Labels, Held, InResponseQueue, InWaitingQueue, Procs, ThreadPc, ParserPc, Goto
<1>1. ASSUME NEW t \in Threads, NewRequest(t) PROVE Held'
  BY <1>1 DEF NewRequest, queueVars
<1>2. ASSUME NEW t \in Threads, Send(t) PROVE Held'
  BY <1>2 DEF Send, queueVars
<1>3. ASSUME NEW p \in Procs, FetchLock(p) PROVE Held'
  BY <1>3 DEF FetchLock
<1>4. ASSUME NEW p \in Procs, FetchFind(p) PROVE Held'
  BY <1>4 DEF FetchFind, queueVars
<1>5. ASSUME NEW t \in Threads, FetchTake(t) PROVE Held'
  BY <1>5 DEF FetchTake, TakeResponse
<1>6. ASSUME NEW t \in Threads, WaitLock(t) PROVE Held'
  BY <1>6 DEF WaitLock
<1>7. ASSUME NEW t \in Threads, WaitAdd(t) PROVE Held'
  BY <1>7 DEF WaitAdd
<1>8. ASSUME NEW t \in Threads, Wake(t) PROVE Held'
  BY <1>8 DEF Wake, queueVars
<1>9. ASSUME NEW t \in Threads, Expire(t) PROVE Held'
  BY <1>9 DEF Expire, queueVars
<1>10. ASSUME NEW t \in Threads, SetTimedOut(t) PROVE Held'
  BY <1>10 DEF SetTimedOut, queueVars
<1>11. ASSUME NEW c \in Calls, Receive(c) PROVE Held'
  BY <1>11 DEF Receive, queueVars
<1>12. CASE AddLock
  BY <1>12 DEF AddLock
<1>13. CASE AddResponse
  BY <1>13 DEF AddResponse
<1>14. CASE ScanLock
  BY <1>14 DEF ScanLock
<1>15. CASE Scan
  BY <1>15 DEF Scan
<1>16. CASE CheckTimedOut
  BY <1>16 DEF CheckTimedOut, queueVars
<1>17. CASE Discard
  BY <1>17 DEF Discard, TakeResponse
<1>18. CASE Release
  BY <1>18 DEF Release
<1>19. CASE UNCHANGED vars
  BY <1>19 DEF vars, queueVars
<1> QED
  BY <1>1, <1>2, <1>3, <1>4, <1>5, <1>6, <1>7, <1>8, <1>9, <1>10, <1>11, <1>12, <1>13,
     <1>14, <1>15, <1>16, <1>17, <1>18, <1>19
     DEF Next, WaitStep, HandleStep, Finished

\* The callers and Handle never block each other for good (ResponseHandler.cs, WaitOne ...
\* Set), for any number of callers.
THEOREM NobodyHangs == Spec => []SomebodyGoesOn
<1>1. Init => Held
  BY DEF Init, Held
<1>2. ASSUME Locks, Held, NEW p \in Procs, pc[p] # "idle"
      PROVE  \E q \in Procs : CanGoOn(q)
  <2>1. CASE ~vResponseEvent
    <3>1. PICK q \in Procs : InResponseQueue(q)
      BY <1>2, <2>1 DEF Held
    <3> QED
      BY <3>1 DEF InResponseQueue, CanGoOn
  <2>2. CASE vResponseEvent /\ ~vWaitingEvent
    <3>1. PICK q \in Procs : InWaitingQueue(q)
      BY <1>2, <2>2 DEF Held
    <3> QED
      BY <2>2, <3>1 DEF InWaitingQueue, CanGoOn
  <2>3. CASE vResponseEvent /\ vWaitingEvent
    BY <1>2, <2>3 DEF CanGoOn
  <2> QED
    BY <2>1, <2>2, <2>3
<1>3. Locks /\ Held => SomebodyGoesOn
  BY <1>2 DEF SomebodyGoesOn
<1> QED
  BY LocksInit, LocksStep, HeldStep, <1>1, <1>3, PTL DEF Spec

(***************************************************************************)
(* What the fields mean.  Every thread that is not idle works on a call of *)
(* its own that is pending; a response, wherever it is, carries the number *)
(* of the call it answers; and a search, once made, stays right until its  *)
(* result is used, because the list is locked meanwhile.                   *)
(***************************************************************************)

CurrentCalls ==
    /\ \A c \in Calls : outcome[c] # "none" <=> c <= issued
    /\ \A t \in Threads : pc[t] # "idle" => cur[t] \in Calls /\ outcome[cur[t]] = "pending"
    /\ \A t, u \in Threads : t # u /\ pc[t] # "idle" /\ pc[u] # "idle" => cur[t] # cur[u]

Numbered(r) == r \in Response /\ r.call <= issued /\ r.seq = seqNo[r.call]

Numbers ==
    /\ \A c \in Calls : c <= issued => seqNo[c] \in 1..MaxSeq
    /\ \A c \in sent : c <= issued
    /\ pc[Parser] # "idle" => Numbered(pdu)
    /\ \A i \in 1..Len(vResponseQueue) : Numbered(vResponseQueue[i])

Positions ==
    \A p \in Procs : pc[p] = "fetchTake" =>
        /\ index[p] \in 0..Len(vResponseQueue)
        /\ index[p] # 0 => vResponseQueue[index[p]].seq = Wanted(p)
        /\ index[p] = 0 => \A i \in 1..Len(vResponseQueue) :
                               vResponseQueue[i].seq # Wanted(p)

Meaning == TypeOK /\ Locks /\ CurrentCalls /\ Numbers /\ Positions

LEMMA MeaningInit == Init => Meaning
<1> SUFFICES ASSUME Init PROVE Meaning
  OBVIOUS
<1>1. TypeOK
  BY DEF Init, TypeOK, Procs, Calls, ThreadPc, ParserPc
<1>2. CurrentCalls
  BY DEF Init, CurrentCalls, Procs, Calls
<1>3. Numbers
  BY DEF Init, Numbers, Procs, Calls
<1>4. Positions
  BY DEF Init, Positions, Procs
<1> QED
  BY <1>1, <1>2, <1>3, <1>4, LocksInit DEF Meaning


(***************************************************************************)
(* Which actions change which variables.                                   *)
(***************************************************************************)

LEMMA Footprints ==
    ASSUME [Next]_vars
    PROVE  /\ UNCHANGED cur \/ (\E t \in Threads : NewRequest(t)) \/ Scan
           /\ \/ UNCHANGED attempt
              \/ \E t \in Threads : Send(t) \/ Wake(t) \/ SetTimedOut(t)
           /\ UNCHANGED index \/ (\E p \in Procs : FetchFind(p))
           /\ UNCHANGED requestVars \/ (\E t \in Threads : NewRequest(t))
           /\ UNCHANGED sent \/ (\E t \in Threads : Send(t))
           /\ UNCHANGED <<answers, pdu>> \/ (\E c \in Calls : Receive(c))
           /\ \/ UNCHANGED vResponseQueue
              \/ \E t \in Threads : FetchTake(t)
              \/ AddResponse
              \/ Discard
           /\ UNCHANGED vWaitingQueue \/ (\E t \in Threads : WaitAdd(t)) \/ Scan
           /\ UNCHANGED vNotifyEvent \/ (\E t \in Threads : Wake(t)) \/ Scan
           /\ \/ UNCHANGED vTimedOut
              \/ \E t \in Threads : Wake(t) \/ SetTimedOut(t)
           /\ \/ UNCHANGED resultVars
              \/ \E t \in Threads : NewRequest(t) \/ FetchTake(t)
           /\ UNCHANGED expired \/ (\E t \in Threads : Expire(t))
           /\ UNCHANGED handled \/ Release
<1> USE DEF requestVars, smscVars, queueVars, contextVars, resultVars, historyVars
<1>1. CASE UNCHANGED vars
  BY <1>1 DEF vars
<1>2. CASE HandleStep
  BY <1>2 DEF HandleStep, AddLock, AddResponse, ScanLock, Scan, CheckTimedOut, FetchLock,
              FetchFind, Discard, Release, Procs
<1>3. CASE \E t \in Threads : NewRequest(t) \/ WaitStep(t)
  BY <1>3 DEF WaitStep, NewRequest, Send, FetchLock, FetchFind, FetchTake, WaitLock, WaitAdd,
                    Wake, Expire, SetTimedOut, Procs
<1>4. CASE \E c \in Calls : Receive(c)
  BY <1>4 DEF Receive
<1> QED
  BY <1>1, <1>2, <1>3, <1>4 DEF Next, Finished

\* Only a new request moves the sequence numbers, and it only fills in its own.
LEMMA RequestFootprint ==
    ASSUME TypeOK, [Next]_vars
    PROVE  \/ UNCHANGED <<issued, vNextSequenceNumber, seqNo>>
           \/ /\ issued + 1 \in Calls
              /\ issued' = issued + 1
              /\ seqNo' = [seqNo EXCEPT ![issued + 1] = vNextSequenceNumber]
              /\ vNextSequenceNumber' = SequenceNumberAfter(vNextSequenceNumber)
<1>1. UNCHANGED requestVars \/ \E t \in Threads : NewRequest(t)
  BY Footprints
<1>2. ASSUME NEW t \in Threads, NewRequest(t)
      PROVE  /\ issued + 1 \in Calls
             /\ issued' = issued + 1
             /\ seqNo' = [seqNo EXCEPT ![issued + 1] = vNextSequenceNumber]
             /\ vNextSequenceNumber' = SequenceNumberAfter(vNextSequenceNumber)
  <2>1. issued \in 0..MaxCalls /\ issued < MaxCalls
    BY <1>2 DEF TypeOK, NewRequest
  <2>2. issued + 1 \in Calls
    BY <2>1, ConstantsAssumption DEF Calls
  <2> QED
    BY <1>2, <2>2 DEF NewRequest
<1> QED
  BY <1>1, <1>2 DEF requestVars

LEMMA NumbersKept ==
    ASSUME TypeOK, [Next]_vars
    PROVE  /\ issued' \in 0..MaxCalls
           /\ issued' \in Int
           /\ issued' >= issued
           /\ seqNo' \in [Calls -> 0..MaxSeq]
           /\ \A c \in Calls :
                  /\ c <= issued => seqNo'[c] = seqNo[c]
                  /\ c <= issued' /\ ~(c <= issued) => seqNo'[c] = vNextSequenceNumber
<1>1. /\ issued \in 0..MaxCalls
      /\ vNextSequenceNumber \in 1..MaxSeq
      /\ seqNo \in [Calls -> 0..MaxSeq]
      /\ \A c \in Calls : c \in Int /\ c \in 0..MaxCalls
  BY ConstantsAssumption DEF TypeOK, Calls
<1>2. CASE UNCHANGED <<issued, vNextSequenceNumber, seqNo>>
  BY <1>1, <1>2
<1>3. CASE /\ issued + 1 \in Calls
           /\ issued' = issued + 1
           /\ seqNo' = [seqNo EXCEPT ![issued + 1] = vNextSequenceNumber]
  <2>1. \A c \in Calls : seqNo'[c] = IF c = issued + 1 THEN vNextSequenceNumber ELSE seqNo[c]
    BY <1>1, <1>3
  <2>2. \A c \in Calls :
            /\ c <= issued => c # issued + 1
            /\ c <= issued + 1 /\ ~(c <= issued) => c = issued + 1
    BY <1>1
  <2>3. seqNo' \in [Calls -> 0..MaxSeq]
    BY <1>1, <1>3
  <2>4. issued' \in 0..MaxCalls /\ issued' \in Int /\ issued' >= issued
    BY <1>1, <1>3
  <2> QED
    BY <1>3, <2>1, <2>2, <2>3, <2>4
<1> QED
  BY <1>2, <1>3, RequestFootprint

LEMMA TypeStep == Meaning /\ [Next]_vars => TypeOK'
<1> SUFFICES ASSUME Meaning, [Next]_vars
             PROVE  TypeOK'
  OBVIOUS
<1> USE DEF Calls, Procs
<1>1. Labels'
  BY LocksStep DEF Locks, Meaning
<1>2. cur' \in [Procs -> 0..MaxCalls]
  <2>1. cur \in [Procs -> 0..MaxCalls] /\ issued \in 0..MaxCalls
    BY DEF Meaning, TypeOK
  <2>2. ASSUME NEW t \in Threads, NewRequest(t) PROVE cur' \in [Procs -> 0..MaxCalls]
    BY <2>1, <2>2 DEF NewRequest
  <2>3. CASE Scan
    <3>1. MatchingContext # 0 => vWaitingQueue[MatchingContext] \in Calls
      <4>1. vWaitingQueue \in Seq(Calls) /\ MatchingContext \in 0..Len(vWaitingQueue)
        BY ContextFound DEF Meaning, TypeOK
      <4>2. MatchingContext # 0 => MatchingContext \in 1..Len(vWaitingQueue)
        BY <4>1
      <4> QED
        BY <4>1, <4>2, ElementOfSeq
    <3> QED
      BY <2>1, <2>3, <3>1 DEF Scan
  <2> QED
    BY <2>1, <2>2, <2>3, Footprints
<1>3. attempt' \in [Threads -> {"first", "last"}]
  <2>1. attempt \in [Threads -> {"first", "last"}]
    BY DEF Meaning, TypeOK
  <2> QED
    BY <2>1, Footprints DEF Send, Wake, SetTimedOut
<1>4. index' \in [Procs -> Nat]
  <2>1. index \in [Procs -> Nat]
    BY DEF Meaning, TypeOK
  <2>2. \A n : PositionOf(vResponseQueue, n) \in Nat
    BY PositionFound DEF Meaning, TypeOK
  <2>3. ASSUME NEW p \in Procs, FetchFind(p) PROVE index' \in [Procs -> Nat]
    BY <2>1, <2>2, <2>3 DEF FetchFind
  <2>4. UNCHANGED index \/ \E p \in Procs : FetchFind(p)
    BY Footprints
  <2> QED
    BY <2>1, <2>3, <2>4
<1>5. /\ vNextSequenceNumber' \in 1..MaxSeq
      /\ issued' \in 0..MaxCalls
      /\ seqNo' \in [Calls -> 0..MaxSeq]
  <2>1. /\ vNextSequenceNumber \in 1..MaxSeq
        /\ issued \in 0..MaxCalls
        /\ seqNo \in [Calls -> 0..MaxSeq]
    BY DEF Meaning, TypeOK
  <2>2. SequenceNumberAfter(vNextSequenceNumber) \in 1..MaxSeq
    BY <2>1, ConstantsAssumption DEF SequenceNumberAfter
  <2>3. TypeOK
    BY DEF Meaning
  <2>4. vNextSequenceNumber' \in 1..MaxSeq
    BY <2>1, <2>2, <2>3, RequestFootprint
  <2> QED
    BY <2>3, <2>4, NumbersKept DEF Calls
<1>6. sent' \subseteq Calls
  <2>1. sent \subseteq Calls /\ \A t \in Threads : pc[t] = "send" => cur[t] \in Calls
    BY DEF Meaning, TypeOK, CurrentCalls
  <2> QED
    BY <2>1, Footprints DEF Send
<1>7. answers' \in [Calls -> 0..MaxAnswers] /\ pdu' \in [seq : 0..MaxSeq, call : 0..MaxCalls]
  <2>1. /\ answers \in [Calls -> 0..MaxAnswers]
        /\ pdu \in [seq : 0..MaxSeq, call : 0..MaxCalls]
        /\ seqNo \in [Calls -> 0..MaxSeq]
    BY DEF Meaning, TypeOK
  <2>2. ASSUME NEW c \in Calls, Receive(c)
        PROVE  answers' \in [Calls -> 0..MaxAnswers] /\ pdu' \in [seq : 0..MaxSeq, call : 0..MaxCalls]
    <3>1. answers[c] + 1 \in 0..MaxAnswers
      BY <2>1, <2>2 DEF Receive
    <3>2. answers' \in [Calls -> 0..MaxAnswers]
      BY <2>1, <2>2, <3>1 DEF Receive
    <3>3. pdu' = [seq |-> seqNo[c], call |-> c] /\ c \in 0..MaxCalls /\ seqNo[c] \in 0..MaxSeq
      BY <2>1, <2>2 DEF Receive
    <3> QED
      BY <3>2, <3>3
  <2> QED
    BY <2>1, <2>2, Footprints
<1>8. vResponseQueue' \in Seq(Response)
  <2>1. vResponseQueue \in Seq(Response)
    BY DEF Meaning, TypeOK
  <2>2. ASSUME NEW p \in Procs, TakeResponse(p) PROVE vResponseQueue' \in Seq(Response)
    BY <2>1, <2>2, RemoveAtElements DEF TakeResponse, Positions, Meaning
  <2>3. CASE AddResponse
    BY <2>1, <2>3 DEF AddResponse, Numbers, Numbered, Meaning
  <2> QED
    BY <2>1, <2>2, <2>3, Footprints DEF FetchTake, Discard
<1>9. vWaitingQueue' \in Seq(Calls)
  <2>1. vWaitingQueue \in Seq(Calls)
    BY DEF Meaning, TypeOK
  <2>2. ASSUME NEW t \in Threads, WaitAdd(t) PROVE vWaitingQueue' \in Seq(Calls)
    BY <2>1, <2>2 DEF WaitAdd, CurrentCalls, Meaning
  <2>3. CASE Scan
    BY <2>1, <2>3, ContextFound, RemoveAtElements DEF Scan
  <2> QED
    BY <2>1, <2>2, <2>3, Footprints
<1>10. vNotifyEvent' \in [Calls -> BOOLEAN]
  <2>1. vNotifyEvent \in [Calls -> BOOLEAN]
    BY DEF Meaning, TypeOK
  <2> QED
    BY <2>1, Footprints DEF Wake, Scan
<1>11. vTimedOut' \in [Calls -> BOOLEAN]
  <2>1. vTimedOut \in [Calls -> BOOLEAN]
    BY DEF Meaning, TypeOK
  <2> QED
    BY <2>1, Footprints DEF Wake, SetTimedOut
<1>12. /\ outcome' \in [Calls -> {"none", "pending", "answered", "timedOut"}]
       /\ reply' \in [Calls -> 0..MaxCalls]
  <2>1. /\ outcome \in [Calls -> {"none", "pending", "answered", "timedOut"}]
        /\ reply \in [Calls -> 0..MaxCalls]
    BY DEF Meaning, TypeOK
  <2>2. ASSUME NEW t \in Threads, FetchTake(t)
        PROVE  /\ outcome' \in [Calls -> {"none", "pending", "answered", "timedOut"}]
               /\ reply' \in [Calls -> 0..MaxCalls]
    <3>1. index[t] # 0 => vResponseQueue[index[t]] \in Response
      BY <2>2 DEF FetchTake, TakeResponse, Positions, Meaning, TypeOK
    <3>2. index[t] # 0 => vResponseQueue[index[t]].call \in 0..MaxCalls
      BY <3>1 DEF Response
    <3> QED
      BY <2>1, <2>2, <3>2 DEF FetchTake
  <2> QED
    BY <2>1, <2>2, Footprints DEF NewRequest, resultVars
<1>13. expired' \subseteq Calls
  <2>1. expired \subseteq Calls /\ \A t \in Threads : pc[t] = "wait" => cur[t] \in Calls
    BY DEF Meaning, TypeOK, CurrentCalls
  <2>2. ASSUME NEW t \in Threads, Expire(t) PROVE expired' \subseteq Calls
    BY <2>1, <2>2 DEF Expire
  <2> QED
    BY <2>1, <2>2, Footprints
<1>14. handled' \subseteq Calls
  <2>1. handled \subseteq Calls /\ (pc[Parser] = "release" => pdu.call \in Calls)
    BY DEF Meaning, TypeOK, Numbers, Numbered, Response
  <2> QED
    BY <2>1, Footprints DEF Release
<1> QED
  BY <1>1, <1>2, <1>3, <1>4, <1>5, <1>6, <1>7, <1>8, <1>9, <1>10, <1>11, <1>12, <1>13, <1>14
     DEF Labels, TypeOK


\* Between its NewRequest and the FetchTake that ends its call a thread stays with that call.
LEMMA ThreadsStayBusy ==
    ASSUME Labels, cur \in [Procs -> 0..MaxCalls], [Next]_vars
    PROVE  \/ \E t \in Threads : NewRequest(t) \/ FetchTake(t)
           \/ /\ UNCHANGED <<issued, outcome>>
              /\ \A t \in Threads : cur'[t] = cur[t] /\ (pc'[t] # "idle" => pc[t] # "idle")
<1> USE DEF requestVars, smscVars, queueVars, contextVars, resultVars, historyVars, Goto, Procs,
            Labels, ThreadPc, ParserPc
<1>1. CASE UNCHANGED vars
  BY <1>1 DEF vars
<1>2. CASE HandleStep
  BY <1>2 DEF HandleStep, AddLock, AddResponse, ScanLock, Scan, CheckTimedOut, FetchLock,
              FetchFind, Discard, TakeResponse, Release
<1>3. ASSUME NEW t \in Threads, WaitStep(t), ~FetchTake(t)
      PROVE  /\ UNCHANGED <<issued, outcome>>
             /\ \A u \in Threads : cur'[u] = cur[u] /\ (pc'[u] # "idle" => pc[u] # "idle")
  BY <1>3 DEF WaitStep, Send, FetchLock, FetchFind, WaitLock, WaitAdd, Wake, Expire, SetTimedOut
<1>4. CASE \E c \in Calls : Receive(c)
  BY <1>4 DEF Receive
<1> QED
  BY <1>1, <1>2, <1>3, <1>4 DEF Next, Finished

LEMMA CurrentCallsStep == Meaning /\ [Next]_vars => CurrentCalls'
<1> SUFFICES ASSUME Meaning, [Next]_vars
             PROVE  CurrentCalls'
  OBVIOUS
<1>1. /\ Labels
      /\ cur \in [Procs -> 0..MaxCalls]
      /\ issued \in 0..MaxCalls
      /\ outcome \in [Calls -> {"none", "pending", "answered", "timedOut"}]
      /\ CurrentCalls
  BY DEF Meaning, TypeOK, Locks
<1>2. ASSUME NEW t \in Threads, NewRequest(t) PROVE CurrentCalls'
  <2>1. issued + 1 \in Calls /\ outcome[issued + 1] = "none"
    BY <1>1, <1>2 DEF NewRequest, CurrentCalls, Calls
  <2> QED
    BY <1>1, <1>2, <2>1 DEF NewRequest, CurrentCalls, Calls, Procs, Goto, Labels
<1>3. ASSUME NEW t \in Threads, FetchTake(t) PROVE CurrentCalls'
  <2>1. pc[t] = "fetchTake" /\ cur[t] \in Calls /\ outcome[cur[t]] = "pending"
    BY <1>1, <1>3 DEF FetchTake, TakeResponse, CurrentCalls
  <2>2. /\ \E o \in {"pending", "answered", "timedOut"} :
              outcome' = [outcome EXCEPT ![cur[t]] = o] /\ (o # "pending" => pc'[t] = "idle")
        /\ \A u \in Threads \ {t} : pc'[u] = pc[u]
        /\ UNCHANGED <<cur, issued>>
    BY <1>1, <1>3, <2>1 DEF FetchTake, Goto, Labels, Procs, requestVars
  <2> QED
    BY <1>1, <2>1, <2>2 DEF CurrentCalls
<1>4. CASE /\ UNCHANGED <<issued, outcome>>
           /\ \A t \in Threads : cur'[t] = cur[t] /\ (pc'[t] # "idle" => pc[t] # "idle")
  BY <1>1, <1>4 DEF CurrentCalls
<1> QED
  BY <1>1, <1>2, <1>3, <1>4, ThreadsStayBusy

LEMMA NumbersStep == Meaning /\ [Next]_vars => Numbers'
<1> SUFFICES ASSUME Meaning, [Next]_vars
             PROVE  Numbers'
  OBVIOUS
<1>1. /\ issued \in 0..MaxCalls
      /\ vNextSequenceNumber \in 1..MaxSeq
      /\ seqNo \in [Calls -> 0..MaxSeq]
      /\ sent \subseteq Calls
      /\ vResponseQueue \in Seq(Response)
      /\ Numbers
      /\ TypeOK
  BY DEF Meaning, TypeOK
<1>2. issued' >= issued /\ issued' \in Int /\ \A c \in Calls : c <= issued => seqNo'[c] = seqNo[c]
  BY <1>1, NumbersKept
<1>3. \A r : Numbered(r) => Numbered(r)'
  BY <1>1, <1>2 DEF Numbered, Response, Calls
<1>4. \A c \in Calls : c <= issued' => seqNo'[c] \in 1..MaxSeq
  <2>1. \A c \in Calls : c <= issued => seqNo[c] \in 1..MaxSeq
    BY <1>1 DEF Numbers
  <2> QED
    BY <1>1, <2>1, NumbersKept
<1>5. \A c \in sent' : c <= issued'
  <2>1. \A t \in Threads : pc[t] = "send" => cur[t] \in Calls /\ cur[t] <= issued
    BY DEF Meaning, CurrentCalls
  <2>2. \A c \in sent' : c \in Calls /\ c <= issued
    BY <1>1, <2>1, Footprints DEF Send, Numbers
  <2> QED
    BY <1>1, <1>2, <2>2 DEF Calls
<1>6. pc'[Parser] # "idle" => Numbered(pdu)'
  <2>1. ASSUME NEW c \in Calls, Receive(c) PROVE Numbered(pdu)'
    <3>1. /\ c \in Calls /\ c <= issued /\ seqNo[c] \in 1..MaxSeq
          /\ pdu' = [seq |-> seqNo[c], call |-> c]
      BY <1>1, <2>1 DEF Receive, Numbers
    <3>2. Numbered([seq |-> seqNo[c], call |-> c])
      BY <3>1 DEF Numbered, Response
    <3> QED
      BY <1>3, <3>1, <3>2 DEF Numbered
  <2>2. ASSUME ~\E c \in Calls : Receive(c)
        PROVE  pdu' = pdu /\ (pc'[Parser] # "idle" => pc[Parser] # "idle")
    <3>1. pc \in [Procs -> ThreadPc \cup ParserPc]
      BY DEF Meaning, TypeOK
    <3>2. CASE UNCHANGED vars
      BY <3>2 DEF vars, smscVars
    <3>3. CASE HandleStep
      BY <3>1, <3>3 DEF HandleStep, AddLock, AddResponse, ScanLock, Scan, CheckTimedOut, FetchLock,
                        FetchFind, Discard, TakeResponse, Release, smscVars
    <3>4. ASSUME NEW t \in Threads, NewRequest(t) \/ WaitStep(t)
          PROVE  pdu' = pdu /\ (pc'[Parser] # "idle" => pc[Parser] # "idle")
      <4>1. t # Parser
        OBVIOUS
      <4> QED
        BY <3>1, <3>4, <4>1 DEF WaitStep, NewRequest, Send, FetchLock, FetchFind, FetchTake,
           TakeResponse, WaitLock, WaitAdd, Wake, Expire, SetTimedOut, smscVars, Goto, Procs
    <3> QED
      BY <2>2, <3>2, <3>3, <3>4 DEF Next, Finished
  <2> QED
    BY <1>1, <1>3, <2>1, <2>2 DEF Numbers, Numbered
<1>7. \A i \in 1..Len(vResponseQueue') : Numbered(vResponseQueue[i])'
  <2>1. ASSUME NEW p \in Procs, TakeResponse(p)
        PROVE  \A i \in 1..Len(vResponseQueue') : Numbered(vResponseQueue'[i])
    <3>1. CASE index[p] = 0
      BY <1>1, <2>1, <3>1 DEF TakeResponse, Numbers
    <3>2. CASE index[p] # 0
      <4>1. index[p] \in 1..Len(vResponseQueue)
        BY <2>1, <3>2, <1>1 DEF Meaning, Positions, TakeResponse
      <4>2. \A j \in 1..Len(vResponseQueue') :
               \E k \in 1..Len(vResponseQueue) : vResponseQueue'[j] = vResponseQueue[k]
        <5>1. vResponseQueue' = RemoveAt(vResponseQueue, index[p])
          BY <2>1, <3>2 DEF TakeResponse
        <5>2. \A j \in 1..Len(RemoveAt(vResponseQueue, index[p])) :
                 \E k \in 1..Len(vResponseQueue) :
                    k # index[p] /\ RemoveAt(vResponseQueue, index[p])[j] = vResponseQueue[k]
          BY <1>1, <4>1, RemoveAtSurvivors
        <5> QED
          BY <5>1, <5>2
      <4> QED
        BY <1>1, <4>2 DEF Numbers
    <3> QED
      BY <3>1, <3>2
  <2>2. ASSUME AddResponse
        PROVE  \A i \in 1..Len(vResponseQueue') : Numbered(vResponseQueue'[i])
    <3>1. Numbered(pdu) /\ vResponseQueue' = Append(vResponseQueue, pdu)
      BY <1>1, <2>2 DEF AddResponse, Numbers
    <3>2. /\ Len(vResponseQueue') = Len(vResponseQueue) + 1
          /\ \A i \in 1..Len(vResponseQueue) : vResponseQueue'[i] = vResponseQueue[i]
          /\ vResponseQueue'[Len(vResponseQueue) + 1] = pdu
      BY <1>1, <3>1, AppendProperties DEF Numbered
    <3>3. \A i \in 1..Len(vResponseQueue') :
             i \in 1..Len(vResponseQueue) \/ i = Len(vResponseQueue) + 1
      BY <1>1, <3>2
    <3> QED
      BY <1>1, <3>1, <3>2, <3>3 DEF Numbers
  <2>3. ASSUME UNCHANGED vResponseQueue
        PROVE  \A i \in 1..Len(vResponseQueue') : Numbered(vResponseQueue'[i])
    BY <1>1, <2>3 DEF Numbers
  <2>4. \A i \in 1..Len(vResponseQueue') : Numbered(vResponseQueue'[i])
    BY <2>1, <2>2, <2>3, Footprints DEF FetchTake, Discard, Procs
  <2> QED
    BY <1>3, <2>4 DEF Numbered
<1> QED
  BY <1>4, <1>5, <1>6, <1>7 DEF Numbers


LEMMA PositionsStep == Meaning /\ [Next]_vars => Positions'
<1> SUFFICES ASSUME Meaning, [Next]_vars,
                    NEW p \in Procs, pc'[p] = "fetchTake"
             PROVE  /\ index'[p] \in 0..Len(vResponseQueue')
                    /\ index'[p] # 0 => vResponseQueue'[index'[p]].seq = Wanted(p)'
                    /\ index'[p] = 0 => \A i \in 1..Len(vResponseQueue') :
                                           vResponseQueue'[i].seq # Wanted(p)'
  BY DEF Positions
<1>1. /\ Labels
      /\ vResponseQueue \in Seq(Response)
      /\ cur \in [Procs -> 0..MaxCalls]
      /\ index \in [Procs -> Nat]
      /\ issued \in 0..MaxCalls
      /\ seqNo \in [Calls -> 0..MaxSeq]
      /\ MutualExclusion
      /\ CurrentCalls
      /\ Positions
  BY DEF Meaning, TypeOK, Locks
<1>2. FetchFind(p) \/ pc[p] = "fetchTake"
  <2> USE DEF Goto, Labels, Procs, ThreadPc, ParserPc
  <2>1. CASE UNCHANGED vars
    BY <2>1 DEF vars
  <2>2. CASE HandleStep
    BY <1>1, <2>2 DEF HandleStep, AddLock, AddResponse, ScanLock, Scan, CheckTimedOut, FetchLock,
                      FetchFind, Discard, TakeResponse, Release
  <2>3. ASSUME NEW t \in Threads, NewRequest(t) \/ WaitStep(t)
        PROVE  FetchFind(p) \/ pc[p] = "fetchTake"
    BY <1>1, <2>3 DEF WaitStep, NewRequest, Send, FetchLock, FetchFind, FetchTake, WaitLock,
                      WaitAdd, Wake, Expire, SetTimedOut
  <2>4. CASE \E c \in Calls : Receive(c)
    BY <1>1, <2>4 DEF Receive
  <2> QED
    BY <2>1, <2>2, <2>3, <2>4 DEF Next, Finished
<1>3. UNCHANGED vResponseQueue
  <2>1. InResponseQueue(p)
    BY <1>2 DEF FetchFind, InResponseQueue
  <2>2. ASSUME NEW q \in Procs, TakeResponse(q) PROVE q = p
    BY <1>1, <2>1, <2>2 DEF MutualExclusion, InResponseQueue, TakeResponse
  <2>3. ~\E t \in Threads : FetchTake(t)
    BY <1>1, <2>2 DEF FetchTake, Goto, Labels, Procs
  <2>4. ~Discard
    BY <1>1, <2>2 DEF Discard, Goto, Labels, Procs
  <2>5. ~AddResponse
    <3>1. ASSUME AddResponse PROVE p = Parser
      BY <1>1, <2>1, <3>1 DEF AddResponse, MutualExclusion, InResponseQueue, Procs
    <3> QED
      BY <1>1, <3>1 DEF AddResponse, Goto, Labels, Procs
  <2> QED
    BY <2>3, <2>4, <2>5, Footprints
<1>4. Wanted(p)' = Wanted(p)
  <2>1. CASE p = Parser
    <3>1. pc[Parser] # "idle"
      BY <1>2, <2>1 DEF FetchFind
    <3> QED
      BY <2>1, <3>1, Footprints DEF Receive, Wanted
  <2>2. CASE p # Parser
    <3>1. p \in Threads /\ pc[p] # "idle" /\ cur[p] \in Calls /\ cur[p] <= issued
      BY <1>1, <1>2, <2>2 DEF FetchFind, CurrentCalls, Procs
    <3>2. cur'[p] = cur[p]
      <4>1. ASSUME NEW t \in Threads, NewRequest(t) PROVE cur'[p] = cur[p]
        BY <1>1, <3>1, <4>1 DEF NewRequest, Procs
      <4>2. CASE Scan
        BY <1>1, <2>2, <4>2 DEF Scan, Procs
      <4> QED
        BY <4>1, <4>2, Footprints
    <3>3. seqNo'[cur[p]] = seqNo[cur[p]]
      BY <1>1, <3>1, Footprints DEF NewRequest, requestVars, Calls
    <3> QED
      BY <2>2, <3>2, <3>3 DEF Wanted
  <2> QED
    BY <2>1, <2>2
<1>5. CASE FetchFind(p)
  <2>1. index'[p] = PositionOf(vResponseQueue, Wanted(p))
    BY <1>1, <1>5 DEF FetchFind
  <2> QED
    BY <1>1, <1>3, <1>4, <2>1, PositionFound
<1>6. CASE pc[p] = "fetchTake" /\ ~FetchFind(p)
  <2>1. index'[p] = index[p]
    BY <1>1, <1>6, Footprints DEF FetchFind
  <2> QED
    BY <1>1, <1>3, <1>4, <1>6, <2>1 DEF Positions
<1> QED
  BY <1>2, <1>5, <1>6

LEMMA MeaningStep == Meaning /\ [Next]_vars => Meaning'
BY TypeStep, LocksStep, CurrentCallsStep, NumbersStep, PositionsStep DEF Meaning

LEMMA MeaningAlways == Spec => []Meaning
BY MeaningInit, MeaningStep, PTL DEF Spec

\* Type correctness, however large the constants are.
THEOREM TypeCorrect == Spec => []TypeOK
<1>1. Meaning => TypeOK
  BY DEF Meaning
<1> QED
  BY <1>1, MeaningAlways, PTL

(***************************************************************************)
(* Whose response a caller gets.                                           *)
(***************************************************************************)

\* What a caller gets carries the number it asked for.  CurrentCalls and Numbers are needed
\* for the step: numbers of calls already made do not change.
Answers == \A c \in Calls : outcome[c] = "answered" => /\ reply[c] \in Calls
                                                       /\ reply[c] <= issued
                                                       /\ seqNo[reply[c]] = seqNo[c]

LEMMA AnswersStep == Meaning /\ Answers /\ [Next]_vars => Answers'
<1> SUFFICES ASSUME Meaning, Answers, [Next]_vars,
                    NEW c \in Calls, outcome'[c] = "answered"
             PROVE  reply'[c] \in Calls /\ reply'[c] <= issued' /\ seqNo'[reply'[c]] = seqNo'[c]
  BY DEF Answers
<1>1. /\ vResponseQueue \in Seq(Response)
      /\ issued \in 0..MaxCalls
      /\ seqNo \in [Calls -> 0..MaxSeq]
      /\ outcome \in [Calls -> {"none", "pending", "answered", "timedOut"}]
      /\ reply \in [Calls -> 0..MaxCalls]
      /\ CurrentCalls
      /\ Numbers
      /\ Positions
      /\ TypeOK
  BY DEF Meaning, TypeOK
<1>2. issued' \in Int /\ issued' >= issued /\ \A d \in Calls : d <= issued => seqNo'[d] = seqNo[d]
  BY <1>1, NumbersKept
<1>3. \/ outcome[c] = "answered" /\ reply'[c] = reply[c]
      \/ \E t \in Threads : FetchTake(t) /\ cur[t] = c /\ index[t] # 0 /\ reply'[c] = vResponseQueue[index[t]].call
  <2>1. ASSUME NEW t \in Threads, NewRequest(t)
        PROVE  outcome[c] = "answered" /\ reply'[c] = reply[c]
    BY <1>1, <2>1 DEF NewRequest
  <2>2. ASSUME NEW t \in Threads, FetchTake(t)
        PROVE  \/ outcome[c] = "answered" /\ reply'[c] = reply[c]
               \/ cur[t] = c /\ index[t] # 0 /\ reply'[c] = vResponseQueue[index[t]].call
    <3>1. cur[t] \in Calls /\ outcome[cur[t]] = "pending"
      BY <1>1, <2>2 DEF FetchTake, TakeResponse, CurrentCalls
    <3> QED
      BY <1>1, <2>2, <3>1 DEF FetchTake
  <2> QED
    BY <2>1, <2>2, Footprints DEF resultVars
<1>4. c <= issued
  <2>1. outcome[c] # "none"
    BY <1>1, <1>3 DEF FetchTake, TakeResponse, CurrentCalls
  <2> QED
    BY <1>1, <2>1 DEF CurrentCalls
<1>5. CASE outcome[c] = "answered" /\ reply'[c] = reply[c]
  BY <1>1, <1>2, <1>4, <1>5 DEF Answers, Calls
<1>6. ASSUME NEW t \in Threads, FetchTake(t), cur[t] = c, index[t] # 0,
             reply'[c] = vResponseQueue[index[t]].call
      PROVE  reply'[c] \in Calls /\ reply'[c] <= issued' /\ seqNo'[reply'[c]] = seqNo'[c]
  <2>1. index[t] \in 1..Len(vResponseQueue) /\ vResponseQueue[index[t]].seq = seqNo[c]
    <3>1. pc[t] = "fetchTake" /\ t \in Procs /\ Wanted(t) = seqNo[c]
      BY <1>6 DEF FetchTake, TakeResponse, Wanted, Procs
    <3>2. /\ index[t] \in 0..Len(vResponseQueue)
          /\ vResponseQueue[index[t]].seq = Wanted(t)
      BY <1>1, <1>6, <3>1 DEF Positions
    <3> QED
      BY <1>1, <1>6, <3>1, <3>2
  <2>2. Numbered(vResponseQueue[index[t]])
    BY <1>1, <2>1 DEF Numbers
  <2>3. /\ reply'[c] \in Calls
        /\ reply'[c] <= issued
        /\ seqNo[reply'[c]] = seqNo[c]
    BY <1>6, <2>1, <2>2 DEF Numbered, Response
  <2>4. reply'[c] <= issued' /\ seqNo'[reply'[c]] = seqNo[c] /\ seqNo'[c] = seqNo[c]
    <3>1. reply'[c] \in Int
      BY <2>3 DEF Calls
    <3> QED
      BY <1>1, <1>2, <1>4, <2>3, <3>1
  <2> QED
    BY <2>3, <2>4
<1> QED
  BY <1>3, <1>5, <1>6

LEMMA AnswersAlways == Spec => [](Meaning /\ Answers)
<1>1. Init => Answers
  BY DEF Init, Answers
<1> QED
  BY <1>1, AnswersStep, MeaningInit, MeaningStep, PTL DEF Spec

\* A response always carries the number of the request it is returned for, also when the
\* sequence numbers have come round.
THEOREM NumbersMatch == Spec => []ReplyCarriesNumber
<1>1. Answers => ReplyCarriesNumber
  BY DEF Answers, ReplyCarriesNumber
<1> QED
  BY <1>1, AnswersAlways, PTL

(***************************************************************************)
(* As long as the numbers have not come round, they are distinct.          *)
(***************************************************************************)

Distinct ==
    /\ issued < MaxSeq => vNextSequenceNumber = issued + 1
    /\ \A c \in Calls : c <= issued => seqNo[c] = c

LEMMA DistinctStep == NoWrap /\ Meaning /\ Distinct /\ [Next]_vars => Distinct'
<1> SUFFICES ASSUME NoWrap, Meaning, Distinct, [Next]_vars
             PROVE  Distinct'
  OBVIOUS
<1>1. /\ issued \in 0..MaxCalls
      /\ seqNo \in [Calls -> 0..MaxSeq]
  BY DEF Meaning, TypeOK
<1>2. ASSUME NEW t \in Threads, NewRequest(t) PROVE Distinct'
  <2>1. issued < MaxSeq /\ vNextSequenceNumber = issued + 1 /\ issued + 1 \in Calls
    BY <1>1, <1>2 DEF NewRequest, NoWrap, Distinct, Calls
  <2> QED
    BY <1>1, <1>2, <2>1 DEF NewRequest, Distinct, SequenceNumberAfter, Calls
<1> QED
  BY <1>2, Footprints DEF requestVars, Distinct

LEMMA DistinctAlways == ASSUME NoWrap PROVE Spec => [](Meaning /\ Answers /\ Distinct)
<1>1. Init => Distinct
  BY DEF Init, Distinct, Calls
<1>2. NoWrap
  OBVIOUS
<1>3. Meaning /\ Distinct /\ [Next]_vars => Distinct'
  BY <1>2, DistinctStep
<1> QED
  BY <1>1, <1>3, AnswersAlways, PTL DEF Spec

\* A caller gets the response to its own request and to no other, for any number of
\* callers, duplicates, delays and time-outs, until the sequence numbers come round.
THEOREM CallersGetTheirOwn == ASSUME NoWrap PROVE Spec => []OwnResponse
<1>1. Meaning /\ Answers /\ Distinct => OwnResponse
  <2> SUFFICES ASSUME Meaning, Answers, Distinct, NEW c \in Calls, outcome[c] = "answered"
               PROVE  reply[c] = c
    BY DEF OwnResponse
  <2>1. c <= issued
    BY DEF Meaning, CurrentCalls
  <2>2. reply[c] \in Calls /\ reply[c] <= issued /\ seqNo[reply[c]] = seqNo[c]
    BY DEF Answers
  <2> QED
    BY <2>1, <2>2 DEF Distinct
<1> QED
  BY <1>1, DistinctAlways, PTL


=============================================================================
