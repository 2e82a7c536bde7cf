------------------------ MODULE ResponseHandlerInTime ------------------------
(***************************************************************************)
(* Proofs about ResponseHandler that concern time-outs: a response handed  *)
(* over before the caller's wait expired is returned, an alerted caller    *)
(* finds its response, a late response is discarded, and the whole         *)
(* implements RequestReply.  They hold until the sequence numbers come     *)
(* round.                                                                  *)
(***************************************************************************)
EXTENDS ResponseHandlerProofs

USE ConstantsAssumption

Fetching == {"fetchLock", "fetchFind", "fetchTake"}

Has(c) == \E i \in 1..Len(vResponseQueue) : vResponseQueue[i].call = c

HasTwo(c) ==
    \E i, j \in 1..Len(vResponseQueue) :
        i # j /\ vResponseQueue[i].call = c /\ vResponseQueue[j].call = c

\* Some response for c has been through AddResponse.
Added(c) ==
    /\ answers[c] # 0
    /\ ~(pdu.call = c /\ pc[Parser] \in {"addLock", "add"} /\ answers[c] = 1)

\* Responses that have been added stay: as long as the wait has not expired nobody but the
\* caller takes them, and afterwards the parser takes only what it added itself.
Kept ==
    /\ \A c \in Calls : outcome[c] = "pending" /\ c \notin expired /\ Added(c) => Has(c)
    /\ \A c \in handled : outcome[c] = "pending" => Has(c)
    /\ pc[Parser] \in {"scanLock", "scan", "check"} \cup Fetching =>
           (pdu.call \in handled /\ outcome[pdu.call] = "pending" => HasTwo(pdu.call))

\* What the parser is doing.
ParserKnows ==
    /\ \A c \in Calls : answers[c] # 0 => c \in sent
    /\ pc[Parser] # "idle" => answers[pdu.call] # 0
    /\ \A i \in 1..Len(vResponseQueue) : answers[vResponseQueue[i].call] # 0
    /\ pc[Parser] \in {"check"} \cup Fetching => cur[Parser] = pdu.call
    /\ pc[Parser] \in Fetching => pdu.call \in expired
    /\ \A c \in Calls : vNotifyEvent[c] => Added(c)
    /\ \A c \in handled : Added(c)

\* What the callers know.
CallersKnow ==
    /\ \A c \in Calls : vTimedOut[c] => c \in expired
    /\ \A c \in expired : c <= issued
    /\ \A i \in 1..Len(vWaitingQueue) : vWaitingQueue[i] <= issued
    /\ \A t \in Threads :
           /\ \/ pc[t] \in {"send", "waitLock", "waitAdd", "wait"}
              \/ pc[t] \in Fetching /\ attempt[t] = "first"
              => cur[t] \notin expired
           /\ pc[t] = "timedOut" => cur[t] \in expired
           /\ pc[t] \in Fetching /\ attempt[t] = "last" /\ cur[t] \notin expired => Added(cur[t])
    /\ \A c \in Calls : outcome[c] = "timedOut" => c \in expired \ handled

InTime == Kept /\ ParserKnows /\ CallersKnow

(***************************************************************************)
(* How steps change the contents of the response queue.                    *)
(***************************************************************************)

\* While the numbers are distinct, what a search finds belongs to whoever searches.
LEMMA TakenCall ==
    ASSUME Meaning, Distinct, NEW p \in Procs, TakeResponse(p), index[p] # 0
    PROVE  /\ index[p] \in 1..Len(vResponseQueue)
           /\ vResponseQueue' = RemoveAt(vResponseQueue, index[p])
           /\ p = Parser => vResponseQueue[index[p]].call = pdu.call
           /\ p \in Threads => vResponseQueue[index[p]].call = cur[p]
<1>1. /\ vResponseQueue \in Seq(Response)
      /\ pc[p] = "fetchTake"
      /\ Positions
      /\ Numbers
      /\ CurrentCalls
  BY DEF Meaning, TypeOK, TakeResponse
<1>2. index[p] \in 0..Len(vResponseQueue) /\ vResponseQueue[index[p]].seq = Wanted(p)
  BY <1>1 DEF Positions
<1>3. index[p] \in 1..Len(vResponseQueue)
  BY <1>1, <1>2
<1>4. Numbered(vResponseQueue[index[p]])
  BY <1>1, <1>3 DEF Numbers
<1>5. vResponseQueue[index[p]].call = vResponseQueue[index[p]].seq
  BY <1>4 DEF Numbered, Distinct, Response
<1>6. p = Parser => Wanted(p) = pdu.call
  BY <1>1 DEF Wanted, Numbers, Numbered, Distinct, Response
<1>7. p \in Threads => Wanted(p) = cur[p]
  BY <1>1 DEF Wanted, CurrentCalls, Distinct
<1> QED
  BY <1>2, <1>3, <1>5, <1>6, <1>7 DEF TakeResponse

LEMMA RemovalKeeps ==
    ASSUME vResponseQueue \in Seq(Response), NEW i \in 1..Len(vResponseQueue),
           vResponseQueue' = RemoveAt(vResponseQueue, i), NEW c
    PROVE  /\ HasTwo(c) => Has(c)'
           /\ vResponseQueue[i].call # c /\ Has(c) => Has(c)'
           /\ vResponseQueue[i].call # c /\ HasTwo(c) => HasTwo(c)'
<1> DEFINE At(k) == IF k < i THEN k ELSE k - 1
<1>1. /\ Len(vResponseQueue) \in Nat
      /\ Len(vResponseQueue') = Len(vResponseQueue) - 1
      /\ \A j \in 1..(Len(vResponseQueue) - 1) :
            vResponseQueue'[j] = IF j < i THEN vResponseQueue[j] ELSE vResponseQueue[j + 1]
  <2>1. Len(vResponseQueue) \in Nat
    OBVIOUS
  <2>2. /\ Len(RemoveAt(vResponseQueue, i)) = Len(vResponseQueue) - 1
        /\ \A j \in 1..(Len(vResponseQueue) - 1) :
              RemoveAt(vResponseQueue, i)[j]
                = IF j < i THEN vResponseQueue[j] ELSE vResponseQueue[j + 1]
    BY RemoveAtElements, Zenon
  <2> QED
    BY <2>1, <2>2
<1>2. ASSUME NEW k \in 1..Len(vResponseQueue), k # i
      PROVE  At(k) \in 1..Len(vResponseQueue') /\ vResponseQueue'[At(k)] = vResponseQueue[k]
  BY <1>1, <1>2
<1>3. ASSUME NEW k \in 1..Len(vResponseQueue), NEW l \in 1..Len(vResponseQueue),
             k # i, l # i, k # l
      PROVE  At(k) # At(l)
  BY <1>1, <1>3
<1> HIDE DEF At
<1>4. ASSUME HasTwo(c) PROVE Has(c)'
  BY <1>2, <1>4 DEF HasTwo, Has
<1>5. ASSUME vResponseQueue[i].call # c, Has(c) PROVE Has(c)'
  BY <1>2, <1>5 DEF Has
<1>6. ASSUME vResponseQueue[i].call # c, HasTwo(c) PROVE HasTwo(c)'
  <2>1. PICK k, l \in 1..Len(vResponseQueue) :
               k # l /\ vResponseQueue[k].call = c /\ vResponseQueue[l].call = c
    BY <1>6 DEF HasTwo
  <2>2. At(k) \in 1..Len(vResponseQueue') /\ vResponseQueue'[At(k)].call = c
    BY <1>2, <1>6, <2>1
  <2>3. At(l) \in 1..Len(vResponseQueue') /\ vResponseQueue'[At(l)].call = c
    BY <1>2, <1>6, <2>1
  <2>4. At(k) # At(l)
    BY <1>3, <1>6, <2>1
  <2> QED
    BY <2>2, <2>3, <2>4 DEF HasTwo
<1> QED
  BY <1>4, <1>5, <1>6

LEMMA AdditionKeeps ==
    ASSUME Meaning, AddResponse, NEW c
    PROVE  /\ Has(c) => Has(c)'
           /\ HasTwo(c) => HasTwo(c)'
           /\ c = pdu.call => Has(c)' /\ (Has(c) => HasTwo(c)')
<1>1. vResponseQueue \in Seq(Response) /\ pdu \in Response
  BY DEF Meaning, TypeOK, Numbers, Numbered, AddResponse
<1>2. /\ Len(vResponseQueue) \in Nat
      /\ Len(vResponseQueue') = Len(vResponseQueue) + 1
      /\ \A i \in 1..Len(vResponseQueue) : vResponseQueue'[i] = vResponseQueue[i]
      /\ vResponseQueue'[Len(vResponseQueue) + 1] = pdu
  BY <1>1, AppendProperties DEF AddResponse
<1> QED
  BY <1>2 DEF Has, HasTwo

\* A response for a pending call goes away only when the parser discards one for that call.
LEMMA HasStable ==
    ASSUME Meaning, Distinct, [Next]_vars, NEW c \in Calls, outcome'[c] = "pending"
    PROVE  /\ HasTwo(c) => Has(c)'
           /\ Has(c) => Has(c)' \/ (Discard /\ pdu.call = c)
           /\ HasTwo(c) => HasTwo(c)' \/ (Discard /\ pdu.call = c)
<1>1. vResponseQueue \in Seq(Response)
  BY DEF Meaning, TypeOK
<1>2. CASE UNCHANGED vResponseQueue
  BY <1>2 DEF Has, HasTwo
<1>3. CASE AddResponse
  BY <1>3, AdditionKeeps DEF Has, HasTwo
<1>4. ASSUME NEW t \in Threads, FetchTake(t)
      PROVE  /\ HasTwo(c) => Has(c)'
             /\ Has(c) => Has(c)'
             /\ HasTwo(c) => HasTwo(c)'
  <2>1. CASE index[t] = 0
    <3>1. UNCHANGED vResponseQueue
      BY <1>4, <2>1 DEF FetchTake, TakeResponse
    <3> QED
      BY <3>1 DEF Has, HasTwo
  <2>2. CASE index[t] # 0
    <3>1. cur[t] # c
      BY <1>4, <2>2 DEF FetchTake, TakeResponse, Meaning, TypeOK
    <3>2. /\ index[t] \in 1..Len(vResponseQueue)
          /\ vResponseQueue' = RemoveAt(vResponseQueue, index[t])
          /\ vResponseQueue[index[t]].call = cur[t]
      BY <1>4, <2>2, TakenCall DEF FetchTake, Procs
    <3> QED
      BY <1>1, <3>1, <3>2, RemovalKeeps
  <2> QED
    BY <2>1, <2>2
<1>5. CASE Discard
  <2>1. CASE index[Parser] = 0
    <3>1. UNCHANGED vResponseQueue
      BY <1>5, <2>1 DEF Discard, TakeResponse
    <3> QED
      BY <3>1 DEF Has, HasTwo
  <2>2. CASE index[Parser] # 0
    <3>1. /\ index[Parser] \in 1..Len(vResponseQueue)
          /\ vResponseQueue' = RemoveAt(vResponseQueue, index[Parser])
          /\ vResponseQueue[index[Parser]].call = pdu.call
      BY <1>5, <2>2, TakenCall DEF Discard, Procs
    <3> QED
      BY <1>1, <1>5, <3>1, RemovalKeeps
  <2> QED
    BY <2>1, <2>2
<1> QED
  BY <1>2, <1>3, <1>4, <1>5, Footprints

\* What is queued after a step was queued before, unless AddResponse just added it.
LEMMA NothingElseQueued ==
    ASSUME Meaning, Distinct, [Next]_vars, NEW j \in 1..Len(vResponseQueue')
    PROVE  \/ \E k \in 1..Len(vResponseQueue) : vResponseQueue'[j] = vResponseQueue[k]
           \/ AddResponse /\ vResponseQueue'[j] = pdu
<1>1. vResponseQueue \in Seq(Response)
  BY DEF Meaning, TypeOK
<1>2. ASSUME NEW p \in Procs, TakeResponse(p)
      PROVE  \E k \in 1..Len(vResponseQueue) : vResponseQueue'[j] = vResponseQueue[k]
  <2>1. CASE index[p] = 0
    BY <1>2, <2>1 DEF TakeResponse
  <2>2. CASE index[p] # 0
    <3>1. index[p] \in 1..Len(vResponseQueue)
      BY <1>2, <2>2, TakenCall
    <3>2. vResponseQueue' = RemoveAt(vResponseQueue, index[p])
      BY <1>2, <2>2 DEF TakeResponse
    <3>3. \A l \in 1..Len(RemoveAt(vResponseQueue, index[p])) :
             \E k \in 1..Len(vResponseQueue) :
                k # index[p] /\ RemoveAt(vResponseQueue, index[p])[l] = vResponseQueue[k]
      BY <1>1, <3>1, RemoveAtSurvivors
    <3> QED
      BY <3>2, <3>3
  <2> QED
    BY <2>1, <2>2
<1>3. CASE AddResponse
  <2>1. pdu \in Response
    BY <1>3 DEF AddResponse, Meaning, Numbers, Numbered
  <2>2. /\ Len(vResponseQueue') = Len(vResponseQueue) + 1
        /\ \A i \in 1..Len(vResponseQueue) : vResponseQueue'[i] = vResponseQueue[i]
        /\ vResponseQueue'[Len(vResponseQueue) + 1] = pdu
    BY <1>1, <1>3, <2>1, AppendProperties DEF AddResponse
  <2> QED
    BY <1>1, <1>3, <2>2
<1>4. CASE UNCHANGED vResponseQueue
  BY <1>4
<1> QED
  BY <1>2, <1>3, <1>4, Footprints DEF FetchTake, Discard, Procs

(***************************************************************************)
(* The steps of the parser.                                                *)
(***************************************************************************)

LEMMA ParserMoves ==
    ASSUME Meaning, [Next]_vars
    PROVE  \/ /\ pc'[Parser] = pc[Parser]
              /\ cur'[Parser] = cur[Parser]
              /\ UNCHANGED <<answers, pdu, handled>>
           \/ \E c \in Calls : Receive(c)
           \/ HandleStep
<1>1. pc \in [Procs -> ThreadPc \cup ParserPc] /\ cur \in [Procs -> 0..MaxCalls]
  BY DEF Meaning, TypeOK
<1>2. CASE UNCHANGED vars
  BY <1>2 DEF vars, smscVars, historyVars
<1>3. ASSUME NEW t \in Threads, NewRequest(t) \/ WaitStep(t)
      PROVE  /\ pc'[Parser] = pc[Parser]
             /\ cur'[Parser] = cur[Parser]
             /\ UNCHANGED <<answers, pdu, handled>>
  <2>1. t # Parser
    OBVIOUS
  <2> QED
    BY <1>1, <1>3, <2>1 DEF WaitStep, NewRequest, Send, FetchLock, FetchFind, FetchTake, WaitLock,
       WaitAdd, Wake, Expire, SetTimedOut, Goto, Procs, smscVars, historyVars
<1> QED
  BY <1>2, <1>3 DEF Next, Finished

LEMMA AddedStep ==
    ASSUME Meaning, [Next]_vars, NEW c \in Calls
    PROVE  /\ Added(c) => Added(c)'
           /\ Added(c)' => Added(c) \/ (AddResponse /\ pdu.call = c)
<1>1. /\ pc \in [Procs -> ThreadPc \cup ParserPc]
      /\ answers \in [Calls -> 0..MaxAnswers]
  BY DEF Meaning, TypeOK
<1>2. CASE pc'[Parser] = pc[Parser] /\ UNCHANGED <<answers, pdu>>
  BY <1>2 DEF Added
<1>3. ASSUME NEW d \in Calls, Receive(d)
      PROVE  /\ Added(c) => Added(c)'
             /\ Added(c)' => Added(c)
  <2>1. /\ pc[Parser] = "idle" /\ pc'[Parser] = "addLock"
        /\ pdu'.call = d
        /\ answers'[c] = IF c = d THEN answers[c] + 1 ELSE answers[c]
        /\ answers[c] \in Nat
    BY <1>1, <1>3 DEF Receive, Goto, Procs
  <2> QED
    BY <2>1 DEF Added
<1>4. CASE HandleStep
  <2>1. UNCHANGED <<answers, pdu>>
    BY <1>4 DEF HandleStep, AddLock, AddResponse, ScanLock, Scan, CheckTimedOut, FetchLock,
                FetchFind, Discard, Release, smscVars
  <2>2. CASE AddResponse
    <3>1. pc[Parser] = "add" /\ pc'[Parser] = "scanLock"
      BY <1>1, <2>2 DEF AddResponse, Goto, Procs
    <3> QED
      BY <2>1, <2>2, <3>1 DEF Added
  <2>3. CASE ~AddResponse
    <3>1. pc[Parser] \in {"addLock", "add"} <=> pc'[Parser] \in {"addLock", "add"}
      BY <1>1, <1>4, <2>3 DEF HandleStep, AddLock, ScanLock, Scan, CheckTimedOut, FetchLock,
         FetchFind, Discard, TakeResponse, Release, Goto, Procs
    <3> QED
      BY <2>1, <3>1 DEF Added
  <2> QED
    BY <2>2, <2>3
<1> QED
  BY <1>2, <1>3, <1>4, ParserMoves

LEMMA ParserKnowsStep ==
    Meaning /\ Distinct /\ InTime /\ [Next]_vars => ParserKnows'
<1> SUFFICES ASSUME Meaning, Distinct, InTime, [Next]_vars
             PROVE  ParserKnows'
  OBVIOUS
<1>1. /\ pc \in [Procs -> ThreadPc \cup ParserPc]
      /\ cur \in [Procs -> 0..MaxCalls]
      /\ answers \in [Calls -> 0..MaxAnswers]
      /\ vNotifyEvent \in [Calls -> BOOLEAN]
      /\ vWaitingQueue \in Seq(Calls)
      /\ vResponseQueue \in Seq(Response)
      /\ Numbers
      /\ ParserKnows
      /\ CallersKnow
      /\ expired \subseteq expired'
  BY Footprints DEF Meaning, TypeOK, InTime, Expire
<1>2. \A c \in Calls : answers'[c] # 0 => c \in sent'
  <2>1. sent \subseteq sent'
    BY Footprints DEF Send
  <2> QED
    BY <1>1, <2>1, Footprints DEF ParserKnows, Receive
<1>3. /\ pc'[Parser] # "idle" => answers'[pdu'.call] # 0
      /\ pc'[Parser] \in {"check"} \cup Fetching => cur'[Parser] = pdu'.call
      /\ pc'[Parser] \in Fetching => pdu'.call \in expired'
  <2>1. CASE pc'[Parser] = pc[Parser] /\ cur'[Parser] = cur[Parser] /\ UNCHANGED <<answers, pdu>>
    BY <1>1, <2>1 DEF ParserKnows
  <2>2. ASSUME NEW c \in Calls, Receive(c)
        PROVE  pc'[Parser] = "addLock" /\ pdu'.call = c /\ answers'[c] # 0
    BY <1>1, <2>2 DEF Receive, Goto, Procs
  <2>3. CASE Scan
    <3>1. /\ pc[Parser] = "scan"
          /\ UNCHANGED <<answers, pdu>>
          /\ \/ pc'[Parser] = "release"
             \/ /\ pc'[Parser] = "check"
                /\ MatchingContext # 0
                /\ cur'[Parser] = vWaitingQueue[MatchingContext]
      BY <1>1, <2>3 DEF Scan, Goto, Procs, smscVars
    <3>2. MatchingContext # 0 => vWaitingQueue[MatchingContext] = pdu.call
      <4>1. ASSUME MatchingContext # 0
            PROVE  /\ MatchingContext \in 1..Len(vWaitingQueue)
                   /\ seqNo[vWaitingQueue[MatchingContext]] = pdu.seq
        BY <1>1, <4>1, ContextFound
      <4>2. pdu.seq = pdu.call
        BY <1>1, <3>1 DEF Numbers, Numbered, Distinct, Response
      <4>3. \A i \in 1..Len(vWaitingQueue) : seqNo[vWaitingQueue[i]] = vWaitingQueue[i]
        BY <1>1 DEF CallersKnow, Distinct
      <4> QED
        BY <4>1, <4>2, <4>3
    <3> QED
      BY <1>1, <3>1, <3>2 DEF ParserKnows, Fetching
  <2>4. CASE HandleStep /\ ~Scan
    <3>1. /\ UNCHANGED <<answers, pdu>>
          /\ cur' = cur
          /\ pc[Parser] # "idle"
          /\ \/ pc'[Parser] \notin {"check"} \cup Fetching
             \/ pc[Parser] = "check" /\ pc'[Parser] \in Fetching /\ vTimedOut[cur[Parser]]
             \/ pc[Parser] \in Fetching /\ pc'[Parser] \in Fetching
      BY <1>1, <2>4 DEF HandleStep, AddLock, AddResponse, ScanLock, CheckTimedOut, FetchLock,
         FetchFind, Discard, TakeResponse, Release, Goto, Procs, smscVars, Fetching
    <3>2. pdu.call \in Calls
      BY <1>1, <3>1 DEF Numbers, Numbered, Response
    <3> QED
      BY <1>1, <3>1, <3>2 DEF ParserKnows, CallersKnow, Fetching
  <2> QED
    BY <2>1, <2>2, <2>3, <2>4, ParserMoves DEF Fetching
<1>4. \A c \in Calls : vNotifyEvent'[c] => Added(c)'
  <2>1. CASE Scan
    <3>1. /\ pc[Parser] = "scan"
          /\ \A c \in Calls : vNotifyEvent'[c] => vNotifyEvent[c] \/ c = cur'[Parser]
          /\ (\E c \in Calls : vNotifyEvent'[c] /\ ~vNotifyEvent[c]) => pc'[Parser] = "check"
      BY <1>1, <2>1 DEF Scan, Goto, Procs
    <3>2. Added(pdu.call) /\ pdu.call \in Calls /\ pdu' = pdu
      BY <1>1, <2>1, <3>1 DEF Added, ParserKnows, Numbers, Numbered, Response, Scan, smscVars
    <3> QED
      BY <1>1, <1>3, <3>1, <3>2, AddedStep DEF ParserKnows
  <2>2. CASE ~Scan
    BY <1>1, <2>2, Footprints, AddedStep DEF ParserKnows, Wake
  <2> QED
    BY <2>1, <2>2
<1>5. \A c \in handled' : Added(c)'
  <2>1. handled \subseteq Calls
    BY DEF Meaning, TypeOK
  <2>2. ASSUME Release PROVE Added(pdu.call) /\ pdu.call \in Calls /\ handled' \subseteq handled \cup {pdu.call}
    BY <1>1, <2>2 DEF Release, Added, ParserKnows, Numbers, Numbered, Response
  <2> QED
    BY <1>1, <2>1, <2>2, Footprints, AddedStep DEF ParserKnows
<1>6. ASSUME NEW j \in 1..Len(vResponseQueue')
      PROVE  answers'[vResponseQueue'[j].call] # 0
  <2>1. ASSUME NEW c \in Calls, answers[c] # 0 PROVE answers'[c] # 0
    <3>1. CASE UNCHANGED answers
      BY <2>1, <3>1
    <3>2. ASSUME NEW d \in Calls, Receive(d) PROVE answers'[c] # 0
      BY <1>1, <2>1, <3>2 DEF Receive
    <3> QED
      BY <3>1, <3>2, Footprints
  <2>2. CASE \E k \in 1..Len(vResponseQueue) : vResponseQueue'[j] = vResponseQueue[k]
    BY <1>1, <2>1, <2>2 DEF ParserKnows, Numbers, Numbered, Response
  <2>3. CASE AddResponse /\ vResponseQueue'[j] = pdu
    <3>1. pdu.call \in Calls /\ answers[pdu.call] # 0
      BY <1>1, <2>3 DEF AddResponse, ParserKnows, Numbers, Numbered, Response
    <3> QED
      BY <2>1, <2>3, <3>1
  <2> QED
    BY <2>2, <2>3, NothingElseQueued
<1> QED
  BY <1>2, <1>3, <1>4, <1>5, <1>6 DEF ParserKnows

(***************************************************************************)
(* The steps of the callers.                                               *)
(***************************************************************************)

\* A search that found nothing proves that the queue holds nothing for the caller.
LEMMA NothingFound ==
    ASSUME Meaning, Distinct, NEW t \in Threads, pc[t] = "fetchTake", index[t] = 0
    PROVE  ~Has(cur[t])
<1>1. /\ Positions
      /\ Numbers
      /\ CurrentCalls
  BY DEF Meaning
<1>2. \A i \in 1..Len(vResponseQueue) : vResponseQueue[i].seq # Wanted(t)
  BY <1>1 DEF Positions, Procs
<1>3. Wanted(t) = cur[t]
  BY <1>1 DEF Wanted, CurrentCalls, Distinct
<1>4. \A i \in 1..Len(vResponseQueue) : vResponseQueue[i].seq = vResponseQueue[i].call
  BY <1>1 DEF Numbers, Numbered, Distinct, Response
<1> QED
  BY <1>2, <1>3, <1>4 DEF Has

\* What a thread knows about its own wait.
Wait(t) ==
    /\ \/ pc[t] \in {"send", "waitLock", "waitAdd", "wait"}
       \/ pc[t] \in Fetching /\ attempt[t] = "first"
       => cur[t] \notin expired
    /\ pc[t] = "timedOut" => cur[t] \in expired
    /\ pc[t] \in Fetching /\ attempt[t] = "last" /\ cur[t] \notin expired => Added(cur[t])

LEMMA WaitStepKept ==
    ASSUME Meaning, Distinct, InTime, [Next]_vars, NEW u \in Threads
    PROVE  Wait(u)'
<1>1. /\ Labels
      /\ cur \in [Procs -> 0..MaxCalls]
      /\ attempt \in [Threads -> {"first", "last"}]
      /\ issued \in 0..MaxCalls
      /\ expired \subseteq Calls
      /\ CurrentCalls
      /\ ParserKnows
      /\ \A c \in expired : c <= issued
      /\ Wait(u)
  BY DEF Meaning, TypeOK, Locks, InTime, CallersKnow, Wait
<1>2. \A c \in Calls : Added(c) => Added(c)'
  BY AddedStep
<1>3. u # Parser /\ u \in Procs
  BY DEF Procs
<1>4. CASE /\ pc'[u] = pc[u]
           /\ cur'[u] = cur[u]
           /\ attempt'[u] = attempt[u]
           /\ pc[u] # "idle" => (cur[u] \in expired' <=> cur[u] \in expired)
  BY <1>1, <1>2, <1>4 DEF Wait, CurrentCalls, Fetching
<1>5. ASSUME NEW t \in Threads, NewRequest(t) \/ WaitStep(t), t # u
      PROVE  /\ pc'[u] = pc[u]
             /\ cur'[u] = cur[u]
             /\ attempt'[u] = attempt[u]
             /\ pc[u] # "idle" => (cur[u] \in expired' <=> cur[u] \in expired)
  <2>1. pc'[u] = pc[u] /\ cur'[u] = cur[u] /\ attempt'[u] = attempt[u]
    BY <1>1, <1>3, <1>5 DEF WaitStep, NewRequest, Send, FetchLock, FetchFind, FetchTake,
       TakeResponse, WaitLock, WaitAdd, Wake, Expire, SetTimedOut, Goto, Procs, Labels
  <2>2. expired' = expired \/ (Expire(t) /\ expired' = expired \cup {cur[t]})
    BY <1>5 DEF WaitStep, NewRequest, Send, FetchLock, FetchFind, FetchTake,
       TakeResponse, WaitLock, WaitAdd, Wake, Expire, SetTimedOut, historyVars
  <2>3. pc[u] # "idle" /\ Expire(t) => cur[u] # cur[t]
    BY <1>1, <1>5 DEF CurrentCalls, Expire
  <2> QED
    BY <2>1, <2>2, <2>3
<1>6. ASSUME NewRequest(u) PROVE Wait(u)'
  <2>1. cur'[u] = issued + 1 /\ pc'[u] = "send" /\ expired' = expired
    BY <1>1, <1>3, <1>6 DEF NewRequest, Goto, Labels, historyVars
  <2>2. issued + 1 \notin expired
    BY <1>1 DEF Calls
  <2> QED
    BY <2>1, <2>2 DEF Wait, Fetching
<1>7. ASSUME WaitStep(u) PROVE Wait(u)'
  <2>1. cur'[u] = cur[u] /\ cur[u] \in Calls
    BY <1>1, <1>7 DEF WaitStep, Send, FetchLock, FetchFind, FetchTake, TakeResponse, WaitLock,
       WaitAdd, Wake, Expire, SetTimedOut, CurrentCalls
  <2>2. CASE Send(u)
    BY <1>1, <1>3, <2>1, <2>2 DEF Send, Goto, Labels, Wait, Fetching, historyVars
  <2>3. CASE FetchLock(u)
    BY <1>1, <1>2, <1>3, <2>1, <2>3 DEF FetchLock, Goto, Labels, Wait, Fetching, historyVars
  <2>4. CASE FetchFind(u)
    BY <1>1, <1>2, <1>3, <2>1, <2>4 DEF FetchFind, Goto, Labels, Wait, Fetching, historyVars
  <2>5. CASE FetchTake(u)
    BY <1>1, <1>3, <2>1, <2>5 DEF FetchTake, TakeResponse, Goto, Labels, Wait, Fetching, historyVars
  <2>6. CASE WaitLock(u)
    BY <1>1, <1>3, <2>1, <2>6 DEF WaitLock, Goto, Labels, Wait, Fetching, historyVars
  <2>7. CASE WaitAdd(u)
    BY <1>1, <1>3, <2>1, <2>7 DEF WaitAdd, Goto, Labels, Wait, Fetching, historyVars
  <2>8. CASE Wake(u)
    BY <1>1, <1>2, <1>3, <2>1, <2>8
       DEF Wake, Goto, Labels, Wait, Fetching, historyVars, ParserKnows
  <2>9. CASE Expire(u)
    BY <1>1, <1>3, <2>1, <2>9 DEF Expire, Goto, Labels, Wait, Fetching
  <2>10. CASE SetTimedOut(u)
    BY <1>1, <1>3, <2>1, <2>10 DEF SetTimedOut, Goto, Labels, Wait, Fetching, historyVars
  <2> QED
    BY <1>7, <2>2, <2>3, <2>4, <2>5, <2>6, <2>7, <2>8, <2>9, <2>10 DEF WaitStep
<1>8. ASSUME HandleStep \/ (\E c \in Calls : Receive(c)) \/ UNCHANGED vars
      PROVE  /\ pc'[u] = pc[u]
             /\ cur'[u] = cur[u]
             /\ attempt'[u] = attempt[u]
             /\ expired' = expired
  BY <1>1, <1>3, <1>8 DEF HandleStep, AddLock, AddResponse, ScanLock, Scan, CheckTimedOut,
     FetchLock, FetchFind, Discard, TakeResponse, Release, Receive, vars, Goto, Labels, historyVars
<1> QED
  BY <1>4, <1>5, <1>6, <1>7, <1>8 DEF Next, Finished

LEMMA CallersKnowStep ==
    Meaning /\ Distinct /\ InTime /\ [Next]_vars => CallersKnow'
<1> SUFFICES ASSUME Meaning, Distinct, InTime, [Next]_vars
             PROVE  CallersKnow'
  OBVIOUS
<1>1. /\ issued \in 0..MaxCalls
      /\ vTimedOut \in [Calls -> BOOLEAN]
      /\ vWaitingQueue \in Seq(Calls)
      /\ outcome \in [Calls -> {"none", "pending", "answered", "timedOut"}]
      /\ expired \subseteq Calls
      /\ CurrentCalls
      /\ CallersKnow
      /\ Kept
  BY DEF Meaning, TypeOK, InTime
<1>2. issued' \in Int /\ issued' >= issued /\ expired \subseteq expired'
  BY <1>1, Footprints DEF NewRequest, requestVars, Expire
<1>3. \A t \in Threads : pc[t] # "idle" => cur[t] \in Calls /\ cur[t] <= issued
  BY <1>1 DEF CurrentCalls
<1>4. \A c \in Calls : vTimedOut'[c] => c \in expired'
  BY <1>1, <1>2, Footprints DEF CallersKnow, Wake, SetTimedOut
<1>5. \A c \in expired' : c <= issued'
  <2>1. \A c \in expired' : c <= issued
    BY <1>1, <1>3, Footprints DEF CallersKnow, Expire
  <2>2. expired' \subseteq Calls
    BY TypeStep DEF TypeOK
  <2> QED
    BY <1>1, <1>2, <2>1, <2>2 DEF Calls
<1>6. \A i \in 1..Len(vWaitingQueue') : vWaitingQueue'[i] <= issued'
  <2>1. ASSUME NEW t \in Threads, WaitAdd(t)
        PROVE  \A i \in 1..Len(vWaitingQueue') : vWaitingQueue'[i] <= issued
    <3>1. cur[t] \in Calls /\ cur[t] <= issued /\ vWaitingQueue' = Append(vWaitingQueue, cur[t])
      BY <1>3, <2>1 DEF WaitAdd
    <3>2. /\ Len(vWaitingQueue') = Len(vWaitingQueue) + 1
          /\ \A i \in 1..Len(vWaitingQueue) : vWaitingQueue'[i] = vWaitingQueue[i]
          /\ vWaitingQueue'[Len(vWaitingQueue) + 1] = cur[t]
      BY <1>1, <3>1, AppendProperties
    <3>3. \A i \in 1..Len(vWaitingQueue') :
             i \in 1..Len(vWaitingQueue) \/ i = Len(vWaitingQueue) + 1
      BY <1>1, <3>2
    <3> QED
      BY <1>1, <3>1, <3>2, <3>3 DEF CallersKnow
  <2>2. ASSUME Scan
        PROVE  \A i \in 1..Len(vWaitingQueue') : vWaitingQueue'[i] <= issued
    <3>1. CASE MatchingContext = 0
      BY <1>1, <2>2, <3>1 DEF Scan, CallersKnow
    <3>2. CASE MatchingContext # 0
      <4>1. MatchingContext \in 1..Len(vWaitingQueue)
        BY <1>1, <3>2, ContextFound
      <4>2. vWaitingQueue' = RemoveAt(vWaitingQueue, MatchingContext)
        BY <2>2, <3>2 DEF Scan
      <4>3. \A j \in 1..Len(RemoveAt(vWaitingQueue, MatchingContext)) :
               \E k \in 1..Len(vWaitingQueue) :
                  /\ k # MatchingContext
                  /\ RemoveAt(vWaitingQueue, MatchingContext)[j] = vWaitingQueue[k]
        BY <1>1, <4>1, RemoveAtSurvivors
      <4> QED
        BY <1>1, <4>2, <4>3 DEF CallersKnow
    <3> QED
      BY <3>1, <3>2
  <2>3. \A i \in 1..Len(vWaitingQueue') : vWaitingQueue'[i] <= issued
    BY <1>1, <2>1, <2>2, Footprints DEF CallersKnow
  <2>4. vWaitingQueue' \in Seq(Calls)
    BY TypeStep DEF TypeOK
  <2> QED
    BY <1>1, <1>2, <2>3, <2>4 DEF Calls
<1>7. \A t \in Threads : Wait(t)'
  BY WaitStepKept
<1>8. \A c \in Calls : outcome'[c] = "timedOut" => c \in expired' \ handled'
  <2>1. \A c \in Calls : outcome'[c] = "timedOut" => c \in expired /\ c \notin handled
    <3>1. ASSUME NEW t \in Threads, FetchTake(t), outcome'[cur[t]] = "timedOut"
          PROVE  cur[t] \in expired /\ cur[t] \notin handled
      <4>1. /\ pc[t] = "fetchTake" /\ index[t] = 0 /\ attempt[t] = "last"
            /\ cur[t] \in Calls /\ outcome[cur[t]] = "pending"
        <5>1. /\ pc[t] = "fetchTake"
              /\ \/ index[t] # 0 /\ outcome' = [outcome EXCEPT ![cur[t]] = "answered"]
                 \/ index[t] = 0 /\ attempt[t] # "first"
                 \/ index[t] = 0 /\ outcome' = outcome
          BY <3>1 DEF FetchTake, TakeResponse, resultVars
        <5>2. cur[t] \in Calls /\ outcome[cur[t]] = "pending"
          BY <1>1, <5>1 DEF CurrentCalls, Meaning
        <5>3. /\ outcome \in [Calls -> {"none", "pending", "answered", "timedOut"}]
              /\ attempt[t] \in {"first", "last"}
          BY <1>1 DEF Meaning, TypeOK
        <5> QED
          BY <3>1, <5>1, <5>2, <5>3
      <4>2. ~Has(cur[t])
        BY <4>1, NothingFound
      <4>3. cur[t] \notin expired => Added(cur[t])
        BY <1>1, <4>1 DEF CallersKnow, Fetching
      <4> QED
        BY <1>1, <4>1, <4>2, <4>3 DEF Kept
    <3>2. ASSUME NEW t \in Threads, FetchTake(t), NEW c \in Calls, c # cur[t]
          PROVE  outcome'[c] = outcome[c]
      BY <1>1, <3>2 DEF FetchTake
    <3>3. ASSUME NEW t \in Threads, NewRequest(t), NEW c \in Calls, outcome'[c] = "timedOut"
          PROVE  outcome[c] = "timedOut"
      BY <1>1, <3>3 DEF NewRequest
    <3> QED
      BY <1>1, <3>1, <3>2, <3>3, Footprints DEF CallersKnow, resultVars
  <2>2. handled' \subseteq handled \cup (Calls \ expired)
    BY Footprints DEF Release, Meaning, Numbers, Numbered, Response
  <2> QED
    BY <1>2, <2>1, <2>2
<1> QED
  BY <1>4, <1>5, <1>6, <1>7, <1>8 DEF CallersKnow, Wait

(***************************************************************************)
(* Responses are kept for those who still want them.                       *)
(***************************************************************************)

LEMMA KeptStep ==
    Meaning /\ Distinct /\ InTime /\ [Next]_vars => Kept'
<1> SUFFICES ASSUME Meaning, Distinct, InTime, [Next]_vars
             PROVE  Kept'
  OBVIOUS
<1>1. /\ Labels
      /\ issued \in 0..MaxCalls
      /\ outcome \in [Calls -> {"none", "pending", "answered", "timedOut"}]
      /\ expired \subseteq expired'
      /\ handled \subseteq Calls
      /\ CurrentCalls
      /\ Numbers
      /\ ParserKnows
      /\ Kept
  BY Footprints DEF Meaning, TypeOK, Locks, InTime, Expire
\* A call that is pending after the step was so before, unless it is new.
<1>2. ASSUME NEW c \in Calls, outcome'[c] = "pending"
      PROVE  outcome[c] = "pending" \/ (outcome[c] = "none" /\ ~Added(c) /\ c \notin handled)
  <2>1. outcome[c] = "pending" \/ outcome[c] = "none"
    <3>1. ASSUME NEW t \in Threads, FetchTake(t) PROVE outcome[c] = "pending"
      <4>1. cur[t] \in Calls /\ outcome[cur[t]] = "pending"
        BY <1>1, <3>1 DEF FetchTake, TakeResponse, CurrentCalls
      <4> QED
        BY <1>1, <1>2, <3>1, <4>1 DEF FetchTake
    <3>2. ASSUME NEW t \in Threads, NewRequest(t) PROVE outcome[c] = "pending" \/ outcome[c] = "none"
      BY <1>1, <1>2, <3>2 DEF NewRequest, CurrentCalls, Calls
    <3> QED
      BY <1>2, <3>1, <3>2, Footprints DEF resultVars
  <2>2. outcome[c] = "none" => ~Added(c) /\ c \notin handled
    BY <1>1 DEF Added, ParserKnows, Numbers, CurrentCalls
  <2> QED
    BY <2>1, <2>2
<1>3. ASSUME NEW c \in Calls, outcome'[c] = "pending", c \notin expired', Added(c)'
      PROVE  Has(c)'
  <2>1. CASE AddResponse /\ pdu.call = c
    BY <2>1, AdditionKeeps
  <2>2. CASE Added(c)
    <3>1. outcome[c] = "pending" /\ c \notin expired /\ Has(c)
      BY <1>1, <1>2, <1>3, <2>2 DEF Kept
    <3>2. ~(Discard /\ pdu.call = c)
      BY <1>1, <3>1 DEF Discard, TakeResponse, ParserKnows, Fetching
    <3> QED
      BY <1>3, <3>1, <3>2, HasStable
  <2> QED
    BY <1>3, <2>1, <2>2, AddedStep
<1>4. ASSUME NEW c \in handled', outcome'[c] = "pending"
      PROVE  Has(c)'
  <2>1. CASE c \in handled
    <3>1. c \in Calls /\ outcome[c] = "pending" /\ Has(c)
      BY <1>1, <1>2, <1>4, <2>1 DEF Kept
    <3>2. Discard /\ pdu.call = c => HasTwo(c)
      BY <1>1, <2>1, <3>1 DEF Discard, TakeResponse, Kept, Fetching
    <3> QED
      BY <1>4, <3>1, <3>2, HasStable
  <2>2. CASE Release /\ c = pdu.call /\ c \notin expired
    <3>1. pc[Parser] = "release" /\ c \in Calls /\ answers[c] # 0
      BY <1>1, <2>2 DEF Release, Numbers, Numbered, Response, ParserKnows
    <3>2. Added(c) /\ outcome[c] = "pending"
      BY <1>2, <1>4, <3>1 DEF Added
    <3>3. Has(c)
      BY <1>1, <2>2, <3>1, <3>2 DEF Kept
    <3>4. ~Discard
      BY <3>1 DEF Discard, TakeResponse
    <3> QED
      BY <1>4, <3>1, <3>3, <3>4, HasStable
  <2> QED
    BY <1>4, <2>1, <2>2, Footprints DEF Release
<1>5. ASSUME NEW d, d = pdu'.call,
             pc'[Parser] \in {"scanLock", "scan", "check"} \cup Fetching,
             d \in handled', outcome'[d] = "pending"
      PROVE  HasTwo(d)'
  <2>1. CASE /\ pc'[Parser] = pc[Parser]
             /\ UNCHANGED <<answers, pdu, handled>>
    <3>1. d \in Calls /\ pdu.call = d /\ outcome[d] = "pending"
      BY <1>1, <1>2, <1>5, <2>1
    <3>2. HasTwo(d)
      BY <1>1, <1>5, <2>1, <3>1 DEF Kept
    <3>3. ~Discard
      BY <1>1, <2>1 DEF Discard, TakeResponse, Goto, Labels, Procs
    <3> QED
      BY <1>5, <3>1, <3>2, <3>3, HasStable
  <2>2. CASE \E c \in Calls : Receive(c)
    BY <1>1, <1>5, <2>2 DEF Receive, Goto, Labels, Procs, Fetching
  <2>3. CASE HandleStep
    <3>1. pdu.call = d
      BY <1>5, <2>3 DEF HandleStep, AddLock, AddResponse, ScanLock, Scan, CheckTimedOut, FetchLock,
                  FetchFind, Discard, Release, smscVars
    <3>2. CASE AddResponse
      <4>1. d \in handled /\ d \in Calls
        BY <1>1, <1>5, <3>1, <3>2 DEF AddResponse, historyVars
      <4>2. outcome[d] = "pending"
        BY <1>2, <1>5, <3>1, <4>1
      <4> QED
        BY <1>1, <3>1, <3>2, <4>1, <4>2, AdditionKeeps DEF Kept
    <3>3. CASE ~AddResponse
      <4>1. /\ pc[Parser] \in {"scanLock", "scan", "check"} \cup Fetching
            /\ ~Discard
            /\ handled' = handled
        BY <1>1, <1>5, <2>3, <3>3 DEF HandleStep, AddLock, ScanLock, Scan, CheckTimedOut, FetchLock,
           FetchFind, Discard, TakeResponse, Release, Goto, Labels, Procs, Fetching, historyVars
      <4>2. d \in Calls /\ outcome[d] = "pending"
        BY <1>1, <1>2, <1>5, <3>1, <4>1
      <4>3. HasTwo(d)
        BY <1>1, <1>5, <3>1, <4>1, <4>2 DEF Kept
      <4> QED
        BY <1>5, <3>1, <4>1, <4>2, <4>3, HasStable
    <3> QED
      BY <3>2, <3>3
  <2> QED
    BY <2>1, <2>2, <2>3, ParserMoves
<1>6. (pc[Parser] \in {"scanLock", "scan", "check"} \cup Fetching =>
          (pdu.call \in handled /\ outcome[pdu.call] = "pending" => HasTwo(pdu.call)))'
  BY <1>5 DEF HasTwo
<1> QED
  BY <1>3, <1>4, <1>6 DEF Kept

LEMMA InTimeInit == Init => InTime
BY DEF Init, InTime, Kept, ParserKnows, CallersKnow, Added, Fetching, Procs, Calls

LEMMA InTimeAlways ==
    ASSUME NoWrap PROVE Spec => [](Meaning /\ Answers /\ Distinct /\ InTime)
<1>1. Meaning /\ Distinct /\ InTime /\ [Next]_vars => InTime'
  BY KeptStep, ParserKnowsStep, CallersKnowStep DEF InTime
<1> QED
  BY <1>1, InTimeInit, DistinctAlways, PTL DEF Spec

\* A caller whose response was handed over before its wait expired is never told that it
\* timed out, also when nobody was there to be alerted.
THEOREM HandedOverReturned == ASSUME NoWrap PROVE Spec => []HandedOverIsReturned
<1>1. Meaning /\ InTime => HandedOverIsReturned
  BY DEF Meaning, TypeOK, InTime, CallersKnow, HandedOverIsReturned
<1> QED
  BY <1>1, InTimeAlways, PTL

\* An alerted caller finds its response.
THEOREM AlertedFinds == ASSUME NoWrap PROVE Spec => []AlertedHasResponse
<1>1. Meaning /\ Distinct /\ InTime => AlertedHasResponse
  <2> SUFFICES ASSUME Meaning, Distinct, InTime,
                      NEW t \in Threads, pc[t] = "wait", vNotifyEvent[cur[t]]
               PROVE  \E i \in DOMAIN vResponseQueue : vResponseQueue[i].seq = seqNo[cur[t]]
    BY DEF AlertedHasResponse
  <2>1. cur[t] \in Calls /\ cur[t] <= issued /\ outcome[cur[t]] = "pending"
    BY DEF Meaning, CurrentCalls
  <2>2. Added(cur[t]) /\ cur[t] \notin expired
    BY <2>1 DEF InTime, ParserKnows, CallersKnow
  <2>3. PICK i \in 1..Len(vResponseQueue) : vResponseQueue[i].call = cur[t]
    BY <2>1, <2>2 DEF InTime, Kept, Has
  <2>4. vResponseQueue[i].seq = seqNo[cur[t]]
    BY <2>3 DEF Meaning, Numbers, Numbered
  <2>5. i \in DOMAIN vResponseQueue
    BY <2>3 DEF Meaning, TypeOK
  <2> QED
    BY <2>4, <2>5
<1> QED
  BY <1>1, InTimeAlways, PTL

(***************************************************************************)
(* The refinement.                                                         *)
(***************************************************************************)

LEMMA AbstractInit == Init => Abstract!Init
BY DEF Init, Abstract!Init, Abstract!Calls, Calls

LEMMA AbstractStep ==
    Meaning /\ Answers /\ Distinct /\ InTime /\ (Meaning /\ Answers /\ Distinct)' /\ [Next]_vars
        => [Abstract!Next]_(Abstract!vars)
<1> SUFFICES ASSUME Meaning, Answers, Distinct, InTime, Meaning', Answers', Distinct', [Next]_vars
             PROVE  Abstract!Next \/ UNCHANGED Abstract!vars
  OBVIOUS
<1> DEFINE arrived == {c \in Calls : answers[c] > 0}
<1>1. /\ Labels
      /\ answers \in [Calls -> 0..MaxAnswers]
      /\ outcome \in [Calls -> {"none", "pending", "answered", "timedOut"}]
      /\ reply \in [Calls -> 0..MaxCalls]
      /\ issued \in 0..MaxCalls
      /\ CurrentCalls
      /\ Numbers
      /\ ParserKnows
      /\ CallersKnow
      /\ Kept
  BY DEF Meaning, TypeOK, Locks, InTime
<1> USE DEF Abstract!Calls, Calls, requestVars, smscVars, resultVars, historyVars
<1>2. ASSUME NEW t \in Threads, NewRequest(t) PROVE Abstract!Next
  <2>1. issued + 1 \in Calls /\ outcome[issued + 1] = "none"
    BY <1>1, <1>2 DEF NewRequest, CurrentCalls
  <2>2. Abstract!Issue(issued + 1)
    BY <1>2, <2>1 DEF NewRequest, Abstract!Issue
  <2> QED
    BY <2>1, <2>2 DEF Abstract!Next
<1>3. ASSUME NEW c \in Calls, Receive(c) PROVE Abstract!Next
  <2>1. outcome[c] # "none"
    BY <1>1, <1>3 DEF Receive, Numbers, CurrentCalls
  <2>2. {d \in Calls : answers'[d] > 0} = arrived \cup {c}
    BY <1>1, <1>3 DEF Receive
  <2>3. Abstract!Arrive(c)
    BY <1>3, <2>1, <2>2 DEF Receive, Abstract!Arrive
  <2> QED
    BY <2>3 DEF Abstract!Next
<1>4. ASSUME Release PROVE Abstract!Next \/ UNCHANGED Abstract!vars
  <2>1. pdu.call \in Calls /\ answers[pdu.call] > 0
    BY <1>1, <1>4 DEF Release, Numbers, Numbered, Response, ParserKnows
  <2>2. CASE pdu.call \in expired
    BY <1>4, <2>2 DEF Release, Abstract!vars
  <2>3. CASE pdu.call \notin expired
    <3>1. Abstract!HandOver(pdu.call)
      BY <1>4, <2>1, <2>3 DEF Release, Abstract!HandOver
    <3> QED
      BY <2>1, <3>1 DEF Abstract!Next
  <2> QED
    BY <2>2, <2>3
<1>5. ASSUME NEW t \in Threads, Expire(t) PROVE Abstract!Next
  <2>1. cur[t] \in Calls /\ outcome[cur[t]] = "pending"
    BY <1>1, <1>5 DEF Expire, CurrentCalls
  <2>2. Abstract!Expire(cur[t])
    BY <1>5, <2>1 DEF Expire, Abstract!Expire
  <2> QED
    BY <2>1, <2>2 DEF Abstract!Next
<1>6. ASSUME NEW t \in Threads, FetchTake(t) PROVE Abstract!Next \/ UNCHANGED Abstract!vars
  <2>1. /\ pc[t] = "fetchTake"
        /\ cur[t] \in Calls
        /\ outcome[cur[t]] = "pending"
        /\ UNCHANGED <<answers, expired, handled>>
    BY <1>1, <1>6 DEF FetchTake, TakeResponse, CurrentCalls
  <2>2. CASE index[t] # 0
    <3>1. index[t] \in 1..Len(vResponseQueue) /\ vResponseQueue[index[t]].call = cur[t]
      <4>1. t \in Procs /\ TakeResponse(t)
        BY <1>6 DEF FetchTake, Procs
      <4> QED
        BY <2>2, <4>1, TakenCall
    <3>2. /\ outcome' = [outcome EXCEPT ![cur[t]] = "answered"]
          /\ reply' = [reply EXCEPT ![cur[t]] = cur[t]]
      BY <1>6, <2>2, <3>1 DEF FetchTake
    <3>3. answers[cur[t]] > 0
      BY <1>1, <2>1, <3>1 DEF ParserKnows
    <3>4. Abstract!Return(cur[t])
      BY <2>1, <3>2, <3>3 DEF Abstract!Return
    <3> QED
      BY <2>1, <3>4 DEF Abstract!Next
  <2>3. CASE index[t] = 0 /\ attempt[t] = "first"
    BY <1>6, <2>1, <2>3 DEF FetchTake, Abstract!vars
  <2>4. CASE index[t] = 0 /\ attempt[t] # "first"
    <3>1. outcome' = [outcome EXCEPT ![cur[t]] = "timedOut"] /\ reply' = reply
      BY <1>6, <2>4 DEF FetchTake
    <3>2. cur[t] \in expired \ handled
      <4>1. CallersKnow'
        BY CallersKnowStep
      <4>2. outcome'[cur[t]] = "timedOut"
        BY <1>1, <2>1, <3>1
      <4> QED
        BY <2>1, <4>1, <4>2 DEF CallersKnow
    <3>3. Abstract!Throw(cur[t])
      BY <2>1, <3>1, <3>2 DEF Abstract!Throw
    <3> QED
      BY <2>1, <3>3 DEF Abstract!Next
  <2> QED
    BY <2>2, <2>3, <2>4
<1>7. CASE UNCHANGED <<outcome, reply, answers, expired, handled>>
  BY <1>7 DEF Abstract!vars
<1> QED
  BY <1>2, <1>3, <1>4, <1>5, <1>6, <1>7, Footprints

\* Apart from fairness, the queues, the locks and the sequence numbers implement the
\* semantics of a call that RequestReply states.
THEOREM RefinesRequestReply ==
    ASSUME NoWrap PROVE Spec => Abstract!Init /\ [][Abstract!Next]_(Abstract!vars)
<1>1. Meaning /\ Answers /\ Distinct /\ InTime /\ (Meaning /\ Answers /\ Distinct)' /\ [Next]_vars
          => [Abstract!Next]_(Abstract!vars)
  BY AbstractStep
<1> QED
  BY <1>1, AbstractInit, InTimeAlways, PTL DEF Spec

(***************************************************************************)
(* Late responses.  With one response to a request, a response is queued   *)
(* once at most (Single), and one whose caller has given up is queued only *)
(* while Handle is about to take it back (GaveUp): the context was waiting *)
(* until Handle saw it, and vTimedOut is set before the last search.       *)
(***************************************************************************)

Single ==
    /\ \A c \in Calls : ~HasTwo(c)
    /\ \A c \in Calls : Has(c) => Added(c) /\ outcome[c] # "answered"
    /\ \A c \in Calls : outcome[c] = "answered" => Added(c)

Queued(c) == \E k \in 1..Len(vWaitingQueue) : vWaitingQueue[k] = c

\* Handle has looked for the context of c.
Scanned(c) == Added(c) /\ ~(pdu.call = c /\ pc[Parser] \in {"scanLock", "scan"})

KnowsTimedOut(t) ==
    pc[t] \in Fetching /\ attempt[t] = "last" /\ cur[t] \in expired => vTimedOut[cur[t]]

GaveUp ==
    /\ \A c \in Calls : outcome[c] = "timedOut" => vTimedOut[c]
    /\ \A t \in Threads : KnowsTimedOut(t)
    /\ \A t \in Threads : pc[t] = "wait" => Queued(cur[t]) \/ Scanned(cur[t])
    /\ \A c \in expired : Queued(c) \/ Scanned(c)
    /\ \A c \in Calls : outcome[c] = "timedOut" /\ Has(c) =>
           pdu.call = c /\ pc[Parser] \in {"scanLock", "scan", "check"} \cup Fetching

\* The only response of a call is away once it has been removed.
LEMMA RemovalLoses ==
    ASSUME vResponseQueue \in Seq(Response), NEW i \in 1..Len(vResponseQueue),
           vResponseQueue' = RemoveAt(vResponseQueue, i), NEW c
    PROVE  /\ HasTwo(c)' => HasTwo(c)
           /\ vResponseQueue[i].call = c /\ Has(c)' => HasTwo(c)
<1> DEFINE From(j) == IF j < i THEN j ELSE j + 1
<1>1. /\ Len(vResponseQueue) \in Nat
      /\ Len(vResponseQueue') = Len(vResponseQueue) - 1
      /\ \A j \in 1..(Len(vResponseQueue) - 1) :
            vResponseQueue'[j] = IF j < i THEN vResponseQueue[j] ELSE vResponseQueue[j + 1]
  <2>1. Len(vResponseQueue) \in Nat
    OBVIOUS
  <2>2. /\ Len(RemoveAt(vResponseQueue, i)) = Len(vResponseQueue) - 1
        /\ \A j \in 1..(Len(vResponseQueue) - 1) :
              RemoveAt(vResponseQueue, i)[j]
                = IF j < i THEN vResponseQueue[j] ELSE vResponseQueue[j + 1]
    BY RemoveAtElements, Zenon
  <2> QED
    BY <2>1, <2>2
<1>2. ASSUME NEW j \in 1..Len(vResponseQueue')
      PROVE  /\ From(j) \in 1..Len(vResponseQueue)
             /\ From(j) # i
             /\ vResponseQueue'[j] = vResponseQueue[From(j)]
  BY <1>1, <1>2
<1>3. ASSUME NEW j \in 1..Len(vResponseQueue'), NEW k \in 1..Len(vResponseQueue'), j # k
      PROVE  From(j) # From(k)
  BY <1>1, <1>3
<1> HIDE DEF From
<1>4. ASSUME HasTwo(c)' PROVE HasTwo(c)
  <2>1. PICK j, k \in 1..Len(vResponseQueue') :
               j # k /\ vResponseQueue'[j].call = c /\ vResponseQueue'[k].call = c
    BY <1>4 DEF HasTwo
  <2>2. From(j) \in 1..Len(vResponseQueue) /\ vResponseQueue[From(j)].call = c
    BY <1>2, <2>1
  <2>3. From(k) \in 1..Len(vResponseQueue) /\ vResponseQueue[From(k)].call = c
    BY <1>2, <2>1
  <2>4. From(j) # From(k)
    BY <1>3, <2>1
  <2> QED
    BY <2>2, <2>3, <2>4 DEF HasTwo
<1>5. ASSUME vResponseQueue[i].call = c, Has(c)' PROVE HasTwo(c)
  <2>1. PICK j \in 1..Len(vResponseQueue') : vResponseQueue'[j].call = c
    BY <1>5 DEF Has
  <2>2. /\ From(j) \in 1..Len(vResponseQueue)
        /\ From(j) # i
        /\ vResponseQueue[From(j)].call = c
    BY <1>2, <2>1
  <2> QED
    BY <1>5, <2>2 DEF HasTwo
<1> QED
  BY <1>4, <1>5

\* With one answer a response is not added before AddResponse has added it.
LEMMA AddedOnce ==
    ASSUME MaxAnswers = 1, Meaning, NEW c \in Calls
    PROVE  Added(c) <=> answers[c] # 0 /\ ~(pdu.call = c /\ pc[Parser] \in {"addLock", "add"})
BY DEF Added, Meaning, TypeOK

\* What the step of a search does to the queue, for the thread that makes it.
LEMMA TakenOnce ==
    ASSUME Meaning, Distinct, Single, NEW p \in Procs, TakeResponse(p), NEW c \in Calls
    PROVE  /\ HasTwo(c)' => HasTwo(c)
           /\ index[p] # 0 => /\ p = Parser /\ c = pdu.call => Has(c) /\ ~Has(c)'
                              /\ p \in Threads /\ c = cur[p] => Has(c) /\ ~Has(c)'
           /\ index[p] = 0 => UNCHANGED vResponseQueue
<1>1. vResponseQueue \in Seq(Response)
  BY DEF Meaning, TypeOK
<1>2. CASE index[p] = 0
  <2>1. UNCHANGED vResponseQueue
    BY <1>2 DEF TakeResponse
  <2> QED
    BY <1>2, <2>1 DEF HasTwo
<1>3. CASE index[p] # 0
  <2>1. /\ index[p] \in 1..Len(vResponseQueue)
        /\ vResponseQueue' = RemoveAt(vResponseQueue, index[p])
        /\ p = Parser => vResponseQueue[index[p]].call = pdu.call
        /\ p \in Threads => vResponseQueue[index[p]].call = cur[p]
    BY <1>3, TakenCall
  <2>2. /\ HasTwo(c)' => HasTwo(c)
        /\ vResponseQueue[index[p]].call = c /\ Has(c)' => HasTwo(c)
    BY <1>1, <2>1, RemovalLoses
  <2>3. vResponseQueue[index[p]].call = c => Has(c)
    BY <2>1 DEF Has
  <2> QED
    BY <1>3, <2>1, <2>2, <2>3 DEF Single
<1> QED
  BY <1>2, <1>3

\* What is queued for a call was so before, unless AddResponse just added it.
LEMMA HasBefore ==
    ASSUME Meaning, Distinct, [Next]_vars, NEW c, Has(c)'
    PROVE  Has(c) \/ (AddResponse /\ pdu.call = c)
<1>1. PICK j \in 1..Len(vResponseQueue') : vResponseQueue'[j].call = c
  BY DEF Has
<1>2. \/ \E k \in 1..Len(vResponseQueue) : vResponseQueue'[j] = vResponseQueue[k]
      \/ AddResponse /\ vResponseQueue'[j] = pdu
  BY NothingElseQueued
<1> QED
  BY <1>1, <1>2 DEF Has

\* How a call comes to its end.
LEMMA OutcomeStep ==
    ASSUME Meaning, [Next]_vars, NEW c \in Calls, outcome'[c] \in {"answered", "timedOut"}
    PROVE  \/ outcome[c] = outcome'[c]
           \/ \E t \in Threads :
                 /\ FetchTake(t)
                 /\ cur[t] = c
                 /\ outcome'[c] = "answered" => index[t] # 0
                 /\ outcome'[c] = "timedOut" => index[t] = 0 /\ attempt[t] = "last"
<1>1. /\ outcome \in [Calls -> {"none", "pending", "answered", "timedOut"}]
      /\ attempt \in [Threads -> {"first", "last"}]
      /\ CurrentCalls
  BY DEF Meaning, TypeOK
<1>2. ASSUME NEW t \in Threads, NewRequest(t) PROVE outcome[c] = outcome'[c]
  BY <1>1, <1>2 DEF NewRequest
<1>3. ASSUME NEW t \in Threads, FetchTake(t)
      PROVE  \/ outcome[c] = outcome'[c]
             \/ /\ cur[t] = c
                /\ outcome'[c] = "answered" => index[t] # 0
                /\ outcome'[c] = "timedOut" => index[t] = 0 /\ attempt[t] = "last"
  <2>1. cur[t] \in Calls /\ outcome[cur[t]] = "pending"
    BY <1>1, <1>3 DEF FetchTake, TakeResponse, CurrentCalls
  <2> QED
    BY <1>1, <1>3, <2>1 DEF FetchTake
<1> QED
  BY <1>2, <1>3, Footprints DEF resultVars

LEMMA SingleStep ==
    ASSUME MaxAnswers = 1
    PROVE  Meaning /\ Distinct /\ InTime /\ Single /\ [Next]_vars => Single'
<1> SUFFICES ASSUME Meaning, Distinct, InTime, Single, [Next]_vars, NEW c \in Calls
             PROVE  /\ ~HasTwo(c)'
                    /\ Has(c)' => Added(c)' /\ outcome'[c] # "answered"
                    /\ outcome'[c] = "answered" => Added(c)'
  BY DEF Single, HasTwo
<1>1. vResponseQueue \in Seq(Response) /\ Numbers /\ ParserKnows /\ Labels
  BY DEF Meaning, TypeOK, InTime, Locks
<1>2. ASSUME AddResponse, pdu.call = c
      PROVE  ~Added(c) /\ ~Has(c) /\ outcome[c] # "answered" /\ Added(c)' /\ UNCHANGED outcome
  <2>1. ~Added(c)
    BY <1>2, AddedOnce DEF AddResponse
  <2>2. Added(c)'
    BY <1>1, <1>2 DEF AddResponse, Added, ParserKnows, Goto, Labels, Procs, smscVars
  <2> QED
    BY <1>2, <2>1, <2>2 DEF Single, AddResponse, resultVars
<1>3. ~HasTwo(c)'
  <2>1. CASE UNCHANGED vResponseQueue
    BY <2>1 DEF Single, HasTwo
  <2>2. CASE AddResponse
    <3>1. pdu \in Response
      BY <1>1, <2>2 DEF AddResponse, Numbers, Numbered
    <3>2. /\ Len(vResponseQueue) \in Nat
          /\ Len(vResponseQueue') = Len(vResponseQueue) + 1
          /\ \A i \in 1..Len(vResponseQueue) : vResponseQueue'[i] = vResponseQueue[i]
          /\ vResponseQueue'[Len(vResponseQueue) + 1] = pdu
      BY <1>1, <2>2, <3>1, AppendProperties DEF AddResponse
    <3>3. pdu.call = c => ~Has(c)
      BY <1>2, <2>2
    <3>4. ~HasTwo(c)
      BY DEF Single
    <3> QED
      BY <3>2, <3>3, <3>4 DEF Has, HasTwo
  <2>3. CASE Discard \/ \E t \in Threads : FetchTake(t)
    BY <2>3, TakenOnce DEF Discard, FetchTake, Single, Procs
  <2> QED
    BY <2>1, <2>2, <2>3, Footprints
<1>4. Has(c)' => Added(c)'
  BY <1>2, HasBefore, AddedStep DEF Single
<1>5. ASSUME outcome'[c] = "answered" PROVE Added(c)' /\ ~Has(c)'
  <2>1. CASE outcome[c] = "answered"
    BY <1>2, <2>1, HasBefore, AddedStep DEF Single
  <2>2. ASSUME NEW t \in Threads, FetchTake(t), cur[t] = c, index[t] # 0
        PROVE  Added(c)' /\ ~Has(c)'
    BY <2>2, TakenOnce, AddedStep DEF FetchTake, Single, Procs
  <2> QED
    BY <1>5, <2>1, <2>2, OutcomeStep
<1> QED
  BY <1>3, <1>4, <1>5

\* A context that waits is seen by Handle before Handle is through with the response.
LEMMA WaitingOrScanned ==
    ASSUME MaxAnswers = 1, Meaning, Distinct, InTime, [Next]_vars,
           NEW c \in Calls, c <= issued, Queued(c) \/ Scanned(c)
    PROVE  Queued(c)' \/ Scanned(c)'
<1>1. /\ Labels
      /\ vWaitingQueue \in Seq(Calls)
      /\ Numbers
      /\ ParserKnows
      /\ \A i \in 1..Len(vWaitingQueue) : vWaitingQueue[i] <= issued
  BY DEF Meaning, TypeOK, Locks, InTime, CallersKnow
<1>2. CASE Scanned(c)
  <2>1. Added(c) /\ Added(c)'
    BY <1>2, AddedStep DEF Scanned
  <2>2. ~(pdu.call = c /\ pc[Parser] \in {"addLock", "add", "scanLock", "scan"})
    BY <1>2, <2>1, AddedOnce DEF Scanned
  <2>3. ~(pdu'.call = c /\ pc'[Parser] \in {"scanLock", "scan"})
    <3>1. CASE pc'[Parser] = pc[Parser] /\ UNCHANGED pdu
      BY <2>2, <3>1
    <3>2. CASE \E d \in Calls : Receive(d)
      BY <1>1, <3>2 DEF Receive, Goto, Labels, Procs
    <3>3. CASE HandleStep
      BY <1>1, <2>2, <3>3 DEF HandleStep, AddLock, AddResponse, ScanLock, Scan, CheckTimedOut,
         FetchLock, FetchFind, Discard, TakeResponse, Release, Goto, Labels, Procs, smscVars
    <3> QED
      BY <3>1, <3>2, <3>3, ParserMoves
  <2> QED
    BY <2>1, <2>3 DEF Scanned
<1>3. CASE Queued(c)
  <2>1. PICK k \in 1..Len(vWaitingQueue) : vWaitingQueue[k] = c
    BY <1>3 DEF Queued
  <2>2. CASE UNCHANGED vWaitingQueue
    BY <1>3, <2>2 DEF Queued
  <2>3. ASSUME NEW t \in Threads, WaitAdd(t) PROVE Queued(c)'
    <3>1. cur[t] \in Calls
      BY <2>3 DEF WaitAdd, Meaning, CurrentCalls
    <3>2. /\ Len(vWaitingQueue') = Len(vWaitingQueue) + 1
          /\ vWaitingQueue'[k] = vWaitingQueue[k]
      BY <1>1, <2>1, <2>3, <3>1, AppendProperties DEF WaitAdd
    <3> QED
      BY <1>1, <2>1, <3>2 DEF Queued
  <2>4. CASE Scan
    <3>1. CASE MatchingContext = 0
      BY <1>3, <2>4, <3>1 DEF Scan, Queued
    <3>2. CASE MatchingContext # 0 /\ pdu.call = c
      BY <1>1, <2>4, <3>2 DEF Scan, Goto, Labels, Procs, smscVars, Scanned, Added, ParserKnows
    <3>3. CASE MatchingContext # 0 /\ pdu.call # c
      <4>1. /\ MatchingContext \in 1..Len(vWaitingQueue)
            /\ seqNo[vWaitingQueue[MatchingContext]] = pdu.seq
        BY <1>1, <3>3, ContextFound
      <4>2. pdu.seq = pdu.call /\ seqNo[c] = c
        BY <1>1, <2>4 DEF Scan, Numbers, Numbered, Distinct, Response
      <4>3. k # MatchingContext
        BY <2>1, <3>3, <4>1, <4>2
      <4>4. \E j \in 1..Len(RemoveAt(vWaitingQueue, MatchingContext)) :
               RemoveAt(vWaitingQueue, MatchingContext)[j] = vWaitingQueue[k]
        BY <1>1, <2>1, <4>1, <4>3, RemoveAtSurvivors
      <4>5. vWaitingQueue' = RemoveAt(vWaitingQueue, MatchingContext)
        BY <2>4, <3>3 DEF Scan
      <4> QED
        BY <2>1, <4>4, <4>5 DEF Queued
    <3> QED
      BY <3>1, <3>2, <3>3
  <2> QED
    BY <2>2, <2>3, <2>4, Footprints
<1> QED
  BY <1>2, <1>3

\* Other threads do not touch what a thread knows.
LEMMA OthersLeave ==
    ASSUME Meaning, [Next]_vars, NEW u \in Threads, ~NewRequest(u), ~WaitStep(u)
    PROVE  /\ pc'[u] = pc[u]
           /\ cur'[u] = cur[u]
           /\ attempt'[u] = attempt[u]
           /\ pc[u] # "idle" => /\ cur[u] \in expired' <=> cur[u] \in expired
                                /\ vTimedOut'[cur[u]] = vTimedOut[cur[u]]
<1>1. /\ Labels
      /\ cur \in [Procs -> 0..MaxCalls]
      /\ attempt \in [Threads -> {"first", "last"}]
      /\ vTimedOut \in [Calls -> BOOLEAN]
      /\ CurrentCalls
      /\ u # Parser /\ u \in Procs
  BY DEF Meaning, TypeOK, Locks, Procs
<1>2. ASSUME NEW t \in Threads, NewRequest(t) \/ WaitStep(t), t # u
      PROVE  /\ pc'[u] = pc[u] /\ cur'[u] = cur[u] /\ attempt'[u] = attempt[u]
             /\ pc[u] # "idle" => /\ cur[u] \in expired' <=> cur[u] \in expired
                                  /\ vTimedOut'[cur[u]] = vTimedOut[cur[u]]
  <2>1. pc'[u] = pc[u] /\ cur'[u] = cur[u] /\ attempt'[u] = attempt[u]
    BY <1>1, <1>2 DEF WaitStep, NewRequest, Send, FetchLock, FetchFind, FetchTake,
       TakeResponse, WaitLock, WaitAdd, Wake, Expire, SetTimedOut, Goto, Procs, Labels
  <2>2. /\ expired' = expired \/ (pc[t] = "wait" /\ expired' = expired \cup {cur[t]})
        /\ \/ vTimedOut' = vTimedOut
           \/ /\ pc[t] \in {"wait", "timedOut"}
              /\ \E b \in BOOLEAN : vTimedOut' = [vTimedOut EXCEPT ![cur[t]] = b]
    BY <1>2 DEF WaitStep, NewRequest, Send, FetchLock, FetchFind, FetchTake, TakeResponse,
       WaitLock, WaitAdd, Wake, Expire, SetTimedOut, historyVars, contextVars
  <2>3. pc[u] # "idle" /\ pc[t] # "idle" => cur[u] # cur[t] /\ cur[u] \in Calls
    BY <1>1, <1>2 DEF CurrentCalls
  <2> QED
    BY <1>1, <2>1, <2>2, <2>3
<1>3. ASSUME HandleStep \/ (\E c \in Calls : Receive(c)) \/ UNCHANGED vars
      PROVE  /\ pc'[u] = pc[u]
             /\ cur'[u] = cur[u]
             /\ attempt'[u] = attempt[u]
             /\ UNCHANGED <<expired, vTimedOut>>
  BY <1>1, <1>3 DEF HandleStep, AddLock, AddResponse, ScanLock, Scan, CheckTimedOut,
     FetchLock, FetchFind, Discard, TakeResponse, Release, Receive, vars, Goto, Labels,
     historyVars, contextVars
<1> QED
  BY <1>2, <1>3 DEF Next, Finished

\* Only WaitAdd begins a wait, and what a thread searches for last it knows to have timed
\* out, unless it was woken.
LEMMA OwnStep ==
    ASSUME Meaning, InTime, NEW u \in Threads, NewRequest(u) \/ WaitStep(u), KnowsTimedOut(u)
    PROVE  KnowsTimedOut(u)' /\ (pc'[u] = "wait" => WaitAdd(u))
<1>1. /\ Labels
      /\ cur \in [Procs -> 0..MaxCalls]
      /\ attempt \in [Threads -> {"first", "last"}]
      /\ vTimedOut \in [Calls -> BOOLEAN]
      /\ CurrentCalls
      /\ u # Parser /\ u \in Procs
      /\ Wait(u)
  BY DEF Meaning, TypeOK, Locks, Procs, InTime, CallersKnow, Wait
<1> USE DEF KnowsTimedOut, Fetching, Goto, Labels, historyVars, contextVars
<1>2. CASE NewRequest(u)
  BY <1>1, <1>2 DEF NewRequest
<1>3. CASE Send(u)
  BY <1>1, <1>3 DEF Send
<1>4. CASE FetchLock(u)
  BY <1>1, <1>4 DEF FetchLock
<1>5. CASE FetchFind(u)
  BY <1>1, <1>5 DEF FetchFind
<1>6. CASE FetchTake(u)
  BY <1>1, <1>6 DEF FetchTake
<1>7. CASE WaitLock(u)
  BY <1>1, <1>7 DEF WaitLock
<1>8. CASE WaitAdd(u)
  BY <1>1, <1>8 DEF WaitAdd
<1>9. CASE Wake(u)
  BY <1>1, <1>9 DEF Wake, Wait
<1>10. CASE Expire(u)
  BY <1>1, <1>10 DEF Expire
<1>11. CASE SetTimedOut(u)
  BY <1>1, <1>11 DEF SetTimedOut, CurrentCalls
<1> QED
  BY <1>2, <1>3, <1>4, <1>5, <1>6, <1>7, <1>8, <1>9, <1>10, <1>11 DEF WaitStep

LEMMA GaveUpStep ==
    ASSUME MaxAnswers = 1
    PROVE  Meaning /\ Distinct /\ InTime /\ Single /\ GaveUp /\ [Next]_vars => GaveUp'
<1> SUFFICES ASSUME Meaning, Distinct, InTime, Single, GaveUp, [Next]_vars
             PROVE  GaveUp'
  OBVIOUS
<1>1. /\ Labels
      /\ cur \in [Procs -> 0..MaxCalls]
      /\ vTimedOut \in [Calls -> BOOLEAN]
      /\ expired \subseteq Calls
      /\ \A c \in expired : c <= issued
      /\ CurrentCalls
      /\ Numbers
      /\ ParserKnows
  BY DEF Meaning, TypeOK, Locks, InTime, CallersKnow
<1>2. ASSUME NEW t \in Threads, FetchTake(t)
      PROVE  /\ pc[t] = "fetchTake"
             /\ cur[t] \in Calls
             /\ outcome[cur[t]] = "pending"
             /\ UNCHANGED <<expired, vTimedOut, answers, pdu>>
             /\ index[t] = 0 => UNCHANGED vResponseQueue
  BY <1>1, <1>2 DEF FetchTake, TakeResponse, CurrentCalls, historyVars, contextVars, smscVars
\* A call that is told "timed out" has its field set, and nothing is queued for it then.
<1>3. ASSUME NEW t \in Threads, FetchTake(t), index[t] = 0, attempt[t] = "last",
             NEW c \in Calls, cur[t] = c, outcome'[c] = "timedOut"
      PROVE  vTimedOut'[c] /\ ~Has(c)'
  <2>1. c \in expired
    <3>1. CallersKnow'
      BY CallersKnowStep
    <3> QED
      BY <1>2, <1>3, <3>1 DEF CallersKnow
  <2>2. ~Has(c)
    BY <1>2, <1>3, NothingFound
  <2> QED
    BY <1>2, <1>3, <2>1, <2>2 DEF GaveUp, KnowsTimedOut, Fetching, Has
<1>4. ASSUME NEW c \in Calls, outcome'[c] = "timedOut"
      PROVE  vTimedOut'[c]
  <2>1. CASE outcome[c] = "timedOut"
    <3>1. ASSUME NEW t \in Threads, Wake(t) \/ SetTimedOut(t)
          PROVE  cur[t] # c
      BY <1>1, <2>1, <3>1 DEF Wake, SetTimedOut, CurrentCalls
    <3>2. vTimedOut[c]
      BY <2>1 DEF GaveUp
    <3> QED
      BY <1>1, <3>1, <3>2, Footprints DEF Wake, SetTimedOut
  <2> QED
    BY <1>3, <1>4, <2>1, OutcomeStep
<1>5. ASSUME NEW u \in Threads
      PROVE  KnowsTimedOut(u)'
  <2>1. KnowsTimedOut(u)
    BY DEF GaveUp
  <2>2. CASE NewRequest(u) \/ WaitStep(u)
    BY <2>1, <2>2, OwnStep
  <2>3. CASE ~NewRequest(u) /\ ~WaitStep(u)
    BY <2>1, <2>3, OthersLeave DEF KnowsTimedOut, Fetching
  <2> QED
    BY <2>2, <2>3
<1>6. ASSUME NEW u \in Threads, pc'[u] = "wait"
      PROVE  (Queued(cur[u]) \/ Scanned(cur[u]))'
  <2>1. CASE NewRequest(u) \/ WaitStep(u)
    <3>1. WaitAdd(u)
      BY <1>6, <2>1, OwnStep DEF GaveUp
    <3>2. cur'[u] = cur[u] /\ cur[u] \in Calls /\ vWaitingQueue \in Seq(Calls)
      BY <1>1, <3>1 DEF WaitAdd, CurrentCalls, Meaning, TypeOK
    <3>3. /\ Len(vWaitingQueue') = Len(vWaitingQueue) + 1
          /\ vWaitingQueue'[Len(vWaitingQueue) + 1] = cur[u]
      BY <3>1, <3>2, AppendProperties DEF WaitAdd
    <3>4. Len(vWaitingQueue) + 1 \in 1..Len(vWaitingQueue')
      BY <3>2, <3>3
    <3> QED
      BY <3>2, <3>3, <3>4 DEF Queued
  <2>2. CASE ~NewRequest(u) /\ ~WaitStep(u)
    <3>1. pc[u] = "wait" /\ cur'[u] = cur[u]
      BY <1>6, <2>2, OthersLeave
    <3>2. PICK c \in Calls : c = cur[u] /\ c <= issued
      BY <1>1, <3>1 DEF CurrentCalls
    <3>3. Queued(c) \/ Scanned(c)
      BY <3>1, <3>2 DEF GaveUp
    <3>4. Queued(c)' \/ Scanned(c)'
      BY <3>2, <3>3, WaitingOrScanned
    <3>5. c = cur'[u]
      BY <3>1, <3>2
    <3> QED
      BY <3>4, <3>5 DEF Queued, Scanned, Added
  <2> QED
    BY <2>1, <2>2
<1>7. ASSUME NEW c \in expired'
      PROVE  Queued(c)' \/ Scanned(c)'
  <2>1. c \in Calls /\ c <= issued /\ (Queued(c) \/ Scanned(c))
    <3>1. CASE c \in expired
      BY <1>1, <3>1 DEF GaveUp
    <3>2. ASSUME NEW t \in Threads, Expire(t), c = cur[t]
          PROVE  c \in Calls /\ c <= issued /\ (Queued(c) \/ Scanned(c))
      BY <1>1, <3>2 DEF Expire, GaveUp, CurrentCalls
    <3> QED
      BY <3>1, <3>2, Footprints DEF Expire
  <2> QED
    BY <2>1, WaitingOrScanned
<1>8. ASSUME NEW c \in Calls, outcome'[c] = "timedOut", Has(c)'
      PROVE  pdu'.call = c /\ pc'[Parser] \in {"scanLock", "scan", "check"} \cup Fetching
  <2>1. outcome[c] = "timedOut"
    BY <1>3, <1>8, OutcomeStep
  <2>2. CASE AddResponse /\ pdu.call = c
    BY <1>1, <2>2 DEF AddResponse, Goto, Labels, Procs, smscVars
  <2>3. CASE Has(c)
    <3>1. pdu.call = c /\ pc[Parser] \in {"scanLock", "scan", "check"} \cup Fetching
      BY <2>1, <2>3 DEF GaveUp
    <3>2. CASE pc'[Parser] = pc[Parser] /\ UNCHANGED pdu
      BY <3>1, <3>2
    <3>3. CASE HandleStep
      <4>1. UNCHANGED pdu
        BY <3>3 DEF HandleStep, AddLock, AddResponse, ScanLock, Scan, CheckTimedOut, FetchLock,
                    FetchFind, Discard, Release, smscVars
      <4>2. CASE ScanLock \/ FetchLock(Parser) \/ FetchFind(Parser)
        BY <1>1, <3>1, <4>1, <4>2 DEF ScanLock, FetchLock, FetchFind, Goto, Labels, Procs, Fetching
\* The context is still there, because Handle has not seen it.
      <4>3. CASE Scan
        <5>1. pc[Parser] = "scan" /\ Queued(c)
          BY <2>1, <3>1, <4>3 DEF Scan, GaveUp, Scanned, InTime, CallersKnow
        <5>2. PICK k \in 1..Len(vWaitingQueue) : vWaitingQueue[k] = c
          BY <5>1 DEF Queued
        <5>3. seqNo[c] = pdu.seq
          BY <1>1, <3>1, <5>1 DEF Numbers, Numbered
        <5>4. MatchingContext # 0
          BY <5>2, <5>3, ContextFound DEF Meaning, TypeOK
        <5> QED
          BY <1>1, <3>1, <4>1, <4>3, <5>4 DEF Scan, Goto, Labels, Procs
      <4>4. CASE CheckTimedOut
        <5>1. pc[Parser] = "check" /\ cur[Parser] = c /\ vTimedOut[c]
          BY <1>1, <2>1, <3>1, <4>4 DEF CheckTimedOut, ParserKnows, GaveUp
        <5> QED
          BY <1>1, <3>1, <4>1, <4>4, <5>1 DEF CheckTimedOut, Goto, Labels, Procs, Fetching
      <4>5. CASE Discard
        <5>1. TakeResponse(Parser) /\ pc[Parser] = "fetchTake" /\ Parser \in Procs
          BY <4>5 DEF Discard, TakeResponse, Procs
        <5>2. index[Parser] # 0
          <6>1. PICK i \in 1..Len(vResponseQueue) : vResponseQueue[i].call = c
            BY <2>3 DEF Has
          <6>2. vResponseQueue[i].seq = pdu.seq
            BY <1>1, <3>1, <5>1, <6>1 DEF Numbers, Numbered
          <6> QED
            BY <5>1, <6>1, <6>2 DEF Meaning, Positions, Wanted
        <5> QED
          BY <1>8, <3>1, <5>1, <5>2, TakenOnce
      <4> QED
        BY <3>1, <3>3, <4>2, <4>3, <4>4, <4>5
           DEF HandleStep, AddLock, AddResponse, Release, Fetching
    <3>4. CASE \E d \in Calls : Receive(d)
      BY <3>1, <3>4 DEF Receive, Fetching
    <3> QED
      BY <3>2, <3>3, <3>4, ParserMoves
  <2> QED
    BY <1>8, <2>2, <2>3, HasBefore
<1>9. \A c \in Calls : outcome'[c] = "timedOut" /\ Has(c)' =>
          pdu'.call = c /\ pc'[Parser] \in {"scanLock", "scan", "check"} \cup Fetching
  BY <1>8
<1>10. \A t \in Threads : pc'[t] = "wait" => (Queued(cur[t]) \/ Scanned(cur[t]))'
  BY <1>6
<1>11. \A c \in expired' : Queued(c)' \/ Scanned(c)'
  BY <1>7
<1> QED
  BY <1>4, <1>5, <1>9, <1>10, <1>11 DEF GaveUp, Queued, Scanned, Added, Has, Fetching

\* With one response to a request, a response that comes too late for its caller does not
\* stay in the queue, for any number of callers and calls: Handle takes it back, also when
\* it races with the caller that gives up.
THEOREM LateAreDiscarded ==
    ASSUME NoWrap, MaxAnswers = 1 PROVE Spec => []LateResponsesDiscarded
<1>1. Init => Single /\ GaveUp
  BY DEF Init, Single, GaveUp, Has, HasTwo, KnowsTimedOut, Fetching, Procs, Calls
<1>2. Meaning /\ Distinct /\ InTime /\ Single /\ GaveUp /\ [Next]_vars => Single' /\ GaveUp'
  BY SingleStep, GaveUpStep
<1>3. Meaning /\ InTime /\ Single /\ GaveUp => LateResponsesDiscarded
  <2> SUFFICES ASSUME Meaning, InTime, Single, GaveUp, pc[Parser] = "idle",
                      NEW i \in DOMAIN vResponseQueue
               PROVE  outcome[vResponseQueue[i].call] = "pending"
    BY DEF LateResponsesDiscarded
  <2> DEFINE c == vResponseQueue[i].call
  <2>1. i \in 1..Len(vResponseQueue)
    BY DEF Meaning, TypeOK
  <2>2. c \in Calls /\ c <= issued /\ Has(c)
    BY <2>1 DEF Meaning, Numbers, Numbered, Response, Has
  <2> HIDE DEF c
  <2>3. outcome[c] # "none" /\ outcome[c] # "answered" /\ outcome[c] # "timedOut"
    BY <2>2 DEF Meaning, CurrentCalls, Single, GaveUp, Fetching
  <2>4. outcome[c] = "pending"
    BY <2>2, <2>3 DEF Meaning, TypeOK
  <2> QED
    BY <2>4 DEF c
<1> QED
  BY <1>1, <1>2, <1>3, InTimeAlways, PTL DEF Spec

=============================================================================
