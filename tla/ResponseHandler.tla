--------------------------- MODULE ResponseHandler ---------------------------
(***************************************************************************)
(* Matching of responses to requests inside one SMPP session:              *)
(*   ResponseHandler.cs    the two queues, Handle and WaitResponse         *)
(*   PDUWaitContext.cs     one waiting caller and its event                *)
(*   PDUHeader.cs          the sequence numbers                            *)
(*   SmppClientSession.cs  SendPdu: send, then wait for the response       *)
(*                                                                         *)
(* The processes are the threads that call SendPdu (any number, ASP.NET    *)
(* requests and timers) and the one thread of the StreamParser, which      *)
(* calls Handle.  Both queues are guarded by an AutoResetEvent used as a   *)
(* lock; TRUE below is "set", that is, free.                               *)
(*                                                                         *)
(* A call of SendPdu is numbered by the order in which the calls take      *)
(* their sequence number.  A response carries its sequence number and, as  *)
(* a history field, the call it answers; the code sees only the former.    *)
(***************************************************************************)
EXTENDS SequencesExt, Integers

CONSTANTS
    Threads,        \* the threads that send requests
    Parser,         \* the thread of the StreamParser
    MaxCalls,       \* bound on the number of calls of SendPdu
    MaxSeq,         \* the largest sequence number, uint.MaxValue in the code
    MaxAnswers      \* bound on the responses the SMSC gives to one request

ASSUME ConstantsAssumption ==
    /\ Parser \notin Threads
    /\ MaxCalls \in Nat \ {0}
    /\ MaxSeq \in Nat \ {0}
    /\ MaxAnswers \in Nat \ {0}

Procs == Threads \cup {Parser}
Calls == 1..MaxCalls
Response == [seq : 1..MaxSeq, call : Calls]

VARIABLES
    pc,                     \* what each process executes next
    cur,                    \* the call a thread works on; the parser's waitContext
    attempt,                \* the first or the last FetchResponse of WaitResponse
    index,                  \* the loop variable of FetchResponse
    vNextSequenceNumber,
    issued,                 \* the number of calls made so far
    seqNo,                  \* the sequence number in the header of each call's PDU
    sent,                   \* the calls whose PDU reached the SMSC
    answers,                \* how often the SMSC answered each call
    pdu,                    \* the argument of Handle
    vResponseQueue,
    vResponseEvent,
    vWaitingQueue,          \* the waiting contexts, each named by its call
    vWaitingEvent,
    vNotifyEvent,           \* the event of each call's context
    vTimedOut,              \* the vTimedOut field of each call's context
    outcome,                \* how each call ended
    reply,                  \* the call whose response was returned, 0 for none
    expired,                \* history: the calls whose WaitOne returned false
    handled                 \* history: the calls for which Handle returned before that

requestVars == <<issued, vNextSequenceNumber, seqNo>>
smscVars    == <<sent, answers, pdu>>
queueVars   == <<vResponseQueue, vResponseEvent, vWaitingQueue, vWaitingEvent>>
contextVars == <<vNotifyEvent, vTimedOut>>
resultVars  == <<outcome, reply>>
historyVars == <<expired, handled>>
vars == <<pc, cur, attempt, index, requestVars, smscVars, queueVars,
          contextVars, resultVars, historyVars>>

ThreadPc == {"idle", "send", "fetchLock", "fetchFind", "fetchTake",
             "waitLock", "waitAdd", "wait", "timedOut"}
ParserPc == {"idle", "addLock", "add", "scanLock", "scan", "check",
             "fetchLock", "fetchFind", "fetchTake", "release"}

TypeOK ==
    /\ pc \in [Procs -> ThreadPc \cup ParserPc]
    /\ \A t \in Threads : pc[t] \in ThreadPc
    /\ pc[Parser] \in ParserPc
    /\ cur \in [Procs -> 0..MaxCalls]
    /\ attempt \in [Threads -> {"first", "last"}]
    /\ index \in [Procs -> Nat]
    /\ vNextSequenceNumber \in 1..MaxSeq
    /\ issued \in 0..MaxCalls
    /\ seqNo \in [Calls -> 0..MaxSeq]
    /\ sent \subseteq Calls
    /\ answers \in [Calls -> 0..MaxAnswers]
    /\ pdu \in [seq : 0..MaxSeq, call : 0..MaxCalls]
    /\ vResponseQueue \in Seq(Response)
    /\ vWaitingQueue \in Seq(Calls)
    /\ vResponseEvent \in BOOLEAN
    /\ vWaitingEvent \in BOOLEAN
    /\ vNotifyEvent \in [Calls -> BOOLEAN]
    /\ vTimedOut \in [Calls -> BOOLEAN]
    /\ outcome \in [Calls -> {"none", "pending", "answered", "timedOut"}]
    /\ reply \in [Calls -> 0..MaxCalls]
    /\ expired \subseteq Calls
    /\ handled \subseteq Calls

Init ==
    /\ pc = [p \in Procs |-> "idle"]
    /\ cur = [p \in Procs |-> 0]
    /\ attempt = [t \in Threads |-> "first"]
    /\ index = [p \in Procs |-> 0]
    /\ vNextSequenceNumber = 1
    /\ issued = 0
    /\ seqNo = [c \in Calls |-> 0]
    /\ sent = {}
    /\ answers = [c \in Calls |-> 0]
    /\ pdu = [seq |-> 0, call |-> 0]
    /\ vResponseQueue = << >>
    /\ vResponseEvent = TRUE
    /\ vWaitingQueue = << >>
    /\ vWaitingEvent = TRUE
    /\ vNotifyEvent = [c \in Calls |-> FALSE]
    /\ vTimedOut = [c \in Calls |-> FALSE]
    /\ outcome = [c \in Calls |-> "none"]
    /\ reply = [c \in Calls |-> 0]
    /\ expired = {}
    /\ handled = {}

Goto(p, label) == pc' = [pc EXCEPT ![p] = label]

(***************************************************************************)
(* SendPdu: a new PDU takes the next sequence number, is sent, and its     *)
(* response awaited.                                                       *)
(***************************************************************************)
\* Mutant: the counter starts again at 0.
SequenceNumberFromZero(n) == IF n = MaxSeq THEN 0 ELSE n + 1

SequenceNumberAfter(n) == IF n = MaxSeq THEN 1 ELSE n + 1

NewRequest(t) ==
    /\ pc[t] = "idle"
    /\ issued < MaxCalls
    /\ issued' = issued + 1
    /\ cur' = [cur EXCEPT ![t] = issued + 1]
    /\ seqNo' = [seqNo EXCEPT ![issued + 1] = vNextSequenceNumber]
    /\ vNextSequenceNumber' = SequenceNumberAfter(vNextSequenceNumber)
    /\ outcome' = [outcome EXCEPT ![issued + 1] = "pending"]
    /\ Goto(t, "send")
    /\ UNCHANGED <<attempt, index, smscVars, queueVars, contextVars, reply, historyVars>>

\* SendPduBase swallows every exception of the transmitter: the caller waits all the same.
Send(t) ==
    /\ pc[t] = "send"
    /\ \E reached \in BOOLEAN : sent' = IF reached THEN sent \cup {cur[t]} ELSE sent
    /\ attempt' = [attempt EXCEPT ![t] = "first"]
    /\ Goto(t, "fetchLock")
    /\ UNCHANGED <<cur, index, requestVars, answers, pdu, queueVars, contextVars,
                   resultVars, historyVars>>

(***************************************************************************)
(* FetchResponse, called by WaitResponse (twice) and by Handle.            *)
(***************************************************************************)
Wanted(p) == IF p = Parser THEN pdu.seq ELSE seqNo[cur[p]]

\* Mutant: the first response that is queued is taken, whatever its number.
AnyPosition(queue, seq) == IF queue = << >> THEN 0 ELSE 1

\* The position of the first response with this sequence number, 0 if there is none.
PositionOf(queue, seq) == SelectInSeq(queue, LAMBDA r : r.seq = seq)

\* Mutant: the search does not wait for the lock.
FetchUnlocked(p) ==
    /\ pc[p] = "fetchLock"
    /\ vResponseEvent' = FALSE
    /\ Goto(p, "fetchFind")
    /\ UNCHANGED <<cur, attempt, index, requestVars, smscVars, vResponseQueue, vWaitingQueue,
                   vWaitingEvent, contextVars, resultVars, historyVars>>

FetchLock(p) ==
    /\ pc[p] = "fetchLock"
    /\ vResponseEvent
    /\ vResponseEvent' = FALSE
    /\ Goto(p, "fetchFind")
    /\ UNCHANGED <<cur, attempt, index, requestVars, smscVars, vResponseQueue, vWaitingQueue,
                   vWaitingEvent, contextVars, resultVars, historyVars>>

FetchFind(p) ==
    /\ pc[p] = "fetchFind"
    /\ index' = [index EXCEPT ![p] = PositionOf(vResponseQueue, Wanted(p))]
    /\ Goto(p, "fetchTake")
    /\ UNCHANGED <<cur, attempt, requestVars, smscVars, queueVars, contextVars, resultVars,
                   historyVars>>

\* Mutant: the lock is set free only when something was found.
TakeKeepingLock(p) ==
    /\ pc[p] = "fetchTake"
    /\ vResponseQueue' = IF index[p] = 0 THEN vResponseQueue
                                         ELSE RemoveAt(vResponseQueue, index[p])
    /\ vResponseEvent' = (index[p] # 0)

\* RemoveAt(index) if something was found, and the lock is set free in either case.
TakeResponse(p) ==
    /\ pc[p] = "fetchTake"
    /\ vResponseQueue' = IF index[p] = 0 THEN vResponseQueue
                                         ELSE RemoveAt(vResponseQueue, index[p])
    /\ vResponseEvent' = TRUE

\* WaitResponse goes on with what FetchResponse returned.
FetchTake(t) ==
    /\ TakeResponse(t)
    /\ IF index[t] # 0
       THEN /\ outcome' = [outcome EXCEPT ![cur[t]] = "answered"]
            /\ reply' = [reply EXCEPT ![cur[t]] = vResponseQueue[index[t]].call]
            /\ Goto(t, "idle")
       ELSE /\ reply' = reply
            /\ IF attempt[t] = "first"
               THEN Goto(t, "waitLock") /\ outcome' = outcome
               ELSE Goto(t, "idle") /\ outcome' = [outcome EXCEPT ![cur[t]] = "timedOut"]
    /\ UNCHANGED <<cur, attempt, index, requestVars, smscVars, vWaitingQueue, vWaitingEvent,
                   contextVars, historyVars>>

(***************************************************************************)
(* WaitResponse: queue a context, wait on its event, fetch again.          *)
(***************************************************************************)
WaitLock(t) ==
    /\ pc[t] = "waitLock"
    /\ vWaitingEvent
    /\ vWaitingEvent' = FALSE
    /\ Goto(t, "waitAdd")
    /\ UNCHANGED <<cur, attempt, index, requestVars, smscVars, vResponseQueue, vResponseEvent,
                   vWaitingQueue, contextVars, resultVars, historyVars>>

WaitAdd(t) ==
    /\ pc[t] = "waitAdd"
    /\ vWaitingQueue' = Append(vWaitingQueue, cur[t])
    /\ vWaitingEvent' = TRUE
    /\ Goto(t, "wait")
    /\ UNCHANGED <<cur, attempt, index, requestVars, smscVars, vResponseQueue, vResponseEvent,
                   contextVars, resultVars, historyVars>>

\* WaitOne returns true, which resets the event.
Wake(t) ==
    /\ pc[t] = "wait"
    /\ vNotifyEvent[cur[t]]
    /\ vNotifyEvent' = [vNotifyEvent EXCEPT ![cur[t]] = FALSE]
    /\ vTimedOut' = [vTimedOut EXCEPT ![cur[t]] = FALSE]
    /\ attempt' = [attempt EXCEPT ![t] = "last"]
    /\ Goto(t, "fetchLock")
    /\ UNCHANGED <<cur, index, requestVars, smscVars, queueVars, resultVars, historyVars>>

\* WaitOne returns false; its result is stored only in the next step.
Expire(t) ==
    /\ pc[t] = "wait"
    /\ ~vNotifyEvent[cur[t]]
    /\ expired' = expired \cup {cur[t]}
    /\ Goto(t, "timedOut")
    /\ UNCHANGED <<cur, attempt, index, requestVars, smscVars, queueVars, contextVars,
                   resultVars, handled>>

\* Mutant: a wait that expired throws at once, without a last FetchResponse.
ThrowAtOnce(t) ==
    /\ pc[t] = "timedOut"
    /\ vTimedOut' = [vTimedOut EXCEPT ![cur[t]] = TRUE]
    /\ outcome' = [outcome EXCEPT ![cur[t]] = "timedOut"]
    /\ Goto(t, "idle")
    /\ UNCHANGED <<cur, attempt, index, requestVars, smscVars, queueVars, vNotifyEvent, reply,
                   historyVars>>

SetTimedOut(t) ==
    /\ pc[t] = "timedOut"
    /\ vTimedOut' = [vTimedOut EXCEPT ![cur[t]] = TRUE]
    /\ attempt' = [attempt EXCEPT ![t] = "last"]
    /\ Goto(t, "fetchLock")
    /\ UNCHANGED <<cur, index, requestVars, smscVars, queueVars, vNotifyEvent, resultVars,
                   historyVars>>

(***************************************************************************)
(* Handle, on the thread of the StreamParser.                              *)
(***************************************************************************)

\* The SMSC answers when it likes, in any order, more than once or never.
Receive(c) ==
    /\ pc[Parser] = "idle"
    /\ c \in sent
    /\ answers[c] < MaxAnswers
    /\ answers' = [answers EXCEPT ![c] = @ + 1]
    /\ pdu' = [seq |-> seqNo[c], call |-> c]
    /\ Goto(Parser, "addLock")
    /\ UNCHANGED <<cur, attempt, index, requestVars, sent, queueVars, contextVars,
                   resultVars, historyVars>>

AddLock ==
    /\ pc[Parser] = "addLock"
    /\ vResponseEvent
    /\ vResponseEvent' = FALSE
    /\ Goto(Parser, "add")
    /\ UNCHANGED <<cur, attempt, index, requestVars, smscVars, vResponseQueue, vWaitingQueue,
                   vWaitingEvent, contextVars, resultVars, historyVars>>

\* Mutant: the response is not queued when the PDU is handled.
AlertOnly ==
    /\ pc[Parser] = "add"
    /\ vResponseEvent' = TRUE
    /\ Goto(Parser, "scanLock")
    /\ UNCHANGED <<cur, attempt, index, requestVars, smscVars, vResponseQueue, vWaitingQueue,
                   vWaitingEvent, contextVars, resultVars, historyVars>>

AddResponse ==
    /\ pc[Parser] = "add"
    /\ vResponseQueue' = Append(vResponseQueue, pdu)
    /\ vResponseEvent' = TRUE
    /\ Goto(Parser, "scanLock")
    /\ UNCHANGED <<cur, attempt, index, requestVars, smscVars, vWaitingQueue, vWaitingEvent,
                   contextVars, resultVars, historyVars>>

ScanLock ==
    /\ pc[Parser] = "scanLock"
    /\ vWaitingEvent
    /\ vWaitingEvent' = FALSE
    /\ Goto(Parser, "scan")
    /\ UNCHANGED <<cur, attempt, index, requestVars, smscVars, vResponseQueue, vResponseEvent,
                   vWaitingQueue, contextVars, resultVars, historyVars>>

\* The position of the first context with the sequence number of the PDU, 0 if there is none.
MatchingContext == SelectInSeq(vWaitingQueue, LAMBDA c : seqNo[c] = pdu.seq)

\* That context is removed and alerted.
Scan ==
    /\ pc[Parser] = "scan"
    /\ LET i == MatchingContext
       IN IF i = 0
          THEN Goto(Parser, "release") /\ UNCHANGED <<cur, vWaitingQueue, vNotifyEvent>>
          ELSE /\ vWaitingQueue' = RemoveAt(vWaitingQueue, i)
               /\ cur' = [cur EXCEPT ![Parser] = vWaitingQueue[i]]
               /\ vNotifyEvent' = [vNotifyEvent EXCEPT ![vWaitingQueue[i]] = TRUE]
               /\ Goto(Parser, "check")
    /\ UNCHANGED <<attempt, index, requestVars, smscVars, vResponseQueue, vResponseEvent,
                   vWaitingEvent, vTimedOut, resultVars, historyVars>>

\* Mutant: the response is never taken back after the alert.
NeverDiscard ==
    /\ pc[Parser] = "check"
    /\ Goto(Parser, "release")
    /\ UNCHANGED <<cur, attempt, index, requestVars, smscVars, queueVars, contextVars,
                   resultVars, historyVars>>

\* A context that has timed out will not fetch the response any more: discard it.
CheckTimedOut ==
    /\ pc[Parser] = "check"
    /\ Goto(Parser, IF vTimedOut[cur[Parser]] THEN "fetchLock" ELSE "release")
    /\ UNCHANGED <<cur, attempt, index, requestVars, smscVars, queueVars, contextVars,
                   resultVars, historyVars>>

Discard ==
    /\ TakeResponse(Parser)
    /\ Goto(Parser, "release")
    /\ UNCHANGED <<cur, attempt, index, requestVars, smscVars, vWaitingQueue, vWaitingEvent,
                   contextVars, resultVars, historyVars>>

\* Handle returns: vWaitingEvent is set in its finally block.
Release ==
    /\ pc[Parser] = "release"
    /\ vWaitingEvent' = TRUE
    /\ handled' = IF pdu.call \in expired THEN handled ELSE handled \cup {pdu.call}
    /\ Goto(Parser, "idle")
    /\ UNCHANGED <<cur, attempt, index, requestVars, smscVars, vResponseQueue, vResponseEvent,
                   vWaitingQueue, contextVars, resultVars, expired>>

(***************************************************************************)
(* The specification.                                                      *)
(***************************************************************************)
WaitStep(t) ==
    \/ Send(t)
    \/ FetchLock(t)
    \/ FetchFind(t)
    \/ FetchTake(t)
    \/ WaitLock(t)
    \/ WaitAdd(t)
    \/ Wake(t)
    \/ Expire(t)
    \/ SetTimedOut(t)

HandleStep ==
    \/ AddLock
    \/ AddResponse
    \/ ScanLock
    \/ Scan
    \/ CheckTimedOut
    \/ FetchLock(Parser)
    \/ FetchFind(Parser)
    \/ Discard
    \/ Release

\* All calls are made and over, and the parser has nothing left to handle.
Finished ==
    /\ issued = MaxCalls
    /\ \A p \in Procs : pc[p] = "idle"
    /\ UNCHANGED vars

Next ==
    \/ \E t \in Threads : NewRequest(t) \/ WaitStep(t)
    \/ HandleStep
    \/ \E c \in Calls : Receive(c)
    \/ Finished

\* A running thread is scheduled; nobody has to call, and the SMSC need not answer.
Fairness ==
    /\ \A t \in Threads : WF_vars(WaitStep(t))
    /\ WF_vars(HandleStep)

Spec == Init /\ [][Next]_vars
FairSpec == Spec /\ Fairness

(***************************************************************************)
(* Properties.  NoWrap says that the sequence numbers do not come round    *)
(* within the calls considered; the counter of the code does after 2^32-1. *)
(***************************************************************************)
NoWrap == MaxCalls <= MaxSeq

InResponseQueue(p) == pc[p] \in {"fetchFind", "fetchTake", "add"}

InWaitingQueue(p) ==
    \/ pc[p] \in {"waitAdd", "scan", "check", "release"}
    \/ p = Parser /\ pc[p] \in {"fetchLock", "fetchFind", "fetchTake"}

\* The two AutoResetEvents do lock: no two threads are ever inside the code that
\* reads or changes the same list (ResponseHandler.cs, WaitOne ... Set).
MutualExclusion ==
    \A p, q \in Procs : p # q =>
        /\ ~(InResponseQueue(p) /\ InResponseQueue(q))
        /\ ~(InWaitingQueue(p) /\ InWaitingQueue(q))

\* The threads never all wait for each other: as long as somebody is inside SendPdu or
\* Handle, somebody there can go on without a lock that another one holds (Handle takes one
\* event while it holds the other; a wait on vNotifyEvent ends by itself).
CanGoOn(p) ==
    /\ pc[p] # "idle"
    /\ pc[p] \in {"fetchLock", "addLock"} => vResponseEvent
    /\ pc[p] \in {"waitLock", "scanLock"} => vWaitingEvent

SomebodyGoesOn == (\E p \in Procs : pc[p] # "idle") => \E p \in Procs : CanGoOn(p)

\* WaitResponse never returns the response to somebody else's request, whatever the
\* order of responses, duplicates and time-outs.
OwnResponse == \A c \in Calls : outcome[c] = "answered" => reply[c] = c

\* A caller is never told "timed out" when Handle was through with its response before
\* the wait expired; in particular not when the response slipped in between the first
\* FetchResponse and the queueing of the context, where nobody is alerted.
HandedOverIsReturned == \A c \in handled : outcome[c] # "timedOut"

\* A caller that is woken finds its response: Handle adds it before it alerts, and takes
\* back only what a timed-out caller left.
AlertedHasResponse ==
    \A t \in Threads : pc[t] = "wait" /\ vNotifyEvent[cur[t]] =>
        \E i \in DOMAIN vResponseQueue : vResponseQueue[i].seq = seqNo[cur[t]]

\* With one response per request, none is left behind: whatever is queued while no Handle
\* is running belongs to a caller that will still fetch it.  A response that is late for
\* its caller is removed by Handle, even when the two race.
LateResponsesDiscarded ==
    pc[Parser] = "idle" =>
        \A i \in DOMAIN vResponseQueue : outcome[vResponseQueue[i].call] = "pending"

\* Also after the sequence numbers have come round: what FetchResponse returns carries the
\* number that was asked for.
ReplyCarriesNumber ==
    \A c \in Calls : outcome[c] = "answered" => seqNo[reply[c]] = seqNo[c]

\* Every SendPdu comes back, with a response or with a time-out: neither the locks nor a
\* lost alert can hang it.
CallsEnd == \A c \in Calls : outcome[c] = "pending" ~> outcome[c] # "pending"

\* The queues, locks and sequence numbers implement the call semantics of RequestReply.
Abstract == INSTANCE RequestReply WITH arrived <- {c \in Calls : answers[c] > 0}

ImplementsRequestReply == Abstract!Spec
=============================================================================
