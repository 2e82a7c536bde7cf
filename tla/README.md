# SMSWeb: models, checks and proofs

SMSWeb is a web application for sending and receiving text messages. A browser talks over
SignalR to an ASP.NET application written in F#, which keeps one SMPP connection per
browser, through a C# client library that is part of the repository. What is hard in it is
the library: several threads share a connection that may be lost at any time. This
directory holds TLA+ models of it, the TLC configurations that check them on small
instances, and proofs for instances of any size.

## 1. Inventory

| component | code | state | operations | what makes it correct |
|---|---|---|---|---|
| Response matching | `ResponseHandler.cs`, `PDUWaitContext.cs`, `PDUHeader.GetNextSequenceNumber`, `SmppClientSession.SendPdu` | two lists, two `AutoResetEvent`s used as locks, one event and flag per waiting caller, the counter | `SendPdu`/`WaitResponse` by any thread, `Handle` by the parser's | a caller gets the response to its own request, is not told "timed out" when the response was there, and comes back; late responses do not pile up |
| Client | `SmppClient.cs` | state, two sessions, started, timer, last exception, a monitor | `Start`, `Shutdown`, `Restart`, `ForceConnect`, the timer's callback, the `SessionClosed` handler | one opener at a time; Connecting and Connected mean what they say; a lost connection is made again; no session is forgotten; shut down means closed |
| Session | `SmppClientSession.cs` | state, `vIsAlive`, parts, enquire-link timer | `Bind`, `EndSession`, callbacks of parser, socket and timer | ends once, whoever ends it, and tells its subscribers once |
| TCP/IP session | `Networking/TcpIpSession.cs` | socket, `vIsAlive` | `Send`, `Receive`, `EndSession` | terminated once, under concurrent failures |
| Parser thread | `StreamParser.cs`, `Util/RunningComponent.cs` | running, stop flag | `Start`, `Stop`, read loop | PDUs are framed by their length; it stops when told to |
| PduProcessor | `Util/PduProcessor.cs` | queue and event | `ProcessPdu`, `RunNow` | an item is taken once; unused in the repository |
| ByteBuffer | `Util/ByteBuffer.cs` | array, start, end | append, read, remove | is a sequence of bytes |
| Messages | `SmppConnection.fs`, `Udh.cs`, `TextMessage.cs` | reference counter | `SplitParts`, `GetNextRef`, `Udh` | parts put together give the message; as many parts as announced |
| Hub | `Hubs/OutboundHub.fs` | static map connection id to `SmppConnection` | `SetMode`, `SendMessage`, `OnDisconnected` | no entry lost, none left undisposed |
| Browser services | `services/*.ts` | notifications, inbox | SignalR callbacks, HTTP answers | notices reach the message they are about, in any order |
| Login | `AuthenticationService.fs`, `CredentialsCache.fs` | cookie, cache entry | login, look-up | credentials of whoever is logged in |

How they interact: the hub makes an `SmppConnection`, whose constructor starts an
`SmppClient`. The client's timer opens a session (`SmppClientSession.Bind`), which opens a
`TcpIpSession`, starts a `StreamParser` on a thread of its own and sends the bind request.
From then on requests go out on the threads that call `SendPdu`; whatever comes in is read
by the parser, which gives responses to the session's `ResponseHandler` and requests to
the thread pool. A failure on any thread ends the session, whose `SessionClosed` event is
delivered by the pool to the client, which closes what is left and starts its timer.
`OnDisconnected` of the hub disposes the connection, on yet another thread.

The behaviours that are hard to test, each at its line, are the "hazards" of
`PROJECT.json`.

## 2. Modules

| module | stands for |
|---|---|
| `RequestReply` | what response matching promises: calls that are answered or time out, nothing else |
| `ResponseHandler` | response matching in detail, one action per step between two blocking or racing accesses |
| `MCResponseHandler` | its instances for TLC |
| `SequenceLemmas` | facts about `SelectInSeq`, `RemoveAt`, `Append`, `Min`, remainders and sums that the proofs cite |
| `ResponseHandlerProofs` | proofs: types, locks, numbers, own responses |
| `ResponseHandlerInTime` | proofs: time-outs, alerts, late responses, and the refinement of `RequestReply` |
| `SmppClient` | the client's connection: open, close, reconnect |
| `SmppClientCalm` | the same client in an environment in which opening and losing do not overlap |
| `MCSmppClient` | the instances of both for TLC |
| `SmppClientProofs` | proofs about the client's monitor, types and states, and its sessions in the calm environment |
| `SessionLife` | what a session promises, and the client relies on: it lives, ends and tells once |
| `TcpIpSession` | the connection: send, receive, end, and their failures, as steps of the calling thread |
| `SmppSession` | `SmppClientSession`, `StreamParser` and `RunningComponent` on that connection (extends `TcpIpSession`) |
| `MCSmppSession` | its instances for TLC |
| `SmppSessionProofs` | proofs: types, one shutdown, the parts, what is told, the refinement of `SessionLife` |
| `ByteSequence` | what a buffer promises: a sequence of bytes |
| `ByteBuffer` | the array behind it |
| `MCByteBuffer` | its instance for TLC |
| `ByteBufferProofs` | proofs: types, `Find`, and the refinement of `ByteSequence` |
| `SmppConnection` | the server's end of a browser: parts of long messages, their references, sending |
| `OutboundHub` | the static map of connections and the hub's three operations (extends `SmppConnection`) |
| `MCOutboundHub` | its instance for TLC |
| `OutboundHubProofs` | proofs: types, what leaves the map, references and parts |
| `OutboundService` | notices about sent messages, in the browser |
| `InboxService` | the inbox in the browser |
| `Browser` | a page: both services side by side |
| `MCBrowser` | its instance for TLC |
| `BrowserProofs` | proofs: types, notices, the inbox |

`SmppSession` composes the connection with the session and the parser, `OutboundHub` the
map with the connections in it, `Browser` the two services. `RequestReply` is implemented
by `ResponseHandler`, `SessionLife` by `SmppSession`, `ByteSequence` by `ByteBuffer`. A
layer is modelled on what the one below promises: `SmppClient` sees of a session what
`SessionLife` allows, `SmppSession` sees of response matching that a request is answered
or times out (`RequestReply`), `OutboundHub` sees of the client that it connects and
closes, and the browser sees of the server that parts are sent one by one and that
receipts may overtake the answer.

### ResponseHandler

A process is a thread that calls `SendPdu`, or the parser's. `pc` says what it executes
next:

| code | labels and actions |
|---|---|
| `SendPdu`: the PDU takes a number, is sent | `idle` `NewRequest`, `send` `Send` |
| `FetchResponse`: `WaitOne`, search, `RemoveAt` and `Set` | `fetchLock` `FetchLock`, `fetchFind` `FetchFind`, `fetchTake` `FetchTake` (callers) or `Discard` (parser) |
| `WaitResponse`: queue the context | `waitLock` `WaitLock`, `waitAdd` `WaitAdd` |
| `WaitForAlert`: `WaitOne` returns true or false; store the result | `wait` `Wake` or `Expire`, `timedOut` `SetTimedOut` |
| `Handle`: `AddResponse` | `Receive`, `addLock` `AddLock`, `add` `AddResponse` |
| `Handle`: lock, search, remove and alert, look at `TimedOut`, release | `scanLock` `ScanLock`, `scan` `Scan`, `check` `CheckTimedOut`, `release` `Release` |

An event used as a lock is a Boolean, TRUE when set. A call is named by its place in the
order in which calls take their numbers; a response carries its number, and the call it
answers as a history field no guard looks at. `expired` and `handled` are history too:
they record which came first, the end of a wait or the end of `Handle`.

The SMSC is the environment: it may answer any request that reached it, in any order, as
often as `MaxAnswers`, or never. A send may fail, which the code does not notice.
`Expire` and `SetTimedOut` are two steps, because `WaitOne` returns before its result is
stored and `Handle` reads the field in between. The second field of the time-out (the
shortest one is five seconds) is left out: a wait may expire at any moment.

Left out: the end of the session. When `DisassembleComponents` sets the handler to null, a
call that has not begun to wait gets an exception; one that waits keeps its handler, and
waits for its time-out, like any call whose response never comes.

### SmppClient

The processes are application threads and threads of the pool. Every access to a field
that another thread may change in between is a step of its own. The calls:

| code | actions |
|---|---|
| `Open` | `TryEnter`, `Enter`, `Waited`, `Check`, `Exit` |
| `OpenSession`, one connection | `Connecting`, `BindBoth`, `SetRecv`, `SubscribeBoth`, `Connected`, `SmscId` |
| `OpenSession`, two connections | `Connecting`, `BindRecv`, `SubscribeRecv`, `BindTrans`, `SubscribeTrans`, `DropRecv`, `RecvDropped`, `ClearDropped`, `Connected`, `SmscId` |
| its catch blocks | `Failed`, `Rearm` |
| an ending cut short by an exception | `CutShort` (by the client), `Abandoned` (after a loss) |
| `CloseSession` | `Close`, `SetClosed`, `EndTrans`, `TransEnding`, `EndRecv`, `RecvEnding`, `ClearTrans`, `ClearRecv` |
| `Start`, `Shutdown`, `Restart`, `ForceConnect` | `Start`, `StartTimer`, `Shutdown`, `ShutTimer`, `ForceConnect`; Restart is Shutdown by a thread in `restarting`, then Start |
| timer callback | `TimerFires`, `Timer`, `TimerStop`, then `Open`, then `After`, `TimerChange` |
| `SessionClosed` handler | `SessionClosed`, `HandlerTimer`, then `CloseSession` |

`BindBoth` includes the answer ESME_RINVCMDID, on which `OpenSession` calls itself for two
connections. `SmscId` is the dereference of `vTrans` in `ChangeState`, after the state has
been set: it throws when `CloseSession` has cleared the field meanwhile.

A session is what the client sees of it. `Bound` makes one that is alive; `EndSession`
(by the client) or `Lose` (the peer, the network, an unanswered enquire-link) makes it not
alive; ending takes time, and then the event is raised, if anybody has subscribed by then.
That it is raised at most once is assumed here and proved of `SmppSession` (`LivesOnce`). It
need not be raised at all: shutting down the socket of a broken connection may throw, which
cuts the ending short before it tells anybody (`GiveUp` in `SessionLife`). Here that is
`Abandoned`, for a session that was lost, and `CutShort`, for one that the client ends: then
`CloseSession` stops where it is, so that `vTrans` and `vRecv` keep their sessions, the second
one is not ended, and a Restart does not come to its Start. The names of sessions that nothing
refers to are used again, so that a run may open any number.

Left out: `vTrans != null` and `vTrans.EndSession()` are one step, so that the
NullReferenceException of two closers at once does not appear; `Dispose` is `Shutdown`
(the disposal of the timer, and a `Change` after it, are not modelled); an
`AutoReconnectDelay` that is not positive, with which the client never connects by itself;
handlers of `ConnectionStateChanged` that call back into the client.

### TcpIpSession and SmppSession

A process is a user's thread, a thread of the pool or the parser's. `pc` says what it
executes next, and `task` what for: binding, a call, an enquire-link (`elapsed`), an event
it was given, or ending the session. Calls of the connection are written once, in
`TcpIpSession`; the labels at which a caller goes on are their parameters.

| code | actions |
|---|---|
| `TcpIpSession.CheckSession`, `Send` | `CheckSession`, `SendSocket` |
| `Receive`: check, blocking call, no bytes | `CheckSession`, `ReceiveSocket`, `ReceiveEnds`, `ReceiveZero`, `ZeroStep` |
| `HandleException` with `TerminateSession` | `HandleException`, `Shutdown`, `Close` (`TerminateStep`) |
| `EndSession` with `TerminateSession` inside its lock | `TcpEnd`, `TcpShut`, `TcpClose` |
| the peer finishes, the network breaks | `PeerFinishes`, `Breaks` |
| `Bind`: connect and assemble, subscribe, send, wait, mark alive and start the timer, `ChangeState` | `Bind`, `BindSession`, `SendStep`, `WaitResponse`, `Answered`, `MarkAlive`, `SetBound` |
| `SendPdu` | `Call`, `CheckState`, `SendStep`, `WaitResponse`, `Answered` or `TimesOut` |
| `EndSession`: test and mark; unbind; `DestroyTcpIpSession`, `DisassembleComponents`; timer and event | `EndSession`; `SendStep` to `TimesOut`; `DestroyTcpIpSession`, `TcpEndStep`, `Disassemble`; `Tell` (`DestroyTimer`, `RaiseSessionClosedEvent`) |
| `TimerCallback` | `Elapsed`, then as `SendPdu`, then `EndSession` if it timed out |
| handlers of the parser's and the connection's events | `Deliver` |
| `RunningComponent.Start`, its loop, `Stop` | `ParserStarts`, `Cycle`, `Disassemble` |
| `StreamParser.RunNow`, `WaitBytes`, `HandleException` | `ReceiveStep`, `Receive`, `RaiseParserException` |

Simplifications. The partial receives of header and body are one PDU. The fields that
`DisassembleComponents` clears one after the other are cleared in one step: whoever finds
one of them null finds the connection ended, too, and fares the same. The null test of
`vTrans` is merged with the check of the connection for the same reason. A job `request`
stands for any PDU that makes a pool thread answer. The state `dead` of the parser's thread
is an exception that nothing catches, which in .NET ends the process. Failing to connect
is a `Bind` that throws before anything has been assembled, and is left out.

### ByteBuffer

One action per operation, with the exceptions as actions of their own (`AppendFails`,
`RemoveFails`): `Array.Copy` throws after the array has been reallocated, so that a failed
append is not a step that changes nothing. `asked` is a history of what the last call asked
for, `returned` what it returned: with both, `ByteSequence` has one outcome for each call, and
says that an append adds just the bytes it was given and that a call which throws adds and
removes none. `Clone` and `DumpString` are left out, and a `Capacity` below 1, which nothing sets.

### SmppConnection and OutboundHub

| code | actions |
|---|---|
| `SetMode`: get the credentials; make the connection, read the map, replace it | `SetMode`, `CreateSMPPConnection`, `Add`, `AddWrite` |
| `OnDisconnected`: `ContainsKey`, look up, `Dispose`, read the map, replace it | `OnDisconnected`, `ContainsKey`, `LookUp`, `Dispose`, `RemoveRead`, `RemoveWrite` |
| `SendMessage`: `tryFind`, `someIf`, the parts, sending them | `SendMessage`, `Find`, `Check`, `GetMessageParts`, `SendPart`, `SendEnds` |
| the client | `ClientConnects`, `ClientCloses` |

The map is immutable and replaced without a lock, hence read and written in two steps. A
browser's entry is always the connection made for it, so that the map is a set of names.
`spoilt` records the browsers whose entry a write of another browser's thread has lost or
brought back, and `late` those that were gone before their `SetMode` was done, be it that it
was still waiting for the credentials: both happen in the code, and the properties say what
holds apart from them. `ClientConnects` and `ClientCloses` are one-step stand-ins for
`SmppClient`, not translations of it. Of a message only the
length counts. The remainder of the counter is that of .NET, negative for a negative
number, and the cast to a byte follows. `UpdateStatus`, which only passes on what the
client says, is left out; a page calls `SetMode` once, as the scripts do.

### OutboundService, InboxService, Browser

| code | actions |
|---|---|
| `sendMessage`: the call, on the server, its answer | `SendMessage`, `SendPart`, `SendFails`, `Response` |
| `messageDelivered` | `MessageDelivered` |
| `addNotification`, `removeNotification`, `removeAll` | `AddNotification` (in the two above), `RemoveNotification`, `RemoveAll` |
| `getMessages`: the request, its answer, its failure | `GetMessages`, `Loaded`, `LoadFails` |
| `messageReceived` | `MessageReceived` |

Each id has two texts, given by constants about which nothing is assumed: `AnswerText` in the
answer to `sendMessage`, and `ReceiptText` in its receipts. `sendMessage` reads the first as a
hexadecimal number (`ParseInt`), which drops leading zeros, ends at the first other character,
gives NaN if there is no digit, and is rounded above 2^53 (`Exact`, `Rounded`). Which notice a
receipt is about is found by `indexOf`, which depends on the types: the decimal text of a number
is looked for in a text, so that 1 is found in 12 and NaN nowhere (`Inside`); of a text it is
the single characters that are looked for in another text (`Alike`); and a number among numbers
is itself (`Same`). So receipts do reach the wrong notice, or none, and the model has it.
`LastReceiptShown` says which messages are safe from that: those that can be told apart from all
others (`ToldApart`: each of their receipts contains one of their numbers, and none of their ids
is taken for another one) and were answered while no receipt was on show as a notice of its own.
It says nothing of the others, nor of what a stray receipt goes on to show. `expected` is a
history of what each notice should show. Left out: whether the panel is open, the pop-ups,
and `messageSent`, which the server never raises for the messages of a browser.

## 3. Runs

| run | instance | shows |
|---|---|---|
| `response_once` | 2 callers, 3 calls, 3 numbers, 1 answer each, symmetric | `LateResponsesDiscarded` and `SomebodyGoesOn`, with one response per request as the protocol has it |
| `response_wrap` | 2 callers, 3 calls, 2 numbers, 1 answer each | `TypeOK`, `MutualExclusion`, `ReplyCarriesNumber`, `CallsEnd`, while numbers are used again |
| `response_refines` | 2 callers, 2 calls, 2 numbers, up to 2 answers each | `OwnResponse`, `HandedOverIsReturned`, `AlertedHasResponse`, `ImplementsRequestReply` |
| `client_races` | 1 user, three calls of any operation, 2 pool threads, 1 session at a time | `TypeOK`, `ConnectingIsOpening`, with every race of open, close, loss and timer, and endings cut short |
| `client_calm` | 2 users, 2 calls of Start and ForceConnect, 2 pool threads, 3 sessions, one or two connections | `ConnectedIsUsable`, `NoOrphans`, `StartedIsArmed`, `Recovers`, `OpenReturns` |
| `client_loss` | 1 user, Start | finds that `Reconnects` fails |
| `client_shutdown` | 1 user, Start and Shutdown | finds that `ShutdownCloses` fails |
| `session_life` | 1 user, 1 pool thread, the parser; a socket's Shutdown may throw | `TypeOK`, `TerminatedOnce`, `AliveHasParts`, `ToldIsDown`, `ImplementsSessionLife`, `LostEnds`, `ParserStops` |
| `session_dies` | the same | finds that `ExceptionsAreRaised` fails |
| `bytebuffer` | bytes 0 and 1, appends of up to 2 bytes to arrays of up to 5 | `TypeOK`, `FindIsFirst`, `ImplementsByteSequence` |
| `browser` | 2 messages of up to 2 parts, 4 ids, 2 receipts, 1 inbound message, symmetric | `TypeOK`, `LastReceiptShown`, `NothingVanishes` |
| `hub` | 2 browsers, 2 threads, long messages of lengths around the limits (one browser sends four, the other one), 4 values of a byte, an int limit of 4 | `TypeOK`, `PartsAsAnnounced`, `RefsDiffer`, `DisposedIsRemoved`, `LeftIsDisposed`, `GoneIsDisposed` |

Bounds. Three calls are the fewest with which a late response, its late caller and a third
caller meet in the queues; with two numbers for three calls a stale context and a new
caller share a number. Two answers per request give duplicates. Two
threads of the pool are the fewest with which a callback and a handler overlap, and with a
user as a third process each pair of the client's operations does; three calls are enough
for a Start, a Shutdown or Restart, and something after it. With one session at a time, in
`client_races`, the second of two connections is seldom bound: that happens in
`client_calm`, where two sessions are what two connections need, and a third is there
while an old one is still being ended. In `client_races` a session whose ending was cut short
keeps the only name for as long as a field refers to it, so that no later bind succeeds.

A session is bound once, so that `SmppSession` needs no bound but its threads: with a user,
a thread of the pool and the parser, each two of a sender, the receiver and whoever ends
the session meet (the safety properties were also checked with two threads of the pool,
5.2 million states). A buffer of five bytes is reallocated more than once, with and
without removed bytes in front, by increments below, at and above a capacity of 1 or 2. In
`browser`, two messages of two parts and two receipts give every order of answers and
receipts, one that is early or stray, and a second receipt for one part; of the four ids one
has a leading zero and occurs inside another, which is not hexadecimal, one is rounded to the
value of the first, and one can be told apart from all others. In `hub`, messages of
`SingleLength`, one more, and a multiple of `PartLength` are the boundaries: a short last part
and an exact multiple both have headers, as three parts are fewer than the four values of a
byte. Four references come round, a fifth, which two sends that overlap can make, is the second
with a negative counter, since the int limit is 4; two threads are enough for each lost update of the map. The proofs of
section 4 have no such bounds.

Fairness. `ResponseHandler` assumes weak fairness of every thread that has begun a call
and of the parser once it has begun `Handle`: running threads are scheduled. Nobody has to
call and the SMSC need not answer. A wait has a time-out, hence `Expire` is among the steps
that a thread must take. The locks are free infinitely often, and only finitely many
responses arrive, so that no stronger fairness is needed. `SmppClient` assumes weak
fairness of every thread inside the client and of the session that has been lost and has
yet to tell; and strong fairness of the pool, for the timer and for the delivery of
events, because a pool thread may be busy whenever there is something to run. Calls and
losses are free. `CalmSpec` adds that the SMSC accepts a bind sooner or later (`Accepts`).
`SmppSession` assumes weak fairness of each thread that has begun and of the parser, and
strong fairness of the pool: for the delivery of some event it has been given, and for the
timer's callback as long as the timer runs. The timer repeats, and nobody else stops it,
which is what makes `LostEnds` hold for a connection that ends without an event. The peer
need not answer, finish or break anything. `OutboundHub` assumes weak fairness of each
thread of the server. The buffer and the browser have no liveness property.

The calm environment. `Recovers`, `ConnectedIsUsable`, `NoOrphans` and `StartedIsArmed` do not
hold in general (the last because of 3 and 4). TLC found each of these ways, all of them
possible in the code:

1. a session lost between Bind and the subscription to its event: Connected for ever
   (run `client_loss`);
2. Shutdown between the callback's check and its Open: connected after the shutdown
   (run `client_shutdown`);
3. the callback reads `vState` just before a loss is handled, and stops the timer just
   after the handler has started it: Closed for ever;
4. the callback waited for another thread's Open, sees `vState` of the next one, and stops
   the timer just after that one has failed and started it: Closed for ever;
5. the event of a session the client ended itself (Restart, a failed second bind) arrives
   when the next session is being opened or is open: that one is closed, or forgotten;
6. CloseSession waits for an unbind while the timer reconnects, and then clears the
   fields of the new session;
7. a handler clears `vTrans` while ChangeState(Connected) reads it: with two connections
   the state stays Connected;
8. the ending of a session is cut short by an exception, so that nobody is told: Connected
   with a dead session for ever (run `client_loss`, which may show this one or the first).

`SmppClientCalm` therefore states them for an environment in which opening and losing do not
overlap and no ending is cut short, which is the ordinary life of the client (and in which
nobody shuts it down); what
remains interleaved there is two users' Opens, the steps of one loss, both of two sessions'
losses, and a failing second bind. The two violations that contradict what the code says of itself are findings; the
others are hazards.

## 4. Proofs

`ResponseHandlerProofs` and `ResponseHandlerInTime` prove, for every set of threads and
every value of `MaxCalls`, `MaxSeq` and `MaxAnswers`:

| theorem | states |
|---|---|
| `LocksExclude` | `Spec => []MutualExclusion` |
| `NobodyHangs` | `Spec => []SomebodyGoesOn` |
| `TypeCorrect` | `Spec => []TypeOK` |
| `NumbersMatch` | `Spec => []ReplyCarriesNumber` |
| `CallersGetTheirOwn` | `NoWrap` implies `Spec => []OwnResponse` |
| `HandedOverReturned` | `NoWrap` implies `Spec => []HandedOverIsReturned` |
| `AlertedFinds` | `NoWrap` implies `Spec => []AlertedHasResponse` |
| `LateAreDiscarded` | `NoWrap` and `MaxAnswers = 1` imply `Spec => []LateResponsesDiscarded` |
| `RefinesRequestReply` | `NoWrap` implies that `Spec` implements the initial predicate and next-state relation of `RequestReply` |

`NoWrap` (`MaxCalls <= MaxSeq`) says that the numbers do not come round. In the code they
do after 2^32 - 1 requests; beyond that the last five properties are false (a duplicate
that was never fetched answers a new request with its number), and `NumbersMatch` is what
is left of them.

The argument. `TypeOK` alone is not inductive: that `RemoveAt` gets a position that still
exists depends on nobody else touching the list since it was found. So the invariant is
built up in parts, each of which needs the ones before it. `Locks` says who is inside which
lock, and that a free lock has nobody inside. `CurrentCalls` says that threads work on
different, pending calls. `Numbers` says that every response and every call carries the
number its call was given. `Positions` says that a position once found points at a response
with the wanted number for as long as the lock is held. Together they are inductive and
give `LocksExclude`, `TypeCorrect` and `NumbersMatch`. `NobodyHangs` needs the converse of
`Locks` as well, that an event which is not set has somebody inside (`Held`): otherwise the
last one out might have left it unset. Since only `Handle` ever asks for one event while it
holds the other, whoever holds the last one can go on.

With `NoWrap` the numbers of different calls differ (`Distinct`), so that a number identifies a call. `InTime` then follows the one race that
matters: `Kept` says where the response of a call in `handled` is, until its caller has
it, and `ParserKnows` and `CallersKnow` say what the parser and the caller have seen of
each other at each label. `Single` and `GaveUp` are about what happens afterwards, for one
response to each request: a response whose caller has given up is in the queue only while
`Handle` is on its way to take it back, because the caller's context was waiting until
`Handle` saw it and `vTimedOut` is set before the caller's last search. With duplicates
that is false, and the queue grows. The refinement is a case for each action, in which the
invariant supplies the guards of the abstract action.

`SmppClientProofs` proves, for every set of users and pool threads, every bound and every
mix of operations, `ConnectingIsSomebodys` (`Spec => []ConnectingIsOpening`) and
`ClientTypeCorrect` (`Spec => []TypeOK`). Their invariant adds that the monitor is held by
exactly the thread whose label lies inside Open (`Owner`), and that while the state is
Connecting that thread is where its steps can still change it (`OwnerIsBusy`).

In the calm environment, for as many users, pool threads, calls and sessions, it proves
`CalmConnectedIsUsable` (`CalmSpec => []ConnectedIsUsable`) and `CalmLeavesNoOrphans`
(`CalmSpec => []NoOrphans`). Both properties speak only of the moments in which nothing is
going on, so that the invariant (`CalmInv`) must say what each thread has made of the
fields and the sessions at each label on the way there: `Opener` for OpenSession, with the
sessions that are alive at each of its labels; `Closer` for CloseSession, several of which
may run at once. `Quiet` is what the environment gives: while an Open may still succeed,
no end of a session is being dealt with, because a loss needs that nobody opens, and an
Open begins only when nothing is being lost. An Open that gives up a first session whose
second bind has failed (`RecvDropped`) does start a handler beside itself, and from there
on it is in no state to succeed; the handler then finds no session alive. What is left
between the steps is `ConnectedIsBound` and `ClosedIsEnding`: a client that is Connected
knows every session that is alive, and if one that is Closed has any, a thread is about to
end it.

`ConnectedIsUsable` asks more than that the client knows its sessions: the one to send with must
be alive. Its invariant (`ServedInv`, on top of `CalmInv`) says that whenever the client is
Connected and `vTrans` is not alive, somebody is on the way to close it (`Told`): the session is
about to raise its event and the client has subscribed, or the event is on its way, or a handler
is. That the client has subscribed before it says Connected is `Ready`; the subscription is
not lost to a later session with the same name, because a name is free only when no field and no
event refers to it.

`CalmStartedIsArmed` (`CalmSpec => []StartedIsArmed`) is the safety core of `Recovers`: a
client that is started and closed, with nothing going on, has its timer armed, so that it
will try again. Its invariant (`TimerInv`, on top of `CalmInv`) follows the one thing that
stops the timer, its own callback. The callback runs alone (`Alone`), stops the timer for
good only when it has seen the client Connected (`StoppedWhenConnected`), and nothing is
being lost while it has (`Undisturbed`); a handler arms the timer before it closes
(`ArmedBefore`), unless the client ended the session itself, which it does only while it is
not Connected (`OwnEnds`). `Armed` then says at every step who is about to arm the timer.

`SmppSessionProofs` proves, for any users and pool threads:

| theorem | states |
|---|---|
| `SessionTypes` | `Spec => []TypeOK`, with it that a session ends and tells at most once |
| `ShutDownOnce` | `Spec => []TerminatedOnce` |
| `PartsOutliveTheSession` | `Spec => []AliveHasParts` |
| `ToldWhenDown` | `Spec => []ToldIsDown` |
| `LivesOnce` | `Spec` implements the initial predicate and next-state relation of `SessionLife` |

All five follow from one invariant, `IInv`, because none of them is inductive: that parts
are there when they are used depends on who may take them apart, and that on how many
threads are binding, ending and shutting down. `Labels` says which task may be at which
label. `Fresh` says that before `Bind` there is nothing; `Binding` that one thread binds,
and what it has made so far; `Ending` that one thread ends, and what is left at each of its
labels and after it has told; `Connection` that one thread shuts the connection down, and in
which state the socket is then; `Down` that a connection which is not alive is closed, or
somebody is about to close it. The proof has a case per
action, and under it a step per part that the action touches.

`ByteBufferProofs` proves `ByteBufferTypes` (`Spec => []TypeOK`), `RefinesByteSequence`
(`Spec => ImplementsByteSequence`) and `FindsTheFirst` (`Spec => []FindIsFirst`) for any
bytes, inputs and capacities. The invariant is
`TypeOK`, whose `vLength <= vNextPosition <= Len(vArrayBuffer)` is what each copy needs;
the work is in the lemmas about `Copy`, `Growth` and `Realocated`.

`OutboundHubProofs` proves `DisposedLeaveTheMap` (`Spec => []DisposedIsRemoved`) for any
browsers and threads. A write puts back whatever its thread has read, so the invariant must
exclude that an entry is added after its connection has been disposed of: `OneAdds` says
that one thread adds a browser's entry, and `AddedFirst` that until it has done so no map,
current or held by a thread, has the entry, and nobody who looked for it has found it.

`NoneIsLeftBehind` (`Spec => []LeftIsDisposed`) is the other direction: when `OnDisconnected`
has returned, the connection has been disposed of, apart from the two ways in which the code
loses it (`late`, `spoilt`). It needs that a connection which runs is in the map, or on its way
there (`Entered`), and that only one that has been disposed of is removed
(`RemovedIsDisposed`). That `OnDisconnected` comes to its end is `GoneIsDisposed`, and stays
with TLC.

The same module proves what a receiver of long messages relies on, for any lengths of
messages and parts, any number of messages, and any size of a byte and of an int (that the
first divides the second is the assumption):

| theorem | states |
|---|---|
| `HubTypes` | `Spec => []TypeOK` |
| `PartsAreAnnounced` | `Spec => []PartsAsAnnounced` |
| `ReferencesDiffer` | `Spec => []RefsDiffer` |

`PartsAsAnnounced` compares what is sent with a recursive definition, `SplitParts`. Its
value is proved to be a closed form, all parts but the last being full: the closed form
satisfies the recursion, and two functions that do cannot differ, since at the smallest
place where they did they would agree on what the recursion refers to. The sum of the parts
follows in the same way (`SumOfAllButLast`), and `PartsInv` says that what a thread on its
way through a message has sent, followed by what it has left, are the parts of the message.
`RefsDiffer` is about remainders: the counter grows by one with each long message and its
reference is the remainder by 256, so that two messages of a connection have the same
reference only if they are 256 apart (`RemaindersDiffer`). `RefInv` says that the counter
and the references given so far belong together, also where the int has overflowed and the
remainder is that of a negative number.

`BrowserProofs` proves `LastReceiptIsShown` (`Spec => []LastReceiptShown`) and
`InboxKeepsMessages` (`Spec => NothingVanishes`), for any messages, receipts, ids and texts of
ids. For the first, `addNotification` takes the first match, so the invariant says that the
notice of a message that can be told apart stands before every notice that a stray receipt
brought (`Shown`), that ids of different messages differ (`IdsAreUnique`), and that a notice
with numbers is that of a message answered before (`NoticesAreAnswers`). A message that can be
told apart now could be before, because ids are only added; that is why the condition may speak
of the ids given so far.
`BrowserTypes` (`Spec => []TypeOK`) needs that a message that is being sent has parts to go
(`PartsToGo`), and that the ids of a notice are of the kind that its type says.

Assumptions on the constants are stated in the modules that declare them and evaluated by
TLC on every run. That `MaxParts` and `MaxReceipts` are natural numbers (`PartsAssumption`) is
the only one that was added for a proof.

What only TLC checks: all liveness (`CallsEnd`, `Recovers`, `OpenReturns`, `LostEnds`,
`ParserStops`, `GoneIsDisposed`, the fairness parts of `ImplementsRequestReply` and
`ImplementsSessionLife`), which is out of the prover's reach. Every invariant that a run
checks is also a theorem; those of the response queues and of the notices under the
conditions given above, and those of the client's sessions in the calm environment, as in
the run.

## 5. Not modelled, and why

- The codecs of PDUs and TLVs (`Protocol/`): sequential, one assignment a field, and
  covered by what a test of each class would say. `Udh.Parse` and `TextMessage.GetPDUs`
  are not used to send from the application.
- `PduProcessor`: no class of the repository derives from it.
- Login and credentials: a cookie and an entry in Redis, whose expiry and sharing are
  decided by ASP.NET and Redis.
- Controllers, models, start-up, routing and forms: configuration and pass-through, one
  request in and one response out.
- Of the client: the disposal of its timer, an `AutoReconnectDelay` that is not positive,
  the sending and receiving of messages, which change no field of it.
- Of the connection: failing to connect, and the options of the socket.
- Memory: that unanswered contexts stay in the queues of a session is seen in the models,
  and no property forbids it.
- Everything vendored: jQuery, Angular, SignalR, Bootstrap and type declarations. They are
  nearly all of the repository's JavaScript and TypeScript; the program's own logic is in C#
  and F#, with three small TypeScript services that are modelled.
