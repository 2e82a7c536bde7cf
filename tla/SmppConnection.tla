--------------------------- MODULE SmppConnection ---------------------------
(***************************************************************************)
(* The server's end of a browser (SmppConnection.fs): an SMPP client, and  *)
(* the counter from which the parts of a long message get the reference    *)
(* that holds them together.                                               *)
(*                                                                         *)
(* The threads are those of the server.  Of a message only its length      *)
(* matters, and of the client only whether it is connected: how it gets    *)
(* there, and that it may do so even when it has been shut down, is the    *)
(* business of SmppClient.                                                 *)
(***************************************************************************)
EXTENDS Integers, Sequences, SequencesExt

CONSTANTS
    Browsers,
    Threads,
    Nobody,         \* what an idle thread works for
    Lengths,        \* the lengths of the messages that are sent
    SingleLength,   \* 160: the longest message that goes out as it is
    PartLength,     \* 153: what fits into a part, with its header
    Bytes,          \* 256: the values of a byte
    IntLimit,       \* 2^31: the first number too large for an int
    MaxMessages     \* bound: a browser sends no message after so many long ones

ASSUME ConnectionAssumption ==
    /\ Nobody \notin Browsers
    /\ Lengths \subseteq Nat \ {0}
    /\ PartLength \in Nat \ {0}
    /\ SingleLength \in Nat /\ PartLength <= SingleLength
    /\ Bytes \in Nat \ {0, 1}
    /\ IntLimit \in Nat \ {0} /\ IntLimit % Bytes = 0
    /\ MaxMessages \in [Browsers -> Nat]

VARIABLES
    pc,         \* what each thread executes next
    browser,    \* the browser whose call it handles
    client,     \* per browser: "none", or the state of its SmppClient
    nextRef,    \* SmppConnection.nextRef
    length,     \* per thread: the length of its message
    parts,      \* the parts of it that are still to be sent
    sent,       \* and those that have been
    refs        \* history: the references given out, as they appear in the headers

threadVars == <<pc, browser>>
messageVars == <<length, parts, sent>>
connectionVars == <<client, nextRef, refs, messageVars>>

NoHeader == [ref |-> 0, count |-> 0, part |-> 0]
Header == [ref : 0..(Bytes - 1), count : 0..(Bytes - 1), part : 0..(Bytes - 1)]
Part == [header : Header, size : 1..SingleLength]

ConnectionTypeOK ==
    /\ client \in [Browsers -> {"none", "closed", "connected", "disposed"}]
    /\ nextRef \in [Browsers -> (-IntLimit)..(IntLimit - 1)]
    /\ length \in [Threads -> Lengths \cup {0}]
    /\ parts \in [Threads -> Seq(Part)]
    /\ sent \in [Threads -> Seq(Part)]
    /\ refs \in [Browsers -> Seq(0..(Bytes - 1))]

ConnectionInit ==
    /\ client = [b \in Browsers |-> "none"]
    /\ nextRef = [b \in Browsers |-> 0]
    /\ length = [t \in Threads |-> 0]
    /\ parts = [t \in Threads |-> <<>>]
    /\ sent = [t \in Threads |-> <<>>]
    /\ refs = [b \in Browsers |-> <<>>]

Step(t, from, to) ==
    /\ pc[t] = from
    /\ pc' = [pc EXCEPT ![t] = to]
    /\ browser' = IF to = "idle" THEN [browser EXCEPT ![t] = Nobody] ELSE browser

(***************************************************************************)
(* The parts of a message.                                                 *)
(***************************************************************************)

\* Mutant: the length divided by 153, without Math.Ceiling.
NumPartsDown(n) == n \div PartLength

\* Math.Ceiling of the length divided by 153.
NumParts(n) == (n + PartLength - 1) \div PartLength

\* The sizes of the parts: as much as fits, and then the parts of the rest.
SplitParts(n) ==
    LET split[rest \in 0..n] ==
            LET segment == Min({rest, PartLength})
            IN  IF rest = 0 THEN <<>> ELSE <<segment>> \o split[rest - segment]
    IN  split[n]

\* The cast to byte in Udh.GetBytes.
Byte(n) == n % Bytes

\* The remainder of a negative number is negative in .NET.
Remainder(n, m) == IF n >= 0 THEN n % m ELSE -((-n) % m)

\* Mutant: a negative reference is avoided by taking the absolute value.
ReferenceOfAbs(n) == Byte(Remainder(IF n >= 0 THEN n ELSE -n, Bytes))

\* Mutant: the header is given the remainder as it is.
ReferenceUncast(n) == Remainder(n, Bytes)

Reference(n) == Byte(Remainder(n, Bytes))

Incremented(n) == IF n + 1 = IntLimit THEN -IntLimit ELSE n + 1

MessageParts(n, ref) ==
    IF n <= SingleLength THEN <<[header |-> NoHeader, size |-> n]>>
    ELSE LET sizes == SplitParts(n)
         IN  [i \in 1..Len(sizes) |->
                 [header |-> [ref |-> ref, count |-> Byte(NumParts(n)), part |-> Byte(i)],
                  size |-> sizes[i]]]

(***************************************************************************)
(* Sending.                                                                *)
(***************************************************************************)

\* GetMessageParts, with its GetNextRef, happens when SendMessage is called; the parts go
\* out one by one afterwards, when the answer is put together.
GetMessageParts(t) ==
    LET b == browser[t]
        ref == Incremented(nextRef[b])
    IN  /\ Step(t, "parts", "sendPart")
        /\ parts' = [parts EXCEPT ![t] = MessageParts(length[t], Reference(ref))]
        /\ IF length[t] <= SingleLength
           THEN UNCHANGED <<nextRef, refs>>
           ELSE /\ nextRef' = [nextRef EXCEPT ![b] = ref]
                /\ refs' = [refs EXCEPT ![b] = Append(refs[b], Reference(ref))]
        /\ UNCHANGED <<client, length, sent>>

\* A part that is refused is sent all the same.
SendPart(t) ==
    /\ pc[t] = "sendPart"
    /\ client[browser[t]] = "connected"
    /\ parts[t] # <<>>
    /\ sent' = [sent EXCEPT ![t] = Append(sent[t], Head(parts[t]))]
    /\ parts' = [parts EXCEPT ![t] = Tail(parts[t])]
    /\ UNCHANGED <<threadVars, client, nextRef, refs, length>>

\* All parts have been sent; or there is no response, no session any more, or no client,
\* and the exception ends the call.
SendEnds(t) ==
    /\ Step(t, "sendPart", "idle")
    /\ length' = [length EXCEPT ![t] = 0]
    /\ parts' = [parts EXCEPT ![t] = <<>>]
    /\ sent' = [sent EXCEPT ![t] = <<>>]
    /\ UNCHANGED <<client, nextRef, refs>>

(***************************************************************************)
(* The client.                                                             *)
(***************************************************************************)
ClientConnects(b) ==
    /\ client[b] = "closed"
    /\ client' = [client EXCEPT ![b] = "connected"]
    /\ UNCHANGED <<threadVars, nextRef, refs, messageVars>>

ClientCloses(b) ==
    /\ client[b] = "connected"
    /\ client' = [client EXCEPT ![b] = "closed"]
    /\ UNCHANGED <<threadVars, nextRef, refs, messageVars>>

(***************************************************************************)
(* Properties.                                                             *)
(***************************************************************************)

\* The parts of a message, those sent and those to come, are the message in order: each
\* carries its place and how many there are, as far as a byte can tell, none is empty or
\* too long, and a message that fits needs no header (SplitParts, NumParts, Udh.GetBytes).
PartsAsAnnounced ==
    \A t \in Threads : pc[t] = "sendPart" =>
        LET all == sent[t] \o parts[t]
            sizes == [i \in 1..Len(all) |-> all[i].size]
        IN  /\ FoldSeq(LAMBDA size, sum : size + sum, 0, sizes) = length[t]
            /\ length[t] <= SingleLength => all = <<[header |-> NoHeader, size |-> length[t]]>>
            /\ length[t] > SingleLength /\ Len(all) < Bytes =>
                   \A i \in 1..Len(all) :
                       /\ all[i].header.part = i
                       /\ all[i].header.count = Len(all)
                       /\ all[i].size \in 1..PartLength

\* Two long messages of one browser have different references, unless as many lie between
\* them as there are references; also when their calls overlap, and when the counter has
\* passed the largest int and is negative (GetNextRef).
RefsDiffer ==
    \A b \in Browsers : \A i, j \in 1..Len(refs[b]) :
        i < j /\ j - i < Bytes => refs[b][i] # refs[b][j]
=============================================================================
