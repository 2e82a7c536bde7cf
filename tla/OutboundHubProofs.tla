--------------------------- MODULE OutboundHubProofs ---------------------------
(***************************************************************************)
(* For any number of browsers and threads, any lengths of messages and     *)
(* parts, and any widths of bytes and ints: a connection that is disposed  *)
(* of leaves the map, unless another browser's write puts it back; none is *)
(* left behind when its browser has gone; long messages that follow one    *)
(* another have different references; and the parts of a message are the   *)
(* message.                                                                *)
(***************************************************************************)
EXTENDS OutboundHub, SequenceLemmas

(***************************************************************************)
(* The map of connections.                                                 *)
(***************************************************************************)

Adding(t, b) == pc[t] \in {"create", "add", "addWrite"} /\ browser[t] = b
Ending(t, b) == pc[t] \in {"dispose", "disposing", "remove", "removeWrite"} /\ browser[t] = b

Types ==
    /\ pc \in [Threads -> Pc]
    /\ browser \in [Threads -> Browsers \cup {Nobody}]
    /\ client \in [Browsers -> {"none", "closed", "connected", "disposed"}]
    /\ page \in [Browsers -> {"new", "open", "gone"}]
    /\ connection \subseteq Browsers
    /\ held \in [Threads -> SUBSET Browsers]
    /\ spoilt \subseteq Browsers
    /\ late \subseteq Browsers

\* Whoever is busy is busy for a browser.
Busy == \A t \in Threads : pc[t] # "idle" => browser[t] \in Browsers

\* A browser that has not called SetMode is not known.
NewIsUnknown ==
    \A b \in Browsers : page[b] = "new" =>
        /\ b \notin connection
        /\ client[b] # "disposed"
        /\ \A t \in Threads : b \notin held[t] /\ ~Adding(t, b) /\ ~Ending(t, b)

\* A page calls SetMode once, so that no two threads enter a connection for it.
OneAdds == \A t, u \in Threads, b \in Browsers : Adding(t, b) /\ Adding(u, b) => t = u

\* While SetMode has yet to enter a connection, nobody knows the entry or is past looking
\* for it.
AddedFirst ==
    \A t \in Threads, b \in Browsers : Adding(t, b) =>
        /\ b \notin connection
        /\ client[b] # "disposed"
        /\ \A u \in Threads : b \notin held[u] /\ ~Ending(u, b)

\* Nobody knows a browser that no client has been made for, or is past making it.
KnownIsMade ==
    \A b \in Browsers : client[b] = "none" =>
        /\ b \notin connection
        /\ \A t \in Threads :
               b \notin held[t] /\ (Adding(t, b) => pc[t] = "create")

IInv ==
    Types /\ Busy /\ NewIsUnknown /\ OneAdds /\ AddedFirst /\ KnownIsMade /\ DisposedIsRemoved

\* Reading the map, looking up and sending change nothing that IInv tells apart; what a
\* thread writes is what it has read, apart from its own browser's entry.
LEMMA NextKeepsIInv == IInv /\ [Next]_vars => IInv'
<1> SUFFICES ASSUME IInv, [Next]_vars PROVE IInv'
    OBVIOUS
<1> USE DEF IInv, Types, Pc, Busy, NewIsUnknown, OneAdds, AddedFirst, KnownIsMade,
            DisposedIsRemoved, Adding, Ending
<1>1. ASSUME NEW t \in Threads, NEW b \in Browsers, SetMode(t, b)
      PROVE  IInv'
    BY <1>1 DEF SetMode, Begin, connectionVars
<1>2. ASSUME NEW t \in Threads, NEW b \in Browsers, OnDisconnected(t, b)
      PROVE  IInv'
    BY <1>2 DEF OnDisconnected, Begin, connectionVars
<1>3. ASSUME NEW t \in Threads, NEW b \in Browsers, SendMessage(t, b)
      PROVE  IInv'
    BY <1>3 DEF SendMessage, Begin, hubVars
<1>4. ASSUME NEW t \in Threads, Add(t)
      PROVE  IInv'
    BY <1>4 DEF Add, Step, Write, hubVars, connectionVars
<1>5. ASSUME NEW t \in Threads, AddWrite(t)
      PROVE  IInv'
    <2> USE <1>5 DEF AddWrite, Step, Write, hubVars, connectionVars
    <2>1. /\ Adding(t, browser[t]) /\ browser[t] \in Browsers
          /\ connection' = held[t] \cup {browser[t]}
        OBVIOUS
    <2>2. Types' /\ Busy'
        BY <2>1
    <2>3. NewIsUnknown'
        BY <2>1
    <2>4. OneAdds'
        OBVIOUS
    <2>5. AddedFirst'
        BY <2>1
    <2>6. DisposedIsRemoved'
        <3>1. client[browser[t]] # "disposed"
            BY <2>1
        <3>2. ASSUME NEW b \in Browsers \ {browser[t]}, b \in held[t]
              PROVE  b \in connection \/ b \in spoilt'
            BY <3>2
        <3>3. QED
            BY <2>1, <3>1, <3>2
    <2>7. KnownIsMade'
        BY <2>1
    <2>8. QED
        BY <2>2, <2>3, <2>4, <2>5, <2>6, <2>7
<1>6. ASSUME NEW t \in Threads, ContainsKey(t)
      PROVE  IInv'
    BY <1>6 DEF ContainsKey, Step, Write, hubVars, connectionVars
<1>7. ASSUME NEW t \in Threads, LookUp(t)
      PROVE  IInv'
    BY <1>7 DEF LookUp, Step, Write, hubVars, connectionVars
<1>8. ASSUME NEW t \in Threads, Dispose(t)
      PROVE  IInv'
    BY <1>8 DEF Dispose, Step, Write, hubVars, connectionVars
<1>9. ASSUME NEW t \in Threads, RemoveRead(t)
      PROVE  IInv'
    BY <1>9 DEF RemoveRead, Step, Write, hubVars, connectionVars
<1>10. ASSUME NEW t \in Threads, RemoveWrite(t)
      PROVE  IInv'
    BY <1>10 DEF RemoveWrite, Step, Write, hubVars, connectionVars
<1>11. ASSUME NEW t \in Threads, Find(t)
      PROVE  IInv'
    BY <1>11 DEF Find, Step, Write, hubVars, connectionVars
<1>12. ASSUME NEW t \in Threads, Check(t)
      PROVE  IInv'
    BY <1>12 DEF Check, Step, Write, hubVars, connectionVars
<1>13. ASSUME NEW t \in Threads, SendStep(t)
      PROVE  IInv'
    BY <1>13 DEF SendStep, GetMessageParts, SendPart, SendEnds, Step, hubVars, threadVars
<1>14. ASSUME NEW b \in Browsers, ClientConnects(b) \/ ClientCloses(b), UNCHANGED hubVars
      PROVE  IInv'
    BY <1>14 DEF ClientConnects, ClientCloses, hubVars, threadVars
<1>15. CASE UNCHANGED vars
    BY <1>15 DEF vars, threadVars, connectionVars, hubVars
<1>16. ASSUME NEW t \in Threads, CreateSMPPConnection(t)
       PROVE  IInv'
    BY <1>16 DEF CreateSMPPConnection, Step, hubVars
<1> HIDE DEF IInv
<1>17. QED
    BY <1>1, <1>2, <1>3, <1>4, <1>5, <1>6, <1>7, <1>8, <1>9, <1>10, <1>11, <1>12, <1>13, <1>14,
       <1>15, <1>16 DEF Next, ThreadStep

LEMMA IInvHolds == Spec => []IInv
<1>1. Init => IInv
    BY ConnectionAssumption
       DEF Init, ConnectionInit, IInv, Types, Pc, Busy, NewIsUnknown, OneAdds, AddedFirst,
           KnownIsMade, DisposedIsRemoved, Adding, Ending
<1>2. IInv /\ [Next]_vars => IInv'
    BY NextKeepsIInv
<1>3. QED
    BY <1>1, <1>2, PTL DEF Spec

\* No entry is left of a connection that is disposed of, but for the thread that is still
\* removing it and for entries that another browser's write has brought back
\* (OnDisconnected), whatever calls of any number of browsers overlap.
THEOREM DisposedLeaveTheMap == Spec => []DisposedIsRemoved
<1>1. IInv => DisposedIsRemoved
    BY DEF IInv
<1>2. QED
    BY <1>1, IInvHolds, PTL

\* A client that runs can be found, or is about to be entered, or its entry has been lost to
\* another browser's write.
Entered ==
    \A b \in Browsers : client[b] \in {"closed", "connected"} =>
        b \in connection \cup spoilt \/ \E t \in Threads : Adding(t, b)

\* Only an entry whose connection has been disposed of is removed.
RemovedIsDisposed ==
    \A t \in Threads : pc[t] \in {"remove", "removeWrite"} => client[browser[t]] = "disposed"

\* A browser that has gone before its entry was made is known to have been too early, or
\* its OnDisconnected has yet to look.
LateIsNoted ==
    \A t \in Threads, b \in Browsers : Adding(t, b) /\ page[b] = "gone" =>
        b \in late \/ \E u \in Threads : browser[u] = b /\ pc[u] = "contains"

LeftInv == Entered /\ RemovedIsDisposed /\ LateIsNoted /\ LeftIsDisposed

LEMMA NextKeepsLeftInv == IInv /\ LeftInv /\ [Next]_vars => LeftInv'
<1> SUFFICES ASSUME IInv, LeftInv, [Next]_vars PROVE LeftInv'
    OBVIOUS
<1>1. Types /\ Busy /\ NewIsUnknown /\ AddedFirst /\ Nobody \notin Browsers
    BY ConnectionAssumption DEF IInv
<1> USE DEF Types, Pc, Busy, AddedFirst, LeftInv, Entered, RemovedIsDisposed, LateIsNoted, LeftIsDisposed,
            Adding, Ending
<1>2. ASSUME NEW t \in Threads, NEW b \in Browsers, SetMode(t, b)
      PROVE  LeftInv'
    BY <1>1, <1>2 DEF SetMode, Begin, NewIsUnknown, connectionVars
<1>3. ASSUME NEW t \in Threads, NEW b \in Browsers, OnDisconnected(t, b)
      PROVE  LeftInv'
    BY <1>1, <1>3 DEF OnDisconnected, Begin, connectionVars
<1>4. ASSUME NEW t \in Threads, NEW b \in Browsers, SendMessage(t, b)
      PROVE  LeftInv'
    BY <1>1, <1>4 DEF SendMessage, Begin, hubVars
<1>5. ASSUME NEW t \in Threads, Add(t)
      PROVE  LeftInv'
    BY <1>1, <1>5 DEF Step, Add, connectionVars
<1>6. ASSUME NEW t \in Threads, AddWrite(t)
      PROVE  LeftInv'
    BY <1>1, <1>6 DEF Step, AddWrite, Write, connectionVars
<1>7. ASSUME NEW t \in Threads, ContainsKey(t)
      PROVE  LeftInv'
    BY <1>1, <1>7 DEF Step, ContainsKey, connectionVars
<1>8. ASSUME NEW t \in Threads, LookUp(t)
      PROVE  LeftInv'
    BY <1>1, <1>8 DEF Step, LookUp, hubVars, connectionVars
<1>9. ASSUME NEW t \in Threads, Dispose(t)
      PROVE  LeftInv'
    BY <1>1, <1>9 DEF Step, Dispose, hubVars
<1>10. ASSUME NEW t \in Threads, RemoveRead(t)
      PROVE  LeftInv'
    BY <1>1, <1>10 DEF Step, RemoveRead, connectionVars
<1>11. ASSUME NEW t \in Threads, RemoveWrite(t)
      PROVE  LeftInv'
    BY <1>1, <1>11 DEF Step, RemoveWrite, Write, connectionVars
<1>12. ASSUME NEW t \in Threads, Find(t)
      PROVE  LeftInv'
    BY <1>1, <1>12 DEF Step, Find, hubVars
<1>13. ASSUME NEW t \in Threads, Check(t)
      PROVE  LeftInv'
    BY <1>1, <1>13 DEF Step, Check, hubVars
<1>14. ASSUME NEW t \in Threads, SendStep(t)
      PROVE  LeftInv'
    BY <1>1, <1>14 DEF Step, SendStep, GetMessageParts, SendPart, SendEnds, hubVars, threadVars
<1>15. ASSUME NEW b \in Browsers, ClientConnects(b) \/ ClientCloses(b), UNCHANGED hubVars
       PROVE  LeftInv'
    BY <1>1, <1>15 DEF ClientConnects, ClientCloses, hubVars, threadVars
<1>16. CASE UNCHANGED vars
    BY <1>1, <1>16 DEF vars, threadVars, connectionVars, hubVars
<1>17. ASSUME NEW t \in Threads, CreateSMPPConnection(t)
       PROVE  LeftInv'
    BY <1>1, <1>17 DEF CreateSMPPConnection, Step, hubVars
<1> HIDE DEF LeftInv
<1>18. QED
    BY <1>2, <1>3, <1>4, <1>5, <1>6, <1>7, <1>8, <1>9, <1>10, <1>11, <1>12, <1>13, <1>14, <1>15,
       <1>16, <1>17 DEF Next, ThreadStep

\* OnDisconnected does not return before the connection of its browser is disposed of
\* (unless it came before SetMode was done, or another browser's write changed the entry),
\* for any number of browsers and threads.
THEOREM NoneIsLeftBehind == Spec => []LeftIsDisposed
<1>1. Init => LeftInv
    BY DEF Init, ConnectionInit, LeftInv, Entered, RemovedIsDisposed, LateIsNoted, LeftIsDisposed, Adding
<1>2. LeftInv => LeftIsDisposed
    BY DEF LeftInv
<1>3. QED
    BY <1>1, <1>2, NextKeepsLeftInv, IInvHolds, PTL DEF Spec

(***************************************************************************)
(* The references of long messages.                                        *)
(***************************************************************************)

\* The reference in the header is the counter modulo 256, also when the counter is negative.
LEMMA ReferenceIsRemainder ==
    ASSUME NEW n \in Int
    PROVE  Reference(n) = n % Bytes /\ Reference(n) \in 0..(Bytes - 1)
<1>1. Bytes \in Nat \ {0}
    BY ConnectionAssumption
<1>2. n % Bytes \in 0..(Bytes - 1)
    BY <1>1, Division
<1>3. CASE n >= 0
    <2>1. (n % Bytes) % Bytes = n % Bytes
        <3> DEFINE r == n % Bytes
        <3>1. r \in 0..(Bytes - 1) /\ r \in Int /\ 0 \in Int /\ r = Bytes * 0 + r
            BY <1>1, <1>2, Multiples
        <3> HIDE DEF r
        <3>2. r % Bytes = r
            BY <1>1, <3>1, RemainderIs
        <3>3. QED
            BY <3>2 DEF r
    <2>2. QED
        BY <1>2, <1>3, <2>1 DEF Reference, Byte, Remainder
<1>4. CASE n < 0
    <2>1. PICK q \in Int : -n = Bytes * q + ((-n) % Bytes) /\ (-n) % Bytes \in 0..(Bytes - 1)
        <3> DEFINE k == -n
        <3>1. k \in Int
            OBVIOUS
        <3> HIDE DEF k
        <3>2. \E q \in Int : k = Bytes * q + (k % Bytes) /\ k % Bytes \in 0..(Bytes - 1)
            BY <1>1, <3>1, Division
        <3>3. QED
            BY <3>2 DEF k
    <2> DEFINE r == (-n) % Bytes
    <2>2. -n = Bytes * q + r /\ r \in 0..(Bytes - 1)
        BY <2>1
    <2>3. Reference(n) = (-r) % Bytes
        BY <1>4 DEF Reference, Byte, Remainder
    <2> HIDE DEF r
    <2>4. CASE r = 0
        <3>1. /\ n = Bytes * (-q) + 0 /\ -r = Bytes * 0 + 0 /\ 0 \in 0..(Bytes - 1)
              /\ -q \in Int /\ -r \in Int /\ 0 \in Int
            BY <1>1, <2>2, <2>4, Multiples
        <3>2. n % Bytes = 0 /\ (-r) % Bytes = 0
            BY <1>1, <3>1, RemainderIs
        <3>3. QED
            BY <1>2, <2>3, <3>2
    <2>5. CASE r > 0
        <3>1. /\ n = Bytes * (-q - 1) + (Bytes - r) /\ -r = Bytes * (-1) + (Bytes - r)
              /\ Bytes - r \in 0..(Bytes - 1)
              /\ -q - 1 \in Int /\ -r \in Int /\ -1 \in Int
            BY <1>1, <2>2, <2>5, Multiples
        <3>2. n % Bytes = Bytes - r /\ (-r) % Bytes = Bytes - r
            BY <1>1, <3>1, RemainderIs
        <3>3. QED
            BY <1>2, <2>3, <3>2
    <2>6. QED
        BY <2>2, <2>4, <2>5
<1>5. QED
    BY <1>3, <1>4

\* Counting on past the largest int counts on in the remainders.
LEMMA IncrementedRemainder ==
    ASSUME NEW n \in (-IntLimit)..(IntLimit - 1)
    PROVE  /\ Incremented(n) \in (-IntLimit)..(IntLimit - 1)
           /\ Incremented(n) % Bytes = (n + 1) % Bytes
<1>1. Bytes \in Nat \ {0} /\ IntLimit \in Nat \ {0} /\ IntLimit \in Int /\ IntLimit % Bytes = 0
    BY ConnectionAssumption
<1>2. Incremented(n) \in (-IntLimit)..(IntLimit - 1)
    BY <1>1 DEF Incremented
<1>3. CASE n + 1 = IntLimit
    <2>1. PICK q \in Int : IntLimit = Bytes * q + (IntLimit % Bytes)
        BY <1>1, Division, Zenon
    <2>2. -IntLimit = Bytes * (-q) + 0 /\ 0 \in 0..(Bytes - 1) /\ -IntLimit \in Int /\ -q \in Int
        BY <1>1, <2>1, Multiples
    <2>3. (-IntLimit) % Bytes = 0
        BY <1>1, <2>2, RemainderIs
    <2>4. QED
        BY <1>1, <1>2, <1>3, <2>3 DEF Incremented
<1>4. CASE n + 1 # IntLimit
    BY <1>2, <1>4 DEF Incremented
<1>5. QED
    BY <1>2, <1>3, <1>4

\* The references are the numbers of the messages, as far as a byte can tell, and the counter
\* agrees with them although it becomes negative.
RefInv ==
    /\ refs \in [Browsers -> Seq(0..(Bytes - 1))]
    /\ nextRef \in [Browsers -> (-IntLimit)..(IntLimit - 1)]
    /\ \A b \in Browsers :
           /\ nextRef[b] % Bytes = Len(refs[b]) % Bytes
           /\ \A i \in 1..Len(refs[b]) : refs[b][i] = i % Bytes

\* Only GetMessageParts touches the counter.
LEMMA WhoTakesReferences ==
    [Next]_vars => UNCHANGED <<nextRef, refs>> \/ \E t \in Threads : GetMessageParts(t)
BY DEF Next, ThreadStep, SetMode, CreateSMPPConnection, OnDisconnected, SendMessage, Add, AddWrite, ContainsKey, LookUp,
       Dispose, RemoveRead, RemoveWrite, Find, Check, SendStep, SendPart, SendEnds, ClientConnects,
       ClientCloses, vars, connectionVars

LEMMA NextKeepsRefInv == RefInv /\ [Next]_vars => RefInv'
<1> SUFFICES ASSUME RefInv, [Next]_vars PROVE RefInv'
    OBVIOUS
<1>1. CASE UNCHANGED <<nextRef, refs>>
    BY <1>1 DEF RefInv
<1>2. ASSUME NEW t \in Threads, GetMessageParts(t), ~UNCHANGED <<nextRef, refs>>
      PROVE  RefInv'
    <2> DEFINE b == browser[t]
               ref == Incremented(nextRef[b])
               n == Len(refs[b])
    <2>1. /\ nextRef' = [nextRef EXCEPT ![b] = ref]
          /\ refs' = [refs EXCEPT ![b] = Append(refs[b], Reference(ref))]
        BY <1>2 DEF GetMessageParts
    <2>2. CASE b \notin Browsers
        BY <2>1, <2>2 DEF RefInv
    <2>3. CASE b \in Browsers
        <3>1. /\ nextRef[b] \in (-IntLimit)..(IntLimit - 1) /\ refs[b] \in Seq(0..(Bytes - 1))
              /\ n \in Nat /\ nextRef[b] % Bytes = n % Bytes
              /\ \A i \in 1..n : refs[b][i] = i % Bytes
            BY <2>3 DEF RefInv
        <3>2. IntLimit \in Nat /\ Bytes \in Nat \ {0}
            BY ConnectionAssumption
        <3>3. ref \in (-IntLimit)..(IntLimit - 1) /\ ref % Bytes = (nextRef[b] + 1) % Bytes
            BY <3>1, IncrementedRemainder, Zenon
        <3>4. (nextRef[b] + 1) % Bytes = (n + 1) % Bytes
            <4>1. nextRef[b] \in Int /\ n \in Int
                BY <3>1, <3>2
            <4>2. QED
                BY <3>1, <3>2, <4>1, RemainderOfSuccessor, Zenon
        <3>5. Reference(ref) = (n + 1) % Bytes /\ Reference(ref) \in 0..(Bytes - 1)
            <4>1. ref \in Int
                BY <3>2, <3>3
            <4>2. QED
                BY <3>3, <3>4, <4>1, ReferenceIsRemainder
        <3> DEFINE longer == Append(refs[b], Reference(ref))
        <3> HIDE DEF ref, n
        <3>6. /\ longer \in Seq(0..(Bytes - 1)) /\ Len(longer) = n + 1
              /\ \A i \in 1..(n + 1) : longer[i] = i % Bytes
            BY <3>1, <3>5 DEF n
        <3> HIDE DEF longer
        <3>7. /\ nextRef' \in [Browsers -> (-IntLimit)..(IntLimit - 1)]
              /\ refs' \in [Browsers -> Seq(0..(Bytes - 1))]
              /\ nextRef'[b] = ref /\ refs'[b] = longer
              /\ \A c \in Browsers \ {b} : nextRef'[c] = nextRef[c] /\ refs'[c] = refs[c]
            BY <2>1, <2>3, <3>3, <3>6 DEF RefInv, longer
        <3>8. ref % Bytes = (n + 1) % Bytes
            BY <3>3, <3>4
        <3> HIDE DEF b
        <3>9. ASSUME NEW c \in Browsers
              PROVE  /\ nextRef'[c] % Bytes = Len(refs'[c]) % Bytes
                     /\ \A i \in 1..Len(refs'[c]) : refs'[c][i] = i % Bytes
            <4>1. CASE c = b
                BY <3>6, <3>7, <3>8, <4>1
            <4>2. CASE c # b
                BY <3>7, <4>2 DEF RefInv
            <4>3. QED
                BY <4>1, <4>2
        <3>10. QED
            BY <3>7, <3>9 DEF RefInv
    <2>4. QED
        BY <2>2, <2>3
<1>3. QED
    BY <1>1, <1>2, WhoTakesReferences

LEMMA RefInvHolds == Spec => []RefInv
<1>1. Init => RefInv
    <2>1. IntLimit \in Nat \ {0} /\ Bytes \in Nat \ {0}
        BY ConnectionAssumption
    <2>2. QED
        BY <2>1 DEF Init, ConnectionInit, RefInv
<1>2. RefInv /\ [Next]_vars => RefInv'
    BY NextKeepsRefInv
<1>3. QED
    BY <1>1, <1>2, PTL DEF Spec

\* Two long messages of one browser have different references, unless as many lie between
\* them as there are references (GetNextRef), whatever the width of the int that counts
\* them, as long as it is a multiple of that of a byte.
THEOREM ReferencesDiffer == Spec => []RefsDiffer
<1>1. RefInv => RefsDiffer
    <2> SUFFICES ASSUME RefInv, NEW b \in Browsers,
                        NEW i \in 1..Len(refs[b]), NEW j \in 1..Len(refs[b]),
                        i < j, j - i < Bytes
                 PROVE  refs[b][i] # refs[b][j]
        BY DEF RefsDiffer
    <2>1. refs[b][i] = i % Bytes /\ refs[b][j] = j % Bytes /\ i \in Int /\ j \in Int
        BY DEF RefInv
    <2>2. Bytes \in Nat \ {0}
        BY ConnectionAssumption
    <2>3. i % Bytes # j % Bytes
        BY <2>1, <2>2, RemaindersDiffer
    <2>4. QED
        BY <2>1, <2>3
<1>2. QED
    BY <1>1, RefInvHolds, PTL

(***************************************************************************)
(* The parts of a message.                                                 *)
(***************************************************************************)

\* The sizes that SplitParts arrives at.
PartSizes(n) ==
    AllButLast(NumParts(n), PartLength, n - PartLength * (NumParts(n) - 1))

\* Numbers of parts: of nothing, of what fits into one, of more; and what is left for the last.
LEMMA PartsFit ==
    ASSUME NEW n \in Nat
    PROVE  /\ NumParts(n) \in Nat
           /\ n = 0 => NumParts(n) = 0
           /\ n \in 1..PartLength => NumParts(n) = 1
           /\ n > PartLength => NumParts(n) = NumParts(n - PartLength) + 1
           /\ n > 0 => NumParts(n) > 0 /\ n - PartLength * (NumParts(n) - 1) \in 1..PartLength
<1>1. PartLength \in Nat \ {0}
    BY ConnectionAssumption
<1> DEFINE q == NumParts(n)
           r == (n + PartLength - 1) % PartLength
<1>2. q \in Int /\ r \in 0..(PartLength - 1) /\ n + PartLength - 1 = PartLength * q + r
    <2>1. n + PartLength - 1 \in Int
        BY <1>1
    <2>2. QED
        BY <1>1, <2>1, Division DEF NumParts
<1>3. n = 0 => NumParts(n) = 0
    <2>1. n = 0 => n + PartLength - 1 = PartLength * 0 + (PartLength - 1)
        BY <1>1
    <2>2. QED
        BY <1>1, <2>1, QuotientIs DEF NumParts
<1>4. n \in 1..PartLength => NumParts(n) = 1
    <2>1. n + PartLength - 1 = PartLength * 1 + (n - 1)
        BY <1>1
    <2>2. QED
        BY <1>1, <2>1, QuotientIs DEF NumParts
<1>5. n > PartLength => NumParts(n - PartLength) = q - 1
    <2>1. n > PartLength => /\ (n - PartLength) + PartLength - 1 = PartLength * (q - 1) + r
                            /\ (n - PartLength) + PartLength - 1 \in Int
        BY <1>1, <1>2, Multiples
    <2>2. q - 1 \in Int
        BY <1>2
    <2> HIDE DEF q, r
    <2>3. QED
        BY <1>1, <1>2, <2>1, <2>2, QuotientIs DEF NumParts
<1> HIDE DEF q, r
<1>6. q >= 0
    <2>1. PartLength * q > -PartLength
        BY <1>1, <1>2, Multiples
    <2>2. q <= -1 => PartLength * q <= -PartLength
        BY <1>1, <1>2, SMTT(20)
    <2>3. QED
        BY <1>1, <1>2, <2>1, <2>2, Multiples
<1>7. n > 0 => q > 0 /\ n - PartLength * (q - 1) \in 1..PartLength
    <2>1. PartLength * (q - 1) = PartLength * q - PartLength /\ PartLength * q \in Int
        BY <1>1, <1>2, Multiples
    <2>2. q = 0 => PartLength * q = 0
        BY <1>1
    <2>3. QED
        BY <1>1, <1>2, <1>6, <2>1, <2>2
<1>8. QED
    BY <1>2, <1>3, <1>4, <1>5, <1>6, <1>7 DEF q

\* Taking as much as fits, and splitting the rest, ends, and gives full parts and a last one.
LEMMA SplitIs ==
    ASSUME NEW n \in Nat
    PROVE  SplitParts(n) = PartSizes(n)
<1> DEFINE split[rest \in 0..n] ==
               LET segment == Min({rest, PartLength})
               IN  IF rest = 0 THEN <<>> ELSE <<segment>> \o split[rest - segment]
           Step1(f) == [rest \in 0..n |->
                           LET segment == Min({rest, PartLength})
                           IN  IF rest = 0 THEN <<>> ELSE <<segment>> \o f[rest - segment]]
           sizes == [rest \in 0..n |-> PartSizes(rest)]
<1>1. SplitParts(n) = split[n]
    BY DEF SplitParts
<1>2. PartLength \in Nat \ {0}
    BY ConnectionAssumption
<1>3. ASSUME NEW rest \in 1..n
      PROVE  /\ Min({rest, PartLength}) \in 1..rest
             /\ Min({rest, PartLength}) = IF rest <= PartLength THEN rest ELSE PartLength
    <2>1. {rest, PartLength} \in SUBSET Nat /\ {rest, PartLength} # {}
        BY <1>2
    <2>2. QED
        BY <1>2, <2>1, MinOfNaturals
<1>4. sizes = Step1(sizes)
    <2>1. PartSizes(0) = <<>>
        BY PartsFit DEF PartSizes, AllButLast
    <2>2. ASSUME NEW rest \in 1..n, rest <= PartLength
          PROVE  PartSizes(rest) = <<rest>> \o PartSizes(0)
        <3>1. NumParts(rest) = 1 /\ PartLength * (1 - 1) = 0
            BY <2>2, <1>2, PartsFit
        <3>2. PartSizes(rest) = [i \in 1..1 |-> rest]
            BY <3>1 DEF PartSizes, AllButLast
        <3>3. QED
            BY <2>1, <3>2
    <2>3. ASSUME NEW rest \in 1..n, rest > PartLength
          PROVE  PartSizes(rest) = <<PartLength>> \o PartSizes(rest - PartLength)
        <3> DEFINE a == <<PartLength>>
                   b == PartSizes(rest - PartLength)
                   c == NumParts(rest) - 1
        <3>1. /\ rest - PartLength \in Nat \ {0} /\ c \in Nat \ {0} /\ NumParts(rest) = c + 1
              /\ NumParts(rest - PartLength) = c
              /\ PartLength * (c - 1) = PartLength * c - PartLength /\ PartLength * c \in Int
            <4>1. rest - PartLength \in Nat \ {0} /\ rest \in Nat
                BY <2>3, <1>2
            <4>2. NumParts(rest) = NumParts(rest - PartLength) + 1
                BY <4>1, <2>3, PartsFit
            <4>3. NumParts(rest - PartLength) \in Nat \ {0}
                BY <4>1, PartsFit
            <4> QED
                BY <1>2, <4>1, <4>2, <4>3, Multiples
        <3>2. b = [i \in 1..c |-> IF i < c THEN PartLength ELSE rest - PartLength * c]
            BY <1>2, <3>1 DEF PartSizes, AllButLast
        <3>3. PartSizes(rest) = [i \in 1..(c + 1) |-> IF i < c + 1 THEN PartLength ELSE rest - PartLength * c]
            BY <3>1 DEF PartSizes, AllButLast
        <3> HIDE DEF b, c
        <3>4. b \in Seq(Int) /\ Len(b) = c
            BY <1>2, <3>1, <3>2
        <3>5. /\ a \o b \in Seq(Int) /\ Len(a \o b) = c + 1
              /\ \A i \in 1..(c + 1) : (a \o b)[i] = IF i = 1 THEN PartLength ELSE b[i - 1]
            BY <1>2, <3>1, <3>4
        <3>6. PartSizes(rest) \in Seq(Int) /\ Len(PartSizes(rest)) = c + 1
            BY <1>2, <3>1, <3>3
        <3>7. \A i \in 1..(c + 1) : PartSizes(rest)[i] = (a \o b)[i]
            BY <1>2, <3>1, <3>2, <3>3, <3>5
        <3> HIDE DEF a
        <3>8. PartSizes(rest) = a \o b
            BY <3>5, <3>6, <3>7, SeqEqual
        <3>9. QED
            BY <3>8 DEF a, b
    <2>4. ASSUME NEW rest \in 0..n
          PROVE  sizes[rest] = Step1(sizes)[rest]
        <3>1. CASE rest = 0
            BY <2>1, <3>1
        <3>2. CASE rest \in 1..n
            <4> DEFINE segment == Min({rest, PartLength})
            <4>1. segment \in 1..rest /\ segment = IF rest <= PartLength THEN rest ELSE PartLength
                BY <1>3, <3>2
            <4>2. sizes[rest - segment] = PartSizes(rest - segment)
                BY <4>1
            <4>3. Step1(sizes)[rest] = <<segment>> \o sizes[rest - segment]
                BY <3>2
            <4> HIDE DEF segment
            <4>4. PartSizes(rest) = <<segment>> \o PartSizes(rest - segment)
                <5>1. CASE rest <= PartLength
                    <6>1. segment = rest /\ rest - rest = 0
                        BY <4>1, <5>1
                    <6>2. QED
                        BY <2>2, <3>2, <5>1, <6>1
                <5>2. CASE rest > PartLength
                    BY <1>2, <2>3, <3>2, <4>1, <5>2
                <5>3. QED
                    BY <1>2, <5>1, <5>2
            <4>5. sizes[rest] = PartSizes(rest)
                OBVIOUS
            <4> HIDE DEF sizes, Step1
            <4>6. QED
                BY <4>2, <4>3, <4>4, <4>5
        <3> HIDE DEF sizes, Step1
        <3>3. QED
            BY <3>1, <3>2
    <2>5. QED
        BY <2>4
<1>5. split = Step1(split)
    <2> HIDE DEF sizes
    <2>1. \E f : f = Step1(f)
        BY <1>4, Zenon
    <2>2. QED
        BY <2>1, Zenon
<1>6. ASSUME NEW rest \in 0..n
      PROVE  split[rest] = sizes[rest]
    <2> HIDE DEF split, sizes
    <2> DEFINE Wrong == {k \in 0..n : split[k] # sizes[k]}
    <2> SUFFICES ASSUME Wrong # {} PROVE FALSE
        OBVIOUS
    <2>1. PICK k \in Wrong : \A j \in Wrong : k <= j
        <3>1. Wrong \in SUBSET Nat
            OBVIOUS
        <3> HIDE DEF Wrong
        <3>2. Min(Wrong) \in Wrong /\ \A j \in Wrong : Min(Wrong) <= j
            BY <3>1, MinOfNaturals
        <3>3. QED
            BY <3>2
    <2> DEFINE segment == Min({k, PartLength})
    <2>2. k # 0
        BY <1>4, <1>5
    <2>3. segment \in 1..k
        BY <1>3, <2>2
    <2>4. split[k - segment] = sizes[k - segment]
        BY <2>1, <2>3
    <2> HIDE DEF Wrong
    <2>5. split[k] = <<segment>> \o split[k - segment]
        BY <1>5, <2>2 DEF Wrong
    <2>6. sizes[k] = <<segment>> \o sizes[k - segment]
        BY <1>4, <2>2 DEF Wrong
    <2>7. QED
        BY <2>4, <2>5, <2>6 DEF Wrong
<1>7. QED
    <2> HIDE DEF split
    <2>1. n \in 0..n
        OBVIOUS
    <2>2. QED
        BY <1>1, <1>6, <2>1
\* What PartsAsAnnounced says of a message of length n that is to go out as all.
Announced(all, n) ==
    LET sizes == [i \in 1..Len(all) |-> all[i].size]
    IN  /\ FoldSeq(LAMBDA size, sum : size + sum, 0, sizes) = n
        /\ n <= SingleLength => all = <<[header |-> NoHeader, size |-> n]>>
        /\ n > SingleLength /\ Len(all) < Bytes =>
               \A i \in 1..Len(all) :
                   /\ all[i].header.part = i
                   /\ all[i].header.count = Len(all)
                   /\ all[i].size \in 1..PartLength

\* GetMessageParts, for every length and every reference.
LEMMA MessagePartsAnnounced ==
    ASSUME NEW n \in Nat \ {0}, NEW ref \in 0..(Bytes - 1)
    PROVE  /\ MessageParts(n, ref) \in Seq(Part)
           /\ Announced(MessageParts(n, ref), n)
<1>1. /\ PartLength \in Nat \ {0} /\ SingleLength \in Nat /\ PartLength <= SingleLength
      /\ Bytes \in Nat \ {0, 1}
    BY ConnectionAssumption
<1>2. ASSUME NEW k \in Int
      PROVE  Byte(k) \in 0..(Bytes - 1)
    BY <1>1, Division DEF Byte
<1> DEFINE all == MessageParts(n, ref)
           sizes == [i \in 1..Len(all) |-> all[i].size]
<1>3. CASE n <= SingleLength
    <2> DEFINE only == [header |-> NoHeader, size |-> n]
    <2>1. all = <<only>>
        BY <1>3 DEF MessageParts
    <2>2. only \in Part
        BY <1>1, <1>3 DEF Part, Header, NoHeader
    <2>3. sizes = AllButLast(1, 0, n)
        BY <2>1 DEF AllButLast
    <2> HIDE DEF sizes
    <2>4. SumOf(sizes) = 0 * (1 - 1) + n
        <3>1. 1 \in Nat \ {0} /\ 0 \in Int /\ n \in Int
            OBVIOUS
        <3>2. SumOf(AllButLast(1, 0, n)) = 0 * (1 - 1) + n
            BY <3>1, SumOfAllButLast, Zenon
        <3>3. QED
            BY <2>3, <3>2
    <2>5. FoldSeq(LAMBDA size, sum : size + sum, 0, sizes) = n
        <3>1. SumOf(sizes) = n
            BY <2>4
        <3>2. QED
            BY <3>1, Zenon DEF SumOf
    <2>6. all \in Seq(Part) /\ ~(n > SingleLength)
        BY <1>1, <1>3, <2>1, <2>2
    <2>7. QED
        BY <2>1, <2>5, <2>6, Zenon DEF Announced, sizes
<1>4. CASE n > SingleLength
    <2> DEFINE m == NumParts(n)
               last == n - PartLength * (m - 1)
    <2>1. m \in Nat \ {0} /\ last \in 1..PartLength
        BY PartsFit
    <2>2. SplitParts(n) = AllButLast(m, PartLength, last)
        BY SplitIs DEF PartSizes
    <2>3. all = [i \in 1..m |->
                    [header |-> [ref |-> ref, count |-> Byte(m), part |-> Byte(i)],
                     size |-> IF i < m THEN PartLength ELSE last]]
        <3> HIDE DEF m, last
        <3>1. Len(SplitParts(n)) = m
            BY <2>1, <2>2 DEF AllButLast
        <3>2. all = LET sizes_ == SplitParts(n)
                    IN  [i \in 1..Len(sizes_) |->
                            [header |-> [ref |-> ref, count |-> Byte(m), part |-> Byte(i)],
                             size |-> sizes_[i]]]
            BY <1>1, <1>4 DEF MessageParts, m
        <3>3. QED
            BY <2>2, <3>1, <3>2 DEF AllButLast
    <2>4. PartLength * (m - 1) + last = n
        BY <1>1, <2>1, Multiples
    <2> HIDE DEF m, last, all
    <2>5. Len(all) = m
        BY <2>1, <2>3
    <2>6. ASSUME NEW i \in 1..m
          PROVE  all[i] \in Part
        <3> DEFINE size == IF i < m THEN PartLength ELSE last
        <3>1. size \in 1..SingleLength
            BY <1>1, <2>1
        <3>2. Byte(i) \in 0..(Bytes - 1) /\ Byte(m) \in 0..(Bytes - 1)
            BY <1>2, <2>1
        <3>3. all[i] = [header |-> [ref |-> ref, count |-> Byte(m), part |-> Byte(i)], size |-> size]
            BY <2>3
        <3> HIDE DEF size
        <3>4. QED
            BY <3>1, <3>2, <3>3 DEF Part, Header
    <2>7. all \in Seq(Part)
        BY <2>1, <2>3, <2>6
    <2>8. sizes = AllButLast(m, PartLength, last)
        BY <2>3, <2>5 DEF AllButLast
    <2>9. FoldSeq(LAMBDA size, sum : size + sum, 0, sizes) = PartLength * (m - 1) + last
        <3> HIDE DEF sizes
        <3>1. PartLength \in Int /\ last \in Int
            BY <1>1, <2>1
        <3>2. SumOf(sizes) = PartLength * (m - 1) + last
            BY <2>1, <2>8, <3>1, SumOfAllButLast
        <3>3. QED
            BY <3>2, Zenon DEF SumOf
    <2>10. ASSUME m < Bytes, NEW i \in 1..m
           PROVE  /\ all[i].header.part = i
                  /\ all[i].header.count = m
                  /\ all[i].size \in 1..PartLength
        <3>1. Byte(i) = i /\ Byte(m) = m
            BY <1>1, <2>1, <2>10 DEF Byte
        <3>2. QED
            BY <1>1, <2>1, <2>3, <3>1
    <2>11. FoldSeq(LAMBDA size, sum : size + sum, 0, sizes) = n
        BY <2>4, <2>9, Zenon
    <2>12. ~(n <= SingleLength)
        BY <1>1, <1>4
    <2>13. QED
        BY <2>5, <2>7, <2>10, <2>11, <2>12, Zenon DEF Announced, all, sizes
<1>5. QED
    BY <1>1, <1>3, <1>4
\* While a message is being sent, what has gone and what has not make up its parts.
PartsInv ==
    /\ pc \in [Threads -> Pc]
    /\ length \in [Threads -> Lengths \cup {0}]
    /\ parts \in [Threads -> Seq(Part)]
    /\ sent \in [Threads -> Seq(Part)]
    /\ \A t \in Threads :
           /\ pc[t] \in {"find", "check", "parts", "sendPart"} => length[t] \in Lengths
           /\ pc[t] # "sendPart" => sent[t] = <<>>
           /\ pc[t] = "sendPart" =>
                  \E ref \in 0..(Bytes - 1) : sent[t] \o parts[t] = MessageParts(length[t], ref)

\* A step of one thread: it is enough to look at where it leaves this thread's message.
LEMMA OneThreadKeepsPartsInv ==
    ASSUME PartsInv, NEW t \in Threads,
           NEW to \in Pc, NEW n \in Lengths \cup {0}, NEW p \in Seq(Part), NEW s \in Seq(Part),
           pc' = [pc EXCEPT ![t] = to],
           length' = [length EXCEPT ![t] = n],
           parts' = [parts EXCEPT ![t] = p],
           sent' = [sent EXCEPT ![t] = s],
           to \in {"find", "check", "parts", "sendPart"} => n \in Lengths,
           to # "sendPart" => s = <<>>,
           to = "sendPart" => \E ref \in 0..(Bytes - 1) : s \o p = MessageParts(n, ref)
    PROVE  PartsInv'
<1>1. /\ pc' \in [Threads -> Pc] /\ length' \in [Threads -> Lengths \cup {0}]
      /\ parts' \in [Threads -> Seq(Part)] /\ sent' \in [Threads -> Seq(Part)]
      /\ pc'[t] = to /\ length'[t] = n /\ parts'[t] = p /\ sent'[t] = s
      /\ \A u \in Threads \ {t} :
             /\ pc'[u] = pc[u] /\ length'[u] = length[u]
             /\ parts'[u] = parts[u] /\ sent'[u] = sent[u]
    BY DEF PartsInv
<1>2. ASSUME NEW u \in Threads
      PROVE  /\ pc'[u] \in {"find", "check", "parts", "sendPart"} => length'[u] \in Lengths
             /\ pc'[u] # "sendPart" => sent'[u] = <<>>
             /\ pc'[u] = "sendPart" =>
                    \E ref \in 0..(Bytes - 1) :
                        sent'[u] \o parts'[u] = MessageParts(length'[u], ref)
    <2>1. CASE u = t
        BY <1>1, <2>1
    <2>2. CASE u # t
        BY <1>1, <2>2 DEF PartsInv
    <2>3. QED
        BY <2>1, <2>2
<1>3. QED
    BY <1>1, <1>2 DEF PartsInv

\* Everything but sending leaves the messages alone.
LEMMA OtherStepsKeepPartsInv ==
    ASSUME PartsInv, NEW t \in Threads, NEW to \in Pc \ {"find", "check", "parts", "sendPart"},
           pc[t] # "sendPart", pc' = [pc EXCEPT ![t] = to], UNCHANGED messageVars
    PROVE  PartsInv'
<1>1. /\ to \in Pc /\ length[t] \in Lengths \cup {0}
      /\ parts[t] \in Seq(Part) /\ sent[t] \in Seq(Part) /\ sent[t] = <<>>
    BY DEF PartsInv
<1>2. /\ length' = [length EXCEPT ![t] = length[t]]
      /\ parts' = [parts EXCEPT ![t] = parts[t]]
      /\ sent' = [sent EXCEPT ![t] = sent[t]]
    BY DEF PartsInv, messageVars
<1>3. QED
    BY <1>1, <1>2, OneThreadKeepsPartsInv

LEMMA NextKeepsPartsInv == IInv /\ RefInv /\ PartsInv /\ [Next]_vars => PartsInv'
<1> SUFFICES ASSUME IInv, RefInv, PartsInv, [Next]_vars PROVE PartsInv'
    OBVIOUS
<1>1. Lengths \subseteq Nat \ {0}
    BY ConnectionAssumption
<1>2. ASSUME NEW t \in Threads
      PROVE  /\ length[t] \in Lengths \cup {0}
             /\ parts[t] \in Seq(Part) /\ sent[t] \in Seq(Part) /\ <<>> \in Seq(Part)
             /\ length = [length EXCEPT ![t] = length[t]]
             /\ parts = [parts EXCEPT ![t] = parts[t]]
             /\ sent = [sent EXCEPT ![t] = sent[t]]
             /\ pc[t] \in {"find", "check", "parts", "sendPart"} => length[t] \in Lengths
             /\ pc[t] # "sendPart" => sent[t] = <<>>
    BY DEF PartsInv
<1>3. ASSUME NEW t \in Threads, NEW b \in Browsers, SetMode(t, b) \/ OnDisconnected(t, b)
      PROVE  PartsInv'
    BY <1>3, OtherStepsKeepPartsInv DEF SetMode, OnDisconnected, Begin, connectionVars, messageVars, Pc
<1>4. ASSUME NEW t \in Threads, NEW b \in Browsers, SendMessage(t, b)
      PROVE  PartsInv'
    <2>1. PICK n \in Lengths : length' = [length EXCEPT ![t] = n]
        BY <1>4 DEF SendMessage
    <2>2. /\ pc[t] = "idle" /\ pc' = [pc EXCEPT ![t] = "find"] /\ UNCHANGED <<parts, sent>>
          /\ "find" \in Pc
        BY <1>4 DEF SendMessage, Begin, Pc
    <2>3. QED
        BY <1>2, <2>1, <2>2, OneThreadKeepsPartsInv
<1>5. ASSUME NEW t \in Threads,
             \/ CreateSMPPConnection(t) \/ Add(t) \/ AddWrite(t) \/ ContainsKey(t)
             \/ LookUp(t) \/ Dispose(t) \/ RemoveRead(t) \/ RemoveWrite(t)
      PROVE  PartsInv'
    BY <1>5, OtherStepsKeepPartsInv
       DEF CreateSMPPConnection, Add, AddWrite, ContainsKey, LookUp, Dispose, RemoveRead, RemoveWrite, Step,
           connectionVars, messageVars, Pc
<1>6. ASSUME NEW t \in Threads, Find(t) \/ Check(t)
      PROVE  PartsInv'
    <2>1. PICK to \in {"check", "parts", "idle"} :
              /\ pc[t] \in {"find", "check"} /\ pc' = [pc EXCEPT ![t] = to]
              /\ length' = [length EXCEPT ![t] = IF to = "idle" THEN 0 ELSE length[t]]
              /\ UNCHANGED <<parts, sent>>
        BY <1>2, <1>6 DEF Find, Check, Step
    <2>2. to \in Pc /\ to # "sendPart"
        BY DEF Pc
    <2>3. QED
        BY <1>2, <2>1, <2>2, OneThreadKeepsPartsInv
<1>7. ASSUME NEW t \in Threads, GetMessageParts(t)
      PROVE  PartsInv'
    <2> DEFINE ref == Reference(Incremented(nextRef[browser[t]]))
               all == MessageParts(length[t], ref)
    <2>1. /\ pc[t] = "parts" /\ pc' = [pc EXCEPT ![t] = "sendPart"]
          /\ parts' = [parts EXCEPT ![t] = all] /\ UNCHANGED <<length, sent>>
        BY <1>7 DEF GetMessageParts, Step
    <2>2. length[t] \in Nat \ {0} /\ length[t] \in Lengths /\ sent[t] = <<>>
        BY <1>1, <1>2, <2>1
    <2>3. ref \in 0..(Bytes - 1)
        <3>1. browser[t] \in Browsers
            BY <2>1 DEF IInv, Busy
        <3>2. nextRef[browser[t]] \in (-IntLimit)..(IntLimit - 1)
            BY <3>1 DEF RefInv
        <3>3. Incremented(nextRef[browser[t]]) \in (-IntLimit)..(IntLimit - 1)
            BY <3>2, IncrementedRemainder
        <3>4. Incremented(nextRef[browser[t]]) \in Int
            BY <3>3, ConnectionAssumption
        <3>5. QED
            BY <3>4, ReferenceIsRemainder
    <2> HIDE DEF ref
    <2>4. all \in Seq(Part)
        BY <2>2, <2>3, MessagePartsAnnounced
    <2>5. \E r \in 0..(Bytes - 1) : all = MessageParts(length[t], r)
        BY <2>3
    <2> HIDE DEF all
    <2>6. sent[t] \o all = all /\ "sendPart" \in Pc
        BY <2>2, <2>4 DEF Pc
    <2>7. /\ length' = [length EXCEPT ![t] = length[t]] /\ sent' = [sent EXCEPT ![t] = sent[t]]
          /\ \E r \in 0..(Bytes - 1) : sent[t] \o all = MessageParts(length[t], r)
        BY <1>2, <2>1, <2>5, <2>6
    <2>8. QED
        BY <1>2, <2>1, <2>2, <2>4, <2>6, <2>7, OneThreadKeepsPartsInv
<1>8. ASSUME NEW t \in Threads, SendPart(t)
      PROVE  PartsInv'
    <2> DEFINE p == Tail(parts[t])
               s == Append(sent[t], Head(parts[t]))
    <2>1. /\ parts[t] # <<>> /\ pc[t] = "sendPart" /\ UNCHANGED <<pc, length>>
          /\ sent' = [sent EXCEPT ![t] = s] /\ parts' = [parts EXCEPT ![t] = p]
        BY <1>8 DEF SendPart, threadVars
    <2>2. s \in Seq(Part) /\ p \in Seq(Part) /\ s \o p = sent[t] \o parts[t]
        <3>1. sent[t] \in Seq(Part) /\ parts[t] \in Seq(Part) /\ parts[t] # <<>>
            BY <1>2, <2>1
        <3>2. QED
            BY <3>1, MoveHead
    <2> HIDE DEF p, s
    <2>3. \E ref \in 0..(Bytes - 1) : s \o p = MessageParts(length[t], ref)
        BY <2>1, <2>2 DEF PartsInv
    <2>4. /\ pc' = [pc EXCEPT ![t] = "sendPart"] /\ "sendPart" \in Pc
          /\ length' = [length EXCEPT ![t] = length[t]]
        BY <1>2, <2>1 DEF PartsInv, Pc
    <2>5. QED
        BY <1>2, <2>1, <2>2, <2>3, <2>4, OneThreadKeepsPartsInv
<1>9. ASSUME NEW t \in Threads, SendEnds(t)
      PROVE  PartsInv'
    <2>1. /\ pc' = [pc EXCEPT ![t] = "idle"] /\ length' = [length EXCEPT ![t] = 0]
          /\ parts' = [parts EXCEPT ![t] = <<>>] /\ sent' = [sent EXCEPT ![t] = <<>>]
          /\ "idle" \in Pc
        BY <1>9 DEF SendEnds, Step, Pc
    <2>2. QED
        BY <1>2, <2>1, OneThreadKeepsPartsInv
<1>10. CASE UNCHANGED <<pc, messageVars>>
    BY <1>10 DEF PartsInv, messageVars
<1>11. ASSUME NEW b \in Browsers, ClientConnects(b) \/ ClientCloses(b)
       PROVE  PartsInv'
    BY <1>11, <1>10 DEF ClientConnects, ClientCloses, threadVars
<1>12. QED
    BY <1>3, <1>4, <1>5, <1>6, <1>7, <1>8, <1>9, <1>10, <1>11
       DEF Next, ThreadStep, SendStep, vars, threadVars, connectionVars

LEMMA PartsInvHolds == Spec => []PartsInv
<1>1. Init => PartsInv
    BY DEF Init, ConnectionInit, PartsInv, Pc
<1>2. IInv /\ RefInv /\ PartsInv /\ [Next]_vars => PartsInv'
    BY NextKeepsPartsInv
<1>3. QED
    BY <1>1, <1>2, IInvHolds, RefInvHolds, PTL DEF Spec

\* The parts of a message, those sent and those to come, are the message in order, whatever
\* its length: each carries its place and how many there are, as far as a byte can tell,
\* none is empty or too long, and a message that fits needs no header (SplitParts).
THEOREM PartsAreAnnounced == Spec => []PartsAsAnnounced
<1>1. PartsInv => PartsAsAnnounced
    <2> SUFFICES ASSUME PartsInv, NEW t \in Threads, pc[t] = "sendPart"
                 PROVE  Announced(sent[t] \o parts[t], length[t])
        BY Zenon DEF PartsAsAnnounced, Announced
    <2>1. length[t] \in Nat \ {0}
        BY ConnectionAssumption DEF PartsInv
    <2>2. QED
        BY <2>1, MessagePartsAnnounced DEF PartsInv
<1>2. QED
    BY <1>1, PartsInvHolds, PTL

\* The types of the hub's and its connections' state: whatever is in the map has a client,
\* and whatever is sent or to be sent is a part that fits, with a header of bytes.
THEOREM HubTypes == Spec => []TypeOK
<1>1. IInv /\ RefInv /\ PartsInv => TypeOK
    BY DEF IInv, Types, RefInv, PartsInv, KnownIsMade, TypeOK, ConnectionTypeOK
<1>2. QED
    BY <1>1, IInvHolds, RefInvHolds, PartsInvHolds, PTL
=============================================================================
