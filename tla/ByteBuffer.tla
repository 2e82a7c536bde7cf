----------------------------- MODULE ByteBuffer -----------------------------
(***************************************************************************)
(* The buffer in which PDUs are put together and taken apart               *)
(* (Util/ByteBuffer.cs): an array that grows, the position after the last  *)
(* byte written, and the number of bytes not yet removed.  What has been   *)
(* removed stays in the array until the array is reallocated.              *)
(*                                                                         *)
(* A buffer is used by one thread.  Position i of the code's array is      *)
(* position i + 1 of the sequence vArrayBuffer.                            *)
(***************************************************************************)
EXTENDS Integers, Sequences

CONSTANTS
    Byte,               \* the values of a byte
    Inputs,             \* the arrays that callers append
    Capacities,         \* the capacities that callers ask for
    MIN_CAPACITY,
    DEFAULT_CAPACITY,
    MaxArray            \* bound: a longer array is not appended to

ASSUME BufferAssumption ==
    /\ 0 \in Byte
    /\ Inputs \subseteq Seq(Byte)
    /\ <<>> \in Inputs
    /\ Capacities \subseteq Nat \ {0}
    /\ MIN_CAPACITY \in Nat \ {0}
    /\ DEFAULT_CAPACITY \in Nat
    /\ MIN_CAPACITY <= DEFAULT_CAPACITY
    /\ MaxArray \in Nat

VARIABLES
    vArrayBuffer,
    vNextPosition,
    vLength,
    vCapacity,
    asked,          \* history: the last call, with the bytes or the number it gave
    returned        \* what the last call returned, empty if it returned nothing or threw

vars == <<vArrayBuffer, vNextPosition, vLength, vCapacity, asked, returned>>

Call(name, bytes, count) == [name |-> name, bytes |-> bytes, count |-> count]
CallNames ==
    {"new", "append", "appendFails", "appendSelf", "peek", "remove", "clear", "capacity"}
Calls == [name : CallNames, bytes : Seq(Byte), count : Int]

TypeOK ==
    /\ vArrayBuffer \in Seq(Byte)
    /\ vNextPosition \in 0..Len(vArrayBuffer)
    /\ vLength \in 0..vNextPosition
    /\ vCapacity \in Nat \ {0}
    /\ asked \in Calls
    /\ returned \in Seq(Byte)

NewArray(size) == [i \in 1..size |-> 0]

\* Array.Copy: length elements of source from start on go to target from position on.
Copy(source, start, target, position, length) ==
    [i \in 1..Len(target) |->
        IF position < i /\ i <= position + length
        THEN source[start + (i - position)]
        ELSE target[i]]

\* The four constructors are this one, with no bytes or no capacity given.
Init ==
    \E bytes \in Inputs, capacity \in Capacities \cup {0} :
        LET needed == IF capacity < Len(bytes) THEN Len(bytes) ELSE capacity
        IN  /\ vCapacity = IF needed < MIN_CAPACITY THEN DEFAULT_CAPACITY ELSE needed
            /\ vArrayBuffer = Copy(bytes, 0, NewArray(vCapacity), 0, Len(bytes))
            /\ vNextPosition = Len(bytes)
            /\ vLength = Len(bytes)
            /\ asked = Call("new", bytes, 0)
            /\ returned = <<>>

Reserved == Len(vArrayBuffer) - vNextPosition
Start == vNextPosition - vLength

(***************************************************************************)
(* Appending.                                                              *)
(***************************************************************************)

\* Mutant: the array grows by multiples of the capacity, rounded down.
GrowthRoundedDown(increment) == (increment \div vCapacity) * vCapacity

Growth(increment) == ((increment \div vCapacity) + 1) * vCapacity

\* RealocateBuffer moves what has not been removed to the front of a longer array, even
\* when the old one, without what has been removed, would do.
Realocated(increment) ==
    Copy(vArrayBuffer, Start, NewArray(Len(vArrayBuffer) + Growth(increment)), 0, vLength)

\* The array and the position to write to, once there is room for increment bytes.
Room(increment) ==
    IF Reserved < increment
    THEN [array |-> Realocated(increment), position |-> vLength]
    ELSE [array |-> vArrayBuffer, position |-> vNextPosition]

Write(bytes, start, length) ==
    /\ vArrayBuffer' = Copy(bytes, start, Room(length).array, Room(length).position, length)
    /\ vNextPosition' = Room(length).position + length
    /\ vLength' = vLength + length

\* The slice exists.
IsSlice(bytes, start, length) ==
    start >= 0 /\ length >= 0 /\ start + length <= Len(bytes)

\* Mutant: the array is written to from its beginning, whatever the slice.
AppendBeginning(bytes, start, length) ==
    /\ IsSlice(bytes, start, length)
    /\ Write(bytes, 0, length)
    /\ asked' = Call("append", SubSeq(bytes, start + 1, start + length), 0)
    /\ returned' = <<>>
    /\ UNCHANGED vCapacity

AppendSlice(bytes, start, length) ==
    /\ IsSlice(bytes, start, length)
    /\ Write(bytes, start, length)
    /\ asked' = Call("append", SubSeq(bytes, start + 1, start + length), 0)
    /\ returned' = <<>>
    /\ UNCHANGED vCapacity

\* Array.Copy throws when there is no such slice, after the array has been reallocated.
AppendFails(bytes, start, length) ==
    /\ ~IsSlice(bytes, start, length)
    /\ vArrayBuffer' = Room(length).array
    /\ vNextPosition' = Room(length).position
    /\ asked' = Call("appendFails", <<>>, 0)
    /\ returned' = <<>>
    /\ UNCHANGED <<vLength, vCapacity>>

AppendByte(value) ==
    /\ vArrayBuffer' = [Room(1).array EXCEPT ![Room(1).position + 1] = value]
    /\ vNextPosition' = Room(1).position + 1
    /\ vLength' = vLength + 1
    /\ asked' = Call("append", <<value>>, 0)
    /\ returned' = <<>>
    /\ UNCHANGED vCapacity

\* Append of a buffer to itself: the arguments are taken before the array is reallocated.
\* The return for a buffer of no bytes leaves what a copy of none would.
AppendSelf ==
    /\ Write(vArrayBuffer, Start, vLength)
    /\ asked' = Call("appendSelf", <<>>, 0)
    /\ returned' = <<>>
    /\ UNCHANGED vCapacity

(***************************************************************************)
(* Reading and removing.                                                   *)
(***************************************************************************)
FirstBytes(count) == [i \in 1..count |-> vArrayBuffer[Start + i]]

Peek(count) ==
    /\ asked' = Call("peek", <<>>, count)
    /\ returned' = IF count > vLength \/ count <= 0 THEN <<>> ELSE FirstBytes(count)
    /\ UNCHANGED <<vArrayBuffer, vNextPosition, vLength, vCapacity>>

Remove(count) ==
    /\ count \in 1..vLength
    /\ asked' = Call("remove", <<>>, count)
    /\ returned' = FirstBytes(count)
    /\ vLength' = vLength - count
    /\ UNCHANGED <<vArrayBuffer, vNextPosition, vCapacity>>

RemoveFails(count) ==
    /\ count \notin 1..vLength
    /\ asked' = Call("remove", <<>>, count)
    /\ returned' = <<>>
    /\ UNCHANGED <<vArrayBuffer, vNextPosition, vLength, vCapacity>>

Clear ==
    /\ vNextPosition' = 0
    /\ vLength' = 0
    /\ asked' = Call("clear", <<>>, 0)
    /\ returned' = <<>>
    /\ UNCHANGED <<vArrayBuffer, vCapacity>>

\* The setter takes any value; one below 1, with which the next reallocation divides by
\* zero or shrinks the array, is left out: nothing in the repository sets the capacity.
SetCapacity(value) ==
    /\ vCapacity' = value
    /\ asked' = Call("capacity", <<>>, value)
    /\ returned' = <<>>
    /\ UNCHANGED <<vArrayBuffer, vNextPosition, vLength>>

\* Mutant: the start of what is left is not added.
FindFromZero(value, startIndex, endIndex) ==
    LET found == {i \in startIndex..endIndex : vArrayBuffer[i + 1] = value}
    IN  IF found = {} THEN -1 ELSE CHOOSE i \in found : \A j \in found : i <= j

\* Find, for startIndex and endIndex that it accepts: it walks through the array, and
\* returns an index into what is left.
Find(value, startIndex, endIndex) ==
    LET found == {i \in (startIndex + Start)..(endIndex + Start) : vArrayBuffer[i + 1] = value}
    IN  IF found = {} THEN -1 ELSE (CHOOSE i \in found : \A j \in found : i <= j) - Start

Next ==
    \/ /\ Len(vArrayBuffer) <= MaxArray
       /\ \/ \E bytes \in Inputs :
                 \E start \in -1..Len(bytes), length \in -1..(Len(bytes) + 1) :
                     AppendSlice(bytes, start, length) \/ AppendFails(bytes, start, length)
          \/ \E value \in Byte : AppendByte(value)
          \/ AppendSelf
    \/ \E count \in 0..(vLength + 1) : Peek(count) \/ Remove(count) \/ RemoveFails(count)
    \/ Clear
    \/ \E value \in Capacities : SetCapacity(value)

Spec == Init /\ [][Next]_vars

(***************************************************************************)
(* Properties.                                                             *)
(***************************************************************************)
Content == SubSeq(vArrayBuffer, Start + 1, vNextPosition)

\* However often the array is reallocated and whatever is left in it of bytes that have
\* been removed, each call does to the buffer what it asked for: what is appended is added
\* byte for byte at the end, what is removed or looked at are the first bytes, and a call
\* that throws, also after reallocating, leaves the bytes as they were.
Bytes == INSTANCE ByteSequence WITH content <- Content
ImplementsByteSequence == Bytes!Spec

\* Find gives the first place of a byte in what is left, within the bounds given, as if
\* nothing had ever been removed (how PDU.cs looks for the end of a string).
FindIsFirst ==
    \A value \in Byte, startIndex \in 0..(vLength - 1) :
        \A endIndex \in startIndex..(vLength - 1) :
            LET places == {i \in startIndex..endIndex : Content[i + 1] = value}
                found == Find(value, startIndex, endIndex)
            IN  IF places = {} THEN found = -1
                ELSE found \in places /\ \A i \in places : found <= i
=============================================================================
