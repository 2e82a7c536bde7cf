-------------------------- MODULE ByteBufferProofs --------------------------
(***************************************************************************)
(* Proofs that a ByteBuffer is a sequence of bytes, for arrays, capacities *)
(* and inputs of any size.                                                 *)
(*                                                                         *)
(* Everything rests on two facts about one call: making room moves what is *)
(* left without changing it (RoomIs), and writing then extends it          *)
(* (WriteExtends).                                                         *)
(***************************************************************************)
EXTENDS ByteBuffer, SequenceTheorems, TLAPS

\* What is recorded of a call, as the sequence records it too.
LEMMA CallIs ==
    ASSUME NEW name \in CallNames, NEW bytes \in Seq(Byte), NEW count \in Int
    PROVE  /\ Call(name, bytes, count) \in Calls
           /\ Call(name, bytes, count).bytes = bytes
           /\ Call(name, bytes, count).count = count
           /\ Bytes!Call(name, bytes, count) = Call(name, bytes, count)
<1> DEFINE call == [name |-> name, bytes |-> bytes, count |-> count]
<1>1. call \in Calls
  BY Zenon DEF Calls
<1>2. Call(name, bytes, count) = call /\ Bytes!Call(name, bytes, count) = call
  BY DEF Call, Bytes!Call
<1>3. call.bytes = bytes /\ call.count = count
  OBVIOUS
<1> QED
  BY <1>1, <1>2, <1>3

LEMMA BareCallIs ==
    ASSUME NEW name \in CallNames, NEW count \in Int
    PROVE  /\ Call(name, <<>>, count) \in Calls
           /\ Call(name, <<>>, count).count = count
           /\ Bytes!Call(name, <<>>, count) = Call(name, <<>>, count)
<1> DEFINE none == <<>>
<1>1. none \in Seq(Byte)
  BY EmptySeq
<1> HIDE DEF none
<1>2. /\ Call(name, none, count) \in Calls
      /\ Call(name, none, count).count = count
      /\ Bytes!Call(name, none, count) = Call(name, none, count)
  BY <1>1, CallIs
<1> QED
  BY <1>2 DEF none

(***************************************************************************)
(* Arrays and what is left in them.                                        *)
(***************************************************************************)

\* A function on 1..n is a sequence of length n.
LEMMA FunctionIsSeq ==
    ASSUME NEW S, NEW n \in Nat, NEW f \in [1..n -> S]
    PROVE  f \in Seq(S) /\ Len(f) = n
<1>1. f \in Seq(S)
  BY SeqDef
<1>2. DOMAIN f = 1..n /\ DOMAIN f = 1..Len(f) /\ Len(f) \in Nat
  BY <1>1, LenProperties
<1> QED
  BY <1>1, <1>2

\* An array like target, but with length elements of source from start on after position.
IsCopy(array, source, start, target, position, length) ==
    /\ array \in Seq(Byte)
    /\ Len(array) = Len(target)
    /\ \A i \in 1..Len(target) :
           array[i] = IF position < i /\ i <= position + length
                      THEN source[start + (i - position)] ELSE target[i]

\* Array.Copy leaves an array of the same length.
LEMMA CopyIs ==
    ASSUME NEW source \in Seq(Byte), NEW target \in Seq(Byte),
           NEW start \in Nat, NEW position \in Nat, NEW length \in Nat,
           start + length <= Len(source)
    PROVE  IsCopy(Copy(source, start, target, position, length),
                  source, start, target, position, length)
<1> DEFINE f == Copy(source, start, target, position, length)
<1>1. /\ Len(source) \in Nat /\ \A k \in 1..Len(source) : source[k] \in Byte
      /\ Len(target) \in Nat /\ \A k \in 1..Len(target) : target[k] \in Byte
  BY LenProperties, ElementOfSeq
<1>2. ASSUME NEW i \in 1..Len(target), position < i, i <= position + length
      PROVE  source[start + (i - position)] \in Byte
  <2>1. start + (i - position) \in 1..Len(source)
    BY <1>1, <1>2
  <2> QED
    BY <2>1, <1>1
<1>3. f \in [1..Len(target) -> Byte]
  BY <1>1, <1>2 DEF Copy
<1>4. f \in Seq(Byte) /\ Len(f) = Len(target)
  BY <1>1, <1>3, FunctionIsSeq
<1>5. \A i \in 1..Len(target) :
          f[i] = IF position < i /\ i <= position + length
                 THEN source[start + (i - position)] ELSE target[i]
  BY DEF Copy
<1> QED
  BY <1>4, <1>5 DEF IsCopy

\* The part of an array between two positions, element by element.
LEMMA PartIs ==
    ASSUME NEW array \in Seq(Byte), NEW next \in 0..Len(array), NEW length \in 0..next
    PROVE  /\ SubSeq(array, (next - length) + 1, next) \in Seq(Byte)
           /\ Len(SubSeq(array, (next - length) + 1, next)) = length
           /\ \A i \in 1..length :
                  SubSeq(array, (next - length) + 1, next)[i] = array[(next - length) + i]
<1>1. Len(array) \in Nat /\ \A k \in 1..Len(array) : array[k] \in Byte
  BY LenProperties, ElementOfSeq
<1>2. /\ (next - length) + 1 \in Int /\ next \in Int
      /\ \A i \in ((next - length) + 1)..next : array[i] \in Byte
  BY <1>1
<1>3. /\ SubSeq(array, (next - length) + 1, next) \in Seq(Byte)
      /\ Len(SubSeq(array, (next - length) + 1, next)) =
             IF (next - length) + 1 <= next THEN next - ((next - length) + 1) + 1 ELSE 0
      /\ \A i \in 1..(next - ((next - length) + 1) + 1) :
             SubSeq(array, (next - length) + 1, next)[i] = array[((next - length) + 1) + i - 1]
  BY <1>2, SubSeqProperties
<1>4. \A i \in 1..length : ((next - length) + 1) + i - 1 = (next - length) + i
  BY <1>1
<1>5. next - ((next - length) + 1) + 1 = length
  BY <1>1
<1>6. (IF (next - length) + 1 <= next THEN next - ((next - length) + 1) + 1 ELSE 0) = length
  BY <1>1
<1> DEFINE part == SubSeq(array, (next - length) + 1, next)
<1>7. /\ part \in Seq(Byte)
      /\ Len(part) = length
      /\ \A i \in 1..length : part[i] = array[((next - length) + 1) + i - 1]
  BY <1>3, <1>5, <1>6
<1> HIDE DEF part
<1>8. \A i \in 1..length : part[i] = array[(next - length) + i]
  BY <1>4, <1>7
<1> QED
  BY <1>7, <1>8 DEF part

LEMMA ContentIs ==
    ASSUME TypeOK
    PROVE  /\ Content \in Seq(Byte)
           /\ Len(Content) = vLength
           /\ \A i \in 1..vLength : Content[i] = vArrayBuffer[Start + i]
BY PartIs DEF TypeOK, Content, Start

\* An array of zeros.
LEMMA NewArrayIs ==
    ASSUME NEW size \in Nat
    PROVE  NewArray(size) \in Seq(Byte) /\ Len(NewArray(size)) = size
<1>1. NewArray(size) \in [1..size -> Byte]
  BY BufferAssumption DEF NewArray
<1> QED
  BY <1>1, FunctionIsSeq

(***************************************************************************)
(* Room for what is appended.                                              *)
(***************************************************************************)

\* The growth is a positive multiple of the capacity and exceeds what is asked for.
LEMMA GrowthSuffices ==
    ASSUME NEW increment \in Nat, vCapacity \in Nat \ {0}
    PROVE  Growth(increment) \in Nat /\ Growth(increment) > increment
<1>1. increment \div vCapacity \in Nat
  OBVIOUS
<1>2. ((increment \div vCapacity) + 1) * vCapacity > increment
  OBVIOUS
<1>3. \A d \in Nat : (d + 1) * vCapacity \in Nat
  OBVIOUS
<1> QED
  BY <1>1, <1>2, <1>3 DEF Growth

\* RealocateBuffer and the test before it: there is room, and nothing of what is left has
\* changed, although it may have moved.
LEMMA RoomIs ==
    ASSUME TypeOK, NEW increment \in Int
    PROVE  /\ Room(increment).array \in Seq(Byte)
           /\ Room(increment).position \in Nat
           /\ vLength <= Room(increment).position
           /\ Room(increment).position <= Len(Room(increment).array)
           /\ Room(increment).position + increment <= Len(Room(increment).array)
           /\ \A i \in 1..vLength :
                  Room(increment).array[(Room(increment).position - vLength) + i] =
                      vArrayBuffer[Start + i]
<1>1. /\ vArrayBuffer \in Seq(Byte) /\ Len(vArrayBuffer) \in Nat
      /\ vNextPosition \in 0..Len(vArrayBuffer)
      /\ vLength \in 0..vNextPosition
      /\ vCapacity \in Nat \ {0}
  BY LenProperties DEF TypeOK
<1>2. CASE ~(Reserved < increment)
  BY <1>1, <1>2 DEF Room, Reserved, Start
<1>3. CASE Reserved < increment
  <2> DEFINE size == Len(vArrayBuffer) + Growth(increment)
             array == Copy(vArrayBuffer, Start, NewArray(size), 0, vLength)
  <2>1. increment \in Nat
    BY <1>1, <1>3 DEF Reserved
  <2>2. Growth(increment) \in Nat /\ Growth(increment) > increment
    BY <1>1, <2>1, GrowthSuffices
  <2>3. size \in Nat
    BY <1>1, <2>2
  <2>4. NewArray(size) \in Seq(Byte) /\ Len(NewArray(size)) = size
    BY <2>3, NewArrayIs
  <2>5. Start \in Nat /\ Start + vLength <= Len(vArrayBuffer) /\ vLength \in Nat
    BY <1>1 DEF Start
  <2>6. /\ array \in Seq(Byte)
        /\ Len(array) = size
        /\ \A i \in 1..size : array[i] =
               IF 0 < i /\ i <= 0 + vLength THEN vArrayBuffer[Start + (i - 0)]
               ELSE NewArray(size)[i]
    <3>1. IsCopy(array, vArrayBuffer, Start, NewArray(size), 0, vLength)
      BY <1>1, <2>4, <2>5, CopyIs
    <3> QED
      BY <2>4, <3>1 DEF IsCopy
  <2>7. Room(increment) = [array |-> array, position |-> vLength]
    BY <1>3 DEF Room, Realocated
  <2>8. ASSUME NEW i \in 1..vLength
        PROVE  array[(vLength - vLength) + i] = vArrayBuffer[Start + i]
    <3>1. i \in 1..size /\ (vLength - vLength) + i = i /\ i - 0 = i
      BY <1>1, <2>2
    <3>2. 0 < i /\ i <= 0 + vLength
      BY <1>1
    <3> HIDE DEF size, array
    <3> QED
      BY <2>6, <3>1, <3>2
  <2> HIDE DEF array
  <2>9. vLength <= Len(array) /\ vLength + increment <= Len(array)
    BY <1>1, <2>1, <2>2, <2>6
  <2> QED
    BY <2>5, <2>6, <2>7, <2>8, <2>9
<1> QED
  BY <1>2, <1>3

\* What appending a piece promises of the array: the types, and that the piece follows
\* what was left.
Extended(piece) ==
    /\ vArrayBuffer' \in Seq(Byte)
    /\ vNextPosition' \in 0..Len(vArrayBuffer')
    /\ vLength' \in 0..vNextPosition'
    /\ Content' = Content \o piece

\* A new array whose last vLength' bytes up to vNextPosition' are what was left and then
\* the piece.
LEMMA PieceAdded ==
    ASSUME TypeOK, NEW piece \in Seq(Byte),
           vArrayBuffer' \in Seq(Byte),
           vNextPosition' \in 0..Len(vArrayBuffer'),
           vLength' \in 0..vNextPosition',
           vLength' = vLength + Len(piece),
           \A i \in 1..vLength :
               vArrayBuffer'[(vNextPosition' - vLength') + i] = vArrayBuffer[Start + i],
           \A i \in 1..Len(piece) :
               vArrayBuffer'[(vNextPosition' - vLength') + (vLength + i)] = piece[i]
    PROVE  Extended(piece)
<1>1. /\ Content \in Seq(Byte) /\ Len(Content) = vLength /\ vLength \in Nat
      /\ \A i \in 1..vLength : Content[i] = vArrayBuffer[Start + i]
      /\ Len(piece) \in Nat
  BY ContentIs, LenProperties DEF TypeOK
<1>2. /\ Content' \in Seq(Byte)
      /\ Len(Content') = vLength'
      /\ \A i \in 1..vLength' : Content'[i] = vArrayBuffer'[(vNextPosition' - vLength') + i]
  BY PartIs DEF Content, Start
<1> DEFINE sum == Content \o piece
<1>3. /\ sum \in Seq(Byte)
      /\ Len(sum) = vLength + Len(piece)
      /\ \A i \in 1..(vLength + Len(piece)) :
             sum[i] = IF i <= vLength THEN Content[i] ELSE piece[i - vLength]
  BY <1>1, ConcatProperties
<1> HIDE DEF sum
<1>4. ASSUME NEW i \in 1..(vLength + Len(piece))
      PROVE  Content'[i] = sum[i]
  <2>1. i \in 1..vLength' /\ i \in Int
    BY <1>1
  <2>2. CASE i <= vLength
    <3>1. i \in 1..vLength
      BY <1>1, <2>2
    <3> QED
      BY <1>1, <1>2, <1>3, <2>1, <2>2, <3>1
  <2>3. CASE ~(i <= vLength)
    <3>1. i - vLength \in 1..Len(piece) /\ vLength + (i - vLength) = i
      BY <1>1, <2>3
    <3>2. vArrayBuffer'[(vNextPosition' - vLength') + i] = piece[i - vLength]
      BY <3>1
    <3> QED
      BY <1>2, <1>3, <2>1, <2>3, <3>2
  <2> QED
    BY <2>2, <2>3
<1>5. Content' = sum
  BY <1>2, <1>3, <1>4, SeqEqual
<1> QED
  BY <1>5 DEF Extended, sum

\* A slice, element by element.
LEMMA SliceIs ==
    ASSUME NEW bytes \in Seq(Byte), NEW start \in Nat, NEW length \in Nat,
           start + length <= Len(bytes)
    PROVE  /\ SubSeq(bytes, start + 1, start + length) \in Seq(Byte)
           /\ Len(SubSeq(bytes, start + 1, start + length)) = length
           /\ \A i \in 1..length :
                  SubSeq(bytes, start + 1, start + length)[i] = bytes[start + i]
<1> DEFINE next == start + length
<1>1. next \in 0..Len(bytes) /\ length \in 0..next /\ next - length = start
  BY LenProperties
<1> HIDE DEF next
<1>2. /\ SubSeq(bytes, (next - length) + 1, next) \in Seq(Byte)
      /\ Len(SubSeq(bytes, (next - length) + 1, next)) = length
      /\ \A i \in 1..length :
             SubSeq(bytes, (next - length) + 1, next)[i] = bytes[(next - length) + i]
  BY <1>1, PartIs
<1>3. /\ SubSeq(bytes, start + 1, next) \in Seq(Byte)
      /\ Len(SubSeq(bytes, start + 1, next)) = length
      /\ \A i \in 1..length : SubSeq(bytes, start + 1, next)[i] = bytes[start + i]
  BY <1>1, <1>2
<1> QED
  BY <1>3 DEF next

\* Append(bytes, start, length).
LEMMA WriteExtends ==
    ASSUME TypeOK, NEW bytes \in Seq(Byte), NEW start \in Nat, NEW length \in Nat,
           start + length <= Len(bytes), Write(bytes, start, length)
    PROVE  Extended(SubSeq(bytes, start + 1, start + length))
<1> DEFINE array == Room(length).array
           position == Room(length).position
<1>1. /\ array \in Seq(Byte)
      /\ position \in Nat
      /\ vLength <= position
      /\ position + length <= Len(array)
      /\ Len(array) \in Nat
  BY RoomIs, LenProperties
<1>2. \A i \in 1..vLength :
          array[(position - vLength) + i] = vArrayBuffer[Start + i]
  BY RoomIs
<1> HIDE DEF array, position
<1>3. /\ vArrayBuffer' = Copy(bytes, start, array, position, length)
      /\ vNextPosition' = position + length
      /\ vLength' = vLength + length
  BY DEF Write, array, position
<1>4. vLength \in Nat
  BY DEF TypeOK
<1>5. IsCopy(vArrayBuffer', bytes, start, array, position, length)
  BY <1>1, <1>3, CopyIs
<1>6. /\ vArrayBuffer' \in Seq(Byte)
      /\ Len(vArrayBuffer') = Len(array)
      /\ \A i \in 1..Len(array) : vArrayBuffer'[i] =
             IF position < i /\ i <= position + length
             THEN bytes[start + (i - position)] ELSE array[i]
  BY <1>5 DEF IsCopy
<1>7. /\ vNextPosition' \in 0..Len(vArrayBuffer')
      /\ vLength' \in 0..vNextPosition'
  BY <1>1, <1>3, <1>4, <1>6
<1>8. ASSUME NEW i \in 1..vLength
      PROVE  vArrayBuffer'[(vNextPosition' - vLength') + i] = vArrayBuffer[Start + i]
  <2> DEFINE k == (position - vLength) + i
  <2>1. (vNextPosition' - vLength') + i = k
    BY <1>1, <1>3, <1>4
  <2>2. k \in 1..Len(array) /\ ~(position < k)
    BY <1>1, <1>4
  <2>3. array[k] = vArrayBuffer[Start + i]
    BY <1>2
  <2> HIDE DEF k
  <2>4. vArrayBuffer'[k] = array[k]
    BY <1>6, <2>2
  <2> QED
    BY <2>1, <2>3, <2>4
<1> DEFINE piece == SubSeq(bytes, start + 1, start + length)
<1>9. /\ piece \in Seq(Byte)
      /\ Len(piece) = length
      /\ \A i \in 1..length : piece[i] = bytes[start + i]
  BY SliceIs
<1> HIDE DEF piece
<1>10. ASSUME NEW i \in 1..Len(piece)
       PROVE  vArrayBuffer'[(vNextPosition' - vLength') + (vLength + i)] = piece[i]
  <2>1. /\ (vNextPosition' - vLength') + (vLength + i) = position + i
        /\ (position + i) - position = i
        /\ position + i \in 1..Len(array)
        /\ position < position + i /\ position + i <= position + length
    BY <1>1, <1>3, <1>4, <1>9
  <2>2. vArrayBuffer'[position + i] = bytes[start + i]
    BY <1>6, <2>1
  <2> QED
    BY <1>9, <2>1, <2>2
<1>11. Extended(piece)
  BY <1>3, <1>6, <1>7, <1>8, <1>9, <1>10, PieceAdded
<1> QED
  BY <1>11 DEF piece

\* Append(value).
LEMMA ByteExtends ==
    ASSUME TypeOK, NEW value \in Byte, AppendByte(value)
    PROVE  Extended(<<value>>)
<1> DEFINE array == Room(1).array
           position == Room(1).position
<1>1. /\ array \in Seq(Byte)
      /\ position \in Nat
      /\ vLength <= position
      /\ position + 1 <= Len(array)
      /\ \A i \in 1..vLength :
             array[(position - vLength) + i] = vArrayBuffer[Start + i]
      /\ Len(array) \in Nat
  BY RoomIs, LenProperties
<1> HIDE DEF array, position
<1>2. /\ vArrayBuffer' = [array EXCEPT ![position + 1] = value]
      /\ vNextPosition' = position + 1
      /\ vLength' = vLength + 1
  BY DEF AppendByte, array, position
<1>3. vLength \in Nat
  BY DEF TypeOK
<1>4. position + 1 \in 1..Len(array)
  BY <1>1
<1>5. /\ vArrayBuffer' \in Seq(Byte)
      /\ Len(vArrayBuffer') = Len(array)
      /\ \A j \in 1..Len(array) :
             vArrayBuffer'[j] = IF j = position + 1 THEN value ELSE array[j]
  BY <1>1, <1>2, <1>4, ExceptSeq
<1>6. /\ vNextPosition' \in 0..Len(vArrayBuffer')
      /\ vLength' \in 0..vNextPosition'
  BY <1>1, <1>2, <1>3, <1>5
<1>7. ASSUME NEW i \in 1..vLength
      PROVE  vArrayBuffer'[(vNextPosition' - vLength') + i] = vArrayBuffer[Start + i]
  <2>1. /\ (vNextPosition' - vLength') + i = (position - vLength) + i
        /\ (position - vLength) + i \in 1..Len(array)
        /\ (position - vLength) + i # position + 1
    BY <1>1, <1>2, <1>3
  <2> QED
    BY <2>1, <1>1, <1>5
<1>8. <<value>> \in Seq(Byte) /\ Len(<<value>>) = 1 /\ <<value>>[1] = value
  OBVIOUS
<1>9. ASSUME NEW i \in 1..Len(<<value>>)
      PROVE  vArrayBuffer'[(vNextPosition' - vLength') + (vLength + i)] = <<value>>[i]
  <2>1. /\ i = 1
        /\ (vNextPosition' - vLength') + (vLength + i) = position + 1
    BY <1>1, <1>2, <1>3, <1>8
  <2> QED
    BY <1>4, <1>5, <1>8, <2>1
<1> QED
  BY <1>2, <1>5, <1>6, <1>7, <1>8, <1>9, PieceAdded

\* An append that throws: at most the array has been reallocated.
LEMMA FailureKeeps ==
    ASSUME TypeOK, NEW bytes, NEW start, NEW length \in Int, AppendFails(bytes, start, length)
    PROVE  Extended(<<>>) /\ Content' = Content
<1> DEFINE array == Room(length).array
           position == Room(length).position
<1>1. /\ array \in Seq(Byte)
      /\ position \in Nat
      /\ vLength <= position
      /\ position <= Len(array)
      /\ \A i \in 1..vLength :
             array[(position - vLength) + i] = vArrayBuffer[Start + i]
  BY RoomIs
<1> HIDE DEF array, position
<1>2. vArrayBuffer' = array /\ vNextPosition' = position /\ vLength' = vLength
  BY DEF AppendFails, array, position
<1>3. vLength \in Nat
  BY DEF TypeOK
<1>4. /\ vArrayBuffer' \in Seq(Byte)
      /\ vNextPosition' \in 0..Len(vArrayBuffer')
      /\ vLength' \in 0..vNextPosition'
  BY <1>1, <1>2, <1>3, LenProperties
<1>5. <<>> \in Seq(Byte) /\ Len(<<>>) = 0 /\ vLength' = vLength + Len(<<>>)
  BY <1>2, <1>3, EmptySeq
<1>6. \A i \in 1..Len(<<>>) :
          vArrayBuffer'[(vNextPosition' - vLength') + (vLength + i)] = <<>>[i]
  BY <1>5
<1>7. Extended(<<>>)
  BY <1>1, <1>2, <1>4, <1>5, <1>6, PieceAdded
<1>8. Content \in Seq(Byte)
  BY ContentIs
<1>9. Content \o <<>> = Content
  BY <1>8, ConcatEmptySeq
<1> QED
  BY <1>7, <1>9 DEF Extended

(***************************************************************************)
(* Reading and removing.                                                   *)
(***************************************************************************)

\* What a call returns of the bytes that are left is their beginning.
LEMMA FirstBytesAre ==
    ASSUME TypeOK, NEW count \in 1..vLength
    PROVE  /\ FirstBytes(count) \in Seq(Byte)
           /\ FirstBytes(count) = SubSeq(Content, 1, count)
<1>1. /\ vArrayBuffer \in Seq(Byte) /\ Len(vArrayBuffer) \in Nat
      /\ vNextPosition \in 0..Len(vArrayBuffer) /\ vLength \in 0..vNextPosition
  BY LenProperties DEF TypeOK
<1>2. /\ Content \in Seq(Byte) /\ Len(Content) = vLength
      /\ \A i \in 1..vLength : Content[i] = vArrayBuffer[Start + i]
  BY ContentIs
<1>3. \A i \in 1..vLength : Content[i] \in Byte
  BY <1>2, ElementOfSeq
<1>4. /\ vLength \in Nat /\ count \in Nat /\ count >= 1
      /\ \A i \in 1..count : i \in 1..vLength
  BY <1>1
<1>5. \A i \in 1..count : FirstBytes(count)[i] = Content[i]
  BY <1>2, <1>4 DEF FirstBytes
<1>6. FirstBytes(count) \in [1..count -> Byte]
  BY <1>2, <1>3, <1>4 DEF FirstBytes
<1>7. FirstBytes(count) \in Seq(Byte) /\ Len(FirstBytes(count)) = count
  BY <1>4, <1>6, FunctionIsSeq
<1> DEFINE part == SubSeq(Content, 1, count)
<1>8. /\ part \in Seq(Byte)
      /\ Len(part) = count
      /\ \A i \in 1..count : part[i] = Content[i]
  <2>1. /\ part \in Seq(Byte)
        /\ Len(part) = IF 1 <= count THEN count - 1 + 1 ELSE 0
        /\ \A i \in 1..(count - 1 + 1) : part[i] = Content[1 + i - 1]
    BY <1>3, <1>4, SubSeqProperties
  <2> HIDE DEF part
  <2>2. count - 1 + 1 = count
    BY <1>4
  <2>3. \A i \in 1..count : 1 + i - 1 = i
    BY <1>4
  <2> QED
    BY <1>4, <2>1, <2>2, <2>3
<1> HIDE DEF part
<1>9. part = FirstBytes(count)
  BY <1>5, <1>7, <1>8, SeqEqual
<1> QED
  BY <1>7, <1>9 DEF part

\* What is left after a removal is what came after the bytes removed.
LEMMA RemoveIs ==
    ASSUME TypeOK, NEW count \in 1..vLength, Remove(count)
    PROVE  TypeOK' /\ Content' = SubSeq(Content, count + 1, Len(Content))
<1>1. /\ vArrayBuffer \in Seq(Byte) /\ Len(vArrayBuffer) \in Nat
      /\ vNextPosition \in 0..Len(vArrayBuffer) /\ vLength \in 0..vNextPosition
      /\ vCapacity \in Nat \ {0}
  BY LenProperties DEF TypeOK
<1>2. /\ vArrayBuffer' = vArrayBuffer /\ vNextPosition' = vNextPosition
      /\ vCapacity' = vCapacity /\ vLength' = vLength - count
      /\ returned' = FirstBytes(count)
      /\ asked' = Call("remove", <<>>, count)
  BY DEF Remove
<1>3. TypeOK'
  <2>1. /\ returned' \in Seq(Byte)
        /\ asked' \in Calls
    BY <1>1, <1>2, FirstBytesAre, BareCallIs DEF CallNames
  <2>2. vLength' \in 0..vNextPosition'
    BY <1>1, <1>2
  <2> QED
    BY <1>1, <1>2, <2>1, <2>2 DEF TypeOK
<1>4. /\ Content \in Seq(Byte) /\ Len(Content) = vLength
      /\ \A i \in 1..vLength : Content[i] = vArrayBuffer[Start + i]
  BY ContentIs
<1>5. \A i \in 1..vLength : Content[i] \in Byte
  BY <1>4, ElementOfSeq
<1>6. /\ Content' \in Seq(Byte) /\ Len(Content') = vLength - count
      /\ \A i \in 1..(vLength - count) :
             Content'[i] = vArrayBuffer[(vNextPosition - (vLength - count)) + i]
  <2>1. vLength - count \in 0..vNextPosition
    BY <1>1
  <2>2. Content' = SubSeq(vArrayBuffer, (vNextPosition - (vLength - count)) + 1, vNextPosition)
    BY <1>2 DEF Content, Start
  <2> QED
    BY <1>1, <2>1, <2>2, PartIs
<1> DEFINE rest == SubSeq(Content, count + 1, vLength)
<1>7. /\ rest \in Seq(Byte)
      /\ Len(rest) = vLength - count
      /\ \A i \in 1..(vLength - count) : rest[i] = Content[count + i]
  <2>1. /\ count + 1 \in Int /\ vLength \in Int
        /\ \A i \in (count + 1)..vLength : Content[i] \in Byte
    BY <1>1, <1>5
  <2>2. /\ rest \in Seq(Byte)
        /\ Len(rest) = IF count + 1 <= vLength THEN vLength - (count + 1) + 1 ELSE 0
        /\ \A i \in 1..(vLength - (count + 1) + 1) : rest[i] = Content[(count + 1) + i - 1]
    BY <2>1, SubSeqProperties
  <2> HIDE DEF rest
  <2>3. /\ vLength - (count + 1) + 1 = vLength - count
        /\ (IF count + 1 <= vLength THEN vLength - (count + 1) + 1 ELSE 0) = vLength - count
    BY <1>1
  <2>4. \A i \in 1..(vLength - count) : (count + 1) + i - 1 = count + i
    BY <1>1
  <2> QED
    BY <2>2, <2>3, <2>4
<1> HIDE DEF rest
<1>8. ASSUME NEW i \in 1..(vLength - count)
      PROVE  rest[i] = Content'[i]
  <2>1. /\ count + i \in 1..vLength
        /\ (vNextPosition - vLength) + (count + i) = (vNextPosition - (vLength - count)) + i
    BY <1>1
  <2>2. Content[count + i] = vArrayBuffer[(vNextPosition - vLength) + (count + i)]
    BY <1>4, <2>1 DEF Start
  <2> QED
    BY <1>6, <1>7, <2>1, <2>2
<1>9. rest = Content'
  BY <1>6, <1>7, <1>8, SeqEqual
<1> QED
  BY <1>3, <1>4, <1>9 DEF rest

(***************************************************************************)
(* The theorems.                                                           *)
(***************************************************************************)

\* A new buffer holds the bytes it was given.
LEMMA InitHolds ==
    ASSUME Init
    PROVE  TypeOK /\ Bytes!Init
<1>1. PICK bytes \in Inputs, capacity \in Capacities \cup {0} :
          LET needed == IF capacity < Len(bytes) THEN Len(bytes) ELSE capacity
          IN  /\ vCapacity = IF needed < MIN_CAPACITY THEN DEFAULT_CAPACITY ELSE needed
              /\ vArrayBuffer = Copy(bytes, 0, NewArray(vCapacity), 0, Len(bytes))
              /\ vNextPosition = Len(bytes)
              /\ vLength = Len(bytes)
              /\ asked = Call("new", bytes, 0)
              /\ returned = <<>>
  BY DEF Init
<1>2. bytes \in Seq(Byte) /\ Len(bytes) \in Nat /\ capacity \in Nat
  BY BufferAssumption, LenProperties
<1>3. vCapacity \in Nat \ {0} /\ Len(bytes) <= vCapacity
  BY <1>1, <1>2, BufferAssumption
<1>4. NewArray(vCapacity) \in Seq(Byte) /\ Len(NewArray(vCapacity)) = vCapacity
  BY <1>3, NewArrayIs
<1>5. IsCopy(vArrayBuffer, bytes, 0, NewArray(vCapacity), 0, Len(bytes))
  BY <1>1, <1>2, <1>4, CopyIs
<1>6. vArrayBuffer \in Seq(Byte) /\ Len(vArrayBuffer) = vCapacity
  BY <1>4, <1>5 DEF IsCopy
<1>7. returned = <<>> /\ returned \in Seq(Byte)
  BY <1>1, EmptySeq
<1>8. asked \in Calls
  BY <1>1, <1>2, CallIs DEF CallNames
<1>9. TypeOK
  BY <1>1, <1>2, <1>3, <1>6, <1>7, <1>8 DEF TypeOK
<1>10. /\ Content \in Seq(Byte) /\ Len(Content) = Len(bytes)
       /\ \A i \in 1..Len(bytes) : Content[i] = vArrayBuffer[i]
  <2>1. Start = 0
    BY <1>1, <1>2 DEF Start
  <2>2. \A i \in 1..Len(bytes) : Start + i = i
    BY <2>1
  <2> QED
    BY <1>1, <1>9, <2>2, ContentIs
<1>11. ASSUME NEW i \in 1..Len(bytes)
       PROVE  vArrayBuffer[i] = bytes[i]
  <2>1. /\ i \in 1..Len(NewArray(vCapacity))
        /\ 0 < i /\ i <= 0 + Len(bytes) /\ 0 + (i - 0) = i
    BY <1>2, <1>3, <1>4
  <2> QED
    BY <1>5, <2>1 DEF IsCopy
<1>12. \A i \in 1..Len(Content) : Content[i] = bytes[i]
  BY <1>10, <1>11
<1>13. Content = bytes
  BY <1>2, <1>10, <1>12, SeqEqual
<1> QED
  BY <1>1, <1>2, <1>9, <1>13, CallIs DEF CallNames, Bytes!Init

\* Every step keeps the types and is a step of the sequence.
LEMMA StepHolds ==
    ASSUME TypeOK, [Next]_vars
    PROVE  TypeOK' /\ [Bytes!Next]_(Bytes!vars)
<1> USE DEF Bytes!vars
<1>1. /\ vArrayBuffer \in Seq(Byte) /\ Len(vArrayBuffer) \in Nat
      /\ vNextPosition \in 0..Len(vArrayBuffer) /\ vLength \in 0..vNextPosition
      /\ vCapacity \in Nat \ {0}
      /\ asked \in Calls
      /\ returned \in Seq(Byte)
      /\ <<>> \in Seq(Byte)
  BY LenProperties, EmptySeq DEF TypeOK
<1>2. ASSUME NEW piece, Extended(piece), returned' = <<>>, vCapacity' = vCapacity,
             asked' \in Calls
      PROVE  TypeOK'
  BY <1>1, <1>2 DEF Extended, TypeOK
<1>3. ASSUME NEW bytes \in Inputs, NEW start \in -1..Len(bytes),
             NEW length \in -1..(Len(bytes) + 1), AppendSlice(bytes, start, length)
      PROVE  TypeOK' /\ Bytes!Next
  <2>1. bytes \in Seq(Byte) /\ Len(bytes) \in Nat
    BY BufferAssumption, LenProperties
  <2> DEFINE piece == SubSeq(bytes, start + 1, start + length)
  <2>2. /\ start \in Nat /\ length \in Nat /\ start + length <= Len(bytes)
        /\ Write(bytes, start, length) /\ returned' = <<>> /\ vCapacity' = vCapacity
        /\ asked' = Call("append", piece, 0)
    BY <1>3, <2>1 DEF AppendSlice, IsSlice
  <2>3. Extended(piece)
    BY <2>1, <2>2, WriteExtends
  <2>4. piece \in Seq(Byte)
    BY <2>1, <2>2, SliceIs
  <2> HIDE DEF piece
  <2>5. asked' \in Calls /\ asked'.bytes = piece /\ asked' = Bytes!Call("append", piece, 0)
    BY <2>2, <2>4, CallIs DEF CallNames
  <2>6. TypeOK'
    BY <1>2, <2>2, <2>3, <2>5
  <2> QED
    BY <2>2, <2>3, <2>4, <2>5, <2>6 DEF Extended, Bytes!Next, Bytes!AppendBytes
<1>4. ASSUME NEW bytes \in Inputs, NEW start \in -1..Len(bytes),
             NEW length \in -1..(Len(bytes) + 1), AppendFails(bytes, start, length)
      PROVE  TypeOK' /\ Bytes!Next
  <2>1. Len(bytes) \in Nat
    BY BufferAssumption, LenProperties
  <2>2. length \in Int
    BY <2>1
  <2>3. Extended(<<>>) /\ Content' = Content
    BY <1>4, <2>2, FailureKeeps
  <2>4. /\ asked' = Call("appendFails", <<>>, 0)
        /\ returned' = <<>> /\ vCapacity' = vCapacity
    BY <1>4 DEF AppendFails
  <2>5. asked' \in Calls /\ asked' = Bytes!Call("appendFails", <<>>, 0)
    BY <2>4, BareCallIs DEF CallNames
  <2>6. TypeOK'
    BY <1>2, <2>3, <2>4, <2>5
  <2> QED
    BY <2>3, <2>4, <2>5, <2>6 DEF Bytes!Next, Bytes!AppendFails
<1>5. ASSUME NEW value \in Byte, AppendByte(value)
      PROVE  TypeOK' /\ Bytes!Next
  <2>1. Extended(<<value>>)
    BY <1>5, ByteExtends
  <2>2. /\ asked' = Call("append", <<value>>, 0)
        /\ returned' = <<>> /\ vCapacity' = vCapacity
    BY <1>5 DEF AppendByte
  <2>3. <<value>> \in Seq(Byte)
    OBVIOUS
  <2> DEFINE piece == <<value>>
  <2>4. /\ asked' \in Calls /\ asked'.bytes = piece
        /\ asked' = Bytes!Call("append", piece, 0)
    <3>1. piece \in Seq(Byte) /\ asked' = Call("append", piece, 0)
      BY <2>2, <2>3
    <3> HIDE DEF piece
    <3> QED
      BY <3>1, CallIs DEF CallNames
  <2>5. TypeOK'
    BY <1>2, <2>1, <2>2, <2>4
  <2> QED
    BY <2>1, <2>2, <2>3, <2>4, <2>5 DEF Extended, Bytes!Next, Bytes!AppendBytes
<1>6. ASSUME AppendSelf
      PROVE  TypeOK' /\ Bytes!Next
  <2>1. Start \in Nat /\ vLength \in Nat /\ Start + vLength <= Len(vArrayBuffer)
    BY <1>1 DEF Start
  <2>2. SubSeq(vArrayBuffer, Start + 1, Start + vLength) = Content
    BY <1>1 DEF Content, Start
  <2>3. Extended(Content)
    BY <1>1, <1>6, <2>1, <2>2, WriteExtends DEF AppendSelf
  <2>4. /\ asked' = Call("appendSelf", <<>>, 0)
        /\ returned' = <<>> /\ vCapacity' = vCapacity
    BY <1>6 DEF AppendSelf
  <2>5. asked' \in Calls /\ asked' = Bytes!Call("appendSelf", <<>>, 0)
    BY <2>4, BareCallIs DEF CallNames
  <2>6. TypeOK'
    BY <1>2, <2>3, <2>4, <2>5
  <2> QED
    BY <2>3, <2>4, <2>5, <2>6 DEF Extended, Bytes!Next, Bytes!AppendSelf
<1>7. ASSUME UNCHANGED <<vArrayBuffer, vNextPosition, vLength>>
      PROVE  Content' = Content
  BY <1>7 DEF Content, Start
<1>8. ASSUME NEW count \in 0..(vLength + 1), Peek(count)
      PROVE  TypeOK' /\ Bytes!Next
  <2>1. Content' = Content
    BY <1>7, <1>8 DEF Peek
  <2>2. /\ count \in Int
        /\ asked' = Call("peek", <<>>, count)
        /\ UNCHANGED <<vArrayBuffer, vNextPosition, vLength, vCapacity>>
    BY <1>1, <1>8 DEF Peek
  <2>3. Len(Content) = vLength
    BY ContentIs
  <2>4. returned' \in Seq(Byte) /\ returned' = Bytes!Front(count)
    <3>1. CASE count \in 1..vLength
      <4>1. returned' = FirstBytes(count)
        BY <1>1, <1>8, <3>1 DEF Peek
      <4> QED
        BY <2>3, <3>1, <4>1, FirstBytesAre DEF Bytes!Front
    <3>2. CASE count \notin 1..vLength
      <4>1. returned' = <<>>
        BY <1>1, <1>8, <3>2 DEF Peek
      <4> QED
        BY <1>1, <2>3, <3>2, <4>1 DEF Bytes!Front
    <3> QED
      BY <3>1, <3>2
  <2>5. /\ asked' \in Calls /\ asked'.count = count
        /\ asked' = Bytes!Call("peek", <<>>, count)
    BY <2>2, BareCallIs DEF CallNames
  <2>6. TypeOK'
    BY <1>1, <2>2, <2>4, <2>5 DEF TypeOK
  <2> QED
    BY <2>1, <2>2, <2>4, <2>5, <2>6 DEF Bytes!Next, Bytes!Peek
<1>9. ASSUME NEW count \in 0..(vLength + 1), Remove(count)
      PROVE  TypeOK' /\ Bytes!Next
  <2>1. /\ count \in 1..vLength /\ returned' = FirstBytes(count) /\ count \in Int
        /\ asked' = Call("remove", <<>>, count)
    BY <1>1, <1>9 DEF Remove
  <2>2. TypeOK' /\ Content' = SubSeq(Content, count + 1, Len(Content))
    BY <1>9, <2>1, RemoveIs
  <2>3. Len(Content) = vLength
    BY ContentIs
  <2>4. returned' = Bytes!Front(count)
    BY <2>1, <2>3, FirstBytesAre DEF Bytes!Front
  <2>5. asked'.count = count /\ asked' = Bytes!Call("remove", <<>>, count)
    BY <2>1, BareCallIs DEF CallNames
  <2> QED
    BY <2>1, <2>2, <2>3, <2>4, <2>5 DEF Bytes!Next, Bytes!Remove
<1>10. ASSUME NEW count \in 0..(vLength + 1), RemoveFails(count)
       PROVE  TypeOK' /\ Bytes!Next
  <2>1. Content' = Content
    BY <1>7, <1>10 DEF RemoveFails
  <2>2. /\ count \notin 1..vLength /\ returned' = <<>> /\ count \in Int
        /\ asked' = Call("remove", <<>>, count)
        /\ UNCHANGED <<vArrayBuffer, vNextPosition, vLength, vCapacity>>
    BY <1>1, <1>10 DEF RemoveFails
  <2>3. /\ asked' \in Calls /\ asked'.count = count
        /\ asked' = Bytes!Call("remove", <<>>, count)
    BY <2>2, BareCallIs DEF CallNames
  <2>4. TypeOK'
    BY <1>1, <2>2, <2>3 DEF TypeOK
  <2>5. Len(Content) = vLength
    BY ContentIs
  <2>6. returned' = Bytes!Front(count)
    BY <2>2, <2>5 DEF Bytes!Front
  <2> QED
    BY <2>1, <2>2, <2>3, <2>4, <2>5, <2>6 DEF Bytes!Next, Bytes!Remove
<1>11. ASSUME Clear
       PROVE  TypeOK' /\ Bytes!Next
  <2>1. asked' \in Calls /\ asked' = Bytes!Call("clear", <<>>, 0)
    BY <1>11, BareCallIs DEF CallNames, Clear
  <2>3. TypeOK'
    BY <1>1, <1>11, <2>1 DEF Clear, TypeOK
  <2>2. Content' = <<>>
    <3>1. Content' = SubSeq(vArrayBuffer, (0 - 0) + 1, 0)
      BY <1>11 DEF Clear, Content, Start
    <3>2. 0 \in 0..Len(vArrayBuffer) /\ 0 \in 0..0
      BY <1>1
    <3>3. Content' \in Seq(Byte) /\ Len(Content') = 0
      BY <1>1, <3>1, <3>2, PartIs
    <3> QED
      BY <3>3, EmptySeq
  <2> QED
    BY <1>11, <2>1, <2>2, <2>3 DEF Clear, Bytes!Next, Bytes!Clear
<1>12. ASSUME NEW value \in Capacities, SetCapacity(value)
       PROVE  TypeOK' /\ Bytes!Next
  <2>1. Content' = Content
    BY <1>7, <1>12 DEF SetCapacity
  <2>2. value \in Nat \ {0} /\ value \in Int
    BY BufferAssumption
  <2>3. /\ asked' \in Calls /\ asked'.count = value
        /\ asked' = Bytes!Call("capacity", <<>>, value)
    BY <1>12, <2>2, BareCallIs DEF CallNames, SetCapacity
  <2>4. TypeOK'
    BY <1>1, <1>12, <2>2, <2>3 DEF SetCapacity, TypeOK
  <2> QED
    BY <1>12, <2>1, <2>2, <2>3, <2>4 DEF SetCapacity, Bytes!Next, Bytes!SetCapacity
<1>13. ASSUME UNCHANGED vars
       PROVE  TypeOK' /\ Content' = Content /\ asked' = asked /\ returned' = returned
  BY <1>1, <1>7, <1>13 DEF vars, TypeOK
<1> QED
  BY <1>3, <1>4, <1>5, <1>6, <1>8, <1>9, <1>10, <1>11, <1>12, <1>13 DEF Next, Bytes!Next

\* The positions stay within the array, whatever is appended and removed and however the
\* array grows, and the capacity, by which the growth is divided, never becomes zero.
THEOREM ByteBufferTypes == Spec => []TypeOK
<1>1. Init => TypeOK
  BY InitHolds
<1>2. TypeOK /\ [Next]_vars => TypeOK'
  BY StepHolds
<1> QED
  BY <1>1, <1>2, PTL DEF Spec

\* A ByteBuffer is a sequence of bytes, appended to at its end and removed from at its
\* front; calls that throw change nothing that can be read.
THEOREM RefinesByteSequence == Spec => ImplementsByteSequence
<1>1. Init => Bytes!Init
  BY InitHolds
<1>2. TypeOK /\ [Next]_vars => [Bytes!Next]_(Bytes!vars)
  BY StepHolds
<1> QED
  BY <1>1, <1>2, ByteBufferTypes, PTL DEF Spec, Bytes!Spec, ImplementsByteSequence

\* The first member of a set of positions.
Minima == INSTANCE SequenceLemmas

LEMMA FirstOf ==
    ASSUME NEW I \in SUBSET Nat, I # {}
    PROVE  LET first == CHOOSE i \in I : \A j \in I : i <= j
           IN  first \in I /\ \A j \in I : first <= j
<1>1. Minima!Min(I) \in I /\ \A j \in I : Minima!Min(I) <= j
  BY Minima!MinOfNaturals
<1>2. \E i \in I : \A j \in I : i <= j
  BY <1>1
<1> QED
  BY <1>2

\* Find gives the first place of a byte in what is left, whatever has been removed.
THEOREM FindsTheFirst == Spec => []FindIsFirst
<1>1. TypeOK => FindIsFirst
  <2> SUFFICES ASSUME TypeOK, NEW value \in Byte, NEW startIndex \in 0..(vLength - 1),
                      NEW endIndex \in startIndex..(vLength - 1)
               PROVE  LET places == {i \in startIndex..endIndex : Content[i + 1] = value}
                          result == Find(value, startIndex, endIndex)
                      IN  IF places = {} THEN result = -1
                          ELSE result \in places /\ \A i \in places : result <= i
    BY DEF FindIsFirst
  <2> DEFINE places == {i \in startIndex..endIndex : Content[i + 1] = value}
             found == {i \in (startIndex + Start)..(endIndex + Start) :
                          vArrayBuffer[i + 1] = value}
             first == CHOOSE i \in found : \A j \in found : i <= j
  <2>1. Start \in Nat /\ vLength \in Nat
    BY DEF TypeOK, Start
  <2>2. \A i \in startIndex..endIndex : Content[i + 1] = vArrayBuffer[i + Start + 1]
    <3>1. ASSUME NEW i \in startIndex..endIndex
          PROVE  i + 1 \in 1..vLength /\ Start + (i + 1) = i + Start + 1
      BY <2>1
    <3> QED
      BY <3>1, ContentIs
  <2>3. \A i \in Int : i \in places <=> i + Start \in found
    BY <2>1, <2>2
  <2>4. found \in SUBSET Nat /\ places \in SUBSET Nat
    BY <2>1
  <2>5. Find(value, startIndex, endIndex) = IF found = {} THEN -1 ELSE first - Start
    BY DEF Find
  <2>6. places = {} <=> found = {}
    <3>1. \A i \in found : i - Start \in Int /\ (i - Start) + Start = i
      BY <2>1, <2>4
    <3>2. \A i \in found : i - Start \in places
      BY <2>3, <3>1
    <3>3. \A i \in places : i + Start \in found
      BY <2>3, <2>4
    <3> HIDE DEF places, found
    <3> QED
      BY <3>2, <3>3
  <2>7. CASE found # {}
    <3>1. first \in found /\ \A j \in found : first <= j
      BY <2>4, <2>7, FirstOf
    <3> HIDE DEF first
    <3>2. first - Start \in Int /\ (first - Start) + Start = first
      BY <2>1, <2>4, <3>1
    <3>3. first - Start \in places
      BY <2>3, <3>1, <3>2
    <3>4. ASSUME NEW i \in places
          PROVE  first - Start <= i
      <4>1. i \in Int /\ i + Start \in found
        BY <2>3, <2>4
      <4> HIDE DEF places, found
      <4>2. first <= i + Start
        BY <3>1, <4>1
      <4>3. first \in Nat
        BY <2>4, <3>1
      <4> QED
        BY <2>1, <4>1, <4>2, <4>3
    <3> HIDE DEF places, found
    <3> QED
      BY <2>5, <2>6, <2>7, <3>3, <3>4 DEF places
  <2>8. CASE found = {}
    BY <2>5, <2>6, <2>8
  <2> QED
    BY <2>7, <2>8
<1> QED
  BY <1>1, ByteBufferTypes, PTL
=============================================================================
