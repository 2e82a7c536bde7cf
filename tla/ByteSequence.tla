---------------------------- MODULE ByteSequence ----------------------------
(***************************************************************************)
(* What a ByteBuffer promises: it is a sequence of bytes, to whose end     *)
(* bytes are appended and from whose front they are read and removed.  A   *)
(* call that cannot be done changes nothing.                               *)
(*                                                                         *)
(* The history variable asked holds what the last call asked for, so that  *)
(* a behaviour shows which call each step is, and each call has one        *)
(* outcome.                                                                *)
(***************************************************************************)
EXTENDS Integers, Sequences

CONSTANT Byte

VARIABLES
    content,    \* the bytes in the buffer
    asked,      \* the last call, with the bytes it gave or the number of bytes it asked for
    returned    \* what the last call returned, empty if it returned nothing or threw

vars == <<content, asked, returned>>

Call(name, bytes, count) == [name |-> name, bytes |-> bytes, count |-> count]

\* A new buffer holds the bytes it is made with.
Init ==
    /\ content \in Seq(Byte)
    /\ asked = Call("new", content, 0)
    /\ returned = <<>>

AppendBytes(bytes) ==
    /\ asked' = Call("append", bytes, 0)
    /\ content' = content \o bytes
    /\ returned' = <<>>

\* A part of an array is appended that the array does not have.
AppendFails ==
    /\ asked' = Call("appendFails", <<>>, 0)
    /\ returned' = <<>>
    /\ UNCHANGED content

AppendSelf ==
    /\ asked' = Call("appendSelf", <<>>, 0)
    /\ content' = content \o content
    /\ returned' = <<>>

\* The first bytes, if there are so many.
Front(count) == IF count \in 1..Len(content) THEN SubSeq(content, 1, count) ELSE <<>>

Peek(count) ==
    /\ asked' = Call("peek", <<>>, count)
    /\ returned' = Front(count)
    /\ UNCHANGED content

Remove(count) ==
    /\ asked' = Call("remove", <<>>, count)
    /\ returned' = Front(count)
    /\ content' = IF count \in 1..Len(content)
                  THEN SubSeq(content, count + 1, Len(content))
                  ELSE content

Clear ==
    /\ asked' = Call("clear", <<>>, 0)
    /\ content' = <<>>
    /\ returned' = <<>>

\* A capacity is a matter of the implementation.
SetCapacity(value) ==
    /\ asked' = Call("capacity", <<>>, value)
    /\ returned' = <<>>
    /\ UNCHANGED content

\* The call is any: the next value of asked tells which.
Next ==
    \/ asked'.bytes \in Seq(Byte) /\ AppendBytes(asked'.bytes)
    \/ AppendFails
    \/ AppendSelf
    \/ asked'.count \in Int /\ (Peek(asked'.count) \/ Remove(asked'.count))
    \/ Clear
    \/ asked'.count \in Int /\ SetCapacity(asked'.count)

Spec == Init /\ [][Next]_vars
=============================================================================
