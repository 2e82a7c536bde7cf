--------------------------- MODULE MCByteBuffer ---------------------------
(***************************************************************************)
(* Instances of ByteBuffer for TLC.                                        *)
(***************************************************************************)
EXTENDS ByteBuffer

AllInputs == UNION {[1..n -> Byte] : n \in 0..2}
===========================================================================
