---------------------------- MODULE MCOutboundHub ----------------------------
(***************************************************************************)
(* The instance of OutboundHub that TLC checks: two browsers, two threads  *)
(* of the server, and messages, bytes and integers that are so small that  *)
(* the counter of the browser that sends most passes its limit.            *)
(***************************************************************************)
EXTENDS OutboundHub

CONSTANTS b1, b2        \* the browsers

\* Two sends that overlap may make it one more: the fifth is the second with a negative
\* counter.
FourAndOne == [b \in Browsers |-> IF b = b1 THEN 4 ELSE 1]
=============================================================================
