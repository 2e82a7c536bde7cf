---------------------------- MODULE MCSmppSession ----------------------------
(***************************************************************************)
(* The instances of SmppSession that TLC checks: one user, one thread of   *)
(* the pool and the parser.  The sets of threads are given in the .cfg     *)
(* files; the model needs no further bound, because a session is bound     *)
(* once.                                                                   *)
(***************************************************************************)
EXTENDS SmppSession
=============================================================================
