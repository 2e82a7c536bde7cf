---------------------------- MODULE MCSmppClient ----------------------------
(***************************************************************************)
(* Instances of SmppClient for TLC.                                        *)
(***************************************************************************)
EXTENDS SmppClientCalm, TLC

WorkerSymmetry == Permutations(Workers)
=============================================================================
