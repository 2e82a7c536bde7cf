------------------------- MODULE MCResponseHandler -------------------------
(***************************************************************************)
(* Instances of ResponseHandler for TLC.  The threads are interchangeable: *)
(* nothing but equality of threads is ever tested, so that symmetry is     *)
(* sound for the invariants.  It is not used where a liveness property or  *)
(* a refinement with fairness is checked.                                  *)
(***************************************************************************)
EXTENDS ResponseHandler

ThreadSymmetry == Permutations(Threads)
=============================================================================
