------------------------------ MODULE MCBrowser ------------------------------
(***************************************************************************)
(* An instance of Browser for TLC, with an id for each way in which the    *)
(* browser goes wrong.  12 is 0c in the answer, with a leading zero, and   *)
(* occurs inside 512; the id with the receipt 512 is not hexadecimal in    *)
(* the answer; 13 is more than Exact and becomes 12.  20 can be told apart *)
(* from all others, though it has a digit in common with 12 and 512.       *)
(***************************************************************************)
EXTENDS Browser, TLC

CONSTANTS i12, i13, i20, i512

Answers == (i12 :> <<0, 12>>) @@ (i13 :> <<13>>) @@ (i20 :> <<1, 4>>) @@ (i512 :> <<16, 3>>)
Receipts == (i12 :> <<1, 2>>) @@ (i13 :> <<1, 3>>) @@ (i20 :> <<2, 0>>) @@ (i512 :> <<5, 1, 2>>)
Symmetry == Permutations(Messages)
=============================================================================
