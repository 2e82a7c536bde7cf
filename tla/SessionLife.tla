----------------------------- MODULE SessionLife -----------------------------
(***************************************************************************)
(* What an SMPP session promises to whoever holds it (SmppClientSession),  *)
(* and what SmppClient relies on: it comes to life at most once, it ends   *)
(* at most once, whoever ends it and however many try, and it tells once   *)
(* that it has ended, unless its ending is cut short by an exception.      *)
(***************************************************************************)
EXTENDS Naturals

VARIABLES
    alive,      \* the session can be used
    ended,      \* how often it has ended
    told,       \* how often SessionClosed has been raised
    abandoned   \* the ending was cut short

vars == <<alive, ended, told, abandoned>>

Init ==
    /\ alive = FALSE
    /\ ended = 0
    /\ told = 0
    /\ abandoned = FALSE

Live ==
    /\ ~alive /\ ended = 0
    /\ alive' = TRUE
    /\ UNCHANGED <<ended, told, abandoned>>

End ==
    /\ alive
    /\ alive' = FALSE
    /\ ended' = ended + 1
    /\ UNCHANGED <<told, abandoned>>

Tell ==
    /\ told < ended /\ ~abandoned
    /\ told' = told + 1
    /\ UNCHANGED <<alive, ended, abandoned>>

GiveUp ==
    /\ told < ended /\ ~abandoned
    /\ abandoned' = TRUE
    /\ UNCHANGED <<alive, ended, told>>

Next == Live \/ End \/ Tell \/ GiveUp

\* A session that has ended tells so, sooner or later, or its ending was cut short.
Fairness == WF_vars(Tell \/ GiveUp)

Spec == Init /\ [][Next]_vars /\ Fairness
=============================================================================
