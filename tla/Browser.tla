------------------------------- MODULE Browser -------------------------------
(***************************************************************************)
(* A page of the application: both services, on the one SignalR connection *)
(* that the page opens when it is loaded (services/SignalRService.ts).     *)
(***************************************************************************)
EXTENDS OutboundService, InboxService

vars == <<outVars, inVars>>

Init == OutInit /\ InInit

Next ==
    \/ OutNext /\ UNCHANGED inVars
    \/ InNext /\ UNCHANGED outVars

Spec == Init /\ [][Next]_vars

TypeOK == OutTypeOK /\ InTypeOK
=============================================================================
