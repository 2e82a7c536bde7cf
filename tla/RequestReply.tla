---------------------------- MODULE RequestReply ----------------------------
(***************************************************************************)
(* What the response matching of an SMPP session promises to a caller of   *)
(* SmppClientSession.SendPdu, without queues, locks or sequence numbers.   *)
(*                                                                         *)
(* A call is issued, and ends exactly once: it returns the response the    *)
(* SMSC gave to this very call, or it throws a time-out.  It may throw     *)
(* only after its wait has expired, and never when its response was handed *)
(* over before that.                                                       *)
(***************************************************************************)
EXTENDS Naturals

CONSTANT MaxCalls        \* bound on the number of calls

Calls == 1..MaxCalls

VARIABLES
    outcome,    \* what the caller has seen: "none", "pending", "answered" or "timedOut"
    reply,      \* the call whose response was returned, 0 for none
    arrived,    \* the calls for which a response has been read from the connection
    handled,    \* the calls whose response was handed over before the wait expired
    expired     \* the calls whose wait has expired

vars == <<outcome, reply, arrived, handled, expired>>

TypeOK ==
    /\ outcome \in [Calls -> {"none", "pending", "answered", "timedOut"}]
    /\ reply \in [Calls -> 0..MaxCalls]
    /\ arrived \subseteq Calls
    /\ handled \subseteq arrived
    /\ expired \subseteq Calls

Init ==
    /\ outcome = [c \in Calls |-> "none"]
    /\ reply = [c \in Calls |-> 0]
    /\ arrived = {}
    /\ handled = {}
    /\ expired = {}

Issue(c) ==
    /\ outcome[c] = "none"
    /\ outcome' = [outcome EXCEPT ![c] = "pending"]
    /\ UNCHANGED <<reply, arrived, handled, expired>>

Arrive(c) ==
    /\ outcome[c] # "none"
    /\ arrived' = arrived \cup {c}
    /\ UNCHANGED <<outcome, reply, handled, expired>>

HandOver(c) ==
    /\ c \in arrived \ expired
    /\ handled' = handled \cup {c}
    /\ UNCHANGED <<outcome, reply, arrived, expired>>

Expire(c) ==
    /\ outcome[c] = "pending"
    /\ expired' = expired \cup {c}
    /\ UNCHANGED <<outcome, reply, arrived, handled>>

Return(c) ==
    /\ outcome[c] = "pending"
    /\ c \in arrived
    /\ outcome' = [outcome EXCEPT ![c] = "answered"]
    /\ reply' = [reply EXCEPT ![c] = c]
    /\ UNCHANGED <<arrived, handled, expired>>

Throw(c) ==
    /\ outcome[c] = "pending"
    /\ c \in expired \ handled
    /\ outcome' = [outcome EXCEPT ![c] = "timedOut"]
    /\ UNCHANGED <<reply, arrived, handled, expired>>

Next ==
    \E c \in Calls :
        \/ Issue(c)
        \/ Arrive(c)
        \/ HandOver(c)
        \/ Expire(c)
        \/ Return(c)
        \/ Throw(c)

\* A call never waits for ever: its wait expires if nothing else happens.
Fairness == \A c \in Calls : WF_vars(Expire(c) \/ Return(c) \/ Throw(c))

Spec == Init /\ [][Next]_vars /\ Fairness
=============================================================================
