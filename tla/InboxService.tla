---------------------------- MODULE InboxService ----------------------------
(***************************************************************************)
(* The inbox in the browser (services/InboxService.ts): a list fetched     *)
(* once, when it is first looked at, to which messages are added as they   *)
(* arrive.                                                                 *)
(***************************************************************************)
EXTENDS Naturals

CONSTANT Inbound    \* the messages that people send to the user

VARIABLES
    inboxPromise,   \* "null", "pending", "resolved" or "rejected"
    requests,       \* the lists in the answers on their way, as the server read them
    messages,       \* InboxService.messages, empty while undefined
    defined,        \* messages is not undefined
    arrived         \* the messages the hub has pushed to this browser

inVars == <<inboxPromise, requests, messages, defined, arrived>>

InTypeOK ==
    /\ inboxPromise \in {"null", "pending", "resolved", "rejected"}
    /\ requests \subseteq SUBSET Inbound
    /\ messages \subseteq Inbound
    /\ defined \in BOOLEAN
    /\ defined = (inboxPromise = "resolved")
    /\ arrived \subseteq Inbound

InInit ==
    /\ inboxPromise = "null"
    /\ requests = {}
    /\ messages = {}
    /\ defined = FALSE
    /\ arrived = {}

\* Mutant: the promise is not kept.
GetMessagesAgain(list) ==
    /\ requests = {}
    /\ inboxPromise' = "pending"
    /\ requests' = {list}
    /\ UNCHANGED <<messages, defined, arrived>>

\* getMessages, which later visits to the inbox find done: the server answers with what it
\* has at the time.
GetMessages(list) ==
    /\ inboxPromise = "null"
    /\ inboxPromise' = "pending"
    /\ requests' = {list}
    /\ UNCHANGED <<messages, defined, arrived>>

Loaded(list) ==
    /\ list \in requests
    /\ requests' = {}
    /\ inboxPromise' = "resolved"
    /\ messages' = list
    /\ defined' = TRUE
    /\ UNCHANGED arrived

\* A rejected promise stays: the inbox is not fetched again until the page is.
LoadFails ==
    /\ requests # {}
    /\ requests' = {}
    /\ inboxPromise' = "rejected"
    /\ UNCHANGED <<messages, defined, arrived>>

\* A message that comes before the list is shown as a pop-up only.
MessageReceived(message) ==
    /\ message \notin arrived
    /\ arrived' = arrived \cup {message}
    /\ messages' = IF defined THEN messages \cup {message} ELSE messages
    /\ UNCHANGED <<inboxPromise, requests, defined>>

InNext ==
    \/ \E list \in SUBSET Inbound : GetMessages(list) \/ Loaded(list)
    \/ LoadFails
    \/ \E message \in Inbound : MessageReceived(message)

\* What the inbox has shown it goes on showing: a message pushed to it is not lost when
\* the inbox is opened again (getMessages keeps its promise).
NothingVanishes == [][messages \subseteq messages']_inVars
=============================================================================
