----------------------------- MODULE OutboundHub -----------------------------
(***************************************************************************)
(* The hub that browsers call (OutboundHub.fs): a static map from SignalR  *)
(* connections to SMPP connections.  Every call makes a hub of its own, on *)
(* a thread of its own; the map is shared, immutable, and replaced by a    *)
(* changed one without a lock.                                             *)
(*                                                                         *)
(* The connection under the name of a browser is always the one that was   *)
(* made for it, so that the map is the set of the names in it.             *)
(***************************************************************************)
EXTENDS SmppConnection

VARIABLES
    connection,     \* OutboundHub.connection
    held,           \* per thread: the map it has read and is about to replace
    page,           \* per browser: "new", "open" (has called SetMode), "gone"
    spoilt,         \* history: browsers whose entry another one's write has changed
    late            \* history: browsers that were gone before their SetMode was done

hubVars == <<connection, held, page, spoilt, late>>
vars == <<threadVars, connectionVars, hubVars>>

Pc == {"idle", "create", "add", "addWrite", "contains", "dispose", "disposing", "remove", "removeWrite",
       "find", "check", "parts", "sendPart"}

TypeOK ==
    /\ ConnectionTypeOK
    /\ pc \in [Threads -> Pc]
    /\ browser \in [Threads -> Browsers \cup {Nobody}]
    /\ connection \subseteq Browsers
    /\ held \in [Threads -> SUBSET Browsers]
    /\ page \in [Browsers -> {"new", "open", "gone"}]
    /\ spoilt \subseteq Browsers
    /\ late \subseteq Browsers
    /\ \A b \in connection : client[b] # "none"

Init ==
    /\ ConnectionInit
    /\ pc = [t \in Threads |-> "idle"]
    /\ browser = [t \in Threads |-> Nobody]
    /\ connection = {}
    /\ held = [t \in Threads |-> {}]
    /\ page = [b \in Browsers |-> "new"]
    /\ spoilt = {}
    /\ late = {}

Begin(t, b, label) ==
    /\ pc[t] = "idle"
    /\ pc' = [pc EXCEPT ![t] = label]
    /\ browser' = [browser EXCEPT ![t] = b]

\* Replacing the map, which is not the one that was read when another thread has replaced
\* it since: what that one did to the entries of other browsers is undone.
Write(t, changed) ==
    /\ connection' = changed
    /\ spoilt' = spoilt \cup (((connection \ held[t]) \cup (held[t] \ connection)) \ {browser[t]})
    /\ held' = [held EXCEPT ![t] = {}]

(***************************************************************************)
(* SetMode, which a page calls once, when it is connected.                 *)
(***************************************************************************)
SetMode(t, b) ==
    /\ page[b] = "new"
    /\ Begin(t, b, "create")
    /\ page' = [page EXCEPT ![b] = "open"]
    /\ UNCHANGED <<connectionVars, connection, held, spoilt, late>>

\* Once the credentials have been fetched, a connection is made, whose client starts; the
\* browser may have gone by then.
CreateSMPPConnection(t) ==
    /\ Step(t, "create", "add")
    /\ client' = [client EXCEPT ![browser[t]] = "closed"]
    /\ UNCHANGED <<nextRef, refs, messageVars, hubVars>>

Add(t) ==
    /\ Step(t, "add", "addWrite")
    /\ held' = [held EXCEPT ![t] = connection]
    /\ UNCHANGED <<connectionVars, connection, page, spoilt, late>>

AddWrite(t) ==
    /\ Step(t, "addWrite", "idle")
    /\ Write(t, held[t] \cup {browser[t]})
    /\ UNCHANGED <<connectionVars, page, late>>

(***************************************************************************)
(* OnDisconnected.                                                         *)
(***************************************************************************)
OnDisconnected(t, b) ==
    /\ page[b] # "gone"
    /\ Begin(t, b, "contains")
    /\ page' = [page EXCEPT ![b] = "gone"]
    /\ UNCHANGED <<connectionVars, connection, held, spoilt, late>>

ContainsKey(t) ==
    /\ Step(t, "contains", IF browser[t] \in connection THEN "dispose" ELSE "idle")
    /\ late' = IF \E u \in Threads : pc[u] \in {"create", "add", "addWrite"} /\ browser[u] = browser[t]
               THEN late \cup {browser[t]} ELSE late
    /\ UNCHANGED <<connectionVars, connection, held, page, spoilt>>

\* Mutant: the entry is removed before the connection is looked up in the map.
LookUpRemoved(t) ==
    /\ Step(t, "dispose", "idle")
    /\ connection' = connection \ {browser[t]}
    /\ UNCHANGED <<connectionVars, held, page, spoilt, late>>

\* The look-up throws when the entry has been lost since ContainsKey.
LookUp(t) ==
    /\ Step(t, "dispose", IF browser[t] \in connection THEN "disposing" ELSE "idle")
    /\ UNCHANGED <<connectionVars, hubVars>>

Dispose(t) ==
    /\ Step(t, "disposing", "remove")
    /\ client' = [client EXCEPT ![browser[t]] = "disposed"]
    /\ UNCHANGED <<nextRef, refs, messageVars, hubVars>>

RemoveRead(t) ==
    /\ Step(t, "remove", "removeWrite")
    /\ held' = [held EXCEPT ![t] = connection]
    /\ UNCHANGED <<connectionVars, connection, page, spoilt, late>>

\* Mutant: the map is put back as it was read.
PutBack(t) ==
    /\ Step(t, "removeWrite", "idle")
    /\ Write(t, held[t])
    /\ UNCHANGED <<connectionVars, page, late>>

RemoveWrite(t) ==
    /\ Step(t, "removeWrite", "idle")
    /\ Write(t, held[t] \ {browser[t]})
    /\ UNCHANGED <<connectionVars, page, late>>

(***************************************************************************)
(* SendMessage.                                                            *)
(***************************************************************************)
SendMessage(t, b) ==
    /\ page[b] # "gone"
    /\ Len(refs[b]) < MaxMessages[b]
    /\ Begin(t, b, "find")
    /\ \E n \in Lengths : length' = [length EXCEPT ![t] = n]
    /\ UNCHANGED <<client, nextRef, refs, parts, sent, hubVars>>

\* A browser without an entry gets ("0", "Failed"), as does one that is not connected.
Find(t) ==
    /\ Step(t, "find", IF browser[t] \in connection THEN "check" ELSE "idle")
    /\ length' = IF browser[t] \in connection THEN length ELSE [length EXCEPT ![t] = 0]
    /\ UNCHANGED <<client, nextRef, refs, parts, sent, hubVars>>

Check(t) ==
    LET connected == client[browser[t]] = "connected"
    IN  /\ Step(t, "check", IF connected THEN "parts" ELSE "idle")
        /\ length' = IF connected THEN length ELSE [length EXCEPT ![t] = 0]
        /\ UNCHANGED <<client, nextRef, refs, parts, sent, hubVars>>

SendStep(t) ==
    /\ GetMessageParts(t) \/ SendPart(t) \/ SendEnds(t)
    /\ UNCHANGED hubVars

ThreadStep(t) ==
    \/ CreateSMPPConnection(t) \/ Add(t) \/ AddWrite(t)
    \/ ContainsKey(t) \/ LookUp(t) \/ Dispose(t) \/ RemoveRead(t) \/ RemoveWrite(t)
    \/ Find(t) \/ Check(t) \/ SendStep(t)

Next ==
    \/ \E t \in Threads, b \in Browsers : SetMode(t, b) \/ OnDisconnected(t, b) \/ SendMessage(t, b)
    \/ \E t \in Threads : ThreadStep(t)
    \/ \E b \in Browsers : (ClientConnects(b) \/ ClientCloses(b)) /\ UNCHANGED hubVars

\* The threads of the server run.
Fairness == \A t \in Threads : WF_vars(ThreadStep(t))

Spec == Init /\ [][Next]_vars /\ Fairness

(***************************************************************************)
(* Properties.                                                             *)
(***************************************************************************)

\* The connection of a browser that has gone is disposed of, if SetMode was done before
\* the browser went, and no other browser's write has changed its entry (OnDisconnected).
GoneIsDisposed ==
    \A b \in Browsers :
        (page[b] = "gone" /\ client[b] # "none")
            ~> (client[b] = "disposed" \/ b \in late \cup spoilt)

\* OnDisconnected does not return before the connection of its browser is disposed of,
\* unless SetMode was not done when it began or another browser's write has changed the
\* entry: no client is left connected that nobody can find any more.
LeftIsDisposed ==
    \A b \in Browsers :
        \/ page[b] # "gone"
        \/ client[b] \in {"none", "disposed"}
        \/ b \in late \cup spoilt
        \/ \E t \in Threads : browser[t] = b /\ pc[t] \in {"contains", "dispose", "disposing"}

\* No entry is left of a connection that is disposed of, but for the thread that is still
\* removing it and for entries that another browser's write has brought back.
DisposedIsRemoved ==
    \A b \in connection : client[b] = "disposed" =>
        \/ b \in spoilt
        \/ \E t \in Threads : browser[t] = b /\ pc[t] \in {"remove", "removeWrite"}
=============================================================================
