-------------------------- MODULE ActorConnections --------------------------
(***************************************************************************)
(* The connections of one actor where its handlers are called inline (the  *)
(* standalone topology, and each actor of the partition topology): the     *)
(* sockets of the generic connection drivers, the map of connections, the  *)
(* subscription index behind broadcasts, the persisted list of connections *)
(* and what a restart makes of it.                                         *)
(*                                                                         *)
(* An identifier is a fresh UUID, so each is used for one connection.  A   *)
(* JavaScript event loop runs a handler from one await to the next without *)
(* interruption: these stretches are the actions.                          *)
(***************************************************************************)
EXTENDS Integers, FiniteSets

CONSTANTS
    Conns,        \* connection identifiers
    Events,       \* event names
    MaxParsing,   \* bound: messages being parsed at a time
    MaxCrashes,   \* bound: restarts
    MaxFaults     \* bound: writes that fail and creations that throw

ASSUME ConstantsAssumption ==
    MaxParsing \in Nat /\ MaxCrashes \in Nat /\ MaxFaults \in Nat

Transports == {"websocket", "sse", "http"}

\* "lost" is a request whose process died; "failed" one that was refused;
\* "broken" one whose createConn threw after it had added the connection
Stages == {"new", "preparing", "open", "closed", "failed", "broken", "lost"}

Messages == [conn : Conns, event : Events, subscribe : BOOLEAN]

VARIABLES
    stage,         \* how far the request behind each connection has come
    transport,     \* its transport, once it has been made
    gone,          \* the clients that have left, or were closed by the server
    closing,       \* close events the server is still to handle
    parsing,       \* socket messages received and being parsed
    sockets,       \* keys of genericConnGlobalState.websockets and .sseStreams
    connections,   \* keys of #connections
    subscriptions, \* the subscriptions of each Conn object
    index,         \* #subscriptionIndex
    c,             \* ids in #persist.c
    su,            \* the su list of each persisted connection
    restored,      \* connections restored by the last start
    changed,       \* #persistChanged
    stored,        \* the connections, with su, as the driver holds them
    writing,       \* what the write in flight holds; stored, if there is none
    inFlight,      \* a write is in flight
    unsaved,       \* history: since the last write began, a write failed or a
                   \* list was changed unflagged
    crashes,
    faults

requests == <<stage, transport, gone, closing, parsing>>
memory == <<sockets, connections, subscriptions, index, c, su, changed>>
disk == <<restored, stored, writing, inFlight, crashes>>
vars == <<stage, transport, gone, closing, parsing, sockets, connections,
          subscriptions, index, c, su, restored, changed, stored, writing, inFlight,
          unsaved, crashes, faults>>

StoredConns == [ids : SUBSET Conns, su : [Conns -> SUBSET Events]]

(* Every variable has its type; a socket is registered only for an open or    *)
(* broken request, and close events and messages only wait for requests alive. *)
TypeOK ==
    /\ stage \in [Conns -> Stages]
    /\ transport \in [Conns -> Transports]
    /\ gone \subseteq Conns
    /\ closing \subseteq {k \in gone : stage[k] \in {"preparing", "open"}}
    /\ parsing \subseteq Messages
    /\ \A m \in parsing : /\ transport[m.conn] = "websocket"
                          /\ stage[m.conn] \in {"preparing", "open", "closed"}
    /\ sockets \subseteq {k \in Conns : stage[k] \in {"open", "broken"} /\ transport[k] # "http"}
    /\ connections \subseteq Conns
    /\ subscriptions \in [Conns -> SUBSET Events]
    /\ index \in [Events -> SUBSET Conns]
    /\ c \subseteq Conns
    /\ su \in [Conns -> SUBSET Events]
    /\ restored \subseteq Conns
    /\ changed \in BOOLEAN
    /\ stored \in StoredConns /\ writing \in StoredConns
    /\ inFlight \in BOOLEAN /\ unsaved \in BOOLEAN
    /\ crashes \in 0..MaxCrashes /\ faults \in 0..MaxFaults

\* An actor just created: #initialize has stored it with no connection.
Init ==
    /\ stage = [k \in Conns |-> "new"]
    /\ transport \in [Conns -> Transports]
    /\ gone = {} /\ closing = {} /\ parsing = {}
    /\ sockets = {} /\ connections = {}
    /\ subscriptions = [k \in Conns |-> {}]
    /\ index = [e \in Events |-> {}]
    /\ c = {} /\ su = [k \in Conns |-> {}]
    /\ restored = {} /\ changed = FALSE
    /\ stored = [ids |-> {}, su |-> [k \in Conns |-> {}]]
    /\ writing = stored /\ inFlight = FALSE /\ unsaved = FALSE
    /\ crashes = 0 /\ faults = 0

-----------------------------------------------------------------------------
(* The actor's operations on its connections.                                 *)
(*                                                                           *)
(* A definition named X_<defect> is X with a plausible defect, for the       *)
(* mutation runs only.                                                       *)

(* createConn and the topology's onOpen before it: the socket is registered,  *)
(* then the connection is added and its persisted record pushed through the   *)
(* change-tracking proxy.  The Conn keeps the raw record, not the proxy.      *)
createConn_RawPush(k) ==
    /\ sockets' = IF transport[k] = "http" THEN sockets ELSE sockets \cup {k}
    /\ connections' = connections \cup {k}
    /\ c' = c \cup {k}
    /\ UNCHANGED <<subscriptions, index, su, changed>>

createConn(k) ==
    /\ sockets' = IF transport[k] = "http" THEN sockets ELSE sockets \cup {k}
    /\ connections' = connections \cup {k}
    /\ c' = c \cup {k}
    /\ changed' = TRUE
    /\ UNCHANGED <<subscriptions, index, su>>

(* The subscription index once __removeConn has gone through the events of    *)
(* the Conn.                                                                 *)
RemoveFromIndex(k) ==
    [e \in Events |-> IF e \in subscriptions[k] THEN index[e] \ {k} ELSE index[e]]

removeConn_KeepsRecord(k) ==
    /\ sockets' = sockets \ {k}
    /\ connections' = connections \ {k}
    /\ index' = RemoveFromIndex(k)
    /\ UNCHANGED <<subscriptions, su, c, changed>>

removeConn_Unflagged(k) ==
    /\ sockets' = sockets \ {k}
    /\ connections' = connections \ {k}
    /\ c' = c \ {k}
    /\ index' = RemoveFromIndex(k)
    /\ UNCHANGED <<subscriptions, su, changed>>

(* __removeConn and the topology's onClose before it.  The Conn object keeps  *)
(* its subscriptions; a record already missing is only warned about.          *)
removeConn(k) ==
    /\ sockets' = sockets \ {k}
    /\ connections' = connections \ {k}
    /\ c' = c \ {k}
    /\ changed' = (changed \/ k \in c)
    /\ index' = RemoveFromIndex(k)
    /\ UNCHANGED <<subscriptions, su>>

(* Whether a change of a connection's own record raises #persistChanged.  A   *)
(* connection made in this life changes the raw record, unseen.  A restored   *)
(* one changes it through a proxy that knows its place in the list; the       *)
(* proxy ignores the change once a removal has moved the record, so either    *)
(* may happen.                                                                *)
FlagAfter(k) == IF k \in restored THEN {TRUE, changed} ELSE {changed}

addSubscription(k, e) ==
    /\ e \notin subscriptions[k]
    /\ subscriptions' = [subscriptions EXCEPT ![k] = @ \cup {e}]
    /\ su' = [su EXCEPT ![k] = @ \cup {e}]
    /\ index' = [index EXCEPT ![e] = @ \cup {k}]
    /\ changed' \in FlagAfter(k)
    /\ UNCHANGED <<sockets, connections, c>>

removeSubscription_DropsEvent(k, e) ==
    /\ e \in subscriptions[k]
    /\ subscriptions' = [subscriptions EXCEPT ![k] = @ \ {e}]
    /\ su' = [su EXCEPT ![k] = @ \ {e}]
    /\ index' = [index EXCEPT ![e] = {}]
    /\ changed' \in FlagAfter(k)
    /\ UNCHANGED <<sockets, connections, c>>

removeSubscription(k, e) ==
    /\ e \in subscriptions[k]
    /\ subscriptions' = [subscriptions EXCEPT ![k] = @ \ {e}]
    /\ su' = [su EXCEPT ![k] = @ \ {e}]
    /\ index' = [index EXCEPT ![e] = @ \ {k}]
    /\ changed' \in FlagAfter(k)
    /\ UNCHANGED <<sockets, connections, c>>

\* A subscription request; one that changes nothing is only logged.
processMessage(m) ==
    \/ m.subscribe /\ addSubscription(m.conn, m.event)
    \/ ~m.subscribe /\ removeSubscription(m.conn, m.event)
    \/ /\ m.subscribe <=> m.event \in subscriptions[m.conn]
       /\ UNCHANGED memory

\* Those that get a message sent by _broadcast: the drivers need a socket.
Recipients(e) == index[e] \cap sockets

-----------------------------------------------------------------------------
(* Requests *)

\* A handler of the topology is called: prepareConn is awaited.
Prepare(k) ==
    /\ stage[k] = "new"
    /\ stage' = [stage EXCEPT ![k] = "preparing"]
    /\ UNCHANGED <<transport, gone, closing, parsing, memory, disk, unsaved, faults>>

\* An HTTP action is a connection of its own, once its arguments are parsed.
handleAction(k) == transport[k] = "http" /\ Prepare(k)

Connect(k) == handleAction(k) \/ (transport[k] # "http" /\ Prepare(k))

(* prepareConn throws.  The web socket's handler promise is rejected, so its  *)
(* messages and its close event end in an error and reach nothing.            *)
PrepareFails(k) ==
    /\ stage[k] = "preparing"
    /\ stage' = [stage EXCEPT ![k] = "failed"]
    /\ closing' = closing \ {k}
    /\ parsing' = {m \in parsing : m.conn # k}
    /\ UNCHANGED <<transport, gone, memory, disk, unsaved, faults>>

\* onOpen, or the start of an HTTP action: whether or not the client is there.
Open(k) ==
    /\ stage[k] = "preparing"
    /\ stage' = [stage EXCEPT ![k] = "open"]
    /\ createConn(k)
    /\ UNCHANGED <<transport, gone, closing, parsing, disk, unsaved, faults>>

(* createConn throws after it has added the connection: the pushed record     *)
(* holds a value that cannot be stored, and nothing is flagged; or init could *)
(* not be sent.  onOpen rejects, the caller never learns of the connection,   *)
(* and whatever comes or ends on its socket reaches nothing.                  *)
OpenThrows(k) ==
    /\ stage[k] = "preparing"
    /\ faults < MaxFaults
    /\ faults' = faults + 1
    /\ stage' = [stage EXCEPT ![k] = "broken"]
    /\ gone' = gone \cup {k}
    /\ closing' = closing \ {k}
    /\ parsing' = {m \in parsing : m.conn # k}
    /\ sockets' = IF transport[k] = "http" THEN sockets ELSE sockets \cup {k}
    /\ connections' = connections \cup {k}
    /\ c' = c \cup {k}
    /\ \/ changed' = TRUE /\ UNCHANGED unsaved
       \/ unsaved' = TRUE /\ UNCHANGED changed
    /\ UNCHANGED <<transport, subscriptions, index, su, disk>>

(* A web socket's close event waits for onOpen.  The abort of an SSE request  *)
(* is heard only once its listener has been added, after onOpen.              *)
HearsClose_AfterOpen(k) == stage[k] = "open"

HearsClose(k) ==
    \/ transport[k] = "websocket" /\ stage[k] \in {"preparing", "open"}
    \/ transport[k] = "sse" /\ stage[k] = "open"

ClientLeaves(k) ==
    /\ transport[k] # "http"
    /\ stage[k] \in {"preparing", "open"} /\ k \notin gone
    /\ gone' = gone \cup {k}
    /\ closing' = IF HearsClose(k) THEN closing \cup {k} ELSE closing
    /\ UNCHANGED <<stage, transport, parsing, memory, disk, unsaved, faults>>

(* The server closes a web socket: conn.disconnect, a failed onConnect, or a  *)
(* message that does not parse.  (Disconnecting an SSE connection closes its  *)
(* stream and removes nothing; disconnecting an HTTP one is a no-op.)         *)
ServerCloses(k) ==
    /\ transport[k] = "websocket" /\ stage[k] = "open" /\ k \notin gone
    /\ gone' = gone \cup {k}
    /\ closing' = closing \cup {k}
    /\ UNCHANGED <<stage, transport, parsing, memory, disk, unsaved, faults>>

\* onClose of a web socket or an SSE stream, and the finally of an action.
OnClose(k) ==
    /\ stage[k] = "open"
    /\ k \in closing \/ transport[k] = "http"
    /\ stage' = [stage EXCEPT ![k] = "closed"]
    /\ closing' = closing \ {k}
    /\ removeConn(k)
    /\ UNCHANGED <<transport, gone, parsing, disk, unsaved, faults>>

\* A web socket frame comes in: onMessage awaits the handler and the parser.
Receive(m) ==
    /\ transport[m.conn] = "websocket"
    /\ stage[m.conn] \in {"preparing", "open"} /\ m.conn \notin gone
    /\ Cardinality(parsing) < MaxParsing
    /\ parsing' = parsing \cup {m}
    /\ UNCHANGED <<stage, transport, gone, closing, memory, disk, unsaved, faults>>

(* The message is parsed and handled with the connection its socket opened,   *)
(* which may have been removed since.  Binary frames that come as blobs are   *)
(* parsed in any order.                                                       *)
OnMessage(m) ==
    /\ m \in parsing
    /\ stage[m.conn] \in {"open", "closed"}
    /\ parsing' = parsing \ {m}
    /\ processMessage(m)
    /\ UNCHANGED <<stage, transport, gone, closing, disk, unsaved, faults>>

(* A posted message looks up its connection by id and is handled at once;     *)
(* with none, ConnNotFound is thrown.  A restored connection is found too.    *)
(* Only the init message tells a client its id and token.                     *)
OnConnMessage(m) ==
    /\ m.conn \in connections /\ stage[m.conn] # "broken"
    /\ processMessage(m)
    /\ UNCHANGED <<requests, disk, unsaved, faults>>

\* An SSE client posts its messages, each parsed on its own and in no order.
handleConnectionMessage(m) == transport[m.conn] = "sse" /\ OnConnMessage(m)

-----------------------------------------------------------------------------
(* Saves and restarts *)

(* #savePersistInner: the flag is cleared before the write, which holds the   *)
(* list as it is now.  How saves are triggered and queue for the lock is the  *)
(* subject of ActorPersistence.                                               *)
SaveStarts ==
    /\ changed /\ ~inFlight
    /\ changed' = FALSE /\ unsaved' = FALSE
    /\ inFlight' = TRUE
    /\ writing' = [ids |-> c, su |-> [k \in Conns |-> IF k \in c THEN su[k] ELSE {}]]
    /\ UNCHANGED <<requests, sockets, connections, subscriptions, index, c, su,
                   restored, stored, crashes, faults>>

SaveLands ==
    /\ inFlight
    /\ inFlight' = FALSE
    /\ stored' = writing
    /\ UNCHANGED <<requests, memory, restored, writing, unsaved, crashes, faults>>

(* The driver rejects.  Nothing flags the list again, and nothing retries. *)
SaveFails ==
    /\ inFlight
    /\ faults < MaxFaults
    /\ faults' = faults + 1
    /\ inFlight' = FALSE
    /\ writing' = stored
    /\ unsaved' = TRUE
    /\ UNCHANGED <<requests, memory, restored, stored, crashes>>

(* The index rebuilt by #initialize from the stored subscriptions.            *)
RestoredIndex == [e \in Events |-> {k \in stored.ids : e \in stored.su[k]}]

(* The process dies with its sockets and a new one loads the actor: every     *)
(* stored connection is made again, with its subscriptions.                   *)
Restart ==
    /\ crashes < MaxCrashes
    /\ crashes' = crashes + 1
    /\ stage' = [k \in Conns |-> IF stage[k] \in {"preparing", "open"} THEN "lost"
                                                                    ELSE stage[k]]
    /\ gone' = {} /\ closing' = {} /\ parsing' = {} /\ sockets' = {}
    /\ connections' = stored.ids /\ c' = stored.ids /\ restored' = stored.ids
    /\ subscriptions' = stored.su /\ su' = stored.su
    /\ index' = RestoredIndex
    /\ changed' = FALSE /\ unsaved' = FALSE
    /\ inFlight' = FALSE /\ writing' = stored
    /\ UNCHANGED <<transport, stored, faults>>

Next ==
    \/ \E k \in Conns : \/ Connect(k) \/ PrepareFails(k)
                        \/ Open(k) \/ OpenThrows(k)
                        \/ ClientLeaves(k) \/ ServerCloses(k) \/ OnClose(k)
    \/ \E m \in Messages : Receive(m) \/ OnMessage(m) \/ handleConnectionMessage(m)
    \/ SaveStarts \/ SaveLands \/ SaveFails \/ Restart

Spec == Init /\ [][Next]_vars

(* The event loop gets to every handler, the hooks of prepareConn settle, an  *)
(* action ends (it has a deadline), the saves asked for are begun and the     *)
(* driver answers.  What clients do is not fair.                              *)
Fairness ==
    /\ \A k \in Conns : /\ WF_vars(Open(k) \/ OpenThrows(k) \/ PrepareFails(k))
                        /\ WF_vars(OnClose(k))
    /\ \A m \in Messages : WF_vars(OnMessage(m))
    /\ WF_vars(SaveStarts) /\ WF_vars(SaveLands \/ SaveFails)

FairSpec == Spec /\ Fairness

-----------------------------------------------------------------------------
(* Properties *)

(* The map of connections and the persisted list name the same connections,   *)
(* and what is stored, or on its way to the driver, differs from them only    *)
(* while a save is due: no creation, removal, write or restart lets them      *)
(* drift apart.  (Not so after a write that failed or a creation that threw,  *)
(* until the next write begins.)                                              *)
PersistedInStep ==
    /\ connections = c
    /\ c # (IF inFlight THEN writing.ids ELSE stored.ids) => changed \/ unsaved

(* A broadcast reaches exactly the open web sockets and streams subscribed to *)
(* its event, whatever removals, late messages and restarts came before.      *)
BroadcastReachesSubscribers ==
    \A e \in Events :
        Recipients(e) = {k \in Conns : stage[k] = "open" /\ e \in subscriptions[k]}

(* A message posted by an SSE client finds its connection and subscribes it   *)
(* in one stretch, so no removed one is left in the index of subscribers.     *)
StreamSubscribersAreConnected ==
    \A e \in Events : \A k \in index[e] : transport[k] = "sse" => k \in connections

(* The index is right for every connection there is; ids not used yet, or     *)
(* refused, have left no trace; an action's connection subscribes to nothing. *)
OpenIsConnected ==
    \A k \in Conns : stage[k] = "open" => /\ k \in connections
                                          /\ transport[k] # "http" => k \in sockets

UnusedIsUnknown ==
    \A k \in Conns :
       /\ stage[k] \in {"new", "preparing", "failed"} =>
             k \notin connections \cup stored.ids \cup writing.ids
       /\ stage[k] \in {"new", "preparing", "failed", "broken"} =>
             /\ subscriptions[k] = {} /\ stored.su[k] = {} /\ writing.su[k] = {}
             /\ \A e \in Events : k \notin index[e]

IndexIsRight ==
    \A k \in connections : \A e \in Events : k \in index[e] <=> e \in subscriptions[k]

RecordsAreRight ==
    /\ subscriptions = su
    /\ \A k \in Conns : k \notin stored.ids => stored.su[k] = {}
    /\ \A k \in Conns : k \notin writing.ids => writing.su[k] = {}
    /\ \A k \in Conns : transport[k] = "http" =>
          subscriptions[k] = {} /\ stored.su[k] = {} /\ writing.su[k] = {}

WritingIsStored == ~inFlight => writing = stored

(* The inductive invariant: what makes a broadcast exact across openings,     *)
(* removals, late messages, saves and restarts.                               *)
IInv ==
    /\ TypeOK
    /\ PersistedInStep
    /\ StreamSubscribersAreConnected
    /\ OpenIsConnected
    /\ UnusedIsUnknown
    /\ IndexIsRight
    /\ RecordsAreRight
    /\ WritingIsStored

(* A connection that was removed, and whose removal is stored, never comes    *)
(* back, neither by a late message or write nor by a restart.                 *)
Buried(k) ==
    /\ stage[k] = "closed"
    /\ k \notin connections \cup stored.ids
    /\ inFlight => k \notin writing.ids

RemovedForGood == [][\A k \in Conns : Buried(k) => Buried(k)']_vars

(* A web socket closed by either side, at whatever moment of its opening,     *)
(* is removed from the actor unless the process dies first, or its creation   *)
(* threw: then the connection stays, which onClose knows nothing of.          *)
ClosedSocketsAreRemoved ==
    \A k \in Conns : (transport[k] = "websocket" /\ k \in gone)
                     ~> (k \notin connections \/ stage[k] \in {"broken", "lost"})

(* The connection made for an HTTP action does not outlive the action, unless *)
(* the process dies first.                                                    *)
ActionConnsAreRemoved ==
    \A k \in Conns : (transport[k] = "http" /\ stage[k] = "open")
                     ~> (k \notin connections \/ stage[k] = "lost")

(* A removal is stored in the end, unless a restart undid it before or a      *)
(* write failed (then it waits for the next change that is flagged).          *)
RemovalsAreSaved ==
    \A k \in Conns : stage[k] = "closed" ~> (k \notin stored.ids \/ k \in restored \/ unsaved)

(* "onDisconnect: called when a client disconnects", also of a connection     *)
(* whose creation threw.  Not so: see OpenThrows.                             *)
BrokenSocketsAreRemoved ==
    \A k \in Conns : stage[k] = "broken" ~> k \notin connections

(* "onDisconnect: called when a client disconnects": an SSE stream whose      *)
(* client left is removed as a web socket is.  Not so: the client may leave   *)
(* while prepareConn is awaited, before the abort listener is there.          *)
ClosedStreamsAreRemoved ==
    \A k \in Conns : (transport[k] = "sse" /\ k \in gone)
                     ~> ((stage[k] # "preparing" /\ k \notin connections) \/ stage[k] = "lost")

(* "Removes a connection and cleans up its resources": the index holds live   *)
(* connections only.  Not so for a web socket whose subscription was still    *)
(* being parsed when it closed.                                               *)
SubscribersAreConnected == \A e \in Events : index[e] \subseteq connections

(* "Persist subscriptions & save immediately".  Not so: the connection holds  *)
(* its raw record, so nothing marks the change and nothing saves it.          *)
SubscriptionsAreSaved ==
    \A k \in c \cap writing.ids : su[k] # writing.su[k] => changed \/ unsaved

=============================================================================
