------------------------------ MODULE RustConn ------------------------------
(***************************************************************************)
(* ActorConnectionInner, the Rust client's connection to an actor: the     *)
(* connection task and its retry loop, the driver task of the open socket, *)
(* and the callers of action, on_event and disconnect, which share three   *)
(* tokio mutexes held across awaits.  A mutex that is held only between    *)
(* two awaits (in_flight_rpcs, disconnection_rx) makes its section one     *)
(* step.  A message is named by what it carries: an action's id in either  *)
(* direction, an event for a subscription or an event message, "init" for  *)
(* the first one of either side.  The server is that of the client's own   *)
(* protocol modules.                                                       *)
(***************************************************************************)
EXTENDS Naturals, Sequences, FiniteSets, SequencesExt

CONSTANTS
    Actions,    \* calls of action, each with its id
    Listeners,  \* calls of on_event
    Events,
    Capacity,   \* of the two mpsc channels of a driver (32)
    MaxFaults,  \* bound on refused dials, ended sockets, failed sends
    MaxEmits    \* bound on events the actor sends

ASSUME ConstantsAssumption ==
    /\ Capacity \in Nat \ {0} /\ MaxFaults \in Nat /\ MaxEmits \in Nat
    /\ Actions \cap Events = {} /\ Actions \cap Listeners = {}
    /\ {"init", "free", "main", "disc", "io"} \cap (Actions \cup Events \cup Listeners) = {}

Tasks == {"main", "disc"} \cup Actions \cup Listeners
Free == "free"
Msgs == Actions \cup Events

VARIABLES
    transport,
    pc,         \* where a task waits
    msg,        \* the message a task is in send_msg with
    driverLock, queueLock, subsLock,   \* who holds the mutex
    driver,     \* driver.is_some()
    msg_queue,
    in_flight,  \* in_flight_rpcs
    listeners,  \* the events with an entry in event_subscriptions
    todo,       \* events on_open has still to subscribe to
    did_open,
    task,       \* the driver task: "none", "running", "blocked" in in_tx.send, "ended"
    out, inbox, \* its channels
    wire,       \* on the socket, to the client
    subscribed, \* what the server's connection is subscribed to
    dc,         \* dc_watch
    shutdown,   \* the client was dropped: shutdown_rx
    rx,         \* disconnection_rx
    outcome,    \* of an action's caller
    lost,       \* history: actions whose request or answer was dropped by a fault or
                \* by the driver task, events whose subscription to this socket was
    faults, emits

mutexes == <<driverLock, queueLock, subsLock>>
calls == <<msg_queue, in_flight, outcome>>
socket == <<task, out, inbox, wire, subscribed>>
flags == <<dc, shutdown, rx>>
bounds == <<faults, emits>>
vars == <<transport, pc, msg, mutexes, driver, calls, listeners, todo, did_open, socket, flags,
          lost, bounds>>

Flags == driver \in BOOLEAN /\ did_open \in BOOLEAN /\ dc \in BOOLEAN /\ shutdown \in BOOLEAN

Data ==
    /\ transport \in {"websocket", "sse"}
    /\ pc \in [Tasks -> {"idle", "start", "dial", "set", "loop", "resubLock", "resub", "flushLock",
                         "flush", "event", "take", "backoff", "driver", "send", "queue", "wait",
                         "abort", "clear", "done"}]
    /\ msg \in [Tasks -> Msgs \cup {Free}]
    /\ \A l \in {driverLock, queueLock, subsLock} : l \in Tasks \cup {Free}
    /\ msg_queue \in Seq(Actions) /\ in_flight \subseteq Actions /\ lost \subseteq Msgs
    /\ listeners \subseteq Events /\ todo \subseteq Events /\ subscribed \subseteq Events
    /\ task \in {"none", "running", "blocked", "ended"}
    /\ out \in Seq(Msgs \cup {"init"}) /\ Len(out) <= Capacity
    /\ inbox \in Seq(Msgs \cup {"init"}) /\ Len(inbox) <= Capacity
    /\ wire \in Seq(Msgs \cup {"init"})
    /\ rx \in {"none", "some", "taken", "gone"}
    /\ outcome \in [Actions -> {"none", "pending", "answered", "closed"}]
    /\ faults \in 0..MaxFaults /\ emits \in 0..MaxEmits

TypeOK == Flags /\ Data

Init ==
    /\ transport \in {"websocket", "sse"}
    /\ pc = [p \in Tasks |-> IF p = "main" THEN "start" ELSE "idle"]
    /\ msg = [p \in Tasks |-> Free]
    /\ driverLock = Free /\ queueLock = Free /\ subsLock = Free
    /\ driver = FALSE /\ msg_queue = <<>> /\ in_flight = {} /\ listeners = {} /\ todo = {}
    /\ did_open = FALSE /\ task = "none"
    /\ out = <<>> /\ inbox = <<>> /\ wire = <<>> /\ subscribed = {}
    /\ dc = FALSE /\ shutdown = FALSE /\ rx = "none"
    /\ outcome = [a \in Actions |-> "none"] /\ lost = {}
    /\ faults = 0 /\ emits = 0

Fault == faults < MaxFaults /\ faults' = faults + 1 /\ UNCHANGED emits
Goto(p, label) == pc[p] # label /\ pc' = [pc EXCEPT ![p] = label]
ActionsIn(s) == ToSet(s) \cap Actions

-----------------------------------------------------------------------------
(* The connection task.  A definition named X_<defect> is X with a plausible  *)
(* defect, for the mutation runs only.                                        *)

\* start_connection's task: it leaves disconnection_rx for disconnect.
start_connection ==
    /\ pc["main"] = "start"
    /\ rx' = "some"
    /\ Goto("main", "dial")
    /\ UNCHANGED <<transport, msg, mutexes, driver, calls, listeners, todo, did_open,
                   socket, dc, shutdown, lost, bounds>>

\* After an attempt: 'keepalive ends on a disconnect, 'retry on an open socket.
AfterAttempt_NoCheck == IF did_open THEN "dial" ELSE "backoff"

AfterAttempt ==
    CASE dc -> "done"
      [] ~dc /\ did_open -> "dial"
      [] OTHER -> "backoff"

(* connect_driver: the driver task runs before the handle is stored.  Over a  *)
(* WebSocket the first message in its channel is an init, which the server    *)
(* answers; an event source begins with the server's.                         *)
connect_driver ==
    /\ pc["main"] = "dial"
    /\ task' = "running" /\ inbox' = <<>>
    /\ \/ transport = "websocket" /\ out' = <<"init">> /\ wire' = <<>>
       \/ transport = "sse" /\ out' = <<>> /\ wire' = <<"init">>
    /\ subscribed' = {} /\ did_open' = FALSE
    /\ lost' = lost \cap Actions
    /\ Goto("main", "set")
    /\ UNCHANGED <<transport, msg, mutexes, driver, calls, listeners, todo, flags, bounds>>

RefusedAttempt == IF dc THEN "done" ELSE "backoff"

ConnectFails ==
    /\ pc["main"] = "dial"
    /\ Fault
    /\ did_open' = FALSE
    /\ pc' = [pc EXCEPT !["main"] = RefusedAttempt]
    /\ rx' = IF RefusedAttempt = "done" THEN "gone" ELSE rx
    /\ UNCHANGED <<transport, msg, mutexes, driver, calls, listeners, todo, socket, dc,
                   shutdown, lost>>

SetDriver ==
    /\ pc["main"] = "set" /\ driverLock = Free
    /\ driver' = TRUE
    /\ Goto("main", "loop")
    /\ UNCHANGED <<transport, msg, mutexes, calls, listeners, todo, did_open, socket,
                   flags, lost, bounds>>

\* try_connect's select sees that the driver task has ended: what it had received is dropped.
TaskJoined ==
    /\ pc["main"] = "loop" /\ task = "ended"
    /\ lost' = lost \cup ActionsIn(inbox)
    /\ inbox' = <<>>
    /\ Goto("main", "take")
    /\ UNCHANGED <<transport, msg, mutexes, driver, calls, listeners, todo, did_open,
                   task, out, wire, subscribed, flags, bounds>>

\* 'destroy_driver, and what start_connection does after the attempt.
DestroyDriver ==
    /\ pc["main"] = "take" /\ driverLock = Free
    /\ driver' = FALSE /\ task' = "none"
    /\ Goto("main", AfterAttempt)
    /\ rx' = IF AfterAttempt = "done" THEN "gone" ELSE rx
    /\ UNCHANGED <<transport, msg, mutexes, calls, listeners, todo, did_open, out, inbox,
                   wire, subscribed, dc, shutdown, lost, bounds>>

\* Backoff::tick has passed, or one of the two signals has come first.
Backoff ==
    /\ pc["main"] = "backoff"
    /\ \/ pc' = [pc EXCEPT !["main"] = "dial"] /\ UNCHANGED rx
       \/ (dc \/ shutdown) /\ pc' = [pc EXCEPT !["main"] = "done"] /\ rx' = "gone"
    /\ UNCHANGED <<transport, msg, mutexes, driver, calls, listeners, todo, did_open,
                   socket, dc, shutdown, lost, bounds>>

\* on_message.
on_message ==
    /\ pc["main"] = "loop" /\ inbox # <<>>
    /\ inbox' = Tail(inbox)
    /\ LET m == Head(inbox) IN
       \/ /\ m = "init"
          /\ did_open' = TRUE
          /\ Goto("main", "resubLock")
          /\ UNCHANGED <<in_flight, outcome>>
       \/ /\ m \in Actions
          /\ in_flight' = in_flight \ {m}
          /\ outcome' = IF m \in in_flight THEN [outcome EXCEPT ![m] = "answered"] ELSE outcome
          /\ UNCHANGED <<pc, did_open>>
       \/ /\ m \in Events
          /\ Goto("main", "event")
          /\ UNCHANGED <<in_flight, outcome, did_open>>
    /\ UNCHANGED <<transport, msg, mutexes, driver, msg_queue, listeners, todo, task, out,
                   wire, subscribed, flags, lost, bounds>>

\* An event message: the callbacks run under the lock of event_subscriptions.
RunCallbacks ==
    /\ pc["main"] = "event" /\ subsLock = Free
    /\ Goto("main", "loop")
    /\ UNCHANGED <<transport, msg, mutexes, driver, calls, listeners, todo, did_open,
                   socket, flags, lost, bounds>>

-----------------------------------------------------------------------------
(* on_open: it holds event_subscriptions while it subscribes again, then      *)
(* msg_queue while it sends what is queued.                                   *)

ToResubscribe_FirstOnly == IF lost = {} /\ faults = 0 THEN listeners ELSE {}
ToResubscribe == listeners

LockSubscriptions ==
    /\ pc["main"] = "resubLock" /\ subsLock = Free
    /\ subsLock' = "main" /\ todo' = ToResubscribe
    /\ Goto("main", "resub")
    /\ UNCHANGED <<transport, msg, driverLock, queueLock, driver, calls, listeners,
                   did_open, socket, flags, lost, bounds>>

Resubscribe ==
    /\ pc["main"] = "resub"
    /\ \/ \E e \in todo :
            /\ todo' = todo \ {e}
            /\ msg' = [msg EXCEPT !["main"] = e]
            /\ Goto("main", "driver")
            /\ UNCHANGED subsLock
       \/ /\ todo = {} /\ subsLock' = Free
          /\ Goto("main", "flushLock")
          /\ UNCHANGED <<todo, msg>>
    /\ UNCHANGED <<transport, driverLock, queueLock, driver, calls, listeners, did_open,
                   socket, flags, lost, bounds>>

LockQueue ==
    /\ pc["main"] = "flushLock" /\ queueLock = Free
    /\ queueLock' = "main"
    /\ Goto("main", "flush")
    /\ UNCHANGED <<transport, msg, driverLock, subsLock, driver, calls, listeners, todo,
                   did_open, socket, flags, lost, bounds>>

Flush ==
    /\ pc["main"] = "flush"
    /\ \/ /\ msg_queue # <<>>
          /\ msg' = [msg EXCEPT !["main"] = Head(msg_queue)]
          /\ msg_queue' = Tail(msg_queue)
          /\ Goto("main", "driver")
          /\ UNCHANGED queueLock
       \/ /\ msg_queue = <<>> /\ queueLock' = Free
          /\ Goto("main", "loop")
          /\ UNCHANGED <<msg, msg_queue>>
    /\ UNCHANGED <<transport, driverLock, subsLock, driver, in_flight, outcome, listeners,
                   todo, did_open, socket, flags, lost, bounds>>

-----------------------------------------------------------------------------
(* send_msg, by whichever task: it holds the driver while it waits for room   *)
(* in the channel and, when the message is to be queued, for msg_queue.       *)

\* Where the task goes on after send_msg, and the lock it then drops.
Sent(p) ==
    /\ driverLock' = Free
    /\ msg' = [msg EXCEPT ![p] = Free]
    /\ subsLock' = IF p \in Listeners THEN Free ELSE subsLock
    /\ Goto(p, CASE p \in Actions -> "wait"
                 [] p \in Listeners -> "done"
                 [] p = "main" /\ msg[p] \in Events -> "resub"
                 [] OTHER -> "flush")

LockDriver(p) ==
    /\ pc[p] = "driver" /\ driverLock = Free
    /\ driverLock' = p
    /\ Goto(p, "send")
    /\ UNCHANGED <<transport, msg, queueLock, subsLock, driver, calls, listeners, todo,
                   did_open, socket, flags, lost, bounds>>

HasReceiver == driver /\ task \in {"running", "blocked"}

DriverSend(p) ==
    /\ pc[p] = "send" /\ HasReceiver /\ Len(out) < Capacity
    /\ out' = Append(out, msg[p])
    /\ Sent(p)
    /\ UNCHANGED <<transport, queueLock, driver, calls, listeners, todo, did_open, task,
                   inbox, wire, subscribed, flags, lost, bounds>>

\* No driver, or its task has ended: a subscription is ephemeral, an action is queued.
SendFails_Drops(p) ==
    /\ pc[p] = "send" /\ ~HasReceiver
    /\ Sent(p)
    /\ UNCHANGED <<transport, queueLock, driver, calls, listeners, todo, did_open, socket,
                   flags, lost, bounds>>

SendFails_TrySend(p) ==
    /\ pc[p] = "send" /\ (~HasReceiver \/ Len(out) = Capacity)
    /\ IF msg[p] \in Events
       THEN Sent(p)
       ELSE Goto(p, "queue") /\ UNCHANGED <<msg, driverLock, subsLock>>
    /\ UNCHANGED <<transport, queueLock, driver, calls, listeners, todo, did_open, socket,
                   flags, lost, bounds>>

SendFails(p) ==
    /\ pc[p] = "send" /\ ~HasReceiver
    /\ IF msg[p] \in Events
       THEN Sent(p)
       ELSE Goto(p, "queue") /\ UNCHANGED <<msg, driverLock, subsLock>>
    /\ UNCHANGED <<transport, queueLock, driver, calls, listeners, todo, did_open, socket,
                   flags, lost, bounds>>

QueueMsg(p) ==
    /\ pc[p] = "queue" /\ queueLock = Free
    /\ msg_queue' = Append(msg_queue, msg[p])
    /\ Sent(p)
    /\ UNCHANGED <<transport, queueLock, driver, in_flight, outcome, listeners, todo,
                   did_open, socket, flags, lost, bounds>>

-----------------------------------------------------------------------------
(* The callers.                                                               *)

action(a) ==
    /\ pc[a] = "idle"
    /\ in_flight' = in_flight \cup {a}
    /\ outcome' = [outcome EXCEPT ![a] = "pending"]
    /\ msg' = [msg EXCEPT ![a] = a]
    /\ Goto(a, "driver")
    /\ UNCHANGED <<transport, mutexes, driver, msg_queue, listeners, todo, did_open,
                   socket, flags, lost, bounds>>

\* add_event_subscription: a new event is subscribed to with event_subscriptions locked.
on_event(l) ==
    /\ pc[l] = "idle" /\ subsLock = Free
    /\ \E e \in Events :
         /\ listeners' = listeners \cup {e}
         /\ IF e \in listeners
            THEN Goto(l, "done") /\ UNCHANGED <<msg, subsLock>>
            ELSE /\ subsLock' = l
                 /\ msg' = [msg EXCEPT ![l] = e]
                 /\ Goto(l, "driver")
    /\ UNCHANGED <<transport, driverLock, queueLock, driver, calls, todo, did_open,
                   socket, flags, lost, bounds>>

disconnect ==
    /\ pc["disc"] = "idle"
    /\ dc' = TRUE
    /\ Goto("disc", "abort")
    /\ UNCHANGED <<transport, msg, mutexes, driver, calls, listeners, todo, did_open,
                   socket, shutdown, rx, lost, bounds>>

\* What ends with the driver task: the messages in its channel and on its socket.
TaskGone ==
    /\ task' = "ended" /\ out' = <<>> /\ wire' = <<>>
    /\ lost' = lost \cup ActionsIn(out) \cup ActionsIn(wire)

AbortDriver ==
    /\ pc["disc"] = "abort" /\ driverLock = Free
    /\ IF driver /\ task \in {"running", "blocked"}
       THEN TaskGone
       ELSE UNCHANGED <<task, out, wire, lost>>
    /\ in_flight' = {}
    /\ outcome' = [a \in Actions |-> IF a \in in_flight THEN "closed" ELSE outcome[a]]
    /\ Goto("disc", "clear")
    /\ UNCHANGED <<transport, msg, mutexes, driver, msg_queue, listeners, todo, did_open,
                   inbox, subscribed, flags, bounds>>

ClearSubscriptions ==
    /\ pc["disc"] = "clear" /\ subsLock = Free
    /\ listeners' = {}
    /\ rx' = IF rx = "some" THEN "taken" ELSE rx
    /\ Goto("disc", IF rx = "some" THEN "wait" ELSE "done")
    /\ UNCHANGED <<transport, msg, mutexes, driver, calls, todo, did_open, socket, dc,
                   shutdown, lost, bounds>>

DisconnectReturn ==
    /\ pc["disc"] = "wait" /\ rx = "gone"
    /\ Goto("disc", "done")
    /\ UNCHANGED <<transport, msg, mutexes, driver, calls, listeners, todo, did_open,
                   socket, flags, lost, bounds>>

\* The Client is dropped, or disconnected.  The signal is kept until the next backoff
\* reads it and does nothing else, so it is given while there is one.
ClientDrop ==
    /\ pc["main"] = "backoff" /\ ~shutdown /\ shutdown' = TRUE
    /\ UNCHANGED <<transport, pc, msg, mutexes, driver, calls, listeners, todo, did_open,
                   socket, dc, rx, lost, bounds>>

-----------------------------------------------------------------------------
(* The driver task and the server at the other end.                           *)

\* An event source sends nothing before its handshake is done.
Handshaken == transport = "websocket" \/ "init" \notin ToSet(wire)

\* The server subscribes the connection, or answers an init or an action.
Arrives(m) ==
    IF m \in Events
    THEN subscribed' = subscribed \cup {m} /\ UNCHANGED wire
    ELSE wire' = Append(wire, m) /\ UNCHANGED subscribed

TaskSends ==
    /\ task = "running" /\ out # <<>> /\ Handshaken
    /\ out' = Tail(out)
    /\ Arrives(Head(out))
    /\ UNCHANGED <<transport, pc, msg, mutexes, driver, calls, listeners, todo, did_open,
                   task, inbox, flags, lost, bounds>>

\* A send or a post that fails is logged, and its message is gone; a post may have arrived.
SendErrs ==
    /\ task = "running" /\ out # <<>> /\ Handshaken
    /\ Fault
    /\ out' = Tail(out) /\ lost' = lost \cup ({Head(out)} \cap Msgs)
    /\ \/ transport = "sse" /\ Arrives(Head(out))
       \/ UNCHANGED <<wire, subscribed>>
    /\ UNCHANGED <<transport, pc, msg, mutexes, driver, calls, listeners, todo, did_open,
                   task, inbox, flags>>

\* A message that cannot be deserialized is skipped: an answer without output, in JSON.
TaskSkips ==
    /\ task = "running" /\ wire # <<>> /\ Head(wire) \in Actions
    /\ wire' = Tail(wire) /\ lost' = lost \cup {Head(wire)}
    /\ UNCHANGED <<transport, pc, msg, mutexes, driver, calls, listeners, todo, did_open,
                   task, out, inbox, subscribed, flags, bounds>>

\* Receiving blocks the whole task while the inbox is full.
TaskReceives ==
    /\ task \in {"running", "blocked"} /\ wire # <<>>
    /\ IF Len(inbox) < Capacity
       THEN task' = "running" /\ inbox' = Append(inbox, Head(wire)) /\ wire' = Tail(wire)
       ELSE task = "running" /\ task' = "blocked" /\ UNCHANGED <<inbox, wire>>
    /\ UNCHANGED <<transport, pc, msg, mutexes, driver, calls, listeners, todo, did_open,
                   out, subscribed, flags, lost, bounds>>

\* The server, or the network, ends the socket.
SocketEnds ==
    /\ task = "running"
    /\ Fault
    /\ TaskGone
    /\ UNCHANGED <<transport, pc, msg, mutexes, driver, calls, listeners, todo, did_open,
                   inbox, subscribed, flags>>

Emit(e) ==
    /\ task \in {"running", "blocked"} /\ e \in subscribed
    /\ emits < MaxEmits /\ emits' = emits + 1
    /\ wire' = Append(wire, e)
    /\ UNCHANGED <<transport, pc, msg, mutexes, driver, calls, listeners, todo, did_open,
                   task, out, inbox, subscribed, flags, lost, faults>>

-----------------------------------------------------------------------------
MainStep ==
    \/ start_connection \/ connect_driver \/ SetDriver \/ TaskJoined \/ DestroyDriver
    \/ Backoff \/ on_message \/ RunCallbacks \/ LockSubscriptions \/ Resubscribe \/ LockQueue \/ Flush
SendStep(p) == LockDriver(p) \/ DriverSend(p) \/ SendFails(p) \/ QueueMsg(p)
DisconnectStep == AbortDriver \/ ClearSubscriptions \/ DisconnectReturn

Next ==
    \/ MainStep \/ ConnectFails
    \/ \E p \in Tasks \ {"disc"} : SendStep(p)
    \/ \E a \in Actions : action(a)
    \/ \E l \in Listeners : on_event(l)
    \/ disconnect \/ DisconnectStep \/ ClientDrop
    \/ TaskSends \/ SendErrs \/ TaskReceives \/ TaskSkips \/ SocketEnds
    \/ \E e \in Events : Emit(e)

(* The runtime polls every task that can go on, and a tokio mutex is handed   *)
(* over in the order of the requests.  No fairness for the network's faults,  *)
(* nor for the calls.                                                         *)
Spec ==
    /\ Init /\ [][Next]_vars
    /\ WF_vars(MainStep)
    /\ \A p \in Tasks \ {"disc"} : WF_vars(SendStep(p))
    /\ WF_vars(DisconnectStep)
    /\ WF_vars(TaskReceives \/ TaskSkips \/ TaskSends)

-----------------------------------------------------------------------------
(* Properties.                                                                *)

Holder(lock) ==
    CASE lock = "driver" -> driverLock
      [] lock = "queue" -> queueLock
      [] OTHER -> subsLock

\* The mutex a task cannot go on without.
Needs(p) ==
    CASE pc[p] \in {"driver", "set", "take", "abort"} -> {"driver"}
      [] pc[p] \in {"queue", "flushLock"} -> {"queue"}
      [] pc[p] \in {"event", "resubLock", "clear"} -> {"subs"}
      [] OTHER -> {}

Full(channel) == Len(channel) = Capacity

\* Who waits for whom; "io" is the driver task, which waits for its inbox to be read.
WaitsFor(p, q) ==
    \/ p \in Tasks /\ \E l \in Needs(p) : Holder(l) = q
    \/ p \in Tasks /\ pc[p] = "send" /\ HasReceiver /\ Full(out) /\ q = "io"
    \/ p = "io" /\ task = "blocked" /\ Full(inbox) /\ q = "main"
Waiting == {p \in Tasks \cup {"io"} : \E q \in Tasks \cup {"io"} : WaitsFor(p, q)}
Deadlocked == \E S \in (SUBSET Waiting) \ {{}} : \A p \in S : \E q \in S : WaitsFor(p, q)

(* The tasks take msg_queue while they hold driver, and on_open takes driver  *)
(* while it holds msg_queue.  They come to a deadlock only in the two cases   *)
(* known: the driver task has ended under on_open, or both of its channels    *)
(* are full.                                                                  *)
DeadlockNeedsADeadDriver ==
    Deadlocked => task = "ended" \/ (Full(out) /\ Full(inbox))

(* A call of action that waits can still be answered - its message is on the  *)
(* way, or queued for the next socket - unless a fault dropped it, or the     *)
(* driver task skipped an answer it could not read.                           *)
Kept(a) ==
    \/ a \in lost
    \/ a \in ToSet(msg_queue) \cup ToSet(out) \cup ToSet(wire) \cup ToSet(inbox)
    \/ \E p \in Tasks : msg[p] = a
PendingIsNotDropped == \A a \in Actions : outcome[a] = "pending" => Kept(a)

(* On an open socket the server sends every event that has a listener: what   *)
(* was subscribed to on another socket, or while there was none, as well -    *)
(* unless sending that very subscription on this socket has failed.           *)
SubscribedOnEverySocket ==
    pc["main"] = "loop" /\ did_open /\ task = "running" =>
        listeners \subseteq subscribed \cup ToSet(out) \cup {msg[p] : p \in Tasks} \cup lost

(* disconnect, once the driver task is gone, returns: the connection task     *)
(* does not connect again.                                                    *)
DisconnectEnds ==
    (pc["disc"] \in {"clear", "wait"} /\ task = "ended") ~> (pc["disc"] = "done" \/ Deadlocked)

(* What the code does not do: without any fault a call waits for ever when    *)
(* its answer cannot be read, and a failed send of a subscription leaves an   *)
(* open socket with a listener that hears nothing.                            *)
EveryCallCanBeAnswered == \A a \in Actions : outcome[a] = "pending" => a \notin lost
EveryListenerIsSubscribed == did_open /\ task = "running" => listeners \cap lost = {}

-----------------------------------------------------------------------------
(* The inductive invariant behind the theorems of RustConnProofs.             *)

Sending == {"driver", "send", "queue"}

\* Which waits belong to which task, and what it is sending then.
PlacesFit ==
    /\ pc["main"] \in {"start", "dial", "set", "loop", "resubLock", "resub", "flushLock", "flush",
                       "event", "take", "backoff", "done"} \cup Sending
    /\ pc["disc"] \in {"idle", "abort", "clear", "wait", "done"}
    /\ \A a \in Actions : pc[a] \in {"idle", "wait"} \cup Sending
    /\ \A l \in Listeners : pc[l] \in {"idle", "done", "driver", "send"}

MessagesFit ==
    /\ \A p \in Tasks : msg[p] # Free <=> pc[p] \in Sending
    /\ \A p \in Tasks : pc[p] = "queue" => msg[p] \in Actions
    /\ \A a \in Actions : msg[a] \in {Free, a}
    /\ \A l \in Listeners : msg[l] \in {Free} \cup Events

\* Who holds the mutexes.
LocksFit ==
    /\ \A p \in Tasks : driverLock = p <=> pc[p] \in {"send", "queue"}
    /\ queueLock \in {Free, "main"}
    /\ queueLock = "main" <=> pc["main"] = "flush" \/ msg["main"] \in Actions
    /\ subsLock = "main" <=> pc["main"] = "resub" \/ msg["main"] \in Events
    /\ \A l \in Listeners : subsLock = l <=> pc[l] \in Sending
    /\ subsLock \in {Free, "main"} \cup Listeners

\* The driver, its task and its channels, by where the connection task is.
DriverFits ==
    /\ driver => task # "none"
    /\ pc["main"] \in {"start", "dial", "backoff", "done"} => ~driver /\ task = "none"
    /\ pc["main"] = "set" => ~driver /\ ~did_open /\ task # "none"
    /\ pc["main"] = "take" => task = "ended"
    /\ pc["main"] \in {"loop", "event", "resubLock", "resub", "flushLock", "flush", "take"} \cup Sending
          => driver
    /\ pc["main"] \in {"start", "dial", "backoff", "done", "take"} => inbox = <<>>
    /\ task \in {"none", "ended"} => out = <<>> /\ wire = <<>>

\* A message is put in the queue only when no driver task will come to take it.
QueuedForLater == \A p \in Tasks : pc[p] = "queue" => ~HasReceiver

InFlight == \A a \in Actions : outcome[a] = "pending" <=> a \in in_flight

\* What an open socket is subscribed to or will be.
Known(e) ==
    e \in subscribed \/ e \in ToSet(out) \/ e \in todo \/ e \in lost \/ \E p \in Tasks : msg[p] = e

Resubscribed ==
    did_open /\ task \in {"running", "blocked"} /\ pc["main"] # "resubLock" =>
        \A e \in listeners : Known(e)

TodoFits == todo # {} => subsLock = "main"

IInv ==
    /\ TypeOK /\ PlacesFit /\ MessagesFit /\ LocksFit /\ DriverFits /\ QueuedForLater
    /\ InFlight /\ PendingIsNotDropped /\ Resubscribed /\ TodoFits
=============================================================================
