---------------------------- MODULE ClientConn -----------------------------
(***************************************************************************)
(* ActorConnRaw, the TypeScript client's connection to an actor, over the  *)
(* WebSockets or event streams it opens one after another: the retry loop, *)
(* the message queue, actions in flight, event subscriptions, dispose.     *)
(* The server's side of a socket is what the rest of the project models,   *)
(* seen from the client.  Listeners of one event differ only in "once".    *)
(***************************************************************************)
EXTENDS Naturals, Sequences, FiniteSets, SequencesExt

CONSTANTS
    Sockets,      \* sockets; one that has ended is used again
    Events,
    None,
    MaxActions,   \* bound on calls of action
    MaxCalls,     \* bound on calls that send: action, on, once, unsubscribe
    MaxFaults     \* bound on failed dials, refused and dropped sockets, lost answers
                  \* and late acks

ASSUME ConstantsAssumption ==
    /\ IsFiniteSet(Sockets) /\ None \notin Sockets /\ IsFiniteSet(Events)
    /\ MaxActions \in Nat /\ MaxCalls \in Nat /\ MaxFaults \in Nat

ActionIds == 0..(MaxActions - 1)                \* #actionIdCounter counts from 0
Requests == [b : {"ar"}, i : ActionIds]
ToServer == Requests \cup [b : {"sr"}, e : Events, s : BOOLEAN]
ToClient == [b : {"i", "e", "close"}] \cup [b : {"ok", "error"}, i : ActionIds]
                \cup [b : {"ev"}, e : Events]

VARIABLES
    transport, encoding,  \* the options of the client
    socket,      \* #transport
    connecting,  \* #connecting
    retry,       \* where pRetry(#connectAndWait) is
    promise,     \* #onOpenPromise, while the driver is dialling
    queue,       \* #messageQueue
    outcome,     \* #actionsInFlight ("pending") and what became of the others
    listeners,   \* #eventSubscriptions
    conn,        \* the connection of the last init message
    started, disposed,
    ready,       \* readyState of a socket
    server,      \* the connection at the other end of a socket
    down, up,    \* messages to the client, messages to the server, of a socket
    posts,       \* HTTP messages under way, each with its connection
    subs,        \* what the server's connection is subscribed to
    heard,       \* what was handled of the messages to a socket's connection
    ran,         \* history: how often the actor ran each action
    late,        \* history: acks that came too late, so that a message was repeated
    thrown,      \* history: the retry loop has ended with an error nobody handles
    calls,
    faults

loop == <<connecting, retry, promise>>
options == <<transport, encoding>>
wire == <<ready, server, down, up, posts, subs>>
record == <<heard, late, thrown>>
history == <<ran, faults, record>>
vars == <<options, socket, loop, queue, outcome, listeners, conn, started, disposed, calls,
          wire, history>>

Flags ==
    /\ connecting \in BOOLEAN /\ started \in BOOLEAN /\ disposed \in BOOLEAN
    /\ thrown \in BOOLEAN

Data ==
    /\ transport \in {"websocket", "sse"} /\ encoding \in {"json", "cbor"}
    /\ socket \in Sockets \cup {None} /\ conn \in Sockets \cup {None}
    /\ retry \in {"idle", "dialing", "waiting", "backoff"}
    /\ promise \in {"pending", "resolved", "rejected"}
    /\ queue \in Seq(Requests)
    /\ outcome \in [ActionIds -> {"none", "pending", "ok", "error"}]
    /\ listeners \in [Events -> SUBSET {"on", "once"}]
    /\ ready \in [Sockets -> {"unused", "connecting", "open", "closing", "closed"}]
    /\ server \in [Sockets -> {"none", "up", "down"}]
    /\ down \in [Sockets -> Seq(ToClient)] /\ up \in [Sockets -> Seq(ToServer)]
    /\ posts \subseteq [m : ToServer, to : Sockets]
    /\ subs \in [Sockets -> SUBSET Events]
    /\ heard \in [Sockets -> SUBSET ToServer]
    /\ ran \in [ActionIds -> 0..(MaxFaults + 1)]
    /\ faults \in 0..MaxFaults /\ late \in 0..faults
    /\ calls \in 0..MaxCalls

TypeOK == Flags /\ Data

Init ==
    /\ transport \in {"websocket", "sse"} /\ encoding \in {"json", "cbor"}
    /\ socket = None /\ conn = None
    /\ connecting = FALSE /\ retry = "idle" /\ promise = "pending"
    /\ queue = <<>>
    /\ outcome = [i \in ActionIds |-> "none"]
    /\ listeners = [e \in Events |-> {}]
    /\ started = FALSE /\ disposed = FALSE
    /\ ready = [s \in Sockets |-> "unused"] /\ server = [s \in Sockets |-> "none"]
    /\ down = [s \in Sockets |-> <<>>] /\ up = [s \in Sockets |-> <<>>]
    /\ posts = {} /\ subs = [s \in Sockets |-> {}]
    /\ heard = [s \in Sockets |-> {}] /\ ran = [i \in ActionIds |-> 0]
    /\ late = 0 /\ thrown = FALSE /\ faults = 0 /\ calls = 0

Fault == faults < MaxFaults /\ faults' = faults + 1
Call == started /\ ~disposed /\ calls < MaxCalls /\ calls' = calls + 1

-----------------------------------------------------------------------------
(* The retry loop.  A definition named X_<defect> is X with a plausible       *)
(* defect, for the mutation runs only.                                        *)

connectWithRetry == connecting' = TRUE /\ retry' = "dialing" /\ promise' = "pending"

\* handle.connect(): the connection is registered and CONNECT_SYMBOL is called.
connect ==
    /\ ~started /\ ~disposed
    /\ started' = TRUE
    /\ connectWithRetry
    /\ UNCHANGED <<options, socket, queue, outcome, listeners, conn, disposed, calls,
                   wire, history>>

(* What pRetry makes of an attempt that has ended: success ends the loop, an  *)
(* error backs off for ever, and an aborted loop has gone.                    *)
Settles_KeepsFlag(verdict) ==
    /\ retry' = IF disposed \/ verdict = "resolved" THEN "idle" ELSE "backoff"
    /\ connecting' = connecting
    /\ promise' = "pending"

Settles_GivesUp(verdict) ==
    /\ retry' = "idle"
    /\ connecting' = FALSE
    /\ promise' = "pending"

Settles(verdict) ==
    /\ retry' = IF disposed \/ verdict = "resolved" THEN "idle" ELSE "backoff"
    /\ connecting' = (connecting /\ (disposed \/ verdict = "rejected"))
    /\ promise' = "pending"

Backoff ==
    /\ retry = "backoff"
    /\ retry' = "dialing" /\ promise' = "pending"
    /\ UNCHANGED <<options, socket, connecting, queue, outcome, listeners, conn, started,
                   disposed, calls, wire, history>>

\* connectWebSocket, connectSse: the new socket replaces the old, disposed or not.
Dialed(s) ==
    /\ retry = "dialing" /\ ready[s] = "unused"
    /\ socket' = s
    /\ ready' = [ready EXCEPT ![s] = "connecting"]
    /\ server' = [server EXCEPT ![s] = "none"]
    /\ subs' = [subs EXCEPT ![s] = {}]
    /\ IF promise = "pending" /\ ~disposed
       THEN retry' = "waiting" /\ UNCHANGED <<connecting, promise>>
       ELSE Settles(promise)
    /\ UNCHANGED <<options, queue, outcome, listeners, conn, started, disposed, calls,
                   down, up, posts, history>>

(* The driver's dial rejects.  pRetry tries again after any error but a       *)
(* TypeError, with which it ends: #connectWithRetry rejects, #connecting set. *)
DialFails ==
    /\ retry = "dialing" /\ Fault
    /\ Settles("rejected")
    /\ UNCHANGED <<options, socket, queue, outcome, listeners, conn, started, disposed, calls,
                   wire, ran, record>>

DialThrows ==
    /\ retry = "dialing" /\ ~disposed /\ Fault
    /\ retry' = "idle" /\ promise' = "pending" /\ thrown' = TRUE
    /\ UNCHANGED <<options, socket, connecting, queue, outcome, listeners, conn, started,
                   disposed, calls, wire, ran, heard, late>>

\* The open promise is settled, once, by whichever socket comes first.
SettlePromise(verdict) ==
    IF retry = "waiting" THEN Settles(verdict)
    ELSE IF retry = "dialing"
    THEN /\ promise' = IF promise = "pending" THEN verdict ELSE promise
         /\ UNCHANGED <<connecting, retry>>
    ELSE UNCHANGED loop

-----------------------------------------------------------------------------
(* Sending.                                                                   *)

Sendable == socket # None /\ ready[socket] = "open"
Request(i) == [b |-> "ar", i |-> i]
Subscription(e, on) == [b |-> "sr", e |-> e, s |-> on]

\* Subscriptions are ephemeral: they are never queued.
Queueable(m) == IF m.b = "ar" THEN <<m>> ELSE <<>>

(* #sendMessage of some subscriptions, then some requests: on an open         *)
(* WebSocket they go out, on an open stream each is posted to the last        *)
(* connection, or put in front of the queue if there is none; otherwise they  *)
(* are queued.                                                                *)
sendMessage(subscriptions, requests, kept, to) ==
    IF ~Sendable
    THEN queue' = kept \o requests /\ UNCHANGED <<up, posts>>
    ELSE IF transport = "websocket"
    THEN /\ up' = [up EXCEPT ![socket] = @ \o (subscriptions \o requests)]
         /\ queue' = kept /\ UNCHANGED posts
    ELSE IF to # None
    THEN /\ posts' = posts \cup [m : ToSet(subscriptions) \cup ToSet(requests), to : {to}]
         /\ queue' = kept /\ UNCHANGED up
    ELSE queue' = Reverse(requests) \o kept /\ UNCHANGED <<up, posts>>

action ==
    /\ Call
    /\ \E i \in ActionIds :
          /\ outcome[i] = "none" /\ \A j \in 0..(i - 1) : outcome[j] # "none"
          /\ outcome' = [outcome EXCEPT ![i] = "pending"]
          /\ sendMessage(<<>>, <<Request(i)>>, queue, conn)
    /\ UNCHANGED <<options, socket, loop, listeners, conn, started, disposed, ready,
                   server, down, subs, history>>

addEventSubscription(e, kind) ==
    /\ Call /\ kind \notin listeners[e]
    /\ listeners' = [listeners EXCEPT ![e] = @ \cup {kind}]
    /\ IF listeners[e] = {}
       THEN sendMessage(<<Subscription(e, TRUE)>>, <<>>, queue, conn)
       ELSE UNCHANGED <<queue, up, posts>>
    /\ UNCHANGED <<options, socket, loop, outcome, conn, started, disposed, ready, server,
                   down, subs, history>>

on(e) == addEventSubscription(e, "on")
once(e) == addEventSubscription(e, "once")

unsubscribe(e, kind) ==
    /\ Call /\ kind \in listeners[e]
    /\ listeners' = [listeners EXCEPT ![e] = @ \ {kind}]
    /\ IF listeners[e] = {kind}
       THEN sendMessage(<<Subscription(e, FALSE)>>, <<>>, queue, conn)
       ELSE UNCHANGED <<queue, up, posts>>
    /\ UNCHANGED <<options, socket, loop, outcome, conn, started, disposed, ready, server,
                   down, subs, history>>

-----------------------------------------------------------------------------
(* What a socket delivers, in order.                                          *)

Receives(s, kind) == down[s] # <<>> /\ Head(down[s]).b = kind
Received(s) == down' = [down EXCEPT ![s] = Tail(@)]

\* CBOR cannot be decoded when there is no transport: the message is lost.
Unparsed == encoding = "cbor" /\ socket = None

handleUnparsed(s) ==
    /\ down[s] # <<>> /\ Head(down[s]).b # "close" /\ Unparsed
    /\ Received(s)
    /\ UNCHANGED <<options, socket, loop, queue, outcome, listeners, conn, started,
                   disposed, calls, ready, server, up, posts, subs, history>>

Listened == {e \in Events : listeners[e] # {}}
Resubscriptions == SetToSeq({Subscription(e, TRUE) : e \in Listened})

(* #handleOnOpen, on the init message: resubscribe, then flush the queue.     *)
handleOnOpen_Once(s) ==
    /\ Receives(s, "i") /\ ~Unparsed
    /\ Received(s)
    /\ conn' = s
    /\ SettlePromise("resolved")
    /\ IF disposed THEN UNCHANGED <<queue, up, posts>> ELSE sendMessage(<<>>, queue, <<>>, s)
    /\ UNCHANGED <<options, socket, outcome, listeners, started, disposed, calls, ready,
                   server, subs, history>>

handleOnOpen_KeepsQueue(s) ==
    /\ Receives(s, "i") /\ ~Unparsed
    /\ Received(s)
    /\ conn' = s
    /\ SettlePromise("resolved")
    /\ IF disposed
       THEN UNCHANGED <<queue, up, posts>>
       ELSE sendMessage(Resubscriptions, queue, queue, s)
    /\ UNCHANGED <<options, socket, outcome, listeners, started, disposed, calls, ready,
                   server, subs, history>>

handleOnOpen(s) ==
    /\ Receives(s, "i") /\ ~Unparsed
    /\ Received(s)
    /\ conn' = s
    /\ SettlePromise("resolved")
    /\ IF disposed
       THEN UNCHANGED <<queue, up, posts>>
       ELSE sendMessage(Resubscriptions, queue, <<>>, s)
    /\ UNCHANGED <<options, socket, outcome, listeners, started, disposed, calls, ready,
                   server, subs, history>>

(* An error without an action id, or with the id 0, is taken for an error of  *)
(* the connection: it rejects the open promise and every action in flight.    *)
handleConnectionError(s) ==
    /\ Receives(s, "e") \/ (Receives(s, "error") /\ Head(down[s]).i = 0)
    /\ ~Unparsed
    /\ Received(s)
    /\ SettlePromise("rejected")
    /\ outcome' = [i \in ActionIds |-> IF outcome[i] = "pending" THEN "error" ELSE outcome[i]]
    /\ UNCHANGED <<options, socket, queue, listeners, conn, started, disposed, calls,
                   ready, server, up, posts, subs, history>>

(* takeActionInFlight: an answer to an action that is no longer in flight is  *)
(* an error of the handler.                                                   *)
TakeActionInFlight(i, verdict) ==
    outcome' = [outcome EXCEPT ![i] = IF @ = "pending" THEN verdict ELSE @]

handleActionError(s) ==
    /\ Receives(s, "error") /\ Head(down[s]).i # 0 /\ ~Unparsed
    /\ Received(s)
    /\ TakeActionInFlight(Head(down[s]).i, "error")
    /\ UNCHANGED <<options, socket, loop, queue, listeners, conn, started, disposed,
                   calls, ready, server, up, posts, subs, history>>

handleActionResponse(s) ==
    /\ Receives(s, "ok") /\ ~Unparsed
    /\ Received(s)
    /\ TakeActionInFlight(Head(down[s]).i, "ok")
    /\ UNCHANGED <<options, socket, loop, queue, listeners, conn, started, disposed,
                   calls, ready, server, up, posts, subs, history>>

\* The once listeners go; that nobody listens any more is not sent.
dispatchEvent(s) ==
    /\ Receives(s, "ev") /\ ~Unparsed
    /\ Received(s)
    /\ listeners' = [listeners EXCEPT ![Head(down[s]).e] = @ \ {"once"}]
    /\ UNCHANGED <<options, socket, loop, queue, outcome, conn, started, disposed, calls,
                   ready, server, up, posts, subs, history>>

(* #handleOnClose clears the transport, whichever socket has closed, and      *)
(* reconnects unless an attempt is under way.                                 *)
handleOnClose(s) ==
    /\ Receives(s, "close")
    /\ Received(s)
    /\ ready' = [ready EXCEPT ![s] = "closed"]
    /\ socket' = None
    /\ IF ~disposed /\ ~connecting
       THEN connectWithRetry
       ELSE SettlePromise("rejected")
    /\ UNCHANGED <<options, queue, outcome, listeners, conn, started, disposed, calls,
                   server, up, posts, subs, history>>

(* dispose: the loop is aborted, but for the socket being dialled, and the    *)
(* transport is closed; a WebSocket reports its close later.                  *)
dispose ==
    /\ ~disposed
    /\ disposed' = TRUE
    /\ retry' = IF retry = "dialing" THEN retry ELSE "idle"
    /\ IF socket = None THEN UNCHANGED <<ready, server, down>>
       ELSE /\ ready' = [ready EXCEPT ![socket] = IF transport = "sse" THEN "closed" ELSE "closing"]
            /\ server' = [server EXCEPT ![socket] = "down"]
            /\ down' = [down EXCEPT ![socket] =
                          IF transport = "sse" THEN <<>>
                          ELSE IF \E i \in DOMAIN @ : @[i].b = "close" THEN @
                          ELSE Append(@, [b |-> "close"])]
    /\ socket' = IF transport = "sse" THEN None ELSE socket
    /\ UNCHANGED <<options, connecting, promise, queue, outcome, listeners, conn, started,
                   calls, up, posts, subs, history>>

(* #sendHttpMessage ends.  A request that was not accepted, or whose answer   *)
(* was lost, goes to the front of the queue, to be posted at the next init.   *)
sendHttpMessage(p) ==
    /\ p \in posts
    /\ posts' = posts \ {p}
    /\ LET accepted == server[p.to] = "up" /\ ready[p.to] # "closed" IN
       \/ /\ accepted
          /\ up' = [up EXCEPT ![p.to] = Append(@, p.m)]
          /\ UNCHANGED <<queue, faults>>
       \/ /\ IF accepted THEN Fault ELSE UNCHANGED faults
          /\ up' \in {up} \cup (IF accepted THEN {[up EXCEPT ![p.to] = Append(@, p.m)]} ELSE {})
          /\ queue' = Queueable(p.m) \o queue
    /\ UNCHANGED <<options, socket, loop, outcome, listeners, conn, started, disposed,
                   calls, ready, server, down, subs, ran, record>>

-----------------------------------------------------------------------------
(* The other end of a socket.                                                 *)

client == <<options, socket, loop, queue, outcome, listeners, conn, started, disposed, calls>>

Opens(s) ==
    /\ ready[s] = "connecting"
    /\ ready' = [ready EXCEPT ![s] = "open"]
    /\ UNCHANGED <<client, server, down, up, posts, subs, history>>

Sends(s, m) == down' = [down EXCEPT ![s] = Append(@, m)]

\* The actor's connection is created, and its first message is the init.
Connected(s) ==
    /\ ready[s] = "open" /\ server[s] = "none"
    /\ server' = [server EXCEPT ![s] = "up"]
    /\ Sends(s, [b |-> "i"])
    /\ heard' = [heard EXCEPT ![s] = {}]
    /\ UNCHANGED <<client, ready, up, posts, subs, ran, faults, late, thrown>>

\* The setup fails: the server opens the socket only to send the error.
Refused(s) ==
    /\ ready[s] = "open" /\ server[s] = "none" /\ Fault
    /\ server' = [server EXCEPT ![s] = "down"]
    /\ down' = [down EXCEPT ![s] = @ \o <<[b |-> "e"], [b |-> "close"]>>]
    /\ UNCHANGED <<client, ready, up, posts, subs, ran, record>>

(* A socket cannot be opened, or is dropped: a WebSocket reports it; a stream *)
(* connects again by itself, or is closed if the answer is an error.          *)
Drops(s) ==
    /\ ready[s] \in {"connecting", "open"} /\ server[s] # "down" /\ Fault
    /\ server' = [server EXCEPT ![s] = "down"]
    /\ up' = [up EXCEPT ![s] = <<>>]
    /\ Sends(s, [b |-> "close"])
    /\ UNCHANGED <<client, ready, posts, subs, ran, record>>

StreamReconnects(s, fresh) ==
    /\ transport = "sse" /\ ready[s] = "open" /\ ready[fresh] = "unused" /\ Fault
    /\ ready' = [ready EXCEPT ![s] = "closed", ![fresh] = "connecting"]
    /\ server' = [server EXCEPT ![s] = "down", ![fresh] = "none"]
    /\ down' = [down EXCEPT ![s] = <<>>] /\ up' = [up EXCEPT ![s] = <<>>]
    /\ subs' = [subs EXCEPT ![fresh] = {}]
    /\ socket' = IF socket = s THEN fresh ELSE socket
    /\ UNCHANGED <<options, loop, queue, outcome, listeners, conn, started, disposed,
                   calls, posts, ran, record>>

processMessage(s, m) ==
    \/ /\ m.b = "ar"
       /\ ran' = [ran EXCEPT ![m.i] = @ + 1]
       /\ \E answer \in {"ok", "error"} : Sends(s, [b |-> answer, i |-> m.i])
       /\ UNCHANGED subs
    \/ /\ m.b = "sr"
       /\ subs' = [subs EXCEPT ![s] = IF m.s THEN @ \cup {m.e} ELSE @ \ {m.e}]
       /\ UNCHANGED <<down, ran>>

Processes(s) ==
    /\ server[s] = "up" /\ up[s] # <<>>
    /\ up' = [up EXCEPT ![s] = Tail(@)]
    /\ heard' = [heard EXCEPT ![s] = @ \cup {Head(up[s])}]
    /\ processMessage(s, Head(up[s]))
    /\ UNCHANGED <<client, ready, server, posts, faults, late, thrown>>

\* The relay of the coordinate topology had no ack in time and publishes m again.
ProcessesAgain(s, m) ==
    /\ server[s] = "up" /\ m \in heard[s] /\ Fault
    /\ late' = late + 1
    /\ processMessage(s, m)
    /\ UNCHANGED <<client, ready, server, up, posts, heard, thrown>>

Broadcasts(s, e) ==
    /\ server[s] = "up" /\ e \in subs[s] /\ down[s] = <<>>
    /\ "once" \in listeners[e]          \* another event changes nothing
    /\ Sends(s, [b |-> "ev", e |-> e])
    /\ UNCHANGED <<client, ready, server, up, posts, subs, history>>

\* A socket nobody refers to any more may stand for a new one.
Recycled(s) ==
    /\ ready[s] = "closed" /\ conn # s /\ \A p \in posts : p.to # s
    /\ ready' = [ready EXCEPT ![s] = "unused"]
    /\ up' = [up EXCEPT ![s] = <<>>]
    /\ down' = [down EXCEPT ![s] = <<>>]
    /\ UNCHANGED <<client, server, posts, subs, history>>

Handle(s) ==
    \/ handleUnparsed(s) \/ handleOnOpen(s) \/ handleConnectionError(s)
    \/ handleActionError(s) \/ handleActionResponse(s) \/ dispatchEvent(s) \/ handleOnClose(s)

Next ==
    \/ connect \/ Backoff \/ DialFails \/ DialThrows \/ action \/ dispose
    \/ \E e \in Events : on(e) \/ once(e) \/ \E kind \in listeners[e] : unsubscribe(e, kind)
    \/ \E p \in posts : sendHttpMessage(p)
    \/ \E s \in Sockets :
          \/ Dialed(s) \/ Handle(s)
          \/ Opens(s) \/ Connected(s) \/ Refused(s) \/ Drops(s)
          \/ Processes(s) \/ Recycled(s)
          \/ \E m \in heard[s] : ProcessesAgain(s, m)
          \/ \E e \in Events : Broadcasts(s, e)
          \/ \E fresh \in Sockets : StreamReconnects(s, fresh)

\* Timers fire, the driver answers, sockets open or report their end.
Fairness ==
    /\ WF_vars(Backoff) /\ WF_vars(\E s \in Sockets : Dialed(s))
    /\ \A s \in Sockets :
          /\ WF_vars(Handle(s)) /\ WF_vars(Opens(s))
          /\ WF_vars(Connected(s)) /\ WF_vars(Recycled(s))

Spec == Init /\ [][Next]_vars /\ Fairness

-----------------------------------------------------------------------------
(* Properties.                                                                *)

(* A connection without a transport is on its way to one: no order of closes, *)
(* errors, failed dials and late answers of old sockets leaves it waiting for *)
(* nothing, but for a dial that ended the loop by throwing a TypeError.       *)
NeverStranded ==
    /\ TypeOK
    /\ started /\ ~disposed /\ ~thrown /\ socket = None => connecting /\ retry # "idle"

(* Over WebSockets an action runs once more only for each ack the relay had   *)
(* too late, over streams also for each answer lost, and one that is answered *)
(* has run, however often the queue was flushed and the socket replaced.      *)
ActionsRunOnce ==
    \A i \in ActionIds :
       /\ ran[i] <= IF transport = "websocket" THEN 1 + late ELSE 1 + faults
       /\ outcome[i] = "ok" => ran[i] > 0

(* Once a WebSocket has delivered its init message and what was sent on it is *)
(* processed, each message once, the server knows every event somebody        *)
(* listens to.                                                                *)
SubscribedWhileListening ==
    \A s \in Sockets :
       /\ transport = "websocket" /\ socket = s /\ conn = s /\ ~disposed /\ late = 0
       /\ ready[s] = "open" /\ server[s] = "up" /\ up[s] = <<>>
       => Listened \subseteq subs[s]

(* A connection that is not disposed comes back, whatever was refused, failed *)
(* or dropped, unless a dial ended the retry loop by throwing a TypeError:    *)
(* there is again an open socket with a connection behind it.                 *)
Reconnects ==
    started ~> (disposed \/ thrown \/ (Sendable /\ server[socket] = "up"))

(* What the code does not do: an old unsubscription that is repeated, after   *)
(* the same event was subscribed to again, is the last word about it.         *)
SubscribedWhateverIsRepeated ==
    \A s \in Sockets :
       /\ transport = "websocket" /\ socket = s /\ conn = s /\ ~disposed
       /\ ready[s] = "open" /\ server[s] = "up" /\ up[s] = <<>>
       => Listened \subseteq subs[s]

-----------------------------------------------------------------------------
(* The inductive invariant behind the theorems of ClientConnProofs.           *)

\* While it is neither disposed nor connected, the retry loop is at work.
OnItsWay ==
    /\ ~started => retry = "idle" /\ socket = None /\ \A s \in Sockets : ready[s] = "unused"
    /\ started /\ ~disposed /\ ~thrown =>
          /\ connecting <=> retry # "idle"
          /\ socket = None => connecting /\ retry # "waiting"

\* A socket that has not opened delivers nothing but its end, and an end is one.
StageOf(s) ==
    /\ ready[s] \in {"unused", "connecting"} => server[s] # "up"
    /\ ready[s] = "closed" => server[s] = "down"
    /\ ready[s] = "unused" => down[s] = <<>>
    /\ \A k \in DOMAIN down[s] :
          /\ ready[s] = "connecting" => down[s][k].b = "close"
          /\ down[s][k].b = "close" => server[s] = "down"
          /\ server[s] # "none"

SocketStages ==
    /\ conn # None => ready[conn] \notin {"unused", "connecting"} /\ server[conn] # "none"
    /\ \A s \in Sockets : StageOf(s)

\* Where a request is between the call and the actor.
PlacesIn(i, q, u, p) ==
    {<<"queue", None, k>> : k \in {n \in DOMAIN q : q[n] = Request(i)}}
      \cup (UNION {{<<"up", s, k>> : k \in {n \in DOMAIN u[s] : u[s][n] = Request(i)}} : s \in Sockets})
      \cup {<<"post", s, 0>> : s \in {t \in Sockets : [m |-> Request(i), to |-> t] \in p}}

Places(i) == PlacesIn(i, queue, up, posts)

Budget == IF transport = "websocket" THEN 1 + late ELSE 1 + faults

(* A request is at one place or has run; a late ack adds one, and so does a   *)
(* lost answer on a stream.                                                   *)
RunsOf(i) ==
    /\ outcome[i] = "none" => Places(i) = {} /\ ran[i] = 0
    /\ IsFiniteSet(Places(i)) /\ Cardinality(Places(i)) + ran[i] <= Budget

RunsLeft ==
    /\ transport = "websocket" => posts = {}
    /\ \A i \in ActionIds : RunsOf(i)

\* Success is reported, and a message repeated, only for what has run.
AnswersAreTrue ==
    \A i \in ActionIds :
       \/ ran[i] > 0
       \/ /\ outcome[i] # "ok"
          /\ \A s \in Sockets : Request(i) \notin heard[s]
          /\ \A s \in Sockets : \A k \in DOMAIN down[s] : down[s][k] # [b |-> "ok", i |-> i]

\* The last word of a sequence of messages about an event.
Subscribes(q, e) ==
    \E k \in DOMAIN q : /\ q[k] = Subscription(e, TRUE)
                       /\ \A j \in DOMAIN q : q[j] = Subscription(e, FALSE) => j < k

Unsubscribes(q, e) == \E j \in DOMAIN q : q[j] = Subscription(e, FALSE)

\* Once s has taken what is under way to it, it is subscribed to e.
WillHear(s, e) == Subscribes(up[s], e) \/ (e \in subs[s] /\ ~Unsubscribes(up[s], e))

ServerWillHear ==
    \A s \in Sockets, e \in Listened :
       /\ transport = "websocket" /\ socket = s /\ conn = s /\ ~disposed /\ late = 0
       /\ ready[s] = "open" /\ server[s] = "up"
       => WillHear(s, e)

IInv ==
    /\ TypeOK /\ OnItsWay /\ SocketStages
    /\ RunsLeft /\ AnswersAreTrue /\ ServerWillHear
=============================================================================
