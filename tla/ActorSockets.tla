---------------------------- MODULE ActorSockets ----------------------------
(***************************************************************************)
(* One connection, from the client's socket object to the actor's handlers *)
(* (onOpen, onMessage, onClose of the standalone topology), along each way *)
(* the code has for it:                                                    *)
(*   "ws", "sse"                a server's upgrade or stream (router-endpoints)  *)
(*   "ws-blobs"                 the same, of a server that hands frames on as blobs *)
(*   "inline-ws", "inline-sse"  FakeWebSocket, FakeEventSource in one process    *)
(*   "worker", "inline-worker"  an upgrade a Cloudflare Worker hands to the      *)
(*            Durable Object, for a client of its own or for its inline client   *)
(*   "rivet"  a client's socket proxied to the socket of an actor's server   *)
(*   "test"   a client's socket proxied to a FakeWebSocket                   *)
(* The router of a partitioned actor, which "worker", "inline-worker" and  *)
(* "rivet" go through, does not return what the upgrade answers: there the *)
(* client's request fails, whatever has become of the upgrade.             *)
(* Messages are numbered in the order they are sent, each way; the actor's *)
(* first is init.  What a stream's client posts is not here.               *)
(***************************************************************************)
EXTENDS Naturals, Sequences

CONSTANTS
    Paths,    \* the ways the run looks at
    MaxSent   \* bound on messages, each way

ASSUME SocketsAssumption ==
    /\ Paths \subseteq {"ws", "ws-blobs", "sse", "inline-ws", "inline-sse", "worker",
                     "inline-worker", "rivet", "test"}
    /\ MaxSent \in Nat \ {0}     \* init is a message

VARIABLES
    path,
    outer,       \* the client's socket to a proxy
    up, down,    \* on that socket
    ready,       \* readyState of the socket object the client, or the proxy, holds
    listening,   \* whether it has its listeners
    buffered,    \* #bufferedEvents
    queued,      \* #queuedMessages
    ending,      \* close() of a FakeWebSocket waits for onClose
    toClient, toActor,     \* on the network, behind that socket object
    opening,     \* the handler's onOpen: its wsHandlerPromise
    registered,  \* the socket is in genericConnGlobalState
    ended,       \* the server has closed its end of the socket
    conn,        \* the connection of the actor; "stray", if createConn threw with it made
    sent,        \* what the client has sent
    taken,       \* the messages onMessage has got to, in order
    decoding,    \* those of them being parsed
    handled,     \* those of them handled, in order
    emitted, heard,        \* what the actor has sent, what the client has heard, with close
    closed,      \* the client has closed a socket that was there
    missed       \* the close came to a handler that was still opening, and ignores it

front == <<outer, up, down>>
object == <<ready, listening, buffered, queued, ending>>
wire == <<toClient, toActor>>
handler == <<opening, registered, ended, conn>>
received == <<taken, decoding, handled>>
messages == <<sent, received, emitted, heard>>
socketVars == <<path, front, object, wire, handler, messages, closed, missed>>

close == 0
Msgs == 1..MaxSent
Items == Msgs \cup {close}

Proxied == path \in {"rivet", "test"}
Fake == path \in {"inline-ws", "inline-sse", "test"}
Stream == path \in {"sse", "inline-sse"}
Worker == path \in {"worker", "inline-worker"}
Partitioned == path \in {"worker", "inline-worker", "rivet"}

SocketsTypeOK ==
    /\ path \in Paths
    /\ outer \in {"none", "connecting", "open", "closing", "closed"}
    /\ ready \in {"none", "connecting", "open", "closing", "closed"}
    /\ opening \in {"none", "running", "resolved", "rejected"}
    /\ conn \in {"none", "open", "removed", "stray"}
    /\ listening \in BOOLEAN /\ ending \in BOOLEAN /\ registered \in BOOLEAN
    /\ ended \in BOOLEAN /\ closed \in BOOLEAN /\ missed \in BOOLEAN
    /\ up \in Seq(Items) /\ down \in Seq(Items)
    /\ buffered \in Seq(Items) /\ queued \in Seq(Items)
    /\ toClient \in Seq(Items) /\ toActor \in Seq(Items)
    /\ taken \in Seq(Items) /\ heard \in Seq(Items)
    /\ decoding \subseteq Msgs /\ handled \in Seq(Msgs)
    /\ sent \in 0..MaxSent /\ emitted \in 0..MaxSent

SocketsInit ==
    /\ path \in Paths
    /\ outer = IF Proxied THEN "connecting" ELSE "none"
    /\ ready = IF Proxied THEN "none" ELSE "connecting"
    /\ listening = (path \in {"ws", "ws-blobs", "sse", "worker"})
    /\ up = <<>> /\ down = <<>> /\ buffered = <<>> /\ queued = <<>>
    /\ toClient = <<>> /\ toActor = <<>> /\ heard = <<>>
    /\ taken = <<>> /\ decoding = {} /\ handled = <<>>
    /\ opening = "none" /\ conn = "none"
    /\ ending = FALSE /\ registered = FALSE /\ ended = FALSE /\ closed = FALSE /\ missed = FALSE
    /\ sent = 0 /\ emitted = 0

-----------------------------------------------------------------------------
(* What the holder of the socket object does with an event of it: the client  *)
(* hears it, a proxy passes it on.  A definition named X_<defect> is X with a *)
(* plausible defect, for the mutation runs only.                              *)

Hear(events) ==
    IF Proxied
    THEN /\ down' = IF outer = "open" THEN down \o events ELSE down
         /\ outer' = IF outer = "open" /\ \E i \in DOMAIN events : events[i] = close
                     THEN "closing" ELSE outer
         /\ UNCHANGED heard
    ELSE /\ heard' = heard \o events
         /\ UNCHANGED <<outer, down>>

\* FakeWebSocket.#dispatchEvent: an event that nobody listens for is kept.
dispatchEvent_Unbuffered(events) ==
    /\ IF listening THEN Hear(events) ELSE UNCHANGED <<heard, outer, down>>
    /\ UNCHANGED buffered

dispatchEvent(events) ==
    IF listening
    THEN Hear(events) /\ UNCHANGED buffered
    ELSE buffered' = buffered \o events /\ UNCHANGED <<heard, outer, down>>

\* FakeEventSource.#dispatchEvent: without a handler the event is gone.
dispatchStreamEvent(event) ==
    /\ IF listening THEN Hear(<<event>>) ELSE UNCHANGED <<heard, outer, down>>
    /\ UNCHANGED buffered

\* FakeWebSocket.addEventListener, which flushes what has been kept.
addEventListener ==
    /\ Fake /\ ~Stream /\ ~listening
    /\ ready # "none"
    /\ listening' = TRUE
    /\ Hear(buffered) /\ buffered' = <<>>
    /\ UNCHANGED <<path, up, ready, queued, ending, wire, handler, sent, received,
                   emitted, closed, missed>>

\* The client gets the event source, to set onmessage, once onOpen has returned.
StreamHandedOver ==
    /\ path = "inline-sse" /\ ~listening
    /\ opening = "resolved"
    /\ listening' = TRUE
    /\ UNCHANGED <<path, front, ready, buffered, queued, ending, wire, handler, messages,
                   closed, missed>>

\* handleMessage of a FakeWebSocket: a message is kept until the socket is open.
handleMessage(m) ==
    IF ready = "open"
    THEN dispatchEvent(<<m>>) /\ UNCHANGED queued
    ELSE queued' = Append(queued, m) /\ UNCHANGED <<buffered, heard, outer, down>>

\* writeSSE of the stream that a FakeEventSource gives to onOpen: nothing is kept.
writeSSE(m) == dispatchStreamEvent(m) /\ UNCHANGED queued

\* What the actor sends over the socket or the stream of its connection.
Transmit(m) ==
    IF Fake
    THEN (IF Stream THEN writeSSE(m) ELSE handleMessage(m)) /\ UNCHANGED toClient
    ELSE toClient' = Append(toClient, m) /\ UNCHANGED <<queued, buffered, heard, outer, down>>

-----------------------------------------------------------------------------
(* The handlers of the actor.                                                 *)

\* The upgrade, or the request for the stream, is accepted; an object is constructed.
HandlerOpens ==
    /\ opening = "none" /\ ready = (IF Fake THEN "connecting" ELSE "open") /\ ~Worker
    /\ opening' = "running"
    /\ UNCHANGED <<path, front, object, wire, registered, ended, conn, messages, closed,
                   missed>>

(* upgradeWebSocket in a Durable Object: onOpen is called, not awaited, and   *)
(* the other end of the socket pair goes back with the response.              *)
upgradeWebSocket ==
    /\ Worker /\ opening = "none"
    /\ opening' = "running"
    /\ UNCHANGED <<path, front, object, wire, registered, ended, conn, messages, closed,
                   missed>>

\* onOpen: the socket is saved and createConn sends init through it.
onOpen ==
    /\ opening = "running" /\ conn = "none"
    /\ registered' = TRUE /\ conn' = "open" /\ emitted' = 1
    /\ Transmit(1)
    /\ UNCHANGED <<path, up, ready, listening, ending, toActor, opening, ended,
                   sent, received, closed, missed>>

\* FakeWebSocket.#initialize, once onOpen has returned.
initialize ==
    /\ ready' = "open"
    /\ queued' = <<>>
    /\ dispatchEvent(queued)

\* onOpen has returned: its caller goes on, and the handlers have their connection.
OpenResolves ==
    /\ opening = "running" /\ conn # "none"
    /\ opening' = "resolved"
    /\ CASE Fake /\ ~Stream -> initialize
         [] Stream /\ Fake -> ready' = "open" /\ UNCHANGED <<queued, buffered, heard, outer, down>>
         [] OTHER -> UNCHANGED <<ready, queued, buffered, heard, outer, down>>
    /\ UNCHANGED <<path, up, listening, ending, wire, registered, ended, conn,
                   sent, received, emitted, closed, missed>>

\* onClose of an in-process socket: a handler that is still opening ignores it.
onCloseCallback ==
    /\ registered' = FALSE
    /\ conn' = IF conn = "open" /\ opening = "resolved" THEN "removed" ELSE conn
    /\ missed' = (missed \/ opening # "resolved")

\* FakeEventSource.close calls onClose and does not wait for it.
StreamClose == ready' = "closed" /\ onCloseCallback /\ UNCHANGED ending

\* FakeWebSocket.close, before and after onClose.
FakeClose == ready' = "closing" /\ ending' = TRUE /\ onCloseCallback

FakeCloseEnds ==
    /\ ending /\ ending' = FALSE
    /\ ready' = "closed"
    /\ dispatchEvent(<<close>>)
    /\ UNCHANGED <<path, up, listening, queued, wire, handler, sent, received,
                   emitted, closed, missed>>

(* onOpen throws, before createConn has added the connection or after it      *)
(* (then nothing will remove it).  A server closes the socket, and the object *)
(* in the process itself, which has its handler forget the socket.            *)
OpenRejects ==
    /\ opening = "running" /\ conn = "none"
    /\ opening' = "rejected"
    /\ \/ UNCHANGED <<conn, registered>>
       \/ conn' = "stray" /\ registered' = (~Fake \/ Stream)
    /\ IF Fake
       THEN /\ ready' = IF ready # "connecting" THEN ready ELSE IF Stream THEN "closed" ELSE "closing"
            /\ ending' = (ending \/ (ready = "connecting" /\ ~Stream))
            /\ UNCHANGED toClient
       ELSE toClient' = Append(toClient, close) /\ UNCHANGED <<ready, ending>>
    /\ ended' = ~Fake
    /\ UNCHANGED <<path, front, listening, buffered, queued, toActor, messages, closed,
                   missed>>

\* sendMessage of the connection's driver.
sendMessage ==
    /\ conn = "open" /\ registered /\ ~ended
    /\ emitted < MaxSent /\ emitted' = emitted + 1
    /\ Transmit(emitted + 1)
    /\ UNCHANGED <<path, up, ready, listening, ending, toActor, handler, sent,
                   received, closed, missed>>

(* disconnect of the driver.  A relay connection calls close of a             *)
(* FakeWebSocket's context; the generic driver finds it has no raw socket and *)
(* does nothing.  A stream that is closed tells its handler in the process    *)
(* only.                                                                      *)
disconnect ==
    /\ conn = "open" /\ registered /\ ~ended
    /\ \/ /\ ~Fake
          /\ toClient' = Append(toClient, close)
          /\ UNCHANGED <<object, registered, conn, missed, heard, outer, down>>
       \/ /\ Fake /\ ~Stream /\ ready # "closed"
          /\ ready' = "closed" /\ conn' = "removed" /\ registered' = FALSE
          /\ dispatchEvent(<<close>>)
          /\ UNCHANGED <<listening, queued, ending, toClient, missed>>
       \/ /\ path = "inline-sse" /\ ready # "closed"
          /\ StreamClose
          /\ UNCHANGED <<listening, buffered, queued, toClient, heard, outer, down>>
    /\ ended' = TRUE
    /\ UNCHANGED <<path, up, toActor, opening, sent, received, emitted, closed>>

-----------------------------------------------------------------------------
(* The network behind a socket that is not in the process.                    *)

\* The socket's open event.
SocketOpens ==
    /\ ~Fake /\ ~Partitioned /\ ready = "connecting"
    /\ ready' = "open"
    /\ UNCHANGED <<path, front, listening, buffered, queued, ending, wire, handler,
                   messages, closed, missed>>

(* The router's handler ends without a response, and the request in an error: *)
(* the client's socket, or the proxy's, closes; openWebSocket throws.         *)
RequestFails ==
    /\ Partitioned /\ ready = "connecting"
    /\ ready' = "closed"
    /\ IF listening THEN Hear(<<close>>) ELSE UNCHANGED <<heard, outer, down>>
    /\ UNCHANGED <<path, up, listening, buffered, queued, ending, wire, handler, sent,
                   received, emitted, closed, missed>>

(* The server's end of a socket pair whose other end went nowhere: the        *)
(* runtime may close it, or leave it.                                         *)
AbandonedEnds ==
    /\ Worker /\ ready = "closed" /\ opening # "none" /\ ~ended
    /\ ended' = TRUE
    /\ toActor' = Append(toActor, close)
    /\ UNCHANGED <<path, front, object, toClient, opening, registered, conn, messages,
                   closed, missed>>

SocketReceives ==
    /\ toClient # <<>> /\ ready # "connecting"
    /\ toClient' = Tail(toClient)
    /\ IF ready = "open" THEN Hear(<<Head(toClient)>>) ELSE UNCHANGED <<heard, outer, down>>
    /\ IF ready = "open" /\ Head(toClient) = close
       THEN ready' = "closed" /\ toActor' = IF Stream THEN toActor ELSE Append(toActor, close)
       ELSE UNCHANGED <<ready, toActor>>
    /\ UNCHANGED <<path, up, listening, buffered, queued, ending, handler, sent,
                   received, emitted, closed, missed>>

(* onMessage waits for wsHandlerPromise, in the order of the frames, and has  *)
(* the frame parsed.                                                          *)
onMessage_NotAwaited ==
    /\ toActor # <<>> /\ Head(toActor) # close
    /\ toActor' = Tail(toActor)
    /\ IF opening = "resolved"
       THEN taken' = Append(taken, Head(toActor)) /\ decoding' = decoding \cup {Head(toActor)}
       ELSE UNCHANGED <<taken, decoding>>
    /\ UNCHANGED <<path, front, object, toClient, handler, sent, handled, emitted, heard,
                   closed, missed>>

onMessage ==
    /\ toActor # <<>> /\ Head(toActor) # close
    /\ opening \in {"resolved", "rejected"}
    /\ toActor' = Tail(toActor)
    /\ IF opening = "resolved"
       THEN taken' = Append(taken, Head(toActor)) /\ decoding' = decoding \cup {Head(toActor)}
       ELSE UNCHANGED <<taken, decoding>>
    /\ UNCHANGED <<path, front, object, toClient, handler, sent, handled, emitted, heard,
                   closed, missed>>

(* A frame is parsed and handled.  Parsing takes each frame the same number   *)
(* of turns, but for a blob, whose bytes are read first, in any time.         *)
parseMessage(m) ==
    /\ m \in decoding
    /\ path # "ws-blobs" => \A n \in decoding : m <= n
    /\ decoding' = decoding \ {m}
    /\ handled' = Append(handled, m)
    /\ UNCHANGED <<path, front, object, wire, handler, sent, taken, emitted, heard,
                   closed, missed>>

(* onClose waits for it too; the abort listener of a stream is only there     *)
(* once the stream is open.                                                   *)
onClose_NotAwaited ==
    /\ toActor # <<>> /\ Head(toActor) = close
    /\ toActor' = Tail(toActor)
    /\ IF conn = "open" /\ opening = "resolved"
       THEN conn' = "removed" /\ registered' = FALSE
       ELSE UNCHANGED <<conn, registered>>
    /\ UNCHANGED <<path, front, object, toClient, opening, ended, messages, closed, missed>>

onClose ==
    /\ toActor # <<>> /\ Head(toActor) = close
    /\ Stream \/ opening \in {"resolved", "rejected"}
    /\ toActor' = Tail(toActor)
    /\ IF conn = "open" /\ opening = "resolved"
       THEN conn' = "removed" /\ registered' = FALSE /\ UNCHANGED missed
       ELSE missed' = (missed \/ opening # "rejected") /\ UNCHANGED <<conn, registered>>
    /\ UNCHANGED <<path, front, object, toClient, opening, ended, messages, closed>>

-----------------------------------------------------------------------------
(* The client without a proxy, or the proxy, and its socket object.           *)

SendTo(m) ==
    IF Fake
    THEN /\ taken' = Append(taken, m) /\ decoding' = decoding \cup {m}
         /\ UNCHANGED toActor
    ELSE toActor' = Append(toActor, m) /\ UNCHANGED <<taken, decoding>>

ClientSends ==
    /\ ~Proxied /\ ~Stream /\ ready = "open" /\ ~closed
    /\ sent < MaxSent /\ sent' = sent + 1
    /\ SendTo(sent + 1)
    /\ UNCHANGED <<path, front, object, toClient, handler, handled, emitted, heard, closed,
                   missed>>

CloseObject ==
    IF Fake
    THEN (IF Stream THEN StreamClose ELSE FakeClose) /\ UNCHANGED toActor
    ELSE /\ ready' = "closed"
         /\ toActor' = IF ready = "open" THEN Append(toActor, close) ELSE toActor
         /\ UNCHANGED <<ending, registered, conn, missed>>

ClientCloses ==
    /\ ~Proxied /\ listening /\ ready \in {"connecting", "open"} /\ ~closed
    /\ CloseObject
    /\ closed' = (Fake \/ ready = "open")
    /\ UNCHANGED <<path, front, listening, buffered, queued, toClient, opening, ended,
                   messages>>

-----------------------------------------------------------------------------
(* The client and its proxy.                                                  *)

\* onOpen of the test proxy awaits a socket, to which it adds listeners later.
TestProxyOpens ==
    /\ path = "test" /\ outer = "connecting"
    /\ outer' = "open"
    /\ ready' = "connecting"
    /\ UNCHANGED <<path, up, down, listening, buffered, queued, ending, wire,
                   handler, messages, closed, missed>>

\* The Rivet proxy creates a socket to the actor's server, with listeners.
RivetProxyOpens ==
    /\ path = "rivet" /\ outer = "connecting"
    /\ outer' = "open"
    /\ ready' = "connecting" /\ listening' = TRUE
    /\ UNCHANGED <<path, up, down, buffered, queued, ending, wire, handler,
                   messages, closed, missed>>

ProxyOpens == TestProxyOpens \/ RivetProxyOpens

ProxiedSends ==
    /\ outer = "open" /\ ~closed
    /\ sent < MaxSent /\ sent' = sent + 1
    /\ up' = Append(up, sent + 1)
    /\ UNCHANGED <<path, outer, down, object, wire, handler, received, emitted,
                   heard, closed, missed>>

ProxiedCloses ==
    /\ outer = "open" /\ ~closed
    /\ closed' = TRUE
    /\ up' = Append(up, close)
    /\ UNCHANGED <<path, outer, down, object, wire, handler, messages, missed>>

(* onMessage: what comes early waits for the target, which never opens on the *)
(* Rivet way, or is dropped by the test proxy.                                *)
RivetProxyForwards == path = "rivet" /\ UNCHANGED <<toActor, taken, decoding>>

TestProxyForwards ==
    /\ path = "test"
    /\ IF ready = "open" /\ listening
       THEN SendTo(Head(up)) ELSE UNCHANGED <<toActor, taken, decoding>>

ProxyForwards ==
    /\ up # <<>> /\ Head(up) # close
    /\ up' = Tail(up)
    /\ RivetProxyForwards \/ TestProxyForwards
    /\ UNCHANGED <<path, outer, down, object, toClient, handler, sent, handled, emitted,
                   heard, closed, missed>>

\* onClose: the test proxy has nothing to close before its socket is there.
ClosesTarget ==
    IF ready \in {"connecting", "open"}
    THEN CloseObject
    ELSE UNCHANGED <<ready, ending, toActor, registered, conn, missed>>

RivetProxyCloses == path = "rivet" /\ ClosesTarget

TestProxyCloses ==
    /\ path = "test"
    /\ IF listening
       THEN ClosesTarget
       ELSE missed' = TRUE /\ UNCHANGED <<ready, ending, toActor, registered, conn>>

ProxyCloses ==
    /\ up # <<>> /\ Head(up) = close
    /\ up' = Tail(up)
    /\ outer' = "closed"
    /\ RivetProxyCloses \/ TestProxyCloses
    /\ UNCHANGED <<path, down, listening, buffered, queued, toClient, opening, ended,
                   messages, closed>>

ProxiedReceives ==
    /\ down # <<>>
    /\ down' = Tail(down)
    /\ heard' = Append(heard, Head(down))
    /\ outer' = IF Head(down) = close THEN "closed" ELSE outer
    /\ UNCHANGED <<path, up, object, wire, handler, sent, received, emitted,
                   closed, missed>>

-----------------------------------------------------------------------------
SocketsNext ==
    \/ HandlerOpens \/ upgradeWebSocket \/ onOpen \/ OpenRejects \/ OpenResolves
    \/ sendMessage \/ disconnect
    \/ FakeCloseEnds \/ addEventListener \/ StreamHandedOver
    \/ SocketOpens \/ RequestFails \/ AbandonedEnds \/ SocketReceives
    \/ onMessage \/ (\E m \in Msgs : parseMessage(m)) \/ onClose
    \/ ProxyOpens \/ ProxyForwards \/ ProxyCloses \/ ProxiedReceives
    \/ ClientSends \/ ClientCloses \/ ProxiedSends \/ ProxiedCloses

\* Hooks return, promises go on, the network delivers; nobody has to send or close.
SocketsSpec ==
    /\ SocketsInit /\ [][SocketsNext]_socketVars
    /\ WF_socketVars(HandlerOpens \/ upgradeWebSocket \/ onOpen \/ OpenRejects \/ OpenResolves)
    /\ WF_socketVars(FakeCloseEnds) /\ WF_socketVars(addEventListener \/ StreamHandedOver)
    /\ WF_socketVars(SocketOpens \/ RequestFails)
    /\ WF_socketVars(SocketReceives) /\ WF_socketVars(onMessage \/ onClose)
    /\ \A m \in Msgs : WF_socketVars(parseMessage(m))
    /\ WF_socketVars(ProxyOpens) /\ WF_socketVars(ProxyForwards \/ ProxyCloses)
    /\ WF_socketVars(ProxiedReceives)

-----------------------------------------------------------------------------
(* Properties.                                                                *)

(* The messages of s, close events aside, are those numbered after a up to b, *)
(* each of them once and in this order.                                       *)
Carries(s, a, b) ==
    /\ a <= b
    /\ \A i \in DOMAIN s : s[i] # close => s[i] \in (a + 1)..b
    /\ \A m \in (a + 1)..b : \E i \in DOMAIN s : s[i] = m
    /\ \A i, j \in DOMAIN s : i < j /\ s[i] # close /\ s[j] # close => s[i] < s[j]

Held(s) == {s[i] : i \in DOMAIN s} \ {close}

(* What onMessage has got to is being parsed or has been handled, once, and   *)
(* in the same order unless the frames are blobs.                             *)
HandledAgrees ==
    /\ Held(taken) = Held(handled) \cup decoding
    /\ Held(handled) \cap decoding = {}
    /\ \A i, j \in DOMAIN handled : i # j => handled[i] # handled[j]
    /\ path # "ws-blobs" =>
          /\ \A i, j \in DOMAIN handled : i < j => handled[i] < handled[j]
          /\ \A i \in DOMAIN handled : \A m \in decoding : handled[i] < m

(* Whatever lies between them - queues before the socket is open, events kept *)
(* for listeners, a proxy - client and actor get each other's messages in     *)
(* order, each once and without a gap.  The first is not missed either, but   *)
(* for an in-process stream, which keeps no event for listeners (its init is  *)
(* lost), and the test proxy, which drops what comes too early.  The actor    *)
(* handles what it gets once, in that order unless the frames are blobs.      *)
DeliveredInOrder ==
    /\ \E a, b \in 0..emitted : Carries(heard, a, b) /\ (path # "inline-sse" => a = 0)
    /\ \E a, b \in 0..sent : Carries(taken, a, b) /\ (path # "test" => a = 0)
    /\ HandledAgrees

Over == closed \/ ready = "closed" \/ opening = "rejected"

(* What the client sends on a socket is handled by the actor, also what it    *)
(* sends while the actor's handler is still opening.                          *)
SentIsHandled ==
    \A m \in Msgs : (sent >= m /\ ~Proxied) ~> (m \in Held(handled) \/ Over)

(* A connection whose client has closed its socket is removed from the actor, *)
(* or never made, however early the close comes, unless it meets an           *)
(* in-process socket, the test proxy or a stream that is still opening, or    *)
(* createConn threw with the connection made.                                 *)
ClosedIsForgotten ==
    closed ~> \/ opening # "running" /\ conn \in {"none", "removed"}
              \/ missed \/ conn = "stray"

(* "onDisconnect: called when a client disconnects", whichever way it came.   *)
(* Not so: see OpenRejects and onCloseCallback.                               *)
EveryCloseIsHeard == closed ~> conn # "open" /\ conn # "stray"

(* Every client gets its socket, or the refusal of onOpen.  Not so on the     *)
(* ways through a partitioned actor's router: see RequestFails.               *)
SocketsOpen == (ready = "connecting") ~> (ready = "open" \/ closed \/ opening = "rejected")

(* A connection without a client does not stay.  Not so on these ways: the    *)
(* actor has made it, and may hear of no close.                               *)
RefusedIsForgotten == (ready = "closed" /\ conn = "open") ~> conn # "open"

-----------------------------------------------------------------------------
(* The inductive invariant behind DeliveredInOrder.                           *)

(* How far the two sockets, the handler and its connection have come.         *)
StagesAgree ==
    /\ outer = "none" <=> ~Proxied
    /\ ready = "none" <=> outer = "connecting"
    /\ ready = "none" => opening = "none" /\ ~ending
    /\ opening = "none" => conn = "none"
    /\ opening = "resolved" => conn # "none"
    /\ opening = "rejected" => conn \in {"none", "stray"}
    /\ conn = "stray" => opening = "rejected"
    /\ conn \in {"none", "stray"} => emitted = 0
    /\ path = "rivet" => opening = "none"
    /\ Partitioned => ready # "open"
    /\ (Fake /\ ready = "open") => opening = "resolved"
    /\ (ready = "closing" \/ ending) => Fake /\ ~Stream
    /\ taken # <<>> => opening = "resolved"
    /\ (taken # <<>> /\ path = "test") => listening

(* What a way does not have is empty, and so is a queue that has been flushed. *)
QueuesAgree ==
    /\ ~Proxied => up = <<>> /\ down = <<>>
    /\ outer = "connecting" => up = <<>> /\ down = <<>>
    /\ ~Fake => buffered = <<>> /\ queued = <<>>
    /\ Fake => toClient = <<>> /\ toActor = <<>>
    /\ opening = "none" => toClient = <<>>
    /\ listening => buffered = <<>>
    /\ ready = "open" => queued = <<>>
    /\ path = "inline-sse" => buffered = <<>> /\ queued = <<>>
    /\ (path = "inline-sse" /\ ~listening) => heard = <<>>
    /\ Stream => sent = 0

(* What the actor has sent: the messages up to b have been heard or lie before *)
(* the client of a proxy, those after b are at the socket object or behind it. *)
(* What is behind a socket that has closed is dropped, and it does not come    *)
(* back.                                                                       *)
Past(a, b) == \E m \in a..b : Carries(heard, a, m) /\ Carries(down, m, b)

Behind(b) ==
    \E m, n \in b..emitted :
        Carries(buffered, b, m) /\ Carries(queued, m, n) /\ Carries(toClient, n, emitted)

Flows == outer \in {"none", "connecting", "open"} /\ (Fake \/ ready # "closed")

EmittedInOrder ==
    \E a, b \in 0..emitted :
        Past(a, b) /\ (Flows => Behind(b)) /\ (path # "inline-sse" => a = 0)

(* What the client has sent.  A proxy drops what comes before it has an open  *)
(* socket, or after that has closed; on the Rivet way that is everything.     *)
Received(b) == \E m \in 0..b : Carries(taken, 0, m) /\ Carries(toActor, m, b)

SentInOrder ==
    ~Proxied =>
        /\ \E b \in 0..sent : Carries(taken, 0, b)
        /\ opening # "rejected" => Received(sent)

TestSentInOrder ==
    path = "test" =>
        \E a, b \in 0..sent :
            /\ Carries(taken, a, b)
            /\ (taken = <<>> \/ ready = "open") => Carries(up, b, sent)

SocketsInv ==
    SocketsTypeOK /\ StagesAgree /\ QueuesAgree
        /\ EmittedInOrder /\ SentInOrder /\ TestSentInOrder /\ HandledAgrees
=============================================================================
