----------------------------- MODULE NodeRelay -----------------------------
(***************************************************************************)
(* Connections of the coordinate topology whose client is on one node and  *)
(* whose actor may be on another.  A RelayConn serves the socket; it talks *)
(* to the actor by messages published to the topic of the leader's node,   *)
(* which that node acknowledges before it handles them and which are       *)
(* published again when no ack comes.  Who leads is ActorPeer's subject:   *)
(* here leadership moves between nodes whose peer is referred to, a        *)
(* reference being to one peer: it does not pass on to the next of its     *)
(* node.  The sockets are a server's, whose handlers wait for each other;  *)
(* what differs for in-process ones is in ActorSockets.                    *)
(***************************************************************************)
EXTENDS Naturals, Sequences, FiniteSets

CONSTANTS
    Nodes,
    Conns,
    Home,        \* the node that serves the client of each connection
    Busy,        \* nodes that also have references of connections not looked at
    None,
    Retries,     \* bound: "retries" of p-retry, 5 in the code
    MaxFaults    \* bound: lost messages and leases, crashes, late acks, failed commands

ASSUME ConstantsAssumption ==
    /\ Home \in [Conns -> Nodes]
    /\ Busy \subseteq Nodes
    /\ None \notin Nodes
    /\ Retries \in Nat /\ MaxFaults \in Nat

(* What is published to a leader: connection open, connection close and a    *)
(* client's message.  Nodes also publish acks, and to a client's node its    *)
(* messages (fm) and the close by the actor (fcc).                           *)
ToLeader == {"lco", "lcc", "lm"}
NodeMessages == [kind : ToLeader \cup {"fm", "fcc"}, conn : Conns]
                    \cup [kind : {"ack"}, conn : Conns, of : ToLeader]
Stages == {"idle", "trying", "waiting", "acked", "failed", "aborted"}

VARIABLES
    lease,       \* the leader the store names
    serving,     \* the node whose peer leads with a loaded actor
    inbox,       \* the topic of each node, in the order of publication
    relay,       \* the RelayConn
    client,      \* its transport, or how it ended: "deaf" if the node never hears of it
    refs,        \* connections that hold a reference to the present peer of their node
    stale,       \* those whose peer has lost the lease and been disposed of since
    blind,       \* nodes whose present peer failed to start: it has no #leaderNodeId
    stage,       \* publishMessageToLeader, by kind and connection
    attempts,    \* its attempts so far
    opening,     \* connection-open handlers in prepareConn, by connection
    conns,       \* the connections of the actor, which are persisted
    kicked,      \* those the actor has disconnected
    received,    \* history: messages to a leader that a node has received
    slipped,     \* history: connections whose close found no connection to remove
    faults

publishing == <<stage, attempts>>
leading == <<lease, serving>>
peers == <<refs, stale, blind>>
actorVars == <<opening, conns, kicked>>
history == <<received, slipped>>
vars == <<leading, inbox, relay, client, peers, publishing, actorVars, history, faults>>

TypeOK ==
    /\ lease \in Nodes \cup {None} /\ serving \in {lease, None}
    /\ inbox \in [Nodes -> Seq(NodeMessages)]
    /\ relay \in [Conns -> {"idle", "acquiring", "opening", "open", "failed", "closing", "closed"}]
    /\ client \in [Conns -> {"none", "ws", "sse", "off", "deaf"}]
    /\ refs \subseteq Conns /\ stale \subseteq Conns /\ blind \subseteq Nodes
    /\ stage \in [ToLeader \X Conns -> Stages]
    /\ attempts \in [ToLeader \X Conns -> 0..(Retries + 1)]
    /\ opening \in [Conns -> 0..(Retries + 1)]
    /\ conns \subseteq Conns /\ kicked \subseteq Conns /\ slipped \subseteq Conns
    /\ received \subseteq ToLeader \X Conns
    /\ faults \in 0..MaxFaults

Init ==
    /\ lease = None /\ serving = None
    /\ inbox = [n \in Nodes |-> <<>>]
    /\ relay = [c \in Conns |-> "idle"]
    /\ client = [c \in Conns |-> "none"]
    /\ refs = {} /\ stale = {} /\ blind = {}
    /\ conns = {} /\ kicked = {} /\ slipped = {} /\ received = {}
    /\ stage = [p \in ToLeader \X Conns |-> "idle"]
    /\ attempts = [p \in ToLeader \X Conns |-> 0]
    /\ opening = [c \in Conns |-> 0]
    /\ faults = 0

Fault == faults < MaxFaults /\ faults' = faults + 1
At(n) == {c \in Conns : Home[c] = n}
Registered(c) == relay[c] \in {"opening", "open", "failed"}     \* in globalState.relayConns

-----------------------------------------------------------------------------
(* publishMessageToLeader.  A definition named X_<defect> is X with a         *)
(* plausible defect, for the mutation runs only.                              *)

Post(box, n, m) == [box EXCEPT ![n] = Append(@, m)]

Publish(kind, c) == stage' = [stage EXCEPT ![<<kind, c>>] = "trying"]

LastAttempt(p) == attempts[p] > Retries

(* An attempt reads the leader: no leader is an error like a missing ack.     *)
(* Otherwise the resolver is entered under the message's id, the same at      *)
(* every attempt, and the message is published.                               *)
publishMessageToLeaderInner(p) ==
    /\ stage[p] = "trying"
    /\ attempts' = [attempts EXCEPT ![p] = @ + 1]
    /\ IF lease = None
       THEN /\ stage' = [stage EXCEPT ![p] = IF attempts[p] = Retries THEN "failed" ELSE @]
            /\ UNCHANGED inbox
       ELSE /\ stage' = [stage EXCEPT ![p] = "waiting"]
            /\ inbox' = Post(inbox, lease, [kind |-> p[1], conn |-> p[2]])
    /\ UNCHANGED <<leading, relay, client, peers, actorVars, history, faults>>

(* The database has been purged: the actor is not initialized, no attempt is  *)
(* made again.                                                                *)
actorNotInitialized(p) ==
    /\ stage[p] = "trying" /\ Fault
    /\ stage' = [stage EXCEPT ![p] = "failed"]
    /\ UNCHANGED <<leading, inbox, relay, client, peers, attempts, actorVars, history>>

(* An open that is aborted while it reads the leader still goes out.          *)
publishAfterAbort(c) ==
    /\ stage[<<"lco", c>>] = "aborted"
    /\ stage' = [stage EXCEPT ![<<"lco", c>>] = "failed"]
    /\ attempts' = [attempts EXCEPT ![<<"lco", c>>] = @ + 1]
    /\ inbox' = IF lease = None THEN inbox ELSE Post(inbox, lease, [kind |-> "lco", conn |-> c])
    /\ UNCHANGED <<leading, relay, client, peers, actorVars, history, faults>>

(* No ack within messageAckTimeout: the message or its ack is lost, or late.  *)
Lost(p) ==
    LET Pending(n) == {inbox[n][i] : i \in DOMAIN inbox[n]} IN
    \A n \in Nodes : /\ [kind |-> p[1], conn |-> p[2]] \notin Pending(n)
                     /\ [kind |-> "ack", conn |-> p[2], of |-> p[1]] \notin Pending(n)

ackTimeout_Unarmed(p) ==
    /\ stage[p] = "waiting" /\ ~Lost(p)
    /\ Fault
    /\ stage' = [stage EXCEPT ![p] = IF LastAttempt(p) THEN "failed" ELSE "trying"]
    /\ UNCHANGED <<leading, inbox, relay, client, peers, attempts, actorVars, history>>

ackTimeout(p) ==
    /\ stage[p] = "waiting"
    /\ IF Lost(p) THEN UNCHANGED faults ELSE Fault
    /\ stage' = [stage EXCEPT ![p] = IF LastAttempt(p) THEN "failed" ELSE "trying"]
    /\ UNCHANGED <<leading, inbox, relay, client, peers, attempts, actorVars, history>>

-----------------------------------------------------------------------------
(* RelayConn and the handlers of its socket.                                  *)

onOpen(c) ==
    /\ relay[c] = "idle"
    /\ relay' = [relay EXCEPT ![c] = "acquiring"]
    /\ client' \in {[client EXCEPT ![c] = transport] : transport \in {"ws", "sse"}}
    /\ UNCHANGED <<leading, inbox, peers, publishing, actorVars, history, faults>>

(* RelayConn.start goes on when ActorPeer.acquire returns.                    *)
start(c) ==
    /\ relay[c] = "acquiring"
    /\ relay' = [relay EXCEPT ![c] = "opening"]
    /\ refs' = refs \cup {c}
    /\ Publish("lco", c)
    /\ UNCHANGED <<leading, inbox, client, stale, blind, attempts, actorVars, history, faults>>

(* The peer it creates fails to start, before or after it learns who leads,   *)
(* and stays in actorPeers for the connections that come next.                *)
NoPeer(n) == lease # n /\ n \notin blind /\ At(n) \cap refs = {}

acquireThrows(c) ==
    /\ relay[c] = "acquiring" /\ NoPeer(Home[c]) /\ Fault
    /\ relay' = [relay EXCEPT ![c] = "closed"]
    /\ blind' \in {blind, blind \cup {Home[c]}}
    /\ UNCHANGED <<leading, inbox, client, refs, stale, publishing, actorVars, history>>

\* The same, for a connection not looked at.
PeerStartThrows(n) ==
    /\ n \in Busy /\ NoPeer(n) /\ Fault
    /\ blind' = blind \cup {n}
    /\ UNCHANGED <<leading, inbox, relay, client, refs, stale, publishing, actorVars, history>>

(* The open is acked and the socket's other handlers are unblocked, or it     *)
(* has failed and they never are: the relay keeps its entry and reference.    *)
startEnds(c) ==
    /\ relay[c] = "opening" /\ stage[<<"lco", c>>] \in {"acked", "failed"}
    /\ relay' = [relay EXCEPT ![c] = IF stage[<<"lco", c>>] = "acked" THEN "open" ELSE "failed"]
    /\ UNCHANGED <<leading, inbox, client, peers, publishing, actorVars, history, faults>>

(* A message of the client: on its WebSocket, which waits for the open, or by *)
(* a POST, for which the stream's client needs its id from the init message.  *)
Send(c) ==
    /\ stage[<<"lm", c>>] = "idle"
    /\ Publish("lm", c)
    /\ UNCHANGED <<leading, inbox, relay, client, peers, attempts, actorVars, history,
                   faults>>

onMessage(c) == relay[c] = "open" /\ client[c] = "ws" /\ Send(c)

onConnMessage(c) == Registered(c) /\ c \in conns /\ client[c] = "sse" /\ Send(c)

(* An SSE stream listens for its end only once the open has been acked.       *)
ClientCloses(c) ==
    /\ client[c] \in {"ws", "sse"}
    /\ client' = [client EXCEPT ![c] = IF @ = "sse" /\ relay[c] # "open" THEN "deaf" ELSE "off"]
    /\ UNCHANGED <<leading, inbox, relay, peers, publishing, actorVars, history, faults>>

(* RelayConn.disconnect, which runs once: it aborts the open and drops the    *)
(* entry, and unless the leader asked for it publishes the close.  A peer     *)
(* that never learnt who leads goes with its last reference.                  *)
Deserted(c) ==
    Home[c] \notin Busy /\ c \notin stale /\ \A d \in At(Home[c]) \ {c} : d \notin refs

AbortsOpen(c, fromLeader) ==
    \E end \in {"failed", "aborted"} :
       stage' = [stage EXCEPT ![<<"lco", c>>] = CASE @ = "trying"  -> end
                                                  [] @ = "waiting" -> "failed"
                                                  [] OTHER         -> @,
                              ![<<"lcc", c>>] = IF fromLeader THEN @ ELSE "trying"]

disconnect_DropsReferenceFirst(c, fromLeader) ==
    /\ relay' = [relay EXCEPT ![c] = IF fromLeader THEN "closed" ELSE "closing"]
    /\ AbortsOpen(c, fromLeader)
    /\ refs' = refs \ {c}
    /\ blind' = IF fromLeader /\ Deserted(c) THEN blind \ {Home[c]} ELSE blind

disconnect(c, fromLeader) ==
    /\ relay' = [relay EXCEPT ![c] = IF fromLeader THEN "closed" ELSE "closing"]
    /\ AbortsOpen(c, fromLeader)
    /\ refs' = IF fromLeader THEN refs \ {c} ELSE refs
    /\ blind' = IF fromLeader /\ Deserted(c) THEN blind \ {Home[c]} ELSE blind

LeaderUnknown(c) == c \in refs /\ Home[c] \in blind

onClose(c) ==
    /\ client[c] = "off" /\ relay[c] = "open" /\ ~LeaderUnknown(c)
    /\ disconnect(c, FALSE)
    /\ UNCHANGED <<leading, inbox, client, stale, attempts, actorVars, history, faults>>

(* The leaderNodeId of such a peer throws: disconnect publishes no close and  *)
(* removes no reference.                                                      *)
disconnectThrows(c) ==
    /\ client[c] = "off" /\ relay[c] = "open" /\ LeaderUnknown(c)
    /\ relay' = [relay EXCEPT ![c] = "closed"]
    /\ UNCHANGED <<leading, inbox, client, peers, publishing, actorVars, history, faults>>

(* The close is acked and the reference goes; if it has failed, disconnect    *)
(* throws before it removes the reference.                                    *)
disconnectEnds(c) ==
    /\ relay[c] = "closing" /\ stage[<<"lcc", c>>] \in {"acked", "failed"}
    /\ relay' = [relay EXCEPT ![c] = "closed"]
    /\ refs' = IF stage[<<"lcc", c>>] = "acked" THEN refs \ {c} ELSE refs
    /\ UNCHANGED <<leading, inbox, client, stale, blind, publishing, actorVars, history, faults>>

-----------------------------------------------------------------------------
(* Node.#onMessage takes the next message of the node's topic.  One that      *)
(* carries an id is acked at once; each handler then returns early if the     *)
(* node has no leader actor (getLeaderActor).                                 *)

Take(n, kind) == inbox[n] # <<>> /\ Head(inbox[n]).kind = kind
Taken(n) == [inbox EXCEPT ![n] = Tail(@)]

\* A message to a leader is taken, acked and noted.
TakeForLeader(n, kind, c) ==
    /\ Take(n, kind) /\ Head(inbox[n]).conn = c
    /\ received' = received \cup {<<kind, c>>}

Acked(n, kind, c) ==
    Post(Taken(n), Home[c], [kind |-> "ack", conn |-> c, of |-> kind])

(* The resolver found under the message's id settles the publish.             *)
onAck_PerConnection(n) ==
    /\ Take(n, "ack")
    /\ LET c == Head(inbox[n]).conn IN
         stage' = [p \in ToLeader \X Conns |->
                     IF p[2] = c /\ stage[p] = "waiting" THEN "acked" ELSE stage[p]]
    /\ inbox' = Taken(n)
    /\ UNCHANGED <<leading, relay, client, peers, attempts, actorVars, history, faults>>

onAck(n) ==
    /\ Take(n, "ack")
    /\ LET m == Head(inbox[n]) IN
         stage' = [stage EXCEPT ![<<m.of, m.conn>>] = IF @ = "waiting" THEN "acked" ELSE @]
    /\ inbox' = Taken(n)
    /\ UNCHANGED <<leading, relay, client, peers, attempts, actorVars, history, faults>>

(* onLeaderConnectionOpen, up to its first await; then createConn, which      *)
(* throws for a connection that exists, and sends the init message.  Errors   *)
(* of either are logged, and no close is sent.                                *)
onLeaderConnectionOpen(n) ==
    \E c \in Conns :
       /\ TakeForLeader(n, "lco", c)
       /\ inbox' = Acked(n, "lco", c)
       /\ opening' = [opening EXCEPT ![c] = IF serving = n THEN @ + 1 ELSE @]
       /\ UNCHANGED <<leading, relay, client, peers, publishing, conns, kicked, slipped,
                      faults>>

createConn(c) ==
    /\ opening[c] > 0
    /\ opening' = [opening EXCEPT ![c] = @ - 1]
    /\ IF c \notin conns
       THEN /\ conns' = conns \cup {c}
            /\ inbox' = Post(inbox, Home[c], [kind |-> "fm", conn |-> c])
       ELSE UNCHANGED <<conns, inbox>>
    /\ UNCHANGED <<leading, relay, client, peers, publishing, kicked, history, faults>>

prepareConnFails(c) ==
    /\ opening[c] > 0
    /\ opening' = [opening EXCEPT ![c] = @ - 1]
    /\ UNCHANGED <<leading, inbox, relay, client, peers, publishing, conns, kicked,
                   history, faults>>

(* The close of a connection that is not there, or not there yet, is lost.    *)
onLeaderConnectionClose_KeepsConn(n) ==
    \E c \in Conns :
       /\ TakeForLeader(n, "lcc", c)
       /\ inbox' = Acked(n, "lcc", c)
       /\ slipped' = IF serving # n \/ opening[c] > 0 THEN slipped \cup {c} ELSE slipped
       /\ UNCHANGED <<leading, relay, client, peers, publishing, actorVars, faults>>

onLeaderConnectionClose(n) ==
    \E c \in Conns :
       /\ TakeForLeader(n, "lcc", c)
       /\ inbox' = Acked(n, "lcc", c)
       /\ conns' = IF serving = n THEN conns \ {c} ELSE conns
       /\ slipped' = IF serving # n \/ opening[c] > 0 THEN slipped \cup {c} ELSE slipped
       /\ UNCHANGED <<leading, relay, client, peers, publishing, opening, kicked, faults>>

(* The message runs for a connection that is there, and is answered.          *)
onLeaderMessage(n) ==
    \E c \in Conns :
       /\ TakeForLeader(n, "lm", c)
       /\ inbox' = IF serving = n /\ c \in conns
                   THEN Post(Acked(n, "lm", c), Home[c], [kind |-> "fm", conn |-> c])
                   ELSE Acked(n, "lm", c)
       /\ UNCHANGED <<leading, relay, client, peers, publishing, actorVars, slipped, faults>>

\* RelayConn.onMessage: what the actor sends goes out on the socket.
onFollowerMessage(n) ==
    /\ Take(n, "fm")
    /\ inbox' = Taken(n)
    /\ UNCHANGED <<leading, relay, client, peers, publishing, actorVars, history, faults>>

onFollowerConnectionClose(n) ==
    /\ Take(n, "fcc")
    /\ LET c == Head(inbox[n]).conn IN
         IF Registered(c) THEN disconnect(c, TRUE) ELSE UNCHANGED <<relay, stage, refs, blind>>
    /\ inbox' = Taken(n)
    /\ UNCHANGED <<leading, client, stale, attempts, actorVars, history, faults>>

(* conn.disconnect in the actor, through the relay driver: the connection is  *)
(* left for the relay to close, which answers the leader with nothing.        *)
relayDriverDisconnect(c) ==
    /\ serving # None /\ c \in conns \ kicked
    /\ kicked' = kicked \cup {c}
    /\ inbox' = Post(inbox, Home[c], [kind |-> "fcc", conn |-> c])
    /\ UNCHANGED <<leading, relay, client, peers, publishing, opening, conns, history,
                   faults>>

-----------------------------------------------------------------------------
(* Leadership, as ActorPeer moves it, and the failures of nodes and topics.   *)

Lease(n) ==
    /\ lease = None /\ n \notin blind
    /\ n \in Busy \/ \E c \in At(n) : c \in refs \/ relay[c] = "acquiring"
    /\ lease' = n
    /\ UNCHANGED <<serving, inbox, relay, client, peers, publishing, actorVars, history,
                   faults>>

ActorLoaded ==
    /\ lease # None /\ serving = None
    /\ serving' = lease
    /\ UNCHANGED <<lease, inbox, relay, client, peers, publishing, actorVars, history,
                   faults>>

(* The last reference to the leader's peer goes.                              *)
LeaderStops ==
    /\ lease # None
    /\ \A c \in At(lease) : c \notin refs /\ relay[c] # "acquiring"
    /\ lease' = None /\ serving' = None
    /\ opening' = [c \in Conns |-> 0]
    /\ UNCHANGED <<inbox, relay, client, peers, publishing, conns, kicked, history, faults>>

(* The lease has run out under it: the peer is disposed of with its           *)
(* references.                                                                *)
leaseInvalid ==
    /\ lease # None /\ Fault
    /\ lease' = None /\ serving' = None
    /\ opening' = [c \in Conns |-> 0]
    /\ stale' = stale \cup (refs \cap At(lease))
    /\ refs' = refs \ At(lease)
    /\ UNCHANGED <<inbox, relay, client, blind, publishing, conns, kicked, history>>

(* A message is lost: at most once is what the topics promise.                *)
Lose(n) ==
    /\ inbox[n] # <<>> /\ Fault
    /\ inbox' = Taken(n)
    /\ UNCHANGED <<leading, relay, client, peers, publishing, actorVars, history>>

(* A node dies with its relays; another takes its place in the model.         *)
Crash(n) ==
    /\ Fault
    /\ inbox' = [inbox EXCEPT ![n] = <<>>]
    /\ relay' = [c \in Conns |-> IF c \in At(n) /\ relay[c] # "idle" THEN "closed" ELSE relay[c]]
    /\ client' = [c \in Conns |-> IF c \in At(n) /\ relay[c] # "idle" THEN "off" ELSE client[c]]
    /\ refs' = refs \ At(n) /\ stale' = stale \ At(n) /\ blind' = blind \ {n}
    /\ stage' = [p \in ToLeader \X Conns |->
                   IF p[2] \in At(n) /\ stage[p] \in {"trying", "waiting", "aborted"}
                   THEN "failed" ELSE stage[p]]
    /\ IF lease = n
       THEN lease' = None /\ serving' = None /\ opening' = [c \in Conns |-> 0]
       ELSE UNCHANGED <<lease, serving, opening>>
    /\ UNCHANGED <<attempts, conns, kicked, history>>

Relay(c) == start(c) \/ startEnds(c) \/ onClose(c) \/ disconnectThrows(c) \/ disconnectEnds(c)

Handle(n) ==
    \/ onAck(n) \/ onLeaderConnectionOpen(n) \/ onLeaderConnectionClose(n)
    \/ onLeaderMessage(n) \/ onFollowerMessage(n) \/ onFollowerConnectionClose(n)

Next ==
    \/ \E c \in Conns :
          \/ onOpen(c) \/ acquireThrows(c) \/ ClientCloses(c) \/ Relay(c)
          \/ onMessage(c) \/ onConnMessage(c)
          \/ createConn(c) \/ prepareConnFails(c) \/ relayDriverDisconnect(c)
          \/ publishAfterAbort(c)
    \/ \E p \in ToLeader \X Conns :
          publishMessageToLeaderInner(p) \/ ackTimeout(p) \/ actorNotInitialized(p)
    \/ \E n \in Nodes : Handle(n) \/ Lease(n) \/ PeerStartThrows(n) \/ Lose(n) \/ Crash(n)
    \/ ActorLoaded \/ LeaderStops \/ leaseInvalid

\* Topics are read, timers fire and storage answers.  Nothing else is forced.
Fairness ==
    /\ \A n \in Nodes : WF_vars(Handle(n))
    /\ \A p \in ToLeader \X Conns :
          WF_vars(publishMessageToLeaderInner(p)) /\ WF_vars(Lost(p) /\ ackTimeout(p))
    /\ \A c \in Conns : WF_vars(Relay(c))

Spec == Init /\ [][Next]_vars /\ Fairness

-----------------------------------------------------------------------------
(* Properties.                                                                *)

(* A publish is settled only by the ack of its own message: whatever was      *)
(* retried, lost or late, a node has received what is acked.                  *)
AckedWasReceived ==
    /\ TypeOK
    /\ \A p \in ToLeader \X Conns : stage[p] = "acked" => p \in received

(* A connection stays in the actor after its relay has closed in one of four  *)
(* ways only: the actor had disconnected it, the close message found the open *)
(* still in prepareConn or no leader, or could not be published, or there was *)
(* a fault: a message lost or late, a lease lost, a crash, a failed start.    *)
GhostsHaveACause ==
    \A c \in conns :
       relay[c] = "closed" =>
          \/ c \in kicked \cup slipped \/ stage[<<"lcc", c>>] = "failed"
          \/ faults > 0

(* "Do this last since we need to send the connection close event"            *)
(* (conn/mod.ts:177): the actor is not stopped for want of references while a *)
(* relay that referred to its peer is still telling it of its close.  Relays  *)
(* whose peer had lost the lease before do not refer to the present one.      *)
NotStoppedBeforeClose ==
    [][serving # None /\ serving' = None /\ faults' = faults =>
         \A c \in At(serving) \ stale : stage[<<"lcc", c>>] \notin {"trying", "waiting"}]_vars

(* Not what the code does: after a lost lease the node's next peer may stop   *)
(* while an older relay of the node is telling it of its close.               *)
NodeWaitsForCloses ==
    [][serving # None /\ serving' = None /\ faults' = faults =>
         \A c \in At(serving) : stage[<<"lcc", c>>] \notin {"trying", "waiting"}]_vars

(* A relay that begins to close ends, whatever is lost, crashes or moves.     *)
DisconnectEnds == \A c \in Conns : relay[c] = "closing" ~> relay[c] = "closed"

(* Not what the code does: "it correctly handles leadership transfer edge     *)
(* cases" (node/message.ts:12).  A publish that is acked has been handled by  *)
(* a leader; a close that was acked without one has slipped.                  *)
AckedCloseIsHandled ==
    \A c \in Conns : stage[<<"lcc", c>>] = "acked" /\ faults = 0 => c \notin slipped

-----------------------------------------------------------------------------
(* The inductive invariant behind the theorems of NodeRelayProofs.            *)

\* m is the message of publish p, or the ack of it.
About(m, p) ==
    /\ m.conn = p[2]
    /\ m.kind = p[1] \/ (m.kind = "ack" /\ m.of = p[1])

\* No message about p is in the topics, or one at most.
Clear(box, p) == \A n \in Nodes : \A i \in DOMAIN box[n] : ~About(box[n][i], p)

Single(box, p) ==
    \A n, k \in Nodes : \A i \in DOMAIN box[n], j \in DOMAIN box[k] :
       About(box[n][i], p) /\ About(box[k][j], p) => n = k /\ i = j

\* Where the opens of a connection are in the topics.
OpensIn(box, c) ==
    {q \in UNION {{n} \X DOMAIN box[n] : n \in Nodes} :
        box[q[1]][q[2]].kind = "lco" /\ box[q[1]][q[2]].conn = c}

AttemptsFit ==
    \A p \in ToLeader \X Conns :
       /\ stage[p] = "idle" => attempts[p] = 0
       /\ stage[p] \in {"trying", "aborted"} => attempts[p] <= Retries

(* Every open being handled or still in a topic was an attempt of its own.    *)
OpensAreAttempts ==
    \A c \in Conns :
       /\ IsFiniteSet(OpensIn(inbox, c))
       /\ opening[c] + Cardinality(OpensIn(inbox, c)) <= attempts[<<"lco", c>>]

(* A relay, its two publishes and its reference.                              *)
RelayInStep ==
    /\ faults = 0 => blind = {}
    /\ \A c \in Conns :
          /\ relay[c] \in {"idle", "acquiring"} => stage[<<"lco", c>>] = "idle"
          /\ relay[c] \in {"open", "closing"} => stage[<<"lco", c>>] = "acked"
          /\ stage[<<"lco", c>>] = "aborted" => c \in kicked
          /\ relay[c] \notin {"closing", "closed"} => stage[<<"lcc", c>>] = "idle"
          /\ relay[c] \in {"opening", "open", "failed", "closing"} => c \in refs \cup stale
          /\ stage[<<"lcc", c>>] \in {"trying", "waiting"} => relay[c] = "closing"
          /\ relay[c] = "closed" /\ faults = 0 =>
                \/ c \in kicked
                \/ stage[<<"lco", c>>] = "acked" /\ stage[<<"lcc", c>>] \in {"acked", "failed"}

(* What is in a topic was published, received or decided before.              *)
HasACause(m) ==
    /\ m.kind \in ToLeader => stage[<<m.kind, m.conn>>] # "idle"
    /\ m.kind = "ack" => <<m.of, m.conn>> \in received
    /\ m.kind = "fcc" => m.conn \in kicked

TopicsHaveACause == \A n \in Nodes : \A i \in DOMAIN inbox[n] : HasACause(inbox[n][i])

ReceivedWasPublished ==
    \A p \in ToLeader \X Conns :
       /\ stage[p] = "acked" => p \in received
       /\ p \in received => stage[p] # "idle"

(* Without faults a publish has one message or one ack under way, and only    *)
(* while it waits; an open the actor cut short excepted.                      *)
Waits(p) ==
    stage[p] = "waiting" \/ (p[1] = "lco" /\ p[2] \in kicked /\ stage[p] = "failed")

OneUnderWay ==
    faults = 0 =>
       \A p \in ToLeader \X Conns : Single(inbox, p) /\ (Clear(inbox, p) \/ Waits(p))

(* Without faults a close that a leader has handled leaves nothing of the     *)
(* connection, nor an open that could bring it back.                          *)
ClosedIsGone ==
    faults = 0 =>
       \A c \in Conns : <<"lcc", c>> \in received /\ c \notin slipped \cup kicked =>
          c \notin conns /\ opening[c] = 0

IInv ==
    /\ TypeOK
    /\ AttemptsFit /\ OpensAreAttempts
    /\ RelayInStep
    /\ TopicsHaveACause /\ ReceivedWasPublished
    /\ OneUnderWay /\ ClosedIsGone
=============================================================================
