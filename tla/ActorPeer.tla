------------------------------ MODULE ActorPeer ------------------------------
(***************************************************************************)
(* Leadership of one actor in the coordinate topology.                     *)
(*                                                                         *)
(* Every server process (node) keeps at most one ActorPeer per actor in    *)
(* globalState.actorPeers.  Peers agree on who runs the actor through one  *)
(* Redis key, the lease, written by three Lua scripts.  The peer that      *)
(* holds the lease instantiates the actor; the others poll.  A peer lives  *)
(* as long as a relay connection of its node refers to it.                 *)
(*                                                                         *)
(* A Redis command and its execution are one step, its reply another: the  *)
(* commands of a node share a FIFO connection, and nothing a node does     *)
(* between sending and execution reads the key.  Time is abstract: a timer *)
(* or the lease's TTL may run out at any moment.                           *)
(***************************************************************************)
EXTENDS Naturals, FiniteSets

CONSTANTS
    Nodes,        \* server processes; a restarted process has a new node id
    Peers,        \* ActorPeer objects, each created at most once
    Conns,        \* relay connections (client sockets), each opened once
    NodeOf,       \* the node on which a peer object may be created
    ConnNode,     \* the node a client is connected to
    None,         \* undefined / no entry
    MaxLost,      \* bound: leases lost while a peer relies on them
    MaxCrashes    \* bound: processes that die

ASSUME ConstantsAssumption ==
    /\ NodeOf \in [Peers -> Nodes]
    /\ ConnNode \in [Conns -> Nodes]
    /\ None \notin Nodes \cup Peers
    /\ MaxLost \in Nat
    /\ MaxCrashes \in Nat

VARIABLES
    lease,        \* Redis: the value of KEYS.ACTOR.LEASE.node, or None
    actorPeers,   \* per node: globalState.actorPeers.get(actorId)
    hb,           \* per peer: where its start/heartbeat coroutine is
    reply,        \* per peer: the answer of Redis it has not handled yet
    leader,       \* per peer: #leaderNodeId
    actor,        \* per peer: life cycle of #loadedActor
    disposal,     \* per peer: where #dispose is; "no" means ~#isDisposed
    refs,         \* per peer: #referenceConnections
    phase,        \* per connection: where RelayConn start/disconnect is
    peerOf,       \* per connection: the peer it acquires
    crashed,      \* nodes whose process died
    defined,      \* nodes whose registry has the actor's name: not all in a deployment
    lost,         \* history: leases lost under a peer relying on them
    overlap       \* history: a peer was created beside a relying predecessor

peerVars == <<hb, reply, leader, actor, disposal>>
connVars == <<refs, phase, peerOf>>
histVars == <<defined, lost, overlap>>
vars == <<lease, actorPeers, hb, reply, leader, actor, disposal, refs, phase,
          peerOf, crashed, defined, lost, overlap>>

HbStates == {"unborn", "starting", "loading", "sleeping", "extending",
             "attempting", "off"}
ActorStates == {"none", "starting", "ready", "stopping", "stopped", "failed", "gone"}
DisposalStates == {"no", "stopping", "stoppingLost", "done", "broken"}
ConnPhases == {"idle", "acquiring", "open", "leaving", "closed"}

TypeOK ==
    /\ lease \in Nodes \cup {None}
    /\ actorPeers \in [Nodes -> Peers \cup {None}]
    /\ hb \in [Peers -> HbStates]
    /\ reply \in [Peers -> Nodes \cup {None}]
    /\ leader \in [Peers -> Nodes \cup {None}]
    /\ actor \in [Peers -> ActorStates]
    /\ disposal \in [Peers -> DisposalStates]
    /\ refs \in [Peers -> SUBSET Conns]
    /\ phase \in [Conns -> ConnPhases]
    /\ peerOf \in [Conns -> Peers \cup {None}]
    /\ crashed \in SUBSET Nodes
    /\ defined \in SUBSET Nodes
    /\ lost \in Nat
    /\ overlap \in BOOLEAN

Init ==
    /\ lease = None
    /\ actorPeers = [n \in Nodes |-> None]
    /\ hb = [p \in Peers |-> "unborn"]
    /\ reply = [p \in Peers |-> None]
    /\ leader = [p \in Peers |-> None]
    /\ actor = [p \in Peers |-> "none"]
    /\ disposal = [p \in Peers |-> "no"]
    /\ refs = [p \in Peers |-> {}]
    /\ phase = [c \in Conns |-> "idle"]
    /\ peerOf = [c \in Conns |-> None]
    /\ crashed = {}
    /\ defined \in SUBSET Nodes
    /\ lost = 0
    /\ overlap = FALSE

-----------------------------------------------------------------------------
(* The Lua scripts: what each leaves in the key.  A definition named         *)
(* X_<defect> is X with a plausible defect, for the mutation runs only.      *)

LeaseAfterAcquire_NoCheck(n) == n
LeaseAfterAcquire(n) == IF lease = None THEN n ELSE lease
LeaseAfterRelease(n) == IF lease = n THEN None ELSE lease
ExtendAnswer(n) == IF lease = n THEN n ELSE None

(* A peer runs an instance of the actor as leader. *)
Leading(p) ==
    /\ leader[p] = NodeOf[p]
    /\ actor[p] \in {"starting", "ready", "stopping"}

(* A peer relies on the lease: it leads, or Redis has told it that it may. *)
Relies(p) ==
    \/ Leading(p)
    \/ hb[p] \in {"starting", "attempting"} /\ reply[p] = NodeOf[p]

IsLeader(p) == leader[p] = NodeOf[p]
Defined(p) == NodeOf[p] \in defined
Disposed(p) == disposal[p] # "no"
Registered(p) == actorPeers[NodeOf[p]] = p

-----------------------------------------------------------------------------
(* ActorPeer.acquire, called by RelayConn.start. *)

(* The node has a peer for the actor: it is returned at once, started or not. *)
JoinPeer(c) ==
    LET p == actorPeers[ConnNode[c]] IN
    /\ phase[c] = "idle"
    /\ p # None
    /\ refs' = [refs EXCEPT ![p] = @ \cup {c}]
    /\ phase' = [phase EXCEPT ![c] = "open"]
    /\ peerOf' = [peerOf EXCEPT ![c] = p]
    /\ UNCHANGED <<lease, actorPeers, peerVars, crashed, histVars>>

(* No peer yet: one is created, entered in the map and started; the lease    *)
(* script runs inside startActorAndAcquireLease.                             *)
CreatePeer(c, p) ==
    LET n == ConnNode[c] IN
    /\ phase[c] = "idle"
    /\ n \notin crashed
    /\ actorPeers[n] = None
    /\ NodeOf[p] = n /\ hb[p] = "unborn"
    /\ actorPeers' = [actorPeers EXCEPT ![n] = p]
    /\ lease' = LeaseAfterAcquire(n)
    /\ hb' = [hb EXCEPT ![p] = "starting"]
    /\ reply' = [reply EXCEPT ![p] = LeaseAfterAcquire(n)]
    /\ phase' = [phase EXCEPT ![c] = "acquiring"]
    /\ peerOf' = [peerOf EXCEPT ![c] = p]
    /\ overlap' = (overlap \/ \E q \in Peers : NodeOf[q] = n /\ Relies(q))
    /\ UNCHANGED <<leader, actor, disposal, refs, crashed, defined, lost>>

(* The connections whose acquire awaits p.#start(). *)
Creators(p) == {c \in Conns : peerOf[c] = p /\ phase[c] \in {"acquiring"}}

(* acquire resumes after #start and adds its reference, also when the socket *)
(* has closed meanwhile: what follows in RelayConn.start notices, if at all. *)
AcquireReturns(p) ==
    /\ refs' = [refs EXCEPT ![p] = @ \cup Creators(p)]
    /\ phase' = [c \in Conns |-> IF c \in Creators(p) THEN "open" ELSE phase[c]]

AcquireThrows(p) ==
    /\ phase' = [c \in Conns |-> IF c \in Creators(p) THEN "closed" ELSE phase[c]]
    /\ UNCHANGED refs

-----------------------------------------------------------------------------
(* #start and #convertToLeader *)

StartAsLeader_LoadsLater(p) ==
    /\ hb[p] = "starting" /\ reply[p] = NodeOf[p]
    /\ leader' = [leader EXCEPT ![p] = reply[p]]
    /\ hb' = [hb EXCEPT ![p] = "loading"]
    /\ UNCHANGED <<lease, actorPeers, reply, actor, disposal, connVars, crashed, histVars>>

StartAsLeader(p) ==
    /\ hb[p] = "starting" /\ reply[p] = NodeOf[p] /\ Defined(p)
    /\ leader' = [leader EXCEPT ![p] = reply[p]]
    /\ actor' = [actor EXCEPT ![p] = "starting"]
    /\ hb' = [hb EXCEPT ![p] = "loading"]
    /\ UNCHANGED <<lease, actorPeers, reply, disposal, connVars, crashed, histVars>>

(* The registry of the node has no such actor: #convertToLeader throws, and  *)
(* #start with it, when #leaderNodeId is set already.                        *)
StartUndefined(p) ==
    /\ hb[p] = "starting" /\ reply[p] = NodeOf[p] /\ ~Defined(p)
    /\ leader' = [leader EXCEPT ![p] = reply[p]]
    /\ hb' = [hb EXCEPT ![p] = "off"]
    /\ AcquireThrows(p)
    /\ UNCHANGED <<lease, actorPeers, reply, actor, disposal, peerOf, crashed, histVars>>

StartAsFollower(p) ==
    /\ hb[p] = "starting" /\ reply[p] # NodeOf[p]
    /\ leader' = [leader EXCEPT ![p] = reply[p]]
    /\ hb' = [hb EXCEPT ![p] = "sleeping"]
    /\ AcquireReturns(p)
    /\ UNCHANGED <<lease, actorPeers, reply, actor, disposal, peerOf, crashed, histVars>>

(* The transaction failed or the actor does not exist: #start throws and the *)
(* peer stays in the map, without leader and without heartbeat.              *)
StartThrows(p) ==
    /\ hb[p] = "starting"
    /\ hb' = [hb EXCEPT ![p] = "off"]
    /\ AcquireThrows(p)
    /\ UNCHANGED <<lease, actorPeers, reply, leader, actor, disposal, peerOf,
                   crashed, histVars>>

(* actor.start() resolves.  In #start the first heartbeat is armed only now; *)
(* a promoted follower did not wait.                                         *)
ActorStarted(p) ==
    /\ actor[p] = "starting"
    /\ actor' = [actor EXCEPT ![p] = "ready"]
    /\ IF hb[p] = "loading"
         THEN hb' = [hb EXCEPT ![p] = "sleeping"] /\ AcquireReturns(p)
         ELSE UNCHANGED <<hb, refs, phase>>
    /\ UNCHANGED <<lease, actorPeers, reply, leader, disposal, peerOf, crashed, histVars>>

ActorStartFailed(p) ==
    /\ actor[p] = "starting"
    /\ actor' = [actor EXCEPT ![p] = "failed"]
    /\ IF hb[p] = "loading"
         THEN hb' = [hb EXCEPT ![p] = "off"] /\ AcquireThrows(p)
         ELSE UNCHANGED <<hb, refs, phase>>
    /\ UNCHANGED <<lease, actorPeers, reply, leader, disposal, peerOf, crashed, histVars>>

-----------------------------------------------------------------------------
(* #dispose(releaseLease).  The map entry and the timer go first; a leader   *)
(* then stops its actor.  stop() throws when the actor is not ready.  A      *)
(* leader that never got an actor goes on to release its lease at once.      *)
Dispose(p, releaseLease) ==
    /\ actorPeers' = [actorPeers EXCEPT ![NodeOf[p]] = None]
    /\ \/ /\ ~IsLeader(p) \/ actor[p] = "none"
          /\ disposal' = [disposal EXCEPT ![p] = "done"]
          /\ lease' = IF IsLeader(p) /\ releaseLease THEN LeaseAfterRelease(NodeOf[p]) ELSE lease
          /\ UNCHANGED actor
       \/ /\ IsLeader(p) /\ actor[p] = "ready"
          /\ disposal' = [disposal EXCEPT ![p] =
                             IF releaseLease THEN "stopping" ELSE "stoppingLost"]
          /\ actor' = [actor EXCEPT ![p] = "stopping"]
          /\ UNCHANGED lease
       \/ /\ IsLeader(p) /\ actor[p] \notin {"none", "ready"}
          /\ disposal' = [disposal EXCEPT ![p] = "broken"]
          /\ UNCHANGED <<actor, lease>>

(* actor.stop() has written the state and closed the connections; only then  *)
(* is the lease released.                                                    *)
ActorStopped(p) ==
    /\ disposal[p] \in {"stopping", "stoppingLost"}
    /\ actor' = [actor EXCEPT ![p] = "stopped"]
    /\ disposal' = [disposal EXCEPT ![p] = "done"]
    /\ lease' = IF disposal[p] = "stopping" THEN LeaseAfterRelease(NodeOf[p]) ELSE lease
    /\ UNCHANGED <<actorPeers, hb, reply, leader, connVars, crashed, histVars>>

(* The last write failed: #dispose rejects, the lease is kept. *)
ActorStopFailed_Releases(p) ==
    /\ disposal[p] \in {"stopping", "stoppingLost"}
    /\ actor' = [actor EXCEPT ![p] = "ready"]
    /\ disposal' = [disposal EXCEPT ![p] = "broken"]
    /\ lease' = LeaseAfterRelease(NodeOf[p])
    /\ UNCHANGED <<actorPeers, hb, reply, leader, connVars, crashed, histVars>>

ActorStopFailed(p) ==
    /\ disposal[p] \in {"stopping", "stoppingLost"}
    /\ actor' = [actor EXCEPT ![p] = "ready"]
    /\ disposal' = [disposal EXCEPT ![p] = "broken"]
    /\ UNCHANGED <<lease, actorPeers, hb, reply, leader, connVars, crashed, histVars>>

-----------------------------------------------------------------------------
(* #heartbeat: extendLease for a leader, attemptAcquireLease for a follower *)

(* The timer of a disposed peer was cleared, or fires and returns. *)
HeartbeatEnds(p) ==
    /\ hb[p] = "sleeping" /\ Disposed(p)
    /\ hb' = [hb EXCEPT ![p] = "off"]
    /\ UNCHANGED <<lease, actorPeers, reply, leader, actor, disposal, connVars,
                   crashed, histVars>>

ExtendLease(p) ==
    /\ hb[p] = "sleeping" /\ ~Disposed(p) /\ IsLeader(p)
    /\ hb' = [hb EXCEPT ![p] = "extending"]
    /\ reply' = [reply EXCEPT ![p] = ExtendAnswer(NodeOf[p])]
    /\ UNCHANGED <<lease, actorPeers, leader, actor, disposal, connVars, crashed, histVars>>

LeaseExtended(p) ==
    /\ hb[p] = "extending" /\ reply[p] = NodeOf[p]
    /\ hb' = [hb EXCEPT ![p] = "sleeping"]
    /\ UNCHANGED <<lease, actorPeers, reply, leader, actor, disposal, connVars,
                   crashed, histVars>>

LeaseInvalid_Ignored(p) ==
    /\ hb[p] = "extending" /\ reply[p] # NodeOf[p]
    /\ hb' = [hb EXCEPT ![p] = "sleeping"]
    /\ UNCHANGED <<lease, actorPeers, reply, leader, actor, disposal, connVars,
                   crashed, histVars>>

LeaseInvalid(p) ==
    /\ hb[p] = "extending" /\ reply[p] # NodeOf[p]
    /\ hb' = [hb EXCEPT ![p] = "off"]
    /\ IF Disposed(p) THEN UNCHANGED <<actorPeers, disposal, actor, lease>>
                      ELSE Dispose(p, FALSE)
    /\ UNCHANGED <<reply, leader, connVars, crashed, histVars>>

AttemptAcquireLease(p) ==
    /\ hb[p] = "sleeping" /\ ~Disposed(p) /\ ~IsLeader(p)
    /\ hb' = [hb EXCEPT ![p] = "attempting"]
    /\ lease' = LeaseAfterAcquire(NodeOf[p])
    /\ reply' = [reply EXCEPT ![p] = LeaseAfterAcquire(NodeOf[p])]
    /\ UNCHANGED <<actorPeers, leader, actor, disposal, connVars, crashed, histVars>>

(* #attemptAcquireLease resumes; it does not look at #isDisposed again.  Nor *)
(* does it await #convertToLeader: if that throws, the heartbeat goes on.    *)
Promoted(p) == reply[p] = NodeOf[p] /\ Defined(p)

AttemptAnswered_NotRescheduled(p) ==
    /\ hb[p] = "attempting"
    /\ leader' = [leader EXCEPT ![p] = reply[p]]
    /\ actor' = IF Promoted(p) THEN [actor EXCEPT ![p] = "starting"] ELSE actor
    /\ hb' = [hb EXCEPT ![p] = IF reply[p] = NodeOf[p] THEN "sleeping" ELSE "off"]
    /\ UNCHANGED <<lease, actorPeers, reply, disposal, connVars, crashed, histVars>>

AttemptAnswered(p) ==
    /\ hb[p] = "attempting"
    /\ leader' = [leader EXCEPT ![p] = reply[p]]
    /\ actor' = IF Promoted(p) THEN [actor EXCEPT ![p] = "starting"] ELSE actor
    /\ hb' = [hb EXCEPT ![p] = "sleeping"]
    /\ UNCHANGED <<lease, actorPeers, reply, disposal, connVars, crashed, histVars>>

-----------------------------------------------------------------------------
(* RelayConn.disconnect *)

(* Every attempt to publish the open failed, or it was aborted because the   *)
(* socket of an in-process client closed during the acquire, when disconnect *)
(* found no peer yet: start rejects, and nobody disconnects after that.      *)
OpenPublishFailed(c) ==
    /\ phase[c] = "open"
    /\ phase' = [phase EXCEPT ![c] = "closed"]
    /\ UNCHANGED <<lease, actorPeers, peerVars, refs, peerOf, crashed, histVars>>

Close(c) ==
    /\ phase[c] = "open"
    /\ phase' = [phase EXCEPT ![c] = "leaving"]
    /\ UNCHANGED <<lease, actorPeers, peerVars, refs, peerOf, crashed, histVars>>

(* The close message is out (or came from the leader): the reference goes,   *)
(* and with the last one the peer.                                           *)
RemoveConnectionReference(c) ==
    LET p == peerOf[c] IN
    /\ phase[c] = "leaving"
    /\ phase' = [phase EXCEPT ![c] = "closed"]
    /\ refs' = [refs EXCEPT ![p] = @ \ {c}]
    /\ IF refs[p] \subseteq {c} /\ ~Disposed(p)
         THEN Dispose(p, TRUE)
         ELSE UNCHANGED <<actorPeers, disposal, actor, lease>>
    /\ UNCHANGED <<hb, reply, leader, peerOf, crashed, histVars>>

(* Every attempt to publish the close message failed, or the leader is not   *)
(* known yet: disconnect throws before it removes the reference.             *)
ClosePublishFailed(c) ==
    /\ phase[c] = "leaving"
    /\ phase' = [phase EXCEPT ![c] = "closed"]
    /\ UNCHANGED <<lease, actorPeers, peerVars, refs, peerOf, crashed, histVars>>

-----------------------------------------------------------------------------
(* Environment *)

(* A leader without an actor, or whose actor failed, renews its lease too.   *)
Renews(p) == IsLeader(p) /\ ~Disposed(p) /\ hb[p] \in {"sleeping", "extending"}

(* The TTL of a lease nobody relies on or renews runs out. *)
LeaseLapses ==
    /\ lease # None
    /\ ~\E p \in Peers : NodeOf[p] = lease /\ (Relies(p) \/ Renews(p))
    /\ lease' = None
    /\ UNCHANGED <<actorPeers, peerVars, connVars, crashed, histVars>>

(* The TTL runs out under a peer that does: latency, a long pause, a start   *)
(* or stop longer than leaseDuration, a purged database.                     *)
LeaseLost ==
    /\ lease # None
    /\ \E p \in Peers : NodeOf[p] = lease /\ (Relies(p) \/ Renews(p))
    /\ lost < MaxLost
    /\ lease' = None
    /\ lost' = lost + 1
    /\ UNCHANGED <<actorPeers, peerVars, connVars, crashed, defined, overlap>>

(* The process dies with everything it holds in memory. *)
Crash(n) ==
    /\ n \notin crashed
    /\ Cardinality(crashed) < MaxCrashes
    /\ crashed' = crashed \cup {n}
    /\ actorPeers' = [actorPeers EXCEPT ![n] = None]
    /\ hb' = [p \in Peers |-> IF NodeOf[p] = n THEN "off" ELSE hb[p]]
    /\ actor' = [p \in Peers |-> IF NodeOf[p] = n THEN "gone" ELSE actor[p]]
    /\ disposal' = [p \in Peers |-> IF NodeOf[p] = n THEN "done" ELSE disposal[p]]
    /\ refs' = [p \in Peers |-> IF NodeOf[p] = n THEN {} ELSE refs[p]]
    /\ phase' = [c \in Conns |-> IF ConnNode[c] = n THEN "closed" ELSE phase[c]]
    /\ UNCHANGED <<lease, reply, leader, peerOf, histVars>>

-----------------------------------------------------------------------------
PeerStep(p) ==
    \/ StartAsLeader(p) \/ StartUndefined(p) \/ StartAsFollower(p) \/ StartThrows(p)
    \/ ActorStarted(p) \/ ActorStartFailed(p)
    \/ ActorStopped(p) \/ ActorStopFailed(p)
    \/ HeartbeatEnds(p) \/ ExtendLease(p) \/ LeaseExtended(p) \/ LeaseInvalid(p)
    \/ AttemptAcquireLease(p) \/ AttemptAnswered(p)

ConnStep(c) ==
    \/ JoinPeer(c)
    \/ \E p \in Peers : CreatePeer(c, p)
    \/ OpenPublishFailed(c) \/ Close(c)
    \/ RemoveConnectionReference(c) \/ ClosePublishFailed(c)

Next ==
    \/ \E p \in Peers : PeerStep(p)
    \/ \E c \in Conns : ConnStep(c)
    \/ LeaseLapses \/ LeaseLost
    \/ \E n \in Nodes : Crash(n)

Spec == Init /\ [][Next]_vars

(* Timers fire, Redis answers, start and stop settle, a disconnect runs to   *)
(* its end, and a TTL nobody renews runs out.  Clients, faults and crashes   *)
(* are never forced.                                                         *)
Fairness ==
    /\ \A p \in Peers :
         /\ WF_vars(StartAsLeader(p) \/ StartUndefined(p) \/ StartAsFollower(p) \/ StartThrows(p))
         /\ WF_vars(ActorStarted(p) \/ ActorStartFailed(p))
         /\ WF_vars(ActorStopped(p) \/ ActorStopFailed(p))
         /\ WF_vars(HeartbeatEnds(p) \/ ExtendLease(p) \/ AttemptAcquireLease(p))
         /\ WF_vars(LeaseExtended(p) \/ LeaseInvalid(p) \/ AttemptAnswered(p))
    /\ \A c \in Conns : WF_vars(RemoveConnectionReference(c) \/ ClosePublishFailed(c))
    /\ WF_vars(LeaseLapses)

FairSpec == Spec /\ Fairness
-----------------------------------------------------------------------------
(* Properties *)

(* A peer is in globalState.actorPeers exactly from acquire to #dispose: the *)
(* entry dispose deletes is its own, never that of a successor (a second     *)
(* dispose, or one of the wrong peer, would unregister a live one).          *)
RegisteredUntilDisposed ==
    /\ \A p \in Peers : Registered(p) <=> hb[p] # "unborn" /\ ~Disposed(p)
    /\ \A n \in Nodes : actorPeers[n] # None => NodeOf[actorPeers[n]] = n

(* A leader without actor is one of a node that cannot make it. *)
ActorlessIsUndefined == \A p \in Peers : IsLeader(p) /\ Defined(p) => actor[p] # "none"

(* Leader election: as long as no lease was lost under a peer that relied on *)
(* it and no node made a new peer beside an old one still relying on the     *)
(* node's lease, at most one instance of the actor runs in the cluster.      *)
MutualExclusion ==
    lost = 0 /\ ~overlap =>
        \A p, q \in Peers : Leading(p) /\ Leading(q) => p = q

(* Under the same conditions whoever leads, or has been told it may, is the  *)
(* holder of the lease: nobody else can be granted it, and the release at    *)
(* the end of #dispose frees a lease no other instance depends on.           *)
ReliesOnOwnLease ==
    lost = 0 /\ ~overlap =>
        \A p \in Peers : Relies(p) => lease = NodeOf[p]

(* No two peers of one node rely on the node's lease, unless one was created *)
(* while the other had not finished its dispose.                             *)
OneReliesPerNode ==
    ~overlap =>
        \A p, q \in Peers : NodeOf[p] = NodeOf[q] /\ Relies(p) /\ Relies(q) => p = q

(* A disposed peer that still relies on the lease has no successor yet.      *)
ReliesAlone ==
    ~overlap =>
        \A p \in Peers : Relies(p) /\ Disposed(p) => actorPeers[NodeOf[p]] = None

(* Where the coroutines of a peer can be together. *)
PeerStages ==
    \A p \in Peers :
        /\ hb[p] = "unborn" => actor[p] = "none" /\ ~Disposed(p)
        /\ hb[p] \in {"unborn", "starting", "attempting"} => ~IsLeader(p)
        /\ disposal[p] \in {"stopping", "stoppingLost"} => IsLeader(p) /\ actor[p] = "stopping"

(* The peer of a connection exists. *)
ConnStages ==
    \A c \in Conns :
        phase[c] \in {"acquiring", "open", "leaving"} =>
            peerOf[c] \in Peers /\ hb[peerOf[c]] # "unborn"

(* The inductive invariant behind MutualExclusion: what it needs at every    *)
(* interleaving of starts, heartbeats, replies and disposes.                 *)
IInv ==
    /\ TypeOK
    /\ RegisteredUntilDisposed
    /\ ReliesOnOwnLease
    /\ OneReliesPerNode
    /\ ReliesAlone
    /\ PeerStages
    /\ ConnStages
    /\ ActorlessIsUndefined

(* getLeaderActor meets its assertion "Actor is leader, but loadedActor is   *)
(* undefined" on no node whose registry has the actor: message handlers may  *)
(* run between any two steps of a start, a promotion or a dispose.           *)
LeaderHasActor ==
    \A n \in defined :
        LET p == actorPeers[n] IN p # None /\ IsLeader(p) => actor[p] # "none"

(* The lease changes hands only through absence, and it becomes absent by    *)
(* its TTL or by the release of a stopping peer of the very node that holds  *)
(* it (at once if that peer has no actor): a late release, extend or acquire *)
(* never hits another node's lease.                                          *)
NotStolen ==
    lease # None /\ lease' # lease =>
       /\ lease' = None
       /\ \/ disposal' = disposal
          \/ \E p \in Peers : /\ NodeOf[p] = lease /\ disposal'[p] = "done"
                              /\ \/ disposal[p] = "stopping"
                                 \/ disposal[p] = "no" /\ IsLeader(p) /\ actor[p] = "none"
NoStealing == [][NotStolen]_vars

(* A lease that is given up voluntarily is given up after the stop of the    *)
(* actor of that node has returned: a successor starts after it.             *)
StoppedBeforeHandover ==
    [][lease # None /\ lease' = None /\ lost' = lost /\ ~overlap =>
         \A p \in Peers : NodeOf[p] = lease => ~Leading(p)']_vars

(* A registered leader that lost its lease notices: it is disposed, unless   *)
(* its lease is granted to the node again.                                   *)
DeposedLeaderStops ==
    \A p \in Peers :
        (Registered(p) /\ Leading(p) /\ actor[p] = "ready" /\ lease # NodeOf[p])
            ~> (Disposed(p) \/ lease = NodeOf[p])

(* Failover: a follower does not believe in a crashed leader for ever.       *)
FollowerLeavesCrashedLeader ==
    \A p \in Peers, n \in Nodes :
        (Registered(p) /\ leader[p] = n /\ n \in crashed)
            ~> (Disposed(p) \/ leader[p] # n)

-----------------------------------------------------------------------------
(* What comments and docs of the repository say and the code does not do.    *)

(* docs/general/architecture.mdx:35: the servers elect a leader, which runs  *)
(* the actor.  At most one instance is up as long as no lease is lost, no    *)
(* process dies and no dispose fails.                                        *)
ElectedLeaderIsUnique ==
    lost = 0 /\ crashed = {} /\ (\A p \in Peers : disposal[p] # "broken") =>
        \A p, q \in Peers : actor[p] = "ready" /\ actor[q] = "ready" => p = q

(* actor-peer.ts:28: "If this set is empty, the actor should be shut down."  *)
UnreferencedActorStops ==
    \A p \in Peers : (actor[p] = "ready" /\ refs[p] = {})
                        ~> (actor[p] # "ready" \/ refs[p] # {})

(* actor-peer.ts:28: referenceConnections are the "connections that hold a   *)
(* reference": none is a closed connection.                                  *)
ReferencesAreOpen ==
    \A p \in Peers, c \in Conns : c \in refs[p] => phase[c] \in {"open", "leaving"}
=============================================================================
