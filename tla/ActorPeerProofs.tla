-------------------------- MODULE ActorPeerProofs --------------------------
(* Theorems about ActorPeer, for every set of nodes, peers and connections.  *)
EXTENDS ActorPeer, TLAPS

USE ConstantsAssumption DEF ConstantsAssumption

(* The initial state has the types. *)
LEMMA InitType == Init => TypeOK
<1> SUFFICES ASSUME Init PROVE TypeOK
  OBVIOUS
<1>1. /\ actorPeers \in [Nodes -> Peers \cup {None}]
      /\ reply \in [Peers -> Nodes \cup {None}]
      /\ leader \in [Peers -> Nodes \cup {None}]
      /\ peerOf \in [Conns -> Peers \cup {None}]
      /\ refs \in [Peers -> SUBSET Conns]
  BY DEF Init
<1>2. /\ hb \in [Peers -> HbStates]
      /\ actor \in [Peers -> ActorStates]
      /\ disposal \in [Peers -> DisposalStates]
      /\ phase \in [Conns -> ConnPhases]
  BY DEF Init, HbStates, ActorStates, DisposalStates, ConnPhases
<1>3. QED BY <1>1, <1>2 DEF Init, TypeOK

(* Every step keeps the types. *)
LEMMA StepType == TypeOK /\ [Next]_vars => TypeOK'
<1> SUFFICES ASSUME TypeOK, [Next]_vars PROVE TypeOK'
  OBVIOUS
<1> USE DEF TypeOK, HbStates, ActorStates, DisposalStates, ConnPhases,
            peerVars, connVars, histVars
<1>1. ASSUME NEW p \in Peers, PeerStep(p) PROVE TypeOK'
  <2>1. CASE StartAsLeader(p) \/ StartUndefined(p)
    BY <2>1 DEF StartAsLeader, StartUndefined, AcquireThrows, Creators
  <2>2. CASE StartAsFollower(p) BY <2>2 DEF StartAsFollower, AcquireReturns,
                                   Creators
  <2>3. CASE StartThrows(p) BY <2>3 DEF StartThrows, AcquireThrows, Creators
  <2>4. CASE ActorStarted(p)
    <3>1. /\ hb' \in [Peers -> HbStates] /\ actor' \in [Peers -> ActorStates]
          /\ UNCHANGED <<lease, actorPeers, reply, leader, disposal, peerOf, crashed, histVars>>
      BY <2>4 DEF ActorStarted
    <3>2. refs' \in [Peers -> SUBSET Conns] /\ phase' \in [Conns -> ConnPhases]
      BY <2>4 DEF ActorStarted, AcquireReturns, Creators
    <3> QED
      BY <3>1, <3>2
  <2>5. CASE ActorStartFailed(p) BY <2>5 DEF ActorStartFailed, AcquireThrows,
                                    Creators
  <2>6. CASE ActorStopped(p) BY <2>6 DEF ActorStopped, LeaseAfterRelease
  <2>7. CASE ActorStopFailed(p) BY <2>7 DEF ActorStopFailed
  <2>8. CASE HeartbeatEnds(p) BY <2>8 DEF HeartbeatEnds
  <2>9. CASE ExtendLease(p) BY <2>9 DEF ExtendLease, ExtendAnswer
  <2>10. CASE LeaseExtended(p) BY <2>10 DEF LeaseExtended
  <2>11. CASE LeaseInvalid(p) BY <2>11 DEF LeaseInvalid, Dispose
  <2>12. CASE AttemptAcquireLease(p) BY <2>12 DEF AttemptAcquireLease,
                                        LeaseAfterAcquire
  <2>13. CASE AttemptAnswered(p) BY <2>13 DEF AttemptAnswered, Promoted
  <2>14. QED BY <1>1, <2>1, <2>2, <2>3, <2>4, <2>5, <2>6, <2>7, <2>8, <2>9,
                <2>10, <2>11, <2>12, <2>13 DEF PeerStep
<1>2. ASSUME NEW c \in Conns, ConnStep(c) PROVE TypeOK'
  <2>1. CASE JoinPeer(c) BY <2>1 DEF JoinPeer
  <2>2. ASSUME NEW p \in Peers, CreatePeer(c, p) PROVE TypeOK'
    BY <2>2 DEF CreatePeer, LeaseAfterAcquire
  <2>3. CASE OpenPublishFailed(c) BY <2>3 DEF OpenPublishFailed
  <2>4. CASE Close(c) BY <2>4 DEF Close
  <2>5. CASE RemoveConnectionReference(c)
    <3>1. /\ lease' \in Nodes \cup {None} /\ actorPeers' \in [Nodes -> Peers \cup {None}]
          /\ disposal' \in [Peers -> DisposalStates] /\ actor' \in [Peers -> ActorStates]
      BY <2>5 DEF RemoveConnectionReference, Dispose, LeaseAfterRelease
    <3>2. /\ phase' \in [Conns -> ConnPhases] /\ refs' \in [Peers -> SUBSET Conns]
          /\ UNCHANGED <<hb, reply, leader, peerOf, crashed, histVars>>
      BY <2>5 DEF RemoveConnectionReference
    <3> QED
      BY <3>1, <3>2
  <2>6. CASE ClosePublishFailed(c) BY <2>6 DEF ClosePublishFailed
  <2>7. QED BY <1>2, <2>1, <2>2, <2>3, <2>4, <2>5, <2>6 DEF ConnStep
<1>3. CASE LeaseLapses BY <1>3 DEF LeaseLapses
<1>4. CASE LeaseLost BY <1>4 DEF LeaseLost
<1>5. ASSUME NEW n \in Nodes, Crash(n) PROVE TypeOK'
  BY <1>5 DEF Crash
<1>6. CASE UNCHANGED vars BY <1>6 DEF vars
<1>7. QED BY <1>1, <1>2, <1>3, <1>4, <1>5, <1>6 DEF Next

(* The variables keep their types along every behaviour.                     *)
THEOREM TypeCorrect == Spec => []TypeOK
BY InitType, StepType, PTL DEF Spec

-----------------------------------------------------------------------------
(* A step makes a peer rely on the lease only by running the acquire script. *)
LEMMA ReliesGained ==
    ASSUME TypeOK, PeerStages, [Next]_vars, NEW p \in Peers, Relies(p)'
    PROVE  \/ Relies(p)
           \/ AttemptAcquireLease(p)
           \/ \E c \in Conns : CreatePeer(c, p)
<1> USE DEF TypeOK, PeerStages, Relies, Leading, IsLeader, peerVars, connVars,
            histVars
<1>1. ASSUME NEW q \in Peers, PeerStep(q)
      PROVE  Relies(p) \/ AttemptAcquireLease(p)
             \/ \E d \in Conns : CreatePeer(d, p)
  <2>1. CASE StartAsLeader(q) \/ StartUndefined(q)
    BY <2>1 DEF StartAsLeader, StartUndefined, AcquireThrows
  <2>2. CASE StartAsFollower(q) BY <2>2 DEF StartAsFollower, AcquireReturns
  <2>3. CASE StartThrows(q) BY <2>3 DEF StartThrows, AcquireThrows
  <2>4. CASE ActorStarted(q) BY <2>4 DEF ActorStarted, AcquireReturns
  <2>5. CASE ActorStartFailed(q) BY <2>5 DEF ActorStartFailed, AcquireThrows
  <2>6. CASE ActorStopped(q) BY <2>6 DEF ActorStopped
  <2>7. CASE ActorStopFailed(q) BY <2>7 DEF ActorStopFailed
  <2>8. CASE HeartbeatEnds(q) BY <2>8 DEF HeartbeatEnds
  <2>9. CASE ExtendLease(q) BY <2>9 DEF ExtendLease
  <2>10. CASE LeaseExtended(q) BY <2>10 DEF LeaseExtended
  <2>11. CASE LeaseInvalid(q) BY <2>11 DEF LeaseInvalid, Dispose
  <2>12. CASE AttemptAcquireLease(q) BY <2>12 DEF AttemptAcquireLease
  <2>13. CASE AttemptAnswered(q) BY <2>13 DEF AttemptAnswered, Promoted
  <2>14. QED BY <1>1, <2>1, <2>2, <2>3, <2>4, <2>5, <2>6, <2>7, <2>8, <2>9,
                <2>10, <2>11, <2>12, <2>13 DEF PeerStep
<1>2. ASSUME NEW c \in Conns, ConnStep(c)
      PROVE  Relies(p) \/ AttemptAcquireLease(p)
             \/ \E d \in Conns : CreatePeer(d, p)
  <2>1. CASE JoinPeer(c) BY <2>1 DEF JoinPeer
  <2>2. CASE OpenPublishFailed(c) BY <2>2 DEF OpenPublishFailed
  <2>3. CASE Close(c) BY <2>3 DEF Close
  <2>4. CASE RemoveConnectionReference(c) BY <2>4 DEF RemoveConnectionReference,
                                             Dispose
  <2>5. CASE ClosePublishFailed(c) BY <2>5 DEF ClosePublishFailed
  <2>6. ASSUME NEW q \in Peers, CreatePeer(c, q)
        PROVE  Relies(p) \/ AttemptAcquireLease(p)
               \/ \E d \in Conns : CreatePeer(d, p)
    BY <2>6 DEF CreatePeer
  <2>7. QED BY <1>2, <2>1, <2>2, <2>3, <2>4, <2>5, <2>6 DEF ConnStep
<1>3. CASE LeaseLapses BY <1>3 DEF LeaseLapses
<1>4. CASE LeaseLost BY <1>4 DEF LeaseLost
<1>5. ASSUME NEW n \in Nodes, Crash(n)
      PROVE  Relies(p) \/ AttemptAcquireLease(p)
             \/ \E d \in Conns : CreatePeer(d, p)
  BY <1>5 DEF Crash
<1>6. CASE UNCHANGED vars BY <1>6 DEF vars
<1>7. QED BY <1>1, <1>2, <1>3, <1>4, <1>5, <1>6 DEF Next

(* The coroutines of a peer stay in step. *)
LEMMA PeerStagesStep ==
    ASSUME TypeOK, PeerStages, ConnStages, [Next]_vars
    PROVE  PeerStages'
<1> USE DEF TypeOK, PeerStages, ConnStages, Disposed, IsLeader, peerVars,
            connVars, histVars
<1>1. ASSUME NEW q \in Peers, PeerStep(q) PROVE PeerStages'
  <2>1. CASE StartAsLeader(q) \/ StartUndefined(q)
    BY <2>1 DEF StartAsLeader, StartUndefined, AcquireThrows
  <2>2. CASE StartAsFollower(q) BY <2>2 DEF StartAsFollower, AcquireReturns
  <2>3. CASE StartThrows(q) BY <2>3 DEF StartThrows, AcquireThrows
  <2>4. CASE ActorStarted(q) BY <2>4 DEF ActorStarted, AcquireReturns
  <2>5. CASE ActorStartFailed(q) BY <2>5 DEF ActorStartFailed, AcquireThrows
  <2>6. CASE ActorStopped(q) BY <2>6 DEF ActorStopped
  <2>7. CASE ActorStopFailed(q) BY <2>7 DEF ActorStopFailed
  <2>8. CASE HeartbeatEnds(q) BY <2>8 DEF HeartbeatEnds
  <2>9. CASE ExtendLease(q) BY <2>9 DEF ExtendLease
  <2>10. CASE LeaseExtended(q) BY <2>10 DEF LeaseExtended
  <2>11. CASE LeaseInvalid(q) BY <2>11 DEF LeaseInvalid, Dispose
  <2>12. CASE AttemptAcquireLease(q) BY <2>12 DEF AttemptAcquireLease
  <2>13. CASE AttemptAnswered(q) BY <2>13 DEF AttemptAnswered, Promoted
  <2>14. QED BY <1>1, <2>1, <2>2, <2>3, <2>4, <2>5, <2>6, <2>7, <2>8, <2>9,
                <2>10, <2>11, <2>12, <2>13 DEF PeerStep
<1>2. ASSUME NEW c \in Conns, ConnStep(c) PROVE PeerStages'
  <2>1. CASE JoinPeer(c) BY <2>1 DEF JoinPeer
  <2>2. CASE OpenPublishFailed(c) BY <2>2 DEF OpenPublishFailed
  <2>3. CASE Close(c) BY <2>3 DEF Close
  <2>4. CASE RemoveConnectionReference(c) BY <2>4 DEF RemoveConnectionReference,
                                             Dispose
  <2>5. CASE ClosePublishFailed(c) BY <2>5 DEF ClosePublishFailed
  <2>6. ASSUME NEW q \in Peers, CreatePeer(c, q) PROVE PeerStages'
    BY <2>6 DEF CreatePeer
  <2>7. QED BY <1>2, <2>1, <2>2, <2>3, <2>4, <2>5, <2>6 DEF ConnStep
<1>3. CASE LeaseLapses BY <1>3 DEF LeaseLapses
<1>4. CASE LeaseLost BY <1>4 DEF LeaseLost
<1>5. ASSUME NEW n \in Nodes, Crash(n) PROVE PeerStages'
  BY <1>5 DEF Crash
<1>6. CASE UNCHANGED vars BY <1>6 DEF vars
<1>7. QED BY <1>1, <1>2, <1>3, <1>4, <1>5, <1>6 DEF Next

(* A connection's peer keeps existing. *)
LEMMA ConnStagesStep ==
    ASSUME TypeOK, ConnStages, RegisteredUntilDisposed, [Next]_vars
    PROVE  ConnStages'
<1> USE DEF TypeOK, ConnStages, RegisteredUntilDisposed, Registered, Creators,
            peerVars, connVars, histVars
<1>1. ASSUME NEW q \in Peers, PeerStep(q) PROVE ConnStages'
  <2>1. CASE StartAsLeader(q) \/ StartUndefined(q)
    BY <2>1 DEF StartAsLeader, StartUndefined, AcquireThrows
  <2>2. CASE StartAsFollower(q) BY <2>2 DEF StartAsFollower, AcquireReturns
  <2>3. CASE StartThrows(q) BY <2>3 DEF StartThrows, AcquireThrows
  <2>4. CASE ActorStarted(q) BY <2>4 DEF ActorStarted, AcquireReturns
  <2>5. CASE ActorStartFailed(q) BY <2>5 DEF ActorStartFailed, AcquireThrows
  <2>6. CASE ActorStopped(q) BY <2>6 DEF ActorStopped
  <2>7. CASE ActorStopFailed(q) BY <2>7 DEF ActorStopFailed
  <2>8. CASE HeartbeatEnds(q) BY <2>8 DEF HeartbeatEnds
  <2>9. CASE ExtendLease(q) BY <2>9 DEF ExtendLease
  <2>10. CASE LeaseExtended(q) BY <2>10 DEF LeaseExtended
  <2>11. CASE LeaseInvalid(q) BY <2>11 DEF LeaseInvalid, Dispose
  <2>12. CASE AttemptAcquireLease(q) BY <2>12 DEF AttemptAcquireLease
  <2>13. CASE AttemptAnswered(q) BY <2>13 DEF AttemptAnswered, Promoted
  <2>14. QED BY <1>1, <2>1, <2>2, <2>3, <2>4, <2>5, <2>6, <2>7, <2>8, <2>9,
                <2>10, <2>11, <2>12, <2>13 DEF PeerStep
<1>2. ASSUME NEW c \in Conns, ConnStep(c) PROVE ConnStages'
  <2>1. CASE JoinPeer(c) BY <2>1 DEF JoinPeer
  <2>2. CASE OpenPublishFailed(c) BY <2>2 DEF OpenPublishFailed
  <2>3. CASE Close(c) BY <2>3 DEF Close
  <2>4. CASE RemoveConnectionReference(c) BY <2>4 DEF RemoveConnectionReference,
                                             Dispose
  <2>5. CASE ClosePublishFailed(c) BY <2>5 DEF ClosePublishFailed
  <2>6. ASSUME NEW q \in Peers, CreatePeer(c, q) PROVE ConnStages'
    BY <2>6 DEF CreatePeer
  <2>7. QED BY <1>2, <2>1, <2>2, <2>3, <2>4, <2>5, <2>6 DEF ConnStep
<1>3. CASE LeaseLapses BY <1>3 DEF LeaseLapses
<1>4. CASE LeaseLost BY <1>4 DEF LeaseLost
<1>5. ASSUME NEW n \in Nodes, Crash(n) PROVE ConnStages'
  BY <1>5 DEF Crash
<1>6. CASE UNCHANGED vars BY <1>6 DEF vars
<1>7. QED BY <1>1, <1>2, <1>3, <1>4, <1>5, <1>6 DEF Next

(* The registry holds exactly the peers that are not disposed. *)
LEMMA RegisteredStep ==
    ASSUME TypeOK, PeerStages, ConnStages, RegisteredUntilDisposed, [Next]_vars
    PROVE  RegisteredUntilDisposed'
<1> USE DEF TypeOK, PeerStages, ConnStages, RegisteredUntilDisposed, Registered,
            Disposed, peerVars, connVars, histVars
<1>1. ASSUME NEW q \in Peers, PeerStep(q) PROVE RegisteredUntilDisposed'
  <2>1. CASE StartAsLeader(q) \/ StartUndefined(q)
    BY <2>1 DEF StartAsLeader, StartUndefined, AcquireThrows
  <2>2. CASE StartAsFollower(q) BY <2>2 DEF StartAsFollower, AcquireReturns
  <2>3. CASE StartThrows(q) BY <2>3 DEF StartThrows, AcquireThrows
  <2>4. CASE ActorStarted(q) BY <2>4 DEF ActorStarted, AcquireReturns
  <2>5. CASE ActorStartFailed(q) BY <2>5 DEF ActorStartFailed, AcquireThrows
  <2>6. CASE ActorStopped(q) BY <2>6 DEF ActorStopped
  <2>7. CASE ActorStopFailed(q) BY <2>7 DEF ActorStopFailed
  <2>8. CASE HeartbeatEnds(q) BY <2>8 DEF HeartbeatEnds
  <2>9. CASE ExtendLease(q) BY <2>9 DEF ExtendLease
  <2>10. CASE LeaseExtended(q) BY <2>10 DEF LeaseExtended
  <2>11. CASE LeaseInvalid(q)
    <3>1. CASE Disposed(q)
      BY <2>11, <3>1 DEF LeaseInvalid
    <3>2. CASE ~Disposed(q)
      <4>1. /\ actorPeers' = [actorPeers EXCEPT ![NodeOf[q]] = None]
            /\ hb' = [hb EXCEPT ![q] = "off"] /\ hb[q] = "extending"
        BY <2>11, <3>2 DEF LeaseInvalid, Dispose
      <4>2. \E d \in {"done", "stopping", "stoppingLost", "broken"} :
               disposal' = [disposal EXCEPT ![q] = d]
        BY <2>11, <3>2 DEF LeaseInvalid, Dispose
      <4> QED
        BY <3>2, <4>1, <4>2
    <3> QED
      BY <3>1, <3>2
  <2>12. CASE AttemptAcquireLease(q) BY <2>12 DEF AttemptAcquireLease
  <2>13. CASE AttemptAnswered(q) BY <2>13 DEF AttemptAnswered, Promoted
  <2>14. QED BY <1>1, <2>1, <2>2, <2>3, <2>4, <2>5, <2>6, <2>7, <2>8, <2>9,
                <2>10, <2>11, <2>12, <2>13 DEF PeerStep
<1>2. ASSUME NEW c \in Conns, ConnStep(c) PROVE RegisteredUntilDisposed'
  <2>1. CASE JoinPeer(c) BY <2>1 DEF JoinPeer
  <2>2. CASE OpenPublishFailed(c) BY <2>2 DEF OpenPublishFailed
  <2>3. CASE Close(c) BY <2>3 DEF Close
  <2>4. CASE RemoveConnectionReference(c) BY <2>4 DEF RemoveConnectionReference,
                                             Dispose
  <2>5. CASE ClosePublishFailed(c) BY <2>5 DEF ClosePublishFailed
  <2>6. ASSUME NEW q \in Peers, CreatePeer(c, q) PROVE RegisteredUntilDisposed'
    BY <2>6 DEF CreatePeer
  <2>7. QED BY <1>2, <2>1, <2>2, <2>3, <2>4, <2>5, <2>6 DEF ConnStep
<1>3. CASE LeaseLapses BY <1>3 DEF LeaseLapses
<1>4. CASE LeaseLost BY <1>4 DEF LeaseLost
<1>5. ASSUME NEW n \in Nodes, Crash(n) PROVE RegisteredUntilDisposed'
  BY <1>5 DEF Crash
<1>6. CASE UNCHANGED vars BY <1>6 DEF vars
<1>7. QED BY <1>1, <1>2, <1>3, <1>4, <1>5, <1>6 DEF Next

(* The history variables only grow. *)
LEMMA HistoryGrows ==
    ASSUME TypeOK, [Next]_vars
    PROVE  /\ lost' = 0 => lost = 0
           /\ ~overlap' => ~overlap
<1> USE DEF TypeOK, peerVars, connVars, histVars
<1>1. ASSUME NEW p \in Peers, PeerStep(p) PROVE lost' = lost /\ overlap' = overlap
  BY <1>1 DEF PeerStep, StartAsLeader, StartUndefined, StartAsFollower, StartThrows, ActorStarted,
     ActorStartFailed, ActorStopped, ActorStopFailed, HeartbeatEnds, ExtendLease,
     LeaseExtended, LeaseInvalid, AttemptAcquireLease, AttemptAnswered
<1>2. ASSUME NEW c \in Conns, ConnStep(c)
      PROVE  lost' = lost /\ (~overlap' => ~overlap)
  BY <1>2 DEF ConnStep, JoinPeer, CreatePeer, OpenPublishFailed, Close,
     RemoveConnectionReference, ClosePublishFailed
<1>3. CASE LeaseLapses BY <1>3 DEF LeaseLapses
<1>4. CASE LeaseLost BY <1>4 DEF LeaseLost
<1>5. ASSUME NEW n \in Nodes, Crash(n) PROVE lost' = lost /\ overlap' = overlap
  BY <1>5 DEF Crash
<1>6. CASE UNCHANGED vars BY <1>6 DEF vars
<1>7. QED BY <1>1, <1>2, <1>3, <1>4, <1>5, <1>6 DEF Next

(* A peer about to run the acquire script is alone on its node: every other  *)
(* peer there was disposed before, and none of those relies on the lease.    *)
LEMMA RequesterIsAlone ==
    ASSUME IInv, ~overlap, NEW p \in Peers, NEW q \in Peers,
           NodeOf[p] = NodeOf[q], Relies(q), AttemptAcquireLease(p)
    PROVE  p = q
  BY DEF IInv, TypeOK, RegisteredUntilDisposed, ReliesAlone, PeerStages, Registered,
         Disposed, IsLeader, Relies, Leading, AttemptAcquireLease, HbStates

(* Two peers of a node never rely on its lease together without an overlap.  *)
LEMMA OneReliesPerNodeStep ==
    ASSUME IInv, [Next]_vars
    PROVE  OneReliesPerNode'
<1> SUFFICES ASSUME ~overlap', NEW p \in Peers, NEW q \in Peers,
                    NodeOf[p] = NodeOf[q], Relies(p)', Relies(q)'
             PROVE  p = q
  BY DEF OneReliesPerNode
<1>1. ~overlap
  BY HistoryGrows DEF IInv
<1>2. /\ Relies(p) \/ AttemptAcquireLease(p) \/ \E c \in Conns : CreatePeer(c, p)
      /\ Relies(q) \/ AttemptAcquireLease(q) \/ \E c \in Conns : CreatePeer(c, q)
  BY ReliesGained DEF IInv
<1>3. CASE Relies(p) /\ Relies(q)
  BY <1>1, <1>3 DEF IInv, OneReliesPerNode
<1>4. CASE AttemptAcquireLease(p) /\ Relies(q)
  BY <1>1, <1>4, RequesterIsAlone
<1>5. CASE AttemptAcquireLease(q) /\ Relies(p)
  BY <1>1, <1>5, RequesterIsAlone
<1>6. ASSUME NEW c \in Conns, CreatePeer(c, p), Relies(q) PROVE p = q
  BY <1>6 DEF CreatePeer
<1>7. ASSUME NEW c \in Conns, CreatePeer(c, q), Relies(p) PROVE p = q
  BY <1>7 DEF CreatePeer
<1>8. ASSUME ~Relies(p), ~Relies(q) PROVE p = q
  BY <1>2, <1>8 DEF IInv, TypeOK, CreatePeer, AttemptAcquireLease
<1>9. QED BY <1>2, <1>3, <1>4, <1>5, <1>6, <1>7, <1>8

(* Only a creation enters a peer into a node's registry. *)
LEMMA RegistryStep ==
    ASSUME TypeOK, [Next]_vars, NEW n \in Nodes, actorPeers'[n] # None
    PROVE  \/ actorPeers'[n] = actorPeers[n]
           \/ \E c \in Conns, q \in Peers : CreatePeer(c, q) /\ NodeOf[q] = n
<1> DEFINE Goal == \/ actorPeers'[n] = actorPeers[n]
                   \/ \E c \in Conns, q \in Peers : CreatePeer(c,
                      q) /\ NodeOf[q] = n
<1> USE DEF TypeOK, peerVars, connVars, histVars
<1>1. ASSUME NEW p \in Peers, PeerStep(p) PROVE Goal
  BY <1>1 DEF PeerStep, StartAsLeader, StartUndefined, StartAsFollower, StartThrows, ActorStarted,
     ActorStartFailed, ActorStopped, ActorStopFailed, HeartbeatEnds, ExtendLease,
     LeaseExtended, LeaseInvalid, Dispose, AttemptAcquireLease, AttemptAnswered
<1>2. ASSUME NEW c \in Conns, ConnStep(c) PROVE Goal
  <2>1. ASSUME NEW q \in Peers, CreatePeer(c, q) PROVE Goal
    BY <2>1 DEF CreatePeer
  <2>2. CASE RemoveConnectionReference(c)
    BY <2>2 DEF RemoveConnectionReference, Dispose, LeaseAfterRelease
  <2>3. CASE JoinPeer(c) \/ OpenPublishFailed(c) \/ Close(c) \/ ClosePublishFailed(c)
    BY <2>3 DEF JoinPeer, OpenPublishFailed, Close, ClosePublishFailed
  <2>4. QED BY <1>2, <2>1, <2>2, <2>3 DEF ConnStep
<1>3. CASE LeaseLapses BY <1>3 DEF LeaseLapses
<1>4. CASE LeaseLost BY <1>4 DEF LeaseLost
<1>5. ASSUME NEW m \in Nodes, Crash(m) PROVE Goal
  BY <1>5 DEF Crash
<1>6. CASE UNCHANGED vars BY <1>6 DEF vars
<1>7. QED BY <1>1, <1>2, <1>3, <1>4, <1>5, <1>6 DEF Next

(* A disposed peer that still relies keeps its node without a new peer.      *)
LEMMA ReliesAloneStep ==
    ASSUME IInv, [Next]_vars
    PROVE  ReliesAlone'
<1> SUFFICES ASSUME ~overlap', NEW p \in Peers, Relies(p)', Disposed(p)',
                    actorPeers'[NodeOf[p]] # None
             PROVE  FALSE
  BY DEF ReliesAlone
<1>1. ~overlap
  BY HistoryGrows DEF IInv
<1>2. RegisteredUntilDisposed'
  BY RegisteredStep DEF IInv
<1>3. Relies(p)
  BY ReliesGained DEF IInv, TypeOK, PeerStages, Disposed, CreatePeer,
     AttemptAcquireLease
<1>4. CASE actorPeers'[NodeOf[p]] = actorPeers[NodeOf[p]]
  <2>1. ~Disposed(p)
    BY <1>1, <1>3, <1>4 DEF IInv, ReliesAlone
  <2>2. hb[p] # "unborn"
    BY <1>3 DEF IInv, PeerStages, Relies, Leading
  <2>3. Registered(p)'
    BY <1>4, <2>1, <2>2 DEF IInv, RegisteredUntilDisposed, Registered
  <2>4. QED BY <1>2, <2>3 DEF RegisteredUntilDisposed
<1>5. ASSUME NEW c \in Conns, NEW q \in Peers, CreatePeer(c, q),
   NodeOf[q] = NodeOf[p]
      PROVE FALSE
  BY <1>3, <1>5 DEF CreatePeer
<1>6. QED BY <1>4, <1>5, RegistryStep DEF IInv

(* What the two releases of #dispose leave behind: that after a stop, and    *)
(* the immediate one of a leader without an actor.                           *)
StoppedRelease(p) == ActorStopped(p) /\ disposal[p] = "stopping"
ActorlessRelease(p) ==
    /\ disposal[p] = "no" /\ IsLeader(p) /\ actor[p] = "none" /\ disposal'[p] = "done"
    /\ UNCHANGED <<hb, reply, leader, actor, overlap>>
Releases(p) == lease = NodeOf[p] /\ (StoppedRelease(p) \/ ActorlessRelease(p))

(* Which steps touch the lease, and how. *)
LEMMA LeaseStep ==
    ASSUME TypeOK, ConnStages, [Next]_vars
    PROVE  \/ lease' = lease
           \/ lease = None
           \/ lease' = None /\ (LeaseLapses \/ LeaseLost \/ \E p \in Peers : Releases(p))
<1> DEFINE Goal == \/ lease' = lease
                   \/ lease = None
                   \/ /\ lease' = None
                      /\ LeaseLapses \/ LeaseLost \/ \E p \in Peers : Releases(p)
<1> USE DEF TypeOK, peerVars, connVars, histVars
<1>1. ASSUME NEW p \in Peers, PeerStep(p) PROVE Goal
  <2>1. CASE ActorStopped(p)
    BY <2>1 DEF ActorStopped, LeaseAfterRelease, Releases, StoppedRelease
  <2>2. CASE AttemptAcquireLease(p)
    BY <2>2 DEF AttemptAcquireLease, LeaseAfterAcquire
  <2>3. CASE LeaseInvalid(p)
    BY <2>3 DEF LeaseInvalid, Dispose
  <2>4. ASSUME ~ActorStopped(p), ~AttemptAcquireLease(p), ~LeaseInvalid(p)
        PROVE  lease' = lease
    BY <1>1, <2>4 DEF PeerStep, StartAsLeader, StartUndefined, StartAsFollower, StartThrows,
       ActorStarted, ActorStartFailed, ActorStopFailed, HeartbeatEnds, ExtendLease,
       LeaseExtended, AttemptAnswered
  <2>5. QED BY <2>1, <2>2, <2>3, <2>4
<1>2. ASSUME NEW c \in Conns, ConnStep(c) PROVE Goal
  <2>1. CASE RemoveConnectionReference(c)
    <3>1. CASE lease' = lease
      BY <3>1
    <3>2. CASE lease' # lease
      <4>1. peerOf[c] \in Peers
        BY <2>1 DEF RemoveConnectionReference, ConnStages
      <4>2. Releases(peerOf[c]) /\ lease' = None
        BY <2>1, <3>2, <4>1 DEF RemoveConnectionReference, Dispose, LeaseAfterRelease, Releases,
           ActorlessRelease, Disposed
      <4> QED
        BY <4>1, <4>2
    <3> QED
      BY <3>1, <3>2
  <2>2. CASE ~RemoveConnectionReference(c)
    BY <1>2, <2>2 DEF ConnStep, JoinPeer, CreatePeer, LeaseAfterAcquire, OpenPublishFailed,
       Close, ClosePublishFailed
  <2> QED
    BY <2>1, <2>2
<1>3. CASE LeaseLapses BY <1>3 DEF LeaseLapses
<1>4. CASE LeaseLost BY <1>4 DEF LeaseLost
<1>5. ASSUME NEW n \in Nodes, Crash(n) PROVE Goal
  BY <1>5 DEF Crash
<1>6. CASE UNCHANGED vars BY <1>6 DEF vars
<1>7. QED BY <1>1, <1>2, <1>3, <1>4, <1>5, <1>6 DEF Next

(* The release at the end of a dispose takes the lease from no other peer:   *)
(* the stopping peer relied on it, so it was the only one, or it was the     *)
(* node's registered peer, so that no disposed one relies.                   *)
LEMMA ReleaseHarmless ==
    ASSUME IInv, ~overlap, NEW p \in Peers, NEW q \in Peers, Releases(p),
           NodeOf[q] = NodeOf[p], Relies(q)'
    PROVE  FALSE
<1>1. CASE ActorStopped(p)
  <2>1. Relies(p)
    BY <1>1 DEF ActorStopped, IInv, PeerStages, Relies, Leading, IsLeader
  <2>2. ~Relies(p)'
    BY <1>1 DEF ActorStopped, IInv, TypeOK, PeerStages, Relies, Leading, IsLeader
  <2>3. p # q
    BY <2>2
  <2>4. Relies(q)
    BY <1>1, <2>3 DEF ActorStopped, IInv, TypeOK, Relies, Leading
  <2>5. QED BY <2>1, <2>3, <2>4 DEF IInv, OneReliesPerNode
<1>2. CASE ActorlessRelease(p)
  <2>1. Relies(q)
    BY <1>2 DEF ActorlessRelease, Relies, Leading
  <2>2. ~Relies(p) /\ Registered(p)
    BY <1>2 DEF ActorlessRelease, IInv, PeerStages, RegisteredUntilDisposed, Relies, Leading,
       IsLeader, Disposed
  <2>3. Disposed(q)
    BY <2>1, <2>2 DEF IInv, RegisteredUntilDisposed, PeerStages, Registered, Relies, Leading,
       IsLeader
  <2>4. actorPeers[NodeOf[p]] = None
    BY <2>1, <2>3 DEF IInv, ReliesAlone
  <2> QED
    BY <2>2, <2>4 DEF Registered
<1> QED
  BY <1>1, <1>2 DEF Releases, StoppedRelease

LEMMA ReliesOnOwnLeaseStep ==
    ASSUME IInv, [Next]_vars
    PROVE  ReliesOnOwnLease'
<1> SUFFICES ASSUME lost' = 0, ~overlap', NEW p \in Peers, Relies(p)'
             PROVE  lease' = NodeOf[p]
  BY DEF ReliesOnOwnLease
<1>1. lost = 0 /\ ~overlap
  BY HistoryGrows DEF IInv
<1>2. CASE Relies(p)
  <2>1. lease = NodeOf[p]
    BY <1>1, <1>2 DEF IInv, ReliesOnOwnLease
  <2>2. lease # None
    BY <2>1 DEF IInv, TypeOK
  <2>3. ~LeaseLapses
    BY <1>2, <2>1 DEF LeaseLapses
  <2>4. ~LeaseLost
    BY <1>1 DEF LeaseLost, IInv, TypeOK
  <2>5. ~\E q \in Peers : Releases(q)
    BY <1>1, <2>1, ReleaseHarmless DEF Releases
  <2>6. QED BY <2>1, <2>2, <2>3, <2>4, <2>5, LeaseStep DEF IInv
<1>3. CASE AttemptAcquireLease(p)
  BY <1>3 DEF AttemptAcquireLease, LeaseAfterAcquire, IInv, TypeOK, Relies,
     Leading, IsLeader
<1>4. ASSUME NEW c \in Conns, CreatePeer(c, p) PROVE lease' = NodeOf[p]
  BY <1>4 DEF CreatePeer, LeaseAfterAcquire, IInv, TypeOK, PeerStages, Relies,
     Leading, IsLeader
<1>5. QED BY <1>2, <1>3, <1>4, ReliesGained DEF IInv

(* A peer that takes itself for the leader, on a node that can make the actor, *)
(* has begun to: #start and the heartbeat do both in one stretch.             *)
LEMMA ActorlessStep ==
    ASSUME TypeOK, ActorlessIsUndefined, [Next]_vars
    PROVE  ActorlessIsUndefined'
<1> USE DEF TypeOK, ActorlessIsUndefined, IsLeader, Defined, peerVars, histVars
<1>1. ASSUME NEW p \in Peers, PeerStep(p) PROVE ActorlessIsUndefined'
  <2>1. CASE StartAsLeader(p) BY <2>1 DEF StartAsLeader
  <2>2. CASE StartUndefined(p) BY <2>2 DEF StartUndefined
  <2>3. CASE StartAsFollower(p) BY <2>3 DEF StartAsFollower
  <2>4. CASE AttemptAnswered(p) BY <2>4 DEF AttemptAnswered, Promoted
  <2>5. CASE LeaseInvalid(p) BY <2>5 DEF LeaseInvalid, Dispose
  <2>6. CASE ActorStarted(p) \/ ActorStartFailed(p) \/ ActorStopped(p) \/ ActorStopFailed(p)
    BY <2>6 DEF ActorStarted, ActorStartFailed, ActorStopped, ActorStopFailed
  <2>7. CASE StartThrows(p) \/ HeartbeatEnds(p) \/ ExtendLease(p) \/ LeaseExtended(p)
             \/ AttemptAcquireLease(p)
    BY <2>7 DEF StartThrows, HeartbeatEnds, ExtendLease, LeaseExtended, AttemptAcquireLease
  <2> QED
    BY <1>1, <2>1, <2>2, <2>3, <2>4, <2>5, <2>6, <2>7 DEF PeerStep
<1>2. ASSUME NEW c \in Conns, ConnStep(c) PROVE ActorlessIsUndefined'
  <2>1. CASE RemoveConnectionReference(c)
    BY <2>1 DEF RemoveConnectionReference, Dispose
  <2>2. CASE ~RemoveConnectionReference(c)
    <3>1. UNCHANGED <<leader, actor, defined>>
      BY <1>2, <2>2 DEF ConnStep, JoinPeer, CreatePeer, OpenPublishFailed, Close,
         ClosePublishFailed
    <3> QED
      BY <3>1
  <2> QED
    BY <2>1, <2>2
<1>3. ASSUME NEW n \in Nodes, Crash(n) PROVE ActorlessIsUndefined'
  BY <1>3 DEF Crash
<1>4. CASE LeaseLapses \/ LeaseLost \/ UNCHANGED vars
  <2>1. UNCHANGED <<leader, actor, defined>>
    BY <1>4 DEF LeaseLapses, LeaseLost, vars
  <2> QED
    BY <2>1
<1> QED
  BY <1>1, <1>2, <1>3, <1>4 DEF Next

-----------------------------------------------------------------------------
(* The inductive invariant holds along every behaviour.                      *)
THEOREM InvariantHolds == Spec => []IInv
<1>1. Init => IInv
  <2> SUFFICES ASSUME Init PROVE IInv
    OBVIOUS
  <2>1. TypeOK
    BY InitType
  <2>2. QED
    BY <2>1 DEF Init, IInv, RegisteredUntilDisposed, ReliesOnOwnLease,
       OneReliesPerNode,
       ReliesAlone, PeerStages, ConnStages, ActorlessIsUndefined, Relies, Leading,
       IsLeader, Disposed, Registered
<1>2. IInv /\ [Next]_vars => IInv'
  <2> SUFFICES ASSUME IInv, [Next]_vars PROVE IInv'
    OBVIOUS
  <2>1. TypeOK'
    BY StepType DEF IInv
  <2>2. PeerStages' /\ ConnStages' /\ RegisteredUntilDisposed'
    BY PeerStagesStep, ConnStagesStep, RegisteredStep DEF IInv
  <2>3. QED
    BY <2>1, <2>2, OneReliesPerNodeStep, ReliesAloneStep, ReliesOnOwnLeaseStep,
       ActorlessStep DEF IInv
<1>3. QED BY <1>1, <1>2, PTL DEF Spec

(* At most one instance of the actor runs, whatever the numbers of nodes,    *)
(* peers and connections, while no lease was lost under a peer relying on it *)
(* and no node overlapped two peers.                                         *)
THEOREM OneLeader == Spec => []MutualExclusion
<1>1. IInv => MutualExclusion
  BY DEF IInv, MutualExclusion, ReliesOnOwnLease, OneReliesPerNode, Relies
<1>2. QED BY <1>1, InvariantHolds, PTL

(* The registry of every node holds exactly its undisposed peers.            *)
THEOREM RegistryCorrect == Spec => []RegisteredUntilDisposed
<1>1. IInv => RegisteredUntilDisposed
  BY DEF IInv
<1>2. QED BY <1>1, InvariantHolds, PTL

(* The lease is only ever removed by its TTL or by its holder's own release. *)
THEOREM NeverStolen == Spec => NoStealing
<1>1. IInv /\ [Next]_vars => [NotStolen]_vars
  <2> SUFFICES ASSUME IInv, [Next]_vars, lease # None, lease' # lease
      PROVE  NotStolen
    BY DEF NotStolen, vars
  <2>1. CASE LeaseLapses
    BY <2>1 DEF LeaseLapses, peerVars, NotStolen
  <2>2. CASE LeaseLost
    BY <2>2 DEF LeaseLost, peerVars, NotStolen
  <2>3. ASSUME NEW p \in Peers, Releases(p), lease' = None
        PROVE  NotStolen
    BY <2>3 DEF Releases, StoppedRelease, ActorlessRelease, ActorStopped, IInv, TypeOK, NotStolen
  <2>4. lease' = None /\ (LeaseLapses \/ LeaseLost \/ \E p \in Peers : Releases(p))
    BY LeaseStep DEF IInv
  <2>5. QED BY <2>1, <2>2, <2>3, <2>4
<1>2. QED BY <1>1, InvariantHolds, PTL DEF Spec, NoStealing

(* A voluntary release happens only after the node's actor has stopped.      *)
THEOREM HandoverAfterStop == Spec => StoppedBeforeHandover
<1> DEFINE Handover == lease # None /\ lease' = None /\ lost' = lost /\ ~overlap =>
                         \A p \in Peers : NodeOf[p] = lease => ~Leading(p)'
<1>1. IInv /\ [Next]_vars => [Handover]_vars
  <2> SUFFICES ASSUME IInv, [Next]_vars, lease # None, lease' = None, lost' = lost,
                      ~overlap, NEW p \in Peers, NodeOf[p] = lease
               PROVE  ~Leading(p)'
    OBVIOUS
  <2>1. CASE LeaseLapses
    BY <2>1 DEF LeaseLapses, Relies, Leading, peerVars
  <2>2. CASE LeaseLost
    BY <2>2 DEF LeaseLost, IInv, TypeOK
  <2>3. ASSUME NEW q \in Peers, Releases(q)
        PROVE  ~Leading(p)'
    BY <2>3, ReleaseHarmless DEF Relies, Releases
  <2>4. QED BY <2>1, <2>2, <2>3, LeaseStep DEF IInv
<1>2. QED BY <1>1, InvariantHolds, PTL DEF Spec, StoppedBeforeHandover

(* getLeaderActor never meets its assertion on a node whose registry has the *)
(* actor, whatever the interleaving of starts, promotions, heartbeats,       *)
(* disposes and crashes.                                                     *)
THEOREM LeaderIsLoaded == Spec => []LeaderHasActor
<1>1. IInv => LeaderHasActor
  BY DEF IInv, TypeOK, RegisteredUntilDisposed, ActorlessIsUndefined, LeaderHasActor, Defined
<1>2. QED BY <1>1, InvariantHolds, PTL
=============================================================================
