----------------------- MODULE ActorConnectionsProofs -----------------------
(* Proofs about ActorConnections, for any number of connections and events,  *)
(* and about ActorSockets, for any number of messages.                       *)
EXTENDS ActorConnections, ActorSockets, Integers, TLAPS

USE ConstantsAssumption DEF ConstantsAssumption

(* The initial state satisfies the inductive invariant. *)
LEMMA InitInv == Init => IInv
<1> SUFFICES ASSUME Init PROVE IInv
  OBVIOUS
<1> USE DEF Init
<1>1. TypeOK
  <2>1. /\ stage \in [Conns -> Stages]
        /\ subscriptions \in [Conns -> SUBSET Events] /\ su \in [Conns -> SUBSET Events]
        /\ index \in [Events -> SUBSET Conns]
    BY DEF Stages
  <2>2. stored \in StoredConns /\ writing \in StoredConns
    BY DEF StoredConns
  <2>3. crashes \in 0..MaxCrashes /\ faults \in 0..MaxFaults
    <3>1. crashes = 0 /\ 0 \in 0..MaxCrashes /\ faults = 0 /\ 0 \in 0..MaxFaults
      OBVIOUS
    <3> QED
      BY <3>1
  <2>4. /\ changed \in BOOLEAN /\ inFlight \in BOOLEAN /\ unsaved \in BOOLEAN
        /\ gone \subseteq Conns /\ closing = {} /\ parsing = {} /\ sockets = {}
        /\ connections \subseteq Conns /\ c \subseteq Conns /\ restored \subseteq Conns
    OBVIOUS
  <2> QED
    BY <2>1, <2>2, <2>3, <2>4 DEF TypeOK
<1>2. PersistedInStep /\ StreamSubscribersAreConnected /\ OpenIsConnected
  BY DEF PersistedInStep, StreamSubscribersAreConnected, OpenIsConnected
<1>3. UnusedIsUnknown /\ IndexIsRight /\ RecordsAreRight /\ WritingIsStored
  BY DEF UnusedIsUnknown, IndexIsRight, RecordsAreRight, WritingIsStored
<1> QED
  BY <1>1, <1>2, <1>3 DEF IInv

(* What a subscription request may do, as one formula per kind. *)
LEMMA MessageKinds ==
    ASSUME NEW m \in Messages, processMessage(m)
    PROVE  \/ \E e \in Events : addSubscription(m.conn, e) \/ removeSubscription(m.conn, e)
           \/ UNCHANGED memory
  BY DEF processMessage, Messages

(* A step is a step of a request, a message, a save, a restart or a stutter. *)
LEMMA StepKinds ==
    ASSUME [Next]_vars
    PROVE  \/ \E k \in Conns : \/ Connect(k) \/ PrepareFails(k) \/ Open(k) \/ OpenThrows(k)
                               \/ ClientLeaves(k) \/ ServerCloses(k) \/ OnClose(k)
           \/ \E m \in Messages : Receive(m) \/ OnMessage(m) \/ handleConnectionMessage(m)
           \/ SaveStarts \/ SaveLands \/ SaveFails \/ Restart \/ UNCHANGED vars
  BY DEF Next

-----------------------------------------------------------------------------
(* Types *)

(* A subscription request keeps the types of what it changes. *)
LEMMA MessageType ==
    ASSUME TypeOK, NEW m \in Messages, processMessage(m)
    PROVE  /\ sockets' = sockets /\ connections' = connections /\ c' = c
           /\ subscriptions' \in [Conns -> SUBSET Events]
           /\ su' \in [Conns -> SUBSET Events]
           /\ index' \in [Events -> SUBSET Conns]
           /\ changed' \in BOOLEAN
<1>1. m.conn \in Conns
  BY DEF Messages
<1>2. ASSUME NEW e \in Events, addSubscription(m.conn, e)
      PROVE  /\ sockets' = sockets /\ connections' = connections /\ c' = c
             /\ subscriptions' \in [Conns -> SUBSET Events]
             /\ su' \in [Conns -> SUBSET Events]
             /\ index' \in [Events -> SUBSET Conns]
             /\ changed' \in BOOLEAN
  BY <1>1, <1>2 DEF addSubscription, FlagAfter, TypeOK
<1>3. ASSUME NEW e \in Events, removeSubscription(m.conn, e)
      PROVE  /\ sockets' = sockets /\ connections' = connections /\ c' = c
             /\ subscriptions' \in [Conns -> SUBSET Events]
             /\ su' \in [Conns -> SUBSET Events]
             /\ index' \in [Events -> SUBSET Conns]
             /\ changed' \in BOOLEAN
  BY <1>1, <1>3 DEF removeSubscription, FlagAfter, TypeOK
<1>4. ASSUME UNCHANGED memory
      PROVE  /\ sockets' = sockets /\ connections' = connections /\ c' = c
             /\ subscriptions' \in [Conns -> SUBSET Events]
             /\ su' \in [Conns -> SUBSET Events]
             /\ index' \in [Events -> SUBSET Conns]
             /\ changed' \in BOOLEAN
  BY <1>4 DEF memory, TypeOK
<1> QED
  BY <1>2, <1>3, <1>4, MessageKinds

(* Every step keeps the types. *)
LEMMA StepType == TypeOK /\ [Next]_vars => TypeOK'
<1> SUFFICES ASSUME TypeOK, [Next]_vars PROVE TypeOK'
  OBVIOUS
<1> USE DEF requests, memory, disk
<1>1. ASSUME NEW k \in Conns, Connect(k) PROVE TypeOK'
  <2>1. Prepare(k)
    BY <1>1 DEF Connect, handleAction
  <2> QED
    BY <2>1 DEF Prepare, TypeOK, Stages
<1>2. ASSUME NEW k \in Conns, PrepareFails(k) PROVE TypeOK'
  BY <1>2 DEF PrepareFails, TypeOK, Stages
<1>3. ASSUME NEW k \in Conns, Open(k) PROVE TypeOK'
  BY <1>3 DEF Open, createConn, TypeOK, Stages
<1>4. ASSUME NEW k \in Conns, ClientLeaves(k) PROVE TypeOK'
  BY <1>4 DEF ClientLeaves, HearsClose, TypeOK
<1>5. ASSUME NEW k \in Conns, ServerCloses(k) PROVE TypeOK'
  BY <1>5 DEF ServerCloses, TypeOK
<1>6. ASSUME NEW k \in Conns, OnClose(k) PROVE TypeOK'
  BY <1>6 DEF OnClose, removeConn, RemoveFromIndex, TypeOK, Stages
<1>7. ASSUME NEW m \in Messages, Receive(m) PROVE TypeOK'
  BY <1>7 DEF Receive, TypeOK, Messages
<1>8. ASSUME NEW m \in Messages, OnMessage(m) PROVE TypeOK'
  <2>1. processMessage(m)
    BY <1>8 DEF OnMessage
  <2> QED
    BY <1>8, <2>1, MessageType DEF OnMessage, TypeOK
<1>9. ASSUME NEW m \in Messages, handleConnectionMessage(m) PROVE TypeOK'
  <2>1. processMessage(m)
    BY <1>9 DEF handleConnectionMessage, OnConnMessage
  <2> QED
    BY <1>9, <2>1, MessageType DEF handleConnectionMessage, OnConnMessage, TypeOK
<1>10. CASE SaveStarts \/ SaveLands \/ SaveFails
  <2>1. /\ UNCHANGED <<stage, transport, gone, closing, parsing, sockets, connections,
                       subscriptions, index, c, su, restored, crashes>>
        /\ changed' \in BOOLEAN /\ inFlight' \in BOOLEAN /\ unsaved' \in BOOLEAN
    BY <1>10 DEF SaveStarts, SaveLands, SaveFails, TypeOK
  <2>2. stored' \in StoredConns
    BY <1>10 DEF SaveStarts, SaveLands, SaveFails, TypeOK
  <2>3. writing' \in StoredConns
    BY <1>10 DEF SaveStarts, SaveLands, SaveFails, TypeOK, StoredConns
  <2>4. faults' \in 0..MaxFaults
    BY <1>10 DEF SaveStarts, SaveLands, SaveFails, TypeOK
  <2> QED
    BY <2>1, <2>2, <2>3, <2>4 DEF TypeOK
<1>11. CASE Restart
  <2>1. stage' \in [Conns -> Stages]
    BY <1>11 DEF Restart, TypeOK, Stages
  <2>2. /\ gone' = {} /\ closing' = {} /\ parsing' = {} /\ sockets' = {}
        /\ transport' = transport /\ stored' = stored /\ writing' = stored
        /\ changed' = FALSE /\ inFlight' = FALSE /\ unsaved' = FALSE
        /\ crashes' \in 0..MaxCrashes /\ faults' = faults
    BY <1>11 DEF Restart, TypeOK
  <2>3. /\ connections' \subseteq Conns /\ c' \subseteq Conns /\ restored' \subseteq Conns
        /\ subscriptions' \in [Conns -> SUBSET Events] /\ su' \in [Conns -> SUBSET Events]
        /\ index' \in [Events -> SUBSET Conns]
    BY <1>11 DEF Restart, RestoredIndex, TypeOK, StoredConns
  <2> QED
    BY <2>1, <2>2, <2>3 DEF TypeOK
<1>12. CASE UNCHANGED vars
  BY <1>12 DEF vars, TypeOK
<1>13. ASSUME NEW k \in Conns, OpenThrows(k) PROVE TypeOK'
  <2>1. /\ UNCHANGED <<transport, subscriptions, index, su, restored, stored, writing,
                       inFlight, crashes>>
        /\ stage' = [stage EXCEPT ![k] = "broken"]
        /\ gone' = gone \cup {k} /\ closing' = closing \ {k}
        /\ parsing' = {m \in parsing : m.conn # k}
        /\ sockets' = IF transport[k] = "http" THEN sockets ELSE sockets \cup {k}
        /\ connections' = connections \cup {k} /\ c' = c \cup {k}
    BY <1>13 DEF OpenThrows
  <2>2. changed' \in BOOLEAN /\ unsaved' \in BOOLEAN
    <3>1. (changed' = TRUE /\ UNCHANGED unsaved) \/ (unsaved' = TRUE /\ UNCHANGED changed)
      BY <1>13 DEF OpenThrows
    <3> QED
      BY <3>1 DEF TypeOK
  <2>3. faults' \in 0..MaxFaults
    <3>1. faults < MaxFaults /\ faults' = faults + 1
      BY <1>13 DEF OpenThrows
    <3> QED
      BY <3>1, ConstantsAssumption DEF ConstantsAssumption, TypeOK
  <2> QED
    BY <2>1, <2>2, <2>3 DEF TypeOK, Stages
<1> QED
  BY <1>1, <1>2, <1>3, <1>4, <1>5, <1>6, <1>7, <1>8, <1>9, <1>10, <1>11, <1>12, <1>13,
     StepKinds

-----------------------------------------------------------------------------
(* The inductive invariant *)

(* Nothing that the invariant speaks of, except possibly the stage of a       *)
(* connection that is neither opened nor heard of again.                      *)
Untouched ==
    /\ UNCHANGED <<transport, memory, stored, writing, inFlight, unsaved>>
    /\ \A k \in Conns : \/ stage'[k] = stage[k]
                         \/ /\ stage[k] \in {"new", "preparing"}
                            /\ stage'[k] \in {"preparing", "failed"}

LEMMA UntouchedInv == IInv /\ TypeOK' /\ Untouched => IInv'
<1> SUFFICES ASSUME IInv, TypeOK', Untouched PROVE IInv'
  OBVIOUS
<1> USE DEF IInv, Untouched, memory
<1>1. /\ PersistedInStep' /\ StreamSubscribersAreConnected' /\ IndexIsRight'
      /\ RecordsAreRight' /\ WritingIsStored'
  BY DEF PersistedInStep, StreamSubscribersAreConnected, IndexIsRight, RecordsAreRight,
         WritingIsStored
<1>2. OpenIsConnected'
  BY DEF OpenIsConnected
<1>3. UnusedIsUnknown'
  BY DEF UnusedIsUnknown
<1> QED
  BY <1>1, <1>2, <1>3

(* A connection is made, whether or not its creation throws afterwards. *)
LEMMA OpenInv ==
    ASSUME IInv, TypeOK', NEW k \in Conns, Open(k) \/ OpenThrows(k)
    PROVE  IInv'
<1> USE DEF IInv
<1>8. /\ stage[k] = "preparing" /\ stage' \in {[stage EXCEPT ![k] = "open"],
                                               [stage EXCEPT ![k] = "broken"]}
      /\ sockets' = IF transport[k] = "http" THEN sockets ELSE sockets \cup {k}
      /\ connections' = connections \cup {k} /\ c' = c \cup {k}
      /\ changed' \/ unsaved'
      /\ UNCHANGED <<transport, subscriptions, index, su, stored, writing, inFlight>>
  BY DEF Open, OpenThrows, createConn, disk
<1> USE <1>8
<1>1. PersistedInStep'
  BY DEF PersistedInStep
<1>2. StreamSubscribersAreConnected'
  BY DEF StreamSubscribersAreConnected
<1>3. OpenIsConnected'
  BY DEF OpenIsConnected, TypeOK
<1>4. UnusedIsUnknown'
  BY DEF UnusedIsUnknown, TypeOK
<1>5. IndexIsRight'
  BY DEF IndexIsRight, UnusedIsUnknown
<1>6. RecordsAreRight'
  BY DEF RecordsAreRight
<1>7. WritingIsStored'
  BY DEF WritingIsStored
<1> QED
  BY <1>1, <1>2, <1>3, <1>4, <1>5, <1>6, <1>7

LEMMA OnCloseInv ==
    ASSUME IInv, TypeOK', NEW k \in Conns, OnClose(k)
    PROVE  IInv'
<1> USE DEF IInv, OnClose, removeConn, RemoveFromIndex, disk
<1>1. PersistedInStep'
  BY DEF PersistedInStep
<1>2. StreamSubscribersAreConnected'
  <2> SUFFICES ASSUME NEW e \in Events, NEW j \in index'[e], transport'[j] = "sse"
               PROVE  j \in connections'
    BY DEF StreamSubscribersAreConnected
  <2>1. j \in index[e] /\ (j = k => e \notin subscriptions[k])
    BY DEF TypeOK
  <2>2. j \in connections
    BY <2>1 DEF StreamSubscribersAreConnected
  <2>3. j # k
    BY <2>1, <2>2 DEF IndexIsRight
  <2> QED
    BY <2>2, <2>3
<1>3. OpenIsConnected'
  BY DEF OpenIsConnected, TypeOK
<1>4. UnusedIsUnknown'
  BY DEF UnusedIsUnknown, TypeOK
<1>5. IndexIsRight'
  BY DEF IndexIsRight
<1>6. RecordsAreRight'
  BY DEF RecordsAreRight
<1>7. WritingIsStored'
  BY DEF WritingIsStored
<1> QED
  BY <1>1, <1>2, <1>3, <1>4, <1>5, <1>6, <1>7

(* A message of a web socket, or of a stream whose connection was found.      *)
LEMMA MessageInv ==
    ASSUME IInv, TypeOK', NEW m \in Messages, processMessage(m),
           \/ transport[m.conn] = "websocket" /\ stage[m.conn] \in {"open", "closed"}
           \/ /\ transport[m.conn] = "sse" /\ m.conn \in connections
              /\ stage[m.conn] # "broken",
           UNCHANGED <<stage, transport, disk, unsaved>>
    PROVE  IInv'
<1> DEFINE k == m.conn
<1>1. k \in Conns
  BY DEF Messages
<1>2. stage[k] \notin {"new", "preparing", "failed", "broken"}
  BY <1>1 DEF IInv, UnusedIsUnknown
<1> USE DEF IInv, disk
<1>3. ASSUME NEW e \in Events, addSubscription(k, e) \/ removeSubscription(k, e)
      PROVE  IInv'
  <2>1. /\ UNCHANGED <<sockets, connections, c, stage, transport, stored, writing, inFlight,
                        unsaved>>
        /\ \A j \in Conns : j # k => subscriptions'[j] = subscriptions[j]
        /\ \A d \in Events : \A j \in Conns : j # k => (j \in index'[d] <=> j \in index[d])
        /\ \A d \in Events : d # e => index'[d] = index[d]
        /\ \A d \in Events : d # e => (d \in subscriptions'[k] <=> d \in subscriptions[k])
        /\ k \in index'[e] <=> e \in subscriptions'[k]
    <3>1. CASE addSubscription(k, e)
      BY <1>1, <3>1 DEF addSubscription, TypeOK
    <3>2. CASE removeSubscription(k, e)
      BY <1>1, <3>2 DEF removeSubscription, TypeOK
    <3> QED
      BY <1>3, <3>1, <3>2
  <2>8. changed => changed'
    <3>1. changed' \in FlagAfter(k)
      BY <1>3 DEF addSubscription, removeSubscription
    <3>2. changed' = TRUE \/ changed' = changed
      BY <3>1, Zenon DEF FlagAfter
    <3> QED
      BY <3>2, Zenon
  <2>2. PersistedInStep'
    BY <2>1, <2>8 DEF PersistedInStep
  <2>3. StreamSubscribersAreConnected'
    BY <2>1, <1>1 DEF StreamSubscribersAreConnected, TypeOK
  <2>4. OpenIsConnected'
    BY <2>1 DEF OpenIsConnected
  <2>5. UnusedIsUnknown'
    BY <2>1, <1>2 DEF UnusedIsUnknown
  <2>6. IndexIsRight'
    <3> SUFFICES ASSUME NEW j \in connections', NEW d \in Events
                 PROVE  j \in index'[d] <=> d \in subscriptions'[j]
      BY DEF IndexIsRight
    <3>1. j \in connections /\ j \in Conns
      BY <2>1 DEF TypeOK
    <3>2. j \in index[d] <=> d \in subscriptions[j]
      BY <3>1 DEF IndexIsRight
    <3>3. CASE j # k
      <4>1. subscriptions'[j] = subscriptions[j] /\ (j \in index'[d] <=> j \in index[d])
        BY <2>1, <3>1, <3>3
      <4> QED
        BY <3>2, <4>1
    <3>4. CASE j = k /\ d = e
      BY <2>1, <3>4
    <3>5. CASE j = k /\ d # e
      <4>1. index'[d] = index[d] /\ (d \in subscriptions'[k] <=> d \in subscriptions[k])
        BY <2>1, <3>5
      <4> QED
        BY <3>2, <3>5, <4>1
    <3> QED
      BY <3>3, <3>4, <3>5
  <2>7. RecordsAreRight'
    <3>1. subscriptions' = su'
      BY <1>3 DEF addSubscription, removeSubscription, RecordsAreRight
    <3>2. transport[k] # "http"
      OBVIOUS
    <3> QED
      BY <2>1, <3>1, <3>2 DEF RecordsAreRight
  <2>9. WritingIsStored'
    BY <2>1 DEF WritingIsStored
  <2> QED
    BY <2>2, <2>3, <2>4, <2>5, <2>6, <2>7, <2>9
<1>4. CASE UNCHANGED memory
  BY <1>4, UntouchedInv DEF Untouched
<1> QED
  BY <1>3, <1>4, MessageKinds

LEMMA SaveStartsInv == IInv /\ TypeOK' /\ SaveStarts => IInv'
<1> SUFFICES ASSUME IInv, TypeOK', SaveStarts PROVE IInv'
  OBVIOUS
<1> USE DEF IInv
<1>1. /\ UNCHANGED <<stage, transport, sockets, connections, subscriptions, index, c, su,
                     stored>>
      /\ inFlight' /\ writing'.ids = c
      /\ \A k \in Conns : writing'.su[k] = IF k \in c THEN su[k] ELSE {}
  BY DEF SaveStarts, requests
<1>2. PersistedInStep' /\ WritingIsStored'
  BY <1>1 DEF PersistedInStep, WritingIsStored
<1>3. StreamSubscribersAreConnected' /\ OpenIsConnected' /\ IndexIsRight'
  BY <1>1 DEF StreamSubscribersAreConnected, OpenIsConnected, IndexIsRight
<1>4. UnusedIsUnknown'
  BY <1>1 DEF UnusedIsUnknown, PersistedInStep, RecordsAreRight
<1>5. RecordsAreRight'
  BY <1>1 DEF RecordsAreRight
<1> QED
  BY <1>2, <1>3, <1>4, <1>5

(* The write in flight ends, stored or not. *)
LEMMA SaveEndsInv == IInv /\ TypeOK' /\ (SaveLands \/ SaveFails) => IInv'
<1> SUFFICES ASSUME IInv, TypeOK', SaveLands \/ SaveFails PROVE IInv'
  OBVIOUS
<1> USE DEF IInv
<1>1. /\ UNCHANGED <<stage, transport, sockets, connections, subscriptions, index, c, su,
                     changed>>
      /\ inFlight /\ ~inFlight' /\ writing' = stored'
      /\ \/ stored' = writing /\ unsaved' = unsaved
         \/ stored' = stored /\ unsaved'
  BY DEF SaveLands, SaveFails, requests, memory
<1>2. PersistedInStep' /\ WritingIsStored'
  BY <1>1 DEF PersistedInStep, WritingIsStored
<1>3. StreamSubscribersAreConnected' /\ OpenIsConnected' /\ IndexIsRight'
  BY <1>1 DEF StreamSubscribersAreConnected, OpenIsConnected, IndexIsRight
<1>4. UnusedIsUnknown' /\ RecordsAreRight'
  BY <1>1 DEF UnusedIsUnknown, RecordsAreRight
<1> QED
  BY <1>2, <1>3, <1>4

LEMMA RestartInv == IInv /\ TypeOK' /\ Restart => IInv'
<1> SUFFICES ASSUME IInv, TypeOK', Restart PROVE IInv'
  OBVIOUS
<1>1. /\ connections' = stored.ids /\ c' = stored.ids /\ changed' = FALSE
      /\ subscriptions' = stored.su /\ su' = stored.su
      /\ transport' = transport /\ stored' = stored /\ writing' = stored /\ ~inFlight'
      /\ \A e \in Events : index'[e] = {k \in stored.ids : e \in stored.su[k]}
  BY DEF Restart, RestoredIndex
<1>2. \A k \in Conns : /\ stage'[k] # "open"
                       /\ stage'[k] \in {"new", "preparing", "failed", "broken"} =>
                             stage'[k] = stage[k]
  BY DEF Restart, IInv, TypeOK, Stages
<1> USE DEF IInv
<1>3. PersistedInStep' /\ StreamSubscribersAreConnected' /\ IndexIsRight' /\ WritingIsStored'
  BY <1>1 DEF PersistedInStep, StreamSubscribersAreConnected, IndexIsRight, WritingIsStored
<1>4. OpenIsConnected'
  BY <1>2 DEF OpenIsConnected
<1>5. UnusedIsUnknown'
  BY <1>1, <1>2 DEF UnusedIsUnknown, RecordsAreRight
<1>6. RecordsAreRight'
  BY <1>1 DEF RecordsAreRight
<1> QED
  BY <1>3, <1>4, <1>5, <1>6

(* Every step keeps the inductive invariant. *)
LEMMA StepInv == IInv /\ [Next]_vars => IInv'
<1> SUFFICES ASSUME IInv, [Next]_vars PROVE IInv'
  OBVIOUS
<1>1. TypeOK /\ TypeOK'
  BY StepType DEF IInv
<1>2. ASSUME NEW k \in Conns,
             Connect(k) \/ PrepareFails(k) \/ ClientLeaves(k) \/ ServerCloses(k)
      PROVE  IInv'
  <2>1. Untouched
    BY <1>1, <1>2 DEF Connect, handleAction, Prepare, PrepareFails, ClientLeaves,
                      ServerCloses, Untouched, disk, TypeOK
  <2> QED
    BY <1>1, <2>1, UntouchedInv
<1>3. ASSUME NEW k \in Conns, Open(k) \/ OpenThrows(k) \/ OnClose(k) PROVE IInv'
  BY <1>1, <1>3, OpenInv, OnCloseInv
<1>4. ASSUME NEW m \in Messages, Receive(m) PROVE IInv'
  BY <1>1, <1>4, UntouchedInv DEF Receive, Untouched, disk
<1>5. ASSUME NEW m \in Messages, OnMessage(m) \/ handleConnectionMessage(m) PROVE IInv'
  <2>1. processMessage(m) /\ UNCHANGED <<stage, transport, disk, unsaved>>
    BY <1>5 DEF OnMessage, handleConnectionMessage, OnConnMessage, requests
  <2>2. \/ transport[m.conn] = "websocket" /\ stage[m.conn] \in {"open", "closed"}
        \/ /\ transport[m.conn] = "sse" /\ m.conn \in connections
           /\ stage[m.conn] # "broken"
    BY <1>1, <1>5 DEF OnMessage, handleConnectionMessage, OnConnMessage, TypeOK
  <2> QED
    BY <1>1, <2>1, <2>2, MessageInv
<1>6. CASE SaveStarts \/ SaveLands \/ SaveFails \/ Restart
  BY <1>1, <1>6, SaveStartsInv, SaveEndsInv, RestartInv
<1>7. CASE UNCHANGED vars
  BY <1>1, <1>7, UntouchedInv DEF vars, Untouched, memory
<1> QED
  BY <1>2, <1>3, <1>4, <1>5, <1>6, <1>7, StepKinds

-----------------------------------------------------------------------------
(* Theorems *)

(* The types are an invariant. *)
THEOREM TypeCorrect == Spec => []TypeOK
<1>1. Init => TypeOK
  BY InitInv DEF IInv
<1> QED
  BY <1>1, StepType, PTL DEF Spec

(* The inductive invariant holds of every behaviour. *)
THEOREM InvariantHolds == Spec => []IInv
  BY InitInv, StepInv, PTL DEF Spec

(* The connections and the persisted list agree, and a difference from what   *)
(* is stored, or being stored, is flagged for a save, unless a write failed   *)
(* or a creation threw since the last write began.                            *)
THEOREM ListInStep == Spec => []PersistedInStep
<1>1. IInv => PersistedInStep
  BY DEF IInv
<1> QED
  BY <1>1, InvariantHolds, PTL

(* No stream that was removed stays in the index of subscribers.              *)
THEOREM NoDeadStream == Spec => []StreamSubscribersAreConnected
<1>1. IInv => StreamSubscribersAreConnected
  BY DEF IInv
<1> QED
  BY <1>1, InvariantHolds, PTL

(* A broadcast reaches exactly the open connections subscribed to it.         *)
THEOREM BroadcastIsExact == Spec => []BroadcastReachesSubscribers
<1>1. IInv => BroadcastReachesSubscribers
  <2> SUFFICES ASSUME IInv, NEW e \in Events, NEW k \in Conns
               PROVE  k \in Recipients(e) <=> stage[k] = "open" /\ e \in subscriptions[k]
    BY DEF BroadcastReachesSubscribers, Recipients, IInv, TypeOK
  <2>1. ASSUME k \in Recipients(e)
        PROVE  stage[k] = "open" /\ e \in subscriptions[k]
    <3>1. k \in index[e] /\ stage[k] \in {"open", "broken"}
      BY <2>1 DEF Recipients, IInv, TypeOK
    <3>2. stage[k] = "open"
      BY <3>1 DEF IInv, UnusedIsUnknown
    <3>3. k \in connections
      BY <3>2 DEF IInv, OpenIsConnected
    <3> QED
      BY <3>1, <3>2, <3>3 DEF IInv, IndexIsRight
  <2>2. ASSUME stage[k] = "open", e \in subscriptions[k]
        PROVE  k \in Recipients(e)
    <3>1. transport[k] # "http"
      BY <2>2 DEF IInv, RecordsAreRight
    <3> QED
      BY <2>2, <3>1 DEF Recipients, IInv, OpenIsConnected, IndexIsRight
  <2> QED
    BY <2>1, <2>2
<1> QED
  BY <1>1, InvariantHolds, PTL

(* A removed connection whose removal is stored never comes back.             *)
THEOREM RemovedStaysRemoved == Spec => RemovedForGood
<1> DEFINE Step == \A k \in Conns : Buried(k) => Buried(k)'
<1>1. IInv /\ [Next]_vars => [Step]_vars
  <2> SUFFICES ASSUME IInv, [Next]_vars, NEW k \in Conns, Buried(k)
               PROVE  Buried(k)'
    OBVIOUS
  <2> USE DEF memory, disk, requests, Buried
  <2>1. ASSUME NEW j \in Conns, \/ Connect(j) \/ PrepareFails(j) \/ ClientLeaves(j)
                                 \/ ServerCloses(j) \/ OnClose(j)
        PROVE  Buried(k)'
    BY <2>1 DEF Connect, handleAction, Prepare, PrepareFails, ClientLeaves, ServerCloses,
                OnClose, removeConn, IInv, TypeOK
  <2>2. ASSUME NEW j \in Conns, Open(j) \/ OpenThrows(j)
        PROVE  Buried(k)'
    BY <2>2 DEF Open, OpenThrows, createConn, IInv, TypeOK
  <2>3. ASSUME NEW m \in Messages, Receive(m) \/ OnMessage(m) \/ handleConnectionMessage(m)
        PROVE  Buried(k)'
    BY <2>3, MessageType DEF Receive, OnMessage, handleConnectionMessage, OnConnMessage, IInv
  <2>4. CASE SaveStarts \/ SaveLands \/ SaveFails
    BY <2>4 DEF SaveStarts, SaveLands, SaveFails, IInv, PersistedInStep
  <2>5. CASE Restart \/ UNCHANGED vars
    BY <2>5 DEF Restart, vars, IInv, TypeOK
  <2> QED
    BY <2>1, <2>2, <2>3, <2>4, <2>5, StepKinds
<1> QED
  BY <1>1, InvariantHolds, PTL DEF Spec, RemovedForGood

-----------------------------------------------------------------------------
(* ActorSockets: the way of one connection, for any number of messages.      *)

HIDE ConstantsAssumption DEF ConstantsAssumption
USE DEF front, object, wire, handler, messages, socketVars, Proxied, Fake, Stream, Worker,
    Partitioned, received

-----------------------------------------------------------------------------
(* What Carries says of the ways' parts.                                  *)

(* What Carries says of the empty sequence, of a close event and of a message. *)
LEMMA CarriesNothing ==
    ASSUME NEW x \in Nat, NEW y \in Nat
    PROVE  Carries(<<>>, x, x) /\ (Carries(<<>>, x, y) => x = y)
<1>1. Carries(<<>>, x, x)
  BY DEF Carries
<1>2. ASSUME Carries(<<>>, x, y), x # y PROVE FALSE
  <2>1. x + 1 \in (x + 1)..y
    BY <1>2 DEF Carries
  <2> QED
    BY <1>2, <2>1 DEF Carries
<1> QED
  BY <1>1, <1>2

(* A close event carries nothing, a message itself. *)
LEMMA CarriesOne ==
    ASSUME NEW x \in Nat
    PROVE  /\ Carries(<<close>>, x, x) /\ Carries(<<x + 1>>, x, x + 1)
           /\ \A y \in Nat : Carries(<<close>>, x, y) => x = y
<1>1. Carries(<<close>>, x, x) /\ Carries(<<x + 1>>, x, x + 1)
  BY DEF Carries, close
<1>2. ASSUME NEW y \in Nat, Carries(<<close>>, x, y), x # y PROVE FALSE
  <2>1. x + 1 \in (x + 1)..y
    BY <1>2 DEF Carries
  <2>2. PICK i \in DOMAIN <<close>> : <<close>>[i] = x + 1
    BY <1>2, <2>1 DEF Carries
  <2> QED
    BY <2>2 DEF close
<1> QED
  BY <1>1, <1>2

(* Two parts of a way after each other. *)
LEMMA CarriesConcat ==
    ASSUME NEW x \in Nat, NEW y \in Nat, NEW z \in Nat,
           NEW s \in Seq(Items), NEW t \in Seq(Items),
           Carries(s, x, y), Carries(t, y, z)
    PROVE  Carries(s \o t, x, z)
<1> DEFINE r == s \o t
<1>1. /\ Len(r) = Len(s) + Len(t) /\ Len(s) \in Nat /\ Len(t) \in Nat
      /\ DOMAIN r = 1..Len(r) /\ DOMAIN s = 1..Len(s) /\ DOMAIN t = 1..Len(t)
      /\ \A i \in 1..Len(r) : r[i] = IF i <= Len(s) THEN s[i] ELSE t[i - Len(s)]
  OBVIOUS
<1>2. /\ \A i \in 1..Len(s) : s[i] \in Int
      /\ \A i \in 1..Len(t) : t[i] \in Int
  BY DEF Items, Msgs, close
<1> HIDE DEF r
<1>3. x <= z
  BY DEF Carries
<1>4. ASSUME NEW i \in DOMAIN r, r[i] # close PROVE r[i] \in (x + 1)..z
  <2>1. CASE i <= Len(s)
    BY <1>1, <1>2, <1>4, <2>1 DEF Carries
  <2>2. CASE i > Len(s)
    <3>1. i - Len(s) \in 1..Len(t) /\ r[i] = t[i - Len(s)]
      BY <1>1, <2>2
    <3> QED
      BY <1>1, <1>2, <1>4, <3>1 DEF Carries
  <2> QED
    BY <1>1, <2>1, <2>2
<1>5. ASSUME NEW m \in (x + 1)..z PROVE \E i \in DOMAIN r : r[i] = m
  <2>1. CASE m <= y
    <3>1. PICK i \in DOMAIN s : s[i] = m
      BY <2>1 DEF Carries
    <3> QED
      BY <1>1, <3>1
  <2>2. CASE m > y
    <3>1. PICK i \in DOMAIN t : t[i] = m
      BY <2>2 DEF Carries
    <3>2. i + Len(s) \in DOMAIN r /\ r[i + Len(s)] = t[i]
      BY <1>1, <3>1
    <3> QED
      BY <3>1, <3>2
  <2> QED
    BY <2>1, <2>2
<1>6. ASSUME NEW i \in DOMAIN r, NEW j \in DOMAIN r, i < j, r[i] # close, r[j] # close
      PROVE  r[i] < r[j]
  <2>1. CASE j <= Len(s)
    BY <1>1, <1>6, <2>1 DEF Carries
  <2>2. CASE i <= Len(s) /\ j > Len(s)
    <3>1. i \in DOMAIN s /\ r[i] = s[i] /\ j - Len(s) \in DOMAIN t /\ r[j] = t[j - Len(s)]
      BY <1>1, <2>2
    <3>2. r[i] \in (x + 1)..y /\ r[j] \in (y + 1)..z
      BY <1>6, <3>1 DEF Carries
    <3> QED
      BY <3>2
  <2>3. CASE i > Len(s)
    <3>1. /\ i - Len(s) \in DOMAIN t /\ r[i] = t[i - Len(s)]
          /\ j - Len(s) \in DOMAIN t /\ r[j] = t[j - Len(s)]
          /\ i - Len(s) < j - Len(s)
      BY <1>1, <1>6, <2>3
    <3> QED
      BY <1>6, <3>1 DEF Carries
  <2> QED
    BY <1>1, <1>6, <2>1, <2>2, <2>3
<1>7. Carries(r, x, z)
  BY <1>3, <1>4, <1>5, <1>6 DEF Carries
<1> QED
  BY <1>7 DEF r

(* One more item. *)
LEMMA CarriesAppend ==
    ASSUME NEW x \in Nat, NEW y \in Nat, NEW z \in Nat,
           NEW s \in Seq(Items), NEW item \in Items,
           Carries(s, x, y), Carries(<<item>>, y, z)
    PROVE  Carries(Append(s, item), x, z)
<1>1. <<item>> \in Seq(Items) /\ Append(s, item) = s \o <<item>>
  OBVIOUS
<1> QED
  BY <1>1, CarriesConcat

(* The first item of a part, and what remains. *)
LEMMA CarriesSplit ==
    ASSUME NEW x \in Nat, NEW z \in Nat,
           NEW s \in Seq(Items), s # <<>>, Carries(s, x, z)
    PROVE  \E y \in x..z : Carries(<<Head(s)>>, x, y) /\ Carries(Tail(s), y, z)
<1> DEFINE t == Tail(s)
<1>1. /\ Len(s) \in Nat \ {0} /\ Len(t) = Len(s) - 1 /\ Head(s) = s[1]
      /\ DOMAIN s = 1..Len(s) /\ DOMAIN t = 1..Len(t)
      /\ \A i \in 1..Len(t) : t[i] = s[i + 1]
      /\ s[1] \in Items
  OBVIOUS
<1>2. \A i \in 1..Len(s) : s[i] \in Int
  BY DEF Items, Msgs, close
<1> HIDE DEF t
<1>3. CASE s[1] = close
  <2>1. Carries(t, x, z)
    <3>1. ASSUME NEW i \in DOMAIN t, t[i] # close PROVE t[i] \in (x + 1)..z
      <4>1. i + 1 \in DOMAIN s /\ t[i] = s[i + 1]
        BY <1>1
      <4> QED
        BY <3>1, <4>1 DEF Carries
    <3>2. ASSUME NEW m \in (x + 1)..z PROVE \E i \in DOMAIN t : t[i] = m
      <4>1. PICK i \in DOMAIN s : s[i] = m
        BY DEF Carries
      <4>2. i # 1
        BY <1>3, <4>1 DEF close
      <4>3. i - 1 \in DOMAIN t /\ t[i - 1] = s[i]
        BY <1>1, <4>1, <4>2
      <4> QED
        BY <4>1, <4>3
    <3>3. ASSUME NEW i \in DOMAIN t, NEW j \in DOMAIN t, i < j, t[i] # close, t[j] # close
          PROVE  t[i] < t[j]
      <4>1. i + 1 \in DOMAIN s /\ j + 1 \in DOMAIN s /\ i + 1 < j + 1
            /\ t[i] = s[i + 1] /\ t[j] = s[j + 1]
        BY <1>1, <3>3
      <4> QED
        BY <3>3, <4>1 DEF Carries
    <3>4. x <= z
      BY DEF Carries
    <3> QED
      BY <3>1, <3>2, <3>3, <3>4 DEF Carries
  <2>2. Carries(<<Head(s)>>, x, x) /\ x \in x..z
    BY <1>1, <1>3, CarriesOne DEF Carries
  <2> QED
    BY <2>1, <2>2 DEF t
<1>4. CASE s[1] # close
  <2>1. s[1] \in (x + 1)..z
    BY <1>1, <1>4 DEF Carries
  <2>2. PICK i \in DOMAIN s : s[i] = x + 1
    BY <2>1 DEF Carries
  <2>3. s[1] = x + 1
    <3>1. ASSUME i > 1 PROVE s[1] < s[i]
      <4>1. 1 \in DOMAIN s /\ 1 < i /\ s[i] # close
        BY <1>1, <2>2, <3>1 DEF close
      <4> QED
        BY <1>4, <4>1 DEF Carries
    <3> QED
      BY <1>1, <1>2, <2>1, <2>2, <3>1
  <2>4. Carries(t, x + 1, z)
    <3>1. ASSUME NEW j \in DOMAIN t, t[j] # close PROVE t[j] \in (x + 1 + 1)..z
      <4>1. j + 1 \in DOMAIN s /\ t[j] = s[j + 1] /\ 1 \in DOMAIN s /\ 1 < j + 1
        BY <1>1
      <4>2. s[1] < s[j + 1] /\ s[j + 1] \in (x + 1)..z
        BY <1>4, <3>1, <4>1 DEF Carries
      <4> QED
        BY <2>3, <4>1, <4>2
    <3>2. ASSUME NEW m \in (x + 1 + 1)..z PROVE \E j \in DOMAIN t : t[j] = m
      <4>1. PICK j \in DOMAIN s : s[j] = m
        BY DEF Carries
      <4>2. j # 1
        BY <2>3, <4>1
      <4>3. j - 1 \in DOMAIN t /\ t[j - 1] = s[j]
        BY <1>1, <4>1, <4>2
      <4> QED
        BY <4>1, <4>3
    <3>3. ASSUME NEW h \in DOMAIN t, NEW j \in DOMAIN t, h < j, t[h] # close, t[j] # close
          PROVE  t[h] < t[j]
      <4>1. h + 1 \in DOMAIN s /\ j + 1 \in DOMAIN s /\ h + 1 < j + 1
            /\ t[h] = s[h + 1] /\ t[j] = s[j + 1]
        BY <1>1, <3>3
      <4> QED
        BY <3>3, <4>1 DEF Carries
    <3>4. x + 1 <= z
      BY <2>1
    <3> QED
      BY <3>1, <3>2, <3>3, <3>4 DEF Carries
  <2>5. Carries(<<Head(s)>>, x, x + 1) /\ x + 1 \in x..z
    BY <1>1, <2>1, <2>3, CarriesOne
  <2> QED
    BY <2>4, <2>5 DEF t
<1> QED
  BY <1>3, <1>4

-----------------------------------------------------------------------------
(* Types.                                                                 *)

(* The close event and the next messages are items. *)
LEMMA ItemFacts ==
    ASSUME SocketsAssumption, SocketsTypeOK
    PROVE /\ close \in Items /\ 1 \in Items
          /\ emitted < MaxSent => emitted + 1 \in Items
          /\ sent < MaxSent => sent + 1 \in Items
  BY DEF SocketsAssumption, SocketsTypeOK, Items, Msgs

(* Where sequences of items are built and taken apart. *)
LEMMA SeqFacts ==
    /\ <<>> \in Seq(Items)
    /\ \A x \in Items : <<x>> \in Seq(Items)
    /\ \A s \in Seq(Items) : \A x \in Items : Append(s, x) \in Seq(Items)
    /\ \A s \in Seq(Items) : \A x \in Items : \A t : t \in {s, Append(s, x)} => t \in Seq(Items)
    /\ \A s, t \in Seq(Items) : s \o t \in Seq(Items)
    /\ \A s \in Seq(Items) : s # <<>> => Head(s) \in Items /\ Tail(s) \in Seq(Items)
  OBVIOUS

(* What is heard, dispatched or transmitted keeps its type. *)
LEMMA HearTypes ==
    ASSUME SocketsTypeOK, NEW events \in Seq(Items), Hear(events)
    PROVE  down' \in Seq(Items) /\ heard' \in Seq(Items)
<1>1. down' \in {down, down \o events} /\ heard' \in {heard, heard \o events}
  BY DEF Hear
<1>2. down \in Seq(Items) /\ heard \in Seq(Items)
  BY DEF SocketsTypeOK
<1> QED
  BY <1>1, <1>2, SeqFacts, Zenon

(* The same of events that may be kept for listeners. *)
LEMMA DispatchTypes ==
    ASSUME SocketsTypeOK, NEW events \in Seq(Items), dispatchEvent(events)
    PROVE  down' \in Seq(Items) /\ heard' \in Seq(Items) /\ buffered' \in Seq(Items)
<1>1. CASE listening
  BY <1>1, HearTypes DEF dispatchEvent, SocketsTypeOK
<1>2. CASE ~listening
  BY <1>2, SeqFacts, Zenon DEF dispatchEvent, SocketsTypeOK
<1> QED
  BY <1>1, <1>2

(* The same of what the actor sends, along each way. *)
LEMMA TransmitTypes ==
    ASSUME SocketsTypeOK, NEW n \in Items, Transmit(n)
    PROVE  /\ down' \in Seq(Items) /\ heard' \in Seq(Items) /\ buffered' \in Seq(Items)
           /\ queued' \in Seq(Items) /\ toClient' \in Seq(Items)
<1>1. <<n>> \in Seq(Items)
  BY SeqFacts
<1>2. CASE Fake /\ Stream
  <2>1. CASE listening
    BY <1>1, <1>2, <2>1, HearTypes DEF Transmit, writeSSE, dispatchStreamEvent, SocketsTypeOK
  <2>2. CASE ~listening
    BY <1>2, <2>2 DEF Transmit, writeSSE, dispatchStreamEvent, SocketsTypeOK
  <2> QED
    BY <2>1, <2>2
<1>3. CASE Fake /\ ~Stream
  <2>1. CASE ready = "open"
    BY <1>1, <1>3, <2>1, DispatchTypes DEF Transmit, handleMessage, SocketsTypeOK
  <2>2. CASE ready # "open"
    <3>1. queued' = Append(queued, n) /\ UNCHANGED <<buffered, heard, down, toClient>>
      BY <1>3, <2>2 DEF Transmit, handleMessage
    <3> QED
      BY <3>1, SeqFacts, Zenon DEF SocketsTypeOK
  <2> QED
    BY <2>1, <2>2
<1>4. CASE ~Fake
  <2>1. toClient' = Append(toClient, n) /\ UNCHANGED <<queued, buffered, heard, down>>
    BY <1>4 DEF Transmit
  <2> QED
    BY <2>1, SeqFacts, Zenon DEF SocketsTypeOK
<1> QED
  BY <1>2, <1>3, <1>4

(* The sequences keep their type. *)
LEMMA SequenceTypes ==
    ASSUME SocketsAssumption, SocketsTypeOK, StagesAgree, QueuesAgree, [SocketsNext]_socketVars
    PROVE  /\ up' \in Seq(Items) /\ down' \in Seq(Items)
           /\ buffered' \in Seq(Items) /\ queued' \in Seq(Items)
           /\ toClient' \in Seq(Items) /\ toActor' \in Seq(Items)
           /\ taken' \in Seq(Items) /\ heard' \in Seq(Items)
<1>a. /\ up \in Seq(Items) /\ down \in Seq(Items)
      /\ buffered \in Seq(Items) /\ queued \in Seq(Items)
      /\ toClient \in Seq(Items) /\ toActor \in Seq(Items)
      /\ taken \in Seq(Items) /\ heard \in Seq(Items)
  BY DEF SocketsTypeOK
<1>b. <<close>> \in Seq(Items)
  BY ItemFacts, SeqFacts, Zenon
<1>1. CASE onOpen
  <2>1. Transmit(1) /\ UNCHANGED <<up, toActor, taken>>
    BY <1>1 DEF onOpen
  <2> QED
    BY <1>a, <2>1, ItemFacts, TransmitTypes
<1>2. CASE sendMessage
  <2>1. /\ Transmit(emitted + 1) /\ emitted + 1 \in Items
        /\ UNCHANGED <<up, toActor, taken>>
    BY <1>2, ItemFacts DEF sendMessage
  <2> QED
    BY <1>a, <2>1, TransmitTypes
<1>3. CASE OpenResolves
  <2>1. CASE Fake /\ ~Stream
    BY <1>3, <1>a, <2>1, SeqFacts, DispatchTypes DEF OpenResolves, initialize
  <2>2. CASE ~(Fake /\ ~Stream)
    BY <1>3, <1>a, <2>2 DEF OpenResolves
  <2> QED
    BY <2>1, <2>2
<1>4. CASE OpenRejects
  <2>1. toClient' \in {toClient, Append(toClient, close)}
        /\ UNCHANGED <<up, down, buffered, queued, toActor, taken, heard>>
    BY <1>4 DEF OpenRejects
  <2> QED
    BY <1>a, <2>1, ItemFacts, SeqFacts, Zenon
<1>5. CASE disconnect
  <2>1. \/ UNCHANGED <<buffered, queued, down, heard>>
           /\ toClient' \in {toClient, Append(toClient, close)}
        \/ dispatchEvent(<<close>>) /\ UNCHANGED <<queued, toClient>>
    BY <1>5 DEF disconnect
  <2>2. UNCHANGED <<up, toActor, taken>>
    BY <1>5 DEF disconnect
  <2>3. CASE UNCHANGED <<buffered, queued, down, heard>>
             /\ toClient' \in {toClient, Append(toClient, close)}
    BY <1>a, <2>2, <2>3, ItemFacts, SeqFacts, Zenon
  <2>4. CASE dispatchEvent(<<close>>) /\ UNCHANGED <<queued, toClient>>
    BY <1>a, <1>b, <2>2, <2>4, DispatchTypes
  <2> QED
    BY <2>1, <2>3, <2>4
<1>6. CASE FakeCloseEnds
  BY <1>6, <1>a, <1>b, DispatchTypes DEF FakeCloseEnds
<1>7. CASE addEventListener
  BY <1>7, <1>a, SeqFacts, HearTypes DEF addEventListener
<1>8. CASE SocketReceives
  <2>1. toClient # <<>> /\ toClient' = Tail(toClient)
        /\ UNCHANGED <<up, buffered, queued, taken>>
        /\ toActor' \in {toActor, Append(toActor, close)}
    BY <1>8 DEF SocketReceives
  <2>2. toClient' \in Seq(Items) /\ <<Head(toClient)>> \in Seq(Items) /\ toActor' \in Seq(Items)
    BY <1>a, <2>1, ItemFacts, SeqFacts, Zenon
  <2>3. Hear(<<Head(toClient)>>) \/ UNCHANGED <<heard, down>>
    BY <1>8 DEF SocketReceives
  <2> QED
    BY <1>a, <2>1, <2>2, <2>3, HearTypes
<1>9. CASE SocketOpens
  BY <1>9, <1>a DEF SocketOpens
<1>10. CASE onMessage \/ onClose
  <2>1. /\ toActor # <<>> /\ toActor' = Tail(toActor)
        /\ taken' \in {taken, Append(taken, Head(toActor))}
        /\ UNCHANGED <<up, down, buffered, queued, toClient, heard>>
    BY <1>10 DEF onMessage, onClose
  <2> QED
    BY <1>a, <2>1, SeqFacts, Zenon
<1>11. CASE ProxyForwards
  <2>1. /\ up # <<>> /\ up' = Tail(up)
        /\ toActor' \in {toActor, Append(toActor, Head(up))}
        /\ taken' \in {taken, Append(taken, Head(up))}
        /\ UNCHANGED <<down, buffered, queued, toClient, heard>>
    BY <1>11 DEF ProxyForwards, RivetProxyForwards, TestProxyForwards, SendTo
  <2> QED
    BY <1>a, <2>1, SeqFacts, Zenon
<1>12. CASE ProxyCloses
  <2>1. /\ up # <<>> /\ up' = Tail(up)
        /\ toActor' \in {toActor, Append(toActor, close)}
        /\ UNCHANGED <<down, buffered, queued, toClient, taken, heard>>
    BY <1>12 DEF ProxyCloses, RivetProxyCloses, TestProxyCloses, ClosesTarget, CloseObject
  <2> QED
    BY <1>a, <2>1, ItemFacts, SeqFacts, Zenon
<1>13. CASE ProxiedReceives
  <2>1. /\ down # <<>> /\ down' = Tail(down) /\ heard' = Append(heard, Head(down))
        /\ UNCHANGED <<up, buffered, queued, toClient, toActor, taken>>
    BY <1>13 DEF ProxiedReceives
  <2> QED
    BY <1>a, <2>1, SeqFacts, Zenon
<1>14. CASE ClientSends \/ ClientCloses
  <2>1. /\ ClientSends => sent + 1 \in Items
        /\ \/ ClientSends /\ toActor' \in {toActor, Append(toActor, sent + 1)}
                          /\ taken' \in {taken, Append(taken, sent + 1)}
           \/ /\ toActor' \in {toActor, Append(toActor, close)}
              /\ taken' = taken
    BY <1>14, ItemFacts DEF ClientSends, ClientCloses, CloseObject, SendTo
  <2>2. UNCHANGED <<up, down, buffered, queued, toClient, heard>>
    BY <1>14 DEF ClientSends, ClientCloses
  <2> QED
    BY <1>a, <2>1, <2>2, ItemFacts, SeqFacts, Zenon
<1>15. CASE ProxiedSends \/ ProxiedCloses
  <2>1. /\ ProxiedSends => sent + 1 \in Items
        /\ \/ ProxiedSends /\ up' = Append(up, sent + 1)
           \/ up' = Append(up, close)
        /\ UNCHANGED <<down, buffered, queued, toClient, toActor, taken, heard>>
    BY <1>15, ItemFacts DEF ProxiedSends, ProxiedCloses
  <2> QED
    BY <1>a, <2>1, ItemFacts, SeqFacts, Zenon
<1>16. CASE \/ HandlerOpens \/ upgradeWebSocket \/ StreamHandedOver \/ ProxyOpens
            \/ (\E m \in Msgs : parseMessage(m)) \/ UNCHANGED socketVars
  BY <1>16, <1>a DEF HandlerOpens, upgradeWebSocket, StreamHandedOver, parseMessage, ProxyOpens,
     TestProxyOpens, RivetProxyOpens
<1>17. CASE RequestFails
  BY <1>17, <1>a, <1>b, HearTypes DEF RequestFails
<1>18. CASE AbandonedEnds
  <2>1. /\ toActor' = Append(toActor, close)
        /\ UNCHANGED <<up, down, buffered, queued, toClient, taken, heard>>
    BY <1>18 DEF AbandonedEnds
  <2> QED
    BY <1>a, <2>1, ItemFacts, SeqFacts, Zenon
<1> QED
  BY <1>1, <1>2, <1>3, <1>4, <1>5, <1>6, <1>7, <1>8, <1>9, <1>10, <1>11, <1>12, <1>13, <1>14,
     <1>15, <1>16, <1>17, <1>18 DEF SocketsNext

(* What is being parsed, and what has been handled, are messages. *)
LEMMA HandledTypes ==
    ASSUME SocketsAssumption, SocketsTypeOK, [SocketsNext]_socketVars
    PROVE  decoding' \subseteq Msgs /\ handled' \in Seq(Msgs)
<1>1. \A s \in Seq(Items) : (s # <<>> /\ Head(s) # close) => Head(s) \in Msgs
  <2>1. \A x \in Items : x # close => x \in Msgs
    BY DEF Items
  <2> QED
    BY <2>1, SeqFacts
<1>2. /\ decoding \subseteq Msgs /\ handled \in Seq(Msgs)
      /\ toActor \in Seq(Items) /\ up \in Seq(Items)
      /\ sent < MaxSent => sent + 1 \in Msgs
  BY DEF SocketsTypeOK, SocketsAssumption, Msgs
<1>3. CASE onMessage
  BY <1>1, <1>2, <1>3 DEF onMessage
<1>4. CASE ClientSends
  BY <1>2, <1>4 DEF ClientSends, SendTo
<1>5. CASE ProxyForwards
  BY <1>1, <1>2, <1>5 DEF ProxyForwards, RivetProxyForwards, TestProxyForwards, SendTo
<1>6. CASE \E m \in Msgs : parseMessage(m)
  BY <1>2, <1>6 DEF parseMessage
<1>7. CASE \/ HandlerOpens \/ upgradeWebSocket \/ onOpen \/ OpenRejects \/ OpenResolves
           \/ sendMessage \/ disconnect \/ FakeCloseEnds \/ addEventListener
           \/ StreamHandedOver \/ SocketOpens \/ RequestFails \/ AbandonedEnds
           \/ SocketReceives \/ onClose \/ ProxyOpens \/ ProxyCloses \/ ProxiedReceives
           \/ ClientCloses \/ ProxiedSends \/ ProxiedCloses \/ UNCHANGED socketVars
  <2>1. UNCHANGED <<decoding, handled>>
    BY <1>7 DEF HandlerOpens, upgradeWebSocket, onOpen, OpenRejects, OpenResolves,
       sendMessage, disconnect, FakeCloseEnds, addEventListener, StreamHandedOver,
       SocketOpens, RequestFails, AbandonedEnds, SocketReceives, onClose, ProxyOpens,
       TestProxyOpens, RivetProxyOpens, ProxyCloses, ProxiedReceives, ClientCloses,
       ProxiedSends, ProxiedCloses
  <2> QED
    BY <1>2, <2>1
<1> QED
  BY <1>3, <1>4, <1>5, <1>6, <1>7 DEF SocketsNext

(* The two counters keep within their bound. *)
LEMMA CountTypes ==
    ASSUME SocketsAssumption, SocketsTypeOK, [SocketsNext]_socketVars
    PROVE  sent' \in 0..MaxSent /\ emitted' \in 0..MaxSent
<1>1. CASE onOpen
  BY <1>1 DEF onOpen, SocketsTypeOK, SocketsAssumption
<1>2. CASE sendMessage
  BY <1>2 DEF sendMessage, SocketsTypeOK, SocketsAssumption
<1>3. CASE ClientSends
  BY <1>3 DEF ClientSends, SocketsTypeOK, SocketsAssumption
<1>4. CASE ProxiedSends
  BY <1>4 DEF ProxiedSends, SocketsTypeOK, SocketsAssumption
<1>5. CASE \/ HandlerOpens \/ upgradeWebSocket \/ OpenRejects \/ OpenResolves \/ disconnect
           \/ FakeCloseEnds \/ addEventListener \/ StreamHandedOver \/ SocketOpens
           \/ RequestFails \/ AbandonedEnds \/ SocketReceives \/ onMessage
           \/ (\E m \in Msgs : parseMessage(m)) \/ onClose \/ ProxyOpens \/ ProxyForwards
           \/ ProxyCloses \/ ProxiedReceives
           \/ ClientCloses \/ ProxiedCloses \/ UNCHANGED socketVars
  <2>1. UNCHANGED <<sent, emitted>>
    BY <1>5 DEF HandlerOpens, upgradeWebSocket, OpenRejects, OpenResolves, disconnect,
       FakeCloseEnds, addEventListener, StreamHandedOver, SocketOpens, RequestFails,
       AbandonedEnds, parseMessage, SocketReceives, onMessage, onClose, ProxyOpens,
       TestProxyOpens, RivetProxyOpens, ProxyForwards, ProxyCloses, ProxiedReceives,
       ClientCloses, ProxiedCloses
  <2> QED
    BY <2>1 DEF SocketsTypeOK
<1> QED
  BY <1>1, <1>2, <1>3, <1>4, <1>5 DEF SocketsNext

(* So do the stages, and the facts that are true or false. *)
LEMMA StageTypes ==
    ASSUME SocketsTypeOK, StagesAgree, [SocketsNext]_socketVars
    PROVE  /\ path' \in Paths
           /\ outer' \in {"none", "connecting", "open", "closing", "closed"}
           /\ ready' \in {"none", "connecting", "open", "closing", "closed"}
           /\ opening' \in {"none", "running", "resolved", "rejected"}
           /\ conn' \in {"none", "open", "removed", "stray"}
           /\ listening' \in BOOLEAN /\ ending' \in BOOLEAN /\ registered' \in BOOLEAN
           /\ ended' \in BOOLEAN /\ closed' \in BOOLEAN /\ missed' \in BOOLEAN
<1> USE DEF SocketsTypeOK
<1>1. CASE HandlerOpens
  BY <1>1 DEF HandlerOpens
<1>2. CASE upgradeWebSocket
  BY <1>2 DEF upgradeWebSocket
<1>3. CASE onOpen
  BY <1>3 DEF onOpen, Transmit, handleMessage, writeSSE, dispatchStreamEvent, dispatchEvent,
     Hear
<1>4. CASE OpenRejects
  BY <1>4 DEF OpenRejects
<1>5. CASE OpenResolves
  BY <1>5 DEF OpenResolves, initialize, dispatchEvent, Hear
<1>6. CASE sendMessage
  BY <1>6 DEF sendMessage, Transmit, handleMessage, writeSSE, dispatchStreamEvent,
     dispatchEvent, Hear
<1>7. CASE disconnect
  BY <1>7 DEF disconnect, StreamClose, onCloseCallback, dispatchEvent, Hear
<1>8. CASE FakeCloseEnds
  BY <1>8 DEF FakeCloseEnds, dispatchEvent, Hear
<1>9. CASE addEventListener
  BY <1>9 DEF addEventListener, Hear
<1>10. CASE StreamHandedOver
  BY <1>10 DEF StreamHandedOver
<1>11. CASE SocketOpens
  BY <1>11 DEF SocketOpens
<1>12. CASE RequestFails
  BY <1>12 DEF RequestFails, Hear
<1>13. CASE AbandonedEnds
  BY <1>13 DEF AbandonedEnds
<1>14. CASE SocketReceives
  <2>1. /\ UNCHANGED <<path, opening, conn, listening, ending, registered, ended, closed, missed>>
        /\ ready' = ready \/ ready' = "closed"
        /\ outer' = outer \/ outer' = "closing"
    BY <1>14 DEF SocketReceives, Hear
  <2> QED
    BY <2>1
<1>15. CASE onMessage
  BY <1>15 DEF onMessage
<1>16. CASE onClose
  <2>1. missed' \in BOOLEAN
    BY <1>16, Zenon DEF onClose
  <2>2. /\ UNCHANGED <<path, outer, ready, opening, listening, ending, ended, closed>>
        /\ conn' = conn \/ conn' = "removed"
        /\ registered' = registered \/ registered' = FALSE
    BY <1>16 DEF onClose
  <2>3. registered' \in BOOLEAN
    BY <2>2, Zenon
  <2>4. listening' \in BOOLEAN /\ ending' \in BOOLEAN /\ ended' \in BOOLEAN /\ closed' \in BOOLEAN
    BY <2>2
  <2>5. /\ path' \in Paths
        /\ outer' \in {"none", "connecting", "open", "closing", "closed"}
        /\ ready' \in {"none", "connecting", "open", "closing", "closed"}
        /\ opening' \in {"none", "running", "resolved", "rejected"}
        /\ conn' \in {"none", "open", "removed", "stray"}
    BY <2>2
  <2> QED
    BY <2>1, <2>3, <2>4, <2>5
<1>17. CASE ProxyOpens
  BY <1>17 DEF ProxyOpens, TestProxyOpens, RivetProxyOpens
<1>18. CASE ProxyForwards
  BY <1>18 DEF ProxyForwards, RivetProxyForwards, TestProxyForwards, SendTo
<1>19. CASE ProxyCloses
  <2>1. /\ UNCHANGED <<path, opening, listening, ended, closed>> /\ outer' = "closed"
        /\ ready' = ready \/ ready' = "closed" \/ ready' = "closing"
        /\ conn' = conn \/ conn' = "removed"
    BY <1>19 DEF ProxyCloses, RivetProxyCloses, TestProxyCloses, ClosesTarget, CloseObject,
       StreamClose, FakeClose, onCloseCallback
  <2>2. /\ missed' = missed \/ missed' = TRUE \/ missed' = (missed \/ opening # "resolved")
        /\ ending' = ending \/ ending' = TRUE
        /\ registered' = registered \/ registered' = FALSE
    BY <1>19 DEF ProxyCloses, RivetProxyCloses, TestProxyCloses, ClosesTarget, CloseObject,
       StreamClose, FakeClose, onCloseCallback
  <2>3. missed' \in BOOLEAN
    BY <2>2, Zenon
  <2>4. ending' \in BOOLEAN
    BY <2>2, Zenon
  <2>5. registered' \in BOOLEAN
    BY <2>2, Zenon
  <2>6. listening' \in BOOLEAN /\ ended' \in BOOLEAN /\ closed' \in BOOLEAN
    BY <2>1
  <2>7. /\ path' \in Paths
        /\ outer' \in {"none", "connecting", "open", "closing", "closed"}
        /\ ready' \in {"none", "connecting", "open", "closing", "closed"}
        /\ opening' \in {"none", "running", "resolved", "rejected"}
        /\ conn' \in {"none", "open", "removed", "stray"}
    BY <2>1
  <2> QED
    BY <2>3, <2>4, <2>5, <2>6, <2>7
<1>20. CASE ProxiedReceives
  BY <1>20 DEF ProxiedReceives
<1>21. CASE ClientSends
  BY <1>21 DEF ClientSends, SendTo
<1>22. CASE ClientCloses
  <2>1. /\ UNCHANGED <<path, opening, listening, ended, outer>>
        /\ ready' = ready \/ ready' = "closed" \/ ready' = "closing"
        /\ conn' = conn \/ conn' = "removed"
    BY <1>22 DEF ClientCloses, CloseObject, StreamClose, FakeClose, onCloseCallback
  <2>2. /\ missed' = missed \/ missed' = TRUE \/ missed' = (missed \/ opening # "resolved")
        /\ ending' = ending \/ ending' = TRUE
        /\ registered' = registered \/ registered' = FALSE
    BY <1>22 DEF ClientCloses, CloseObject, StreamClose, FakeClose, onCloseCallback
  <2>3. missed' \in BOOLEAN
    BY <2>2, Zenon
  <2>4. ending' \in BOOLEAN
    BY <2>2, Zenon
  <2>5. registered' \in BOOLEAN
    BY <2>2, Zenon
  <2>6. listening' \in BOOLEAN /\ ended' \in BOOLEAN
    BY <2>1
  <2>7. closed' \in BOOLEAN
    <3>1. CASE Fake \/ ready = "open"
      BY <1>22, <3>1 DEF ClientCloses
    <3>2. CASE ~(Fake \/ ready = "open")
      BY <1>22, <3>2 DEF ClientCloses
    <3> QED
      BY <3>1, <3>2
  <2>8. /\ path' \in Paths
        /\ outer' \in {"none", "connecting", "open", "closing", "closed"}
        /\ ready' \in {"none", "connecting", "open", "closing", "closed"}
        /\ opening' \in {"none", "running", "resolved", "rejected"}
        /\ conn' \in {"none", "open", "removed", "stray"}
    BY <2>1
  <2> QED
    BY <2>3, <2>4, <2>5, <2>6, <2>7, <2>8
<1>23. CASE ProxiedSends
  BY <1>23 DEF ProxiedSends
<1>24. CASE ProxiedCloses
  BY <1>24 DEF ProxiedCloses
<1>25. CASE UNCHANGED socketVars
  BY <1>25
<1>26. CASE \E m \in Msgs : parseMessage(m)
  BY <1>26 DEF parseMessage
<1> QED
  BY <1>1, <1>2, <1>3, <1>4, <1>5, <1>6, <1>7, <1>8, <1>9, <1>10, <1>11, <1>12, <1>13, <1>14,
     <1>15, <1>16, <1>17, <1>18, <1>19, <1>20, <1>21, <1>22, <1>23, <1>24, <1>25, <1>26
     DEF SocketsNext

(* A step keeps the type invariant. *)
LEMMA TypeOKStep ==
    ASSUME SocketsAssumption, SocketsTypeOK, StagesAgree, QueuesAgree, [SocketsNext]_socketVars
    PROVE  SocketsTypeOK'
  BY SequenceTypes, HandledTypes, CountTypes, StageTypes DEF SocketsTypeOK

-----------------------------------------------------------------------------
(* How far the stages have come, and what is empty.                       *)

(* The stages of sockets, handler and connection keep agreeing. *)
LEMMA StagesAgreeStep ==
    ASSUME SocketsTypeOK, StagesAgree, QueuesAgree, [SocketsNext]_socketVars
    PROVE  StagesAgree'
<1> USE DEF SocketsTypeOK, StagesAgree, QueuesAgree
<1>1. CASE HandlerOpens
  BY <1>1 DEF HandlerOpens
<1>2. CASE upgradeWebSocket
  BY <1>2 DEF upgradeWebSocket
<1>3. CASE onOpen
  BY <1>3 DEF onOpen, Transmit, handleMessage, writeSSE, dispatchStreamEvent, dispatchEvent,
     Hear
<1>4. CASE OpenRejects
  BY <1>4 DEF OpenRejects
<1>5. CASE OpenResolves
  BY <1>5 DEF OpenResolves, initialize, dispatchEvent, Hear
<1>6. CASE sendMessage
  BY <1>6 DEF sendMessage, Transmit, handleMessage, writeSSE, dispatchStreamEvent,
     dispatchEvent, Hear
<1>7. CASE disconnect
  <2>1. CASE path = "inline-sse"
    BY <1>7, <2>1 DEF disconnect, StreamClose, onCloseCallback
  <2>2. CASE ~Fake
    <3>1. UNCHANGED <<path, front, object, opening, conn, messages, toActor>>
          /\ toClient' = Append(toClient, close) /\ conn = "open"
      BY <1>7, <2>2 DEF disconnect
    <3> QED
      BY <3>1, <2>2
  <2>3. CASE Fake /\ ~Stream
    <3>1. /\ ready \notin {"closed", "none"} /\ ready' = "closed"
          /\ conn = "open" /\ conn' = "removed"
          /\ dispatchEvent(<<close>>)
          /\ UNCHANGED <<path, up, listening, queued, ending, toClient, toActor, opening,
                         sent, taken, emitted>>
      BY <1>7, <2>3 DEF disconnect
    <3>2. CASE listening
      BY <2>3, <3>1, <3>2 DEF dispatchEvent, Hear
    <3>3. CASE ~listening
      BY <2>3, <3>1, <3>3 DEF dispatchEvent
    <3> QED
      BY <3>1, <3>2, <3>3
  <2> QED
    BY <2>1, <2>2, <2>3
<1>8. CASE FakeCloseEnds
  BY <1>8 DEF FakeCloseEnds, dispatchEvent, Hear
<1>9. CASE addEventListener
  BY <1>9 DEF addEventListener, Hear
<1>10. CASE StreamHandedOver
  BY <1>10 DEF StreamHandedOver
<1>11. CASE SocketOpens
  BY <1>11 DEF SocketOpens
<1>12. CASE RequestFails
  BY <1>12 DEF RequestFails, Hear
<1>13. CASE AbandonedEnds
  BY <1>13 DEF AbandonedEnds
<1>14. CASE SocketReceives
  BY <1>14 DEF SocketReceives, Hear
<1>15. CASE onMessage
  BY <1>15 DEF onMessage
<1>16. CASE onClose
  BY <1>16 DEF onClose
<1>17. CASE ProxyOpens
  BY <1>17 DEF ProxyOpens, TestProxyOpens, RivetProxyOpens
<1>18. CASE ProxyForwards
  BY <1>18 DEF ProxyForwards, RivetProxyForwards, TestProxyForwards, SendTo
<1>19. CASE ProxyCloses
  <2>1. /\ UNCHANGED <<path, opening, listening, emitted, taken>>
        /\ up # <<>> /\ outer' = "closed"
    BY <1>19 DEF ProxyCloses
  <2>2. CASE RivetProxyCloses
    BY <2>1, <2>2 DEF RivetProxyCloses, ClosesTarget, CloseObject
  <2>3. CASE TestProxyCloses
    BY <2>1, <2>3 DEF TestProxyCloses, ClosesTarget, CloseObject, FakeClose, onCloseCallback
  <2> QED
    BY <1>19, <2>2, <2>3 DEF ProxyCloses
<1>20. CASE ProxiedReceives
  BY <1>20 DEF ProxiedReceives
<1>21. CASE ClientSends
  BY <1>21 DEF ClientSends, SendTo
<1>22. CASE ClientCloses
  BY <1>22 DEF ClientCloses, CloseObject, StreamClose, FakeClose, onCloseCallback
<1>23. CASE ProxiedSends
  BY <1>23 DEF ProxiedSends
<1>24. CASE ProxiedCloses
  BY <1>24 DEF ProxiedCloses
<1>25. CASE UNCHANGED socketVars
  BY <1>25
<1>26. CASE \E m \in Msgs : parseMessage(m)
  BY <1>26 DEF parseMessage
<1> QED
  BY <1>1, <1>2, <1>3, <1>4, <1>5, <1>6, <1>7, <1>8, <1>9, <1>10, <1>11, <1>12, <1>13, <1>14,
     <1>15, <1>16, <1>17, <1>18, <1>19, <1>20, <1>21, <1>22, <1>23, <1>24, <1>25, <1>26
     DEF SocketsNext

(* What a way does not have, or has flushed, stays empty. *)
LEMMA QueuesAgreeStep ==
    ASSUME SocketsTypeOK, StagesAgree, QueuesAgree, [SocketsNext]_socketVars
    PROVE  QueuesAgree'
<1> USE DEF SocketsTypeOK, StagesAgree, QueuesAgree
<1>1. CASE HandlerOpens
  BY <1>1 DEF HandlerOpens
<1>2. CASE upgradeWebSocket
  BY <1>2 DEF upgradeWebSocket
<1>3. CASE onOpen
  BY <1>3 DEF onOpen, Transmit, handleMessage, writeSSE, dispatchStreamEvent, dispatchEvent,
     Hear
<1>4. CASE OpenRejects
  BY <1>4 DEF OpenRejects
<1>5. CASE OpenResolves
  BY <1>5 DEF OpenResolves, initialize, dispatchEvent, Hear
<1>6. CASE sendMessage
  BY <1>6 DEF sendMessage, Transmit, handleMessage, writeSSE, dispatchStreamEvent,
     dispatchEvent, Hear
<1>7. CASE disconnect
  <2>1. CASE path = "inline-sse"
    BY <1>7, <2>1 DEF disconnect, StreamClose, onCloseCallback
  <2>2. CASE ~Fake
    <3>1. UNCHANGED <<path, front, object, opening, conn, messages, toActor>>
          /\ toClient' = Append(toClient, close) /\ conn = "open"
      BY <1>7, <2>2 DEF disconnect
    <3> QED
      BY <3>1, <2>2
  <2>3. CASE Fake /\ ~Stream
    <3>1. /\ ready \notin {"closed", "none"} /\ ready' = "closed"
          /\ conn = "open" /\ conn' = "removed"
          /\ dispatchEvent(<<close>>)
          /\ UNCHANGED <<path, up, listening, queued, ending, toClient, toActor, opening,
                         sent, taken, emitted>>
      BY <1>7, <2>3 DEF disconnect
    <3>2. CASE listening
      BY <2>3, <3>1, <3>2 DEF dispatchEvent, Hear
    <3>3. CASE ~listening
      BY <2>3, <3>1, <3>3 DEF dispatchEvent
    <3> QED
      BY <3>1, <3>2, <3>3
  <2> QED
    BY <2>1, <2>2, <2>3
<1>8. CASE FakeCloseEnds
  BY <1>8 DEF FakeCloseEnds, dispatchEvent, Hear
<1>9. CASE addEventListener
  BY <1>9 DEF addEventListener, Hear
<1>10. CASE StreamHandedOver
  BY <1>10 DEF StreamHandedOver
<1>11. CASE SocketOpens
  BY <1>11 DEF SocketOpens
<1>12. CASE RequestFails
  BY <1>12 DEF RequestFails, Hear
<1>13. CASE AbandonedEnds
  BY <1>13 DEF AbandonedEnds
<1>14. CASE SocketReceives
  BY <1>14 DEF SocketReceives, Hear
<1>15. CASE onMessage
  BY <1>15 DEF onMessage
<1>16. CASE onClose
  BY <1>16 DEF onClose
<1>17. CASE ProxyOpens
  BY <1>17 DEF ProxyOpens, TestProxyOpens, RivetProxyOpens
<1>18. CASE ProxyForwards
  <2>1. /\ UNCHANGED <<path, outer, down, ready, listening, buffered, queued, toClient, opening>>
        /\ UNCHANGED <<heard, sent>> /\ up # <<>>
    BY <1>18 DEF ProxyForwards
  <2>2. Fake => toActor' = toActor
    BY <1>18 DEF ProxyForwards, RivetProxyForwards, TestProxyForwards, SendTo
  <2>3. Proxied /\ outer # "connecting"
    BY <2>1
  <2> QED
    BY <2>1, <2>2, <2>3
<1>19. CASE ProxyCloses
  <2>1. /\ UNCHANGED <<path, down, listening, buffered, queued, toClient, opening>>
        /\ UNCHANGED <<heard, sent>> /\ up # <<>> /\ up' = Tail(up)
        /\ outer' = "closed"
    BY <1>19 DEF ProxyCloses
  <2>2. /\ Fake => toActor' = toActor
        /\ ready' = "open" => ready = "open"
    BY <1>19 DEF ProxyCloses, RivetProxyCloses, TestProxyCloses, ClosesTarget, CloseObject,
       StreamClose, FakeClose, onCloseCallback
  <2>3. Proxied
    BY <2>1
  <2> QED
    BY <2>1, <2>2, <2>3
<1>20. CASE ProxiedReceives
  BY <1>20 DEF ProxiedReceives
<1>21. CASE ClientSends
  BY <1>21 DEF ClientSends, SendTo
<1>22. CASE ClientCloses
  BY <1>22 DEF ClientCloses, CloseObject, StreamClose, FakeClose, onCloseCallback
<1>23. CASE ProxiedSends
  BY <1>23 DEF ProxiedSends
<1>24. CASE ProxiedCloses
  BY <1>24 DEF ProxiedCloses
<1>25. CASE UNCHANGED socketVars
  BY <1>25
<1>26. CASE \E m \in Msgs : parseMessage(m)
  BY <1>26 DEF parseMessage
<1> QED
  BY <1>1, <1>2, <1>3, <1>4, <1>5, <1>6, <1>7, <1>8, <1>9, <1>10, <1>11, <1>12, <1>13, <1>14,
     <1>15, <1>16, <1>17, <1>18, <1>19, <1>20, <1>21, <1>22, <1>23, <1>24, <1>25, <1>26
     DEF SocketsNext

-----------------------------------------------------------------------------
(* What the actor sends.                                                  *)

(* A part goes forward. *)
LEMMA CarriesOrder ==
    ASSUME NEW s, NEW x \in Nat, NEW y \in Nat, Carries(s, x, y)
    PROVE  x <= y
  BY DEF Carries

(* Hearing events that continue what has passed the socket object. *)
LEMMA HearPasses ==
    ASSUME SocketsTypeOK, QueuesAgree, NEW x \in Nat, NEW y \in Nat, NEW z \in Nat,
           NEW events \in Seq(Items), outer # "connecting", outer = "none" <=> ~Proxied,
           path' = path,
           Past(x, y), outer \in {"none", "open"} => Carries(events, y, z),
           Hear(events), y <= z
    PROVE  /\ outer' # "connecting"
           /\ \E w \in y..z : /\ Past(x, w)'
                              /\ outer' \in {"none", "open"} => w = z /\ outer \in {"none", "open"}
<1>1. PICK v \in x..y : Carries(heard, x, v) /\ Carries(down, v, y)
  BY DEF Past
<1>2. heard \in Seq(Items) /\ down \in Seq(Items)
  BY DEF SocketsTypeOK
<1>3. CASE ~Proxied
  <2>1. /\ heard' = heard \o events /\ down' = down /\ outer' = outer /\ down = <<>>
        /\ outer = "none"
    BY <1>3 DEF Hear, QueuesAgree
  <2>2. v = y
    BY <1>1, <2>1, CarriesNothing
  <2>3. Carries(heard', x, z)
    BY <1>1, <1>2, <2>1, <2>2, CarriesConcat
  <2>4. Carries(down', z, z)
    BY <2>1, CarriesNothing
  <2>5. Past(x, z)'
    BY <2>3, <2>4 DEF Past
  <2> QED
    BY <2>1, <2>5
<1>4. CASE Proxied /\ outer = "open"
  <2>1. heard' = heard /\ down' = down \o events /\ outer' \in {"open", "closing"}
    BY <1>4 DEF Hear
  <2>2. Carries(down', v, z)
    BY <1>1, <1>2, <1>4, <2>1, CarriesConcat
  <2>3. Past(x, z)'
    BY <1>1, <2>1, <2>2 DEF Past
  <2> QED
    BY <1>4, <2>1, <2>3
<1>5. CASE Proxied /\ outer # "open"
  <2>1. heard' = heard /\ down' = down /\ outer' = outer
    BY <1>5 DEF Hear
  <2>2. Past(x, y)'
    BY <1>1, <2>1 DEF Past
  <2> QED
    BY <1>5, <2>1, <2>2
<1> QED
  BY <1>3, <1>4, <1>5

(* The same of dispatching events, behind those that are kept. *)
LEMMA DispatchPasses ==
    ASSUME SocketsTypeOK, QueuesAgree, NEW x \in Nat, NEW y \in Nat, NEW u \in Nat, NEW z \in Nat,
           NEW events \in Seq(Items), outer # "connecting", outer = "none" <=> ~Proxied,
           path' = path,
           Past(x, y), y <= z,
           outer \in {"none", "open"} => Carries(buffered, y, u) /\ Carries(events, u, z),
           dispatchEvent(events)
    PROVE  /\ outer' # "connecting"
           /\ \E w \in y..z : /\ Past(x, w)'
                              /\ outer' \in {"none", "open"} =>
                                   Carries(buffered', w, z) /\ outer \in {"none", "open"}
<1>1. CASE listening
  <2>1. buffered = <<>> /\ buffered' = <<>> /\ Hear(events)
    BY <1>1 DEF dispatchEvent, QueuesAgree
  <2>2. outer \in {"none", "open"} => Carries(events, y, z)
    BY <2>1, CarriesNothing
  <2>3. PICK w \in y..z : /\ Past(x, w)'
                          /\ outer' \in {"none", "open"} => w = z /\ outer \in {"none", "open"}
    BY <2>1, <2>2, HearPasses
  <2>4. outer' # "connecting"
    BY <2>1, <2>2, HearPasses
  <2>5. Carries(buffered', z, z)
    BY <2>1, CarriesNothing
  <2> QED
    BY <2>3, <2>4, <2>5
<1>2. CASE ~listening
  <2>1. buffered' = buffered \o events /\ UNCHANGED <<heard, outer, down>>
    BY <1>2 DEF dispatchEvent
  <2>2. outer \in {"none", "open"} => Carries(buffered', y, z)
    BY <2>1, CarriesConcat DEF SocketsTypeOK
  <2>3. Past(x, y)'
    BY <2>1 DEF Past
  <2> QED
    BY <2>1, <2>2, <2>3
<1> QED
  BY <1>1, <1>2

(* Nothing lies behind what has passed if every queue is empty. *)
LEMMA NothingBehind ==
    ASSUME emitted \in Nat, buffered = <<>>, queued = <<>>, toClient = <<>>,
           NEW y \in Nat, Behind(y)
    PROVE  y = emitted
<1>1. PICK m \in y..emitted, n \in y..emitted :
          Carries(buffered, y, m) /\ Carries(queued, m, n) /\ Carries(toClient, n, emitted)
  BY DEF Behind
<1>2. m \in Nat /\ n \in Nat
  OBVIOUS
<1>3. y = m /\ m = n /\ n = emitted
  BY <1>1, <1>2, CarriesNothing
<1> QED
  BY <1>3

(* A step that moves nothing the actor has sent. *)
LEMMA EmittedKept ==
    ASSUME EmittedInOrder, UNCHANGED <<path, heard, down, buffered, queued, toClient, emitted>>,
           Flows' => Flows
    PROVE  EmittedInOrder'
  BY DEF EmittedInOrder, Past, Behind

(* The actor sends its next message, along each way. *)
LEMMA TransmitInOrder ==
    ASSUME SocketsTypeOK, StagesAgree, QueuesAgree, EmittedInOrder, emitted + 1 \in Items,
           ready # "none", path' = path, ready' = ready, emitted' = emitted + 1,
           Transmit(emitted + 1)
    PROVE  EmittedInOrder'
<1>0. PICK next \in Nat : next = emitted + 1
  BY DEF SocketsTypeOK
<1>1. PICK x \in 0..emitted, y \in 0..emitted :
          Past(x, y) /\ (Flows => Behind(y)) /\ (path # "inline-sse" => x = 0)
  BY DEF EmittedInOrder
<1>2. /\ emitted \in Nat /\ next \in Nat /\ x \in Nat /\ y \in Nat
      /\ <<next>> \in Seq(Items) /\ next \in Items /\ emitted' = next /\ emitted <= next
      /\ y <= next
      /\ heard \in Seq(Items) /\ down \in Seq(Items) /\ buffered \in Seq(Items)
      /\ queued \in Seq(Items) /\ toClient \in Seq(Items)
  BY <1>0, <1>1, SeqFacts DEF SocketsTypeOK
<1>3. Carries(<<next>>, emitted, next)
  BY <1>0, <1>2, CarriesOne
<1>4. outer # "connecting" /\ (outer = "none" <=> ~Proxied)
  BY DEF StagesAgree
<1>5. Transmit(next)
  BY <1>0
<1>6. CASE path = "inline-sse"
  <2>1. /\ buffered = <<>> /\ queued = <<>> /\ toClient = <<>> /\ outer = "none" /\ down = <<>>
        /\ buffered' = <<>> /\ queued' = <<>> /\ toClient' = <<>>
    BY <1>4, <1>5, <1>6 DEF QueuesAgree, Transmit, writeSSE, dispatchStreamEvent
  <2>2. y = emitted
    BY <1>1, <1>2, <1>6, <2>1, NothingBehind DEF Flows
  <2>3. ASSUME NEW w \in Nat, w = next PROVE Behind(w)'
    BY <1>2, <2>1, <2>3, CarriesNothing DEF Behind
  <2>4. CASE listening
    <3>1. Hear(<<next>>)
      BY <1>5, <1>6, <2>4 DEF Transmit, writeSSE, dispatchStreamEvent
    <3>2. outer' = "none"
      BY <1>6, <2>1, <3>1 DEF Hear
    <3>3. PICK w \in y..next : Past(x, w)' /\ (outer' \in {"none", "open"} => w = next)
      <4>1. Carries(<<next>>, y, next) /\ y <= next
        BY <1>2, <1>3, <2>2
      <4>2. \E w \in y..next :
               /\ Past(x, w)'
               /\ outer' \in {"none", "open"} => w = next /\ outer \in {"none", "open"}
        <5>1. x \in Nat /\ y \in Nat /\ Past(x, y) /\ <<next>> \in Seq(Items)
          BY <1>1, <1>2
        <5>2. PICK ev \in Seq(Items) : ev = <<next>>
          BY <5>1
        <5>3. Hear(ev) /\ Carries(ev, y, next)
          BY <3>1, <4>1, <5>2
        <5> QED
          BY <1>4, <4>1, <5>1, <5>3, HearPasses
      <4> QED
        BY <4>2
    <3> QED
      BY <1>2, <1>6, <2>3, <3>2, <3>3 DEF EmittedInOrder
  <2>5. CASE ~listening
    <3>1. heard' = <<>> /\ down' = <<>>
      BY <1>5, <1>6, <2>1, <2>5 DEF Transmit, writeSSE, dispatchStreamEvent, QueuesAgree
    <3>2. Carries(heard', next, next) /\ Carries(down', next, next)
      BY <1>2, <3>1, CarriesNothing
    <3>3. next \in next..next /\ next \in 0..next
      BY <1>2
    <3>4. Past(next, next)'
      BY <3>2, <3>3 DEF Past
    <3>5. Behind(next)'
      BY <1>2, <2>3
    <3> QED
      BY <1>2, <1>6, <3>3, <3>4, <3>5 DEF EmittedInOrder
  <2> QED
    BY <2>4, <2>5
<1>7. CASE Fake /\ path # "inline-sse" /\ ready = "open"
  <2>1. /\ dispatchEvent(<<next>>) /\ queued = <<>> /\ toClient = <<>>
        /\ queued' = <<>> /\ toClient' = <<>>
    BY <1>5, <1>7 DEF QueuesAgree, Transmit, handleMessage
  <2>2. outer \in {"none", "open"} => Carries(buffered, y, emitted)
    <3>1. SUFFICES ASSUME outer \in {"none", "open"} PROVE Carries(buffered, y, emitted)
      OBVIOUS
    <3>2. Behind(y)
      BY <1>1, <1>7, <3>1 DEF Flows
    <3>3. PICK m \in y..emitted, n \in y..emitted :
             Carries(buffered, y, m) /\ Carries(queued, m, n) /\ Carries(toClient, n, emitted)
      BY <3>2 DEF Behind
    <3>4. m = n /\ n = emitted
      BY <1>2, <2>1, <3>3, CarriesNothing
    <3> QED
      BY <3>3, <3>4
  <2>3. PICK w \in y..next : /\ Past(x, w)'
                             /\ outer' \in {"none", "open"} => Carries(buffered', w, next)
    BY <1>1, <1>2, <1>3, <1>4, <2>1, <2>2, DispatchPasses
  <2>4. outer' # "connecting"
    BY <1>1, <1>2, <1>3, <1>4, <2>1, <2>2, DispatchPasses
  <2>5. Flows' => Behind(w)'
    <3>1. SUFFICES ASSUME Flows' PROVE Behind(w)'
      OBVIOUS
    <3>2. Carries(buffered', w, next)
      BY <2>3, <2>4, <3>1 DEF Flows
    <3>3. Carries(queued', next, next) /\ Carries(toClient', next, next)
      BY <1>2, <2>1, CarriesNothing
    <3> QED
      BY <1>2, <2>3, <3>2, <3>3 DEF Behind
  <2> QED
    BY <1>1, <1>2, <2>3, <2>5 DEF EmittedInOrder
<1>8. CASE ~Fake \/ (path # "inline-sse" /\ ready # "open")
  <2>1. UNCHANGED <<buffered, heard, outer, down>>
    BY <1>5, <1>8 DEF Transmit, handleMessage
  <2>2. Past(x, y)'
    BY <1>1, <2>1 DEF Past
  <2>3. Flows' => Behind(y)'
    <3>1. SUFFICES ASSUME Flows' PROVE Behind(y)'
      OBVIOUS
    <3>2. Behind(y)
      BY <1>1, <2>1, <3>1 DEF Flows
    <3>3. PICK m \in y..emitted, n \in y..emitted :
             Carries(buffered, y, m) /\ Carries(queued, m, n) /\ Carries(toClient, n, emitted)
      BY <3>2 DEF Behind
    <3>4. CASE Fake
      <4>1. queued' = Append(queued, next) /\ toClient' = toClient /\ toClient = <<>>
        BY <1>5, <1>8, <3>4 DEF Transmit, handleMessage, QueuesAgree
      <4>2. n = emitted
        BY <1>2, <3>3, <4>1, CarriesNothing
      <4>3. Carries(queued', m, next)
        <5>1. m \in Nat /\ Carries(queued, m, emitted)
          BY <1>2, <3>3, <4>2
        <5> QED
          BY <1>2, <1>3, <4>1, <5>1, CarriesAppend
      <4>4. Carries(toClient', next, next)
        BY <1>2, <4>1, CarriesNothing
      <4> QED
        BY <1>2, <2>1, <3>3, <4>3, <4>4 DEF Behind
    <3>5. CASE ~Fake
      <4>1. queued' = queued /\ toClient' = Append(toClient, next)
        BY <1>5, <3>5 DEF Transmit
      <4>2. n \in Nat /\ Carries(toClient, n, emitted)
        BY <1>2, <3>3
      <4>3. Carries(toClient', n, next)
        BY <1>2, <1>3, <4>1, <4>2, CarriesAppend
      <4> QED
        BY <1>2, <2>1, <3>3, <4>1, <4>3 DEF Behind
    <3> QED
      BY <3>4, <3>5
  <2> QED
    BY <1>1, <1>2, <2>2, <2>3 DEF EmittedInOrder
<1> QED
  BY <1>6, <1>7, <1>8

(* A close event of the socket object is dispatched. *)
LEMMA CloseDispatched ==
    ASSUME SocketsTypeOK, StagesAgree, QueuesAgree, EmittedInOrder, close \in Items, Fake,
           ready # "none", dispatchEvent(<<close>>), UNCHANGED <<path, queued, toClient, emitted>>
    PROVE  EmittedInOrder'
<1>1. PICK x \in 0..emitted, y \in 0..emitted :
          Past(x, y) /\ (Flows => Behind(y)) /\ (path # "inline-sse" => x = 0)
  BY DEF EmittedInOrder
<1>2. emitted \in Nat /\ x \in Nat /\ y \in Nat /\ <<close>> \in Seq(Items)
  BY <1>1, SeqFacts DEF SocketsTypeOK
<1>3. outer # "connecting" /\ (outer = "none" <=> ~Proxied)
  BY DEF StagesAgree
<1>4. PICK m \in y..emitted : outer \in {"none", "open"} =>
          /\ Carries(buffered, y, m)
          /\ \E n \in m..emitted : Carries(queued, m, n) /\ Carries(toClient, n, emitted)
  <2>1. CASE outer \in {"none", "open"}
    <3>1. PICK m \in y..emitted, n \in y..emitted :
             Carries(buffered, y, m) /\ Carries(queued, m, n) /\ Carries(toClient, n, emitted)
      BY <1>1, <2>1 DEF Flows, Behind
    <3>2. m <= n
      BY <1>2, <3>1, CarriesOrder
    <3>3. n \in m..emitted
      BY <1>2, <3>2
    <3> QED
      BY <3>1, <3>3
  <2>2. CASE outer \notin {"none", "open"}
    BY <1>2, <2>2
  <2> QED
    BY <2>1, <2>2
<1>5. m \in Nat /\ y <= m /\ Carries(<<close>>, m, m)
  <2>1. m \in y..emitted
    BY <1>4
  <2>2. m \in Nat /\ y <= m
    BY <1>2, <2>1
  <2> QED
    BY <2>2, CarriesOne
<1>6. /\ outer' # "connecting"
      /\ \E w \in y..m : /\ Past(x, w)'
                         /\ outer' \in {"none", "open"} =>
                              Carries(buffered', w, m) /\ outer \in {"none", "open"}
  BY <1>1, <1>2, <1>3, <1>4, <1>5, DispatchPasses
<1>7. PICK w \in y..m : /\ Past(x, w)'
                        /\ outer' \in {"none", "open"} =>
                             Carries(buffered', w, m) /\ outer \in {"none", "open"}
  BY <1>6
<1>8. Flows' => Behind(w)'
  <2>1. SUFFICES ASSUME Flows' PROVE Behind(w)'
    OBVIOUS
  <2>2. Carries(buffered', w, m) /\ outer \in {"none", "open"}
    BY <1>6, <1>7, <2>1 DEF Flows
  <2>3. PICK n \in m..emitted : Carries(queued, m, n) /\ Carries(toClient, n, emitted)
    BY <1>4, <2>2
  <2>4. m \in w..emitted /\ n \in w..emitted
    BY <1>2, <1>7, <2>3
  <2> QED
    BY <2>2, <2>3, <2>4 DEF Behind
<1>9. w \in 0..emitted
  BY <1>2, <1>7
<1> QED
  BY <1>1, <1>7, <1>8, <1>9 DEF EmittedInOrder

(* The steps that move what the actor has sent, one lemma for each.           *)

(* A FakeWebSocket opens, and dispatches what it has queued. *)
LEMMA InitializeInOrder ==
    ASSUME SocketsTypeOK, StagesAgree, QueuesAgree, EmittedInOrder, Fake, ready # "none",
           initialize, UNCHANGED <<path, toClient, emitted>>
    PROVE  EmittedInOrder'
<1>1. PICK x \in 0..emitted, y \in 0..emitted :
          Past(x, y) /\ (Flows => Behind(y)) /\ (path # "inline-sse" => x = 0)
  BY DEF EmittedInOrder
<1>2. /\ emitted \in Nat /\ x \in Nat /\ y \in Nat /\ y <= emitted /\ queued \in Seq(Items)
      /\ toClient = <<>> /\ toClient' = <<>> /\ queued' = <<>> /\ dispatchEvent(queued)
  BY <1>1 DEF SocketsTypeOK, QueuesAgree, initialize
<1>3. outer # "connecting" /\ (outer = "none" <=> ~Proxied)
  BY DEF StagesAgree
<1>4. PICK z \in Nat : z = emitted
  BY <1>2
<1>5. PICK events \in Seq(Items) : events = queued
  BY <1>2
<1>6. PICK m \in y..z : outer \in {"none", "open"} => Carries(buffered, y, m) /\ Carries(events, m, z)
  <2>1. CASE outer \in {"none", "open"}
    <3>1. PICK m \in y..emitted, n \in y..emitted :
             Carries(buffered, y, m) /\ Carries(queued, m, n) /\ Carries(toClient, n, emitted)
      BY <1>1, <2>1 DEF Flows, Behind
    <3>2. n = emitted
      BY <1>2, <3>1, CarriesNothing
    <3> QED
      BY <1>4, <1>5, <3>1, <3>2
  <2>2. CASE outer \notin {"none", "open"}
    BY <1>2, <1>4, <2>2
  <2> QED
    BY <2>1, <2>2
<1>7. m \in Nat /\ y <= z
  <2>1. m \in y..z
    BY <1>6
  <2> QED
    BY <1>2, <2>1
<1>8. /\ outer' # "connecting"
      /\ \E w \in y..z : /\ Past(x, w)'
                         /\ outer' \in {"none", "open"} =>
                              Carries(buffered', w, z) /\ outer \in {"none", "open"}
  <2>1. dispatchEvent(events)
    BY <1>2, <1>5
  <2> QED
    BY <1>1, <1>2, <1>3, <1>6, <1>7, <2>1, DispatchPasses
<1>9. PICK w \in y..z : Past(x, w)' /\ (outer' \in {"none", "open"} => Carries(buffered', w, z))
  BY <1>8
<1>10. Flows' => Behind(w)'
  <2>1. SUFFICES ASSUME Flows' PROVE Behind(w)'
    OBVIOUS
  <2>2. Carries(buffered', w, z)
    BY <1>8, <1>9, <2>1 DEF Flows
  <2>3. Carries(queued', z, z) /\ Carries(toClient', z, z)
    BY <1>2, CarriesNothing
  <2>4. z \in w..z /\ emitted' = z
    BY <1>2, <1>4, <1>9
  <2> QED
    BY <2>2, <2>3, <2>4 DEF Behind
<1>11. w \in 0..emitted
  BY <1>2, <1>4, <1>9
<1> QED
  BY <1>1, <1>9, <1>10, <1>11 DEF EmittedInOrder

(* Listeners come, and hear what has been kept for them. *)
LEMMA ListenInOrder ==
    ASSUME SocketsTypeOK, StagesAgree, QueuesAgree, EmittedInOrder, addEventListener
    PROVE  EmittedInOrder'
<1>1. PICK x \in 0..emitted, y \in 0..emitted :
          Past(x, y) /\ (Flows => Behind(y)) /\ (path # "inline-sse" => x = 0)
  BY DEF EmittedInOrder
<1>2. /\ emitted \in Nat /\ x \in Nat /\ y \in Nat /\ y <= emitted /\ buffered \in Seq(Items)
      /\ Hear(buffered) /\ buffered' = <<>> /\ UNCHANGED <<path, ready, queued, toClient, emitted>>
      /\ Fake
  BY <1>1 DEF SocketsTypeOK, addEventListener
<1>3. outer # "connecting" /\ (outer = "none" <=> ~Proxied)
  BY DEF StagesAgree, addEventListener
<1>4. PICK events \in Seq(Items) : events = buffered
  BY <1>2
<1>5. PICK m \in y..emitted : outer \in {"none", "open"} =>
          /\ Carries(events, y, m)
          /\ \E n \in m..emitted : Carries(queued, m, n) /\ Carries(toClient, n, emitted)
  <2>1. CASE outer \in {"none", "open"}
    <3>1. PICK m \in y..emitted, n \in y..emitted :
             Carries(buffered, y, m) /\ Carries(queued, m, n) /\ Carries(toClient, n, emitted)
      BY <1>1, <1>2, <2>1 DEF Flows, Behind
    <3>2. m <= n
      BY <1>2, <3>1, CarriesOrder
    <3>3. n \in m..emitted
      BY <1>2, <3>2
    <3> QED
      BY <1>4, <3>1, <3>3
  <2>2. CASE outer \notin {"none", "open"}
    BY <1>2, <2>2
  <2> QED
    BY <2>1, <2>2
<1>6. m \in y..emitted /\ m \in Nat /\ y <= m
  <2>1. m \in y..emitted
    BY <1>5
  <2> QED
    BY <1>2, <2>1
<1>7. /\ outer' # "connecting"
      /\ \E w \in y..m : /\ Past(x, w)'
                         /\ outer' \in {"none", "open"} => w = m /\ outer \in {"none", "open"}
  <2>1. Hear(events)
    BY <1>2, <1>4
  <2> QED
    BY <1>1, <1>2, <1>3, <1>5, <1>6, <2>1, HearPasses
<1>8. PICK w \in y..m : /\ Past(x, w)'
                        /\ outer' \in {"none", "open"} => w = m /\ outer \in {"none", "open"}
  BY <1>7
<1>9. Flows' => Behind(w)'
  <2>1. SUFFICES ASSUME Flows' PROVE Behind(w)'
    OBVIOUS
  <2>2. w = m /\ outer \in {"none", "open"}
    BY <1>7, <1>8, <2>1 DEF Flows
  <2>3. PICK n \in m..emitted : Carries(queued, m, n) /\ Carries(toClient, n, emitted)
    BY <1>5, <2>2
  <2>4. Carries(buffered', m, m)
    BY <1>2, <1>6, CarriesNothing
  <2>5. m \in m..emitted /\ n \in m..emitted
    BY <1>6, <2>3
  <2>6. Carries(queued', m, n) /\ Carries(toClient', n, emitted')
    BY <1>2, <2>3
  <2> QED
    BY <1>2, <2>2, <2>4, <2>5, <2>6 DEF Behind
<1>10. w \in 0..emitted
  BY <1>2, <1>6, <1>8
<1> QED
  BY <1>1, <1>2, <1>8, <1>9, <1>10 DEF EmittedInOrder

(* An event arrives over the network. *)
LEMMA ReceivedInOrder ==
    ASSUME SocketsTypeOK, StagesAgree, QueuesAgree, EmittedInOrder, SocketReceives
    PROVE  EmittedInOrder'
<1>1. PICK x \in 0..emitted, y \in 0..emitted :
          Past(x, y) /\ (Flows => Behind(y)) /\ (path # "inline-sse" => x = 0)
  BY DEF EmittedInOrder
<1>2. /\ emitted \in Nat /\ x \in Nat /\ y \in Nat /\ y <= emitted /\ toClient \in Seq(Items)
      /\ toClient # <<>> /\ toClient' = Tail(toClient)
      /\ UNCHANGED <<path, buffered, queued, emitted>>
  BY <1>1 DEF SocketsTypeOK, SocketReceives
<1>3. /\ ~Fake /\ buffered = <<>> /\ queued = <<>>
      /\ ready \in {"open", "closed"} /\ (ready = "closed" => ready' = "closed")
  BY <1>2 DEF QueuesAgree, StagesAgree, SocketReceives, SocketsTypeOK
<1>4. CASE ready = "closed"
  <2>1. UNCHANGED <<heard, outer, down>> /\ ~Flows'
    BY <1>2, <1>3, <1>4 DEF SocketReceives, Flows
  <2>2. Past(x, y)'
    BY <1>1, <2>1 DEF Past
  <2> QED
    BY <1>1, <1>2, <2>1, <2>2 DEF EmittedInOrder
<1>5. CASE ready = "open"
  <2>1. PICK events \in Seq(Items) : events = <<Head(toClient)>>
    BY <1>2, SeqFacts
  <2>2. Hear(events) /\ outer # "connecting" /\ (outer = "none" <=> ~Proxied)
    BY <1>5, <2>1 DEF SocketReceives, StagesAgree
  <2>3. PICK m \in y..emitted : outer \in {"none", "open"} =>
            Carries(events, y, m) /\ Carries(toClient', m, emitted)
    <3>1. CASE outer \in {"none", "open"}
      <4>1. Carries(toClient, y, emitted)
        <5>1. PICK m \in y..emitted, n \in y..emitted :
                 Carries(buffered, y, m) /\ Carries(queued, m, n) /\ Carries(toClient, n, emitted)
          BY <1>1, <1>5, <3>1 DEF Flows, Behind
        <5>2. y = m /\ m = n
          BY <1>2, <1>3, <5>1, CarriesNothing
        <5> QED
          BY <5>1, <5>2
      <4>2. PICK z \in Nat : z = emitted
        BY <1>2
      <4>3. PICK s \in Seq(Items) : s = toClient
        BY <1>2
      <4>4. \E m \in y..z : Carries(<<Head(s)>>, y, m) /\ Carries(Tail(s), m, z)
        BY <1>2, <4>1, <4>2, <4>3, CarriesSplit
      <4> QED
        BY <1>2, <2>1, <4>2, <4>3, <4>4
    <3>2. CASE outer \notin {"none", "open"}
      BY <1>2, <3>2
    <3> QED
      BY <3>1, <3>2
  <2>4. m \in y..emitted /\ m \in Nat /\ y <= m
    <3>1. m \in y..emitted
      BY <2>3
    <3> QED
      BY <1>2, <3>1
  <2>5. /\ outer' # "connecting"
        /\ \E w \in y..m : /\ Past(x, w)'
                           /\ outer' \in {"none", "open"} => w = m /\ outer \in {"none", "open"}
    BY <1>1, <1>2, <2>2, <2>3, <2>4, HearPasses
  <2>6. PICK w \in y..m : /\ Past(x, w)'
                          /\ outer' \in {"none", "open"} => w = m /\ outer \in {"none", "open"}
    BY <2>5
  <2>7. Flows' => Behind(w)'
    <3>1. SUFFICES ASSUME Flows' PROVE Behind(w)'
      OBVIOUS
    <3>2. w = m /\ outer \in {"none", "open"}
      BY <2>5, <2>6, <3>1 DEF Flows
    <3>3. Carries(toClient', m, emitted')
      BY <1>2, <2>3, <3>2
    <3>4. Carries(buffered', m, m) /\ Carries(queued', m, m) /\ m \in m..emitted'
      BY <1>2, <1>3, <2>4, CarriesNothing
    <3> QED
      BY <3>2, <3>3, <3>4 DEF Behind
  <2>8. w \in 0..emitted
    BY <1>2, <2>4, <2>6
  <2> QED
    BY <1>1, <1>2, <2>6, <2>7, <2>8 DEF EmittedInOrder
<1> QED
  BY <1>3, <1>4, <1>5

(* The server closes its end of the socket. *)
LEMMA EndedInOrder ==
    ASSUME SocketsTypeOK, EmittedInOrder, close \in Items, toClient' = Append(toClient, close),
           UNCHANGED <<path, heard, down, buffered, queued, emitted>>, Flows' => Flows
    PROVE  EmittedInOrder'
<1>1. PICK x \in 0..emitted, y \in 0..emitted :
          Past(x, y) /\ (Flows => Behind(y)) /\ (path # "inline-sse" => x = 0)
  BY DEF EmittedInOrder
<1>2. emitted \in Nat /\ x \in Nat /\ y \in Nat /\ toClient \in Seq(Items)
  BY <1>1 DEF SocketsTypeOK
<1>3. Past(x, y)'
  BY <1>1 DEF Past
<1>4. Flows' => Behind(y)'
  <2>1. SUFFICES ASSUME Flows' PROVE Behind(y)'
    OBVIOUS
  <2>2. PICK m \in y..emitted, n \in y..emitted :
           Carries(buffered, y, m) /\ Carries(queued, m, n) /\ Carries(toClient, n, emitted)
    BY <1>1, <2>1 DEF Behind
  <2>3. PICK z \in Nat : z = emitted
    BY <1>2
  <2>4. n \in Nat
    BY <1>2
  <2>5. Carries(<<close>>, z, z) /\ Carries(toClient, n, z)
    BY <2>2, <2>3, CarriesOne
  <2>6. Carries(toClient', n, z)
    BY <1>2, <2>4, <2>5, CarriesAppend
  <2> QED
    BY <2>2, <2>3, <2>6 DEF Behind
<1> QED
  BY <1>1, <1>3, <1>4 DEF EmittedInOrder

(* A proxy's client receives what the proxy has passed on. *)
LEMMA ProxiedInOrder ==
    ASSUME SocketsTypeOK, StagesAgree, EmittedInOrder, ProxiedReceives
    PROVE  EmittedInOrder'
<1>1. PICK x \in 0..emitted, y \in 0..emitted :
          Past(x, y) /\ (Flows => Behind(y)) /\ (path # "inline-sse" => x = 0)
  BY DEF EmittedInOrder
<1>2. /\ x \in Nat /\ y \in Nat /\ down \in Seq(Items) /\ heard \in Seq(Items) /\ down # <<>>
      /\ down' = Tail(down) /\ heard' = Append(heard, Head(down))
      /\ UNCHANGED <<path, ready, buffered, queued, toClient, emitted>>
      /\ outer' = "closed" \/ outer' = outer
  BY <1>1 DEF SocketsTypeOK, ProxiedReceives
<1>3. PICK v \in x..y : Carries(heard, x, v) /\ Carries(down, v, y)
  BY <1>1 DEF Past
<1>4. PICK s \in Seq(Items) : s = down
  BY <1>2
<1>5. PICK u \in v..y : Carries(<<Head(s)>>, v, u) /\ Carries(Tail(s), u, y)
  BY <1>2, <1>3, <1>4, CarriesSplit
<1>6. /\ v \in Nat /\ u \in Nat /\ u \in x..y /\ Head(s) \in Items
  <2>1. v \in Nat /\ u \in Nat /\ u \in x..y
    BY <1>2, <1>3, <1>5
  <2> QED
    BY <1>2, <1>4, <2>1, SeqFacts
<1>7. PICK t \in Seq(Items) : t = heard
  BY <1>2
<1>8. Carries(Append(t, Head(s)), x, u)
  BY <1>2, <1>3, <1>5, <1>6, <1>7, CarriesAppend
<1>9. Carries(heard', x, u) /\ Carries(down', u, y)
  BY <1>2, <1>4, <1>5, <1>7, <1>8
<1>10. Past(x, y)'
  BY <1>6, <1>9 DEF Past
<1>11. Flows' => Flows
  BY <1>2 DEF Flows
<1>12. Flows' => Behind(y)'
  BY <1>1, <1>2, <1>11 DEF Behind
<1> QED
  BY <1>1, <1>2, <1>10, <1>12 DEF EmittedInOrder

(* A request is refused: the socket, or the proxy's, closes without an open. *)
LEMMA RefusedInOrder ==
    ASSUME SocketsTypeOK, StagesAgree, QueuesAgree, EmittedInOrder, close \in Items,
           RequestFails
    PROVE  EmittedInOrder'
<1>1. PICK x \in 0..emitted, y \in 0..emitted :
          Past(x, y) /\ (Flows => Behind(y)) /\ (path # "inline-sse" => x = 0)
  BY DEF EmittedInOrder
<1>2. /\ emitted \in Nat /\ x \in Nat /\ y \in Nat
      /\ UNCHANGED <<path, emitted>> /\ ~Flows'
      /\ outer # "connecting" /\ (outer = "none" <=> ~Proxied)
  BY <1>1 DEF RequestFails, StagesAgree, Flows, SocketsTypeOK
<1>3. PICK events \in Seq(Items) : events = <<close>>
  BY SeqFacts
<1>a. y \in Nat
  BY <1>2
<1>b. Carries(<<close>>, y, y)
  BY <1>a, CarriesOne
<1>4. Carries(events, y, y) /\ y <= y
  BY <1>3, <1>a, <1>b
<1>5. CASE listening
  <2>1. Hear(events)
    BY <1>3, <1>5 DEF RequestFails
  <2>2. PICK w \in y..y : Past(x, w)'
    BY <1>1, <1>2, <1>4, <2>1, HearPasses
  <2>3. w \in 0..emitted
    BY <1>1, <1>2, <2>2
  <2> QED
    BY <1>1, <1>2, <2>2, <2>3 DEF EmittedInOrder
<1>6. CASE ~listening
  <2>1. Past(x, y)'
    BY <1>1, <1>6 DEF RequestFails, Past
  <2> QED
    BY <1>1, <1>2, <2>1 DEF EmittedInOrder
<1> QED
  BY <1>5, <1>6

(* What the actor has sent stays in order. *)
LEMMA EmittedStep ==
    ASSUME SocketsAssumption, SocketsTypeOK, StagesAgree, QueuesAgree, EmittedInOrder,
           [SocketsNext]_socketVars
    PROVE  EmittedInOrder'
<1>1. CASE onOpen
  <2>1. /\ emitted = 0 /\ emitted' = 1 /\ Transmit(1) /\ ready # "none"
        /\ UNCHANGED <<path, ready>>
    BY <1>1 DEF onOpen, StagesAgree
  <2>2. emitted + 1 = 1
    BY <2>1
  <2> QED
    BY <2>1, <2>2, ItemFacts, TransmitInOrder
<1>2. CASE sendMessage
  <2>1. /\ emitted + 1 \in Items /\ emitted' = emitted + 1 /\ Transmit(emitted + 1)
        /\ ready # "none"
        /\ UNCHANGED <<path, ready>>
    BY <1>2, ItemFacts DEF sendMessage, StagesAgree
  <2> QED
    BY <2>1, TransmitInOrder
<1>3. CASE OpenResolves
  <2>1. CASE Fake /\ ~Stream
    <3>1. initialize /\ ready # "none" /\ UNCHANGED <<path, toClient, emitted>>
      BY <1>3, <2>1 DEF OpenResolves, StagesAgree
    <3> QED
      BY <2>1, <3>1, InitializeInOrder
  <2>2. CASE ~(Fake /\ ~Stream)
    <3>1. UNCHANGED <<path, heard, down, buffered, queued, toClient, emitted>> /\ (Flows' => Flows)
      BY <1>3, <2>2 DEF OpenResolves, Flows
    <3> QED
      BY <3>1, EmittedKept
  <2> QED
    BY <2>1, <2>2
<1>4. CASE OpenRejects
  <2>1. UNCHANGED <<path, heard, down, buffered, queued, emitted>> /\ (Flows' => Flows)
    BY <1>4 DEF OpenRejects, Flows
  <2>2. CASE toClient' = toClient
    BY <2>1, <2>2, EmittedKept
  <2>3. CASE toClient' = Append(toClient, close)
    BY <2>1, <2>3, ItemFacts, EndedInOrder
  <2> QED
    BY <1>4, <2>2, <2>3 DEF OpenRejects
<1>5. CASE disconnect
  <2>1. ready # "none" /\ UNCHANGED <<path, emitted>>
    BY <1>5 DEF disconnect, StagesAgree
  <2>2. CASE ~Fake
    <3>1. /\ UNCHANGED <<path, heard, down, buffered, queued, emitted>> /\ (Flows' => Flows)
          /\ toClient' = Append(toClient, close)
      BY <1>5, <2>2 DEF disconnect, Flows
    <3> QED
      BY <3>1, ItemFacts, EndedInOrder
  <2>3. CASE path = "inline-sse"
    <3>1. /\ UNCHANGED <<path, heard, down, buffered, queued, toClient, emitted>>
          /\ Flows' => Flows
      BY <1>5, <2>3 DEF disconnect, Flows
    <3> QED
      BY <3>1, EmittedKept
  <2>4. CASE Fake /\ ~Stream
    <3>1. dispatchEvent(<<close>>) /\ UNCHANGED <<queued, toClient>>
      BY <1>5, <2>4 DEF disconnect
    <3> QED
      BY <2>1, <2>4, <3>1, ItemFacts, CloseDispatched
  <2> QED
    BY <2>2, <2>3, <2>4
<1>6. CASE FakeCloseEnds
  <2>1. /\ Fake /\ ready # "none" /\ dispatchEvent(<<close>>)
        /\ UNCHANGED <<path, queued, toClient, emitted>>
    BY <1>6 DEF FakeCloseEnds, StagesAgree
  <2> QED
    BY <2>1, ItemFacts, CloseDispatched
<1>7. CASE addEventListener
  BY <1>7, ListenInOrder
<1>8. CASE SocketReceives
  BY <1>8, ReceivedInOrder
<1>9. CASE ProxiedReceives
  BY <1>9, ProxiedInOrder
<1>12. CASE RequestFails
  BY <1>12, ItemFacts, RefusedInOrder
<1>10. CASE \/ HandlerOpens \/ upgradeWebSocket \/ StreamHandedOver \/ SocketOpens
            \/ AbandonedEnds \/ onMessage \/ (\E m \in Msgs : parseMessage(m)) \/ onClose
            \/ ProxyOpens
            \/ ClientSends \/ ProxiedSends \/ ProxiedCloses \/ UNCHANGED socketVars
  <2>1. UNCHANGED <<path, heard, down, buffered, queued, toClient, emitted>>
    BY <1>10 DEF HandlerOpens, upgradeWebSocket, StreamHandedOver, SocketOpens,
       RequestFails, AbandonedEnds, parseMessage, onMessage, onClose, ProxyOpens,
       TestProxyOpens, RivetProxyOpens, ClientSends, ProxiedSends, ProxiedCloses
  <2>2. /\ ready' = "closed" <=> ready = "closed"
        /\ outer' \in {outer, "open"} /\ (outer' # outer => outer = "connecting")
    BY <1>10 DEF HandlerOpens, upgradeWebSocket, StreamHandedOver, SocketOpens,
       RequestFails, AbandonedEnds, parseMessage, onMessage, onClose, ProxyOpens,
       TestProxyOpens, RivetProxyOpens, ClientSends, ProxiedSends, ProxiedCloses, StagesAgree
  <2>3. Flows' => Flows
    BY <2>1, <2>2 DEF Flows
  <2> QED
    BY <2>1, <2>3, EmittedKept
<1>11. CASE ProxyForwards \/ ProxyCloses \/ ClientCloses
  <2>1. /\ UNCHANGED <<path, heard, down, buffered, queued, toClient, emitted>>
        /\ outer' \in {outer, "closed"} /\ (~Fake => ready' \in {ready, "closed"})
    BY <1>11 DEF ProxyForwards, ProxyCloses, ClientCloses, CloseObject, ClosesTarget,
       RivetProxyCloses, TestProxyCloses
  <2>2. Flows' => Flows
    BY <2>1 DEF Flows
  <2> QED
    BY <2>1, <2>2, EmittedKept
<1> QED
  BY <1>1, <1>2, <1>3, <1>4, <1>5, <1>6, <1>7, <1>8, <1>9, <1>10, <1>11, <1>12
     DEF SocketsNext

-----------------------------------------------------------------------------
(* What the client sends.                                                 *)

(* A step that leaves what the client has sent where it is. *)
LEMMA SentKept ==
    ASSUME SentInOrder, UNCHANGED <<path, taken, toActor, sent>>,
           opening = "rejected" => opening' = "rejected"
    PROVE  SentInOrder'
  BY DEF SentInOrder, Received

(* What it has sent is in order where the actor has received it, or is about  *)
(* to.                                                                        *)
LEMMA SentFits ==
    ASSUME sent' \in Nat, Received(sent)'
    PROVE  SentInOrder'
<1>1. PICK m \in 0..sent' : Carries(taken', 0, m)
  BY DEF Received
<1> QED
  BY <1>1 DEF SentInOrder

(* A close event follows on what the actor is still to receive. *)
LEMMA ReceivedAndClose ==
    ASSUME SocketsTypeOK, close \in Items, NEW x \in Nat, Received(x), taken' = taken,
           toActor' \in {toActor, Append(toActor, close)}
    PROVE  Received(x)'
<1>1. PICK m \in 0..x : Carries(taken, 0, m) /\ Carries(toActor, m, x)
  BY DEF Received
<1>2. CASE toActor' = toActor
  BY <1>1, <1>2 DEF Received
<1>3. CASE toActor' = Append(toActor, close)
  <2>1. PICK s \in Seq(Items) : s = toActor
    BY DEF SocketsTypeOK
  <2>2. m \in Nat
    BY <1>1
  <2>3. Carries(s, m, x) /\ Carries(<<close>>, x, x)
    BY <1>1, <2>1, CarriesOne
  <2>4. Carries(Append(s, close), m, x)
    BY <2>2, <2>3, CarriesAppend
  <2> QED
    BY <1>1, <1>3, <2>1, <2>4 DEF Received
<1> QED
  BY <1>2, <1>3

(* The client without a proxy sends a message. *)
LEMMA ClientSendsInOrder ==
    ASSUME SocketsAssumption, SocketsTypeOK, StagesAgree, QueuesAgree, SentInOrder, ClientSends
    PROVE  SentInOrder'
<1>1. PICK z \in Nat, n \in Nat : z = sent /\ n = z + 1
  BY DEF SocketsTypeOK
<1>2. /\ sent' = n /\ n \in Items /\ SendTo(n) /\ ~Proxied
      /\ UNCHANGED <<path, opening, ready>>
  BY <1>1, ItemFacts DEF ClientSends
<1>3. Carries(<<n>>, z, n)
  BY <1>1, CarriesOne
<1>5. CASE opening = "rejected"
  <2>1. taken' = taken
    BY <1>2, <1>5 DEF SendTo, StagesAgree, ClientSends
  <2>2. PICK m \in 0..z : Carries(taken, 0, m)
    BY <1>1, <1>2 DEF SentInOrder
  <2>3. m \in 0..n
    BY <1>1
  <2> QED
    BY <1>2, <1>5, <2>1, <2>2, <2>3 DEF SentInOrder
<1>6. CASE opening # "rejected"
  <2>3. PICK m \in 0..z : Carries(taken, 0, m) /\ Carries(toActor, m, z)
    BY <1>1, <1>2, <1>6 DEF SentInOrder, Received
  <2>4. PICK s \in Seq(Items), t \in Seq(Items) : s = taken /\ t = toActor
    BY DEF SocketsTypeOK
  <2>5. m \in Nat
    BY <2>3
  <2>6. Received(n)'
    <3>1. CASE Fake
      <4>1. taken' = Append(taken, n) /\ toActor' = <<>> /\ toActor = <<>>
        BY <1>2, <3>1 DEF SendTo, QueuesAgree
      <4>2. m = z
        BY <1>1, <2>3, <2>5, <4>1, CarriesNothing
      <4>3. Carries(Append(s, n), 0, n)
        BY <1>2, <1>3, <2>3, <2>4, <2>5, <4>2, CarriesAppend
      <4>5. Carries(taken', 0, n) /\ Carries(toActor', n, n) /\ n \in 0..n
        BY <2>4, <4>1, <4>3, CarriesNothing
      <4> QED
        BY <4>5 DEF Received
    <3>2. CASE ~Fake
      <4>1. taken' = taken /\ toActor' = Append(toActor, n)
        BY <1>2, <3>2 DEF SendTo
      <4>2. Carries(Append(t, n), m, n)
        BY <1>2, <1>3, <2>3, <2>4, <2>5, CarriesAppend
      <4>3. m \in 0..n
        BY <1>1, <2>3
      <4> QED
        BY <2>3, <2>4, <4>1, <4>2, <4>3 DEF Received
    <3> QED
      BY <3>1, <3>2
  <2> QED
    BY <1>2, <2>6, SentFits
<1> QED
  BY <1>5, <1>6

(* The actor's handler takes a message, or drops it after a failed open; the  *)
(* close takes its turn like a message.                                       *)
LEMMA HandledInOrder ==
    ASSUME SocketsTypeOK, SentInOrder, onMessage \/ onClose
    PROVE  SentInOrder'
<1>1. /\ toActor # <<>> /\ toActor' = Tail(toActor)
      /\ UNCHANGED <<path, sent, opening>>
      /\ opening = "rejected" => taken' = taken
      /\ sent \in Nat
  BY DEF onMessage, onClose, SocketsTypeOK
<1>2. CASE Proxied
  BY <1>1, <1>2 DEF SentInOrder
<1>3. CASE opening = "rejected" /\ ~Proxied
  BY <1>1, <1>3 DEF SentInOrder
<1>4. CASE opening # "rejected" /\ ~Proxied
  <2>1. PICK b \in Nat : b = sent
    BY <1>1
  <2>2. PICK m \in 0..b : Carries(taken, 0, m) /\ Carries(toActor, m, b)
    BY <1>4, <2>1 DEF SentInOrder, Received
  <2>3. PICK s \in Seq(Items), t \in Seq(Items) : s = taken /\ t = toActor
    BY DEF SocketsTypeOK
  <2>4. m \in Nat
    BY <2>2
  <2>5. PICK n \in m..b : Carries(<<Head(t)>>, m, n) /\ Carries(Tail(t), n, b)
    BY <1>1, <2>2, <2>3, <2>4, CarriesSplit
  <2>6. n \in Nat /\ n \in 0..b /\ Head(t) \in Items
    <3>1. n \in Nat /\ n \in 0..b
      BY <2>2, <2>4, <2>5
    <3> QED
      BY <1>1, <2>3, <3>1, SeqFacts
  <2>7. Carries(taken', 0, n)
    <3>1. CASE onMessage
      <4>1. taken' = Append(s, Head(t))
        BY <1>4, <2>3, <3>1 DEF onMessage
      <4>2. Carries(Append(s, Head(t)), 0, n)
        BY <2>2, <2>3, <2>4, <2>5, <2>6, CarriesAppend
      <4> QED
        BY <4>1, <4>2
    <3>2. CASE onClose
      <4>1. taken' = taken /\ Head(t) = close
        BY <2>3, <3>2 DEF onClose
      <4>2. m = n
        BY <2>4, <2>5, <2>6, <4>1, CarriesOne
      <4> QED
        BY <2>2, <4>1, <4>2
    <3> QED
      BY <3>1, <3>2
  <2>8. Received(b)'
    BY <1>1, <2>3, <2>5, <2>6, <2>7 DEF Received
  <2> QED
    BY <1>1, <2>1, <2>8, SentFits
<1> QED
  BY <1>2, <1>3, <1>4

(* What the client has sent stays in order. *)
LEMMA SentStep ==
    ASSUME SocketsAssumption, SocketsTypeOK, StagesAgree, QueuesAgree, SentInOrder,
           [SocketsNext]_socketVars, path' = path
    PROVE  SentInOrder'
<1>1. CASE Proxied
  BY <1>1 DEF SentInOrder
<1>2. CASE ClientSends
  BY <1>2, ClientSendsInOrder
<1>4. CASE onMessage \/ onClose
  BY <1>4, HandledInOrder
<1>8. CASE ~Proxied /\ (SocketReceives \/ ClientCloses \/ AbandonedEnds)
  <2>1. /\ UNCHANGED <<path, taken, sent, opening>>
        /\ toActor' \in {toActor, Append(toActor, close)} /\ sent \in Nat
    BY <1>8 DEF SocketReceives, ClientCloses, CloseObject, AbandonedEnds, SocketsTypeOK
  <2>2. CASE opening = "rejected"
    BY <1>8, <2>1, <2>2 DEF SentInOrder
  <2>3. CASE opening # "rejected"
    <3>1. PICK b \in Nat : b = sent /\ Received(b)
      BY <1>8, <2>1, <2>3 DEF SentInOrder
    <3>2. Received(b)'
      BY <2>1, <3>1, ItemFacts, ReceivedAndClose
    <3> QED
      BY <2>1, <3>1, <3>2, SentFits
  <2> QED
    BY <2>2, <2>3
<1>9. CASE /\ ~Proxied
           /\ \/ HandlerOpens \/ upgradeWebSocket \/ onOpen \/ OpenRejects \/ OpenResolves
              \/ sendMessage \/ disconnect \/ FakeCloseEnds \/ addEventListener
              \/ StreamHandedOver \/ SocketOpens \/ RequestFails \/ ProxyOpens
              \/ (\E m \in Msgs : parseMessage(m)) \/ ProxiedReceives
              \/ UNCHANGED socketVars
  <2>1. UNCHANGED <<path, taken, toActor, sent>>
    BY <1>9 DEF HandlerOpens, upgradeWebSocket, onOpen, OpenRejects, OpenResolves,
       sendMessage, disconnect, FakeCloseEnds, addEventListener, StreamHandedOver,
       SocketOpens, RequestFails, parseMessage, ProxyOpens, TestProxyOpens,
       RivetProxyOpens, ProxiedReceives
  <2>2. opening = "rejected" => opening' = "rejected"
    BY <1>9 DEF HandlerOpens, upgradeWebSocket, onOpen, OpenRejects, OpenResolves,
       sendMessage, disconnect, FakeCloseEnds, addEventListener, StreamHandedOver,
       SocketOpens, RequestFails, parseMessage, ProxyOpens, TestProxyOpens,
       RivetProxyOpens, ProxiedReceives
  <2> QED
    BY <2>1, <2>2, SentKept
<1>10. CASE ~Proxied /\ (ProxiedSends \/ ProxiedCloses \/ ProxyForwards \/ ProxyCloses)
  BY <1>10 DEF ProxiedSends, ProxiedCloses, ProxyForwards, ProxyCloses, StagesAgree,
     QueuesAgree
<1> QED
  BY <1>1, <1>2, <1>4, <1>8, <1>9, <1>10 DEF SocketsNext

(* Through the test proxy, which drops what comes too early or too late. *)
LEMMA TestSentStep ==
    ASSUME SocketsAssumption, SocketsTypeOK, StagesAgree, QueuesAgree, TestSentInOrder,
           [SocketsNext]_socketVars,
           path' = path
    PROVE  TestSentInOrder'
<1> SUFFICES ASSUME path = "test" PROVE TestSentInOrder'
  BY DEF TestSentInOrder
<1> DEFINE Whole == taken = <<>> \/ ready = "open"
<1>1. PICK z \in Nat : z = sent
  BY DEF SocketsTypeOK
<1>2. PICK x \in 0..z, y \in 0..z : Carries(taken, x, y) /\ (Whole => Carries(up, y, z))
  BY <1>1 DEF TestSentInOrder
<1>3. x \in Nat /\ y \in Nat
  BY <1>2
<1>4. PICK s \in Seq(Items), t \in Seq(Items) : s = taken /\ t = up
  BY DEF SocketsTypeOK
<1>5. CASE ProxiedSends \/ ProxiedCloses
  <2>1. UNCHANGED <<taken, ready>>
    BY <1>5 DEF ProxiedSends, ProxiedCloses
  <2>2. PICK n \in Nat : n = sent'
    <3>1. sent \in Nat
      BY DEF SocketsTypeOK
    <3>2. sent' = sent \/ sent' = sent + 1
      BY <1>5 DEF ProxiedSends, ProxiedCloses
    <3> QED
      BY <3>1, <3>2
  <2>6. PICK item \in Items : up' = Append(up, item) /\ Carries(<<item>>, z, n) /\ z <= n
    <3>1. CASE ProxiedSends
      <4>1. n = z + 1 /\ up' = Append(up, z + 1) /\ z + 1 \in Items
        BY <1>1, <2>2, <3>1, ItemFacts DEF ProxiedSends
      <4>2. Carries(<<z + 1>>, z, n) /\ z <= n
        BY <4>1, CarriesOne
      <4> QED
        BY <4>1, <4>2, Zenon
    <3>2. CASE ProxiedCloses
      <4>1. n = z /\ up' = Append(up, close)
        BY <1>1, <2>2, <3>2 DEF ProxiedCloses
      <4>2. close \in Items /\ Carries(<<close>>, z, n)
        BY <4>1, ItemFacts, CarriesOne
      <4> QED
        BY <4>1, <4>2
    <3> QED
      BY <1>5, <3>1, <3>2
  <2>3. x \in 0..n /\ y \in 0..n
    BY <1>2, <2>6
  <2>4. Whole => Carries(Append(t, item), y, n)
    BY <1>2, <1>3, <1>4, <2>6, <2>2, CarriesAppend
  <2> QED
    BY <1>2, <1>4, <2>1, <2>2, <2>6, <2>3, <2>4 DEF TestSentInOrder
<1>6. CASE ProxyForwards
  <2>1. /\ up # <<>> /\ up' = Tail(up) /\ TestProxyForwards /\ Head(up) # close
        /\ UNCHANGED <<sent, ready>>
    BY <1>6 DEF ProxyForwards, RivetProxyForwards
  <2>2. CASE ready = "open" /\ listening
    <3>1. taken' = Append(taken, Head(up))
      BY <2>1, <2>2 DEF TestProxyForwards, SendTo
    <3>2. PICK n \in y..z : Carries(<<Head(t)>>, y, n) /\ Carries(Tail(t), n, z)
      BY <1>2, <1>3, <1>4, <2>1, <2>2, CarriesSplit
    <3>3. n \in Nat /\ n \in 0..z
      BY <1>3, <3>2
    <3>4. Head(t) \in Items
      BY <1>4, <2>1, SeqFacts
    <3>5. Carries(Append(s, Head(t)), x, n)
      BY <1>2, <1>3, <1>4, <3>2, <3>3, <3>4, CarriesAppend
    <3> QED
      BY <1>1, <1>2, <1>4, <2>1, <3>1, <3>2, <3>3, <3>5 DEF TestSentInOrder
  <2>3. CASE ~(ready = "open" /\ listening) /\ taken = <<>>
    <3>1. taken' = <<>>
      BY <2>1, <2>3 DEF TestProxyForwards
    <3>2. PICK n \in y..z : Carries(<<Head(t)>>, y, n) /\ Carries(Tail(t), n, z)
      BY <1>2, <1>3, <1>4, <2>1, <2>3, CarriesSplit
    <3>3. n \in Nat /\ n \in 0..z
      BY <1>3, <3>2
    <3>4. Carries(taken', n, n)
      BY <3>1, <3>3, CarriesNothing
    <3> QED
      BY <1>1, <1>4, <2>1, <3>2, <3>3, <3>4 DEF TestSentInOrder
  <2>4. CASE ~(ready = "open" /\ listening) /\ taken # <<>>
    <3>1. taken' = taken /\ ready # "open"
      BY <2>1, <2>4 DEF TestProxyForwards, StagesAgree
    <3> QED
      BY <1>1, <1>2, <2>1, <2>4, <3>1 DEF TestSentInOrder
  <2> QED
    BY <2>2, <2>3, <2>4
<1>7. CASE ProxyCloses
  <2>1. /\ up # <<>> /\ up' = Tail(up) /\ Head(up) = close /\ UNCHANGED <<sent, taken>>
        /\ ready' = "open" => ready = "open"
    BY <1>7 DEF ProxyCloses, RivetProxyCloses, TestProxyCloses, ClosesTarget, CloseObject,
       FakeClose, StreamClose
  <2>2. Whole => Carries(Tail(t), y, z)
    <3>1. SUFFICES ASSUME Whole PROVE Carries(Tail(t), y, z)
      OBVIOUS
    <3>2. PICK n \in y..z : Carries(<<Head(t)>>, y, n) /\ Carries(Tail(t), n, z)
      BY <1>2, <1>3, <1>4, <2>1, <3>1, CarriesSplit
    <3>3. n \in Nat
      BY <1>3, <3>2
    <3>4. y = n
      BY <1>3, <1>4, <2>1, <3>2, <3>3, CarriesOne
    <3> QED
      BY <3>2, <3>4
  <2> QED
    BY <1>1, <1>2, <1>4, <2>1, <2>2 DEF TestSentInOrder
<1>8. CASE \/ HandlerOpens \/ upgradeWebSocket \/ onOpen \/ OpenRejects \/ OpenResolves
           \/ sendMessage \/ disconnect \/ FakeCloseEnds \/ addEventListener
           \/ StreamHandedOver \/ SocketOpens \/ RequestFails \/ AbandonedEnds
           \/ SocketReceives \/ onMessage \/ (\E m \in Msgs : parseMessage(m)) \/ onClose
           \/ ProxyOpens \/ ProxiedReceives
           \/ ClientSends \/ ClientCloses \/ UNCHANGED socketVars
  <2>1. UNCHANGED <<taken, up, sent>>
    BY <1>8 DEF HandlerOpens, upgradeWebSocket, onOpen, OpenRejects, OpenResolves,
       sendMessage, disconnect, FakeCloseEnds, addEventListener, StreamHandedOver,
       SocketOpens, RequestFails, AbandonedEnds, parseMessage, SocketReceives, onMessage,
       onClose, ProxyOpens, TestProxyOpens, RivetProxyOpens, ProxiedReceives, ClientSends,
       ClientCloses, QueuesAgree
  <2>2. ready' = "open" => ready = "open" \/ taken = <<>>
    BY <1>8 DEF HandlerOpens, upgradeWebSocket, onOpen, OpenRejects, OpenResolves,
       sendMessage, disconnect, FakeCloseEnds, addEventListener, StreamHandedOver,
       SocketOpens, RequestFails, AbandonedEnds, parseMessage, SocketReceives, onMessage,
       onClose, ProxyOpens, TestProxyOpens, RivetProxyOpens, ProxiedReceives, ClientSends,
       ClientCloses, StreamClose, StagesAgree
  <2> QED
    BY <1>1, <1>2, <2>1, <2>2 DEF TestSentInOrder
<1> QED
  BY <1>5, <1>6, <1>7, <1>8 DEF SocketsNext

-----------------------------------------------------------------------------
(* What the actor handles.                                                *)

(* A message that is new, and comes after those before it, is taken: the      *)
(* messages before it are below it.                                           *)
LEMMA TakenIsNew ==
    ASSUME NEW s \in Seq(Items), NEW x \in Msgs, NEW a \in Nat, NEW b \in Nat,
           Carries(Append(s, x), a, b)
    PROVE  /\ Held(Append(s, x)) = Held(s) \cup {x}
           /\ \A y \in Held(s) : y < x
<1> DEFINE r == Append(s, x)
<1>1. /\ DOMAIN r = 1..(Len(s) + 1) /\ DOMAIN s = 1..Len(s) /\ Len(s) \in Nat
      /\ r[Len(s) + 1] = x /\ \A i \in 1..Len(s) : r[i] = s[i]
      /\ x # close /\ \A i \in 1..Len(s) : s[i] \in Items
  BY DEF Msgs, close
<1>2. \A y \in Held(s) : y < x
  <2>1. SUFFICES ASSUME NEW i \in DOMAIN s, s[i] # close PROVE s[i] < x
    BY DEF Held
  <2>2. i \in DOMAIN r /\ Len(s) + 1 \in DOMAIN r /\ i < Len(s) + 1
    BY <1>1
  <2>3. r[i] = s[i] /\ r[Len(s) + 1] = x
    BY <1>1
  <2> HIDE DEF r
  <2>4. r[i] < r[Len(s) + 1]
    BY <1>1, <2>1, <2>2, <2>3 DEF Carries, r
  <2> QED
    BY <2>3, <2>4
<1> HIDE DEF r
<1>3. Held(r) = Held(s) \cup {x}
  BY <1>1 DEF Held
<1> QED
  BY <1>2, <1>3 DEF r

(* A message is taken to be parsed. *)
LEMMA TakenAgrees ==
    ASSUME SocketsTypeOK, HandledAgrees, NEW x \in Msgs, NEW a \in Nat, NEW b \in Nat,
           taken' = Append(taken, x), decoding' = decoding \cup {x}, handled' = handled,
           path' = path, Carries(taken', a, b)
    PROVE  HandledAgrees'
<1>1. PICK s \in Seq(Items) : s = taken
  BY DEF SocketsTypeOK
<1>2. Held(taken') = Held(taken) \cup {x} /\ \A y \in Held(taken) : y < x
  BY <1>1, TakenIsNew
<1>3. Held(handled) \subseteq Held(taken) /\ x \notin Held(taken)
  <2>1. x \in Int
    BY DEF Msgs
  <2> QED
    BY <1>2, <2>1 DEF HandledAgrees
<1>4. \A i \in DOMAIN handled : handled[i] \in Held(handled)
  <2>1. \A i \in DOMAIN handled : handled[i] \in Msgs
    BY DEF SocketsTypeOK
  <2>2. \A m \in Msgs : m # close
    BY DEF Msgs, close
  <2> QED
    BY <2>1, <2>2 DEF Held
<1>5. Held(taken') = Held(handled') \cup decoding' /\ Held(handled') \cap decoding' = {}
  BY <1>2, <1>3 DEF HandledAgrees
<1>6. \A i, j \in DOMAIN handled' : i # j => handled'[i] # handled'[j]
  BY DEF HandledAgrees
<1>7. ASSUME path' # "ws-blobs"
      PROVE  /\ \A i, j \in DOMAIN handled' : i < j => handled'[i] < handled'[j]
             /\ \A i \in DOMAIN handled' : \A m \in decoding' : handled'[i] < m
  BY <1>2, <1>3, <1>4, <1>7 DEF HandledAgrees
<1> QED
  BY <1>5, <1>6, <1>7 DEF HandledAgrees

(* A message is handled. *)
LEMMA ParsedAgrees ==
    ASSUME SocketsTypeOK, HandledAgrees, NEW x \in Msgs, parseMessage(x)
    PROVE  HandledAgrees'
<1>1. /\ x \in decoding /\ (path # "ws-blobs" => \A n \in decoding : x <= n)
      /\ decoding' = decoding \ {x} /\ handled' = Append(handled, x)
      /\ UNCHANGED <<path, taken>>
  BY DEF parseMessage
<1>2. PICK s \in Seq(Msgs) : s = handled
  BY DEF SocketsTypeOK
<1>3. /\ DOMAIN handled' = 1..(Len(s) + 1) /\ DOMAIN handled = 1..Len(s) /\ Len(s) \in Nat
      /\ handled'[Len(s) + 1] = x /\ \A i \in 1..Len(s) : handled'[i] = handled[i]
      /\ \A i \in 1..Len(s) : handled[i] \in Msgs
  BY <1>1, <1>2
<1>4. x # close /\ x \in Int /\ (\A m \in decoding : m \in Int) /\ close \notin Msgs
  BY DEF Msgs, close, SocketsTypeOK
<1>5. \A i \in 1..Len(s) : handled[i] \in Held(handled) /\ handled[i] # x
  BY <1>1, <1>3, <1>4 DEF Held, HandledAgrees
<1>6. Held(handled') = Held(handled) \cup {x}
  BY <1>3, <1>4 DEF Held
<1>7. Held(taken') = Held(handled') \cup decoding' /\ Held(handled') \cap decoding' = {}
  BY <1>1, <1>6 DEF HandledAgrees
<1>8. \A i, j \in DOMAIN handled' : i # j => handled'[i] # handled'[j]
  BY <1>3, <1>5 DEF HandledAgrees
<1>9. ASSUME path' # "ws-blobs"
      PROVE  /\ \A i, j \in DOMAIN handled' : i < j => handled'[i] < handled'[j]
             /\ \A i \in DOMAIN handled' : \A m \in decoding' : handled'[i] < m
  <2>1. /\ \A i, j \in 1..Len(s) : i < j => handled[i] < handled[j]
        /\ \A i \in 1..Len(s) : \A m \in decoding : handled[i] < m
    BY <1>1, <1>3, <1>9 DEF HandledAgrees
  <2>2. \A m \in decoding' : x < m
    BY <1>1, <1>4, <1>9
  <2>3. \A i, j \in DOMAIN handled' : i < j => handled'[i] < handled'[j]
    BY <1>1, <1>3, <2>1
  <2>4. \A i \in DOMAIN handled' : \A m \in decoding' : handled'[i] < m
    BY <1>1, <1>3, <2>1, <2>2
  <2> QED
    BY <2>3, <2>4
<1> QED
  BY <1>7, <1>8, <1>9 DEF HandledAgrees

(* What has been taken, parsed and handled keeps agreeing. *)
LEMMA HandledStep ==
    ASSUME SocketsAssumption, SocketsTypeOK, StagesAgree, QueuesAgree, HandledAgrees,
           SentInOrder', TestSentInOrder', sent' \in Nat,
           [SocketsNext]_socketVars, path' = path
    PROVE  HandledAgrees'
<1>1. path' # "rivet" => \E a, b \in Nat : Carries(taken', a, b)
  <2>1. CASE path' = "test"
    <3>1. PICK a \in 0..sent', b \in 0..sent' : Carries(taken', a, b)
      BY <2>1 DEF TestSentInOrder
    <3> QED
      BY <3>1
  <2>2. CASE ~Proxied
    <3>1. PICK b \in 0..sent' : Carries(taken', 0, b)
      BY <2>2 DEF SentInOrder
    <3> QED
      BY <3>1
  <2> QED
    BY <2>1, <2>2
<1>2. \A s \in Seq(Items) : (s # <<>> /\ Head(s) # close) => Head(s) \in Msgs
  <2>1. \A x \in Items : x # close => x \in Msgs
    BY DEF Items
  <2> QED
    BY <2>1, SeqFacts
<1>3. CASE \E x \in Msgs : /\ taken' = Append(taken, x) /\ decoding' = decoding \cup {x}
                           /\ handled' = handled /\ path # "rivet"
  BY <1>1, <1>3, TakenAgrees
<1>4. CASE UNCHANGED received
  BY <1>4 DEF HandledAgrees
<1>5. CASE \E m \in Msgs : parseMessage(m)
  BY <1>5, ParsedAgrees
<1>6. CASE onMessage
  <2>1. toActor \in Seq(Items) /\ toActor # <<>> /\ Head(toActor) # close /\ path # "rivet"
    BY <1>6 DEF onMessage, SocketsTypeOK, StagesAgree
  <2>2. PICK x \in Msgs : x = Head(toActor)
    BY <1>2, <2>1
  <2>3. \/ /\ taken' = Append(taken, x) /\ decoding' = decoding \cup {x}
           /\ handled' = handled
        \/ UNCHANGED received
    BY <1>6, <2>2 DEF onMessage
  <2> QED
    BY <1>3, <1>4, <2>1, <2>3
<1>7. CASE ClientSends
  <2>1. PICK x \in Msgs : x = sent + 1
    BY <1>7 DEF ClientSends, SocketsTypeOK, SocketsAssumption, Msgs
  <2>2. \/ /\ taken' = Append(taken, x) /\ decoding' = decoding \cup {x}
           /\ handled' = handled
        \/ UNCHANGED received
    BY <1>7, <2>1 DEF ClientSends, SendTo
  <2>3. path # "rivet"
    BY <1>7 DEF ClientSends
  <2> QED
    BY <1>3, <1>4, <2>2, <2>3
<1>8. CASE ProxyForwards
  <2>1. up \in Seq(Items) /\ up # <<>> /\ Head(up) # close
    BY <1>8 DEF ProxyForwards, SocketsTypeOK
  <2>2. PICK x \in Msgs : x = Head(up)
    BY <1>2, <2>1
  <2>3. \/ /\ taken' = Append(taken, x) /\ decoding' = decoding \cup {x}
           /\ handled' = handled /\ path # "rivet"
        \/ UNCHANGED received
    BY <1>8, <2>2 DEF ProxyForwards, RivetProxyForwards, TestProxyForwards, SendTo
  <2> QED
    BY <1>3, <1>4, <2>3
<1>9. CASE \/ HandlerOpens \/ upgradeWebSocket \/ onOpen \/ OpenRejects \/ OpenResolves
           \/ sendMessage \/ disconnect \/ FakeCloseEnds \/ addEventListener
           \/ StreamHandedOver \/ SocketOpens \/ RequestFails \/ AbandonedEnds
           \/ SocketReceives \/ onClose \/ ProxyOpens \/ ProxyCloses \/ ProxiedReceives
           \/ ClientCloses \/ ProxiedSends \/ ProxiedCloses \/ UNCHANGED socketVars
  <2>1. UNCHANGED received
    BY <1>9 DEF HandlerOpens, upgradeWebSocket, onOpen, OpenRejects, OpenResolves,
       sendMessage, disconnect, FakeCloseEnds, addEventListener, StreamHandedOver,
       SocketOpens, RequestFails, AbandonedEnds, SocketReceives, onClose, ProxyOpens,
       TestProxyOpens, RivetProxyOpens, ProxyCloses, ProxiedReceives, ClientCloses,
       ProxiedSends, ProxiedCloses
  <2> QED
    BY <1>4, <2>1
<1> QED
  BY <1>5, <1>6, <1>7, <1>8, <1>9 DEF SocketsNext

-----------------------------------------------------------------------------
(* The invariant.                                                         *)

(* A step keeps the whole invariant. *)
LEMMA IInvStep ==
    ASSUME SocketsAssumption, SocketsInv, [SocketsNext]_socketVars
    PROVE  SocketsInv'
<1>1. path' = path
  BY DEF SocketsNext, HandlerOpens, upgradeWebSocket, onOpen, OpenRejects, OpenResolves,
     sendMessage, disconnect, FakeCloseEnds, addEventListener, StreamHandedOver, SocketOpens,
     RequestFails, AbandonedEnds, parseMessage, SocketReceives, onMessage, onClose,
     ProxyOpens, TestProxyOpens, RivetProxyOpens, ProxyForwards, ProxyCloses, ProxiedReceives,
     ClientSends, ClientCloses, ProxiedSends, ProxiedCloses
<1>2. SocketsTypeOK /\ StagesAgree /\ QueuesAgree /\ EmittedInOrder /\ SentInOrder
      /\ TestSentInOrder /\ HandledAgrees
  BY DEF SocketsInv
<1>3. SocketsTypeOK'
  BY <1>2, TypeOKStep
<1>4. StagesAgree' /\ QueuesAgree'
  BY <1>2, StagesAgreeStep, QueuesAgreeStep
<1>5. EmittedInOrder'
  BY <1>2, EmittedStep
<1>6. SentInOrder' /\ TestSentInOrder'
  BY <1>1, <1>2, SentStep, TestSentStep
<1>7. HandledAgrees'
  <2>1. sent' \in Nat
    BY <1>3 DEF SocketsTypeOK
  <2> QED
    BY <1>1, <1>2, <1>6, <2>1, HandledStep
<1> QED
  BY <1>3, <1>4, <1>5, <1>6, <1>7 DEF SocketsInv

(* Before anything is sent every way is empty, and the invariant holds. *)
LEMMA InitIInv ==
    ASSUME SocketsAssumption, SocketsInit
    PROVE  SocketsInv
<1>1. SocketsTypeOK
  <2>1. /\ up \in Seq(Items) /\ down \in Seq(Items)
        /\ buffered \in Seq(Items) /\ queued \in Seq(Items)
        /\ toClient \in Seq(Items) /\ toActor \in Seq(Items)
        /\ taken \in Seq(Items) /\ heard \in Seq(Items)
        /\ decoding \subseteq Msgs /\ handled \in Seq(Msgs)
    BY SeqFacts DEF SocketsInit
  <2>2. sent \in 0..MaxSent /\ emitted \in 0..MaxSent
    BY DEF SocketsInit, SocketsAssumption
  <2>3. /\ path \in Paths
        /\ outer \in {"none", "connecting", "open", "closing", "closed"}
        /\ ready \in {"none", "connecting", "open", "closing", "closed"}
        /\ opening \in {"none", "running", "resolved", "rejected"}
        /\ conn \in {"none", "open", "removed", "stray"}
    BY DEF SocketsInit
  <2>4. /\ listening \in BOOLEAN /\ ending \in BOOLEAN /\ registered \in BOOLEAN
        /\ ended \in BOOLEAN /\ closed \in BOOLEAN /\ missed \in BOOLEAN
    <3>1. listening \in BOOLEAN
      <4>1. CASE path \in {"ws", "ws-blobs", "sse", "worker"}
        BY <4>1 DEF SocketsInit
      <4>2. CASE path \notin {"ws", "ws-blobs", "sse", "worker"}
        BY <4>2 DEF SocketsInit
      <4> QED
        BY <4>1, <4>2
    <3>2. /\ ending = FALSE /\ registered = FALSE /\ ended = FALSE /\ closed = FALSE
          /\ missed = FALSE
      BY DEF SocketsInit
    <3> QED
      BY <3>1, <3>2
  <2> QED
    BY <2>1, <2>2, <2>3, <2>4 DEF SocketsTypeOK
<1>2. StagesAgree /\ QueuesAgree
  BY DEF SocketsInit, StagesAgree, QueuesAgree
<1>3. Carries(<<>>, 0, 0) /\ 0 \in 0..0
  BY CarriesNothing
<1>4. EmittedInOrder
  BY <1>3 DEF SocketsInit, EmittedInOrder, Past, Behind
<1>5. SentInOrder
  BY <1>3 DEF SocketsInit, SentInOrder, Received
<1>6. TestSentInOrder
  BY <1>3 DEF SocketsInit, TestSentInOrder
<1>7. HandledAgrees
  BY DEF SocketsInit, HandledAgrees, Held
<1> QED
  BY <1>1, <1>2, <1>4, <1>5, <1>6, <1>7 DEF SocketsInv

(* The invariant says what has been heard and what has been handled. *)
LEMMA IInvDelivers ==
    ASSUME SocketsInv
    PROVE  DeliveredInOrder
<1>1. \E a, b \in 0..emitted : Carries(heard, a, b) /\ (path # "inline-sse" => a = 0)
  <2>1. PICK a \in 0..emitted, b \in 0..emitted : Past(a, b) /\ (path # "inline-sse" => a = 0)
    BY DEF SocketsInv, EmittedInOrder
  <2>2. PICK m \in a..b : Carries(heard, a, m)
    BY <2>1 DEF Past
  <2>3. m \in 0..emitted
    BY DEF SocketsInv, SocketsTypeOK
  <2> QED
    BY <2>1, <2>2, <2>3
<1>2. \E a, b \in 0..sent : Carries(taken, a, b) /\ (path # "test" => a = 0)
  <2>1. 0 \in 0..sent
    BY DEF SocketsInv, SocketsTypeOK
  <2>2. CASE path = "test"
    BY <2>2 DEF SocketsInv, TestSentInOrder
  <2>3. CASE ~Proxied
    BY <2>1, <2>3 DEF SocketsInv, SentInOrder
  <2>4. CASE path = "rivet"
    <3>1. taken = <<>> /\ Carries(<<>>, 0, 0)
      BY <2>4, CarriesNothing DEF SocketsInv, StagesAgree
    <3> QED
      BY <2>1, <3>1
  <2> QED
    BY <2>2, <2>3, <2>4
<1> QED
  BY <1>1, <1>2 DEF DeliveredInOrder, SocketsInv

(* Every reachable state satisfies the inductive invariant. *)
THEOREM SocketsInvariantHolds == SocketsSpec => []SocketsInv
<1>1. SocketsInit => SocketsInv
  BY SocketsAssumption, InitIInv
<1>2. SocketsInv /\ [SocketsNext]_socketVars => SocketsInv'
  BY SocketsAssumption, IInvStep
<1> QED
  BY <1>1, <1>2, PTL DEF SocketsSpec

(* Every variable of a socket's way has its type: only messages that have      *)
(* been sent, and close events, are ever on it.                                *)
THEOREM SocketsTypeCorrect == SocketsSpec => []SocketsTypeOK
<1>1. SocketsInv => SocketsTypeOK
  BY DEF SocketsInv
<1> QED
  BY <1>1, SocketsInvariantHolds, PTL

(* Along every way, client and actor get each other's messages in order, each *)
(* once and without a gap, as far as the way carries them; the actor handles  *)
(* each once, and in that order unless its frames are blobs.                  *)
THEOREM MessagesInOrder == SocketsSpec => []DeliveredInOrder
<1>1. SocketsInv => DeliveredInOrder
  BY IInvDelivers
<1> QED
  BY <1>1, SocketsInvariantHolds, PTL

=============================================================================
