-------------------------- MODULE ClientConnProofs --------------------------
(* Theorems about ClientConn, with their proofs.                            *)
EXTENDS ClientConn, SequenceTheorems, FiniteSetTheorems, TLAPS

USE DEF record

-----------------------------------------------------------------------------
(* Messages.                                                                *)

LEMMA Fields ==
    /\ \A i \in ActionIds : Request(i) \in Requests /\ Request(i).b = "ar" /\ Request(i).i = i
    /\ \A e \in Events, o \in BOOLEAN : Subscription(e, o).b = "sr"
    /\ \A m \in Requests : m.b = "ar"
    /\ Requests \subseteq ToServer
  BY DEF Requests, Request, Subscription, ToServer

LEMMA ServerMessages ==
    /\ \A e \in Events, o \in BOOLEAN : Subscription(e, o) \in ToServer
    /\ \A m \in ToServer :
          /\ m.b = "ar" => m.i \in ActionIds /\ m = Request(m.i) /\ m \in Requests
          /\ m.b = "sr" => m.e \in Events /\ m.s \in BOOLEAN /\ m = Subscription(m.e, m.s)
  BY DEF Requests, Request, Subscription, ToServer

LEMMA ClientMessages ==
    /\ [b |-> "i"] \in ToClient /\ [b |-> "e"] \in ToClient /\ [b |-> "close"] \in ToClient
    /\ \A e \in Events : [b |-> "ev", e |-> e] \in ToClient
    /\ \A i \in ActionIds, a \in {"ok", "error"} : [b |-> a, i |-> i] \in ToClient
    /\ \A m \in ToClient :
          /\ m.b = "ok" => m.i \in ActionIds /\ m = [b |-> "ok", i |-> m.i]
          /\ m.b = "error" => m.i \in ActionIds
          /\ m.b = "ev" => m.e \in Events
  BY DEF ToClient

(* The subscriptions of #handleOnOpen: one for each event listened to, each  *)
(* a subscription and no request.                                            *)
LEMMA ResubscriptionsType ==
    ASSUME listeners \in [Events -> SUBSET {"on", "once"}]
    PROVE  /\ Resubscriptions \in Seq({Subscription(e, TRUE) : e \in Events})
           /\ \A e \in Listened : \E k \in DOMAIN Resubscriptions :
                 Resubscriptions[k] = Subscription(e, TRUE)
<1> DEFINE S == {Subscription(e, TRUE) : e \in Listened}
           D == 1..Cardinality(S)
           f == SetToSeq(S)
<1>1. IsFiniteSet(Listened)
  BY ConstantsAssumption, FS_Subset DEF ConstantsAssumption, Listened
<1>2. IsFiniteSet(S)
  <2> DEFINE g == [e \in Listened |-> Subscription(e, TRUE)]
  <2>1. g \in Surjection(Listened, S)
    BY DEF Surjection
  <2> QED
    BY <1>1, <2>1, FS_Surjection
<1>3. Cardinality(S) \in Nat /\ ExistsBijection(D, S)
  BY <1>2, FS_CardinalityType
<1>4. \E g \in [D -> S] : IsInjective(g)
  BY <1>3 DEF ExistsBijection, Bijection, Injection
<1>5. f \in [D -> S] /\ IsInjective(f)
  BY <1>4 DEF SetToSeq
<1>6. f \in Injection(D, S)
  BY <1>5 DEF Injection
<1>7. IsFiniteSet(D) /\ Cardinality(D) = Cardinality(S)
  BY <1>3, FS_Interval
<1>8. f \in Surjection(D, S)
  BY <1>2, <1>6, <1>7, FS_Injection
<1>9. S \subseteq {Subscription(e, TRUE) : e \in Events}
  BY DEF Listened
<1>10. f \in [D -> {Subscription(e, TRUE) : e \in Events}]
  <2> HIDE DEF S, f
  <2> QED
    BY <1>5, <1>9
<1>11. f \in Seq({Subscription(e, TRUE) : e \in Events})
  <2> DEFINE T == {Subscription(e, TRUE) : e \in Events}
             n == Cardinality(S)
  <2>1. n \in Nat /\ f \in [1..n -> T]
    BY <1>3, <1>10
  <2> HIDE DEF T, n, f
  <2>2. f \in Seq(T)
    BY <2>1, SeqDef
  <2> QED
    BY <2>2 DEF T
<1>12. DOMAIN f = D
  BY <1>5
<1>13. \A x \in S : \E k \in D : f[k] = x
  BY <1>8 DEF Surjection
<1> QED
  BY <1>11, <1>12, <1>13 DEF Resubscriptions

-----------------------------------------------------------------------------
(* Type correctness.                                                         *)

LEMMA OneMessage ==
    ASSUME NEW S, NEW m \in S
    PROVE  <<m>> \in Seq(S) /\ <<>> \in Seq(S)
  OBVIOUS

LEMMA Replaced ==
    ASSUME NEW S, NEW f \in [Sockets -> S], NEW s, NEW x \in S
    PROVE  [f EXCEPT ![s] = x] \in [Sockets -> S]
  OBVIOUS

LEMMA SendType ==
    ASSUME Data, NEW subscriptions \in Seq(ToServer), NEW requests \in Seq(Requests),
           NEW kept \in Seq(Requests), NEW to \in Sockets \cup {None},
           sendMessage(subscriptions, requests, kept, to)
    PROVE  /\ queue' \in Seq(Requests)
           /\ up' \in [Sockets -> Seq(ToServer)]
           /\ posts' \subseteq [m : ToServer, to : Sockets]
<1>1. requests \in Seq(ToServer)
  <2>1. Requests \subseteq ToServer
    BY Fields
  <2> QED
    BY <2>1
<1>2. Reverse(requests) \in Seq(Requests)
  <2>1. \A k \in 1..Len(requests) : requests[(Len(requests) - k) + 1] \in Requests
    OBVIOUS
  <2> QED
    BY <2>1, SeqDef DEF Reverse
<1>3. CASE ~Sendable
  <2>1. kept \o requests \in Seq(Requests)
    OBVIOUS
  <2> QED
    BY <1>3, <2>1 DEF sendMessage, Data
<1>4. CASE Sendable /\ transport = "websocket"
  <2>1. socket \in Sockets /\ subscriptions \o requests \in Seq(ToServer)
    BY <1>1, <1>4 DEF Sendable, Data
  <2>2. up[socket] \o (subscriptions \o requests) \in Seq(ToServer)
    BY <2>1 DEF Data
  <2> QED
    BY <1>4, <2>1, <2>2, ZenonT(60) DEF sendMessage, Data
<1>5. CASE Sendable /\ transport # "websocket" /\ to # None
  <2>1. ToSet(subscriptions) \cup ToSet(requests) \subseteq ToServer
    BY <1>1 DEF ToSet
  <2> QED
    BY <1>5, <2>1 DEF sendMessage, Data
<1>6. CASE Sendable /\ transport # "websocket" /\ to = None
  <2>1. Reverse(requests) \o kept \in Seq(Requests)
    BY <1>2
  <2> QED
    BY <1>6, <2>1 DEF sendMessage, Data
<1> QED
  BY <1>3, <1>4, <1>5, <1>6

-----------------------------------------------------------------------------
(* Where the requests are.                                                   *)

FromQueue(x, i, q) == \E k \in DOMAIN q : q[k] = Request(i) /\ x = <<"queue", None, k>>

FromUp(x, i, u) ==
    \E s \in Sockets : \E k \in DOMAIN u[s] : u[s][k] = Request(i) /\ x = <<"up", s, k>>

FromPost(x, i, p) ==
    \E s \in Sockets : [m |-> Request(i), to |-> s] \in p /\ x = <<"post", s, 0>>

LEMMA InPlaces ==
    ASSUME NEW i, NEW q, NEW u, NEW p, NEW x
    PROVE  x \in PlacesIn(i, q, u, p) <=> FromQueue(x, i, q) \/ FromUp(x, i, u) \/ FromPost(x, i, p)
<1> DEFINE Q == {<<"queue", None, k>> : k \in {n \in DOMAIN q : q[n] = Request(i)}}
           U(s) == {<<"up", s, k>> : k \in {n \in DOMAIN u[s] : u[s][n] = Request(i)}}
           P == {<<"post", s, 0>> : s \in {t \in Sockets : [m |-> Request(i), to |-> t] \in p}}
<1>1. x \in Q <=> FromQueue(x, i, q)
  BY DEF FromQueue
<1>2. \A s : x \in U(s) <=> \E k \in DOMAIN u[s] : u[s][k] = Request(i) /\ x = <<"up", s, k>>
  OBVIOUS
<1>3. x \in P <=> FromPost(x, i, p)
  BY DEF FromPost
<1>4. PlacesIn(i, q, u, p) = Q \cup (UNION {U(s) : s \in Sockets}) \cup P
  BY DEF PlacesIn
<1> HIDE DEF Q, U, P
<1>5. x \in UNION {U(s) : s \in Sockets} <=> \E s \in Sockets : x \in U(s)
  OBVIOUS
<1>6. x \in UNION {U(s) : s \in Sockets} <=> FromUp(x, i, u)
  BY <1>2, <1>5 DEF FromUp
<1> QED
  BY <1>1, <1>3, <1>4, <1>6

LEMMA InitInv == Init => IInv
<1> SUFFICES ASSUME Init PROVE IInv
  OBVIOUS
<1>1. Flags
  BY DEF Init, Flags
<1>2. Data
  BY ConstantsAssumption DEF Init, Data, ConstantsAssumption
<1>3. \A i \in ActionIds : Places(i) = {}
  <2> SUFFICES ASSUME NEW i \in ActionIds, NEW x \in Places(i) PROVE FALSE
    OBVIOUS
  <2>1. /\ DOMAIN queue = {} /\ posts = {}
        /\ \A s \in Sockets : DOMAIN up[s] = {}
    BY DEF Init
  <2>2. x \in PlacesIn(i, queue, up, posts)
    BY DEF Places
  <2> QED
    BY <2>1, <2>2, InPlaces DEF FromQueue, FromUp, FromPost
<1>4. RunsLeft
  <2>1. faults = 0 /\ late = 0 /\ posts = {} /\ \A i \in ActionIds : ran[i] = 0
    BY DEF Init
  <2> QED
    BY <1>3, <2>1, FS_EmptySet DEF RunsLeft, RunsOf, Budget
<1>5. OnItsWay /\ SocketStages
  BY DEF Init, OnItsWay, SocketStages, StageOf
<1>6. AnswersAreTrue
  BY DEF Init, AnswersAreTrue
<1>7. ServerWillHear
  BY DEF Init, ServerWillHear, Listened
<1> QED
  BY <1>1, <1>2, <1>4, <1>5, <1>6, <1>7 DEF IInv, TypeOK


-----------------------------------------------------------------------------
(* Types.                                                                    *)

LEMMA FlagsStep == TypeOK /\ [Next]_vars => Flags'
<1> SUFFICES ASSUME Flags, [Next]_vars PROVE Flags'
  BY DEF TypeOK
<1> USE DEF Flags, history
<1>1. CASE connect \/ Backoff
  BY <1>1 DEF connect, Backoff, connectWithRetry
<1>2. CASE action
  BY <1>2 DEF action, loop
<1>3. ASSUME NEW e \in Events, NEW kind \in {"on", "once"}, addEventSubscription(e, kind)
      PROVE  Flags'
  BY <1>3 DEF addEventSubscription, loop
<1>4. ASSUME NEW e \in Events, NEW kind \in listeners[e], unsubscribe(e, kind) PROVE Flags'
  BY <1>4 DEF unsubscribe, loop
<1>5. CASE dispose
  BY <1>5 DEF dispose
<1>6. ASSUME NEW p \in posts, sendHttpMessage(p) PROVE Flags'
  BY <1>6 DEF sendHttpMessage, loop
<1>7. ASSUME NEW verdict, Settles(verdict) \/ SettlePromise(verdict) PROVE connecting' \in BOOLEAN
  BY <1>7 DEF SettlePromise, Settles, loop
<1>8. ASSUME NEW s \in Sockets, Dialed(s) PROVE Flags'
  BY <1>7, <1>8 DEF Dialed
<1>9. ASSUME NEW s \in Sockets, Handle(s) PROVE Flags'
  <2>1. CASE handleUnparsed(s)
    BY <2>1 DEF handleUnparsed, loop
  <2>2. CASE handleOnOpen(s) \/ handleConnectionError(s)
    BY <1>7, <2>2 DEF handleOnOpen, handleConnectionError
  <2>3. CASE handleActionError(s) \/ handleActionResponse(s)
    BY <2>3 DEF handleActionError, handleActionResponse, loop
  <2>4. CASE dispatchEvent(s)
    BY <2>4 DEF dispatchEvent, loop
  <2>5. CASE handleOnClose(s)
    <3>1. connecting' \in BOOLEAN
      BY <1>7, <2>5 DEF handleOnClose, connectWithRetry
    <3> QED
      BY <2>5, <3>1 DEF handleOnClose
  <2> QED
    BY <1>9, <2>1, <2>2, <2>3, <2>4, <2>5 DEF Handle
<1>10. ASSUME NEW s \in Sockets,
              Opens(s) \/ Connected(s) \/ Refused(s) \/ Drops(s) \/ Processes(s) \/ Recycled(s)
       PROVE  Flags'
  BY <1>10 DEF Opens, Connected, Refused, Drops, Processes, Recycled, client, loop, history
<1>11. ASSUME NEW s \in Sockets, NEW e \in Events, Broadcasts(s, e) PROVE Flags'
  BY <1>11 DEF Broadcasts, client, loop, history
<1>12. ASSUME NEW s \in Sockets, NEW fresh \in Sockets, StreamReconnects(s, fresh) PROVE Flags'
  BY <1>12 DEF StreamReconnects, loop
<1>13. CASE UNCHANGED vars
  BY <1>13 DEF vars, loop, history
<1>14. CASE DialFails \/ DialThrows
  BY <1>7, <1>14 DEF DialFails, DialThrows
<1>15. ASSUME NEW s \in Sockets, NEW m \in heard[s], ProcessesAgain(s, m) PROVE Flags'
  BY <1>15 DEF ProcessesAgain, client, loop
<1> QED
  BY <1>1, <1>2, <1>3, <1>4, <1>5, <1>6, <1>8, <1>9, <1>10, <1>11, <1>12, <1>13, <1>14, <1>15
  DEF Next, on, once

\* A message that is delivered is one of the protocol.
LEMMA Delivered ==
    ASSUME Data, NEW s \in Sockets, down[s] # <<>>, Received(s)
    PROVE  /\ Head(down[s]) \in ToClient /\ Tail(down[s]) \in Seq(ToClient)
           /\ down' = [down EXCEPT ![s] = Tail(down[s])]
           /\ down' \in [Sockets -> Seq(ToClient)]
<1>1. down[s] \in Seq(ToClient) /\ down \in [Sockets -> Seq(ToClient)]
  BY DEF Data
<1>2. Head(down[s]) \in ToClient /\ Tail(down[s]) \in Seq(ToClient)
  BY <1>1
<1> QED
  BY <1>1, <1>2 DEF Received

LEMMA Sent ==
    ASSUME Data, NEW s \in Sockets, NEW m \in ToClient, Sends(s, m)
    PROVE  down' \in [Sockets -> Seq(ToClient)]
  BY DEF Sends, Data

LEMMA LoopData ==
    ASSUME Data, NEW verdict \in {"pending", "resolved", "rejected"},
           Settles(verdict) \/ SettlePromise(verdict)
    PROVE  /\ retry' \in {"idle", "dialing", "waiting", "backoff"}
           /\ promise' \in {"pending", "resolved", "rejected"}
  BY DEF SettlePromise, Settles, loop, Data

LEMMA MessageData ==
    ASSUME Data, NEW s \in Sockets, NEW m \in ToServer, processMessage(s, m)
    PROVE  /\ down' \in [Sockets -> Seq(ToClient)]
           /\ ran' \in [ActionIds -> Nat]
           /\ subs' \in [Sockets -> SUBSET Events]
<1>0. ran \in [ActionIds -> Nat]
  BY ConstantsAssumption DEF Data, ConstantsAssumption
<1>1. CASE m.b = "ar"
  <2>1. m.i \in ActionIds
    BY <1>1, ServerMessages
  <2>2. PICK a \in {"ok", "error"} : Sends(s, [b |-> a, i |-> m.i])
    BY <1>1 DEF processMessage
  <2>3. down' \in [Sockets -> Seq(ToClient)]
    BY <2>1, <2>2, Sent, ClientMessages
  <2>4. subs' = subs /\ ran' = [ran EXCEPT ![m.i] = @ + 1]
    BY <1>1 DEF processMessage
  <2>5. ran' \in [ActionIds -> Nat]
    BY <1>0, <2>1, <2>4
  <2> QED
    BY <2>3, <2>4, <2>5 DEF Data
<1>2. CASE m.b # "ar"
  <2>1. m.e \in Events
    BY <1>2, ServerMessages DEF processMessage
  <2>2. /\ down' = down /\ ran' = ran
        /\ \/ subs' = [subs EXCEPT ![s] = subs[s] \cup {m.e}]
           \/ subs' = [subs EXCEPT ![s] = subs[s] \ {m.e}]
    BY <1>2 DEF processMessage
  <2>3. subs' \in [Sockets -> SUBSET Events]
    <3>1. /\ subs[s] \cup {m.e} \in SUBSET Events /\ subs[s] \ {m.e} \in SUBSET Events
          /\ subs \in [Sockets -> SUBSET Events]
      BY <2>1 DEF Data
    <3> QED
      BY <2>2, <3>1, Replaced, Zenon
  <2> QED
    BY <1>0, <2>2, <2>3 DEF Data
<1> QED
  BY <1>1, <1>2

\* What has run is counted by the budget.
LEMMA RunsBounded ==
    ASSUME RunsLeft', faults' \in 0..MaxFaults, late' \in 0..faults', ran' \in [ActionIds -> Nat]
    PROVE  ran' \in [ActionIds -> 0..(MaxFaults + 1)]
<1> SUFFICES ASSUME NEW i \in ActionIds PROVE ran'[i] <= MaxFaults + 1
  OBVIOUS
<1>1. IsFiniteSet(Places(i)') /\ Cardinality(Places(i)') + ran'[i] <= Budget'
  BY DEF RunsLeft, RunsOf
<1>2. Cardinality(Places(i)') \in Nat
  BY <1>1, FS_CardinalityType
<1>3. MaxFaults \in Nat
  BY ConstantsAssumption DEF ConstantsAssumption
<1>4. /\ 1 + faults' <= MaxFaults + 1 /\ 1 + faults' \in Nat
      /\ 1 + late' <= MaxFaults + 1 /\ 1 + late' \in Nat
  <2>1. \A f \in 0..MaxFaults : 1 + f <= MaxFaults + 1 /\ f \in Nat /\ 1 + f \in Nat
    BY <1>3
  <2>2. \A f, l \in Nat : l <= f /\ f <= MaxFaults => l \in 0..MaxFaults
    BY <1>3
  <2>3. faults' \in 0..MaxFaults /\ late' \in 0..MaxFaults
    BY <2>1, <2>2
  <2> QED
    BY <2>1, <2>3
<1>5. Budget' <= MaxFaults + 1 /\ Budget' \in Nat
  <2>1. Budget' = 1 + late' \/ Budget' = 1 + faults'
    BY Zenon DEF Budget
  <2> QED
    BY <1>4, <2>1
<1>6. ran'[i] \in Nat
  OBVIOUS
<1> QED
  BY <1>1, <1>2, <1>3, <1>5, <1>6

LEMMA DataStep == IInv /\ [Next]_vars /\ RunsLeft' => Data'
<1> SUFFICES ASSUME IInv, [Next]_vars, RunsLeft' PROVE Data'
  OBVIOUS
<1> USE ConstantsAssumption DEF ConstantsAssumption
<1>0. Data
  BY DEF IInv, TypeOK
<1> USE <1>0
<1>1. CASE connect \/ Backoff
  BY <1>1 DEF Data, connect, Backoff, connectWithRetry, wire, history, options
<1>2. CASE action
  <2>1. PICK i \in ActionIds : /\ outcome' = [outcome EXCEPT ![i] = "pending"]
                               /\ sendMessage(<<>>, <<Request(i)>>, queue, conn)
    BY <1>2 DEF action
  <2>2. /\ <<Request(i)>> \in Seq(Requests) /\ <<>> \in Seq(ToServer)
        /\ queue \in Seq(Requests) /\ conn \in Sockets \cup {None}
    BY Fields DEF Data
  <2>3. /\ queue' \in Seq(Requests) /\ up' \in [Sockets -> Seq(ToServer)]
        /\ posts' \subseteq [m : ToServer, to : Sockets]
    BY <2>1, <2>2, SendType
  <2> QED
    BY <1>2, <2>1, <2>3 DEF action, Call, Data, loop, history, options
<1>3. ASSUME NEW e \in Events, NEW kind \in {"on", "once"}, addEventSubscription(e, kind)
      PROVE  Data'
  <2>1. <<Subscription(e, TRUE)>> \in Seq(ToServer) /\ <<>> \in Seq(Requests)
    <3>1. Subscription(e, TRUE) \in ToServer
      BY ServerMessages
    <3>2. <<>> \in Seq(Requests)
      OBVIOUS
    <3> QED
      BY <3>1, <3>2, OneMessage, Zenon
  <2>2. queue \in Seq(Requests) /\ conn \in Sockets \cup {None}
    BY DEF Data
  <2>3. /\ queue' \in Seq(Requests) /\ up' \in [Sockets -> Seq(ToServer)]
        /\ posts' \subseteq [m : ToServer, to : Sockets]
    <3>1. CASE listeners[e] = {}
      BY <1>3, <2>1, <2>2, <3>1, SendType DEF addEventSubscription
    <3>2. CASE listeners[e] # {}
      BY <1>3, <3>2 DEF addEventSubscription, Data
    <3> QED
      BY <3>1, <3>2
  <2> QED
    BY <1>3, <2>3 DEF addEventSubscription, Call, Data, loop, history, options
<1>4. ASSUME NEW e \in Events, NEW kind \in listeners[e], unsubscribe(e, kind) PROVE Data'
  <2>1. <<Subscription(e, FALSE)>> \in Seq(ToServer) /\ <<>> \in Seq(Requests)
    <3>1. Subscription(e, FALSE) \in ToServer
      BY ServerMessages
    <3>2. <<>> \in Seq(Requests)
      OBVIOUS
    <3> QED
      BY <3>1, <3>2, OneMessage, Zenon
  <2>2. queue \in Seq(Requests) /\ conn \in Sockets \cup {None}
    BY DEF Data
  <2>3. /\ queue' \in Seq(Requests) /\ up' \in [Sockets -> Seq(ToServer)]
        /\ posts' \subseteq [m : ToServer, to : Sockets]
    <3>1. CASE listeners[e] = {kind}
      BY <1>4, <2>1, <2>2, <3>1, SendType DEF unsubscribe
    <3>2. CASE listeners[e] # {kind}
      BY <1>4, <3>2 DEF unsubscribe, Data
    <3> QED
      BY <3>1, <3>2
  <2> QED
    BY <1>4, <2>3 DEF unsubscribe, Call, Data, loop, history, options
<1>5. CASE dispose
  <2>1. /\ down' \in [Sockets -> Seq(ToClient)]
        /\ ready' \in [Sockets -> {"unused", "connecting", "open", "closing", "closed"}]
        /\ server' \in [Sockets -> {"none", "up", "down"}]
    <3>1. CASE socket = None
      BY <1>5, <3>1 DEF dispose, Data
    <3>2. CASE socket # None
      <4>1. socket \in Sockets /\ down[socket] \in Seq(ToClient)
        BY <3>2 DEF Data
      <4>2. Append(down[socket], [b |-> "close"]) \in Seq(ToClient)
        BY <4>1, ClientMessages
      <4>3. /\ ready' = [ready EXCEPT ![socket] = IF transport = "sse" THEN "closed" ELSE "closing"]
            /\ server' = [server EXCEPT ![socket] = "down"]
            /\ \/ down' = [down EXCEPT ![socket] = <<>>]
               \/ down' = [down EXCEPT ![socket] = down[socket]]
               \/ down' = [down EXCEPT ![socket] = Append(down[socket], [b |-> "close"])]
        BY <1>5, <3>2 DEF dispose
      <4>4. ready' \in [Sockets -> {"unused", "connecting", "open", "closing", "closed"}]
        BY <4>1, <4>3 DEF Data
      <4>5. server' \in [Sockets -> {"none", "up", "down"}]
        BY <4>1, <4>3 DEF Data
      <4>6. down' \in [Sockets -> Seq(ToClient)]
        <5>1. <<>> \in Seq(ToClient) /\ down \in [Sockets -> Seq(ToClient)]
          BY DEF Data
        <5> QED
          BY <4>1, <4>2, <4>3, <5>1, Replaced, Zenon
      <4> QED
        BY <4>4, <4>5, <4>6
    <3> QED
      BY <3>1, <3>2
  <2> QED
    BY <1>5, <2>1 DEF dispose, Data, history, options
<1>6. ASSUME NEW p \in posts, sendHttpMessage(p) PROVE Data'
  <2>1. p.m \in ToServer /\ p.to \in Sockets
    BY DEF Data
  <2>2. Queueable(p.m) \o queue \in Seq(Requests)
    BY <2>1, ServerMessages DEF Queueable, Data
  <2>3. Append(up[p.to], p.m) \in Seq(ToServer)
    BY <2>1 DEF Data
  <2>4. faults' \in 0..MaxFaults /\ late' \in 0..faults'
    BY <1>6 DEF sendHttpMessage, Fault, Data
  <2>5. /\ up' = up \/ up' = [up EXCEPT ![p.to] = Append(up[p.to], p.m)]
        /\ queue' = queue \/ queue' = Queueable(p.m) \o queue
    BY <1>6 DEF sendHttpMessage
  <2>6. up' \in [Sockets -> Seq(ToServer)] /\ queue' \in Seq(Requests)
    <3>1. up \in [Sockets -> Seq(ToServer)] /\ queue \in Seq(Requests)
      BY DEF Data
    <3>2. up' \in [Sockets -> Seq(ToServer)]
      BY <2>3, <2>5, <3>1, Replaced, Zenon
    <3>3. queue' \in Seq(Requests)
      BY <2>2, <2>5, <3>1, Zenon
    <3> QED
      BY <3>2, <3>3
  <2> QED
    BY <1>6, <2>4, <2>6 DEF sendHttpMessage, Data, loop, options
<1>7. ASSUME NEW s \in Sockets, Dialed(s) PROVE Data'
  <2>1. /\ retry' \in {"idle", "dialing", "waiting", "backoff"}
        /\ promise' \in {"pending", "resolved", "rejected"}
    <3>1. promise \in {"pending", "resolved", "rejected"}
      BY DEF Data
    <3>2. CASE promise = "pending" /\ ~disposed
      BY <1>7, <3>1, <3>2 DEF Dialed
    <3>3. CASE ~(promise = "pending" /\ ~disposed)
      BY <1>7, <3>1, <3>3, LoopData DEF Dialed
    <3> QED
      BY <3>2, <3>3
  <2> QED
    BY <1>7, <2>1 DEF Dialed, Data, history, options
<1>8. ASSUME NEW s \in Sockets, Handle(s) PROVE Data'
  <2>0. down[s] # <<>> /\ Received(s)
    BY <1>8 DEF Handle, handleUnparsed, handleOnOpen, handleConnectionError, handleActionError,
                handleActionResponse, dispatchEvent, handleOnClose, Receives
  <2>1. /\ Head(down[s]) \in ToClient
        /\ down' \in [Sockets -> Seq(ToClient)]
    BY <2>0, Delivered
  <2>2. CASE handleUnparsed(s)
    BY <2>1, <2>2 DEF handleUnparsed, Data, loop, history, options
  <2>3. CASE handleOnOpen(s)
    <3>1. /\ retry' \in {"idle", "dialing", "waiting", "backoff"}
          /\ promise' \in {"pending", "resolved", "rejected"}
      BY <2>3, LoopData DEF handleOnOpen
    <3>2. /\ queue' \in Seq(Requests) /\ up' \in [Sockets -> Seq(ToServer)]
          /\ posts' \subseteq [m : ToServer, to : Sockets]
      <4>1. CASE disposed
        BY <2>3, <4>1 DEF handleOnOpen, Data
      <4>2. CASE ~disposed
        <5>1. Resubscriptions \in Seq(ToServer)
          <6>1. {Subscription(e, TRUE) : e \in Events} \subseteq ToServer
            BY ServerMessages
          <6>2. Resubscriptions \in Seq({Subscription(e, TRUE) : e \in Events})
            BY ResubscriptionsType DEF Data
          <6> DEFINE T == {Subscription(e, TRUE) : e \in Events}
          <6> HIDE DEF T
          <6>3. T \subseteq ToServer /\ Resubscriptions \in Seq(T)
            BY <6>1, <6>2 DEF T
          <6> QED
            BY <6>3
        <5>2. sendMessage(Resubscriptions, queue, <<>>, s)
          BY <2>3, <4>2 DEF handleOnOpen
        <5>3. queue \in Seq(Requests) /\ <<>> \in Seq(Requests)
          BY DEF Data
        <5> QED
          BY <5>1, <5>2, <5>3, SendType
      <4> QED
        BY <4>1, <4>2
    <3> QED
      BY <2>1, <2>3, <3>1, <3>2 DEF handleOnOpen, Data, history, options
  <2>4. CASE handleConnectionError(s)
    <3>1. /\ retry' \in {"idle", "dialing", "waiting", "backoff"}
          /\ promise' \in {"pending", "resolved", "rejected"}
      BY <2>4, LoopData DEF handleConnectionError
    <3> QED
      BY <2>1, <2>4, <3>1 DEF handleConnectionError, Data, history, options
  <2>5. CASE handleActionError(s) \/ handleActionResponse(s)
    BY <2>1, <2>5, ZenonT(60) DEF handleActionError, handleActionResponse, TakeActionInFlight, Data,
                      loop, history, options
  <2>6. CASE dispatchEvent(s)
    BY <2>1, <2>6 DEF dispatchEvent, Data, loop, history, options
  <2>7. CASE handleOnClose(s)
    <3>1. /\ retry' \in {"idle", "dialing", "waiting", "backoff"}
          /\ promise' \in {"pending", "resolved", "rejected"}
      BY <2>7, LoopData DEF handleOnClose, connectWithRetry
    <3> QED
      BY <2>1, <2>7, <3>1 DEF handleOnClose, Data, history, options
  <2> QED
    BY <1>8, <2>2, <2>3, <2>4, <2>5, <2>6, <2>7 DEF Handle
<1>9. ASSUME NEW s \in Sockets, Opens(s) \/ Connected(s) PROVE Data'
  <2>1. down' \in [Sockets -> Seq(ToClient)]
    BY <1>9, Sent, ClientMessages DEF Opens, Connected, Data
  <2> QED
    BY <1>9, <2>1 DEF Opens, Connected, client, loop, options, history, Data
<1>10. ASSUME NEW s \in Sockets, Refused(s) \/ Drops(s) PROVE Data'
  <2>1. down' \in [Sockets -> Seq(ToClient)]
    <3>1. <<[b |-> "e"], [b |-> "close"]>> \in Seq(ToClient)
      BY ClientMessages
    <3>2. down[s] \o <<[b |-> "e"], [b |-> "close"]>> \in Seq(ToClient)
      BY <3>1 DEF Data
    <3> QED
      BY <1>10, <3>2, Sent, ClientMessages DEF Refused, Drops, Data
  <2>2. faults' \in 0..MaxFaults /\ late' \in 0..faults'
    BY <1>10 DEF Refused, Drops, Fault, Data
  <2>3. /\ server' \in [Sockets -> {"none", "up", "down"}]
        /\ up' \in [Sockets -> Seq(ToServer)]
    <3>1. up \in [Sockets -> Seq(ToServer)] /\ <<>> \in Seq(ToServer)
      BY DEF Data
    <3>2. server \in [Sockets -> {"none", "up", "down"}] /\ "down" \in {"none", "up", "down"}
      BY DEF Data
    <3>3. CASE Refused(s)
      BY <3>1, <3>2, <3>3, Replaced, Zenon DEF Refused
    <3>4. CASE Drops(s)
      BY <3>1, <3>2, <3>4, Replaced, Zenon DEF Drops
    <3> QED
      BY <1>10, <3>3, <3>4
  <2> QED
    BY <1>10, <2>1, <2>2, <2>3 DEF Refused, Drops, client, loop, options, Data
<1>11. ASSUME NEW s \in Sockets, Processes(s) PROVE Data'
  <2>1. Head(up[s]) \in ToServer /\ Tail(up[s]) \in Seq(ToServer)
    BY <1>11 DEF Processes, Data
  <2>2. up' \in [Sockets -> Seq(ToServer)]
    BY <1>11, <2>1 DEF Processes, Data
  <2>3. /\ down' \in [Sockets -> Seq(ToClient)] /\ ran' \in [ActionIds -> Nat]
        /\ subs' \in [Sockets -> SUBSET Events]
    BY <1>11, <2>1, MessageData DEF Processes
  <2>4. faults' \in 0..MaxFaults /\ late' \in 0..faults'
    BY <1>11 DEF Processes, Data
  <2>5. ran' \in [ActionIds -> 0..(MaxFaults + 1)]
    BY <2>3, <2>4, RunsBounded
  <2>6. heard' \in [Sockets -> SUBSET ToServer]
    BY <1>11, <2>1 DEF Processes, Data
  <2> QED
    BY <1>11, <2>2, <2>3, <2>4, <2>5, <2>6 DEF Processes, client, loop, options, Data
<1>17. ASSUME NEW s \in Sockets, NEW m \in heard[s], ProcessesAgain(s, m) PROVE Data'
  <2>1. m \in ToServer
    BY DEF Data
  <2>2. /\ down' \in [Sockets -> Seq(ToClient)] /\ ran' \in [ActionIds -> Nat]
        /\ subs' \in [Sockets -> SUBSET Events]
    BY <1>17, <2>1, MessageData DEF ProcessesAgain
  <2>3. faults' \in 0..MaxFaults /\ late' \in 0..faults'
    BY <1>17 DEF ProcessesAgain, Fault, Data
  <2>4. ran' \in [ActionIds -> 0..(MaxFaults + 1)]
    BY <2>2, <2>3, RunsBounded
  <2> QED
    BY <1>17, <2>2, <2>3, <2>4 DEF ProcessesAgain, client, loop, options, Data
<1>18. CASE DialFails \/ DialThrows
  <2>1. faults' \in 0..MaxFaults /\ late' \in 0..faults'
    BY <1>18 DEF DialFails, DialThrows, Fault, Data
  <2>2. /\ retry' \in {"idle", "dialing", "waiting", "backoff"}
        /\ promise' \in {"pending", "resolved", "rejected"}
    BY <1>18, LoopData DEF DialFails, DialThrows
  <2> QED
    BY <1>18, <2>1, <2>2 DEF DialFails, DialThrows, wire, options, Data
<1>12. ASSUME NEW s \in Sockets, Recycled(s) PROVE Data'
  BY <1>12 DEF Recycled, client, loop, options, history, Data
<1>13. ASSUME NEW s \in Sockets, NEW e \in Events, Broadcasts(s, e) PROVE Data'
  <2>1. down' \in [Sockets -> Seq(ToClient)]
    BY <1>13, Sent, ClientMessages DEF Broadcasts
  <2> QED
    BY <1>13, <2>1 DEF Broadcasts, client, loop, options, history, Data
<1>14. ASSUME NEW s \in Sockets, NEW fresh \in Sockets, StreamReconnects(s, fresh) PROVE Data'
  <2>1. faults' \in 0..MaxFaults /\ late' \in 0..faults' /\ socket' \in Sockets \cup {None}
    BY <1>14 DEF StreamReconnects, Fault, Data
  <2>2. /\ ready' \in [Sockets -> {"unused", "connecting", "open", "closing", "closed"}]
        /\ server' \in [Sockets -> {"none", "up", "down"}]
        /\ subs' \in [Sockets -> SUBSET Events]
    BY <1>14 DEF StreamReconnects, Data
  <2>3. down' \in [Sockets -> Seq(ToClient)] /\ up' \in [Sockets -> Seq(ToServer)]
    BY <1>14 DEF StreamReconnects, Data
  <2> QED
    BY <1>14, <2>1, <2>2, <2>3 DEF StreamReconnects, loop, options, Data
<1>15. CASE UNCHANGED vars
  BY <1>15 DEF vars, Data, loop, options, wire, history
<1> QED
  BY <1>1, <1>2, <1>3, <1>4, <1>5, <1>6, <1>7, <1>8, <1>9, <1>10, <1>11, <1>12, <1>13, <1>14,
     <1>15, <1>17, <1>18 DEF Next, on, once

-----------------------------------------------------------------------------
(* The retry loop.                                                           *)

LEMMA OnItsWayStep == IInv /\ [Next]_vars => OnItsWay'
<1> SUFFICES ASSUME IInv, [Next]_vars PROVE OnItsWay'
  OBVIOUS
<1>0. Flags /\ Data /\ OnItsWay /\ SocketStages
  BY DEF IInv, TypeOK
<1> USE <1>0
<1>1. CASE connect
  BY <1>1 DEF connect, connectWithRetry, history, OnItsWay, Flags
<1>2. CASE Backoff
  BY <1>2 DEF Backoff, wire, history, OnItsWay, Flags
<1>3. ASSUME UNCHANGED <<started, disposed, thrown, socket, loop>>, started \/ ready' = ready
      PROVE  OnItsWay'
  BY <1>3 DEF OnItsWay, loop
<1>4. CASE action
  BY <1>3, <1>4 DEF action, history
<1>5. ASSUME NEW e \in Events, NEW kind \in {"on", "once"}, addEventSubscription(e, kind)
      PROVE  OnItsWay'
  BY <1>3, <1>5 DEF addEventSubscription, history
<1>6. ASSUME NEW e \in Events, NEW kind \in listeners[e], unsubscribe(e, kind) PROVE OnItsWay'
  BY <1>3, <1>6 DEF unsubscribe, history
<1>7. CASE dispose
  BY <1>7 DEF dispose, history, OnItsWay, Flags
<1>8. ASSUME NEW p \in posts, sendHttpMessage(p) PROVE OnItsWay'
  BY <1>3, <1>8 DEF sendHttpMessage
<1>9. ASSUME NEW s \in Sockets, Dialed(s) PROVE OnItsWay'
  BY <1>9, ConstantsAssumption
  DEF Dialed, Settles, history, OnItsWay, Flags, ConstantsAssumption, Data
<1>10. ASSUME NEW s \in Sockets, down[s] # <<>> PROVE started
  BY <1>10 DEF OnItsWay, SocketStages, StageOf
<1>11. ASSUME NEW s \in Sockets, Handle(s) PROVE OnItsWay'
  <2>0. started
    BY <1>10, <1>11 DEF Handle, handleUnparsed, handleOnOpen, handleConnectionError,
            handleActionError, handleActionResponse, dispatchEvent, handleOnClose, Receives
  <2>1. CASE handleUnparsed(s)
    BY <1>3, <2>1 DEF handleUnparsed, history
  <2>2. CASE handleOnOpen(s)
    BY <2>0, <2>2 DEF handleOnOpen, SettlePromise, Settles, loop, history, OnItsWay,
                   Flags
  <2>3. CASE handleConnectionError(s)
    BY <2>0, <2>3 DEF handleConnectionError, SettlePromise, Settles, loop, history, OnItsWay,
                   Flags
  <2>4. CASE handleActionError(s) \/ handleActionResponse(s)
    BY <1>3, <2>4 DEF handleActionError, handleActionResponse, history
  <2>5. CASE dispatchEvent(s)
    BY <1>3, <2>5 DEF dispatchEvent, history
  <2>6. CASE handleOnClose(s)
    BY <2>0, <2>6 DEF handleOnClose, connectWithRetry, SettlePromise, Settles, loop, history,
       OnItsWay,
                   Flags
  <2> QED
    BY <1>11, <2>1, <2>2, <2>3, <2>4, <2>5, <2>6 DEF Handle
<1>12. ASSUME NEW s \in Sockets,
              Opens(s) \/ Connected(s) \/ Refused(s) \/ Drops(s) \/ Processes(s) \/ Recycled(s)
       PROVE  OnItsWay'
  BY <1>3, <1>12 DEF Opens, Connected, Refused, Drops, Processes, Recycled, client, history,
                     OnItsWay
<1>13. ASSUME NEW s \in Sockets, NEW e \in Events, Broadcasts(s, e) PROVE OnItsWay'
  BY <1>3, <1>13 DEF Broadcasts, client, history
<1>14. ASSUME NEW s \in Sockets, NEW fresh \in Sockets, StreamReconnects(s, fresh)
       PROVE  OnItsWay'
  BY <1>14, ConstantsAssumption DEF StreamReconnects, loop, OnItsWay, ConstantsAssumption
<1>15. CASE UNCHANGED vars
  BY <1>3, <1>15 DEF vars, wire, history
<1>16. CASE DialFails \/ DialThrows
  BY <1>16 DEF DialFails, DialThrows, Settles, wire, OnItsWay, Flags
<1>17. ASSUME NEW s \in Sockets, NEW m \in heard[s], ProcessesAgain(s, m) PROVE OnItsWay'
  BY <1>3, <1>17 DEF ProcessesAgain, client
<1> QED
  BY <1>1, <1>2, <1>4, <1>5, <1>6, <1>7, <1>8, <1>9, <1>11, <1>12, <1>13, <1>14, <1>15, <1>16,
     <1>17
  DEF Next, on, once

-----------------------------------------------------------------------------
(* What is under way to the client.                                          *)

\* What is left was there, and what is added is the message added.
LEMMA LeftOver ==
    ASSUME Data, NEW s \in Sockets, down[s] # <<>>, Received(s), NEW t \in Sockets
    PROVE  /\ \A k \in DOMAIN down'[t] : \E n \in DOMAIN down[t] : down'[t][k] = down[t][n]
           /\ down[t] = <<>> => down'[t] = <<>>
<1>1. down[s] \in Seq(ToClient) /\ down' = [down EXCEPT ![s] = Tail(down[s])]
  BY DEF Data, Received
<1>2. \A k \in DOMAIN Tail(down[s]) : k + 1 \in DOMAIN down[s] /\ Tail(down[s])[k] = down[s][k + 1]
  BY <1>1
<1>3. CASE t = s
  <2>1. down'[t] = Tail(down[s])
    BY <1>1, <1>3 DEF Data
  <2> QED
    BY <1>2, <1>3, <2>1
<1>4. CASE t # s
  BY <1>1, <1>4 DEF Data
<1> QED
  BY <1>3, <1>4

LEMMA Added ==
    ASSUME Data, NEW s \in Sockets, NEW m, Sends(s, m), NEW t \in Sockets
    PROVE  \A k \in DOMAIN down'[t] :
              \/ t = s /\ down'[t][k] = m
              \/ k \in DOMAIN down[t] /\ down'[t][k] = down[t][k]
<1>1. down[s] \in Seq(ToClient) /\ down' = [down EXCEPT ![s] = Append(down[s], m)]
  BY DEF Data, Sends
<1>2. CASE t = s
  <2>1. down'[t] = Append(down[s], m)
    BY <1>1, <1>2 DEF Data
  <2> QED
    BY <1>1, <1>2, <2>1
<1>3. CASE t # s
  BY <1>1, <1>3 DEF Data
<1> QED
  BY <1>2, <1>3

LEMMA FirstMessage ==
    ASSUME Data, NEW s \in Sockets, down[s] # <<>>
    PROVE  1 \in DOMAIN down[s] /\ Head(down[s]) = down[s][1]
  BY DEF Data

LEMMA StagesStep == IInv /\ [Next]_vars => SocketStages'
<1> SUFFICES ASSUME IInv, [Next]_vars PROVE SocketStages'
  OBVIOUS
<1>0. Data /\ SocketStages
  BY DEF IInv, TypeOK
<1> USE <1>0
<1>1. ASSUME UNCHANGED <<ready, server, conn>>,
             \A t \in Sockets :
                /\ \A k \in DOMAIN down'[t] : \E n \in DOMAIN down[t] : down'[t][k] = down[t][n]
                /\ down[t] = <<>> => down'[t] = <<>>
      PROVE  SocketStages'
  BY <1>1 DEF SocketStages, StageOf
<1>2. ASSUME UNCHANGED <<ready, server, conn, down>> PROVE SocketStages'
  BY <1>2 DEF SocketStages, StageOf
<1>3. CASE connect \/ Backoff
  BY <1>2, <1>3 DEF connect, Backoff, wire
<1>4. CASE action
  BY <1>2, <1>4 DEF action
<1>5. ASSUME NEW e \in Events, NEW kind \in {"on", "once"}, addEventSubscription(e, kind)
      PROVE  SocketStages'
  BY <1>2, <1>5 DEF addEventSubscription
<1>6. ASSUME NEW e \in Events, NEW kind \in listeners[e], unsubscribe(e, kind) PROVE SocketStages'
  BY <1>2, <1>6 DEF unsubscribe
<1>7. CASE dispose
  <2>1. CASE socket = None
    BY <1>2, <1>7, <2>1 DEF dispose
  <2>2. CASE socket # None
    <3>1. socket \in Sockets /\ conn' = conn
      BY <1>7, <2>2 DEF dispose, Data
    <3>2. /\ ready'[socket] \in {"closed", "closing"} /\ server'[socket] = "down"
          /\ \A t \in Sockets \ {socket} :
                ready'[t] = ready[t] /\ server'[t] = server[t] /\ down'[t] = down[t]
      BY <1>7, <2>2, <3>1 DEF dispose, Data
    <3> QED
      BY <3>1, <3>2 DEF SocketStages, StageOf, Data
  <2> QED
    BY <2>1, <2>2
<1>8. ASSUME NEW p \in posts, sendHttpMessage(p) PROVE SocketStages'
  BY <1>2, <1>8 DEF sendHttpMessage
<1>9. ASSUME NEW s \in Sockets, Dialed(s) PROVE SocketStages'
  <2>1. /\ ready[s] = "unused" /\ ready' = [ready EXCEPT ![s] = "connecting"]
        /\ server' = [server EXCEPT ![s] = "none"] /\ down' = down /\ conn' = conn
    BY <1>9 DEF Dialed
  <2>2. down[s] = <<>> /\ conn # s
    BY <2>1, ConstantsAssumption DEF SocketStages, StageOf, ConstantsAssumption
  <2> QED
    BY <2>1, <2>2 DEF SocketStages, StageOf, Data
<1>10. ASSUME NEW s \in Sockets, Handle(s) PROVE SocketStages'
  <2>0. down[s] # <<>> /\ Received(s)
    BY <1>10 DEF Handle, handleUnparsed, handleOnOpen, handleConnectionError, handleActionError,
                 handleActionResponse, dispatchEvent, handleOnClose, Receives
  <2>1. \A t \in Sockets :
           /\ \A k \in DOMAIN down'[t] : \E n \in DOMAIN down[t] : down'[t][k] = down[t][n]
           /\ down[t] = <<>> => down'[t] = <<>>
    BY <2>0, LeftOver
  <2>2. CASE handleUnparsed(s) \/ handleConnectionError(s)
    BY <1>1, <2>1, <2>2 DEF handleUnparsed, handleConnectionError
  <2>3. CASE handleActionError(s) \/ handleActionResponse(s) \/ dispatchEvent(s)
    BY <1>1, <2>1, <2>3 DEF handleActionError, handleActionResponse, dispatchEvent
  <2>4. CASE handleOnOpen(s)
    <3>1. ready' = ready /\ server' = server /\ conn' = s /\ Head(down[s]).b = "i"
      BY <2>4 DEF handleOnOpen, Receives
    <3>2. 1 \in DOMAIN down[s] /\ down[s][1].b = "i"
      BY <2>0, <3>1, FirstMessage
    <3>3. ready[s] \notin {"unused", "connecting"} /\ server[s] # "none"
      BY <2>0, <3>2 DEF SocketStages, StageOf
    <3> QED
      BY <2>1, <3>1, <3>3 DEF SocketStages, StageOf
  <2>5. CASE handleOnClose(s)
    <3>1. /\ ready' = [ready EXCEPT ![s] = "closed"] /\ server' = server /\ conn' = conn
          /\ Head(down[s]).b = "close"
      BY <2>5 DEF handleOnClose, Receives
    <3>2. 1 \in DOMAIN down[s] /\ down[s][1].b = "close"
      BY <2>0, <3>1, FirstMessage
    <3>3. server[s] = "down"
      BY <3>2 DEF SocketStages, StageOf
    <3> QED
      BY <2>1, <3>1, <3>3 DEF SocketStages, StageOf, Data
  <2> QED
    BY <1>10, <2>2, <2>3, <2>4, <2>5 DEF Handle
<1>11. ASSUME NEW s \in Sockets, Opens(s) PROVE SocketStages'
  BY <1>11 DEF Opens, client, SocketStages, StageOf, Data
<1>12. ASSUME NEW s \in Sockets, NEW m, Sends(s, m), m.b # "close" \/ server'[s] = "down",
              server[s] = "up" \/ ready[s] = "open" \/ m.b = "close",
              ready[s] # "unused", server'[s] \in {"up", "down"},
              \A t \in Sockets \ {s} : server'[t] = server[t],
              server[s] = "down" => server'[s] = "down",
              ready[s] = "connecting" => server'[s] = "down",
              UNCHANGED <<ready, conn>>
       PROVE  SocketStages'
  <2>1. \A t \in Sockets : \A k \in DOMAIN down'[t] :
           \/ t = s /\ down'[t][k] = m
           \/ k \in DOMAIN down[t] /\ down'[t][k] = down[t][k]
    BY <1>12, Added
  <2>2. \A t \in Sockets \ {s} : down'[t] = down[t]
    BY <1>12 DEF Sends
  <2> QED
    BY <1>12, <2>1, <2>2, SMTT(30) DEF SocketStages, StageOf, Data
<1>13. ASSUME NEW s \in Sockets, Connected(s) PROVE SocketStages'
  BY <1>12, <1>13 DEF Connected, client, Data
<1>14. ASSUME NEW s \in Sockets, Refused(s) PROVE SocketStages'
  <2>1. /\ ready[s] = "open" /\ server' = [server EXCEPT ![s] = "down"]
        /\ ready' = ready /\ conn' = conn
        /\ down' = [down EXCEPT ![s] = @ \o <<[b |-> "e"], [b |-> "close"]>>]
    BY <1>14 DEF Refused, client
  <2> QED
    BY <2>1 DEF SocketStages, StageOf, Data
<1>15. ASSUME NEW s \in Sockets, Drops(s) PROVE SocketStages'
  BY <1>12, <1>15 DEF Drops, client, Data
<1>m. ASSUME NEW s \in Sockets, NEW m, server[s] = "up", processMessage(s, m),
             UNCHANGED <<server, ready, conn>>
      PROVE  SocketStages'
  <2>1. CASE m.b = "ar"
    <3>1. PICK a \in {"ok", "error"} : Sends(s, [b |-> a, i |-> m.i])
      BY <1>m, <2>1 DEF processMessage
    <3>2. [b |-> a, i |-> m.i].b # "close"
      OBVIOUS
    <3> QED
      BY <1>12, <1>m, <3>1, <3>2 DEF SocketStages, StageOf
  <2>2. CASE m.b # "ar"
    BY <1>2, <1>m, <2>2 DEF processMessage
  <2> QED
    BY <2>1, <2>2
<1>16. ASSUME NEW s \in Sockets, Processes(s) PROVE SocketStages'
  BY <1>m, <1>16 DEF Processes, client
<1>21. ASSUME NEW s \in Sockets, NEW m \in heard[s], ProcessesAgain(s, m) PROVE SocketStages'
  BY <1>m, <1>21 DEF ProcessesAgain, client
<1>22. CASE DialFails \/ DialThrows
  BY <1>2, <1>22 DEF DialFails, DialThrows, wire
<1>17. ASSUME NEW s \in Sockets, Recycled(s) PROVE SocketStages'
  BY <1>17 DEF Recycled, client, SocketStages, StageOf, Data
<1>18. ASSUME NEW s \in Sockets, NEW e \in Events, Broadcasts(s, e) PROVE SocketStages'
  BY <1>12, <1>18 DEF Broadcasts, client, SocketStages, StageOf
<1>19. ASSUME NEW s \in Sockets, NEW fresh \in Sockets, StreamReconnects(s, fresh)
       PROVE  SocketStages'
  BY <1>19, ConstantsAssumption DEF StreamReconnects, SocketStages, StageOf, Data,
                                    ConstantsAssumption
<1>20. CASE UNCHANGED vars
  BY <1>2, <1>20 DEF vars, wire
<1> QED
  BY <1>3, <1>4, <1>5, <1>6, <1>7, <1>8, <1>9, <1>10, <1>11, <1>13, <1>14, <1>15, <1>16, <1>17,
     <1>18, <1>19, <1>20, <1>21, <1>22 DEF Next, on, once

LEMMA AnswersStep == IInv /\ [Next]_vars => AnswersAreTrue'
<1> SUFFICES ASSUME IInv, [Next]_vars PROVE AnswersAreTrue'
  OBVIOUS
<1>0. Data /\ AnswersAreTrue
  BY DEF IInv, TypeOK
<1> USE <1>0
<1>1. ASSUME UNCHANGED <<ran, outcome>>, \A t \in Sockets : heard'[t] \subseteq heard[t],
             \A t \in Sockets : \A k \in DOMAIN down'[t] :
                \/ \E n \in DOMAIN down[t] : down'[t][k] = down[t][n]
                \/ down'[t][k].b # "ok"
      PROVE  AnswersAreTrue'
  BY <1>1 DEF AnswersAreTrue
<1>2. ASSUME UNCHANGED <<ran, heard, down>>,
             \A i \in ActionIds : outcome'[i] = "ok" => outcome[i] = "ok"
      PROVE  AnswersAreTrue'
  BY <1>2 DEF AnswersAreTrue
<1>3. ASSUME UNCHANGED <<ran, outcome>>, \A t \in Sockets : heard'[t] \subseteq heard[t],
             NEW s \in Sockets, NEW m, Sends(s, m), m.b # "ok"
      PROVE  AnswersAreTrue'
  <2>1. \A t \in Sockets : \A k \in DOMAIN down'[t] :
           \/ t = s /\ down'[t][k] = m
           \/ k \in DOMAIN down[t] /\ down'[t][k] = down[t][k]
    BY <1>3, Added
  <2> QED
    BY <1>1, <1>3, <2>1
<1>4. CASE connect \/ Backoff
  BY <1>2, <1>4 DEF connect, Backoff, wire, history
<1>5. CASE action
  BY <1>2, <1>5 DEF action, history, Data
<1>6. ASSUME NEW e \in Events, NEW kind \in {"on", "once"}, addEventSubscription(e, kind)
      PROVE  AnswersAreTrue'
  BY <1>2, <1>6 DEF addEventSubscription, history
<1>7. ASSUME NEW e \in Events, NEW kind \in listeners[e], unsubscribe(e, kind)
      PROVE  AnswersAreTrue'
  BY <1>2, <1>7 DEF unsubscribe, history
<1>8. CASE dispose
  <2>1. CASE socket = None
    BY <1>2, <1>8, <2>1 DEF dispose, history
  <2>2. CASE socket # None
    <3>1. socket \in Sockets /\ down[socket] \in Seq(ToClient)
      BY <2>2 DEF Data
    <3>2. /\ \/ down' = [down EXCEPT ![socket] = <<>>]
             \/ down' = [down EXCEPT ![socket] = down[socket]]
             \/ down' = [down EXCEPT ![socket] = Append(down[socket], [b |-> "close"])]
          /\ ran' = ran /\ heard' = heard /\ outcome' = outcome
      BY <1>8, <2>2 DEF dispose, history
    <3>3. CASE down' = [down EXCEPT ![socket] = Append(down[socket], [b |-> "close"])]
      <4>1. Sends(socket, [b |-> "close"]) /\ [b |-> "close"].b # "ok"
        BY <3>3 DEF Sends
      <4> QED
        BY <1>3, <3>1, <3>2, <4>1
    <3>4. CASE down' = [down EXCEPT ![socket] = <<>>] \/ down' = [down EXCEPT ![socket] = down[socket]]
      <4>1. \A t \in Sockets : down'[t] = <<>> \/ down'[t] = down[t]
        BY <3>1, <3>4 DEF Data
      <4>2. \A t \in Sockets : \A k \in DOMAIN down'[t] : \E n \in DOMAIN down[t] :
               down'[t][k] = down[t][n]
        BY <4>1
      <4> QED
        BY <1>1, <3>2, <4>2
    <3> QED
      BY <3>2, <3>3, <3>4
  <2> QED
    BY <2>1, <2>2
<1>9. ASSUME NEW p \in posts, sendHttpMessage(p) PROVE AnswersAreTrue'
  BY <1>2, <1>9 DEF sendHttpMessage
<1>10. ASSUME NEW s \in Sockets, Dialed(s) PROVE AnswersAreTrue'
  BY <1>2, <1>10 DEF Dialed, history
<1>11. ASSUME NEW s \in Sockets, Handle(s) PROVE AnswersAreTrue'
  <2>0. down[s] # <<>> /\ Received(s)
    BY <1>11 DEF Handle, handleUnparsed, handleOnOpen, handleConnectionError, handleActionError,
                 handleActionResponse, dispatchEvent, handleOnClose, Receives
  <2>1. \A t \in Sockets : \A k \in DOMAIN down'[t] : \E n \in DOMAIN down[t] :
           down'[t][k] = down[t][n]
    BY <2>0, LeftOver
  <2>2. ran' = ran /\ heard' = heard
    BY <1>11 DEF Handle, handleUnparsed, handleOnOpen, handleConnectionError, handleActionError,
                 handleActionResponse, dispatchEvent, handleOnClose, history
  <2>3. CASE handleUnparsed(s) \/ handleOnOpen(s) \/ dispatchEvent(s) \/ handleOnClose(s)
    BY <1>1, <2>1, <2>2, <2>3 DEF handleUnparsed, handleOnOpen, dispatchEvent, handleOnClose
  <2>4. CASE handleConnectionError(s) \/ handleActionError(s)
    <3>1. \A i \in ActionIds : outcome'[i] = "ok" => outcome[i] = "ok"
      BY <2>4 DEF handleConnectionError, handleActionError, TakeActionInFlight, Data
    <3> QED
      BY <2>1, <2>2, <3>1 DEF AnswersAreTrue
  <2>5. CASE handleActionResponse(s)
    <3> DEFINE j == Head(down[s]).i
    <3>1. Head(down[s]).b = "ok" /\ Head(down[s]) \in ToClient
      BY <2>0, <2>5, Delivered DEF handleActionResponse, Receives
    <3>2. j \in ActionIds /\ Head(down[s]) = [b |-> "ok", i |-> j]
      BY <3>1, ClientMessages
    <3>3. 1 \in DOMAIN down[s] /\ down[s][1] = [b |-> "ok", i |-> j]
      BY <2>0, <3>2, FirstMessage
    <3>4. ran[j] > 0
      BY <3>2, <3>3 DEF AnswersAreTrue
    <3>5. \A i \in ActionIds : outcome'[i] = "ok" => outcome[i] = "ok" \/ i = j
      BY <2>5 DEF handleActionResponse, TakeActionInFlight, Data
    <3> QED
      BY <2>1, <2>2, <3>4, <3>5 DEF AnswersAreTrue
  <2> QED
    BY <1>11, <2>3, <2>4, <2>5 DEF Handle
<1>12. ASSUME NEW s \in Sockets, Opens(s) PROVE AnswersAreTrue'
  BY <1>2, <1>12 DEF Opens, client, history
<1>13. ASSUME NEW s \in Sockets, Connected(s) \/ Drops(s) PROVE AnswersAreTrue'
  <2>1. \A t \in Sockets : heard'[t] \subseteq heard[t]
    BY <1>13 DEF Connected, Drops, Data
  <2> QED
    BY <1>3, <1>13, <2>1 DEF Connected, Drops, client
<1>14. ASSUME NEW s \in Sockets, Refused(s) PROVE AnswersAreTrue'
  <2>1. /\ down' = [down EXCEPT ![s] = @ \o <<[b |-> "e"], [b |-> "close"]>>]
        /\ ran' = ran /\ heard' = heard /\ outcome' = outcome
    BY <1>14 DEF Refused, client
  <2> DEFINE q == <<[b |-> "e"], [b |-> "close"]>>
  <2>2. q \in Seq(ToClient) /\ \A k \in DOMAIN q : q[k].b # "ok"
    BY ClientMessages
  <2>3. down' = [down EXCEPT ![s] = @ \o q]
    BY <2>1
  <2> HIDE DEF q
  <2>4. ASSUME NEW t \in Sockets, NEW k \in DOMAIN down'[t]
        PROVE  \/ \E n \in DOMAIN down[t] : down'[t][k] = down[t][n]
               \/ down'[t][k].b # "ok"
    <3>1. CASE t # s
      BY <2>3, <3>1 DEF Data
    <3>2. CASE t = s
      <4>1. down'[t] = down[t] \o q /\ down[t] \in Seq(ToClient)
        BY <2>3, <3>2 DEF Data
      <4> QED
        BY <2>2, <4>1
    <3> QED
      BY <3>1, <3>2
  <2> QED
    BY <1>1, <2>1, <2>4
<1>m. ASSUME NEW s \in Sockets, NEW m \in ToServer, processMessage(s, m), outcome' = outcome,
             \A t \in Sockets : heard'[t] \subseteq heard[t] \cup {m}
      PROVE  AnswersAreTrue'
  <2>1. CASE m.b = "ar"
    <3> DEFINE j == m.i
    <3>1. j \in ActionIds /\ m = Request(j)
      BY <2>1, ServerMessages
    <3>2. ran' = [ran EXCEPT ![j] = @ + 1]
      BY <1>m, <2>1 DEF processMessage
    <3>3. ran'[j] > 0 /\ \A i \in ActionIds \ {j} : ran'[i] = ran[i]
      <4>1. ran \in [ActionIds -> Nat]
        BY ConstantsAssumption DEF Data, ConstantsAssumption
      <4> HIDE DEF j
      <4> QED
        BY <3>1, <3>2, <4>1
    <3>4. PICK a \in {"ok", "error"} : Sends(s, [b |-> a, i |-> j])
      BY <1>m, <2>1 DEF processMessage
    <3>5. \A t \in Sockets : \A k \in DOMAIN down'[t] :
             \/ t = s /\ down'[t][k] = [b |-> a, i |-> j]
             \/ k \in DOMAIN down[t] /\ down'[t][k] = down[t][k]
      BY <3>4, Added
    <3>6. \A i \in ActionIds \ {j} :
             [b |-> a, i |-> j] # [b |-> "ok", i |-> i] /\ Request(i) # Request(j)
      BY <3>1, Fields
    <3> HIDE DEF j
    <3> SUFFICES ASSUME NEW i \in ActionIds
                 PROVE  \/ ran'[i] > 0
                        \/ /\ outcome'[i] # "ok"
                           /\ \A t \in Sockets : Request(i) \notin heard'[t]
                           /\ \A t \in Sockets : \A k \in DOMAIN down'[t] :
                                 down'[t][k] # [b |-> "ok", i |-> i]
      BY DEF AnswersAreTrue, Request
    <3>7. CASE i = j
      BY <3>3, <3>7
    <3>8. CASE i # j /\ ran[i] > 0
      BY <3>3, <3>8
    <3>9. CASE i # j /\ ~(ran[i] > 0)
      <4>1. /\ outcome[i] # "ok"
            /\ \A t \in Sockets : Request(i) \notin heard[t]
            /\ \A t \in Sockets : \A k \in DOMAIN down[t] : down[t][k] # [b |-> "ok", i |-> i]
        BY <3>9 DEF AnswersAreTrue
      <4>2. [b |-> a, i |-> j] # [b |-> "ok", i |-> i] /\ Request(i) # m
        BY <3>1, <3>6, <3>9
      <4>3. \A t \in Sockets : Request(i) \notin heard'[t]
        BY <1>m, <4>1, <4>2
      <4> QED
        BY <1>m, <3>5, <4>1, <4>2, <4>3
    <3> QED
      BY <3>7, <3>8, <3>9
  <2>2. CASE m.b # "ar"
    <3>1. UNCHANGED <<ran, outcome, down>>
      BY <1>m, <2>2 DEF processMessage
    <3>2. \A i \in ActionIds : Request(i) # m
      BY <2>2, Fields
    <3> QED
      BY <1>m, <3>1, <3>2 DEF AnswersAreTrue, Request
  <2> QED
    BY <2>1, <2>2
<1>15. ASSUME NEW s \in Sockets, Processes(s) PROVE AnswersAreTrue'
  <2>1. Head(up[s]) \in ToServer
    BY <1>15 DEF Processes, Data
  <2>2. \A t \in Sockets : heard'[t] \subseteq heard[t] \cup {Head(up[s])}
    BY <1>15 DEF Processes, Data
  <2> QED
    BY <1>m, <1>15, <2>1, <2>2 DEF Processes, client
<1>20. ASSUME NEW s \in Sockets, NEW m \in heard[s], ProcessesAgain(s, m) PROVE AnswersAreTrue'
  <2>1. m \in ToServer
    BY DEF Data
  <2> QED
    BY <1>m, <1>20, <2>1 DEF ProcessesAgain, client
<1>21. CASE DialFails \/ DialThrows
  BY <1>2, <1>21 DEF DialFails, DialThrows, wire
<1>16. ASSUME NEW s \in Sockets, Recycled(s) PROVE AnswersAreTrue'
  BY <1>1, <1>16 DEF Recycled, client, history, Data
<1>17. ASSUME NEW s \in Sockets, NEW e \in Events, Broadcasts(s, e) PROVE AnswersAreTrue'
  BY <1>3, <1>17 DEF Broadcasts, client, history
<1>18. ASSUME NEW s \in Sockets, NEW fresh \in Sockets, StreamReconnects(s, fresh)
       PROVE  AnswersAreTrue'
  BY <1>1, <1>18 DEF StreamReconnects, Data
<1>19. CASE UNCHANGED vars
  BY <1>2, <1>19 DEF vars, wire, history
<1> QED
  BY <1>4, <1>5, <1>6, <1>7, <1>8, <1>9, <1>10, <1>11, <1>12, <1>13, <1>14, <1>15, <1>16, <1>17,
     <1>18, <1>19, <1>20, <1>21 DEF Next, on, once

-----------------------------------------------------------------------------
(* What is under way to the server.                                          *)

\* An open WebSocket is given all that is sent.
LEMMA GoesOut ==
    ASSUME Data, NEW subscriptions \in Seq(ToServer), NEW requests \in Seq(Requests), NEW kept, NEW to,
           sendMessage(subscriptions, requests, kept, to),
           transport = "websocket", Sendable
    PROVE  /\ up'[socket] = up[socket] \o (subscriptions \o requests)
           /\ posts' = posts
           /\ subscriptions \o requests \in Seq(ToServer)
           /\ up[socket] \in Seq(ToServer)
           /\ \A k \in DOMAIN (subscriptions \o requests) :
                 \/ \E n \in DOMAIN subscriptions : (subscriptions \o requests)[k] = subscriptions[n]
                 \/ (subscriptions \o requests)[k].b = "ar"
           /\ \A n \in DOMAIN subscriptions :
                 /\ n \in DOMAIN (subscriptions \o requests)
                 /\ (subscriptions \o requests)[n] = subscriptions[n]
<1>1. socket \in Sockets /\ up[socket] \in Seq(ToServer)
  BY DEF Sendable, Data
<1>2. up' = [up EXCEPT ![socket] = @ \o (subscriptions \o requests)] /\ posts' = posts
  BY DEF sendMessage
<1>3. requests \in Seq(ToServer) /\ \A n \in DOMAIN requests : requests[n].b = "ar"
  <2>1. Requests \subseteq ToServer /\ \A m \in Requests : m.b = "ar"
    BY Fields
  <2> QED
    BY <2>1
<1>4. /\ subscriptions \o requests \in Seq(ToServer)
      /\ \A n \in DOMAIN subscriptions :
            /\ n \in DOMAIN (subscriptions \o requests)
            /\ (subscriptions \o requests)[n] = subscriptions[n]
  BY <1>3
<1>5. \A k \in DOMAIN (subscriptions \o requests) :
         \/ \E n \in DOMAIN subscriptions : (subscriptions \o requests)[k] = subscriptions[n]
         \/ \E n \in DOMAIN requests : (subscriptions \o requests)[k] = requests[n]
  BY <1>3
<1>6. up'[socket] = up[socket] \o (subscriptions \o requests)
  BY <1>1, <1>2 DEF Data
<1> QED
  BY <1>1, <1>2, <1>3, <1>4, <1>5, <1>6

\* What a sequence says of an event when another is appended.
LEMMA LastWord ==
    ASSUME NEW S, NEW q \in Seq(S), NEW r \in Seq(S), NEW e, ~Unsubscribes(r, e)
    PROVE  /\ Subscribes(q, e) => Subscribes(q \o r, e)
           /\ ~Unsubscribes(q, e) => ~Unsubscribes(q \o r, e)
           /\ Subscribes(r, e) => Subscribes(q \o r, e)
<1> DEFINE yes == Subscription(e, TRUE)
           no == Subscription(e, FALSE)
<1>1. \A k \in DOMAIN r : r[k] # no
  BY DEF Unsubscribes
<1>2. Subscribes(q, e) <=> \E k \in DOMAIN q : q[k] = yes /\ \A j \in DOMAIN q : q[j] = no => j < k
  BY DEF Subscribes
<1>3. Subscribes(r, e) => \E k \in DOMAIN r : r[k] = yes
  BY DEF Subscribes
<1>4. Subscribes(q \o r, e) <=>
         \E k \in DOMAIN (q \o r) : /\ (q \o r)[k] = yes
                                    /\ \A j \in DOMAIN (q \o r) : (q \o r)[j] = no => j < k
  BY DEF Subscribes
<1>5. Unsubscribes(q, e) <=> \E j \in DOMAIN q : q[j] = no
  BY DEF Unsubscribes
<1>6. Unsubscribes(q \o r, e) <=> \E j \in DOMAIN (q \o r) : (q \o r)[j] = no
  BY DEF Unsubscribes
<1> HIDE DEF yes, no
<1>7. \A j \in DOMAIN (q \o r) : (q \o r)[j] = no => j \in DOMAIN q /\ q[j] = no
  BY <1>1
<1>8. ASSUME Subscribes(q, e) PROVE Subscribes(q \o r, e)
  <2>1. PICK k \in DOMAIN q : q[k] = yes /\ \A j \in DOMAIN q : q[j] = no => j < k
    BY <1>2, <1>8
  <2>2. k \in DOMAIN (q \o r) /\ (q \o r)[k] = yes
    BY <2>1
  <2> QED
    BY <1>4, <1>7, <2>1, <2>2
<1>9. ASSUME ~Unsubscribes(q, e) PROVE ~Unsubscribes(q \o r, e)
  BY <1>5, <1>6, <1>7, <1>9
<1>10. ASSUME Subscribes(r, e) PROVE Subscribes(q \o r, e)
  <2>1. PICK k \in DOMAIN r : r[k] = yes
    BY <1>3, <1>10
  <2>2. Len(q) + k \in DOMAIN (q \o r) /\ (q \o r)[Len(q) + k] = yes
    BY <2>1
  <2>3. \A j \in DOMAIN q : j < Len(q) + k
    BY <2>1
  <2> QED
    BY <1>4, <1>7, <2>2, <2>3
<1> QED
  BY <1>8, <1>9, <1>10

\* What a sequence says of an event when its head has been taken.
LEMMA TakenWord ==
    ASSUME NEW S, NEW q \in Seq(S), NEW e, q # <<>>
    PROVE  /\ Subscribes(q, e) =>
                 Subscribes(Tail(q), e) \/ (Head(q) = Subscription(e, TRUE) /\ ~Unsubscribes(Tail(q), e))
           /\ ~Unsubscribes(q, e) => ~Unsubscribes(Tail(q), e) /\ Head(q) # Subscription(e, FALSE)
<1> DEFINE yes == Subscription(e, TRUE)
           no == Subscription(e, FALSE)
           t == Tail(q)
<1>1. /\ t \in Seq(S) /\ Head(q) = q[1] /\ 1 \in DOMAIN q
      /\ \A k \in DOMAIN t : k + 1 \in DOMAIN q /\ t[k] = q[k + 1]
      /\ \A k \in DOMAIN q : k = 1 \/ (k - 1 \in DOMAIN t /\ t[k - 1] = q[k])
  OBVIOUS
<1>2. Subscribes(q, e) <=> \E k \in DOMAIN q : q[k] = yes /\ \A j \in DOMAIN q : q[j] = no => j < k
  BY DEF Subscribes
<1>3. Subscribes(t, e) <=> \E k \in DOMAIN t : t[k] = yes /\ \A j \in DOMAIN t : t[j] = no => j < k
  BY DEF Subscribes
<1>4. Unsubscribes(q, e) <=> \E j \in DOMAIN q : q[j] = no
  BY DEF Unsubscribes
<1>5. Unsubscribes(t, e) <=> \E j \in DOMAIN t : t[j] = no
  BY DEF Unsubscribes
<1> HIDE DEF yes, no
<1>6. DOMAIN q \subseteq Nat /\ DOMAIN t \subseteq Nat \ {0}
  BY <1>1
<1> HIDE DEF t
<1>7. ASSUME Subscribes(q, e) PROVE Subscribes(t, e) \/ (Head(q) = yes /\ ~Unsubscribes(t, e))
  <2>1. PICK k \in DOMAIN q : q[k] = yes /\ \A j \in DOMAIN q : q[j] = no => j < k
    BY <1>2, <1>7
  <2>2. \A j \in DOMAIN t : t[j] = no => j + 1 < k
    BY <1>1, <2>1
  <2>3. CASE k = 1
    BY <1>1, <1>5, <1>6, <2>1, <2>2, <2>3
  <2>4. CASE k # 1
    <3>1. k - 1 \in DOMAIN t /\ t[k - 1] = yes
      BY <1>1, <2>1, <2>4
    <3>2. \A j \in DOMAIN t : t[j] = no => j < k - 1
      BY <1>6, <2>2
    <3> QED
      BY <1>3, <3>1, <3>2
  <2> QED
    BY <2>3, <2>4
<1>8. ASSUME ~Unsubscribes(q, e) PROVE ~Unsubscribes(t, e) /\ Head(q) # no
  BY <1>1, <1>4, <1>5, <1>8
<1> QED
  BY <1>7, <1>8 DEF t, yes, no

LEMMA HearStep == IInv /\ [Next]_vars => ServerWillHear'
<1> SUFFICES ASSUME IInv, [Next]_vars, NEW s \in Sockets, NEW e \in Events, e \in Listened',
                    transport' = "websocket", socket' = s, conn' = s, ~disposed', late' = 0,
                    ready'[s] = "open", server'[s] = "up"
             PROVE  WillHear(s, e)'
  BY DEF ServerWillHear, Listened
<1>0. /\ Data /\ SocketStages /\ ServerWillHear /\ s # None
      /\ transport = "websocket" => posts = {}
  BY ConstantsAssumption DEF IInv, TypeOK, RunsLeft, ConstantsAssumption
<1> USE <1>0
<1>a. transport' = transport /\ up[s] \in Seq(ToServer)
  BY ZenonT(60)
  DEF Next, connect, Backoff, DialFails, DialThrows, ProcessesAgain, action, dispose, on, once,
     addEventSubscription, unsubscribe,
         sendHttpMessage, Dialed, Handle, handleUnparsed, handleOnOpen, handleConnectionError,
         handleActionError, handleActionResponse, dispatchEvent, handleOnClose, Opens, Connected,
         Refused, Drops, Processes, Recycled, Broadcasts, StreamReconnects, client, options, vars,
         Data
<1>b. late = 0
  <2>1. late' = late \/ late' = late + 1
    BY ZenonT(60)
    DEF Next, connect, Backoff, DialFails, DialThrows, ProcessesAgain, action, dispose, on, once,
        addEventSubscription, unsubscribe, sendHttpMessage, Dialed, Handle, handleUnparsed,
        handleOnOpen, handleConnectionError, handleActionError, handleActionResponse,
        dispatchEvent, handleOnClose, Opens, Connected, Refused, Drops, Processes, Recycled,
        Broadcasts, StreamReconnects, history, vars
  <2>2. late \in Nat
    BY ConstantsAssumption DEF Data, ConstantsAssumption
  <2> QED
    BY <2>1, <2>2
<1>1. ASSUME socket = s, conn = s, ~disposed, ready[s] = "open", server[s] = "up", e \in Listened
      PROVE  WillHear(s, e)
  BY <1>1, <1>a, <1>b DEF ServerWillHear
<1>2. ASSUME socket = s, conn = s, ~disposed, ready[s] = "open", server[s] = "up", e \in Listened,
             up'[s] = up[s], subs'[s] = subs[s]
      PROVE  WillHear(s, e)'
  BY <1>1, <1>2 DEF WillHear, Subscribes, Unsubscribes
<1>3. ASSUME socket = s, conn = s, ~disposed, ready[s] = "open", server[s] = "up", e \in Listened,
             subs'[s] = subs[s],
             NEW q \in Seq(ToServer), up'[s] = up[s] \o q, ~Unsubscribes(q, e)
      PROVE  WillHear(s, e)'
  <2>1. /\ Subscribes(up[s], e) => Subscribes(up[s] \o q, e)
        /\ ~Unsubscribes(up[s], e) => ~Unsubscribes(up[s] \o q, e)
    BY <1>3, <1>a, LastWord
  <2>2. WillHear(s, e)
    BY <1>1, <1>3
  <2>3. WillHear(s, e)' <=> Subscribes(up'[s], e) \/ (e \in subs'[s] /\ ~Unsubscribes(up'[s], e))
    BY DEF WillHear, Subscribes, Unsubscribes
  <2> QED
    BY <1>3, <2>1, <2>2, <2>3 DEF WillHear
<1>4. ASSUME NEW q \in Seq(ToServer), up'[s] = up[s] \o q, Subscribes(q, e), ~Unsubscribes(q, e)
      PROVE  WillHear(s, e)'
  <2>1. Subscribes(up[s] \o q, e)
    BY <1>4, <1>a, LastWord
  <2> QED
    BY <1>4, <2>1 DEF WillHear, Subscribes
<1>5. CASE connect \/ Backoff
  BY <1>2, <1>5 DEF connect, Backoff, wire, Listened
<1>6. CASE action
  <2>1. PICK j \in ActionIds : sendMessage(<<>>, <<Request(j)>>, queue, conn)
    BY <1>6 DEF action
  <2>2. /\ socket = s /\ conn = s /\ ~disposed /\ ready[s] = "open" /\ server[s] = "up"
        /\ e \in Listened /\ subs'[s] = subs[s]
    BY <1>6 DEF action, Call, Listened
  <2>3. <<Request(j)>> \in Seq(Requests) /\ <<>> \in Seq(ToServer)
    BY Fields
  <2>4. Sendable
    BY <2>2 DEF Sendable
  <2> DEFINE q == <<>> \o <<Request(j)>>
  <2>5. /\ up'[s] = up[s] \o q /\ q \in Seq(ToServer)
    BY <1>a, <2>1, <2>2, <2>3, <2>4, GoesOut
  <2>6. \A k \in DOMAIN q : q[k].b = "ar"
    <3> DEFINE m == Request(j)
    <3>1. m.b = "ar"
      BY Fields
    <3> HIDE DEF m
    <3>2. \A k \in DOMAIN (<<>> \o <<m>>) : (<<>> \o <<m>>)[k] = m
      OBVIOUS
    <3> QED
      BY <3>1, <3>2 DEF m
  <2> HIDE DEF q
  <2>7. ~Unsubscribes(q, e)
    BY <2>6 DEF Unsubscribes, Subscription
  <2> QED
    BY <1>3, <2>2, <2>5, <2>7
<1>7. ASSUME NEW f \in Events, NEW kind \in {"on", "once"}, addEventSubscription(f, kind)
      PROVE  WillHear(s, e)'
  <2>1. /\ socket = s /\ conn = s /\ ~disposed /\ ready[s] = "open" /\ server[s] = "up"
        /\ subs'[s] = subs[s]
        /\ e = f \/ e \in Listened
    BY <1>7 DEF addEventSubscription, Call, Listened, Data
  <2>2. CASE listeners[f] # {}
    <3>1. e \in Listened
      BY <2>1, <2>2 DEF Listened
    <3> QED
      BY <1>2, <1>7, <2>1, <2>2, <3>1 DEF addEventSubscription
  <2>3. CASE listeners[f] = {}
    <3> DEFINE q == <<Subscription(f, TRUE)>> \o <<>>
    <3>1. <<Subscription(f, TRUE)>> \in Seq(ToServer) /\ <<>> \in Seq(Requests)
      <4>1. Subscription(f, TRUE) \in ToServer
        BY ServerMessages
      <4>2. <<>> \in Seq(Requests)
        OBVIOUS
      <4> QED
        BY <4>1, <4>2, OneMessage, Zenon
    <3>2. sendMessage(<<Subscription(f, TRUE)>>, <<>>, queue, conn) /\ Sendable
      BY <1>7, <2>1, <2>3 DEF addEventSubscription, Sendable
    <3>3. up'[s] = up[s] \o q /\ q \in Seq(ToServer)
      BY <1>a, <2>1, <3>1, <3>2, GoesOut
    <3>4. DOMAIN q = {1} /\ q[1] = Subscription(f, TRUE)
      <4> DEFINE m == Subscription(f, TRUE)
      <4> HIDE DEF m
      <4>1. DOMAIN (<<m>> \o <<>>) = {1} /\ (<<m>> \o <<>>)[1] = m
        OBVIOUS
      <4> QED
        BY <4>1 DEF m
    <3> HIDE DEF q
    <3>5. ~Unsubscribes(q, e)
      BY <3>4 DEF Unsubscribes, Subscription
    <3>6. CASE e = f
      <4>1. Subscribes(q, e)
        BY <3>4, <3>6 DEF Subscribes, Subscription
      <4> QED
        BY <1>4, <3>3, <3>5, <4>1
    <3> QED
      BY <1>3, <2>1, <3>3, <3>5, <3>6
  <2> QED
    BY <2>2, <2>3
<1>8. ASSUME NEW f \in Events, NEW kind \in listeners[f], unsubscribe(f, kind)
      PROVE  WillHear(s, e)'
  <2>1. /\ socket = s /\ conn = s /\ ~disposed /\ ready[s] = "open" /\ server[s] = "up"
        /\ subs'[s] = subs[s] /\ e \in Listened
        /\ listeners[f] = {kind} => e # f
    BY <1>8 DEF unsubscribe, Call, Listened, Data
  <2>2. CASE listeners[f] # {kind}
    BY <1>2, <1>8, <2>1, <2>2 DEF unsubscribe
  <2>3. CASE listeners[f] = {kind}
    <3> DEFINE q == <<Subscription(f, FALSE)>> \o <<>>
    <3>1. <<Subscription(f, FALSE)>> \in Seq(ToServer) /\ <<>> \in Seq(Requests)
      <4>1. Subscription(f, FALSE) \in ToServer
        BY ServerMessages
      <4>2. <<>> \in Seq(Requests)
        OBVIOUS
      <4> QED
        BY <4>1, <4>2, OneMessage, Zenon
    <3>2. sendMessage(<<Subscription(f, FALSE)>>, <<>>, queue, conn) /\ Sendable
      BY <1>8, <2>1, <2>3 DEF unsubscribe, Sendable
    <3>3. up'[s] = up[s] \o q /\ q \in Seq(ToServer)
      BY <1>a, <2>1, <3>1, <3>2, GoesOut
    <3>4. DOMAIN q = {1} /\ q[1] = Subscription(f, FALSE)
      <4> DEFINE m == Subscription(f, FALSE)
      <4> HIDE DEF m
      <4>1. DOMAIN (<<m>> \o <<>>) = {1} /\ (<<m>> \o <<>>)[1] = m
        OBVIOUS
      <4> QED
        BY <4>1 DEF m
    <3> HIDE DEF q
    <3>5. ~Unsubscribes(q, e)
      BY <2>1, <2>3, <3>4 DEF Unsubscribes, Subscription
    <3> QED
      BY <1>3, <2>1, <3>3, <3>5
  <2> QED
    BY <2>2, <2>3
<1>9. CASE dispose
  BY <1>9 DEF dispose
<1>10. ASSUME NEW p \in posts, sendHttpMessage(p) PROVE WillHear(s, e)'
  BY <1>10, <1>a
<1>11. ASSUME NEW t \in Sockets, Dialed(t) PROVE WillHear(s, e)'
  BY <1>11 DEF Dialed, SocketStages, StageOf
<1>12. ASSUME NEW t \in Sockets, Handle(t) PROVE WillHear(s, e)'
  <2>1. CASE handleUnparsed(t) \/ handleConnectionError(t)
    BY <1>2, <2>1 DEF handleUnparsed, handleConnectionError, Listened
  <2>2. CASE handleActionError(t) \/ handleActionResponse(t)
    BY <1>2, <2>2 DEF handleActionError, handleActionResponse, Listened
  <2>3. CASE dispatchEvent(t)
    <3>1. e \in Listened
      BY <2>3 DEF dispatchEvent, Listened, Data
    <3> QED
      BY <1>2, <2>3, <3>1 DEF dispatchEvent
  <2>4. CASE handleOnOpen(t)
    <3>1. /\ s = t /\ socket = s /\ ~disposed /\ ready[s] = "open" /\ server[s] = "up"
          /\ e \in Listened /\ sendMessage(Resubscriptions, queue, <<>>, s)
      BY <2>4 DEF handleOnOpen, Listened
    <3>2. Sendable
      BY <3>1 DEF Sendable
    <3>3. Resubscriptions \in Seq({Subscription(f, TRUE) : f \in Events})
      BY ResubscriptionsType DEF Data
    <3>4. PICK n \in DOMAIN Resubscriptions : Resubscriptions[n] = Subscription(e, TRUE)
      BY <3>1, ResubscriptionsType DEF Data
    <3> DEFINE T == {Subscription(f, TRUE) : f \in Events}
               r == Resubscriptions
               q == r \o queue
    <3>5. T \subseteq ToServer /\ \A m \in T : m # Subscription(e, FALSE)
      <4>1. \A f \in Events : Subscription(f, TRUE) # Subscription(e, FALSE)
        BY DEF Subscription
      <4> QED
        BY <4>1, ServerMessages
    <3>6. r \in Seq(T) /\ queue \in Seq(Requests)
      BY <3>3 DEF Data
    <3> HIDE DEF T, r
    <3>7. r \in Seq(ToServer) /\ \A k \in DOMAIN r : r[k] # Subscription(e, FALSE)
      <4> DEFINE no == Subscription(e, FALSE)
      <4>1. \A m \in T : m # no
        BY <3>5
      <4> HIDE DEF no
      <4>2. \A k \in DOMAIN r : r[k] \in T
        BY <3>6
      <4>3. r \in Seq(ToServer)
        BY <3>5, <3>6
      <4> QED
        BY <4>1, <4>2, <4>3 DEF no
    <3>8. /\ up'[s] = up[s] \o q /\ q \in Seq(ToServer)
          /\ \A k \in DOMAIN q : (\E m \in DOMAIN r : q[k] = r[m]) \/ q[k].b = "ar"
          /\ n \in DOMAIN q /\ q[n] = r[n]
      <4>1. /\ sendMessage(r, queue, <<>>, s) /\ transport = "websocket" /\ Sendable /\ Data
            /\ r \in Seq(ToServer) /\ queue \in Seq(Requests) /\ socket = s /\ n \in DOMAIN r
        BY <1>a, <3>1, <3>2, <3>4, <3>6, <3>7 DEF r
      <4>2. /\ up'[socket] = up[socket] \o q /\ q \in Seq(ToServer)
            /\ \A k \in DOMAIN q : (\E m \in DOMAIN r : q[k] = r[m]) \/ q[k].b = "ar"
            /\ \A m \in DOMAIN r : m \in DOMAIN q /\ q[m] = r[m]
        BY <4>1, GoesOut, Zenon
      <4> HIDE DEF q
      <4> QED
        BY <4>1, <4>2
    <3> HIDE DEF q
    <3>9. Subscription(e, FALSE).b # "ar"
      BY DEF Subscription
    <3>10. \A k \in DOMAIN q : q[k] # Subscription(e, FALSE)
      BY <3>7, <3>8, <3>9
    <3>11. ~Unsubscribes(q, e)
      BY <3>10 DEF Unsubscribes
    <3>12. Subscribes(q, e)
      BY <3>4, <3>8, <3>10 DEF Subscribes, r
    <3> QED
      BY <1>4, <3>8, <3>11, <3>12
  <2>5. CASE handleOnClose(t)
    BY <2>5 DEF handleOnClose
  <2> QED
    BY <1>12, <2>1, <2>2, <2>3, <2>4, <2>5 DEF Handle
<1>13. ASSUME NEW t \in Sockets, Opens(t) \/ Connected(t) PROVE WillHear(s, e)'
  <2>1. t # s
    BY <1>13 DEF Opens, Connected, client, SocketStages
  <2>2. ready[s] = "open" /\ server[s] = "up"
    BY <1>13, <2>1 DEF Opens, Connected, Data
  <2> QED
    BY <1>2, <1>13, <2>2 DEF Opens, Connected, client, Listened
<1>14. ASSUME NEW t \in Sockets, Refused(t) \/ Drops(t) PROVE WillHear(s, e)'
  <2>1. t # s
    BY <1>14 DEF Refused, Drops, Data
  <2>2. up'[s] = up[s] /\ server[s] = "up"
    BY <1>14, <2>1 DEF Refused, Drops, Data
  <2> QED
    BY <1>2, <1>14, <2>2 DEF Refused, Drops, client, Listened
<1>15. ASSUME NEW t \in Sockets, Processes(t) PROVE WillHear(s, e)'
  <2>1. /\ socket = s /\ conn = s /\ ~disposed /\ ready[s] = "open" /\ server[s] = "up"
        /\ e \in Listened
    BY <1>15 DEF Processes, client, Listened
  <2>2. CASE t # s
    <3>1. up'[s] = up[s] /\ subs'[s] = subs[s]
      BY <1>15, <2>2 DEF Processes, processMessage, Data
    <3> QED
      BY <1>2, <2>1, <3>1
  <2>3. CASE t = s
    <3>1. /\ up'[s] = Tail(up[s]) /\ up[s] # <<>>
          /\ \/ Head(up[s]).b = "ar" /\ subs'[s] = subs[s]
             \/ /\ Head(up[s]).b = "sr"
                /\ subs'[s] = IF Head(up[s]).s THEN subs[s] \cup {Head(up[s]).e}
                                               ELSE subs[s] \ {Head(up[s]).e}
      BY <1>15, <2>3 DEF Processes, processMessage, Data
    <3>2. Head(up[s]) \in ToServer
      BY <1>a, <3>1
    <3>3. /\ Subscribes(up[s], e) =>
                 \/ Subscribes(Tail(up[s]), e)
                 \/ Head(up[s]) = Subscription(e, TRUE) /\ ~Unsubscribes(Tail(up[s]), e)
          /\ ~Unsubscribes(up[s], e) =>
                 ~Unsubscribes(Tail(up[s]), e) /\ Head(up[s]) # Subscription(e, FALSE)
      BY <1>a, <3>1, TakenWord
    <3>4. Head(up[s]) = Subscription(e, TRUE) => e \in subs'[s]
      BY <3>1 DEF Subscription
    <3>5. Head(up[s]) # Subscription(e, FALSE) /\ e \in subs[s] => e \in subs'[s]
      <4>1. SUFFICES ASSUME Head(up[s]).b = "sr", ~Head(up[s]).s, Head(up[s]).e = e
                     PROVE  Head(up[s]) = Subscription(e, FALSE)
        BY <3>1
      <4> QED
        BY <3>2, <4>1 DEF ToServer, Requests, Subscription
    <3>6. WillHear(s, e)
      BY <1>1, <2>1
    <3>7. WillHear(s, e)' <=>
             Subscribes(Tail(up[s]), e) \/ (e \in subs'[s] /\ ~Unsubscribes(Tail(up[s]), e))
      BY <3>1 DEF WillHear, Subscribes, Unsubscribes
    <3> QED
      BY <3>3, <3>4, <3>5, <3>6, <3>7 DEF WillHear
  <2> QED
    BY <2>2, <2>3
<1>16. ASSUME NEW t \in Sockets, Recycled(t) PROVE WillHear(s, e)'
  <2>1. t # s
    BY <1>16 DEF Recycled, Data
  <2>2. up'[s] = up[s] /\ ready[s] = "open"
    BY <1>16, <2>1 DEF Recycled, Data
  <2> QED
    BY <1>2, <1>16, <2>2 DEF Recycled, client, Listened
<1>17. ASSUME NEW t \in Sockets, NEW f \in Events, Broadcasts(t, f) PROVE WillHear(s, e)'
  BY <1>2, <1>17 DEF Broadcasts, client, Listened
<1>18. ASSUME NEW t \in Sockets, NEW fresh \in Sockets, StreamReconnects(t, fresh)
       PROVE  WillHear(s, e)'
  BY <1>18, <1>a DEF StreamReconnects
<1>19. CASE UNCHANGED vars
  BY <1>2, <1>19 DEF vars, wire, Listened
<1>20. CASE DialFails \/ DialThrows
  BY <1>2, <1>20 DEF DialFails, DialThrows, wire, Listened
<1>21. ASSUME NEW t \in Sockets, NEW m \in heard[t], ProcessesAgain(t, m) PROVE FALSE
  BY <1>b, <1>21 DEF ProcessesAgain
<1> QED
  BY <1>5, <1>6, <1>7, <1>8, <1>9, <1>10, <1>11, <1>12, <1>13, <1>14, <1>15, <1>16, <1>17, <1>18,
     <1>19, <1>20, <1>21 DEF Next, on, once

-----------------------------------------------------------------------------
(* How the places of a request change.                                       *)

LEMMA QueuePlace ==
    ASSUME NEW i, NEW q, NEW u, NEW p, NEW k \in DOMAIN q, q[k] = Request(i)
    PROVE  <<"queue", None, k>> \in PlacesIn(i, q, u, p)
  BY InPlaces DEF FromQueue

LEMMA UpPlace ==
    ASSUME NEW i, NEW q, NEW u, NEW p, NEW s \in Sockets, NEW k \in DOMAIN u[s], u[s][k] = Request(i)
    PROVE  <<"up", s, k>> \in PlacesIn(i, q, u, p)
  BY InPlaces DEF FromUp

LEMMA PostPlace ==
    ASSUME NEW i, NEW q, NEW u, NEW p, NEW s \in Sockets, [m |-> Request(i), to |-> s] \in p
    PROVE  <<"post", s, 0>> \in PlacesIn(i, q, u, p)
  BY InPlaces DEF FromPost

\* The kind of a place tells where it is from.
LEMMA KindQueue ==
    ASSUME NEW x, NEW i, NEW q, FromQueue(x, i, q)
    PROVE  /\ x[1] = "queue" /\ x = <<"queue", None, x[3]>>
           /\ x[3] \in DOMAIN q /\ q[x[3]] = Request(i)
<1>1. PICK k \in DOMAIN q : q[k] = Request(i) /\ x = <<"queue", None, k>>
  BY DEF FromQueue
<1> QED
  BY <1>1

LEMMA KindUp ==
    ASSUME NEW x, NEW i, NEW u, FromUp(x, i, u)
    PROVE  /\ x[1] = "up" /\ x = <<"up", x[2], x[3]>> /\ x[2] \in Sockets
           /\ x[3] \in DOMAIN u[x[2]] /\ u[x[2]][x[3]] = Request(i)
<1>1. PICK s \in Sockets : \E k \in DOMAIN u[s] : u[s][k] = Request(i) /\ x = <<"up", s, k>>
  BY DEF FromUp
<1>2. PICK k \in DOMAIN u[s] : u[s][k] = Request(i) /\ x = <<"up", s, k>>
  BY <1>1
<1>3. x[1] = "up" /\ x[2] = s /\ x[3] = k
  BY <1>2
<1> QED
  BY <1>2, <1>3

LEMMA KindPost ==
    ASSUME NEW x, NEW i, NEW p, FromPost(x, i, p)
    PROVE  /\ x[1] = "post" /\ x = <<"post", x[2], 0>> /\ x[2] \in Sockets
           /\ [m |-> Request(i), to |-> x[2]] \in p
<1>1. PICK s \in Sockets : [m |-> Request(i), to |-> s] \in p /\ x = <<"post", s, 0>>
  BY DEF FromPost
<1>2. x[1] = "post" /\ x[2] = s
  BY <1>1
<1> QED
  BY <1>1, <1>2

\* No more places than there were, when each comes from one of its own.
LEMMA Moved ==
    ASSUME NEW A, NEW B, IsFiniteSet(B), NEW f \in [A -> B],
           \A x, y \in A : f[x] = f[y] => x = y
    PROVE  /\ IsFiniteSet(A) /\ Cardinality(A) \in Nat /\ Cardinality(B) \in Nat
           /\ Cardinality(A) <= Cardinality(B)
<1>1. f \in Injection(A, B)
  BY DEF Injection, IsInjective
<1> QED
  BY <1>1, FS_Injection, FS_CardinalityType

LEMMA OneMore ==
    ASSUME NEW A, NEW B, NEW x, IsFiniteSet(B), A \subseteq B \cup {x}
    PROVE  /\ IsFiniteSet(A) /\ Cardinality(A) \in Nat /\ Cardinality(B) \in Nat
           /\ Cardinality(A) <= Cardinality(B) + 1
<1>1. /\ IsFiniteSet(B \cup {x}) /\ Cardinality(B) \in Nat
      /\ Cardinality(B \cup {x}) <= Cardinality(B) + 1
  BY FS_AddElement, FS_CardinalityType
<1>2. IsFiniteSet(A) /\ Cardinality(A) <= Cardinality(B \cup {x})
  BY <1>1, FS_Subset
<1> QED
  BY <1>1, <1>2, FS_CardinalityType

LEMMA NoMore ==
    ASSUME NEW A, NEW B, IsFiniteSet(B), A \subseteq B
    PROVE  /\ IsFiniteSet(A) /\ Cardinality(A) \in Nat /\ Cardinality(B) \in Nat
           /\ Cardinality(A) <= Cardinality(B)
  BY FS_Subset, FS_CardinalityType

LEMMA OneLess ==
    ASSUME NEW A, NEW B, NEW x \in B, IsFiniteSet(B), A \subseteq B \ {x}
    PROVE  /\ IsFiniteSet(A) /\ Cardinality(A) \in Nat /\ Cardinality(B) \in Nat
           /\ Cardinality(A) + 1 <= Cardinality(B)
<1>1. /\ IsFiniteSet(B \ {x}) /\ Cardinality(B) \in Nat
      /\ Cardinality(B \ {x}) = Cardinality(B) - 1
  BY FS_RemoveElement, FS_CardinalityType
<1>2. IsFiniteSet(A) /\ Cardinality(A) <= Cardinality(B \ {x})
  BY <1>1, FS_Subset
<1> QED
  BY <1>1, <1>2, FS_CardinalityType

\* The queue is put in another order.
LEMMA QueueMoves ==
    ASSUME NEW i, NEW q, NEW r, NEW u, NEW p, IsFiniteSet(PlacesIn(i, q, u, p)),
           NEW g \in [DOMAIN r -> DOMAIN q], \A k, n \in DOMAIN r : g[k] = g[n] => k = n,
           \A k \in DOMAIN r : r[k] = q[g[k]]
    PROVE  /\ IsFiniteSet(PlacesIn(i, r, u, p))
           /\ Cardinality(PlacesIn(i, r, u, p)) \in Nat /\ Cardinality(PlacesIn(i, q, u, p)) \in Nat
           /\ Cardinality(PlacesIn(i, r, u, p)) <= Cardinality(PlacesIn(i, q, u, p))
<1> DEFINE A == PlacesIn(i, r, u, p)
           B == PlacesIn(i, q, u, p)
           F(x) == IF x[1] = "queue" THEN <<"queue", None, g[x[3]]>> ELSE x
           f == [x \in A |-> F(x)]
<1>1. \A x \in A : FromQueue(x, i, r) \/ FromUp(x, i, u) \/ FromPost(x, i, p)
  BY InPlaces
<1>2. \A x : FromUp(x, i, u) \/ FromPost(x, i, p) => x \in B
  BY InPlaces
<1>3. \A k \in DOMAIN q : q[k] = Request(i) => <<"queue", None, k>> \in B
  BY QueuePlace
<1> HIDE DEF A, B
<1>4. \A x \in A : F(x) \in B
  <2> SUFFICES ASSUME NEW x \in A PROVE F(x) \in B
    OBVIOUS
  <2>1. CASE FromQueue(x, i, r)
    <3>1. x[1] = "queue" /\ x[3] \in DOMAIN r /\ r[x[3]] = Request(i)
      BY <2>1, KindQueue
    <3>2. g[x[3]] \in DOMAIN q /\ q[g[x[3]]] = Request(i)
      BY <3>1
    <3> QED
      BY <1>3, <3>1, <3>2
  <2>2. CASE FromUp(x, i, u) \/ FromPost(x, i, p)
    <3>1. x[1] # "queue" /\ x \in B
      BY <1>2, <2>2, KindUp, KindPost
    <3> QED
      BY <3>1
  <2> QED
    BY <1>1, <2>1, <2>2
<1>5. \A x \in A : x[1] = "queue" => x[3] \in DOMAIN r /\ x = <<"queue", None, x[3]>>
  <2> SUFFICES ASSUME NEW x \in A, x[1] = "queue"
               PROVE  x[3] \in DOMAIN r /\ x = <<"queue", None, x[3]>>
    OBVIOUS
  <2>1. "queue" # "up" /\ "queue" # "post"
    OBVIOUS
  <2> QED
    BY <1>1, <2>1, KindQueue, KindUp, KindPost
<1>6. ASSUME NEW x \in A, NEW y \in A, F(x) = F(y) PROVE x = y
  <2>1. CASE x[1] = "queue" /\ y[1] = "queue"
    <3>1. g[x[3]] = g[y[3]]
      BY <1>6, <2>1
    <3> QED
      BY <1>5, <2>1, <3>1
  <2>2. CASE x[1] # "queue" /\ y[1] # "queue"
    BY <1>6, <2>2
  <2>3. CASE x[1] = "queue" /\ y[1] # "queue"
    BY <1>6, <2>3
  <2>4. CASE x[1] # "queue" /\ y[1] = "queue"
    BY <1>6, <2>4
  <2> QED
    BY <2>1, <2>2, <2>3, <2>4
<1>7. f \in [A -> B] /\ \A x, y \in A : f[x] = f[y] => x = y
  BY <1>4, <1>6
<1> HIDE DEF f
<1> QED
  BY <1>7, Moved DEF A, B

LEMMA AddedInFront ==
    ASSUME NEW S, NEW i, NEW m \in S, NEW q \in Seq(S), NEW u, NEW p, IsFiniteSet(PlacesIn(i, q, u, p))
    PROVE  /\ IsFiniteSet(PlacesIn(i, <<m>> \o q, u, p))
           /\ Cardinality(PlacesIn(i, <<m>> \o q, u, p)) \in Nat
           /\ Cardinality(PlacesIn(i, q, u, p)) \in Nat
           /\ Cardinality(PlacesIn(i, <<m>> \o q, u, p)) <=
                 Cardinality(PlacesIn(i, q, u, p)) + (IF m = Request(i) THEN 1 ELSE 0)
<1> DEFINE r == q \o <<m>>
           z == <<m>> \o q
           g == [k \in DOMAIN z |-> IF k = 1 THEN Len(q) + 1 ELSE k - 1]
<1>1. /\ g \in [DOMAIN z -> DOMAIN r]
      /\ \A k, n \in DOMAIN z : g[k] = g[n] => k = n
  OBVIOUS
<1>2. \A k \in DOMAIN z : z[k] = r[g[k]]
  OBVIOUS
<1>3. /\ IsFiniteSet(PlacesIn(i, r, u, p)) /\ Cardinality(PlacesIn(i, r, u, p)) \in Nat
      /\ Cardinality(PlacesIn(i, q, u, p)) \in Nat
      /\ Cardinality(PlacesIn(i, r, u, p)) <=
            Cardinality(PlacesIn(i, q, u, p)) + (IF m = Request(i) THEN 1 ELSE 0)
  <2> DEFINE x == <<"queue", None, Len(q) + 1>>
  <2>1. \A k \in DOMAIN r : (k \in DOMAIN q /\ r[k] = q[k]) \/ (k = Len(q) + 1 /\ r[k] = m)
    OBVIOUS
  <2>2. PlacesIn(i, r, u, p) \subseteq
           PlacesIn(i, q, u, p) \cup (IF m = Request(i) THEN {x} ELSE {})
    <3> SUFFICES ASSUME NEW y \in PlacesIn(i, r, u, p)
                 PROVE  y \in PlacesIn(i, q, u, p) \cup (IF m = Request(i) THEN {x} ELSE {})
      OBVIOUS
    <3>1. ASSUME FromQueue(y, i, r)
          PROVE  y \in PlacesIn(i, q, u, p) \/ (m = Request(i) /\ y = x)
      <4>1. PICK k \in DOMAIN r : r[k] = Request(i) /\ y = <<"queue", None, k>>
        BY <3>1 DEF FromQueue
      <4>2. CASE k \in DOMAIN q /\ r[k] = q[k]
        BY <4>1, <4>2, QueuePlace
      <4>3. CASE k = Len(q) + 1 /\ r[k] = m
        BY <4>1, <4>3
      <4> QED
        BY <2>1, <4>2, <4>3
    <3>2. ASSUME FromUp(y, i, u) \/ FromPost(y, i, p) PROVE y \in PlacesIn(i, q, u, p)
      BY <3>2, InPlaces
    <3>3. FromQueue(y, i, r) \/ FromUp(y, i, u) \/ FromPost(y, i, p)
      BY InPlaces
    <3> HIDE DEF r, x
    <3> QED
      BY <3>1, <3>2, <3>3
  <2> HIDE DEF r, x
  <2>3. CASE m = Request(i)
    BY <2>2, <2>3, OneMore
  <2>4. CASE m # Request(i)
    <3>1. PlacesIn(i, r, u, p) \subseteq PlacesIn(i, q, u, p)
      BY <2>2, <2>4
    <3>2. /\ IsFiniteSet(PlacesIn(i, r, u, p)) /\ Cardinality(PlacesIn(i, r, u, p)) \in Nat
          /\ Cardinality(PlacesIn(i, q, u, p)) \in Nat
          /\ Cardinality(PlacesIn(i, r, u, p)) <= Cardinality(PlacesIn(i, q, u, p))
      BY <3>1, NoMore
    <3> QED
      BY <2>4, <3>2
  <2> QED
    BY <2>3, <2>4
<1> HIDE DEF r, z, g
<1>4. /\ IsFiniteSet(PlacesIn(i, z, u, p)) /\ Cardinality(PlacesIn(i, z, u, p)) \in Nat
      /\ Cardinality(PlacesIn(i, z, u, p)) <= Cardinality(PlacesIn(i, r, u, p))
  BY <1>1, <1>2, <1>3, QueueMoves
<1> QED
  BY <1>3, <1>4 DEF z
\* A request is put at the end of what is under way on a socket.
LEMMA AddedUp ==
    ASSUME NEW S, NEW i, NEW q, NEW u \in [Sockets -> Seq(S)], NEW p, NEW s \in Sockets, NEW m \in S,
           IsFiniteSet(PlacesIn(i, q, u, p))
    PROVE  LET v == [u EXCEPT ![s] = Append(@, m)] IN
           /\ IsFiniteSet(PlacesIn(i, q, v, p)) /\ Cardinality(PlacesIn(i, q, v, p)) \in Nat
           /\ Cardinality(PlacesIn(i, q, u, p)) \in Nat
           /\ Cardinality(PlacesIn(i, q, v, p)) <=
                 Cardinality(PlacesIn(i, q, u, p)) + (IF m = Request(i) THEN 1 ELSE 0)
<1> DEFINE v == [u EXCEPT ![s] = Append(@, m)]
           A == PlacesIn(i, q, v, p)
           B == PlacesIn(i, q, u, p)
           x == <<"up", s, Len(u[s]) + 1>>
<1>1. /\ \A t \in Sockets : t # s => v[t] = u[t]
      /\ \A k \in DOMAIN v[s] : (k \in DOMAIN u[s] /\ v[s][k] = u[s][k]) \/ (k = Len(u[s]) + 1 /\ v[s][k] = m)
  <2>1. u[s] \in Seq(S) /\ v[s] = Append(u[s], m)
    OBVIOUS
  <2> QED
    BY <2>1
<1>2. A \subseteq B \cup (IF m = Request(i) THEN {x} ELSE {})
  <2> SUFFICES ASSUME NEW y \in A PROVE y \in B \cup (IF m = Request(i) THEN {x} ELSE {})
    OBVIOUS
  <2> HIDE DEF v, x
  <2>1. FromQueue(y, i, q) \/ FromUp(y, i, v) \/ FromPost(y, i, p)
    BY InPlaces
  <2>2. ASSUME FromUp(y, i, v) PROVE y \in B \/ (m = Request(i) /\ y = x)
    <3>1. PICK t \in Sockets : \E k \in DOMAIN v[t] : v[t][k] = Request(i) /\ y = <<"up", t, k>>
      BY <2>2 DEF FromUp
    <3>2. PICK k \in DOMAIN v[t] : v[t][k] = Request(i) /\ y = <<"up", t, k>>
      BY <3>1
    <3>3. CASE k \in DOMAIN u[t] /\ v[t][k] = u[t][k]
      BY <3>2, <3>3, UpPlace
    <3>4. CASE t = s /\ k = Len(u[s]) + 1 /\ v[s][k] = m
      BY <3>2, <3>4 DEF x
    <3> QED
      BY <1>1, <3>2, <3>3, <3>4
  <2>3. ASSUME FromQueue(y, i, q) \/ FromPost(y, i, p) PROVE y \in B
    BY <2>3, InPlaces
  <2> HIDE DEF A, B
  <2> QED
    BY <2>1, <2>2, <2>3
<1> HIDE DEF v, A, B, x
<1>3. IsFiniteSet(B)
  BY DEF B
<1>4. /\ IsFiniteSet(A) /\ Cardinality(A) \in Nat /\ Cardinality(B) \in Nat
      /\ Cardinality(A) <= Cardinality(B) + (IF m = Request(i) THEN 1 ELSE 0)
  <2>1. CASE m = Request(i)
    BY <1>2, <1>3, <2>1, OneMore
  <2>2. CASE m # Request(i)
    <3>1. A \subseteq B
      BY <1>2, <2>2
    <3>2. /\ IsFiniteSet(A) /\ Cardinality(A) \in Nat /\ Cardinality(B) \in Nat
          /\ Cardinality(A) <= Cardinality(B)
      BY <1>3, <3>1, NoMore
    <3> QED
      BY <2>2, <3>2
  <2> QED
    BY <2>1, <2>2
<1> QED
  BY <1>4 DEF A, B, v

\* An HTTP message has arrived or failed.
LEMMA PostTaken ==
    ASSUME NEW i, NEW q, NEW u, NEW p, NEW d \in p, IsFiniteSet(PlacesIn(i, q, u, p)),
           NEW m, NEW s \in Sockets, d = [m |-> m, to |-> s]
    PROVE  /\ IsFiniteSet(PlacesIn(i, q, u, p \ {d}))
           /\ Cardinality(PlacesIn(i, q, u, p \ {d})) \in Nat
           /\ Cardinality(PlacesIn(i, q, u, p)) \in Nat
           /\ Cardinality(PlacesIn(i, q, u, p \ {d})) + (IF m = Request(i) THEN 1 ELSE 0) <=
                 Cardinality(PlacesIn(i, q, u, p))
<1> DEFINE A == PlacesIn(i, q, u, p \ {d})
           B == PlacesIn(i, q, u, p)
           x == <<"post", s, 0>>
<1>1. \A y \in A : FromQueue(y, i, q) \/ FromUp(y, i, u) \/ FromPost(y, i, p \ {d})
  BY InPlaces
<1>2. \A y : FromQueue(y, i, q) \/ FromUp(y, i, u) \/ FromPost(y, i, p) => y \in B
  BY InPlaces
<1>3. m = Request(i) => x \in B
  BY PostPlace
<1> HIDE DEF A, B, x
<1>4. \A y \in A : y \in B /\ (m = Request(i) => y # x)
  <2> SUFFICES ASSUME NEW y \in A PROVE y \in B /\ (m = Request(i) => y # x)
    OBVIOUS
  <2>1. CASE FromQueue(y, i, q)
    <3>1. y[1] = "queue" /\ x[1] = "post"
      BY <2>1, KindQueue DEF x
    <3> QED
      BY <1>2, <2>1, <3>1
  <2>2. CASE FromUp(y, i, u)
    <3>1. y[1] = "up" /\ x[1] = "post"
      BY <2>2, KindUp DEF x
    <3> QED
      BY <1>2, <2>2, <3>1
  <2>3. CASE FromPost(y, i, p \ {d})
    <3>1. FromPost(y, i, p)
      BY <2>3 DEF FromPost
    <3>2. [m |-> Request(i), to |-> y[2]] \in p \ {d}
      BY <2>3, KindPost
    <3>3. x[2] = s
      BY DEF x
    <3> QED
      BY <1>2, <3>1, <3>2, <3>3
  <2> QED
    BY <1>1, <2>1, <2>2, <2>3
<1>5. IsFiniteSet(B)
  BY DEF B
<1>6. /\ IsFiniteSet(A) /\ Cardinality(A) \in Nat /\ Cardinality(B) \in Nat
      /\ Cardinality(A) + (IF m = Request(i) THEN 1 ELSE 0) <= Cardinality(B)
  <2>1. CASE m = Request(i)
    <3>1. A \subseteq B \ {x} /\ x \in B
      BY <1>3, <1>4, <2>1
    <3>2. /\ IsFiniteSet(A) /\ Cardinality(A) \in Nat /\ Cardinality(B) \in Nat
          /\ Cardinality(A) + 1 <= Cardinality(B)
      BY <1>5, <3>1, OneLess
    <3> QED
      BY <2>1, <3>2
  <2>2. CASE m # Request(i)
    <3>1. A \subseteq B
      BY <1>4
    <3>2. /\ IsFiniteSet(A) /\ Cardinality(A) \in Nat /\ Cardinality(B) \in Nat
          /\ Cardinality(A) <= Cardinality(B)
      BY <1>5, <3>1, NoMore
    <3> QED
      BY <2>2, <3>2
  <2> QED
    BY <2>1, <2>2
<1> QED
  BY <1>6 DEF A, B

\* What was under way on a socket is dropped.
LEMMA UpDropped ==
    ASSUME NEW i, NEW q, NEW u, NEW v, NEW p, IsFiniteSet(PlacesIn(i, q, u, p)),
           \A t \in Sockets : v[t] = u[t] \/ v[t] = <<>>
    PROVE  /\ IsFiniteSet(PlacesIn(i, q, v, p)) /\ Cardinality(PlacesIn(i, q, v, p)) \in Nat
           /\ Cardinality(PlacesIn(i, q, u, p)) \in Nat
           /\ Cardinality(PlacesIn(i, q, v, p)) <= Cardinality(PlacesIn(i, q, u, p))
           /\ PlacesIn(i, q, v, p) \subseteq PlacesIn(i, q, u, p)
<1>1. \A y : FromUp(y, i, v) => FromUp(y, i, u)
  <2> SUFFICES ASSUME NEW y, FromUp(y, i, v) PROVE FromUp(y, i, u)
    OBVIOUS
  <2>1. PICK t \in Sockets : \E k \in DOMAIN v[t] : v[t][k] = Request(i) /\ y = <<"up", t, k>>
    BY DEF FromUp
  <2>2. v[t] # <<>>
    BY <2>1
  <2> QED
    BY <2>1, <2>2 DEF FromUp
<1>2. PlacesIn(i, q, v, p) \subseteq PlacesIn(i, q, u, p)
  BY <1>1, InPlaces
<1> QED
  BY <1>2, NoMore

\* The actor takes the first message of a socket.
LEMMA UpTaken ==
    ASSUME NEW S, NEW i, NEW q, NEW u \in [Sockets -> Seq(S)], NEW p, NEW s \in Sockets, u[s] # <<>>,
           IsFiniteSet(PlacesIn(i, q, u, p))
    PROVE  LET v == [u EXCEPT ![s] = Tail(@)] IN
           /\ IsFiniteSet(PlacesIn(i, q, v, p)) /\ Cardinality(PlacesIn(i, q, v, p)) \in Nat
           /\ Cardinality(PlacesIn(i, q, u, p)) \in Nat
           /\ Cardinality(PlacesIn(i, q, v, p)) + (IF Head(u[s]) = Request(i) THEN 1 ELSE 0) <=
                 Cardinality(PlacesIn(i, q, u, p))
<1> DEFINE v == [u EXCEPT ![s] = Tail(@)]
           A == PlacesIn(i, q, v, p)
           B == PlacesIn(i, q, u, p)
           h == <<"up", s, 1>>
           F(x) == IF x[1] = "up" /\ x[2] = s THEN <<"up", s, x[3] + 1>> ELSE x
           f == [x \in A |-> F(x)]
<1>1. /\ \A t \in Sockets : t # s => v[t] = u[t]
      /\ DOMAIN v[s] \subseteq Nat \ {0}
      /\ \A k \in DOMAIN v[s] : k + 1 \in DOMAIN u[s] /\ u[s][k + 1] = v[s][k]
      /\ 1 \in DOMAIN u[s] /\ u[s][1] = Head(u[s])
  <2>1. u[s] \in Seq(S) /\ v[s] = Tail(u[s])
    OBVIOUS
  <2> QED
    BY <2>1
<1>2. \A x \in A : FromQueue(x, i, q) \/ FromUp(x, i, v) \/ FromPost(x, i, p)
  BY InPlaces
<1>3. \A x : FromQueue(x, i, q) \/ FromPost(x, i, p) => x \in B
  BY InPlaces
<1>4. \A t \in Sockets : \A k \in DOMAIN u[t] : u[t][k] = Request(i) => <<"up", t, k>> \in B
  BY UpPlace
<1> HIDE DEF A, B, v
<1>5. \A x \in A : x[1] = "up" => /\ x = <<"up", x[2], x[3]>> /\ x[2] \in Sockets
                                  /\ x[3] \in DOMAIN v[x[2]] /\ v[x[2]][x[3]] = Request(i)
  <2> SUFFICES ASSUME NEW x \in A, x[1] = "up"
               PROVE  /\ x = <<"up", x[2], x[3]>> /\ x[2] \in Sockets
                      /\ x[3] \in DOMAIN v[x[2]] /\ v[x[2]][x[3]] = Request(i)
    OBVIOUS
  <2>1. "up" # "queue" /\ "up" # "post"
    OBVIOUS
  <2> QED
    BY <1>2, <2>1, KindQueue, KindUp, KindPost
<1>6. \A x \in A : x[1] # "up" => x \in B
  <2> SUFFICES ASSUME NEW x \in A, x[1] # "up" PROVE x \in B
    OBVIOUS
  <2> QED
    BY <1>2, <1>3, KindUp
<1>7. \A x \in A : F(x) \in B /\ F(x) # h
  <2> SUFFICES ASSUME NEW x \in A PROVE F(x) \in B /\ F(x) # h
    OBVIOUS
  <2>1. CASE x[1] = "up" /\ x[2] = s
    <3>1. x[3] \in Nat \ {0} /\ x[3] + 1 \in DOMAIN u[s] /\ u[s][x[3] + 1] = Request(i)
      BY <1>1, <1>5, <2>1
    <3>2. F(x) = <<"up", s, x[3] + 1>> /\ <<"up", s, x[3] + 1>> \in B
      BY <1>4, <2>1, <3>1
    <3> QED
      BY <3>1, <3>2
  <2>2. CASE x[1] = "up" /\ x[2] # s
    <3>1. x = <<"up", x[2], x[3]>> /\ x \in B
      BY <1>1, <1>4, <1>5, <2>2
    <3>2. h[2] = s
      OBVIOUS
    <3> QED
      BY <2>2, <3>1, <3>2
  <2>3. CASE x[1] # "up"
    <3>1. F(x) = x /\ x \in B /\ h[1] = "up"
      BY <1>6, <2>3
    <3> QED
      BY <2>3, <3>1
  <2> QED
    BY <2>1, <2>2, <2>3
<1>8. ASSUME NEW x \in A, NEW y \in A, F(x) = F(y) PROVE x = y
  <2> DEFINE here(z) == z[1] = "up" /\ z[2] = s
  <2>1. \A z \in A : here(z) => F(z)[1] = "up" /\ F(z)[2] = s /\ F(z)[3] = z[3] + 1 /\ z[3] \in Nat
                                /\ z = <<"up", s, z[3]>>
    BY <1>1, <1>5
  <2>2. \A z \in A : ~here(z) => F(z) = z
    OBVIOUS
  <2>3. CASE here(x) /\ here(y)
    <3>1. x[3] + 1 = y[3] + 1 /\ x[3] \in Nat /\ y[3] \in Nat
      BY <1>8, <2>1, <2>3
    <3>2. x[3] = y[3]
      BY <3>1
    <3> QED
      BY <2>1, <2>3, <3>2
  <2>4. CASE ~here(x) /\ ~here(y)
    BY <1>8, <2>2, <2>4
  <2> HIDE DEF F
  <2>5. CASE here(x) /\ ~here(y)
    BY <1>8, <2>1, <2>2, <2>5
  <2>6. CASE ~here(x) /\ here(y)
    BY <1>8, <2>1, <2>2, <2>6
  <2> QED
    BY <2>3, <2>4, <2>5, <2>6
<1>9. \A x, y \in A : f[x] = f[y] => x = y
  BY <1>8
<1>10. IsFiniteSet(B)
  BY DEF B
<1>11. Head(u[s]) = Request(i) => h \in B
  BY <1>1, <1>4
<1> HIDE DEF F, h
<1>12. f \in [A -> B \ {h}] /\ f \in [A -> B]
  BY <1>7
<1> HIDE DEF f
<1>13. CASE Head(u[s]) = Request(i)
  <2>1. /\ IsFiniteSet(B \ {h}) /\ Cardinality(B) \in Nat
        /\ Cardinality(B \ {h}) + 1 <= Cardinality(B)
    BY <1>10, <1>11, <1>13, OneLess
  <2>2. /\ IsFiniteSet(A) /\ Cardinality(A) \in Nat /\ Cardinality(B \ {h}) \in Nat
        /\ Cardinality(A) <= Cardinality(B \ {h})
    BY <1>9, <1>12, <2>1, Moved
  <2> QED
    BY <1>13, <2>1, <2>2 DEF A, B, v
<1>14. CASE Head(u[s]) # Request(i)
  <2>1. /\ IsFiniteSet(A) /\ Cardinality(A) \in Nat /\ Cardinality(B) \in Nat
        /\ Cardinality(A) <= Cardinality(B)
    BY <1>9, <1>10, <1>12, Moved
  <2> QED
    BY <1>14, <2>1 DEF A, B, v
<1> QED
  BY <1>13, <1>14

\* The requests at the front of the queue go out on a WebSocket.
LEMMA WentOut ==
    ASSUME NEW S, NEW i, NEW r \in Seq(S), NEW c \in Seq(S), NEW n \in Seq(S),
           \A k \in DOMAIN n : n[k] # Request(i),
           NEW u \in [Sockets -> Seq(S)], NEW p, NEW s \in Sockets,
           IsFiniteSet(PlacesIn(i, r \o c, u, p))
    PROVE  LET v == [u EXCEPT ![s] = @ \o (n \o r)] IN
           /\ IsFiniteSet(PlacesIn(i, c, v, p)) /\ Cardinality(PlacesIn(i, c, v, p)) \in Nat
           /\ Cardinality(PlacesIn(i, r \o c, u, p)) \in Nat
           /\ Cardinality(PlacesIn(i, c, v, p)) <= Cardinality(PlacesIn(i, r \o c, u, p))
<1> DEFINE v == [u EXCEPT ![s] = @ \o (n \o r)]
           z == r \o c
           A == PlacesIn(i, c, v, p)
           B == PlacesIn(i, z, u, p)
           gone(x) == x[1] = "up" /\ x[2] = s /\ x[3] \notin DOMAIN u[s]
           F(x) == IF x[1] = "queue" THEN <<"queue", None, x[3] + Len(r)>>
                   ELSE IF gone(x) THEN <<"queue", None, x[3] - (Len(u[s]) + Len(n))>> ELSE x
           f == [x \in A |-> F(x)]
<1>1. /\ \A t \in Sockets : t # s => v[t] = u[t]
      /\ DOMAIN v[s] \subseteq Nat
      /\ \A k \in DOMAIN v[s] :
            \/ k \in DOMAIN u[s] /\ u[s][k] = v[s][k]
            \/ /\ k - (Len(u[s]) + Len(n)) \in DOMAIN r
               /\ r[k - (Len(u[s]) + Len(n))] = v[s][k]
            \/ \E m \in DOMAIN n : v[s][k] = n[m]
  <2>1. u[s] \in Seq(S) /\ v[s] = u[s] \o (n \o r)
    OBVIOUS
  <2> DEFINE w == u[s]
             a == w \o (n \o r)
  <2> HIDE DEF w
  <2>2. w \in Seq(S)
    BY <2>1 DEF w
  <2>3. DOMAIN a \subseteq Nat
    BY <2>2
  <2>4. ASSUME NEW k \in DOMAIN a
        PROVE  \/ k \in DOMAIN w /\ w[k] = a[k]
               \/ k - (Len(w) + Len(n)) \in DOMAIN r /\ r[k - (Len(w) + Len(n))] = a[k]
               \/ \E m \in DOMAIN n : a[k] = n[m]
    <3>1. CASE k <= Len(w)
      BY <2>2, <3>1
    <3>2. CASE k > Len(w) + Len(n)
      <4>1. /\ k \in Nat /\ k <= Len(w) + (Len(n) + Len(r)) /\ Len(w) \in Nat
            /\ a[k] = (n \o r)[k - Len(w)]
        BY <2>2, <3>2
      <4>2. k - (Len(w) + Len(n)) \in 1..Len(r) /\ k - Len(w) \in 1..(Len(n) + Len(r))
        BY <3>2, <4>1
      <4>3. \A m \in 1..(Len(n) + Len(r)) : m > Len(n) => (n \o r)[m] = r[m - Len(n)]
        OBVIOUS
      <4>4. (k - Len(w)) - Len(n) = k - (Len(w) + Len(n)) /\ k - Len(w) > Len(n)
        BY <3>2, <4>1
      <4>5. a[k] = r[(k - Len(w)) - Len(n)]
        <5> HIDE DEF a
        <5> QED
          BY <4>1, <4>2, <4>3, <4>4
      <4>6. k - (Len(w) + Len(n)) \in DOMAIN r /\ r[k - (Len(w) + Len(n))] = a[k]
        <5> HIDE DEF a
        <5> QED
          BY <4>2, <4>4, <4>5
      <4> QED
        BY <4>6
    <3>3. CASE k > Len(w) /\ k <= Len(w) + Len(n)
      <4>1. k - Len(w) \in DOMAIN n /\ a[k] = n[k - Len(w)]
        BY <2>2, <3>3
      <4> QED
        BY <4>1
    <3> QED
      BY <2>2, <3>1, <3>2, <3>3, SMTT(30)
  <2> QED
    BY <2>1, <2>3, <2>4 DEF w
<1>2. /\ DOMAIN c \subseteq Nat \ {0} /\ Len(r) \in Nat /\ DOMAIN r = 1..Len(r)
      /\ \A k \in DOMAIN c : k + Len(r) \in DOMAIN z /\ z[k + Len(r)] = c[k]
      /\ \A k \in DOMAIN r : k \in DOMAIN z /\ z[k] = r[k]
      /\ Len(u[s]) + Len(n) \in Nat
  <2>1. u[s] \in Seq(S)
    OBVIOUS
  <2> QED
    BY <2>1
<1>3. \A x \in A : FromQueue(x, i, c) \/ FromUp(x, i, v) \/ FromPost(x, i, p)
  BY InPlaces
<1>4. \A x : FromPost(x, i, p) => x \in B
  BY InPlaces
<1>5. \A t \in Sockets : \A k \in DOMAIN u[t] : u[t][k] = Request(i) => <<"up", t, k>> \in B
  BY UpPlace
<1>6. \A k \in DOMAIN z : z[k] = Request(i) => <<"queue", None, k>> \in B
  BY QueuePlace
<1> DEFINE d == Len(u[s]) + Len(n)
<1> HIDE DEF A, B, v, z, d
<1>7. \A x \in A :
         \/ /\ x[1] = "queue" /\ x[3] \in DOMAIN c /\ x = <<"queue", None, x[3]>>
            /\ c[x[3]] = Request(i)
         \/ /\ gone(x) /\ x = <<"up", s, x[3]>> /\ x[3] \in Nat /\ x[3] - d \in DOMAIN r
            /\ r[x[3] - d] = Request(i)
         \/ x[1] # "queue" /\ ~gone(x) /\ x \in B
  <2> SUFFICES ASSUME NEW x \in A
               PROVE  \/ /\ x[1] = "queue" /\ x[3] \in DOMAIN c /\ x = <<"queue", None, x[3]>>
                         /\ c[x[3]] = Request(i)
                      \/ /\ gone(x) /\ x = <<"up", s, x[3]>> /\ x[3] \in Nat /\ x[3] - d \in DOMAIN r
                         /\ r[x[3] - d] = Request(i)
                      \/ x[1] # "queue" /\ ~gone(x) /\ x \in B
    OBVIOUS
  <2>1. CASE FromQueue(x, i, c)
    BY <2>1, KindQueue
  <2>2. CASE FromPost(x, i, p)
    <3>1. x[1] = "post" /\ x \in B
      BY <1>4, <2>2, KindPost
    <3> QED
      BY <3>1
  <2>3. CASE FromUp(x, i, v)
    <3>1. /\ x[1] = "up" /\ x = <<"up", x[2], x[3]>> /\ x[2] \in Sockets
          /\ x[3] \in DOMAIN v[x[2]] /\ v[x[2]][x[3]] = Request(i)
      BY <2>3, KindUp
    <3>2. CASE x[2] # s
      BY <1>1, <1>5, <3>1, <3>2
    <3>3. CASE x[2] = s /\ x[3] \in DOMAIN u[s]
      <4>1. u[s][x[3]] = Request(i)
        <5>1. DOMAIN u[s] = 1..Len(u[s]) /\ v[s] = u[s] \o (n \o r) /\ u[s] \in Seq(S)
          BY DEF v
        <5>2. v[s][x[3]] = u[s][x[3]]
          BY <3>3, <5>1
        <5> QED
          BY <3>1, <3>3, <5>2
      <4> QED
        BY <1>5, <3>1, <3>3, <4>1
    <3>4. CASE x[2] = s /\ x[3] \notin DOMAIN u[s]
      BY <1>1, <3>1, <3>4 DEF d
    <3> QED
      BY <3>2, <3>3, <3>4
  <2> QED
    BY <1>3, <2>1, <2>2, <2>3
<1>8. \A x \in A : F(x) \in B
  <2> SUFFICES ASSUME NEW x \in A PROVE F(x) \in B
    OBVIOUS
  <2>1. CASE x[1] = "queue" /\ x[3] \in DOMAIN c /\ c[x[3]] = Request(i)
    BY <1>2, <1>6, <2>1
  <2>2. CASE x[1] # "queue" /\ gone(x) /\ x[3] - d \in DOMAIN r /\ r[x[3] - d] = Request(i)
    BY <1>2, <1>6, <2>2 DEF d
  <2>3. CASE x[1] # "queue" /\ ~gone(x) /\ x \in B
    BY <2>3
  <2> QED
    BY <1>7, <2>1, <2>2, <2>3
<1>9. ASSUME NEW x \in A, NEW y \in A, F(x) = F(y) PROVE x = y
  <2> DEFINE waits(w) == w[1] = "queue" /\ w = <<"queue", None, w[3]>> /\ w[3] \in Nat \ {0}
             left(w) == gone(w) /\ w = <<"up", s, w[3]>> /\ w[3] \in Nat /\ w[3] - d \in 1..Len(r)
             stays(w) == w[1] # "queue" /\ ~gone(w)
  <2>1. \A w \in A : waits(w) \/ left(w) \/ stays(w)
    BY <1>2, <1>7
  <2>2. \A w : waits(w) => F(w)[1] = "queue" /\ F(w)[3] = w[3] + Len(r)
    OBVIOUS
  <2>3. \A w : left(w) => F(w)[1] = "queue" /\ F(w)[3] = w[3] - d
    BY DEF d
  <2>4. \A w : stays(w) => F(w) = w /\ w[1] # "queue"
    OBVIOUS
  <2> HIDE DEF F
  <2>5. \A a, b \in Nat : a + Len(r) = b + Len(r) => a = b
    BY <1>2
  <2>6. \A a, b \in Nat : a - d = b - d => a = b
    BY <1>2 DEF d
  <2>7. \A a \in Nat \ {0}, b \in 1..Len(r) : a + Len(r) # b
    BY <1>2
  <2>8. CASE waits(x) /\ waits(y)
    <3>1. x[3] \in Nat /\ y[3] \in Nat
      BY <2>8
    <3>2. F(x)[3] = x[3] + Len(r) /\ F(y)[3] = y[3] + Len(r)
      BY <2>2, <2>8
    <3>3. x[3] + Len(r) = y[3] + Len(r)
      BY <1>9, <3>2
    <3>4. x[3] = y[3]
      BY <2>5, <3>1, <3>3
    <3> QED
      BY <2>8, <3>4
  <2>9. CASE left(x) /\ left(y)
    <3>1. x[3] = y[3]
      BY <1>9, <2>3, <2>6, <2>9, ZenonT(60)
    <3> QED
      BY <2>9, <3>1
  <2>10. CASE waits(x) /\ left(y)
    BY <1>9, <2>2, <2>3, <2>7, <2>10
  <2>11. CASE left(x) /\ waits(y)
    BY <1>9, <2>2, <2>3, <2>7, <2>11
  <2>12. CASE stays(x) /\ stays(y)
    BY <1>9, <2>4, <2>12
  <2>13. CASE stays(x) /\ ~stays(y)
    BY <1>9, <2>1, <2>2, <2>3, <2>4, <2>13
  <2>14. CASE ~stays(x) /\ stays(y)
    BY <1>9, <2>1, <2>2, <2>3, <2>4, <2>14
  <2> QED
    BY <2>1, <2>8, <2>9, <2>10, <2>11, <2>12, <2>13, <2>14
<1>10. \A x, y \in A : f[x] = f[y] => x = y
  BY <1>9
<1>11. IsFiniteSet(B)
  BY DEF B, z
<1> HIDE DEF F
<1>12. f \in [A -> B]
  BY <1>8
<1> HIDE DEF f
<1>13. /\ IsFiniteSet(A) /\ Cardinality(A) \in Nat /\ Cardinality(B) \in Nat
       /\ Cardinality(A) <= Cardinality(B)
  BY <1>10, <1>11, <1>12, Moved
<1> QED
  BY <1>13 DEF A, B, v, z

\* The requests at the front of the queue are posted to a connection.
LEMMA Posted ==
    ASSUME NEW S, NEW i, NEW r \in Seq(S), NEW c \in Seq(S), NEW n \in Seq(S),
           \A k \in DOMAIN n : n[k] # Request(i),
           NEW u, NEW p, NEW s \in Sockets, IsFiniteSet(PlacesIn(i, r \o c, u, p))
    PROVE  LET w == p \cup [m : ToSet(n) \cup ToSet(r), to : {s}] IN
           /\ IsFiniteSet(PlacesIn(i, c, u, w)) /\ Cardinality(PlacesIn(i, c, u, w)) \in Nat
           /\ Cardinality(PlacesIn(i, r \o c, u, p)) \in Nat
           /\ Cardinality(PlacesIn(i, c, u, w)) <= Cardinality(PlacesIn(i, r \o c, u, p))
<1> DEFINE w == p \cup [m : ToSet(n) \cup ToSet(r), to : {s}]
           z == r \o c
           A == PlacesIn(i, c, u, w)
           B == PlacesIn(i, z, u, p)
           first == CHOOSE k \in DOMAIN r : r[k] = Request(i)
           F(x) == IF x[1] = "queue" THEN <<"queue", None, x[3] + Len(r)>>
                   ELSE IF x \in B THEN x ELSE <<"queue", None, first>>
           f == [x \in A |-> F(x)]
<1>1. \A t : [m |-> Request(i), to |-> t] \in w =>
               \/ [m |-> Request(i), to |-> t] \in p
               \/ t = s /\ \E k \in DOMAIN r : r[k] = Request(i)
  BY DEF ToSet
<1>2. /\ DOMAIN c \subseteq Nat \ {0} /\ Len(r) \in Nat /\ DOMAIN r = 1..Len(r)
      /\ \A k \in DOMAIN c : k + Len(r) \in DOMAIN z /\ z[k + Len(r)] = c[k]
      /\ \A k \in DOMAIN r : k \in DOMAIN z /\ z[k] = r[k]
  OBVIOUS
<1>3. \A x \in A : FromQueue(x, i, c) \/ FromUp(x, i, u) \/ FromPost(x, i, w)
  BY InPlaces
<1>4. \A x : FromUp(x, i, u) => x \in B
  BY InPlaces
<1>5. \A t \in Sockets : [m |-> Request(i), to |-> t] \in p => <<"post", t, 0>> \in B
  BY PostPlace
<1>6. \A k \in DOMAIN z : z[k] = Request(i) => <<"queue", None, k>> \in B
  BY QueuePlace
<1>7. (\E k \in DOMAIN r : r[k] = Request(i)) => first \in DOMAIN r /\ r[first] = Request(i)
  OBVIOUS
<1> HIDE DEF A, B, w, z, first
<1>8. \A x \in A :
         \/ /\ x[1] = "queue" /\ x[3] \in DOMAIN c /\ x = <<"queue", None, x[3]>>
            /\ c[x[3]] = Request(i)
         \/ x[1] # "queue" /\ x \in B
         \/ x[1] # "queue" /\ x = <<"post", s, 0>> /\ first \in DOMAIN r /\ r[first] = Request(i)
  <2> SUFFICES ASSUME NEW x \in A
               PROVE  \/ /\ x[1] = "queue" /\ x[3] \in DOMAIN c /\ x = <<"queue", None, x[3]>>
                         /\ c[x[3]] = Request(i)
                      \/ x[1] # "queue" /\ x \in B
                      \/ /\ x[1] # "queue" /\ x = <<"post", s, 0>>
                         /\ first \in DOMAIN r /\ r[first] = Request(i)
    OBVIOUS
  <2>1. CASE FromQueue(x, i, c)
    BY <2>1, KindQueue
  <2>2. CASE FromUp(x, i, u)
    <3>1. x[1] = "up" /\ x \in B
      BY <1>4, <2>2, KindUp
    <3> QED
      BY <3>1
  <2>3. CASE FromPost(x, i, w)
    <3>1. /\ x[1] = "post" /\ x = <<"post", x[2], 0>> /\ x[2] \in Sockets
          /\ [m |-> Request(i), to |-> x[2]] \in w
      BY <2>3, KindPost
    <3>2. CASE [m |-> Request(i), to |-> x[2]] \in p
      <4>1. x \in B
        BY <1>5, <3>1, <3>2
      <4> QED
        BY <3>1, <4>1
    <3>3. CASE x[2] = s /\ \E k \in DOMAIN r : r[k] = Request(i)
      BY <1>7, <3>1, <3>3
    <3> QED
      BY <1>1, <3>1, <3>2, <3>3
  <2> QED
    BY <1>3, <2>1, <2>2, <2>3
<1>9. \A x \in A : F(x) \in B
  <2> SUFFICES ASSUME NEW x \in A PROVE F(x) \in B
    OBVIOUS
  <2>1. CASE x[1] = "queue" /\ x[3] \in DOMAIN c /\ c[x[3]] = Request(i)
    BY <1>2, <1>6, <2>1
  <2>2. CASE x[1] # "queue" /\ x \in B
    BY <2>2
  <2>3. CASE x[1] # "queue" /\ first \in DOMAIN r /\ r[first] = Request(i)
    BY <1>2, <1>6, <2>3
  <2> QED
    BY <1>8, <2>1, <2>2, <2>3
<1>10. ASSUME NEW x \in A, NEW y \in A, F(x) = F(y) PROVE x = y
  <2> DEFINE waits(a) == a[1] = "queue" /\ a = <<"queue", None, a[3]>> /\ a[3] \in Nat \ {0}
             stays(a) == a[1] # "queue" /\ a \in B
             left(a) == a[1] # "queue" /\ a \notin B /\ a = <<"post", s, 0>> /\ first \in 1..Len(r)
  <2>1. \A a \in A : waits(a) \/ left(a) \/ stays(a)
    BY <1>2, <1>8
  <2>2. \A a : waits(a) => F(a)[1] = "queue" /\ F(a)[3] = a[3] + Len(r)
    OBVIOUS
  <2>3. \A a : left(a) => F(a)[1] = "queue" /\ F(a)[3] = first
    OBVIOUS
  <2>4. \A a : stays(a) => F(a) = a /\ a[1] # "queue"
    OBVIOUS
  <2> HIDE DEF F
  <2>5. \A a, b \in Nat : a + Len(r) = b + Len(r) => a = b
    BY <1>2
  <2>6. \A a \in Nat \ {0}, b \in 1..Len(r) : a + Len(r) # b
    BY <1>2
  <2>7. CASE waits(x) /\ waits(y)
    <3>1. x[3] \in Nat /\ y[3] \in Nat
      BY <2>7
    <3>2. F(x)[3] = x[3] + Len(r) /\ F(y)[3] = y[3] + Len(r)
      BY <2>2, <2>7
    <3>3. x[3] + Len(r) = y[3] + Len(r)
      BY <1>10, <3>2
    <3>4. x[3] = y[3]
      BY <2>5, <3>1, <3>3
    <3> QED
      BY <2>7, <3>4
  <2>8. CASE left(x) /\ left(y)
    BY <2>8
  <2>9. CASE waits(x) /\ left(y)
    BY <1>10, <2>2, <2>3, <2>6, <2>9
  <2>10. CASE left(x) /\ waits(y)
    BY <1>10, <2>2, <2>3, <2>6, <2>10
  <2>11. CASE stays(x) /\ stays(y)
    BY <1>10, <2>4, <2>11
  <2>12. CASE stays(x) /\ ~stays(y)
    BY <1>10, <2>1, <2>2, <2>3, <2>4, <2>12
  <2>13. CASE ~stays(x) /\ stays(y)
    BY <1>10, <2>1, <2>2, <2>3, <2>4, <2>13
  <2> QED
    BY <2>1, <2>7, <2>8, <2>9, <2>10, <2>11, <2>12, <2>13
<1>11. \A x, y \in A : f[x] = f[y] => x = y
  BY <1>10
<1>12. IsFiniteSet(B)
  BY DEF B, z
<1> HIDE DEF F
<1>13. f \in [A -> B]
  BY <1>9
<1> HIDE DEF f
<1>14. /\ IsFiniteSet(A) /\ Cardinality(A) \in Nat /\ Cardinality(B) \in Nat
       /\ Cardinality(A) <= Cardinality(B)
  BY <1>11, <1>12, <1>13, Moved
<1> QED
  BY <1>14 DEF A, B, w, z

\* #sendMessage leaves a request at no more places than it found it at.
LEMMA SendPlaces ==
    ASSUME Data, NEW i, NEW n \in Seq(ToServer), NEW r \in Seq(Requests), NEW c \in Seq(Requests),
           NEW to \in Sockets \cup {None}, \A k \in DOMAIN n : n[k] # Request(i),
           sendMessage(n, r, c, to), IsFiniteSet(PlacesIn(i, r \o c, up, posts))
    PROVE  LET A == PlacesIn(i, queue', up', posts')
               B == PlacesIn(i, r \o c, up, posts)
           IN  /\ IsFiniteSet(A) /\ Cardinality(A) \in Nat /\ Cardinality(B) \in Nat
               /\ Cardinality(A) <= Cardinality(B)
<1>1. CASE ~Sendable
  <2> DEFINE z == c \o r
             q == r \o c
             g == [k \in DOMAIN z |-> IF k <= Len(c) THEN k + Len(r) ELSE k - Len(c)]
  <2>1. /\ g \in [DOMAIN z -> DOMAIN q]
        /\ \A k \in DOMAIN z : z[k] = q[g[k]]
    OBVIOUS
  <2>2. \A k, m \in DOMAIN z : g[k] = g[m] => k = m
    OBVIOUS
  <2>3. queue' = z /\ up' = up /\ posts' = posts
    BY <1>1 DEF sendMessage
  <2> HIDE DEF z, g, q
  <2>4. /\ IsFiniteSet(PlacesIn(i, q, up, posts))
        /\ IsFiniteSet(PlacesIn(i, z, up, posts)) /\ Cardinality(PlacesIn(i, z, up, posts)) \in Nat
        /\ Cardinality(PlacesIn(i, q, up, posts)) \in Nat
        /\ Cardinality(PlacesIn(i, z, up, posts)) <= Cardinality(PlacesIn(i, q, up, posts))
    <3>1. IsFiniteSet(PlacesIn(i, q, up, posts))
      BY DEF q
    <3> QED
      BY <2>1, <2>2, <3>1, QueueMoves
  <2> QED
    BY <2>3, <2>4 DEF q
<1>2. CASE Sendable /\ transport = "websocket"
  <2>1. /\ Requests \subseteq ToServer /\ socket \in Sockets /\ up \in [Sockets -> Seq(ToServer)]
        /\ queue' = c /\ posts' = posts /\ up' = [up EXCEPT ![socket] = @ \o (n \o r)]
    BY <1>2, Fields DEF sendMessage, Sendable, Data
  <2>2. r \in Seq(ToServer) /\ c \in Seq(ToServer)
    BY <2>1
  <2> QED
    BY <2>1, <2>2, WentOut
<1>3. CASE Sendable /\ transport # "websocket" /\ to # None
  <2>1. /\ Requests \subseteq ToServer /\ to \in Sockets
        /\ queue' = c /\ up' = up /\ posts' = posts \cup [m : ToSet(n) \cup ToSet(r), to : {to}]
    BY <1>3, Fields DEF sendMessage
  <2>2. r \in Seq(ToServer) /\ c \in Seq(ToServer)
    BY <2>1
  <2> QED
    BY <2>1, <2>2, Posted
<1>4. CASE Sendable /\ transport # "websocket" /\ to = None
  <2> DEFINE a == Reverse(r)
             z == a \o c
             q == r \o c
             g == [k \in DOMAIN z |-> IF k <= Len(r) THEN (Len(r) - k) + 1 ELSE k]
  <2>1. /\ a \in Seq(Requests) /\ Len(a) = Len(r)
        /\ \A k \in 1..Len(r) : a[k] = r[(Len(r) - k) + 1]
    <3>1. \A k \in 1..Len(r) : r[(Len(r) - k) + 1] \in Requests
      OBVIOUS
    <3>2. Reverse(r) \in Seq(Requests)
      BY <3>1, SeqDef DEF Reverse
    <3>3. DOMAIN Reverse(r) = 1..Len(r)
      BY DEF Reverse
    <3> QED
      BY <3>2, <3>3 DEF Reverse
  <2> HIDE DEF a
  <2>2. /\ g \in [DOMAIN z -> DOMAIN q]
        /\ \A k \in DOMAIN z : z[k] = q[g[k]]
    <3>1. DOMAIN z = 1..(Len(r) + Len(c)) /\ DOMAIN q = 1..(Len(r) + Len(c))
      <4>1. z \in Seq(Requests) /\ Len(z) = Len(a) + Len(c)
        BY <2>1, SMTT(30)
      <4>2. q \in Seq(Requests) /\ Len(q) = Len(r) + Len(c)
        OBVIOUS
      <4> HIDE DEF z, q
      <4> QED
        BY <2>1, <4>1, <4>2
    <3>2. \A k \in 1..(Len(r) + Len(c)) :
             k <= Len(r) => (Len(r) - k) + 1 \in 1..(Len(r) + Len(c)) /\ z[k] = q[(Len(r) - k) + 1]
      <4> SUFFICES ASSUME NEW k \in 1..(Len(r) + Len(c)), k <= Len(r)
                   PROVE  /\ (Len(r) - k) + 1 \in 1..(Len(r) + Len(c))
                          /\ z[k] = q[(Len(r) - k) + 1]
        OBVIOUS
      <4>1. k \in 1..Len(r) /\ (Len(r) - k) + 1 \in 1..Len(r)
        OBVIOUS
      <4>2. z[k] = a[k] /\ a[k] = r[(Len(r) - k) + 1]
        BY <2>1, <4>1
      <4>3. \A m \in 1..Len(r) : q[m] = r[m]
        OBVIOUS
      <4> QED
        BY <4>1, <4>2, <4>3
    <3>3. \A k \in 1..(Len(r) + Len(c)) : k > Len(r) => z[k] = q[k]
      BY <2>1
    <3> HIDE DEF z, q
    <3> QED
      BY <3>1, <3>2, <3>3
  <2>3. \A k, m \in DOMAIN z : g[k] = g[m] => k = m
    BY <2>1, SMTT(30)
  <2>4. queue' = z /\ up' = up /\ posts' = posts
    BY <1>4 DEF sendMessage, a
  <2> HIDE DEF z, g, q
  <2>5. /\ IsFiniteSet(PlacesIn(i, q, up, posts))
        /\ IsFiniteSet(PlacesIn(i, z, up, posts)) /\ Cardinality(PlacesIn(i, z, up, posts)) \in Nat
        /\ Cardinality(PlacesIn(i, q, up, posts)) \in Nat
        /\ Cardinality(PlacesIn(i, z, up, posts)) <= Cardinality(PlacesIn(i, q, up, posts))
    <3>1. IsFiniteSet(PlacesIn(i, q, up, posts))
      BY DEF q
    <3> QED
      BY <2>2, <2>3, <3>1, QueueMoves
  <2> QED
    BY <2>4, <2>5 DEF q
<1> QED
  BY <1>1, <1>2, <1>3, <1>4

-----------------------------------------------------------------------------
(* Runs.                                                                     *)

(* A step that moves requests, runs them, or, for a fault, posts them once    *)
(* more or, for a late ack, runs them once more.                              *)
LEMMA RunsKept ==
    ASSUME Data, NEW i \in ActionIds, RunsOf(i), NEW d \in {0, 1},
           transport' = transport, faults' \in Nat, faults + d <= faults',
           late' \in Nat, late <= late', transport = "websocket" => late + d <= late',
           d = 1 => outcome'[i] # "none",
           outcome'[i] = "none" => outcome[i] = "none",
           ran'[i] \in Nat, IsFiniteSet(Places(i)'), Cardinality(Places(i)') \in Nat,
           Cardinality(Places(i)') + ran'[i] <= (Cardinality(Places(i)) + ran[i]) + d
    PROVE  RunsOf(i)'
<1> DEFINE A == Places(i)'
           B == Places(i)
<1>1. /\ IsFiniteSet(A) /\ Cardinality(A) \in Nat
      /\ Cardinality(A) + ran'[i] <= (Cardinality(B) + ran[i]) + d
  OBVIOUS
<1>2. /\ outcome[i] = "none" => B = {} /\ ran[i] = 0
      /\ IsFiniteSet(B) /\ Cardinality(B) + ran[i] <= Budget
  BY DEF RunsOf
<1>3. ran[i] \in Nat /\ faults \in Nat /\ late \in Nat
  BY ConstantsAssumption DEF Data, ConstantsAssumption
<1> HIDE DEF A, B
<1>4. Cardinality(B) \in Nat /\ (B = {} => Cardinality(B) = 0) /\ (Cardinality(A) = 0 => A = {})
  BY <1>1, <1>2, FS_CardinalityType, FS_EmptySet
<1>5. outcome'[i] = "none" => A = {} /\ ran'[i] = 0
  <2> SUFFICES ASSUME outcome'[i] = "none" PROVE A = {} /\ ran'[i] = 0
    OBVIOUS
  <2>1. Cardinality(B) = 0 /\ ran[i] = 0 /\ d = 0
    BY <1>2, <1>4
  <2>2. Cardinality(A) = 0 /\ ran'[i] = 0
    <3>1. \A a, b \in Nat : a + b <= 0 => a = 0 /\ b = 0
      OBVIOUS
    <3>2. Cardinality(A) + ran'[i] <= 0
      BY <1>1, <2>1
    <3> QED
      BY <1>1, <3>1, <3>2
  <2> QED
    BY <1>4, <2>2
<1>6. Budget + d <= Budget' /\ Budget \in Nat /\ Budget' \in Nat
  <2>0. \A a, b \in Nat, c \in {0, 1} :
           a + c <= b => (1 + a) + c <= 1 + b /\ 1 + a \in Nat /\ 1 + b \in Nat
    OBVIOUS
  <2>1. CASE transport = "websocket"
    <3>1. Budget = 1 + late /\ Budget' = 1 + late'
      BY <2>1 DEF Budget
    <3>2. late + d <= late' /\ late' \in Nat
      BY <2>1
    <3>3. (1 + late) + d <= 1 + late' /\ 1 + late \in Nat /\ 1 + late' \in Nat
      BY <1>3, <2>0, <3>2
    <3> QED
      BY <3>1, <3>3
  <2>2. CASE transport # "websocket"
    <3>1. Budget = 1 + faults /\ Budget' = 1 + faults'
      BY <2>2 DEF Budget
    <3>2. faults + d <= faults' /\ faults' \in Nat
      OBVIOUS
    <3>3. \A a, b \in Nat, c \in {0, 1} :
             a + c <= b => (1 + a) + c <= 1 + b /\ 1 + a \in Nat /\ 1 + b \in Nat
      OBVIOUS
    <3>4. (1 + faults) + d <= 1 + faults' /\ 1 + faults \in Nat /\ 1 + faults' \in Nat
      BY <1>3, <3>2, <3>3
    <3> QED
      BY <3>1, <3>4
  <2> QED
    BY <2>1, <2>2
<1>7. Cardinality(A) + ran'[i] <= Budget'
  BY <1>1, <1>2, <1>3, <1>4, <1>6
<1> QED
  BY <1>1, <1>5, <1>7 DEF RunsOf, A

LEMMA RunsStep == IInv /\ [Next]_vars => RunsLeft'
<1> SUFFICES ASSUME IInv, [Next]_vars PROVE RunsLeft'
  OBVIOUS
<1>a. Data /\ RunsLeft /\ ConstantsAssumption
  BY ConstantsAssumption DEF IInv, TypeOK
<1>b. /\ queue \in Seq(Requests) /\ up \in [Sockets -> Seq(ToServer)]
      /\ posts \subseteq [m : ToServer, to : Sockets]
      /\ conn \in Sockets \cup {None}
      /\ faults \in Nat /\ late \in Nat /\ \A i \in ActionIds : ran[i] \in Nat
      /\ \A i \in ActionIds : outcome[i] \in {"none", "pending", "ok", "error"}
      /\ DOMAIN outcome = ActionIds /\ DOMAIN ran = ActionIds
  BY <1>a DEF Data, ConstantsAssumption
<1>c. \A i \in ActionIds :
         /\ RunsOf(i) /\ Places(i) = PlacesIn(i, queue, up, posts)
         /\ Places(i)' = PlacesIn(i, queue', up', posts')
         /\ IsFiniteSet(Places(i)) /\ Cardinality(Places(i)) \in Nat
  BY <1>a, FS_CardinalityType DEF RunsLeft, RunsOf, Places
<1>d. /\ <<>> \in Seq(ToServer) /\ <<>> \in Seq(Requests)
      /\ <<>> \o queue = queue /\ queue \o <<>> = queue
  BY <1>b
\* What is only sent stays within bounds.
<1>e. ASSUME NEW i \in ActionIds, transport' = transport,
             faults' = faults \/ faults' = faults + 1, ran' = ran, late' = late,
             outcome'[i] = "none" => outcome[i] = "none",
             NEW B, Cardinality(B) \in Nat, Cardinality(B) <= Cardinality(Places(i)),
             /\ IsFiniteSet(Places(i)') /\ Cardinality(Places(i)') \in Nat
             /\ Cardinality(Places(i)') <= Cardinality(B)
      PROVE  RunsOf(i)'
  <2>1. /\ faults' \in Nat /\ faults + 0 <= faults' /\ ran'[i] = ran[i] /\ ran[i] \in Nat
        /\ late' \in Nat /\ late <= late' /\ late + 0 <= late'
    BY <1>b, <1>e
  <2>2. RunsOf(i) /\ Cardinality(Places(i)) \in Nat
    BY <1>c
  <2> DEFINE a == Cardinality(Places(i)')
             b == Cardinality(Places(i))
             c == Cardinality(B)
  <2>3. a \in Nat /\ b \in Nat /\ c \in Nat /\ a <= c /\ c <= b
    BY <1>e, <2>2
  <2> HIDE DEF a, b, c
  <2>4. a + ran'[i] <= (b + ran[i]) + 0
    BY <2>1, <2>3
  <2> QED
    BY <1>a, <1>e, <2>1, <2>2, <2>4, RunsKept DEF a, b
\* A step that touches no request.
<1>f. ASSUME UNCHANGED <<transport, queue, up, posts, ran, late>>,
             faults' = faults \/ faults' = faults + 1,
             \A i \in ActionIds : outcome'[i] = "none" => outcome[i] = "none"
      PROVE  RunsLeft'
  <2>1. ASSUME NEW i \in ActionIds PROVE RunsOf(i)'
    <3>1. Places(i)' = Places(i)
      BY <1>c, <1>f
    <3>2. Cardinality(Places(i)) <= Cardinality(Places(i))
      BY <1>c
    <3> QED
      BY <1>c, <1>e, <1>f, <3>1, <3>2
  <2> QED
    BY <1>a, <1>f, <2>1 DEF RunsLeft
\* A step that drops what is under way on a socket.
<1>g. ASSUME UNCHANGED <<transport, queue, posts, ran, outcome, late>>,
             faults' = faults \/ faults' = faults + 1,
             \A t \in Sockets : up'[t] = up[t] \/ up'[t] = <<>>
      PROVE  RunsLeft'
  <2>1. ASSUME NEW i \in ActionIds PROVE RunsOf(i)'
    <3>1. /\ IsFiniteSet(Places(i)') /\ Cardinality(Places(i)') \in Nat
          /\ Cardinality(Places(i)') <= Cardinality(Places(i))
      BY <1>c, <1>g, UpDropped
    <3>2. Cardinality(Places(i)) <= Cardinality(Places(i))
      BY <1>c
    <3> QED
      BY <1>c, <1>e, <1>g, <3>1, <3>2
  <2> QED
    BY <1>a, <1>g, <2>1 DEF RunsLeft
\* A step that sends what was in the queue already, and subscriptions.
<1>h. ASSUME NEW n \in Seq(ToServer), NEW r \in Seq(Requests), NEW c \in Seq(Requests),
             r \o c = queue, NEW to \in Sockets \cup {None}, sendMessage(n, r, c, to),
             \A k \in DOMAIN n : n[k].b = "sr",
             UNCHANGED <<transport, ran, outcome, faults, late>>
      PROVE  RunsLeft'
  <2>1. transport = "websocket" => posts' = posts
    BY <1>h DEF sendMessage
  <2>2. ASSUME NEW i \in ActionIds PROVE RunsOf(i)'
    <3>1. \A k \in DOMAIN n : n[k] # Request(i)
      BY <1>h, <2>2, Fields
    <3>2. /\ IsFiniteSet(Places(i)') /\ Cardinality(Places(i)') \in Nat
          /\ Cardinality(Places(i)') <= Cardinality(Places(i))
      BY <1>a, <1>c, <1>h, <3>1, SendPlaces
    <3>3. Cardinality(Places(i)) <= Cardinality(Places(i))
      BY <1>c
    <3> QED
      BY <1>c, <1>e, <1>h, <3>2, <3>3
  <2> QED
    BY <1>a, <1>h, <2>1, <2>2 DEF RunsLeft
<1>1. CASE connect \/ Backoff \/ dispose
  <2>1. UNCHANGED <<transport, queue, up, posts, ran, faults, late, outcome>>
    BY <1>1 DEF connect, Backoff, dispose, options, wire, history
  <2> QED
    BY <1>f, <2>1
<1>2. CASE action
  <2>1. PICK j \in ActionIds :
           /\ outcome[j] = "none" /\ outcome' = [outcome EXCEPT ![j] = "pending"]
           /\ sendMessage(<<>>, <<Request(j)>>, queue, conn)
    BY <1>2 DEF action
  <2>2. UNCHANGED <<transport, ran, faults, late>>
    BY <1>2 DEF action, options, history
  <2>3. transport = "websocket" => posts' = posts
    BY <2>1 DEF sendMessage
  <2>4. ASSUME NEW i \in ActionIds PROVE RunsOf(i)'
    <3> DEFINE z == <<Request(j)>> \o queue
               A == Places(i)'
               B == PlacesIn(i, z, up, posts)
               d == IF Request(j) = Request(i) THEN 1 ELSE 0
    <3>1. Request(j) \in Requests /\ <<Request(j)>> \in Seq(Requests)
      BY Fields
    <3>2. /\ IsFiniteSet(B) /\ Cardinality(B) \in Nat
          /\ Cardinality(B) <= Cardinality(Places(i)) + d
      BY <1>b, <1>c, <3>1, AddedInFront
    <3>3. \A k \in DOMAIN <<>> : <<>>[k] # Request(i)
      OBVIOUS
    <3>4. /\ IsFiniteSet(A) /\ Cardinality(A) \in Nat
          /\ Cardinality(A) <= Cardinality(B)
      BY <1>a, <1>b, <1>c, <1>d, <2>1, <3>1, <3>2, <3>3, SendPlaces
    <3> HIDE DEF A, B, z
    <3>5. CASE i = j
      <4>1. Places(i) = {} /\ ran[i] = 0 /\ outcome'[i] = "pending"
        BY <1>b, <1>c, <2>1, <3>5 DEF RunsOf
      <4>2. Cardinality(Places(i)) = 0
        BY <4>1, FS_EmptySet
      <4>3. Cardinality(A) + ran'[i] <= 1
        BY <2>2, <3>2, <3>4, <4>1, <4>2
      <4>4. Budget' \in Nat /\ 1 <= Budget'
        <5>1. Budget' = 1 + late \/ Budget' = 1 + faults
          BY <2>2, Zenon DEF Budget
        <5> QED
          BY <1>b, <5>1
      <4>5. Cardinality(A) + ran'[i] <= Budget'
        BY <2>2, <3>4, <4>1, <4>3, <4>4
      <4> QED
        BY <3>4, <4>1, <4>5 DEF RunsOf, A
    <3>6. CASE i # j
      <4>1. d = 0
        BY <3>6, Fields
      <4>2. Cardinality(B) <= Cardinality(Places(i))
        BY <1>c, <3>2, <4>1
      <4>3. outcome'[i] = outcome[i]
        BY <1>b, <2>1, <3>6
      <4> QED
        BY <1>e, <2>2, <3>2, <3>4, <4>2, <4>3 DEF A
    <3> QED
      BY <3>5, <3>6
  <2> QED
    BY <1>a, <2>2, <2>3, <2>4 DEF RunsLeft
<1>3. ASSUME NEW e \in Events, NEW o \in BOOLEAN,
             \/ sendMessage(<<Subscription(e, o)>>, <<>>, queue, conn)
             \/ UNCHANGED <<queue, up, posts>>,
             UNCHANGED <<transport, ran, outcome, faults, late>>
      PROVE  RunsLeft'
  <2> DEFINE m == Subscription(e, o)
             n == <<m>>
  <2>1. m \in ToServer /\ m.b = "sr"
    BY ServerMessages, Fields
  <2>2. \/ sendMessage(n, <<>>, queue, conn)
        \/ UNCHANGED <<queue, up, posts>>
    BY <1>3
  <2> HIDE DEF m
  <2>3. n \in Seq(ToServer) /\ \A k \in DOMAIN n : n[k].b = "sr"
    BY <2>1
  <2> HIDE DEF n
  <2>4. CASE sendMessage(n, <<>>, queue, conn)
    BY <1>3, <1>b, <1>d, <1>h, <2>3, <2>4
  <2>5. CASE UNCHANGED <<queue, up, posts>>
    BY <1>3, <1>f, <2>5
  <2> QED
    BY <2>2, <2>4, <2>5
<1>4. ASSUME NEW e \in Events, NEW kind \in {"on", "once"}, addEventSubscription(e, kind)
      PROVE  RunsLeft'
  <2>1. /\ \/ sendMessage(<<Subscription(e, TRUE)>>, <<>>, queue, conn)
           \/ UNCHANGED <<queue, up, posts>>
        /\ UNCHANGED <<transport, ran, outcome, faults, late>>
    BY <1>4, Zenon DEF addEventSubscription, options, history
  <2> QED
    BY <1>3, <2>1, Zenon
<1>5. ASSUME NEW e \in Events, NEW kind \in listeners[e], unsubscribe(e, kind) PROVE RunsLeft'
  <2>1. /\ \/ sendMessage(<<Subscription(e, FALSE)>>, <<>>, queue, conn)
           \/ UNCHANGED <<queue, up, posts>>
        /\ UNCHANGED <<transport, ran, outcome, faults, late>>
    BY <1>5, Zenon DEF unsubscribe, options, history
  <2> QED
    BY <1>3, <2>1, Zenon
<1>6. ASSUME NEW p \in posts, sendHttpMessage(p) PROVE RunsLeft'
  <2>1. /\ p \in posts /\ posts' = posts \ {p}
        /\ UNCHANGED <<transport, ran, outcome, late>>
        /\ transport # "websocket"
    BY <1>6, <1>a DEF sendHttpMessage, options, RunsLeft
  <2>2. PICK m \in ToServer, t \in Sockets : p = [m |-> m, to |-> t]
    BY <1>b
  <2>3. p.m = m /\ p.to = t
    BY <2>2
  <2>4. /\ up' = up \/ up' = [up EXCEPT ![t] = Append(@, m)]
        /\ \/ queue' = queue /\ faults' = faults
           \/ queue' = Queueable(m) \o queue /\ faults' = faults /\ up' = up
           \/ queue' = Queueable(m) \o queue /\ faults' = faults + 1
    BY <1>6, <2>3 DEF sendHttpMessage, Fault
  <2>5. ASSUME NEW i \in ActionIds PROVE RunsOf(i)'
    <3> DEFINE d == IF m = Request(i) THEN 1 ELSE 0
               Z == Places(i)
               A == PlacesIn(i, queue, up, posts')
               B == PlacesIn(i, queue, up', posts')
               C == Places(i)'
    <3>1. /\ IsFiniteSet(A) /\ Cardinality(A) \in Nat /\ Cardinality(Z) \in Nat
          /\ Cardinality(A) + d <= Cardinality(Z)
      BY <1>c, <2>1, <2>2, PostTaken
    <3>2. /\ IsFiniteSet(B) /\ Cardinality(B) \in Nat
          /\ Cardinality(B) <= Cardinality(A) + (IF up' = up THEN 0 ELSE d)
      <4>1. CASE up' = up
        BY <3>1, <4>1
      <4>2. CASE up' # up
        <5>1. up' = [up EXCEPT ![t] = Append(@, m)]
          BY <2>4, <4>2
        <5> HIDE DEF A
        <5>2. IsFiniteSet(A) /\ A = PlacesIn(i, queue, up, posts')
          BY <3>1 DEF A
        <5> QED
          BY <1>b, <4>2, <5>1, <5>2, AddedUp
      <4> QED
        BY <4>1, <4>2
    <3>3. /\ IsFiniteSet(C) /\ Cardinality(C) \in Nat
          /\ Cardinality(C) <= Cardinality(B) + (IF queue' = queue THEN 0 ELSE d)
      <4>1. C = PlacesIn(i, queue', up', posts')
        BY <1>c
      <4>2. CASE queue' = queue
        BY <3>2, <4>1, <4>2
      <4>3. CASE queue' # queue
        <5>1. queue' = Queueable(m) \o queue
          BY <2>4, <4>3
        <5>2. m.b = "ar"
          BY <1>d, <4>3, <5>1 DEF Queueable
        <5>3. m \in Requests /\ queue' = <<m>> \o queue
          BY <5>1, <5>2, ServerMessages DEF Queueable
        <5> HIDE DEF B
        <5>4. IsFiniteSet(B) /\ B = PlacesIn(i, queue, up', posts')
          BY <3>2 DEF B
        <5> QED
          BY <1>b, <4>1, <4>3, <5>3, <5>4, AddedInFront
      <4> QED
        BY <4>2, <4>3
    <3>4. d \in {0, 1}
      OBVIOUS
    <3> HIDE DEF d, Z, A, B, C
    <3>5. d = 1 => outcome'[i] # "none"
      <4> SUFFICES ASSUME d = 1 PROVE outcome[i] # "none"
        BY <2>1
      <4>1. Cardinality(Z) # 0
        BY <3>1
      <4>2. Z # {}
        BY <4>1, FS_EmptySet
      <4> QED
        BY <1>c, <4>2 DEF RunsOf, Z
    <3>6. ran'[i] = ran[i] /\ ran[i] \in Nat
      BY <1>b, <2>1
    <3>7. CASE faults' = faults + 1
      <4>1. Cardinality(C) <= Cardinality(Z) + d
        BY <3>1, <3>2, <3>3, <3>4
      <4>2. Cardinality(C) + ran'[i] <= (Cardinality(Z) + ran[i]) + d
        BY <3>1, <3>3, <3>4, <3>6, <4>1
      <4>3. /\ faults' \in Nat /\ faults + d <= faults'
            /\ late' \in Nat /\ late <= late'
        BY <1>b, <2>1, <3>4, <3>7
      <4> QED
        BY <1>a, <1>c, <2>1, <3>1, <3>3, <3>4, <3>5, <3>6, <4>2, <4>3, RunsKept DEF C, Z
    <3>8. CASE faults' = faults
      <4>1. up' = up \/ queue' = queue
        BY <2>4, <3>8, <1>b
      <4>2. Cardinality(C) <= Cardinality(Z)
        BY <3>1, <3>2, <3>3, <3>4, <4>1
      <4> QED
        BY <1>c, <1>e, <2>1, <3>1, <3>3, <3>8, <4>2 DEF C, Z
    <3> QED
      BY <2>4, <3>7, <3>8
  <2> QED
    BY <1>a, <2>1, <2>5 DEF RunsLeft
<1>7. ASSUME NEW s \in Sockets, Dialed(s) PROVE RunsLeft'
  <2>1. UNCHANGED <<transport, queue, up, posts, ran, faults, late, outcome>>
    BY <1>7 DEF Dialed, options, history
  <2> QED
    BY <1>f, <2>1
<1>8. ASSUME NEW s \in Sockets, Handle(s) PROVE RunsLeft'
  <2>1. CASE handleUnparsed(s) \/ dispatchEvent(s) \/ handleOnClose(s)
    <3>1. UNCHANGED <<transport, queue, up, posts, ran, faults, late, outcome>>
      BY <2>1 DEF handleUnparsed, dispatchEvent, handleOnClose, options, history
    <3> QED
      BY <1>f, <3>1
  <2>2. CASE handleConnectionError(s) \/ handleActionError(s) \/ handleActionResponse(s)
    <3>1. /\ UNCHANGED <<transport, queue, up, posts, ran, faults, late>>
          /\ \A i \in ActionIds : outcome'[i] = "none" => outcome[i] = "none"
      BY <1>b, <2>2 DEF handleConnectionError, handleActionError, handleActionResponse,
                         TakeActionInFlight, options, history
    <3> QED
      BY <1>f, <3>1
  <2>3. CASE handleOnOpen(s)
    <3>1. UNCHANGED <<transport, ran, faults, late, outcome>>
      BY <2>3 DEF handleOnOpen, options, history
    <3>2. CASE disposed
      <4>1. UNCHANGED <<queue, up, posts>>
        BY <2>3, <3>2 DEF handleOnOpen
      <4> QED
        BY <1>f, <3>1, <4>1
    <3>3. CASE ~disposed
      <4>1. sendMessage(Resubscriptions, queue, <<>>, s)
        BY <2>3, <3>3 DEF handleOnOpen
      <4> DEFINE n == Resubscriptions
                 T == {Subscription(e, TRUE) : e \in Events}
      <4>2. n \in Seq(T)
        BY <1>a, ResubscriptionsType DEF Data
      <4>3. T \subseteq ToServer /\ \A m \in T : m.b = "sr"
        <5>1. \A e \in Events : Subscription(e, TRUE) \in ToServer /\ Subscription(e, TRUE).b = "sr"
          BY ServerMessages, Fields, Zenon
        <5> QED
          BY <5>1
      <4>4. sendMessage(n, queue, <<>>, s)
        BY <4>1
      <4> HIDE DEF T, n
      <4>5. n \in Seq(ToServer) /\ \A k \in DOMAIN n : n[k].b = "sr"
        BY <4>2, <4>3
      <4> QED
        BY <1>b, <1>d, <1>h, <3>1, <4>4, <4>5
    <3> QED
      BY <3>2, <3>3
  <2> QED
    BY <1>8, <2>1, <2>2, <2>3 DEF Handle
<1>9. ASSUME NEW s \in Sockets, Opens(s) \/ Connected(s) \/ Refused(s) PROVE RunsLeft'
  <2>1. /\ UNCHANGED <<transport, queue, up, posts, ran, outcome, late>>
        /\ faults' = faults \/ faults' = faults + 1
    BY <1>9 DEF Opens, Connected, Refused, Fault, client, options, history
  <2> QED
    BY <1>f, <2>1
<1>10. ASSUME NEW s \in Sockets, Drops(s) \/ Recycled(s) PROVE RunsLeft'
  <2>1. /\ UNCHANGED <<transport, queue, posts, ran, outcome, late>>
        /\ faults' = faults \/ faults' = faults + 1
        /\ up' = [up EXCEPT ![s] = <<>>]
    BY <1>10 DEF Drops, Recycled, Fault, client, options, history
  <2>2. \A t \in Sockets : up'[t] = up[t] \/ up'[t] = <<>>
    BY <1>b, <2>1
  <2> QED
    BY <1>g, <2>1, <2>2
<1>11. ASSUME NEW s \in Sockets, NEW fresh \in Sockets, StreamReconnects(s, fresh)
       PROVE  RunsLeft'
  <2>1. /\ UNCHANGED <<transport, queue, posts, ran, outcome, late>>
        /\ faults' = faults + 1
        /\ up' = [up EXCEPT ![s] = <<>>]
    BY <1>11 DEF StreamReconnects, Fault, options
  <2>2. \A t \in Sockets : up'[t] = up[t] \/ up'[t] = <<>>
    BY <1>b, <2>1
  <2> QED
    BY <1>g, <2>1, <2>2
<1>12. ASSUME NEW s \in Sockets, Processes(s) PROVE RunsLeft'
  <2> DEFINE m == Head(up[s])
  <2>1. /\ up[s] # <<>> /\ up' = [up EXCEPT ![s] = Tail(@)]
        /\ UNCHANGED <<transport, queue, posts, faults, late, outcome>>
        /\ \/ m.b = "ar" /\ ran' = [ran EXCEPT ![m.i] = @ + 1]
           \/ m.b = "sr" /\ ran' = ran
    BY <1>12 DEF Processes, processMessage, client, options
  <2>2. m \in ToServer
    BY <1>b, <2>1
  <2> HIDE DEF m
  <2>3. m.b = "ar" => m.i \in ActionIds /\ m = Request(m.i)
    BY <2>2, ServerMessages
  <2>4. ASSUME NEW i \in ActionIds PROVE RunsOf(i)'
    <3> DEFINE A == Places(i)'
               d == IF m = Request(i) THEN 1 ELSE 0
    <3>1. /\ IsFiniteSet(A) /\ Cardinality(A) \in Nat
          /\ Cardinality(A) + d <= Cardinality(Places(i))
      <4>1. /\ A = PlacesIn(i, queue, up', posts) /\ Places(i) = PlacesIn(i, queue, up, posts)
            /\ IsFiniteSet(PlacesIn(i, queue, up, posts))
        BY <1>c, <2>1
      <4>2. /\ up \in [Sockets -> Seq(ToServer)] /\ up[s] # <<>>
            /\ up' = [up EXCEPT ![s] = Tail(@)]
        BY <1>b, <2>1
      <4> HIDE DEF A
      <4> QED
        BY <4>1, <4>2, UpTaken DEF m
    <3>2. ran'[i] = ran[i] + d
      BY <1>b, <2>1, <2>3, Fields
    <3>3. d \in {0, 1} /\ ran[i] \in Nat /\ Cardinality(Places(i)) \in Nat
      BY <1>b, <1>c
    <3> HIDE DEF A, d
    <3>4. ran'[i] \in Nat /\ Cardinality(A) + ran'[i] <= (Cardinality(Places(i)) + ran[i]) + 0
      BY <3>1, <3>2, <3>3
    <3>5. /\ faults' \in Nat /\ faults + 0 <= faults'
          /\ late' \in Nat /\ late <= late' /\ late + 0 <= late'
      BY <1>b, <2>1
    <3> QED
      BY <1>a, <1>c, <2>1, <3>1, <3>4, <3>5, RunsKept DEF A
  <2> QED
    BY <1>a, <2>1, <2>4 DEF RunsLeft
<1>13. ASSUME NEW s \in Sockets, NEW e \in Events, Broadcasts(s, e) PROVE RunsLeft'
  <2>1. UNCHANGED <<transport, queue, up, posts, ran, faults, late, outcome>>
    BY <1>13 DEF Broadcasts, client, options, history
  <2> QED
    BY <1>f, <2>1
<1>14. CASE UNCHANGED vars
  <2>1. UNCHANGED <<transport, queue, up, posts, ran, faults, late, outcome>>
    BY <1>14 DEF vars, options, wire, history
  <2> QED
    BY <1>f, <2>1
<1>15. CASE DialFails \/ DialThrows
  <2>1. /\ UNCHANGED <<transport, queue, up, posts, ran, outcome, late>>
        /\ faults' = faults \/ faults' = faults + 1
    BY <1>15 DEF DialFails, DialThrows, Fault, wire, options
  <2> QED
    BY <1>f, <2>1
<1>16. ASSUME NEW s \in Sockets, NEW m \in heard[s], ProcessesAgain(s, m) PROVE RunsLeft'
  <2>1. /\ UNCHANGED <<transport, queue, up, posts, outcome>>
        /\ faults' = faults + 1 /\ late' = late + 1
        /\ \/ m.b = "ar" /\ ran' = [ran EXCEPT ![m.i] = @ + 1]
           \/ m.b = "sr" /\ ran' = ran
    BY <1>16 DEF ProcessesAgain, processMessage, Fault, client, options
  <2>2. m \in ToServer
    BY <1>a DEF Data
  <2>3. m.b = "ar" => m.i \in ActionIds /\ m = Request(m.i)
    BY <2>2, ServerMessages
  <2>4. ASSUME NEW i \in ActionIds PROVE RunsOf(i)'
    <3> DEFINE A == Places(i)'
               d == IF m = Request(i) THEN 1 ELSE 0
    <3>1. A = Places(i) /\ IsFiniteSet(A) /\ Cardinality(A) \in Nat
      BY <1>c, <2>1
    <3>2. ran'[i] = ran[i] + d
      BY <1>b, <2>1, <2>3, Fields
    <3>3. d \in {0, 1} /\ ran[i] \in Nat
      BY <1>b
    <3>4. d = 1 => outcome'[i] # "none"
      <4> SUFFICES ASSUME m = Request(i) PROVE outcome[i] # "none"
        BY <2>1
      <4>1. ran[i] > 0
        BY <1>16 DEF IInv, AnswersAreTrue
      <4>2. outcome[i] = "none" => ran[i] = 0
        BY <1>c DEF RunsOf
      <4> QED
        BY <4>1, <4>2
    <3> HIDE DEF A, d
    <3>5. ran'[i] \in Nat /\ Cardinality(A) + ran'[i] <= (Cardinality(Places(i)) + ran[i]) + d
      BY <3>1, <3>2, <3>3
    <3>6. /\ faults' \in Nat /\ faults + d <= faults'
          /\ late' \in Nat /\ late <= late' /\ late + d <= late'
      BY <1>b, <2>1, <3>3
    <3> QED
      BY <1>a, <1>c, <2>1, <3>1, <3>3, <3>4, <3>5, <3>6, RunsKept DEF A
  <2> QED
    BY <1>a, <2>1, <2>4 DEF RunsLeft
<1> QED
  BY <1>1, <1>2, <1>4, <1>5, <1>6, <1>7, <1>8, <1>9, <1>10, <1>11, <1>12, <1>13, <1>14, <1>15,
     <1>16
  DEF Next, on, once

-----------------------------------------------------------------------------
(* The theorems.                                                             *)

\* The invariant holds, over any number of sockets, calls and faults.
THEOREM InvariantHolds == Spec => []IInv
<1>1. IInv /\ [Next]_vars => IInv'
  <2> SUFFICES ASSUME IInv, [Next]_vars PROVE IInv'
    OBVIOUS
  <2>1. RunsLeft'
    BY RunsStep
  <2>2. TypeOK'
    BY <2>1, FlagsStep, DataStep DEF IInv, TypeOK
  <2> QED
    BY <2>1, <2>2, OnItsWayStep, StagesStep, AnswersStep, HearStep DEF IInv
<1> QED
  BY <1>1, InitInv, PTL DEF Spec

(* TypeOK of ClientConn, the types of ActorConnRaw's fields and of what is on *)
(* its sockets.                                                               *)
THEOREM TypeCorrect == Spec => []TypeOK
<1>1. IInv => TypeOK
  BY DEF IInv
<1> QED
  BY <1>1, InvariantHolds, PTL

(* NeverStranded: whatever closes, errors and late answers of old sockets     *)
(* #handleOnClose sees, a connection without a transport has its retry loop   *)
(* at work, unless a TypeError of the driver's dial has ended it.             *)
THEOREM NotStranded == Spec => []NeverStranded
<1>1. IInv => NeverStranded
  BY DEF IInv, OnItsWay, NeverStranded
<1> QED
  BY <1>1, InvariantHolds, PTL

(* ActionsRunOnce: the queue, its flush on every init message and the posts   *)
(* that go back to it never make two requests of one, but for an answer lost  *)
(* on a stream, and the relay repeats one only for an ack that comes too      *)
(* late; success is reported only for an action that has run.                 *)
THEOREM RunsOnce == Spec => []ActionsRunOnce
<1>1. IInv => ActionsRunOnce
  <2> SUFFICES ASSUME IInv, NEW i \in ActionIds
               PROVE  /\ ran[i] <= IF transport = "websocket" THEN 1 + late ELSE 1 + faults
                      /\ outcome[i] = "ok" => ran[i] > 0
    BY DEF ActionsRunOnce
  <2>1. IsFiniteSet(Places(i)) /\ Cardinality(Places(i)) + ran[i] <= Budget
    BY DEF IInv, RunsLeft, RunsOf
  <2>2. Cardinality(Places(i)) \in Nat
    BY <2>1, FS_CardinalityType
  <2>3. ran[i] \in Nat /\ faults \in Nat /\ late \in Nat
    BY ConstantsAssumption DEF IInv, TypeOK, Data, ConstantsAssumption
  <2>4. ran[i] <= Budget
    <3>1. Budget = 1 + late \/ Budget = 1 + faults
      BY Zenon DEF Budget
    <3> QED
      BY <2>1, <2>2, <2>3, <3>1
  <2>5. outcome[i] = "ok" => ran[i] > 0
    BY DEF IInv, AnswersAreTrue
  <2> QED
    BY <2>4, <2>5 DEF Budget
<1> QED
  BY <1>1, InvariantHolds, PTL

(* SubscribedWhileListening: what #handleOnOpen resubscribes to, and what     *)
(* addEventSubscription and unsubscribe send after it, leave the server       *)
(* subscribed to every event with a listener, as long as the relay repeats    *)
(* nothing.                                                                   *)
THEOREM Subscribed == Spec => []SubscribedWhileListening
<1>1. IInv => SubscribedWhileListening
  <2> SUFFICES ASSUME IInv, NEW s \in Sockets, NEW e \in Listened,
                      transport = "websocket", socket = s, conn = s, ~disposed, late = 0,
                      ready[s] = "open", server[s] = "up", up[s] = <<>>
               PROVE  e \in subs[s]
    BY DEF SubscribedWhileListening
  <2>1. WillHear(s, e)
    BY DEF IInv, ServerWillHear
  <2>2. DOMAIN up[s] = {}
    OBVIOUS
  <2> QED
    BY <2>1, <2>2 DEF WillHear, Subscribes
<1> QED
  BY <1>1, InvariantHolds, PTL
=============================================================================
