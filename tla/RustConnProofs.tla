--------------------------- MODULE RustConnProofs ---------------------------
(* Theorems about RustConn, with their proofs.                              *)
EXTENDS RustConn, TLAPS

LEMMA Names ==
    /\ "main" \in Tasks /\ "disc" \in Tasks /\ Actions \subseteq Tasks /\ Listeners \subseteq Tasks
    /\ Free \notin Tasks /\ Free \notin Msgs /\ "init" \notin Msgs
    /\ "main" \notin Actions \cup Listeners /\ "disc" \notin Actions \cup Listeners
    /\ Actions \cap Listeners = {} /\ Actions \cap Events = {}
    /\ Capacity \in Nat \ {0} /\ MaxFaults \in Nat /\ MaxEmits \in Nat
    /\ Msgs = Actions \cup Events
  BY ConstantsAssumption DEF ConstantsAssumption, Tasks, Free, Msgs

LEMMA Channels ==
    ASSUME NEW S, NEW s \in Seq(S)
    PROVE  /\ \A m \in S : Append(s, m) \in Seq(S) /\ Len(Append(s, m)) = Len(s) + 1
                           /\ ToSet(Append(s, m)) = ToSet(s) \cup {m}
           /\ s # <<>> => /\ Head(s) \in S /\ Tail(s) \in Seq(S) /\ Len(Tail(s)) <= Len(s)
                          /\ ToSet(s) = {Head(s)} \cup ToSet(Tail(s))
           /\ Len(s) \in Nat
<1>1. ASSUME NEW m \in S PROVE ToSet(Append(s, m)) = ToSet(s) \cup {m}
  <2>1. /\ \A k \in DOMAIN s : k \in DOMAIN Append(s, m) /\ Append(s, m)[k] = s[k]
        /\ Len(s) + 1 \in DOMAIN Append(s, m) /\ Append(s, m)[Len(s) + 1] = m
        /\ \A k \in DOMAIN Append(s, m) : k \in DOMAIN s \/ k = Len(s) + 1
    OBVIOUS
  <2> QED
    BY <2>1 DEF ToSet
<1>2. s # <<>> => ToSet(s) = {Head(s)} \cup ToSet(Tail(s))
  <2> SUFFICES ASSUME s # <<>> PROVE ToSet(s) = {Head(s)} \cup ToSet(Tail(s))
    OBVIOUS
  <2>1. /\ 1 \in DOMAIN s /\ s[1] = Head(s)
        /\ \A k \in DOMAIN Tail(s) : k + 1 \in DOMAIN s /\ Tail(s)[k] = s[k + 1]
        /\ \A k \in DOMAIN s : k = 1 \/ (k - 1 \in DOMAIN Tail(s) /\ s[k] = Tail(s)[k - 1])
    OBVIOUS
  <2> DEFINE t == Tail(s)
             h == Head(s)
  <2> HIDE DEF t, h
  <2>2. ASSUME NEW x \in ToSet(s) PROVE x = h \/ x \in ToSet(t)
    BY <2>1, <2>2 DEF ToSet, t, h
  <2>3. h \in ToSet(s) /\ ToSet(t) \subseteq ToSet(s)
    BY <2>1 DEF ToSet, t, h
  <2>4. ToSet(s) = {h} \cup ToSet(t)
    BY <2>2, <2>3
  <2> QED
    BY <2>4 DEF t, h
<1> QED
  BY <1>1, <1>2

LEMMA EmptyChannel ==
    \A S : <<>> \in Seq(S) /\ Len(<<>>) = 0 /\ ToSet(<<>>) = {} /\ ActionsIn(<<>>) = {}
  BY DEF ToSet, ActionsIn

LEMMA InitOnly ==
    <<"init">> \in Seq(Msgs \cup {"init"}) /\ Len(<<"init">>) = 1
  OBVIOUS

-----------------------------------------------------------------------------
(* The alternatives of three steps.                                          *)

LEMMA OnMessageTo ==
    ASSUME on_message
    PROVE  /\ pc["main"] = "loop" /\ inbox # <<>> /\ inbox' = Tail(inbox)
           /\ \/ /\ Head(inbox) = "init" /\ Goto("main", "resubLock")
                 /\ UNCHANGED <<in_flight, outcome>>
              \/ /\ Head(inbox) \in Actions /\ UNCHANGED <<pc, did_open>>
                 /\ in_flight' = in_flight \ {Head(inbox)}
                 /\ outcome' = IF Head(inbox) \in in_flight
                               THEN [outcome EXCEPT ![Head(inbox)] = "answered"] ELSE outcome
              \/ /\ Head(inbox) \in Events /\ Goto("main", "event")
                 /\ UNCHANGED <<in_flight, outcome, did_open>>
  BY DEF on_message

LEMMA FlushTo ==
    ASSUME Data, Flush
    PROVE  /\ pc["main"] = "flush"
           /\ \/ /\ msg_queue # <<>> /\ Head(msg_queue) \in Actions
                 /\ msg' = [msg EXCEPT !["main"] = Head(msg_queue)] /\ msg_queue' = Tail(msg_queue)
                 /\ Goto("main", "driver") /\ UNCHANGED queueLock
              \/ /\ msg_queue = <<>> /\ queueLock' = Free
                 /\ Goto("main", "loop") /\ UNCHANGED <<msg, msg_queue>>
<1>1. msg_queue # <<>> => Head(msg_queue) \in Actions
  BY DEF Data
<1> QED
  BY <1>1 DEF Flush

LEMMA SendFailsTo ==
    ASSUME Data, MessagesFit, NEW p \in Tasks, SendFails(p)
    PROVE  /\ pc[p] = "send" /\ ~HasReceiver
           /\ \/ msg[p] \in Events /\ Sent(p)
              \/ msg[p] \in Actions /\ Goto(p, "queue") /\ UNCHANGED <<msg, driverLock, subsLock>>
<1>1. pc[p] = "send" /\ ~HasReceiver
      /\ IF msg[p] \in Events
         THEN Sent(p)
         ELSE Goto(p, "queue") /\ UNCHANGED <<msg, driverLock, subsLock>>
  BY DEF SendFails
<1>2. msg[p] \in Actions \cup Events
  BY <1>1, Names DEF Data, MessagesFit, Sending
<1> QED
  BY <1>1, <1>2

-----------------------------------------------------------------------------
LEMMA PlacesStep == IInv /\ [Next]_vars => PlacesFit'
<1> SUFFICES ASSUME IInv, [Next]_vars PROVE PlacesFit'
  OBVIOUS
<1> USE Names DEF IInv, TypeOK, Data, PlacesFit, Sending, MessagesFit
<1>1. CASE \/ ClientDrop \/ TaskSends \/ SendErrs \/ TaskSkips \/ TaskReceives \/ SocketEnds
           \/ (\E e \in Events : Emit(e)) \/ UNCHANGED vars
  <2>1. UNCHANGED <<pc>>
    BY <1>1 DEF ClientDrop, TaskSends, SendErrs, TaskSkips, TaskReceives, SocketEnds, Emit, vars
  <2> QED
    BY <2>1
<1>2. CASE start_connection
  BY <1>2 DEF start_connection, Goto
<1>3. CASE connect_driver
  BY <1>3 DEF connect_driver, Goto
<1>4. CASE SetDriver
  BY <1>4 DEF SetDriver, Goto
<1>5. CASE TaskJoined
  BY <1>5 DEF TaskJoined, Goto
<1>6. CASE DestroyDriver
  BY <1>6 DEF DestroyDriver, AfterAttempt, Goto
<1>7. CASE Backoff
  <2>1. CASE pc' = [pc EXCEPT !["main"] = "dial"]
    BY <1>7, <2>1 DEF Backoff
  <2>2. CASE pc' = [pc EXCEPT !["main"] = "done"]
    BY <1>7, <2>2 DEF Backoff
  <2> QED
    BY <1>7, <2>1, <2>2 DEF Backoff
<1>8. CASE on_message
  <2>1. ASSUME Goto("main", "resubLock"), pc["main"] = "loop"
       PROVE  PlacesFit'
    BY <1>8, <2>1 DEF on_message, Goto
  <2>2. CASE UNCHANGED pc
    BY <1>8, <2>2 DEF on_message, Goto
  <2>3. ASSUME Goto("main", "event"), pc["main"] = "loop"
       PROVE  PlacesFit'
    BY <1>8, <2>3 DEF on_message, Goto
  <2> QED
    BY <1>8, <2>1, <2>2, <2>3, OnMessageTo
<1>9. CASE RunCallbacks
  BY <1>9 DEF RunCallbacks, Goto
<1>10. CASE LockSubscriptions
  BY <1>10 DEF LockSubscriptions, ToResubscribe, Goto
<1>11. CASE Resubscribe
  <2>1. ASSUME NEW e \in todo, todo' = todo \ {e}, msg' = [msg EXCEPT !["main"] = e],
               Goto("main", "driver"), UNCHANGED subsLock
       PROVE  PlacesFit'
    BY <1>11, <2>1 DEF Resubscribe, Goto
  <2>2. ASSUME todo = {}, subsLock' = Free, Goto("main", "flushLock"), UNCHANGED <<todo, msg>>
       PROVE  PlacesFit'
    BY <1>11, <2>2 DEF Resubscribe, Goto
  <2> QED
    BY <1>11, <2>1, <2>2 DEF Resubscribe
<1>12. CASE LockQueue
  BY <1>12 DEF LockQueue, Goto
<1>13. CASE Flush
  <2>1. ASSUME NEW m \in Actions, msg' = [msg EXCEPT !["main"] = m], Goto("main", "driver"),
               UNCHANGED queueLock
       PROVE  PlacesFit'
    BY <1>13, <2>1 DEF Flush, Goto
  <2>2. ASSUME msg_queue = <<>>, queueLock' = Free, Goto("main", "loop"), UNCHANGED msg
       PROVE  PlacesFit'
    BY <1>13, <2>2 DEF Flush, Goto
  <2> QED
    BY <1>13, <2>1, <2>2, FlushTo
<1>14. CASE ConnectFails
  BY <1>14 DEF ConnectFails, RefusedAttempt
<1>15. ASSUME NEW p \in Tasks \ {"disc"}, LockDriver(p) PROVE PlacesFit'
  BY <1>15 DEF LockDriver, Goto
<1>16. ASSUME NEW p \in Tasks \ {"disc"}, DriverSend(p) PROVE PlacesFit'
  BY <1>16 DEF DriverSend, Sent, HasReceiver, Goto
<1>17. ASSUME NEW p \in Tasks \ {"disc"}, SendFails(p) PROVE PlacesFit'
  <2>1. ASSUME msg[p] \in Events, Sent(p)
       PROVE  PlacesFit'
    BY <1>17, <2>1 DEF SendFails, Sent, HasReceiver, Goto
  <2>2. ASSUME msg[p] \in Actions, Goto(p, "queue"), UNCHANGED <<msg, driverLock, subsLock>>
       PROVE  PlacesFit'
    BY <1>17, <2>2 DEF SendFails, Sent, HasReceiver, Goto
  <2> QED
    BY <1>17, <2>1, <2>2, SendFailsTo
<1>18. ASSUME NEW p \in Tasks \ {"disc"}, QueueMsg(p) PROVE PlacesFit'
  BY <1>18 DEF QueueMsg, Sent, Goto
<1>19. ASSUME NEW a \in Actions, action(a) PROVE PlacesFit'
  BY <1>19 DEF action, Goto
<1>20. ASSUME NEW l \in Listeners, on_event(l) PROVE PlacesFit'
  <2>1. ASSUME NEW e \in Events, listeners' = listeners \cup {e}, Goto(l, "done"),
               UNCHANGED <<msg, subsLock>>
       PROVE  PlacesFit'
    BY <1>20, <2>1 DEF on_event, Goto
  <2>2. ASSUME NEW e \in Events, listeners' = listeners \cup {e}, subsLock' = l,
               msg' = [msg EXCEPT ![l] = e], Goto(l, "driver")
       PROVE  PlacesFit'
    BY <1>20, <2>2 DEF on_event, Goto
  <2> QED
    BY <1>20, <2>1, <2>2 DEF on_event
<1>21. CASE disconnect
  BY <1>21 DEF disconnect, Goto
<1>22. CASE AbortDriver
  BY <1>22 DEF AbortDriver, TaskGone, Goto
<1>23. CASE ClearSubscriptions
  BY <1>23 DEF ClearSubscriptions, Goto
<1>24. CASE DisconnectReturn
  BY <1>24 DEF DisconnectReturn, Goto
<1> QED
  BY <1>1, <1>2, <1>3, <1>4, <1>5, <1>6, <1>7, <1>8, <1>9, <1>10, <1>11, <1>12, <1>13, <1>14,
     <1>15, <1>16, <1>17, <1>18, <1>19, <1>20, <1>21, <1>22, <1>23, <1>24 DEF Next, MainStep,
     SendStep, DisconnectStep

LEMMA MessagesStep == IInv /\ [Next]_vars => MessagesFit'
<1> SUFFICES ASSUME IInv, [Next]_vars PROVE MessagesFit'
  OBVIOUS
<1> USE Names DEF IInv, TypeOK, Data, PlacesFit, Sending, MessagesFit
<1>1. CASE \/ ClientDrop \/ TaskSends \/ SendErrs \/ TaskSkips \/ TaskReceives \/ SocketEnds
           \/ (\E e \in Events : Emit(e)) \/ UNCHANGED vars
  <2>1. UNCHANGED <<pc, msg>>
    BY <1>1 DEF ClientDrop, TaskSends, SendErrs, TaskSkips, TaskReceives, SocketEnds, Emit, vars
  <2> QED
    BY <2>1
<1>2. CASE start_connection
  BY <1>2 DEF start_connection, Goto
<1>3. CASE connect_driver
  BY <1>3 DEF connect_driver, Goto
<1>4. CASE SetDriver
  BY <1>4 DEF SetDriver, Goto
<1>5. CASE TaskJoined
  BY <1>5 DEF TaskJoined, Goto
<1>6. CASE DestroyDriver
  BY <1>6 DEF DestroyDriver, AfterAttempt, Goto
<1>7. CASE Backoff
  <2>1. CASE pc' = [pc EXCEPT !["main"] = "dial"]
    BY <1>7, <2>1 DEF Backoff
  <2>2. CASE pc' = [pc EXCEPT !["main"] = "done"]
    BY <1>7, <2>2 DEF Backoff
  <2> QED
    BY <1>7, <2>1, <2>2 DEF Backoff
<1>8. CASE on_message
  <2>1. ASSUME Goto("main", "resubLock"), pc["main"] = "loop"
       PROVE  MessagesFit'
    BY <1>8, <2>1 DEF on_message, Goto
  <2>2. CASE UNCHANGED pc
    BY <1>8, <2>2 DEF on_message, Goto
  <2>3. ASSUME Goto("main", "event"), pc["main"] = "loop"
       PROVE  MessagesFit'
    BY <1>8, <2>3 DEF on_message, Goto
  <2> QED
    BY <1>8, <2>1, <2>2, <2>3, OnMessageTo
<1>9. CASE RunCallbacks
  BY <1>9 DEF RunCallbacks, Goto
<1>10. CASE LockSubscriptions
  BY <1>10 DEF LockSubscriptions, ToResubscribe, Goto
<1>11. CASE Resubscribe
  <2>1. ASSUME NEW e \in todo, todo' = todo \ {e}, msg' = [msg EXCEPT !["main"] = e],
               Goto("main", "driver"), UNCHANGED subsLock
       PROVE  MessagesFit'
    BY <1>11, <2>1 DEF Resubscribe, Goto
  <2>2. ASSUME todo = {}, subsLock' = Free, Goto("main", "flushLock"), UNCHANGED <<todo, msg>>
       PROVE  MessagesFit'
    BY <1>11, <2>2 DEF Resubscribe, Goto
  <2> QED
    BY <1>11, <2>1, <2>2 DEF Resubscribe
<1>12. CASE LockQueue
  BY <1>12 DEF LockQueue, Goto
<1>13. CASE Flush
  <2>1. ASSUME NEW m \in Actions, msg' = [msg EXCEPT !["main"] = m], Goto("main", "driver"),
               UNCHANGED queueLock
       PROVE  MessagesFit'
    BY <1>13, <2>1 DEF Flush, Goto
  <2>2. ASSUME msg_queue = <<>>, queueLock' = Free, Goto("main", "loop"), UNCHANGED msg
       PROVE  MessagesFit'
    BY <1>13, <2>2 DEF Flush, Goto
  <2> QED
    BY <1>13, <2>1, <2>2, FlushTo
<1>14. CASE ConnectFails
  BY <1>14 DEF ConnectFails, RefusedAttempt
<1>15. ASSUME NEW p \in Tasks \ {"disc"}, LockDriver(p) PROVE MessagesFit'
  BY <1>15 DEF LockDriver, Goto
<1>16. ASSUME NEW p \in Tasks \ {"disc"}, DriverSend(p) PROVE MessagesFit'
  BY <1>16 DEF DriverSend, Sent, HasReceiver, Goto
<1>17. ASSUME NEW p \in Tasks \ {"disc"}, SendFails(p) PROVE MessagesFit'
  <2>1. ASSUME msg[p] \in Events, Sent(p)
       PROVE  MessagesFit'
    BY <1>17, <2>1 DEF SendFails, Sent, HasReceiver, Goto
  <2>2. ASSUME msg[p] \in Actions, Goto(p, "queue"), UNCHANGED <<msg, driverLock, subsLock>>
       PROVE  MessagesFit'
    BY <1>17, <2>2 DEF SendFails, Sent, HasReceiver, Goto
  <2> QED
    BY <1>17, <2>1, <2>2, SendFailsTo
<1>18. ASSUME NEW p \in Tasks \ {"disc"}, QueueMsg(p) PROVE MessagesFit'
  BY <1>18 DEF QueueMsg, Sent, Goto
<1>19. ASSUME NEW a \in Actions, action(a) PROVE MessagesFit'
  BY <1>19 DEF action, Goto
<1>20. ASSUME NEW l \in Listeners, on_event(l) PROVE MessagesFit'
  <2>1. ASSUME NEW e \in Events, listeners' = listeners \cup {e}, Goto(l, "done"),
               UNCHANGED <<msg, subsLock>>
       PROVE  MessagesFit'
    BY <1>20, <2>1 DEF on_event, Goto
  <2>2. ASSUME NEW e \in Events, listeners' = listeners \cup {e}, subsLock' = l,
               msg' = [msg EXCEPT ![l] = e], Goto(l, "driver")
       PROVE  MessagesFit'
    BY <1>20, <2>2 DEF on_event, Goto
  <2> QED
    BY <1>20, <2>1, <2>2 DEF on_event
<1>21. CASE disconnect
  BY <1>21 DEF disconnect, Goto
<1>22. CASE AbortDriver
  BY <1>22 DEF AbortDriver, TaskGone, Goto
<1>23. CASE ClearSubscriptions
  BY <1>23 DEF ClearSubscriptions, Goto
<1>24. CASE DisconnectReturn
  BY <1>24 DEF DisconnectReturn, Goto
<1> QED
  BY <1>1, <1>2, <1>3, <1>4, <1>5, <1>6, <1>7, <1>8, <1>9, <1>10, <1>11, <1>12, <1>13, <1>14,
     <1>15, <1>16, <1>17, <1>18, <1>19, <1>20, <1>21, <1>22, <1>23, <1>24 DEF Next, MainStep,
     SendStep, DisconnectStep

LEMMA LocksStep == IInv /\ [Next]_vars => LocksFit'
<1> SUFFICES ASSUME IInv, [Next]_vars PROVE LocksFit'
  OBVIOUS
<1> USE Names DEF IInv, TypeOK, Data, PlacesFit, Sending, MessagesFit, LocksFit
<1>1. CASE \/ ClientDrop \/ TaskSends \/ SendErrs \/ TaskSkips \/ TaskReceives \/ SocketEnds
           \/ (\E e \in Events : Emit(e)) \/ UNCHANGED vars
  <2>1. UNCHANGED <<pc, msg, driverLock, queueLock, subsLock>>
    BY <1>1 DEF ClientDrop, TaskSends, SendErrs, TaskSkips, TaskReceives, SocketEnds, Emit, vars,
       mutexes
  <2> QED
    BY <2>1
<1>2. CASE start_connection
  BY <1>2 DEF start_connection, Goto, mutexes
<1>3. CASE connect_driver
  BY <1>3 DEF connect_driver, Goto, mutexes
<1>4. CASE SetDriver
  BY <1>4 DEF SetDriver, Goto, mutexes
<1>5. CASE TaskJoined
  BY <1>5 DEF TaskJoined, Goto, mutexes
<1>6. CASE DestroyDriver
  BY <1>6 DEF DestroyDriver, AfterAttempt, Goto, mutexes
<1>7. CASE Backoff
  <2>1. CASE pc' = [pc EXCEPT !["main"] = "dial"]
    BY <1>7, <2>1 DEF Backoff, mutexes
  <2>2. CASE pc' = [pc EXCEPT !["main"] = "done"]
    BY <1>7, <2>2 DEF Backoff, mutexes
  <2> QED
    BY <1>7, <2>1, <2>2 DEF Backoff
<1>8. CASE on_message
  <2>1. ASSUME Goto("main", "resubLock"), pc["main"] = "loop"
       PROVE  LocksFit'
    BY <1>8, <2>1 DEF on_message, Goto, mutexes
  <2>2. CASE UNCHANGED pc
    BY <1>8, <2>2 DEF on_message, Goto, mutexes
  <2>3. ASSUME Goto("main", "event"), pc["main"] = "loop"
       PROVE  LocksFit'
    BY <1>8, <2>3 DEF on_message, Goto, mutexes
  <2> QED
    BY <1>8, <2>1, <2>2, <2>3, OnMessageTo
<1>9. CASE RunCallbacks
  BY <1>9 DEF RunCallbacks, Goto, mutexes
<1>10. CASE LockSubscriptions
  BY <1>10 DEF LockSubscriptions, ToResubscribe, Goto
<1>11. CASE Resubscribe
  <2>0. pc["main"] = "resub" /\ UNCHANGED <<driverLock, queueLock>>
    BY <1>11 DEF Resubscribe
  <2>1. ASSUME NEW e \in todo, todo' = todo \ {e}, msg' = [msg EXCEPT !["main"] = e],
               Goto("main", "driver"), UNCHANGED subsLock
       PROVE  LocksFit'
    BY <2>0, <2>1 DEF Goto
  <2>2. ASSUME todo = {}, subsLock' = Free, Goto("main", "flushLock"), UNCHANGED <<todo, msg>>
       PROVE  LocksFit'
    <3>1. pc' = [pc EXCEPT !["main"] = "flushLock"] /\ msg' = msg /\ msg["main"] = Free
      BY <2>0, <2>2 DEF Goto
    <3>2. pc'["main"] = "flushLock" /\ \A p \in Tasks : p # "main" => pc'[p] = pc[p]
      BY <3>1
    <3>3. subsLock = "main" /\ driverLock # "main"
      BY <2>0
    <3> QED
      BY <2>0, <2>2, <3>1, <3>2, <3>3
  <2> QED
    BY <1>11, <2>1, <2>2 DEF Resubscribe
<1>12. CASE LockQueue
  BY <1>12 DEF LockQueue, Goto
<1>13. CASE Flush
  <2>0. pc["main"] = "flush" /\ UNCHANGED <<driverLock, subsLock>>
    BY <1>13 DEF Flush
  <2>1. ASSUME NEW m \in Actions, msg' = [msg EXCEPT !["main"] = m], Goto("main", "driver"),
               UNCHANGED queueLock
       PROVE  LocksFit'
    BY <2>0, <2>1 DEF Goto
  <2>2. ASSUME msg_queue = <<>>, queueLock' = Free, Goto("main", "loop"), UNCHANGED msg
       PROVE  LocksFit'
    <3>1. pc' = [pc EXCEPT !["main"] = "loop"] /\ msg' = msg /\ msg["main"] = Free
      BY <2>0, <2>2 DEF Goto
    <3>2. pc'["main"] = "loop" /\ \A p \in Tasks : p # "main" => pc'[p] = pc[p]
      BY <3>1
    <3>3. queueLock = "main" /\ driverLock # "main"
      BY <2>0
    <3> QED
      BY <2>0, <2>2, <3>1, <3>2, <3>3
  <2> QED
    BY <1>13, <2>1, <2>2, FlushTo
<1>14. CASE ConnectFails
  BY <1>14 DEF ConnectFails, RefusedAttempt, mutexes
<1>15. ASSUME NEW p \in Tasks \ {"disc"}, LockDriver(p) PROVE LocksFit'
  BY <1>15 DEF LockDriver, Goto
<1>16. ASSUME NEW p \in Tasks \ {"disc"}, DriverSend(p) PROVE LocksFit'
  BY <1>16 DEF DriverSend, Sent, HasReceiver, Goto
<1>17. ASSUME NEW p \in Tasks \ {"disc"}, SendFails(p) PROVE LocksFit'
  <2>1. ASSUME msg[p] \in Events, Sent(p)
       PROVE  LocksFit'
    BY <1>17, <2>1 DEF SendFails, Sent, HasReceiver, Goto
  <2>2. ASSUME msg[p] \in Actions, Goto(p, "queue"), UNCHANGED <<msg, driverLock, subsLock>>
       PROVE  LocksFit'
    BY <1>17, <2>2 DEF SendFails, Sent, HasReceiver, Goto
  <2> QED
    BY <1>17, <2>1, <2>2, SendFailsTo
<1>18. ASSUME NEW p \in Tasks \ {"disc"}, QueueMsg(p) PROVE LocksFit'
  BY <1>18 DEF QueueMsg, Sent, Goto
<1>19. ASSUME NEW a \in Actions, action(a) PROVE LocksFit'
  BY <1>19 DEF action, Goto, mutexes
<1>20. ASSUME NEW l \in Listeners, on_event(l) PROVE LocksFit'
  <2>1. ASSUME NEW e \in Events, listeners' = listeners \cup {e}, Goto(l, "done"),
               UNCHANGED <<msg, subsLock>>
       PROVE  LocksFit'
    BY <1>20, <2>1 DEF on_event, Goto
  <2>2. ASSUME NEW e \in Events, listeners' = listeners \cup {e}, subsLock' = l,
               msg' = [msg EXCEPT ![l] = e], Goto(l, "driver")
       PROVE  LocksFit'
    BY <1>20, <2>2 DEF on_event, Goto
  <2> QED
    BY <1>20, <2>1, <2>2 DEF on_event
<1>21. CASE disconnect
  BY <1>21 DEF disconnect, Goto, mutexes
<1>22. CASE AbortDriver
  BY <1>22 DEF AbortDriver, TaskGone, Goto, mutexes
<1>23. CASE ClearSubscriptions
  BY <1>23 DEF ClearSubscriptions, Goto, mutexes
<1>24. CASE DisconnectReturn
  BY <1>24 DEF DisconnectReturn, Goto, mutexes
<1> QED
  BY <1>1, <1>2, <1>3, <1>4, <1>5, <1>6, <1>7, <1>8, <1>9, <1>10, <1>11, <1>12, <1>13, <1>14,
     <1>15, <1>16, <1>17, <1>18, <1>19, <1>20, <1>21, <1>22, <1>23, <1>24 DEF Next, MainStep,
     SendStep, DisconnectStep

LEMMA DriverStep == IInv /\ [Next]_vars => DriverFits'
<1> SUFFICES ASSUME IInv, [Next]_vars PROVE DriverFits'
  OBVIOUS
<1> USE Names DEF IInv, TypeOK, Data, PlacesFit, Sending, MessagesFit, LocksFit, DriverFits, Flags
<1>1. CASE \/ ClientDrop \/ UNCHANGED vars
  <2>1. UNCHANGED <<driver, task, pc, did_open, inbox, out, wire>>
    BY <1>1 DEF ClientDrop, vars, socket
  <2> QED
    BY <2>1
<1>2. CASE start_connection
  BY <1>2 DEF start_connection, Goto, socket
<1>3. CASE connect_driver
  BY <1>3 DEF connect_driver, Goto
<1>4. CASE SetDriver
  BY <1>4 DEF SetDriver, Goto, socket
<1>5. CASE TaskJoined
  BY <1>5 DEF TaskJoined, Goto
<1>6. CASE DestroyDriver
  BY <1>6 DEF DestroyDriver, AfterAttempt, Goto
<1>7. CASE Backoff
  <2>1. CASE pc' = [pc EXCEPT !["main"] = "dial"]
    BY <1>7, <2>1 DEF Backoff, socket
  <2>2. CASE pc' = [pc EXCEPT !["main"] = "done"]
    BY <1>7, <2>2 DEF Backoff, socket
  <2> QED
    BY <1>7, <2>1, <2>2 DEF Backoff
<1>8. CASE on_message
  <2>1. ASSUME Goto("main", "resubLock"), pc["main"] = "loop"
       PROVE  DriverFits'
    BY <1>8, <2>1 DEF on_message, Goto
  <2>2. CASE UNCHANGED pc
    BY <1>8, <2>2 DEF on_message, Goto
  <2>3. ASSUME Goto("main", "event"), pc["main"] = "loop"
       PROVE  DriverFits'
    BY <1>8, <2>3 DEF on_message, Goto
  <2> QED
    BY <1>8, <2>1, <2>2, <2>3, OnMessageTo
<1>9. CASE RunCallbacks
  BY <1>9 DEF RunCallbacks, Goto, socket
<1>10. CASE LockSubscriptions
  BY <1>10 DEF LockSubscriptions, ToResubscribe, Goto, socket
<1>11. CASE Resubscribe
  <2>1. ASSUME NEW e \in todo, todo' = todo \ {e}, msg' = [msg EXCEPT !["main"] = e],
               Goto("main", "driver"), UNCHANGED subsLock
       PROVE  DriverFits'
    BY <1>11, <2>1 DEF Resubscribe, Goto, socket
  <2>2. ASSUME todo = {}, subsLock' = Free, Goto("main", "flushLock"), UNCHANGED <<todo, msg>>
       PROVE  DriverFits'
    BY <1>11, <2>2 DEF Resubscribe, Goto, socket
  <2> QED
    BY <1>11, <2>1, <2>2 DEF Resubscribe
<1>12. CASE LockQueue
  BY <1>12 DEF LockQueue, Goto, socket
<1>13. CASE Flush
  <2>1. ASSUME NEW m \in Actions, msg' = [msg EXCEPT !["main"] = m], Goto("main", "driver"),
               UNCHANGED queueLock
       PROVE  DriverFits'
    BY <1>13, <2>1 DEF Flush, Goto, socket
  <2>2. ASSUME msg_queue = <<>>, queueLock' = Free, Goto("main", "loop"), UNCHANGED msg
       PROVE  DriverFits'
    BY <1>13, <2>2 DEF Flush, Goto, socket
  <2> QED
    BY <1>13, <2>1, <2>2, FlushTo
<1>14. CASE ConnectFails
  BY <1>14 DEF ConnectFails, RefusedAttempt, socket
<1>15. ASSUME NEW p \in Tasks \ {"disc"}, LockDriver(p) PROVE DriverFits'
  BY <1>15 DEF LockDriver, Goto, socket
<1>16. ASSUME NEW p \in Tasks \ {"disc"}, DriverSend(p) PROVE DriverFits'
  BY <1>16 DEF DriverSend, Sent, HasReceiver, Goto
<1>17. ASSUME NEW p \in Tasks \ {"disc"}, SendFails(p) PROVE DriverFits'
  <2>1. ASSUME msg[p] \in Events, Sent(p)
       PROVE  DriverFits'
    BY <1>17, <2>1 DEF SendFails, Sent, HasReceiver, Goto, socket
  <2>2. ASSUME msg[p] \in Actions, Goto(p, "queue"), UNCHANGED <<msg, driverLock, subsLock>>
       PROVE  DriverFits'
    BY <1>17, <2>2 DEF SendFails, Sent, HasReceiver, Goto, socket
  <2> QED
    BY <1>17, <2>1, <2>2, SendFailsTo
<1>18. ASSUME NEW p \in Tasks \ {"disc"}, QueueMsg(p) PROVE DriverFits'
  BY <1>18 DEF QueueMsg, Sent, Goto, socket
<1>19. ASSUME NEW a \in Actions, action(a) PROVE DriverFits'
  BY <1>19 DEF action, Goto, socket
<1>20. ASSUME NEW l \in Listeners, on_event(l) PROVE DriverFits'
  <2>1. ASSUME NEW e \in Events, listeners' = listeners \cup {e}, Goto(l, "done"),
               UNCHANGED <<msg, subsLock>>
       PROVE  DriverFits'
    BY <1>20, <2>1 DEF on_event, Goto, socket
  <2>2. ASSUME NEW e \in Events, listeners' = listeners \cup {e}, subsLock' = l,
               msg' = [msg EXCEPT ![l] = e], Goto(l, "driver")
       PROVE  DriverFits'
    BY <1>20, <2>2 DEF on_event, Goto, socket
  <2> QED
    BY <1>20, <2>1, <2>2 DEF on_event
<1>21. CASE disconnect
  BY <1>21 DEF disconnect, Goto, socket
<1>22. CASE AbortDriver
  BY <1>22 DEF AbortDriver, TaskGone, Goto
<1>23. CASE ClearSubscriptions
  BY <1>23 DEF ClearSubscriptions, Goto, socket
<1>24. CASE DisconnectReturn
  BY <1>24 DEF DisconnectReturn, Goto, socket
<1>25. CASE TaskSends \/ TaskSkips
  <2>1. /\ UNCHANGED <<driver, task, pc, did_open, inbox>> /\ task = "running"
    BY <1>25 DEF TaskSends, TaskSkips
  <2> QED
    BY <2>1
<1>26. CASE SendErrs
  <2>1. /\ UNCHANGED <<driver, task, pc, did_open, inbox>> /\ task = "running"
    BY <1>26 DEF SendErrs
  <2> QED
    BY <2>1
<1>27. CASE TaskReceives
  BY <1>27 DEF TaskReceives
<1>28. CASE SocketEnds
  BY <1>28 DEF SocketEnds, TaskGone
<1>29. ASSUME NEW e \in Events, Emit(e) PROVE DriverFits'
  BY <1>29 DEF Emit
<1> QED
  BY <1>1, <1>2, <1>3, <1>4, <1>5, <1>6, <1>7, <1>8, <1>9, <1>10, <1>11, <1>12, <1>13, <1>14,
     <1>15, <1>16, <1>17, <1>18, <1>19, <1>20, <1>21, <1>22, <1>23, <1>24, <1>25, <1>26, <1>27,
     <1>28, <1>29 DEF Next, MainStep, SendStep, DisconnectStep

LEMMA QueuedStep == IInv /\ [Next]_vars => QueuedForLater'
<1> SUFFICES ASSUME IInv, [Next]_vars PROVE QueuedForLater'
  OBVIOUS
<1> USE Names DEF IInv, TypeOK, Data, PlacesFit, Sending, MessagesFit, LocksFit, DriverFits,
   QueuedForLater, HasReceiver
<1>1. CASE \/ ClientDrop \/ TaskSends \/ SendErrs \/ TaskSkips \/ (\E e \in Events : Emit(e))
           \/ UNCHANGED vars
  <2>1. UNCHANGED <<pc, driver, task>>
    BY <1>1 DEF ClientDrop, TaskSends, SendErrs, TaskSkips, Emit, vars, socket
  <2> QED
    BY <2>1
<1>2. CASE start_connection
  BY <1>2 DEF start_connection, Goto, socket
<1>3. CASE connect_driver
  BY <1>3 DEF connect_driver, Goto
<1>4. CASE SetDriver
  BY <1>4 DEF SetDriver, Goto, socket
<1>5. CASE TaskJoined
  BY <1>5 DEF TaskJoined, Goto
<1>6. CASE DestroyDriver
  BY <1>6 DEF DestroyDriver, AfterAttempt, Goto
<1>7. CASE Backoff
  <2>1. CASE pc' = [pc EXCEPT !["main"] = "dial"]
    BY <1>7, <2>1 DEF Backoff, socket
  <2>2. CASE pc' = [pc EXCEPT !["main"] = "done"]
    BY <1>7, <2>2 DEF Backoff, socket
  <2> QED
    BY <1>7, <2>1, <2>2 DEF Backoff
<1>8. CASE on_message
  <2>1. ASSUME Goto("main", "resubLock"), pc["main"] = "loop"
       PROVE  QueuedForLater'
    BY <1>8, <2>1 DEF on_message, Goto
  <2>2. CASE UNCHANGED pc
    BY <1>8, <2>2 DEF on_message, Goto
  <2>3. ASSUME Goto("main", "event"), pc["main"] = "loop"
       PROVE  QueuedForLater'
    BY <1>8, <2>3 DEF on_message, Goto
  <2> QED
    BY <1>8, <2>1, <2>2, <2>3, OnMessageTo
<1>9. CASE RunCallbacks
  BY <1>9 DEF RunCallbacks, Goto, socket
<1>10. CASE LockSubscriptions
  BY <1>10 DEF LockSubscriptions, ToResubscribe, Goto, socket
<1>11. CASE Resubscribe
  <2>1. ASSUME NEW e \in todo, todo' = todo \ {e}, msg' = [msg EXCEPT !["main"] = e],
               Goto("main", "driver"), UNCHANGED subsLock
       PROVE  QueuedForLater'
    BY <1>11, <2>1 DEF Resubscribe, Goto, socket
  <2>2. ASSUME todo = {}, subsLock' = Free, Goto("main", "flushLock"), UNCHANGED <<todo, msg>>
       PROVE  QueuedForLater'
    BY <1>11, <2>2 DEF Resubscribe, Goto, socket
  <2> QED
    BY <1>11, <2>1, <2>2 DEF Resubscribe
<1>12. CASE LockQueue
  BY <1>12 DEF LockQueue, Goto, socket
<1>13. CASE Flush
  <2>1. ASSUME NEW m \in Actions, msg' = [msg EXCEPT !["main"] = m], Goto("main", "driver"),
               UNCHANGED queueLock
       PROVE  QueuedForLater'
    BY <1>13, <2>1 DEF Flush, Goto, socket
  <2>2. ASSUME msg_queue = <<>>, queueLock' = Free, Goto("main", "loop"), UNCHANGED msg
       PROVE  QueuedForLater'
    BY <1>13, <2>2 DEF Flush, Goto, socket
  <2> QED
    BY <1>13, <2>1, <2>2, FlushTo
<1>14. CASE ConnectFails
  BY <1>14 DEF ConnectFails, RefusedAttempt, socket
<1>15. ASSUME NEW p \in Tasks \ {"disc"}, LockDriver(p) PROVE QueuedForLater'
  BY <1>15 DEF LockDriver, Goto, socket
<1>16. ASSUME NEW p \in Tasks \ {"disc"}, DriverSend(p) PROVE QueuedForLater'
  BY <1>16 DEF DriverSend, Sent, HasReceiver, Goto
<1>17. ASSUME NEW p \in Tasks \ {"disc"}, SendFails(p) PROVE QueuedForLater'
  <2>1. ASSUME msg[p] \in Events, Sent(p)
       PROVE  QueuedForLater'
    BY <1>17, <2>1 DEF SendFails, Sent, HasReceiver, Goto, socket
  <2>2. ASSUME msg[p] \in Actions, Goto(p, "queue"), UNCHANGED <<msg, driverLock, subsLock>>
       PROVE  QueuedForLater'
    BY <1>17, <2>2 DEF SendFails, Sent, HasReceiver, Goto, socket
  <2> QED
    BY <1>17, <2>1, <2>2, SendFailsTo
<1>18. ASSUME NEW p \in Tasks \ {"disc"}, QueueMsg(p) PROVE QueuedForLater'
  BY <1>18 DEF QueueMsg, Sent, Goto, socket
<1>19. ASSUME NEW a \in Actions, action(a) PROVE QueuedForLater'
  BY <1>19 DEF action, Goto, socket
<1>20. ASSUME NEW l \in Listeners, on_event(l) PROVE QueuedForLater'
  <2>1. ASSUME NEW e \in Events, listeners' = listeners \cup {e}, Goto(l, "done"),
               UNCHANGED <<msg, subsLock>>
       PROVE  QueuedForLater'
    BY <1>20, <2>1 DEF on_event, Goto, socket
  <2>2. ASSUME NEW e \in Events, listeners' = listeners \cup {e}, subsLock' = l,
               msg' = [msg EXCEPT ![l] = e], Goto(l, "driver")
       PROVE  QueuedForLater'
    BY <1>20, <2>2 DEF on_event, Goto, socket
  <2> QED
    BY <1>20, <2>1, <2>2 DEF on_event
<1>21. CASE disconnect
  BY <1>21 DEF disconnect, Goto, socket
<1>22. CASE AbortDriver
  BY <1>22 DEF AbortDriver, TaskGone, Goto
<1>23. CASE ClearSubscriptions
  BY <1>23 DEF ClearSubscriptions, Goto, socket
<1>24. CASE DisconnectReturn
  BY <1>24 DEF DisconnectReturn, Goto, socket
<1>25. CASE TaskReceives
  BY <1>25 DEF TaskReceives
<1>26. CASE SocketEnds
  BY <1>26 DEF SocketEnds, TaskGone
<1> QED
  BY <1>1, <1>2, <1>3, <1>4, <1>5, <1>6, <1>7, <1>8, <1>9, <1>10, <1>11, <1>12, <1>13, <1>14,
     <1>15, <1>16, <1>17, <1>18, <1>19, <1>20, <1>21, <1>22, <1>23, <1>24, <1>25, <1>26 DEF Next,
     MainStep, SendStep, DisconnectStep

LEMMA InFlightStep == IInv /\ [Next]_vars => InFlight'
<1> SUFFICES ASSUME IInv, [Next]_vars PROVE InFlight'
  OBVIOUS
<1> USE Names DEF IInv, TypeOK, Data, PlacesFit, Sending, MessagesFit, InFlight
<1>1. CASE \/ start_connection \/ connect_driver \/ SetDriver \/ TaskJoined \/ DestroyDriver
           \/ Backoff \/ RunCallbacks \/ LockSubscriptions \/ Resubscribe \/ LockQueue \/ Flush
           \/ ConnectFails \/ (\E p \in Tasks \ {"disc"} : LockDriver(p))
           \/ (\E p \in Tasks \ {"disc"} : DriverSend(p))
           \/ (\E p \in Tasks \ {"disc"} : SendFails(p))
           \/ (\E p \in Tasks \ {"disc"} : QueueMsg(p)) \/ (\E l \in Listeners : on_event(l))
           \/ disconnect \/ ClearSubscriptions \/ DisconnectReturn \/ ClientDrop \/ TaskSends
           \/ SendErrs \/ TaskSkips \/ TaskReceives \/ SocketEnds \/ (\E e \in Events : Emit(e))
           \/ UNCHANGED vars
  <2>1. UNCHANGED <<outcome, in_flight>>
    BY <1>1 DEF start_connection, connect_driver, SetDriver, TaskJoined, DestroyDriver, Backoff,
       RunCallbacks, LockSubscriptions, Resubscribe, LockQueue, Flush, ConnectFails, LockDriver,
       DriverSend, SendFails, QueueMsg, on_event, disconnect, ClearSubscriptions,
       DisconnectReturn, ClientDrop, TaskSends, SendErrs, TaskSkips, TaskReceives, SocketEnds,
       Emit, vars,
       calls
  <2> QED
    BY <2>1
<1>2. CASE on_message
  <2>1. ASSUME Goto("main", "resubLock"), pc["main"] = "loop"
       PROVE  InFlight'
    BY <1>2, <2>1 DEF on_message, Goto
  <2>2. CASE UNCHANGED pc
    BY <1>2, <2>2 DEF on_message, Goto
  <2>3. ASSUME Goto("main", "event"), pc["main"] = "loop"
       PROVE  InFlight'
    BY <1>2, <2>3 DEF on_message, Goto
  <2> QED
    BY <1>2, <2>1, <2>2, <2>3, OnMessageTo
<1>3. ASSUME NEW a \in Actions, action(a) PROVE InFlight'
  BY <1>3 DEF action, Goto
<1>4. CASE AbortDriver
  BY <1>4 DEF AbortDriver, TaskGone, Goto
<1> QED
  BY <1>1, <1>2, <1>3, <1>4 DEF Next, MainStep, SendStep, DisconnectStep

LEMMA TodoStep == IInv /\ [Next]_vars => TodoFits'
<1> SUFFICES ASSUME IInv, [Next]_vars PROVE TodoFits'
  OBVIOUS
<1> USE Names DEF IInv, TypeOK, Data, PlacesFit, Sending, MessagesFit, LocksFit, TodoFits
<1>1. CASE \/ start_connection \/ connect_driver \/ SetDriver \/ TaskJoined \/ DestroyDriver
           \/ Backoff \/ on_message \/ RunCallbacks \/ LockQueue \/ Flush \/ ConnectFails
           \/ (\E p \in Tasks \ {"disc"} : LockDriver(p)) \/ (\E a \in Actions : action(a))
           \/ disconnect \/ AbortDriver \/ ClearSubscriptions \/ DisconnectReturn \/ ClientDrop
           \/ TaskSends \/ SendErrs \/ TaskSkips \/ TaskReceives \/ SocketEnds
           \/ (\E e \in Events : Emit(e)) \/ UNCHANGED vars
  <2>1. UNCHANGED <<todo, subsLock>>
    BY <1>1 DEF start_connection, connect_driver, SetDriver, TaskJoined, DestroyDriver, Backoff,
       on_message, RunCallbacks, LockQueue, Flush, ConnectFails, LockDriver, action, disconnect,
       AbortDriver, ClearSubscriptions, DisconnectReturn, ClientDrop, TaskSends, SendErrs,
       TaskSkips, TaskReceives, SocketEnds, Emit, vars, mutexes
  <2> QED
    BY <2>1
<1>2. CASE LockSubscriptions
  BY <1>2 DEF LockSubscriptions, ToResubscribe, Goto
<1>3. CASE Resubscribe
  <2>1. ASSUME NEW e \in todo, todo' = todo \ {e}, msg' = [msg EXCEPT !["main"] = e],
               Goto("main", "driver"), UNCHANGED subsLock
       PROVE  TodoFits'
    BY <1>3, <2>1 DEF Resubscribe, Goto
  <2>2. ASSUME todo = {}, subsLock' = Free, Goto("main", "flushLock"), UNCHANGED <<todo, msg>>
       PROVE  TodoFits'
    BY <1>3, <2>2 DEF Resubscribe, Goto
  <2> QED
    BY <1>3, <2>1, <2>2 DEF Resubscribe
<1>4. ASSUME NEW p \in Tasks \ {"disc"}, DriverSend(p) PROVE TodoFits'
  BY <1>4 DEF DriverSend, Sent, HasReceiver, Goto
<1>5. ASSUME NEW p \in Tasks \ {"disc"}, SendFails(p) PROVE TodoFits'
  <2>1. ASSUME msg[p] \in Events, Sent(p)
       PROVE  TodoFits'
    BY <1>5, <2>1 DEF SendFails, Sent, HasReceiver, Goto
  <2>2. ASSUME msg[p] \in Actions, Goto(p, "queue"), UNCHANGED <<msg, driverLock, subsLock>>
       PROVE  TodoFits'
    BY <1>5, <2>2 DEF SendFails, Sent, HasReceiver, Goto
  <2> QED
    BY <1>5, <2>1, <2>2, SendFailsTo
<1>6. ASSUME NEW p \in Tasks \ {"disc"}, QueueMsg(p) PROVE TodoFits'
  BY <1>6 DEF QueueMsg, Sent, Goto
<1>7. ASSUME NEW l \in Listeners, on_event(l) PROVE TodoFits'
  <2>1. ASSUME NEW e \in Events, listeners' = listeners \cup {e}, Goto(l, "done"),
               UNCHANGED <<msg, subsLock>>
       PROVE  TodoFits'
    BY <1>7, <2>1 DEF on_event, Goto
  <2>2. ASSUME NEW e \in Events, listeners' = listeners \cup {e}, subsLock' = l,
               msg' = [msg EXCEPT ![l] = e], Goto(l, "driver")
       PROVE  TodoFits'
    BY <1>7, <2>2 DEF on_event, Goto
  <2> QED
    BY <1>7, <2>1, <2>2 DEF on_event
<1> QED
  BY <1>1, <1>2, <1>3, <1>4, <1>5, <1>6, <1>7 DEF Next, MainStep, SendStep, DisconnectStep

LEMMA FlagsStep == IInv /\ [Next]_vars => Flags'
<1> SUFFICES ASSUME IInv, [Next]_vars PROVE Flags'
  OBVIOUS
<1> USE Names DEF IInv, TypeOK, Flags
<1>1. CASE \/ start_connection \/ TaskJoined \/ Backoff \/ RunCallbacks \/ LockSubscriptions
           \/ Resubscribe \/ LockQueue \/ Flush \/ (\E p \in Tasks \ {"disc"} : LockDriver(p))
           \/ (\E p \in Tasks \ {"disc"} : DriverSend(p))
           \/ (\E p \in Tasks \ {"disc"} : SendFails(p))
           \/ (\E p \in Tasks \ {"disc"} : QueueMsg(p)) \/ (\E a \in Actions : action(a))
           \/ (\E l \in Listeners : on_event(l)) \/ AbortDriver \/ ClearSubscriptions
           \/ DisconnectReturn \/ TaskSends \/ SendErrs \/ TaskSkips \/ TaskReceives \/ SocketEnds
           \/ (\E e \in Events : Emit(e)) \/ UNCHANGED vars
  <2>1. UNCHANGED <<driver, did_open, dc, shutdown>>
    BY <1>1 DEF start_connection, TaskJoined, Backoff, RunCallbacks, LockSubscriptions,
       Resubscribe, LockQueue, Flush, LockDriver, DriverSend, SendFails, QueueMsg, action,
       on_event, AbortDriver, ClearSubscriptions, DisconnectReturn, TaskSends, SendErrs,
       TaskSkips, TaskReceives, SocketEnds, Emit, vars, flags
  <2> QED
    BY <2>1
<1>2. CASE connect_driver
  BY <1>2 DEF connect_driver, Goto, flags
<1>3. CASE SetDriver
  BY <1>3 DEF SetDriver, Goto, flags
<1>4. CASE DestroyDriver
  BY <1>4 DEF DestroyDriver, AfterAttempt, Goto
<1>5. CASE on_message
  <2>1. ASSUME Goto("main", "resubLock"), pc["main"] = "loop"
       PROVE  Flags'
    BY <1>5, <2>1 DEF on_message, Goto, flags
  <2>2. CASE UNCHANGED pc
    BY <1>5, <2>2 DEF on_message, Goto, flags
  <2>3. ASSUME Goto("main", "event"), pc["main"] = "loop"
       PROVE  Flags'
    BY <1>5, <2>3 DEF on_message, Goto, flags
  <2> QED
    BY <1>5, <2>1, <2>2, <2>3, OnMessageTo
<1>6. CASE ConnectFails
  BY <1>6 DEF ConnectFails, RefusedAttempt
<1>7. CASE disconnect
  BY <1>7 DEF disconnect, Goto
<1>8. CASE ClientDrop
  BY <1>8 DEF ClientDrop
<1> QED
  BY <1>1, <1>2, <1>3, <1>4, <1>5, <1>6, <1>7, <1>8 DEF Next, MainStep, SendStep, DisconnectStep

LEMMA ResubscribedStep == IInv /\ [Next]_vars => Resubscribed'
<1> SUFFICES ASSUME IInv, [Next]_vars PROVE Resubscribed'
  OBVIOUS
<1> DEFINE On == did_open /\ task \in {"running", "blocked"} /\ pc["main"] # "resubLock"
<1>a. /\ pc = [p \in Tasks |-> pc[p]] /\ msg \in [Tasks -> Msgs \cup {Free}]
      /\ out \in Seq(Msgs \cup {"init"})
      /\ listeners \subseteq Events /\ todo \subseteq Events
      /\ On => \A e \in listeners : Known(e)
  BY DEF IInv, TypeOK, Data, Resubscribed
<1>b. /\ \A p \in Tasks : msg[p] # Free <=> pc[p] \in Sending
      /\ \A p \in Tasks : pc[p] = "queue" => msg[p] \in Actions
      /\ pc["main"] = "set" => ~did_open
      /\ pc["main"] \in {"start", "dial", "backoff", "done"} => task = "none"
      /\ pc["main"] = "take" => task = "ended"
      /\ pc["main"] \notin {"start", "dial", "backoff", "done", "set"}
            => driver \/ pc["main"] = "resubLock"
  BY DEF IInv, MessagesFit, DriverFits, PlacesFit
<1>1. ASSUME UNCHANGED <<listeners, subscribed, out, msg, todo>>, lost \subseteq lost', On' => On
      PROVE  Resubscribed'
  BY <1>a, <1>1 DEF Resubscribed, Known
<1> USE Names
<1>2. CASE start_connection \/ SetDriver \/ TaskJoined \/ Backoff \/ RunCallbacks \/ LockQueue
  BY <1>1, <1>2, <1>a DEF start_connection, SetDriver, TaskJoined, Backoff, RunCallbacks,
     LockQueue,
                         Goto, socket
<1>3. CASE DestroyDriver \/ ConnectFails \/ connect_driver
  BY <1>1, <1>3, <1>a DEF DestroyDriver, ConnectFails, connect_driver, Goto, socket, Resubscribed
<1>4. CASE on_message
  <2>1. UNCHANGED <<listeners, subscribed, out, msg, todo, task, lost>>
    BY <1>4 DEF on_message
  <2>2. On' => On
    BY <1>4, <1>a, <2>1, OnMessageTo DEF Goto
  <2> QED
    BY <1>1, <2>1, <2>2
<1>5. CASE LockSubscriptions
  BY <1>5 DEF LockSubscriptions, ToResubscribe, Resubscribed, Known
<1>6. CASE Resubscribe
  <2>1. /\ pc["main"] = "resub" /\ msg["main"] = Free
        /\ UNCHANGED <<listeners, subscribed, out, task, did_open, lost>>
    BY <1>6, <1>b DEF Resubscribe, socket, Sending
  <2>2. ASSUME NEW e \in todo, todo' = todo \ {e}, msg' = [msg EXCEPT !["main"] = e]
        PROVE  Resubscribed'
    <3>1. msg'["main"] = e /\ \A p \in Tasks : p # "main" => msg'[p] = msg[p]
      BY <1>a, <2>2
    <3>2. \A f \in Events : Known(f) => Known(f)'
      BY <2>1, <2>2, <3>1 DEF Known
    <3> QED
      BY <1>a, <2>1, <3>2 DEF Resubscribed
  <2>3. CASE UNCHANGED <<todo, msg>>
    BY <1>1, <1>6, <1>a, <2>1, <2>3 DEF Goto
  <2> QED
    BY <1>6, <2>2, <2>3 DEF Resubscribe
<1>7. CASE Flush
  <2>1. /\ pc["main"] = "flush" /\ msg["main"] = Free
        /\ UNCHANGED <<listeners, subscribed, out, task, did_open, todo, lost>>
    BY <1>7, <1>b DEF Flush, socket, Sending
  <2>2. \A p \in Tasks : p # "main" => msg'[p] = msg[p]
    BY <1>7, <1>a DEF Flush
  <2>3. \A e \in Events : Known(e) => Known(e)'
    BY <2>1, <2>2 DEF Known
  <2> QED
    BY <1>a, <2>1, <2>3 DEF Resubscribed
<1>8. ASSUME NEW p \in Tasks \ {"disc"}, LockDriver(p) PROVE Resubscribed'
  BY <1>1, <1>8, <1>a DEF LockDriver, Goto, socket
<1>9. ASSUME NEW p \in Tasks \ {"disc"}, DriverSend(p) PROVE Resubscribed'
  <2>1. /\ UNCHANGED <<listeners, subscribed, todo, task, did_open, lost>>
        /\ out' = Append(out, msg[p]) /\ msg' = [msg EXCEPT ![p] = Free]
        /\ pc[p] = "send" /\ \E label : Goto(p, label)
    BY <1>9 DEF DriverSend, Sent
  <2>2. ToSet(out') = ToSet(out) \cup {msg[p]}
    <3>1. msg[p] \in Msgs
      BY <1>a, <1>b, <2>1 DEF Sending
    <3> QED
      BY <1>a, <2>1, <3>1, Channels
  <2>3. \A q \in Tasks : q # p => msg'[q] = msg[q]
    BY <1>a, <2>1
  <2>4. \A e \in Events : Known(e) => Known(e)'
    BY <2>1, <2>2, <2>3 DEF Known
  <2>5. On' => On
    BY <1>a, <2>1 DEF Goto
  <2> QED
    BY <1>a, <2>1, <2>4, <2>5 DEF Resubscribed
<1>10. ASSUME NEW p \in Tasks \ {"disc"}, SendFails(p) PROVE Resubscribed'
  <2>1. /\ UNCHANGED <<listeners, subscribed, out, todo, task, did_open, lost>>
        /\ \E label : Goto(p, label)
    BY <1>10 DEF SendFails, socket, Sent
  <2>2. /\ pc[p] = "send" /\ ~HasReceiver
        /\ \/ msg[p] \in Events /\ Sent(p)
           \/ msg[p] \in Actions /\ UNCHANGED msg
    BY <1>10, SendFailsTo DEF IInv, TypeOK
  <2>3. On' => On
    BY <1>a, <2>1, <2>2 DEF Goto
  <2>4. ~On
    BY <1>b, <2>2 DEF HasReceiver
  <2> QED
    BY <2>3, <2>4 DEF Resubscribed
<1>11. ASSUME NEW p \in Tasks \ {"disc"}, QueueMsg(p) PROVE Resubscribed'
  <2>1. /\ UNCHANGED <<listeners, subscribed, out, todo, task, did_open, lost>>
        /\ msg' = [msg EXCEPT ![p] = Free] /\ pc[p] = "queue" /\ \E label : Goto(p, label)
    BY <1>11 DEF QueueMsg, Sent, socket
  <2>2. \A q \in Tasks : q # p => msg'[q] = msg[q]
    BY <1>a, <2>1
  <2>3. \A e \in Events : Known(e) => Known(e)'
    BY <1>b, <2>1, <2>2 DEF Known
  <2>4. On' => On
    BY <1>a, <2>1 DEF Goto
  <2> QED
    BY <1>a, <2>1, <2>3, <2>4 DEF Resubscribed
<1>12. ASSUME NEW p \in Actions, action(p) PROVE Resubscribed'
  <2>1. /\ UNCHANGED <<listeners, subscribed, out, todo, task, did_open, lost>>
        /\ msg' = [msg EXCEPT ![p] = p] /\ pc[p] = "idle" /\ \E label : Goto(p, label)
    BY <1>12 DEF action, socket
  <2>2. msg[p] = Free /\ \A q \in Tasks : q # p => msg'[q] = msg[q]
    BY <1>a, <1>b, <2>1 DEF Sending
  <2>3. \A e \in Events : Known(e) => Known(e)'
    BY <2>1, <2>2 DEF Known
  <2>4. On' => On
    BY <1>a, <2>1 DEF Goto
  <2> QED
    BY <1>a, <2>1, <2>3, <2>4 DEF Resubscribed
<1>13. ASSUME NEW p \in Listeners, on_event(p) PROVE Resubscribed'
  <2>1. /\ UNCHANGED <<subscribed, out, todo, task, did_open, lost>>
        /\ pc[p] = "idle" /\ \E label : Goto(p, label)
    BY <1>13 DEF on_event, socket
  <2>2. PICK e \in Events : /\ listeners' = listeners \cup {e}
                            /\ \/ e \in listeners /\ UNCHANGED msg
                               \/ msg' = [msg EXCEPT ![p] = e]
    BY <1>13 DEF on_event
  <2>3. msg[p] = Free /\ \A q \in Tasks : q # p => msg'[q] = msg[q]
    BY <1>a, <1>b, <2>1, <2>2 DEF Sending
  <2>4. /\ \A f \in Events : Known(f) => Known(f)'
        /\ e \in listeners \/ Known(e)'
    BY <1>a, <2>1, <2>2, <2>3 DEF Known
  <2>5. On' => On
    BY <1>a, <2>1 DEF Goto
  <2> QED
    BY <1>a, <2>1, <2>2, <2>4, <2>5 DEF Resubscribed
<1>14. CASE disconnect \/ DisconnectReturn \/ ClientDrop
  BY <1>1, <1>14, <1>a DEF disconnect, DisconnectReturn, ClientDrop, Goto, socket
<1>15. CASE AbortDriver \/ SocketEnds
  <2>1. CASE task' = "ended"
    BY <2>1 DEF Resubscribed
  <2>2. CASE task' # "ended"
    <3>1. UNCHANGED <<listeners, subscribed, out, msg, todo, task, did_open, lost>> /\ AbortDriver
      BY <1>15, <2>2 DEF AbortDriver, SocketEnds, TaskGone
    <3> QED
      BY <1>1, <1>a, <3>1 DEF AbortDriver, Goto
  <2> QED
    BY <2>1, <2>2
<1>16. CASE ClearSubscriptions
  BY <1>16 DEF ClearSubscriptions, Resubscribed
<1>17. CASE TaskSends \/ SendErrs
  <2>1. /\ UNCHANGED <<listeners, msg, todo, task, did_open, pc>>
        /\ out # <<>> /\ out' = Tail(out) /\ subscribed \subseteq subscribed' /\ lost \subseteq lost'
        /\ Head(out) \in Events => Head(out) \in subscribed' \cup lost'
    BY <1>17 DEF TaskSends, SendErrs, Arrives, Msgs
  <2>2. ToSet(out) = {Head(out)} \cup ToSet(out')
    BY <1>a, <2>1, Channels
  <2>3. \A e \in Events : Known(e) => Known(e)'
    BY <2>1, <2>2 DEF Known
  <2> QED
    BY <1>a, <2>1, <2>3 DEF Resubscribed
<1>18. CASE TaskReceives \/ TaskSkips \/ \E e \in Events : Emit(e)
  <2>1. /\ UNCHANGED <<listeners, subscribed, out, msg, todo, did_open, pc>>
        /\ task \in {"running", "blocked"} /\ lost \subseteq lost'
    BY <1>18 DEF TaskReceives, TaskSkips, Emit
  <2> QED
    BY <1>1, <2>1
<1>19. CASE UNCHANGED vars
  BY <1>1, <1>19 DEF vars, socket
<1> QED
  BY <1>2, <1>3, <1>4, <1>5, <1>6, <1>7, <1>8, <1>9, <1>10, <1>11, <1>12, <1>13, <1>14, <1>15,
     <1>16,
     <1>17, <1>18, <1>19 DEF Next, MainStep, SendStep, DisconnectStep

LEMMA DataStep == IInv /\ [Next]_vars => Data'
<1> SUFFICES ASSUME IInv, [Next]_vars PROVE Data'
  OBVIOUS
<1> USE Names DEF IInv, TypeOK, Data, PlacesFit, Sending, MessagesFit
<1>1. CASE UNCHANGED vars
  BY <1>1 DEF vars, mutexes, calls, socket, flags, bounds
<1>2. CASE start_connection
  BY <1>2 DEF start_connection, Goto, mutexes, calls, socket, bounds
<1>3. CASE connect_driver
  <2>1. /\ <<>> \in Seq(Msgs \cup {"init"}) /\ <<"init">> \in Seq(Msgs \cup {"init"})
        /\ Len(<<>>) <= Capacity /\ Len(<<"init">>) <= Capacity
    BY EmptyChannel, InitOnly
  <2>2. /\ (out' = <<>> /\ wire' = <<"init">>) \/ (out' = <<"init">> /\ wire' = <<>>)
        /\ inbox' = <<>>
    BY <1>3 DEF connect_driver
  <2>3. /\ out' \in Seq(Msgs \cup {"init"}) /\ Len(out') <= Capacity
        /\ wire' \in Seq(Msgs \cup {"init"})
        /\ inbox' \in Seq(Msgs \cup {"init"}) /\ Len(inbox') <= Capacity
    <3>1. CASE out' = <<>> /\ wire' = <<"init">> /\ inbox' = <<>>
      BY <2>1, <3>1
    <3>2. CASE out' = <<"init">> /\ wire' = <<>> /\ inbox' = <<>>
      BY <2>1, <3>2
    <3> QED
      BY <2>2, <3>1, <3>2, Zenon
  <2>4. /\ task' = "running" /\ subscribed' = {} /\ lost' \subseteq Msgs /\ Goto("main", "set")
        /\ UNCHANGED <<transport, msg, mutexes, calls, listeners, todo, rx, bounds>>
    BY <1>3 DEF connect_driver, flags
  <2> QED
    BY <2>3, <2>4 DEF Goto, mutexes, calls, bounds
<1>4. CASE SetDriver
  BY <1>4 DEF SetDriver, Goto, mutexes, calls, socket, flags, bounds
<1>5. CASE TaskJoined
  <2>1. inbox' = <<>> /\ lost' \subseteq Msgs
    BY <1>5 DEF TaskJoined, ActionsIn
  <2> QED
    BY <1>5, <2>1, EmptyChannel DEF TaskJoined, Goto, mutexes, calls, flags, bounds
<1>6. CASE DestroyDriver
  BY <1>6 DEF DestroyDriver, AfterAttempt, Goto, mutexes, calls, bounds
<1>7. CASE Backoff
  <2>1. CASE pc' = [pc EXCEPT !["main"] = "dial"]
    BY <1>7, <2>1 DEF Backoff, mutexes, calls, socket, bounds
  <2>2. CASE pc' = [pc EXCEPT !["main"] = "done"]
    BY <1>7, <2>2 DEF Backoff, mutexes, calls, socket, bounds
  <2> QED
    BY <1>7, <2>1, <2>2 DEF Backoff
<1>8. CASE on_message
  <2>1. inbox' \in Seq(Msgs \cup {"init"}) /\ Len(inbox') <= Capacity
    <3>1. inbox # <<>> /\ inbox' = Tail(inbox)
      BY <1>8, OnMessageTo
    <3>2. Tail(inbox) \in Seq(Msgs \cup {"init"}) /\ Len(Tail(inbox)) <= Len(inbox)
          /\ Len(Tail(inbox)) \in Nat /\ Len(inbox) \in Nat
      BY <3>1, Channels
    <3> QED
      BY <3>1, <3>2
  <2>2. /\ pc' = pc \/ Goto("main", "resubLock") \/ Goto("main", "event")
        /\ in_flight' \subseteq in_flight
        /\ outcome' = outcome \/ \E m \in Actions : outcome' = [outcome EXCEPT ![m] = "answered"]
    BY <1>8, OnMessageTo
  <2>3. UNCHANGED <<transport, msg, mutexes, msg_queue, listeners, todo, task, out, wire,
                    subscribed,
                   rx, lost, bounds>>
    BY <1>8 DEF on_message, flags
  <2>4. pc' \in [Tasks -> {"idle", "start", "dial", "set", "loop", "resubLock", "resub",
                           "flushLock", "flush", "event", "take", "backoff", "driver", "send",
                           "queue", "wait", "abort", "clear", "done"}]
    <3>1. CASE pc' = pc
      BY <3>1
    <3>2. CASE Goto("main", "resubLock")
      BY <3>2 DEF Goto
    <3>3. CASE Goto("main", "event")
      BY <3>3 DEF Goto
    <3> QED
      BY <2>2, <3>1, <3>2, <3>3
  <2>5. outcome' \in [Actions -> {"none", "pending", "answered", "closed"}]
    <3>1. outcome \in [Actions -> {"none", "pending", "answered", "closed"}]
      OBVIOUS
    <3>2. ASSUME NEW m \in Actions, outcome' = [outcome EXCEPT ![m] = "answered"]
          PROVE  outcome' \in [Actions -> {"none", "pending", "answered", "closed"}]
      BY <3>1, <3>2
    <3>3. CASE outcome' = outcome
      BY <3>1, <3>3
    <3> QED
      BY <2>2, <3>2, <3>3
  <2>6. in_flight' \subseteq Actions
    BY <2>2
  <2> QED
    BY <2>1, <2>3, <2>4, <2>5, <2>6 DEF mutexes, bounds
<1>9. CASE RunCallbacks
  BY <1>9 DEF RunCallbacks, Goto, mutexes, calls, socket, flags, bounds
<1>10. CASE LockSubscriptions
  BY <1>10 DEF LockSubscriptions, ToResubscribe, Goto, calls, socket, flags, bounds
<1>11. CASE Resubscribe
  <2>1. ASSUME NEW e \in todo, todo' = todo \ {e}, msg' = [msg EXCEPT !["main"] = e],
               Goto("main", "driver"), UNCHANGED subsLock
       PROVE  Data'
    BY <1>11, <2>1 DEF Resubscribe, Goto, calls, socket, flags, bounds
  <2>2. ASSUME todo = {}, subsLock' = Free, Goto("main", "flushLock"), UNCHANGED <<todo, msg>>
       PROVE  Data'
    BY <1>11, <2>2 DEF Resubscribe, Goto, calls, socket, flags, bounds
  <2> QED
    BY <1>11, <2>1, <2>2 DEF Resubscribe
<1>12. CASE LockQueue
  BY <1>12 DEF LockQueue, Goto, calls, socket, flags, bounds
<1>13. CASE Flush
  <2>1. msg_queue' \in Seq(Actions)
    <3>1. CASE UNCHANGED msg_queue
      BY <3>1
    <3>2. CASE msg_queue # <<>> /\ msg_queue' = Tail(msg_queue)
      <4>1. Tail(msg_queue) \in Seq(Actions)
        BY <3>2, Channels
      <4> QED
        BY <3>2, <4>1, Zenon
    <3> QED
      BY <1>13, <3>1, <3>2, FlushTo
  <2>2. UNCHANGED <<transport, driverLock, subsLock, in_flight, outcome, listeners, todo, socket,
                    rx,
                   lost, bounds>>
    BY <1>13 DEF Flush, flags
  <2>3. CASE msg_queue = <<>> /\ queueLock' = Free /\ Goto("main", "loop") /\ UNCHANGED msg
    BY <2>1, <2>2, <2>3 DEF Goto, socket, bounds
  <2>4. ASSUME NEW m \in Actions, msg' = [msg EXCEPT !["main"] = m], Goto("main", "driver"),
               UNCHANGED queueLock
        PROVE  Data'
    BY <2>1, <2>2, <2>4 DEF Goto, socket, bounds
  <2> QED
    BY <1>13, <2>3, <2>4, FlushTo
<1>14. CASE ConnectFails
  BY <1>14 DEF ConnectFails, Fault, RefusedAttempt, mutexes, calls, socket
<1>15. ASSUME NEW p \in Tasks \ {"disc"}, LockDriver(p) PROVE Data'
  BY <1>15 DEF LockDriver, Goto, calls, socket, flags, bounds
<1>16. ASSUME NEW p \in Tasks \ {"disc"}, DriverSend(p) PROVE Data'
  BY <1>16 DEF DriverSend, Sent, HasReceiver, Goto, calls, flags, bounds
<1>17. ASSUME NEW p \in Tasks \ {"disc"}, SendFails(p) PROVE Data'
  <2>1. ASSUME msg[p] \in Events, Sent(p)
       PROVE  Data'
    BY <1>17, <2>1 DEF SendFails, Sent, HasReceiver, Goto, calls, socket, flags, bounds
  <2>2. ASSUME msg[p] \in Actions, Goto(p, "queue"), UNCHANGED <<msg, driverLock, subsLock>>
       PROVE  Data'
    BY <1>17, <2>2 DEF SendFails, Sent, HasReceiver, Goto, calls, socket, flags, bounds
  <2> QED
    BY <1>17, <2>1, <2>2, SendFailsTo
<1>18. ASSUME NEW p \in Tasks \ {"disc"}, QueueMsg(p) PROVE Data'
  BY <1>18 DEF QueueMsg, Sent, Goto, socket, flags, bounds
<1>19. ASSUME NEW a \in Actions, action(a) PROVE Data'
  BY <1>19 DEF action, Goto, mutexes, socket, flags, bounds
<1>20. ASSUME NEW l \in Listeners, on_event(l) PROVE Data'
  <2>1. ASSUME NEW e \in Events, listeners' = listeners \cup {e}, Goto(l, "done"),
               UNCHANGED <<msg, subsLock>>
       PROVE  Data'
    BY <1>20, <2>1 DEF on_event, Goto, calls, socket, flags, bounds
  <2>2. ASSUME NEW e \in Events, listeners' = listeners \cup {e}, subsLock' = l,
               msg' = [msg EXCEPT ![l] = e], Goto(l, "driver")
       PROVE  Data'
    BY <1>20, <2>2 DEF on_event, Goto, calls, socket, flags, bounds
  <2> QED
    BY <1>20, <2>1, <2>2 DEF on_event
<1>21. CASE disconnect
  BY <1>21 DEF disconnect, Goto, mutexes, calls, socket, bounds
<1>22. CASE AbortDriver
  <2>1. lost' \subseteq Msgs
    BY <1>22 DEF AbortDriver, TaskGone, ActionsIn
  <2>2. (out' = <<>> /\ wire' = <<>> /\ task' = "ended") \/ UNCHANGED <<task, out, wire>>
    BY <1>22 DEF AbortDriver, TaskGone
  <2>3. /\ out' \in Seq(Msgs \cup {"init"}) /\ Len(out') <= Capacity /\ wire' \in Seq(Msgs \cup {"init"})
        /\ task' \in {"none", "running", "blocked", "ended"}
    <3>1. CASE out' = <<>> /\ wire' = <<>> /\ task' = "ended"
      BY <3>1, EmptyChannel
    <3>2. CASE UNCHANGED <<task, out, wire>>
      BY <3>2
    <3> QED
      BY <2>2, <3>1, <3>2
  <2>4. /\ in_flight' = {} /\ outcome' \in [Actions -> {"none", "pending", "answered", "closed"}]
        /\ Goto("disc", "clear")
        /\ UNCHANGED <<transport, msg, mutexes, msg_queue, listeners, todo, inbox, subscribed, rx,
                       bounds>>
    BY <1>22 DEF AbortDriver, flags
  <2> QED
    BY <2>1, <2>3, <2>4 DEF Goto, mutexes, bounds
<1>23. CASE ClearSubscriptions
  BY <1>23 DEF ClearSubscriptions, Goto, mutexes, calls, socket, bounds
<1>24. CASE DisconnectReturn
  BY <1>24 DEF DisconnectReturn, Goto, mutexes, calls, socket, flags, bounds
<1>25. CASE ClientDrop
  BY <1>25 DEF ClientDrop, mutexes, calls, socket, bounds
<1>a. ASSUME out # <<>>, out' = Tail(out)
      PROVE  out' \in Seq(Msgs \cup {"init"}) /\ Len(out') <= Capacity
  <2>1. Tail(out) \in Seq(Msgs \cup {"init"}) /\ Len(Tail(out)) <= Len(out)
        /\ Len(Tail(out)) \in Nat /\ Len(out) \in Nat
    BY <1>a, Channels
  <2> QED
    BY <1>a, <2>1
<1>b. ASSUME out # <<>>, Arrives(Head(out)) \/ UNCHANGED <<wire, subscribed>>
      PROVE  wire' \in Seq(Msgs \cup {"init"}) /\ subscribed' \subseteq Events
  <2>1. Head(out) \in Msgs \cup {"init"}
    BY <1>b
  <2>2. CASE UNCHANGED <<wire, subscribed>>
    BY <2>2
  <2>3. CASE UNCHANGED wire /\ subscribed' = subscribed \cup {Head(out)} /\ Head(out) \in Events
    BY <2>3
  <2>4. CASE wire' = Append(wire, Head(out)) /\ UNCHANGED subscribed
    <3>1. Append(wire, Head(out)) \in Seq(Msgs \cup {"init"})
      BY <2>1, Channels
    <3> QED
      BY <2>4, <3>1, Zenon
  <2> QED
    BY <1>b, <2>2, <2>3, <2>4 DEF Arrives
<1>26. CASE TaskSends
  <2>1. /\ out # <<>> /\ out' = Tail(out) /\ Arrives(Head(out))
        /\ UNCHANGED <<transport, pc, msg, mutexes, calls, listeners, todo, task, inbox, rx, lost,
                       bounds>>
    BY <1>26 DEF TaskSends, flags
  <2> QED
    BY <1>a, <1>b, <2>1 DEF mutexes, calls, bounds
<1>27. CASE SendErrs
  <2>1. /\ out # <<>> /\ out' = Tail(out) /\ lost' \subseteq Msgs
        /\ Arrives(Head(out)) \/ UNCHANGED <<wire, subscribed>>
        /\ UNCHANGED <<transport, pc, msg, mutexes, calls, listeners, todo, task, inbox, rx>>
        /\ faults < MaxFaults /\ faults' = faults + 1 /\ UNCHANGED emits
    BY <1>27 DEF SendErrs, Fault, flags
  <2> QED
    BY <1>a, <1>b, <2>1 DEF mutexes, calls
<1>c. CASE TaskSkips
  <2>1. /\ wire # <<>> /\ wire' = Tail(wire) /\ lost' \subseteq Msgs
        /\ UNCHANGED <<transport, pc, msg, mutexes, calls, listeners, todo, task, out, inbox,
                       subscribed, rx, bounds>>
    BY <1>c DEF TaskSkips, flags
  <2>2. Tail(wire) \in Seq(Msgs \cup {"init"})
    BY <2>1, Channels
  <2> QED
    BY <2>1, <2>2 DEF mutexes, calls, bounds
<1>28. CASE TaskReceives
  <2>1. /\ wire # <<>> /\ Head(wire) \in Msgs \cup {"init"} /\ task' \in {"running", "blocked"}
        /\ \/ /\ Len(inbox) < Capacity /\ inbox' = Append(inbox, Head(wire))
              /\ wire' = Tail(wire)
           \/ UNCHANGED <<inbox, wire>>
    BY <1>28 DEF TaskReceives
  <2>2. inbox' \in Seq(Msgs \cup {"init"}) /\ Len(inbox') <= Capacity
    <3>1. CASE UNCHANGED inbox
      BY <3>1
    <3>2. CASE Len(inbox) < Capacity /\ inbox' = Append(inbox, Head(wire))
      <4>1. Append(inbox, Head(wire)) \in Seq(Msgs \cup {"init"})
        BY <2>1, Channels
      <4>2. Len(Append(inbox, Head(wire))) <= Capacity
        BY <2>1, <3>2, Channels
      <4> QED
        BY <3>2, <4>1, <4>2, Zenon
    <3> QED
      BY <2>1, <3>1, <3>2
  <2>3. wire' \in Seq(Msgs \cup {"init"})
    <3>1. Tail(wire) \in Seq(Msgs \cup {"init"})
      BY <2>1, Channels
    <3> QED
      BY <2>1, <3>1
  <2>4. UNCHANGED <<transport, pc, msg, mutexes, calls, listeners, todo, out, subscribed, rx,
                    lost, bounds>>
    BY <1>28 DEF TaskReceives, flags
  <2> QED
    BY <2>1, <2>2, <2>3, <2>4 DEF mutexes, calls, bounds
<1>29. CASE SocketEnds
  <2>1. lost' \subseteq Msgs
    BY <1>29 DEF SocketEnds, TaskGone, ActionsIn
  <2>2. /\ out' = <<>> /\ wire' = <<>> /\ task' = "ended"
        /\ UNCHANGED <<transport, pc, msg, mutexes, calls, listeners, todo, inbox, subscribed, rx>>
        /\ faults < MaxFaults /\ faults' = faults + 1 /\ UNCHANGED emits
    BY <1>29 DEF SocketEnds, TaskGone, Fault, flags
  <2>3. out' \in Seq(Msgs \cup {"init"}) /\ Len(out') <= Capacity /\ wire' \in Seq(Msgs \cup {"init"})
    BY <2>2, EmptyChannel
  <2> QED
    BY <2>1, <2>2, <2>3 DEF mutexes, calls
<1>30. ASSUME NEW e \in Events, Emit(e) PROVE Data'
  BY <1>30 DEF Emit, mutexes, calls, flags
<1> QED
  BY <1>1, <1>2, <1>3, <1>4, <1>5, <1>6, <1>7, <1>8, <1>9, <1>10, <1>11, <1>12, <1>13, <1>14,
     <1>15, <1>16, <1>17, <1>18, <1>19, <1>20, <1>21, <1>22, <1>23, <1>24, <1>25, <1>26, <1>27,
     <1>28, <1>29, <1>30, <1>c DEF Next, MainStep, SendStep, DisconnectStep

LEMMA PendingStep == IInv /\ [Next]_vars => PendingIsNotDropped'
<1> SUFFICES ASSUME IInv, [Next]_vars, NEW a \in Actions, outcome'[a] = "pending"
             PROVE  Kept(a)'
  BY DEF PendingIsNotDropped
<1> USE Names
<1>a. /\ msg \in [Tasks -> Msgs \cup {Free}]
      /\ outcome \in [Actions -> {"none", "pending", "answered", "closed"}]
      /\ out \in Seq(Msgs \cup {"init"}) /\ inbox \in Seq(Msgs \cup {"init"})
      /\ wire \in Seq(Msgs \cup {"init"})
      /\ msg_queue \in Seq(Actions)
  BY DEF IInv, TypeOK, Data
<1>b. /\ outcome[a] = "pending" => Kept(a) /\ a \in in_flight
      /\ \A p \in Tasks : msg[p] # Free <=> pc[p] \in Sending
      /\ \A p \in Tasks : pc[p] = "queue" => msg[p] \in Actions
      /\ a # Free
  BY DEF IInv, MessagesFit, PendingIsNotDropped, InFlight
<1>c. a \notin Events /\ a # "init"
  BY ConstantsAssumption DEF ConstantsAssumption
<1>1. ASSUME UNCHANGED <<outcome, lost, msg_queue, out, wire, inbox, msg>> PROVE Kept(a)'
  BY <1>1, <1>b DEF Kept
<1>2. CASE \/ start_connection \/ SetDriver \/ DestroyDriver \/ Backoff \/ RunCallbacks
           \/ LockSubscriptions \/ LockQueue \/ ConnectFails \/ disconnect \/ ClearSubscriptions
           \/ DisconnectReturn \/ ClientDrop \/ UNCHANGED vars
  <2>1. UNCHANGED <<outcome, lost, msg_queue, out, wire, inbox, msg>>
    BY <1>2 DEF start_connection, SetDriver, DestroyDriver, Backoff, RunCallbacks,
       LockSubscriptions,
                LockQueue, ConnectFails, disconnect, ClearSubscriptions, DisconnectReturn,
                ClientDrop, vars, calls, socket
  <2> QED
    BY <1>1, <2>1
<1>3. ASSUME NEW p \in Tasks \ {"disc"}, LockDriver(p) PROVE Kept(a)'
  <2>1. UNCHANGED <<outcome, lost, msg_queue, out, wire, inbox, msg>>
    BY <1>3 DEF LockDriver, calls, socket
  <2> QED
    BY <1>1, <2>1
<1>4. CASE connect_driver
  <2>1. /\ pc["main"] = "dial" /\ (a \in lost => a \in lost')
        /\ UNCHANGED <<outcome, msg_queue, msg>>
    BY <1>4 DEF connect_driver, calls
  <2>2. out = <<>> /\ wire = <<>> /\ inbox = <<>>
    BY <2>1 DEF IInv, DriverFits
  <2> QED
    BY <1>b, <2>1, <2>2, EmptyChannel DEF Kept
<1>5. CASE TaskJoined
  <2>1. /\ lost' = lost \cup ActionsIn(inbox)
        /\ UNCHANGED <<outcome, msg_queue, out, wire, msg>>
    BY <1>5 DEF TaskJoined, calls
  <2> QED
    BY <1>b, <2>1 DEF Kept, ActionsIn
<1>6. CASE on_message
  <2>1. inbox # <<>> /\ inbox' = Tail(inbox)
    BY <1>6, OnMessageTo
  <2>2. ToSet(inbox) = {Head(inbox)} \cup ToSet(inbox')
    BY <1>a, <2>1, Channels
  <2>3. UNCHANGED <<lost, msg_queue, out, wire, msg>>
    BY <1>6 DEF on_message
  <2>4. outcome[a] = "pending" /\ a # Head(inbox)
    BY <1>6, <1>a, <1>b, <1>c, OnMessageTo
  <2> QED
    BY <1>b, <2>2, <2>3, <2>4 DEF Kept
<1>7. CASE Resubscribe
  <2>1. /\ pc["main"] = "resub" /\ UNCHANGED <<outcome, lost, msg_queue, out, wire, inbox>>
        /\ msg' = msg \/ \E e \in todo : msg' = [msg EXCEPT !["main"] = e]
    BY <1>7 DEF Resubscribe, calls, socket
  <2>2. msg["main"] = Free /\ \A q \in Tasks : q # "main" => msg'[q] = msg[q]
    BY <1>a, <1>b, <2>1 DEF Sending
  <2> QED
    BY <1>b, <2>1, <2>2 DEF Kept
<1>8. CASE Flush
  <2>1. pc["main"] = "flush" /\ UNCHANGED <<outcome, lost, out, wire, inbox>>
    BY <1>8 DEF Flush, socket
  <2>2. CASE UNCHANGED <<msg, msg_queue>>
    BY <1>1, <2>1, <2>2
  <2>3. CASE /\ msg_queue # <<>> /\ msg_queue' = Tail(msg_queue)
             /\ msg' = [msg EXCEPT !["main"] = Head(msg_queue)]
    <3>1. ToSet(msg_queue) = {Head(msg_queue)} \cup ToSet(msg_queue')
      BY <1>a, <2>3, Channels
    <3>2. /\ msg["main"] = Free /\ msg'["main"] = Head(msg_queue)
          /\ \A q \in Tasks : q # "main" => msg'[q] = msg[q]
      BY <1>a, <1>b, <2>1, <2>3 DEF Sending
    <3> QED
      BY <1>b, <2>1, <3>1, <3>2 DEF Kept
  <2> QED
    BY <1>8, <2>2, <2>3 DEF Flush
<1>9. ASSUME NEW p \in Tasks \ {"disc"}, DriverSend(p) PROVE Kept(a)'
  <2>1. /\ out' = Append(out, msg[p]) /\ msg' = [msg EXCEPT ![p] = Free] /\ pc[p] = "send"
        /\ UNCHANGED <<outcome, lost, msg_queue, wire, inbox>>
    BY <1>9 DEF DriverSend, Sent, calls
  <2>2. ToSet(out') = ToSet(out) \cup {msg[p]}
    <3>1. msg[p] \in Msgs
      BY <1>a, <1>b, <2>1 DEF Sending
    <3> QED
      BY <1>a, <2>1, <3>1, Channels, SMTT(30)
  <2>3. \A q \in Tasks : q # p => msg'[q] = msg[q]
    BY <1>a, <2>1
  <2> QED
    BY <1>b, <2>1, <2>2, <2>3 DEF Kept
<1>10. ASSUME NEW p \in Tasks \ {"disc"}, SendFails(p) PROVE Kept(a)'
  <2>1. UNCHANGED <<outcome, lost, msg_queue, out, wire, inbox>>
    BY <1>10 DEF SendFails, calls, socket
  <2>2. (msg[p] \in Events /\ msg' = [msg EXCEPT ![p] = Free]) \/ UNCHANGED msg
    BY <1>10, SendFailsTo DEF IInv, TypeOK, Sent
  <2>3. \A q \in Tasks : q # p => msg'[q] = msg[q]
    BY <1>a, <2>2
  <2> QED
    BY <1>b, <1>c, <2>1, <2>2, <2>3 DEF Kept
<1>11. ASSUME NEW p \in Tasks \ {"disc"}, QueueMsg(p) PROVE Kept(a)'
  <2>1. /\ msg_queue' = Append(msg_queue, msg[p]) /\ msg' = [msg EXCEPT ![p] = Free]
        /\ pc[p] = "queue" /\ UNCHANGED <<outcome, lost, out, wire, inbox>>
    BY <1>11 DEF QueueMsg, Sent, socket
  <2>2. ToSet(msg_queue') = ToSet(msg_queue) \cup {msg[p]}
    <3>1. msg[p] \in Actions
      BY <1>b, <2>1
    <3> QED
      BY <1>a, <2>1, <3>1, Channels
  <2>3. \A q \in Tasks : q # p => msg'[q] = msg[q]
    BY <1>a, <2>1
  <2> QED
    BY <1>b, <2>1, <2>2, <2>3 DEF Kept
<1>12. ASSUME NEW b \in Actions, action(b) PROVE Kept(a)'
  <2>1. /\ outcome' = [outcome EXCEPT ![b] = "pending"] /\ msg' = [msg EXCEPT ![b] = b]
        /\ pc[b] = "idle" /\ UNCHANGED <<lost, msg_queue, out, wire, inbox>>
    BY <1>12 DEF action, socket
  <2>2. msg[b] = Free /\ msg'[b] = b /\ \A q \in Tasks : q # b => msg'[q] = msg[q]
    BY <1>a, <1>b, <2>1 DEF Sending
  <2>3. a # b => outcome[a] = "pending"
    BY <1>a, <2>1
  <2> QED
    BY <1>b, <2>1, <2>2, <2>3 DEF Kept
<1>13. ASSUME NEW l \in Listeners, on_event(l) PROVE Kept(a)'
  <2>1. /\ pc[l] = "idle" /\ UNCHANGED <<outcome, lost, msg_queue, out, wire, inbox>>
        /\ msg' = msg \/ \E e \in Events : msg' = [msg EXCEPT ![l] = e]
    BY <1>13 DEF on_event, calls, socket
  <2>2. msg[l] = Free /\ \A q \in Tasks : q # l => msg'[q] = msg[q]
    BY <1>a, <1>b, <2>1 DEF Sending
  <2> QED
    BY <1>b, <2>1, <2>2 DEF Kept
<1>14. CASE AbortDriver
  BY <1>14, <1>b DEF AbortDriver
<1>15. CASE TaskSends \/ SendErrs
  <2>1. /\ out # <<>> /\ out' = Tail(out) /\ UNCHANGED <<outcome, msg_queue, inbox, msg>>
        /\ lost \subseteq lost' /\ (UNCHANGED wire \/ wire' = Append(wire, Head(out)))
    BY <1>15 DEF TaskSends, SendErrs, Arrives, calls
  <2>2. ToSet(out) = {Head(out)} \cup ToSet(out') /\ Head(out) \in Msgs \cup {"init"}
    BY <1>a, <2>1, Channels
  <2>3. Head(out) = a => wire' = Append(wire, Head(out)) \/ a \in lost'
    BY <1>15, <1>c DEF TaskSends, SendErrs, Arrives, Msgs
  <2>4. ToSet(Append(wire, Head(out))) = ToSet(wire) \cup {Head(out)}
    <3>1. \A m \in Msgs \cup {"init"} : ToSet(Append(wire, m)) = ToSet(wire) \cup {m}
      BY <1>a, Channels
    <3> QED
      BY <2>2, <3>1, Zenon
  <2>5. ToSet(wire) \subseteq ToSet(wire') /\ (Head(out) = a => a \in ToSet(wire') \/ a \in lost')
    BY <2>1, <2>3, <2>4
  <2> QED
    BY <1>b, <2>1, <2>2, <2>5 DEF Kept
<1>d. CASE TaskSkips
  <2>1. /\ wire # <<>> /\ wire' = Tail(wire) /\ lost' = lost \cup {Head(wire)}
        /\ UNCHANGED <<outcome, msg_queue, out, inbox, msg>>
    BY <1>d DEF TaskSkips, calls
  <2>2. ToSet(wire) = {Head(wire)} \cup ToSet(wire')
    BY <1>a, <2>1, Channels
  <2> QED
    BY <1>b, <2>1, <2>2 DEF Kept
<1>16. CASE TaskReceives
  <2>1. /\ wire # <<>> /\ UNCHANGED <<outcome, msg_queue, lost, msg, out>>
        /\ \/ inbox' = Append(inbox, Head(wire)) /\ wire' = Tail(wire)
           \/ UNCHANGED <<inbox, wire>>
    BY <1>16 DEF TaskReceives, calls
  <2>2. ToSet(wire) = {Head(wire)} \cup ToSet(Tail(wire)) /\ Head(wire) \in Msgs \cup {"init"}
    BY <1>a, <2>1, Channels
  <2>3. ToSet(Append(inbox, Head(wire))) = ToSet(inbox) \cup {Head(wire)}
    BY <1>a, <2>2, Channels
  <2>4. ToSet(wire) \cup ToSet(inbox) \subseteq ToSet(wire') \cup ToSet(inbox')
    BY <2>1, <2>2, <2>3
  <2> QED
    BY <1>b, <2>1, <2>4 DEF Kept
<1>17. CASE SocketEnds
  <2>1. /\ lost' = lost \cup ActionsIn(out) \cup ActionsIn(wire)
        /\ UNCHANGED <<outcome, msg_queue, inbox, msg>>
    BY <1>17 DEF SocketEnds, TaskGone, calls
  <2> QED
    BY <1>b, <2>1 DEF Kept, ActionsIn
<1>18. ASSUME NEW e \in Events, Emit(e) PROVE Kept(a)'
  <2>1. wire' = Append(wire, e) /\ UNCHANGED <<outcome, msg_queue, inbox, msg, lost, out>>
    BY <1>18 DEF Emit, calls
  <2>2. ToSet(wire') = ToSet(wire) \cup {e}
    BY <1>a, <2>1, Channels
  <2> QED
    BY <1>b, <2>1, <2>2 DEF Kept
<1> QED
  BY <1>2, <1>3, <1>4, <1>5, <1>6, <1>7, <1>8, <1>9, <1>10, <1>11, <1>12, <1>13, <1>14, <1>15,
     <1>16,
     <1>17, <1>18, <1>d DEF Next, MainStep, SendStep, DisconnectStep

-----------------------------------------------------------------------------
(* The inductive invariant.                                                  *)

LEMMA InitInv == Init => IInv
<1> SUFFICES ASSUME Init PROVE IInv
  OBVIOUS
<1> USE Names DEF Init
<1>1. Flags /\ PlacesFit /\ LocksFit /\ QueuedForLater /\ Resubscribed /\ TodoFits
  BY DEF Flags, PlacesFit, LocksFit, QueuedForLater, Resubscribed, TodoFits, Sending
<1>2. Data
  BY EmptyChannel DEF Data
<1>3. MessagesFit /\ DriverFits /\ InFlight /\ PendingIsNotDropped
  BY DEF MessagesFit, DriverFits, InFlight, PendingIsNotDropped, Sending
<1> QED
  BY <1>1, <1>2, <1>3 DEF IInv, TypeOK

\* The tasks' places, their messages and locks, the driver and the two promises made to
\* callers fit together in every state (IInv).
THEOREM InvariantHolds == Spec => []IInv
<1>1. IInv /\ [Next]_vars => IInv'
  BY PlacesStep, MessagesStep, LocksStep, DriverStep, QueuedStep, InFlightStep, PendingStep,
     ResubscribedStep, TodoStep, FlagsStep, DataStep DEF IInv, TypeOK
<1> QED
  BY InitInv, <1>1, PTL DEF Spec

\* Every variable keeps its type, and neither channel of the driver exceeds its capacity.
THEOREM TypeCorrect == Spec => []TypeOK
<1>1. IInv => TypeOK
  BY DEF IInv
<1> QED
  BY InvariantHolds, <1>1, PTL

\* A call of action that waits for its answer still has its message somewhere on the way, or
\* in the queue, unless a fault of the network dropped it or the driver task skipped an answer
\* it cannot read: no path of send_msg, of the flush or of a new socket loses it.
THEOREM NoCallForgotten == Spec => []PendingIsNotDropped
<1>1. IInv => PendingIsNotDropped
  BY DEF IInv
<1> QED
  BY InvariantHolds, <1>1, PTL

\* On an open socket every event with a listener is subscribed to, or its subscription is on
\* the way, whichever socket the listener was added on - unless sending that subscription on
\* this very socket has failed.
THEOREM ListenersAreSubscribed == Spec => []SubscribedOnEverySocket
<1>1. ASSUME IInv, pc["main"] = "loop", did_open, task = "running"
      PROVE  listeners \subseteq subscribed \cup ToSet(out) \cup {msg[p] : p \in Tasks} \cup lost
  <2>1. msg["main"] = Free /\ subsLock # "main"
    BY <1>1, Names DEF IInv, MessagesFit, LocksFit, Sending, Msgs
  <2>2. todo = {}
    BY <1>1, <2>1 DEF IInv, TodoFits
  <2>3. \A e \in listeners : Known(e)
    BY <1>1 DEF IInv, Resubscribed
  <2> QED
    BY <2>2, <2>3 DEF Known
<1>2. IInv => SubscribedOnEverySocket
  BY <1>1 DEF SubscribedOnEverySocket
<1> QED
  BY InvariantHolds, <1>2, PTL

-----------------------------------------------------------------------------
(* Deadlock.                                                                 *)

\* While the driver task lives, and its two channels are not both full, no task that holds a
\* mutex waits in a ring.
LEMMA NoRing ==
    ASSUME IInv, task # "ended", ~(Full(out) /\ Full(inbox)),
           NEW S \in SUBSET (Tasks \cup {"io"}),
           \A p \in S : \E q \in S : WaitsFor(p, q)
    PROVE  S = {}
<1>a. "io" \notin Tasks /\ "io" # Free
  BY ConstantsAssumption DEF ConstantsAssumption, Tasks, Free
<1>b. /\ driverLock \notin S \/ driverLock \in Tasks
      /\ queueLock \notin S \/ queueLock \in Tasks
      /\ subsLock \notin S \/ subsLock \in Tasks
  BY <1>a, Names DEF IInv, TypeOK, Data
<1>1. \A p \in Tasks : pc[p] = "send" => p \notin S
  <2> SUFFICES ASSUME NEW p \in Tasks, pc[p] = "send", p \in S PROVE FALSE
    OBVIOUS
  <2>1. "io" \in S /\ Full(out)
    BY <1>a DEF WaitsFor, Needs
  <2> QED
    BY <1>a, <2>1 DEF WaitsFor
<1>2. \A p \in Tasks : pc[p] = "queue" => p \notin S
  <2> SUFFICES ASSUME NEW p \in Tasks, pc[p] = "queue", p \in S PROVE FALSE
    OBVIOUS
  <2>1. queueLock \in S
    BY <1>a DEF WaitsFor, Needs, Holder
  <2>2. pc["main"] = "flush" \/ pc["main"] \in Sending
    BY <1>b, <2>1, Names DEF IInv, LocksFit, MessagesFit
  <2>3. driver /\ task # "none"
    BY <2>2 DEF IInv, DriverFits
  <2>4. ~HasReceiver /\ task \in {"none", "running", "blocked", "ended"}
    BY DEF IInv, QueuedForLater, TypeOK, Data
  <2> QED
    BY <2>3, <2>4 DEF HasReceiver
<1>3. driverLock \notin S
  BY <1>b, <1>1, <1>2 DEF IInv, LocksFit
<1>4. \A p \in Tasks : pc[p] \in Sending => p \notin S
  BY <1>a, <1>1, <1>2, <1>3 DEF Sending, WaitsFor, Needs, Holder
<1>5. \A p \in Tasks : pc[p] \in {"flush", "resub"} => p \notin S
  BY <1>a DEF WaitsFor, Needs
<1>6. queueLock \notin S /\ subsLock \notin S
  BY <1>b, <1>4, <1>5, Names DEF IInv, LocksFit, MessagesFit, Msgs
<1>7. \A p \in Tasks : p \notin S
  BY <1>a, <1>1, <1>3, <1>6 DEF WaitsFor, Needs, Holder
<1>8. "io" \notin S
  BY <1>a, <1>7, Names DEF WaitsFor
<1> QED
  BY <1>7, <1>8

\* Tasks that take msg_queue while they hold driver, and on_open which takes driver while it
\* holds msg_queue, wait for each other in a ring only when the driver task has ended or
\* both of its channels are full.
THEOREM DeadlocksAreTheKnownOnes == Spec => []DeadlockNeedsADeadDriver
<1>1. ASSUME IInv, Deadlocked, task # "ended", ~(Full(out) /\ Full(inbox)) PROVE FALSE
  <2>1. PICK S \in (SUBSET Waiting) \ {{}} : \A p \in S : \E q \in S : WaitsFor(p, q)
    BY <1>1 DEF Deadlocked
  <2>2. S \in SUBSET (Tasks \cup {"io"}) /\ S # {}
    BY <2>1 DEF Waiting
  <2> QED
    BY <1>1, <2>1, <2>2, NoRing
<1>2. IInv => DeadlockNeedsADeadDriver
  BY <1>1 DEF DeadlockNeedsADeadDriver
<1> QED
  BY InvariantHolds, <1>2, PTL

=============================================================================
