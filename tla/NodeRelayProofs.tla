-------------------------- MODULE NodeRelayProofs --------------------------
(* Proofs about NodeRelay, for any nodes, connections, retries and faults.    *)
EXTENDS NodeRelay, SequenceTheorems, FunctionTheorems, FiniteSetTheorems, TLAPS

USE DEF peers

-----------------------------------------------------------------------------
(* Topics                                                                     *)

Boxes == [Nodes -> Seq(NodeMessages)]

(* What is in a topic once its first message has been taken.                  *)
LEMMA TakenPlaces ==
    ASSUME inbox \in Boxes, NEW n \in Nodes, inbox[n] # <<>>
    PROVE  /\ Taken(n) \in Boxes
           /\ \A k \in Nodes : \A i \in DOMAIN Taken(n)[k] :
                IF k = n THEN i + 1 \in DOMAIN inbox[n] /\ Taken(n)[n][i] = inbox[n][i + 1]
                         ELSE i \in DOMAIN inbox[k] /\ Taken(n)[k][i] = inbox[k][i]
           /\ 1 \in DOMAIN inbox[n] /\ Head(inbox[n]) = inbox[n][1]
           /\ inbox[n][1] \in NodeMessages
<1>1. inbox[n] \in Seq(NodeMessages) /\ Len(inbox[n]) \in Nat /\ DOMAIN inbox[n] = 1..Len(inbox[n])
  BY DEF Boxes
<1>2. /\ Tail(inbox[n]) \in Seq(NodeMessages) /\ Len(Tail(inbox[n])) = Len(inbox[n]) - 1
      /\ \A i \in 1..Len(Tail(inbox[n])) : Tail(inbox[n])[i] = inbox[n][i + 1]
  BY <1>1, HeadTailProperties
<1>3. DOMAIN Tail(inbox[n]) = 1..(Len(inbox[n]) - 1)
  BY <1>2
<1>4. Taken(n) \in Boxes /\ Taken(n)[n] = Tail(inbox[n]) /\ \A k \in Nodes \ {n} : Taken(n)[k] = inbox[k]
  BY <1>2 DEF Taken, Boxes
<1>5. 1 \in DOMAIN inbox[n] /\ Head(inbox[n]) = inbox[n][1] /\ inbox[n][1] \in NodeMessages
  BY <1>1
<1>6. ASSUME NEW i \in DOMAIN Taken(n)[n]
      PROVE  i + 1 \in DOMAIN inbox[n] /\ Taken(n)[n][i] = inbox[n][i + 1]
  BY <1>1, <1>2, <1>3, <1>4
<1> QED
  BY <1>4, <1>5, <1>6

(* What is in a topic once a message has been put behind it.                  *)
LEMMA PostPlaces ==
    ASSUME NEW box \in Boxes, NEW n \in Nodes, NEW m \in NodeMessages
    PROVE  /\ Post(box, n, m) \in Boxes
           /\ \A k \in Nodes : \A i \in DOMAIN Post(box, n, m)[k] :
                IF k = n /\ i = Len(box[n]) + 1
                THEN Post(box, n, m)[k][i] = m
                ELSE i \in DOMAIN box[k] /\ Post(box, n, m)[k][i] = box[k][i]
           /\ Len(box[n]) + 1 \notin DOMAIN box[n] /\ Len(box[n]) + 1 \in Nat
           /\ \A k \in Nodes : \A i \in DOMAIN box[k] : i \in DOMAIN Post(box, n, m)[k]
           /\ Len(box[n]) + 1 \in DOMAIN Post(box, n, m)[n]
<1>1. box[n] \in Seq(NodeMessages) /\ Len(box[n]) \in Nat /\ DOMAIN box[n] = 1..Len(box[n])
  BY DEF Boxes
<1>2. /\ Append(box[n], m) \in Seq(NodeMessages) /\ Len(Append(box[n], m)) = Len(box[n]) + 1
      /\ \A i \in 1..Len(box[n]) : Append(box[n], m)[i] = box[n][i]
      /\ Append(box[n], m)[Len(box[n]) + 1] = m
  BY <1>1, AppendProperties
<1>3. DOMAIN Append(box[n], m) = 1..(Len(box[n]) + 1)
  BY <1>1, <1>2
<1>4. /\ Post(box, n, m) \in Boxes
      /\ Post(box, n, m)[n] = Append(box[n], m)
      /\ \A k \in Nodes \ {n} : Post(box, n, m)[k] = box[k]
  BY <1>2 DEF Post, Boxes
<1>5. ASSUME NEW i \in DOMAIN Post(box, n, m)[n], i # Len(box[n]) + 1
      PROVE  i \in DOMAIN box[n] /\ Post(box, n, m)[n][i] = box[n][i]
  BY <1>1, <1>2, <1>3, <1>4, <1>5
<1>6. /\ Len(box[n]) + 1 \notin DOMAIN box[n] /\ Len(box[n]) + 1 \in Nat
      /\ \A i \in DOMAIN box[n] : i \in DOMAIN Append(box[n], m)
      /\ Len(box[n]) + 1 \in DOMAIN Append(box[n], m)
  BY <1>1, <1>3
<1> QED
  BY <1>2, <1>4, <1>5, <1>6

(* The messages the handlers publish.                                         *)
LEMMA MessageTypes ==
    ASSUME NEW c \in Conns, NEW kind \in ToLeader
    PROVE  /\ [kind |-> kind, conn |-> c] \in NodeMessages
           /\ [kind |-> "fm", conn |-> c] \in NodeMessages
           /\ [kind |-> "fcc", conn |-> c] \in NodeMessages
           /\ [kind |-> "ack", conn |-> c, of |-> kind] \in NodeMessages
BY DEF NodeMessages

(* The messages there are.                                                    *)
LEMMA MessageFields ==
    ASSUME NEW m \in NodeMessages
    PROVE  /\ m.conn \in Conns
           /\ m.kind \in ToLeader \cup {"fm", "fcc", "ack"}
           /\ m.kind = "ack" => m.of \in ToLeader /\ m = [kind |-> "ack", conn |-> m.conn, of |-> m.of]
           /\ m.kind # "ack" => m = [kind |-> m.kind, conn |-> m.conn]
BY DEF NodeMessages, ToLeader

-----------------------------------------------------------------------------
(* The opens in the topics                                                    *)

(* The places of the opens of a connection.                                   *)
LEMMA OpensMember ==
    ASSUME NEW box \in Boxes, NEW c
    PROVE  \A q : q \in OpensIn(box, c) <=>
              \E n \in Nodes, i \in Nat : /\ q = <<n, i>> /\ i \in DOMAIN box[n]
                                          /\ box[n][i].kind = "lco" /\ box[n][i].conn = c
<1>1. \A n \in Nodes : DOMAIN box[n] \subseteq Nat
  BY DEF Boxes
<1> QED
  BY <1>1 DEF OpensIn

(* An open that is taken is one less in the topics.                           *)
LEMMA OpensTaken ==
    ASSUME inbox \in Boxes, NEW n \in Nodes, inbox[n] # <<>>, NEW c, IsFiniteSet(OpensIn(inbox, c))
    PROVE  /\ IsFiniteSet(OpensIn(Taken(n), c))
           /\ Cardinality(OpensIn(Taken(n), c)) <= Cardinality(OpensIn(inbox, c))
           /\ Head(inbox[n]).kind = "lco" /\ Head(inbox[n]).conn = c =>
                 Cardinality(OpensIn(Taken(n), c)) <= Cardinality(OpensIn(inbox, c)) - 1
<1> DEFINE S == OpensIn(Taken(n), c)
           R == OpensIn(inbox, c)
           f == [q \in S |-> IF q[1] = n THEN <<n, q[2] + 1>> ELSE q]
<1>1. /\ Taken(n) \in Boxes
      /\ \A k \in Nodes : \A i \in DOMAIN Taken(n)[k] :
            IF k = n THEN i + 1 \in DOMAIN inbox[n] /\ Taken(n)[n][i] = inbox[n][i + 1]
                     ELSE i \in DOMAIN inbox[k] /\ Taken(n)[k][i] = inbox[k][i]
      /\ 1 \in DOMAIN inbox[n] /\ Head(inbox[n]) = inbox[n][1]
  BY TakenPlaces
<1>2. /\ \A q : q \in S <=> \E k \in Nodes, i \in Nat :
                   /\ q = <<k, i>> /\ i \in DOMAIN Taken(n)[k]
                   /\ Taken(n)[k][i].kind = "lco" /\ Taken(n)[k][i].conn = c
      /\ \A q : q \in R <=> \E k \in Nodes, i \in Nat :
                   /\ q = <<k, i>> /\ i \in DOMAIN inbox[k]
                   /\ inbox[k][i].kind = "lco" /\ inbox[k][i].conn = c
  BY <1>1, OpensMember
<1> HIDE DEF S, R
<1>3. \A k \in Nodes : \A i \in DOMAIN Taken(n)[k] : i \in Nat /\ i > 0
  BY <1>1 DEF Boxes
<1>4. ASSUME NEW q \in S PROVE f[q] \in R \ {<<n, 1>>}
  <2>1. PICK k \in Nodes, i \in Nat : /\ q = <<k, i>> /\ i \in DOMAIN Taken(n)[k]
                                      /\ Taken(n)[k][i].kind = "lco" /\ Taken(n)[k][i].conn = c
    BY <1>2
  <2>2. CASE k = n
    <3>1. f[q] = <<n, i + 1>> /\ i + 1 \in Nat /\ i + 1 # 1
      BY <2>1, <2>2, <1>3
    <3> QED
      BY <1>1, <1>2, <2>1, <2>2, <3>1
  <2>3. CASE k # n
    BY <1>1, <1>2, <2>1, <2>3
  <2> QED
    BY <2>2, <2>3
<1>5. ASSUME NEW q \in S, NEW r \in S, f[q] = f[r] PROVE q = r
  <2>1. PICK k \in Nodes, i \in Nat : q = <<k, i>>
    BY <1>2
  <2>2. PICK l \in Nodes, j \in Nat : r = <<l, j>>
    BY <1>2
  <2>3. /\ f[q] = IF k = n THEN <<n, i + 1>> ELSE <<k, i>>
        /\ f[r] = IF l = n THEN <<n, j + 1>> ELSE <<l, j>>
    BY <2>1, <2>2
  <2> QED
    BY <2>1, <2>2, <2>3, <1>5
<1>6. f \in [S -> R \ {<<n, 1>>}]
  BY <1>4
<1> HIDE DEF f
<1>7. f \in Injection(S, R \ {<<n, 1>>})
  BY <1>5, <1>6, Fun_IsInj
<1>8. /\ IsFiniteSet(R \ {<<n, 1>>}) /\ Cardinality(R) \in Nat
      /\ Cardinality(R \ {<<n, 1>>}) = IF <<n, 1>> \in R THEN Cardinality(R) - 1 ELSE Cardinality(R)
  BY FS_RemoveElement, FS_CardinalityType DEF R
<1>9. IsFiniteSet(S) /\ Cardinality(S) <= Cardinality(R \ {<<n, 1>>})
  BY <1>7, <1>8, FS_Injection
<1>10. Cardinality(S) \in Nat
  BY <1>9, FS_CardinalityType
<1>11. Head(inbox[n]).kind = "lco" /\ Head(inbox[n]).conn = c => <<n, 1>> \in R
  BY <1>1, <1>2
<1> QED
  BY <1>8, <1>9, <1>10, <1>11 DEF S, R

(* An open that is published is one more.                                     *)
LEMMA OpensPost ==
    ASSUME NEW box \in Boxes, NEW n \in Nodes, NEW m \in NodeMessages, NEW c,
           IsFiniteSet(OpensIn(box, c))
    PROVE  /\ IsFiniteSet(OpensIn(Post(box, n, m), c))
           /\ Cardinality(OpensIn(Post(box, n, m), c)) =
                 IF m.kind = "lco" /\ m.conn = c THEN Cardinality(OpensIn(box, c)) + 1
                                                 ELSE Cardinality(OpensIn(box, c))
<1> DEFINE new == <<n, Len(box[n]) + 1>>
           S == OpensIn(Post(box, n, m), c)
           R == OpensIn(box, c)
<1>1. /\ Post(box, n, m) \in Boxes
      /\ \A k \in Nodes : \A i \in DOMAIN Post(box, n, m)[k] :
           IF k = n /\ i = Len(box[n]) + 1
           THEN Post(box, n, m)[k][i] = m
           ELSE i \in DOMAIN box[k] /\ Post(box, n, m)[k][i] = box[k][i]
      /\ Len(box[n]) + 1 \notin DOMAIN box[n] /\ Len(box[n]) + 1 \in Nat
      /\ \A k \in Nodes : \A i \in DOMAIN box[k] : i \in DOMAIN Post(box, n, m)[k]
      /\ Len(box[n]) + 1 \in DOMAIN Post(box, n, m)[n]
  BY PostPlaces
<1>2. /\ \A q : q \in S <=> \E k \in Nodes, i \in Nat :
                   /\ q = <<k, i>> /\ i \in DOMAIN Post(box, n, m)[k]
                   /\ Post(box, n, m)[k][i].kind = "lco" /\ Post(box, n, m)[k][i].conn = c
      /\ \A q : q \in R <=> \E k \in Nodes, i \in Nat :
                   /\ q = <<k, i>> /\ i \in DOMAIN box[k]
                   /\ box[k][i].kind = "lco" /\ box[k][i].conn = c
  BY <1>1, OpensMember
<1> HIDE DEF S, R
<1>3. new \notin R
  BY <1>1, <1>2
<1>4. R \subseteq S
  BY <1>1, <1>2
<1>5. S \subseteq R \cup {new}
  BY <1>1, <1>2
<1>6. new \in S <=> m.kind = "lco" /\ m.conn = c
  BY <1>1, <1>2
<1>7. S = IF m.kind = "lco" /\ m.conn = c THEN R \cup {new} ELSE R
  BY <1>3, <1>4, <1>5, <1>6
<1> QED
  BY <1>3, <1>7, FS_AddElement DEF S, R
(* TypeOK without the topics.                                                 *)
FlatTypes ==
    /\ lease \in Nodes \cup {None} /\ serving \in {lease, None}
    /\ relay \in [Conns -> {"idle", "acquiring", "opening", "open", "failed", "closing", "closed"}]
    /\ client \in [Conns -> {"none", "ws", "sse", "off", "deaf"}]
    /\ refs \subseteq Conns /\ stale \subseteq Conns /\ blind \subseteq Nodes
    /\ stage \in [ToLeader \X Conns -> Stages]
    /\ attempts \in [ToLeader \X Conns -> 0..(Retries + 1)]
    /\ opening \in [Conns -> Nat]
    /\ conns \subseteq Conns /\ kicked \subseteq Conns /\ slipped \subseteq Conns
    /\ received \subseteq ToLeader \X Conns

HeadHasACause(n) ==
    LET m == Head(inbox[n]) IN
    /\ m.conn \in Conns
    /\ m.kind \in ToLeader =>
          /\ stage[<<m.kind, m.conn>>] # "idle"
          /\ faults = 0 => \/ stage[<<m.kind, m.conn>>] = "waiting"
                           \/ m.kind = "lco" /\ m.conn \in kicked
    /\ m.kind = "ack" => m.of \in ToLeader /\ <<m.of, m.conn>> \in received
    /\ m.kind = "fcc" => m.conn \in kicked

(* What the first message of a topic tells of its publish.                    *)
LEMMA HeadFacts ==
    ASSUME IInv, NEW n \in Nodes, inbox[n] # <<>>
    PROVE  HeadHasACause(n)
<1> DEFINE m == inbox[n][1]
<1>1. 1 \in DOMAIN inbox[n] /\ Head(inbox[n]) = m /\ m \in NodeMessages
  BY TakenPlaces DEF IInv, TypeOK, Boxes
<1>2. /\ m.kind \in ToLeader => stage[<<m.kind, m.conn>>] # "idle"
      /\ m.kind = "ack" => <<m.of, m.conn>> \in received
      /\ m.kind = "fcc" => m.conn \in kicked
  BY <1>1 DEF IInv, TopicsHaveACause, HasACause
<1>3. m.conn \in Conns /\ (m.kind = "ack" => m.of \in ToLeader)
  BY <1>1, MessageFields
<1>4. ASSUME m.kind \in ToLeader, faults = 0
      PROVE  \/ stage[<<m.kind, m.conn>>] = "waiting"
             \/ m.kind = "lco" /\ m.conn \in kicked
  <2> DEFINE p == <<m.kind, m.conn>>
  <2>1. p \in ToLeader \X Conns /\ p[1] = m.kind /\ p[2] = m.conn
    BY <1>3, <1>4
  <2>2. About(inbox[n][1], p)
    BY <2>1 DEF About
  <2>3. ~Clear(inbox, p)
    BY <1>1, <2>2 DEF Clear
  <2>4. Waits(p)
    BY <1>4, <2>1, <2>3 DEF IInv, OneUnderWay
  <2> QED
    BY <2>1, <2>4 DEF Waits
<1>5. m.kind \in ToLeader =>
          /\ stage[<<m.kind, m.conn>>] # "idle"
          /\ faults = 0 => \/ stage[<<m.kind, m.conn>>] = "waiting"
                           \/ m.kind = "lco" /\ m.conn \in kicked
  BY <1>2, <1>4, Zenon
<1>6. Head(inbox[n]) = m
  BY <1>1
<1> HIDE DEF m
<1> QED
  BY <1>2, <1>3, <1>5, <1>6, Zenon DEF HeadHasACause

(* A step that changes no relay, and no publish of an open or a close.        *)
LEMMA RelayKept ==
    ASSUME RelayInStep, UNCHANGED <<relay, peers>>, kicked \subseteq kicked',
           \A c \in Conns : stage'[<<"lco", c>>] = stage[<<"lco", c>>]
                            /\ stage'[<<"lcc", c>>] = stage[<<"lcc", c>>],
           faults' = 0 => faults = 0
    PROVE  RelayInStep'
BY DEF RelayInStep

(* A publish begins with all its attempts.                                    *)
LEMMA FirstAttempt ==
    ASSUME FlatTypes, AttemptsFit, NEW p \in ToLeader \X Conns, stage[p] = "idle",
           stage' = [stage EXCEPT ![p] = "trying"], attempts' = attempts
    PROVE  AttemptsFit'
<1>1. attempts[p] <= Retries
  BY ConstantsAssumption DEF ConstantsAssumption, AttemptsFit
<1>2. \A q \in ToLeader \X Conns : stage'[q] = IF q = p THEN "trying" ELSE stage[q]
  BY DEF FlatTypes
<1> QED
  BY <1>1, <1>2 DEF AttemptsFit

(* An attempt keeps the types.                                                *)
LEMMA PublishTypes ==
    ASSUME FlatTypes, AttemptsFit, NEW p \in ToLeader \X Conns, publishMessageToLeaderInner(p)
    PROVE  FlatTypes'
<1>1. attempts[p] \in Nat /\ attempts[p] <= Retries /\ Retries \in Nat
  BY ConstantsAssumption DEF ConstantsAssumption, AttemptsFit, publishMessageToLeaderInner,
     FlatTypes
<1>2. attempts[p] + 1 \in 0..(Retries + 1)
  BY <1>1
<1>3. attempts' \in [ToLeader \X Conns -> 0..(Retries + 1)]
  BY <1>2 DEF publishMessageToLeaderInner, FlatTypes
<1>4. stage' \in [ToLeader \X Conns -> Stages]
  BY DEF publishMessageToLeaderInner, FlatTypes, Stages
<1> QED
  BY <1>3, <1>4 DEF FlatTypes, publishMessageToLeaderInner, leading, actorVars, history

(* An attempt is no end of an open or a close.                                *)
LEMMA PublishRelay ==
    ASSUME FlatTypes, RelayInStep, NEW p \in ToLeader \X Conns, publishMessageToLeaderInner(p)
    PROVE  RelayInStep'
<1>1. UNCHANGED <<relay, peers, kicked, faults>>
  BY DEF publishMessageToLeaderInner, actorVars
<1>2. /\ stage[p] = "trying" /\ stage'[p] \in {"trying", "waiting", "failed"}
      /\ \A q \in ToLeader \X Conns : q # p => stage'[q] = stage[q]
  BY DEF publishMessageToLeaderInner, FlatTypes
<1>3. \A c \in Conns : <<"lco", c>> \in ToLeader \X Conns /\ <<"lcc", c>> \in ToLeader \X Conns
  BY DEF ToLeader
<1> QED
  BY <1>1, <1>2, <1>3 DEF RelayInStep

(* An ack settles only a publish that waits.                                  *)
LEMMA AckRelay ==
    ASSUME FlatTypes, RelayInStep, NEW n \in Nodes, onAck(n), HeadHasACause(n)
    PROVE  RelayInStep'
<1>1. UNCHANGED <<relay, peers, kicked, faults>>
  BY DEF onAck, actorVars
<1>2. \A q \in ToLeader \X Conns : stage'[q] = stage[q] \/ (stage[q] = "waiting" /\ stage'[q] = "acked")
  BY DEF onAck, FlatTypes
<1>3. \A c \in Conns : <<"lco", c>> \in ToLeader \X Conns /\ <<"lcc", c>> \in ToLeader \X Conns
  BY DEF ToLeader
<1> QED
  BY <1>1, <1>2, <1>3 DEF RelayInStep

(* disconnect begins the close with all its attempts.                         *)
LEMMA CloseAttempts ==
    ASSUME FlatTypes, AttemptsFit, RelayInStep, NEW c \in Conns, NEW b \in BOOLEAN, disconnect(c, b),
           relay[c] \notin {"closing", "closed"}, attempts' = attempts
    PROVE  AttemptsFit'
<1>1. /\ stage[<<"lcc", c>>] = "idle"
      /\ <<"lcc", c>> \in ToLeader \X Conns /\ <<"lco", c>> \in ToLeader \X Conns
  BY DEF RelayInStep, ToLeader
<1>2. attempts[<<"lcc", c>>] <= Retries
  BY <1>1, ConstantsAssumption DEF ConstantsAssumption, AttemptsFit
<1>3. \A q \in ToLeader \X Conns :
         /\ q \notin {<<"lcc", c>>, <<"lco", c>>} => stage'[q] = stage[q]
         /\ q = <<"lco", c>> =>
               stage'[q] \in {stage[q], "failed"} \/ (stage[q] = "trying" /\ stage'[q] = "aborted")
         /\ q = <<"lcc", c>> => stage'[q] = stage[q] \/ stage'[q] = "trying"
  BY <1>1 DEF disconnect, AbortsOpen, FlatTypes
<1> QED
  BY <1>2, <1>3 DEF AttemptsFit

(* disconnect keeps the types.                                                *)
LEMMA CloseTypes ==
    ASSUME FlatTypes, NEW c \in Conns, NEW b \in BOOLEAN, disconnect(c, b)
    PROVE  /\ relay' \in [Conns -> {"idle", "acquiring", "opening", "open", "failed", "closing", "closed"}]
           /\ stage' \in [ToLeader \X Conns -> Stages]
           /\ refs' \subseteq Conns /\ blind' \subseteq Nodes
<1>1. stage' \in [ToLeader \X Conns -> Stages]
  <2> DEFINE open == <<"lco", c>>
             close == <<"lcc", c>>
             Ends(x, y) == [stage EXCEPT ![open] = x, ![close] = y]
  <2>1. open \in ToLeader \X Conns /\ close \in ToLeader \X Conns
    BY DEF ToLeader
  <2>2. PICK end \in {"failed", "aborted"} :
           stage' = Ends(CASE stage[open] = "trying"  -> end
                           [] stage[open] = "waiting" -> "failed"
                           [] OTHER                   -> stage[open],
                         IF b THEN stage[close] ELSE "trying")
    BY <2>1 DEF disconnect, AbortsOpen
  <2>3. \A x, y \in Stages : Ends(x, y) \in [ToLeader \X Conns -> Stages]
    BY DEF FlatTypes
  <2>4. stage[open] \in Stages /\ stage[close] \in Stages
    BY <2>1 DEF FlatTypes
  <2> HIDE DEF Ends, open, close
  <2> QED
    BY <2>2, <2>3, <2>4 DEF Stages
<1>2. relay' \in [Conns -> {"idle", "acquiring", "opening", "open", "failed", "closing", "closed"}]
  BY DEF disconnect, FlatTypes
<1>3. refs' \subseteq Conns /\ blind' \subseteq Nodes
  BY DEF disconnect, FlatTypes
<1> QED
  BY <1>1, <1>2, <1>3

(* disconnect makes nothing received or acked.                                *)
LEMMA CloseReceived ==
    ASSUME FlatTypes, RelayInStep, ReceivedWasPublished, NEW c \in Conns, NEW b \in BOOLEAN, disconnect(c, b),
           relay[c] \notin {"closing", "closed"}, received' = received
    PROVE  ReceivedWasPublished'
<1>1. /\ stage[<<"lcc", c>>] = "idle"
      /\ <<"lcc", c>> \in ToLeader \X Conns /\ <<"lco", c>> \in ToLeader \X Conns
  BY DEF RelayInStep, ToLeader
<1>3. \A q \in ToLeader \X Conns :
         /\ q \notin {<<"lcc", c>>, <<"lco", c>>} => stage'[q] = stage[q]
         /\ q = <<"lco", c>> => \/ stage'[q] = stage[q]
                                \/ stage[q] # "idle" /\ stage'[q] \in {"failed", "aborted"}
         /\ q = <<"lcc", c>> => stage'[q] = stage[q] \/ stage'[q] = "trying"
  BY <1>1, SMTT(30) DEF disconnect, AbortsOpen, FlatTypes
<1> QED
  BY <1>3 DEF ReceivedWasPublished

(* disconnect leaves the relay, its publishes and its reference in step.      *)
LEMMA CloseRelay ==
    ASSUME FlatTypes, RelayInStep, NEW c \in Conns, NEW b \in BOOLEAN, disconnect(c, b),
           relay[c] \in {"opening", "open", "failed"}, b \/ relay[c] = "open", b => c \in kicked,
           UNCHANGED <<stale, kicked, faults>>
    PROVE  RelayInStep'
<1>1. /\ stage[<<"lcc", c>>] = "idle"
      /\ \A d \in Conns : <<"lcc", d>> \in ToLeader \X Conns /\ <<"lco", d>> \in ToLeader \X Conns
  BY DEF RelayInStep, ToLeader
<1>2. \A d \in Conns \ {c} :
         /\ UNCHANGED <<stage[<<"lcc", d>>], stage[<<"lco", d>>], relay[d]>>
         /\ d \in refs' <=> d \in refs
  BY <1>1 DEF disconnect, AbortsOpen, FlatTypes
<1>3. /\ relay'[c] = IF b THEN "closed" ELSE "closing"
      /\ stage'[<<"lcc", c>>] = IF b THEN "idle" ELSE "trying"
      /\ stage'[<<"lco", c>>] \in {stage[<<"lco", c>>], "failed", "aborted"}
      /\ stage[<<"lco", c>>] \notin {"trying", "waiting"} => stage'[<<"lco", c>>] = stage[<<"lco", c>>]
      /\ ~b => refs' = refs
      /\ blind' \subseteq blind
  BY <1>1 DEF disconnect, AbortsOpen, FlatTypes
<1>4. c \in refs \cup stale /\ (~b => stage[<<"lco", c>>] = "acked")
  BY DEF RelayInStep
<1> DEFINE Fits(d) ==
         /\ relay'[d] \in {"idle", "acquiring"} => stage'[<<"lco", d>>] = "idle"
         /\ relay'[d] \in {"open", "closing"} => stage'[<<"lco", d>>] = "acked"
         /\ relay'[d] \notin {"closing", "closed"} => stage'[<<"lcc", d>>] = "idle"
         /\ stage'[<<"lco", d>>] = "aborted" => d \in kicked'
         /\ relay'[d] \in {"opening", "open", "failed", "closing"} => d \in refs' \cup stale'
         /\ stage'[<<"lcc", d>>] \in {"trying", "waiting"} => relay'[d] = "closing"
         /\ relay'[d] = "closed" /\ faults' = 0 =>
               \/ d \in kicked'
               \/ stage'[<<"lco", d>>] = "acked" /\ stage'[<<"lcc", d>>] \in {"acked", "failed"}
<1>5. Fits(c)
  BY <1>3, <1>4 DEF RelayInStep
<1>6. ASSUME NEW d \in Conns \ {c} PROVE Fits(d)
  BY <1>2 DEF RelayInStep
<1>7. faults' = 0 => blind' = {}
  BY <1>3 DEF RelayInStep
<1> QED
  BY <1>5, <1>6, <1>7 DEF RelayInStep

(* A crash ends the relays of its node.                                       *)
LEMMA CrashRelay ==
    ASSUME FlatTypes, RelayInStep, NEW n \in Nodes, Crash(n), faults' # 0
    PROVE  RelayInStep'
<1>1. \A d \in Conns : <<"lcc", d>> \in ToLeader \X Conns /\ <<"lco", d>> \in ToLeader \X Conns
  BY DEF ToLeader
<1>2. ASSUME NEW d \in Conns, d \in At(n)
      PROVE  /\ relay'[d] = IF relay[d] = "idle" THEN "idle" ELSE "closed"
             /\ stage'[<<"lcc", d>>] \notin {"trying", "waiting"}
             /\ stage'[<<"lco", d>>] # "aborted"
             /\ stage[<<"lcc", d>>] = "idle" => stage'[<<"lcc", d>>] = "idle"
             /\ stage[<<"lco", d>>] = "idle" => stage'[<<"lco", d>>] = "idle"
  BY <1>1, <1>2 DEF Crash
<1>3. ASSUME NEW d \in Conns, d \notin At(n)
      PROVE  /\ UNCHANGED <<stage[<<"lcc", d>>], stage[<<"lco", d>>], relay[d]>>
             /\ d \in refs' \cup stale' <=> d \in refs \cup stale
             /\ d \in kicked' <=> d \in kicked
  BY <1>1, <1>3 DEF Crash
<1>4. ASSUME NEW d \in Conns
      PROVE  /\ relay'[d] \in {"idle", "acquiring"} => stage'[<<"lco", d>>] = "idle"
             /\ relay'[d] \in {"open", "closing"} => stage'[<<"lco", d>>] = "acked"
             /\ relay'[d] \notin {"closing", "closed"} => stage'[<<"lcc", d>>] = "idle"
             /\ stage'[<<"lco", d>>] = "aborted" => d \in kicked'
             /\ relay'[d] \in {"opening", "open", "failed", "closing"} => d \in refs' \cup stale'
             /\ stage'[<<"lcc", d>>] \in {"trying", "waiting"} => relay'[d] = "closing"
  <2>1. CASE d \in At(n)
    BY <1>2, <2>1 DEF RelayInStep
  <2>2. CASE d \notin At(n)
    BY <1>3, <2>2 DEF RelayInStep
  <2> QED
    BY <2>1, <2>2
<1> QED
  BY <1>4 DEF RelayInStep

(* A relay whose acquire throws has published nothing.                        *)
LEMMA ThrowRelay ==
    ASSUME FlatTypes, RelayInStep, NEW c \in Conns, acquireThrows(c), faults' # 0
    PROVE  RelayInStep'
<1>1. \A d \in Conns : relay'[d] = IF d = c THEN "closed" ELSE relay[d]
  BY DEF acquireThrows, FlatTypes
<1>2. UNCHANGED <<stage, refs, stale, kicked>> /\ relay[c] = "acquiring"
  BY DEF acquireThrows, publishing, actorVars
<1> QED
  BY <1>1, <1>2 DEF RelayInStep

(* No open is handled once a close has been.                                  *)
LEMMA OpenGone ==
    ASSUME FlatTypes, RelayInStep, ReceivedWasPublished, ClosedIsGone, NEW n \in Nodes,
           onLeaderConnectionOpen(n), HeadHasACause(n)
    PROVE  ClosedIsGone'
<1>1. PICK c \in Conns :
         /\ Head(inbox[n]).kind = "lco" /\ Head(inbox[n]).conn = c
         /\ received' = received \cup {<<"lco", c>>}
         /\ \A d \in Conns \ {c} : opening'[d] = opening[d]
         /\ UNCHANGED <<conns, kicked, slipped, faults>>
  BY DEF onLeaderConnectionOpen, TakeForLeader, Take, FlatTypes
<1>2. ASSUME faults = 0, <<"lcc", c>> \in received, c \notin kicked PROVE FALSE
  <2>1. <<"lcc", c>> \in ToLeader \X Conns
    BY DEF ToLeader
  <2>2. stage[<<"lcc", c>>] # "idle" /\ stage[<<"lco", c>>] = "waiting"
    BY <1>1, <1>2, <2>1 DEF ReceivedWasPublished, HeadHasACause, ToLeader
  <2>3. relay[c] \in {"closing", "closed"}
    BY <2>2 DEF RelayInStep
  <2> QED
    BY <1>2, <2>2, <2>3 DEF RelayInStep
<1> QED
  BY <1>1, <1>2 DEF ClosedIsGone

(* createConn adds a connection only for an open being handled.               *)
LEMMA CreateGone ==
    ASSUME FlatTypes, ClosedIsGone, NEW c \in Conns, createConn(c)
    PROVE  ClosedIsGone'
<1>1. /\ opening[c] > 0 /\ conns' \subseteq conns \cup {c}
      /\ \A d \in Conns \ {c} : opening'[d] = opening[d]
      /\ UNCHANGED <<received, kicked, slipped, faults>>
  BY DEF createConn, FlatTypes, history
<1> QED
  BY <1>1 DEF ClosedIsGone

(* A close that is handled leaves nothing, or has slipped.                    *)
LEMMA CloseGone ==
    ASSUME FlatTypes, ClosedIsGone, NEW n \in Nodes, onLeaderConnectionClose(n), HeadHasACause(n)
    PROVE  ClosedIsGone'
<1>1. PICK c \in Conns :
         /\ received' = received \cup {<<"lcc", c>>}
         /\ conns' = IF serving = n THEN conns \ {c} ELSE conns
         /\ slipped' = IF serving # n \/ opening[c] > 0 THEN slipped \cup {c} ELSE slipped
         /\ UNCHANGED <<opening, kicked, faults>>
  BY DEF onLeaderConnectionClose, TakeForLeader, Take
<1>2. opening[c] \in Nat
  BY DEF FlatTypes
<1> QED
  BY <1>1, <1>2 DEF ClosedIsGone

-----------------------------------------------------------------------------
(* Faults are only counted up.                                                *)
LEMMA FaultsCount ==
    ASSUME faults \in 0..MaxFaults, [Next]_vars
    PROVE  faults' \in 0..MaxFaults /\ (faults' = 0 => faults = 0)
<1>1. faults' = faults \/ Fault
  BY DEF Next, vars, Relay, Handle, publishMessageToLeaderInner, ackTimeout, onOpen, start,
     acquireThrows,
     startEnds, onMessage, onConnMessage, Send, ClientCloses, onClose, disconnectEnds, onAck,
     onLeaderConnectionOpen, createConn, prepareConnFails, onLeaderConnectionClose,
     onLeaderMessage, onFollowerMessage, onFollowerConnectionClose, relayDriverDisconnect,
     Lease, ActorLoaded, LeaderStops, Lose, Crash, disconnectThrows, leaseInvalid, PeerStartThrows,
     actorNotInitialized, publishAfterAbort
<1> QED
  BY <1>1, ConstantsAssumption DEF Fault, ConstantsAssumption

(* Every action keeps the parts of the invariant beside the topics.           *)
LEMMA FlatStep ==
    ASSUME IInv, [Next]_vars
    PROVE  FlatTypes' /\ AttemptsFit' /\ RelayInStep' /\ ReceivedWasPublished' /\ ClosedIsGone'
<1> DEFINE Kept == FlatTypes' /\ AttemptsFit' /\ RelayInStep' /\ ReceivedWasPublished' /\ ClosedIsGone'
<1>1. FlatTypes /\ AttemptsFit /\ RelayInStep /\ ReceivedWasPublished /\ ClosedIsGone
  BY ConstantsAssumption DEF ConstantsAssumption, IInv, TypeOK, FlatTypes
<1>2. faults \in 0..MaxFaults /\ (faults' = 0 => faults = 0) /\ (Fault => faults' # 0)
  BY FaultsCount DEF IInv, TypeOK, Fault
<1> USE DEF leading, publishing, actorVars, history
<1>3. ASSUME NEW p \in ToLeader \X Conns, publishMessageToLeaderInner(p) PROVE Kept
  <2>1. FlatTypes'
    BY <1>1, <1>2, <1>3, PublishTypes DEF FlatTypes
  <2>2. AttemptsFit'
    BY <1>1, <1>3, ConstantsAssumption, SMTT(30) DEF ConstantsAssumption, FlatTypes, AttemptsFit,
       publishMessageToLeaderInner
  <2>3. RelayInStep'
    BY <1>1, <1>2, <1>3, PublishRelay DEF FlatTypes
  <2>4. ReceivedWasPublished'
    BY <1>1, <1>2, <1>3 DEF FlatTypes, ReceivedWasPublished, ToLeader, Stages,
       publishMessageToLeaderInner
  <2>5. ClosedIsGone'
    BY <1>1, <1>2, <1>3 DEF FlatTypes, ClosedIsGone, ToLeader, publishMessageToLeaderInner
  <2> QED
    BY <2>1, <2>2, <2>3, <2>4, <2>5
<1>4. ASSUME NEW p \in ToLeader \X Conns, ackTimeout(p) PROVE Kept
  <2>1. FlatTypes'
    BY <1>1, <1>2, <1>4 DEF FlatTypes, Stages, ackTimeout, LastAttempt
  <2>2. AttemptsFit'
    BY <1>1, <1>4, ConstantsAssumption DEF ConstantsAssumption, FlatTypes, AttemptsFit, ackTimeout,
       LastAttempt
  <2>3. RelayInStep'
    BY <1>1, <1>2, <1>4 DEF FlatTypes, RelayInStep, ToLeader, ackTimeout, LastAttempt
  <2>4. ReceivedWasPublished'
    BY <1>1, <1>2, <1>4 DEF FlatTypes, ReceivedWasPublished, ToLeader, Stages, ackTimeout,
       LastAttempt
  <2>5. ClosedIsGone'
    BY <1>1, <1>2, <1>4 DEF FlatTypes, ClosedIsGone, ToLeader, ackTimeout, LastAttempt
  <2> QED
    BY <2>1, <2>2, <2>3, <2>4, <2>5
<1>5. ASSUME NEW c \in Conns, onOpen(c) PROVE Kept
  <2>1. FlatTypes'
    BY <1>1, <1>2, <1>5 DEF FlatTypes, Stages, onOpen
  <2>2. AttemptsFit'
    BY <1>1, <1>2, <1>5 DEF FlatTypes, AttemptsFit, Stages, onOpen
  <2>3. RelayInStep'
    BY <1>1, <1>2, <1>5 DEF FlatTypes, RelayInStep, ToLeader, onOpen
  <2>4. ReceivedWasPublished'
    BY <1>1, <1>2, <1>5 DEF FlatTypes, ReceivedWasPublished, ToLeader, Stages, onOpen
  <2>5. ClosedIsGone'
    BY <1>1, <1>2, <1>5 DEF FlatTypes, ClosedIsGone, ToLeader, onOpen
  <2> QED
    BY <2>1, <2>2, <2>3, <2>4, <2>5
<1>6. ASSUME NEW c \in Conns, start(c) PROVE Kept
  <2>1. FlatTypes'
    BY <1>1, <1>2, <1>6 DEF FlatTypes, Stages, start, Publish
  <2>2. AttemptsFit'
    BY <1>1, <1>2, <1>6, FirstAttempt DEF start, Publish, RelayInStep, ToLeader
  <2>3. RelayInStep'
    BY <1>1, <1>2, <1>6 DEF FlatTypes, RelayInStep, ToLeader, start, Publish
  <2>4. ReceivedWasPublished'
    BY <1>1, <1>2, <1>6 DEF FlatTypes, ReceivedWasPublished, ToLeader, Stages, start, Publish
  <2>5. ClosedIsGone'
    BY <1>1, <1>2, <1>6 DEF FlatTypes, ClosedIsGone, ToLeader, start, Publish
  <2> QED
    BY <2>1, <2>2, <2>3, <2>4, <2>5
<1>7. ASSUME NEW c \in Conns, acquireThrows(c) PROVE Kept
  <2>1. FlatTypes'
    BY <1>1, <1>2, <1>7, ConstantsAssumption
    DEF ConstantsAssumption, FlatTypes, Stages, acquireThrows
  <2>2. AttemptsFit'
    BY <1>1, <1>2, <1>7 DEF FlatTypes, AttemptsFit, Stages, acquireThrows
  <2>3. RelayInStep'
    BY <1>1, <1>2, <1>7, ThrowRelay DEF acquireThrows
  <2>4. ReceivedWasPublished'
    BY <1>1, <1>2, <1>7 DEF FlatTypes, ReceivedWasPublished, ToLeader, Stages, acquireThrows
  <2>5. ClosedIsGone'
    BY <1>1, <1>2, <1>7 DEF FlatTypes, ClosedIsGone, ToLeader, acquireThrows
  <2> QED
    BY <2>1, <2>2, <2>3, <2>4, <2>5
<1>8. ASSUME NEW c \in Conns, startEnds(c) PROVE Kept
  <2>1. FlatTypes'
    BY <1>1, <1>2, <1>8 DEF FlatTypes, Stages, startEnds
  <2>2. AttemptsFit'
    BY <1>1, <1>2, <1>8 DEF FlatTypes, AttemptsFit, Stages, startEnds
  <2>3. RelayInStep'
    BY <1>1, <1>2, <1>8 DEF FlatTypes, RelayInStep, ToLeader, startEnds
  <2>4. ReceivedWasPublished'
    BY <1>1, <1>2, <1>8 DEF FlatTypes, ReceivedWasPublished, ToLeader, Stages, startEnds
  <2>5. ClosedIsGone'
    BY <1>1, <1>2, <1>8 DEF FlatTypes, ClosedIsGone, ToLeader, startEnds
  <2> QED
    BY <2>1, <2>2, <2>3, <2>4, <2>5
<1>9. ASSUME NEW c \in Conns, Send(c) PROVE Kept
  <2>1. FlatTypes'
    BY <1>1, <1>2, <1>9 DEF FlatTypes, Stages, Send, Publish
  <2>2. AttemptsFit'
    BY <1>1, <1>2, <1>9, FirstAttempt DEF Send, Publish, ToLeader
  <2>3. RelayInStep'
    BY <1>1, <1>2, <1>9 DEF FlatTypes, RelayInStep, ToLeader, Send, Publish
  <2>4. ReceivedWasPublished'
    BY <1>1, <1>2, <1>9 DEF FlatTypes, ReceivedWasPublished, ToLeader, Stages, Send, Publish
  <2>5. ClosedIsGone'
    BY <1>1, <1>2, <1>9 DEF FlatTypes, ClosedIsGone, ToLeader, Send, Publish
  <2> QED
    BY <2>1, <2>2, <2>3, <2>4, <2>5
<1>10. ASSUME NEW c \in Conns, ClientCloses(c) PROVE Kept
  <2>1. FlatTypes'
    BY <1>1, <1>2, <1>10 DEF FlatTypes, Stages, ClientCloses
  <2>2. AttemptsFit'
    BY <1>1, <1>2, <1>10 DEF FlatTypes, AttemptsFit, Stages, ClientCloses
  <2>3. RelayInStep'
    BY <1>1, <1>2, <1>10, RelayKept DEF ClientCloses
  <2>4. ReceivedWasPublished'
    BY <1>1, <1>2, <1>10 DEF FlatTypes, ReceivedWasPublished, ToLeader, Stages, ClientCloses
  <2>5. ClosedIsGone'
    BY <1>1, <1>2, <1>10 DEF FlatTypes, ClosedIsGone, ToLeader, ClientCloses
  <2> QED
    BY <2>1, <2>2, <2>3, <2>4, <2>5
<1>11. ASSUME NEW c \in Conns, onClose(c) PROVE Kept
  <2>1. FlatTypes'
    BY <1>1, <1>2, <1>11, CloseTypes DEF FlatTypes, onClose
  <2>2. AttemptsFit'
    BY <1>1, <1>2, <1>11, CloseAttempts DEF onClose
  <2>3. RelayInStep'
    BY <1>1, <1>2, <1>11, CloseRelay DEF onClose
  <2>4. ReceivedWasPublished'
    BY <1>1, <1>2, <1>11, CloseReceived DEF onClose
  <2>5. ClosedIsGone'
    BY <1>1, <1>2, <1>11 DEF FlatTypes, ClosedIsGone, ToLeader, onClose, disconnect, AbortsOpen
  <2> QED
    BY <2>1, <2>2, <2>3, <2>4, <2>5
<1>12. ASSUME NEW c \in Conns, disconnectEnds(c) PROVE Kept
  <2>1. FlatTypes'
    BY <1>1, <1>2, <1>12 DEF FlatTypes, Stages, disconnectEnds
  <2>2. AttemptsFit'
    BY <1>1, <1>2, <1>12 DEF FlatTypes, AttemptsFit, Stages, disconnectEnds
  <2>3. RelayInStep'
    BY <1>1, <1>2, <1>12 DEF FlatTypes, RelayInStep, ToLeader, disconnectEnds
  <2>4. ReceivedWasPublished'
    BY <1>1, <1>2, <1>12 DEF FlatTypes, ReceivedWasPublished, ToLeader, Stages, disconnectEnds
  <2>5. ClosedIsGone'
    BY <1>1, <1>2, <1>12 DEF FlatTypes, ClosedIsGone, ToLeader, disconnectEnds
  <2> QED
    BY <2>1, <2>2, <2>3, <2>4, <2>5
<1>13. ASSUME NEW c \in Conns, createConn(c) PROVE Kept
  <2>1. FlatTypes'
    BY <1>1, <1>2, <1>13 DEF FlatTypes, Stages, createConn
  <2>2. AttemptsFit'
    BY <1>1, <1>2, <1>13 DEF FlatTypes, AttemptsFit, Stages, createConn
  <2>3. RelayInStep'
    BY <1>1, <1>2, <1>13, RelayKept DEF createConn
  <2>4. ReceivedWasPublished'
    BY <1>1, <1>2, <1>13 DEF FlatTypes, ReceivedWasPublished, ToLeader, Stages, createConn
  <2>5. ClosedIsGone'
    BY <1>1, <1>2, <1>13, CreateGone DEF createConn
  <2> QED
    BY <2>1, <2>2, <2>3, <2>4, <2>5
<1>14. ASSUME NEW c \in Conns, prepareConnFails(c) PROVE Kept
  <2>1. FlatTypes'
    BY <1>1, <1>2, <1>14 DEF FlatTypes, Stages, prepareConnFails
  <2>2. AttemptsFit'
    BY <1>1, <1>2, <1>14 DEF FlatTypes, AttemptsFit, Stages, prepareConnFails
  <2>3. RelayInStep'
    BY <1>1, <1>2, <1>14, RelayKept DEF prepareConnFails
  <2>4. ReceivedWasPublished'
    BY <1>1, <1>2, <1>14 DEF FlatTypes, ReceivedWasPublished, ToLeader, Stages, prepareConnFails
  <2>5. ClosedIsGone'
    BY <1>1, <1>2, <1>14 DEF FlatTypes, ClosedIsGone, ToLeader, prepareConnFails
  <2> QED
    BY <2>1, <2>2, <2>3, <2>4, <2>5
<1>15. ASSUME NEW c \in Conns, relayDriverDisconnect(c) PROVE Kept
  <2>1. FlatTypes'
    BY <1>1, <1>2, <1>15 DEF FlatTypes, Stages, relayDriverDisconnect
  <2>2. AttemptsFit'
    BY <1>1, <1>2, <1>15 DEF FlatTypes, AttemptsFit, Stages, relayDriverDisconnect
  <2>3. RelayInStep'
    BY <1>1, <1>2, <1>15, RelayKept DEF relayDriverDisconnect
  <2>4. ReceivedWasPublished'
    BY <1>1, <1>2, <1>15 DEF FlatTypes, ReceivedWasPublished, ToLeader, Stages,
       relayDriverDisconnect
  <2>5. ClosedIsGone'
    BY <1>1, <1>2, <1>15 DEF FlatTypes, ClosedIsGone, ToLeader, relayDriverDisconnect
  <2> QED
    BY <2>1, <2>2, <2>3, <2>4, <2>5
<1>16. ASSUME NEW n \in Nodes, onAck(n) PROVE Kept
  <2>0. inbox[n] # <<>> /\ HeadHasACause(n)
    BY HeadFacts, <1>16 DEF onAck, Take
  <2>1. FlatTypes'
    BY <1>1, <1>2, <1>16, <2>0 DEF FlatTypes, Stages, onAck, Take, HeadHasACause
  <2>2. AttemptsFit'
    BY <1>1, <1>2, <1>16, <2>0 DEF FlatTypes, AttemptsFit, Stages, onAck, Take, HeadHasACause
  <2>3. RelayInStep'
    BY <1>1, <1>2, <1>16, <2>0, AckRelay DEF FlatTypes
  <2>4. ReceivedWasPublished'
    BY <1>1, <1>2, <1>16, <2>0 DEF FlatTypes, ReceivedWasPublished, ToLeader, Stages, onAck, Take,
       HeadHasACause
  <2>5. ClosedIsGone'
    BY <1>1, <1>2, <1>16, <2>0 DEF FlatTypes, ClosedIsGone, ToLeader, onAck, Take, HeadHasACause
  <2> QED
    BY <2>1, <2>2, <2>3, <2>4, <2>5
<1>17. ASSUME NEW n \in Nodes, onLeaderConnectionOpen(n) PROVE Kept
  <2>0. inbox[n] # <<>> /\ HeadHasACause(n)
    BY HeadFacts, <1>17 DEF onLeaderConnectionOpen, TakeForLeader, Take
  <2>1. FlatTypes'
    BY <1>1, <1>2, <1>17, <2>0 DEF FlatTypes, ToLeader, onLeaderConnectionOpen, TakeForLeader, Take,
       HeadHasACause
  <2>2. AttemptsFit'
    BY <1>1, <1>2, <1>17, <2>0 DEF FlatTypes, AttemptsFit, Stages, onLeaderConnectionOpen,
       TakeForLeader, Take, HeadHasACause
  <2>3. RelayInStep'
    BY <1>1, <1>2, <1>17, <2>0, RelayKept DEF onLeaderConnectionOpen, TakeForLeader, Take
  <2>4. ReceivedWasPublished'
    BY <1>1, <1>2, <1>17, <2>0 DEF FlatTypes, ReceivedWasPublished, ToLeader, Stages,
       onLeaderConnectionOpen, TakeForLeader, Take, HeadHasACause
  <2>5. ClosedIsGone'
    BY <1>1, <1>2, <1>17, <2>0, OpenGone DEF onLeaderConnectionOpen
  <2> QED
    BY <2>1, <2>2, <2>3, <2>4, <2>5
<1>18. ASSUME NEW n \in Nodes, onLeaderConnectionClose(n) PROVE Kept
  <2>0. inbox[n] # <<>> /\ HeadHasACause(n)
    BY HeadFacts, <1>18 DEF onLeaderConnectionClose, TakeForLeader, Take
  <2>1. FlatTypes'
    BY <1>1, <1>2, <1>18, <2>0 DEF FlatTypes, ToLeader, onLeaderConnectionClose, TakeForLeader,
       Take,
       HeadHasACause
  <2>2. AttemptsFit'
    BY <1>1, <1>2, <1>18, <2>0 DEF FlatTypes, AttemptsFit, Stages, onLeaderConnectionClose,
       TakeForLeader, Take, HeadHasACause
  <2>3. RelayInStep'
    BY <1>1, <1>2, <1>18, <2>0, RelayKept DEF onLeaderConnectionClose, TakeForLeader, Take
  <2>4. ReceivedWasPublished'
    BY <1>1, <1>2, <1>18, <2>0 DEF FlatTypes, ReceivedWasPublished, ToLeader, Stages,
       onLeaderConnectionClose, TakeForLeader, Take, HeadHasACause
  <2>5. ClosedIsGone'
    BY <1>1, <1>2, <1>18, <2>0, CloseGone DEF onLeaderConnectionClose
  <2> QED
    BY <2>1, <2>2, <2>3, <2>4, <2>5
<1>19. ASSUME NEW n \in Nodes, onLeaderMessage(n) PROVE Kept
  <2>0. inbox[n] # <<>> /\ HeadHasACause(n)
    BY HeadFacts, <1>19 DEF onLeaderMessage, TakeForLeader, Take
  <2>1. FlatTypes'
    BY <1>1, <1>2, <1>19, <2>0 DEF FlatTypes, ToLeader, onLeaderMessage, TakeForLeader, Take,
       HeadHasACause
  <2>2. AttemptsFit'
    BY <1>1, <1>2, <1>19, <2>0 DEF FlatTypes, AttemptsFit, Stages, onLeaderMessage, TakeForLeader,
       Take, HeadHasACause
  <2>3. RelayInStep'
    BY <1>1, <1>2, <1>19, <2>0, RelayKept DEF onLeaderMessage, TakeForLeader, Take
  <2>4. ReceivedWasPublished'
    BY <1>1, <1>2, <1>19, <2>0 DEF FlatTypes, ReceivedWasPublished, ToLeader, Stages,
       onLeaderMessage,
       TakeForLeader, Take, HeadHasACause
  <2>5. ClosedIsGone'
    BY <1>1, <1>2, <1>19, <2>0 DEF FlatTypes, ClosedIsGone, ToLeader, onLeaderMessage,
       TakeForLeader, Take
  <2> QED
    BY <2>1, <2>2, <2>3, <2>4, <2>5
<1>20. ASSUME NEW n \in Nodes, onFollowerMessage(n) PROVE Kept
  <2>1. FlatTypes'
    BY <1>1, <1>2, <1>20 DEF FlatTypes, Stages, onFollowerMessage
  <2>2. AttemptsFit'
    BY <1>1, <1>2, <1>20 DEF FlatTypes, AttemptsFit, Stages, onFollowerMessage
  <2>3. RelayInStep'
    BY <1>1, <1>2, <1>20, RelayKept DEF onFollowerMessage
  <2>4. ReceivedWasPublished'
    BY <1>1, <1>2, <1>20 DEF FlatTypes, ReceivedWasPublished, ToLeader, Stages, onFollowerMessage
  <2>5. ClosedIsGone'
    BY <1>1, <1>2, <1>20 DEF FlatTypes, ClosedIsGone, ToLeader, onFollowerMessage
  <2> QED
    BY <2>1, <2>2, <2>3, <2>4, <2>5
<1>28. ASSUME NEW p \in ToLeader \X Conns, actorNotInitialized(p) PROVE Kept
  <2>1. FlatTypes'
    BY <1>1, <1>2, <1>28 DEF FlatTypes, Stages, actorNotInitialized
  <2>2. AttemptsFit'
    BY <1>1, <1>28 DEF FlatTypes, AttemptsFit, actorNotInitialized
  <2>3. RelayInStep'
    BY <1>1, <1>2, <1>28 DEF FlatTypes, RelayInStep, ToLeader, actorNotInitialized
  <2>4. ReceivedWasPublished'
    BY <1>1, <1>2, <1>28 DEF FlatTypes, ReceivedWasPublished, ToLeader, Stages, actorNotInitialized
  <2>5. ClosedIsGone'
    BY <1>1, <1>2, <1>28 DEF FlatTypes, ClosedIsGone, ToLeader, actorNotInitialized
  <2> QED
    BY <2>1, <2>2, <2>3, <2>4, <2>5
<1>29. ASSUME NEW c \in Conns, publishAfterAbort(c) PROVE Kept
  <2> DEFINE p == <<"lco", c>>
  <2>0. p \in ToLeader \X Conns /\ stage[p] = "aborted" /\ attempts[p] \in Nat /\ attempts[p] <= Retries
    BY <1>1, <1>29, ConstantsAssumption DEF ConstantsAssumption, FlatTypes, AttemptsFit,
       publishAfterAbort,
       ToLeader
  <2>1. /\ stage' = [stage EXCEPT ![p] = "failed"] /\ attempts' = [attempts EXCEPT ![p] = @ + 1]
        /\ UNCHANGED <<lease, serving, relay, client, refs, stale, blind, opening, conns, kicked, received,
                       slipped, faults>>
    BY <1>29 DEF publishAfterAbort
  <2>2. \A q \in ToLeader \X Conns : stage'[q] = IF q = p THEN "failed" ELSE stage[q]
    BY <1>1, <2>1 DEF FlatTypes
  <2> HIDE DEF p
  <2>3. FlatTypes'
    <3>1. stage' \in [ToLeader \X Conns -> Stages]
      BY <1>1, <2>1 DEF FlatTypes, Stages
    <3>2. attempts[p] + 1 \in 0..(Retries + 1)
      BY <2>0, ConstantsAssumption DEF ConstantsAssumption
    <3>3. attempts' \in [ToLeader \X Conns -> 0..(Retries + 1)]
      BY <1>1, <2>1, <3>2 DEF FlatTypes
    <3> QED
      BY <1>1, <2>1, <3>1, <3>3 DEF FlatTypes
  <2>4. AttemptsFit'
    <3>1. \A q \in ToLeader \X Conns : q # p => attempts'[q] = attempts[q]
      BY <1>1, <2>1 DEF FlatTypes
    <3> QED
      BY <1>1, <2>2, <3>1 DEF AttemptsFit
  <2>5. RelayInStep'
    <3>1. \A d \in Conns : /\ <<"lco", d>> \in ToLeader \X Conns /\ <<"lcc", d>> \in ToLeader \X Conns
                           /\ <<"lcc", d>> # p
      BY DEF ToLeader, p
    <3> QED
      BY <1>1, <2>0, <2>1, <2>2, <3>1 DEF RelayInStep
  <2>6. ReceivedWasPublished'
    BY <1>1, <2>0, <2>1, <2>2 DEF ReceivedWasPublished
  <2>7. ClosedIsGone'
    BY <1>1, <2>1 DEF ClosedIsGone
  <2> QED
    BY <2>3, <2>4, <2>5, <2>6, <2>7
<1>30. ASSUME NEW c \in Conns, disconnectThrows(c) PROVE Kept
  <2>0. faults' # 0
    BY <1>1, <1>30 DEF RelayInStep, disconnectThrows, LeaderUnknown
  <2>1. FlatTypes'
    BY <1>1, <1>2, <1>30 DEF FlatTypes, Stages, disconnectThrows
  <2>2. AttemptsFit'
    BY <1>1, <1>2, <1>30 DEF FlatTypes, AttemptsFit, Stages, disconnectThrows
  <2>3. RelayInStep'
    BY <1>1, <1>2, <1>30, <2>0 DEF FlatTypes, RelayInStep, ToLeader, disconnectThrows
  <2>4. ReceivedWasPublished'
    BY <1>1, <1>2, <1>30 DEF FlatTypes, ReceivedWasPublished, ToLeader, Stages, disconnectThrows
  <2>5. ClosedIsGone'
    BY <1>1, <1>2, <1>30 DEF FlatTypes, ClosedIsGone, ToLeader, disconnectThrows
  <2> QED
    BY <2>1, <2>2, <2>3, <2>4, <2>5
<1>31. ASSUME NEW n \in Nodes, PeerStartThrows(n) PROVE Kept
  <2>1. FlatTypes'
    BY <1>1, <1>2, <1>31 DEF FlatTypes, Stages, PeerStartThrows
  <2>2. AttemptsFit'
    BY <1>1, <1>2, <1>31 DEF FlatTypes, AttemptsFit, Stages, PeerStartThrows
  <2>3. RelayInStep'
    BY <1>1, <1>2, <1>31 DEF RelayInStep, PeerStartThrows
  <2>4. ReceivedWasPublished'
    BY <1>1, <1>2, <1>31 DEF FlatTypes, ReceivedWasPublished, ToLeader, Stages, PeerStartThrows
  <2>5. ClosedIsGone'
    BY <1>1, <1>2, <1>31 DEF FlatTypes, ClosedIsGone, ToLeader, PeerStartThrows
  <2> QED
    BY <2>1, <2>2, <2>3, <2>4, <2>5
<1>32. ASSUME leaseInvalid PROVE Kept
  <2>1. FlatTypes'
    BY <1>1, <1>2, <1>32 DEF FlatTypes, Stages, leaseInvalid
  <2>2. AttemptsFit'
    BY <1>1, <1>2, <1>32 DEF FlatTypes, AttemptsFit, Stages, leaseInvalid
  <2>3. RelayInStep'
    <3>1. refs \cup stale \subseteq refs' \cup stale'
      BY <1>32 DEF leaseInvalid
    <3> QED
      BY <1>1, <1>2, <1>32, <3>1 DEF RelayInStep, leaseInvalid
  <2>4. ReceivedWasPublished'
    BY <1>1, <1>2, <1>32 DEF FlatTypes, ReceivedWasPublished, ToLeader, Stages, leaseInvalid
  <2>5. ClosedIsGone'
    BY <1>1, <1>2, <1>32 DEF FlatTypes, ClosedIsGone, ToLeader, leaseInvalid
  <2> QED
    BY <2>1, <2>2, <2>3, <2>4, <2>5
<1>21. ASSUME NEW n \in Nodes, onFollowerConnectionClose(n) PROVE Kept
  <2> DEFINE c == Head(inbox[n]).conn
  <2>1. c \in Conns /\ c \in kicked
    BY HeadFacts, <1>21 DEF onFollowerConnectionClose, Take, HeadHasACause
  <2>2. UNCHANGED <<lease, serving, client, stale, attempts, opening, conns, kicked, received, slipped,
                    faults>>
    BY <1>21 DEF onFollowerConnectionClose
  <2>3. CASE Registered(c)
    <3>1. disconnect(c, TRUE) /\ relay[c] \in {"opening", "open", "failed"}
      BY <1>21, <2>3 DEF onFollowerConnectionClose, Registered
    <3>2. FlatTypes'
      BY <1>1, <2>1, <2>2, <3>1, CloseTypes DEF FlatTypes
    <3>3. AttemptsFit' /\ ReceivedWasPublished'
      BY <1>1, <2>1, <2>2, <3>1, CloseAttempts, CloseReceived
    <3>4. RelayInStep'
      BY <1>1, <2>1, <2>2, <3>1, CloseRelay
    <3> QED
      BY <1>1, <2>2, <3>2, <3>3, <3>4 DEF ClosedIsGone
  <2>4. CASE ~Registered(c)
    <3>1. UNCHANGED <<relay, stage, refs, blind>>
      BY <1>21, <2>4 DEF onFollowerConnectionClose
    <3> QED
      BY <1>1, <2>2, <3>1 DEF FlatTypes, AttemptsFit, RelayInStep, ReceivedWasPublished,
         ClosedIsGone
  <2> QED
    BY <2>3, <2>4
<1>22. ASSUME NEW n \in Nodes, Lease(n) PROVE Kept
  <2>1. FlatTypes'
    BY <1>1, <1>2, <1>22 DEF FlatTypes, Stages, Lease
  <2>2. AttemptsFit'
    BY <1>1, <1>2, <1>22 DEF FlatTypes, AttemptsFit, Stages, Lease
  <2>3. RelayInStep'
    BY <1>1, <1>2, <1>22, RelayKept DEF Lease
  <2>4. ReceivedWasPublished'
    BY <1>1, <1>2, <1>22 DEF FlatTypes, ReceivedWasPublished, ToLeader, Stages, Lease
  <2>5. ClosedIsGone'
    BY <1>1, <1>2, <1>22 DEF FlatTypes, ClosedIsGone, ToLeader, Lease
  <2> QED
    BY <2>1, <2>2, <2>3, <2>4, <2>5
<1>23. ASSUME NEW n \in Nodes, Lose(n) PROVE Kept
  <2>1. FlatTypes'
    BY <1>1, <1>2, <1>23 DEF FlatTypes, Stages, Lose
  <2>2. AttemptsFit'
    BY <1>1, <1>2, <1>23 DEF FlatTypes, AttemptsFit, Stages, Lose
  <2>3. RelayInStep'
    BY <1>1, <1>2, <1>23, RelayKept DEF Lose
  <2>4. ReceivedWasPublished'
    BY <1>1, <1>2, <1>23 DEF FlatTypes, ReceivedWasPublished, ToLeader, Stages, Lose
  <2>5. ClosedIsGone'
    BY <1>1, <1>2, <1>23 DEF FlatTypes, ClosedIsGone, ToLeader, Lose
  <2> QED
    BY <2>1, <2>2, <2>3, <2>4, <2>5
<1>24. ASSUME NEW n \in Nodes, Crash(n) PROVE Kept
  <2>1. FlatTypes'
    BY <1>1, <1>2, <1>24 DEF FlatTypes, Stages, Crash, At
  <2>2. AttemptsFit'
    BY <1>1, <1>2, <1>24 DEF FlatTypes, AttemptsFit, Stages, Crash, At
  <2>3. RelayInStep'
    BY <1>1, <1>2, <1>24, CrashRelay DEF Crash
  <2>4. ReceivedWasPublished'
    BY <1>1, <1>2, <1>24 DEF FlatTypes, ReceivedWasPublished, ToLeader, Stages, Crash, At
  <2>5. ClosedIsGone'
    BY <1>1, <1>2, <1>24 DEF FlatTypes, ClosedIsGone, ToLeader, Crash, At
  <2> QED
    BY <2>1, <2>2, <2>3, <2>4, <2>5
<1>25. ASSUME ActorLoaded PROVE Kept
  <2>1. FlatTypes'
    BY <1>1, <1>2, <1>25 DEF FlatTypes, Stages, ActorLoaded
  <2>2. AttemptsFit'
    BY <1>1, <1>2, <1>25 DEF FlatTypes, AttemptsFit, Stages, ActorLoaded
  <2>3. RelayInStep'
    BY <1>1, <1>2, <1>25, RelayKept DEF ActorLoaded
  <2>4. ReceivedWasPublished'
    BY <1>1, <1>2, <1>25 DEF FlatTypes, ReceivedWasPublished, ToLeader, Stages, ActorLoaded
  <2>5. ClosedIsGone'
    BY <1>1, <1>2, <1>25 DEF FlatTypes, ClosedIsGone, ToLeader, ActorLoaded
  <2> QED
    BY <2>1, <2>2, <2>3, <2>4, <2>5
<1>26. ASSUME LeaderStops PROVE Kept
  <2>1. FlatTypes'
    BY <1>1, <1>2, <1>26 DEF FlatTypes, Stages, LeaderStops
  <2>2. AttemptsFit'
    BY <1>1, <1>2, <1>26 DEF FlatTypes, AttemptsFit, Stages, LeaderStops
  <2>3. RelayInStep'
    BY <1>1, <1>2, <1>26, RelayKept DEF LeaderStops
  <2>4. ReceivedWasPublished'
    BY <1>1, <1>2, <1>26 DEF FlatTypes, ReceivedWasPublished, ToLeader, Stages, LeaderStops
  <2>5. ClosedIsGone'
    BY <1>1, <1>2, <1>26 DEF FlatTypes, ClosedIsGone, ToLeader, LeaderStops
  <2> QED
    BY <2>1, <2>2, <2>3, <2>4, <2>5
<1>27. ASSUME UNCHANGED vars PROVE Kept
  <2>1. FlatTypes'
    BY <1>1, <1>2, <1>27 DEF FlatTypes, Stages, vars
  <2>2. AttemptsFit'
    BY <1>1, <1>2, <1>27 DEF FlatTypes, AttemptsFit, Stages, vars
  <2>3. RelayInStep'
    BY <1>1, <1>2, <1>27, RelayKept DEF vars
  <2>4. ReceivedWasPublished'
    BY <1>1, <1>2, <1>27 DEF FlatTypes, ReceivedWasPublished, ToLeader, Stages, vars
  <2>5. ClosedIsGone'
    BY <1>1, <1>2, <1>27 DEF FlatTypes, ClosedIsGone, ToLeader, vars
  <2> QED
    BY <2>1, <2>2, <2>3, <2>4, <2>5
<1> QED
  BY <1>3, <1>4, <1>5, <1>6, <1>7, <1>8, <1>9, <1>10, <1>11, <1>12, <1>13, <1>14, <1>15, <1>16,
     <1>17,
     <1>18, <1>19, <1>20, <1>21, <1>22, <1>23, <1>24, <1>25, <1>26, <1>27, <1>28, <1>29, <1>30,
     <1>31,
     <1>32 DEF Next, Relay, Handle, onMessage, onConnMessage

-----------------------------------------------------------------------------
(* One publish in the topics                                                *)

(* Taking the one message about a publish leaves none.                        *)
LEMMA ClearAndSingle ==
    ASSUME inbox \in Boxes, NEW n \in Nodes, inbox[n] # <<>>, NEW p
    PROVE  /\ Clear(inbox, p) => Clear(Taken(n), p)
           /\ Single(inbox, p) => Single(Taken(n), p)
           /\ Single(inbox, p) /\ About(Head(inbox[n]), p) => Clear(Taken(n), p)
<1>1. /\ \A k \in Nodes : \A i \in DOMAIN Taken(n)[k] :
            IF k = n THEN i + 1 \in DOMAIN inbox[n] /\ Taken(n)[n][i] = inbox[n][i + 1]
                     ELSE i \in DOMAIN inbox[k] /\ Taken(n)[k][i] = inbox[k][i]
      /\ 1 \in DOMAIN inbox[n] /\ Head(inbox[n]) = inbox[n][1]
      /\ Taken(n) \in Boxes
  BY TakenPlaces
<1>2. \A k \in Nodes : \A i \in DOMAIN Taken(n)[k] : i \in Nat /\ i > 0
  BY <1>1 DEF Boxes
<1>3. ASSUME Clear(inbox, p) PROVE Clear(Taken(n), p)
  BY <1>1, <1>3 DEF Clear
<1>4. ASSUME Single(inbox, p) PROVE Single(Taken(n), p)
  <2> SUFFICES ASSUME NEW k \in Nodes, NEW l \in Nodes,
                      NEW i \in DOMAIN Taken(n)[k], NEW j \in DOMAIN Taken(n)[l],
                      About(Taken(n)[k][i], p), About(Taken(n)[l][j], p)
               PROVE  k = l /\ i = j
    BY DEF Single
  <2> DEFINE i0 == IF k = n THEN i + 1 ELSE i
             j0 == IF l = n THEN j + 1 ELSE j
  <2>1. /\ i0 \in DOMAIN inbox[k] /\ Taken(n)[k][i] = inbox[k][i0]
        /\ j0 \in DOMAIN inbox[l] /\ Taken(n)[l][j] = inbox[l][j0]
    BY <1>1
  <2>2. k = l /\ i0 = j0
    BY <1>4, <2>1 DEF Single
  <2> QED
    BY <1>2, <2>2
<1>5. ASSUME Single(inbox, p), About(Head(inbox[n]), p) PROVE Clear(Taken(n), p)
  <2> SUFFICES ASSUME NEW k \in Nodes, NEW i \in DOMAIN Taken(n)[k], About(Taken(n)[k][i], p)
               PROVE  FALSE
    BY DEF Clear
  <2> DEFINE i0 == IF k = n THEN i + 1 ELSE i
  <2>1. i0 \in DOMAIN inbox[k] /\ Taken(n)[k][i] = inbox[k][i0]
    BY <1>1
  <2>2. k = n /\ i0 = 1
    BY <1>1, <1>5, <2>1 DEF Single
  <2> QED
    BY <1>2, <2>2
<1> QED
  BY <1>3, <1>4, <1>5

(* Posting to topics that hold none about a publish leaves one at most.       *)
LEMMA PostClearAndSingle ==
    ASSUME NEW box \in Boxes, NEW n \in Nodes, NEW m \in NodeMessages, NEW p
    PROVE  /\ Clear(box, p) /\ ~About(m, p) => Clear(Post(box, n, m), p)
           /\ Single(box, p) /\ ~About(m, p) => Single(Post(box, n, m), p)
           /\ Clear(box, p) => Single(Post(box, n, m), p)
<1>1. \A k \in Nodes : \A i \in DOMAIN Post(box, n, m)[k] :
         IF k = n /\ i = Len(box[n]) + 1
         THEN Post(box, n, m)[k][i] = m
         ELSE i \in DOMAIN box[k] /\ Post(box, n, m)[k][i] = box[k][i]
  BY PostPlaces
<1> QED
  BY <1>1 DEF Clear, Single

(* Taking a message leaves only messages that were there.                     *)
LEMMA TakenAll ==
    ASSUME inbox \in Boxes, NEW n \in Nodes, inbox[n] # <<>>, NEW G,
           \A k \in Nodes : \A i \in DOMAIN inbox[k] : inbox[k][i] \in G
    PROVE  \A k \in Nodes : \A i \in DOMAIN Taken(n)[k] : Taken(n)[k][i] \in G
BY TakenPlaces

(* Posting adds only the message posted.                                      *)
LEMMA PostAll ==
    ASSUME NEW box \in Boxes, NEW n \in Nodes, NEW m \in NodeMessages, NEW G, m \in G,
           \A k \in Nodes : \A i \in DOMAIN box[k] : box[k][i] \in G
    PROVE  \A k \in Nodes : \A i \in DOMAIN Post(box, n, m)[k] : Post(box, n, m)[k][i] \in G
BY PostPlaces, SMTT(30)

(* A message or an ack is about its own publish only.                         *)
LEMMA MessagesAbout ==
    ASSUME NEW p \in ToLeader \X Conns
    PROVE  /\ About([kind |-> p[1], conn |-> p[2]], p)
           /\ About([kind |-> "ack", conn |-> p[2], of |-> p[1]], p)
           /\ \A q \in ToLeader \X Conns :
                 q # p => /\ ~About([kind |-> p[1], conn |-> p[2]], q)
                          /\ ~About([kind |-> "ack", conn |-> p[2], of |-> p[1]], q)
           /\ \A c : ~About([kind |-> "fm", conn |-> c], p) /\ ~About([kind |-> "fcc", conn |-> c], p)
<1>1. p[1] \in ToLeader /\ p = <<p[1], p[2]>> /\ p[1] \notin {"ack", "fm", "fcc"}
  BY DEF ToLeader
<1>2. \A q \in ToLeader \X Conns : q = <<q[1], q[2]>> /\ q[1] \notin {"ack", "fm", "fcc"}
  BY DEF ToLeader
<1> QED
  BY <1>1, <1>2 DEF About

(* A publish is lost when no message about it is in the topics.               *)
LEMMA LostIsClear ==
    ASSUME inbox \in Boxes, NEW p \in ToLeader \X Conns, Lost(p)
    PROVE  Clear(inbox, p)
<1> SUFFICES ASSUME NEW n \in Nodes, NEW i \in DOMAIN inbox[n], About(inbox[n][i], p)
             PROVE  FALSE
  BY DEF Clear
<1>1. inbox[n][i] \in NodeMessages
  BY DEF Boxes
<1>2. p[1] # "ack"
  BY DEF ToLeader
<1>3. \/ inbox[n][i] = [kind |-> p[1], conn |-> p[2]]
      \/ inbox[n][i] = [kind |-> "ack", conn |-> p[2], of |-> p[1]]
  BY <1>1, <1>2, MessageFields DEF About
<1> QED
  BY <1>3 DEF Lost

(* What has happened to a publish stays: none goes back to idle.              *)
LEMMA PublishGoesOn ==
    ASSUME IInv, [Next]_vars
    PROVE  \A p \in ToLeader \X Conns : stage[p] # "idle" => stage'[p] # "idle"
<1> DEFINE GoesOn == \A p \in ToLeader \X Conns : stage[p] # "idle" => stage'[p] # "idle"
<1>0. stage \in [ToLeader \X Conns -> Stages]
  BY DEF IInv, TypeOK
<1>1. ASSUME UNCHANGED stage PROVE GoesOn
  BY <1>1
<1>2. ASSUME NEW p \in ToLeader \X Conns,
              publishMessageToLeaderInner(p) \/ ackTimeout(p) \/ actorNotInitialized(p)
      PROVE  GoesOn
  BY <1>0, <1>2 DEF publishMessageToLeaderInner, ackTimeout, actorNotInitialized
<1>3. ASSUME NEW c \in Conns, NEW kind \in ToLeader, Publish(kind, c) PROVE GoesOn
  BY <1>0, <1>3 DEF Publish
<1>4. ASSUME NEW c \in Conns, NEW b \in BOOLEAN, disconnect(c, b) PROVE GoesOn
  BY <1>0, <1>4 DEF disconnect, AbortsOpen
<1>5. ASSUME NEW n \in Nodes, onAck(n) PROVE GoesOn
  BY <1>0, <1>5 DEF onAck
<1>6. ASSUME NEW n \in Nodes, Crash(n) PROVE GoesOn
  BY <1>0, <1>6 DEF Crash
<1>7. ASSUME NEW n \in Nodes, onFollowerConnectionClose(n) PROVE Head(inbox[n]).conn \in Conns
  BY <1>7, HeadFacts DEF onFollowerConnectionClose, Take, HeadHasACause
<1>8. {"lco", "lm"} \subseteq ToLeader
  BY DEF ToLeader
<1> HIDE DEF GoesOn
<1>9. ASSUME NEW c \in Conns, start(c) \/ onMessage(c) \/ onConnMessage(c) \/ onClose(c) PROVE GoesOn
  <2>1. Publish("lco", c) \/ Publish("lm", c) \/ disconnect(c, FALSE)
    BY <1>9 DEF start, onMessage, onConnMessage, Send, onClose
  <2> QED
    BY <1>3, <1>4, <1>8, <2>1
<1>10. ASSUME NEW n \in Nodes, onFollowerConnectionClose(n) PROVE GoesOn
  BY <1>1, <1>4, <1>7, <1>10 DEF onFollowerConnectionClose
<1>11. ASSUME NEW c \in Conns,
              \/ onOpen(c) \/ acquireThrows(c) \/ ClientCloses(c) \/ startEnds(c) \/ disconnectEnds(c)
              \/ createConn(c) \/ prepareConnFails(c) \/ relayDriverDisconnect(c) \/ disconnectThrows(c)
       PROVE  GoesOn
  <2>1. UNCHANGED stage
    BY <1>11 DEF publishing, onOpen, acquireThrows, ClientCloses, startEnds, disconnectEnds,
       createConn, prepareConnFails, relayDriverDisconnect, disconnectThrows
  <2> QED
    BY <1>1, <2>1
<1>12. ASSUME NEW n \in Nodes,
              \/ onLeaderConnectionOpen(n) \/ onLeaderConnectionClose(n) \/ onLeaderMessage(n)
              \/ onFollowerMessage(n) \/ Lease(n) \/ Lose(n) \/ PeerStartThrows(n)
       PROVE  GoesOn
  BY <1>1, <1>12 DEF publishing, onLeaderConnectionOpen, onLeaderConnectionClose, onLeaderMessage,
     onFollowerMessage, Lease, Lose, PeerStartThrows
<1>13. ASSUME ActorLoaded \/ LeaderStops \/ leaseInvalid \/ UNCHANGED vars PROVE GoesOn
  BY <1>1, <1>13 DEF publishing, ActorLoaded, LeaderStops, leaseInvalid, vars
<1>15. ASSUME NEW c \in Conns, publishAfterAbort(c) PROVE GoesOn
  BY <1>0, <1>15 DEF publishAfterAbort, GoesOn
<1>14. GoesOn
  BY <1>2, <1>5, <1>6, <1>9, <1>10, <1>11, <1>12, <1>13, <1>15 DEF Next, Relay, Handle
<1> QED
  BY <1>14 DEF GoesOn

(* What caused a message stays true of it.                                    *)
LEMMA CausesLast ==
    ASSUME IInv, [Next]_vars
    PROVE  /\ \A m \in NodeMessages : HasACause(m) => HasACause(m)'
           /\ received \subseteq received' /\ kicked \subseteq kicked'
<1>1. \A p \in ToLeader \X Conns : stage[p] # "idle" => stage'[p] # "idle"
  BY PublishGoesOn
<1>2. received \subseteq received' /\ kicked \subseteq kicked'
  <2> DEFINE Kept == UNCHANGED <<received, kicked>>
  <2> USE DEF actorVars, history
  <2>1. ASSUME NEW p \in ToLeader \X Conns,
               publishMessageToLeaderInner(p) \/ ackTimeout(p) \/ actorNotInitialized(p)
        PROVE  Kept
    BY <2>1 DEF publishMessageToLeaderInner, ackTimeout, actorNotInitialized
  <2>2. ASSUME NEW c \in Conns,
               \/ onOpen(c) \/ acquireThrows(c) \/ ClientCloses(c) \/ Relay(c)
               \/ onMessage(c) \/ onConnMessage(c) \/ createConn(c) \/ prepareConnFails(c)
               \/ publishAfterAbort(c)
        PROVE  Kept
    BY <2>2 DEF onOpen, acquireThrows, ClientCloses, Relay, start, startEnds, onClose,
       disconnectThrows,
       disconnectEnds, onMessage, onConnMessage, Send, createConn, prepareConnFails,
       publishAfterAbort
  <2>3. ASSUME NEW n \in Nodes,
               \/ onAck(n) \/ onFollowerMessage(n) \/ onFollowerConnectionClose(n)
               \/ Lease(n) \/ PeerStartThrows(n) \/ Lose(n) \/ Crash(n)
        PROVE  Kept
    BY <2>3 DEF onAck, onFollowerMessage, onFollowerConnectionClose, Lease, PeerStartThrows, Lose,
       Crash
  <2>4. ASSUME NEW n \in Nodes,
               onLeaderConnectionOpen(n) \/ onLeaderConnectionClose(n) \/ onLeaderMessage(n)
        PROVE  received \subseteq received' /\ UNCHANGED kicked
    BY <2>4 DEF onLeaderConnectionOpen, onLeaderConnectionClose, onLeaderMessage, TakeForLeader
  <2>5. ASSUME NEW c \in Conns, relayDriverDisconnect(c)
        PROVE  UNCHANGED received /\ kicked \subseteq kicked'
    BY <2>5 DEF relayDriverDisconnect
  <2>6. ASSUME ActorLoaded \/ LeaderStops \/ leaseInvalid \/ UNCHANGED vars PROVE Kept
    BY <2>6 DEF ActorLoaded, LeaderStops, leaseInvalid, vars
  <2> QED
    BY <2>1, <2>2, <2>3, <2>4, <2>5, <2>6 DEF Next, Handle
<1>3. ASSUME NEW m \in NodeMessages, HasACause(m) PROVE HasACause(m)'
  <2>1. m.conn \in Conns /\ (m.kind \in ToLeader => <<m.kind, m.conn>> \in ToLeader \X Conns)
    BY MessageFields
  <2>2. m.kind \in ToLeader => stage[<<m.kind, m.conn>>] # "idle"
    BY <1>3 DEF HasACause
  <2>3. m.kind \in ToLeader => stage'[<<m.kind, m.conn>>] # "idle"
    BY <1>1, <2>1, <2>2
  <2> QED
    BY <1>2, <1>3, <2>3 DEF HasACause
<1> QED
  BY <1>2, <1>3

-----------------------------------------------------------------------------
(* The topics after a step                                                    *)

Caused == {m \in NodeMessages : HasACause(m)'}

(* What holds of the topics as a step leaves them.                            *)
Fits(box) ==
    /\ box \in Boxes
    /\ \A k \in Nodes : \A i \in DOMAIN box[k] : box[k][i] \in Caused
    /\ faults' = 0 => \A p \in ToLeader \X Conns : Single(box, p) /\ (Clear(box, p) \/ Waits(p)')

(* A step may settle or begin a publish of which nothing is under way, and    *)
(* cut short an open.                                                         *)
LEMMA FitsBefore ==
    ASSUME IInv, [Next]_vars, faults' = 0 => faults = 0,
           faults' = 0 => \A p \in ToLeader \X Conns :
               stage'[p] = stage[p] \/ Clear(inbox, p) \/ Waits(p)'
    PROVE  Fits(inbox)
<1>1. inbox \in Boxes
  BY DEF IInv, TypeOK, Boxes
<1>2. ASSUME NEW k \in Nodes, NEW i \in DOMAIN inbox[k] PROVE inbox[k][i] \in Caused
  <2>1. inbox[k][i] \in NodeMessages
    BY <1>1 DEF Boxes
  <2> QED
    BY <2>1, CausesLast DEF Caused, IInv, TopicsHaveACause
<1>3. ASSUME faults' = 0, NEW p \in ToLeader \X Conns
      PROVE  Single(inbox, p) /\ (Clear(inbox, p) \/ Waits(p)')
  <2>1. Single(inbox, p) /\ (Clear(inbox, p) \/ Waits(p))
    BY <1>3 DEF IInv, OneUnderWay
  <2>2. kicked \subseteq kicked'
    BY CausesLast
  <2> QED
    BY <1>3, <2>1, <2>2 DEF Waits
<1> QED
  BY <1>1, <1>2, <1>3 DEF Fits

(* The handler of an ack settles the publish whose ack it has taken.          *)
LEMMA FitsTaken ==
    ASSUME IInv, [Next]_vars, faults' = 0 => faults = 0,
           NEW n \in Nodes, inbox[n] # <<>>,
           faults' = 0 => \A p \in ToLeader \X Conns :
               \/ stage'[p] = stage[p] \/ Clear(inbox, p) \/ Waits(p)'
               \/ About(Head(inbox[n]), p)
    PROVE  Fits(Taken(n))
<1>1. inbox \in Boxes
  BY DEF IInv, TypeOK, Boxes
<1>2. Taken(n) \in Boxes
  BY <1>1, TakenPlaces
<1>3. \A k \in Nodes : \A i \in DOMAIN inbox[k] : inbox[k][i] \in Caused
  <2> SUFFICES ASSUME NEW k \in Nodes, NEW i \in DOMAIN inbox[k] PROVE inbox[k][i] \in Caused
    OBVIOUS
  <2>1. inbox[k][i] \in NodeMessages
    BY <1>1 DEF Boxes
  <2> QED
    BY <2>1, CausesLast DEF Caused, IInv, TopicsHaveACause
<1>4. \A k \in Nodes : \A i \in DOMAIN Taken(n)[k] : Taken(n)[k][i] \in Caused
  BY <1>1, <1>3, TakenAll
<1>5. ASSUME faults' = 0, NEW p \in ToLeader \X Conns
      PROVE  Single(Taken(n), p) /\ (Clear(Taken(n), p) \/ Waits(p)')
  <2>1. Single(inbox, p) /\ (Clear(inbox, p) \/ Waits(p))
    BY <1>5 DEF IInv, OneUnderWay
  <2>2. kicked \subseteq kicked'
    BY CausesLast
  <2>3. /\ Clear(inbox, p) => Clear(Taken(n), p)
        /\ Single(Taken(n), p)
        /\ About(Head(inbox[n]), p) => Clear(Taken(n), p)
    BY <1>1, <2>1, ClearAndSingle
  <2> QED
    BY <1>5, <2>1, <2>2, <2>3 DEF Waits
<1> QED
  BY <1>2, <1>4, <1>5 DEF Fits

(* A message may be posted that has a cause, and is about a publish of which  *)
(* nothing is under way and which waits.                                      *)
LEMMA FitsPosted ==
    ASSUME NEW box, Fits(box), NEW n \in Nodes, NEW m \in Caused,
           faults' = 0 => \A p \in ToLeader \X Conns : About(m, p) => Clear(box, p) /\ Waits(p)'
    PROVE  Fits(Post(box, n, m))
<1>1. box \in Boxes /\ m \in NodeMessages
  BY DEF Fits, Caused
<1>2. Post(box, n, m) \in Boxes
  BY <1>1, PostPlaces
<1>3. \A k \in Nodes : \A i \in DOMAIN Post(box, n, m)[k] : Post(box, n, m)[k][i] \in Caused
  BY <1>1, PostAll DEF Fits
<1>4. ASSUME faults' = 0, NEW p \in ToLeader \X Conns
      PROVE  Single(Post(box, n, m), p) /\ (Clear(Post(box, n, m), p) \/ Waits(p)')
  BY <1>1, <1>4, PostClearAndSingle DEF Fits
<1> QED
  BY <1>2, <1>3, <1>4 DEF Fits

(* The topics' parts of the invariant, from what fits.                        *)
LEMMA FitsAfter ==
    ASSUME Fits(inbox')
    PROVE  inbox' \in Boxes /\ TopicsHaveACause' /\ OneUnderWay'
BY DEF Fits, Caused, TopicsHaveACause, OneUnderWay

-----------------------------------------------------------------------------
(* The topics, action by action                                               *)

(* A publish is begun when nothing of it is under way.                        *)
LEMMA IdleIsClear ==
    ASSUME IInv, faults = 0, NEW p \in ToLeader \X Conns, stage[p] \in {"idle", "trying", "aborted"}
    PROVE  Clear(inbox, p)
BY DEF IInv, OneUnderWay, Waits

(* disconnect cuts the open short, if the actor asked for it, and begins the  *)
(* close.                                                                     *)
LEMMA CloseStage ==
    ASSUME IInv, NEW c \in Conns, NEW b \in BOOLEAN, disconnect(c, b),
           relay[c] \in {"opening", "open", "failed"}, b \/ relay[c] = "open",
           b => c \in kicked', faults = 0
    PROVE  \A p \in ToLeader \X Conns : stage'[p] = stage[p] \/ Clear(inbox, p) \/ Waits(p)'
<1>1. <<"lco", c>> \in ToLeader \X Conns /\ <<"lcc", c>> \in ToLeader \X Conns
  BY DEF ToLeader
<1>2. /\ stage[<<"lcc", c>>] = "idle"
      /\ ~b => stage[<<"lco", c>>] = "acked"
  BY DEF IInv, RelayInStep
<1>3. stage \in [ToLeader \X Conns -> Stages]
  BY DEF IInv, TypeOK
<1>4. \A p \in ToLeader \X Conns : p \notin {<<"lco", c>>, <<"lcc", c>>} => stage'[p] = stage[p]
  BY <1>1, <1>3 DEF disconnect, AbortsOpen
<1>5. \/ stage'[<<"lco", c>>] = stage[<<"lco", c>>]
      \/ stage[<<"lco", c>>] \in {"trying", "waiting"} /\ stage'[<<"lco", c>>] = "failed"
      \/ stage[<<"lco", c>>] = "trying"
  BY <1>1, <1>3 DEF disconnect, AbortsOpen
<1>6. /\ Clear(inbox, <<"lcc", c>>)
      /\ stage[<<"lco", c>>] = "trying" => Clear(inbox, <<"lco", c>>)
  BY <1>1, <1>2, IdleIsClear
<1>7. \/ stage'[<<"lco", c>>] = stage[<<"lco", c>>] \/ Waits(<<"lco", c>>)'
      \/ Clear(inbox, <<"lco", c>>)
  BY <1>2, <1>5, <1>6 DEF Waits
<1> QED
  BY <1>4, <1>6, <1>7

(* A step that leaves the topics alone.                                       *)
LEMMA TopicsUnread ==
    ASSUME IInv, [Next]_vars, faults' = 0 => faults = 0, UNCHANGED inbox,
           faults' = 0 => \A p \in ToLeader \X Conns :
               stage'[p] = stage[p] \/ Clear(inbox, p) \/ Waits(p)'
    PROVE  Fits(inbox')
BY FitsBefore

(* An attempt publishes when nothing of the publish is under way.             *)
LEMMA TopicsWhenPublishing ==
    ASSUME IInv, [Next]_vars, faults' = 0 => faults = 0,
           NEW p \in ToLeader \X Conns, publishMessageToLeaderInner(p)
    PROVE  Fits(inbox')
<1> DEFINE m == [kind |-> p[1], conn |-> p[2]]
<1>1. stage[p] = "trying" /\ \A q \in ToLeader \X Conns : q # p => stage'[q] = stage[q]
  BY DEF publishMessageToLeaderInner, IInv, TypeOK
<1>2. faults' = 0 => Clear(inbox, p)
  BY <1>1, IdleIsClear
<1>3. Fits(inbox)
  BY <1>1, <1>2, FitsBefore
<1>4. CASE lease = None
  BY <1>3, <1>4 DEF publishMessageToLeaderInner
<1>5. CASE lease # None
  <2>1. inbox' = Post(inbox, lease, m) /\ stage' = [stage EXCEPT ![p] = "waiting"]
    BY <1>5 DEF publishMessageToLeaderInner, Post
  <2>2. stage'[p] = "waiting" /\ lease \in Nodes
    BY <1>5, <2>1 DEF IInv, TypeOK
  <2>0. p[1] \in ToLeader /\ p[2] \in Conns /\ p = <<p[1], p[2]>> /\ p[1] \notin {"ack", "fcc"}
    BY DEF ToLeader
  <2>3. m \in NodeMessages
    BY <2>0, MessageTypes
  <2>4. m \in Caused
    BY <2>0, <2>2, <2>3 DEF Caused, HasACause
  <2>5. \A q \in ToLeader \X Conns : About(m, q) => q = p
    BY MessagesAbout
  <2>6. Waits(p)'
    BY <2>2 DEF Waits
  <2> HIDE DEF m
  <2> QED
    BY <1>2, <1>3, <2>1, <2>2, <2>4, <2>5, <2>6, FitsPosted
<1> QED
  BY <1>4, <1>5

(* So does an open that was aborted while it read the leader.                 *)
LEMMA TopicsWhenAborted ==
    ASSUME IInv, [Next]_vars, faults' = 0 => faults = 0, NEW c \in Conns, publishAfterAbort(c)
    PROVE  Fits(inbox')
<1> DEFINE p == <<"lco", c>>
           m == [kind |-> "lco", conn |-> c]
<1>1. p \in ToLeader \X Conns /\ p[1] = "lco" /\ p[2] = c
  BY DEF ToLeader
<1>2. stage[p] = "aborted" /\ stage' = [stage EXCEPT ![p] = "failed"]
  BY DEF publishAfterAbort
<1>3. stage'[p] = "failed" /\ \A q \in ToLeader \X Conns : q # p => stage'[q] = stage[q]
  BY <1>1, <1>2 DEF IInv, TypeOK
<1>4. c \in kicked /\ kicked \subseteq kicked'
  BY <1>2, CausesLast DEF IInv, RelayInStep
<1>5. faults' = 0 => Clear(inbox, p)
  BY <1>1, <1>2, IdleIsClear
<1>6. Waits(p)'
  BY <1>1, <1>3, <1>4 DEF Waits
<1> HIDE DEF p
<1>7. Fits(inbox)
  BY <1>3, <1>5, FitsBefore
<1>8. CASE lease = None
  BY <1>7, <1>8 DEF publishAfterAbort
<1>9. CASE lease # None
  <2>1. inbox' = Post(inbox, lease, m) /\ lease \in Nodes
    BY <1>9 DEF publishAfterAbort, IInv, TypeOK
  <2>2. m \in NodeMessages
    BY MessageTypes DEF ToLeader
  <2>3. m \in Caused
    BY <1>3, <2>2 DEF Caused, HasACause, p
  <2>4. m = [kind |-> p[1], conn |-> p[2]]
    BY <1>1
  <2>5. \A q \in ToLeader \X Conns : About(m, q) => q = p
    BY <1>1, <2>4, MessagesAbout
  <2> HIDE DEF m
  <2> QED
    BY <1>5, <1>6, <1>7, <2>1, <2>3, <2>5, FitsPosted
<1> QED
  BY <1>8, <1>9

(* A message the actor sends, or its request to close a connection.           *)
LEMMA TopicsWhenAnswering ==
    ASSUME NEW box, Fits(box), NEW c \in Conns, NEW kind \in {"fm", "fcc"},
           kind = "fcc" => c \in kicked'
    PROVE  Fits(Post(box, Home[c], [kind |-> kind, conn |-> c]))
<1> DEFINE m == [kind |-> kind, conn |-> c]
<1>1. m \in NodeMessages /\ Home[c] \in Nodes
  BY ConstantsAssumption DEF ConstantsAssumption, NodeMessages
<1>2. m \in Caused
  BY <1>1 DEF Caused, HasACause, ToLeader
<1>3. \A p \in ToLeader \X Conns : ~About(m, p)
  BY MessagesAbout
<1> HIDE DEF m
<1>4. Fits(Post(box, Home[c], m))
  BY <1>1, <1>2, <1>3, FitsPosted
<1> QED
  BY <1>4 DEF m

(* Node.#onMessage acks what it takes for a leader.                           *)
LEMMA TopicsWhenAcked ==
    ASSUME IInv, [Next]_vars, faults' = 0 => faults = 0,
           NEW n \in Nodes, NEW kind \in ToLeader, NEW c \in Conns, TakeForLeader(n, kind, c),
           UNCHANGED stage
    PROVE  Fits(Acked(n, kind, c))
<1> DEFINE m == [kind |-> "ack", conn |-> c, of |-> kind]
           p == <<kind, c>>
<1>1. inbox[n] # <<>> /\ p \in ToLeader \X Conns /\ p[1] = kind /\ p[2] = c /\ About(Head(inbox[n]), p)
  BY DEF TakeForLeader, Take, About
<1>2. Fits(Taken(n))
  BY <1>1, FitsTaken
<1>3. m \in NodeMessages /\ Home[c] \in Nodes
  BY ConstantsAssumption, MessageTypes DEF ConstantsAssumption
<1>4. p \in received'
  BY DEF TakeForLeader
<1>5. m \in Caused
  BY <1>3, <1>4 DEF Caused, HasACause, ToLeader
<1>6. \A q \in ToLeader \X Conns : About(m, q) => q = p
  BY <1>1, MessagesAbout
<1>7. ASSUME faults' = 0 PROVE Clear(Taken(n), p) /\ Waits(p)'
  <2>1. inbox \in Boxes /\ Single(inbox, p) /\ (Clear(inbox, p) \/ Waits(p))
    BY <1>1, <1>7 DEF IInv, TypeOK, Boxes, OneUnderWay
  <2>2. 1 \in DOMAIN inbox[n] /\ Head(inbox[n]) = inbox[n][1]
    BY <1>1, <2>1, TakenPlaces
  <2>3. ~Clear(inbox, p)
    BY <1>1, <2>2 DEF Clear
  <2>4. kicked \subseteq kicked'
    BY CausesLast
  <2> QED
    BY <1>1, <2>1, <2>3, <2>4, ClearAndSingle DEF Waits
<1> HIDE DEF m, p
<1>8. Acked(n, kind, c) = Post(Taken(n), Home[c], m)
  BY DEF Acked, m
<1> QED
  BY <1>2, <1>3, <1>5, <1>6, <1>7, <1>8, FitsPosted

(* Every action leaves the topics fitting.                                    *)
LEMMA TopicStep ==
    ASSUME IInv, [Next]_vars
    PROVE  Fits(inbox')
<1>0. (faults' = 0 => faults = 0) /\ (Fault => faults' # 0)
  BY FaultsCount DEF IInv, TypeOK, Fault
<1>1. /\ stage \in [ToLeader \X Conns -> Stages] /\ inbox \in Boxes
      /\ \A kind \in ToLeader, c \in Conns : <<kind, c>> \in ToLeader \X Conns
      /\ {"lco", "lcc", "lm"} \subseteq ToLeader
  BY DEF IInv, TypeOK, Boxes, ToLeader
<1> DEFINE Quiet == UNCHANGED inbox /\ \A p \in ToLeader \X Conns :
                       stage'[p] = stage[p] \/ (faults' = 0 => Clear(inbox, p) \/ Waits(p)')
<1>2. ASSUME Quiet PROVE Fits(inbox')
  BY <1>0, <1>2, TopicsUnread
<1>3. ASSUME NEW kind \in ToLeader, NEW c \in Conns, stage[<<kind, c>>] = "idle",
             Publish(kind, c), UNCHANGED inbox
      PROVE  Fits(inbox')
  <2>1. \A p \in ToLeader \X Conns : p # <<kind, c>> => stage'[p] = stage[p]
    BY <1>1, <1>3 DEF Publish
  <2>2. faults' = 0 => Clear(inbox, <<kind, c>>)
    BY <1>0, <1>1, <1>3, IdleIsClear
  <2> QED
    BY <1>2, <1>3, <2>1, <2>2
<1>4. ASSUME NEW n \in Nodes, inbox[n] # <<>>, UNCHANGED stage PROVE Fits(Taken(n))
  BY <1>0, <1>4, FitsTaken
<1> HIDE DEF Quiet
<1>5. ASSUME NEW p \in ToLeader \X Conns, publishMessageToLeaderInner(p) PROVE Fits(inbox')
  BY <1>0, <1>5, TopicsWhenPublishing
<1>6. ASSUME NEW p \in ToLeader \X Conns, ackTimeout(p) PROVE Fits(inbox')
  <2>1. \A q \in ToLeader \X Conns : q # p => stage'[q] = stage[q]
    BY <1>1, <1>6 DEF ackTimeout
  <2>2. CASE Lost(p)
    <3>1. Clear(inbox, p)
      BY <1>1, <2>2, LostIsClear
    <3> QED
      BY <1>2, <1>6, <2>1, <3>1 DEF Quiet, ackTimeout
  <2>3. CASE ~Lost(p)
    BY <1>0, <1>2, <1>6, <2>3 DEF Quiet, ackTimeout
  <2> QED
    BY <2>2, <2>3
<1>21. ASSUME NEW p \in ToLeader \X Conns, actorNotInitialized(p) PROVE Fits(inbox')
  BY <1>0, <1>2, <1>21 DEF Quiet, actorNotInitialized
<1>22. ASSUME NEW c \in Conns, publishAfterAbort(c) PROVE Fits(inbox')
  BY <1>0, <1>22, TopicsWhenAborted
<1>7. ASSUME NEW c \in Conns, start(c) PROVE Fits(inbox')
  BY <1>1, <1>3, <1>7 DEF start, IInv, RelayInStep
<1>8. ASSUME NEW c \in Conns, onMessage(c) \/ onConnMessage(c) PROVE Fits(inbox')
  BY <1>1, <1>3, <1>8 DEF onMessage, onConnMessage, Send
<1>9. ASSUME NEW c \in Conns, onClose(c) PROVE Fits(inbox')
  BY <1>0, <1>2, <1>9, CloseStage DEF Quiet, onClose
<1>10. ASSUME NEW c \in Conns,
              \/ onOpen(c) \/ acquireThrows(c) \/ ClientCloses(c) \/ startEnds(c) \/ disconnectEnds(c)
              \/ prepareConnFails(c) \/ disconnectThrows(c)
       PROVE  Fits(inbox')
  <2>1. UNCHANGED <<inbox, stage>>
    BY <1>10 DEF publishing, onOpen, acquireThrows, ClientCloses, startEnds, disconnectEnds,
       prepareConnFails, disconnectThrows
  <2> QED
    BY <1>2, <2>1 DEF Quiet
<1>11. ASSUME NEW c \in Conns, createConn(c) PROVE Fits(inbox')
  <2>1. UNCHANGED stage /\ (UNCHANGED inbox \/ inbox' = Post(inbox, Home[c], [kind |-> "fm", conn |-> c]))
    BY <1>11 DEF createConn, publishing
  <2>2. Fits(inbox)
    BY <1>0, <2>1, FitsBefore
  <2> QED
    BY <1>2, <2>1, <2>2, TopicsWhenAnswering DEF Quiet
<1>12. ASSUME NEW c \in Conns, relayDriverDisconnect(c) PROVE Fits(inbox')
  <2>1. UNCHANGED stage /\ inbox' = Post(inbox, Home[c], [kind |-> "fcc", conn |-> c]) /\ c \in kicked'
    BY <1>12 DEF relayDriverDisconnect, publishing
  <2>2. Fits(inbox)
    BY <1>0, <2>1, FitsBefore
  <2> QED
    BY <2>1, <2>2, TopicsWhenAnswering
<1>13. ASSUME NEW n \in Nodes, onAck(n) PROVE Fits(inbox')
  <2> DEFINE m == Head(inbox[n])
             p == <<m.of, m.conn>>
  <2>1. inbox[n] # <<>> /\ m.kind = "ack" /\ inbox' = Taken(n)
    BY <1>13 DEF onAck, Take
  <2>2. HeadHasACause(n)
    BY <2>1, HeadFacts
  <2>3. p \in ToLeader \X Conns /\ About(m, p)
    BY <2>1, <2>2 DEF HeadHasACause, About
  <2>4. \A q \in ToLeader \X Conns : q # p => stage'[q] = stage[q]
    BY <1>1, <1>13 DEF onAck
  <2> HIDE DEF p, m
  <2>5. \A q \in ToLeader \X Conns : stage'[q] = stage[q] \/ About(Head(inbox[n]), q)
    BY <2>3, <2>4 DEF m
  <2> QED
    BY <1>0, <2>1, <2>5, FitsTaken
<1>14. ASSUME NEW n \in Nodes, onLeaderConnectionOpen(n) \/ onLeaderConnectionClose(n) PROVE Fits(inbox')
  <2>1. PICK kind \in ToLeader, c \in Conns :
           TakeForLeader(n, kind, c) /\ inbox' = Acked(n, kind, c) /\ UNCHANGED stage
    BY <1>1, <1>14 DEF onLeaderConnectionOpen, onLeaderConnectionClose, publishing
  <2> QED
    BY <1>0, <2>1, TopicsWhenAcked
<1>15. ASSUME NEW n \in Nodes, onLeaderMessage(n) PROVE Fits(inbox')
  <2>1. PICK c \in Conns :
           /\ TakeForLeader(n, "lm", c) /\ UNCHANGED stage
           /\ \/ inbox' = Acked(n, "lm", c)
              \/ inbox' = Post(Acked(n, "lm", c), Home[c], [kind |-> "fm", conn |-> c])
    BY <1>15 DEF onLeaderMessage, publishing
  <2>2. Fits(Acked(n, "lm", c))
    BY <1>0, <1>1, <2>1, TopicsWhenAcked
  <2> QED
    BY <2>1, <2>2, TopicsWhenAnswering
<1>16. ASSUME NEW n \in Nodes, onFollowerMessage(n) \/ Lose(n) PROVE Fits(inbox')
  BY <1>4, <1>16 DEF onFollowerMessage, Lose, Take, publishing
<1>17. ASSUME NEW n \in Nodes, onFollowerConnectionClose(n) PROVE Fits(inbox')
  <2> DEFINE c == Head(inbox[n]).conn
  <2>1. inbox[n] # <<>> /\ inbox' = Taken(n) /\ UNCHANGED <<kicked, faults>>
    BY <1>17 DEF onFollowerConnectionClose, Take, actorVars
  <2>2. c \in Conns /\ c \in kicked
    BY <1>17, HeadFacts DEF onFollowerConnectionClose, Take, HeadHasACause
  <2>3. CASE ~Registered(c)
    BY <1>4, <1>17, <2>1, <2>3 DEF onFollowerConnectionClose
  <2>4. CASE Registered(c)
    <3>1. disconnect(c, TRUE) /\ relay[c] \in {"opening", "open", "failed"}
      BY <1>17, <2>4 DEF onFollowerConnectionClose, Registered
    <3>2. faults' = 0 => \A p \in ToLeader \X Conns :
             stage'[p] = stage[p] \/ Clear(inbox, p) \/ Waits(p)'
      BY <2>1, <2>2, <3>1, CloseStage
    <3> QED
      BY <1>0, <2>1, <3>2, FitsTaken
  <2> QED
    BY <2>3, <2>4
<1>18. ASSUME NEW n \in Nodes, Lease(n) \/ PeerStartThrows(n) PROVE Fits(inbox')
  BY <1>2, <1>18 DEF Quiet, Lease, PeerStartThrows, publishing
<1>19. ASSUME ActorLoaded \/ LeaderStops \/ leaseInvalid \/ UNCHANGED vars PROVE Fits(inbox')
  <2>1. UNCHANGED <<inbox, stage>>
    BY <1>19 DEF ActorLoaded, LeaderStops, leaseInvalid, vars, publishing
  <2> QED
    BY <1>2, <2>1 DEF Quiet
<1>20. ASSUME NEW n \in Nodes, Crash(n) PROVE Fits(inbox')
  <2>1. faults' # 0 /\ inbox' = [inbox EXCEPT ![n] = <<>>]
    BY <1>0, <1>20 DEF Crash
  <2>2. inbox' \in Boxes
    BY <1>1, <2>1 DEF Boxes
  <2>3. ASSUME NEW k \in Nodes, NEW i \in DOMAIN inbox'[k] PROVE inbox'[k][i] \in Caused
    <3>1. k # n /\ inbox'[k] = inbox[k]
      BY <1>1, <2>1 DEF Boxes
    <3>2. inbox[k][i] \in NodeMessages /\ HasACause(inbox[k][i])
      BY <1>1, <3>1 DEF Boxes, IInv, TopicsHaveACause
    <3> QED
      BY <3>1, <3>2, CausesLast DEF Caused
  <2> QED
    BY <2>1, <2>2, <2>3 DEF Fits
<1> QED
  BY <1>5, <1>6, <1>7, <1>8, <1>9, <1>10, <1>11, <1>12, <1>13, <1>14, <1>15, <1>16, <1>17, <1>18,
     <1>19,
     <1>20, <1>21, <1>22 DEF Next, Relay, Handle

-----------------------------------------------------------------------------
(* The opens after a step                                                     *)

NoMoreOpens(box) ==
    /\ box \in Boxes
    /\ \A c \in Conns : /\ IsFiniteSet(OpensIn(box, c))
                        /\ Cardinality(OpensIn(box, c)) <= Cardinality(OpensIn(inbox, c))

(* Taking a message adds no open.                                             *)
LEMMA OpensBefore ==
    ASSUME IInv
    PROVE  /\ NoMoreOpens(inbox)
           /\ \A n \in Nodes : inbox[n] # <<>> => NoMoreOpens(Taken(n))
<1>1. inbox \in Boxes
  BY DEF IInv, TypeOK, Boxes
<1>2. \A c \in Conns : IsFiniteSet(OpensIn(inbox, c)) /\ Cardinality(OpensIn(inbox, c)) \in Nat
  BY FS_CardinalityType DEF IInv, OpensAreAttempts
<1> QED
  BY <1>1, <1>2, OpensTaken, TakenPlaces DEF NoMoreOpens

(* A message that is not an open adds none.                                   *)
LEMMA OpensNotPosted ==
    ASSUME NEW box, NoMoreOpens(box), NEW n \in Nodes, NEW m \in NodeMessages, m.kind # "lco"
    PROVE  NoMoreOpens(Post(box, n, m))
BY OpensPost, PostPlaces DEF NoMoreOpens

(* createConn, onLeaderMessage and conn.disconnect post what is not an open.  *)
LEMMA OpensNotAnswered ==
    ASSUME NEW box, NoMoreOpens(box), NEW c \in Conns, NEW kind \in {"fm", "fcc"}
    PROVE  NoMoreOpens(Post(box, Home[c], [kind |-> kind, conn |-> c]))
<1>1. [kind |-> kind, conn |-> c] \in NodeMessages /\ Home[c] \in Nodes
  BY ConstantsAssumption DEF ConstantsAssumption, NodeMessages
<1> QED
  BY <1>1, OpensNotPosted

(* Taking, noting and acking a message adds no open.                          *)
LEMMA OpensNotAcked ==
    ASSUME IInv, NEW n \in Nodes, NEW kind \in ToLeader, NEW c \in Conns, TakeForLeader(n, kind, c)
    PROVE  NoMoreOpens(Acked(n, kind, c))
<1>1. NoMoreOpens(Taken(n))
  BY OpensBefore DEF TakeForLeader, Take
<1>2. [kind |-> "ack", conn |-> c, of |-> kind] \in NodeMessages /\ Home[c] \in Nodes
  BY ConstantsAssumption, MessageTypes DEF ConstantsAssumption
<1> QED
  BY <1>1, <1>2, OpensNotPosted DEF Acked

(* A node that crashes loses its topic.                                       *)
LEMMA OpensCrash ==
    ASSUME IInv, NEW n \in Nodes, NEW box, box = [inbox EXCEPT ![n] = <<>>]
    PROVE  NoMoreOpens(box)
<1>1. inbox \in Boxes /\ box \in Boxes
  BY DEF IInv, TypeOK, Boxes
<1>2. ASSUME NEW c \in Conns
      PROVE  /\ IsFiniteSet(OpensIn(box, c))
             /\ Cardinality(OpensIn(box, c)) <= Cardinality(OpensIn(inbox, c))
  <2>1. \A k \in Nodes : box[k] = IF k = n THEN <<>> ELSE inbox[k]
    BY <1>1 DEF Boxes
  <2>2. /\ \A q : q \in OpensIn(box, c) <=> \E k \in Nodes, i \in Nat :
              /\ q = <<k, i>> /\ i \in DOMAIN box[k]
              /\ box[k][i].kind = "lco" /\ box[k][i].conn = c
        /\ \A q : q \in OpensIn(inbox, c) <=> \E k \in Nodes, i \in Nat :
              /\ q = <<k, i>> /\ i \in DOMAIN inbox[k]
              /\ inbox[k][i].kind = "lco" /\ inbox[k][i].conn = c
    BY <1>1, OpensMember
  <2>3. ASSUME NEW q, q \in OpensIn(box, c) PROVE q \in OpensIn(inbox, c)
    <3>1. PICK k \in Nodes, i \in Nat : /\ q = <<k, i>> /\ i \in DOMAIN box[k]
                                        /\ box[k][i].kind = "lco" /\ box[k][i].conn = c
      BY <2>2, <2>3, Zenon
    <3>2. box[k] = inbox[k]
      BY <2>1, <3>1
    <3>3. /\ q = <<k, i>> /\ i \in DOMAIN inbox[k]
          /\ inbox[k][i].kind = "lco" /\ inbox[k][i].conn = c
      BY <3>1, <3>2
    <3>4. \E l \in Nodes, j \in Nat :
              /\ q = <<l, j>> /\ j \in DOMAIN inbox[l]
              /\ inbox[l][j].kind = "lco" /\ inbox[l][j].conn = c
      BY <3>3
    <3> QED
      BY <2>2, <3>4
  <2>4. OpensIn(box, c) \subseteq OpensIn(inbox, c)
    BY <2>3
  <2> QED
    BY <2>4, FS_Subset DEF IInv, OpensAreAttempts
<1> QED
  BY <1>1, <1>2 DEF NoMoreOpens

(* Every action keeps the opens within the attempts.                          *)
LEMMA OpensStep ==
    ASSUME IInv, [Next]_vars
    PROVE  OpensAreAttempts' /\ opening' \in [Conns -> Nat]
<1> DEFINE Fewer == /\ NoMoreOpens(inbox') /\ attempts' = attempts
                    /\ opening' \in [Conns -> Nat] /\ \A c \in Conns : opening'[c] <= opening[c]
           Good == OpensAreAttempts' /\ opening' \in [Conns -> Nat]
<1>1. /\ opening \in [Conns -> Nat] /\ attempts \in [ToLeader \X Conns -> Nat]
      /\ \A c \in Conns : <<"lco", c>> \in ToLeader \X Conns
      /\ {"lco", "lcc", "lm"} \subseteq ToLeader
  BY ConstantsAssumption DEF ConstantsAssumption, IInv, TypeOK, ToLeader
<1>2. /\ NoMoreOpens(inbox) /\ \A n \in Nodes : inbox[n] # <<>> => NoMoreOpens(Taken(n))
  BY OpensBefore
<1>3. \A c \in Conns : /\ Cardinality(OpensIn(inbox, c)) \in Nat
                       /\ opening[c] + Cardinality(OpensIn(inbox, c)) <= attempts[<<"lco", c>>]
  <2>1. ASSUME NEW c \in Conns
        PROVE  /\ IsFiniteSet(OpensIn(inbox, c))
               /\ opening[c] + Cardinality(OpensIn(inbox, c)) <= attempts[<<"lco", c>>]
    BY DEF IInv, OpensAreAttempts
  <2>2. \A c \in Conns : Cardinality(OpensIn(inbox, c)) \in Nat
    BY <2>1, FS_CardinalityType
  <2> QED
    BY <2>1, <2>2, Zenon
<1>4. ASSUME Fewer PROVE Good
  <2> SUFFICES ASSUME NEW c \in Conns
               PROVE  /\ IsFiniteSet(OpensIn(inbox', c))
                      /\ opening'[c] + Cardinality(OpensIn(inbox', c)) <= attempts'[<<"lco", c>>]
    BY <1>4 DEF OpensAreAttempts
  <2>1. IsFiniteSet(OpensIn(inbox', c)) /\ Cardinality(OpensIn(inbox', c)) <= Cardinality(OpensIn(inbox, c))
    BY <1>4 DEF NoMoreOpens
  <2>2. Cardinality(OpensIn(inbox', c)) \in Nat
    BY <2>1, FS_CardinalityType
  <2>3. opening'[c] \in Nat /\ opening'[c] <= opening[c] /\ opening[c] \in Nat
        /\ attempts'[<<"lco", c>>] = attempts[<<"lco", c>>] /\ attempts[<<"lco", c>>] \in Nat
    BY <1>1, <1>4
  <2> QED
    BY <1>3, <2>1, <2>2, <2>3
<1>5. ASSUME opening' = opening, attempts' = attempts, NoMoreOpens(inbox') PROVE Good
  BY <1>1, <1>4, <1>5
<1> HIDE DEF Fewer, Good
<1>6. ASSUME NEW p \in ToLeader \X Conns, publishMessageToLeaderInner(p) PROVE Good
  <2> DEFINE m == [kind |-> p[1], conn |-> p[2]]
  <2>1. opening' = opening /\ attempts' = [attempts EXCEPT ![p] = @ + 1]
    BY <1>6 DEF publishMessageToLeaderInner, actorVars
  <2>2. p[1] \in ToLeader /\ p[2] \in Conns /\ p = <<p[1], p[2]>>
    OBVIOUS
  <2>3. m \in NodeMessages
    BY <2>2, MessageTypes
  <2>4. \A c \in Conns : m.kind = "lco" /\ m.conn = c => p = <<"lco", c>>
    BY <2>2
  <2>5. /\ lease = None => inbox' = inbox
        /\ lease # None => lease \in Nodes /\ inbox' = Post(inbox, lease, m)
    BY <1>6 DEF publishMessageToLeaderInner, Post, IInv, TypeOK
  <2> HIDE DEF m
  <2>6. ASSUME NEW c \in Conns
        PROVE  /\ IsFiniteSet(OpensIn(inbox', c))
               /\ opening'[c] + Cardinality(OpensIn(inbox', c)) <= attempts'[<<"lco", c>>]
    <3>1. IsFiniteSet(OpensIn(inbox, c)) /\ inbox \in Boxes
      BY <1>2 DEF NoMoreOpens
    <3>2. IsFiniteSet(OpensIn(inbox', c))
          /\ \/ Cardinality(OpensIn(inbox', c)) = Cardinality(OpensIn(inbox, c))
             \/ /\ Cardinality(OpensIn(inbox', c)) = Cardinality(OpensIn(inbox, c)) + 1
                /\ p = <<"lco", c>>
      BY <2>3, <2>4, <2>5, <3>1, OpensPost
    <3>3. attempts'[<<"lco", c>>] = IF p = <<"lco", c>> THEN attempts[<<"lco", c>>] + 1
                                                       ELSE attempts[<<"lco", c>>]
      BY <1>1, <2>1
    <3>4. opening'[c] = opening[c] /\ opening[c] \in Nat /\ attempts[<<"lco", c>>] \in Nat
      BY <1>1, <2>1
    <3> QED
      BY <1>3, <3>2, <3>3, <3>4
  <2> QED
    BY <1>1, <2>1, <2>6 DEF Good, OpensAreAttempts
<1>19. ASSUME NEW c \in Conns, publishAfterAbort(c) PROVE Good
  <2> DEFINE m == [kind |-> "lco", conn |-> c]
  <2>1. opening' = opening /\ attempts' = [attempts EXCEPT ![<<"lco", c>>] = @ + 1]
    BY <1>19 DEF publishAfterAbort, actorVars
  <2>2. m \in NodeMessages /\ <<"lco", c>> \in ToLeader \X Conns
    BY MessageTypes DEF ToLeader
  <2>3. /\ lease = None => inbox' = inbox
        /\ lease # None => lease \in Nodes /\ inbox' = Post(inbox, lease, m)
    BY <1>19 DEF publishAfterAbort, IInv, TypeOK
  <2>4. m.kind = "lco" /\ m.conn = c
    OBVIOUS
  <2> HIDE DEF m
  <2>5. ASSUME NEW d \in Conns
        PROVE  /\ IsFiniteSet(OpensIn(inbox', d))
               /\ opening'[d] + Cardinality(OpensIn(inbox', d)) <= attempts'[<<"lco", d>>]
    <3>1. IsFiniteSet(OpensIn(inbox, d)) /\ inbox \in Boxes
      BY <1>2 DEF NoMoreOpens
    <3>2. IsFiniteSet(OpensIn(inbox', d))
          /\ \/ Cardinality(OpensIn(inbox', d)) = Cardinality(OpensIn(inbox, d))
             \/ /\ Cardinality(OpensIn(inbox', d)) = Cardinality(OpensIn(inbox, d)) + 1
                /\ d = c
      BY <2>2, <2>3, <2>4, <3>1, OpensPost
    <3>3. attempts'[<<"lco", d>>] = IF d = c THEN attempts[<<"lco", d>>] + 1 ELSE attempts[<<"lco", d>>]
      BY <1>1, <2>1
    <3>4. opening'[d] = opening[d] /\ opening[d] \in Nat /\ attempts[<<"lco", d>>] \in Nat
      BY <1>1, <2>1
    <3> QED
      BY <1>3, <3>2, <3>3, <3>4
  <2> QED
    BY <1>1, <2>1, <2>5 DEF Good, OpensAreAttempts
<1>7. ASSUME NEW n \in Nodes, onLeaderConnectionOpen(n) PROVE Good
  <2>1. PICK c \in Conns :
           /\ TakeForLeader(n, "lco", c) /\ inbox' = Acked(n, "lco", c) /\ attempts' = attempts
           /\ opening' = [opening EXCEPT ![c] = IF serving = n THEN @ + 1 ELSE @]
    BY <1>7 DEF onLeaderConnectionOpen, publishing
  <2>2. /\ inbox[n] # <<>> /\ Head(inbox[n]).kind = "lco" /\ Head(inbox[n]).conn = c
    BY <2>1 DEF TakeForLeader, Take
  <2>3. NoMoreOpens(inbox')
    BY <1>1, <2>1, OpensNotAcked
  <2>4. opening' \in [Conns -> Nat]
    BY <1>1, <2>1
  <2>5. ASSUME NEW d \in Conns, d # c
        PROVE  /\ IsFiniteSet(OpensIn(inbox', d))
               /\ opening'[d] + Cardinality(OpensIn(inbox', d)) <= attempts'[<<"lco", d>>]
    <3>1. IsFiniteSet(OpensIn(inbox', d)) /\ Cardinality(OpensIn(inbox', d)) <= Cardinality(OpensIn(inbox, d))
      BY <2>3 DEF NoMoreOpens
    <3>2. Cardinality(OpensIn(inbox', d)) \in Nat
      BY <3>1, FS_CardinalityType
    <3>3. opening'[d] = opening[d] /\ opening[d] \in Nat
          /\ attempts'[<<"lco", d>>] = attempts[<<"lco", d>>] /\ attempts[<<"lco", d>>] \in Nat
      BY <1>1, <2>1, <2>5
    <3> QED
      BY <1>3, <3>1, <3>2, <3>3
  <2>6. /\ IsFiniteSet(OpensIn(inbox', c))
        /\ opening'[c] + Cardinality(OpensIn(inbox', c)) <= attempts'[<<"lco", c>>]
    <3> DEFINE m == [kind |-> "ack", conn |-> c, of |-> "lco"]
    <3>1. inbox \in Boxes /\ IsFiniteSet(OpensIn(inbox, c))
      BY <1>2 DEF NoMoreOpens
    <3>2. Taken(n) \in Boxes /\ IsFiniteSet(OpensIn(Taken(n), c))
          /\ Cardinality(OpensIn(Taken(n), c)) <= Cardinality(OpensIn(inbox, c)) - 1
      BY <2>2, <3>1, OpensTaken, TakenPlaces
    <3>3. m \in NodeMessages /\ Home[c] \in Nodes /\ m.kind # "lco"
      BY <1>1, ConstantsAssumption, MessageTypes DEF ConstantsAssumption
    <3>4. inbox' = Post(Taken(n), Home[c], m)
      BY <2>1 DEF Acked
    <3> HIDE DEF m
    <3>5. IsFiniteSet(OpensIn(inbox', c))
          /\ Cardinality(OpensIn(inbox', c)) = Cardinality(OpensIn(Taken(n), c))
      BY <3>2, <3>3, <3>4, OpensPost
    <3>6. Cardinality(OpensIn(inbox', c)) \in Nat
      BY <3>5, FS_CardinalityType
    <3>7. opening'[c] \in {opening[c], opening[c] + 1} /\ opening[c] \in Nat
          /\ attempts'[<<"lco", c>>] = attempts[<<"lco", c>>] /\ attempts[<<"lco", c>>] \in Nat
      BY <1>1, <2>1
    <3> QED
      BY <1>3, <3>2, <3>5, <3>6, <3>7
  <2> QED
    BY <2>4, <2>5, <2>6 DEF Good, OpensAreAttempts
<1>8. ASSUME NEW p \in ToLeader \X Conns, ackTimeout(p) \/ actorNotInitialized(p) PROVE Good
  BY <1>2, <1>5, <1>8 DEF ackTimeout, actorNotInitialized, actorVars
<1>9. ASSUME NEW c \in Conns,
             \/ onOpen(c) \/ acquireThrows(c) \/ ClientCloses(c) \/ Relay(c) \/ onMessage(c) \/ onConnMessage(c)
      PROVE  Good
  <2>1. UNCHANGED <<inbox, opening, attempts>>
    BY <1>9 DEF actorVars, publishing, onOpen, acquireThrows, ClientCloses, Relay, start, startEnds,
       onClose, disconnectThrows, disconnectEnds, onMessage, onConnMessage, Send
  <2> QED
    BY <1>2, <1>5, <2>1
<1>10. ASSUME NEW c \in Conns, createConn(c) \/ prepareConnFails(c) PROVE Good
  <2>1. /\ attempts' = attempts /\ opening[c] > 0 /\ opening' = [opening EXCEPT ![c] = @ - 1]
        /\ inbox' = inbox \/ inbox' = Post(inbox, Home[c], [kind |-> "fm", conn |-> c])
    BY <1>10 DEF createConn, prepareConnFails, publishing
  <2>2. NoMoreOpens(inbox')
    BY <1>2, <2>1, OpensNotAnswered
  <2>3. opening' \in [Conns -> Nat] /\ \A d \in Conns : opening'[d] <= opening[d]
    BY <1>1, <2>1
  <2> QED
    BY <1>4, <2>1, <2>2, <2>3 DEF Fewer
<1>11. ASSUME NEW c \in Conns, relayDriverDisconnect(c) PROVE Good
  BY <1>2, <1>5, <1>11, OpensNotAnswered DEF relayDriverDisconnect, publishing
<1>12. ASSUME NEW n \in Nodes, onLeaderConnectionClose(n) PROVE Good
  BY <1>1, <1>5, <1>12, OpensNotAcked DEF onLeaderConnectionClose, publishing
<1>13. ASSUME NEW n \in Nodes, onLeaderMessage(n) PROVE Good
  <2>1. PICK c \in Conns :
           /\ TakeForLeader(n, "lm", c) /\ UNCHANGED <<opening, attempts>>
           /\ \/ inbox' = Acked(n, "lm", c)
              \/ inbox' = Post(Acked(n, "lm", c), Home[c], [kind |-> "fm", conn |-> c])
    BY <1>13 DEF onLeaderMessage, publishing, actorVars
  <2>2. NoMoreOpens(Acked(n, "lm", c))
    BY <1>1, <2>1, OpensNotAcked
  <2> QED
    BY <1>5, <2>1, <2>2, OpensNotAnswered
<1>14. ASSUME NEW n \in Nodes, onAck(n) \/ onFollowerMessage(n) \/ onFollowerConnectionClose(n) \/ Lose(n)
       PROVE  Good
  <2>1. inbox[n] # <<>> /\ inbox' = Taken(n) /\ UNCHANGED <<opening, attempts>>
    BY <1>14 DEF onAck, onFollowerMessage, onFollowerConnectionClose, Lose, Take, publishing,
       actorVars
  <2> QED
    BY <1>2, <1>5, <2>1
<1>15. ASSUME (\E n \in Nodes : Lease(n) \/ PeerStartThrows(n)) \/ ActorLoaded \/ UNCHANGED vars
       PROVE  Good
  <2>1. UNCHANGED <<inbox, opening, attempts>>
    BY <1>15 DEF Lease, PeerStartThrows, ActorLoaded, vars, publishing, actorVars
  <2> QED
    BY <1>2, <1>5, <2>1
<1>16. ASSUME LeaderStops \/ leaseInvalid PROVE Good
  <2>1. UNCHANGED <<inbox, attempts>> /\ opening' = [c \in Conns |-> 0]
    BY <1>16 DEF LeaderStops, leaseInvalid, publishing
  <2> QED
    BY <1>1, <1>2, <1>4, <2>1 DEF Fewer
<1>17. ASSUME NEW n \in Nodes, Crash(n) PROVE Good
  <2>1. /\ inbox' = [inbox EXCEPT ![n] = <<>>] /\ attempts' = attempts
        /\ opening' = opening \/ opening' = [c \in Conns |-> 0]
    BY <1>17 DEF Crash
  <2>2. NoMoreOpens(inbox')
    BY <2>1, OpensCrash
  <2>3. opening' \in [Conns -> Nat] /\ \A c \in Conns : opening'[c] <= opening[c]
    BY <1>1, <2>1
  <2> QED
    BY <1>4, <2>1, <2>2, <2>3 DEF Fewer
<1>18. Good
  BY <1>6, <1>7, <1>8, <1>9, <1>10, <1>11, <1>12, <1>13, <1>14, <1>15, <1>16, <1>17, <1>19
  DEF Next, Handle
<1> QED
  BY <1>18 DEF Good

-----------------------------------------------------------------------------
(* The invariant                                                              *)

(* The invariant holds at first.                                              *)
LEMMA InitHolds == Init => IInv
<1> SUFFICES ASSUME Init PROVE IInv
  OBVIOUS
<1> USE ConstantsAssumption DEF Init, ConstantsAssumption
<1>1. \A n \in Nodes : inbox[n] = <<>> /\ DOMAIN inbox[n] = {}
  OBVIOUS
<1>2. inbox \in [Nodes -> Seq(NodeMessages)]
  OBVIOUS
<1>3. TypeOK
  BY <1>2 DEF TypeOK, Stages
<1>4. AttemptsFit /\ RelayInStep /\ ReceivedWasPublished /\ ClosedIsGone
  BY DEF AttemptsFit, RelayInStep, ReceivedWasPublished, ClosedIsGone, ToLeader
<1>5. OpensAreAttempts
  <2>1. \A c \in Conns : OpensIn(inbox, c) = {}
    BY <1>1 DEF OpensIn
  <2>2. \A c \in Conns : opening[c] = 0 /\ attempts[<<"lco", c>>] = 0
    BY DEF ToLeader
  <2>3. IsFiniteSet({}) /\ Cardinality({}) = 0
    BY FS_EmptySet
  <2> HIDE DEF Init
  <2>4. ASSUME NEW c \in Conns
        PROVE  /\ IsFiniteSet(OpensIn(inbox, c))
               /\ opening[c] + Cardinality(OpensIn(inbox, c)) <= attempts[<<"lco", c>>]
    <3>1. OpensIn(inbox, c) = {} /\ opening[c] = 0 /\ attempts[<<"lco", c>>] = 0
      BY <2>1, <2>2
    <3> QED
      BY <2>3, <3>1
  <2> QED
    BY <2>4, Zenon DEF OpensAreAttempts
<1>6. TopicsHaveACause
  BY <1>1 DEF TopicsHaveACause
<1>7. OneUnderWay
  BY <1>1 DEF OneUnderWay, Single, Clear
<1> QED
  BY <1>3, <1>4, <1>5, <1>6, <1>7 DEF IInv

(* Every step keeps the invariant.                                            *)
LEMMA StepHolds == IInv /\ [Next]_vars => IInv'
<1> SUFFICES ASSUME IInv, [Next]_vars PROVE IInv'
  OBVIOUS
<1>1. FlatTypes' /\ AttemptsFit' /\ RelayInStep' /\ ReceivedWasPublished' /\ ClosedIsGone'
  BY FlatStep
<1>2. inbox' \in Boxes /\ TopicsHaveACause' /\ OneUnderWay'
  BY TopicStep, FitsAfter
<1>3. OpensAreAttempts' /\ opening' \in [Conns -> Nat]
  BY OpensStep
<1>4. faults' \in 0..MaxFaults
  BY FaultsCount DEF IInv, TypeOK
<1>5. opening' \in [Conns -> 0..(Retries + 1)]
  <2>1. ASSUME NEW c \in Conns PROVE opening'[c] \in 0..(Retries + 1)
    <3>1. IsFiniteSet(OpensIn(inbox', c))
          /\ opening'[c] + Cardinality(OpensIn(inbox', c)) <= attempts'[<<"lco", c>>]
      BY <1>3 DEF OpensAreAttempts
    <3>2. Cardinality(OpensIn(inbox', c)) \in Nat
      BY <3>1, FS_CardinalityType
    <3>3. attempts'[<<"lco", c>>] \in 0..(Retries + 1)
      BY <1>1 DEF FlatTypes, ToLeader
    <3>4. opening'[c] \in Nat
      BY <1>3
    <3> QED
      BY <3>1, <3>2, <3>3, <3>4, ConstantsAssumption DEF ConstantsAssumption
  <2> QED
    BY <1>3, <2>1
<1>6. TypeOK'
  BY <1>1, <1>2, <1>4, <1>5 DEF TypeOK, FlatTypes, Boxes
<1> QED
  BY <1>1, <1>2, <1>3, <1>6 DEF IInv

(* For any nodes, connections, retries and faults: the invariant holds in     *)
(* every state of the relays, topics and leaders.                             *)
THEOREM InvariantHolds == Spec => []IInv
<1> QED
  BY InitHolds, StepHolds, PTL DEF Spec

(* A publish is acked only when a node has received its own message, and      *)
(* connection-open handlers never outnumber the attempts to publish the open, *)
(* whatever is retried, lost, late or crashes.                                *)
THEOREM AckedIsReceived == Spec => []AckedWasReceived
<1>1. IInv => AckedWasReceived
  BY DEF IInv, AckedWasReceived, ReceivedWasPublished
<1> QED
  BY <1>1, InvariantHolds, PTL

(* A connection outlives its relay in the actor only for one of the four      *)
(* causes.                                                                    *)
THEOREM GhostsAreExplained == Spec => []GhostsHaveACause
<1>1. IInv => GhostsHaveACause
  <2> SUFFICES ASSUME IInv, NEW c \in conns, relay[c] = "closed", faults = 0, c \notin kicked \cup slipped
               PROVE  stage[<<"lcc", c>>] = "failed"
    BY DEF GhostsHaveACause, IInv, TypeOK
  <2>1. c \in Conns /\ <<"lcc", c>> \in ToLeader \X Conns
    BY DEF IInv, TypeOK, ToLeader
  <2>2. stage[<<"lcc", c>>] \in {"acked", "failed"}
    BY <2>1 DEF IInv, RelayInStep
  <2>3. <<"lcc", c>> \notin received
    BY <2>1 DEF IInv, ClosedIsGone
  <2> QED
    BY <2>1, <2>2, <2>3 DEF IInv, ReceivedWasPublished
<1> QED
  BY <1>1, InvariantHolds, PTL

(* A leader stops for want of references only when no relay that referred to  *)
(* its peer is still publishing its close.                                    *)
THEOREM ClosesComeFirst == Spec => NotStoppedBeforeClose
<1>1. ASSUME IInv, [Next]_vars, serving # None, serving' = None, faults' = faults
      PROVE  \A c \in At(serving) \ stale : stage[<<"lcc", c>>] \notin {"trying", "waiting"}
  <2>1. faults \in Nat /\ ~Fault
    BY <1>1, ConstantsAssumption DEF ConstantsAssumption, IInv, TypeOK, Fault
  <2>2. LeaderStops
    <3>1. serving' # serving
      BY <1>1
    <3>2. (\A n \in Nodes : ~Crash(n) /\ ~PeerStartThrows(n)) /\ ~leaseInvalid
      BY <2>1 DEF Crash, PeerStartThrows, leaseInvalid
    <3>3. ~ActorLoaded
      BY <1>1 DEF ActorLoaded
    <3>4. ASSUME NEW p \in ToLeader \X Conns
          PROVE  ~(publishMessageToLeaderInner(p) \/ ackTimeout(p) \/ actorNotInitialized(p))
      BY <3>1 DEF publishMessageToLeaderInner, ackTimeout, actorNotInitialized, leading
    <3>5. ASSUME NEW c \in Conns
          PROVE  ~(\/ onOpen(c) \/ acquireThrows(c) \/ ClientCloses(c) \/ Relay(c) \/ onMessage(c)
                   \/ onConnMessage(c) \/ createConn(c) \/ prepareConnFails(c) \/ relayDriverDisconnect(c)
                   \/ publishAfterAbort(c))
      BY <3>1 DEF leading, onOpen, acquireThrows, ClientCloses, Relay, start, startEnds, onClose,
         disconnectThrows, disconnectEnds, onMessage, onConnMessage, Send, createConn,
         prepareConnFails,
         relayDriverDisconnect, publishAfterAbort
    <3>6. ASSUME NEW n \in Nodes PROVE ~(Handle(n) \/ Lease(n) \/ Lose(n))
      BY <3>1 DEF leading, Handle, onAck, onLeaderConnectionOpen, onLeaderConnectionClose,
         onLeaderMessage,
         onFollowerMessage, onFollowerConnectionClose, Lease, Lose
    <3>7. ~ UNCHANGED vars
      BY <3>1 DEF vars, leading
    <3> QED
      BY <1>1, <3>2, <3>3, <3>4, <3>5, <3>6, <3>7 DEF Next
  <2>3. \A c \in At(serving) : c \notin refs
    BY <1>1, <2>2 DEF LeaderStops, IInv, TypeOK
  <2>4. SUFFICES ASSUME NEW c \in At(serving) \ stale PROVE stage[<<"lcc", c>>] \notin {"trying", "waiting"}
    BY Zenon
  <2>5. c \in Conns /\ c \notin refs \cup stale
    BY <2>3 DEF At
  <2> QED
    BY <1>1, <2>5 DEF IInv, RelayInStep
<1> QED
  BY <1>1, InvariantHolds, PTL DEF Spec, NotStoppedBeforeClose
=============================================================================
