------------------------- MODULE ActorScheduleProofs -------------------------
(* Proofs about ActorSchedule, for any number of events, instants and crashes *)
(* and both kinds of driver.                                                  *)
EXTENDS ActorSchedule, WellFoundedInduction, SequenceTheorems, FiniteSetTheorems, TLAPS

-----------------------------------------------------------------------------
(* Facts about the operators                                                  *)

(* A set of numbers that is not empty has a least element.                    *)
LEMMA LeastOfNat ==
    ASSUME NEW S \in SUBSET Nat, S # {}
    PROVE  Min(S) \in S /\ \A y \in S : Min(S) <= y
<1> DEFINE less == OpToRel(<, Nat)
<1>1. \E x \in S : \A y \in S : <<y, x>> \notin less
  BY WFMin, NatLessThanWellFounded, Zenon
<1>2. less = {p \in Nat \X Nat : p[1] < p[2]}
  BY DEF OpToRel
<1> HIDE DEF less
<1>3. PICK x \in S : \A y \in S : <<y, x>> \notin less
  BY <1>1
<1>4. ASSUME NEW y \in S PROVE x <= y
  <2>1. <<y, x>> \in Nat \X Nat
    BY <1>3
  <2>2. ~(y < x)
    <3>1. SUFFICES ASSUME y < x PROVE FALSE
      OBVIOUS
    <3>2. <<y, x>>[1] < <<y, x>>[2]
      BY <3>1
    <3> QED
      BY <1>2, <1>3, <2>1, <3>2, Zenon
  <2> QED
    BY <2>2, <1>3
<1> QED
  BY <1>4 DEF Min

(* InsertAt puts one element in, and moves those behind it.                   *)
LEMMA InsertAtElements ==
    ASSUME NEW s \in Seq(Events), NEW x \in Events, NEW p \in 1..(Len(s) + 1)
    PROVE  /\ InsertAt(s, p, x) \in Seq(Events)
           /\ Len(InsertAt(s, p, x)) = Len(s) + 1
           /\ \A k \in 1..(Len(s) + 1) :
                 InsertAt(s, p, x)[k] = IF k < p THEN s[k] ELSE IF k = p THEN x ELSE s[k - 1]
<1> DEFINE before == SubSeq(s, 1, p - 1)
           after == SubSeq(s, p, Len(s))
           front == before \o <<x>>
<1>1. /\ before \in Seq(Events) /\ Len(before) = p - 1
      /\ \A k \in 1..(p - 1) : before[k] = s[k]
  OBVIOUS
<1>2. /\ after \in Seq(Events) /\ Len(after) = Len(s) - p + 1
      /\ \A k \in 1..(Len(s) - p + 1) : after[k] = s[p + k - 1]
  OBVIOUS
<1>3. InsertAt(s, p, x) = front \o after
  BY DEF InsertAt
<1>4. <<x>> \in Seq(Events) /\ Len(<<x>>) = 1 /\ <<x>>[1] = x
  OBVIOUS
<1> HIDE DEF before, after
<1>5. /\ front \in Seq(Events) /\ Len(front) = p
      /\ \A k \in 1..p : front[k] = IF k < p THEN s[k] ELSE x
  BY <1>1, <1>4
<1> HIDE DEF front
<1>6. /\ front \o after \in Seq(Events) /\ Len(front \o after) = Len(s) + 1
      /\ \A k \in 1..(Len(s) + 1) :
            (front \o after)[k] = IF k <= p THEN front[k] ELSE after[k - p]
  BY <1>2, <1>5, ConcatProperties
<1>7. ASSUME NEW k \in 1..(Len(s) + 1)
      PROVE  (front \o after)[k] = IF k < p THEN s[k] ELSE IF k = p THEN x ELSE s[k - 1]
  <2>1. CASE k <= p
    BY <2>1, <1>5, <1>6
  <2>2. CASE ~(k <= p)
    <3>1. k > p /\ k - p \in 1..(Len(s) - p + 1) /\ p + (k - p) - 1 = k - 1
      BY <2>2
    <3> QED
      BY <3>1, <1>2, <1>6
  <2> QED
    BY <2>1, <2>2
<1> QED
  BY <1>3, <1>6, <1>7

(* What a list of events holds.                                               *)
LEMMA EventTypes ==
    ASSUME NEW s \in Seq(Events)
    PROVE  /\ Len(s) \in Nat
           /\ \A k \in 1..Len(s) : s[k] \in Events /\ s[k].id \in 1..MaxEvents /\ s[k].t \in Times
<1>1. \A k \in 1..Len(s) : s[k] \in Events
  OBVIOUS
<1>2. \A v \in Events : v.id \in 1..MaxEvents /\ v.t \in Times
  BY DEF Events
<1> QED
  BY <1>1, <1>2

(* What the list of the actor holds.                                          *)
LEMMA ListTypes ==
    ASSUME TypeOK
    PROVE  /\ e \in Seq(Events) /\ now \in Nat /\ Times \subseteq Nat
           /\ \A k \in 1..Len(e) : e[k] \in Events /\ e[k].id \in 1..MaxEvents /\ e[k].t \in Times
<1>1. e \in Seq(Events) /\ now \in Times /\ Times \subseteq Nat
  BY ConstantsAssumption DEF ConstantsAssumption, TypeOK, Times
<1>2. \A k \in 1..Len(e) : e[k] \in Events
  BY <1>1
<1>3. \A v \in Events : v.id \in 1..MaxEvents /\ v.t \in Times
  BY DEF Events
<1> QED
  BY <1>1, <1>2, <1>3

(* scheduleEvent inserts behind every event that is not later, before one     *)
(* that is.                                                                   *)
LEMMA PositionIsBeforeLater ==
    ASSUME TypeOK, NEW t \in Times
    PROVE  /\ Position(t) \in 1..(Len(e) + 1)
           /\ \A k \in 1..(Position(t) - 1) : e[k].t <= t
           /\ Position(t) <= Len(e) => e[Position(t)].t > t
<1> DEFINE later == {k \in 1..Len(e) : e[k].t > t}
<1>1. e \in Seq(Events) /\ t \in Nat /\ \A k \in 1..Len(e) : e[k].t \in Nat
  BY ListTypes
<1>2. CASE later = {}
  <2>1. Position(t) = Len(e) + 1
    BY <1>2 DEF Position, SelectInSeq
  <2> QED
    BY <1>1, <1>2, <2>1
<1>3. CASE later # {}
  <2>0. later \in SUBSET Nat /\ \A k : k \in later <=> k \in 1..Len(e) /\ e[k].t > t
    BY <1>1
  <2>2. Position(t) = IF Min(later) = 0 THEN Len(e) + 1 ELSE Min(later)
    BY <1>3 DEF Position, SelectInSeq
  <2> HIDE DEF later
  <2>1. Min(later) \in later /\ \A k \in later : Min(later) <= k
    BY <1>3, <2>0, LeastOfNat
  <2>3. Position(t) = Min(later)
    BY <2>0, <2>1, <2>2
  <2> QED
    BY <1>1, <2>0, <2>1, <2>3
<1> QED
  BY <1>2, <1>3

(* What onAlarm splices off an ordered list is its head, if that is due.      *)
LEMMA RunnableIsHead ==
    ASSUME TypeOK, WellFormed(e)
    PROVE  Runnable = IF e # <<>> /\ e[1].t <= now THEN <<e[1]>> ELSE <<>>
<1> DEFINE due == {k \in 1..Len(e) : e[k].t <= now}
<1>1. e \in Seq(Events) /\ now \in Nat /\ \A k \in 1..Len(e) : e[k].t \in Nat
  BY ListTypes
<1>3. (e # <<>>) = (Len(e) > 0) /\ Len(e) \in Nat
  BY <1>1
<1>4. CASE due = {}
  <2>1. Runnable = SubSeq(e, 1, 0)
    BY <1>4 DEF Runnable, SelectInSeq
  <2>2. SubSeq(e, 1, 0) = <<>>
    BY <1>1
  <2>3. e = <<>> \/ 1 \in 1..Len(e) \ due
    BY <1>3, <1>4
  <2> QED
    BY <2>1, <2>2, <2>3
<1>5. CASE due # {}
  <2>0. due \in SUBSET Nat /\ \A k : k \in due <=> k \in 1..Len(e) /\ e[k].t <= now
    BY <1>1
  <2>4. Runnable = SubSeq(e, 1, Min(due))
    BY <1>5 DEF Runnable, SelectInSeq
  <2> HIDE DEF due
  <2>1. \A k \in due : k = 1 \/ Before(e[1], e[k])
    BY <1>1, <1>3, <2>0 DEF WellFormed
  <2>2. 1 \in due
    BY <1>1, <1>3, <1>5, <2>0, <2>1 DEF Before
  <2>3. Min(due) = 1
    BY <1>5, <2>0, <2>2, LeastOfNat
  <2>5. SubSeq(e, 1, 1) = <<e[1]>>
    <3>1. 1 \in 1..Len(e) /\ SubSeq(e, 2, 1) = <<>>
      BY <2>0, <2>2, SubSeqEmpty
    <3>2. SubSeq(e, 1, 1) = <<e[1]>> \o SubSeq(e, 2, 1)
      BY <1>1, <3>1, SubSeqRecursiveFirst, 1 + 1 = 2
    <3>3. <<e[1]>> \in Seq(Events)
      BY <1>1, <3>1
    <3> QED
      BY <3>1, <3>2, <3>3, ConcatEmptySeq
  <2> QED
    BY <2>0, <2>2, <2>3, <2>4, <2>5, <1>3
<1> QED
  BY <1>4, <1>5

(* Running one event counts it once.                                          *)
LEMMA RunOne ==
    ASSUME TypeOK, NEW s \in Seq(Events), Len(s) = 1, Run(s)
    PROVE  s[1].id \in 1..MaxEvents /\ ran' = [ran EXCEPT ![s[1].id] = @ + 1]
<1>1. s[1].id \in 1..MaxEvents /\ DOMAIN s = {1}
  BY EventTypes
<1>5. ASSUME NEW i \in 1..MaxEvents
      PROVE  Cardinality({k \in DOMAIN s : s[k].id = i}) = IF i = s[1].id THEN 1 ELSE 0
  <2>1. {k \in DOMAIN s : s[k].id = i} = IF i = s[1].id THEN {1} ELSE {}
    BY <1>1
  <2> QED
    BY <2>1, FS_EmptySet, FS_Singleton
<1>6. \A i \in 1..MaxEvents : ran[i] + (IF i = s[1].id THEN 1 ELSE 0) =
                               IF i = s[1].id THEN ran[i] + 1 ELSE ran[i]
  BY SMTT(30) DEF TypeOK
<1>7. ran' = [i \in 1..MaxEvents |-> ran[i] + (IF i = s[1].id THEN 1 ELSE 0)]
  BY <1>5 DEF Run
<1>8. ran' = [i \in 1..MaxEvents |-> IF i = s[1].id THEN ran[i] + 1 ELSE ran[i]]
  BY <1>6, <1>7
<1>9. ran = [i \in 1..MaxEvents |-> ran[i]]
  BY DEF TypeOK
<1> QED
  BY <1>1, <1>8, <1>9

(* Running no event counts nothing.                                           *)
LEMMA RunNone ==
    ASSUME TypeOK, Run(<<>>)
    PROVE  ran' = ran
<1>5. ASSUME NEW i \in 1..MaxEvents
      PROVE  Cardinality({k \in DOMAIN <<>> : <<>>[k].id = i}) = 0
  <2>1. {k \in DOMAIN <<>> : <<>>[k].id = i} = {}
    OBVIOUS
  <2> QED
    BY <2>1, FS_EmptySet
<1>6. ran' = [i \in 1..MaxEvents |-> ran[i] + 0]
  BY <1>5 DEF Run
<1>7. ran \in [1..MaxEvents -> Nat]
  BY DEF TypeOK
<1> QED
  BY <1>6, <1>7

(* Splicing with the head due takes the head off the list.                    *)
LEMMA SpliceTakesHead ==
    ASSUME TypeOK, WellFormed(e), e # <<>>, e[1].t <= now,
           e' = SubSeq(e, Len(Runnable) + 1, Len(e))
    PROVE  /\ e' \in Seq(Events) /\ Len(e') = Len(e) - 1
           /\ \A k \in 1..Len(e') : e'[k] = e[k + 1]
           /\ Runnable = <<e[1]>> /\ Runnable \in Seq(Events) /\ Runnable # <<>>
           /\ Len(Runnable) = 1 /\ Runnable[1] = e[1]
<1>1. e \in Seq(Events) /\ Len(e) \in Nat /\ Len(e) >= 1 /\ e[1] \in Events
  BY ListTypes
<1>2. Runnable = <<e[1]>>
  BY RunnableIsHead
<1>3. /\ <<e[1]>> \in Seq(Events) /\ Len(<<e[1]>>) = 1 /\ <<e[1]>>[1] = e[1]
      /\ <<e[1]>> # <<>>
  BY <1>1
<1>4. e' = Tail(e)
  BY <1>1, <1>2, <1>3, TailIsSubSeq
<1>5. /\ e' \in Seq(Events) /\ Len(e') = Len(e) - 1
      /\ \A k \in 1..Len(e') : e'[k] = e[k + 1]
  BY <1>1, <1>4, HeadTailProperties
<1> QED
  BY <1>2, <1>3, <1>5, Zenon

(* Splicing with nothing due takes nothing.                                   *)
LEMMA SpliceTakesNothing ==
    ASSUME TypeOK, WellFormed(e), e = <<>> \/ e[1].t > now,
           e' = SubSeq(e, Len(Runnable) + 1, Len(e))
    PROVE  Runnable = <<>> /\ e' = e
<1>1. e \in Seq(Events) /\ Len(e) \in Nat /\ now \in Nat /\ (e # <<>> => e[1].t \in Nat)
  BY ListTypes
<1>2. Runnable = <<>> /\ Len(Runnable) = 0
  BY <1>1, RunnableIsHead
<1>3. e' = SubSeq(e, 1, Len(e))
  BY <1>2
<1> QED
  BY <1>1, <1>2, <1>3, SubSeqFull

(* What splicing the head changes: the list stays ordered and holds all but   *)
(* the head, which is due and comes before the rest.                          *)
LEMMA HeadLeaves ==
    ASSUME TypeOK, WellFormed(e), e # <<>>, e[1].t <= now, count' = count,
           e' = SubSeq(e, Len(Runnable) + 1, Len(e))
    PROVE  /\ WellFormed(e)'
           /\ e[1].id \in 1..MaxEvents /\ e[1].id <= count
           /\ Holds(e, e[1].id) /\ ~Holds(e', e[1].id)
           /\ \A i \in 1..MaxEvents : i # e[1].id => (Holds(e', i) <=> Holds(e, i))
           /\ \A m \in DOMAIN e' : Before(e[1], e'[m])
           /\ \A k \in DOMAIN e : ~Holds(e', e[k].id) => k = 1
<1>1. /\ e \in Seq(Events) /\ Len(e) \in Nat
      /\ \A k \in 1..Len(e) : e[k].id \in 1..MaxEvents /\ e[k].t \in Nat
  BY ListTypes
<1>2. /\ e' \in Seq(Events) /\ Len(e') = Len(e) - 1
      /\ \A k \in 1..Len(e') : e'[k] = e[k + 1]
  BY SpliceTakesHead
<1>3. 1 \in 1..Len(e) /\ e[1].id \in 1..MaxEvents
  BY <1>1
<1>4. DOMAIN e = 1..Len(e) /\ DOMAIN e' = 1..Len(e')
  BY <1>1, <1>2
<1>5. WellFormed(e)'
  <2>1. ASSUME NEW k \in 1..Len(e'), NEW m \in 1..Len(e')
        PROVE  /\ e'[k].id <= count
               /\ k < m => Before(e'[k], e'[m]) /\ e'[k].id # e'[m].id
    <3>1. /\ k + 1 \in 1..Len(e) /\ m + 1 \in 1..Len(e) /\ (k < m => k + 1 < m + 1)
          /\ e'[k] = e[k + 1] /\ e'[m] = e[m + 1]
      BY <1>1, <1>2
    <3>2. /\ e[k + 1].id <= count
          /\ k + 1 < m + 1 => Before(e[k + 1], e[m + 1]) /\ e[k + 1].id # e[m + 1].id
      BY <3>1 DEF WellFormed
    <3> QED
      BY <3>1, <3>2
  <2> QED
    BY <2>1 DEF WellFormed
<1>6. e[1].id <= count /\ Holds(e, e[1].id) /\ ~Holds(e', e[1].id)
  <2>1. \A k \in 1..Len(e') : k + 1 \in 1..Len(e) /\ 1 < k + 1
    BY <1>1, <1>2
  <2>2. \A k \in 1..Len(e') : e'[k].id # e[1].id
    BY <1>2, <1>3, <2>1 DEF WellFormed
  <2> QED
    BY <1>3, <1>4, <2>2 DEF Holds, WellFormed
<1>7. ASSUME NEW k \in 1..Len(e), k # 1 PROVE Holds(e', e[k].id)
  <2>1. k - 1 \in 1..Len(e') /\ k - 1 + 1 = k
    BY <1>1, <1>2, <1>7
  <2>2. e'[k - 1] = e[k]
    BY <1>2, <2>1
  <2> QED
    BY <1>4, <2>1, <2>2 DEF Holds
<1>8. ASSUME NEW i \in 1..MaxEvents, i # e[1].id PROVE Holds(e', i) <=> Holds(e, i)
  <2>1. ASSUME NEW k \in 1..Len(e), e[k].id = i PROVE Holds(e', i)
    BY <1>7, <1>8, <2>1
  <2>2. ASSUME NEW k \in 1..Len(e'), e'[k].id = i PROVE Holds(e, i)
    <3>1. k + 1 \in 1..Len(e) /\ e'[k] = e[k + 1]
      BY <1>1, <1>2
    <3> QED
      BY <1>4, <2>2, <3>1 DEF Holds
  <2> QED
    BY <1>4, <2>1, <2>2 DEF Holds
<1>9. ASSUME NEW m \in 1..Len(e') PROVE Before(e[1], e'[m])
  <2>1. m + 1 \in 1..Len(e) /\ 1 < m + 1 /\ e'[m] = e[m + 1]
    BY <1>1, <1>2
  <2> QED
    BY <1>3, <2>1 DEF WellFormed
<1> QED
  BY <1>3, <1>4, <1>5, <1>6, <1>7, <1>8, <1>9

(* Scheduling puts a new event behind those of its time or an earlier one.    *)
LEMMA ScheduleInserts ==
    ASSUME TypeOK, NEW t \in Times, NEW byAction \in BOOLEAN, ScheduleEvent(t, byAction)
    PROVE  /\ Position(t) \in 1..(Len(e) + 1)
           /\ e' \in Seq(Events) /\ Len(e') = Len(e) + 1
           /\ count' = count + 1 /\ count' \in 1..MaxEvents
           /\ \A k \in 1..Len(e') :
                 e'[k] = IF k < Position(t) THEN e[k]
                         ELSE IF k = Position(t) THEN [id |-> count', t |-> t] ELSE e[k - 1]
<1>1. count \in Nat /\ count < MaxEvents /\ MaxEvents \in Nat /\ count' = count + 1
  BY ConstantsAssumption DEF ConstantsAssumption, TypeOK, ScheduleEvent
<1>2. count' \in 1..MaxEvents
  BY <1>1
<1> DEFINE new == [id |-> count', t |-> t]
           p == Position(t)
<1>3. new \in Events
  BY <1>2 DEF Events
<1>4. p \in 1..(Len(e) + 1) /\ e \in Seq(Events)
  BY PositionIsBeforeLater, ListTypes
<1>5. e' = InsertAt(e, p, new)
  BY DEF ScheduleEvent
<1> HIDE DEF new, p
<1>6. /\ InsertAt(e, p, new) \in Seq(Events)
      /\ Len(InsertAt(e, p, new)) = Len(e) + 1
      /\ \A k \in 1..(Len(e) + 1) :
            InsertAt(e, p, new)[k] = IF k < p THEN e[k] ELSE IF k = p THEN new ELSE e[k - 1]
  BY ONLY <1>3, <1>4, InsertAtElements, SMTT(10), ZenonT(60)
<1>7. /\ e' \in Seq(Events) /\ Len(e') = Len(e) + 1
      /\ \A k \in 1..Len(e') :
            e'[k] = IF k < p THEN e[k] ELSE IF k = p THEN new ELSE e[k - 1]
  BY <1>5, <1>6, Zenon
<1> QED
  BY <1>1, <1>2, <1>4, <1>7 DEF new, p

(* Arming the head leaves alarms within the clock, and, when a timer can hold *)
(* the delay, one at the head's own time.                                     *)
LEMMA ArmedHead ==
    ASSUME TypeOK, NEW pending \in SUBSET Times, NEW s \in Seq(Events)
    PROVE  /\ ArmHead(pending, s) \subseteq Times
           /\ s # <<>> /\ MaxDelay >= MaxTime => Head(s).t \in ArmHead(pending, s)
<1>1. CASE s = <<>>
  BY <1>1 DEF ArmHead
<1>2. CASE s # <<>>
  <2>1. Head(s).t \in Times
    BY <1>2, EventTypes
  <2>2. now \in Times /\ Times \subseteq Nat /\ MaxDelay \in Nat /\ MaxTime \in Nat
    BY ConstantsAssumption DEF ConstantsAssumption, TypeOK, Times
  <2>3. Due(Head(s).t) \in Times
    BY <2>1, <2>2 DEF Due
  <2>4. MaxDelay >= MaxTime => Due(Head(s).t) = Head(s).t
    BY <2>1, <2>2 DEF Due, Times
  <2> QED
    BY <1>2, <2>1, <2>3, <2>4 DEF ArmHead, SetAlarm
<1> QED
  BY <1>1, <1>2

(* The same of an awaited setAlarm that may be rejected.                      *)
LEMMA ArmTypes ==
    ASSUME TypeOK, NEW pending \in SUBSET Times, NEW s \in Seq(Events), Arm(pending, s)
    PROVE  /\ alarms' \subseteq Times /\ refused' \in 0..MaxRefusals
           /\ refused' = 0 => refused = 0
           /\ refused' = 0 /\ s # <<>> /\ MaxDelay >= MaxTime => Head(s).t \in alarms'
<1>1. refused \in Nat /\ MaxRefusals \in Nat /\ refused <= MaxRefusals
  BY ConstantsAssumption DEF ConstantsAssumption, TypeOK
<1>2. CASE alarms' = ArmHead(pending, s) /\ UNCHANGED refused
  BY <1>1, <1>2, ArmedHead
<1>3. CASE refused < MaxRefusals /\ alarms' = pending /\ refused' = refused + 1
  BY <1>1, <1>3
<1> QED
  BY <1>2, <1>3 DEF Arm

-----------------------------------------------------------------------------
(* The invariant                                                              *)

(* A fresh actor satisfies the invariant.                                     *)
LEMMA Initially == Init => IInv
<1> SUFFICES ASSUME Init PROVE IInv
  OBVIOUS
<1>1. TypeOK
  <2>1. now \in Times /\ count \in 0..MaxEvents /\ crashes \in 0..MaxCrashes
        /\ refused \in 0..MaxRefusals
    BY ConstantsAssumption DEF ConstantsAssumption, Init, Times
  <2>2. e \in Seq(Events) /\ stored \in Seq(Events) /\ taken \in Seq(Events)
    BY EmptySeq DEF Init
  <2>3. ran \in [1..MaxEvents -> Nat]
    BY DEF Init
  <2> QED
    BY <2>1, <2>2, <2>3 DEF Init, TypeOK
<1>2. Len(e) = 0 /\ Len(stored) = 0
  BY DEF Init
<1> QED
  BY <1>1, <1>2 DEF Init, IInv, ListsAreWellFormed, WellFormed, OneIsTaken, HeadHasItsAlarm,
     LivesLeft, NothingLost

(* The inserted event keeps the order, and only a new head needs an alarm.    *)
LEMMA ScheduleEventKeeps ==
    ASSUME IInv, NEW t \in Times, NEW byAction \in BOOLEAN, ScheduleEvent(t, byAction)
    PROVE  IInv'
<1> USE DEF IInv
<1> DEFINE p == Position(t)
<1>1. /\ p \in 1..(Len(e) + 1) /\ e' \in Seq(Events) /\ Len(e') = Len(e) + 1
      /\ count' = count + 1 /\ count' \in 1..MaxEvents
      /\ \A k \in 1..Len(e') :
            e'[k] = IF k < p THEN e[k]
                    ELSE IF k = p THEN [id |-> count', t |-> t] ELSE e[k - 1]
  BY ScheduleInserts
<1>2. /\ \A k \in 1..(p - 1) : e[k].t <= t
      /\ p <= Len(e) => e[p].t > t
  BY PositionIsBeforeLater
<1>3. /\ e \in Seq(Events) /\ Len(e) \in Nat /\ t \in Nat
      /\ \A k \in 1..Len(e) : e[k].id \in 1..MaxEvents /\ e[k].t \in Nat
  BY ListTypes
<1>4. TypeOK'
  <2>1. alarms' \subseteq Times /\ refused' \in 0..MaxRefusals
    <3>1. CASE p = 1
      BY <1>1, <3>1, ArmTypes DEF ScheduleEvent, TypeOK
    <3>2. CASE p # 1
      BY <3>2 DEF ScheduleEvent, TypeOK
    <3> QED
      BY <3>1, <3>2
  <2> QED
    BY <1>1, <2>1 DEF ScheduleEvent, TypeOK
<1>5. UNCHANGED <<now, up, taken, stored, ran, cut, crashes>> /\ count \in Nat /\ MaxEvents \in Nat
  BY ConstantsAssumption DEF ConstantsAssumption, ScheduleEvent, TypeOK
<1> HIDE DEF p
<1>6. WellFormed(e)'
  <2>0. \A k, m \in 1..Len(e) :
           /\ e[k].id <= count
           /\ k < m => Before(e[k], e[m]) /\ e[k].id # e[m].id
    BY DEF ListsAreWellFormed, WellFormed
  <2>1. ASSUME NEW k \in 1..Len(e), k >= p PROVE e[k].t > t
    <3>1. p \in 1..Len(e) /\ e[p].t > t /\ (p = k \/ p < k)
      BY <1>1, <1>2, <1>3, <2>1
    <3>2. e[p].t <= e[k].t
      BY <1>3, <2>0, <3>1 DEF Before
    <3> QED
      BY <1>3, <3>1, <3>2
  <2>2. ASSUME NEW k \in 1..Len(e'), NEW m \in 1..Len(e'), k < m
        PROVE  Before(e'[k], e'[m]) /\ e'[k].id # e'[m].id
    <3>1. CASE m < p
      <4>1. e'[k] = e[k] /\ e'[m] = e[m] /\ k \in 1..Len(e) /\ m \in 1..Len(e)
        BY <1>1, <1>3, <2>2, <3>1
      <4> QED
        BY <2>0, <2>2, <4>1
    <3>2. CASE m = p
      <4>1. e'[m] = [id |-> count', t |-> t] /\ e'[k] = e[k] /\ k \in 1..Len(e)
        BY <1>1, <1>3, <2>2, <3>2
      <4>2. e[k].t <= t /\ e[k].id <= count
        BY <1>1, <1>2, <1>3, <2>0, <2>2, <3>2, <4>1
      <4> QED
        BY <1>1, <1>3, <1>5, <4>1, <4>2, SMTT(30) DEF Before
    <3>3. CASE k < p /\ p < m
      <4>1. /\ e'[k] = e[k] /\ e'[m] = e[m - 1]
            /\ k \in 1..Len(e) /\ m - 1 \in 1..Len(e) /\ k < m - 1
        BY <1>1, <1>3, <2>2, <3>3
      <4> QED
        BY <2>0, <4>1
    <3>4. CASE k = p
      <4>1. e'[k] = [id |-> count', t |-> t] /\ e'[m] = e[m - 1] /\ m - 1 \in 1..Len(e)
        BY <1>1, <1>3, <2>2, <3>4
      <4>2. e[m - 1].t > t /\ e[m - 1].id <= count
        BY <1>1, <1>3, <2>0, <2>1, <2>2, <3>4, <4>1
      <4> QED
        BY <1>1, <1>3, <1>5, <4>1, <4>2 DEF Before
    <3>5. CASE p < k
      <4>1. /\ e'[k] = e[k - 1] /\ e'[m] = e[m - 1]
            /\ k - 1 \in 1..Len(e) /\ m - 1 \in 1..Len(e) /\ k - 1 < m - 1
        BY <1>1, <1>3, <2>2, <3>5
      <4> QED
        BY <2>0, <4>1
    <3> QED
      BY <1>1, <1>3, <3>1, <3>2, <3>3, <3>4, <3>5
  <2>3. ASSUME NEW k \in 1..Len(e') PROVE e'[k].id <= count'
    <3>1. \A j \in 1..Len(e) : e[j].id <= count + 1
      BY <1>3, <1>5, <2>0
    <3>2. CASE k < p
      BY <1>1, <1>3, <3>1, <3>2
    <3>3. CASE k = p
      BY <1>1, <1>5, <3>3
    <3>4. CASE k > p
      <4>1. e'[k] = e[k - 1] /\ k - 1 \in 1..Len(e)
        BY <1>1, <1>3, <3>4
      <4> QED
        BY <1>1, <3>1, <4>1
    <3> QED
      BY <1>1, <1>3, <3>2, <3>3, <3>4
  <2> QED
    BY <2>2, <2>3 DEF WellFormed
<1>7. WellFormed(stored)'
  <2>1. \A k \in 1..Len(stored) : stored[k].id \in 1..MaxEvents
    BY EventTypes DEF TypeOK
  <2>2. WellFormed(stored)
    BY DEF ListsAreWellFormed
  <2> QED
    BY <1>1, <1>5, <2>1, <2>2 DEF WellFormed
<1>8. HeadHasItsAlarm'
  <2>1. CASE p = 1
    <3>1. Arm(alarms, e') /\ alarms \subseteq Times
      BY <2>1 DEF ScheduleEvent, TypeOK, p
    <3> QED
      BY <1>1, <3>1, ArmTypes DEF HeadHasItsAlarm
  <2>2. CASE p # 1
    <3>1. Head(e') = Head(e) /\ e # <<>> /\ alarms' = alarms /\ refused' = refused
      BY <1>1, <1>3, <2>2 DEF ScheduleEvent, p
    <3> QED
      BY <3>1, <1>5 DEF HeadHasItsAlarm
  <2> QED
    BY <2>1, <2>2
<1>9. ASSUME NEW i \in 1..count, Holds(e, i) PROVE Holds(e', i)
  <2>1. PICK k \in 1..Len(e) : e[k].id = i
    BY <1>3, <1>9 DEF Holds
  <2>2. DOMAIN e' = 1..Len(e')
    BY <1>1
  <2>3. CASE k < p
    <3>1. k \in 1..Len(e') /\ e'[k] = e[k]
      BY <1>1, <1>3, <2>3
    <3> QED
      BY <2>1, <2>2, <3>1 DEF Holds
  <2>4. CASE ~(k < p)
    <3>1. k + 1 \in 1..Len(e') /\ e'[k + 1] = e[k + 1 - 1] /\ k + 1 - 1 = k
      BY <1>1, <1>3, <2>4
    <3> QED
      BY <2>1, <2>2, <3>1 DEF Holds
  <2> QED
    BY <2>3, <2>4
<1>10. Holds(e', count')
  BY <1>1, <1>3 DEF Holds
<1>11. \A i \in 1..MaxEvents : Holds(e', i) => Holds(e, i) \/ i = count'
  BY <1>1, <1>3 DEF Holds
<1>14. OneIsTaken'
  <2>1. taken # <<>> => 1 \in 1..Len(taken) /\ taken[1].id \in 1..MaxEvents
    BY EventTypes DEF TypeOK, OneIsTaken
  <2> QED
    BY <1>1, <1>5, <1>11, <2>1 DEF OneIsTaken
<1>12. LivesLeft'
  <2>1. crashes \in Nat /\ \A i \in 1..MaxEvents : ran[i] \in Nat
    BY DEF TypeOK
  <2>2. ran[count'] = 0
    BY <1>1, <1>5 DEF LivesLeft
  <2>3. ASSUME NEW i \in 1..MaxEvents
        PROVE  /\ i > count' => ran[i] = 0
               /\ ran[i] <= crashes + (IF up THEN 1 ELSE 0)
    BY <1>1, <1>5 DEF LivesLeft
  <2>4. ASSUME NEW i \in 1..MaxEvents, up, Holds(e', i) \/ Holds(taken, i)
        PROVE  ran[i] <= crashes
    <3>1. CASE i = count'
      BY <2>1, <2>2, <3>1
    <3>2. CASE i # count'
      BY <1>11, <2>4, <3>2 DEF LivesLeft
    <3> QED
      BY <3>1, <3>2
  <2> QED
    BY <1>5, <2>3, <2>4 DEF LivesLeft
<1>13. NothingLost'
  <2>1. \A i \in 1..count' : i \in 1..count \/ i = count'
    BY <1>1, <1>5
  <2> QED
    BY <1>5, <1>9, <1>10, <2>1 DEF NothingLost
<1> QED
  BY <1>4, <1>6, <1>7, <1>8, <1>12, <1>13, <1>14 DEF ListsAreWellFormed

(* An event counted as run was in a list or in hand, and no longer is.        *)
LEMMA RunKeepsLives ==
    ASSUME IInv, up, up', UNCHANGED <<count, crashes>>, NEW x \in 1..MaxEvents,
           x <= count, Holds(e, x) \/ Holds(taken, x), ~Holds(e', x), ~Holds(taken', x),
           \A i \in 1..MaxEvents : Holds(e', i) \/ Holds(taken', i) =>
                                      Holds(e, i) \/ Holds(taken, i),
           ran' = [ran EXCEPT ![x] = @ + 1]
    PROVE  LivesLeft'
BY DEF IInv, LivesLeft, TypeOK

(* An alarm takes the head and arms the next event, or is used up for nothing.*)
LEMMA OnAlarmKeeps ==
    ASSUME IInv, NEW a \in alarms, OnAlarm(a)
    PROVE  IInv'
<1> USE DEF IInv
<1>1. /\ e \in Seq(Events) /\ Len(e) \in Nat
      /\ \A k \in 1..Len(e) : e[k].id \in 1..MaxEvents /\ e[k].t \in Nat
  BY ListTypes
<1>2. WellFormed(e) /\ WellFormed(stored)
  BY DEF ListsAreWellFormed
<1>3. /\ UNCHANGED <<now, singleSlot, up, stored, saving, count, cut, crashes, refused>>
      /\ up /\ taken = <<>> /\ e' = SubSeq(e, Len(Runnable) + 1, Len(e))
      /\ alarms \ {a} \subseteq Times
  BY DEF OnAlarm, TypeOK
<1>4. WellFormed(stored)'
  BY <1>2, <1>3 DEF WellFormed
<1>5. \A i : ~Holds(<<>>, i)
  BY DEF Holds
<1>6. CASE e # <<>> /\ e[1].t <= now
  <2>1. /\ e' \in Seq(Events) /\ Runnable \in Seq(Events) /\ Runnable # <<>>
        /\ Len(Runnable) = 1 /\ Runnable[1] = e[1]
    BY <1>2, <1>3, <1>6, SpliceTakesHead
  <2>2. /\ WellFormed(e)'
        /\ e[1].id \in 1..MaxEvents /\ e[1].id <= count
        /\ Holds(e, e[1].id) /\ ~Holds(e', e[1].id)
        /\ \A i \in 1..MaxEvents : i # e[1].id => (Holds(e', i) <=> Holds(e, i))
    BY <1>2, <1>3, <1>6, HeadLeaves
  <2>3. \A i : Holds(Runnable, i) <=> i = e[1].id
    BY <2>1 DEF Holds
  <2>4. \A i \in 1..count : i \in 1..MaxEvents
    BY ConstantsAssumption DEF ConstantsAssumption, TypeOK
  <2>5. CASE e' = <<>> /\ Run(Runnable) /\ alarms' = alarms \ {a} /\ UNCHANGED taken
    <3>1. ran' = [ran EXCEPT ![e[1].id] = @ + 1]
      BY <2>1, <2>5, RunOne
    <3>2. ran' \in [1..MaxEvents -> Nat]
      BY <2>2, <3>1 DEF TypeOK
    <3>3. TypeOK'
      BY <1>3, <2>1, <2>5, <3>2 DEF TypeOK
    <3>4. HeadHasItsAlarm' /\ OneIsTaken'
      BY <1>3, <2>5 DEF HeadHasItsAlarm, OneIsTaken
    <3>5. LivesLeft'
      BY <1>3, <1>5, <2>2, <2>5, <3>1, RunKeepsLives
    <3>6. ran \in [1..MaxEvents -> Nat] /\ count \in Nat
      BY DEF TypeOK
    <3>7. ran'[e[1].id] > 0 /\ \A i \in 1..MaxEvents : i # e[1].id => ran'[i] = ran[i]
      BY <2>2, <3>1, <3>6
    <3>8. NothingLost'
      BY <1>3, <1>5, <2>2, <2>4, <3>7 DEF NothingLost
    <3> QED
      BY <1>4, <2>2, <3>3, <3>4, <3>5, <3>8 DEF ListsAreWellFormed
  <2>6. CASE alarms' = ArmHead(alarms \ {a}, e') /\ taken' = Runnable /\ UNCHANGED ran
    <3>1. /\ alarms' \subseteq Times
          /\ e' # <<>> /\ MaxDelay >= MaxTime => Head(e').t \in alarms'
      BY <1>3, <2>1, <2>6, ArmedHead
    <3>2. TypeOK'
      BY <1>3, <2>1, <2>6, <3>1 DEF TypeOK
    <3>3. HeadHasItsAlarm'
      BY <3>1 DEF HeadHasItsAlarm
    <3>4. OneIsTaken'
      BY <1>3, <2>1, <2>2, <2>6 DEF OneIsTaken
    <3>5. LivesLeft'
      BY <1>3, <2>2, <2>3, <2>6 DEF LivesLeft
    <3>6. NothingLost'
      BY <1>3, <1>5, <2>2, <2>3, <2>4, <2>6 DEF NothingLost
    <3> QED
      BY <1>4, <2>2, <3>2, <3>3, <3>4, <3>5, <3>6 DEF ListsAreWellFormed
  <2> QED
    BY <2>1, <2>5, <2>6 DEF OnAlarm
<1>7. CASE ~(e # <<>> /\ e[1].t <= now)
  <2>1. Runnable = <<>> /\ e' = e
    BY <1>1, <1>2, <1>3, <1>7, SpliceTakesNothing, ListTypes
  <2>2. alarms' = alarms \ {a} /\ UNCHANGED taken /\ Run(<<>>)
    BY <2>1 DEF OnAlarm
  <2>3. ran' = ran
    BY <2>2, RunNone
  <2>4. TypeOK'
    BY <1>3, <2>1, <2>2, <2>3 DEF TypeOK
  <2>5. HeadHasItsAlarm'
    <3>1. a <= now + EarlyBy /\ now \in Nat
      BY ListTypes DEF OnAlarm
    <3> QED
      BY <1>1, <1>3, <1>7, <2>1, <2>2, <3>1 DEF HeadHasItsAlarm, TypeOK, Times
  <2> QED
    BY <1>2, <1>3, <2>1, <2>2, <2>3, <2>4, <2>5
    DEF ListsAreWellFormed, WellFormed, OneIsTaken, LivesLeft, NothingLost
<1> QED
  BY <1>6, <1>7

(* A rejected setAlarm in onAlarm cuts the head off.                          *)
LEMMA OnAlarmRefusedKeeps ==
    ASSUME IInv, NEW a \in alarms, OnAlarmRefused(a)
    PROVE  IInv'
<1> USE DEF IInv
<1>1. /\ e \in Seq(Events) /\ Len(e) \in Nat
      /\ \A k \in 1..Len(e) : e[k].id \in 1..MaxEvents /\ e[k].t \in Nat
  BY ListTypes
<1>2. WellFormed(e) /\ WellFormed(stored)
  BY DEF ListsAreWellFormed
<1>3. /\ UNCHANGED <<now, singleSlot, up, taken, stored, saving, count, ran, crashes>>
      /\ up /\ taken = <<>> /\ e' = SubSeq(e, Len(Runnable) + 1, Len(e))
      /\ Runnable # <<>> /\ cut' = cut \cup Ids(Runnable)
  BY DEF OnAlarmRefused
<1>4. e # <<>> /\ e[1].t <= now
  BY <1>1, <1>2, <1>3, SpliceTakesNothing, ListTypes
<1>5. /\ e' \in Seq(Events) /\ Runnable \in Seq(Events)
      /\ Len(Runnable) = 1 /\ Runnable[1] = e[1]
  BY <1>2, <1>3, <1>4, SpliceTakesHead
<1>6. /\ WellFormed(e)'
      /\ e[1].id \in 1..MaxEvents
      /\ \A i \in 1..MaxEvents : i # e[1].id => (Holds(e', i) <=> Holds(e, i))
      /\ ~Holds(e', e[1].id)
  BY <1>2, <1>3, <1>4, HeadLeaves
<1>7. Ids(Runnable) = {e[1].id}
  BY <1>5 DEF Ids
<1>8. refused \in Nat /\ refused' = refused + 1 /\ refused' \in 0..MaxRefusals
  BY ConstantsAssumption DEF ConstantsAssumption, TypeOK, OnAlarmRefused
<1>9. alarms' \subseteq Times
  BY DEF OnAlarmRefused, TypeOK
<1>10. TypeOK'
  BY <1>3, <1>5, <1>6, <1>7, <1>8, <1>9 DEF TypeOK
<1>11. HeadHasItsAlarm' /\ OneIsTaken'
  BY <1>3, <1>8 DEF HeadHasItsAlarm, OneIsTaken
<1>12. LivesLeft'
  BY <1>3, <1>6 DEF LivesLeft
<1>13. \A i \in 1..count : i \in 1..MaxEvents
  BY ConstantsAssumption DEF ConstantsAssumption, TypeOK
<1>14. NothingLost'
  BY <1>3, <1>6, <1>7, <1>13 DEF NothingLost
<1>15. WellFormed(stored)'
  BY <1>2, <1>3 DEF WellFormed
<1> QED
  BY <1>6, <1>10, <1>11, <1>12, <1>14, <1>15 DEF ListsAreWellFormed

(* onAlarm goes on: what was in hand is run.                                  *)
LEMMA RunTakenKeeps ==
    ASSUME IInv, RunTaken
    PROVE  IInv'
<1> USE DEF IInv
<1> DEFINE x == taken[1].id
<1>1. /\ UNCHANGED <<now, singleSlot, up, e, stored, saving, alarms, count, cut, crashes, refused>>
      /\ up /\ taken # <<>> /\ taken' = <<>> /\ Run(taken)
  BY DEF RunTaken
<1>2. taken \in Seq(Events) /\ Len(taken) = 1 /\ x <= count /\ ~Holds(e, x)
  BY <1>1 DEF TypeOK, OneIsTaken
<1>3. x \in 1..MaxEvents /\ ran' = [ran EXCEPT ![x] = @ + 1]
  BY <1>1, <1>2, RunOne
<1>4. /\ \A i : Holds(taken, i) <=> i = x
      /\ \A i : ~Holds(taken', i)
  BY <1>1, <1>2 DEF Holds
<1>5. ran \in [1..MaxEvents -> Nat] /\ \A i \in 1..count : i \in 1..MaxEvents
  BY ConstantsAssumption DEF ConstantsAssumption, TypeOK
<1> HIDE DEF x
<1>6. ran' \in [1..MaxEvents -> Nat] /\ taken' \in Seq(Events)
  BY <1>1, <1>3, <1>5, EmptySeq
<1>7. TypeOK'
  BY <1>1, <1>6 DEF TypeOK
<1>8. LivesLeft'
  BY <1>1, <1>2, <1>3, <1>4, RunKeepsLives
<1>9. ran'[x] > 0 /\ \A i \in 1..MaxEvents : i # x => ran'[i] = ran[i]
  BY <1>3, <1>5
<1>10. NothingLost'
  BY <1>1, <1>4, <1>5, <1>9 DEF NothingLost
<1>11. ListsAreWellFormed' /\ HeadHasItsAlarm' /\ OneIsTaken'
  BY <1>1 DEF ListsAreWellFormed, WellFormed, HeadHasItsAlarm, OneIsTaken
<1> QED
  BY <1>7, <1>8, <1>10, <1>11

(* A write copies the list.                                                   *)
LEMMA SaveKeeps ==
    ASSUME IInv, Save
    PROVE  IInv'
BY DEF IInv, TypeOK, ListsAreWellFormed, WellFormed, OneIsTaken, HeadHasItsAlarm, LivesLeft,
   NothingLost, Save, historyVars

(* A crash begins a new life; what ran may run once more.                     *)
LEMMA CrashKeeps ==
    ASSUME IInv, Crash
    PROVE  IInv'
<1>1. crashes' \in 0..MaxCrashes /\ e' \in Seq(Events) /\ Len(e') = 0 /\ taken' \in Seq(Events)
  BY EmptySeq, ConstantsAssumption DEF ConstantsAssumption, IInv, TypeOK, Crash
<1>2. cut' \subseteq 1..MaxEvents
  <2>1. \A k \in DOMAIN taken : taken[k].id \in 1..MaxEvents
    BY EventTypes DEF IInv, TypeOK
  <2> QED
    BY <2>1 DEF IInv, TypeOK, Crash, Ids
<1>3. TypeOK'
  BY <1>1, <1>2 DEF IInv, TypeOK, Crash
<1> QED
  BY <1>1, <1>3 DEF IInv, TypeOK, ListsAreWellFormed, WellFormed, OneIsTaken, HeadHasItsAlarm,
     LivesLeft, NothingLost, Crash

(* start() takes the written list and arms its head.                          *)
LEMMA StartKeeps ==
    ASSUME IInv, Start
    PROVE  IInv'
<1>1. stored \in Seq(Events) /\ alarms \subseteq Times /\ Arm(alarms, stored) /\ TypeOK
  BY DEF IInv, TypeOK, Start
<1>2. /\ alarms' \subseteq Times /\ refused' \in 0..MaxRefusals
      /\ refused' = 0 /\ stored # <<>> /\ MaxDelay >= MaxTime => Head(stored).t \in alarms'
  BY <1>1, ArmTypes
<1>3. TypeOK' /\ HeadHasItsAlarm'
  BY <1>2 DEF IInv, TypeOK, HeadHasItsAlarm, Start
<1>4. ListsAreWellFormed'
  BY DEF IInv, ListsAreWellFormed, WellFormed, Start
<1>5. LivesLeft' /\ NothingLost' /\ OneIsTaken'
  BY SMTT(30) DEF IInv, TypeOK, LivesLeft, NothingLost, OneIsTaken, Start
<1> QED
  BY <1>3, <1>4, <1>5 DEF IInv

(* Time passes, or nothing happens.                                           *)
LEMMA TickKeeps ==
    ASSUME IInv, Tick \/ UNCHANGED vars
    PROVE  IInv'
<1>1. now' \in Times
  BY ConstantsAssumption DEF ConstantsAssumption, IInv, TypeOK, Times, Tick, vars
<1>2. UNCHANGED <<singleSlot, up, e, taken, stored, saving, alarms, count, ran, cut, crashes, refused>>
  BY DEF Tick, vars, historyVars
<1>3. TypeOK'
  BY <1>1, <1>2 DEF IInv, TypeOK
<1> QED
  BY <1>2, <1>3 DEF IInv, ListsAreWellFormed, WellFormed, OneIsTaken, HeadHasItsAlarm, LivesLeft,
     NothingLost

(* The invariant holds: the lists stay ordered, the head of a started actor   *)
(* has its alarm, a life runs an event once, and the first life loses none.   *)
THEOREM InvariantHolds == Spec => []IInv
<1>1. IInv /\ [Next]_vars => IInv'
  BY ScheduleEventKeeps, OnAlarmKeeps, OnAlarmRefusedKeeps, RunTakenKeeps, SaveKeeps, CrashKeeps,
     StartKeeps, TickKeeps DEF Next
<1> QED
  BY Initially, <1>1, PTL DEF Spec

-----------------------------------------------------------------------------
(* The theorems                                                               *)

(* Every variable of the schedule keeps its type.                             *)
THEOREM TypeCorrect == Spec => []TypeOK
<1>1. IInv => TypeOK
  BY DEF IInv
<1> QED
  BY InvariantHolds, <1>1, PTL

(* A started actor with events is woken no later than its first event asks,   *)
(* whatever scheduleEvent, onAlarm and start() did before: for both kinds of  *)
(* driver, timers that keep their delay and are not early, and while no       *)
(* setAlarm was rejected.                                                     *)
THEOREM HeadArmed == Spec => []HeadIsArmed
<1>1. IInv => HeadIsArmed
  <2> SUFFICES ASSUME IInv, up, e # <<>>, EarlyBy = 0, MaxDelay >= MaxTime, refused = 0
               PROVE  \E a \in alarms : a <= now \/ a <= Head(e).t
    BY DEF HeadIsArmed
  <2>1. Head(e).t \in alarms /\ alarms \subseteq Int
    BY DEF IInv, HeadHasItsAlarm, TypeOK, Times
  <2>2. \A x \in Int : x <= x
    OBVIOUS
  <2> QED
    BY <2>1, <2>2, Zenon
<1> QED
  BY InvariantHolds, <1>1, PTL

(* However inserts, alarms, saves and restarts interleave, an event runs      *)
(* again only because a crash lost its removal.                               *)
THEOREM OncePerLife == Spec => []RunsOncePerLife
<1>1. IInv => RunsOncePerLife
  BY DEF IInv, LivesLeft, RunsOncePerLife, TypeOK
<1> QED
  BY InvariantHolds, <1>1, PTL

(* In its first life an actor drops no scheduled event that has not run,      *)
(* whatever insertions, alarms and saves come, but for a rejected setAlarm.   *)
THEOREM FirstLifeLosesNothing == Spec => []NothingLost
<1>1. IInv => NothingLost
  BY DEF IInv
<1> QED
  BY InvariantHolds, <1>1, PTL

(* onAlarm takes an event no earlier than its time and before all that stay:  *)
(* splicing up to the first due event is splicing the head alone.             *)
THEOREM InOrder == Spec => LeavesInOrder
<1>1. ASSUME IInv, [Next]_vars PROVE [LeaveInOrder]_vars
  <2> USE DEF IInv
  <2>1. e \in Seq(Events) /\ DOMAIN e = 1..Len(e) /\ WellFormed(e)
    BY ListTypes, <1>1 DEF ListsAreWellFormed
  <2>2. ASSUME NEW a \in alarms, OnAlarm(a) \/ OnAlarmRefused(a) PROVE LeaveInOrder
    <3>1. e' = SubSeq(e, Len(Runnable) + 1, Len(e)) /\ count' = count
      BY <2>2 DEF OnAlarm, OnAlarmRefused
    <3>2. CASE e # <<>> /\ e[1].t <= now
      <4>1. /\ e[1].id \in 1..MaxEvents
            /\ \A m \in DOMAIN e' : Before(e[1], e'[m])
            /\ \A k \in DOMAIN e : ~Holds(e', e[k].id) => k = 1
        BY <1>1, <2>1, <3>1, <3>2, HeadLeaves
      <4>2. /\ Runnable \in Seq(Events) /\ Runnable # <<>>
            /\ Len(Runnable) = 1 /\ Runnable[1] = e[1]
        BY <1>1, <2>1, <3>1, <3>2, SpliceTakesHead
      <4>3. Holds(Runnable, e[1].id) /\ e[1].id \in Ids(Runnable)
        BY <4>2 DEF Holds, Ids
      <4>4. Run(Runnable) => ran'[e[1].id] > ran[e[1].id]
        <5>1. ran \in [1..MaxEvents -> Nat]
          BY <1>1 DEF TypeOK
        <5>2. Run(Runnable) => ran' = [ran EXCEPT ![e[1].id] = @ + 1]
          BY <1>1, <4>2, RunOne
        <5>3. ran[e[1].id] \in Nat
          BY <4>1, <5>1
        <5>4. SUFFICES ASSUME Run(Runnable) PROVE ran'[e[1].id] > ran[e[1].id]
          OBVIOUS
        <5>5. ran'[e[1].id] = ran[e[1].id] + 1
          BY <4>1, <5>1, <5>2, <5>4
        <5> QED
          BY <5>3, <5>5
      <4>5. ran'[e[1].id] > ran[e[1].id] \/ Holds(taken', e[1].id) \/ e[1].id \in cut'
        BY <2>2, <4>3, <4>4 DEF OnAlarm, OnAlarmRefused
      <4> QED
        BY <3>2, <4>1, <4>5 DEF LeaveInOrder
    <3>3. CASE ~(e # <<>> /\ e[1].t <= now)
      <4>1. e' = e
        BY <1>1, <2>1, <3>1, <3>3, SpliceTakesNothing, ListTypes
      <4> QED
        BY <4>1 DEF LeaveInOrder, Holds
    <3> QED
      BY <3>2, <3>3
  <2>3. ASSUME NEW t \in Times, NEW byAction \in BOOLEAN, ScheduleEvent(t, byAction)
        PROVE  LeaveInOrder
    <3>1. /\ Position(t) \in 1..(Len(e) + 1)
          /\ e' \in Seq(Events) /\ Len(e') = Len(e) + 1 /\ Len(e) \in Nat
          /\ \A k \in 1..Len(e') :
                e'[k] = IF k < Position(t) THEN e[k]
                        ELSE IF k = Position(t) THEN [id |-> count', t |-> t] ELSE e[k - 1]
      BY <1>1, <2>1, <2>3, ScheduleInserts
    <3>2. ASSUME NEW k \in 1..Len(e) PROVE Holds(e', e[k].id)
      <4>1. CASE k < Position(t)
        BY <3>1, <4>1 DEF Holds
      <4>2. CASE ~(k < Position(t))
        <5>1. k + 1 \in 1..Len(e') /\ ~(k + 1 < Position(t)) /\ k + 1 # Position(t) /\ k + 1 - 1 = k
          BY <3>1, <4>2
        <5>2. e'[k + 1] = e[k]
          BY <3>1, <5>1
        <5> QED
          BY <3>1, <5>1, <5>2, SMTT(30) DEF Holds
      <4> QED
        BY <4>1, <4>2
    <3> QED
      BY <2>1, <3>2 DEF LeaveInOrder
  <2>4. ASSUME e' = e \/ ~up' PROVE LeaveInOrder
    BY <2>4 DEF LeaveInOrder, Holds
  <2>5. Start => LeaveInOrder
    BY DEF Start, LeaveInOrder
  <2> QED
    BY <1>1, <2>2, <2>3, <2>4, <2>5 DEF Next, RunTaken, Save, Crash, Start, Tick
<1> QED
  BY InvariantHolds, <1>1, PTL DEF Spec, LeavesInOrder
==============================================================================
