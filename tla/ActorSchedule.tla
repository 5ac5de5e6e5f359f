---------------------------- MODULE ActorSchedule ----------------------------
(***************************************************************************)
(* The schedule of one actor: the persisted, ordered list of events, the   *)
(* driver's alarms that wake the actor, and what restarts leave of both.   *)
(*                                                                         *)
(* The memory, file system and Redis drivers set a process timer per alarm *)
(* and never cancel one; a Durable Object has one alarm that survives the  *)
(* process and is overwritten by each setAlarm.  Time is counted in ticks  *)
(* of Date.now(); a timer may run a little early by that clock.            *)
(***************************************************************************)
EXTENDS Integers, SequencesExt

CONSTANTS
    MaxEvents,    \* bound: events ever scheduled
    MaxTime,      \* bound: the clock
    MaxDelay,     \* longest delay a timer can hold (2^31 - 1 ms in the code)
    EarlyBy,      \* a timer may fire this long before its time by Date.now()
    MaxCrashes,   \* bound: crashes
    MaxRefusals   \* bound: setAlarm calls that a Durable Object rejects

ASSUME ConstantsAssumption ==
    /\ MaxEvents \in Nat /\ MaxTime \in Nat /\ MaxDelay \in Nat
    /\ EarlyBy \in Nat /\ MaxCrashes \in Nat /\ MaxRefusals \in Nat

Times == 0..MaxTime
Events == [id : 1..MaxEvents, t : Times]

VARIABLES
    now,          \* Date.now()
    singleSlot,   \* the driver is a Durable Object; chosen once
    up,           \* the actor is started
    e,            \* #persist.e
    taken,        \* what an onAlarm that awaits setAlarm has spliced off
    stored,       \* e as the driver holds it
    saving,       \* a save of the present e is due: an action ended with it
    alarms,       \* times at which some pending alarm is due
    count,        \* history: events scheduled; the last one has this id
    ran,          \* history: how often each event was run
    cut,          \* history: events spliced off whose onAlarm did not go on
    crashes, refused

historyVars == <<count, ran, cut, crashes, refused>>
vars == <<now, singleSlot, up, e, taken, stored, saving, alarms, historyVars>>

TypeOK ==
    /\ now \in Times
    /\ singleSlot \in BOOLEAN /\ up \in BOOLEAN /\ saving \in BOOLEAN
    /\ e \in Seq(Events) /\ stored \in Seq(Events) /\ taken \in Seq(Events)
    /\ alarms \subseteq Times
    /\ count \in 0..MaxEvents
    /\ ran \in [1..MaxEvents -> Nat]
    /\ cut \subseteq 1..MaxEvents
    /\ crashes \in 0..MaxCrashes /\ refused \in 0..MaxRefusals

Init ==
    /\ now = 0
    /\ singleSlot \in BOOLEAN
    /\ up = TRUE
    /\ e = <<>> /\ stored = <<>> /\ taken = <<>>
    /\ saving = FALSE
    /\ alarms = {}
    /\ count = 0
    /\ ran = [i \in 1..MaxEvents |-> 0]
    /\ cut = {} /\ crashes = 0 /\ refused = 0

-----------------------------------------------------------------------------
(* A definition named X_<defect> is X with a plausible defect, for the       *)
(* mutation runs only.                                                       *)

(* When a timer for time t runs: a delay beyond MaxDelay runs at once. *)
Due(t) == IF ~singleSlot /\ t - now > MaxDelay THEN now ELSE t

(* setAlarm(t), given the pending alarms. *)
SetAlarm(pending, t) == IF singleSlot THEN {t} ELSE pending \cup {Due(t)}

(* The pending alarms once the head of events, if any, has been armed. *)
ArmHead(pending, events) ==
    IF events = <<>> THEN pending ELSE SetAlarm(pending, Head(events).t)

(* An awaited setAlarm for the head of events.  A Durable Object may reject   *)
(* it: nothing is armed then and the caller throws.                          *)
Arm(pending, events) ==
    \/ /\ alarms' = ArmHead(pending, events)
       /\ UNCHANGED refused
    \/ /\ singleSlot /\ events # <<>> /\ refused < MaxRefusals
       /\ alarms' = pending
       /\ refused' = refused + 1

(* Where scheduleEvent inserts an event of time t: before the first later    *)
(* one, else at the end.                                                     *)
Position(t) ==
    LET i == SelectInSeq(e, LAMBDA x : x.t > t) IN IF i = 0 THEN Len(e) + 1 ELSE i

(* scheduleEvent(t), by an action (whose end saves) or by a scheduled event  *)
(* or a hook (whose end does not).                                           *)
ScheduleEvent_ArmsFirstOnly(t, byAction) ==
    /\ up
    /\ count < MaxEvents
    /\ count' = count + 1
    /\ e' = InsertAt(e, Position(t), [id |-> count', t |-> t])
    /\ IF Len(e') = 1 THEN Arm(alarms, e') ELSE UNCHANGED <<alarms, refused>>
    /\ saving' = (saving \/ byAction)
    /\ UNCHANGED <<now, singleSlot, up, taken, stored, ran, cut, crashes>>

ScheduleEvent(t, byAction) ==
    /\ up
    /\ count < MaxEvents
    /\ count' = count + 1
    /\ e' = InsertAt(e, Position(t), [id |-> count', t |-> t])
    /\ IF Position(t) = 1 THEN Arm(alarms, e') ELSE UNCHANGED <<alarms, refused>>
    /\ saving' = (saving \/ byAction)
    /\ UNCHANGED <<now, singleSlot, up, taken, stored, ran, cut, crashes>>

(* What onAlarm splices off: everything up to the first event that is due.   *)
(* In a sorted list that is the head alone.                                  *)
Runnable == LET i == SelectInSeq(e, LAMBDA x : x.t <= now) IN SubSeq(e, 1, i)

Ids(events) == {events[k].id : k \in DOMAIN events}

\* The loop of onAlarm calls the handlers; their own awaits come after.
Run(events) == ran' = [i \in 1..MaxEvents |->
                         ran[i] + Cardinality({k \in DOMAIN events : events[k].id = i})]

(* onAlarm begins: with no event due it returns and arms nothing; else it     *)
(* splices, without saving, and arms the next event before it goes on.  No    *)
(* driver calls it while another waits: a process timer's setAlarm takes a    *)
(* microtask, a Durable Object has one alarm() at a time.                     *)
OnAlarm_ForgetsNext(a) ==
    /\ up /\ taken = <<>>
    /\ a <= now + EarlyBy
    /\ e' = SubSeq(e, Len(Runnable) + 1, Len(e))
    /\ Run(Runnable)
    /\ alarms' = alarms \ {a}
    /\ UNCHANGED <<now, singleSlot, up, taken, stored, saving, count, cut, crashes, refused>>

OnAlarm_SliceForSplice(a) ==
    /\ up /\ taken = <<>>
    /\ a <= now + EarlyBy
    /\ Run(Runnable)
    /\ alarms' = IF Runnable = <<>> THEN alarms \ {a} ELSE ArmHead(alarms \ {a}, e)
    /\ UNCHANGED <<now, singleSlot, up, e, taken, stored, saving, count, cut, crashes, refused>>

OnAlarm(a) ==
    /\ up /\ taken = <<>>
    /\ a <= now + EarlyBy
    /\ e' = SubSeq(e, Len(Runnable) + 1, Len(e))
    /\ \/ /\ Runnable = <<>> \/ e' = <<>>
          /\ Run(Runnable)
          /\ alarms' = alarms \ {a}
          /\ UNCHANGED taken
       \/ /\ Runnable # <<>> /\ e' # <<>>
          /\ alarms' = ArmHead(alarms \ {a}, e')
          /\ taken' = Runnable
          /\ UNCHANGED ran
    /\ UNCHANGED <<now, singleSlot, up, stored, saving, count, cut, crashes, refused>>

(* The setAlarm that onAlarm awaits rejects: what was spliced off never runs. *)
(* The runtime may call alarm() again.                                       *)
OnAlarmRefused(a) ==
    /\ up /\ taken = <<>>
    /\ a <= now + EarlyBy
    /\ singleSlot /\ refused < MaxRefusals
    /\ Runnable # <<>> /\ Len(Runnable) < Len(e)
    /\ e' = SubSeq(e, Len(Runnable) + 1, Len(e))
    /\ cut' = cut \cup Ids(Runnable)
    /\ alarms' \in {alarms, alarms \ {a}}
    /\ refused' = refused + 1
    /\ UNCHANGED <<now, singleSlot, up, taken, stored, saving, count, ran, crashes>>

(* onAlarm goes on after its setAlarm. *)
RunTaken ==
    /\ up /\ taken # <<>>
    /\ Run(taken)
    /\ taken' = <<>>
    /\ UNCHANGED <<now, singleSlot, up, e, stored, saving, alarms, count, cut, crashes, refused>>

(* A write of the persisted data lands: one an action's end asked for, or    *)
(* one some other change of the state happens to bring.                      *)
Save ==
    /\ up
    /\ stored' = e
    /\ saving' = FALSE
    /\ UNCHANGED <<now, singleSlot, up, e, taken, alarms, historyVars>>

(* The process dies with its memory and its timers. *)
Crash ==
    /\ up
    /\ crashes < MaxCrashes
    /\ crashes' = crashes + 1
    /\ up' = FALSE
    /\ e' = <<>> /\ taken' = <<>>
    /\ cut' = cut \cup Ids(taken)
    /\ saving' = FALSE
    /\ alarms' = IF singleSlot THEN alarms ELSE {}
    /\ UNCHANGED <<now, singleSlot, stored, count, ran, refused>>

(* start(): load the persisted data and arm its first event.  A request makes *)
(* the driver call it, or the alarm of a Durable Object; no process timer     *)
(* does.  If its setAlarm rejects, the Durable Object keeps the instance.     *)
Start_ForgetsAlarm ==
    /\ ~up
    /\ up' = TRUE
    /\ e' = stored
    /\ UNCHANGED <<now, singleSlot, taken, stored, saving, alarms, historyVars>>

Start ==
    /\ ~up
    /\ up' = TRUE
    /\ e' = stored
    /\ Arm(alarms, stored)
    /\ UNCHANGED <<now, singleSlot, taken, stored, saving, count, ran, cut, crashes>>

Tick ==
    /\ now < MaxTime
    /\ now' = now + 1
    /\ UNCHANGED <<singleSlot, up, e, taken, stored, saving, alarms, historyVars>>

-----------------------------------------------------------------------------
Next ==
    \/ \E t \in Times, byAction \in BOOLEAN : ScheduleEvent(t, byAction)
    \/ \E a \in alarms : OnAlarm(a) \/ OnAlarmRefused(a)
    \/ RunTaken
    \/ Save \/ Crash \/ Start \/ Tick

Spec == Init /\ [][Next]_vars

\* A due alarm wakes a Durable Object that is down.
WakeByAlarm == singleSlot /\ (\E a \in alarms : a <= now) /\ Start

(* Time passes, due alarms fire, onAlarm goes on and requested saves land.    *)
(* Nothing makes anyone send the request that starts an actor.                *)
Fairness ==
    /\ WF_vars(Tick)
    /\ \A a \in Times : WF_vars(a \in alarms /\ OnAlarm(a))
    /\ WF_vars(RunTaken)
    /\ WF_vars(saving /\ Save)
    /\ WF_vars(WakeByAlarm)

FairSpec == Spec /\ Fairness

-----------------------------------------------------------------------------
(* Properties *)

Before(x, y) == x.t < y.t \/ (x.t = y.t /\ x.id < y.id)

Holds(events, i) == \E k \in DOMAIN events : events[k].id = i

(* A started actor with events is going to be woken no later than its first  *)
(* event asks: no insertion, run or restart leaves the head without an       *)
(* alarm.  (Not so when a timer fires early or cannot hold its delay, or a   *)
(* Durable Object rejected a setAlarm.)                                      *)
HeadIsArmed ==
    (up /\ e # <<>> /\ EarlyBy = 0 /\ MaxDelay >= MaxTime /\ refused = 0) =>
        \E a \in alarms : a <= now \/ a <= Head(e).t

(* Within a life an event leaves the list no earlier than its time and before *)
(* every event that stays (by time, and first scheduled first for equal       *)
(* times, also after a restart), to be run at once, after the setAlarm, or,   *)
(* if that rejects, never.                                                    *)
LeaveInOrder ==
    \A k \in DOMAIN e : (up /\ up' /\ ~Holds(e', e[k].id)) =>
        /\ e[k].t <= now
        /\ \A m \in DOMAIN e' : Before(e[k], e'[m])
        /\ ran'[e[k].id] > ran[e[k].id] \/ Holds(taken', e[k].id) \/ e[k].id \in cut'
LeavesInOrder == [][LeaveInOrder]_vars

(* Only a crash can make an event run again: each loses one removal.         *)
RunsOncePerLife == \A i \in 1..MaxEvents : ran[i] <= 1 + crashes

(* Unless the actor crashes or an alarm is rejected, every scheduled event is *)
(* run: the alarms that earlier and later insertions and runs leave behind    *)
(* suffice.                                                                   *)
ScheduledEventsRun ==
    \A i \in 1..MaxEvents : (count >= i) ~> (ran[i] > 0 \/ crashes > 0 \/ refused > 0)

(* Once written, an event is run, whatever crashes and restarts come, except  *)
(* that one which a crash caught between its removal and its run may be gone, *)
(* and that an actor with process timers sleeps on until a request starts it. *)
(* A Durable Object needs no request.                                         *)
StoredEventsRun ==
    \/ ~singleSlot /\ <>[]~up
    \/ \A i \in 1..MaxEvents :
          Holds(stored, i) ~> (ran[i] > 0 \/ i \in cut \/ refused > 0)

(* An event scheduled in the actor's first life was run, is in the list or in *)
(* the hands of an onAlarm: only a setAlarm that rejects drops one.           *)
NothingLost ==
    crashes = 0 => up /\ \A i \in 1..count :
                            ran[i] > 0 \/ Holds(e, i) \/ Holds(taken, i) \/ i \in cut

-----------------------------------------------------------------------------
(* The inductive invariant behind the theorems of ActorScheduleProofs.        *)

\* A list is ordered, and holds each event that was scheduled once at most.
WellFormed(s) ==
    \A k, m \in 1..Len(s) :
       /\ s[k].id <= count
       /\ k < m => Before(s[k], s[m]) /\ s[k].id # s[m].id

ListsAreWellFormed == WellFormed(e) /\ WellFormed(stored)

\* Early alarms apart, the head has an alarm of its own time.
HeadHasItsAlarm ==
    (up /\ e # <<>> /\ EarlyBy = 0 /\ MaxDelay >= MaxTime /\ refused = 0) => Head(e).t \in alarms

\* An onAlarm that awaits holds one event, which is no longer in the list.
OneIsTaken ==
    taken # <<>> => /\ up /\ Len(taken) = 1
                    /\ taken[1].id <= count /\ ~Holds(e, taken[1].id)

\* A life of the actor runs an event once, and only one that is in its list.
LivesLeft ==
    \A i \in 1..MaxEvents :
       /\ i > count => ran[i] = 0
       /\ ran[i] <= crashes + (IF up THEN 1 ELSE 0)
       /\ up /\ (Holds(e, i) \/ Holds(taken, i)) => ran[i] <= crashes

IInv ==
    /\ TypeOK /\ ListsAreWellFormed /\ OneIsTaken
    /\ HeadHasItsAlarm /\ LivesLeft /\ NothingLost
=============================================================================
