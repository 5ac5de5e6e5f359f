-------------------------- MODULE ActorPersistence --------------------------
(***************************************************************************)
(* How one running actor instance writes its state to its driver.          *)
(*                                                                         *)
(* User code changes the state through a proxy that sets #persistChanged;  *)
(* #savePersistThrottled, saveState and stop lead to #savePersistInner,    *)
(* which writes a snapshot under a promise-based Lock.  The state is       *)
(* abstracted to its version: the number of changes made so far.           *)
(*                                                                         *)
(* JavaScript runs to the next await without interruption, so a step of    *)
(* the model is a stretch between two awaits.  A waiter the Lock wakes     *)
(* resumes in a later microtask: other code may run in between.            *)
(***************************************************************************)
EXTENDS Naturals, Sequences

CONSTANTS
    Savers,       \* bound: calls of #savePersistInner pending at once
    Fifo,         \* the driver lands the writes of one actor in issue order
    MaxChanges,   \* bound: state changes
    MaxFailures   \* bound: driver writes that fail, changes that are refused

ASSUME ConstantsAssumption ==
    /\ Fifo \in BOOLEAN
    /\ MaxChanges \in Nat
    /\ MaxFailures \in Nat

VARIABLES
    mem,          \* version of #persistRaw
    disk,         \* version the driver holds
    dirty,        \* #persistChanged
    locked,       \* Lock._locked
    waiting,      \* Lock._waiting
    pc,           \* per saver: where its #savePersistInner is
    snap,         \* per writing saver: the version it encoded
    recent,       \* now - #lastSaveTime < saveInterval
    timer,        \* #pendingSaveTimeout is set
    promise,      \* #onPersistSavedPromise
    isStopping,
    stopSave,     \* the save that stop() awaits
    stopAt,       \* history: version in memory when stop() was called
    successor,    \* the next instance, once stop() has returned
    ahead,        \* the writes a FIFO driver does before what the successor asks
    loaded,       \* version the successor has loaded
    failures,     \* driver writes that failed, changes that were refused
    ended         \* history: version at the end of the last action

lockVars == <<locked, waiting>>
saverVars == <<pc, snap>>
handover == <<isStopping, stopSave, stopAt, successor, ahead, loaded>>
vars == <<mem, disk, dirty, lockVars, saverVars, recent, timer, promise,
          handover, failures, ended>>

Versions == 0..MaxChanges

TypeOK ==
    /\ mem \in Versions /\ disk \in Versions
    /\ dirty \in BOOLEAN /\ locked \in BOOLEAN
    /\ recent \in BOOLEAN /\ timer \in BOOLEAN
    /\ isStopping \in BOOLEAN
    /\ waiting \in Seq(Savers)
    /\ pc \in [Savers -> {"idle", "waiting", "woken", "writing"}]
    /\ snap \in [Savers -> Versions]
    /\ promise \in {"none", "pending", "resolved", "rejected"}
    /\ stopAt \in Versions /\ loaded \in Versions
    /\ successor \in {"none", "coming", "loaded"}
    /\ stopSave \subseteq Savers /\ ahead \subseteq Savers
    /\ ended \in Versions
    /\ failures \in 0..MaxFailures

(* start() has completed: #initialize has written version 0. *)
Init ==
    /\ mem = 0 /\ disk = 0
    /\ dirty = FALSE
    /\ locked = FALSE /\ waiting = <<>>
    /\ pc = [s \in Savers |-> "idle"]
    /\ snap = [s \in Savers |-> 0]
    /\ recent = FALSE /\ timer = FALSE
    /\ promise = "none"
    /\ isStopping = FALSE /\ stopSave = {} /\ stopAt = 0
    /\ successor = "none" /\ ahead = {} /\ loaded = 0
    /\ failures = 0
    /\ ended = 0

Writing == {s \in Savers : pc[s] = "writing"}

-----------------------------------------------------------------------------
(* #savePersistInner and Lock.lock *)

(* The lock body up to the driver call: the flag is cleared, the state       *)
(* encoded.  A woken waiter takes the lock without looking at _locked again. *)
StartWrite(s) ==
    /\ locked' = TRUE
    /\ dirty' = FALSE
    /\ snap' = [snap EXCEPT ![s] = mem]
    /\ pc' = [pc EXCEPT ![s] = "writing"]

(* onPersistSavedPromise?.resolve() lets everyone awaiting the promise        *)
(* return; the promise object stays.                                         *)
Saved == promise' = IF promise = "pending" THEN "resolved" ELSE promise

(* Defect: a caller that finds the lock taken skips its save. *)
EnterLock_GivesUp(s) ==
    IF locked
      THEN UNCHANGED <<lockVars, dirty, pc, snap>>
      ELSE StartWrite(s) /\ UNCHANGED waiting

(* Lock.lock by saver s, up to its first await. *)
EnterLock(s) ==
    IF locked
      THEN /\ waiting' = Append(waiting, s)
           /\ pc' = [pc EXCEPT ![s] = "waiting"]
           /\ UNCHANGED <<locked, dirty, snap>>
      ELSE StartWrite(s) /\ UNCHANGED waiting

(* A call of #savePersistInner by saver s, up to its first await. *)
SavePersistInner(s) ==
    /\ pc[s] = "idle"
    /\ recent' = TRUE
    /\ IF dirty
         THEN EnterLock(s) /\ UNCHANGED promise
         ELSE Saved /\ UNCHANGED <<lockVars, dirty, saverVars>>

(* Defect: within the window, no timer is set. *)
SavePersistThrottled_ForgetsTimer(s) ==
    \/ /\ ~recent
       /\ SavePersistInner(s)
       /\ UNCHANGED timer
    \/ /\ recent
       /\ UNCHANGED <<dirty, lockVars, saverVars, recent, timer, promise>>

(* #savePersistThrottled: within the window, leave it to the timer. *)
SavePersistThrottled(s) ==
    \/ /\ ~recent
       /\ SavePersistInner(s)
       /\ UNCHANGED timer
    \/ /\ recent
       /\ timer' = TRUE
       /\ UNCHANGED <<dirty, lockVars, saverVars, recent, promise>>

(* Defect: the state is encoded before the wait, not after it. *)
WaiterResumes_StaleSnapshot(s) ==
    /\ pc[s] = "woken"
    /\ locked' = TRUE
    /\ dirty' = FALSE
    /\ pc' = [pc EXCEPT ![s] = "writing"]
    /\ UNCHANGED <<mem, disk, waiting, snap, recent, timer, promise,
                   handover, failures, ended>>

(* The microtask of a woken waiter. *)
WaiterResumes(s) ==
    /\ pc[s] = "woken"
    /\ StartWrite(s)
    /\ UNCHANGED <<mem, disk, waiting, recent, timer, promise, handover,
                   failures, ended>>

(* Defect: the lock is opened and its waiters forgotten. *)
Unlock_WakesNobody(s) ==
    /\ locked' = FALSE
    /\ snap' = [snap EXCEPT ![s] = 0]
    /\ pc' = [pc EXCEPT ![s] = "idle"]
    /\ UNCHANGED waiting

(* The finally block of Lock.lock wakes the first waiter, and s returns. *)
Unlock(s) ==
    /\ locked' = FALSE
    /\ snap' = [snap EXCEPT ![s] = 0]
    /\ IF waiting = <<>>
         THEN pc' = [pc EXCEPT ![s] = "idle"] /\ UNCHANGED waiting
         ELSE /\ pc' = [pc EXCEPT ![s] = "idle", ![Head(waiting)] = "woken"]
              /\ waiting' = Tail(waiting)

\* Whoever waits for the save or its write goes on.
Returns(s) == stopSave' = stopSave \ {s} /\ ahead' = ahead \ {s}

(* A FIFO driver (Redis over one connection, memory) never lands a snapshot  *)
(* before an older one; the file system driver may.                          *)
MayLand(s) == Fifo => \A t \in Writing : snap[s] <= snap[t]

(* Defect: the flag is cleared when the write is done. *)
WriteLands_ClearsFlag(s) ==
    /\ pc[s] = "writing"
    /\ MayLand(s)
    /\ disk' = snap[s]
    /\ dirty' = FALSE
    /\ Unlock(s)
    /\ Saved
    /\ Returns(s)
    /\ UNCHANGED <<mem, recent, timer, isStopping, stopAt, successor, loaded,
                   failures, ended>>

(* The driver call returns: the lock is left, then the promise resolved. *)
WriteLands(s) ==
    /\ pc[s] = "writing"
    /\ MayLand(s)
    /\ disk' = snap[s]
    /\ Unlock(s)
    /\ Saved
    /\ Returns(s)
    /\ UNCHANGED <<mem, dirty, recent, timer, isStopping, stopAt, successor, loaded, failures,
                   ended>>

(* Defect: the promise is not rejected. *)
WriteFails_NoReject(s) ==
    /\ pc[s] = "writing"
    /\ failures < MaxFailures
    /\ failures' = failures + 1
    /\ Unlock(s)
    /\ Returns(s)
    /\ UNCHANGED <<mem, disk, dirty, recent, timer, promise,
                   isStopping, stopAt, successor, loaded, ended>>

(* The driver rejects.  The flag stays cleared.  If nobody awaits the save   *)
(* the rejection is unhandled: this behaviour goes on where the host         *)
(* survives one, and ends here where it exits.                               *)
WriteFails(s) ==
    /\ pc[s] = "writing"
    /\ failures < MaxFailures
    /\ failures' = failures + 1
    /\ Unlock(s)
    /\ promise' = IF promise = "pending" THEN "rejected" ELSE promise
    /\ Returns(s)
    /\ UNCHANGED <<mem, disk, dirty, recent, timer, isStopping, stopAt, successor, loaded,
                   ended>>

-----------------------------------------------------------------------------
(* Callers *)

(* User code (an action, also one past its timeout, or an alarm) assigns to  *)
(* the state; the onChange proxy flags it.                                   *)
Change ==
    /\ mem < MaxChanges
    /\ mem' = mem + 1
    /\ dirty' = TRUE
    /\ UNCHANGED <<disk, lockVars, saverVars, recent, timer, promise, handover,
                   failures, ended>>

(* A value that CBOR cannot hold: the proxy throws when the value is already  *)
(* in place, and flags nothing.                                              *)
ChangeThrows ==
    /\ mem < MaxChanges /\ failures < MaxFailures
    /\ mem' = mem + 1
    /\ failures' = failures + 1
    /\ UNCHANGED <<disk, dirty, lockVars, saverVars, recent, timer, promise, handover, ended>>

(* The finally block of executeAction. *)
ActionEnds(s) ==
    /\ SavePersistThrottled(s)
    /\ ended' = mem
    /\ UNCHANGED <<mem, disk, handover, failures>>

(* saveState({ immediate: true }): with nothing flagged it returns at once.  *)
SaveImmediate(s) ==
    /\ IF dirty
         THEN SavePersistInner(s)
         ELSE UNCHANGED <<dirty, lockVars, saverVars, recent, promise>>
    /\ UNCHANGED <<mem, disk, timer, failures, ended>>

SaveStateImmediate(s) == SaveImmediate(s) /\ UNCHANGED handover

(* Defect: stop() leaves its save to the throttle. *)
Stop_Throttled(s) ==
    /\ ~isStopping
    /\ isStopping' = TRUE /\ stopAt' = mem
    /\ SavePersistThrottled(s)
    /\ UNCHANGED <<mem, disk, stopSave, successor, ahead, loaded, failures, ended>>

(* stop() saves first, and is entered once.  Running actions, the timer and   *)
(* queued saves go on.                                                        *)
Stop(s) ==
    /\ ~isStopping
    /\ isStopping' = TRUE /\ stopAt' = mem
    /\ stopSave' = IF dirty THEN {s} ELSE {}
    /\ SaveImmediate(s)
    /\ UNCHANGED <<successor, ahead, loaded>>

(* Once stop() has returned the peer releases the lease and another node may  *)
(* load the actor.  (If it throws, the lease runs out.)  The release follows  *)
(* the writes issued before it over the same connection, and no later one.    *)
ReleaseLease ==
    /\ isStopping /\ successor = "none"
    /\ stopSave = {}
    /\ successor' = "coming"
    /\ ahead' = IF Fifo THEN Writing ELSE {}
    /\ UNCHANGED <<mem, disk, dirty, lockVars, saverVars, recent, timer, promise,
                   isStopping, stopSave, stopAt, loaded, failures, ended>>

SuccessorLoads ==
    /\ successor = "coming" /\ ahead = {}
    /\ successor' = "loaded"
    /\ loaded' = disk
    /\ UNCHANGED <<mem, disk, dirty, lockVars, saverVars, recent, timer, promise,
                   isStopping, stopSave, stopAt, ahead, failures, ended>>

(* saveState({}) with changes: create the promise if there is none, save     *)
(* throttled, await the promise, all in one stretch.  A promise settled by   *)
(* an earlier save is still there and returns (or throws) at once.           *)
SaveStateThrottled(s) ==
    /\ dirty
    /\ promise' = IF promise = "none" THEN "pending" ELSE promise
    /\ \/ /\ ~recent
          /\ pc[s] = "idle"
          /\ recent' = TRUE
          /\ EnterLock(s)
          /\ UNCHANGED timer
       \/ /\ recent
          /\ timer' = TRUE
          /\ UNCHANGED <<dirty, lockVars, pc, snap, recent>>
    /\ UNCHANGED <<mem, disk, handover, failures, ended>>

(* The throttle window closes. *)
WindowCloses ==
    /\ recent
    /\ recent' = FALSE
    /\ UNCHANGED <<mem, disk, dirty, lockVars, saverVars, timer, promise, handover,
                   failures, ended>>

(* The callback of #pendingSaveTimeout. *)
TimerFires(s) ==
    /\ timer
    /\ timer' = FALSE
    /\ SavePersistInner(s)
    /\ UNCHANGED <<mem, disk, handover, failures, ended>>

-----------------------------------------------------------------------------
Next ==
    \/ Change \/ ChangeThrows
    \/ WindowCloses
    \/ ReleaseLease \/ SuccessorLoads
    \/ \E s \in Savers :
         \/ WaiterResumes(s) \/ WriteLands(s) \/ WriteFails(s)
         \/ ActionEnds(s) \/ SaveStateImmediate(s) \/ SaveStateThrottled(s)
         \/ TimerFires(s) \/ Stop(s)

Spec == Init /\ [][Next]_vars

(* Microtasks run, the driver settles every write, timers fire; user code    *)
(* need not do anything.                                                     *)
Fairness ==
    /\ \A s \in Savers :
         WF_vars(WaiterResumes(s)) /\ WF_vars(WriteLands(s) \/ WriteFails(s))
    /\ WF_vars(\E s \in Savers : TimerFires(s))

FairSpec == Spec /\ Fairness

-----------------------------------------------------------------------------
(* Properties *)

(* What is in memory and not on disk is tracked: the flag is set, or a write *)
(* of exactly this version is in flight (the flag is cleared before the      *)
(* write, so a change made during it must be flagged again).                 *)
NoUntrackedChange ==
    (Fifo /\ failures = 0 /\ ~dirty /\ disk # mem) => \E s \in Writing : snap[s] = mem

(* A flagged change an action ended with has a save coming, by the timer or  *)
(* by a waiter of the lock; no action or saveState need follow.              *)
SaveIsComing ==
    (dirty /\ ended = mem) => timer \/ \E s \in Savers : pc[s] \in {"waiting", "woken"}

(* The waiters of the lock are not stranded: whoever is to wake the first of *)
(* them is running, although a woken waiter and a newcomer may both hold it. *)
WaiterHasWaker ==
    waiting # <<>> => \E s \in Savers : pc[s] \in {"woken", "writing"}

(* A snapshot never replaces a newer one in the driver, although two writes  *)
(* may be in flight.                                                         *)
Newer == disk <= disk'
NeverOverwritten == [][Newer]_vars

(* What an action left behind reaches the driver, with no further call, as   *)
(* long as no write fails (executeAction, #savePersistThrottled).            *)
ActionsAreSaved == \A v \in Versions : (ended >= v) ~> (disk >= v \/ failures > 0)

(* "We wait for this to finish to ensure that state is persisted safely to    *)
(* storage" (actor-peer.ts:324): a successor loads whatever was in memory     *)
(* when stop() was called, flagged, queued at the lock or in flight, as long  *)
(* as no write fails.  What changes later is lost to it.                      *)
HandoverIsComplete ==
    (Fifo /\ failures = 0 /\ successor = "loaded") => stopAt <= loaded

(* The inductive invariant the proofs use: snapshots lie between the driver  *)
(* and memory, and Lock's flag and queue belong to running savers.           *)
SnapshotsBetween ==
    /\ disk <= mem
    /\ \A s \in Writing : snap[s] <= mem /\ (Fifo => disk <= snap[s])

EndedBefore == ended <= mem

(* What stop() was called for is on its way: stored, in a write in flight, or *)
(* to be written by the save stop() waits for; then stored or in a write the  *)
(* successor's load comes after; then loaded.                                 *)
Covers(s) == s \in Writing /\ stopAt <= snap[s]

StopIsCovered ==
    /\ stopAt <= mem
    /\ (Fifo /\ failures = 0 /\ isStopping) =>
          \/ successor = "none"
             /\ \/ stopAt <= disk
                \/ \E s \in Savers : Covers(s)
                \/ \E s \in stopSave : pc[s] \in {"waiting", "woken"}
          \/ successor = "coming"
             /\ (stopAt <= disk \/ \E s \in ahead : Covers(s))
          \/ successor = "loaded" /\ stopAt <= loaded
    /\ successor # "none" => isStopping

LockIsHeld == locked => Writing # {}

WaitersWait ==
    /\ \A i \in 1..Len(waiting) : pc[waiting[i]] = "waiting"
    /\ \A i, j \in 1..Len(waiting) : waiting[i] = waiting[j] => i = j

IInv ==
    /\ TypeOK
    /\ SnapshotsBetween
    /\ EndedBefore
    /\ LockIsHeld
    /\ WaitersWait
    /\ NoUntrackedChange
    /\ SaveIsComing
    /\ WaiterHasWaker
    /\ StopIsCovered

(* A throttled saveState returns or throws at last: every way a save can end *)
(* settles the promise, and one is always coming while it is pending.        *)
ThrottledSavesSettle == (promise = "pending") ~> (promise # "pending")

(* Not what the code does: "This function will return when the state has      *)
(* saved successfully" (SaveStateOptions.immediate).  With nothing flagged it *)
(* returns at once, although the write may be in flight or have failed.       *)
SavedOnReturn == ~dirty => disk = mem

=============================================================================
