----------------------- MODULE ActorPersistenceProofs -----------------------
(* Proofs about ActorPersistence, for any number of concurrent saves.        *)
EXTENDS ActorPersistence, TLAPS

USE ConstantsAssumption DEF ConstantsAssumption

(* The initial state satisfies the inductive invariant. *)
LEMMA InitInv == Init => IInv
<1>1. SUFFICES ASSUME Init PROVE IInv
  OBVIOUS
<1>2. waiting \in Seq(Savers) /\ waiting = <<>>
  BY <1>1 DEF Init
<1>3. TypeOK
  <2>1. 0 \in Versions /\ 0 \in 0..MaxFailures
    BY DEF Versions
  <2>2. /\ pc \in [Savers -> {"idle", "waiting", "woken", "writing"}]
        /\ snap \in [Savers -> Versions]
    BY <1>1, <2>1 DEF Init
  <2> QED
    BY <1>1, <1>2, <2>1, <2>2 DEF Init, TypeOK
<1>4. SnapshotsBetween /\ EndedBefore /\ LockIsHeld /\ WaitersWait
  BY <1>1, <1>2 DEF Init, SnapshotsBetween, EndedBefore, LockIsHeld, WaitersWait, Writing
<1>5. NoUntrackedChange /\ SaveIsComing /\ WaiterHasWaker /\ StopIsCovered
  BY <1>1, <1>2 DEF Init, NoUntrackedChange, SaveIsComing, WaiterHasWaker, StopIsCovered
<1> QED
  BY <1>3, <1>4, <1>5 DEF IInv

-----------------------------------------------------------------------------
(* What a step does to the lock, the flag and the snapshots *)

Starts(s) ==
    /\ pc[s] = "woken" \/ (pc[s] = "idle" /\ ~locked)
    /\ StartWrite(s)
    /\ UNCHANGED <<mem, disk, waiting, failures>>

Queues(s) ==
    /\ pc[s] = "idle" /\ locked
    /\ waiting' = Append(waiting, s)
    /\ pc' = [pc EXCEPT ![s] = "waiting"]
    /\ UNCHANGED <<mem, disk, locked, dirty, snap, failures>>

Ends(s) ==
    /\ pc[s] = "writing"
    /\ Unlock(s)
    /\ \/ MayLand(s) /\ disk' = snap[s] /\ UNCHANGED failures
       \/ failures \in Nat /\ failures' = failures + 1 /\ UNCHANGED disk
    /\ UNCHANGED <<mem, dirty>>

Changes ==
    /\ mem' = mem + 1
    /\ \/ dirty' /\ UNCHANGED failures
       \/ UNCHANGED dirty /\ failures \in Nat /\ failures' = failures + 1
    /\ UNCHANGED <<disk, lockVars, pc, snap>>

Keeps == UNCHANGED <<mem, disk, dirty, lockVars, pc, snap, failures>>

(* Every step of the actor is one of these five kinds. *)
LEMMA StepKinds ==
    ASSUME TypeOK, [Next]_vars
    PROVE  \/ Changes \/ Keeps
           \/ \E s \in Savers : Starts(s) \/ Queues(s) \/ Ends(s)
<1>1. CASE Change \/ ChangeThrows
  BY <1>1 DEF Change, ChangeThrows, Changes, saverVars, TypeOK
<1>2. CASE WindowCloses \/ ReleaseLease \/ SuccessorLoads \/ UNCHANGED vars
  BY <1>2 DEF WindowCloses, ReleaseLease, SuccessorLoads, vars, Keeps, saverVars, lockVars
<1>3. ASSUME NEW s \in Savers, WaiterResumes(s)
      PROVE  Starts(s)
  BY <1>3 DEF WaiterResumes, Starts
<1>4. ASSUME NEW s \in Savers, WriteLands(s) \/ WriteFails(s)
      PROVE  Ends(s)
  BY <1>4 DEF WriteLands, WriteFails, Ends, TypeOK
<1>5. ASSUME NEW s \in Savers, pc[s] = "idle", EnterLock(s),
             UNCHANGED <<mem, disk, failures>>
      PROVE  Starts(s) \/ Queues(s)
  BY <1>5 DEF EnterLock, Starts, Queues
<1>6. ASSUME NEW s \in Savers, SavePersistInner(s),
             UNCHANGED <<mem, disk, failures>>
      PROVE  Keeps \/ Starts(s) \/ Queues(s)
  BY <1>5, <1>6 DEF SavePersistInner, Keeps, saverVars
<1>7. ASSUME NEW s \in Savers, ActionEnds(s)
      PROVE  Keeps \/ Starts(s) \/ Queues(s)
  BY <1>6, <1>7 DEF ActionEnds, SavePersistThrottled, Keeps, saverVars
<1>8. ASSUME NEW s \in Savers, SaveStateImmediate(s) \/ Stop(s)
      PROVE  Keeps \/ Starts(s) \/ Queues(s)
  BY <1>6, <1>8 DEF SaveStateImmediate, Stop, SaveImmediate, Keeps, saverVars
<1>9. ASSUME NEW s \in Savers, SaveStateThrottled(s)
      PROVE  Keeps \/ Starts(s) \/ Queues(s)
  BY <1>5, <1>9 DEF SaveStateThrottled, Keeps, saverVars
<1>10. ASSUME NEW s \in Savers, TimerFires(s)
       PROVE  Keeps \/ Starts(s) \/ Queues(s)
  BY <1>6, <1>10 DEF TimerFires
<1> QED
  BY <1>1, <1>2, <1>3, <1>4, <1>7, <1>8, <1>9, <1>10 DEF Next

-----------------------------------------------------------------------------
(* Types *)

(* Every step keeps the types. *)
LEMMA StepType == TypeOK /\ [Next]_vars => TypeOK'
<1> SUFFICES ASSUME TypeOK, [Next]_vars PROVE TypeOK'
  OBVIOUS
<1> USE DEF TypeOK, saverVars, lockVars, handover
<1>1. 0 \in Versions
  BY DEF Versions
<1>2. ASSUME NEW s \in Savers, StartWrite(s)
      PROVE  /\ dirty' \in BOOLEAN /\ locked' \in BOOLEAN
             /\ snap' \in [Savers -> Versions]
             /\ pc' \in [Savers -> {"idle", "waiting", "woken", "writing"}]
  BY <1>2 DEF StartWrite
<1>3. ASSUME NEW s \in Savers, EnterLock(s)
      PROVE  /\ dirty' \in BOOLEAN /\ locked' \in BOOLEAN
             /\ waiting' \in Seq(Savers)
             /\ snap' \in [Savers -> Versions]
             /\ pc' \in [Savers -> {"idle", "waiting", "woken", "writing"}]
  <2>1. CASE locked
    BY <1>3, <2>1 DEF EnterLock
  <2>2. CASE ~locked
    BY <1>2, <1>3, <2>2 DEF EnterLock
  <2> QED
    BY <2>1, <2>2
<1>4. ASSUME Saved
      PROVE  promise' \in {"none", "pending", "resolved", "rejected"}
  BY <1>4 DEF Saved
<1>5. ASSUME NEW s \in Savers, SavePersistInner(s)
      PROVE  /\ dirty' \in BOOLEAN /\ locked' \in BOOLEAN /\ recent' \in BOOLEAN
             /\ waiting' \in Seq(Savers)
             /\ snap' \in [Savers -> Versions]
             /\ pc' \in [Savers -> {"idle", "waiting", "woken", "writing"}]
             /\ promise' \in {"none", "pending", "resolved", "rejected"}
  BY <1>3, <1>4, <1>5 DEF SavePersistInner
<1>6. ASSUME NEW s \in Savers, Unlock(s)
      PROVE  /\ locked' \in BOOLEAN /\ waiting' \in Seq(Savers)
             /\ snap' \in [Savers -> Versions]
             /\ pc' \in [Savers -> {"idle", "waiting", "woken", "writing"}]
  <2>1. 0 \in Versions
    BY DEF Versions
  <2>2. waiting # <<>> => Head(waiting) \in Savers /\ Tail(waiting) \in Seq(Savers)
    OBVIOUS
  <2> QED
    BY <1>6, <2>1, <2>2 DEF Unlock
<1>7. ASSUME NEW s \in Savers, WaiterResumes(s) PROVE TypeOK'
  BY <1>2, <1>7 DEF WaiterResumes
<1>8. ASSUME NEW s \in Savers, WriteLands(s) PROVE TypeOK'
  <2>1. disk' \in Versions
    BY <1>8 DEF WriteLands
  <2>2. stopSave' \subseteq Savers /\ ahead' \subseteq Savers
    BY <1>8 DEF WriteLands, Returns
  <2> QED
    BY <1>4, <1>6, <1>8, <2>1, <2>2 DEF WriteLands
<1>9. ASSUME NEW s \in Savers, WriteFails(s) PROVE TypeOK'
  <2>1. failures' \in 0..MaxFailures
    BY <1>9 DEF WriteFails
  <2>2. stopSave' \subseteq Savers /\ ahead' \subseteq Savers
    BY <1>9 DEF WriteFails, Returns
  <2> QED
    BY <1>6, <1>9, <2>1, <2>2 DEF WriteFails
<1>10. CASE Change \/ ChangeThrows
  <2>1. mem' \in Versions
    BY <1>10 DEF Change, ChangeThrows, Versions
  <2>2. failures' \in 0..MaxFailures
    BY <1>10 DEF Change, ChangeThrows
  <2>3. dirty' \in BOOLEAN
    BY <1>10 DEF Change, ChangeThrows
  <2> QED
    BY <1>10, <2>1, <2>2, <2>3 DEF Change, ChangeThrows
<1>11. CASE WindowCloses
  BY <1>11 DEF WindowCloses
<1>12. ASSUME NEW s \in Savers, ActionEnds(s) PROVE TypeOK'
  <2>1. CASE recent
    BY <1>12, <2>1 DEF ActionEnds, SavePersistThrottled
  <2>2. CASE SavePersistInner(s) /\ UNCHANGED timer
    BY <1>5, <1>12, <2>2 DEF ActionEnds
  <2> QED
    BY <1>12, <2>1, <2>2 DEF ActionEnds, SavePersistThrottled
<1>13. ASSUME NEW s \in Savers, SaveStateImmediate(s) \/ Stop(s) PROVE TypeOK'
  <2>1. /\ SaveImmediate(s)
        /\ isStopping' \in BOOLEAN /\ stopAt' \in Versions
        /\ stopSave' \subseteq Savers
        /\ UNCHANGED <<successor, ahead, loaded>>
    BY <1>13 DEF SaveStateImmediate, Stop
  <2>2. CASE SavePersistInner(s)
    BY <1>5, <2>1, <2>2 DEF SaveImmediate
  <2> QED
    BY <2>1, <2>2 DEF SaveImmediate
<1>14. ASSUME NEW s \in Savers, SaveStateThrottled(s) PROVE TypeOK'
  <2>1. promise' \in {"none", "pending", "resolved", "rejected"}
    BY <1>14 DEF SaveStateThrottled
  <2>2. /\ dirty' \in BOOLEAN /\ locked' \in BOOLEAN /\ recent' \in BOOLEAN
        /\ timer' \in BOOLEAN /\ waiting' \in Seq(Savers)
        /\ snap' \in [Savers -> Versions]
        /\ pc' \in [Savers -> {"idle", "waiting", "woken", "writing"}]
    BY <1>3, <1>14 DEF SaveStateThrottled
  <2> QED
    BY <1>14, <2>1, <2>2 DEF SaveStateThrottled
<1>15. ASSUME NEW s \in Savers, TimerFires(s) PROVE TypeOK'
  BY <1>5, <1>15 DEF TimerFires
<1>16. CASE ReleaseLease
  BY <1>16 DEF ReleaseLease, Writing
<1>17. CASE SuccessorLoads
  BY <1>17 DEF SuccessorLoads
<1>18. CASE UNCHANGED vars
  BY <1>18 DEF vars
<1> QED
  BY <1>7, <1>8, <1>9, <1>10, <1>11, <1>12, <1>13, <1>14, <1>15, <1>16, <1>17, <1>18
     DEF Next

-----------------------------------------------------------------------------
(* The lock *)

(* The queue holds distinct savers, each still waiting: the one woken is     *)
(* neither the one that ends nor in the rest of the queue.                   *)
LEMMA WaitersStep ==
    ASSUME TypeOK, WaitersWait, [Next]_vars
    PROVE  WaitersWait'
<1> USE DEF TypeOK, WaitersWait
<1>1. CASE Changes \/ Keeps
  BY <1>1 DEF Changes, Keeps, lockVars
<1>2. ASSUME NEW s \in Savers, Starts(s) PROVE WaitersWait'
  BY <1>2 DEF Starts, StartWrite
<1>3. ASSUME NEW s \in Savers, Queues(s) PROVE WaitersWait'
  <2>1. /\ Len(waiting) \in Nat
        /\ Len(waiting') = Len(waiting) + 1
        /\ waiting'[Len(waiting) + 1] = s
        /\ \A i \in 1..Len(waiting) : waiting'[i] = waiting[i]
    BY <1>3 DEF Queues
  <2>2. \A i \in 1..Len(waiting) : waiting[i] \in Savers /\ waiting[i] # s
    BY <1>3 DEF Queues
  <2>3. \A i \in 1..Len(waiting') : pc'[waiting'[i]] = "waiting"
    <3> TAKE i \in 1..Len(waiting')
    <3>1. CASE i = Len(waiting) + 1
      BY <1>3, <2>1, <3>1 DEF Queues
    <3>2. CASE i \in 1..Len(waiting)
      BY <1>3, <2>1, <2>2, <3>2 DEF Queues
    <3> QED
      BY <2>1, <3>1, <3>2
  <2>4. \A i, j \in 1..Len(waiting') : waiting'[i] = waiting'[j] => i = j
    BY <2>1, <2>2
  <2> QED
    BY <2>3, <2>4
<1>4. ASSUME NEW s \in Savers, Ends(s) PROVE WaitersWait'
  <2>1. CASE waiting = <<>>
    BY <1>4, <2>1 DEF Ends, Unlock
  <2>2. CASE waiting # <<>>
    <3>1. /\ Len(waiting) \in Nat \ {0}
          /\ Head(waiting) = waiting[1]
          /\ Len(Tail(waiting)) = Len(waiting) - 1
          /\ \A i \in 1..Len(Tail(waiting)) : Tail(waiting)[i] = waiting[i + 1]
      BY <2>2
    <3>2. \A i \in 1..Len(Tail(waiting)) :
            /\ pc[waiting[i + 1]] = "waiting"
            /\ waiting[i + 1] \in Savers
            /\ waiting[i + 1] # Head(waiting) /\ waiting[i + 1] # s
      BY <1>4, <3>1 DEF Ends
    <3>3. /\ waiting' = Tail(waiting)
          /\ \A t \in Savers : (t # s /\ t # Head(waiting)) => pc'[t] = pc[t]
      BY <1>4, <2>2 DEF Ends, Unlock
    <3>4. \A i \in 1..Len(waiting') : pc'[waiting'[i]] = "waiting"
      BY <3>1, <3>2, <3>3
    <3>5. \A i, j \in 1..Len(waiting') : waiting'[i] = waiting'[j] => i = j
      BY <3>1, <3>3
    <3> QED
      BY <3>4, <3>5
  <2> QED
    BY <2>1, <2>2
<1> QED
  BY <1>1, <1>2, <1>3, <1>4, StepKinds

(* The lock's flag is set only while some saver writes. *)
LEMMA LockStep ==
    ASSUME TypeOK, LockIsHeld, [Next]_vars
    PROVE  LockIsHeld'
<1> USE DEF TypeOK, LockIsHeld, Writing
<1>1. CASE Changes \/ Keeps
  BY <1>1 DEF Changes, Keeps, lockVars
<1>2. ASSUME NEW s \in Savers, Starts(s) PROVE LockIsHeld'
  BY <1>2 DEF Starts, StartWrite
<1>3. ASSUME NEW s \in Savers, Queues(s) PROVE LockIsHeld'
  BY <1>3 DEF Queues
<1>4. ASSUME NEW s \in Savers, Ends(s) PROVE LockIsHeld'
  BY <1>4 DEF Ends, Unlock
<1> QED
  BY <1>1, <1>2, <1>3, <1>4, StepKinds

(* A non-empty queue always has a running saver that will wake its head. *)
LEMMA WakerStep ==
    ASSUME TypeOK, LockIsHeld, WaitersWait, WaiterHasWaker, [Next]_vars
    PROVE  WaiterHasWaker'
<1> USE DEF TypeOK, WaiterHasWaker
<1>1. CASE Changes \/ Keeps
  BY <1>1 DEF Changes, Keeps, lockVars
<1>2. ASSUME NEW s \in Savers, Starts(s) PROVE WaiterHasWaker'
  BY <1>2 DEF Starts, StartWrite
<1>3. ASSUME NEW s \in Savers, Queues(s) PROVE WaiterHasWaker'
  BY <1>3 DEF Queues, LockIsHeld, Writing
<1>4. ASSUME NEW s \in Savers, Ends(s) PROVE WaiterHasWaker'
  <2>1. CASE waiting = <<>>
    BY <1>4, <2>1 DEF Ends, Unlock
  <2>2. CASE waiting # <<>>
    <3>1. Head(waiting) \in Savers /\ pc[Head(waiting)] = "waiting"
      BY <2>2 DEF WaitersWait
    <3> QED
      BY <1>4, <2>2, <3>1 DEF Ends, Unlock
  <2> QED
    BY <2>1, <2>2
<1> QED
  BY <1>1, <1>2, <1>3, <1>4, StepKinds

-----------------------------------------------------------------------------
(* Snapshots *)

(* What Unlock does to the savers: s is done, the others that write go on    *)
(* writing the same snapshot, and none starts.                               *)
LEMMA UnlockKeepsWriters ==
    ASSUME TypeOK, WaitersWait, NEW s \in Savers, Ends(s)
    PROVE  /\ Writing' = Writing \ {s}
           /\ \A t \in Writing' : snap'[t] = snap[t]
<1> USE DEF TypeOK, Writing
<1>1. CASE waiting = <<>>
  BY <1>1 DEF Ends, Unlock
<1>2. CASE waiting # <<>>
  <2>1. Head(waiting) \in Savers /\ pc[Head(waiting)] = "waiting"
    BY <1>2 DEF WaitersWait
  <2> QED
    BY <1>2, <2>1 DEF Ends, Unlock
<1> QED
  BY <1>1, <1>2

(* Snapshots stay between what the driver holds and what memory holds, and   *)
(* with a FIFO driver the driver's version never decreases.                  *)
LEMMA SnapshotsStep ==
    ASSUME TypeOK, WaitersWait, SnapshotsBetween, [Next]_vars
    PROVE  SnapshotsBetween' /\ (Fifo => disk <= disk')
<1> USE DEF TypeOK, SnapshotsBetween, Versions
<1>1. CASE Changes \/ Keeps
  BY <1>1 DEF Changes, Keeps, Writing
<1>2. ASSUME NEW s \in Savers, Starts(s)
      PROVE  SnapshotsBetween' /\ (Fifo => disk <= disk')
  BY <1>2 DEF Starts, StartWrite, Writing
<1>3. ASSUME NEW s \in Savers, Queues(s)
      PROVE  SnapshotsBetween' /\ (Fifo => disk <= disk')
  BY <1>3 DEF Queues, Writing
<1>4. ASSUME NEW s \in Savers, Ends(s)
      PROVE  SnapshotsBetween' /\ (Fifo => disk <= disk')
  <2>1. s \in Writing /\ mem' = mem
    BY <1>4 DEF Ends, Writing
  <2>2. CASE MayLand(s) /\ disk' = snap[s]
    BY <1>4, <2>1, <2>2, UnlockKeepsWriters DEF MayLand
  <2>3. CASE disk' = disk
    BY <1>4, <2>1, <2>3, UnlockKeepsWriters, SMTT(30)
  <2> QED
    BY <1>4, <2>2, <2>3 DEF Ends
<1> QED
  BY <1>1, <1>2, <1>3, <1>4, StepKinds

(* Unflagged memory that the driver lacks keeps a write in flight. *)
LEMMA TrackedStep ==
    ASSUME TypeOK, WaitersWait, SnapshotsBetween, NoUntrackedChange, [Next]_vars
    PROVE  NoUntrackedChange'
<1> USE DEF TypeOK, NoUntrackedChange, Versions
<1>1. CASE Changes \/ Keeps
  BY <1>1 DEF Changes, Keeps, Writing
<1>2. ASSUME NEW s \in Savers, Starts(s) PROVE NoUntrackedChange'
  BY <1>2 DEF Starts, StartWrite, Writing
<1>3. ASSUME NEW s \in Savers, Queues(s) PROVE NoUntrackedChange'
  BY <1>3 DEF Queues, Writing
<1>4. ASSUME NEW s \in Savers, Ends(s) PROVE NoUntrackedChange'
  <2>1. mem' = mem /\ dirty' = dirty
    BY <1>4 DEF Ends
  <2>2. CASE MayLand(s) /\ disk' = snap[s] /\ UNCHANGED failures
    <3>1. SUFFICES ASSUME Fifo, failures = 0, ~dirty, disk' # mem
                   PROVE  \E t \in Writing' : snap'[t] = mem
      BY <2>1, <2>2
    <3>2. snap[s] # mem /\ s \in Writing
      BY <1>4, <2>2, <3>1 DEF Ends, Writing
    <3>3. PICK t \in Writing : snap[t] = mem
      <4>1. CASE disk # mem
        BY <3>1, <4>1
      <4>2. CASE disk = mem
        BY <3>1, <3>2, <4>2 DEF SnapshotsBetween, Writing
      <4> QED
        BY <4>1, <4>2
    <3> QED
      BY <1>4, <3>2, <3>3, UnlockKeepsWriters
  <2>3. CASE failures \in Nat /\ failures' = failures + 1
    BY <2>3
  <2> QED
    BY <1>4, <2>2, <2>3 DEF Ends
<1> QED
  BY <1>1, <1>2, <1>3, <1>4, StepKinds

(* The last action ended with a version memory has reached. *)
LEMMA EndedStep ==
    ASSUME TypeOK, EndedBefore, [Next]_vars
    PROVE  EndedBefore'
<1> USE DEF TypeOK, EndedBefore, Versions
<1>1. CASE Change \/ ChangeThrows
  BY <1>1 DEF Change, ChangeThrows
<1>2. CASE WindowCloses \/ ReleaseLease \/ SuccessorLoads \/ UNCHANGED vars
  BY <1>2 DEF WindowCloses, ReleaseLease, SuccessorLoads, vars
<1>3. ASSUME NEW s \in Savers,
             WaiterResumes(s) \/ WriteLands(s) \/ WriteFails(s) \/ ActionEnds(s)
      PROVE  EndedBefore'
  BY <1>3 DEF WaiterResumes, WriteLands, WriteFails, ActionEnds
<1>4. ASSUME NEW s \in Savers,
             \/ SaveStateImmediate(s) \/ Stop(s)
             \/ SaveStateThrottled(s) \/ TimerFires(s)
      PROVE  EndedBefore'
  BY <1>4 DEF SaveStateImmediate, Stop, SaveImmediate, SaveStateThrottled, TimerFires
<1> QED
  BY <1>1, <1>2, <1>3, <1>4 DEF Next

(* A flagged change an action ended with keeps its timer or its waiter. *)
LEMMA ComingStep ==
    ASSUME TypeOK, EndedBefore, SaveIsComing, [Next]_vars
    PROVE  SaveIsComing'
<1> USE DEF TypeOK, SaveIsComing, saverVars, lockVars
<1> DEFINE Queued == \E s \in Savers : pc[s] \in {"waiting", "woken"}
<1>1. ASSUME NEW s \in Savers, Starts(s) PROVE SaveIsComing'
  BY <1>1 DEF Starts, StartWrite
<1>2. ASSUME NEW s \in Savers, Queues(s) PROVE SaveIsComing'
  BY <1>2 DEF Queues
<1>3. ASSUME NEW s \in Savers, Ends(s), UNCHANGED <<ended, timer>>
      PROVE  SaveIsComing'
  <2>1. Queued => Queued'
    <3>1. CASE waiting = <<>>
      BY <1>3, <3>1 DEF Ends, Unlock
    <3>2. CASE waiting # <<>>
      <4>1. Head(waiting) \in Savers
        BY <3>2
      <4> QED
        BY <1>3, <3>2, <4>1 DEF Ends, Unlock
    <3> QED
      BY <3>1, <3>2
  <2> QED
    BY <1>3, <2>1 DEF Ends
<1>4. ASSUME NEW s \in Savers, WaiterResumes(s) PROVE SaveIsComing'
  BY <1>4 DEF WaiterResumes, StartWrite
<1>5. ASSUME NEW s \in Savers, WriteLands(s) \/ WriteFails(s) PROVE SaveIsComing'
  <2>1. Ends(s) /\ UNCHANGED <<ended, timer>>
    BY <1>5 DEF WriteLands, WriteFails, Ends
  <2> QED
    BY <1>3, <2>1
<1>6. CASE Change \/ ChangeThrows
  <2>1. mem' # ended'
    <3>1. mem' = mem + 1 /\ ended' = ended
      BY <1>6 DEF Change, ChangeThrows
    <3>2. mem \in Nat /\ ended \in Nat /\ ended <= mem
      BY DEF EndedBefore, Versions
    <3> QED
      BY <3>1, <3>2
  <2> QED
    BY <2>1
<1>7. CASE WindowCloses \/ ReleaseLease \/ SuccessorLoads \/ UNCHANGED vars
  BY <1>7 DEF WindowCloses, ReleaseLease, SuccessorLoads, vars
<1>8. ASSUME NEW s \in Savers, pc[s] = "idle", EnterLock(s)
      PROVE  SaveIsComing'
  BY <1>8 DEF EnterLock, StartWrite
<1>9. ASSUME NEW s \in Savers, SavePersistInner(s)
      PROVE  SaveIsComing' /\ (~dirty => ~dirty')
  BY <1>8, <1>9 DEF SavePersistInner, EnterLock, StartWrite
<1>10. ASSUME NEW s \in Savers, ActionEnds(s) PROVE SaveIsComing'
  <2>1. CASE recent /\ timer'
    BY <2>1
  <2>2. CASE SavePersistInner(s)
    BY <1>9, <2>2
  <2> QED
    BY <1>10, <2>1, <2>2 DEF ActionEnds, SavePersistThrottled
<1>11. ASSUME NEW s \in Savers, SaveStateImmediate(s) \/ Stop(s) PROVE SaveIsComing'
  BY <1>9, <1>11 DEF SaveStateImmediate, Stop, SaveImmediate
<1>12. ASSUME NEW s \in Savers, SaveStateThrottled(s) PROVE SaveIsComing'
  <2>1. CASE timer' /\ recent
    BY <2>1
  <2>2. CASE pc[s] = "idle" /\ EnterLock(s)
    BY <1>8, <2>2
  <2> QED
    BY <1>12, <2>1, <2>2 DEF SaveStateThrottled
<1>13. ASSUME NEW s \in Savers, TimerFires(s) PROVE SaveIsComing'
  BY <1>9, <1>13 DEF TimerFires
<1> QED
  BY <1>4, <1>5, <1>6, <1>7, <1>10, <1>11, <1>12, <1>13 DEF Next

-----------------------------------------------------------------------------
(* The hand-over *)

(* A step that leaves stop() and the successor alone, but for the returns of *)
(* the savers that end, keeps what stop() was called for on its way.         *)
LEMMA StopStays ==
    ASSUME TypeOK, WaitersWait, SnapshotsBetween, StopIsCovered, [Next]_vars,
           UNCHANGED <<isStopping, stopAt, successor, loaded>>,
           NEW s \in Savers, Changes \/ Keeps \/ Starts(s) \/ Queues(s) \/ Ends(s),
           UNCHANGED <<stopSave, ahead>> \/ (Ends(s) /\ Returns(s))
    PROVE  StopIsCovered'
<1> USE DEF TypeOK, Versions
<1>1. mem \in Nat /\ mem' \in Nat /\ disk' \in Nat /\ mem <= mem'
  <2>1. TypeOK'
    BY StepType
  <2> QED
    BY <2>1 DEF Changes, Keeps, Starts, Queues, Ends
<1>2. stopAt' <= mem' /\ (successor' # "none" => isStopping')
  BY <1>1 DEF StopIsCovered
<1>3. SUFFICES ASSUME Fifo, failures' = 0, isStopping
               PROVE  \/ successor = "none"
                         /\ \/ stopAt <= disk'
                            \/ \E t \in Savers : Covers(t)'
                            \/ \E t \in stopSave' : pc'[t] \in {"waiting", "woken"}
                      \/ successor = "coming"
                         /\ (stopAt <= disk' \/ \E t \in ahead' : Covers(t)')
                      \/ successor = "loaded" /\ stopAt <= loaded
  BY <1>2 DEF StopIsCovered
<1>4. failures = 0 /\ disk <= disk'
  <2>1. failures = 0
    BY <1>3 DEF Changes, Keeps, Starts, Queues, Ends
  <2> QED
    BY <1>3, <2>1, SnapshotsStep
<1>5. ASSUME NEW t \in Savers, Covers(t)
      PROVE  stopAt <= disk' \/ (Covers(t)' /\ (t \in ahead => t \in ahead'))
  <2>1. CASE Changes \/ Keeps \/ Starts(s) \/ Queues(s)
    <3>1. t \in Writing' /\ snap'[t] = snap[t]
      BY <1>5, <2>1 DEF Covers, Writing, Changes, Keeps, Starts, StartWrite, Queues
    <3>2. UNCHANGED <<stopSave, ahead>> \/ pc[s] = "writing"
      BY DEF Ends
    <3>3. pc'[s] # "idle" \/ UNCHANGED <<stopSave, ahead>>
      BY <2>1, <3>2 DEF Changes, Keeps, Starts, StartWrite, Queues
    <3>4. t \in ahead => t \in ahead'
      <4>1. CASE UNCHANGED <<stopSave, ahead>>
        BY <4>1
      <4>2. CASE Ends(s)
        <5>1. pc'[s] = "idle"
          BY <4>2 DEF Ends, Unlock, WaitersWait
        <5> QED
          BY <3>3, <5>1
      <4> QED
        BY <4>1, <4>2
    <3> QED
      BY <1>5, <3>1, <3>4 DEF Covers
  <2>2. CASE Ends(s) /\ t # s
    <3>1. t \in Writing' /\ snap'[t] = snap[t]
      BY <1>5, <2>2, UnlockKeepsWriters DEF Covers
    <3> QED
      BY <1>5, <2>2, <3>1 DEF Covers, Returns
  <2>3. CASE Ends(s) /\ t = s
    BY <1>3, <1>4, <1>5, <2>3 DEF Covers, Ends
  <2> QED
    BY <2>1, <2>2, <2>3
<1>6. ASSUME NEW t \in stopSave, pc[t] \in {"waiting", "woken"}
      PROVE  Covers(t)' \/ (t \in stopSave' /\ pc'[t] \in {"waiting", "woken"})
  <2>1. t \in Savers /\ t \in stopSave'
    BY <1>6 DEF Returns, Ends
  <2>2. CASE Changes \/ Keeps \/ Queues(s)
    BY <1>6, <2>1, <2>2 DEF Changes, Keeps, Queues
  <2>3. CASE Starts(s)
    BY <1>6, <2>1, <2>3 DEF Starts, StartWrite, Covers, Writing, StopIsCovered
  <2>4. CASE Ends(s)
    BY <1>6, <2>1, <2>4 DEF Ends, Unlock, WaitersWait
  <2> QED
    BY <2>1, <2>2, <2>3, <2>4
<1>7. CASE stopAt <= disk
  BY <1>1, <1>3, <1>4, <1>7 DEF StopIsCovered
<1>8. CASE ~(stopAt <= disk)
  <2>1. CASE successor = "none"
    BY <1>3, <1>4, <1>5, <1>6, <1>8, <2>1 DEF StopIsCovered
  <2>2. CASE successor # "none"
    BY <1>3, <1>4, <1>5, <1>8, <2>2 DEF StopIsCovered
  <2> QED
    BY <2>1, <2>2
<1> QED
  BY <1>7, <1>8

(* Every step keeps what stop() was called for on its way to the successor. *)
LEMMA StopStep ==
    ASSUME TypeOK, WaitersWait, SnapshotsBetween, NoUntrackedChange, StopIsCovered,
           [Next]_vars
    PROVE  StopIsCovered'
<1> USE DEF TypeOK, Versions
<1>1. CASE ReleaseLease
  BY <1>1 DEF ReleaseLease, StopIsCovered, Covers, Writing, saverVars
<1>2. CASE SuccessorLoads
  BY <1>2 DEF SuccessorLoads, StopIsCovered, Covers
<1>3. ASSUME NEW s \in Savers, Stop(s)
      PROVE  StopIsCovered'
  <2>1. /\ stopAt' = mem /\ mem' = mem /\ disk' = disk /\ isStopping' /\ ~isStopping
        /\ successor = "none" /\ successor' = "none" /\ failures' = failures
    BY <1>3 DEF Stop, SaveImmediate, StopIsCovered
  <2>2. CASE dirty
    <3>1. stopSave' = {s} /\ EnterLock(s) /\ pc[s] = "idle"
      BY <1>3, <2>2 DEF Stop, SaveImmediate, SavePersistInner
    <3>2. Covers(s)' \/ pc'[s] = "waiting"
      BY <2>1, <3>1 DEF EnterLock, StartWrite, Covers, Writing
    <3> QED
      BY <2>1, <3>1, <3>2 DEF StopIsCovered
  <2>3. CASE ~dirty
    <3>1. UNCHANGED <<pc, snap>>
      BY <1>3, <2>3 DEF Stop, SaveImmediate, saverVars
    <3>2. (Fifo /\ failures = 0) => mem <= disk \/ \E t \in Writing : snap[t] = mem
      BY <2>3 DEF NoUntrackedChange
    <3>3. ASSUME NEW t \in Writing, snap[t] = mem
          PROVE  t \in Savers /\ Covers(t)'
      BY <2>1, <3>1, <3>3 DEF Covers, Writing
    <3> QED
      BY <2>1, <3>2, <3>3 DEF StopIsCovered
  <2> QED
    BY <2>2, <2>3
<1>4. ASSUME NEW s \in Savers, WriteLands(s) \/ WriteFails(s)
      PROVE  StopIsCovered'
  <2>1. /\ Ends(s) /\ Returns(s)
        /\ UNCHANGED <<isStopping, stopAt, successor, loaded>>
    BY <1>4 DEF WriteLands, WriteFails, Ends
  <2> QED
    BY <2>1, StopStays
<1>5. ASSUME UNCHANGED handover
      PROVE  StopIsCovered'
  <2>1. UNCHANGED <<isStopping, stopAt, successor, loaded, stopSave, ahead>>
    BY <1>5 DEF handover
  <2>2. ASSUME NEW s \in Savers, Starts(s) \/ Queues(s) \/ Ends(s)
        PROVE  StopIsCovered'
    BY <2>1, <2>2, StopStays
  <2>3. CASE Changes \/ Keeps
    BY <2>1, <2>3 DEF Changes, Keeps, StopIsCovered, Covers, Writing
  <2> QED
    BY <2>2, <2>3, StepKinds
<1>6. CASE Change \/ ChangeThrows \/ WindowCloses \/ UNCHANGED vars
  BY <1>5, <1>6 DEF Change, ChangeThrows, WindowCloses, vars
<1>7. ASSUME NEW s \in Savers,
             \/ WaiterResumes(s) \/ ActionEnds(s) \/ SaveStateImmediate(s)
             \/ SaveStateThrottled(s) \/ TimerFires(s)
      PROVE  StopIsCovered'
  BY <1>5, <1>7
     DEF WaiterResumes, ActionEnds, SaveStateImmediate, SaveStateThrottled, TimerFires
<1> QED
  BY <1>1, <1>2, <1>3, <1>4, <1>6, <1>7 DEF Next

-----------------------------------------------------------------------------
(* Theorems *)

(* The inductive invariant holds in every behaviour, with or without a FIFO  *)
(* driver and whatever writes fail.                                          *)
THEOREM InvariantHolds == Spec => []IInv
<1>1. IInv /\ [Next]_vars => IInv'
  BY StepType, WaitersStep, LockStep, WakerStep, SnapshotsStep, EndedStep,
     TrackedStep, ComingStep, StopStep DEF IInv
<1> QED
  BY <1>1, InitInv, PTL DEF Spec

(* The variables of one actor instance's persistence keep their types. *)
THEOREM TypeCorrect == Spec => []TypeOK
BY InvariantHolds, PTL DEF IInv

(* With a FIFO driver and no failed write, every change is flagged or being  *)
(* written: clearing #persistChanged before the write loses nothing.         *)
THEOREM NothingUntracked == Spec => []NoUntrackedChange
BY InvariantHolds, PTL DEF IInv

(* After an action, a flagged change has a timer or a lock waiter to save it *)
(* (savePersistThrottled never lets one go).                                 *)
THEOREM SaveScheduled == Spec => []SaveIsComing
BY InvariantHolds, PTL DEF IInv

(* No waiter of Lock is stranded, although Lock can admit two savers.        *)
THEOREM NoStrandedWaiter == Spec => []WaiterHasWaker
BY InvariantHolds, PTL DEF IInv

(* Over a FIFO driver and without a failed write, the next instance loads    *)
(* whatever was in memory when stop() was called (#dispose awaits stop).     *)
THEOREM HandoverComplete == Spec => []HandoverIsComplete
<1>1. IInv => HandoverIsComplete
  BY DEF IInv, StopIsCovered, HandoverIsComplete
<1> QED
  BY <1>1, InvariantHolds, PTL

(* A FIFO driver never goes back to an older version, although Lock can      *)
(* admit two savers at once.                                                 *)
THEOREM DriverMovesForward == Fifo => (Spec => NeverOverwritten)
<1> SUFFICES ASSUME Fifo PROVE Spec => NeverOverwritten
  OBVIOUS
<1>1. IInv /\ [Next]_vars => [Newer]_vars
  BY SnapshotsStep DEF IInv, Newer
<1> QED
  BY <1>1, InvariantHolds, PTL DEF Spec, NeverOverwritten
=============================================================================
