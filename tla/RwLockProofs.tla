---------------------------- MODULE RwLockProofs ----------------------------
(***************************************************************************)
(* The safety of the lock, for every set of tasks.                         *)
(***************************************************************************)
EXTENDS RwLock, FiniteSetTheorems, WellFoundedInduction, TLAPS

\* The operations of a task keep the types of the lock.
LEMMA LockTypeStep == LockTypeOK /\ [LockNext]_lockVars => LockTypeOK'
<1> SUFFICES ASSUME LockTypeOK, [LockNext]_lockVars
             PROVE  LockTypeOK'
  OBVIOUS
<1> USE DEF LockTypeOK, Mode, Waits, Holds, Idle, Waiting
<1>1. CASE UNCHANGED lockVars
  BY <1>1 DEF lockVars
<1>2. ASSUME NEW t \in Tasks, NEW want \in Waits, Enqueue(t, want)
      PROVE  LockTypeOK'
  <2>1. /\ mode' = [mode EXCEPT ![t] = want]
        /\ ahead' = [ahead EXCEPT ![t] = Waiting]
        /\ mode[t] = Idle
    BY <1>2 DEF Enqueue
  <2>2. /\ mode' \in [Tasks -> Mode]
        /\ ahead' \in [Tasks -> SUBSET Tasks]
    BY <2>1
  <2>3. ASSUME NEW u \in Tasks
        PROVE  /\ ahead'[u] \subseteq Waiting' \ {u}
               /\ mode'[u] \notin Waits => ahead'[u] = {}
    BY <2>1, <2>2
  <2>4. QED
    BY <2>2, <2>3
<1>3. ASSUME NEW t \in Tasks,
             \/ mode' = [mode EXCEPT ![t] = "reading"]
             \/ mode' = [mode EXCEPT ![t] = "writing"]
             \/ mode' = [mode EXCEPT ![t] = Idle],
             LeaveQueue(t)
      PROVE  LockTypeOK'
  <2>1. /\ mode' \in [Tasks -> Mode]
        /\ ahead' \in [Tasks -> SUBSET Tasks]
    BY <1>3 DEF LeaveQueue
  <2>2. ASSUME NEW u \in Tasks
        PROVE  /\ ahead'[u] \subseteq Waiting' \ {u}
               /\ mode'[u] \notin Waits => ahead'[u] = {}
    BY <1>3, <2>1 DEF LeaveQueue
  <2>3. QED
    BY <2>1, <2>2
<1>4. ASSUME NEW t \in Tasks, GrantRead(t) \/ GrantWrite(t) \/ CancelWait(t)
      PROVE  LockTypeOK'
  BY <1>3, <1>4 DEF GrantRead, GrantWrite, CancelWait
<1>5. ASSUME NEW t \in Tasks, Unlock(t)
      PROVE  LockTypeOK'
  <2>1. /\ mode' \in [Tasks -> Mode]
        /\ ahead' \in [Tasks -> SUBSET Tasks]
    BY <1>5 DEF Unlock
  <2>2. ASSUME NEW u \in Tasks
        PROVE  /\ ahead'[u] \subseteq Waiting' \ {u}
               /\ mode'[u] \notin Waits => ahead'[u] = {}
    BY <1>5, <2>1 DEF Unlock
  <2>3. QED
    BY <2>1, <2>2
<1>6. QED
  BY <1>1, <1>2, <1>4, <1>5 DEF LockNext

\* A guard is granted only when no guard excludes it, and nothing else makes a
\* reader or a writer.
LEMMA ExclusionStep ==
    LockTypeOK /\ Exclusion /\ [LockNext]_lockVars => Exclusion'
<1> SUFFICES ASSUME LockTypeOK, Exclusion, [LockNext]_lockVars
             PROVE  Exclusion'
  OBVIOUS
<1> USE DEF LockTypeOK, Exclusion, Readers, Writers
<1>1. CASE UNCHANGED lockVars
  BY <1>1 DEF lockVars
<1>2. ASSUME NEW t \in Tasks, NEW want \in Waits, Enqueue(t, want)
      PROVE  Exclusion'
  BY <1>2 DEF Enqueue, Waits
<1>3. ASSUME NEW t \in Tasks, GrantRead(t)
      PROVE  Exclusion'
  BY <1>3 DEF GrantRead
<1>4. ASSUME NEW t \in Tasks, GrantWrite(t)
      PROVE  Exclusion'
  BY <1>4 DEF GrantWrite
<1>5. ASSUME NEW t \in Tasks, CancelWait(t) \/ Unlock(t)
      PROVE  Exclusion'
  BY <1>5 DEF CancelWait, Unlock, Idle
<1>6. QED
  BY <1>1, <1>2, <1>3, <1>4, <1>5 DEF LockNext

\* At any moment there are readers, or one writer, or nobody.
THEOREM ExclusionCorrect == LockSpec => [](LockTypeOK /\ Exclusion)
<1>1. LockInit => LockTypeOK /\ Exclusion
  BY DEF LockInit, LockTypeOK, Exclusion, Mode, Idle, Waits, Writers
<1>2. QED
  BY <1>1, LockTypeStep, ExclusionStep, PTL DEF LockSpec

(***************************************************************************)
(* The queue.  What a step does to it, as long as a task waits, is the one *)
(* fact that its order and its fairness follow from.                       *)
(***************************************************************************)

\* What one step of a task leaves of the queue of the others.
LEMMA QueueStep ==
    ASSUME LockTypeOK, [LockNext]_lockVars, NEW t \in Waiting
    PROVE  /\ mode'[t] \in Waits => ahead'[t] = ahead[t] \cap Waiting'
           /\ mode'[t] \in Holds => ahead[t] = {}
<1> USE DEF LockTypeOK, Mode, Waits, Holds, Idle, Waiting
<1>1. CASE UNCHANGED lockVars
  BY <1>1 DEF lockVars
<1>2. ASSUME NEW u \in Tasks, NEW want \in Waits, Enqueue(u, want)
      PROVE  t # u /\ mode'[t] = mode[t] /\ ahead'[t] = ahead[t] /\ ahead[t] \subseteq Waiting'
  BY <1>2 DEF Enqueue
<1>3. ASSUME NEW u \in Tasks, GrantRead(u) \/ GrantWrite(u) \/ CancelWait(u)
      PROVE  /\ mode'[t] \in Waits => ahead'[t] = ahead[t] \cap Waiting'
             /\ mode'[t] \in Holds => ahead[t] = {}
  <2>1. /\ mode'[u] \notin Waits
        /\ \A v \in Tasks \ {u} : mode'[v] = mode[v] /\ ahead'[v] = ahead[v] \ {u}
    BY <1>3 DEF GrantRead, GrantWrite, CancelWait, LeaveQueue
  <2>2. mode'[u] \in Holds => ahead[u] = {}
    BY <1>3 DEF GrantRead, GrantWrite, CancelWait
  <2>3. t # u => ahead[t] \ {u} = ahead[t] \cap Waiting'
    BY <2>1
  <2>4. QED
    BY <2>1, <2>2, <2>3
<1>4. ASSUME NEW u \in Tasks, Unlock(u)
      PROVE  t # u /\ mode'[t] = mode[t] /\ ahead'[t] = ahead[t] /\ ahead[t] \subseteq Waiting'
  BY <1>4 DEF Unlock
<1>5. QED
  BY <1>1, <1>2, <1>3, <1>4 DEF LockNext

\* A task that begins to wait does so behind all who wait.
LEMMA NewcomersStep ==
    ASSUME LockTypeOK, [LockNext]_lockVars, NEW t \in Waiting', t \notin Waiting
    PROVE  ahead'[t] = Waiting /\ Waiting' = Waiting \cup {t}
<1> USE DEF LockTypeOK, Mode, Waits, Holds, Idle, Waiting
<1>1. CASE UNCHANGED lockVars
  BY <1>1 DEF lockVars
<1>2. ASSUME NEW u \in Tasks, NEW want \in Waits, Enqueue(u, want)
      PROVE  ahead'[t] = Waiting /\ Waiting' = Waiting \cup {t}
  <2>1. t = u
    BY <1>2 DEF Enqueue
  <2>2. QED
    BY <1>2, <2>1 DEF Enqueue
<1>3. ASSUME NEW u \in Tasks, GrantRead(u) \/ GrantWrite(u) \/ CancelWait(u) \/ Unlock(u)
      PROVE  FALSE
  BY <1>3 DEF GrantRead, GrantWrite, CancelWait, Unlock
<1>4. QED
  BY <1>1, <1>2, <1>3 DEF LockNext

\* The order of the queue survives every step.
LEMMA QueueInOrderStep ==
    LockTypeOK /\ QueueInOrder /\ [LockNext]_lockVars => QueueInOrder'
<1> SUFFICES ASSUME LockTypeOK, QueueInOrder, [LockNext]_lockVars
             PROVE  QueueInOrder'
  OBVIOUS
<1>1. LockTypeOK'
  BY LockTypeStep
<1>2. ASSUME NEW t \in Waiting, t \in Waiting'
      PROVE  ahead'[t] = ahead[t] \cap Waiting'
  BY <1>2, QueueStep DEF Waiting
<1>3. ASSUME NEW t \in Waiting', t \notin Waiting
      PROVE  ahead'[t] = Waiting /\ Waiting' = Waiting \cup {t}
  BY <1>3, NewcomersStep
<1>4. ASSUME NEW t \in Waiting', NEW u \in Waiting'
      PROVE  t = u \/ t \in ahead'[u] \/ u \in ahead'[t]
  <2>1. CASE t \in Waiting /\ u \in Waiting
    BY <1>2, <1>4, <2>1 DEF QueueInOrder
  <2>2. CASE t \notin Waiting
    BY <1>3, <1>4, <2>2
  <2>3. CASE u \notin Waiting
    BY <1>3, <1>4, <2>3
  <2>4. QED
    BY <2>1, <2>2, <2>3
<1>5. ASSUME NEW t \in Tasks, NEW u \in ahead'[t]
      PROVE  ahead'[u] \subseteq ahead'[t]
  <2>1. t \in Waiting' /\ u \in Waiting' /\ u # t
    BY <1>1, <1>5 DEF LockTypeOK, Waiting
  <2>2. CASE t \in Waiting
    <3>1. ahead'[t] = ahead[t] \cap Waiting' /\ u \in ahead[t]
      BY <1>2, <1>5, <2>1, <2>2
    <3>2. u \in Waiting /\ ahead[u] \subseteq ahead[t]
      BY <2>2, <3>1 DEF LockTypeOK, QueueInOrder, Waiting
    <3>3. ahead'[u] = ahead[u] \cap Waiting'
      BY <1>2, <2>1, <3>2
    <3>4. QED
      BY <3>1, <3>2, <3>3
  <2>3. CASE t \notin Waiting
    <3>1. ahead'[t] = Waiting
      BY <1>3, <2>1, <2>3
    <3>2. u \in Waiting /\ ahead[u] \subseteq Waiting
      BY <1>5, <3>1 DEF LockTypeOK, Waiting
    <3>3. QED
      BY <1>2, <2>1, <3>1, <3>2
  <2>4. QED
    BY <2>2, <2>3
<1>6. QED
  BY <1>4, <1>5 DEF QueueInOrder

\* Finitely many tasks wait: one more comes at a time.
LEMMA FiniteStep ==
    LockTypeOK /\ IsFiniteSet(Waiting) /\ [LockNext]_lockVars => IsFiniteSet(Waiting')
<1> SUFFICES ASSUME LockTypeOK, IsFiniteSet(Waiting), [LockNext]_lockVars
             PROVE  IsFiniteSet(Waiting')
  OBVIOUS
<1>1. CASE Waiting' \subseteq Waiting
  BY <1>1, FS_Subset
<1>2. ASSUME NEW t \in Waiting', t \notin Waiting
      PROVE  IsFiniteSet(Waiting')
  BY <1>2, NewcomersStep, FS_AddElement
<1>3. QED
  BY <1>1, <1>2

\* A queue that is not empty has a first.
LEMMA SomebodyIsFirst ==
    ASSUME LockTypeOK, QueueInOrder, IsFiniteSet(Waiting), Waiting # {}
    PROVE  \E t \in Waiting : ahead[t] = {}
<1> DEFINE queues == {ahead[t] : t \in Waiting}
<1>1. queues \subseteq FiniteSubsetsOf(Waiting) /\ queues # {}
  BY FS_Subset DEF LockTypeOK, Waiting, FiniteSubsetsOf
<1> HIDE DEF queues
<1>2. PICK q \in queues : \A r \in queues : <<r, q>> \notin StrictSubsetOrdering(Waiting)
  BY <1>1, FS_StrictSubsetOrderingWellFounded, WFMin
<1>3. PICK t \in Waiting : q = ahead[t]
  BY DEF queues
<1>4. ASSUME NEW u \in ahead[t]
      PROVE  FALSE
  <2>1. /\ t \in Tasks /\ u \in Waiting /\ u \in Tasks
        /\ ahead[t] \subseteq Waiting /\ ahead[u] \subseteq Waiting /\ u \notin ahead[u]
    BY <1>4 DEF LockTypeOK, Waiting
  <2>2. ahead[u] \subseteq ahead[t] /\ ahead[u] # ahead[t]
    BY <1>4, <2>1 DEF QueueInOrder
  <2>3. ahead[u] \in queues
    BY <2>1 DEF queues
  <2>4. <<ahead[u], ahead[t]>> \in StrictSubsetOrdering(Waiting)
    BY <2>1, <2>2 DEF StrictSubsetOrdering
  <2>5. QED
    BY <1>2, <1>3, <2>3, <2>4
<1>5. QED
  BY <1>4

\* What the theorems below need of every state.
QueueInv == LockTypeOK /\ QueueInOrder /\ IsFiniteSet(Waiting)

LEMMA QueueInvInit == LockInit => QueueInv
  BY FS_EmptySet
     DEF LockInit, QueueInv, LockTypeOK, QueueInOrder, Waiting, Mode, Idle, Waits, Holds

LEMMA QueueInvStep == QueueInv /\ [LockNext]_lockVars => QueueInv'
  BY LockTypeStep, QueueInOrderStep, FiniteStep DEF QueueInv

LEMMA QueueInvNeverIdle == QueueInv => NeverIdle
<1> SUFFICES ASSUME QueueInv, Waiting # {} PROVE NeverIdle
  BY DEF NeverIdle
<1>1. PICK t \in Waiting : ahead[t] = {}
  BY SomebodyIsFirst DEF QueueInv
<1>2. mode[t] \in Waits
  BY DEF Waiting
<1>3. QED
  BY <1>1, <1>2 DEF NeverIdle, MayEnter

\* Where nobody wants to write or writes, somebody who waits may enter: readers do
\* not wait for readers.
LEMMA ReadersGoTogether ==
    ASSUME QueueInv, Waiting # {}, \A t \in Tasks : mode[t] \notin {"wantWrite", "writing"}
    PROVE  \E t \in Waiting : MayEnter(t)
<1>1. PICK t \in Waiting : ahead[t] = {}
  BY SomebodyIsFirst DEF QueueInv
<1>2. QED
  BY <1>1 DEF MayEnter, Waiting, Writers

\* The waiting tasks are in the order in which they asked.
THEOREM QueueCorrect == LockSpec => []QueueInOrder
<1>1. QueueInv => QueueInOrder
  BY DEF QueueInv
<1>2. QED
  BY <1>1, QueueInvInit, QueueInvStep, PTL DEF LockSpec

\* Nobody gets in before a task that asked earlier and still waits.
THEOREM FirstComeFirstServedCorrect == LockSpec => FirstComeFirstServed
<1>1. QueueInv /\ [LockNext]_lockVars =>
          \A t \in Waiting : /\ mode'[t] \in Waits => ahead'[t] = ahead[t] \cap Waiting'
                             /\ mode'[t] \in Holds => ahead[t] = {}
  BY QueueStep DEF QueueInv
<1>2. QED
  BY <1>1, QueueInvInit, QueueInvStep, PTL DEF LockSpec, FirstComeFirstServed

\* The lock itself is never what everybody waits for: whenever a task waits, the next
\* in the queue is served or waits for a guard that somebody holds.
THEOREM NeverIdleCorrect == LockSpec => []NeverIdle
  BY QueueInvInit, QueueInvStep, QueueInvNeverIdle, PTL DEF LockSpec

=============================================================================
