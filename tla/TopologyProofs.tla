--------------------------- MODULE TopologyProofs ---------------------------
(***************************************************************************)
(* Theorems about Topology, for every set of ids, tasks and subscribers,   *)
(* every capacity of the channel and every bound on the events.            *)
(*                                                                         *)
(* The argument.  The lock excludes writers from everybody else, so        *)
(* whoever reads does so with nothing pending.  The log, what is sent      *)
(* followed by what is pending, tells the registry after every change, so  *)
(* a subscriber that took a snapshot knows the registry once it has heard  *)
(* the rest of the log, wherever its subscription and its snapshot fell.   *)
(* From the two: the registry that readers see is the one that the         *)
(* committed log tells, which is AtomicRegistry.                           *)
(***************************************************************************)
EXTENDS Topology, TopologyStateProofs, RwLockProofs

Log == sent \o pending

(***************************************************************************)
(* What a log of events tells: lemmas about Replay, for every log.         *)
(***************************************************************************)

\* An event has an entity and says Added or Removed.
LEMMA EventParts ==
    ASSUME NEW event \in Events
    PROVE  event.entity \in Entities /\ event.type \in {"Added", "Removed"}
BY DEF Events

\* Telling one more event at the end puts its entity in or takes it out.
LEMMA ReplayAppend ==
    ASSUME NEW base, NEW log \in Seq(Events), NEW first \in Nat \ {0},
           first <= Len(log) + 1, NEW event \in Events
    PROVE  Replay(base, Append(log, event), first)
             = IF event.type = "Added" THEN Replay(base, log, first) \cup {event.entity}
                                       ELSE Replay(base, log, first) \ {event.entity}
<1> DEFINE new == Append(log, event)
           n   == Len(log)
<1>1. /\ n \in Nat /\ Len(new) = n + 1 /\ new[n + 1] = event
      /\ \A i \in 1 .. n : new[i] = log[i]
  OBVIOUS
<1>2. \A i \in first .. n + 1 : i \in first .. n \/ i = n + 1
  BY <1>1
<1>3. n + 1 \in first .. n + 1 /\ \A i \in first .. n : i \in 1 .. n /\ i \in first .. n + 1
  BY <1>1
<1>4. ASSUME NEW e
      PROVE  LastAbout(new, n + 1, e) <=> e = event.entity
  BY <1>1 DEF LastAbout
<1>5. ASSUME NEW e, NEW i \in first .. n
      PROVE  LastAbout(new, i, e) <=> LastAbout(log, i, e) /\ e # event.entity
  <2>1. /\ \A j \in i + 1 .. n + 1 : j \in i + 1 .. n \/ j = n + 1
        /\ n + 1 \in i + 1 .. n + 1
        /\ \A j \in i + 1 .. n : j \in i + 1 .. n + 1 /\ j \in 1 .. n
    BY <1>1
  <2>2. QED
    BY <1>1, <1>3, <2>1 DEF LastAbout
<1>6. ASSUME NEW e \in Entities
      PROVE  e \in Replay(base, new, first)
               <=> IF e = event.entity THEN event.type = "Added"
                                       ELSE e \in Replay(base, log, first)
  <2>1. CASE e = event.entity
    <3>1. \E i \in first .. n + 1 : new[i].entity = e
      BY <1>1, <1>3, <2>1
    <3>2. QED
      BY <1>1, <1>2, <1>3, <1>4, <1>5, <2>1, <3>1 DEF Replay
  <2>2. CASE e # event.entity
    <3>1. (\A i \in first .. n + 1 : new[i].entity # e)
             <=> (\A i \in first .. n : log[i].entity # e)
      BY <1>1, <1>2, <1>3, <2>2
    <3>2. (\E i \in first .. n + 1 : LastAbout(new, i, e) /\ new[i].type = "Added")
             <=> (\E i \in first .. n : LastAbout(log, i, e) /\ log[i].type = "Added")
      BY <1>1, <1>2, <1>3, <1>4, <1>5, <2>2
    <3>3. QED
      BY <1>1, <2>2, <3>1, <3>2 DEF Replay
  <2>3. QED
    BY <2>1, <2>2
<1>7. Replay(base, new, first) \subseteq Entities /\ Replay(base, log, first) \subseteq Entities
  BY DEF Replay
<1>8. QED
  BY <1>6, <1>7, EventParts

\* Telling the first event before the rest changes nothing.
LEMMA ReplayStep ==
    ASSUME NEW base, NEW log \in Seq(Events), NEW first \in 1 .. Len(log)
    PROVE  Replay(base, log, first)
             = Replay(IF log[first].type = "Added" THEN base \cup {log[first].entity}
                                                   ELSE base \ {log[first].entity},
                      log, first + 1)
<1> DEFINE n    == Len(log)
           next == IF log[first].type = "Added" THEN base \cup {log[first].entity}
                                                ELSE base \ {log[first].entity}
<1>1. /\ n \in Nat /\ first \in first .. n
      /\ \A i \in first .. n : i = first \/ i \in first + 1 .. n
      /\ \A i \in first + 1 .. n : i \in first .. n
  OBVIOUS
<1>2. ASSUME NEW e \in Entities
      PROVE  e \in Replay(base, log, first) <=> e \in Replay(next, log, first + 1)
  <2>1. CASE \E i \in first + 1 .. n : log[i].entity = e
    <3>1. ~LastAbout(log, first, e)
      BY <2>1 DEF LastAbout
    <3>2. (\E i \in first .. n : LastAbout(log, i, e) /\ log[i].type = "Added")
            <=> (\E i \in first + 1 .. n : LastAbout(log, i, e) /\ log[i].type = "Added")
      BY <1>1, <3>1
    <3>3. QED
      BY <1>1, <2>1, <3>2 DEF Replay
  <2>2. CASE \A i \in first + 1 .. n : log[i].entity # e
    <3>1. LastAbout(log, first, e) <=> log[first].entity = e
      BY <2>2 DEF LastAbout
    <3>2. \A i \in first + 1 .. n : ~LastAbout(log, i, e)
      BY <2>2 DEF LastAbout
    <3>3. e \in Replay(next, log, first + 1) <=> e \in next
      BY <2>2, <3>2 DEF Replay
    <3>4. e \in Replay(base, log, first)
            <=> \/ log[first].entity = e /\ log[first].type = "Added"
                \/ e \in base /\ log[first].entity # e
      BY <1>1, <2>2, <3>1, <3>2 DEF Replay
    <3>5. QED
      BY <3>3, <3>4
  <2>3. QED
    BY <2>1, <2>2
<1>3. /\ Replay(base, log, first) \subseteq Entities
      /\ Replay(next, log, first + 1) \subseteq Entities
  BY DEF Replay
<1>4. QED
  BY <1>2, <1>3

\* Telling any end of a log again to someone who knows what the whole log says
\* changes nothing: an event received after the snapshot that already shows its
\* effect does no harm.
LEMMA ReplayAgain ==
    ASSUME NEW log \in Seq(Events), NEW first \in Nat \ {0}
    PROVE  Replay(Replay({}, log, 1), log, first) = Replay({}, log, 1)
<1> DEFINE n == Len(log)
           live == Replay({}, log, 1)
<1>1. /\ n \in Nat
      /\ \A i \in first .. n : i \in 1 .. n
  OBVIOUS
<1>2. \A i, j \in 1 .. n : i < j \/ i = j \/ j < i
  OBVIOUS
<1>3. ASSUME NEW e, NEW i \in 1 .. n, NEW j \in 1 .. n,
             LastAbout(log, i, e), LastAbout(log, j, e)
      PROVE  i = j
  <2>1. i < j => j \in i + 1 .. n
    BY <1>1
  <2>2. j < i => i \in j + 1 .. n
    BY <1>1
  <2>3. QED
    BY <1>2, <1>3, <2>1, <2>2 DEF LastAbout
<1>4. ASSUME NEW e \in Entities, NEW k \in first .. n, log[k].entity = e, e \in live
      PROVE  \E i \in first .. n : LastAbout(log, i, e) /\ log[i].type = "Added"
  <2>1. PICK i \in 1 .. n : LastAbout(log, i, e) /\ log[i].type = "Added"
    BY <1>4 DEF Replay
  <2>2. ~(k \in i + 1 .. n)
    BY <1>4, <2>1 DEF LastAbout
  <2>3. i \in first .. n
    BY <1>1, <2>2
  <2>4. QED
    BY <2>1, <2>3
<1>5. ASSUME NEW e \in Entities
      PROVE  e \in Replay(live, log, first) <=> e \in live
  <2>1. ASSUME NEW i \in first .. n, LastAbout(log, i, e), log[i].type = "Added"
        PROVE  e \in live
    BY <1>1, <2>1 DEF Replay
  <2>2. CASE \E k \in first .. n : log[k].entity = e
    BY <1>4, <2>1, <2>2 DEF Replay
  <2>3. CASE \A k \in first .. n : log[k].entity # e
    <3>1. e \in Replay(live, log, first) <=> e \in live
      BY <2>3 DEF Replay, LastAbout
    <3>2. QED
      BY <3>1
  <2>4. QED
    BY <2>2, <2>3
<1>6. live \subseteq Entities /\ Replay(live, log, first) \subseteq Entities
  BY DEF Replay
<1>7. QED
  BY <1>5, <1>6

\* A log with nothing left to tell changes nothing.
LEMMA ReplayNothing ==
    ASSUME NEW base \in SUBSET Entities, NEW log \in Seq(Events)
    PROVE  Replay(base, log, Len(log) + 1) = base
<1>1. \A i : i \notin Len(log) + 1 .. Len(log)
  OBVIOUS
<1>2. QED
  BY <1>1 DEF Replay

(***************************************************************************)
(* What a step is to the parts Topology is made of.                        *)
(***************************************************************************)

\* A step of Topology is a step of the lock or leaves it alone.
LEMMA NextIsLockNext == [Next]_vars => [LockNext]_lockVars
<1> SUFFICES ASSUME [Next]_vars
             PROVE  [LockNext]_lockVars
  OBVIOUS
<1>1. CASE UNCHANGED vars
  BY <1>1 DEF vars
<1>2. ASSUME NEW t \in Tasks, Acquire(t) \/ ReleaseRead(t) \/ ReleaseWrite(t)
      PROVE  LockNext
  BY <1>2 DEF Acquire, ReleaseRead, ReleaseWrite, LockNext
<1>3. ASSUME NEW t \in Tasks, Change(t)
      PROVE  UNCHANGED lockVars
  BY <1>3 DEF Change, AddComponent, AddApp, AddArea,
              DeleteComponent, DeleteApp, DeleteArea, Mutate
<1>4. ASSUME NEW t \in Tasks, BeginDrop(t) \/ SendEvent(t)
      PROVE  UNCHANGED lockVars
  BY <1>4 DEF BeginDrop, SendEvent
<1>5. ASSUME NEW s \in Subscribers,
             Subscribe(s) \/ Receive(s) \/ Lag(s) \/ \E t \in Tasks : Snapshot(s, t)
      PROVE  UNCHANGED lockVars
  BY <1>5 DEF Subscribe, Receive, Lag, Snapshot
<1>6. QED
  BY <1>1, <1>2, <1>3, <1>4, <1>5 DEF Next

\* The guards of a Topology are the guards of an RwLock: what holds of the lock holds of
\* them, its exclusion, its order and that it never stands idle.
THEOREM TopologyUsesLock == Spec => LockSpec
<1>1. Init => LockInit
  BY DEF Init
<1>2. QED
  BY <1>1, NextIsLockNext, PTL DEF Spec, LockSpec

\* A change of a write guard is a mutation of the state with one event.
LEMMA ChangeIsMutation ==
    ASSUME NEW t \in Tasks, Change(t)
    PROVE  StateNext /\ \E event \in Events : Mutate(t, event)
<1> USE DEF Events, Entities
<1>1. ASSUME NEW c \in ComponentIds, NEW area \in AreaId, AddComponent(t, c, area)
      PROVE  StateNext /\ \E event \in Events : Mutate(t, event)
  BY <1>1 DEF AddComponent, StateNext, Added
<1>2. ASSUME NEW c \in ComponentIds, DeleteComponent(t, c)
      PROVE  StateNext /\ \E event \in Events : Mutate(t, event)
  BY <1>2 DEF DeleteComponent, StateNext, Removed
<1>3. ASSUME NEW a \in AppIds, NEW app \in App, AddApp(t, a, app)
      PROVE  StateNext /\ \E event \in Events : Mutate(t, event)
  BY <1>3 DEF AddApp, StateNext, Added
<1>4. ASSUME NEW a \in AppIds, DeleteApp(t, a)
      PROVE  StateNext /\ \E event \in Events : Mutate(t, event)
  BY <1>4 DEF DeleteApp, StateNext, Removed
<1>5. ASSUME NEW r \in AreaIds, AddArea(t, r)
      PROVE  StateNext /\ \E event \in Events : Mutate(t, event)
  BY <1>5 DEF AddArea, StateNext, Added
<1>6. ASSUME NEW r \in AreaIds, DeleteArea(t, r)
      PROVE  StateNext /\ \E event \in Events : Mutate(t, event)
  BY <1>6 DEF DeleteArea, StateNext, Removed
<1>7. QED
  BY <1>1, <1>2, <1>3, <1>4, <1>5, <1>6 DEF Change

\* A step of Topology is a mutation of the state or leaves it alone.
LEMMA NextIsStateNext == [Next]_vars => [StateNext]_stateVars
<1> SUFFICES ASSUME [Next]_vars
             PROVE  [StateNext]_stateVars
  OBVIOUS
<1>1. CASE UNCHANGED vars
  BY <1>1 DEF vars
<1>2. ASSUME NEW t \in Tasks, Change(t)
      PROVE  StateNext
  BY <1>2, ChangeIsMutation
<1>3. ASSUME NEW t \in Tasks,
             Acquire(t) \/ ReleaseRead(t) \/ BeginDrop(t) \/ SendEvent(t) \/ ReleaseWrite(t)
      PROVE  UNCHANGED stateVars
  BY <1>3 DEF Acquire, ReleaseRead, BeginDrop, SendEvent, ReleaseWrite
<1>4. ASSUME NEW s \in Subscribers,
             Subscribe(s) \/ Receive(s) \/ Lag(s) \/ \E t \in Tasks : Snapshot(s, t)
      PROVE  UNCHANGED stateVars
  BY <1>4 DEF Subscribe, Receive, Lag, Snapshot
<1>5. QED
  BY <1>1, <1>2, <1>3, <1>4 DEF Next

\* The event of a change says what the change did to the live entities.
Tells(event) ==
    /\ event.type = "Added" => Live' = Live \cup {event.entity}
    /\ event.type = "Removed" => event.entity \in Live /\ Live' = Live \ {event.entity}

\* The event of a change says what the change did to the live entities.
LEMMA ChangeTells ==
    ASSUME NEW t \in Tasks, Change(t)
    PROVE  \E event \in Events : Mutate(t, event) /\ Tells(event)
<1> USE DEF Events, Entities, ComponentRef, AppRef, AreaRef, Live, Tells
<1>1. ASSUME NEW c \in ComponentIds, NEW area \in AreaId, AddComponent(t, c, area)
      PROVE  Mutate(t, Added(ComponentRef(c))) /\ Tells(Added(ComponentRef(c)))
  BY <1>1 DEF AddComponent, Added, InsertComponent, Put
<1>2. ASSUME NEW c \in ComponentIds, DeleteComponent(t, c)
      PROVE  Mutate(t, Removed(ComponentRef(c))) /\ Tells(Removed(ComponentRef(c)))
  BY <1>2 DEF DeleteComponent, Removed, RemoveComponent, Drop
<1>3. ASSUME NEW a \in AppIds, NEW app \in App, AddApp(t, a, app)
      PROVE  Mutate(t, Added(AppRef(a))) /\ Tells(Added(AppRef(a)))
  BY <1>3 DEF AddApp, Added, InsertApp, Put
<1>4. ASSUME NEW a \in AppIds, DeleteApp(t, a)
      PROVE  Mutate(t, Removed(AppRef(a))) /\ Tells(Removed(AppRef(a)))
  BY <1>4 DEF DeleteApp, Removed, RemoveApp, Drop
<1>5. ASSUME NEW r \in AreaIds, AddArea(t, r)
      PROVE  Mutate(t, Added(AreaRef(r))) /\ Tells(Added(AreaRef(r)))
  BY <1>5 DEF AddArea, Added, InsertArea
<1>6. ASSUME NEW r \in AreaIds, DeleteArea(t, r)
      PROVE  Mutate(t, Removed(AreaRef(r))) /\ Tells(Removed(AreaRef(r)))
  BY <1>6 DEF DeleteArea, Removed, RemoveArea
<1>7. /\ \A c \in ComponentIds : Added(ComponentRef(c)) \in Events /\ Removed(ComponentRef(c)) \in Events
      /\ \A a \in AppIds : Added(AppRef(a)) \in Events /\ Removed(AppRef(a)) \in Events
      /\ \A r \in AreaIds : Added(AreaRef(r)) \in Events /\ Removed(AreaRef(r)) \in Events
  BY DEF Added, Removed
<1>8. QED
  BY <1>1, <1>2, <1>3, <1>4, <1>5, <1>6, <1>7 DEF Change

-----------------------------------------------------------------------------
(***************************************************************************)
(* The type invariant.                                                     *)
(***************************************************************************)

\* The live entities are entities.
LEMMA LiveIsEntities == StateTypeOK => Live \in SUBSET Entities
BY DEF StateTypeOK, Live, Entities

\* TypeOK without the parts that TopologyState and RwLock keep by themselves.
GuardTypeOK ==
    /\ dropping \in BOOLEAN
    /\ pending \in Seq(Events)
    /\ sent \in Seq(Events)
    /\ Writers = {} => ~dropping /\ pending = <<>>

ChannelTypeOK ==
    /\ cursor \in [Subscribers -> Nat]
    /\ replica \in [Subscribers -> SUBSET Entities]
    /\ synced \subseteq Subscribers

\* TypeOK is the types of the state, the lock, the guard and the channel.
LEMMA TypeParts == TypeOK <=> StateTypeOK /\ LockTypeOK /\ GuardTypeOK /\ ChannelTypeOK
BY DEF TypeOK, GuardTypeOK, ChannelTypeOK

\* Only Enqueue, GrantRead, CancelWait and releasing a read guard change the
\* lock without a change of the guard, and none of them makes the writer go.
LEMMA GuardTypeStep == TypeOK /\ [Next]_vars => GuardTypeOK'
<1> SUFFICES ASSUME TypeOK, [Next]_vars
             PROVE  GuardTypeOK'
  OBVIOUS
<1> USE DEF TypeOK, GuardTypeOK, LockTypeOK, Writers
<1>1. CASE UNCHANGED vars
  BY <1>1 DEF vars, lockVars, guardVars, channelVars
<1>2. ASSUME NEW t \in Tasks, Acquire(t)
      PROVE  GuardTypeOK'
  <2>1. mode[t] \in Waits \cup {Idle} /\ \A u \in Tasks \ {t} : mode'[u] = mode[u]
    BY <1>2 DEF Acquire, Enqueue, GrantRead, GrantWrite, CancelWait, Waits
  <2>2. Writers \subseteq Writers'
    BY <2>1 DEF Waits, Idle
  <2>3. UNCHANGED <<dropping, pending, sent>>
    BY <1>2 DEF Acquire, guardVars, channelVars
  <2>4. QED
    BY <2>2, <2>3
<1>3. ASSUME NEW t \in Tasks, ReleaseRead(t)
      PROVE  GuardTypeOK'
  BY <1>3 DEF ReleaseRead, guardVars, channelVars, Unlock, Idle
<1>4. ASSUME NEW t \in Tasks, Change(t)
      PROVE  GuardTypeOK'
  <2>1. PICK event \in Events : Mutate(t, event)
    BY <1>4, ChangeTells
  <2>2. QED
    BY <2>1 DEF Mutate, lockVars, channelVars
<1>5. ASSUME NEW t \in Tasks, BeginDrop(t)
      PROVE  GuardTypeOK'
  BY <1>5 DEF BeginDrop, lockVars, channelVars
<1>6. ASSUME NEW t \in Tasks, SendEvent(t)
      PROVE  GuardTypeOK'
  BY <1>6 DEF SendEvent, lockVars
<1>7. ASSUME NEW t \in Tasks, ReleaseWrite(t)
      PROVE  GuardTypeOK'
  BY <1>7 DEF ReleaseWrite, channelVars
<1>8. ASSUME NEW s \in Subscribers,
             Subscribe(s) \/ Receive(s) \/ Lag(s) \/ \E t \in Tasks : Snapshot(s, t)
      PROVE  GuardTypeOK'
  BY <1>8 DEF Subscribe, Receive, Lag, Snapshot, lockVars, guardVars
<1>9. QED
  BY <1>1, <1>2, <1>3, <1>4, <1>5, <1>6, <1>7, <1>8 DEF Next

\* The channel and its subscribers keep their types.
LEMMA ChannelTypeStep == TypeOK /\ [Next]_vars => ChannelTypeOK'
<1> SUFFICES ASSUME TypeOK, [Next]_vars
             PROVE  ChannelTypeOK'
  OBVIOUS
<1> USE DEF TypeOK, ChannelTypeOK
<1>1. CASE UNCHANGED vars
  BY <1>1 DEF vars, channelVars
<1>2. ASSUME NEW t \in Tasks,
             Acquire(t) \/ ReleaseRead(t) \/ BeginDrop(t) \/ SendEvent(t) \/ ReleaseWrite(t)
      PROVE  ChannelTypeOK'
  BY <1>2 DEF Acquire, ReleaseRead, BeginDrop, SendEvent, ReleaseWrite, channelVars
<1>3. ASSUME NEW t \in Tasks, Change(t)
      PROVE  ChannelTypeOK'
  BY <1>3, ChangeIsMutation DEF Mutate, channelVars
<1>4. ASSUME NEW s \in Subscribers, Subscribe(s)
      PROVE  ChannelTypeOK'
  BY <1>4 DEF Subscribe
<1>5. ASSUME NEW s \in Subscribers, NEW t \in Tasks, Snapshot(s, t)
      PROVE  ChannelTypeOK'
  BY <1>5, LiveIsEntities DEF Snapshot
<1>6. ASSUME NEW s \in Subscribers, Receive(s)
      PROVE  ChannelTypeOK'
  <2>1. cursor[s] \in Nat /\ Oldest \in Nat \ {0}
    BY CapacityAssumption DEF Oldest
  <2>2. cursor[s] \in 1 .. Len(sent)
    BY <1>6, <2>1 DEF Receive
  <2>3. sent[cursor[s]].entity \in Entities
    BY <2>2, EventParts
  <2>4. QED
    BY <1>6, <2>3 DEF Receive
<1>7. ASSUME NEW s \in Subscribers, Lag(s)
      PROVE  ChannelTypeOK'
  <2>1. Oldest \in Nat
    BY CapacityAssumption DEF Oldest
  <2>2. QED
    BY <1>7, <2>1 DEF Lag
<1>8. QED
  BY <1>1, <1>2, <1>3, <1>4, <1>5, <1>6, <1>7 DEF Next

\* A new Topology is of its types.
LEMMA TypeInit == Init => TypeOK
<1> SUFFICES ASSUME Init
             PROVE  TypeOK
  OBVIOUS
<1>1. StateTypeOK
  BY StateTypeInit DEF Init
<1>2. LockTypeOK
  BY DEF Init, LockInit, LockTypeOK, Mode
<1>3. GuardTypeOK
  <2>1. pending \in Seq(Events) /\ sent \in Seq(Events)
    BY DEF Init
  <2>2. QED
    BY <2>1, Zenon DEF Init, GuardTypeOK
<1>4. ChannelTypeOK
  BY DEF Init, ChannelTypeOK
<1>5. QED
  BY <1>1, <1>2, <1>3, <1>4, TypeParts

\* Every step keeps the types, part by part.
LEMMA TypeStep == TypeOK /\ [Next]_vars => TypeOK'
<1>1. ASSUME TypeOK, [Next]_vars
      PROVE  StateTypeOK' /\ LockTypeOK' /\ GuardTypeOK' /\ ChannelTypeOK'
  BY <1>1, TypeParts, NextIsStateNext, NextIsLockNext, StateTypeStep, LockTypeStep,
     GuardTypeStep, ChannelTypeStep
<1>2. QED
  BY <1>1 DEF TypeOK, GuardTypeOK, ChannelTypeOK

\* The registry, the lock, the guard and the channel keep their types, and no
\* event is pending and no drop is running unless some task has the write guard.
THEOREM TypeCorrect == Spec => []TypeOK
BY TypeInit, TypeStep, PTL DEF Spec

\* At first nobody holds a guard.
LEMMA ExclusionInit == Init => Exclusion
BY DEF Init, LockInit, Exclusion, Writers, Idle

\* The guards of a Topology exclude each other.
THEOREM TopologyExclusion == Spec => []Exclusion
<1>1. TypeOK /\ Exclusion /\ [Next]_vars => Exclusion'
  BY NextIsLockNext, ExclusionStep DEF TypeOK
<1>2. QED
  BY <1>1, ExclusionInit, TypeCorrect, PTL DEF Spec

-----------------------------------------------------------------------------
(***************************************************************************)
(* The log tells the registry.                                             *)
(***************************************************************************)

\* The log is a sequence of events, as long as its two parts.
LEMMA LogType == TypeOK => Log \in Seq(Events) /\ Len(Log) = Len(sent) + Len(pending)
BY DEF TypeOK, Log

\* A step adds one event that tells what it did, or changes neither the log nor
\* the registry: sending an event only moves it.
LEMMA LogStep ==
    ASSUME TypeOK, [Next]_vars
    PROVE  \/ UNCHANGED <<Log, Live>>
           \/ \E t \in Tasks, event \in Events :
                 Mutate(t, event) /\ Tells(event) /\ Log' = Append(Log, event)
<1> DEFINE Same == UNCHANGED <<Log, Live>>
<1>1. ASSUME UNCHANGED <<stateVars, sent, pending>>
      PROVE  Same
  BY <1>1 DEF stateVars, Live, Log
<1>2. CASE UNCHANGED vars
  BY <1>1, <1>2 DEF vars, guardVars, channelVars
<1>3. ASSUME NEW t \in Tasks,
             Acquire(t) \/ ReleaseRead(t) \/ BeginDrop(t) \/ ReleaseWrite(t)
      PROVE  Same
  BY <1>1, <1>3 DEF Acquire, ReleaseRead, BeginDrop, ReleaseWrite, guardVars, channelVars
<1>4. ASSUME NEW t \in Tasks, SendEvent(t)
      PROVE  Same
  <2>1. sent \in Seq(Events) /\ pending \in Seq(Events) /\ pending # <<>>
    BY <1>4 DEF TypeOK, SendEvent
  <2>2. Append(sent, Head(pending)) \o Tail(pending) = sent \o pending
    BY <2>1
  <2>3. QED
    BY <1>4, <2>2 DEF SendEvent, Log, Live, stateVars
<1>5. ASSUME NEW t \in Tasks, Change(t)
      PROVE  \E event \in Events :
                Mutate(t, event) /\ Tells(event) /\ Log' = Append(Log, event)
  <2>1. PICK event \in Events : Mutate(t, event) /\ Tells(event)
    BY <1>5, ChangeTells
  <2>2. sent' = sent /\ pending' = Append(pending, event)
    BY <2>1 DEF Mutate, channelVars
  <2>3. sent \o Append(pending, event) = Append(sent \o pending, event)
    BY DEF TypeOK
  <2>4. QED
    BY <2>1, <2>2, <2>3 DEF Log
<1>6. ASSUME NEW s \in Subscribers,
             Subscribe(s) \/ Receive(s) \/ Lag(s) \/ \E t \in Tasks : Snapshot(s, t)
      PROVE  Same
  BY <1>1, <1>6 DEF Subscribe, Receive, Lag, Snapshot, guardVars
<1>7. QED
  BY <1>2, <1>3, <1>4, <1>5, <1>6 DEF Next

\* No event tells the empty registry.
LEMMA EventsInit == Init => EventsTellTheRegistry
<1> SUFFICES ASSUME Init
             PROVE  EventsTellTheRegistry
  OBVIOUS
<1>1. Live = {}
  BY DEF Init, StateInit, Live
<1>2. sent \o pending = <<>>
  BY DEF Init
<1>3. Replay({}, <<>>, 1) = {}
  <2>1. \A i : i \notin 1 .. Len(<<>>)
    OBVIOUS
  <2>2. QED
    BY <2>1 DEF Replay
<1>4. QED
  BY <1>1, <1>2, <1>3 DEF EventsTellTheRegistry

\* A change adds the event that tells it; nothing else changes what is told.
LEMMA EventsStep ==
    TypeOK /\ EventsTellTheRegistry /\ [Next]_vars => EventsTellTheRegistry'
<1> SUFFICES ASSUME TypeOK, EventsTellTheRegistry, [Next]_vars
             PROVE  EventsTellTheRegistry'
  OBVIOUS
<1>1. Replay({}, Log, 1) = Live
  BY DEF EventsTellTheRegistry, Log
<1>2. CASE UNCHANGED <<Log, Live>>
  BY <1>1, <1>2 DEF EventsTellTheRegistry, Log
<1>3. ASSUME NEW event \in Events, Tells(event), Log' = Append(Log, event)
      PROVE  EventsTellTheRegistry'
  <2>1. Replay({}, Append(Log, event), 1)
          = IF event.type = "Added" THEN Replay({}, Log, 1) \cup {event.entity}
                                    ELSE Replay({}, Log, 1) \ {event.entity}
    BY LogType, ReplayAppend
  <2>2. event.type \in {"Added", "Removed"}
    BY EventParts
  <2>3. Replay({}, Log', 1) = Live'
    BY <1>1, <1>3, <2>1, <2>2 DEF Tells
  <2>4. QED
    BY <2>3 DEF EventsTellTheRegistry, Log
<1>4. QED
  BY <1>2, <1>3, LogStep

\* At every step of every write guard, the events sent and pending tell exactly
\* the live entities.
THEOREM EventsCorrect == Spec => []EventsTellTheRegistry
BY EventsInit, EventsStep, TypeCorrect, PTL DEF Spec

(***************************************************************************)
(* No event for a removal that removed nothing: what is removed is live,   *)
(* so the log tells it is, so the last event about it is its Added.        *)
(***************************************************************************)

\* By what the events tell, an entity that is removed was live, so its last event
\* was Added.
LEMMA RemovedStep ==
    TypeOK /\ EventsTellTheRegistry /\ RemovedWasAdded /\ [Next]_vars => RemovedWasAdded'
<1> SUFFICES ASSUME TypeOK, EventsTellTheRegistry, RemovedWasAdded, [Next]_vars
             PROVE  RemovedWasAdded'
  OBVIOUS
<1> DEFINE Preceded(log, i) ==
             log[i].type = "Removed" =>
                \E k \in 1 .. i - 1 :
                    /\ log[k] = Added(log[i].entity)
                    /\ \A j \in k + 1 .. i - 1 : log[j] # Removed(log[i].entity)
<1>1. \A i \in DOMAIN Log : Preceded(Log, i)
  BY DEF RemovedWasAdded, Log
<1>2. CASE UNCHANGED <<Log, Live>>
  BY <1>1, <1>2 DEF RemovedWasAdded, Log
<1>3. ASSUME NEW event \in Events, Tells(event), Log' = Append(Log, event)
      PROVE  RemovedWasAdded'
  <2> DEFINE n == Len(Log)
             new == Append(Log, event)
  <2>1. /\ Log \in Seq(Events) /\ n \in Nat
        /\ DOMAIN new = 1 .. n + 1 /\ DOMAIN Log = 1 .. n
        /\ new[n + 1] = event
        /\ \A i \in 1 .. n : new[i] = Log[i] /\ i \in 1 .. n + 1
    BY LogType
  <2>2. ASSUME NEW i \in 1 .. n
        PROVE  Preceded(new, i)
    <3>1. /\ \A k \in 1 .. i - 1 : k \in 1 .. n
          /\ \A k \in 1 .. i - 1 : \A j \in k + 1 .. i - 1 : j \in 1 .. n
      BY <2>1
    <3>2. QED
      BY <1>1, <2>1, <3>1
  <2>3. ASSUME event.type = "Removed"
        PROVE  \E k \in 1 .. n : /\ Log[k] = Added(event.entity)
                                 /\ \A j \in k + 1 .. n : Log[j] # Removed(event.entity)
    <3>1. event.entity \in Replay({}, Log, 1)
      BY <1>3, <2>3 DEF Tells, EventsTellTheRegistry, Log
    <3>2. PICK k \in 1 .. n : LastAbout(Log, k, event.entity) /\ Log[k].type = "Added"
      BY <3>1 DEF Replay
    <3>3. Log[k] \in Events
      BY <2>1, <3>2
    <3>4. Log[k] = Added(event.entity)
      BY <3>2, <3>3 DEF Events, Added, LastAbout
    <3>5. \A j \in k + 1 .. n : Log[j] # Removed(event.entity)
      BY <3>2 DEF LastAbout, Removed
    <3>6. QED
      BY <3>4, <3>5
  <2>4. Preceded(new, n + 1)
    <3>1. /\ n + 1 - 1 = n
          /\ \A k \in 1 .. n : \A j \in k + 1 .. n : j \in 1 .. n
      BY <2>1
    <3>2. QED
      BY <2>1, <2>3, <3>1
  <2>5. \A i \in DOMAIN new : i \in 1 .. n \/ i = n + 1
    BY <2>1
  <2>6. \A i \in DOMAIN new : Preceded(new, i)
    BY <2>2, <2>4, <2>5
  <2> HIDE DEF new
  <2>7. Log' = new
    BY <1>3 DEF new
  <2>8. QED
    BY <2>6, <2>7 DEF RemovedWasAdded, Log
<1>4. QED
  BY <1>2, <1>3, LogStep

\* A Removed event is never sent for an entity that was not there.
THEOREM RemovedCorrect == Spec => []RemovedWasAdded
<1>1. Init => RemovedWasAdded
  BY DEF Init, RemovedWasAdded
<1>2. QED
  BY <1>1, RemovedStep, TypeCorrect, EventsCorrect, PTL DEF Spec

-----------------------------------------------------------------------------
(***************************************************************************)
(* Subscribers.  What a synced subscriber still has to hear explains the   *)
(* difference between its replica and the registry.                        *)
(***************************************************************************)

\* Where a subscriber can be in the log.
CursorsInLog ==
    /\ \A s \in Subscribers : cursor[s] <= Len(sent) + 1
    /\ \A s \in synced : cursor[s] # 0

\* No cursor runs ahead of what was sent.
LEMMA CursorsStep == TypeOK /\ CursorsInLog /\ [Next]_vars => CursorsInLog'
<1> SUFFICES ASSUME TypeOK, CursorsInLog, [Next]_vars
             PROVE  CursorsInLog'
  OBVIOUS
<1> USE DEF TypeOK, CursorsInLog
<1>1. CASE UNCHANGED vars
  BY <1>1 DEF vars, channelVars
<1>2. ASSUME NEW t \in Tasks,
             Acquire(t) \/ ReleaseRead(t) \/ BeginDrop(t) \/ ReleaseWrite(t)
      PROVE  CursorsInLog'
  BY <1>2 DEF Acquire, ReleaseRead, BeginDrop, ReleaseWrite, channelVars
<1>3. ASSUME NEW t \in Tasks, Change(t)
      PROVE  CursorsInLog'
  BY <1>3, ChangeIsMutation DEF Mutate, channelVars
<1>4. ASSUME NEW t \in Tasks, SendEvent(t)
      PROVE  CursorsInLog'
  <2>1. Len(sent') = Len(sent) + 1 /\ UNCHANGED <<cursor, synced>>
    BY <1>4 DEF SendEvent
  <2>2. QED
    BY <2>1
<1>5. ASSUME NEW s \in Subscribers, Subscribe(s) \/ \E t \in Tasks : Snapshot(s, t)
      PROVE  CursorsInLog'
  BY <1>5 DEF Subscribe, Snapshot
<1>6. ASSUME NEW s \in Subscribers, Receive(s) \/ Lag(s)
      PROVE  CursorsInLog'
  <2>1. Oldest \in Nat \ {0} /\ Oldest <= Len(sent) + 1
    BY CapacityAssumption DEF Oldest
  <2>2. /\ cursor[s] \in Nat /\ cursor'[s] \in Nat \ {0} /\ cursor'[s] <= Len(sent) + 1
        /\ \A u \in Subscribers \ {s} : cursor'[u] = cursor[u]
    BY <1>6, <2>1 DEF Receive, Lag
  <2>3. sent' = sent /\ synced' \subseteq synced
    BY <1>6 DEF Receive, Lag
  <2>4. QED
    BY <2>2, <2>3
<1>7. QED
  BY <1>1, <1>2, <1>3, <1>4, <1>5, <1>6 DEF Next

\* The log and the registry move together, so a subscriber that does nothing
\* still has to hear exactly what it lacks.
LEMMA OthersKeepConvergence ==
    ASSUME TypeOK, CursorsInLog, [Next]_vars, NEW s \in synced,
           Replay(replica[s], Log, cursor[s]) = Live,
           UNCHANGED <<cursor, replica>>
    PROVE  Replay(replica'[s], Log', cursor'[s]) = Live'
<1>1. CASE UNCHANGED <<Log, Live>>
  BY <1>1
<1>2. ASSUME NEW event \in Events, Tells(event), Log' = Append(Log, event)
      PROVE  Replay(replica'[s], Log', cursor'[s]) = Live'
  <2> DEFINE first == cursor[s]
             base  == replica[s]
  <2>1. first \in Nat \ {0} /\ first <= Len(Log) + 1 /\ Log \in Seq(Events)
    BY LogType DEF TypeOK, CursorsInLog
  <2>2. Replay(base, Log, first) = Live /\ replica'[s] = base /\ cursor'[s] = first
    OBVIOUS
  <2>3. event.type \in {"Added", "Removed"}
    BY EventParts
  <2> HIDE DEF first, base
  <2>4. Replay(base, Append(Log, event), first)
          = IF event.type = "Added" THEN Replay(base, Log, first) \cup {event.entity}
                                    ELSE Replay(base, Log, first) \ {event.entity}
    BY <2>1, ReplayAppend
  <2>5. QED
    BY <1>2, <2>2, <2>3, <2>4 DEF Tells
<1>3. QED
  BY <1>1, <1>2, LogStep

\* The snapshot shows everything in the log, and hearing again what it shows
\* already does no harm.
LEMMA SnapshotConverges ==
    ASSUME TypeOK, CursorsInLog, EventsTellTheRegistry,
           NEW s \in Subscribers, NEW t \in Tasks, Snapshot(s, t)
    PROVE  Replay(replica'[s], Log', cursor'[s]) = Live'
<1>1. replica'[s] = Live /\ Log' = Log /\ cursor' = cursor /\ Live' = Live
  BY DEF Snapshot, TypeOK, Log, guardVars, stateVars, Live
<1>2. cursor[s] \in Nat \ {0} /\ Log \in Seq(Events)
  BY LogType DEF TypeOK, Snapshot
<1>3. Replay({}, Log, 1) = Live
  BY DEF EventsTellTheRegistry, Log
<1>4. QED
  BY <1>1, <1>2, <1>3, ReplayAgain

\* To receive an event is to have one event less to hear.
LEMMA ReceiveConverges ==
    ASSUME TypeOK, CursorsInLog, NEW s \in synced, Receive(s),
           Replay(replica[s], Log, cursor[s]) = Live
    PROVE  Replay(replica'[s], Log', cursor'[s]) = Live'
<1> DEFINE i     == cursor[s]
           event == sent[i]
<1>1. s \in Subscribers
  BY DEF TypeOK
<1>2. /\ i \in 1 .. Len(sent) /\ i \in 1 .. Len(Log)
      /\ Log[i] = event
  <2>1. Oldest \in Nat \ {0}
    BY CapacityAssumption DEF Oldest, TypeOK
  <2>2. i \in 1 .. Len(sent)
    BY <2>1 DEF Receive
  <2>3. QED
    BY <2>2, LogType DEF Log, TypeOK
<1>3. /\ replica'[s] = IF event.type = "Added" THEN replica[s] \cup {event.entity}
                                               ELSE replica[s] \ {event.entity}
      /\ cursor'[s] = i + 1
      /\ Log' = Log /\ Live' = Live
  BY <1>1 DEF Receive, TypeOK, Log, guardVars, stateVars, Live
<1>4. Replay(replica[s], Log, i)
        = Replay(IF Log[i].type = "Added" THEN replica[s] \cup {Log[i].entity}
                                          ELSE replica[s] \ {Log[i].entity}, Log, i + 1)
  BY <1>2, LogType, ReplayStep
<1>5. QED
  BY <1>2, <1>3, <1>4

\* Every step keeps what a synced subscriber has and has still to hear equal to the
\* registry.
LEMMA ConvergenceStep ==
    /\ TypeOK /\ CursorsInLog /\ EventsTellTheRegistry
    /\ SyncedReplicaConverges /\ [Next]_vars
    => SyncedReplicaConverges'
<1> SUFFICES ASSUME TypeOK, CursorsInLog, EventsTellTheRegistry,
                    SyncedReplicaConverges, [Next]_vars,
                    NEW s \in synced'
             PROVE  Replay(replica'[s], Log', cursor'[s]) = Live'
  BY DEF SyncedReplicaConverges, Log
<1> DEFINE Goal == Replay(replica'[s], Log', cursor'[s]) = Live'
<1>1. \A u \in synced : Replay(replica[u], Log, cursor[u]) = Live /\ u \in Subscribers
  BY DEF SyncedReplicaConverges, Log, TypeOK
<1>2. ASSUME UNCHANGED <<cursor, replica, synced>>
      PROVE  Goal
  BY <1>1, <1>2, OthersKeepConvergence
<1>3. CASE UNCHANGED vars
  BY <1>2, <1>3 DEF vars, channelVars
<1>4. ASSUME NEW t \in Tasks,
             Acquire(t) \/ ReleaseRead(t) \/ BeginDrop(t) \/ SendEvent(t) \/ ReleaseWrite(t)
      PROVE  Goal
  BY <1>2, <1>4 DEF Acquire, ReleaseRead, BeginDrop, SendEvent, ReleaseWrite, channelVars
<1>5. ASSUME NEW t \in Tasks, Change(t)
      PROVE  Goal
  BY <1>2, <1>5, ChangeIsMutation DEF Mutate, channelVars
<1>6. ASSUME NEW u \in Subscribers,
             Subscribe(u) \/ Receive(u) \/ Lag(u) \/ \E t \in Tasks : Snapshot(u, t)
      PROVE  Goal
  <2>1. UNCHANGED <<Log, Live>>
    BY <1>6 DEF Subscribe, Receive, Lag, Snapshot, Log, Live, guardVars, stateVars
  <2>2. CASE u # s
    <3>1. s \in synced /\ replica'[s] = replica[s] /\ cursor'[s] = cursor[s]
      BY <1>6, <2>2 DEF Subscribe, Receive, Lag, Snapshot, TypeOK
    <3>2. QED
      BY <1>1, <2>1, <3>1
  <2>3. CASE u = s
    <3>1. ~Lag(s)
      BY DEF Lag
    <3>2. ASSUME Subscribe(s) PROVE FALSE
      BY <3>2 DEF Subscribe, CursorsInLog
    <3>3. ASSUME Receive(s) PROVE Goal
      <4>1. s \in synced
        BY <3>3 DEF Receive
      <4>2. QED
        BY <1>1, <3>3, <4>1, ReceiveConverges
    <3>4. ASSUME NEW t \in Tasks, Snapshot(s, t) PROVE Goal
      BY <1>6, <2>3, <3>4, SnapshotConverges
    <3>5. QED
      BY <1>6, <2>3, <3>1, <3>2, <3>3, <3>4
  <2>4. QED
    BY <2>2, <2>3
<1>7. QED
  BY <1>3, <1>4, <1>5, <1>6 DEF Next

\* Cursors stay within the log in every behaviour.
LEMMA CursorsCorrect == Spec => []CursorsInLog
<1>1. Init => CursorsInLog
  BY DEF Init, CursorsInLog
<1>2. QED
  BY <1>1, CursorsStep, TypeCorrect, PTL DEF Spec

\* What a subscriber that has a snapshot and lost no event since still has to
\* hear always explains the difference between its replica and the registry.
THEOREM ConvergenceCorrect == Spec => []SyncedReplicaConverges
<1>1. Init => SyncedReplicaConverges
  BY DEF Init, SyncedReplicaConverges
<1>2. QED
  BY <1>1, ConvergenceStep, TypeCorrect, CursorsCorrect, EventsCorrect, PTL DEF Spec

\* A subscriber that has heard everything mirrors the registry exactly whenever
\* no write guard is out.
THEOREM CaughtUpCorrect == Spec => []CaughtUpReplicaIsExact
<1>1. TypeOK /\ SyncedReplicaConverges => CaughtUpReplicaIsExact
  <2> SUFFICES ASSUME TypeOK, SyncedReplicaConverges, NEW s \in synced,
                      cursor[s] = Len(sent) + 1, Writers = {}
               PROVE  replica[s] = Live
    BY DEF CaughtUpReplicaIsExact
  <2>1. pending = <<>> /\ sent \in Seq(Events) /\ replica[s] \in SUBSET Entities
    BY DEF TypeOK
  <2>2. sent \o pending = sent
    BY <2>1
  <2>3. Replay(replica[s], sent, Len(sent) + 1) = Live
    BY <2>2 DEF SyncedReplicaConverges
  <2>4. QED
    BY <2>1, <2>3, ReplayNothing
<1>2. QED
  BY <1>1, TypeCorrect, ConvergenceCorrect, PTL

-----------------------------------------------------------------------------
(***************************************************************************)
(* Readers.                                                                *)
(***************************************************************************)

\* Whoever changes the registry or sends has the write guard, so nobody reads.
LEMMA ChangesExcludeReaders ==
    ASSUME Exclusion, NEW t \in Tasks,
           Change(t) \/ BeginDrop(t) \/ SendEvent(t) \/ ReleaseWrite(t)
    PROVE  Readers = {} /\ t \in Writers
<1>1. mode[t] = "writing"
  BY ChangeIsMutation DEF Mutate, BeginDrop, SendEvent, ReleaseWrite
<1>2. QED
  BY <1>1 DEF Exclusion, Writers

\* No step changes the registry or sends an event while somebody reads.
LEMMA ReadGuardStep ==
    ASSUME Exclusion, [Next]_vars, NEW t \in Readers
    PROVE  UNCHANGED <<stateVars, sent>>
<1>1. CASE UNCHANGED vars
  BY <1>1 DEF vars, channelVars
<1>2. ASSUME NEW u \in Tasks, Acquire(u) \/ ReleaseRead(u)
      PROVE  UNCHANGED <<stateVars, sent>>
  BY <1>2 DEF Acquire, ReleaseRead, channelVars
<1>3. ASSUME NEW u \in Tasks,
             Change(u) \/ BeginDrop(u) \/ SendEvent(u) \/ ReleaseWrite(u)
      PROVE  FALSE
  BY <1>3, ChangesExcludeReaders
<1>4. ASSUME NEW s \in Subscribers,
             Subscribe(s) \/ Receive(s) \/ Lag(s) \/ \E u \in Tasks : Snapshot(s, u)
      PROVE  UNCHANGED <<stateVars, sent>>
  BY <1>4 DEF Subscribe, Receive, Lag, Snapshot
<1>5. QED
  BY <1>1, <1>2, <1>3, <1>4 DEF Next

\* While a read guard is held the registry does not change and no event is sent.
THEOREM ReadGuardCorrect == Spec => ReadGuardIsSnapshot
<1>1. Exclusion /\ [Next]_vars
        => [(\E t \in Readers : mode'[t] = "reading") => UNCHANGED <<stateVars, sent>>]_vars
  BY ReadGuardStep
<1>2. QED
  BY <1>1, TopologyExclusion, PTL DEF Spec, ReadGuardIsSnapshot

-----------------------------------------------------------------------------
(***************************************************************************)
(* Refinement of AtomicRegistry.                                           *)
(***************************************************************************)

Seen == [t \in Readers |-> Live]

\* AtomicRegistry speaks of the same events and of what they tell.
LEMMA SameEvents == Registry!Entities = Entities /\ Registry!Events = Events
BY DEF Registry!Events, Events, Registry!Entities, Entities, Registry!ComponentRef,
       ComponentRef, Registry!AppRef, AppRef, Registry!AreaRef, AreaRef

\* AtomicRegistry replays a log as TopologyEvents does.
LEMMA SameReplay ==
    ASSUME NEW base, NEW log, NEW first
    PROVE  Registry!Replay(base, log, first) = Replay(base, log, first)
<1>1. \A i, e : Registry!LastAbout(log, i, e) <=> LastAbout(log, i, e)
  BY DEF Registry!LastAbout, LastAbout
<1>2. QED
  BY <1>1, SameEvents DEF Registry!Replay, Replay

\* A new Topology is an empty AtomicRegistry.
LEMMA RegistryInit == Init => Registry!Init
<1> SUFFICES ASSUME Init
             PROVE  Registry!Init
  OBVIOUS
<1>1. Readers = {}
  BY DEF Init, LockInit, Readers, Idle
<1>2. CommittedLog = <<>>
  BY DEF Init, CommittedLog
<1>3. QED
  BY <1>1, <1>2 DEF Registry!Init

\* The drop of the write guard commits what is pending.
LEMMA CommitStep ==
    ASSUME TypeOK, Exclusion, NEW t \in Tasks, BeginDrop(t)
    PROVE  Registry!Commit
<1>1. CommittedLog = sent /\ CommittedLog' = sent \o pending
  BY DEF BeginDrop, CommittedLog, channelVars
<1>2. sent \in Seq(Events) /\ pending \in Seq(Events)
  BY DEF TypeOK
<1>3. /\ sent \o pending \in Seq(Events)
      /\ Len(sent) <= Len(sent \o pending)
      /\ sent = SubSeq(sent \o pending, 1, Len(sent))
  BY <1>2
<1>4. Seen' = Seen
  BY DEF BeginDrop, Seen, Readers, Live, stateVars, lockVars
<1>5. DOMAIN Seen = {}
  BY ChangesExcludeReaders DEF Seen
<1>6. QED
  BY <1>1, <1>3, <1>4, <1>5, SameEvents DEF Registry!Commit, Seen

\* Whoever is granted a read guard sees what the committed log tells.
LEMMA BeginReadStep ==
    ASSUME TypeOK, Exclusion, EventsTellTheRegistry, NEW t \in Tasks,
           GrantRead(t), UNCHANGED <<stateVars, guardVars, channelVars>>
    PROVE  Registry!BeginRead(t)
<1>1. ~dropping /\ pending = <<>> /\ sent \in Seq(Events)
  BY DEF TypeOK, GrantRead
<1>2. sent \o pending = sent
  BY <1>1
<1>3. CommittedLog = sent /\ CommittedLog' = sent
  BY <1>1 DEF CommittedLog, guardVars, channelVars
<1>4. Live = Replay({}, sent, 1) /\ Live' = Live
  BY <1>2 DEF EventsTellTheRegistry, Live, stateVars
<1>5. t \notin Readers /\ Readers' = Readers \cup {t}
  BY DEF GrantRead, Readers, TypeOK, LockTypeOK
<1>6. Registry!Replay({}, CommittedLog, 1) = Live
  BY <1>3, <1>4, SameReplay
<1>7. QED
  BY <1>3, <1>4, <1>5, <1>6 DEF Registry!BeginRead

\* Dropping a read guard ends a read.
LEMMA EndReadStep ==
    ASSUME TypeOK, NEW t \in Tasks, ReleaseRead(t)
    PROVE  Registry!EndRead(t)
<1>1. CommittedLog' = CommittedLog /\ Live' = Live
  BY DEF ReleaseRead, CommittedLog, guardVars, channelVars, Live, stateVars
<1>2. t \in Readers /\ Readers' = Readers \ {t}
  BY DEF ReleaseRead, Unlock, Readers, TypeOK, LockTypeOK, Idle
<1>3. QED
  BY <1>1, <1>2 DEF Registry!EndRead

\* Every step of Topology is a step of AtomicRegistry or none.
LEMMA RegistryStep ==
    TypeOK /\ Exclusion /\ EventsTellTheRegistry /\ [Next]_vars
      => [Registry!Next]_<<CommittedLog, Seen>>
<1> SUFFICES ASSUME TypeOK, Exclusion, EventsTellTheRegistry, [Next]_vars
             PROVE  Registry!Next \/ UNCHANGED <<CommittedLog, Seen>>
  OBVIOUS
<1>1. ASSUME UNCHANGED <<stateVars, sent, pending, dropping>>, Readers' = Readers
      PROVE  UNCHANGED <<CommittedLog, Seen>>
  BY <1>1 DEF CommittedLog, Seen, Live, stateVars
<1>2. CASE UNCHANGED vars
  BY <1>1, <1>2 DEF vars, guardVars, channelVars, lockVars, Readers
<1>3. ASSUME NEW t \in Tasks, Acquire(t)
      PROVE  Registry!Next \/ UNCHANGED <<CommittedLog, Seen>>
  <2>1. CASE GrantRead(t)
    BY <1>3, <2>1, BeginReadStep DEF Acquire, Registry!Next
  <2>2. CASE ~GrantRead(t)
    <3>1. Readers' = Readers
      BY <1>3, <2>2 DEF Acquire, Enqueue, GrantWrite, CancelWait, Waits, Idle,
                        Readers, TypeOK, LockTypeOK
    <3>2. QED
      BY <1>1, <1>3, <3>1 DEF Acquire, guardVars, channelVars
  <2>3. QED
    BY <2>1, <2>2
<1>4. ASSUME NEW t \in Tasks, ReleaseRead(t)
      PROVE  Registry!Next
  BY <1>4, EndReadStep DEF Registry!Next
<1>5. ASSUME NEW t \in Tasks, Change(t)
      PROVE  UNCHANGED <<CommittedLog, Seen>>
  <2>1. Readers = {} /\ ~dropping /\ ~dropping' /\ sent' = sent /\ mode' = mode
    BY <1>5, ChangeIsMutation, ChangesExcludeReaders DEF Mutate, lockVars, channelVars
  <2>2. QED
    BY <2>1 DEF CommittedLog, Seen, Readers
<1>6. ASSUME NEW t \in Tasks, BeginDrop(t)
      PROVE  Registry!Next
  BY <1>6, CommitStep DEF Registry!Next
<1>7. ASSUME NEW t \in Tasks, SendEvent(t)
      PROVE  UNCHANGED <<CommittedLog, Seen>>
  <2>1. sent \in Seq(Events) /\ pending \in Seq(Events) /\ pending # <<>>
    BY <1>7 DEF TypeOK, SendEvent
  <2>2. Append(sent, Head(pending)) \o Tail(pending) = sent \o pending
    BY <2>1
  <2>3. QED
    BY <1>7, <2>2 DEF SendEvent, CommittedLog, Seen, Live, Readers, stateVars, lockVars
<1>8. ASSUME NEW t \in Tasks, ReleaseWrite(t)
      PROVE  UNCHANGED <<CommittedLog, Seen>>
  <2>1. dropping /\ pending = <<>> /\ sent \in Seq(Events)
    BY <1>8 DEF ReleaseWrite, TypeOK
  <2>2. sent \o pending = sent
    BY <2>1
  <2>3. Readers = {} /\ Readers' = {}
    BY <1>8, ChangesExcludeReaders
       DEF ReleaseWrite, Unlock, Readers, TypeOK, LockTypeOK, Idle
  <2>4. ~dropping' /\ sent' = sent
    BY <1>8 DEF ReleaseWrite, channelVars
  <2>5. QED
    BY <2>1, <2>2, <2>3, <2>4 DEF CommittedLog, Seen
<1>9. ASSUME NEW s \in Subscribers,
             Subscribe(s) \/ Receive(s) \/ Lag(s) \/ \E t \in Tasks : Snapshot(s, t)
      PROVE  UNCHANGED <<CommittedLog, Seen>>
  BY <1>1, <1>9 DEF Subscribe, Receive, Lag, Snapshot, guardVars, lockVars, Readers
<1>10. QED
  BY <1>2, <1>3, <1>4, <1>5, <1>6, <1>7, <1>8, <1>9 DEF Next

\* Topology implements AtomicRegistry: batches are committed whole, and every
\* reader sees what the committed log tells for as long as it holds its guard.
THEOREM RefinementCorrect == Spec => ImplementsAtomicRegistry
<1>1. TypeOK /\ Exclusion /\ EventsTellTheRegistry /\ [Next]_vars
        => [Registry!Next]_<<CommittedLog, [t \in Readers |-> Live]>>
  BY RegistryStep DEF Seen
<1>2. QED
  BY <1>1, RegistryInit, TypeCorrect, TopologyExclusion, EventsCorrect, PTL
     DEF Spec, ImplementsAtomicRegistry, Registry!Spec

=============================================================================
