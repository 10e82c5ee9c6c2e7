--------------------------- MODULE DiscoveryProofs ---------------------------
(***************************************************************************)
(* Discovery uses the Topology as the Topology allows, for every set of    *)
(* providers and batches, so what TopologyProofs says of every behaviour   *)
(* of a Topology holds while discovery runs; and each batch that is given  *)
(* the guard is applied whole, in the order of its stream.                 *)
(***************************************************************************)
EXTENDS Discovery, TopologyProofs, SequenceTheorems, Integers

\* DiscoveryTypeOK without what Topology keeps by itself.
FeedOK ==
    /\ phase \in {"starting", "running", "done"}
    /\ toStart \subseteq Providers
    /\ streams \subseteq Providers
    /\ ready \in [Providers -> Batches \cup {None, Failure}]
    /\ yielded \in [Providers -> 0 .. MaxItems]
    /\ hand \in Batch \cup {None}
    /\ from \in Providers \cup {None}
    /\ shutdown \in BOOLEAN
    /\ hand = None <=> mode[Discoverer] = Idle
    /\ hand = None <=> from = None
    /\ hand # None => phase = "running"
    /\ \A t \in Handlers : mode[t] \notin {"wantWrite", "writing"}

LEMMA FeedParts == DiscoveryTypeOK <=> TypeOK /\ FeedOK
  BY DEF DiscoveryTypeOK, FeedOK

(***************************************************************************)
(* What a step of discovery is to the Topology.                            *)
(***************************************************************************)

\* The changes of a batch are changes of the write guard of the Discoverer, or none.
LEMMA ApplyStepIsChange ==
    ASSUME FeedOK, ApplyStep
    PROVE  /\ Change(Discoverer) \/ UNCHANGED vars
           /\ mode[Discoverer] = "writing" /\ mode' = mode
<1>1. ASSUME NEW e \in Entities, RemoveEntity(e)
      PROVE  /\ Change(Discoverer) \/ UNCHANGED vars
             /\ mode[Discoverer] = "writing" /\ mode' = mode
  BY <1>1 DEF RemoveEntity, Change, DeleteComponent, DeleteApp, DeleteArea, Mutate, lockVars,
              vars, topologyVars
<1>2. ASSUME hand # None, NEW x \in hand.components, AddNextComponent(x)
      PROVE  /\ Change(Discoverer)
             /\ mode[Discoverer] = "writing" /\ mode' = mode
  <2>1. x.id \in ComponentIds /\ x.area \in AreaId
    BY <1>2 DEF FeedOK, Batch
  <2>2. QED
    BY <1>2, <2>1 DEF AddNextComponent, Change, AddComponent, Mutate, lockVars
<1>3. ASSUME hand # None, NEW x \in hand.apps, AddNextApp(x)
      PROVE  /\ Change(Discoverer)
             /\ mode[Discoverer] = "writing" /\ mode' = mode
  <2>1. x.id \in AppIds /\ x.app \in App
    BY <1>3 DEF FeedOK, Batch
  <2>2. QED
    BY <1>3, <2>1 DEF AddNextApp, Change, AddApp, Mutate, lockVars
<1>4. ASSUME hand # None, NEW r \in hand.areas, AddNextArea(r)
      PROVE  /\ Change(Discoverer)
             /\ mode[Discoverer] = "writing" /\ mode' = mode
  <2>1. r \in AreaIds
    BY <1>4 DEF FeedOK, Batch
  <2>2. QED
    BY <1>4, <2>1 DEF AddNextArea, Change, AddArea, Mutate, lockVars
<1>5. QED
  BY <1>1, <1>2, <1>3, <1>4 DEF ApplyStep

\* What the providers and the outside do.
OutsideStep ==
    \/ \E p \in Providers : \/ \E ok \in BOOLEAN : StartProvider(p, ok)
                            \/ Yield(p) \/ EndStream(p) \/ SkipFailure(p)
    \/ MergeStreams \/ Shutdown \/ StreamsOver

LEMMA OutsideKeepsTopology == OutsideStep => UNCHANGED vars
  BY DEF OutsideStep, StartProvider, Yield, EndStream, SkipFailure, MergeStreams, Shutdown,
         StreamsOver, topologyVars

HandlerStep(t) == HandlerAsks(t) \/ HandlerReads(t) \/ HandlerLeaves(t) \/ HandlerEnds(t)

\* Every step of discovery and its handlers is a step of the Topology or none.
LEMMA StepsAreTopologySteps == FeedOK /\ [DiscoveryNext]_discoveryVars => [Next]_vars
<1> SUFFICES ASSUME FeedOK, [DiscoveryNext]_discoveryVars PROVE Next \/ UNCHANGED vars
  OBVIOUS
<1> USE DiscovererAssumption
<1>1. CASE OutsideStep \/ UNCHANGED discoveryVars
  BY <1>1, OutsideKeepsTopology DEF discoveryVars
<1>2. ASSUME NEW p \in Providers, TakeBatch(p)
      PROVE  Next
  BY <1>2 DEF TakeBatch, Next, Acquire, Waits
<1>3. CASE LockWrite
  BY <1>3 DEF LockWrite, Next, Acquire
<1>4. CASE ApplyStep
  BY <1>4, ApplyStepIsChange DEF Next
<1>5. CASE DropGuard \/ SendNextEvent \/ FinishBatch
  BY <1>5 DEF DropGuard, SendNextEvent, FinishBatch, Next
<1>6. CASE Stop
  <2>1. CASE CancelWait(Discoverer)
    BY <1>6, <2>1 DEF Stop, Next, Acquire
  <2>2. CASE UNCHANGED lockVars
    BY <1>6, <2>2 DEF Stop, vars
  <2>3. QED
    BY <1>6, <2>1, <2>2 DEF Stop
<1>7. ASSUME NEW t \in Handlers, HandlerStep(t)
      PROVE  Next
  BY <1>7 DEF Handlers, HandlerStep, HandlerAsks, HandlerReads, HandlerLeaves, HandlerEnds, Next, Acquire,
              Waits
<1>8. QED
  BY <1>1, <1>2, <1>3, <1>4, <1>5, <1>6, <1>7
     DEF DiscoveryNext, DiscoveryStep, OutsideStep, HandlerStep

(***************************************************************************)
(* The types of discovery.                                                 *)
(***************************************************************************)

LEMMA OutsideKeepsFeed ==
    ASSUME FeedOK, OutsideStep
    PROVE  FeedOK'
<1>1. mode' = mode
  BY OutsideKeepsTopology DEF vars, lockVars
<1> USE BatchesAssumption, NoneAssumption, MaxItemsAssumption, <1>1 DEF FeedOK
<1>2. ASSUME NEW p \in Providers, NEW ok \in BOOLEAN, StartProvider(p, ok)
      PROVE  FeedOK'
  BY <1>2 DEF StartProvider
<1>3. ASSUME NEW p \in Providers, Yield(p)
      PROVE  FeedOK'
  <2>1. yielded'[p] \in 0 .. MaxItems
    BY <1>3 DEF Yield
  <2>2. yielded' \in [Providers -> 0 .. MaxItems]
    BY <1>3, <2>1 DEF Yield
  <2>3. ready' \in [Providers -> Batches \cup {None, Failure}]
    BY <1>3 DEF Yield
  <2>4. QED
    BY <1>3, <2>2, <2>3 DEF Yield
<1>4. ASSUME NEW p \in Providers, EndStream(p) \/ SkipFailure(p)
      PROVE  FeedOK'
  BY <1>4 DEF EndStream, SkipFailure
<1>5. CASE MergeStreams \/ StreamsOver
  BY <1>5 DEF MergeStreams, StreamsOver
<1>6. CASE Shutdown
  BY <1>6 DEF Shutdown
<1>7. QED
  BY <1>2, <1>3, <1>4, <1>5, <1>6 DEF OutsideStep

LEMMA TakeBatchKeepsFeed ==
    ASSUME TypeOK, FeedOK, NEW p \in Providers, TakeBatch(p)
    PROVE  FeedOK'
<1>1. /\ mode' = [mode EXCEPT ![Discoverer] = "wantWrite"]
      /\ mode \in [Tasks -> Mode]
  BY DEF TakeBatch, Enqueue, TypeOK, LockTypeOK
<1>2. mode'[Discoverer] # Idle /\ \A t \in Handlers : mode'[t] = mode[t]
  BY <1>1, DiscovererAssumption DEF Idle, Handlers
<1>3. /\ hand' \in Batch /\ hand' # None /\ from' \in Providers /\ from' # None
      /\ phase' = "running" /\ phase = phase'
  BY BatchesAssumption, NoneAssumption DEF TakeBatch
<1>4. ready' \in [Providers -> Batches \cup {None, Failure}]
  BY DEF TakeBatch, FeedOK
<1>5. QED
  BY <1>2, <1>3, <1>4 DEF TakeBatch, FeedOK

\* The rest of a batch is a batch.
LEMMA ApplyStepKeepsFeed ==
    ASSUME FeedOK, ApplyStep
    PROVE  FeedOK'
<1>1. mode[Discoverer] = "writing" /\ mode' = mode
  BY ApplyStepIsChange
<1>2. hand # None /\ hand \in Batch
  BY DEF FeedOK, ApplyStep, RemoveEntity
<1>3. hand' \in Batch
  <2>1. ASSUME NEW e \in Entities, RemoveEntity(e)
        PROVE  hand' \in Batch
    BY <1>2, <2>1 DEF RemoveEntity, Batch
  <2>2. ASSUME NEW x \in hand.components, AddNextComponent(x)
        PROVE  hand' \in Batch
    BY <1>2, <2>2 DEF AddNextComponent, Batch
  <2>3. ASSUME NEW x \in hand.apps, AddNextApp(x)
        PROVE  hand' \in Batch
    BY <1>2, <2>3 DEF AddNextApp, Batch
  <2>4. ASSUME NEW r \in hand.areas, AddNextArea(r)
        PROVE  hand' \in Batch
    BY <1>2, <2>4 DEF AddNextArea, Batch
  <2>5. QED
    BY <2>1, <2>2, <2>3, <2>4 DEF ApplyStep
<1>4. hand' # None
  BY <1>3, NoneAssumption
<1>5. UNCHANGED <<phase, toStart, streams, ready, yielded, from, shutdown>>
  BY DEF ApplyStep
<1>6. QED
  BY <1>1, <1>2, <1>3, <1>4, <1>5 DEF FeedOK

\* The guard is granted, dropped and released, and the task may end.
LEMMA GuardStepsKeepFeed ==
    ASSUME TypeOK, FeedOK, LockWrite \/ DropGuard \/ SendNextEvent \/ FinishBatch \/ Stop
    PROVE  FeedOK'
<1>1. mode \in [Tasks -> Mode]
  BY DEF TypeOK, LockTypeOK
<1> USE DiscovererAssumption DEF FeedOK, Handlers, feedState
<1>2. CASE LockWrite
  <2>1. mode' = [mode EXCEPT ![Discoverer] = "writing"] /\ mode[Discoverer] = "wantWrite"
    BY <1>2 DEF LockWrite, GrantWrite
  <2>2. mode'[Discoverer] # Idle /\ \A t \in Handlers : mode'[t] = mode[t]
    BY <1>1, <2>1 DEF Idle
  <2>3. mode[Discoverer] # Idle
    BY <2>1 DEF Idle
  <2>4. QED
    BY <1>2, <2>2, <2>3 DEF LockWrite
<1>3. CASE DropGuard \/ SendNextEvent
  <2>1. mode' = mode
    BY <1>3 DEF DropGuard, BeginDrop, SendNextEvent, SendEvent, lockVars
  <2>2. QED
    BY <1>3, <2>1 DEF DropGuard, SendNextEvent
<1>4. CASE FinishBatch
  <2>1. mode' = [mode EXCEPT ![Discoverer] = Idle]
    BY <1>4 DEF FinishBatch, ReleaseWrite, Unlock
  <2>2. mode'[Discoverer] = Idle /\ \A t \in Handlers : mode'[t] = mode[t]
    BY <1>1, <2>1
  <2>3. QED
    BY <1>4, <2>2 DEF FinishBatch
<1>5. CASE Stop
  <2>1. \/ hand = None /\ mode' = mode
        \/ mode' = [mode EXCEPT ![Discoverer] = Idle]
    BY <1>5 DEF Stop, CancelWait, lockVars
  <2>2. mode'[Discoverer] = Idle /\ \A t \in Handlers : mode'[t] = mode[t]
    BY <1>1, <2>1
  <2>3. QED
    BY <1>5, <2>2 DEF Stop
<1>6. QED
  BY <1>2, <1>3, <1>4, <1>5

LEMMA HandlersKeepFeed ==
    ASSUME TypeOK, FeedOK, NEW t \in Handlers, HandlerStep(t)
    PROVE  FeedOK'
<1>1. mode \in [Tasks -> Mode] /\ t \in Tasks /\ t # Discoverer
  BY DEF TypeOK, LockTypeOK, Handlers
<1>2. UNCHANGED feedState
  BY DEF HandlerStep, HandlerAsks, HandlerReads, HandlerLeaves, HandlerEnds
<1>3. \E new \in {"wantRead", "reading", Idle} : mode' = [mode EXCEPT ![t] = new]
  BY DEF HandlerStep, HandlerAsks, HandlerReads, HandlerLeaves, HandlerEnds, Enqueue, GrantRead,
         CancelWait, ReleaseRead, Unlock
<1>4. /\ mode'[Discoverer] = mode[Discoverer]
      /\ mode'[t] \notin {"wantWrite", "writing"}
      /\ \A u \in Handlers \ {t} : mode'[u] = mode[u]
  BY <1>1, <1>3, DiscovererAssumption DEF Idle, Handlers
<1>5. QED
  BY <1>2, <1>4 DEF FeedOK, feedState

LEMMA FeedStep == TypeOK /\ FeedOK /\ [DiscoveryNext]_discoveryVars => FeedOK'
<1> SUFFICES ASSUME TypeOK, FeedOK, [DiscoveryNext]_discoveryVars PROVE FeedOK'
  OBVIOUS
<1>1. CASE UNCHANGED discoveryVars
  BY <1>1 DEF FeedOK, discoveryVars, feedState, vars, lockVars
<1>2. QED
  BY <1>1, OutsideKeepsFeed, TakeBatchKeepsFeed, ApplyStepKeepsFeed, GuardStepsKeepFeed,
     HandlersKeepFeed
     DEF DiscoveryNext, DiscoveryStep, OutsideStep, HandlerStep

LEMMA FeedInit == DiscoveryInit => FeedOK
<1> SUFFICES ASSUME DiscoveryInit PROVE FeedOK
  OBVIOUS
<1>1. /\ mode[Discoverer] = Idle
      /\ \A t \in Handlers : mode[t] \notin {"wantWrite", "writing"}
  BY DiscovererAssumption DEF DiscoveryInit, Init, LockInit, Handlers, Idle
<1>2. ready \in [Providers -> Batches \cup {None, Failure}]
  BY DEF DiscoveryInit
<1>3. yielded \in [Providers -> 0 .. MaxItems]
  BY MaxItemsAssumption DEF DiscoveryInit
<1>4. hand = None /\ from = None /\ phase = "starting" /\ toStart = Providers
      /\ streams = {} /\ shutdown = FALSE
  BY DEF DiscoveryInit
<1>5. QED
  BY <1>1, <1>2, <1>3, <1>4 DEF FeedOK

(***************************************************************************)
(* Theorems.                                                               *)
(***************************************************************************)

\* With discovery and its handlers a Topology behaves as a Topology.
THEOREM DiscoveryIsTopology == DiscoverySpec => Spec /\ []FeedOK
<1>1. DiscoveryInit => Init /\ TypeOK /\ FeedOK
  BY FeedInit, TypeInit DEF DiscoveryInit
<1>2. TypeOK /\ FeedOK /\ [DiscoveryNext]_discoveryVars => TypeOK' /\ FeedOK' /\ [Next]_vars
  BY StepsAreTopologySteps, FeedStep, TypeStep
<1>3. QED
  BY <1>1, <1>2, PTL DEF DiscoverySpec, DiscoverySafety, Spec

\* Every reader sees whole batches, and the events of a batch are sent before anybody
\* reads, whatever providers, failures and a shutdown do.
THEOREM DiscoveryIsAtomic == DiscoverySpec => ImplementsAtomicRegistry
  BY DiscoveryIsTopology, RefinementCorrect, PTL

\* There is a batch in hand exactly while the task waits for the guard or holds it, and
\* none before discovery runs and after it has ended.
THEOREM DiscoveryTypeCorrect == DiscoverySpec => []DiscoveryTypeOK
  BY FeedParts, DiscoveryIsTopology, TypeCorrect, PTL

-----------------------------------------------------------------------------
(***************************************************************************)
(* Who waits for whom.  The task and the handlers are users of the lock,   *)
(* whose queue is in order; of those who hold a guard all but the task are *)
(* readers.                                                                *)
(***************************************************************************)

\* With discovery the queue of the lock is one.
LEMMA DiscoveryQueue == DiscoverySpec => [](QueueInv /\ FeedOK)
<1>1. LockSpec => []QueueInv
  BY QueueInvInit, QueueInvStep, PTL DEF LockSpec
<1>2. QED
  BY <1>1, DiscoveryIsTopology, TopologyUsesLock, PTL

LEMMA BatchWaits == QueueInv /\ FeedOK => BatchWaitsForReaders
<1> SUFFICES ASSUME QueueInv, FeedOK, mode[Discoverer] = "wantWrite"
             PROVE  \/ MayEnter(Discoverer)
                    \/ \E t \in Handlers :
                          \/ mode[t] = "reading"
                          \/ mode[t] = "wantRead" /\ MayEnter(t) /\ t \in ahead[Discoverer]
  BY DEF BatchWaitsForReaders
<1>1. Tasks = Handlers \cup {Discoverer} /\ Discoverer \in Waiting
  BY DiscovererAssumption DEF Handlers, Waiting, Waits
<1>2. PICK t \in Waiting : ahead[t] = {}
  BY <1>1, SomebodyIsFirst DEF QueueInv
<1>3. Writers = {} /\ \A u \in Readers : u \in Handlers /\ mode[u] = "reading"
  BY <1>1 DEF FeedOK, Readers, Writers
<1>4. CASE t = Discoverer
  BY <1>2, <1>3, <1>4 DEF MayEnter, Waiting
<1>5. CASE t # Discoverer
  <2>1. t \in Handlers /\ mode[t] = "wantRead"
    BY <1>1, <1>5 DEF FeedOK, Waiting, Waits
  <2>2. t \in ahead[Discoverer]
    BY <1>1, <1>2, <1>5 DEF QueueInv, QueueInOrder
  <2>3. MayEnter(t)
    BY <1>2, <1>3, <2>1 DEF MayEnter, Waits
  <2>4. QED
    BY <2>1, <2>2, <2>3
<1>6. QED
  BY <1>4, <1>5

LEMMA HandlersWait == QueueInv /\ FeedOK => HandlersWaitForBatches
<1> SUFFICES ASSUME QueueInv, FeedOK, Waiting # {},
                    mode[Discoverer] \notin {"wantWrite", "writing"}
             PROVE  \E t \in Waiting : MayEnter(t)
  BY DEF HandlersWaitForBatches
<1>1. \A t \in Tasks : mode[t] \notin {"wantWrite", "writing"}
  BY DEF FeedOK, Handlers
<1>2. QED
  BY <1>1, ReadersGoTogether

\* A batch waits for readers that came before it and for nobody else; a reader for the
\* one batch there is, and where there is none somebody can read at once.
THEOREM BatchWaitsCorrect == DiscoverySpec => [](BatchWaitsForReaders /\ HandlersWaitForBatches)
  BY DiscoveryQueue, BatchWaits, HandlersWait, PTL

(***************************************************************************)
(* Discovery implements DiscoveryFeed.                                     *)
(***************************************************************************)

Empty(batch) ==
    batch.remove = {} /\ batch.components = {} /\ batch.apps = {} /\ batch.areas = {}

\* The guard is dropped only after the whole batch is applied: the strengthening that
\* the refinement needs.
DropsAfterLast == dropping => hand # None /\ Empty(hand)

LEMMA DroppingHasBatch == TypeOK /\ FeedOK /\ dropping => mode[Discoverer] = "writing" /\ hand # None
<1> SUFFICES ASSUME TypeOK, FeedOK, dropping
             PROVE  mode[Discoverer] = "writing" /\ hand # None
  OBVIOUS
<1>1. PICK t \in Tasks : mode[t] = "writing"
  BY DEF TypeOK, Writers
<1>2. t = Discoverer
  BY <1>1 DEF FeedOK, Handlers
<1>3. QED
  BY <1>1, <1>2 DEF FeedOK, Idle

LEMMA DropsStep == TypeOK /\ FeedOK /\ DropsAfterLast /\ [DiscoveryNext]_discoveryVars => DropsAfterLast'
<1> SUFFICES ASSUME TypeOK, FeedOK, DropsAfterLast, [DiscoveryNext]_discoveryVars, dropping'
             PROVE  hand' # None /\ Empty(hand)'
  BY DEF DropsAfterLast
<1>1. CASE UNCHANGED <<dropping, hand>>
  BY <1>1 DEF DropsAfterLast, Empty
<1>2. CASE OutsideStep \/ UNCHANGED discoveryVars
  <2>1. UNCHANGED <<dropping, hand>>
    BY <1>2, OutsideKeepsTopology
       DEF discoveryVars, feedState, vars, guardVars, OutsideStep, StartProvider, Yield, EndStream,
           SkipFailure, MergeStreams, Shutdown, StreamsOver
  <2>2. QED
    BY <2>1, <1>1
<1>3. ASSUME NEW p \in Providers, TakeBatch(p)
      PROVE  FALSE
  <2>1. dropping /\ hand = None
    BY <1>3 DEF TakeBatch, guardVars
  <2>2. QED
    BY <2>1 DEF DropsAfterLast
<1>4. CASE ApplyStep
  <2>1. dropping
    BY <1>4, ApplyStepIsChange, ChangeIsMutation, DiscovererAssumption
       DEF Mutate, vars, guardVars
  <2>2. QED
    BY <1>4, <2>1
       DEF DropsAfterLast, Empty, ApplyStep, RemoveEntity, AddNextComponent, AddNextApp, AddNextArea
<1>5. CASE DropGuard
  BY <1>5 DEF DropGuard, Empty, feedState
<1>6. CASE LockWrite \/ SendNextEvent
  BY <1>1, <1>6 DEF LockWrite, SendNextEvent, SendEvent, guardVars, feedState
<1>7. CASE FinishBatch
  BY <1>7 DEF FinishBatch, ReleaseWrite
<1>8. CASE Stop
  <2>1. dropping /\ (hand = None \/ mode[Discoverer] # "writing")
    BY <1>8 DEF Stop, guardVars, CancelWait, Waits
  <2>2. QED
    BY <2>1, DroppingHasBatch
<1>9. ASSUME NEW t \in Handlers, HandlerStep(t)
      PROVE  UNCHANGED <<dropping, hand>>
  BY <1>9 DEF HandlerStep, HandlerAsks, HandlerReads, HandlerLeaves, HandlerEnds, ReleaseRead,
              guardVars, feedState
<1>10. QED
  BY <1>1, <1>2, <1>3, <1>4, <1>5, <1>6, <1>7, <1>8, <1>9
     DEF DiscoveryNext, DiscoveryStep, OutsideStep, HandlerStep

LEMMA SameMerge ==
    ASSUME NEW entities, NEW batch
    PROVE  Feed!Merge(entities, batch) = Merge(entities, batch)
BY DEF Feed!Merge, Merge, Feed!Additions, Additions, Feed!ComponentRef, ComponentRef,
       Feed!AppRef, AppRef, Feed!AreaRef, AreaRef

\* What one change of a batch did need not be done again.
LEMMA ApplyStepMerges ==
    ASSUME FeedOK, ApplyStep
    PROVE  Merge(Live, hand)' = Merge(Live, hand)
<1>0. hand \in Batch
  BY DEF FeedOK, ApplyStep, RemoveEntity
<1> USE <1>0 DEF Merge, Additions
<1>1. ASSUME NEW e \in Entities, RemoveEntity(e)
      PROVE  Merge(Live, hand)' = Merge(Live, hand)
  <2>1. Live' = Live \ {e}
    <3>1. CASE e \notin Live /\ UNCHANGED topologyVars
      BY <3>1 DEF topologyVars, vars, stateVars, Live
    <3>2. ASSUME NEW c \in ComponentIds, e = ComponentRef(c), DeleteComponent(Discoverer, c)
          PROVE  Live' = Live \ {e}
      BY <3>2 DEF DeleteComponent, RemoveComponent, Drop, Live, ComponentRef, AppRef, AreaRef
    <3>3. ASSUME NEW a \in AppIds, e = AppRef(a), DeleteApp(Discoverer, a)
          PROVE  Live' = Live \ {e}
      BY <3>3 DEF DeleteApp, RemoveApp, Drop, Live, ComponentRef, AppRef, AreaRef
    <3>4. ASSUME NEW r \in AreaIds, e = AreaRef(r), DeleteArea(Discoverer, r)
          PROVE  Live' = Live \ {e}
      BY <3>4 DEF DeleteArea, RemoveArea, Live, ComponentRef, AppRef, AreaRef
    <3>5. QED
      BY <1>1, <3>1, <3>2, <3>3, <3>4 DEF RemoveEntity
  <2>2. /\ e \in hand.remove /\ hand'.remove = hand.remove \ {e}
        /\ hand'.components = hand.components /\ hand'.apps = hand.apps
        /\ hand'.areas = hand.areas
    BY <1>1 DEF RemoveEntity, Batch
  <2>3. QED
    BY <2>1, <2>2
<1>2. ASSUME NEW x \in hand.components, AddNextComponent(x)
      PROVE  Merge(Live, hand)' = Merge(Live, hand)
  <2>1. Live' = Live \cup {ComponentRef(x.id)}
    BY <1>2 DEF AddNextComponent, AddComponent, InsertComponent, Put, Live
  <2>2. /\ hand.remove = {} /\ hand'.remove = {}
        /\ hand'.components = hand.components \ {x} /\ hand'.apps = hand.apps
        /\ hand'.areas = hand.areas
    BY <1>2 DEF AddNextComponent, Batch
  <2>3. {ComponentRef(y.id) : y \in hand.components}
          = {ComponentRef(y.id) : y \in hand.components \ {x}} \cup {ComponentRef(x.id)}
    OBVIOUS
  <2>4. QED
    BY <2>1, <2>2, <2>3
<1>3. ASSUME NEW x \in hand.apps, AddNextApp(x)
      PROVE  Merge(Live, hand)' = Merge(Live, hand)
  <2>1. Live' = Live \cup {AppRef(x.id)}
    BY <1>3 DEF AddNextApp, AddApp, InsertApp, Put, Live
  <2>2. /\ hand.remove = {} /\ hand'.remove = {}
        /\ hand'.components = hand.components /\ hand'.apps = hand.apps \ {x}
        /\ hand'.areas = hand.areas
    BY <1>3 DEF AddNextApp, Batch
  <2>3. {AppRef(y.id) : y \in hand.apps}
          = {AppRef(y.id) : y \in hand.apps \ {x}} \cup {AppRef(x.id)}
    OBVIOUS
  <2>4. QED
    BY <2>1, <2>2, <2>3
<1>4. ASSUME NEW r \in hand.areas, AddNextArea(r)
      PROVE  Merge(Live, hand)' = Merge(Live, hand)
  <2>1. Live' = Live \cup {AreaRef(r)}
    BY <1>4 DEF AddNextArea, AddArea, InsertArea, Live
  <2>2. /\ hand.remove = {} /\ hand'.remove = {}
        /\ hand'.components = hand.components /\ hand'.apps = hand.apps
        /\ hand'.areas = hand.areas \ {r}
    BY <1>4 DEF AddNextArea, Batch
  <2>3. QED
    BY <2>1, <2>2
<1>5. QED
  BY <1>1, <1>2, <1>3, <1>4 DEF ApplyStep

\* The items of a provider that are still to be applied: at most the batch in hand and
\* the one its stream has ready.
InHand(p)  == IF from = p /\ mode[Discoverer] = "wantWrite" THEN <<hand>> ELSE <<>>
IsReady(p) == IF ready[p] \in Batches THEN <<ready[p]>> ELSE <<>>

LEMMA PendingParts ==
    ASSUME NEW p
    PROVE  Pending(p) = IF phase = "done" THEN <<>> ELSE InHand(p) \o IsReady(p)
BY DEF Pending, InHand, IsReady

LEMMA ShortSequences ==
    ASSUME NEW a, NEW b
    PROVE  /\ <<>> \o <<>> = <<>> /\ <<a>> \o <<>> = <<a>> /\ <<>> \o <<b>> = <<b>>
           /\ Append(<<>>, b) = <<b>> /\ Append(<<a>>, b) = <<a>> \o <<b>>
           /\ Head(<<a>>) = a /\ Head(<<a>> \o <<b>>) = a
           /\ Tail(<<a>>) = <<>> /\ Tail(<<a>> \o <<b>>) = <<b>>
           /\ <<a>> # <<>> /\ <<a>> \o <<b>> # <<>>
<1>1. /\ <<>> \o <<>> = <<>> /\ <<a>> \o <<>> = <<a>> /\ <<>> \o <<b>> = <<b>>
      /\ Append(<<>>, b) = <<b>> /\ Append(<<a>>, b) = <<a>> \o <<b>>
      /\ Head(<<a>>) = a /\ Tail(<<a>>) = <<>> /\ <<a>> # <<>>
  OBVIOUS
<1>2. <<a>> \in Seq({a, b}) /\ <<b>> \in Seq({a, b})
  OBVIOUS
<1>3. Head(<<a>> \o <<b>>) = a /\ <<a>> \o <<b>> # <<>>
  BY <1>2
<1>4. Tail(Append(<<a>>, b)) = Append(Tail(<<a>>), b)
  BY <1>1, <1>2, HeadTailAppend
<1>5. Tail(<<a>> \o <<b>>) = <<b>>
  BY <1>1, <1>4
<1>6. QED
  BY <1>1, <1>3, <1>5

LEMMA FeedBegins == DiscoveryInit => Feed!Init
<1> SUFFICES ASSUME DiscoveryInit PROVE Feed!Init
  OBVIOUS
<1>1. mode[Discoverer] = Idle /\ Live = {}
  BY DiscovererAssumption DEF DiscoveryInit, Init, LockInit, StateInit, Live
<1>2. Applied = {}
  BY <1>1 DEF Applied, Idle
<1>3. ASSUME NEW p \in Providers PROVE Pending(p) = <<>>
  <2>1. from # p /\ ready[p] \notin Batches /\ phase = "starting"
    BY NoneAssumption, BatchesAssumption DEF DiscoveryInit
  <2>2. QED
    BY <2>1, PendingParts, ShortSequences DEF InHand, IsReady
<1>4. Offered = [p \in Providers |-> <<>>] /\ Running
  BY <1>3 DEF Offered, Running, DiscoveryInit
<1>5. QED
  BY <1>2, <1>4 DEF Feed!Init

\* What neither changes the registry nor the items leaves the feed alone.
LEMMA FeedStutters ==
    ASSUME Applied' = Applied, (phase' = "done") = (phase = "done"),
           \A p \in Providers : InHand(p)' = InHand(p) /\ IsReady(p)' = IsReady(p)
    PROVE  UNCHANGED <<Applied, Offered, Running>>
<1>1. \A p \in Providers : Pending(p)' = Pending(p)
  BY PendingParts DEF Pending, InHand, IsReady
<1>2. QED
  BY <1>1 DEF Offered, Running

LEMMA OffersItem ==
    ASSUME FeedOK, NEW p \in Providers, Yield(p)
    PROVE  Feed!Offer(p) \/ UNCHANGED <<Applied, Offered, Running>>
<1>1. UNCHANGED <<mode, Live>> /\ UNCHANGED <<hand, from, phase>>
  BY DEF Yield, topologyVars, vars, lockVars, stateVars, Live
<1>2. Applied' = Applied /\ Running' = Running
  BY <1>1 DEF Applied, Running, Merge
<1>3. \A q \in Providers : InHand(q)' = InHand(q)
  BY <1>1 DEF InHand
<1>4. IsReady(p) = <<>> /\ phase # "done"
  BY NoneAssumption, BatchesAssumption DEF Yield, IsReady
<1>5. PICK item \in Batches \cup {Failure} : ready' = [ready EXCEPT ![p] = item]
  BY DEF Yield
<1>6. /\ ready'[p] = item
      /\ \A q \in Providers \ {p} : IsReady(q)' = IsReady(q)
  BY <1>5 DEF FeedOK, IsReady
<1>7. CASE item = Failure
  <2>1. IsReady(p)' = <<>>
    BY <1>6, <1>7, BatchesAssumption DEF IsReady
  <2>2. QED
    BY <1>1, <1>2, <1>3, <1>4, <1>6, <2>1, FeedStutters
<1>8. CASE item \in Batches
  <2>1. IsReady(p)' = <<item>>
    BY <1>6, <1>8 DEF IsReady
  <2>2. Pending(p)' = Append(Pending(p), item)
    BY <1>1, <1>3, <1>4, <2>1, PendingParts, ShortSequences DEF InHand, Pending, IsReady
  <2>3. \A q \in Providers \ {p} : Pending(q)' = Pending(q)
    BY <1>1, <1>3, <1>6 DEF Pending, InHand, IsReady
  <2>4. Offered' = [Offered EXCEPT ![p] = Append(@, item)]
    BY <2>2, <2>3 DEF Offered
  <2>5. QED
    BY <1>2, <1>8, <2>4 DEF Feed!Offer
<1>9. QED
  BY <1>5, <1>7, <1>8

\* To take a batch or to skip a failure leaves to be applied what was to be applied.
LEMMA TakesItem ==
    ASSUME FeedOK, TypeOK, NEW p \in Providers, TakeBatch(p) \/ SkipFailure(p)
    PROVE  UNCHANGED <<Applied, Offered, Running>>
<1>1. CASE SkipFailure(p)
  <2>1. UNCHANGED <<mode, Live, hand, from, phase>>
    BY <1>1 DEF SkipFailure, topologyVars, vars, lockVars, stateVars, Live
  <2>2. Applied' = Applied /\ \A q \in Providers : InHand(q)' = InHand(q)
    BY <2>1 DEF Applied, Merge, InHand
  <2>3. ready'[p] \notin Batches /\ ready[p] \notin Batches
    BY <1>1, NoneAssumption, BatchesAssumption DEF SkipFailure, FeedOK
  <2>4. \A q \in Providers : IsReady(q)' = IsReady(q)
    BY <1>1, <2>3 DEF SkipFailure, FeedOK, IsReady
  <2>5. QED
    BY <2>1, <2>2, <2>4, FeedStutters
<1>2. CASE TakeBatch(p)
  <2>1. /\ hand = None /\ from = None /\ mode[Discoverer] = Idle
        /\ hand' = ready[p] /\ from' = p /\ ready[p] \in Batches
        /\ phase = "running" /\ phase' = "running"
    BY <1>2 DEF TakeBatch, FeedOK
  <2>2. mode'[Discoverer] = "wantWrite" /\ Live' = Live
    BY <1>2, DiscovererAssumption DEF TakeBatch, Enqueue, TypeOK, LockTypeOK, stateVars, Live
  <2>3. Applied' = Applied /\ Running' = Running
    BY <2>1, <2>2 DEF Applied, Running, Idle
  <2>4. ready'[p] = None /\ None \notin Batches /\ \A q \in Providers \ {p} : ready'[q] = ready[q]
    BY <1>2, NoneAssumption, BatchesAssumption DEF TakeBatch, FeedOK
  <2>5. /\ InHand(p) = <<>> /\ IsReady(p) = <<ready[p]>>
        /\ InHand(p)' = <<ready[p]>> /\ IsReady(p)' = <<>>
    BY <2>1, <2>2, <2>4 DEF InHand, IsReady, Idle
  <2>6. Pending(p)' = Pending(p)
    BY <2>1, <2>5, PendingParts, ShortSequences DEF Pending, InHand, IsReady
  <2>7. \A q \in Providers \ {p} : InHand(q) = <<>> /\ InHand(q)' = <<>> /\ IsReady(q)' = IsReady(q)
    BY <2>1, <2>4, NoneAssumption DEF InHand, IsReady
  <2>8. \A q \in Providers \ {p} : Pending(q)' = Pending(q)
    BY <2>1, <2>7 DEF Pending, InHand, IsReady
  <2>9. QED
    BY <2>3, <2>6, <2>8 DEF Offered
<1>3. QED
  BY <1>1, <1>2

\* The grant of the write guard is the step that applies the batch.
LEMMA GrantApplies ==
    ASSUME FeedOK, TypeOK, LockWrite
    PROVE  \E p \in Providers : Feed!Apply(p)
<1>1. /\ mode[Discoverer] = "wantWrite" /\ mode'[Discoverer] = "writing"
      /\ Live' = Live /\ UNCHANGED <<hand, from, phase, ready>>
  BY DiscovererAssumption DEF LockWrite, GrantWrite, TypeOK, LockTypeOK, stateVars, Live, feedState
<1>2. from \in Providers /\ phase = "running" /\ hand # None
  BY <1>1 DEF FeedOK, Idle
<1>3. Running /\ Running' = Running
  BY <1>1, <1>2 DEF Running
<1>4. /\ InHand(from) = <<hand>>
      /\ \A q \in Providers : InHand(q)' = <<>> /\ IsReady(q)' = IsReady(q)
      /\ \A q \in Providers \ {from} : InHand(q) = <<>>
  BY <1>1 DEF InHand, IsReady
<1>5. IsReady(from) = <<>> \/ IsReady(from) = <<ready[from]>>
  BY DEF IsReady
<1>6. /\ Pending(from) # <<>> /\ Head(Pending(from)) = hand
      /\ Pending(from)' = Tail(Pending(from))
  <2>1. Pending(from) = <<hand>> \o IsReady(from)
    BY <1>2, <1>4, PendingParts
  <2>2. Pending(from)' = <<>> \o IsReady(from)
    BY <1>1, <1>2, <1>4 DEF Pending, InHand, IsReady
  <2>3. CASE IsReady(from) = <<>>
    BY <2>1, <2>2, <2>3, ShortSequences
  <2>4. CASE IsReady(from) = <<ready[from]>>
    <3> DEFINE b == ready[from]
    <3>1. /\ <<hand>> \o <<b>> # <<>> /\ Head(<<hand>> \o <<b>>) = hand
          /\ Tail(<<hand>> \o <<b>>) = <<b>> /\ <<>> \o <<b>> = <<b>>
      BY ShortSequences
    <3>2. QED
      BY <2>1, <2>2, <2>4, <3>1
  <2>5. QED
    BY <1>5, <2>3, <2>4
<1>7. \A q \in Providers \ {from} : Pending(q)' = Pending(q)
  BY <1>1, <1>4 DEF Pending, InHand, IsReady
<1>8. Offered' = [Offered EXCEPT ![from] = Tail(@)] /\ Offered[from] = Pending(from)
  BY <1>1, <1>2, <1>6, <1>7 DEF Offered
<1>9. Applied = Live /\ Applied' = Merge(Live, hand)
  BY <1>1 DEF Applied, Merge
<1>10. Feed!Apply(from)
  BY <1>2, <1>3, <1>6, <1>8, <1>9, SameMerge DEF Feed!Apply
<1>11. QED
  BY <1>2, <1>10

LEMMA FinishStutters ==
    ASSUME FeedOK, TypeOK, DropsAfterLast, FinishBatch
    PROVE  UNCHANGED <<Applied, Offered, Running>>
<1>1. /\ mode[Discoverer] = "writing" /\ mode'[Discoverer] = Idle /\ dropping
      /\ Live' = Live /\ UNCHANGED <<phase, ready>>
  BY DiscovererAssumption
     DEF FinishBatch, ReleaseWrite, Unlock, TypeOK, LockTypeOK, stateVars, Live
<1>2. Merge(Live, hand) = Live
  BY <1>1 DEF DropsAfterLast, Empty, Merge, Additions
<1>3. Applied' = Applied
  BY <1>1, <1>2 DEF Applied, Idle
<1>4. \A p \in Providers : InHand(p)' = InHand(p) /\ IsReady(p)' = IsReady(p)
  BY <1>1 DEF InHand, IsReady, Idle
<1>5. QED
  BY <1>1, <1>3, <1>4, FeedStutters

\* Discovery ends: no stream, no stream left, or a shutdown.
LEMMA EndsFeed ==
    ASSUME FeedOK, TypeOK, phase # "done", phase' = "done", UNCHANGED stateVars,
           mode[Discoverer] # "writing", mode'[Discoverer] # "writing"
    PROVE  Feed!End
<1>1. Applied' = Applied
  BY DEF Applied, stateVars, Live
<1>2. Offered' = [p \in Providers |-> <<>>]
  BY DEF Offered, Pending
<1>3. QED
  BY <1>1, <1>2 DEF Running, Feed!End

LEMMA FeedFollows ==
    TypeOK /\ FeedOK /\ DropsAfterLast /\ [DiscoveryNext]_discoveryVars
        => [Feed!Next]_<<Applied, Offered, Running>>
<1> SUFFICES ASSUME TypeOK, FeedOK, DropsAfterLast, [DiscoveryNext]_discoveryVars
             PROVE  Feed!Next \/ UNCHANGED <<Applied, Offered, Running>>
  OBVIOUS
<1>1. ASSUME UNCHANGED stateVars, mode'[Discoverer] = mode[Discoverer],
             UNCHANGED <<phase, ready, hand, from>>
      PROVE  UNCHANGED <<Applied, Offered, Running>>
  <2>1. Live' = Live
    BY <1>1 DEF stateVars, Live
  <2>2. Applied' = Applied
    BY <1>1, <2>1 DEF Applied, Merge
  <2>3. \A p \in Providers : InHand(p)' = InHand(p) /\ IsReady(p)' = IsReady(p)
    BY <1>1 DEF InHand, IsReady
  <2>4. QED
    BY <1>1, <2>2, <2>3, FeedStutters
<1>2. CASE UNCHANGED discoveryVars
  BY <1>1, <1>2 DEF discoveryVars, vars, lockVars, feedState
<1>3. ASSUME NEW p \in Providers, (\E ok \in BOOLEAN : StartProvider(p, ok)) \/ EndStream(p) \/ Shutdown
      PROVE  UNCHANGED <<Applied, Offered, Running>>
  BY <1>1, <1>3 DEF StartProvider, EndStream, Shutdown, topologyVars, vars, lockVars
<1>4. CASE Shutdown
  BY <1>1, <1>4 DEF Shutdown, topologyVars, vars, lockVars
<1>5. CASE MergeStreams
  <2>1. UNCHANGED stateVars /\ mode' = mode /\ mode[Discoverer] = Idle /\ UNCHANGED <<ready, hand, from>>
    BY <1>5 DEF MergeStreams, topologyVars, vars, lockVars, FeedOK
  <2>2. CASE phase' = "done"
    BY <1>5, <2>1, <2>2, EndsFeed DEF MergeStreams, Idle, Feed!Next
  <2>3. CASE phase' = "running"
    <3>1. Applied' = Applied
      BY <2>1 DEF Applied, stateVars, Live, Idle
    <3>2. \A p \in Providers : InHand(p)' = InHand(p) /\ IsReady(p)' = IsReady(p)
      BY <2>1 DEF InHand, IsReady
    <3>3. QED
      BY <1>5, <2>3, <3>1, <3>2, FeedStutters DEF MergeStreams
  <2>4. QED
    BY <1>5, <2>2, <2>3 DEF MergeStreams
<1>6. CASE StreamsOver
  <2>1. UNCHANGED stateVars /\ mode' = mode /\ mode[Discoverer] = Idle
    BY <1>6 DEF StreamsOver, topologyVars, vars, lockVars, FeedOK
  <2>2. QED
    BY <1>6, <2>1, EndsFeed DEF StreamsOver, Idle, Feed!Next
<1>7. CASE Stop
  <2>1. mode \in [Tasks -> Mode]
    BY DEF TypeOK, LockTypeOK
  <2>2. mode[Discoverer] # "writing" /\ mode'[Discoverer] = Idle
    BY <1>7, <2>1, DiscovererAssumption DEF Stop, CancelWait, Waits, lockVars, FeedOK, Idle
  <2>3. QED
    BY <1>7, <2>2, EndsFeed DEF Stop, Idle, Feed!Next
<1>8. CASE ApplyStep
  <2>1. /\ mode[Discoverer] = "writing" /\ mode' = mode
        /\ UNCHANGED <<phase, ready, from>>
    BY <1>8, ApplyStepIsChange DEF ApplyStep
  <2>2. Applied' = Applied
    BY <1>8, <2>1, ApplyStepMerges DEF Applied
  <2>3. \A p \in Providers : InHand(p)' = InHand(p) /\ IsReady(p)' = IsReady(p)
    BY <2>1 DEF InHand, IsReady
  <2>4. QED
    BY <2>1, <2>2, <2>3, FeedStutters
<1>9. CASE DropGuard \/ SendNextEvent
  BY <1>1, <1>9 DEF DropGuard, BeginDrop, SendNextEvent, SendEvent, lockVars, feedState
<1>10. ASSUME NEW t \in Handlers, HandlerStep(t)
       PROVE  UNCHANGED <<Applied, Offered, Running>>
  <2>1. UNCHANGED feedState /\ UNCHANGED stateVars
    BY <1>10 DEF HandlerStep, HandlerAsks, HandlerReads, HandlerLeaves, HandlerEnds, ReleaseRead
  <2>2. \E new : mode' = [mode EXCEPT ![t] = new]
    BY <1>10 DEF HandlerStep, HandlerAsks, HandlerReads, HandlerLeaves, HandlerEnds, Enqueue,
                 GrantRead, CancelWait, ReleaseRead, Unlock
  <2>3. mode'[Discoverer] = mode[Discoverer]
    BY <2>2, DiscovererAssumption DEF Handlers, TypeOK, LockTypeOK
  <2>4. QED
    BY <1>1, <2>1, <2>3 DEF feedState
<1>11. QED
  BY <1>2, <1>3, <1>4, <1>5, <1>6, <1>7, <1>8, <1>9, <1>10, OffersItem, TakesItem, GrantApplies,
     FinishStutters
     DEF DiscoveryNext, DiscoveryStep, HandlerStep, Feed!Next

\* Discovery implements DiscoveryFeed, for every set of providers and batches: each
\* batch is applied whole, in the order of its stream, and none after the end.
THEOREM DiscoveryIsFeed == DiscoverySpec => ImplementsDiscoveryFeed
<1>1. DiscoveryInit => Feed!Init /\ DropsAfterLast
  BY FeedBegins DEF DiscoveryInit, Init, DropsAfterLast
<1>2. QED
  BY <1>1, DropsStep, FeedFollows, DiscoveryIsTopology, TypeCorrect, PTL
     DEF DiscoverySpec, DiscoverySafety, ImplementsDiscoveryFeed, Feed!Spec, Feed!feedVars

(***************************************************************************)
(* A batch that has the write guard is applied whole.                      *)
(***************************************************************************)

LEMMA EmptyMergesNothing ==
    ASSUME NEW entities, NEW batch, Empty(batch)
    PROVE  Merge(entities, batch) = entities
  BY DEF Empty, Merge, Additions

\* The steps of the task while it holds the guard.
LEMMA GuardedSteps ==
    ASSUME TypeOK, FeedOK, DropsAfterLast, mode[Discoverer] = "writing",
           DiscoveryStep \/ Stop
    PROVE  IF mode'[Discoverer] = "writing"
           THEN Merge(Live, hand)' = Merge(Live, hand)
           ELSE Live' = Merge(Live, hand) /\ pending = <<>>
<1>1. CASE ApplyStep
  BY <1>1, ApplyStepIsChange, ApplyStepMerges
<1>2. CASE DropGuard \/ SendNextEvent
  BY <1>2 DEF DropGuard, BeginDrop, SendNextEvent, SendEvent, lockVars, stateVars, feedState,
              Merge, Live
<1>3. CASE FinishBatch
  <2>1. /\ pending = <<>> /\ Live' = Live /\ dropping
        /\ mode' = [mode EXCEPT ![Discoverer] = Idle]
    BY <1>3 DEF FinishBatch, ReleaseWrite, Unlock, stateVars, Live
  <2>2. mode'[Discoverer] # "writing"
    BY <2>1, DiscovererAssumption DEF TypeOK, LockTypeOK, Idle
  <2>3. Merge(Live, hand) = Live
    BY <2>1, EmptyMergesNothing DEF DropsAfterLast
  <2>4. QED
    BY <2>1, <2>2, <2>3
<1>4. CASE LockWrite
  BY <1>4 DEF LockWrite, GrantWrite
<1>5. CASE Stop
  BY <1>5 DEF Stop, CancelWait, Waits, FeedOK, Idle
<1>6. QED
  BY <1>1, <1>2, <1>3, <1>4, <1>5 DEF DiscoveryStep

\* The steps of everybody else leave the batch, its guard and the registry alone.
LEMMA OtherSteps ==
    ASSUME TypeOK, FeedOK, mode[Discoverer] = "writing",
           \/ OutsideStep \/ UNCHANGED discoveryVars
           \/ \E p \in Providers : TakeBatch(p)
           \/ \E t \in Handlers : HandlerStep(t)
    PROVE  mode'[Discoverer] = "writing" /\ Merge(Live, hand)' = Merge(Live, hand)
<1>1. CASE OutsideStep \/ UNCHANGED discoveryVars
  <2>1. UNCHANGED vars
    BY <1>1, OutsideKeepsTopology DEF discoveryVars
  <2>2. hand' = hand
    BY <1>1 DEF OutsideStep, StartProvider, Yield, EndStream, SkipFailure, MergeStreams, Shutdown,
                StreamsOver, discoveryVars, feedState
  <2>3. QED
    BY <2>1, <2>2 DEF vars, stateVars, lockVars, Merge, Live
<1>2. ASSUME NEW p \in Providers, TakeBatch(p)
      PROVE  FALSE
  BY <1>2 DEF TakeBatch, FeedOK, Idle
<1>3. ASSUME NEW t \in Handlers, HandlerStep(t)
      PROVE  mode'[Discoverer] = "writing" /\ Merge(Live, hand)' = Merge(Live, hand)
  <2>1. t # Discoverer /\ mode \in [Tasks -> Mode]
    BY DEF Handlers, TypeOK, LockTypeOK
  <2>2. \E new \in {"wantRead", "reading", Idle} : mode' = [mode EXCEPT ![t] = new]
    BY <1>3 DEF HandlerStep, HandlerAsks, HandlerReads, HandlerLeaves, HandlerEnds, Enqueue,
                GrantRead, CancelWait, ReleaseRead, Unlock
  <2>3. UNCHANGED <<stateVars, hand>>
    BY <1>3 DEF HandlerStep, HandlerAsks, HandlerReads, HandlerLeaves, HandlerEnds, ReleaseRead,
                feedState
  <2>4. QED
    BY <2>1, <2>2, <2>3, DiscovererAssumption DEF stateVars, Merge, Live
<1>4. QED
  BY <1>1, <1>2, <1>3

\* A batch that has been given the guard is applied in full and told before the guard is
\* given up, whenever a shutdown comes.
THEOREM GrantedBatchCorrect == DiscoverySpec => GrantedBatchIsWhole
<1> DEFINE Whole == mode[Discoverer] = "writing" =>
                       IF mode'[Discoverer] = "writing"
                       THEN Merge(Live, hand)' = Merge(Live, hand)
                       ELSE Live' = Merge(Live, hand) /\ pending = <<>>
<1>1. DiscoveryInit => DropsAfterLast
  BY DEF DiscoveryInit, Init, DropsAfterLast
<1>2. TypeOK /\ FeedOK /\ DropsAfterLast /\ [DiscoveryNext]_discoveryVars => Whole
  BY GuardedSteps, OtherSteps DEF DiscoveryNext, OutsideStep, HandlerStep
<1> HIDE DEF Whole
<1>3. DiscoverySpec => [][Whole]_discoveryVars
  BY <1>1, <1>2, DropsStep, DiscoveryIsTopology, TypeCorrect, PTL DEF DiscoverySpec, DiscoverySafety
<1>4. QED
  BY <1>3 DEF Whole, GrantedBatchIsWhole

=============================================================================
