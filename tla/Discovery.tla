------------------------------ MODULE Discovery ------------------------------
(***************************************************************************)
(* run_discovery of opensovd-server: one task that starts every provider,  *)
(* merges their streams and applies each batch under a write guard of the  *)
(* Topology, while the server's request handlers take read guards and a    *)
(* shutdown can arrive at any moment.                                      *)
(*                                                                         *)
(* A provider is external: discover() succeeds or fails, and its stream    *)
(* yields batches and errors, or ends.  A stream has at most one item      *)
(* ready; the item after it is not looked at before that one is taken.     *)
(***************************************************************************)
EXTENDS Topology

CONSTANTS Providers,   \* the configured discovery providers
          Batches,     \* the batches a stream can yield
          Discoverer,  \* the discovery task; every other task is a handler
          None,        \* no batch, or no item ready
          Failure,     \* an Err item of a stream
          MaxItems     \* bound: items each stream yields

\* What to remove, and what to add.
Batch ==
    [remove : SUBSET Entities, components : SUBSET [id : ComponentIds, area : AreaId],
     apps : SUBSET [id : AppIds, app : App], areas : SUBSET AreaIds]

ASSUME DiscovererAssumption == Discoverer \in Tasks
ASSUME BatchesAssumption == Batches \subseteq Batch /\ Failure \notin Batches
ASSUME NoneAssumption == None \notin Batch \cup Providers
ASSUME MaxItemsAssumption == MaxItems \in Nat

VARIABLES phase,     \* "starting" -> "running" -> "done"
          toStart,   \* providers whose discover() has not returned
          streams,   \* providers whose stream is merged and has not ended
          ready,     \* provider -> the item its stream has ready
          yielded,   \* provider -> number of items its stream has yielded
          hand,      \* the batch being applied, less what is already applied
          from,      \* the provider that batch came from
          shutdown   \* the shutdown future has resolved

feedState     == <<phase, toStart, streams, ready, yielded, hand, from, shutdown>>
topologyVars  == vars
discoveryVars == <<vars, feedState>>

Handlers == Tasks \ {Discoverer}

DiscoveryInit ==
    /\ Init
    /\ phase = "starting"
    /\ toStart = Providers
    /\ streams = {}
    /\ ready = [p \in Providers |-> None]
    /\ yielded = [p \in Providers |-> 0]
    /\ hand = None
    /\ from = None
    /\ shutdown = FALSE

(***************************************************************************)
(* Providers and the outside.                                              *)
(***************************************************************************)

\* The loop over the providers awaits each discover(); a provider that fails is
\* logged and skipped.  The shutdown future is not looked at yet.
StartProvider(p, ok) ==
    /\ phase = "starting"
    /\ p \in toStart
    /\ toStart' = toStart \ {p}
    /\ streams' = IF ok THEN streams \cup {p} ELSE streams
    /\ UNCHANGED <<topologyVars, phase, ready, yielded, hand, from, shutdown>>

MergeStreams ==
    /\ phase = "starting"
    /\ toStart = {}
    /\ phase' = IF streams = {} THEN "done" ELSE "running"
    /\ UNCHANGED <<topologyVars, toStart, streams, ready, yielded, hand, from, shutdown>>

Yield(p) ==
    /\ p \in streams
    /\ phase # "done"
    /\ ready[p] = None
    /\ yielded[p] < MaxItems
    /\ \E item \in Batches \cup {Failure} : ready' = [ready EXCEPT ![p] = item]
    /\ yielded' = [yielded EXCEPT ![p] = @ + 1]
    /\ UNCHANGED <<topologyVars, phase, toStart, streams, hand, from, shutdown>>

EndStream(p) ==
    /\ p \in streams
    /\ phase = "running"
    /\ ready[p] = None
    /\ streams' = streams \ {p}
    /\ UNCHANGED <<topologyVars, phase, toStart, ready, yielded, hand, from, shutdown>>

Shutdown ==
    /\ ~shutdown
    /\ shutdown' = TRUE
    /\ UNCHANGED <<topologyVars, phase, toStart, streams, ready, yielded, hand, from>>

(***************************************************************************)
(* process_events.                                                         *)
(***************************************************************************)

\* merged.next() returns an item; for a batch the task goes on to ask for the
\* write guard, for an error it only logs.
TakeBatch(p) ==
    /\ phase = "running"
    /\ hand = None
    /\ ready[p] \in Batches
    /\ hand' = ready[p]
    /\ from' = p
    /\ ready' = [ready EXCEPT ![p] = None]
    /\ Enqueue(Discoverer, "wantWrite")
    /\ UNCHANGED <<stateVars, guardVars, channelVars,
                   phase, toStart, streams, yielded, shutdown>>

\* Faulty variant of SkipFailure: an error ends the task, as a `?` would.
FailureEndsDiscovery(p) ==
    /\ phase = "running"
    /\ hand = None
    /\ ready[p] = Failure
    /\ phase' = "done"
    /\ UNCHANGED <<topologyVars, toStart, streams, ready, yielded, hand, from, shutdown>>

SkipFailure(p) ==
    /\ phase = "running"
    /\ hand = None
    /\ ready[p] = Failure
    /\ ready' = [ready EXCEPT ![p] = None]
    /\ UNCHANGED <<topologyVars, phase, toStart, streams, yielded, hand, from, shutdown>>

LockWrite ==
    /\ GrantWrite(Discoverer)
    /\ UNCHANGED <<stateVars, guardVars, channelVars, feedState>>

\* Faulty variant of RemoveEntity: it knows nothing to do for an entity that is
\* not there.
RemoveOnlyLive(e) ==
    /\ hand # None /\ e \in hand.remove
    /\ \/ \E c \in ComponentIds : e = ComponentRef(c) /\ DeleteComponent(Discoverer, c)
       \/ \E a \in AppIds : e = AppRef(a) /\ DeleteApp(Discoverer, a)
       \/ \E r \in AreaIds : e = AreaRef(r) /\ DeleteArea(Discoverer, r)
    /\ hand' = [hand EXCEPT !.remove = @ \ {e}]

\* Removals first, then components, apps and areas.
RemoveEntity(e) ==
    /\ hand # None /\ e \in hand.remove
    /\ \/ \E c \in ComponentIds : e = ComponentRef(c) /\ DeleteComponent(Discoverer, c)
       \/ \E a \in AppIds : e = AppRef(a) /\ DeleteApp(Discoverer, a)
       \/ \E r \in AreaIds : e = AreaRef(r) /\ DeleteArea(Discoverer, r)
       \/ e \notin Live /\ mode[Discoverer] = "writing" /\ UNCHANGED topologyVars
    /\ hand' = [hand EXCEPT !.remove = @ \ {e}]

\* Faulty variant of AddNextComponent: it does not wait for the removals.
AddBeforeRemovals(x) ==
    /\ hand # None /\ x \in hand.components
    /\ AddComponent(Discoverer, x.id, x.area)
    /\ hand' = [hand EXCEPT !.components = @ \ {x}]

AddNextComponent(x) ==
    /\ hand # None /\ hand.remove = {} /\ x \in hand.components
    /\ AddComponent(Discoverer, x.id, x.area)
    /\ hand' = [hand EXCEPT !.components = @ \ {x}]

AddNextApp(x) ==
    /\ hand # None /\ hand.remove = {} /\ hand.components = {} /\ x \in hand.apps
    /\ AddApp(Discoverer, x.id, x.app)
    /\ hand' = [hand EXCEPT !.apps = @ \ {x}]

AddNextArea(r) ==
    /\ hand # None /\ hand.remove = {} /\ hand.components = {} /\ hand.apps = {}
    /\ r \in hand.areas
    /\ AddArea(Discoverer, r)
    /\ hand' = [hand EXCEPT !.areas = @ \ {r}]

ApplyStep ==
    /\ \/ \E e \in Entities : RemoveEntity(e)
       \/ hand # None /\ \E x \in hand.components : AddNextComponent(x)
       \/ hand # None /\ \E x \in hand.apps : AddNextApp(x)
       \/ hand # None /\ \E r \in hand.areas : AddNextArea(r)
    /\ UNCHANGED <<phase, toStart, streams, ready, yielded, from, shutdown>>

\* The guard goes out of scope at the end of the match arm.
DropGuard ==
    /\ hand # None /\ hand.remove = {} /\ hand.components = {}
    /\ hand.apps = {} /\ hand.areas = {}
    /\ BeginDrop(Discoverer)
    /\ UNCHANGED feedState

SendNextEvent == SendEvent(Discoverer) /\ UNCHANGED feedState

FinishBatch ==
    /\ ReleaseWrite(Discoverer)
    /\ hand' = None
    /\ from' = None
    /\ UNCHANGED <<phase, toStart, streams, ready, yielded, shutdown>>

(***************************************************************************)
(* The end: all streams are over, or select! takes the shutdown branch and *)
(* drops process_events at the await it is suspended in, which is next()   *)
(* or write().  What it has in hand and what is ready is lost.             *)
(***************************************************************************)

StreamsOver ==
    /\ phase = "running"
    /\ streams = {}
    /\ hand = None
    /\ phase' = "done"
    /\ UNCHANGED <<topologyVars, toStart, streams, ready, yielded, hand, from, shutdown>>

\* Faulty variants of Stop: a change of a batch awaits, so that the task can be dropped
\* between two of them, and its guard with it; the shutdown is looked at only when an
\* item arrives.
StopBetweenChanges ==
    /\ phase = "running"
    /\ shutdown
    /\ \/ /\ (hand = None /\ UNCHANGED lockVars) \/ CancelWait(Discoverer)
          /\ UNCHANGED <<guardVars, channelVars>>
       \/ /\ ~dropping /\ mode[Discoverer] = "writing" /\ Unlock(Discoverer)
          /\ sent' = sent \o pending
          /\ pending' = <<>>
          /\ UNCHANGED <<dropping, cursor, replica, synced>>
    /\ phase' = "done"
    /\ hand' = None
    /\ from' = None
    /\ UNCHANGED <<stateVars, toStart, streams, ready, yielded, shutdown>>

StopAtNextItem ==
    /\ phase = "running"
    /\ shutdown
    /\ hand = None
    /\ \E p \in Providers : ready[p] # None
    /\ phase' = "done"
    /\ UNCHANGED <<topologyVars, toStart, streams, ready, yielded, hand, from, shutdown>>

Stop ==
    /\ phase = "running"
    /\ shutdown
    /\ \/ hand = None /\ UNCHANGED lockVars
       \/ CancelWait(Discoverer)
    /\ phase' = "done"
    /\ hand' = None
    /\ from' = None
    /\ UNCHANGED <<stateVars, guardVars, channelVars,
                   toStart, streams, ready, yielded, shutdown>>

(***************************************************************************)
(* Request handlers take read guards, and may be cancelled while waiting.  *)
(***************************************************************************)

HandlerAsks(t)  == Enqueue(t, "wantRead") /\ UNCHANGED <<stateVars, guardVars, channelVars, feedState>>
HandlerReads(t) == GrantRead(t) /\ UNCHANGED <<stateVars, guardVars, channelVars, feedState>>
HandlerLeaves(t) == CancelWait(t) /\ UNCHANGED <<stateVars, guardVars, channelVars, feedState>>
HandlerEnds(t)  == ReleaseRead(t) /\ UNCHANGED feedState

DiscoveryStep ==
    \/ LockWrite \/ ApplyStep \/ DropGuard \/ SendNextEvent \/ FinishBatch

DiscoveryNext ==
    \/ \E p \in Providers : \/ \E ok \in BOOLEAN : StartProvider(p, ok)
                            \/ Yield(p) \/ EndStream(p)
                            \/ TakeBatch(p) \/ SkipFailure(p)
    \/ MergeStreams \/ Shutdown \/ StreamsOver \/ Stop
    \/ DiscoveryStep
    \/ \E t \in Handlers : \/ HandlerAsks(t) \/ HandlerReads(t)
                           \/ HandlerLeaves(t) \/ HandlerEnds(t)

\* The task is scheduled while it can run, discover() returns, select_all polls
\* its streams in turn so that none is passed over for ever, and a handler ends.
\* Nobody is obliged to send a request, to offer a batch, to end a stream or to
\* ask for a shutdown.
DiscoveryFairness ==
    /\ \A p \in Providers : /\ WF_discoveryVars(\E ok \in BOOLEAN : StartProvider(p, ok))
                            /\ SF_discoveryVars(TakeBatch(p))
                            /\ SF_discoveryVars(SkipFailure(p))
    /\ WF_discoveryVars(MergeStreams)
    /\ WF_discoveryVars(DiscoveryStep)
    /\ SF_discoveryVars(Stop)
    /\ \A t \in Handlers : /\ WF_discoveryVars(HandlerReads(t))
                           /\ WF_discoveryVars(HandlerEnds(t))

DiscoverySafety == DiscoveryInit /\ [][DiscoveryNext]_discoveryVars
DiscoverySpec   == DiscoverySafety /\ DiscoveryFairness

-----------------------------------------------------------------------------

\* Type invariant, with the life of a batch: there is one in hand exactly while
\* the task waits for the guard or holds it, and nobody else asks for the guard.
DiscoveryTypeOK ==
    /\ TypeOK
    /\ phase \in {"starting", "running", "done"}
    /\ toStart \subseteq Providers
    /\ hand \in Batch \cup {None}
    /\ streams \subseteq Providers
    /\ ready \in [Providers -> Batches \cup {None, Failure}]
    /\ yielded \in [Providers -> 0 .. MaxItems]
    /\ from \in Providers \cup {None}
    /\ shutdown \in BOOLEAN
    /\ hand = None <=> mode[Discoverer] = Idle
    /\ hand = None <=> from = None
    /\ hand # None => phase = "running"
    /\ \A t \in Handlers : mode[t] \notin {"wantWrite", "writing"}

\* Discovery implements DiscoveryFeed.  The batch is taken to be applied when the
\* write guard is granted: from then on the rest of the batch is certain to
\* follow and nobody can look before it has.
Pending(p) ==
    IF phase = "done" THEN <<>>
    ELSE (IF from = p /\ mode[Discoverer] = "wantWrite" THEN <<hand>> ELSE <<>>)
         \o (IF ready[p] \in Batches THEN <<ready[p]>> ELSE <<>>)

Applied == IF mode[Discoverer] = "writing" THEN Merge(Live, hand) ELSE Live
Offered == [p \in Providers |-> Pending(p)]
Running == phase # "done"

Feed == INSTANCE DiscoveryFeed
            WITH registry <- Applied, offered <- Offered, running <- Running

ImplementsDiscoveryFeed == Feed!Spec

\* A batch that has the write guard is applied in full and told: the guard is given
\* up only with everything done that the batch asked for when the guard was granted,
\* and with every event about it sent, even if a shutdown comes meanwhile.  A removal
\* of an entity that the batch adds itself may not undo that.
GrantedBatchIsWhole ==
    [][mode[Discoverer] = "writing" =>
          IF mode'[Discoverer] = "writing"
          THEN Merge(Live, hand)' = Merge(Live, hand)
          ELSE Live' = Merge(Live, hand) /\ pending = <<>>]_discoveryVars

\* A provider that fails to start, a stream that yields an error or ends, and
\* handlers that keep reading do not keep the batches of the others waiting;
\* only a shutdown leaves an item where it is.
EveryItemIsTaken ==
    \A p \in Providers : ready[p] # None ~> ready[p] = None \/ shutdown

EveryBatchIsFinished == hand # None ~> hand = None

\* Once every discover() has returned a shutdown ends the task, even if it waits
\* behind readers.
ShutdownEndsDiscovery == shutdown ~> phase = "done"

\* A batch that waits for the lock waits for handlers only that asked before it: it can
\* be applied now, or one of those before it can read now, or a read guard is out.
BatchWaitsForReaders ==
    mode[Discoverer] = "wantWrite" =>
        \/ MayEnter(Discoverer)
        \/ \E t \in Handlers : \/ mode[t] = "reading"
                               \/ mode[t] = "wantRead" /\ MayEnter(t) /\ t \in ahead[Discoverer]

\* A handler that waits waits for the batch that is being applied, for one that asked
\* before it, or can read now: readers let each other in.
HandlersWaitForBatches ==
    Waiting # {} => \/ \E t \in Waiting : MayEnter(t)
                    \/ mode[Discoverer] \in {"wantWrite", "writing"}

=============================================================================
