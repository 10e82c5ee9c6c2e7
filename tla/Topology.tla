------------------------------ MODULE Topology ------------------------------
(***************************************************************************)
(* opensovd-core's Topology: the registry of TopologyState behind a        *)
(* RwLock, and the broadcast channel that tells subscribers what changed.  *)
(*                                                                         *)
(* Tasks take read guards and write guards.  A write guard changes the     *)
(* registry at once and collects one event per change; dropping it sends   *)
(* the events one by one and only then lets go of the lock.  The channel   *)
(* keeps the last Capacity events; a receiver that is further behind is    *)
(* told that it lagged and goes on with the oldest event still kept.       *)
(*                                                                         *)
(* A subscriber is anyone who mirrors the set of live entities as the      *)
(* documentation invites callers to: it subscribes, takes a snapshot under *)
(* a read guard of some task, and applies the events it receives.  After a *)
(* lag it needs a new snapshot.                                            *)
(***************************************************************************)
EXTENDS TopologyState, RwLock

CONSTANTS Subscribers,  \* receivers of the broadcast channel
          Capacity,     \* events the broadcast channel keeps
          MaxEvents     \* bound: events of a behaviour, sent and pending

ASSUME CapacityAssumption == Capacity \in Nat \ {0}
ASSUME MaxEventsAssumption == MaxEvents \in Nat

VARIABLES dropping,  \* the drop of the write guard is running
          pending,   \* events the write guard has collected
          sent,      \* every event given to the channel, in order
          cursor,    \* next event of each subscriber, 0 before it subscribes
          replica,   \* entities each subscriber believes to be live
          synced     \* subscribers that have a snapshot and lost no event since

channelVars == <<sent, cursor, replica, synced>>
guardVars   == <<dropping, pending>>
vars        == <<stateVars, lockVars, guardVars, channelVars>>

(***************************************************************************)
(* The write guard.                                                        *)
(***************************************************************************)

Init ==
    /\ StateInit
    /\ LockInit
    /\ dropping = FALSE
    /\ pending = <<>>
    /\ sent = <<>>
    /\ cursor = [s \in Subscribers |-> 0]
    /\ replica = [s \in Subscribers |-> {}]
    /\ synced = {}

\* Faulty variant of Mutate: any guard allows to change the registry.
MutateUnderAnyGuard(t, event) ==
    /\ mode[t] \in Holds
    /\ ~dropping
    /\ Len(sent) + Len(pending) < MaxEvents
    /\ pending' = Append(pending, event)
    /\ UNCHANGED <<lockVars, dropping, channelVars>>

\* A change and its event; the caller has the guard and has not dropped it.
Mutate(t, event) ==
    /\ mode[t] = "writing"
    /\ ~dropping
    /\ Len(sent) + Len(pending) < MaxEvents
    /\ pending' = Append(pending, event)
    /\ UNCHANGED <<lockVars, dropping, channelVars>>

AddComponent(t, c, area) == InsertComponent(c, area) /\ Mutate(t, Added(ComponentRef(c)))
AddApp(t, a, app)        == InsertApp(a, app) /\ Mutate(t, Added(AppRef(a)))
AddArea(t, r)            == InsertArea(r) /\ Mutate(t, Added(AreaRef(r)))

\* Missing ids are silently skipped: no change and no event, hence no step.
DeleteComponent(t, c) == RemoveComponent(c) /\ Mutate(t, Removed(ComponentRef(c)))
DeleteApp(t, a)       == RemoveApp(a) /\ Mutate(t, Removed(AppRef(a)))
\* Faulty variant of DeleteArea: it reports the removal of an area that is not
\* there.
DeleteAreaAnyway(t, r) ==
    /\ r \in areas \/ UNCHANGED stateVars
    /\ r \notin areas \/ RemoveArea(r)
    /\ Mutate(t, Removed(AreaRef(r)))

DeleteArea(t, r)      == RemoveArea(r) /\ Mutate(t, Removed(AreaRef(r)))

Change(t) ==
    \/ \E c \in ComponentIds : (\E area \in AreaId : AddComponent(t, c, area))
                               \/ DeleteComponent(t, c)
    \/ \E a \in AppIds : (\E app \in App : AddApp(t, a, app)) \/ DeleteApp(t, a)
    \/ \E r \in AreaIds : AddArea(t, r) \/ DeleteArea(t, r)

BeginDrop(t) ==
    /\ mode[t] = "writing"
    /\ ~dropping
    /\ dropping' = TRUE
    /\ UNCHANGED <<stateVars, lockVars, pending, channelVars>>

\* Faulty variant of SendEvent: it sends the events last first.
SendLastEvent(t) ==
    /\ mode[t] = "writing"
    /\ dropping
    /\ pending # <<>>
    /\ sent' = Append(sent, pending[Len(pending)])
    /\ pending' = SubSeq(pending, 1, Len(pending) - 1)
    /\ UNCHANGED <<stateVars, lockVars, dropping, cursor, replica, synced>>

SendEvent(t) ==
    /\ mode[t] = "writing"
    /\ dropping
    /\ pending # <<>>
    /\ sent' = Append(sent, Head(pending))
    /\ pending' = Tail(pending)
    /\ UNCHANGED <<stateVars, lockVars, dropping, cursor, replica, synced>>

\* Faulty variant of ReleaseWrite: the lock is free before the events are sent.
ReleaseWriteEarly(t) ==
    /\ mode[t] = "writing"
    /\ dropping
    /\ Unlock(t)
    /\ dropping' = FALSE
    /\ UNCHANGED <<stateVars, pending, channelVars>>

ReleaseWrite(t) ==
    /\ mode[t] = "writing"
    /\ dropping
    /\ pending = <<>>
    /\ Unlock(t)
    /\ dropping' = FALSE
    /\ UNCHANGED <<stateVars, pending, channelVars>>

(***************************************************************************)
(* The lock, for readers and writers.                                      *)
(***************************************************************************)

Acquire(t) ==
    /\ \/ \E want \in Waits : Enqueue(t, want)
       \/ GrantRead(t)
       \/ GrantWrite(t)
       \/ CancelWait(t)
    /\ UNCHANGED <<stateVars, guardVars, channelVars>>

ReleaseRead(t) ==
    /\ mode[t] = "reading"
    /\ Unlock(t)
    /\ UNCHANGED <<stateVars, guardVars, channelVars>>

(***************************************************************************)
(* The channel.                                                            *)
(***************************************************************************)

Oldest == IF Len(sent) > Capacity THEN Len(sent) - Capacity + 1 ELSE 1

\* Faulty variant of Subscribe: a receiver may subscribe again, to the newest
\* events.
Resubscribe(s) ==
    /\ cursor' = [cursor EXCEPT ![s] = Len(sent) + 1]
    /\ UNCHANGED <<stateVars, lockVars, guardVars, sent, replica, synced>>

Subscribe(s) ==
    /\ cursor[s] = 0
    /\ cursor' = [cursor EXCEPT ![s] = Len(sent) + 1]
    /\ UNCHANGED <<stateVars, lockVars, guardVars, sent, replica, synced>>

Snapshot(s, t) ==
    /\ mode[t] = "reading"
    /\ cursor[s] # 0
    /\ replica' = [replica EXCEPT ![s] = Live]
    /\ synced' = synced \cup {s}
    /\ UNCHANGED <<stateVars, lockVars, guardVars, sent, cursor>>

Receive(s) ==
    /\ cursor[s] \in Oldest .. Len(sent)
    /\ cursor' = [cursor EXCEPT ![s] = @ + 1]
    /\ LET event == sent[cursor[s]]
       IN  replica' = [replica EXCEPT ![s] =
              IF event.type = "Added" THEN @ \cup {event.entity}
                                      ELSE @ \ {event.entity}]
    /\ UNCHANGED <<stateVars, lockVars, guardVars, sent, synced>>

Lag(s) ==
    /\ cursor[s] \in 1 .. Oldest - 1
    /\ cursor' = [cursor EXCEPT ![s] = Oldest]
    /\ synced' = synced \ {s}
    /\ UNCHANGED <<stateVars, lockVars, guardVars, sent, replica>>

Next ==
    \/ \E t \in Tasks : Acquire(t) \/ ReleaseRead(t) \/ Change(t)
                        \/ BeginDrop(t) \/ SendEvent(t) \/ ReleaseWrite(t)
    \/ \E s \in Subscribers : \/ Subscribe(s) \/ Receive(s) \/ Lag(s)
                              \/ \E t \in Tasks : Snapshot(s, t)

Spec == Init /\ [][Next]_vars

-----------------------------------------------------------------------------
(***************************************************************************)
(* Properties.                                                             *)
(***************************************************************************)

\* Type invariant, with the life of the write guard: events are pending and a
\* drop is running only while some task holds it.
TypeOK ==
    /\ StateTypeOK
    /\ LockTypeOK
    /\ dropping \in BOOLEAN
    /\ pending \in Seq(Events)
    /\ sent \in Seq(Events)
    /\ cursor \in [Subscribers -> Nat]
    /\ replica \in [Subscribers -> SUBSET Entities]
    /\ synced \subseteq Subscribers
    /\ Writers = {} => ~dropping /\ pending = <<>>

\* The events say what the registry is, at every step of every write guard: the
\* events sent so far and those still pending, told from the start, give exactly
\* the live entities.
EventsTellTheRegistry == Replay({}, sent \o pending, 1) = Live

\* No event for a removal that removed nothing: every Removed is preceded by an
\* Added of the same entity with no other Removed in between.
RemovedWasAdded ==
    LET log == sent \o pending
    IN  \A i \in DOMAIN log : log[i].type = "Removed" =>
            \E k \in 1 .. i - 1 :
                /\ log[k] = Added(log[i].entity)
                /\ \A j \in k + 1 .. i - 1 : log[j] # Removed(log[i].entity)

\* A subscriber that has received everything mirrors the registry exactly when
\* no write guard is out, wherever its subscription and its snapshot fell among
\* the changes of others, as long as it never lagged since the snapshot.
CaughtUpReplicaIsExact ==
    \A s \in synced :
        cursor[s] = Len(sent) + 1 /\ Writers = {} => replica[s] = Live

\* ... because what it still has to hear always explains the difference.
SyncedReplicaConverges ==
    \A s \in synced : Replay(replica[s], sent \o pending, cursor[s]) = Live

\* While a read guard is held nothing changes under it, however many queries
\* its holder makes: the registry it sees is one and the same.
ReadGuardIsSnapshot ==
    [][(\E t \in Readers : mode'[t] = "reading") => UNCHANGED <<stateVars, sent>>]_vars

\* Topology implements AtomicRegistry.  A batch is committed when the drop of
\* its write guard begins: nobody can read before the drop ends, so no reader
\* sees half a batch, and none sees a batch whose events are not all sent.
CommittedLog == IF dropping THEN sent \o pending ELSE sent

Registry == INSTANCE AtomicRegistry
                WITH log <- CommittedLog, seen <- [t \in Readers |-> Live]

ImplementsAtomicRegistry == Registry!Spec

=============================================================================
