--------------------------- MODULE TopologyEvents ---------------------------
(***************************************************************************)
(* The entities of a topology, the events about them, and what a sequence  *)
(* of events says is live.                                                 *)
(***************************************************************************)
EXTENDS Naturals, Sequences

CONSTANTS ComponentIds,  \* ids a component can have
          AppIds,        \* ids an app can have
          AreaIds        \* ids an area can have

ComponentRef(c) == [kind |-> "component", id |-> c]
AppRef(a)       == [kind |-> "app", id |-> a]
AreaRef(r)      == [kind |-> "area", id |-> r]

Entities == {ComponentRef(c) : c \in ComponentIds} \cup {AppRef(a) : a \in AppIds}
            \cup {AreaRef(r) : r \in AreaIds}

Added(e)   == [type |-> "Added", entity |-> e]
Removed(e) == [type |-> "Removed", entity |-> e]
Events     == [type : {"Added", "Removed"}, entity : Entities]

\* What is live after the events of log from position first on, told one after
\* the other to someone who starts with the entities of base: the last event
\* about an entity decides, and base decides where there is none.
LastAbout(log, i, e) ==
    /\ log[i].entity = e
    /\ \A j \in i + 1 .. Len(log) : log[j].entity # e

Replay(base, log, first) ==
    {e \in Entities :
        \/ \E i \in first .. Len(log) : LastAbout(log, i, e) /\ log[i].type = "Added"
        \/ e \in base /\ \A i \in first .. Len(log) : log[i].entity # e}

\* A batch of discovery: "entity refs to remove from the topology, followed by
\* new entities to add".
Additions(batch) ==
    {ComponentRef(x.id) : x \in batch.components}
    \cup {AppRef(x.id) : x \in batch.apps} \cup {AreaRef(r) : r \in batch.areas}

Merge(entities, batch) == (entities \ batch.remove) \cup Additions(batch)

=============================================================================
