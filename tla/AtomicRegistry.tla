--------------------------- MODULE AtomicRegistry ---------------------------
(***************************************************************************)
(* What a Topology promises, without locks, guards or indexes: a log of    *)
(* changes that grows by whole batches, and readers that each see the      *)
(* entities of the log as it was when they began, which cannot grow while  *)
(* they look.                                                              *)
(***************************************************************************)
EXTENDS TopologyEvents

CONSTANT Tasks

VARIABLES log,   \* the events of all committed batches
          seen   \* reading task -> the entities it sees

Init ==
    /\ log = <<>>
    /\ seen = [t \in {} |-> {}]

Commit ==
    /\ DOMAIN seen = {}
    /\ Len(log) <= Len(log')
    /\ log = SubSeq(log', 1, Len(log))
    /\ log' \in Seq(Events)
    /\ UNCHANGED seen

BeginRead(t) ==
    /\ t \notin DOMAIN seen
    /\ seen' = [u \in DOMAIN seen \cup {t} |->
                  IF u = t THEN Replay({}, log, 1) ELSE seen[u]]
    /\ UNCHANGED log

EndRead(t) ==
    /\ t \in DOMAIN seen
    /\ seen' = [u \in DOMAIN seen \ {t} |-> seen[u]]
    /\ UNCHANGED log

Next == Commit \/ \E t \in Tasks : BeginRead(t) \/ EndRead(t)

Spec == Init /\ [][Next]_<<log, seen>>

=============================================================================
