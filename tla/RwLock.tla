------------------------------- MODULE RwLock -------------------------------
(***************************************************************************)
(* tokio::sync::RwLock as opensovd-core uses it: shared and exclusive      *)
(* guards, and one queue in the order of the requests.  A request that     *)
(* cannot be served waits at the end of the queue, and every later request *)
(* waits behind it even if it could be served: this is what tokio calls    *)
(* fair, or write-preferring.  A waiting future can be dropped at any      *)
(* await (the connection closed, a select! took another branch) and leaves *)
(* the queue.                                                              *)
(*                                                                         *)
(* The queue is kept as ahead[t], the tasks that asked before t and have   *)
(* neither been served nor left.                                           *)
(***************************************************************************)
CONSTANT Tasks

VARIABLES mode,   \* what each task does with the lock
          ahead   \* the waiting tasks that come before each waiting task

lockVars == <<mode, ahead>>

Idle    == "idle"
Waits   == {"wantRead", "wantWrite"}
Holds   == {"reading", "writing"}
Mode    == {Idle} \cup Waits \cup Holds

Waiting == {t \in Tasks : mode[t] \in Waits}
Readers == {t \in Tasks : mode[t] = "reading"}
Writers == {t \in Tasks : mode[t] = "writing"}

LockInit ==
    /\ mode = [t \in Tasks |-> Idle]
    /\ ahead = [t \in Tasks |-> {}]

LeaveQueue(t) == ahead' = [u \in Tasks |-> IF u = t THEN {} ELSE ahead[u] \ {t}]

Enqueue(t, want) ==
    /\ mode[t] = Idle
    /\ mode' = [mode EXCEPT ![t] = want]
    /\ ahead' = [ahead EXCEPT ![t] = Waiting]

GrantRead(t) ==
    /\ mode[t] = "wantRead"
    /\ ahead[t] = {}
    /\ Writers = {}
    /\ mode' = [mode EXCEPT ![t] = "reading"]
    /\ LeaveQueue(t)

GrantWrite(t) ==
    /\ mode[t] = "wantWrite"
    /\ ahead[t] = {}
    /\ Writers = {}
    /\ Readers = {}
    /\ mode' = [mode EXCEPT ![t] = "writing"]
    /\ LeaveQueue(t)

CancelWait(t) ==
    /\ mode[t] \in Waits
    /\ mode' = [mode EXCEPT ![t] = Idle]
    /\ LeaveQueue(t)

Unlock(t) ==
    /\ mode[t] \in Holds
    /\ mode' = [mode EXCEPT ![t] = Idle]
    /\ UNCHANGED ahead

LockNext ==
    \E t \in Tasks :
        \/ \E want \in Waits : Enqueue(t, want)
        \/ GrantRead(t)
        \/ GrantWrite(t)
        \/ CancelWait(t)
        \/ Unlock(t)

LockSpec == LockInit /\ [][LockNext]_lockVars

-----------------------------------------------------------------------------

\* Type invariant, with the life of the queue: a task waits only behind tasks
\* that wait, and nobody queues who does not wait.
LockTypeOK ==
    /\ mode \in [Tasks -> Mode]
    /\ ahead \in [Tasks -> SUBSET Tasks]
    /\ \A t \in Tasks : /\ ahead[t] \subseteq Waiting \ {t}
                        /\ mode[t] \notin Waits => ahead[t] = {}

\* A write guard excludes every other guard.
Exclusion ==
    \A t \in Writers : Readers = {} /\ Writers = {t}

\* The tasks that wait are in a queue: of any two, one asked before the other, and
\* who is before somebody is before everybody behind.
QueueInOrder ==
    /\ \A t, u \in Waiting : t = u \/ t \in ahead[u] \/ u \in ahead[t]
    /\ \A t \in Tasks : \A u \in ahead[t] : ahead[u] \subseteq ahead[t]

\* First come, first served: as long as a task waits nobody gets in before it, and
\* those before it are the ones that were and have not been served or left; it
\* gets its guard only once they are gone.
FirstComeFirstServed ==
    [][\A t \in Waiting :
          /\ mode'[t] \in Waits => ahead'[t] = ahead[t] \cap Waiting'
          /\ mode'[t] \in Holds => ahead[t] = {}]_lockVars

\* The task is the next to be served and no guard is out that excludes its own: it
\* is served whatever the others do.
MayEnter(t) ==
    /\ mode[t] \in Waits
    /\ ahead[t] = {}
    /\ Writers = {}
    /\ mode[t] = "wantWrite" => Readers = {}

\* The lock never stands idle while somebody waits for it: somebody is the next to
\* be served, and is served now unless a guard is out that excludes its own.
NeverIdle ==
    Waiting # {} =>
        \E t \in Waiting :
            /\ ahead[t] = {}
            /\ MayEnter(t) \/ Writers # {} \/ (mode[t] = "wantWrite" /\ Readers # {})

=============================================================================
