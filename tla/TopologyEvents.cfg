SPECIFICATION Spec
CONSTANTS
    ComponentIds = {c1}
    AppIds = {a1}
    AreaIds = {r1}
    NoArea = NoArea
    Tasks = {t1, t2}
    Subscribers = {s1}
    Capacity = 2
    MaxEvents = 4
SYMMETRY Symmetry
INVARIANTS
    TypeOK
    EventsTellTheRegistry
    RemovedWasAdded
    SyncedReplicaConverges
PROPERTIES ReadGuardIsSnapshot
    ImplementsAtomicRegistry
