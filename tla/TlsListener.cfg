SPECIFICATION TlsSpec
CONSTANTS
    Conns = {c1, c2, c3, c4}
    MaxPending = 2
CHECK_DEADLOCK FALSE
INVARIANTS
    SlotsConserved
PROPERTIES
    SlotsComeBack
    CompletedAreServed
    BacklogIsEmptied
