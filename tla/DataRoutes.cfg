SPECIFICATION DataSpec
CONSTANTS
    Tasks = {h1, h2, h3, w}
    Writer = w
    Entities = {e1, e2}
    None = None
    Absent = Absent
    Bare = Bare
    MaxProviders = 2
    Hung = {e2}
INVARIANTS
    DataTypeOK
    CallsAreOnRegisteredProviders
PROPERTIES
    EveryRequestEnds
    WriterGetsItsTurn
    ShutdownIsFinished
    OthersAreServed
