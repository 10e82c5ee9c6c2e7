SPECIFICATION DiscoverySpec
CONSTANTS
    c1 = c1
    a1 = a1
    r1 = r1
    ComponentIds = {c1}
    AppIds = {a1}
    AreaIds = {r1}
    NoArea = NoArea
    Tasks = {d, h}
    Discoverer = d
    Subscribers = {}
    Capacity = 2
    MaxEvents = 12
    Providers = {p1, p2}
    Batches <- MCBatches
    None = None
    Failure = Failure
    MaxItems = 2
PROPERTIES
    GrantedBatchIsWhole
    ImplementsDiscoveryFeed
    EveryItemIsTaken
    EveryBatchIsFinished
    ShutdownEndsDiscovery

