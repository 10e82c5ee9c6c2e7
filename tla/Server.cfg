SPECIFICATION ServerSpec
CONSTANTS
    user = user
    ui = ui
    Sockets = {"tcp", "abstract", "path"}
    Requests = {q1, q2}
    Tokens = {NoToken, user}
    NoToken = NoToken
    Issued = {user}
    RoutePaths = {route}
    ServicePaths = {ui}
    OtherPaths = {missing}
    Permits <- MCPermits
    Cors <- MCCors
    None = None
INVARIANTS
    AdmissionIsEnforced
    NobodyIsCutOff
    FailuresAreExplained
PROPERTIES
    ShutdownEndsServer
