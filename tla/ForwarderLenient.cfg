\* combined with an injector: the wait is followed by the fragments in any case.
CONSTANTS
    f1 = f1
    f2 = f2
    f3 = f3
    p1 = p1
    p2 = p2
    Ports = {p1}
    Flows = {f1, f2}
    NoFlow = NoFlow
    NoPacket = NoPacket
    NoPort = NoPort
    SeqMod = 8
    FakeLen = 2
    LocalIPKnown = TRUE
    Strategy = "combined"
    UseTTL = FALSE
    UseInjector = TRUE
    NEndpoints = 1
    LoadBalance = "failover"
    AutoFailover = FALSE
    FailoverRetries = 0
    CriticalFailures = 2
    Isn <- MCIsn
    PortReuse = TRUE
    EagerServer = FALSE
    Foreign <- MCNoForeign
    MaxCapture = 1
    MaxNoise = 0
SPECIFICATION Spec
INVARIANTS
    WaitsOnOwnState
    EverythingReleased
PROPERTIES
    ConnectionsSettle
