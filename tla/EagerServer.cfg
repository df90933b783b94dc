\* wrong_seq, one connection, against a server that may speak first.
CONSTANTS
    f1 = f1
    f2 = f2
    f3 = f3
    p1 = p1
    p2 = p2
    Ports = {p1}
    Flows = {f1}
    NoFlow = NoFlow
    NoPacket = NoPacket
    NoPort = NoPort
    SeqMod = 8
    FakeLen = 2
    LocalIPKnown = TRUE
    Strategy = "wrong_seq"
    UseTTL = FALSE
    UseInjector = TRUE
    NEndpoints = 1
    LoadBalance = "failover"
    AutoFailover = FALSE
    FailoverRetries = 0
    CriticalFailures = 2
    Isn <- MCIsn
    PortReuse = FALSE
    EagerServer = TRUE
    Foreign <- MCNoForeign
    MaxCapture = 2
    MaxNoise = 1
SPECIFICATION SafetySpec
INVARIANTS
    ConfirmedAcksFake
