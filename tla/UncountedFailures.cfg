\* Two connections whose confirmation fails, and a threshold of two.
CONSTANTS
    f1 = f1
    f2 = f2
    f3 = f3
    p1 = p1
    p2 = p2
    Ports = {p1, p2}
    Flows = {f1, f2}
    NoFlow = NoFlow
    NoPacket = NoPacket
    NoPort = NoPort
    SeqMod = 8
    FakeLen = 2
    LocalIPKnown = TRUE
    Strategy = "wrong_seq"
    UseTTL = FALSE
    UseInjector = TRUE
    NEndpoints = 1
    LoadBalance = "failover"
    AutoFailover = FALSE
    FailoverRetries = 0
    CriticalFailures = 2
    Isn <- MCIsn
    PortReuse = FALSE
    EagerServer = FALSE
    Foreign <- MCNoForeign
    MaxCapture = 2
    MaxNoise = 0
SPECIFICATION SafetySpec
INVARIANTS
    ConfirmationFailuresRecover
