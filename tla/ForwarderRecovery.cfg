\* combined with a TTL-limited decoy and no injector: three connections on two unreliable
\* endpoints in round-robin order.
CONSTANTS
    f1 = f1
    f2 = f2
    f3 = f3
    p1 = p1
    p2 = p2
    Ports = {p1, p2}
    Flows = {f1, f2, f3}
    NoFlow = NoFlow
    NoPacket = NoPacket
    NoPort = NoPort
    SeqMod = 8
    FakeLen = 2
    LocalIPKnown = TRUE
    Strategy = "combined"
    UseTTL = TRUE
    UseInjector = FALSE
    NEndpoints = 2
    LoadBalance = "round_robin"
    AutoFailover = FALSE
    FailoverRetries = 0
    CriticalFailures = 2
    Isn <- MCSameIsn
    PortReuse = FALSE
    EagerServer = FALSE
    Foreign <- MCNoForeign
    MaxCapture = 2
    MaxNoise = 1
SYMMETRY FlowSymmetry
SPECIFICATION SafetySpec
INVARIANTS
    RestartJustified
    NoLostRestart
    OneRestartPerOutage
    GivesUpAfterAll
PROPERTIES
    PayloadOnce
