\* wrong_seq, two concurrent connections, each on a port of its own, or on one port that
\* changes hands, so that late packets of the one are taken for packets of the other; with
\* resets, repeated acknowledgments, the packets of a host behind this one and, on the
\* shared port, a server that may speak before it gets the fake.
CONSTANTS
    f1 = f1
    f2 = f2
    f3 = f3
    p1 = p1
    p2 = p2
    Ports = {p1, p2}
    Flows = {f1, f2}
    NoFlow = NoFlow
    NoPacket = NoPacket
    NoPort = NoPort
    SeqMod = 8
    FakeLen = 2
    LocalIPKnown = TRUE
    Strategy = "wrong_seq"
    UseTTL = FALSE
    UseInjector = TRUE
    NEndpoints = 1
    LoadBalance = "failover"
    AutoFailover = FALSE
    FailoverRetries = 0
    CriticalFailures = 2
    Isn <- MCIsn
    PortReuse = TRUE
    EagerServer = TRUE
    Foreign <- MCForeign
    MaxCapture = 2
    MaxNoise = 1
SPECIFICATION SafetySpec
ACTION_CONSTRAINT OwnOrOnePort
INVARIANTS
    ForwarderTypeOK
    StrictGate
    ConfirmedByUpstream
    FailureIsOwn
PROPERTIES
    ImplementsGate
