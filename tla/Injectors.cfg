\* One flow of each build against every packet; three sequence numbers, so that the
\* arithmetic wraps. The port is cleaned up, and so unregistered, at any time.
CONSTANTS
    Ports = {p1}
    Flows = {f1}
    NoFlow = NoFlow
    NoPacket = NoPacket
    SeqMod = 3
    FakeLen = 2
    LocalIPKnown = TRUE
SPECIFICATION BuildSpec
INVARIANTS
    InjectorTypeOK
    OneFakePerFlow
    FakeBelowStream
    ConfirmNeedsTrigger
PROPERTIES
    FakeSettles
    QuietAfterStop
    StopCompletes
