\* Every log of up to 7 bytes in chunks of 3; thirteen first flights, the read ending anywhere;
\* nearly four thousand configuration files, with and without raw injection, one rebuild.
CONSTANTS
    Chunk = 3
    Limits <- MCLimits
    MaxFile = 7
    Streams <- MCStreams
    NameLens = {1, 100, 219, 220}
    ReadSizes <- MCReadSizes
    Files <- MCFiles
    MaxRebuilds = 1
SPECIFICATION SequentialSpec
INVARIANTS
    OneChunkSuffices
    EarlierChunksExact
    StreamUnchanged
    WholeRecordSurvives
    SniIsCut
    DecoyIsPlausible
    RuntimesFitForwarder
    ServiceVerdictHolds
    StrictStaysStrict
    ProbingOnlyRemoves
CHECK_DEADLOCK FALSE
