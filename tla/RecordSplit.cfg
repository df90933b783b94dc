\* Ten first flights, the read ending anywhere; the other parts stay small.
CONSTANTS
    Chunk = 3
    Limits <- MCLimits
    MaxFile = 1
    Streams <- MCStreams
    NameLens = {1}
    ReadSizes <- MCReadSizes
    Files = {}
    MaxRebuilds = 0
SPECIFICATION SequentialSpec
INVARIANT RecordsSurvive
CHECK_DEADLOCK FALSE
