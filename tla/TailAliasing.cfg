\* The log is longer than a chunk and the last chunk has too few lines.
CONSTANTS
    Chunk = 2
    Limits <- MCLimits
    MaxFile = 4
SPECIFICATION Spec
INVARIANTS
    TailIsLastLines
CHECK_DEADLOCK FALSE
