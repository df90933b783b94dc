\* Files with several endpoints, probed at the start.
CONSTANTS
    Files <- MCFiles
    MaxRebuilds = 0
SPECIFICATION StartupSpec
INVARIANT FailoverInOrder
CHECK_DEADLOCK FALSE
