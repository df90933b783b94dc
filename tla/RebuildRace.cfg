\* The new server listens before the old listener is closed.
CONSTANTS
    Listeners = {l1}
    BurstLimit = 3
    MaxAsked = 1
SPECIFICATION SupervisorSafetySpec
INVARIANTS
    RebuildSurvives
CHECK_DEADLOCK FALSE
