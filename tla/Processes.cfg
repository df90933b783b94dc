\* Supervisor: two listeners, and two requests, of which the second may be one too many.
\* Control service: two clients that start cores, two cores launched in all, kills that may
\* fail, and a watcher that tells the parent from another process with its PID.
CONSTANTS
    Listeners = {l1, l2}
    BurstLimit = 1
    MaxAsked = 2
    Cores = {c1, c2}
    NoCore = NoCore
    Callers = {r1, r2}
    KillMayFail = TRUE
    ParentCheck = "start"
SPECIFICATION ProcessesSpec
INVARIANTS
    RebuildsAnswerRequests
    NoUntrackedCore
    OneCoreAtATime
    StopHolds
PROPERTIES
    EscalationAnswered
    ServesOrEnds
    CoreExitNoticed
    StartsUnblock
    FollowsParent
CHECK_DEADLOCK FALSE
