---- MODULE ControlService ----
(***************************************************************************)
(* The control service (internal/service/service.go): HTTP handlers that   *)
(* start and stop the proxy core as a child process, one goroutine per     *)
(* child that waits for its exit, and the two goroutines that shut the     *)
(* service down, on an interrupt and when its parent process is gone.      *)
(*                                                                         *)
(* A member of Cores stands for one exec.Cmd and its process.  The texts   *)
(* of lastError, startedAt and the log's content are left out.             *)
(***************************************************************************)
CONSTANTS
    Cores,        \* exec.Cmd objects, one per launched core process
    NoCore,       \* nil
    Callers,      \* goroutines that serve POST /v1/start
    KillMayFail,  \* Process.Kill may return an error other than "already finished"
    ParentCheck   \* what the watcher can see: "none" off Windows and without
                  \* --service-parent-pid, on Windows whether the "pid" is in use and, with
                  \* the "start" timestamp, whether by the same process

ASSUME CoreAssumption ==
    /\ NoCore \notin Cores /\ KillMayFail \in BOOLEAN
    /\ ParentCheck \in {"none", "pid", "start"}

VARIABLES
    starting,     \* controlService.starting
    child,        \* controlService.child
    childLog,     \* whose log handle controlService.childLog is
    proc,         \* the operating system's processes
    reaper,       \* the goroutine that calls Wait for each core
    caller,       \* where each startCore call is
    launched,     \* its local variable cmd
    service,      \* the HTTP server and the process that runs it
    interrupt,    \* the goroutine waiting for the interrupt
    watcher,      \* the goroutine polling the parent process
    parent,       \* the process named by the parent's PID: it, none, or another
    lastStop,     \* the last successful stopCore since a start was accepted: did it
                  \* overlap with a start in progress?  (for properties only)
    unkilled      \* cores whose Kill failed (for properties only)

startVars == <<starting, caller, launched>>
processVars == <<proc, reaper>>
shutdownVars == <<service, interrupt, watcher, parent>>
historyVars == <<lastStop, unkilled>>
vars == <<child, childLog, startVars, processVars, shutdownVars, historyVars>>

Init ==
    /\ starting = FALSE
    /\ child = NoCore
    /\ childLog = NoCore
    /\ proc = [c \in Cores |-> "unused"]
    /\ reaper = [c \in Cores |-> "none"]
    /\ caller = [r \in Callers |-> "idle"]
    /\ launched = [r \in Callers |-> NoCore]
    /\ service = "up"
    /\ interrupt = "waiting"
    /\ watcher = "polling"
    /\ parent = "alive"
    /\ lastStop = "none"
    /\ unkilled = {}

\* The goroutines live as long as Run does.
Alive == service # "exited"

-----------------------------------------------------------------------------
(* startCore *)

MayHaveExitedAnyTime == child # NoCore => reaper[child] # "none"

\* child has no ProcessState yet, or one the check may miss: Wait stores it without
\* the mutex, and a process ended by a signal has not Exited() either.
SeemsRunning == child # NoCore
MayHaveExited == child # NoCore => reaper[child] = "collected"

StartCheckNoFlag(r) ==
    /\ Alive
    /\ caller[r] = "idle"
    /\ MayHaveExited
    /\ starting' = TRUE
    /\ caller' = [caller EXCEPT ![r] = "checking"]
    /\ lastStop' = "none"
    /\ UNCHANGED <<child, childLog, launched, processVars, shutdownVars, unkilled>>

\* The first critical section lets the call through.  (A request accepted before Shutdown
\* may come to this while the service is closing, here and in HandleStop.)
StartCheck(r) ==
    /\ Alive
    /\ caller[r] = "idle"
    /\ ~starting
    /\ MayHaveExited
    /\ starting' = TRUE
    /\ caller' = [caller EXCEPT ![r] = "checking"]
    /\ lastStop' = "none"
    /\ UNCHANGED <<child, childLog, launched, processVars, shutdownVars, unkilled>>

\* "core start already in progress" or "core already running".
StartRefused(r) ==
    /\ Alive
    /\ caller[r] = "idle"
    /\ starting \/ SeemsRunning
    /\ UNCHANGED vars

\* The config has issues or cmd.Start fails.
StartFails(r) ==
    /\ Alive
    /\ caller[r] = "checking"
    /\ caller' = [caller EXCEPT ![r] = "returning"]
    /\ UNCHANGED <<starting, launched, child, childLog, processVars, shutdownVars,
                   historyVars>>

\* cmd.Start succeeds, with no lock held.
Launch(r, c) ==
    /\ Alive
    /\ caller[r] = "checking"
    /\ proc[c] = "unused"
    /\ proc' = [proc EXCEPT ![c] = "running"]
    /\ launched' = [launched EXCEPT ![r] = c]
    /\ caller' = [caller EXCEPT ![r] = "launched"]
    /\ UNCHANGED <<starting, child, childLog, reaper, shutdownVars, historyVars>>

PublishWithoutReaper(r) ==
    /\ Alive
    /\ caller[r] = "launched"
    /\ child' = launched[r]
    /\ childLog' = launched[r]
    /\ launched' = [launched EXCEPT ![r] = NoCore]
    /\ caller' = [caller EXCEPT ![r] = "returning"]
    /\ UNCHANGED <<starting, processVars, shutdownVars, historyVars>>

\* The second critical section; then the goroutine that waits for the core.
Publish(r) ==
    /\ Alive
    /\ caller[r] = "launched"
    /\ child' = launched[r]
    /\ childLog' = launched[r]
    /\ reaper' = [reaper EXCEPT ![launched[r]] = "waiting"]
    /\ launched' = [launched EXCEPT ![r] = NoCore]
    /\ caller' = [caller EXCEPT ![r] = "returning"]
    /\ UNCHANGED <<starting, proc, shutdownVars, historyVars>>

StartReturnsStuck(r) ==
    /\ Alive
    /\ caller[r] = "returning"
    /\ caller' = [caller EXCEPT ![r] = "idle"]
    /\ UNCHANGED <<starting, launched, child, childLog, processVars, shutdownVars,
                   historyVars>>

\* The deferred reset of the flag.
StartReturns(r) ==
    /\ Alive
    /\ caller[r] = "returning"
    /\ starting' = FALSE
    /\ caller' = [caller EXCEPT ![r] = "idle"]
    /\ UNCHANGED <<launched, child, childLog, processVars, shutdownVars, historyVars>>

-----------------------------------------------------------------------------
(* The core process and its reaper *)

\* The core ends by itself (or by somebody else's signal).
CoreExits(c) ==
    /\ proc[c] = "running"
    /\ proc' = [proc EXCEPT ![c] = "dead"]
    /\ UNCHANGED <<child, childLog, startVars, reaper, shutdownVars, historyVars>>

\* A killed core is gone a moment later.
CoreDies(c) ==
    /\ proc[c] = "dying"
    /\ proc' = [proc EXCEPT ![c] = "dead"]
    /\ UNCHANGED <<child, childLog, startVars, reaper, shutdownVars, historyVars>>

\* Wait returns and has set ProcessState.
Collect(c) ==
    /\ Alive
    /\ reaper[c] = "waiting"
    /\ proc[c] = "dead"
    /\ reaper' = [reaper EXCEPT ![c] = "collected"]
    /\ UNCHANGED <<child, childLog, startVars, proc, shutdownVars, historyVars>>

ReapUnchecked(c) ==
    /\ Alive
    /\ reaper[c] = "collected"
    /\ reaper' = [reaper EXCEPT ![c] = "done"]
    /\ child' = NoCore
    /\ childLog' = NoCore
    /\ UNCHANGED <<startVars, proc, shutdownVars, historyVars>>

\* The reaper's critical section: it forgets the child only if it is still its own.
Reap(c) ==
    /\ Alive
    /\ reaper[c] = "collected"
    /\ reaper' = [reaper EXCEPT ![c] = "done"]
    /\ child' = IF child = c THEN NoCore ELSE child
    /\ childLog' = IF child = c THEN NoCore ELSE childLog
    /\ UNCHANGED <<startVars, proc, shutdownVars, historyVars>>

-----------------------------------------------------------------------------
(* stopCore, one critical section, and who calls it *)

\* Nothing to stop: childLog stays as it is (nil with child).
StopNothing ==
    /\ child = NoCore
    /\ lastStop' = IF starting THEN "racing" ELSE "alone"
    /\ UNCHANGED <<childLog, proc, unkilled>>

StopChild ==
    /\ child # NoCore
    /\ childLog' = NoCore
    /\ \/ /\ proc' = IF proc[child] = "running" THEN [proc EXCEPT ![child] = "dying"] ELSE proc
          /\ lastStop' = IF starting THEN "racing" ELSE "alone"
          /\ UNCHANGED unkilled
       \/ /\ KillMayFail /\ proc[child] = "running"
          /\ unkilled' = unkilled \cup {child}
          /\ UNCHANGED <<proc, lastStop>>

\* child is nil afterwards, whatever Kill returned.
StopCore ==
    /\ StopNothing \/ StopChild
    /\ child' = NoCore
    /\ UNCHANGED <<startVars, reaper>>

\* POST /v1/stop.
HandleStop ==
    /\ Alive
    /\ StopCore
    /\ UNCHANGED shutdownVars

\* Shutdown closes the listener, and ListenAndServe returns at once.
Interrupted ==
    /\ Alive
    /\ interrupt = "waiting"
    /\ interrupt' = "stopping"
    /\ service' = "closing"
    /\ UNCHANGED <<child, childLog, startVars, processVars, watcher, parent, historyVars>>

\* The goroutine's stopCore, if it gets that far before main returns.
InterruptStops ==
    /\ Alive
    /\ interrupt = "stopping"
    /\ interrupt' = "done"
    /\ StopCore
    /\ UNCHANGED <<service, watcher, parent>>

\* A parent that cannot be opened or queried counts as one that ended.
ParentDies ==
    /\ parent = "alive"
    /\ parent' = "gone"
    /\ UNCHANGED <<child, childLog, startVars, processVars, service, interrupt, watcher,
                   historyVars>>

\* Another process gets the PID (started more than two seconds after the parent), or ends.
PidChangesHands ==
    /\ parent # "alive"
    /\ parent' \in {"gone", "reused"} \ {parent}
    /\ UNCHANGED <<child, childLog, startVars, processVars, service, interrupt, watcher,
                   historyVars>>

ParentProcessAlive ==
    \/ ParentCheck = "none"
    \/ parent = "alive"
    \/ ParentCheck = "pid" /\ parent = "reused"

\* A tick finds the parent gone: stopCore first, then Shutdown.
WatcherStops ==
    /\ Alive
    /\ watcher = "polling"
    /\ ~ParentProcessAlive
    /\ watcher' = "stopping"
    /\ StopCore
    /\ UNCHANGED <<service, interrupt, parent>>

WatcherForgetsShutdown ==
    /\ Alive
    /\ watcher = "stopping"
    /\ watcher' = "done"
    /\ UNCHANGED <<child, childLog, startVars, processVars, service, interrupt, parent,
                   historyVars>>

WatcherShutsDown ==
    /\ Alive
    /\ watcher = "stopping"
    /\ watcher' = "done"
    /\ service' = "closing"
    /\ UNCHANGED <<child, childLog, startVars, processVars, interrupt, parent, historyVars>>

\* Run returns, and with it every goroutine of the service ends; cores go on.
MainReturns ==
    /\ service = "closing"
    /\ service' = "exited"
    /\ UNCHANGED <<child, childLog, startVars, processVars, interrupt, watcher, parent,
                   historyVars>>

-----------------------------------------------------------------------------
StartStep(r) ==
    StartFails(r) \/ (\E c \in Cores : Launch(r, c)) \/ Publish(r) \/ StartReturns(r)

ReaperStep(c) == Collect(c) \/ Reap(c)

ShutdownStep == InterruptStops \/ WatcherStops \/ WatcherShutsDown \/ MainReturns

Next ==
    \/ \E r \in Callers : StartCheck(r) \/ StartRefused(r) \/ StartStep(r)
    \/ \E c \in Cores : CoreExits(c) \/ CoreDies(c) \/ ReaperStep(c)
    \/ HandleStop
    \/ Interrupted \/ ParentDies \/ PidChangesHands \/ ShutdownStep

\* The flag lets one call through at a time: this is that call's goroutine.
AnyStart == \E r \in Callers : StartStep(r)
StartFairness == WF_vars(AnyStart)
ReaperFairness(c) == WF_vars(ReaperStep(c))
ShutdownFairness == WF_vars(ShutdownStep)

\* Goroutines that can run do; nobody has to call, interrupt or orphan the service,
\* and a core need not end.
Fairness ==
    /\ StartFairness
    /\ \A c \in Cores : WF_vars(CoreDies(c))
    /\ \A c \in Cores : ReaperFairness(c)
    /\ ShutdownFairness

SafetySpec == Init /\ [][Next]_vars
Spec == SafetySpec /\ Fairness

-----------------------------------------------------------------------------
(* Properties *)

ServiceTypeOK ==
    /\ starting \in BOOLEAN
    /\ child \in Cores \cup {NoCore}
    /\ childLog \in {NoCore, child}
    /\ proc \in [Cores -> {"unused", "running", "dying", "dead"}]
    /\ reaper \in [Cores -> {"none", "waiting", "collected", "done"}]
    /\ caller \in [Callers -> {"idle", "checking", "launched", "returning"}]
    /\ launched \in [Callers -> Cores \cup {NoCore}]
    /\ service \in {"up", "closing", "exited"}
    /\ interrupt \in {"waiting", "stopping", "done"}
    /\ watcher \in {"polling", "stopping", "done"}
    /\ parent \in {"alive", "gone", "reused"}
    /\ lastStop \in {"none", "alone", "racing"}
    /\ unkilled \subseteq Cores

\* While the service lives, every running core can be stopped: it is the service's child,
\* or a start is about to publish it; late reapers and concurrent starts never make the
\* service forget one.  (The exception is a core whose Kill failed: stopCore forgets it all
\* the same.  A core left running when the service exits is nobody's.)
NoUntrackedCore ==
    Alive => \A c \in Cores : proc[c] = "running" =>
                 c = child \/ c \in unkilled \/ \E r \in Callers : launched[r] = c

\* No two cores run at a time, so that they do not fight for the listeners' ports
\* (again but for failed kills, and for the moment a killed one takes to die).
OneCoreAtATime ==
    \A c, d \in Cores \ unkilled : proc[c] = "running" /\ proc[d] = "running" => c = d

\* A stop that did not overlap with a start leaves no core running until the next start.
\* (One that did may return while the core it missed is about to be published.)
StopHolds == lastStop = "alone" => \A c \in Cores \ unkilled : proc[c] # "running"

\* A core that ended is noticed, so that /v1/status says so and it can be started again.
CoreExitNoticed ==
    \A c \in Cores : (child = c /\ proc[c] = "dead") ~> (child # c \/ service = "exited")

\* No start blocks later ones for ever, on whatever path it returns.
StartsUnblock == starting ~> (~starting \/ service = "exited")

\* Where the watcher can see the parent at all, the service goes away with it, unless
\* another process has its PID and there is no start timestamp to tell them apart.
FollowsParent ==
    ParentCheck # "none" =>
        (parent # "alive" ~> service = "exited" \/ (ParentCheck = "pid" /\ parent = "reused"))

====
