---- MODULE ControlServiceProofs ----
(***************************************************************************)
(* For any number of cores and of concurrent API calls, and whether or not *)
(* Kill may fail: the control service never loses track of a running core, *)
(* never runs two, and a stop that overlaps with no start holds; an ended  *)
(* core is noticed, a start returns, and the service follows a parent that *)
(* its watcher can see.                                                    *)
(***************************************************************************)
EXTENDS ControlService, TLAPS

\* The flag serializes startCore, and only a launched core is held by its caller.
Starts ==
    /\ \A r \in Callers : caller[r] # "idle" => starting
    /\ \A r, s \in Callers : caller[r] # "idle" /\ caller[s] # "idle" => r = s
    /\ \A r \in Callers : launched[r] # NoCore <=> caller[r] = "launched"

\* A reaper that has collected its process knows it dead.
Reapers == \A c \in Cores : reaper[c] \in {"collected", "done"} => proc[c] = "dead"

\* While a start may still publish a core, the child it will replace has been collected.
Replaces ==
    \A r \in Callers :
        caller[r] \in {"checking", "launched"} /\ child # NoCore => reaper[child] = "collected"

\* After a stop that raced with no start there is neither a child nor a start.
Stopped == lastStop = "alone" => ~starting /\ child = NoCore

\* NoUntrackedCore, and after the service's end too: nothing touches what it knew then.
Tracked ==
    \A c \in Cores : proc[c] = "running" =>
        c = child \/ c \in unkilled \/ \E r \in Callers : launched[r] = c

Inv == ServiceTypeOK /\ Starts /\ Reapers /\ Replaces /\ Stopped /\ Tracked

\* Nothing runs at the start.
LEMMA InitInv == Init => Inv
  BY CoreAssumption DEF Init, Inv, ServiceTypeOK, Starts, Reapers, Replaces, Stopped, Tracked

\* Used for refused starts too, which change nothing.
LEMMA StutterInv == Inv /\ UNCHANGED vars => Inv'
  BY DEF Inv, ServiceTypeOK, Starts, Reapers, Replaces, Stopped, Tracked,
         vars, startVars, processVars, shutdownVars, historyVars

\* The flag was down, so that no other call is under way.
LEMMA StartCheckInv == ASSUME Inv, NEW r \in Callers, StartCheck(r) PROVE Inv'
  BY CoreAssumption
  DEF Inv, ServiceTypeOK, Starts, Reapers, Replaces, Stopped, Tracked, StartCheck,
      MayHaveExited, processVars, shutdownVars

\* A failed start leaves the child alone.
LEMMA StartFailsInv == ASSUME Inv, NEW r \in Callers, StartFails(r) PROVE Inv'
  BY CoreAssumption
  DEF Inv, ServiceTypeOK, Starts, Reapers, Replaces, Stopped, Tracked, StartFails,
      processVars, shutdownVars, historyVars

\* The launched core is held by its caller.
LEMMA LaunchInv == ASSUME Inv, NEW r \in Callers, NEW c \in Cores, Launch(r, c) PROVE Inv'
<1> USE CoreAssumption DEF Inv, Launch, shutdownVars, historyVars
<1>1. ServiceTypeOK'
  BY DEF ServiceTypeOK
<1>2. Starts'
  BY DEF Starts, ServiceTypeOK
<1>3. Reapers' /\ Replaces' /\ Stopped'
  BY DEF Reapers, Replaces, Stopped, Starts, ServiceTypeOK
<1>4. Tracked'
  BY DEF Tracked, Starts, ServiceTypeOK
<1> QED
  BY <1>1, <1>2, <1>3, <1>4

\* The core that Publish makes the service forget, if any, is dead (Replaces, Reapers).
LEMMA PublishInv == ASSUME Inv, NEW r \in Callers, Publish(r) PROVE Inv'
<1> USE CoreAssumption DEF Inv, Publish, shutdownVars, historyVars
<1>0. launched[r] \in Cores
  BY DEF ServiceTypeOK, Starts
<1>1. ServiceTypeOK'
  BY <1>0 DEF ServiceTypeOK
<1>2. Starts'
  BY DEF Starts, ServiceTypeOK
<1>3. Reapers' /\ Replaces' /\ Stopped'
  BY <1>0 DEF Reapers, Replaces, Stopped, Starts, ServiceTypeOK
<1>4. Tracked'
  BY <1>0 DEF Tracked, Starts, Replaces, Reapers, ServiceTypeOK
<1> QED
  BY <1>1, <1>2, <1>3, <1>4

\* No other caller is under way, so the flag may be reset.
LEMMA StartReturnsInv == ASSUME Inv, NEW r \in Callers, StartReturns(r) PROVE Inv'
<1> USE CoreAssumption DEF Inv, StartReturns, processVars, shutdownVars, historyVars
<1>1. ServiceTypeOK'
  BY DEF ServiceTypeOK
<1>2. \A s \in Callers : caller'[s] = "idle"
  BY DEF Starts, ServiceTypeOK
<1>3. \A s \in Callers : launched'[s] = NoCore
  BY DEF Starts, ServiceTypeOK
<1>4. Starts'
  BY <1>2, <1>3 DEF Starts
<1>5. Reapers' /\ Replaces' /\ Tracked'
  BY <1>2 DEF Reapers, Replaces, Tracked
<1>6. Stopped'
  BY DEF Stopped
<1> QED
  BY <1>1, <1>4, <1>5, <1>6

\* A process that ends concerns nobody else yet.
LEMMA CoreInv ==
  ASSUME Inv, NEW c \in Cores, CoreExits(c) \/ CoreDies(c)
  PROVE  Inv'
  BY CoreAssumption
  DEF Inv, ServiceTypeOK, Starts, Reapers, Replaces, Stopped, Tracked, CoreExits,
      CoreDies, startVars, shutdownVars, historyVars

\* A late reaper leaves a newer child alone.
LEMMA ReaperInv == ASSUME Inv, NEW c \in Cores, ReaperStep(c) PROVE Inv'
<1> USE CoreAssumption DEF Inv, startVars, shutdownVars, historyVars
<1>1. CASE Collect(c)
  BY <1>1 DEF Collect, ServiceTypeOK, Starts, Reapers, Replaces, Stopped, Tracked
<1>2. CASE Reap(c)
  <2> USE <1>2 DEF Reap
  <2>1. ServiceTypeOK'
    BY DEF ServiceTypeOK
  <2>2. Starts' /\ Reapers' /\ Replaces' /\ Stopped'
    BY DEF Starts, Reapers, Replaces, Stopped, ServiceTypeOK
  <2>3. Tracked'
    BY DEF Tracked, Reapers, ServiceTypeOK
  <2> QED
    BY <2>1, <2>2, <2>3
<1> QED
  BY <1>1, <1>2 DEF ReaperStep

\* stopCore forgets the child, which is then killed, dead, or recorded as unkilled.
LEMMA StopCoreInv ==
  ASSUME Inv, StopCore,
         service' \in {"up", "closing", "exited"},
         interrupt' \in {"waiting", "stopping", "done"},
         watcher' \in {"polling", "stopping", "done"}, UNCHANGED parent
  PROVE  Inv'
<1> USE CoreAssumption DEF Inv, StopCore, StopNothing, StopChild, startVars
<1>1. ServiceTypeOK'
  BY DEF ServiceTypeOK
<1>2. Starts' /\ Replaces' /\ Stopped'
  BY DEF Starts, Replaces, Stopped, ServiceTypeOK
<1>3. Reapers'
  BY DEF Reapers, ServiceTypeOK
<1>4. Tracked'
  BY DEF Tracked, ServiceTypeOK
<1> QED
  BY <1>1, <1>2, <1>3, <1>4

\* One case per action of the service.
LEMMA NextInv == Inv /\ [Next]_vars => Inv'
<1> SUFFICES ASSUME Inv, [Next]_vars PROVE Inv'
  OBVIOUS
<1>1. ASSUME NEW r \in Callers, StartCheck(r) \/ StartRefused(r) \/ StartStep(r) PROVE Inv'
  BY <1>1, StartCheckInv, StartFailsInv, LaunchInv, PublishInv, StartReturnsInv, StutterInv
  DEF StartStep, StartRefused
<1>2. ASSUME NEW c \in Cores, CoreExits(c) \/ CoreDies(c) \/ ReaperStep(c) PROVE Inv'
  BY <1>2, CoreInv, ReaperInv
<1>3. CASE HandleStop
  BY <1>3, StopCoreInv DEF HandleStop, shutdownVars, Inv, ServiceTypeOK
<1>4. CASE InterruptStops \/ WatcherStops
  BY <1>4, StopCoreInv DEF InterruptStops, WatcherStops, Inv, ServiceTypeOK
<1>5. CASE Interrupted \/ ParentDies \/ PidChangesHands \/ WatcherShutsDown \/ MainReturns
  BY <1>5
  DEF Interrupted, ParentDies, PidChangesHands, WatcherShutsDown, MainReturns, startVars,
      processVars, historyVars, Inv, ServiceTypeOK, Starts, Reapers, Replaces, Stopped, Tracked
<1>6. CASE UNCHANGED vars
  BY <1>6, StutterInv
<1> QED
  BY <1>1, <1>2, <1>3, <1>4, <1>5, <1>6 DEF Next, ShutdownStep

\* The inductive invariant holds in every behaviour.
LEMMA SpecInv == SafetySpec => []Inv
  BY InitInv, NextInv, PTL DEF SafetySpec

\* Every variable keeps its type.
THEOREM ServiceTypeCorrect == SafetySpec => []ServiceTypeOK
  BY SpecInv, PTL DEF Inv

\* While the service lives, a running core is always the child, about to be published, or
\* one whose Kill failed.
THEOREM CoresAreTracked == SafetySpec => []NoUntrackedCore
<1>1. Inv => NoUntrackedCore
  BY DEF Inv, Tracked, NoUntrackedCore
<1> QED
  BY <1>1, SpecInv, PTL

\* Two cores never run at the same time.
THEOREM AtMostOneCore == SafetySpec => []OneCoreAtATime
<1>1. Inv => OneCoreAtATime
  BY CoreAssumption
  DEF Inv, ServiceTypeOK, Starts, Reapers, Replaces, Tracked, OneCoreAtATime
<1> QED
  BY <1>1, SpecInv, PTL

\* A stop without a concurrent start holds until the next start is accepted.
THEOREM StopIsEffective == SafetySpec => []StopHolds
<1>1. ASSUME Inv, lastStop = "alone", NEW c \in Cores \ unkilled PROVE proc[c] # "running"
  <2>1. ~starting /\ child = NoCore
    BY <1>1 DEF Inv, Stopped
  <2>2. \A r \in Callers : launched[r] = NoCore
    BY <1>1, <2>1 DEF Inv, Starts
  <2> QED
    BY <1>1, <2>1, <2>2, CoreAssumption DEF Inv, Tracked
<1>2. Inv => StopHolds
  BY <1>1 DEF StopHolds
<1> QED
  BY <1>2, SpecInv, PTL

-----------------------------------------------------------------------------
(* What must happen                                                          *)

\* A published core is waited for until the service forgets it, and one that a caller
\* still holds has no reaper yet.
Watched ==
    /\ \A c \in Cores : reaper[c] # "none" => proc[c] # "unused"
    /\ \A c \in Cores : child = c => reaper[c] \in {"waiting", "collected"}
    /\ \A r \in Callers : launched[r] # NoCore =>
          reaper[launched[r]] = "none" /\ proc[launched[r]] # "unused"

\* Stops change no reaper, and no process from or to unused.
LEMMA StopsWatched ==
    ASSUME Inv, Watched, StopCore
    PROVE  Watched'
  BY CoreAssumption
  DEF Inv, ServiceTypeOK, Watched, StopCore, StopNothing, StopChild, startVars

\* It holds in every behaviour.
LEMMA WatchedHolds == SafetySpec => []Watched
<1>1. Init => Watched
  BY CoreAssumption DEF Init, Watched
<1>2. Inv /\ Watched /\ [Next]_vars => Watched'
  <2> SUFFICES ASSUME Inv, Watched, [Next]_vars PROVE Watched'
    OBVIOUS
  <2> USE CoreAssumption
  <2>1. ASSUME NEW r \in Callers, StartCheck(r) \/ StartRefused(r) \/ StartFails(r) \/ StartReturns(r)
        PROVE  Watched'
    BY <2>1 DEF StartCheck, StartRefused, StartFails, StartReturns, Watched, vars, startVars,
                processVars, shutdownVars, historyVars
  <2>2. ASSUME NEW r \in Callers, NEW c \in Cores, Launch(r, c) PROVE Watched'
    BY <2>2 DEF Launch, Watched, Inv, ServiceTypeOK
  <2>3. ASSUME NEW r \in Callers, Publish(r) PROVE Watched'
    <3>1. launched[r] \in Cores /\ \A s \in Callers : s # r => launched[s] = NoCore
      BY <2>3 DEF Publish, Inv, ServiceTypeOK, Starts
    <3> QED
      BY <2>3, <3>1 DEF Publish, Watched, Inv, ServiceTypeOK
  <2>4. ASSUME NEW c \in Cores, CoreExits(c) \/ CoreDies(c) PROVE Watched'
    BY <2>4 DEF CoreExits, CoreDies, Watched, Inv, ServiceTypeOK, startVars
  <2>5. ASSUME NEW c \in Cores, ReaperStep(c) PROVE Watched'
    <3>1. CASE Collect(c)
      BY <2>5, <3>1 DEF Collect, Watched, Inv, ServiceTypeOK, startVars
    <3>2. CASE Reap(c)
      BY <2>5, <3>2 DEF Reap, Watched, Inv, ServiceTypeOK, startVars
    <3> QED
      BY <2>5, <3>1, <3>2 DEF ReaperStep
  <2>6. CASE HandleStop \/ InterruptStops \/ WatcherStops
    BY <2>6, StopsWatched DEF HandleStop, InterruptStops, WatcherStops
  <2>7. CASE Interrupted \/ ParentDies \/ PidChangesHands \/ WatcherShutsDown \/ MainReturns
    BY <2>7 DEF Interrupted, ParentDies, PidChangesHands, WatcherShutsDown, MainReturns, Watched,
                startVars, processVars
  <2>8. CASE UNCHANGED vars
    BY <2>8 DEF vars, startVars, processVars, Watched
  <2> QED
    BY <2>1, <2>2, <2>3, <2>4, <2>5, <2>6, <2>7, <2>8 DEF Next, ShutdownStep, StartStep
<1> QED
  BY <1>1, <1>2, SpecInv, PTL DEF SafetySpec

\* A dead child stays dead, and only its own reaper's steps touch its reaper.
LEMMA DeadStaysDead ==
    ASSUME Inv, Watched, [Next]_vars, NEW c \in Cores, child = c, proc[c] = "dead"
    PROVE  /\ proc'[c] = "dead"
           /\ reaper[c] = "collected" /\ child' = c => reaper'[c] = "collected"
<1> USE CoreAssumption DEF Inv, ServiceTypeOK
<1>1. ASSUME NEW r \in Callers, StartCheck(r) \/ StartRefused(r) \/ StartFails(r) \/ StartReturns(r)
      PROVE  UNCHANGED <<proc, reaper>>
  BY <1>1 DEF StartCheck, StartRefused, StartFails, StartReturns, vars, processVars
<1>2. ASSUME NEW r \in Callers, NEW d \in Cores, Launch(r, d)
      PROVE  UNCHANGED reaper /\ proc'[c] = proc[c]
  BY <1>2 DEF Launch
<1>3. ASSUME NEW r \in Callers, Publish(r) PROVE UNCHANGED proc /\ reaper'[c] = reaper[c]
  <2>1. launched[r] \in Cores /\ launched[r] # c
    BY <1>3 DEF Publish, Starts, Watched
  <2> QED
    BY <1>3, <2>1 DEF Publish
<1>4. ASSUME NEW d \in Cores, CoreExits(d) \/ CoreDies(d)
      PROVE  UNCHANGED reaper /\ proc'[c] = proc[c]
  BY <1>4 DEF CoreExits, CoreDies
<1>5. ASSUME NEW d \in Cores, ReaperStep(d)
      PROVE  UNCHANGED proc /\ (reaper[c] = "collected" /\ child' = c => reaper'[c] = "collected")
  BY <1>5 DEF ReaperStep, Collect, Reap
<1>6. CASE HandleStop \/ InterruptStops \/ WatcherStops
  BY <1>6 DEF HandleStop, InterruptStops, WatcherStops, StopCore, StopNothing, StopChild
<1>7. CASE Interrupted \/ ParentDies \/ PidChangesHands \/ WatcherShutsDown \/ MainReturns
           \/ UNCHANGED vars
  BY <1>7 DEF Interrupted, ParentDies, PidChangesHands, WatcherShutsDown, MainReturns, vars,
              processVars
<1> QED
  BY <1>1, <1>2, <1>3, <1>4, <1>5, <1>6, <1>7 DEF Next, ShutdownStep, StartStep

\* A reaper can go on when its process is dead, and when it has collected it.
ReaperCanStep(c) ==
    [](Alive /\ (reaper[c] = "collected" \/ (reaper[c] = "waiting" /\ proc[c] = "dead"))
         => ENABLED <<ReaperStep(c)>>_vars)

\* Wait returns, then the reaper takes the lock.
LEMMA ExitOfCoreNoticed ==
    ASSUME NEW c \in Cores
    PROVE  SafetySpec /\ ReaperFairness(c) /\ ReaperCanStep(c)
             => ((child = c /\ proc[c] = "dead") ~> (child # c \/ service = "exited"))
<1> DEFINE Good == Inv /\ Watched
           Child == child = c
           Dead == proc[c] = "dead"
           Waiting == reaper[c] = "waiting"
           Collected == reaper[c] = "collected"
           Gone == service = "exited"
<1>1. Good /\ Child => Waiting \/ Collected
  BY DEF Watched
<1>2. Good /\ [Next]_vars /\ Child /\ Dead => Dead' /\ (Collected /\ Child' => Collected')
  BY DeadStaysDead
<1>3. Good /\ <<ReaperStep(c)>>_vars => (Waiting => Collected') /\ (Collected => ~Child')
  BY CoreAssumption DEF ReaperStep, Collect, Reap, Inv, ServiceTypeOK
<1>4. SafetySpec => [][Next]_vars /\ []Good
  BY SpecInv, WatchedHolds, PTL DEF SafetySpec
<1>5. /\ (child = c <=> Child) /\ (child # c <=> ~Child) /\ (proc[c] = "dead" <=> Dead)
      /\ (reaper[c] = "waiting" <=> Waiting) /\ (reaper[c] = "collected" <=> Collected)
      /\ (service = "exited" <=> Gone) /\ (Alive <=> ~Gone)
  BY DEF Alive
<1> HIDE DEF Good, Child, Dead, Waiting, Collected, Gone
<1> QED
  BY <1>1, <1>2, <1>3, <1>4, <1>5, PTL DEF ReaperFairness, ReaperCanStep

\* Whatever starts and stops overlap with the end of a core, the service does not go on
\* taking a dead core for its child, if the reapers can go on when their guards say so.
THEOREM ExitsAreNoticed == Spec /\ (\A c \in Cores : ReaperCanStep(c)) => CoreExitNoticed
<1>1. Spec => SafetySpec /\ \A c \in Cores : ReaperFairness(c)
  BY PTL DEF Spec, Fairness
<1> QED
  BY <1>1, ExitOfCoreNoticed DEF CoreExitNoticed

\* Some goroutine that shuts the service down is not done.
ShuttingDown ==
    \/ interrupt = "stopping"
    \/ watcher = "polling" /\ ~ParentProcessAlive
    \/ watcher = "stopping"
    \/ service = "closing"

ShutdownCanStep == [](Alive /\ ShuttingDown => ENABLED <<ShutdownStep>>_vars)

\* Outside the shutdown steps only Interrupted touches their variables.
LEMMA ShutdownAdvances ==
    ASSUME [Next]_vars
    PROVE  \/ ShutdownStep
           \/ UNCHANGED <<service, interrupt, watcher>>
           \/ Interrupted
  BY DEF Next, StartCheck, StartRefused, StartStep, StartFails, Launch, Publish, StartReturns,
         CoreExits, CoreDies, ReaperStep, Collect, Reap, HandleStop, ParentDies, PidChangesHands,
         vars, shutdownVars

\* The watcher is done only when it has shut the server down.
LEMMA DoneClosed == SafetySpec => [](watcher = "done" => service # "up")
<1> DEFINE Closed == watcher = "done" => service # "up"
<1>1. Init => Closed
  BY DEF Init
<1>2. Inv /\ Closed /\ [Next]_vars => Closed'
  BY ShutdownAdvances
  DEF Inv, ServiceTypeOK, Interrupted, ShutdownStep, InterruptStops, WatcherStops, WatcherShutsDown,
      MainReturns
<1> QED
  BY <1>1, <1>2, SpecInv, PTL DEF SafetySpec

\* The parent does not come back.
LEMMA ParentStaysAway == ASSUME [Next]_vars, parent # "alive" PROVE parent' # "alive"
  BY DEF Next, StartCheck, StartRefused, StartStep, StartFails, Launch, Publish, StartReturns,
         CoreExits, CoreDies, ReaperStep, Collect, Reap, HandleStop, Interrupted, ParentDies,
         PidChangesHands, ShutdownStep, InterruptStops, WatcherStops, WatcherShutsDown, MainReturns,
         vars, shutdownVars

\* Where the watcher can see its parent, the service follows it out, also when an interrupt
\* shuts it down meanwhile, if its goroutines can go on as long as one of them is not done.
\* Only without a start timestamp may another process with the PID keep it.
THEOREM ParentIsFollowed == Spec /\ ShutdownCanStep => FollowsParent
<1> SUFFICES ASSUME ParentCheck # "none"
             PROVE  Spec /\ ShutdownCanStep =>
                      (parent # "alive" ~>
                         service = "exited" \/ (ParentCheck = "pid" /\ parent = "reused"))
  BY DEF FollowsParent
<1> DEFINE Lost == parent # "alive"
           Mistaken == ParentCheck = "pid" /\ parent = "reused"
           Seen == ~ParentProcessAlive
           Polling == watcher = "polling"
           Stopping == watcher = "stopping"
           Done == watcher = "done"
           Interrupting == interrupt = "stopping"
           Idle == interrupt = "waiting"
           Closing == service = "closing"
           Gone == service = "exited"
<1>1. [Next]_vars
        => /\ Stopping => Stopping' \/ Done'
           /\ Done => Done'
           /\ Idle => Idle' \/ Interrupting'
           /\ ~Idle => ~Idle'
           /\ ~Idle /\ ~Interrupting => ~Interrupting'
           /\ Closing => Closing' \/ Gone'
           /\ Gone => Gone'
  BY ShutdownAdvances
  DEF ShutdownStep, Interrupted, InterruptStops, WatcherStops, WatcherShutsDown, MainReturns, Alive
<1>2. [Next]_vars /\ Lost => Lost'
  BY ParentStaysAway
<1>3. <<ShutdownStep>>_vars
        => \/ Gone'
           \/ Interrupting /\ ~Interrupting' /\ ~Idle'
           \/ Polling /\ Stopping'
           \/ Stopping /\ Done'
  BY DEF ShutdownStep, InterruptStops, WatcherStops, WatcherShutsDown, MainReturns
<1>4. Inv => /\ Polling \/ Stopping \/ Done
             /\ Done /\ (watcher = "done" => service # "up") => Closing \/ Gone
  BY DEF Inv, ServiceTypeOK
<1>5. /\ ~(Polling /\ Stopping) /\ ~(Polling /\ Done) /\ ~(Stopping /\ Done)
      /\ ~(Idle /\ Interrupting)
  OBVIOUS
<1>6. Lost /\ ~Mistaken => Seen
  BY CoreAssumption DEF ParentProcessAlive
<1>7. /\ (parent # "alive" <=> Lost) /\ (service = "exited" <=> Gone) /\ (Alive <=> ~Gone)
      /\ (ParentCheck = "pid" /\ parent = "reused" <=> Mistaken)
      /\ (ShuttingDown <=> Interrupting \/ (Polling /\ Seen) \/ Stopping \/ Closing)
  BY DEF Alive, ShuttingDown
<1>8. SafetySpec => [][Next]_vars /\ []Inv /\ [](watcher = "done" => service # "up")
  BY SpecInv, DoneClosed, PTL DEF SafetySpec
<1>9. Spec => SafetySpec /\ ShutdownFairness
  BY PTL DEF Spec, Fairness
<1> HIDE DEF Lost, Mistaken, Seen, Polling, Stopping, Done, Interrupting, Idle, Closing, Gone
<1> QED
  BY <1>1, <1>2, <1>3, <1>4, <1>5, <1>6, <1>7, <1>8, <1>9, PTL
  DEF ShutdownFairness, ShutdownCanStep

\* The flag is up only while a call is under way.
LEMMA FlagHeld == SafetySpec => [](starting => \E r \in Callers : caller[r] # "idle")
<1> DEFINE Held == starting => \E r \in Callers : caller[r] # "idle"
<1>1. Init => Held
  BY DEF Init
<1>2. Inv /\ Held /\ [Next]_vars => Held'
  <2> SUFFICES ASSUME Inv, Held, [Next]_vars PROVE Held'
    OBVIOUS
  <2> USE DEF Inv, ServiceTypeOK
  <2>1. ASSUME NEW r \in Callers, StartCheck(r) \/ StartFails(r) \/ Publish(r) PROVE Held'
    BY <2>1 DEF StartCheck, StartFails, Publish
  <2>2. ASSUME NEW r \in Callers, NEW c \in Cores, Launch(r, c) PROVE Held'
    BY <2>2 DEF Launch
  <2>3. ASSUME NEW r \in Callers, StartReturns(r) PROVE Held'
    BY <2>3 DEF StartReturns
  <2>4. CASE UNCHANGED startVars
    BY <2>4 DEF startVars
  <2> QED
    BY <2>1, <2>2, <2>3, <2>4 DEF Next, StartRefused, StartStep, CoreExits, CoreDies, ReaperStep,
       Collect, Reap, HandleStop, Interrupted, ParentDies, PidChangesHands, ShutdownStep,
       InterruptStops, WatcherStops, WatcherShutsDown, MainReturns, StopCore, vars
<1> QED
  BY <1>1, <1>2, SpecInv, PTL DEF SafetySpec

Under(where) == \E r \in Callers : caller[r] = where

\* While a call is under way, only its own steps touch the flag and the calls.
LEMMA OneCallOnly == [Next]_vars /\ starting => AnyStart \/ UNCHANGED startVars
  BY DEF Next, AnyStart, StartCheck, StartRefused, CoreExits, CoreDies, ReaperStep, Collect,
         Reap, HandleStop, Interrupted, ParentDies, PidChangesHands, ShutdownStep, InterruptStops,
         WatcherStops, WatcherShutsDown, MainReturns, StopCore, vars, startVars

\* It goes from the check over the launch, or past it, to its return.
LEMMA CallAdvances ==
    ASSUME Inv, NEW r \in Callers, StartStep(r)
    PROVE  \/ ~starting'
           \/ Under("returning")' /\ ~Under("returning")
           \/ Under("launched")' /\ ~Under("returning") /\ ~Under("launched")
<1>1. caller[r] # "idle" => \A s \in Callers : s # r => caller[s] = "idle"
  BY DEF Inv, Starts
<1> USE <1>1 DEF Inv, ServiceTypeOK, Under
<1>2. CASE StartFails(r)
  BY <1>2 DEF StartFails
<1>3. ASSUME NEW c \in Cores, Launch(r, c)
      PROVE  Under("launched")' /\ ~Under("returning") /\ ~Under("launched")
  BY <1>3 DEF Launch
<1>4. CASE Publish(r)
  BY <1>4 DEF Publish
<1>5. CASE StartReturns(r)
  BY <1>5 DEF StartReturns
<1> QED
  BY <1>2, <1>3, <1>4, <1>5 DEF StartStep

\* A call that is under way can go on.
StartCanStep ==
    [](Alive /\ (\E r \in Callers : caller[r] # "idle")
         => ENABLED <<AnyStart>>_vars)

\* On every path a start takes, its flag is lowered again, if the call can go on.
THEOREM StartsReturn == Spec /\ StartCanStep => StartsUnblock
<1> DEFINE Gone == service = "exited"
           Begun == \E r \in Callers : caller[r] # "idle"
           Checking == Under("checking")
           Launched == Under("launched")
           Returning == Under("returning")
           Quiet == UNCHANGED startVars
<1>1. Inv /\ Begun => Checking \/ Launched \/ Returning
  BY DEF Inv, ServiceTypeOK, Under
<1>2. [Next]_vars /\ starting => AnyStart \/ Quiet
  BY OneCallOnly
<1>3. Quiet => /\ starting <=> starting'
               /\ Launched <=> Launched'
               /\ Returning <=> Returning'
  BY DEF startVars, Under
<1>4. Inv /\ AnyStart
        => ~starting' \/ (Returning' /\ ~Returning) \/ (Launched' /\ ~Returning /\ ~Launched)
  BY CallAdvances DEF AnyStart
<1>5. /\ (service = "exited" <=> Gone) /\ (Alive <=> ~Gone)
      /\ ((\E r \in Callers : caller[r] # "idle") <=> Begun)
  BY DEF Alive
<1>6. SafetySpec => [][Next]_vars /\ []Inv /\ [](starting => Begun)
  BY SpecInv, FlagHeld, PTL DEF SafetySpec
<1>7. Spec => SafetySpec /\ StartFairness
  BY PTL DEF Spec, Fairness
<1> HIDE DEF Gone, Begun, Checking, Launched, Returning, Quiet
<1> QED
  BY <1>1, <1>2, <1>3, <1>4, <1>5, <1>6, <1>7, PTL DEF StartFairness, StartCanStep, StartsUnblock

====
