---- MODULE MCInjectors ----
(* Both builds of the injector, each with an arbitrary caller and arbitrary packets. *)
EXTENDS WindowsInjector

VARIABLE build

buildVars == <<windowsVars, build>>

BuildInit ==
    \/ build = "windows" /\ WindowsInit
    \/ /\ build = "linux" /\ InjectorInit
       /\ localIP = "unset" /\ loops = {} /\ stopped = FALSE

LinuxBuild(A) == build = "linux" /\ A /\ UNCHANGED <<windowsOnly, build>>
WindowsBuild(A) == build = "windows" /\ A /\ UNCHANGED build

BuildNext ==
    \/ LinuxBuild(InjectorNext)
    \/ WindowsBuild(WindowsNext)

BuildFairness ==
    /\ WF_buildVars(LinuxBuild(Sniff) \/ WindowsBuild(WinSniff))
    /\ \A f \in Flows :
        WF_buildVars(LinuxBuild(InjectStep(f)) \/ WindowsBuild(WinInjectStep(f)))
    /\ WF_buildVars(WindowsBuild(StopStep))

BuildSpec == BuildInit /\ [][BuildNext]_buildVars /\ BuildFairness
====
