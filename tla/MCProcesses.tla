---- MODULE MCProcesses ----
(* The core's supervisor and the control service, one of them in each behaviour: they are
   processes of their own, which know of each other only that the core runs. *)
EXTENDS Supervisor, ControlService

VARIABLE part

processesVars == <<supervisorVars, vars, part>>

SupervisorIdle == /\ core = "exited" /\ why = "none" /\ gen = 1
                  /\ srv = [g \in Gens |-> [l \in Listeners |-> "none"]]
                  /\ restartSent = [g \in Gens |-> [l \in Listeners |-> FALSE]]
                  /\ request = FALSE /\ errs = {} /\ burst = 0 /\ asked = 0

ProcessesInit ==
    \/ part = "supervisor" /\ SupervisorInit /\ Init
    \/ part = "service" /\ SupervisorIdle /\ Init

ProcessesNext ==
    \/ part = "supervisor" /\ SupervisorNext /\ UNCHANGED <<vars, part>>
    \/ part = "service" /\ Next /\ UNCHANGED <<supervisorVars, part>>

\* The part that is idle enables none of its actions, so that these ask nothing of it.
ProcessesSpec ==
    /\ ProcessesInit /\ [][ProcessesNext]_processesVars
    /\ RecoveryFairness /\ Fairness
====
