---- MODULE Supervisor ----
(***************************************************************************)
(* The core's supervisor (cmd/snispf/main.go, the loop of main): it runs   *)
(* one forwarder server per configured listener, and when a server asks    *)
(* for recovery it cancels all of them and builds new ones.  Each rebuild  *)
(* starts a generation.  Servers of earlier generations close their        *)
(* listeners in goroutines of their own, and their handleConn goroutines   *)
(* go on, reporting failures and successes to the same supervisor.         *)
(*                                                                         *)
(* The failure streak is module Forwarder's: here a server may reach the   *)
(* threshold at any time.  The 20 second window is a choice.               *)
(***************************************************************************)
EXTENDS Naturals, FiniteSets

CONSTANTS
    Listeners,    \* configured listeners, each with its own address
    BurstLimit,   \* rapid rebuilds in a row before the supervisor gives up: 3
    MaxAsked      \* bound: how often servers ask for recovery

ASSUME SupervisorAssumption == BurstLimit \in Nat /\ MaxAsked \in Nat

Gens == 1 .. MaxAsked + 1

VARIABLES
    core,         \* the supervisor and the process
    why,          \* what log.Fatal was called for
    gen,          \* the newest generation
    srv,          \* the server of each generation and listener
    restartSent,  \* its restartSent flag
    request,      \* a reason is in restartReqCh, whose capacity is one
    errs,         \* listeners of the newest generation with an error in errCh
    burst,        \* restartBurst; 0 while lastRestartAt is zero
    asked         \* how often OnCriticalError was called (also a bound)

serverVars == <<srv, restartSent>>
supervisorVars == <<core, why, gen, serverVars, request, errs, burst, asked>>

SupervisorInit ==
    /\ core = "serving" /\ why = "none"
    /\ gen = 1
    /\ srv = [g \in Gens |-> [l \in Listeners |-> IF g = 1 THEN "starting" ELSE "none"]]
    /\ restartSent = [g \in Gens |-> [l \in Listeners |-> FALSE]]
    /\ request = FALSE
    /\ errs = {}
    /\ burst = 0
    /\ asked = 0

Supervising == core \in {"serving", "rebuilding"}

Cancelled(g) == g < gen \/ core = "rebuilding"

-----------------------------------------------------------------------------
(* Server.Run *)

Bound(l) == \E g \in Gens : srv[g][l] = "listening"

Listen(g, l) ==
    /\ Supervising
    /\ srv[g][l] = "starting"
    /\ ~Bound(l)
    /\ srv' = [srv EXCEPT ![g][l] = "listening"]
    /\ UNCHANGED <<core, why, gen, restartSent, request, errs, burst, asked>>

ListenFailsUnreported(g, l) ==
    /\ Supervising
    /\ srv[g][l] = "starting"
    /\ Bound(l)
    /\ srv' = [srv EXCEPT ![g][l] = "failed"]
    /\ errs' = IF g = 1 THEN errs \cup {l} ELSE errs
    /\ UNCHANGED <<core, why, gen, restartSent, request, burst, asked>>

\* The address is still in use: Run returns the error.  (Of an older generation nobody
\* reads it: its errCh was replaced.)  Only listeners of this process hold addresses here:
\* one that another program holds, or that cannot be resolved, fails in the same way, and
\* is left out so that a failure is always the supervisor's own doing.
ListenFails(g, l) ==
    /\ Supervising
    /\ srv[g][l] = "starting"
    /\ Bound(l)
    /\ srv' = [srv EXCEPT ![g][l] = "failed"]
    /\ errs' = IF g = gen THEN errs \cup {l} ELSE errs
    /\ UNCHANGED <<core, why, gen, restartSent, request, burst, asked>>

\* The goroutine that waits for the context closes the listener.
CloseListener(g, l) ==
    /\ Supervising
    /\ Cancelled(g)
    /\ srv[g][l] = "listening"
    /\ srv' = [srv EXCEPT ![g][l] = "closed"]
    /\ UNCHANGED <<core, why, gen, restartSent, request, errs, burst, asked>>

\* A handler of this server reaches the threshold and wins the compare-and-swap; the
\* send to the channel is dropped when a request is waiting already.
Escalate(g, l) ==
    /\ Supervising
    /\ asked < MaxAsked
    /\ srv[g][l] \in {"listening", "closed"}
    /\ ~restartSent[g][l]
    /\ restartSent' = [restartSent EXCEPT ![g][l] = TRUE]
    /\ request' = TRUE
    /\ asked' = asked + 1
    /\ UNCHANGED <<core, why, gen, srv, errs, burst>>

\* A handler of this server reports a success.
Rearm(g, l) ==
    /\ Supervising
    /\ restartSent[g][l]
    /\ restartSent' = [restartSent EXCEPT ![g][l] = FALSE]
    /\ UNCHANGED <<core, why, gen, srv, request, errs, burst, asked>>

-----------------------------------------------------------------------------
(* The supervisor's select *)

\* An interrupt: every server is cancelled and main returns.
CoreInterrupted ==
    /\ core = "serving"
    /\ core' = "exited"
    /\ UNCHANGED <<why, gen, serverVars, request, errs, burst, asked>>

ListenerError ==
    /\ core = "serving"
    /\ errs # {}
    /\ core' = "fatal" /\ why' = "listener"
    /\ UNCHANGED <<gen, serverVars, request, errs, burst, asked>>

RecoverOrSkip(rapid) ==
    LET b == IF rapid /\ burst > 0 THEN burst + 1 ELSE 1
    IN /\ core = "serving"
       /\ request
       /\ request' = FALSE
       /\ core' = IF b > BurstLimit THEN "serving" ELSE "rebuilding"
       /\ burst' = IF b > BurstLimit THEN burst ELSE b
       /\ UNCHANGED <<why, gen, serverVars, errs, asked>>

RecoverKeepsRequest(rapid) ==
    LET b == IF rapid /\ burst > 0 THEN burst + 1 ELSE 1
    IN /\ core = "serving"
       /\ request
       /\ core' = IF b > BurstLimit THEN "fatal" ELSE "rebuilding"
       /\ why' = IF b > BurstLimit THEN "burst" ELSE why
       /\ burst' = b
       /\ UNCHANGED <<gen, serverVars, request, errs, asked>>

\* A request, less than 20 seconds after the previous one or not: all servers are
\* cancelled and the injectors stopped, unless this is one rapid request too many.
Recover(rapid) ==
    LET b == IF rapid /\ burst > 0 THEN burst + 1 ELSE 1
    IN /\ core = "serving"
       /\ request
       /\ request' = FALSE
       /\ core' = IF b > BurstLimit THEN "fatal" ELSE "rebuilding"
       /\ why' = IF b > BurstLimit THEN "burst" ELSE why
       /\ burst' = b
       /\ UNCHANGED <<gen, serverVars, errs, asked>>

\* buildServerRuntimes succeeds: a new generation with an error channel of its own.
BuildOk ==
    /\ core = "rebuilding"
    /\ core' = "serving"
    /\ gen' = gen + 1
    /\ srv' = [srv EXCEPT ![gen + 1] = [l \in Listeners |-> "starting"]]
    /\ errs' = {}
    /\ UNCHANGED <<why, restartSent, request, burst, asked>>

\* wrong_seq needs an injector, and this time it could not be started.
BuildFails ==
    /\ core = "rebuilding"
    /\ core' = "fatal" /\ why' = "build"
    /\ UNCHANGED <<gen, serverVars, request, errs, burst, asked>>

-----------------------------------------------------------------------------
ServerStep(g, l) == Listen(g, l) \/ ListenFails(g, l) \/ CloseListener(g, l)

SupervisorStep ==
    ListenerError \/ (\E rapid \in BOOLEAN : Recover(rapid)) \/ BuildOk \/ BuildFails

SupervisorNext ==
    \/ \E g \in Gens, l \in Listeners : ServerStep(g, l) \/ Escalate(g, l) \/ Rearm(g, l)
    \/ CoreInterrupted
    \/ SupervisorStep

ServerFairness(g, l) == WF_supervisorVars(ServerStep(g, l))
SupervisorFairness == WF_supervisorVars(SupervisorStep)

\* Goroutines and the select's ready cases make progress; nothing else has to happen.
RecoveryFairness ==
    /\ \A g \in Gens, l \in Listeners : ServerFairness(g, l)
    /\ SupervisorFairness

SupervisorSafetySpec == SupervisorInit /\ [][SupervisorNext]_supervisorVars
SupervisorSpec == SupervisorSafetySpec /\ RecoveryFairness

-----------------------------------------------------------------------------
(* Properties *)

SupervisorTypeOK ==
    /\ core \in {"serving", "rebuilding", "fatal", "exited"}
    /\ why \in {"none", "listener", "burst", "build"}
    /\ gen \in Gens
    /\ srv \in [Gens -> [Listeners -> {"none", "starting", "listening", "closed", "failed"}]]
    /\ restartSent \in [Gens -> [Listeners -> BOOLEAN]]
    /\ request \in BOOLEAN
    /\ errs \subseteq Listeners
    /\ burst \in 0 .. BurstLimit + 1
    /\ asked \in 0 .. MaxAsked

\* Every rebuild, and the abort, answers a request of its own: requests are merged in
\* the channel, never answered twice.
RebuildsAnswerRequests ==
    gen - 1 + (IF core = "rebuilding" \/ why = "burst" THEN 1 ELSE 0)
        + (IF request THEN 1 ELSE 0) <= asked

\* A server whose restartSent is set stays silent; so its request, even one that found
\* the channel full, must lead to a rebuild, or the end of the process.
EscalationAnswered ==
    \A g \in Gens, l \in Listeners :
        (g = gen /\ restartSent[g][l]) ~> (gen > g \/ ~Supervising \/ ~restartSent[g][l])

\* Each configured address is served (again), or the process ends so that its manager can
\* restart it: no listener that lost the race for its address is silently missing, even if
\* its error and a request for recovery compete in the select.
ServesOrEnds ==
    \A g \in Gens, l \in Listeners :
        (g = gen /\ srv[g][l] = "starting") ~> (srv[g][l] = "listening" \/ gen > g \/ ~Supervising)

\* Recovery does not kill the process because its own old listener is still there.
RebuildSurvives == why # "listener"
====
