---- MODULE Forwarder ----
(***************************************************************************)
(* The forwarder (internal/forwarder/server.go) with its bypass strategies *)
(* (internal/bypass), one goroutine handleConn per accepted connection, on *)
(* top of the raw injector.  A member of Flows is an accepted connection   *)
(* and, with an injector, the portState its only attempt registers:        *)
(* buildSingleRuntime creates an injector for a single endpoint only.      *)
(*                                                                         *)
(* What is not the program: the kernel's sockets, the capture socket       *)
(* (wire, a bounded queue that may drop packets) and the upstream server.  *)
(***************************************************************************)
EXTENDS RawInjector, Sequences

CONSTANTS
    NoPort,          \* "no local port reserved"
    Strategy,        \* "fragment", "fake_sni", "combined" or "wrong_seq"
    UseTTL,          \* the ttl_trick method of fake_sni, USE_TTL of combined
    UseInjector,     \* the runtime has a started raw injector
    NEndpoints,      \* number of enabled endpoints of the listener
    LoadBalance,     \* "failover", "round_robin" or "random"
    AutoFailover, FailoverRetries,
    CriticalFailures,\* reportFailure's threshold
    Isn,             \* the initial sequence number the kernel gives each flow
    PortReuse,       \* the kernel may hand out a port that was used before
    EagerServer,     \* the server may acknowledge before it gets the fake
    Foreign,         \* packets of hosts behind this one that share the remote
    MaxCapture,      \* bound: packets in the capture queue
    MaxNoise         \* bound: packets the environment adds of its own accord

Strategies == {"fragment", "fake_sni", "combined", "wrong_seq"}

ASSUME PortAssumption == NoPort \notin Ports
ASSUME StrategyAssumption ==
    /\ Strategy \in Strategies
    /\ UseInjector \in BOOLEAN /\ UseTTL \in BOOLEAN
    /\ Strategy = "wrong_seq" => UseInjector
ASSUME EndpointAssumption ==
    /\ NEndpoints \in Nat \ {0}
    /\ UseInjector => NEndpoints = 1
    /\ LoadBalance \in {"failover", "round_robin", "random"}
    /\ AutoFailover \in BOOLEAN /\ FailoverRetries \in Nat
    /\ CriticalFailures \in Nat \ {0}
ASSUME NetworkAssumption ==
    /\ Isn \in [Flows -> Seqs]
    /\ Foreign \subseteq {k \in Packets : ~k.own}
    /\ PortReuse \in BOOLEAN /\ EagerServer \in BOOLEAN
    /\ MaxCapture \in Nat /\ MaxNoise \in Nat

VARIABLES
    listening,    \* the listener accepts connections
    pc,           \* where each handleConn goroutine is
    base, att,    \* its first endpoint and its attempt index
    tries,        \* port reservations refused in this attempt
    port,         \* the local port it last reserved
    registered,   \* the flag the deferred cleanup tests
    target,       \* the portState WaitForConfirmationDetailed looked up
    sock,         \* the kernel's state of its current upstream socket
    sent,         \* how much of the first payload that socket has taken
    streak, restartSent,   \* failureStreak and restartSent of the Server
    restarts,     \* how often OnCriticalError was called
    lbCounter,    \* the round-robin counter
    wire,         \* the capture socket's receive queue
    noise,        \* packets the environment has added
    acked,        \* flows whose handshake the server has acknowledged again
    tried,        \* endpoints tried for each connection (for properties only)
    rst           \* flows the upstream has reset (for properties only)

attemptVars == <<base, att, tries, tried>>
socketVars == <<sock, sent>>
registryVars == <<port, registered, target>>
recoveryVars == <<streak, restartSent, restarts>>
envVars == <<wire, noise, acked, rst>>
vars == <<injectorVars, listening, pc, attemptVars, registryVars, socketVars,
          recoveryVars, lbCounter, envVars>>

PCs == {"idle", "read", "attempt", "reserve", "register", "dial", "dialing", "undial",
        "apply", "wait", "write", "refused", "next", "drop", "fallback", "count",
        "critical", "success", "rearm", "relay", "unregister", "done"}

Init ==
    /\ InjectorInit
    /\ listening = TRUE
    /\ pc = [f \in Flows |-> "idle"]
    /\ base = [f \in Flows |-> 0]
    /\ att = [f \in Flows |-> 0]
    /\ tries = [f \in Flows |-> 0]
    /\ tried = [f \in Flows |-> {}]
    /\ port = [f \in Flows |-> NoPort]
    /\ registered = [f \in Flows |-> FALSE]
    /\ target = [f \in Flows |-> NoFlow]
    /\ sock = [f \in Flows |-> "none"]
    /\ sent = [f \in Flows |-> "none"]
    /\ streak = 0 /\ restartSent = FALSE /\ restarts = 0
    /\ lbCounter = 0
    /\ wire = <<>> /\ noise = 0 /\ acked = {} /\ rst = {}

Goto(f, from, to) == pc[f] = from /\ pc' = [pc EXCEPT ![f] = to]

\* The capture socket queues packet k, or drops it when its buffer overflows.
Capture(k) ==
    \/ wire' = wire
    \/ UseInjector /\ running /\ Len(wire) < MaxCapture /\ wire' = Append(wire, k)

Segment(d, kind, f, n) ==
    [dir |-> d, kind |-> kind, port |-> port[f], num |-> n, own |-> TRUE]

\* The kernel sends or receives a segment of f; only an injector's ports are watched.
Captured(d, kind, f, n) ==
    IF UseInjector THEN Capture(Segment(d, kind, f, n)) ELSE wire' = wire

-----------------------------------------------------------------------------
(* Accepting a connection and choosing where it goes *)

Accept(f) ==
    /\ listening
    /\ Goto(f, "idle", "read")
    /\ UNCHANGED <<injectorVars, listening, attemptVars, registryVars, socketVars,
                   recoveryVars, lbCounter, envVars>>

\* The client closes, sends nothing or is silent for 30 seconds.
ReadFails(f) ==
    /\ Goto(f, "read", "done")
    /\ UNCHANGED <<injectorVars, listening, attemptVars, registryVars, socketVars,
                   recoveryVars, lbCounter, envVars>>

\* pickBaseIndex for the current value of the counter.
BaseIndices ==
    IF NEndpoints = 1 \/ LoadBalance = "failover" THEN {0}
    ELSE IF LoadBalance = "round_robin" THEN {lbCounter % NEndpoints}
    ELSE 0 .. NEndpoints - 1

RetriesNoLB == IF AutoFailover THEN FailoverRetries ELSE 0

\* The retries handleConn computes (LoadBalance is never empty after Normalize), at
\* most one per further endpoint.
Retries ==
    LET lb == IF NEndpoints > 1 THEN NEndpoints - 1 ELSE 0
        wanted == IF AutoFailover /\ FailoverRetries > lb THEN FailoverRetries ELSE lb
    IN IF wanted > NEndpoints - 1 THEN NEndpoints - 1 ELSE wanted

TotalAttempts == Retries + 1

Endpoint(f) == (base[f] + att[f]) % NEndpoints

ReadFirst(f) ==
    /\ Goto(f, "read", "attempt")
    /\ \E b \in BaseIndices : base' = [base EXCEPT ![f] = b]
    /\ lbCounter' = IF NEndpoints > 1 /\ LoadBalance = "round_robin"
                    THEN lbCounter + 1 ELSE lbCounter
    /\ UNCHANGED <<injectorVars, listening, att, tries, tried, registryVars, socketVars,
                   recoveryVars, envVars>>

\* The loop ends with outgoing = nil; it starts over with the next attempt otherwise.
NextAttempt(f) == att' = [att EXCEPT ![f] = @ + 1] /\ tries' = [tries EXCEPT ![f] = 0]

TryingOnceMore(f) == pc[f] = "attempt" /\ att[f] <= TotalAttempts

Trying(f) == pc[f] = "attempt" /\ att[f] < TotalAttempts

Note(f) == tried' = [tried EXCEPT ![f] = @ \cup {Endpoint(f)}]

ResolveFails(f) ==
    /\ Trying(f)
    /\ Goto(f, "attempt", "attempt")
    /\ NextAttempt(f) /\ Note(f)
    /\ UNCHANGED <<injectorVars, listening, base, registryVars, socketVars,
                   recoveryVars, lbCounter, envVars>>

ResolveOk(f) ==
    /\ Trying(f)
    /\ Goto(f, "attempt", IF UseInjector THEN "reserve" ELSE "dial")
    /\ Note(f)
    /\ UNCHANGED <<injectorVars, listening, base, att, tries, registryVars, socketVars,
                   recoveryVars, lbCounter, envVars>>

-----------------------------------------------------------------------------
(* Reserving and registering a local port *)

Bound(p) == \E g \in Flows : port[g] = p /\ sock[g] \in {"syn", "open", "reset"}

\* reserveTCPPort: the kernel picks a port no socket holds and gives it back at once,
\* so nothing keeps another goroutine from being handed the same one.
Reserve(f, p) ==
    /\ Goto(f, "reserve", "register")
    /\ ~Bound(p)
    /\ PortReuse \/ \A g \in Flows : port[g] # p
    /\ port' = [port EXCEPT ![f] = p]
    /\ UNCHANGED <<injectorVars, listening, attemptVars, registered, target, socketVars,
                   recoveryVars, lbCounter, envVars>>

\* The listen fails: the reserve loop breaks and the attempt is given up.
ReserveFails(f) ==
    /\ Goto(f, "reserve", "attempt")
    /\ NextAttempt(f)
    /\ UNCHANGED <<injectorVars, listening, base, tried, registryVars, socketVars,
                   recoveryVars, lbCounter, envVars>>

Register(f) ==
    /\ Goto(f, "register", "dial")
    /\ RegisterPort(port[f], f)
    /\ registered' = [registered EXCEPT ![f] = TRUE]
    /\ UNCHANGED <<listening, attemptVars, port, target, socketVars,
                   recoveryVars, lbCounter, envVars>>

\* RegisterPort returned false: another flow owns the port; at most three tries.
RegisterRefused(f) ==
    /\ pc[f] = "register"
    /\ ports[port[f]] # NoFlow
    /\ IF tries[f] + 1 < 3
       THEN /\ Goto(f, "register", "reserve")
            /\ tries' = [tries EXCEPT ![f] = @ + 1]
            /\ UNCHANGED att
       ELSE Goto(f, "register", "attempt") /\ NextAttempt(f)
    /\ UNCHANGED <<injectorVars, listening, base, tried, registryVars, socketVars,
                   recoveryVars, lbCounter, envVars>>

UnregisterFlagOnly(f) ==
    /\ registered' = [registered EXCEPT ![f] = FALSE]
    /\ UNCHANGED injectorVars

\* CleanupPort if the flag is set, as every exit path does; the flag is cleared.
Unregister(f) ==
    /\ IF registered[f] THEN CleanupPort(port[f]) ELSE UNCHANGED injectorVars
    /\ registered' = [registered EXCEPT ![f] = FALSE]

-----------------------------------------------------------------------------
(* Dialing *)

\* The bind inside DialTCP succeeds and the SYN leaves.
Dial(f) ==
    /\ Goto(f, "dial", "dialing")
    /\ UseInjector => ~Bound(port[f])
    /\ sock' = [sock EXCEPT ![f] = "syn"]
    /\ sent' = [sent EXCEPT ![f] = "none"]
    /\ Captured("out", "syn", f, Isn[f])
    /\ UNCHANGED <<injectorVars, listening, attemptVars, registryVars,
                   recoveryVars, lbCounter, noise, acked, rst>>

\* SYN-ACK received: the kernel sends the handshake ACK and DialTCP returns.
DialOk(f) ==
    /\ Goto(f, "dialing", "apply")
    /\ sock[f] = "syn"
    /\ sock' = [sock EXCEPT ![f] = "open"]
    /\ Captured("out", "ack", f, SeqAdd(Isn[f], 1))
    /\ UNCHANGED <<injectorVars, listening, attemptVars, registryVars, sent,
                   recoveryVars, lbCounter, noise, acked, rst>>

\* The port was taken meanwhile, the upstream refuses, or the dial times out.
DialFails(f) ==
    /\ pc[f] \in {"dial", "dialing"}
    /\ pc' = [pc EXCEPT ![f] = "undial"]
    /\ sock' = [sock EXCEPT ![f] = "closed"]
    /\ UNCHANGED <<injectorVars, listening, attemptVars, registryVars, sent,
                   recoveryVars, lbCounter, envVars>>

Undial(f) ==
    /\ Goto(f, "undial", "attempt")
    /\ Unregister(f)
    /\ NextAttempt(f)
    /\ UNCHANGED <<listening, base, tried, port, target, socketVars,
                   recoveryVars, lbCounter, envVars>>

-----------------------------------------------------------------------------
(* Strategy.Apply *)

Waits == UseInjector /\ Strategy # "fragment"
Decoy == UseTTL /\ ~UseInjector /\ Strategy \in {"fake_sni", "combined"}
Splits == \/ Strategy \in {"fragment", "combined"}
          \/ Strategy = "fake_sni" /\ ~UseInjector /\ ~UseTTL

\* The lookup at the start of WaitForConfirmationDetailed, or straight to the writes.
StartApply(f) ==
    /\ Goto(f, "apply", IF Waits THEN "wait" ELSE "write")
    /\ target' = [target EXCEPT ![f] = IF Waits THEN ports[port[f]] ELSE NoFlow]
    /\ UNCHANGED <<injectorVars, listening, attemptVars, port, registered, socketVars,
                   recoveryVars, lbCounter, envVars>>

AfterWaitLenient(status) ==
    IF Strategy = "wrong_seq" /\ status = "failed" THEN "refused" ELSE "write"

\* wrong_seq writes nothing unless the status is Confirmed; fake_sni and combined
\* log any other status and send the real data anyway.
AfterWait(status) ==
    IF Strategy = "wrong_seq" /\ status # "confirmed" THEN "refused" ELSE "write"

WaitOnlyForEvents(f) ==
    \E status \in WaitOutcomes(target[f]) \ {"timeout"} :
        /\ Goto(f, "wait", AfterWait(status))
        /\ UNCHANGED <<injectorVars, listening, attemptVars, registryVars, socketVars,
                       recoveryVars, lbCounter, envVars>>

WaitReturns(f) ==
    \E status \in WaitOutcomes(target[f]) :
        /\ Goto(f, "wait", AfterWait(status))
        /\ UNCHANGED <<injectorVars, listening, attemptVars, registryVars, socketVars,
                       recoveryVars, lbCounter, envVars>>

\* The next byte to write is the first one of the payload.
HelloDue(f) == sent[f] = IF Decoy THEN "decoy" ELSE "none"

\* One fragment of several, or the TTL-limited fake hello that precedes the payload.
WritePart(f) ==
    /\ pc[f] = "write" /\ sock[f] = "open"
    /\ \/ Splits /\ HelloDue(f) /\ sent' = [sent EXCEPT ![f] = "part"]
       \/ Decoy /\ sent[f] = "none" /\ sent' = [sent EXCEPT ![f] = "decoy"]
    /\ UNCHANGED <<injectorVars, listening, pc, attemptVars, registryVars, sock,
                   recoveryVars, lbCounter, envVars>>

\* The last (or only) write of the first payload succeeds: Apply returns true.
WriteAll(f) ==
    /\ Goto(f, "write", "success")
    /\ sock[f] = "open"
    /\ HelloDue(f) \/ sent[f] = "part"
    /\ sent' = [sent EXCEPT ![f] = "all"]
    /\ UNCHANGED <<injectorVars, listening, attemptVars, registryVars, sock,
                   recoveryVars, lbCounter, envVars>>

WriteFailsMidway(f) ==
    /\ Goto(f, "write", "refused")
    /\ sock[f] = "reset" \/ sent[f] \in {"none", "part"}
    /\ UNCHANGED <<injectorVars, listening, attemptVars, registryVars, socketVars,
                   recoveryVars, lbCounter, envVars>>

\* A write fails once the upstream has reset the connection; the ttl_trick method also
\* gives up, before any byte, when the TTL cannot be set.
WriteFails(f) ==
    /\ Goto(f, "write", "refused")
    /\ \/ sock[f] = "reset"
       \/ Decoy /\ Strategy = "fake_sni" /\ sent[f] = "none"
    /\ UNCHANGED <<injectorVars, listening, attemptVars, registryVars, socketVars,
                   recoveryVars, lbCounter, envVars>>

-----------------------------------------------------------------------------
(* After Apply *)

RefusedFallsBack(f) ==
    /\ Goto(f, "refused", IF att[f] + 1 < TotalAttempts THEN "next" ELSE "fallback")
    /\ Unregister(f)
    /\ UNCHANGED <<listening, attemptVars, port, target, socketVars,
                   recoveryVars, lbCounter, envVars>>

\* Apply returned false: the port is cleaned up, then the next endpoint is tried, the
\* connection dropped (wrong_seq), or the payload written without any bypass.
Refused(f) ==
    /\ Goto(f, "refused", IF att[f] + 1 < TotalAttempts THEN "next"
                          ELSE IF Strategy = "wrong_seq" THEN "drop" ELSE "fallback")
    /\ Unregister(f)
    /\ UNCHANGED <<listening, attemptVars, port, target, socketVars,
                   recoveryVars, lbCounter, envVars>>

CloseAndRetry(f) ==
    /\ Goto(f, "next", "attempt")
    /\ sock' = [sock EXCEPT ![f] = "closed"]
    /\ NextAttempt(f)
    /\ UNCHANGED <<injectorVars, listening, base, tried, registryVars, sent,
                   recoveryVars, lbCounter, envVars>>

\* wrong_seq: handleConn closes the upstream socket and returns, without reportFailure.
CloseAndDrop(f) ==
    /\ Goto(f, "drop", "unregister")
    /\ sock' = [sock EXCEPT ![f] = "closed"]
    /\ UNCHANGED <<injectorVars, listening, attemptVars, registryVars, sent,
                   recoveryVars, lbCounter, envVars>>

\* The direct write of the whole payload; its error is ignored.
Fallback(f) ==
    /\ Goto(f, "fallback", "success")
    /\ sent' = IF sock[f] = "open" THEN [sent EXCEPT ![f] = "all"] ELSE sent
    /\ UNCHANGED <<injectorVars, listening, attemptVars, registryVars, sock,
                   recoveryVars, lbCounter, envVars>>

ExhaustedUncounted(f) ==
    /\ att[f] = TotalAttempts
    /\ Goto(f, "attempt", "unregister")
    /\ UNCHANGED <<injectorVars, listening, attemptVars, registryVars, socketVars,
                   recoveryVars, lbCounter, envVars>>

Exhausted(f) ==
    /\ att[f] = TotalAttempts
    /\ Goto(f, "attempt", "count")
    /\ UNCHANGED <<injectorVars, listening, attemptVars, registryVars, socketVars,
                   recoveryVars, lbCounter, envVars>>

CountFailureEarly(f) ==
    /\ Goto(f, "count", IF streak + 2 < CriticalFailures THEN "unregister" ELSE "critical")
    /\ streak' = streak + 1
    /\ UNCHANGED <<injectorVars, listening, attemptVars, registryVars, socketVars,
                   restartSent, restarts, lbCounter, envVars>>

\* reportFailure: the atomic add and the threshold test on its result.
CountFailure(f) ==
    /\ Goto(f, "count", IF streak + 1 < CriticalFailures THEN "unregister" ELSE "critical")
    /\ streak' = streak + 1
    /\ UNCHANGED <<injectorVars, listening, attemptVars, registryVars, socketVars,
                   restartSent, restarts, lbCounter, envVars>>

AskRestartNoCAS(f) ==
    /\ Goto(f, "critical", "unregister")
    /\ restartSent' = TRUE
    /\ restarts' = restarts + 1
    /\ UNCHANGED <<injectorVars, listening, attemptVars, registryVars, socketVars,
                   streak, lbCounter, envVars>>

\* reportFailure: only the goroutine that wins the compare-and-swap asks for a restart.
AskRestart(f) ==
    /\ Goto(f, "critical", "unregister")
    /\ restartSent' = TRUE
    /\ restarts' = IF restartSent THEN restarts ELSE restarts + 1
    /\ UNCHANGED <<injectorVars, listening, attemptVars, registryVars, socketVars,
                   streak, lbCounter, envVars>>

\* reportSuccess is two separate stores.
ResetStreak(f) ==
    /\ Goto(f, "success", "rearm")
    /\ streak' = 0
    /\ UNCHANGED <<injectorVars, listening, attemptVars, registryVars, socketVars,
                   restartSent, restarts, lbCounter, envVars>>

Rearm(f) ==
    /\ Goto(f, "rearm", "relay")
    /\ restartSent' = FALSE
    /\ UNCHANGED <<injectorVars, listening, attemptVars, registryVars, socketVars,
                   streak, restarts, lbCounter, envVars>>

\* Both copies ended: outgoing is closed first, being the last defer.
RelayEnds(f) ==
    /\ Goto(f, "relay", "unregister")
    /\ sock' = [sock EXCEPT ![f] = "closed"]
    /\ UNCHANGED <<injectorVars, listening, attemptVars, registryVars, sent,
                   recoveryVars, lbCounter, envVars>>

\* The deferred cleanup and incoming.Close.
Return(f) ==
    /\ Goto(f, "unregister", "done")
    /\ Unregister(f)
    /\ UNCHANGED <<listening, attemptVars, port, target, socketVars,
                   recoveryVars, lbCounter, envVars>>

-----------------------------------------------------------------------------
(* The environment: the upstream server, the kernel, other hosts, recovery  *)

\* The sniffer takes the oldest captured packet.
ReceiveCaptured ==
    /\ wire # <<>>
    /\ Receive(Head(wire))
    /\ wire' = Tail(wire)
    /\ UNCHANGED <<listening, pc, attemptVars, registryVars, socketVars,
                   recoveryVars, lbCounter, noise, acked, rst>>

InjectorStep ==
    /\ Sniff \/ \E f \in Flows : InjectStep(f)
    /\ UNCHANGED <<listening, pc, attemptVars, registryVars, socketVars,
                   recoveryVars, lbCounter, envVars>>

MakeNoise == noise < MaxNoise /\ noise' = noise + 1

\* The server acknowledges the handshake again: as its answer to the out-of-window
\* fake, or, if it speaks first, with data of its own, which counts as noise.  (One such
\* packet per flow: whether it is captured or lost is what the injector can tell apart.)
ServerAck(f) ==
    /\ sock[f] = "open"
    /\ \/ inj[f].sends > 0 /\ UNCHANGED noise
       \/ inj[f].sends = 0 /\ EagerServer /\ MakeNoise
    /\ f \notin acked /\ acked' = acked \cup {f}
    /\ Captured("in", "ack", f, SeqAdd(Isn[f], 1))
    /\ UNCHANGED <<injectorVars, listening, pc, attemptVars, registryVars, socketVars,
                   recoveryVars, lbCounter, rst>>

\* The server or a middlebox resets the connection.
ServerRst(f) ==
    /\ sock[f] \in {"syn", "open"}
    /\ MakeNoise
    /\ sock' = [sock EXCEPT ![f] = "reset"]
    /\ rst' = rst \cup {f}
    /\ Captured("in", "rst", f, SeqAdd(Isn[f], 1))
    /\ UNCHANGED <<injectorVars, listening, pc, attemptVars, registryVars, sent,
                   recoveryVars, lbCounter, acked>>

\* The kernel repeats an ACK; its number has moved once payload was sent.
KernelAck(f) ==
    /\ sock[f] = "open"
    /\ MakeNoise
    /\ Captured("out", "ack", f, SeqAdd(Isn[f], IF sent[f] = "none" THEN 1 ELSE 2))
    /\ UNCHANGED <<injectorVars, listening, pc, attemptVars, registryVars, socketVars,
                   recoveryVars, lbCounter, acked, rst>>

ForeignPacket ==
    /\ MakeNoise
    /\ \E k \in Foreign : Capture(k)
    /\ UNCHANGED <<injectorVars, listening, pc, attemptVars, registryVars, socketVars,
                   recoveryVars, lbCounter, acked, rst>>

\* The supervisor cancels the context, then stops the injector; handleConn ignores both.
StopListening ==
    /\ listening
    /\ listening' = FALSE
    /\ UNCHANGED <<injectorVars, pc, attemptVars, registryVars, socketVars,
                   recoveryVars, lbCounter, envVars>>

StopInjector ==
    /\ UseInjector /\ ~listening
    /\ Stop
    /\ UNCHANGED <<listening, pc, attemptVars, registryVars, socketVars,
                   recoveryVars, lbCounter, envVars>>

-----------------------------------------------------------------------------
ConnStep(f) ==
    \/ ReadFails(f) \/ ReadFirst(f) \/ ResolveFails(f) \/ ResolveOk(f)
    \/ \E p \in Ports : Reserve(f, p)
    \/ ReserveFails(f) \/ Register(f) \/ RegisterRefused(f)
    \/ Dial(f) \/ DialOk(f) \/ DialFails(f) \/ Undial(f)
    \/ StartApply(f) \/ WaitReturns(f) \/ WritePart(f) \/ WriteAll(f) \/ WriteFails(f)
    \/ Refused(f) \/ CloseAndRetry(f) \/ CloseAndDrop(f) \/ Fallback(f)
    \/ Exhausted(f) \/ CountFailure(f) \/ AskRestart(f) \/ ResetStreak(f) \/ Rearm(f)
    \/ Return(f)

Environment ==
    \/ \E f \in Flows : Accept(f) \/ RelayEnds(f) \/ ServerAck(f) \/ ServerRst(f) \/ KernelAck(f)
    \/ ForeignPacket
    \/ StopListening
    \/ StopInjector

\* Every connection is over and the listener closed: the server may stop here.
Finished ==
    /\ ~listening
    /\ \A f \in Flows : pc[f] \in {"idle", "done"}
    /\ UNCHANGED vars

Next ==
    \/ \E f \in Flows : ConnStep(f)
    \/ ReceiveCaptured
    \/ InjectorStep
    \/ Environment
    \/ Finished

ConnFairness(f) == WF_vars(ConnStep(f))

\* A goroutine that can run does: reads have a deadline, dials and waits a timer.  No
\* fairness for clients, the upstream, or the end of a relay.
Fairness == \A f \in Flows : ConnFairness(f)

SafetySpec == Init /\ [][Next]_vars
Spec == SafetySpec /\ Fairness

-----------------------------------------------------------------------------
(* Properties                                                               *)

ForwarderTypeOK ==
    /\ InjectorTypeOK
    /\ listening \in BOOLEAN
    /\ pc \in [Flows -> PCs]
    /\ base \in [Flows -> 0 .. NEndpoints - 1]
    /\ att \in [Flows -> 0 .. TotalAttempts]
    /\ tries \in [Flows -> 0 .. 2]
    /\ tried \in [Flows -> SUBSET (0 .. NEndpoints - 1)]
    /\ port \in [Flows -> Ports \cup {NoPort}]
    /\ registered \in [Flows -> BOOLEAN]
    /\ target \in [Flows -> Flows \cup {NoFlow}]
    /\ sock \in [Flows -> {"none", "syn", "open", "reset", "closed"}]
    /\ sent \in [Flows -> {"none", "decoy", "part", "all"}]
    /\ streak \in Nat /\ restartSent \in BOOLEAN /\ restarts \in Nat
    /\ lbCounter \in Nat
    /\ wire \in Seq(Packets) /\ noise \in 0 .. MaxNoise
    /\ acked \subseteq Flows /\ rst \subseteq Flows

\* A connection always waits on the portState of its own handshake: two connections
\* handed the same ephemeral port never share or replace each other's entry, and no
\* cleanup of one removes the entry of another (the RegisterPort contract).
WaitsOnOwnState == \A f \in Flows : pc[f] = "wait" => target[f] = f

\* In wrong_seq not one byte of the client's payload is written upstream, and the relay
\* never starts, before that very connection was confirmed.
StrictGate ==
    Strategy = "wrong_seq" =>
        \A f \in Flows :
            sent[f] # "none" \/ pc[f] \in {"success", "rearm", "relay"} => ps[f].confirmed

\* The state of a connection as its client sees it.
GateOf(f) ==
    IF pc[f] \in {"count", "critical", "unregister", "done"} THEN "closed"
    ELSE IF sent[f] # "none" THEN "open"
    ELSE IF ps[f].confirmed THEN "unlocked"
    ELSE "shut"

Gate == INSTANCE ConfirmationGate
            WITH Conns <- Flows, gate <- [f \in Flows |-> GateOf(f)]

\* In wrong_seq the forwarder and the injector together implement the gate: every step
\* of any goroutine is one step of one connection's gate, or none.
ImplementsGate == Gate!Spec

\* Whatever path handleConn leaves by, its registry entry and its upstream socket are
\* gone when it has returned.
EverythingReleased ==
    \A f \in Flows : pc[f] = "done" =>
        /\ \A p \in Ports : ports[p] # f
        /\ sock[f] \in {"none", "closed"}

\* docs/api-contract.md:139, "confirmed | Bypass succeeded - upstream acknowledged the fake
\* sequence": a confirmed flow had its fake on the wire before.
ConfirmedAcksFake == \A f \in Flows : ps[f].confirmed => inj[f].sends > 0

\* Connections with the local port of f that have got as far as a socket.
OnPortOf(f) == {g \in Flows : port[g] = port[f] /\ sock[g] # "none"}

\* A flow is only confirmed after the upstream has acknowledged once more the handshake of
\* this connection or of another one that had the same local port, whose packets may come
\* late: never by packets of hosts behind this one, nor of connections on other ports.
ConfirmedByUpstream == \A f \in Flows : ps[f].confirmed => OnPortOf(f) \cap acked # {}

\* In wrong_seq a flow is only failed by its own injection failure, by a reset, or by late
\* packets of another connection on the same local port (the kernel reuses ports, and the
\* registry then takes them for those of the new connection): never by hosts behind this
\* one or by connections on other ports, however acknowledgments are repeated or lost.
FailureIsOwn ==
    Strategy = "wrong_seq" =>
        \A f \in Flows :
            ps[f].failed => f \in rst \/ inj[f].st = "failed" \/ OnPortOf(f) \ {f} # {}

\* A connection is given up only after each enabled endpoint was tried.
GivesUpAfterAll ==
    \A f \in Flows : att[f] = TotalAttempts => tried[f] = 0 .. NEndpoints - 1

\* No upstream ever gets the start of the client's payload twice on one connection: a
\* direct first-write after a failed strategy never follows a fragment that was taken.
PayloadOnce ==
    [][\A f \in Flows : sent[f] = "part" /\ sent'[f] = "all" => pc[f] = "write"]_vars

\* A restart is asked for only if at least CriticalFailures connections failed, and each
\* further one only for one more failed connection.
RestartJustified ==
    restarts > 0 =>
        Cardinality({f \in Flows : att[f] = TotalAttempts}) >= CriticalFailures + restarts - 1

\* When that many connections have failed in a row, the restart has been asked for.
NoLostRestart ==
    /\ Cardinality(Flows) >= CriticalFailures
    /\ \A f \in Flows : pc[f] = "done" /\ att[f] = TotalAttempts
    => restarts > 0

\* handleConn called reportSuccess: it does so after any fallback, even if that write failed.
ReportedSuccess(f) ==
    /\ pc[f] \in {"relay", "unregister", "done"}
    /\ tried[f] # {} /\ att[f] < TotalAttempts
    /\ Strategy = "wrong_seq" => sent[f] = "all"

\* Until a connection has reported success, one restart is asked for, however many
\* connections fail at the same time.
OneRestartPerOutage == (\A f \in Flows : ~ReportedSuccess(f)) => restarts <= 1

\* Repeated confirmation failures count towards the automatic recovery.
ConfirmationFailuresRecover ==
    /\ Cardinality(Flows) >= CriticalFailures
    /\ \A f \in Flows : /\ pc[f] = "done" /\ att[f] < TotalAttempts
                        /\ sock[f] = "closed" /\ sent[f] = "none"
    => restarts > 0

\* Every accepted connection ends up relayed or closed.
ConnectionsSettle ==
    \A f \in Flows : pc[f] = "read" ~> pc[f] \in {"relay", "done"}

====
