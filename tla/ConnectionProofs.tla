---- MODULE ConnectionProofs ----
(***************************************************************************)
(* What each connection can rely on, for any number of connections, ports  *)
(* and endpoints: every endpoint is tried before it is given up, no        *)
(* upstream gets the start of the payload twice, a restart is asked for    *)
(* when it is due, only then, and once; and, where ports are not reused    *)
(* and own packets are told from others, the injector concludes about a    *)
(* connection only from that connection's own packets.  Last, each attempt *)
(* of each connection ends.                                                *)
(***************************************************************************)
EXTENDS ForwarderProofs, FiniteSetTheorems

\* Types of the attempt variables, and what else ForwarderTypeOK says.
AttemptTypes ==
    /\ base \in [Flows -> 0 .. NEndpoints - 1]
    /\ att \in [Flows -> 0 .. TotalAttempts]
    /\ tries \in [Flows -> 0 .. 2]
    /\ tried \in [Flows -> SUBSET (0 .. NEndpoints - 1)]
    /\ lbCounter \in Nat

SwitchTypes ==
    /\ listening \in BOOLEAN
    /\ streak \in Nat /\ restarts \in Nat /\ restartSent \in BOOLEAN
    /\ noise \in 0 .. MaxNoise
    /\ acked \subseteq Flows /\ rst \subseteq Flows

\* Before the first payload was read no attempt was made.
Unread == {"idle", "read"}

\* From the endpoint's resolution to the end of the relay.
Attempting == {"reserve", "register", "dial", "dialing", "undial", "apply", "wait", "write",
               "refused", "next", "drop", "fallback", "success", "rearm", "relay"}

\* The endpoint of f's attempt number k.
Nth(f, k) == (base[f] + k) % NEndpoints

\* All endpoints up to the current attempt's have been tried.
AttemptsOf(f) ==
    /\ pc[f] \in Unread => att[f] = 0
    /\ pc[f] \in Attempting => att[f] < TotalAttempts /\ Nth(f, att[f]) \in tried[f]
    /\ pc[f] \in {"count", "critical"} => att[f] = TotalAttempts
    /\ \A k \in 0 .. att[f] - 1 : Nth(f, k) \in tried[f]

Attempts == \A f \in Flows : AttemptsOf(f)

\* A fallback never follows a fragment the upstream has taken, unless it is gone.
Fragments ==
    \A f \in Flows :
        pc[f] \in {"refused", "fallback"} /\ sent[f] = "part" => sock[f] # "open"

\* wrong_seq reports success only of a payload it has written.
Delivered ==
    Strategy = "wrong_seq" =>
        \A f \in Flows : pc[f] \in {"success", "rearm", "relay"} => sent[f] = "all"

\* Connections given up, those of them that were counted, those about to ask.
Failed == {f \in Flows : att[f] = TotalAttempts}
Counted == {f \in Failed : pc[f] \notin {"attempt", "count"}}
Critical == {f \in Flows : pc[f] = "critical"}

\* f may have reset the streak.
Reset(f) == pc[f] \in {"rearm", "relay", "unregister", "done"} /\ att[f] < TotalAttempts

\* streak never runs ahead of the connections counted, and is exactly their number until
\* somebody resets it. Each restart, asked for or about to be, is paid for by a connection
\* of its own, beyond the first CriticalFailures - 1.
Counting ==
    /\ IsFiniteSet(Failed)
    /\ streak <= Cardinality(Counted)
    /\ restarts + Cardinality(Critical) > 0 =>
         Cardinality(Counted) >= CriticalFailures - 1 + restarts + Cardinality(Critical)
    /\ restartSent => restarts > 0
    /\ (\A f \in Flows : ~Reset(f)) =>
         /\ streak = Cardinality(Counted)
         /\ streak >= CriticalFailures => restarts > 0 \/ Critical # {}
    /\ (\A f \in Flows : ~ReportedSuccess(f)) => restarts = 0 \/ (restarts = 1 /\ restartSent)

RecoveryInv == AttemptTypes /\ SwitchTypes /\ Attempts /\ Fragments /\ Delivered /\ Counting

-----------------------------------------------------------------------------
(* Endpoints                                                                 *)

\* Going round n endpoints from b meets each of them.
LEMMA RoundMeetsAll ==
    ASSUME NEW n \in Nat \ {0}, NEW b \in 0 .. n - 1, NEW e \in 0 .. n - 1
    PROVE  \E k \in 0 .. n - 1 : (b + k) % n = e
<1>1. \A c \in 0 .. n - 1 : c % n = c /\ (c + n) % n = c
  OBVIOUS
<1>2. CASE b <= e
  <2>1. e - b \in 0 .. n - 1 /\ b + (e - b) = e
    BY <1>2
  <2> QED
    BY <2>1, <1>1
<1>3. CASE b > e
  <2>1. e - b + n \in 0 .. n - 1 /\ b + (e - b + n) = e + n
    BY <1>3
  <2> QED
    BY <2>1, <1>1
<1> QED
  BY <1>2, <1>3

\* A round-robin or failover index is the index of an endpoint.
LEMMA IndexInRange ==
    ASSUME NEW c \in Nat
    PROVE  c % NEndpoints \in 0 .. NEndpoints - 1
  BY EndpointAssumption

\* The retries are exactly what it takes to try every endpoint once.
LEMMA OneAttemptPerEndpoint == TotalAttempts = NEndpoints
  BY EndpointAssumption DEF TotalAttempts, Retries

\* One endpoint per step is noted or passed.
LEMMA EndpointIsNth ==
    ASSUME AttemptTypes, NEW f \in Flows
    PROVE  /\ Endpoint(f) = Nth(f, att[f])
           /\ Endpoint(f) \in 0 .. NEndpoints - 1
<1>1. base[f] + att[f] \in Nat
  BY EndpointAssumption, OneAttemptPerEndpoint DEF AttemptTypes
<1> QED
  BY <1>1, IndexInRange DEF Endpoint, Nth

\* Steps that begin the next attempt.
LEMMA NextAttemptStep ==
    ASSUME ConnInv, AttemptTypes, Attempts, NEW f \in Flows,
           \/ ResolveFails(f) \/ ReserveFails(f) \/ Undial(f) \/ CloseAndRetry(f)
           \/ RegisterRefused(f) /\ NextAttempt(f)
    PROVE  AttemptTypes' /\ Attempts'
<1>1. /\ pc' = [pc EXCEPT ![f] = "attempt"]
      /\ att' = [att EXCEPT ![f] = @ + 1] /\ tries' = [tries EXCEPT ![f] = 0]
      /\ UNCHANGED <<base, lbCounter>>
  <2> USE DEF NextAttempt, Goto
  <2>1. CASE ResolveFails(f)
    BY <2>1 DEF ResolveFails
  <2>2. CASE ReserveFails(f) \/ Undial(f) \/ CloseAndRetry(f)
    BY <2>2 DEF ReserveFails, Undial, CloseAndRetry
  <2>3. CASE RegisterRefused(f) /\ NextAttempt(f)
    BY <2>3, EndpointAssumption DEF RegisterRefused, AttemptTypes
  <2> QED
    BY <2>1, <2>2, <2>3
<1>2. att[f] < TotalAttempts
  BY DEF Attempts, AttemptsOf, Attempting, ResolveFails, Trying, ReserveFails, Undial,
         CloseAndRetry, RegisterRefused, Goto
<1>3. tried' = tried \/ Note(f)
  BY DEF ResolveFails, ReserveFails, Undial, CloseAndRetry, RegisterRefused
<1>4. Nth(f, att[f]) \in tried'[f]
  <2>1. CASE ResolveFails(f)
    BY <2>1, EndpointIsNth DEF ResolveFails, Note, AttemptTypes
  <2>2. CASE ~ResolveFails(f)
    BY <2>2 DEF Attempts, AttemptsOf, Attempting, ReserveFails, Undial, CloseAndRetry,
                RegisterRefused, Goto
  <2> QED
    BY <2>1, <2>2
<1>5. /\ tried' \in [Flows -> SUBSET (0 .. NEndpoints - 1)]
      /\ \A g \in Flows : tried[g] \subseteq tried'[g]
      /\ \A g \in Flows \ {f} : tried'[g] = tried[g]
  BY <1>3, EndpointIsNth DEF Note, AttemptTypes
<1>6. AttemptTypes'
  <2>1. att[f] + 1 \in 0 .. TotalAttempts
    BY <1>2, OneAttemptPerEndpoint, EndpointAssumption DEF AttemptTypes
  <2>2. att' \in [Flows -> 0 .. TotalAttempts] /\ tries' \in [Flows -> 0 .. 2]
    BY <1>1, <2>1 DEF AttemptTypes
  <2> QED
    BY <1>1, <1>5, <2>2 DEF AttemptTypes
<1>7. ASSUME NEW g \in Flows, NEW k PROVE Nth(g, k)' = Nth(g, k)
  BY <1>1 DEF Nth
<1>8. AttemptsOf(f)'
  <2>1. pc'[f] = "attempt" /\ att'[f] = att[f] + 1
    BY <1>1 DEF ConnInv, ConnTypes, AttemptTypes
  <2>2. ASSUME NEW k \in 0 .. att[f] PROVE Nth(f, k)' \in tried'[f]
    <3>1. k = att[f] \/ k \in 0 .. att[f] - 1
      BY <2>2, OneAttemptPerEndpoint, EndpointAssumption DEF AttemptTypes
    <3> QED
      BY <3>1, <1>4, <1>5, <1>7 DEF Attempts, AttemptsOf
  <2>3. att'[f] - 1 = att[f]
    BY <2>1, OneAttemptPerEndpoint, EndpointAssumption DEF AttemptTypes
  <2>4. \A k \in 0 .. att'[f] - 1 : Nth(f, k)' \in tried'[f]
    BY <2>2, <2>3
  <2> QED
    BY <2>1, <2>4 DEF AttemptsOf, Unread, Attempting
<1>9. ASSUME NEW g \in Flows \ {f} PROVE AttemptsOf(g)'
  <2>1. pc'[g] = pc[g] /\ att'[g] = att[g] /\ tried'[g] = tried[g]
    BY <1>1, <1>5
  <2> QED
    BY <2>1, <1>7 DEF AttemptsOf, Attempts
<1> QED
  BY <1>6, <1>8, <1>9 DEF Attempts

\* The index handleConn starts from.
LEMMA ReadFirstStep ==
    ASSUME ConnInv, AttemptTypes, Attempts, NEW f \in Flows, ReadFirst(f)
    PROVE  AttemptTypes' /\ Attempts'
<1> USE DEF ReadFirst, Goto
<1>1. PICK b \in BaseIndices : base' = [base EXCEPT ![f] = b]
  OBVIOUS
<1>2. b \in 0 .. NEndpoints - 1
  BY IndexInRange, EndpointAssumption DEF BaseIndices, AttemptTypes
<1>3. AttemptTypes'
  BY <1>1, <1>2 DEF AttemptTypes
<1>4. AttemptsOf(f)'
  <2>1. att'[f] = 0 /\ pc'[f] = "attempt"
    BY DEF Attempts, AttemptsOf, Unread, ConnInv, ConnTypes
  <2> QED
    BY <2>1 DEF AttemptsOf, Unread, Attempting
<1>5. ASSUME NEW g \in Flows \ {f} PROVE AttemptsOf(g)'
  BY <1>1 DEF Attempts, AttemptsOf, Nth, AttemptTypes, ConnInv, ConnTypes
<1> QED
  BY <1>3, <1>4, <1>5 DEF Attempts

\* The attempt's endpoint is resolved, and noted.
LEMMA ResolveOkStep ==
    ASSUME ConnInv, AttemptTypes, Attempts, NEW f \in Flows, ResolveOk(f)
    PROVE  AttemptTypes' /\ Attempts'
<1> USE DEF ResolveOk, Goto
<1>1. UNCHANGED <<base, att, tries, lbCounter>>
  OBVIOUS
<1>2. tried' = [tried EXCEPT ![f] = @ \cup {Nth(f, att[f])}]
  BY EndpointIsNth DEF Note
<1>3. AttemptTypes'
  BY <1>1, <1>2, EndpointIsNth DEF AttemptTypes
<1>4. ASSUME NEW g \in Flows, NEW k PROVE Nth(g, k)' = Nth(g, k)
  BY <1>1 DEF Nth
<1>5. AttemptsOf(f)'
  BY <1>1, <1>2, <1>4
  DEF Attempts, AttemptsOf, Trying, AttemptTypes, Attempting, Unread, ConnInv, ConnTypes
<1>6. ASSUME NEW g \in Flows \ {f} PROVE AttemptsOf(g)'
  BY <1>1, <1>2, <1>4 DEF Attempts, AttemptsOf, AttemptTypes, ConnInv, ConnTypes
<1> QED
  BY <1>3, <1>5, <1>6 DEF Attempts

\* Steps within an attempt, or after the last one.
WithinAttempt(f) ==
    \/ Accept(f) \/ ReadFails(f) \/ \E p \in Ports : Reserve(f, p)
    \/ Register(f) \/ (RegisterRefused(f) /\ UNCHANGED att)
    \/ Dial(f) \/ DialOk(f) \/ DialFails(f) \/ StartApply(f) \/ WaitReturns(f)
    \/ WritePart(f) \/ WriteAll(f) \/ WriteFails(f) \/ Refused(f) \/ CloseAndDrop(f)
    \/ Fallback(f) \/ Exhausted(f) \/ CountFailure(f) \/ AskRestart(f)
    \/ ResetStreak(f) \/ Rearm(f) \/ RelayEnds(f) \/ Return(f)

\* They change neither the attempt nor what was tried.
LEMMA SameAttemptStep ==
    ASSUME ConnInv, AttemptTypes, Attempts, NEW f \in Flows, WithinAttempt(f)
    PROVE  AttemptTypes' /\ Attempts'
<1> USE DEF WithinAttempt
<1>1. UNCHANGED <<base, att, tried, lbCounter>>
  <2>1. CASE RegisterRefused(f) /\ UNCHANGED att
    BY <2>1 DEF RegisterRefused
  <2>2. CASE Accept(f) \/ ReadFails(f) \/ (\E p \in Ports : Reserve(f, p)) \/ Register(f)
    BY <2>2 DEF Accept, ReadFails, Reserve, Register, attemptVars
  <2>3. CASE Dial(f) \/ DialOk(f) \/ DialFails(f) \/ StartApply(f) \/ WaitReturns(f)
    BY <2>3 DEF Dial, DialOk, DialFails, StartApply, WaitReturns, attemptVars
  <2>4. CASE WritePart(f) \/ WriteAll(f) \/ WriteFails(f) \/ Refused(f) \/ CloseAndDrop(f)
    BY <2>4 DEF WritePart, WriteAll, WriteFails, Refused, CloseAndDrop, attemptVars
  <2>5. CASE Fallback(f) \/ Exhausted(f) \/ CountFailure(f) \/ AskRestart(f)
    BY <2>5 DEF Fallback, Exhausted, CountFailure, AskRestart, attemptVars
  <2>6. CASE ResetStreak(f) \/ Rearm(f) \/ RelayEnds(f) \/ Return(f)
    BY <2>6 DEF ResetStreak, Rearm, RelayEnds, Return, attemptVars
  <2> QED
    BY <2>1, <2>2, <2>3, <2>4, <2>5, <2>6
<1>2. tries' \in [Flows -> 0 .. 2]
  <2>1. CASE RegisterRefused(f) /\ UNCHANGED att
    <3>1. \/ tries' = [tries EXCEPT ![f] = @ + 1] /\ tries[f] + 1 < 3
          \/ att' = [att EXCEPT ![f] = @ + 1]
      BY <2>1 DEF RegisterRefused, NextAttempt
    <3>2. att' # [att EXCEPT ![f] = @ + 1]
      BY <2>1, OneAttemptPerEndpoint, EndpointAssumption DEF AttemptTypes
    <3>3. tries[f] + 1 < 3 => tries[f] + 1 \in 0 .. 2
      BY DEF AttemptTypes
    <3> QED
      BY <3>1, <3>2, <3>3 DEF AttemptTypes
  <2> USE DEF AttemptTypes, attemptVars
  <2>2. CASE Accept(f) \/ ReadFails(f) \/ (\E p \in Ports : Reserve(f, p)) \/ Register(f)
    BY <2>2 DEF Accept, ReadFails, Reserve, Register
  <2>3. CASE Dial(f) \/ DialOk(f) \/ DialFails(f) \/ StartApply(f) \/ WaitReturns(f)
    BY <2>3 DEF Dial, DialOk, DialFails, StartApply, WaitReturns
  <2>4. CASE WritePart(f) \/ WriteAll(f) \/ WriteFails(f) \/ Refused(f) \/ CloseAndDrop(f)
    BY <2>4 DEF WritePart, WriteAll, WriteFails, Refused, CloseAndDrop
  <2>5. CASE Fallback(f) \/ Exhausted(f) \/ CountFailure(f) \/ AskRestart(f)
    BY <2>5 DEF Fallback, Exhausted, CountFailure, AskRestart
  <2>6. CASE ResetStreak(f) \/ Rearm(f) \/ RelayEnds(f) \/ Return(f)
    BY <2>6 DEF ResetStreak, Rearm, RelayEnds, Return
  <2> QED
    BY <2>1, <2>2, <2>3, <2>4, <2>5, <2>6
<1>3. \A g \in Flows \ {f} : pc'[g] = pc[g]
  BY DEF Accept, ReadFails, Reserve, Register, RegisterRefused, Dial, DialOk, DialFails,
       StartApply, WaitReturns, WritePart, WriteAll, WriteFails, Refused, CloseAndDrop, Fallback,
       Exhausted, CountFailure, AskRestart, ResetStreak, Rearm, RelayEnds, Return, Goto, ConnInv,
       ConnTypes
<1>4. \/ pc[f] \in Unread /\ pc'[f] \in {"read", "done"}
      \/ pc[f] \in Attempting /\ pc'[f] \in Attempting \cup {"unregister"}
      \/ pc[f] \in {"count", "critical", "unregister"}
         /\ pc'[f] \in {"critical", "unregister", "done"} /\ pc[f] # "unregister"
      \/ pc[f] = "unregister" /\ pc'[f] = "done"
      \/ pc'[f] = "count" /\ att[f] = TotalAttempts
  <2> USE DEF Goto, Unread, Attempting, ConnInv, ConnTypes
  <2>1. CASE Accept(f) \/ ReadFails(f)
    BY <2>1 DEF Accept, ReadFails
  <2>2. CASE (\E p \in Ports : Reserve(f, p)) \/ Register(f) \/ Dial(f) \/ DialOk(f) \/ DialFails(f)
    BY <2>2 DEF Reserve, Register, Dial, DialOk, DialFails
  <2>3. CASE RegisterRefused(f) /\ UNCHANGED att
    <3>1. att' # [att EXCEPT ![f] = @ + 1]
      BY <2>3, OneAttemptPerEndpoint, EndpointAssumption DEF AttemptTypes
    <3> QED
      BY <2>3, <3>1 DEF RegisterRefused, NextAttempt
  <2>4. CASE StartApply(f) \/ WaitReturns(f) \/ WritePart(f) \/ WriteAll(f) \/ WriteFails(f)
    BY <2>4 DEF StartApply, WaitReturns, WritePart, WriteAll, WriteFails, AfterWait
  <2>5. CASE Refused(f) \/ CloseAndDrop(f) \/ Fallback(f) \/ Exhausted(f)
    BY <2>5 DEF Refused, CloseAndDrop, Fallback, Exhausted
  <2>6. CASE CountFailure(f) \/ AskRestart(f) \/ ResetStreak(f) \/ Rearm(f) \/ RelayEnds(f) \/ Return(f)
    BY <2>6 DEF CountFailure, AskRestart, ResetStreak, Rearm, RelayEnds, Return
  <2> QED
    BY <2>1, <2>2, <2>3, <2>4, <2>5, <2>6
<1>5. ASSUME NEW g \in Flows, NEW k PROVE Nth(g, k)' = Nth(g, k)
  BY <1>1 DEF Nth
<1>6. ASSUME NEW g \in Flows PROVE AttemptsOf(g)'
  <2>1. AttemptsOf(g)
    BY DEF Attempts
  <2>2. CASE g = f
    BY <1>1, <1>4, <1>5, <2>1, <2>2 DEF AttemptsOf, Unread, Attempting
  <2>3. CASE g # f
    BY <1>1, <1>3, <1>5, <2>1, <2>3 DEF AttemptsOf
  <2> QED
    BY <2>2, <2>3
<1> QED
  BY <1>1, <1>2, <1>6 DEF AttemptTypes, Attempts

\* Steps of the injector and the environment make no attempt.
LEMMA OutsideAttemptStep ==
    ASSUME AttemptTypes, Attempts,
           \/ ReceiveCaptured \/ InjectorStep \/ ForeignPacket \/ StopListening \/ StopInjector
           \/ UNCHANGED vars
           \/ \E f \in Flows : ServerAck(f) \/ ServerRst(f) \/ KernelAck(f)
    PROVE  AttemptTypes' /\ Attempts'
<1>1. UNCHANGED <<pc, base, att, tries, tried, lbCounter>>
  BY DEF ReceiveCaptured, InjectorStep, ForeignPacket, StopListening, StopInjector, ServerAck,
         ServerRst, KernelAck, vars, attemptVars
<1> QED
  BY <1>1 DEF AttemptTypes, Attempts, AttemptsOf, Nth

\* Every step respects the order of the attempts.
LEMMA AttemptStep ==
    ASSUME ConnInv, AttemptTypes, Attempts, [Next]_vars
    PROVE  AttemptTypes' /\ Attempts'
<1>1. ASSUME NEW f \in Flows, RegisterRefused(f)
      PROVE  AttemptTypes' /\ Attempts'
  <2>1. NextAttempt(f) \/ UNCHANGED att
    BY <1>1 DEF RegisterRefused
  <2> QED
    BY <1>1, <2>1, NextAttemptStep, SameAttemptStep DEF WithinAttempt
<1>2. ASSUME NEW f \in Flows, ConnStep(f) PROVE AttemptTypes' /\ Attempts'
  <2>1. CASE ResolveFails(f) \/ ReserveFails(f) \/ Undial(f) \/ CloseAndRetry(f)
    BY <2>1, NextAttemptStep
  <2>2. CASE ReadFirst(f) \/ ResolveOk(f)
    BY <2>2, ReadFirstStep, ResolveOkStep
  <2>3. CASE WithinAttempt(f)
    BY <2>3, SameAttemptStep
  <2> QED
    BY <1>1, <1>2, <2>1, <2>2, <2>3 DEF ConnStep, WithinAttempt
<1>3. CASE Environment
  BY <1>3, SameAttemptStep, OutsideAttemptStep DEF Environment, WithinAttempt
<1> QED
  BY <1>2, <1>3, OutsideAttemptStep DEF Next, Finished

-----------------------------------------------------------------------------
(* What a goroutine leaves alone                                             *)

\* The steps that take bytes from the client or end the upstream socket.
SocketStep(f) ==
    \/ Dial(f) \/ DialOk(f) \/ DialFails(f) \/ WritePart(f) \/ WriteAll(f) \/ CloseAndRetry(f)
    \/ CloseAndDrop(f) \/ Fallback(f) \/ RelayEnds(f)

\* The steps of reportFailure and reportSuccess.
ReportStep(f) == CountFailure(f) \/ AskRestart(f) \/ ResetStreak(f) \/ Rearm(f)

\* A goroutine moves only itself, and writes or reports in the steps named for it.
LEMMA StepIsLocal ==
    ASSUME NEW f \in Flows, ConnStep(f) \/ Accept(f) \/ RelayEnds(f), ConnInv, AttemptTypes
    PROVE  /\ \A g \in Flows \ {f} :
                /\ pc'[g] = pc[g] /\ att'[g] = att[g] /\ tried'[g] = tried[g]
                /\ sock'[g] = sock[g] /\ sent'[g] = sent[g]
           /\ ~SocketStep(f) => UNCHANGED <<sock, sent>>
           /\ ~ReportStep(f) => UNCHANGED <<streak, restartSent, restarts>>
           /\ UNCHANGED <<listening, noise, acked, rst>>
<1> USE DEF ConnInv, ConnTypes, AttemptTypes, SocketStep, ReportStep, Goto, NextAttempt, Note,
            attemptVars, socketVars, recoveryVars, envVars
<1>1. CASE Accept(f) \/ ReadFails(f) \/ ReadFirst(f) \/ ResolveFails(f) \/ ResolveOk(f)
  BY <1>1 DEF Accept, ReadFails, ReadFirst, ResolveFails, ResolveOk
<1>2. CASE \/ \E p \in Ports : Reserve(f, p)
           \/ ReserveFails(f) \/ Register(f) \/ RegisterRefused(f) \/ Undial(f)
  BY <1>2 DEF Reserve, ReserveFails, Register, RegisterRefused, Undial
<1>3. CASE Dial(f) \/ DialOk(f) \/ DialFails(f)
  BY <1>3 DEF Dial, DialOk, DialFails
<1>4. CASE StartApply(f) \/ WaitReturns(f) \/ WriteFails(f) \/ Refused(f) \/ Exhausted(f) \/ Return(f)
  BY <1>4 DEF StartApply, WaitReturns, WriteFails, Refused, Exhausted, Return
<1>5. CASE \/ WritePart(f) \/ WriteAll(f) \/ CloseAndRetry(f) \/ CloseAndDrop(f)
           \/ Fallback(f) \/ RelayEnds(f)
  BY <1>5 DEF WritePart, WriteAll, CloseAndRetry, CloseAndDrop, Fallback, RelayEnds
<1>6. CASE CountFailure(f) \/ AskRestart(f) \/ ResetStreak(f) \/ Rearm(f)
  BY <1>6 DEF CountFailure, AskRestart, ResetStreak, Rearm
<1> QED
  BY <1>1, <1>2, <1>3, <1>4, <1>5, <1>6 DEF ConnStep

\* The injector, the network and the supervisor leave the connections' own variables; the
\* network may break a socket.
LEMMA OutsideIsLocal ==
    ASSUME ConnInv,
           \/ ReceiveCaptured \/ InjectorStep \/ ForeignPacket \/ StopListening \/ StopInjector
           \/ UNCHANGED vars
           \/ \E f \in Flows : ServerAck(f) \/ ServerRst(f) \/ KernelAck(f)
    PROVE  /\ UNCHANGED <<pc, att, tried, sent, streak, restartSent, restarts>>
           /\ \A g \in Flows : sock'[g] = "open" => sock[g] = "open"
<1> USE DEF ConnInv, ConnTypes, attemptVars, socketVars, recoveryVars
<1>1. CASE \E f \in Flows : ServerRst(f)
  BY <1>1 DEF ServerRst
<1>2. CASE ~ \E f \in Flows : ServerRst(f)
  BY <1>2 DEF ReceiveCaptured, InjectorStep, ForeignPacket, StopListening, StopInjector,
              ServerAck, KernelAck, vars
<1> QED
  BY <1>1, <1>2

\* The types of the switches and of the network's bookkeeping.
LEMMA SwitchStep ==
    ASSUME ConnInv, AttemptTypes, SwitchTypes, [Next]_vars
    PROVE  SwitchTypes'
<1> USE DEF SwitchTypes
<1>1. ASSUME NEW f \in Flows, ConnStep(f) \/ Accept(f) \/ RelayEnds(f)
      PROVE  SwitchTypes'
  <2>1. CASE ReportStep(f)
    <3>1. UNCHANGED <<listening, noise, acked, rst>>
      BY <1>1, StepIsLocal
    <3>2. CASE CountFailure(f)
      BY <3>1, <3>2 DEF CountFailure
    <3>3. CASE AskRestart(f)
      <4>1. restarts' \in Nat
        BY <3>3 DEF AskRestart
      <4> QED
        BY <3>1, <3>3, <4>1 DEF AskRestart
    <3>4. CASE ResetStreak(f)
      BY <3>1, <3>4 DEF ResetStreak
    <3>5. CASE Rearm(f)
      BY <3>1, <3>5 DEF Rearm
    <3> QED
      BY <2>1, <3>2, <3>3, <3>4, <3>5 DEF ReportStep
  <2>2. CASE ~ReportStep(f)
    BY <1>1, <2>2, StepIsLocal
  <2> QED
    BY <2>1, <2>2
<1>2. ASSUME NEW f \in Flows, ServerAck(f) \/ ServerRst(f) \/ KernelAck(f)
      PROVE  SwitchTypes'
  BY <1>2, NetworkAssumption DEF ServerAck, ServerRst, KernelAck, MakeNoise, recoveryVars
<1>3. CASE ForeignPacket
  BY <1>3, NetworkAssumption DEF ForeignPacket, MakeNoise, recoveryVars
<1>4. CASE ReceiveCaptured \/ InjectorStep \/ StopListening \/ StopInjector \/ UNCHANGED vars
  BY <1>4 DEF ReceiveCaptured, InjectorStep, StopListening, StopInjector, vars, recoveryVars,
              envVars
<1> QED
  BY <1>1, <1>2, <1>3, <1>4 DEF Next, Environment, Finished

-----------------------------------------------------------------------------
(* What was written                                                          *)

\* A failed strategy leaves a part of the payload only on a broken socket, and wrong_seq
\* comes to success only with all of it written.
LEMMA FragmentStep ==
    ASSUME ConnInv, AttemptTypes, Fragments, Delivered, [Next]_vars
    PROVE  Fragments' /\ Delivered'
<1>1. ASSUME NEW f \in Flows, ConnStep(f) \/ Accept(f) \/ RelayEnds(f)
      PROVE  Fragments' /\ Delivered'
  <2>1. \A g \in Flows \ {f} : pc'[g] = pc[g] /\ sock'[g] = sock[g] /\ sent'[g] = sent[g]
    BY <1>1, StepIsLocal
  <2> SUFFICES /\ pc'[f] \in {"refused", "fallback"} /\ sent'[f] = "part" => sock'[f] # "open"
               /\ Strategy = "wrong_seq" /\ pc'[f] \in {"success", "rearm", "relay"} =>
                    sent'[f] = "all"
    BY <2>1 DEF Fragments, Delivered
  <2>2. CASE SocketStep(f)
    BY <2>2, <1>1
    DEF SocketStep, Dial, DialOk, DialFails, WritePart, WriteAll, CloseAndRetry, CloseAndDrop,
        Fallback, RelayEnds, Goto, ConnInv, ConnTypes, Gated
  <2>3. CASE ~SocketStep(f)
    <3> USE <2>3, StepIsLocal, <1>1 DEF Goto, ConnInv, ConnTypes, Fragments, Delivered
    <3>1. CASE WaitReturns(f)
      BY <3>1 DEF WaitReturns, AfterWait, Gated
    <3>2. CASE WriteFails(f)
      BY <3>2 DEF WriteFails
    <3>3. CASE Refused(f)
      BY <3>3 DEF Refused
    <3>4. CASE ResetStreak(f) \/ Rearm(f)
      BY <3>4 DEF ResetStreak, Rearm
    <3>5. CASE ~(WaitReturns(f) \/ WriteFails(f) \/ Refused(f) \/ ResetStreak(f) \/ Rearm(f))
      <4>1. pc'[f] \notin {"refused", "fallback", "success", "rearm", "relay"}
        BY <3>5 DEF SocketStep, ConnStep, Accept, ReadFails, ReadFirst, ResolveFails, ResolveOk,
           Reserve, ReserveFails, Register, RegisterRefused, Undial, StartApply, Exhausted,
           CountFailure, AskRestart, Return
      <4> QED
        BY <4>1
    <3> QED
      BY <3>1, <3>2, <3>3, <3>4, <3>5
  <2> QED
    BY <2>2, <2>3
<1>2. ASSUME UNCHANGED <<pc, sent>>, \A g \in Flows : sock'[g] = "open" => sock[g] = "open"
      PROVE  Fragments' /\ Delivered'
  BY <1>2 DEF Fragments, Delivered
<1> QED
  BY <1>1, <1>2, OutsideIsLocal DEF Next, Environment, Finished

-----------------------------------------------------------------------------
(* The recovery counters                                                     *)

\* Sets of connections between which reportFailure and reportSuccess count.
LEMMA CountedSets ==
    ASSUME IsFiniteSet(Failed), Attempts
    PROVE  /\ IsFiniteSet(Counted) /\ Cardinality(Counted) \in Nat
           /\ Critical \subseteq Failed /\ IsFiniteSet(Critical) /\ Cardinality(Critical) \in Nat
           /\ Cardinality(Counted) <= Cardinality(Failed) /\ Cardinality(Failed) \in Nat
<1>1. Counted \subseteq Failed
  BY DEF Counted
<1>2. Critical \subseteq Failed
  BY DEF Critical, Failed, Attempts, AttemptsOf
<1> QED
  BY <1>1, <1>2, FS_Subset, FS_CardinalityType

\* What a step of f may do to f's place in those sets and to what it has reported.
Standing(f) ==
    /\ att[f] = TotalAttempts => att'[f] = TotalAttempts
    /\ Reset(f) => Reset(f)'
    /\ ReportedSuccess(f) => ReportedSuccess(f)'
    /\ ~(CountFailure(f) \/ AskRestart(f)) =>
         /\ f \in Counted' <=> f \in Counted
         /\ f \in Critical' <=> f \in Critical

\* No step takes a failure or a report back; only reportFailure counts.
LEMMA StepKeepsStanding ==
    ASSUME ConnInv, AttemptTypes, Attempts, Delivered, Attempts', Delivered',
           NEW f \in Flows, ConnStep(f) \/ Accept(f) \/ RelayEnds(f)
    PROVE  Standing(f)
<1> USE DEF ConnInv, ConnTypes, AttemptTypes, Goto
<1>1. AttemptsOf(f) /\ AttemptsOf(f)' /\ TotalAttempts > 0
  BY OneAttemptPerEndpoint, EndpointAssumption DEF Attempts
<1>2. CASE CountFailure(f) \/ AskRestart(f)
  <2>1. UNCHANGED <<att, tried, sent>> /\ att[f] = TotalAttempts
    BY <1>1, <1>2 DEF CountFailure, AskRestart, attemptVars, socketVars, AttemptsOf
  <2> QED
    BY <1>2, <2>1 DEF Standing, Reset, ReportedSuccess
<1>3. CASE ResetStreak(f) \/ Rearm(f) \/ RelayEnds(f) \/ Return(f)
  <2>1. UNCHANGED <<att, tried, sent>>
    BY <1>3 DEF ResetStreak, Rearm, RelayEnds, Return, attemptVars, socketVars
  <2>2. \/ pc[f] = "success" /\ pc'[f] = "rearm"
        \/ pc[f] = "rearm" /\ pc'[f] = "relay"
        \/ pc[f] = "relay" /\ pc'[f] = "unregister"
        \/ pc[f] = "unregister" /\ pc'[f] = "done"
    BY <1>3 DEF ResetStreak, Rearm, RelayEnds, Return
  <2>3. pc[f] # "unregister" => att[f] # TotalAttempts
    BY <1>1, <2>2 DEF AttemptsOf, Attempting
  <2> QED
    BY <1>1, <2>1, <2>2, <2>3 DEF Standing, Reset, ReportedSuccess, Counted, Failed, Critical
<1>4. CASE Exhausted(f)
  BY <1>4 DEF Exhausted, attemptVars, Standing, Reset, ReportedSuccess, Counted, Failed, Critical
<1>5. CASE ~(CountFailure(f) \/ AskRestart(f) \/ ResetStreak(f) \/ Rearm(f) \/ RelayEnds(f)
             \/ Return(f) \/ Exhausted(f))
  <2>1. /\ pc[f] \in Unread \cup Attempting \cup {"attempt"}
        /\ pc[f] = "attempt" => att[f] < TotalAttempts
        /\ pc'[f] \notin {"count", "critical"}
        /\ att'[f] = att[f] \/ pc'[f] = "attempt"
        /\ pc[f] \notin {"rearm", "relay"}
    <3>1. CASE Accept(f) \/ ReadFails(f) \/ ReadFirst(f) \/ ResolveFails(f) \/ ResolveOk(f)
      BY <3>1 DEF Accept, ReadFails, ReadFirst, ResolveFails, ResolveOk, Trying, Unread, attemptVars
    <3>2. CASE \/ \E p \in Ports : Reserve(f, p)
               \/ ReserveFails(f) \/ Register(f) \/ RegisterRefused(f) \/ Undial(f)
      BY <3>2 DEF Reserve, ReserveFails, Register, RegisterRefused, Undial, Attempting, attemptVars
    <3>3. CASE Dial(f) \/ DialOk(f) \/ DialFails(f) \/ StartApply(f) \/ WaitReturns(f)
               \/ WriteFails(f) \/ Refused(f)
      BY <3>3 DEF Dial, DialOk, DialFails, StartApply, WaitReturns, AfterWait, WriteFails, Refused,
                  Attempting, attemptVars
    <3>4. CASE WritePart(f) \/ WriteAll(f) \/ CloseAndRetry(f) \/ CloseAndDrop(f) \/ Fallback(f)
      BY <3>4 DEF WritePart, WriteAll, CloseAndRetry, CloseAndDrop, Fallback, Attempting, attemptVars
    <3> QED
      BY <1>5, <3>1, <3>2, <3>3, <3>4 DEF ConnStep
  <2>2. att[f] < TotalAttempts
    BY <1>1, <2>1 DEF AttemptsOf, Unread
  <2>3. f \notin Counted /\ f \notin Critical /\ ~Reset(f) /\ ~ReportedSuccess(f)
    BY <2>1, <2>2, OneAttemptPerEndpoint, EndpointAssumption
    DEF Counted, Failed, Critical, Reset, ReportedSuccess, Unread, Attempting
  <2>4. f \notin Counted' /\ f \notin Critical'
    BY <2>1, <2>2, OneAttemptPerEndpoint, EndpointAssumption DEF Counted, Failed, Critical
  <2> QED
    BY <2>2, <2>3, <2>4, OneAttemptPerEndpoint, EndpointAssumption DEF Standing
<1> QED
  BY <1>2, <1>3, <1>4, <1>5

\* One goroutine's step leaves the sets alone, but for f itself.
LEMMA SetsMoveByOne ==
    ASSUME ConnInv, AttemptTypes, NEW f \in Flows, Standing(f),
           ConnStep(f) \/ Accept(f) \/ RelayEnds(f)
    PROVE  /\ Counted' \ {f} = Counted \ {f} /\ Critical' \ {f} = Critical \ {f}
           /\ Failed' \subseteq Failed \cup {f}
           /\ \A g \in Flows : Reset(g) => Reset(g)'
           /\ \A g \in Flows : ReportedSuccess(g) => ReportedSuccess(g)'
<1>1. \A g \in Flows \ {f} :
        pc'[g] = pc[g] /\ att'[g] = att[g] /\ tried'[g] = tried[g] /\ sent'[g] = sent[g]
  BY StepIsLocal
<1> QED
  BY <1>1 DEF Standing, Counted, Failed, Critical, Reset, ReportedSuccess

\* A connection is counted once, and only then asks for a restart.
LEMMA CountFailureStep ==
    ASSUME ConnInv, AttemptTypes, SwitchTypes, Attempts, Delivered, Counting,
           Attempts', Delivered', NEW f \in Flows, CountFailure(f)
    PROVE  Counting'
<1> DEFINE C == Counted
           Q == Critical
<1>1. /\ streak \in Nat /\ restarts \in Nat /\ streak' = streak + 1
      /\ UNCHANGED <<restarts, restartSent, att>>
      /\ CriticalFailures \in Nat \ {0}
  BY EndpointAssumption DEF SwitchTypes, CountFailure, attemptVars
<1>2. Standing(f)
  BY StepKeepsStanding DEF ConnStep
<1>3. /\ Failed' \subseteq Failed \cup {f}
      /\ \A g \in Flows : Reset(g) => Reset(g)'
      /\ \A g \in Flows : ReportedSuccess(g) => ReportedSuccess(g)'
      /\ Counted' \ {f} = C \ {f} /\ Critical' \ {f} = Q \ {f}
  BY <1>2, SetsMoveByOne DEF ConnStep
<1>4. /\ pc[f] = "count" /\ att[f] = TotalAttempts
      /\ pc'[f] = IF streak + 1 < CriticalFailures THEN "unregister" ELSE "critical"
  BY DEF CountFailure, Goto, Attempts, AttemptsOf, ConnInv, ConnTypes
<1>5. f \notin C /\ f \notin Q /\ Counted' = C \cup {f}
  BY <1>1, <1>3, <1>4 DEF Counted, Failed, Critical
<1>6. Critical' = IF streak + 1 < CriticalFailures THEN Q ELSE Q \cup {f}
  BY <1>3, <1>4, <1>5 DEF Critical
<1>7. IsFiniteSet(C) /\ IsFiniteSet(Q) /\ Cardinality(C) \in Nat /\ Cardinality(Q) \in Nat
  BY CountedSets DEF Counting
<1>8. Cardinality(Counted') = Cardinality(C) + 1
  BY <1>5, <1>7, FS_AddElement
<1>9. Cardinality(Critical') = IF streak + 1 < CriticalFailures
                               THEN Cardinality(Q) ELSE Cardinality(Q) + 1
  BY <1>5, <1>6, <1>7, FS_AddElement
<1>10. IsFiniteSet(Failed')
  BY <1>3, FS_AddElement, FS_Subset DEF Counting
<1>11. streak' <= Cardinality(Counted')
  BY <1>1, <1>7, <1>8 DEF Counting
<1>12. restarts' + Cardinality(Critical') > 0 =>
         Cardinality(Counted') >= CriticalFailures - 1 + restarts' + Cardinality(Critical')
  BY <1>1, <1>7, <1>8, <1>9 DEF Counting
<1>13. (\A g \in Flows : ~Reset(g)') =>
         /\ streak' = Cardinality(Counted')
         /\ streak' >= CriticalFailures => restarts' > 0 \/ Critical' # {}
  BY <1>1, <1>3, <1>6, <1>7, <1>8 DEF Counting
<1>14. /\ restartSent' => restarts' > 0
       /\ (\A g \in Flows : ~ReportedSuccess(g)') =>
            restarts' = 0 \/ (restarts' = 1 /\ restartSent')
  BY <1>1, <1>3 DEF Counting
<1> QED
  BY <1>10, <1>11, <1>12, <1>13, <1>14 DEF Counting

\* Only the first of those that ask since the last report of success is heard.
LEMMA AskRestartStep ==
    ASSUME ConnInv, AttemptTypes, SwitchTypes, Attempts, Delivered, Counting,
           Attempts', Delivered', NEW f \in Flows, AskRestart(f)
    PROVE  Counting'
<1> DEFINE C == Counted
           Q == Critical
<1>1. /\ streak \in Nat /\ restarts \in Nat /\ restartSent \in BOOLEAN
      /\ UNCHANGED <<streak, att>> /\ restartSent' = TRUE
      /\ restarts' = IF restartSent THEN restarts ELSE restarts + 1
      /\ CriticalFailures \in Nat \ {0}
  BY EndpointAssumption DEF SwitchTypes, AskRestart, attemptVars
<1>2. Standing(f)
  BY StepKeepsStanding DEF ConnStep
<1>3. /\ Failed' \subseteq Failed \cup {f}
      /\ \A g \in Flows : Reset(g) => Reset(g)'
      /\ \A g \in Flows : ReportedSuccess(g) => ReportedSuccess(g)'
      /\ Counted' \ {f} = C \ {f} /\ Critical' \ {f} = Q \ {f}
  BY <1>2, SetsMoveByOne DEF ConnStep
<1>4. pc[f] = "critical" /\ att[f] = TotalAttempts /\ pc'[f] = "unregister"
  BY DEF AskRestart, Goto, Attempts, AttemptsOf, ConnInv, ConnTypes
<1>5. f \in C /\ f \in Q /\ Counted' = C /\ Critical' = Q \ {f}
  BY <1>1, <1>3, <1>4 DEF Counted, Failed, Critical
<1>6. IsFiniteSet(C) /\ IsFiniteSet(Q) /\ Cardinality(C) \in Nat /\ Cardinality(Q) \in Nat
  BY CountedSets DEF Counting
<1>7. Cardinality(Critical') = Cardinality(Q) - 1
  BY <1>5, <1>6, FS_RemoveElement
<1>8. Q # {} /\ Cardinality(Q) > 0
  BY <1>5, <1>6, FS_EmptySet
<1>9. IsFiniteSet(Failed')
  BY <1>3, FS_AddElement, FS_Subset DEF Counting
<1>10. restartSent => restarts > 0
  BY DEF Counting
<1>11. streak' <= Cardinality(Counted')
  BY <1>1, <1>5 DEF Counting
<1>12. Cardinality(Counted') >= CriticalFailures - 1 + restarts' + Cardinality(Critical')
  <2>1. Cardinality(C) >= CriticalFailures - 1 + restarts + Cardinality(Q)
    BY <1>1, <1>6, <1>8 DEF Counting
  <2>2. restarts' <= restarts + 1 /\ restarts' \in Nat
    BY <1>1
  <2> QED
    BY <1>1, <1>5, <1>6, <1>7, <2>1, <2>2
<1>13. restarts' > 0
  BY <1>1, <1>10
<1>14. (\A g \in Flows : ~Reset(g)') => streak' = Cardinality(Counted')
  BY <1>1, <1>3, <1>5 DEF Counting
<1>15. (\A g \in Flows : ~ReportedSuccess(g)') => restarts' = 0 \/ (restarts' = 1 /\ restartSent')
  BY <1>1, <1>3 DEF Counting
<1> QED
  BY <1>9, <1>11, <1>12, <1>13, <1>14, <1>15 DEF Counting

\* Every other step counts nothing; a report of success resets what it stands for.
LEMMA OtherConnStep ==
    ASSUME ConnInv, AttemptTypes, SwitchTypes, Attempts, Delivered, Counting,
           Attempts', Delivered', NEW f \in Flows, ~CountFailure(f), ~AskRestart(f),
           ConnStep(f) \/ Accept(f) \/ RelayEnds(f)
    PROVE  Counting'
<1>1. Standing(f)
  BY StepKeepsStanding
<1>2. /\ Failed' \subseteq Failed \cup {f}
      /\ \A g \in Flows : Reset(g) => Reset(g)'
      /\ \A g \in Flows : ReportedSuccess(g) => ReportedSuccess(g)'
      /\ Counted' \ {f} = Counted \ {f} /\ Critical' \ {f} = Critical \ {f}
  BY <1>1, SetsMoveByOne
<1>3. Counted' = Counted /\ Critical' = Critical
  BY <1>1, <1>2 DEF Standing
<1>4. IsFiniteSet(Failed')
  BY <1>2, FS_AddElement, FS_Subset DEF Counting
<1>5. restarts' = restarts
  BY StepIsLocal DEF ReportStep, ResetStreak, Rearm
<1>6. CASE ResetStreak(f)
  <2>1. streak' = 0 /\ restartSent' = restartSent /\ Reset(f)'
    <3>1. att[f] < TotalAttempts
      BY <1>6 DEF ResetStreak, Goto, Attempts, AttemptsOf, Attempting
    <3> QED
      BY <1>6, <3>1 DEF ResetStreak, Goto, Reset, ConnInv, ConnTypes, attemptVars
  <2>2. 0 <= Cardinality(Counted)
    BY CountedSets DEF Counting
  <2> QED
    BY <1>2, <1>3, <1>4, <1>5, <2>1, <2>2 DEF Counting
<1>7. CASE Rearm(f)
  <2>1. streak' = streak /\ restartSent' = FALSE
    BY <1>7 DEF Rearm
  <2>2. ReportedSuccess(f)'
    <3>1. pc[f] = "rearm" /\ pc'[f] = "relay" /\ UNCHANGED <<att, tried, sent>>
      BY <1>7 DEF Rearm, Goto, ConnInv, ConnTypes, attemptVars, socketVars
    <3>2. att[f] < TotalAttempts /\ tried[f] # {} /\ (Strategy = "wrong_seq" => sent[f] = "all")
      BY <3>1 DEF Attempts, AttemptsOf, Attempting, Delivered
    <3> QED
      BY <3>1, <3>2 DEF ReportedSuccess
  <2> QED
    BY <1>2, <1>3, <1>4, <1>5, <2>1, <2>2 DEF Counting
<1>8. CASE ~ResetStreak(f) /\ ~Rearm(f)
  <2>1. streak' = streak /\ restartSent' = restartSent
    BY <1>8, StepIsLocal DEF ReportStep
  <2> QED
    BY <1>2, <1>3, <1>4, <1>5, <2>1 DEF Counting
<1> QED
  BY <1>6, <1>7, <1>8

-----------------------------------------------------------------------------
(* The invariant and what follows from it                                    *)

\* No connection has failed at the start.
LEMMA RecoveryInit == Init => RecoveryInv
<1> SUFFICES ASSUME Init PROVE RecoveryInv
  OBVIOUS
<1>1. TotalAttempts \in Nat \ {0} /\ 0 \in 0 .. NEndpoints - 1 /\ 0 \in 0 .. TotalAttempts
  BY OneAttemptPerEndpoint, EndpointAssumption
<1>2. AttemptTypes
  BY <1>1 DEF Init, AttemptTypes
<1>3. SwitchTypes /\ Fragments /\ Delivered
  <2>1. 0 \in 0 .. MaxNoise
    BY NetworkAssumption
  <2>2. SwitchTypes
    BY <2>1 DEF Init, SwitchTypes
  <2> QED
    BY <2>2 DEF Init, Fragments, Delivered
<1>4. Attempts
  BY DEF Init, Attempts, AttemptsOf, Unread, Attempting
<1>5. Failed = {} /\ Counted = {} /\ Critical = {}
  BY <1>1 DEF Init, Failed, Counted, Critical
<1>6. Counting
  BY <1>5, FS_EmptySet, EndpointAssumption DEF Init, Counting
<1> QED
  BY <1>2, <1>3, <1>4, <1>6 DEF RecoveryInv

\* The invariant is inductive, next to that of the connections and the injector.
LEMMA RecoveryStep == Inv /\ RecoveryInv /\ [Next]_vars => RecoveryInv'
<1> SUFFICES ASSUME Inv, RecoveryInv, [Next]_vars PROVE RecoveryInv'
  OBVIOUS
<1> USE DEF Inv, RecoveryInv
<1>1. AttemptTypes' /\ Attempts'
  BY AttemptStep
<1>2. SwitchTypes' /\ Fragments' /\ Delivered'
  BY SwitchStep, FragmentStep
<1>3. ASSUME NEW f \in Flows, ConnStep(f) \/ Accept(f) \/ RelayEnds(f)
      PROVE  Counting'
  BY <1>1, <1>2, <1>3, CountFailureStep, AskRestartStep, OtherConnStep
<1>4. ASSUME UNCHANGED <<pc, att, tried, sent, streak, restartSent, restarts>>
      PROVE  Counting'
  BY <1>4 DEF Counting, Failed, Counted, Critical, Reset, ReportedSuccess
<1> QED
  BY <1>1, <1>2, <1>3, <1>4, OutsideIsLocal DEF Next, Environment, Finished

\* It holds in every behaviour.
LEMMA RecoveryHolds == SafetySpec => [](Inv /\ RecoveryInv)
<1>1. Init => Inv /\ RecoveryInv
  BY ConnInitInv, InjectorInitInv, RecoveryInit DEF Inv, Init
<1> QED
  BY <1>1, ForwarderStepInv, RecoveryStep, PTL DEF SafetySpec

\* Every variable of the forwarder keeps its type, whatever the strategy, the number of
\* endpoints and the traffic; att never passes the attempts handleConn computed.
THEOREM ForwarderTypesHold == SafetySpec => []ForwarderTypeOK
<1>1. Inv /\ RecoveryInv => ForwarderTypeOK
  BY DEF Inv, RecoveryInv, InjectorInv, ConnInv, ConnTypes, AttemptTypes, SwitchTypes,
         ForwarderTypeOK
<1> QED
  BY <1>1, RecoveryHolds, PTL

\* A connection is reported failed only when each of the endpoints, from whichever of
\* them handleConn started, was tried once.
THEOREM EveryEndpointTried == SafetySpec => []GivesUpAfterAll
<1>1. ASSUME Inv, RecoveryInv, NEW f \in Flows, att[f] = TotalAttempts
      PROVE  tried[f] = 0 .. NEndpoints - 1
  <2>1. \A k \in 0 .. NEndpoints - 1 : (base[f] + k) % NEndpoints \in tried[f]
    BY <1>1, OneAttemptPerEndpoint DEF RecoveryInv, Attempts, AttemptsOf, Nth
  <2>2. base[f] \in 0 .. NEndpoints - 1 /\ tried[f] \subseteq 0 .. NEndpoints - 1
    BY <1>1 DEF RecoveryInv, AttemptTypes
  <2>3. ASSUME NEW e \in 0 .. NEndpoints - 1 PROVE e \in tried[f]
    <3>1. \E k \in 0 .. NEndpoints - 1 : (base[f] + k) % NEndpoints = e
      BY <2>2, RoundMeetsAll, EndpointAssumption
    <3> QED
      BY <2>1, <3>1
  <2> QED
    BY <2>2, <2>3
<1>2. Inv /\ RecoveryInv => GivesUpAfterAll
  BY <1>1 DEF GivesUpAfterAll
<1> QED
  BY <1>2, RecoveryHolds, PTL

\* A restart is asked for only when CriticalFailures connections have been given up, and
\* each further one costs a further connection.
THEOREM RestartIsJustified == SafetySpec => []RestartJustified
<1>1. ASSUME Inv, RecoveryInv, restarts > 0
      PROVE  Cardinality(Failed) >= CriticalFailures + restarts - 1
  <2>1. /\ Cardinality(Counted) \in Nat /\ Cardinality(Critical) \in Nat
        /\ Cardinality(Failed) \in Nat /\ Cardinality(Counted) <= Cardinality(Failed)
    BY <1>1, CountedSets DEF RecoveryInv, Counting
  <2>2. restarts \in Nat /\ CriticalFailures \in Nat
    BY <1>1, EndpointAssumption DEF RecoveryInv, SwitchTypes
  <2>3. Cardinality(Counted) >= CriticalFailures - 1 + restarts + Cardinality(Critical)
    BY <1>1, <2>1, <2>2 DEF RecoveryInv, Counting
  <2> QED
    BY <2>1, <2>2, <2>3
<1>2. Inv /\ RecoveryInv => RestartJustified
  BY <1>1 DEF RestartJustified, Failed
<1> QED
  BY <1>2, RecoveryHolds, PTL

\* When every connection has failed, and there were enough of them, one of the goroutines
\* that counted them has asked for the restart.
THEOREM NoRestartIsLost == SafetySpec => []NoLostRestart
<1>1. ASSUME Inv, RecoveryInv, Cardinality(Flows) >= CriticalFailures,
             \A f \in Flows : pc[f] = "done" /\ att[f] = TotalAttempts
      PROVE  restarts > 0
  <2>1. Counted = Flows /\ Critical = {}
    BY <1>1 DEF Counted, Failed, Critical
  <2>2. \A f \in Flows : ~Reset(f)
    BY <1>1, OneAttemptPerEndpoint, EndpointAssumption DEF Reset
  <2>3. streak = Cardinality(Flows) /\ (streak >= CriticalFailures => restarts > 0)
    BY <1>1, <2>1, <2>2 DEF RecoveryInv, Counting
  <2> QED
    BY <1>1, <2>3
<1>2. Inv /\ RecoveryInv => NoLostRestart
  BY <1>1 DEF NoLostRestart
<1> QED
  BY <1>2, RecoveryHolds, PTL

\* Until somebody reports a success, the compare-and-swap lets one restart through.
THEOREM OneRestart == SafetySpec => []OneRestartPerOutage
<1>1. Inv /\ RecoveryInv => OneRestartPerOutage
  BY DEF RecoveryInv, Counting, OneRestartPerOutage
<1> QED
  BY <1>1, RecoveryHolds, PTL

\* The direct write of the payload never follows a fragment on the same connection.
THEOREM PayloadIsSentOnce == SafetySpec => PayloadOnce
<1>1. ASSUME Inv, RecoveryInv, [Next]_vars, NEW f \in Flows, sent[f] = "part", sent'[f] = "all"
      PROVE  pc[f] = "write"
  <2>1. PICK g \in Flows : ConnStep(g) \/ Accept(g) \/ RelayEnds(g)
    BY <1>1, OutsideIsLocal DEF Next, Environment, Finished, Inv
  <2>2. g = f /\ SocketStep(f)
    BY <1>1, <2>1, StepIsLocal DEF Inv, RecoveryInv
  <2> USE <1>1 DEF Goto, Inv, ConnInv, ConnTypes
  <2>3. CASE Fallback(f)
    BY <2>3 DEF Fallback, RecoveryInv, Fragments
  <2>4. CASE ~Fallback(f)
    BY <2>2, <2>4 DEF SocketStep, Dial, DialOk, DialFails, WritePart, WriteAll, CloseAndRetry,
                      CloseAndDrop, RelayEnds
  <2> QED
    BY <2>3, <2>4
<1>2. Inv /\ RecoveryInv /\ [Next]_vars
        => [\A f \in Flows : sent[f] = "part" /\ sent'[f] = "all" => pc[f] = "write"]_vars
  BY <1>1
<1> QED
  BY <1>2, RecoveryHolds, PTL DEF SafetySpec, PayloadOnce

-----------------------------------------------------------------------------
(* Whose packets a portState sees                                            *)

\* Once its portState is allocated a connection keeps its port for good, and no socket of
\* an injector's runtime is opened before.
Settled ==
    \A f \in Flows :
        /\ ps[f].alloc =>
             /\ UseInjector /\ port[f] \in Ports
             /\ pc[f] \notin {"idle", "read", "reserve", "register"}
             /\ pc[f] = "attempt" => att[f] >= 1
        /\ registered[f] => ps[f].alloc
        /\ (sock[f] # "none" \/ pc[f] \in Connected) /\ UseInjector => ps[f].alloc

\* A packet of this host is one of g's, sent when the protocol allows it.
PacketOf(k, g) ==
    /\ ps[g].alloc /\ port[g] = k.port /\ sock[g] # "none"
    /\ k.dir = "out" /\ k.kind = "syn" => k.num = Isn[g]
    /\ k.dir = "out" /\ k.kind = "ack" /\ Strategy = "wrong_seq" =>
         k.num = SeqAdd(Isn[g], 1) \/ ps[g].fakeSent
    /\ k.dir = "in" /\ k.kind = "ack" => g \in acked
    /\ k.dir = "in" /\ k.kind = "rst" => g \in rst

Sourced(k) == k.own => \E g \in Flows : PacketOf(k, g)

Queued ==
    /\ \A i \in 1 .. Len(wire) : Sourced(wire[i])
    /\ pkt # NoPacket => Sourced(pkt)
    /\ held # NoFlow => pkt.own /\ port[held] = pkt.port /\ ps[held].alloc

\* No other connection has had a socket on f's port.
Alone(f) == OnPortOf(f) \subseteq {f}

\* What the sniffer has concluded about f, and from whose packets.
Verdict(f) ==
    /\ ~ps[f].alloc =>
         /\ ~ps[f].synSeen /\ ~ps[f].fakeSent /\ ~ps[f].mismatchSeen
         /\ ~ps[f].confirmed /\ ~ps[f].failed
    /\ ps[f].confirmed => OnPortOf(f) \cap acked # {}
    /\ Alone(f) =>
         /\ ps[f].synSeen => ps[f].synSeq = Isn[f]
         /\ Strategy = "wrong_seq" => ~ps[f].mismatchSeen
         /\ Strategy = "wrong_seq" /\ ps[f].failed => f \in rst \/ inj[f].st = "failed"

Verdicts == \A f \in Flows : Verdict(f)

TrafficInv == Settled /\ Queued /\ Verdicts

\* What a step may not take back once a packet was sent on the strength of it.
CreditsLast ==
    \A g \in Flows :
        /\ ps[g].alloc => ps'[g].alloc /\ port'[g] = port[g]
        /\ ps[g].fakeSent => ps'[g].fakeSent
        /\ sock[g] # "none" => sock'[g] # "none"
        /\ g \in acked => g \in acked'
        /\ g \in rst => g \in rst'

\* Whoever has shared the port of an allocated portState stays on record.
LEMMA CompanyLasts ==
    ASSUME CreditsLast, Settled, NEW f \in Flows, ps[f].alloc
    PROVE  OnPortOf(f) \subseteq OnPortOf(f)' /\ (Alone(f)' => Alone(f))
<1>1. ASSUME NEW g \in OnPortOf(f)
      PROVE  g \in OnPortOf(f)'
  <2>1. g \in Flows /\ port[g] = port[f] /\ sock[g] # "none"
    BY DEF OnPortOf
  <2>2. ps[g].alloc
    BY <2>1 DEF Settled
  <2> QED
    BY <2>1, <2>2 DEF OnPortOf, CreditsLast
<1> QED
  BY <1>1 DEF Alone

\* A step that concludes nothing about f keeps what was concluded.
LEMMA VerdictLasts ==
    ASSUME CreditsLast, Settled, NEW f \in Flows, Verdict(f),
           ps'[f].synSeen = ps[f].synSeen, ps'[f].synSeq = ps[f].synSeq,
           ps'[f].fakeSent = ps[f].fakeSent, ps'[f].mismatchSeen = ps[f].mismatchSeen,
           ps'[f].confirmed = ps[f].confirmed, ps'[f].failed = ps[f].failed,
           inj'[f].st = inj[f].st
    PROVE  Verdict(f)'
<1>1. CASE ~ps[f].alloc
  BY <1>1 DEF Verdict
<1>2. CASE ps[f].alloc
  <2>1. OnPortOf(f) \subseteq OnPortOf(f)' /\ (Alone(f)' => Alone(f))
    BY <1>2, CompanyLasts
  <2>2. ps'[f].alloc /\ OnPortOf(f) \cap acked \subseteq OnPortOf(f)' \cap acked'
    BY <1>2, <2>1 DEF CreditsLast, OnPortOf
  <2> QED
    BY <2>1, <2>2 DEF Verdict, CreditsLast
<1> QED
  BY <1>1, <1>2

\* A packet keeps its source.
LEMMA SourceLasts ==
    ASSUME CreditsLast, NEW k, Sourced(k)
    PROVE  Sourced(k)'
<1>1. CASE k.own
  <2>1. PICK g \in Flows : PacketOf(k, g)
    BY <1>1 DEF Sourced
  <2>2. PacketOf(k, g)'
    BY <2>1 DEF PacketOf, CreditsLast
  <2> QED
    BY <2>2 DEF Sourced
<1>2. CASE ~k.own
  BY <1>2 DEF Sourced
<1> QED
  BY <1>1, <1>2

\* A step that captures at most a packet with a source keeps the queue's sources.
LEMMA QueueStep ==
    ASSUME ConnInv, InjectorInv, Queued, CreditsLast, UNCHANGED <<pkt, held>>,
           wire' = wire \/ \E k \in Packets : wire' = Append(wire, k) /\ Sourced(k)'
    PROVE  Queued'
<1>1. ASSUME NEW i \in 1 .. Len(wire')
      PROVE  \E k : k = wire'[i] /\ Sourced(k)'
  <2>1. CASE wire' = wire
    <3>1. PICK k : k = wire[i]
      OBVIOUS
    <3>2. Sourced(k)
      BY <1>1, <2>1, <3>1 DEF Queued
    <3> QED
      BY <2>1, <3>1, <3>2, SourceLasts
  <2>2. ASSUME NEW k \in Packets, wire' = Append(wire, k), Sourced(k)'
        PROVE  \E x : x = wire'[i] /\ Sourced(x)'
    <3>1. wire \in Seq(Packets)
      BY DEF ConnInv, ConnTypes
    <3>2. CASE i = Len(wire) + 1
      BY <2>2, <3>1, <3>2
    <3>3. CASE i # Len(wire) + 1
      <4>1. i \in 1 .. Len(wire) /\ wire'[i] = wire[i]
        BY <1>1, <2>2, <3>1, <3>3
      <4>2. PICK x : x = wire[i]
        OBVIOUS
      <4>3. Sourced(x)
        BY <4>1, <4>2 DEF Queued
      <4> QED
        BY <4>1, <4>2, <4>3, SourceLasts
    <3> QED
      BY <3>2, <3>3
  <2> QED
    BY <2>1, <2>2
<1>2. ASSUME pkt # NoPacket PROVE \E k : k = pkt' /\ Sourced(k)'
  <2>1. PICK k : k = pkt
    OBVIOUS
  <2>2. Sourced(k)
    BY <1>2, <2>1 DEF Queued
  <2> QED
    BY <2>1, <2>2, SourceLasts
<1>3. held # NoFlow => pkt.own /\ port'[held] = pkt.port /\ ps'[held].alloc
  BY DEF Queued, CreditsLast, InjectorInv, InjectorTypeOK
<1> QED
  BY <1>1, <1>2, <1>3 DEF Queued, Sourced, PacketOf

\* A goroutine allocates its own portState, and changes its port only before that.
LEMMA ConnChangesPort ==
    ASSUME ConnInv, InjectorInv, NEW f \in Flows, ConnStep(f) \/ Accept(f) \/ RelayEnds(f)
    PROVE  /\ UNCHANGED <<inj, pkt, held, acked, rst>>
           /\ \/ UNCHANGED ps
              \/ Register(f) /\ ps' = [ps EXCEPT ![f].alloc = TRUE]
           /\ \/ UNCHANGED port
              \/ \E p \in Ports : Reserve(f, p)
<1> USE DEF injectorVars, registryVars, envVars
<1>1. CASE Accept(f) \/ ReadFails(f) \/ ReadFirst(f) \/ ResolveFails(f) \/ ResolveOk(f)
  BY <1>1 DEF Accept, ReadFails, ReadFirst, ResolveFails, ResolveOk
<1>2. CASE (\E p \in Ports : Reserve(f, p)) \/ ReserveFails(f) \/ RegisterRefused(f)
  BY <1>2 DEF Reserve, ReserveFails, RegisterRefused
<1>3. CASE Register(f)
  BY <1>3 DEF Register, RegisterPort
<1>4. CASE Undial(f) \/ Refused(f) \/ Return(f)
  BY <1>4 DEF Undial, Refused, Return, Unregister, CleanupPort
<1>5. CASE Dial(f) \/ DialOk(f) \/ DialFails(f) \/ StartApply(f) \/ WaitReturns(f) \/ WriteFails(f)
  BY <1>5 DEF Dial, DialOk, DialFails, StartApply, WaitReturns, WriteFails
<1>6. CASE \/ WritePart(f) \/ WriteAll(f) \/ CloseAndRetry(f) \/ CloseAndDrop(f)
           \/ Fallback(f) \/ RelayEnds(f)
  BY <1>6 DEF WritePart, WriteAll, CloseAndRetry, CloseAndDrop, Fallback, RelayEnds
<1>7. CASE Exhausted(f) \/ CountFailure(f) \/ AskRestart(f) \/ ResetStreak(f) \/ Rearm(f)
  BY <1>7 DEF Exhausted, CountFailure, AskRestart, ResetStreak, Rearm
<1> QED
  BY <1>1, <1>2, <1>3, <1>4, <1>5, <1>6, <1>7 DEF ConnStep

\* Hence it takes nothing back and changes no verdict.
LEMMA ConnKeepsCredits ==
    ASSUME ConnInv, InjectorInv, AttemptTypes, TrafficInv, NEW f \in Flows,
           ConnStep(f) \/ Accept(f) \/ RelayEnds(f)
    PROVE  CreditsLast /\ Verdicts'
<1> USE DEF InjectorInv, InjectorTypeOK, PortState, TrafficInv
<1>1. \A g \in Flows : /\ ps'[g].alloc = (ps[g].alloc \/ (g = f /\ ps'[f].alloc))
                       /\ ps'[g].synSeen = ps[g].synSeen /\ ps'[g].synSeq = ps[g].synSeq
                       /\ ps'[g].fakeSent = ps[g].fakeSent /\ ps'[g].confirmed = ps[g].confirmed
                       /\ ps'[g].mismatchSeen = ps[g].mismatchSeen
                       /\ ps'[g].failed = ps[g].failed
  <2>1. CASE UNCHANGED ps
    BY <2>1
  <2>2. CASE ps' = [ps EXCEPT ![f].alloc = TRUE]
    BY <2>2
  <2> QED
    BY <2>1, <2>2, ConnChangesPort
<1>2. UNCHANGED <<inj, acked, rst>>
  BY ConnChangesPort
<1>3. \A g \in Flows : ps[g].alloc => port'[g] = port[g]
  <2>1. ASSUME NEW p \in Ports, Reserve(f, p)
        PROVE  ~ps[f].alloc /\ \A g \in Flows \ {f} : port'[g] = port[g]
    BY <2>1 DEF Reserve, Goto, Settled, ConnInv, ConnTypes
  <2> QED
    BY <2>1, ConnChangesPort
<1>4. \A g \in Flows : sock[g] # "none" => sock'[g] # "none"
  <2>1. \A g \in Flows \ {f} : sock'[g] = sock[g]
    BY StepIsLocal
  <2>2. sock[f] # "none" => sock'[f] # "none"
    <3>1. CASE SocketStep(f)
      BY <3>1 DEF SocketStep, Dial, DialOk, DialFails, WritePart, WriteAll, CloseAndRetry,
                  CloseAndDrop, Fallback, RelayEnds, socketVars, ConnInv, ConnTypes
    <3>2. CASE ~SocketStep(f)
      BY <3>2, StepIsLocal
    <3> QED
      BY <3>1, <3>2
  <2> QED
    BY <2>1, <2>2
<1>5. CreditsLast
  BY <1>1, <1>2, <1>3, <1>4 DEF CreditsLast
<1>6. ASSUME NEW g \in Flows
      PROVE  Verdict(g)'
  BY <1>1, <1>2, <1>5, VerdictLasts DEF Verdicts
<1> QED
  BY <1>5, <1>6 DEF Verdicts

\* An allocated connection never reserves again.
LEMMA ConnStaysSettled ==
    ASSUME ConnInv, InjectorInv, AttemptTypes, Attempts, Attempts', TrafficInv,
           NEW f \in Flows, ConnStep(f) \/ Accept(f) \/ RelayEnds(f)
    PROVE  Settled'
<1> USE DEF ConnInv, ConnTypes, InjectorInv, InjectorTypeOK, PortState, TrafficInv, AttemptTypes
<1>1. \A g \in Flows \ {f} : /\ pc'[g] = pc[g] /\ att'[g] = att[g] /\ sock'[g] = sock[g]
                             /\ port'[g] = port[g] /\ ps'[g].alloc = ps[g].alloc
                             /\ registered'[g] = registered[g]
  <2>1. \A g \in Flows \ {f} : pc'[g] = pc[g] /\ att'[g] = att[g] /\ sock'[g] = sock[g]
    BY StepIsLocal
  <2>2. \A g \in Flows \ {f} : port'[g] = port[g]
    <3>1. ASSUME NEW p \in Ports, Reserve(f, p)
          PROVE  \A g \in Flows \ {f} : port'[g] = port[g]
      BY <3>1 DEF Reserve
    <3> QED
      BY <3>1, ConnChangesPort
  <2>3. \A g \in Flows \ {f} : ps'[g].alloc = ps[g].alloc
    <3>1. CASE UNCHANGED ps
      BY <3>1
    <3>2. CASE ps' = [ps EXCEPT ![f].alloc = TRUE]
      BY <3>2
    <3> QED
      BY <3>1, <3>2, ConnChangesPort
  <2>4. \A g \in Flows \ {f} : registered'[g] = registered[g]
    BY DEF ConnStep, ReadFails, ReadFirst, ResolveFails, ResolveOk, Reserve, ReserveFails,
      RegisterRefused, Dial, DialOk, DialFails, StartApply, WaitReturns, WritePart, WriteAll,
      WriteFails, CloseAndRetry, CloseAndDrop, Fallback, Exhausted, CountFailure, AskRestart,
      ResetStreak, Rearm, Accept, RelayEnds, Register, Undial, Refused, Return, Unregister,
      registryVars
  <2> QED
    BY <2>1, <2>2, <2>3, <2>4
<1>2. SUFFICES /\ ps'[f].alloc => /\ UseInjector /\ port'[f] \in Ports
                                  /\ pc'[f] \notin {"idle", "read", "reserve", "register"}
                                  /\ pc'[f] = "attempt" => att'[f] >= 1
               /\ registered'[f] => ps'[f].alloc
               /\ (sock'[f] # "none" \/ pc'[f] \in Connected) /\ UseInjector => ps'[f].alloc
  BY <1>1 DEF Settled
<1>3. CASE Register(f)
  <2>1. pc[f] = "register" /\ pc'[f] = "dial" /\ ps' = [ps EXCEPT ![f].alloc = TRUE]
        /\ port'[f] = port[f]
    BY <1>3 DEF Register, RegisterPort, Goto
  <2>2. ps'[f].alloc
    BY <2>1
  <2>3. UseInjector /\ port[f] \in Ports
    BY <2>1 DEF Stages
  <2> QED
    BY <2>1, <2>2, <2>3
<1>4. CASE (\E p \in Ports : Reserve(f, p)) \/ ReserveFails(f) \/ RegisterRefused(f)
  <2>1. pc[f] \in {"reserve", "register"} /\ UNCHANGED <<ps, registered, sock>>
    BY <1>4 DEF Reserve, ReserveFails, RegisterRefused, Goto, registryVars, socketVars, injectorVars
  <2>2. pc'[f] \notin Connected
    BY <1>4 DEF Reserve, ReserveFails, RegisterRefused, Goto, Connected
  <2>3. ~ps[f].alloc /\ ~registered[f]
    BY <2>1 DEF Settled, Stages, Unowned
  <2>4. sock[f] = "none"
    BY <2>1, <2>3 DEF Settled, Stages
  <2> QED
    BY <2>1, <2>2, <2>3, <2>4
<1>5. CASE ~(Register(f) \/ (\E p \in Ports : Reserve(f, p)) \/ ReserveFails(f)
             \/ RegisterRefused(f))
  <2>1. UNCHANGED <<ps, port>>
    BY <1>5, ConnChangesPort
  <2>2. registered'[f] => registered[f]
    <3>1. CASE Undial(f) \/ Refused(f) \/ Return(f)
      BY <3>1 DEF Undial, Refused, Return, Unregister
    <3>2. CASE ~(Undial(f) \/ Refused(f) \/ Return(f))
      BY <1>5, <3>2 DEF ConnStep, ReadFails, ReadFirst, ResolveFails, ResolveOk,
        Dial, DialOk, DialFails, StartApply, WaitReturns, WritePart, WriteAll,
        WriteFails, CloseAndRetry, CloseAndDrop, Fallback, Exhausted, CountFailure, AskRestart,
        ResetStreak, Rearm, Accept, RelayEnds, registryVars
    <3> QED
      BY <3>1, <3>2
  <2>3. (sock'[f] # "none" \/ pc'[f] \in Connected) /\ UseInjector => ps[f].alloc
    <3>1. CASE Dial(f) \/ DialFails(f) \/ DialOk(f)
      BY <3>1 DEF Dial, DialFails, DialOk, Goto, Stages, Owning, Settled
    <3>2. CASE CloseAndRetry(f) \/ CloseAndDrop(f) \/ RelayEnds(f)
      BY <3>2 DEF CloseAndRetry, CloseAndDrop, RelayEnds, Goto, Connected, Settled
    <3>3. CASE ~(\/ Dial(f) \/ DialFails(f) \/ DialOk(f)
                 \/ CloseAndRetry(f) \/ CloseAndDrop(f) \/ RelayEnds(f))
      <4>1. sock'[f] = sock[f]
        BY <3>3, StepIsLocal DEF SocketStep, WritePart, WriteAll, Fallback
      <4>2. pc'[f] \in Connected => pc[f] \in Connected
        BY <1>5, <3>3 DEF ConnStep, ReadFails, ReadFirst, ResolveFails, ResolveOk, Undial,
          StartApply, WaitReturns, WritePart, WriteAll, WriteFails, Refused, Fallback, Exhausted,
          CountFailure, AskRestart, ResetStreak, Rearm, Accept, Return, Goto, Connected
      <4> QED
        BY <4>1, <4>2 DEF Settled
    <3> QED
      BY <3>1, <3>2, <3>3
  <2>4. ASSUME ps[f].alloc
        PROVE  /\ pc'[f] \notin {"idle", "read", "reserve", "register"}
               /\ pc'[f] = "attempt" => att'[f] >= 1
    <3>1. /\ UseInjector /\ TotalAttempts = 1 /\ att[f] \in Nat
          /\ pc[f] \notin {"idle", "read", "reserve", "register"}
          /\ pc[f] = "attempt" => att[f] >= 1
      BY <2>4, OneAttempt DEF Settled
    <3>2. ~Accept(f) /\ ~ReadFails(f) /\ ~ReadFirst(f) /\ ~ResolveFails(f) /\ ~ResolveOk(f)
      BY <3>1 DEF Accept, ReadFails, ReadFirst, ResolveFails, ResolveOk, Trying, Goto
    <3>3. CASE Undial(f) \/ CloseAndRetry(f)
      BY <3>1, <3>3 DEF Undial, CloseAndRetry, NextAttempt, Goto
    <3>4. CASE ~(Undial(f) \/ CloseAndRetry(f))
      BY <1>5, <3>1, <3>2, <3>4
      DEF ConnStep, Dial, DialOk, DialFails, StartApply, WaitReturns, AfterWait, WritePart,
          WriteAll, WriteFails, Refused, CloseAndDrop, Fallback, Exhausted, CountFailure,
          AskRestart, ResetStreak, Rearm, RelayEnds, Return, Goto
    <3> QED
      BY <3>3, <3>4
  <2> QED
    BY <2>1, <2>2, <2>3, <2>4 DEF Settled
<1> QED
  BY <1>3, <1>4, <1>5

\* What the kernel shows the capture socket of f's own segments has f for its source.
LEMMA SegmentIsSourced ==
    ASSUME ConnInv, Settled, NEW f \in Flows, NEW d \in {"out", "in"},
           NEW kind \in {"syn", "ack", "rst"}, NEW n \in Seqs, Captured(d, kind, f, n),
           UNCHANGED <<port, ps>>, UseInjector => ps[f].alloc, sock'[f] # "none",
           d = "out" /\ kind = "syn" => n = Isn[f],
           d = "out" /\ kind = "ack" /\ Strategy = "wrong_seq" =>
             n = SeqAdd(Isn[f], 1) \/ ps[f].fakeSent,
           d = "in" /\ kind = "ack" => f \in acked',
           d = "in" /\ kind = "rst" => f \in rst'
    PROVE  wire' = wire \/ \E k \in Packets : wire' = Append(wire, k) /\ Sourced(k)'
<1>1. CASE UseInjector
  <2>1. PICK k : k = Segment(d, kind, f, n)
    OBVIOUS
  <2>2. port[f] \in Ports
    BY <1>1 DEF Settled
  <2>3. /\ k \in Packets /\ k.dir = d /\ k.kind = kind /\ k.num = n /\ k.port = port[f]
    BY <2>1, <2>2 DEF Segment, Packets
  <2>4. PacketOf(k, f)'
    BY <1>1, <2>3 DEF PacketOf
  <2>5. Sourced(k)'
    BY <2>4 DEF Sourced
  <2>6. wire' = wire \/ wire' = Append(wire, k)
    BY <1>1, <2>1 DEF Captured, Capture
  <2> QED
    BY <2>3, <2>5, <2>6
<1>2. CASE ~UseInjector
  BY <1>2 DEF Captured
<1> QED
  BY <1>1, <1>2

\* A goroutine's step captures only segments of its own handshake.
LEMMA ConnKeepsQueue ==
    ASSUME ConnInv, InjectorInv, AttemptTypes, TrafficInv, NEW f \in Flows,
           ConnStep(f) \/ Accept(f) \/ RelayEnds(f)
    PROVE  Queued'
<1> USE DEF TrafficInv
<1>1. CreditsLast /\ UNCHANGED <<pkt, held>>
  BY ConnKeepsCredits, ConnChangesPort
<1>2. wire' = wire \/ \E k \in Packets : wire' = Append(wire, k) /\ Sourced(k)'
  <2>1. Isn[f] \in Seqs /\ SeqAdd(Isn[f], 1) \in Seqs
    BY NetworkAssumption, SeqAssumption DEF SeqAdd, Seqs
  <2>2. CASE Dial(f)
    <3>1. UseInjector => ps[f].alloc
      BY <2>2 DEF Dial, Goto, ConnInv, Stages, Owning, Settled
    <3>2. Captured("out", "syn", f, Isn[f]) /\ UNCHANGED <<port, ps>> /\ sock'[f] # "none"
      BY <2>2 DEF Dial, registryVars, injectorVars, ConnInv, ConnTypes
    <3> QED
      BY <2>1, <3>1, <3>2, SegmentIsSourced
  <2>3. CASE DialOk(f)
    <3>1. UseInjector => ps[f].alloc
      BY <2>3 DEF DialOk, Settled
    <3>2. /\ Captured("out", "ack", f, SeqAdd(Isn[f], 1)) /\ UNCHANGED <<port, ps>>
          /\ sock'[f] # "none"
      BY <2>3 DEF DialOk, registryVars, injectorVars, ConnInv, ConnTypes
    <3> QED
      BY <2>1, <3>1, <3>2, SegmentIsSourced
  <2>4. CASE ~Dial(f) /\ ~DialOk(f)
    BY <2>4 DEF ConnStep, ReadFails, ReadFirst, ResolveFails, ResolveOk, Reserve, ReserveFails,
      RegisterRefused, DialFails, StartApply, WaitReturns, WritePart, WriteAll,
      WriteFails, CloseAndRetry, CloseAndDrop, Fallback, Exhausted, CountFailure, AskRestart,
      ResetStreak, Rearm, Accept, RelayEnds, Register, Undial, Refused, Return, envVars
  <2> QED
    BY <2>2, <2>3, <2>4
<1> QED
  BY <1>1, <1>2, QueueStep

\* The network's own steps.
LEMMA NetworkKeepsTraffic ==
    ASSUME Inv, TrafficInv,
           ForeignPacket \/ \E f \in Flows : ServerAck(f) \/ ServerRst(f) \/ KernelAck(f)
    PROVE  TrafficInv'
<1> USE DEF Inv, TrafficInv
<1>1. UNCHANGED <<ports, ps, inj, pkt, held, running, pc, att, port, registered, sent>>
  BY DEF ForeignPacket, ServerAck, ServerRst, KernelAck, injectorVars, attemptVars, registryVars,
         socketVars
<1>2. \A g \in Flows : (sock'[g] # "none") = (sock[g] # "none")
  BY DEF ForeignPacket, ServerAck, ServerRst, KernelAck, socketVars, ConnInv, ConnTypes
<1>3. CreditsLast
  BY <1>1, <1>2 DEF ForeignPacket, ServerAck, ServerRst, KernelAck, CreditsLast
<1>4. Settled' /\ Verdicts'
  <2>1. Settled'
    BY <1>1, <1>2 DEF Settled
  <2>2. ASSUME NEW g \in Flows
        PROVE  Verdict(g)'
    BY <1>1, <1>3, VerdictLasts DEF Verdicts
  <2> QED
    BY <2>1, <2>2 DEF Verdicts
<1>5. wire' = wire \/ \E k \in Packets : wire' = Append(wire, k) /\ Sourced(k)'
  <2>1. CASE ForeignPacket
    <3>1. PICK k \in Foreign : Capture(k)
      BY <2>1 DEF ForeignPacket
    <3>2. k \in Packets /\ ~k.own
      BY NetworkAssumption
    <3> QED
      BY <3>1, <3>2 DEF Capture, Sourced
  <2>2. ASSUME NEW f \in Flows, ServerAck(f) \/ ServerRst(f) \/ KernelAck(f)
        PROVE  wire' = wire \/ \E k \in Packets : wire' = Append(wire, k) /\ Sourced(k)'
    <3>1. SeqAdd(Isn[f], 1) \in Seqs /\ SeqAdd(Isn[f], 2) \in Seqs
      BY NetworkAssumption, SeqAssumption DEF SeqAdd, Seqs
    <3>2. (UseInjector => ps[f].alloc) /\ sock'[f] # "none"
      BY <1>2, <2>2 DEF ServerAck, ServerRst, KernelAck, Settled
    <3>3. CASE ServerAck(f)
      BY <1>1, <3>1, <3>2, <3>3, SegmentIsSourced DEF ServerAck
    <3>4. CASE ServerRst(f)
      BY <1>1, <3>1, <3>2, <3>4, SegmentIsSourced DEF ServerRst
    <3>5. CASE KernelAck(f)
      <4>1. Strategy = "wrong_seq" => sent[f] = "none" \/ ps[f].fakeSent
        BY DEF ConnInv, Gated, InjectorInv, Progress
      <4> QED
        BY <1>1, <3>1, <3>2, <3>5, <4>1, SegmentIsSourced DEF KernelAck
    <3> QED
      BY <2>2, <3>3, <3>4, <3>5
  <2> QED
    BY <2>1, <2>2
<1> QED
  BY <1>1, <1>3, <1>4, <1>5, QueueStep

\* The sniffer takes a packet with its source from the queue.
LEMMA ReceiveKeepsTraffic ==
    ASSUME Inv, TrafficInv, ReceiveCaptured
    PROVE  TrafficInv'
<1> USE DEF Inv, TrafficInv
<1>1. /\ UNCHANGED <<ports, ps, inj, held, running, pc, att, port, registered, sock, sent, acked, rst>>
      /\ pkt = NoPacket /\ pkt' = Head(wire) /\ wire' = Tail(wire) /\ wire # <<>>
  BY DEF ReceiveCaptured, Receive, attemptVars, registryVars, socketVars
<1>2. wire \in Seq(Packets)
  BY DEF ConnInv, ConnTypes
<1>3. \A i \in 1 .. Len(wire') : i + 1 \in 1 .. Len(wire) /\ wire'[i] = wire[i + 1]
  BY <1>1, <1>2
<1>4. pkt' = wire[1] /\ 1 \in 1 .. Len(wire)
  BY <1>1, <1>2
<1>5. held = NoFlow
  BY <1>1, PacketAssumption DEF InjectorInv, HeldHasPacket
<1>6. ASSUME NEW i \in 1 .. Len(wire)
      PROVE  \E k : k = wire[i] /\ Sourced(k)'
  <2>1. PICK k : k = wire[i]
    OBVIOUS
  <2>2. Sourced(k)' = Sourced(k)
    BY <1>1 DEF Sourced, PacketOf
  <2> QED
    BY <2>1, <2>2 DEF Queued
<1>7. Queued'
  BY <1>1, <1>3, <1>4, <1>5, <1>6 DEF Queued, Sourced, PacketOf
<1> QED
  BY <1>1, <1>7 DEF Settled, Verdicts, Verdict, Alone, OnPortOf

\* handlePacket acts on the packet's portState only, and on nothing an earlier packet of
\* the handshake stands for.
LEMMA HandlingIsLocal ==
    ASSUME InjectorInv, HandlePacket
    PROVE  /\ held \in Flows /\ pkt \in Packets /\ pkt' = NoPacket /\ held' = NoFlow
           /\ \A g \in Flows \ {held} : ps'[g] = ps[g] /\ inj'[g] = inj[g]
           /\ ps'[held].alloc = ps[held].alloc
           /\ ps[held].fakeSent => ps'[held].fakeSent
           /\ inj'[held].sends = inj[held].sends
           /\ inj'[held].st = inj[held].st \/ inj[held].st = "idle"
<1> USE DEF InjectorInv, InjectorTypeOK, PortState, InjectionState
<1>1. held \in Flows /\ pkt \in Packets /\ pkt' = NoPacket /\ held' = NoFlow
  BY DEF HandlePacket, OutboundSyn, OutboundAckIgnored, OutboundAckMismatch,
         OutboundAckTrigger, InboundAck, InboundRst, OtherPacket, Handling, HeldHasPacket
<1>2. CASE OutboundSyn
  BY <1>1, <1>2 DEF OutboundSyn
<1>3. CASE OutboundAckIgnored \/ OtherPacket
  BY <1>1, <1>3 DEF OutboundAckIgnored, OtherPacket
<1>4. CASE OutboundAckMismatch
  BY <1>1, <1>4 DEF OutboundAckMismatch
<1>5. CASE OutboundAckTrigger
  <2>1. inj[held].st = "idle"
    BY <1>1, <1>5 DEF OutboundAckTrigger, Progress
  <2>2. /\ ps' = [ps EXCEPT ![held].fakeSent = TRUE]
        /\ inj' = [inj EXCEPT ![held].st = "scheduled", ![held].tpl = pkt.num,
                              ![held].isn = ps[held].synSeq]
    BY <1>5 DEF OutboundAckTrigger
  <2> QED
    BY <1>1, <2>1, <2>2
<1>6. CASE InboundAck
  BY <1>1, <1>6 DEF InboundAck
<1>7. CASE InboundRst
  BY <1>1, <1>7 DEF InboundRst
<1> QED
  BY <1>2, <1>3, <1>4, <1>5, <1>6, <1>7 DEF HandlePacket

\* The packet in the sniffer's hands is one of a connection with the port of the portState
\* it looked up, and of that very connection unless it has shared the port.
LEMMA HeldIsSource ==
    ASSUME InjectorInv, TrafficInv, held # NoFlow
    PROVE  \E g \in OnPortOf(held) : PacketOf(pkt, g) /\ (Alone(held) => g = held)
<1> USE DEF TrafficInv, Queued, InjectorInv, InjectorTypeOK, HeldHasPacket
<1>1. PICK g \in Flows : PacketOf(pkt, g)
  BY PacketAssumption DEF Sourced
<1>2. g \in OnPortOf(held)
  BY <1>1 DEF PacketOf, OnPortOf
<1> QED
  BY <1>1, <1>2 DEF Alone

\* So what handlePacket concludes, it concludes from packets on the right port.
LEMMA HandlePacketKeepsTraffic ==
    ASSUME Inv, TrafficInv, InjectorStep, HandlePacket
    PROVE  TrafficInv'
<1> USE DEF Inv, TrafficInv
<1>1. UNCHANGED <<pc, att, port, registered, sock, sent, wire, acked, rst>>
  BY DEF InjectorStep, attemptVars, registryVars, socketVars, envVars
<1>2. /\ held \in Flows /\ held # NoFlow /\ pkt \in Packets /\ pkt' = NoPacket /\ held' = NoFlow
      /\ \A g \in Flows \ {held} : ps'[g] = ps[g] /\ inj'[g] = inj[g]
      /\ ps'[held].alloc = ps[held].alloc
      /\ ps[held].fakeSent => ps'[held].fakeSent
      /\ inj'[held].sends = inj[held].sends
      /\ inj'[held].st = inj[held].st \/ inj[held].st = "idle"
  BY HandlingIsLocal, FlowAssumption
<1>3. CreditsLast
  BY <1>1, <1>2 DEF CreditsLast
<1>4. Settled'
  BY <1>1, <1>2 DEF Settled
<1>5. ASSUME NEW i \in 1 .. Len(wire)
      PROVE  \E k : k = wire[i] /\ Sourced(k)'
  <2>1. PICK k : k = wire[i]
    OBVIOUS
  <2>2. Sourced(k)
    BY <2>1 DEF Queued
  <2> QED
    BY <1>3, <2>1, <2>2, SourceLasts
<1>6. Queued'
  BY <1>1, <1>2, <1>5 DEF Queued, Sourced, PacketOf
<1>7. PICK s \in OnPortOf(held) : PacketOf(pkt, s) /\ (Alone(held) => s = held)
  BY <1>2, HeldIsSource
<1>8. PICK h \in Flows : h = held
  BY <1>2
<1>9. Verdict(h)'
  <2>1. ps[h].alloc /\ ps'[h].alloc /\ OnPortOf(h)' = OnPortOf(h)
    BY <1>1, <1>2, <1>8 DEF Queued, OnPortOf
  <2> SUFFICES
        /\ ps'[h].confirmed => OnPortOf(h) \cap acked # {}
        /\ Alone(h) =>
             /\ ps'[h].synSeen => ps'[h].synSeq = Isn[h]
             /\ Strategy = "wrong_seq" => ~ps'[h].mismatchSeen
             /\ Strategy = "wrong_seq" /\ ps'[h].failed => h \in rst \/ inj'[h].st = "failed"
    BY <1>1, <1>2, <2>1 DEF Verdict, Alone
  <2>2. Verdict(h) /\ (inj[h].st = "failed" => inj'[h].st = "failed")
    BY <1>2, <1>8 DEF Verdicts
  <2> USE <1>2, <1>7, <1>8, <2>2 DEF PacketOf, Verdict, InjectorInv, InjectorTypeOK, PortState
  <2>3. CASE OutboundSyn
    BY <2>3 DEF OutboundSyn, Handling
  <2>4. CASE OutboundAckIgnored \/ OtherPacket
    BY <2>4 DEF OutboundAckIgnored, OtherPacket
  <2>5. CASE OutboundAckMismatch
    BY <2>5 DEF OutboundAckMismatch, Handling, SeqMatches
  <2>6. CASE OutboundAckTrigger
    BY <2>6 DEF OutboundAckTrigger, Handling
  <2>7. CASE InboundAck
    BY <2>7 DEF InboundAck, Handling
  <2>8. CASE InboundRst
    BY <2>8 DEF InboundRst, Handling
  <2> QED
    BY <2>3, <2>4, <2>5, <2>6, <2>7, <2>8 DEF HandlePacket
<1>10. ASSUME NEW f \in Flows \ {h}
       PROVE  Verdict(f)'
  BY <1>2, <1>3, <1>8, VerdictLasts DEF Verdicts
<1> QED
  BY <1>4, <1>6, <1>9, <1>10 DEF Verdicts

\* The lookup finds the owner of the packet's port, and lets only own packets through.
LEMMA LookupKeepsTraffic ==
    ASSUME LocalIPKnown, Inv, TrafficInv, InjectorStep, Lookup \/ LookupMisses
    PROVE  TrafficInv'
<1> USE DEF Inv, TrafficInv
<1>1. /\ UNCHANGED <<pc, att, port, registered, sock, sent, wire, acked, rst>>
      /\ UNCHANGED <<ports, ps, inj>>
  BY DEF InjectorStep, attemptVars, registryVars, socketVars, envVars, Lookup, LookupMisses
<1>2. CASE Lookup
  <2>1. pkt \in Packets /\ held' = ports[pkt.port] /\ ports[pkt.port] # NoFlow /\ pkt' = pkt
        /\ pkt.own
    BY <1>2 DEF Lookup, OwnPacket, InjectorInv, InjectorTypeOK
  <2>2. pkt.port \in Ports /\ held' \in Flows
    BY <2>1 DEF Packets, InjectorInv, InjectorTypeOK
  <2>3. registered[held'] /\ port[held'] = pkt.port
    BY <2>1, <2>2 DEF ConnInv, Registry
  <2>4. Queued'
    BY <1>1, <2>1, <2>2, <2>3 DEF Queued, Sourced, PacketOf, Settled
  <2> QED
    BY <1>1, <2>4 DEF Settled, Verdicts, Verdict, Alone, OnPortOf
<1>3. CASE LookupMisses
  <2>1. pkt' = NoPacket /\ held' = NoFlow
    BY <1>3 DEF LookupMisses
  <2>2. Queued'
    BY <1>1, <2>1 DEF Queued, Sourced, PacketOf
  <2> QED
    BY <1>1, <2>2 DEF Settled, Verdicts, Verdict, Alone, OnPortOf
<1> QED
  BY <1>2, <1>3

\* An injection that ends, ends with the frame out or with the flow marked failed.
LEMMA InjectKeepsTraffic ==
    ASSUME Inv, TrafficInv, InjectorStep, NEW f \in Flows, InjectStep(f)
    PROVE  TrafficInv'
<1> USE DEF Inv, TrafficInv, InjectorInv, InjectorTypeOK, PortState, InjectionState
<1>1. UNCHANGED <<pc, att, port, registered, sock, sent, wire, acked, rst>>
  BY DEF InjectorStep, attemptVars, registryVars, socketVars, envVars
<1>2. /\ UNCHANGED <<pkt, held>>
      /\ \A g \in Flows \ {f} : ps'[g] = ps[g] /\ inj'[g] = inj[g]
      /\ ps'[f] = ps[f] \/ (inj'[f].st = "failed" /\ ps'[f] = [ps[f] EXCEPT !.failed = TRUE])
      /\ inj'[f].sends \in {inj[f].sends, inj[f].sends + 1}
      /\ inj[f].st # "failed"
  <2>1. CASE Inject(f)
    <3>1. /\ UNCHANGED <<ps, pkt, held>> /\ Pending(f)
          /\ inj' = [inj EXCEPT ![f].st = "sent", ![f].seq = FakeSeq(inj[f].isn),
                                ![f].sends = inj[f].sends + 1]
      BY <2>1 DEF Inject
    <3> QED
      BY <3>1 DEF Pending
  <2>2. CASE InjectFails(f)
    <3>1. UNCHANGED <<ps, pkt, held>> /\ inj[f].st = "scheduled" /\ inj' = [inj EXCEPT ![f].st = "retry"]
      BY <2>2 DEF InjectFails
    <3> QED
      BY <3>1
  <2>3. CASE RetryFails(f)
    <3>1. /\ UNCHANGED <<pkt, held>> /\ inj[f].st = "retry"
          /\ inj' = [inj EXCEPT ![f].st = "failed"] /\ ps' = [ps EXCEPT ![f].failed = TRUE]
      BY <2>3 DEF RetryFails
    <3> QED
      BY <3>1
  <2> QED
    BY <2>1, <2>2, <2>3 DEF InjectStep
<1>3. \A g \in Flows : /\ ps'[g].alloc = ps[g].alloc /\ ps'[g].fakeSent = ps[g].fakeSent
                       /\ ps'[g].synSeen = ps[g].synSeen /\ ps'[g].synSeq = ps[g].synSeq
                       /\ ps'[g].confirmed = ps[g].confirmed
                       /\ ps'[g].mismatchSeen = ps[g].mismatchSeen
  BY <1>2
<1>4. CreditsLast
  BY <1>1, <1>3 DEF CreditsLast
<1>5. Settled'
  BY <1>1, <1>3 DEF Settled
<1>6. Queued'
  BY <1>1, <1>2, <1>4, QueueStep
<1>7. ASSUME NEW g \in Flows \ {f}
      PROVE  Verdict(g)'
  BY <1>2, <1>4, VerdictLasts DEF Verdicts
<1>8. Verdict(f)'
  <2>1. ps[f].fakeSent /\ Verdict(f)
    BY DEF InjectStep, Inject, InjectFails, RetryFails, Pending, Progress, Verdicts
  <2>2. ps[f].alloc /\ ps'[f].alloc /\ OnPortOf(f)' = OnPortOf(f)
    BY <1>1, <1>3, <2>1 DEF Verdict, OnPortOf
  <2>3. ps'[f].failed => ps[f].failed \/ inj'[f].st = "failed"
    BY <1>2
  <2> QED
    BY <1>1, <1>2, <1>3, <2>1, <2>2, <2>3 DEF Verdict, Alone
<1> QED
  BY <1>5, <1>6, <1>7, <1>8 DEF Verdicts

\* Steps that touch none of it.
LEMMA SwitchKeepsTraffic ==
    ASSUME TrafficInv, StopListening \/ StopInjector \/ UNCHANGED vars
    PROVE  TrafficInv'
<1>1. UNCHANGED <<ps, inj, pkt, held, pc, att, port, registered, sock, wire, acked, rst>>
  BY DEF StopListening, StopInjector, Stop, vars, injectorVars, attemptVars, registryVars,
         socketVars, envVars
<1> QED
  BY <1>1 DEF TrafficInv, Settled, Queued, Sourced, PacketOf, Verdicts, Verdict, Alone, OnPortOf

\* Where own packets are told from others by the local address, the invariant is inductive.
LEMMA TrafficHolds ==
    ASSUME LocalIPKnown
    PROVE  SafetySpec => [](Inv /\ RecoveryInv /\ TrafficInv)
<1>1. Init => Inv /\ RecoveryInv /\ TrafficInv
  <2>1. Init => Inv /\ RecoveryInv
    BY ConnInitInv, InjectorInitInv, RecoveryInit DEF Inv, Init
  <2>2. Init => TrafficInv
    BY DEF Init, InjectorInit, UnusedPortState, NoInjection, TrafficInv, Settled,
           Connected, Queued, Verdicts, Verdict
  <2> QED
    BY <2>1, <2>2
<1>2. Inv /\ RecoveryInv /\ TrafficInv /\ [Next]_vars => (Inv /\ RecoveryInv /\ TrafficInv)'
  <2> SUFFICES ASSUME Inv, RecoveryInv, TrafficInv, [Next]_vars
               PROVE  (Inv /\ RecoveryInv /\ TrafficInv)'
    OBVIOUS
  <2>1. Inv' /\ RecoveryInv'
    BY ForwarderStepInv, RecoveryStep
  <2>2. ASSUME NEW f \in Flows, ConnStep(f) \/ Accept(f) \/ RelayEnds(f)
        PROVE  TrafficInv'
    BY <2>1, <2>2, ConnKeepsCredits, ConnStaysSettled, ConnKeepsQueue
    DEF Inv, RecoveryInv, TrafficInv
  <2> SUFFICES TrafficInv'
    BY <2>1
  <2>3. CASE ReceiveCaptured \/ InjectorStep
    BY <2>3, ReceiveKeepsTraffic, HandlePacketKeepsTraffic, LookupKeepsTraffic,
       InjectKeepsTraffic DEF InjectorStep, Sniff
  <2>4. CASE Environment
    BY <2>2, <2>4, NetworkKeepsTraffic, SwitchKeepsTraffic DEF Environment
  <2>5. CASE UNCHANGED vars
    BY <2>5, SwitchKeepsTraffic
  <2> QED
    BY <2>1, <2>2, <2>3, <2>4, <2>5 DEF Next, Finished
<1> QED
  BY <1>1, <1>2, PTL DEF SafetySpec

\* A confirmed flow shared its port with a connection whose handshake the upstream has
\* acknowledged again, be it eager or not: late packets on a reused port are the only ones of
\* others that count.
THEOREM ConfirmationIsUpstreams ==
    ASSUME LocalIPKnown
    PROVE  SafetySpec => []ConfirmedByUpstream
<1>1. TrafficInv => ConfirmedByUpstream
  BY DEF TrafficInv, Verdicts, Verdict, ConfirmedByUpstream
<1> QED
  BY <1>1, TrafficHolds, PTL

\* In wrong_seq a flow fails by a reset, by its own injection, or after it has shared its
\* port with another connection: nothing else that the sniffer sees can fail it.
THEOREM FailureIsItsOwn ==
    ASSUME LocalIPKnown
    PROVE  SafetySpec => []FailureIsOwn
<1>1. TrafficInv => FailureIsOwn
  BY DEF TrafficInv, Verdicts, Verdict, Alone, FailureIsOwn
<1> QED
  BY <1>1, TrafficHolds, PTL

-----------------------------------------------------------------------------
(* What must happen                                                          *)

Over(f) == pc[f] \in {"relay", "done"}
Busy(f) == pc[f] \notin {"idle", "relay", "done"}

\* How many steps the goroutine has at most until its attempt ends. Only the reservation
\* loop and the writes take more than one step at a place, and tries and sent count them.
Rank(f) ==
    CASE pc[f] = "read" -> 19
      [] pc[f] = "attempt" -> 18
      [] pc[f] = "reserve" -> 17 - 2 * tries[f]
      [] pc[f] = "register" -> 16 - 2 * tries[f]
      [] pc[f] = "dial" -> 11
      [] pc[f] = "dialing" -> 10
      [] pc[f] = "apply" -> 9
      [] pc[f] = "wait" -> 8
      [] pc[f] = "write" -> IF sent[f] = "none" THEN 7 ELSE IF sent[f] = "decoy" THEN 6 ELSE 5
      [] pc[f] = "refused" -> 4
      [] pc[f] \in {"fallback", "count"} -> 3
      [] pc[f] \in {"success", "drop", "critical"} -> 2
      [] OTHER -> 1

\* The reservation loop counts down from 17, everything else is a number.
LEMMA RankInRange ==
    ASSUME ConnInv, AttemptTypes, NEW f \in Flows
    PROVE  Rank(f) \in 1 .. 19
<1>1. tries[f] \in 0 .. 2
  BY DEF AttemptTypes
<1>2. 17 - 2 * tries[f] \in 1 .. 19 /\ 16 - 2 * tries[f] \in 1 .. 19
  BY <1>1
<1>3. CASE pc[f] \in {"reserve", "register"}
  BY <1>2, <1>3 DEF Rank
<1>4. CASE pc[f] \notin {"reserve", "register"}
  BY <1>4 DEF Rank
<1> QED
  BY <1>3, <1>4

\* What one step of the goroutine achieves.
Advances(f) ==
    \/ att'[f] = att[f] + 1
    \/ Over(f)'
    \/ att'[f] = att[f] /\ Busy(f)' /\ Rank(f)' < Rank(f)

\* Registering the port, at most three times.
LEMMA ReservingAdvances ==
    ASSUME ConnInv, AttemptTypes, NEW f \in Flows,
           \/ ResolveOk(f) \/ \E p \in Ports : Reserve(f, p)
           \/ Register(f) \/ RegisterRefused(f)
    PROVE  Advances(f)
<1> USE DEF ConnInv, ConnTypes, AttemptTypes, Goto, Busy, Advances
<1>0. tries[f] \in 0 .. 2
  OBVIOUS
<1>1. CASE ResolveOk(f)
  <2>1. pc[f] = "attempt" /\ pc'[f] \in {"reserve", "dial"} /\ att' = att /\ tries' = tries
    BY <1>1 DEF ResolveOk
  <2> QED
    BY <1>0, <2>1 DEF Rank
<1>2. ASSUME NEW p \in Ports, Reserve(f, p) PROVE Advances(f)
  <2>1. pc[f] = "reserve" /\ pc'[f] = "register" /\ att' = att /\ tries' = tries
    BY <1>2 DEF Reserve, attemptVars
  <2> QED
    BY <1>0, <2>1 DEF Rank
<1>3. CASE Register(f)
  <2>1. pc[f] = "register" /\ pc'[f] = "dial" /\ att' = att /\ tries' = tries
    BY <1>3 DEF Register, attemptVars
  <2> QED
    BY <1>0, <2>1 DEF Rank
<1>4. CASE RegisterRefused(f)
  <2>1. CASE NextAttempt(f)
    BY <2>1 DEF NextAttempt
  <2>2. CASE ~NextAttempt(f)
    <3>1. pc[f] = "register" /\ pc'[f] = "reserve" /\ att' = att /\ tries'[f] = tries[f] + 1
      BY <1>4, <2>2 DEF RegisterRefused
    <3> QED
      BY <1>0, <3>1 DEF Rank
  <2> QED
    BY <2>1, <2>2
<1> QED
  BY <1>1, <1>2, <1>3, <1>4

\* Dialing, the wait, the writes and what follows them only go on.
LEMMA ConnAdvances ==
    ASSUME ConnInv, AttemptTypes, NEW f \in Flows, ConnStep(f)
    PROVE  Advances(f)
<1> USE DEF ConnInv, ConnTypes, AttemptTypes, Goto, Busy, Over, Advances, attemptVars, socketVars
<1>1. CASE ReadFails(f) \/ ReadFirst(f)
  BY <1>1 DEF ReadFails, ReadFirst, Rank
<1>2. CASE ResolveFails(f) \/ ReserveFails(f) \/ Undial(f) \/ CloseAndRetry(f)
  BY <1>2 DEF ResolveFails, ReserveFails, Undial, CloseAndRetry, NextAttempt
<1>3. CASE Dial(f) \/ DialOk(f) \/ DialFails(f) \/ StartApply(f)
  BY <1>3 DEF Dial, DialOk, DialFails, StartApply, Rank
<1>4. CASE WaitReturns(f)
  BY <1>4 DEF WaitReturns, AfterWait, Rank
<1>5. CASE WritePart(f)
  BY <1>5 DEF WritePart, HelloDue, Rank
<1>6. CASE WriteAll(f) \/ WriteFails(f)
  BY <1>6 DEF WriteAll, WriteFails, Rank
<1>7. CASE Refused(f) \/ CloseAndDrop(f) \/ Fallback(f)
  BY <1>7 DEF Refused, CloseAndDrop, Fallback, Rank
<1>8. CASE Exhausted(f) \/ CountFailure(f) \/ AskRestart(f)
  BY <1>8 DEF Exhausted, CountFailure, AskRestart, Rank
<1>9. CASE ResetStreak(f) \/ Rearm(f) \/ Return(f)
  BY <1>9 DEF ResetStreak, Rearm, Return, Rank
<1> QED
  BY <1>1, <1>2, <1>3, <1>4, <1>5, <1>6, <1>7, <1>8, <1>9, ReservingAdvances DEF ConnStep

\* Nobody else moves a connection.
LEMMA OthersWait ==
    ASSUME ConnInv, AttemptTypes, [Next]_vars, NEW f \in Flows, Busy(f)
    PROVE  \/ ConnStep(f)
           \/ pc'[f] = pc[f] /\ att'[f] = att[f] /\ tries'[f] = tries[f] /\ sent'[f] = sent[f]
<1>1. ASSUME NEW g \in Flows \ {f}, ConnStep(g) \/ Accept(g) \/ RelayEnds(g)
      PROVE  pc'[f] = pc[f] /\ att'[f] = att[f] /\ tries'[f] = tries[f] /\ sent'[f] = sent[f]
  <2>1. tries' = tries \/ \E n \in Nat : tries' = [tries EXCEPT ![g] = n]
    <3> USE DEF AttemptTypes, attemptVars
    <3>1. CASE Accept(g) \/ ReadFails(g) \/ ReadFirst(g) \/ ResolveOk(g) \/ \E p \in Ports : Reserve(g, p)
      BY <3>1 DEF Accept, ReadFails, ReadFirst, ResolveOk, Reserve
    <3>2. CASE ResolveFails(g) \/ ReserveFails(g) \/ Undial(g) \/ CloseAndRetry(g)
      BY <3>2 DEF ResolveFails, ReserveFails, Undial, CloseAndRetry, NextAttempt
    <3>3. CASE RegisterRefused(g)
      BY <3>3 DEF RegisterRefused, NextAttempt
    <3>4. CASE Register(g) \/ Dial(g) \/ DialOk(g) \/ DialFails(g) \/ StartApply(g) \/ WaitReturns(g)
      BY <3>4 DEF Register, Dial, DialOk, DialFails, StartApply, WaitReturns
    <3>5. CASE WritePart(g) \/ WriteAll(g) \/ WriteFails(g) \/ Refused(g) \/ CloseAndDrop(g) \/ Fallback(g)
      BY <3>5 DEF WritePart, WriteAll, WriteFails, Refused, CloseAndDrop, Fallback
    <3>6. CASE \/ Exhausted(g) \/ CountFailure(g) \/ AskRestart(g) \/ ResetStreak(g) \/ Rearm(g)
               \/ RelayEnds(g) \/ Return(g)
      BY <3>6 DEF Exhausted, CountFailure, AskRestart, ResetStreak, Rearm, RelayEnds, Return
    <3> QED
      BY <1>1, <3>1, <3>2, <3>3, <3>4, <3>5, <3>6 DEF ConnStep
  <2>2. tries'[f] = tries[f]
    BY <2>1 DEF AttemptTypes
  <2> QED
    BY <1>1, <2>2, StepIsLocal
<1>2. ~Accept(f) /\ ~RelayEnds(f)
  BY DEF Busy, Accept, RelayEnds, Goto
<1>3. CASE \/ ReceiveCaptured \/ InjectorStep \/ ForeignPacket \/ StopListening \/ StopInjector
           \/ UNCHANGED vars
           \/ \E g \in Flows : ServerAck(g) \/ ServerRst(g) \/ KernelAck(g)
  BY <1>3 DEF ReceiveCaptured, InjectorStep, ForeignPacket, StopListening, StopInjector, ServerAck,
              ServerRst, KernelAck, vars, attemptVars, socketVars
<1> QED
  BY <1>1, <1>2, <1>3 DEF Next, Environment, Finished

\* Attempt k of f is over, or within n steps of it.
Near(f, k, n) == Over(f) \/ att[f] > k \/ (Busy(f) /\ att[f] = k /\ Rank(f) <= n)

Nearer(f, k, m, n) == Near(f, k, m) ~> Near(f, k, n)

\* A goroutine that is neither idle, relaying nor done can always go on.
ConnCanStep(f) == [](Busy(f) => ENABLED <<ConnStep(f)>>_vars)

\* One step of the goroutine, which nobody can keep from it, brings the end nearer.
LEMMA OneStepNearer ==
    ASSUME NEW f \in Flows, NEW k \in Nat, NEW m \in 1 .. 19, NEW n \in 0 .. 18, m = n + 1
    PROVE  SafetySpec /\ ConnFairness(f) /\ ConnCanStep(f) => Nearer(f, k, m, n)
<1> DEFINE Good == Inv /\ RecoveryInv
           There == Over(f) \/ att[f] > k
           Close == Busy(f) /\ att[f] = k /\ Rank(f) <= m
           Closer == Busy(f) /\ att[f] = k /\ Rank(f) <= n
           Moving == Busy(f)
<1>0. Good => ConnInv /\ AttemptTypes /\ att[f] \in Nat /\ Rank(f) \in Nat
  <2> SUFFICES ASSUME Good PROVE ConnInv /\ AttemptTypes /\ att[f] \in Nat /\ Rank(f) \in Nat
    OBVIOUS
  <2>1. ConnInv /\ AttemptTypes
    BY DEF Inv, RecoveryInv
  <2>2. Rank(f) \in 1 .. 19
    BY <2>1, RankInRange
  <2>3. Rank(f) \in Nat
    BY <2>2
  <2> QED
    BY <2>1, <2>3 DEF ConnInv, ConnTypes
<1>p. Good' => (Rank(f) \in Nat)'
  BY <1>0, PTL
<1>1. Good /\ Good' /\ [Next]_vars /\ Close => There' \/ Close'
  <2> SUFFICES ASSUME Good, Good', [Next]_vars, Close PROVE There' \/ Close'
    OBVIOUS
  <2>0. Rank(f)' \in Nat
    BY <1>p
  <2>1. CASE ConnStep(f)
    BY <1>0, <2>0, <2>1, ConnAdvances DEF Advances
  <2>2. CASE ~ConnStep(f)
    <3>1. pc'[f] = pc[f] /\ att'[f] = att[f] /\ tries'[f] = tries[f] /\ sent'[f] = sent[f]
      BY <1>0, <2>2, OthersWait
    <3>2. Rank(f)' = Rank(f) /\ Busy(f)'
      BY <3>1 DEF Rank, Busy
    <3> QED
      BY <3>1, <3>2
  <2> QED
    BY <2>1, <2>2
<1>2. Good /\ Good' /\ <<ConnStep(f)>>_vars /\ Close => There' \/ Closer'
  <2> SUFFICES ASSUME Good, Good', ConnStep(f), Close PROVE There' \/ Closer'
    OBVIOUS
  <2>0. Rank(f)' \in Nat
    BY <1>p
  <2> QED
    BY <1>0, <2>0, ConnAdvances DEF Advances
<1>3. /\ Close => Moving
      /\ (Near(f, k, m) <=> There \/ Close) /\ (Near(f, k, n) <=> There \/ Closer)
      /\ (Busy(f) <=> Moving)
  BY DEF Near
<1>4. SafetySpec => [][Next]_vars /\ []Good
  BY RecoveryHolds, PTL DEF SafetySpec
<1> HIDE DEF Good, There, Close, Closer, Moving
<1> QED
  BY <1>1, <1>2, <1>3, <1>4, PTL DEF ConnFairness, ConnCanStep, Nearer

Ends(f, k) == (Busy(f) /\ att[f] = k) ~> (Over(f) \/ att[f] > k)

\* Rank can fall nineteen times.
LEMMA AttemptOver ==
    ASSUME NEW f \in Flows, NEW k \in Nat
    PROVE  SafetySpec /\ ConnFairness(f) /\ ConnCanStep(f) => Ends(f, k)
<1> DEFINE At == Busy(f) /\ att[f] = k
           There == Over(f) \/ att[f] > k
           Good == Inv /\ RecoveryInv
           Go == SafetySpec /\ ConnFairness(f) /\ ConnCanStep(f)
<1>1. Good => (At => Near(f, k, 19)) /\ (Near(f, k, 0) => There)
  <2> SUFFICES ASSUME Good PROVE (At => Near(f, k, 19)) /\ (Near(f, k, 0) => There)
    OBVIOUS
  <2>1. Rank(f) \in 1 .. 19
    BY RankInRange DEF Inv, RecoveryInv
  <2>2. Rank(f) <= 19 /\ ~(Rank(f) <= 0)
    BY <2>1
  <2> QED
    BY <2>2 DEF Near
<1>2. Go => /\ Nearer(f, k, 19, 18) /\ Nearer(f, k, 18, 17) /\ Nearer(f, k, 17, 16)
            /\ Nearer(f, k, 16, 15) /\ Nearer(f, k, 15, 14) /\ Nearer(f, k, 14, 13)
            /\ Nearer(f, k, 13, 12) /\ Nearer(f, k, 12, 11) /\ Nearer(f, k, 11, 10)
            /\ Nearer(f, k, 10, 9) /\ Nearer(f, k, 9, 8) /\ Nearer(f, k, 8, 7)
            /\ Nearer(f, k, 7, 6) /\ Nearer(f, k, 6, 5) /\ Nearer(f, k, 5, 4)
            /\ Nearer(f, k, 4, 3) /\ Nearer(f, k, 3, 2) /\ Nearer(f, k, 2, 1)
            /\ Nearer(f, k, 1, 0)
  BY OneStepNearer
<1>3. SafetySpec => []Good
  BY RecoveryHolds, PTL
<1>4. /\ (Busy(f) /\ att[f] = k <=> At)
      /\ (Over(f) \/ att[f] > k <=> There)
  OBVIOUS
<1> HIDE DEF At, There, Good
<1> QED
  BY <1>1, <1>2, <1>3, <1>4, PTL DEF Nearer, Ends

\* Every attempt ends: handleConn goes on to the next one, relays or returns, however many
\* endpoints there are and whatever the other goroutines, the injector and the network do.
EveryAttemptEnds == \A f \in Flows, k \in Nat : Ends(f, k)

\* Of the attempts there are at most as many as endpoints.
THEOREM AttemptsEnd == Spec /\ (\A f \in Flows : ConnCanStep(f)) => EveryAttemptEnds
<1>1. Spec => SafetySpec /\ \A f \in Flows : ConnFairness(f)
  BY PTL DEF Spec, Fairness
<1> QED
  BY <1>1, AttemptOver DEF EveryAttemptEnds

\* One endpoint means one attempt.
LEMMA ConnectionOver ==
    ASSUME NEndpoints = 1, NEW f \in Flows
    PROVE  SafetySpec /\ ConnFairness(f) /\ ConnCanStep(f)
             => (pc[f] = "read" ~> pc[f] \in {"relay", "done"})
<1> DEFINE Good == Inv /\ RecoveryInv
           First == Busy(f) /\ att[f] = 0
           Given == Busy(f) /\ att[f] = 1
           Begun == att[f] > 0
           Beyond == att[f] > 1
           Ended == Over(f)
           Go == SafetySpec /\ ConnFairness(f) /\ ConnCanStep(f)
<1>1. Go => Ends(f, 0) /\ Ends(f, 1)
  BY AttemptOver
<1>2. /\ (Busy(f) /\ att[f] = 0 <=> First) /\ (Over(f) \/ att[f] > 0 <=> Ended \/ Begun)
      /\ (Busy(f) /\ att[f] = 1 <=> Given) /\ (Over(f) \/ att[f] > 1 <=> Ended \/ Beyond)
  OBVIOUS
<1>3. Good => /\ pc[f] = "read" => First
              /\ Begun => Given \/ Ended
              /\ ~Beyond
  <2> SUFFICES ASSUME Good
               PROVE  /\ pc[f] = "read" => First
                      /\ Begun => Given \/ Ended
                      /\ ~Beyond
    OBVIOUS
  <2>1. att[f] \in 0 .. 1
    BY OneAttemptPerEndpoint DEF RecoveryInv, AttemptTypes
  <2>2. pc[f] \in {"idle", "read"} => att[f] = 0
    BY DEF RecoveryInv, Attempts, AttemptsOf, Unread
  <2> QED
    BY <2>1, <2>2 DEF Busy, Over
<1>4. pc[f] \in {"relay", "done"} <=> Ended
  BY DEF Over
<1>5. SafetySpec => []Good
  BY RecoveryHolds, PTL
<1> HIDE DEF Good, First, Given, Begun, Beyond, Ended
<1> QED
  BY <1>1, <1>2, <1>3, <1>4, <1>5, PTL DEF Ends

\* With one endpoint, as always with an injector, every accepted connection whose first
\* data is awaited ends up relayed or closed.
THEOREM ConnectionsEnd ==
    Spec /\ (\A f \in Flows : ConnCanStep(f)) /\ NEndpoints = 1 => ConnectionsSettle
<1> SUFFICES ASSUME NEndpoints = 1
             PROVE  Spec /\ (\A f \in Flows : ConnCanStep(f)) => ConnectionsSettle
  OBVIOUS
<1>1. Spec => SafetySpec /\ \A f \in Flows : ConnFairness(f)
  BY PTL DEF Spec, Fairness
<1> QED
  BY <1>1, ConnectionOver DEF ConnectionsSettle

====
