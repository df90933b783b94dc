---- MODULE ForwarderProofs ----
(***************************************************************************)
(* What holds of the forwarder for any number of connections and ports and *)
(* any traffic: it uses the injector as RawInjector allows, a connection   *)
(* only ever waits on its own entry, nothing is left behind, and wrong_seq *)
(* writes nothing before confirmation.                                     *)
(***************************************************************************)
EXTENDS Forwarder, RawInjectorProofs, SequenceTheorems

\* Types of the connection variables the arguments below need.
ConnTypes ==
    /\ pc \in [Flows -> PCs]
    /\ att \in [Flows -> Nat]
    /\ port \in [Flows -> Ports \cup {NoPort}]
    /\ registered \in [Flows -> BOOLEAN]
    /\ target \in [Flows -> Flows \cup {NoFlow}]
    /\ sock \in [Flows -> {"none", "syn", "open", "reset", "closed"}]
    /\ sent \in [Flows -> {"none", "decoy", "part", "all"}]
    /\ wire \in Seq(Packets)

LiveSock == {"syn", "open", "reset"}

\* From RegisterPort's success to the cleanup after Apply.
Owning == {"dial", "dialing", "undial", "apply", "wait", "write", "refused"}

\* Between dialing and the close of the upstream socket.
Connected == {"dialing", "apply", "wait", "write", "refused", "next", "drop", "fallback",
              "success", "rearm", "relay"}

\* The stages in which the deferred cleanup's flag is down.
Unowned == {"idle", "read", "attempt", "reserve", "register", "next", "drop", "fallback",
            "count", "critical", "done"}

\* An entry of the registry is exactly the port of a connection whose flag is up.
Registry ==
    \A f \in Flows, p \in Ports : ports[p] = f <=> registered[f] /\ port[f] = p

Stages ==
    \A f \in Flows :
        /\ pc[f] \in Owning /\ UseInjector => registered[f]
        /\ pc[f] \in Unowned => ~registered[f]
        /\ registered[f] => port[f] \in Ports
        /\ pc[f] \in {"register", "dial"} /\ UseInjector => port[f] \in Ports
        /\ sock[f] \in LiveSock => pc[f] \in Connected
        /\ sock[f] \in LiveSock /\ UseInjector => port[f] \in Ports
        /\ pc[f] = "wait" => target[f] = f
        /\ pc[f] \in {"reserve", "register"} => UseInjector

\* wrong_seq is past its gate only with a confirmation.
Gated ==
    Strategy = "wrong_seq" =>
        \A f \in Flows :
            /\ pc[f] \notin {"next", "fallback"}
            /\ sent[f] = "none" \/ pc[f] \in {"success", "rearm", "relay", "unregister", "done"}
            /\ sent[f] # "none" \/ pc[f] \in {"write", "success", "rearm", "relay"}
               => ps[f].confirmed

ConnInv == ConnTypes /\ Registry /\ Stages /\ Gated

\* With an injector there is one endpoint, and one attempt.
LEMMA OneAttempt == UseInjector => TotalAttempts = 1
  BY EndpointAssumption DEF TotalAttempts, Retries

\* No connection has a port at the start.
LEMMA ConnInitInv == Init => ConnInv
<1> SUFFICES ASSUME Init PROVE ConnInv
  OBVIOUS
<1>1. ConnTypes
  BY DEF Init, ConnTypes, PCs
<1>2. Registry
  BY FlowAssumption, PortAssumption DEF Init, InjectorInit, Registry
<1>3. Stages
  BY DEF Init, Stages, Owning, Unowned, LiveSock
<1>4. Gated
  BY DEF Init, Gated
<1> QED
  BY <1>1, <1>2, <1>3, <1>4 DEF ConnInv

\* The capture queue only ever holds packets.
LEMMA CaptureKeepsType ==
    ASSUME wire \in Seq(Packets), NEW k \in Packets, Capture(k)
    PROVE  wire' \in Seq(Packets)
<1>1. Append(wire, k) \in Seq(Packets)
  OBVIOUS
<1> QED
  BY <1>1 DEF Capture

\* Every packet the kernel shows the capture socket is one of Packets.
LEMMA CapturedIsPacket ==
    ASSUME ConnInv, NEW f \in Flows, NEW d \in {"out", "in"}, NEW kind \in {"syn", "ack", "rst"},
           NEW n \in Seqs, UseInjector => port[f] \in Ports, Captured(d, kind, f, n)
    PROVE  wire' \in Seq(Packets)
<1>1. CASE UseInjector
  <2>1. Segment(d, kind, f, n) \in Packets
    BY <1>1 DEF Segment, Packets
  <2> QED
    BY <1>1, <2>1, CaptureKeepsType DEF Captured, ConnInv, ConnTypes
<1>2. CASE ~UseInjector
  BY <1>2 DEF Captured, ConnInv, ConnTypes
<1> QED
  BY <1>1, <1>2

\* Actions that leave registry, sockets and written bytes alone.
LEMMA QuietStepInv ==
    ASSUME ConnInv, NEW f \in Flows,
           \/ Accept(f) \/ ReadFails(f) \/ ReadFirst(f) \/ ResolveFails(f) \/ ResolveOk(f)
           \/ ReserveFails(f) \/ RegisterRefused(f) \/ WaitReturns(f) \/ WriteFails(f)
           \/ Exhausted(f) \/ CountFailure(f) \/ AskRestart(f) \/ ResetStreak(f) \/ Rearm(f)
    PROVE  ConnInv'
<1> USE DEF ConnInv
<1>1. PICK to \in PCs : pc' = [pc EXCEPT ![f] = to]
  BY DEF Accept, ReadFails, ReadFirst, ResolveFails, ResolveOk, ReserveFails, RegisterRefused,
         WaitReturns, WriteFails, Exhausted, CountFailure, AskRestart, ResetStreak, Rearm,
         Goto, PCs, AfterWait
<1>2. UNCHANGED <<injectorVars, registryVars, socketVars, wire>>
  BY DEF Accept, ReadFails, ReadFirst, ResolveFails, ResolveOk, ReserveFails, RegisterRefused,
         WaitReturns, WriteFails, Exhausted, CountFailure, AskRestart, ResetStreak, Rearm,
         envVars
<1>3. ConnTypes'
  <2>1. att' \in [Flows -> Nat]
    BY DEF ConnTypes, Accept, ReadFails, ReadFirst, ResolveFails, ResolveOk, ReserveFails,
           RegisterRefused, WaitReturns, WriteFails, Exhausted, CountFailure, AskRestart,
           ResetStreak, Rearm, NextAttempt, attemptVars
  <2> QED
    BY <1>1, <1>2, <2>1 DEF ConnTypes, registryVars, socketVars
<1>4. Registry'
  BY <1>2 DEF Registry, injectorVars, registryVars
<1>5. Stages' /\ Gated'
  <2> USE <1>1, <1>2 DEF injectorVars, registryVars, socketVars, ConnTypes, Goto, Stages, Gated,
                         Owning, Unowned, LiveSock, Connected
  <2>1. CASE Accept(f)
    BY <2>1 DEF Accept
  <2>2. CASE ReadFails(f)
    BY <2>2 DEF ReadFails
  <2>3. CASE ReadFirst(f)
    BY <2>3 DEF ReadFirst
  <2>4. CASE ResolveFails(f)
    BY <2>4 DEF ResolveFails, Trying
  <2>5. CASE ResolveOk(f)
    BY <2>5 DEF ResolveOk, Trying
  <2>6. CASE ReserveFails(f)
    BY <2>6 DEF ReserveFails
  <2>7. CASE RegisterRefused(f)
    BY <2>7 DEF RegisterRefused
  <2>8. CASE WaitReturns(f)
    BY <2>8 DEF WaitReturns, AfterWait, WaitOutcomes
  <2>9. CASE WriteFails(f)
    BY <2>9 DEF WriteFails
  <2>10. CASE Exhausted(f)
    BY <2>10 DEF Exhausted
  <2>11. CASE CountFailure(f)
    BY <2>11 DEF CountFailure
  <2>12. CASE AskRestart(f)
    BY <2>12 DEF AskRestart
  <2>13. CASE ResetStreak(f)
    BY <2>13 DEF ResetStreak
  <2>14. CASE Rearm(f)
    BY <2>14 DEF Rearm
  <2> QED
    BY <2>1, <2>2, <2>3, <2>4, <2>5, <2>6, <2>7, <2>8, <2>9, <2>10, <2>11, <2>12, <2>13, <2>14
<1> QED
  BY <1>3, <1>4, <1>5

\* Actions that change the socket, what was written or the looked-up entry.
LEMMA SocketStepInv ==
    ASSUME ConnInv, NEW f \in Flows,
           \/ Dial(f) \/ DialOk(f) \/ DialFails(f) \/ StartApply(f)
           \/ WritePart(f) \/ WriteAll(f) \/ CloseAndRetry(f) \/ CloseAndDrop(f)
           \/ Fallback(f) \/ RelayEnds(f)
    PROVE  ConnInv'
<1> USE DEF ConnInv
<1>1. UNCHANGED <<injectorVars, port, registered>>
  BY DEF Dial, DialOk, DialFails, StartApply, WritePart, WriteAll, CloseAndRetry, CloseAndDrop,
         Fallback, RelayEnds, registryVars
<1>2. Registry'
  BY <1>1 DEF Registry, injectorVars
<1> SUFFICES ConnTypes' /\ Stages' /\ Gated'
  BY <1>2
<1>13. att' \in [Flows -> Nat]
  BY DEF ConnTypes, Dial, DialOk, DialFails, StartApply, WritePart, WriteAll, CloseAndRetry,
         CloseAndDrop, Fallback, RelayEnds, NextAttempt, attemptVars
<1> USE <1>1, <1>13 DEF injectorVars, registryVars, socketVars, envVars, Goto
<1>3. CASE Dial(f)
  <2>1. ConnTypes'
    <3>1. Isn[f] \in Seqs /\ (UseInjector => port[f] \in Ports)
      BY <1>3, NetworkAssumption DEF Dial, Stages
    <3>2. wire' \in Seq(Packets)
      BY <1>3, <3>1, CapturedIsPacket DEF Dial
    <3> QED
      BY <1>3, <3>2 DEF Dial, ConnTypes, PCs
  <2>2. Stages'
    BY <1>3 DEF Dial, ConnTypes, Stages, Owning, Unowned, LiveSock, Connected
  <2>3. Gated'
    BY <1>3 DEF Dial, ConnTypes, Gated
  <2> QED
    BY <2>1, <2>2, <2>3
<1>4. CASE DialOk(f)
  <2>1. ConnTypes'
    <3>1. SeqAdd(Isn[f], 1) \in Seqs /\ (UseInjector => port[f] \in Ports)
      BY <1>4, NetworkAssumption, SeqAssumption DEF DialOk, Stages, LiveSock, SeqAdd, Seqs
    <3>2. wire' \in Seq(Packets)
      BY <1>4, <3>1, CapturedIsPacket DEF DialOk
    <3> QED
      BY <1>4, <3>2 DEF DialOk, ConnTypes, PCs
  <2>2. Stages'
    BY <1>4 DEF DialOk, ConnTypes, Stages, Owning, Unowned, LiveSock, Connected
  <2>3. Gated'
    BY <1>4 DEF DialOk, ConnTypes, Gated
  <2> QED
    BY <2>1, <2>2, <2>3
<1>5. CASE DialFails(f)
  <2>1. ConnTypes'
    BY <1>5 DEF DialFails, ConnTypes, PCs
  <2>2. Stages'
    BY <1>5 DEF DialFails, ConnTypes, Stages, Owning, Unowned, LiveSock, Connected
  <2>3. Gated'
    BY <1>5 DEF DialFails, ConnTypes, Gated
  <2> QED
    BY <2>1, <2>2, <2>3
<1>6. CASE StartApply(f)
  <2>1. target' = [target EXCEPT ![f] = IF Waits THEN f ELSE NoFlow]
    <3>1. CASE Waits
      <4>1. registered[f] /\ port[f] \in Ports
        BY <1>6, <3>1 DEF StartApply, Waits, Stages, Owning
      <4>2. ports[port[f]] = f
        BY <4>1 DEF Registry
      <4> QED
        BY <1>6, <3>1, <4>2 DEF StartApply
    <3>2. CASE ~Waits
      BY <1>6, <3>2 DEF StartApply
    <3> QED
      BY <3>1, <3>2
  <2>2. pc' = [pc EXCEPT ![f] = IF Waits THEN "wait" ELSE "write"] /\ pc[f] = "apply"
    BY <1>6 DEF StartApply
  <2>3. UNCHANGED <<sock, sent, wire>>
    BY <1>6 DEF StartApply
  <2>4. Strategy = "wrong_seq" => Waits
    BY StrategyAssumption DEF Waits
  <2>5. ConnTypes'
    BY <2>1, <2>2, <2>3 DEF ConnTypes, PCs
  <2>6. Stages'
    BY <2>1, <2>2, <2>3 DEF ConnTypes, Stages, Owning, Unowned, LiveSock, Connected
  <2>7. Gated'
    BY <2>2, <2>3, <2>4 DEF ConnTypes, Gated
  <2> QED
    BY <2>5, <2>6, <2>7
<1>7. CASE WritePart(f)
  <2>1. ConnTypes'
    BY <1>7 DEF WritePart, ConnTypes, PCs
  <2>2. Stages'
    BY <1>7 DEF WritePart, ConnTypes, Stages, Owning, Unowned, LiveSock, Connected
  <2>3. Gated'
    BY <1>7 DEF WritePart, Splits, Decoy, ConnTypes, Gated
  <2> QED
    BY <2>1, <2>2, <2>3
<1>8. CASE WriteAll(f)
  <2>1. ConnTypes'
    BY <1>8 DEF WriteAll, ConnTypes, PCs
  <2>2. Stages'
    BY <1>8 DEF WriteAll, ConnTypes, Stages, Owning, Unowned, LiveSock, Connected
  <2>3. Gated'
    BY <1>8 DEF WriteAll, ConnTypes, Gated
  <2> QED
    BY <2>1, <2>2, <2>3
<1>9. CASE CloseAndRetry(f)
  <2>1. ConnTypes'
    BY <1>9 DEF CloseAndRetry, ConnTypes, PCs
  <2>2. Stages'
    BY <1>9 DEF CloseAndRetry, ConnTypes, Stages, Owning, Unowned, LiveSock, Connected
  <2>3. Gated'
    BY <1>9 DEF CloseAndRetry, ConnTypes, Gated
  <2> QED
    BY <2>1, <2>2, <2>3
<1>10. CASE CloseAndDrop(f)
  <2>1. ConnTypes'
    BY <1>10 DEF CloseAndDrop, ConnTypes, PCs
  <2>2. Stages'
    BY <1>10 DEF CloseAndDrop, ConnTypes, Stages, Owning, Unowned, LiveSock, Connected
  <2>3. Gated'
    BY <1>10 DEF CloseAndDrop, ConnTypes, Gated
  <2> QED
    BY <2>1, <2>2, <2>3
<1>11. CASE Fallback(f)
  <2>1. ConnTypes'
    BY <1>11 DEF Fallback, ConnTypes, PCs
  <2>2. Stages'
    BY <1>11 DEF Fallback, ConnTypes, Stages, Owning, Unowned, LiveSock, Connected
  <2>3. Gated'
    BY <1>11 DEF Fallback, ConnTypes, Gated
  <2> QED
    BY <2>1, <2>2, <2>3
<1>12. CASE RelayEnds(f)
  <2>1. ConnTypes'
    BY <1>12 DEF RelayEnds, ConnTypes, PCs
  <2>2. Stages'
    BY <1>12 DEF RelayEnds, ConnTypes, Stages, Owning, Unowned, LiveSock, Connected
  <2>3. Gated'
    BY <1>12 DEF RelayEnds, ConnTypes, Gated
  <2> QED
    BY <2>1, <2>2, <2>3
<1> QED
  BY <1>3, <1>4, <1>5, <1>6, <1>7, <1>8, <1>9, <1>10, <1>11, <1>12

\* Actions that change the registry or the reserved port.
LEMMA RegistryStepInv ==
    ASSUME ConnInv, InjectorTypeOK, NEW f \in Flows,
           \/ \E p \in Ports : Reserve(f, p)
           \/ Register(f) \/ Undial(f) \/ Refused(f) \/ Return(f)
    PROVE  ConnInv'
<1> USE DEF ConnInv, Goto, attemptVars
<1>1. ASSUME NEW p \in Ports, Reserve(f, p)
      PROVE  ConnInv'
  <2> USE <1>1 DEF Reserve, injectorVars, registryVars, socketVars, envVars
  <2>1. ConnTypes'
    BY DEF ConnTypes, PCs
  <2>2. ~registered[f]
    BY DEF Stages, Unowned
  <2>3. Registry'
    BY <2>2 DEF Registry, ConnTypes
  <2>4. Stages'
    BY <2>2 DEF ConnTypes, Stages, Owning, Unowned, LiveSock, Connected
  <2>5. Gated'
    BY DEF ConnTypes, Gated
  <2> QED
    BY <2>1, <2>3, <2>4, <2>5
<1>2. CASE Register(f)
  <2> USE <1>2 DEF Register, RegisterPort, registryVars, socketVars, envVars
  <2>1. port[f] \in Ports /\ ~registered[f]
    BY DEF Stages, Unowned
  <2>2. ConnTypes'
    BY DEF ConnTypes, PCs
  <2>3. ports' = [ports EXCEPT ![port[f]] = f] /\ ports[port[f]] = NoFlow
    OBVIOUS
  <2>4. Registry'
    BY <2>1, <2>3, FlowAssumption DEF Registry, ConnTypes, InjectorTypeOK
  <2>5. Stages'
    BY <2>1 DEF ConnTypes, Stages, Owning, Unowned, LiveSock, Connected
  <2>6. \A g \in Flows : ps'[g].confirmed = ps[g].confirmed
    BY DEF InjectorTypeOK, PortState
  <2>7. Gated'
    BY <2>6 DEF ConnTypes, Gated
  <2> QED
    BY <2>2, <2>4, <2>5, <2>7
<1>3. ASSUME Undial(f) \/ Refused(f) \/ Return(f)
      PROVE  ConnInv'
  <2>1. /\ Unregister(f)
        /\ UNCHANGED <<port, target, sock, sent, wire>>
        /\ att' \in [Flows -> Nat]
    BY <1>3 DEF Undial, Refused, Return, NextAttempt, ConnTypes, socketVars, envVars
  <2>2. PICK to \in PCs : pc' = [pc EXCEPT ![f] = to]
    BY <1>3 DEF Undial, Refused, Return, PCs
  <2>3. /\ registered' = [registered EXCEPT ![f] = FALSE]
        /\ ports' = IF registered[f] THEN [ports EXCEPT ![port[f]] = NoFlow] ELSE ports
        /\ UNCHANGED ps
    BY <2>1 DEF Unregister, CleanupPort, injectorVars
  <2>4. ConnTypes'
    BY <2>1, <2>2, <2>3 DEF ConnTypes
  <2>5. Registry'
    BY <2>1, <2>3, FlowAssumption DEF Registry, Stages, ConnTypes, InjectorTypeOK
  <2> USE <2>1, <2>2, <2>3 DEF ConnTypes, Stages, Owning, Unowned, LiveSock, Connected
  <2>6. CASE Undial(f)
    BY <2>4, <2>5, <2>6 DEF Undial, Gated
  <2>7. CASE Refused(f)
    <3>1. Strategy = "wrong_seq" => ~(att[f] + 1 < TotalAttempts)
      BY OneAttempt, StrategyAssumption
    <3> QED
      BY <2>4, <2>5, <2>7, <3>1 DEF Refused, Gated
  <2>8. CASE Return(f)
    BY <2>4, <2>5, <2>8 DEF Return, Gated
  <2> QED
    BY <1>3, <2>6, <2>7, <2>8
<1> QED
  BY <1>1, <1>2, <1>3

\* A closed confirmedC stays closed, and the goroutines leave the registry alone.
LEMMA ConfirmationIsFinal ==
    ASSUME InjectorInv, Sniff \/ \E f \in Flows : InjectStep(f)
    PROVE  /\ UNCHANGED ports
           /\ \A g \in Flows : ps[g].confirmed => ps'[g].confirmed
<1> USE DEF InjectorInv, InjectorTypeOK, PortState
<1>1. CASE Lookup \/ LookupMisses
  BY <1>1 DEF Lookup, LookupMisses
<1>2. CASE HandlePacket
  <2>1. UNCHANGED ports
    BY <1>2 DEF HandlePacket, OutboundSyn, OutboundAckIgnored, OutboundAckMismatch,
                OutboundAckTrigger, InboundAck, InboundRst, OtherPacket, Handling
  <2>2. CASE OutboundSyn
    BY <2>1, <2>2 DEF OutboundSyn
  <2>3. CASE OutboundAckIgnored \/ OtherPacket
    BY <2>1, <2>3 DEF OutboundAckIgnored, OtherPacket
  <2>4. CASE OutboundAckMismatch
    BY <2>1, <2>4 DEF OutboundAckMismatch
  <2>5. CASE OutboundAckTrigger
    BY <2>1, <2>5 DEF OutboundAckTrigger
  <2>6. CASE InboundAck
    BY <2>1, <2>6 DEF InboundAck
  <2>7. CASE InboundRst
    BY <2>1, <2>7 DEF InboundRst
  <2> QED
    BY <1>2, <2>2, <2>3, <2>4, <2>5, <2>6, <2>7 DEF HandlePacket
<1>3. ASSUME NEW f \in Flows, InjectStep(f)
      PROVE  /\ UNCHANGED ports
             /\ \A g \in Flows : ps[g].confirmed => ps'[g].confirmed
  <2>1. CASE Inject(f) \/ InjectFails(f)
    BY <2>1 DEF Inject, InjectFails
  <2>2. CASE RetryFails(f)
    <3>1. UNCHANGED ports /\ ps' = [ps EXCEPT ![f].failed = TRUE]
      BY <2>2 DEF RetryFails
    <3> QED
      BY <3>1
  <2> QED
    BY <1>3, <2>1, <2>2 DEF InjectStep
<1> QED
  BY <1>1, <1>2, <1>3 DEF Sniff

\* Steps of the injector and of the environment.
LEMMA OutsideStepInv ==
    ASSUME ConnInv, InjectorInv,
           \/ ReceiveCaptured \/ InjectorStep \/ ForeignPacket \/ StopListening \/ StopInjector
           \/ \E f \in Flows : ServerAck(f) \/ ServerRst(f) \/ KernelAck(f)
    PROVE  ConnInv'
<1> USE DEF ConnInv, attemptVars, registryVars, socketVars, envVars
<1>1. CASE ReceiveCaptured
  <2>1. wire' \in Seq(Packets)
    BY <1>1 DEF ReceiveCaptured, ConnTypes
  <2> QED
    BY <1>1, <2>1 DEF ReceiveCaptured, Receive, ConnTypes, Registry, Stages, Gated
<1>2. CASE InjectorStep
  BY <1>2, ConfirmationIsFinal DEF InjectorStep, ConnTypes, Registry, Stages, Gated
<1>3. CASE ForeignPacket
  <2>1. wire' \in Seq(Packets)
    BY <1>3, NetworkAssumption, CaptureKeepsType DEF ForeignPacket, ConnTypes
  <2> QED
    BY <1>3, <2>1 DEF ForeignPacket, injectorVars, ConnTypes, Registry, Stages, Gated
<1>4. CASE StopListening
  BY <1>4 DEF StopListening, injectorVars, ConnTypes, Registry, Stages, Gated
<1>5. CASE StopInjector
  BY <1>5 DEF StopInjector, Stop, ConnTypes, Registry, Stages, Gated
<1>6. ASSUME NEW f \in Flows, ServerAck(f) \/ KernelAck(f)
      PROVE  ConnInv'
  <2>1. SeqAdd(Isn[f], 1) \in Seqs /\ SeqAdd(Isn[f], 2) \in Seqs
    BY NetworkAssumption, SeqAssumption DEF SeqAdd, Seqs
  <2>2. UseInjector => port[f] \in Ports
    BY <1>6 DEF ServerAck, KernelAck, Stages, LiveSock
  <2>3. wire' \in Seq(Packets)
    BY <1>6, <2>1, <2>2, CapturedIsPacket DEF ServerAck, KernelAck
  <2> QED
    BY <1>6, <2>3
    DEF ServerAck, KernelAck, injectorVars, ConnTypes, Registry, Stages, Gated
<1>7. ASSUME NEW f \in Flows, ServerRst(f)
      PROVE  ConnInv'
  <2>1. SeqAdd(Isn[f], 1) \in Seqs
    BY NetworkAssumption, SeqAssumption DEF SeqAdd, Seqs
  <2>2. UseInjector => port[f] \in Ports
    BY <1>7 DEF ServerRst, Stages, LiveSock
  <2>3. wire' \in Seq(Packets)
    BY <1>7, <2>1, <2>2, CapturedIsPacket DEF ServerRst
  <2> QED
    BY <1>7, <2>3
    DEF ServerRst, injectorVars, ConnTypes, Registry, Stages, Gated, LiveSock, Connected
<1> QED
  BY <1>1, <1>2, <1>3, <1>4, <1>5, <1>6, <1>7

\* Each step of the forwarder uses the injector through its operations, or not at all.
LEMMA StepUsesInjector == ConnInv /\ [Next]_vars => [InjectorNext]_injectorVars
<1> SUFFICES ASSUME ConnInv, [Next]_vars PROVE [InjectorNext]_injectorVars
  OBVIOUS
<1>1. ASSUME NEW f \in Flows, Register(f) PROVE InjectorNext
  BY <1>1 DEF Register, Goto, ConnInv, Stages, InjectorNext
<1>2. ASSUME NEW f \in Flows, Undial(f) \/ Refused(f) \/ Return(f)
      PROVE  [InjectorNext]_injectorVars
  BY <1>2 DEF Undial, Refused, Return, Unregister, ConnInv, Stages, InjectorNext
<1>3. CASE ReceiveCaptured
  <2>1. Head(wire) \in Packets
    BY <1>3 DEF ReceiveCaptured, ConnInv, ConnTypes
  <2> QED
    BY <1>3, <2>1 DEF ReceiveCaptured, InjectorNext
<1>4. CASE InjectorStep \/ StopInjector
  BY <1>4 DEF InjectorStep, StopInjector, InjectorNext
<1>5. ASSUME NEW f \in Flows, ConnStep(f), ~Register(f), ~(Undial(f) \/ Refused(f) \/ Return(f))
      PROVE  UNCHANGED injectorVars
  BY <1>5 DEF ConnStep, ReadFails, ReadFirst, ResolveFails, ResolveOk, Reserve, ReserveFails,
      RegisterRefused, Dial, DialOk, DialFails, StartApply, WaitReturns, WritePart, WriteAll,
      WriteFails, CloseAndRetry, CloseAndDrop, Fallback, Exhausted, CountFailure, AskRestart,
      ResetStreak, Rearm
<1>6. CASE Environment /\ ~StopInjector
  BY <1>6 DEF Environment, Accept, RelayEnds, ServerAck, ServerRst, KernelAck, ForeignPacket,
              StopListening
<1>7. CASE UNCHANGED vars
  BY <1>7 DEF vars
<1> QED
  BY <1>1, <1>2, <1>3, <1>4, <1>5, <1>6, <1>7 DEF Next, Finished

Inv == ConnInv /\ InjectorInv

\* Connections and injector together.
LEMMA ForwarderStepInv == Inv /\ [Next]_vars => Inv'
<1> SUFFICES ASSUME Inv, [Next]_vars PROVE Inv'
  OBVIOUS
<1>1. InjectorInv'
  BY StepUsesInjector, InjectorStepInv DEF Inv
<1>2. ConnInv'
  <2> USE DEF Inv
  <2>1. CASE UNCHANGED vars
    BY <2>1 DEF vars, injectorVars, attemptVars, registryVars, socketVars, envVars, ConnInv, ConnTypes,
                Registry, Stages, Gated
  <2>2. ASSUME NEW f \in Flows, ConnStep(f) PROVE ConnInv'
    BY <2>2, QuietStepInv, SocketStepInv, RegistryStepInv DEF ConnStep, InjectorInv
  <2>3. CASE Environment
    BY <2>3, QuietStepInv, SocketStepInv, OutsideStepInv DEF Environment
  <2>4. CASE ReceiveCaptured \/ InjectorStep
    BY <2>4, OutsideStepInv
  <2> QED
    BY <2>1, <2>2, <2>3, <2>4 DEF Next, Finished
<1> QED
  BY <1>1, <1>2 DEF Inv

\* The inductive invariant holds in every behaviour.
LEMMA InvHolds == SafetySpec => []Inv
<1>1. Init => Inv
  BY ConnInitInv, InjectorInitInv DEF Inv, Init
<1> QED
  BY <1>1, ForwarderStepInv, PTL DEF SafetySpec

\* The forwarder is one of the callers RawInjector is specified for, so that everything
\* proved of the injector alone holds inside the forwarder.
THEOREM ForwarderUsesInjector == SafetySpec => InjectorSafetySpec
<1>1. Init => InjectorInit
  BY DEF Init
<1>2. Inv /\ [Next]_vars => [InjectorNext]_injectorVars
  BY StepUsesInjector DEF Inv
<1> QED
  BY <1>1, <1>2, InvHolds, PTL DEF SafetySpec, InjectorSafetySpec

\* A connection always waits for the confirmation of its own handshake.
THEOREM WaitIsOwn == SafetySpec => []WaitsOnOwnState
<1>1. Inv => WaitsOnOwnState
  BY DEF Inv, ConnInv, Stages, WaitsOnOwnState
<1> QED
  BY <1>1, InvHolds, PTL

\* wrong_seq never writes before confirmation.
THEOREM StrictGateHolds == SafetySpec => []StrictGate
<1>1. Inv => StrictGate
  BY DEF Inv, ConnInv, Gated, StrictGate
<1> QED
  BY <1>1, InvHolds, PTL

\* No registry entry and no open upstream socket outlives handleConn.
THEOREM NothingLeftBehind == SafetySpec => []EverythingReleased
<1>1. Inv => EverythingReleased
  BY DEF Inv, ConnInv, ConnTypes, Stages, Registry, Unowned, LiveSock, Connected,
         EverythingReleased
<1> QED
  BY <1>1, InvHolds, PTL

-----------------------------------------------------------------------------
(* wrong_seq implements the confirmation gate.                              *)

\* All gates are shut before a connection is accepted.
LEMMA GateInit == Init => Gate!Init
  BY DEF Init, InjectorInit, Gate!Init, GateOf, UnusedPortState

\* The gate of a connection depends on three values only, and one step moves at most
\* the gate of one connection, from one state to the next.
GateStep(f) ==
    \/ GateOf(f) = "shut" /\ GateOf(f)' = "unlocked"
    \/ GateOf(f) = "unlocked" /\ GateOf(f)' = "open"
    \/ GateOf(f) # "closed" /\ GateOf(f)' = "closed"
    \/ GateOf(f)' = GateOf(f)

\* A gate that moves alone makes a step of the abstract specification.
LEMMA GateStepOfOne ==
    ASSUME NEW f \in Flows, GateStep(f),
           \A g \in Flows \ {f} : GateOf(g)' = GateOf(g)
    PROVE  [Gate!Next]_([g \in Flows |-> GateOf(g)])
<1> DEFINE gate == [g \in Flows |-> GateOf(g)]
<1>1. gate' = [gate EXCEPT ![f] = GateOf(f)']
  OBVIOUS
<1>2. gate[f] = GateOf(f)
  OBVIOUS
<1>3. CASE GateOf(f)' = GateOf(f)
  BY <1>3
<1>4. CASE GateOf(f)' # GateOf(f)
  <2>1. Gate!Unlock(f) \/ Gate!Open(f) \/ Gate!Close(f)
    BY <1>1, <1>2, <1>4 DEF GateStep, Gate!Unlock, Gate!Open, Gate!Close
  <2> QED
    BY <2>1 DEF Gate!Next
<1> QED
  BY <1>3, <1>4

\* Moves of one connection's gate, by the stage its goroutine leaves and enters.
LEMMA ConnMovesGate ==
    ASSUME Strategy = "wrong_seq", Inv, NEW f \in Flows, ConnStep(f) \/ Accept(f) \/ RelayEnds(f)
    PROVE  GateStep(f) /\ \A g \in Flows \ {f} : GateOf(g)' = GateOf(g)
<1> USE DEF Inv, ConnInv, ConnTypes
<1>1. \A g \in Flows : ps'[g].confirmed = ps[g].confirmed
  <2>1. CASE Register(f)
    BY <2>1 DEF Register, RegisterPort, InjectorInv, InjectorTypeOK, PortState
  <2>2. CASE Undial(f) \/ Refused(f) \/ Return(f)
    BY <2>2 DEF Undial, Refused, Return, Unregister, CleanupPort, injectorVars
  <2>3. CASE ~(Register(f) \/ Undial(f) \/ Refused(f) \/ Return(f))
    BY <2>3 DEF ConnStep, ReadFails, ReadFirst, ResolveFails, ResolveOk, Reserve, ReserveFails,
      RegisterRefused, Dial, DialOk, DialFails, StartApply, WaitReturns, WritePart, WriteAll,
      WriteFails, CloseAndRetry, CloseAndDrop, Fallback, Exhausted, CountFailure, AskRestart,
      ResetStreak, Rearm, Accept, RelayEnds, injectorVars
  <2> QED
    BY <2>1, <2>2, <2>3
<1>2. \A g \in Flows \ {f} : pc'[g] = pc[g] /\ sent'[g] = sent[g]
  BY DEF ConnStep, ReadFails, ReadFirst, ResolveFails, ResolveOk, Reserve, ReserveFails,
      RegisterRefused, Dial, DialOk, DialFails, StartApply, WaitReturns, WritePart, WriteAll,
      WriteFails, CloseAndRetry, CloseAndDrop, Fallback, Exhausted, CountFailure, AskRestart,
      ResetStreak, Rearm, Accept, RelayEnds, Register, Undial, Refused, Return, Goto, socketVars
<1>3. \A g \in Flows \ {f} : GateOf(g)' = GateOf(g)
  BY <1>1, <1>2 DEF GateOf
<1>4. GateStep(f)
  <2>1. CASE WriteAll(f)
    BY <1>1, <2>1 DEF WriteAll, Goto, GateStep, GateOf, Gated
  <2>2. CASE WritePart(f) \/ Fallback(f) \/ CloseAndRetry(f)
    BY <2>2, StrategyAssumption DEF WritePart, Fallback, CloseAndRetry, Goto, Splits, Decoy, Gated
  <2>3. CASE Dial(f)
    BY <1>1, <2>3 DEF Dial, Goto, GateStep, GateOf, Gated
  <2>4. ASSUME ~(WriteAll(f) \/ WritePart(f) \/ Fallback(f) \/ CloseAndRetry(f) \/ Dial(f))
        PROVE  sent'[f] = sent[f] /\ pc[f] # "done"
    BY <2>4 DEF ConnStep, ReadFails, ReadFirst, ResolveFails, ResolveOk, Reserve, ReserveFails,
      RegisterRefused, DialOk, DialFails, StartApply, WaitReturns,
      WriteFails, CloseAndDrop, Exhausted, CountFailure, AskRestart,
      ResetStreak, Rearm, Accept, RelayEnds, Register, Undial, Refused, Return, Goto, socketVars,
      Trying
  <2>5. ASSUME ~(WriteAll(f) \/ WritePart(f) \/ Fallback(f) \/ CloseAndRetry(f) \/ Dial(f)),
               pc[f] \in {"count", "critical", "unregister"}
        PROVE  pc'[f] \in {"critical", "unregister", "done"}
    BY <2>5 DEF ConnStep, ReadFails, ReadFirst, ResolveFails, ResolveOk, Reserve, ReserveFails,
      RegisterRefused, DialOk, DialFails, StartApply, WaitReturns,
      WriteFails, CloseAndDrop, Exhausted, CountFailure, AskRestart,
      ResetStreak, Rearm, Accept, RelayEnds, Register, Undial, Refused, Return, Goto,
      Trying
  <2> QED
    BY <1>1, <2>1, <2>2, <2>3, <2>4, <2>5 DEF GateStep, GateOf
<1> QED
  BY <1>3, <1>4

\* An injector step closes at most one confirmedC, that of the packet's portState.
LEMMA InjectorMovesGate ==
    ASSUME InjectorInv, Sniff \/ \E f \in Flows : InjectStep(f)
    PROVE  \/ \A g \in Flows : ps'[g].confirmed = ps[g].confirmed
           \/ /\ held \in Flows
              /\ ps'[held].confirmed
              /\ \A g \in Flows \ {held} : ps'[g].confirmed = ps[g].confirmed
<1> USE DEF InjectorInv, InjectorTypeOK, PortState
<1>1. CASE Lookup \/ LookupMisses
  BY <1>1 DEF Lookup, LookupMisses
<1>2. CASE HandlePacket
  <2>1. CASE OutboundSyn
    BY <2>1 DEF OutboundSyn
  <2>2. CASE OutboundAckIgnored \/ OtherPacket
    BY <2>2 DEF OutboundAckIgnored, OtherPacket
  <2>3. CASE OutboundAckMismatch
    BY <2>3 DEF OutboundAckMismatch
  <2>4. CASE OutboundAckTrigger
    BY <2>4 DEF OutboundAckTrigger
  <2>5. CASE InboundAck
    <3>1. held \in Flows
      BY <2>5 DEF InboundAck, Handling
    <3>2. ps' = ps \/ ps' = [ps EXCEPT ![held].confirmed = TRUE]
      BY <2>5 DEF InboundAck
    <3> QED
      BY <3>1, <3>2
  <2>6. CASE InboundRst
    BY <2>6 DEF InboundRst
  <2> QED
    BY <1>2, <2>1, <2>2, <2>3, <2>4, <2>5, <2>6 DEF HandlePacket
<1>3. ASSUME NEW f \in Flows, InjectStep(f)
      PROVE  \A g \in Flows : ps'[g].confirmed = ps[g].confirmed
  <2>1. CASE Inject(f) \/ InjectFails(f)
    BY <2>1 DEF Inject, InjectFails
  <2>2. CASE RetryFails(f)
    <3>1. ps' = [ps EXCEPT ![f].failed = TRUE]
      BY <2>2 DEF RetryFails
    <3> QED
      BY <3>1
  <2> QED
    BY <1>3, <2>1, <2>2 DEF InjectStep
<1> QED
  BY <1>1, <1>2, <1>3 DEF Sniff

\* Every step of the forwarder is a gate step or leaves all gates.
LEMMA StepMovesGate ==
    Strategy = "wrong_seq" /\ Inv /\ [Next]_vars
        => [Gate!Next]_([f \in Flows |-> GateOf(f)])
<1> SUFFICES ASSUME Strategy = "wrong_seq", Inv, [Next]_vars
             PROVE  [Gate!Next]_([f \in Flows |-> GateOf(f)])
  OBVIOUS
<1>1. ASSUME NEW f \in Flows, ConnStep(f) \/ Accept(f) \/ RelayEnds(f)
      PROVE  [Gate!Next]_([g \in Flows |-> GateOf(g)])
  BY <1>1, ConnMovesGate, GateStepOfOne
<1>2. CASE InjectorStep
  <2>1. UNCHANGED <<pc, sent>>
    BY <1>2 DEF InjectorStep, socketVars
  <2>2. CASE \A g \in Flows : ps'[g].confirmed = ps[g].confirmed
    BY <2>1, <2>2 DEF GateOf
  <2>3. ASSUME NEW h \in Flows, ps'[h].confirmed,
               \A g \in Flows \ {h} : ps'[g].confirmed = ps[g].confirmed
        PROVE  [Gate!Next]_([f \in Flows |-> GateOf(f)])
    <3>1. GateStep(h)
      BY <2>1, <2>3 DEF GateStep, GateOf
    <3>2. \A g \in Flows \ {h} : GateOf(g)' = GateOf(g)
      BY <2>1, <2>3 DEF GateOf
    <3> QED
      BY <3>1, <3>2, GateStepOfOne
  <2> QED
    BY <1>2, <2>2, <2>3, InjectorMovesGate DEF InjectorStep, Inv
<1>3. ASSUME UNCHANGED <<pc, sent, ps>>
      PROVE  UNCHANGED [f \in Flows |-> GateOf(f)]
  BY <1>3 DEF GateOf
<1>4. ReceiveCaptured => UNCHANGED <<pc, sent, ps>>
  BY DEF ReceiveCaptured, Receive, socketVars
<1>5. ForeignPacket \/ StopListening \/ StopInjector => UNCHANGED <<pc, sent, ps>>
  BY DEF ForeignPacket, StopListening, StopInjector, Stop, socketVars, injectorVars
<1>6. ASSUME NEW f \in Flows, ServerAck(f) \/ ServerRst(f) \/ KernelAck(f)
      PROVE  UNCHANGED <<pc, sent, ps>>
  BY <1>6 DEF ServerAck, ServerRst, KernelAck, socketVars, injectorVars
<1>7. UNCHANGED vars => UNCHANGED <<pc, sent, ps>>
  BY DEF vars, socketVars, injectorVars
<1>8. CASE UNCHANGED <<pc, sent, ps>>
  BY <1>3, <1>8
<1>9. CASE ~UNCHANGED <<pc, sent, ps>>
  BY <1>1, <1>2, <1>4, <1>5, <1>6, <1>7, <1>9 DEF Next, Environment, Finished
<1> QED
  BY <1>8, <1>9

\* In wrong_seq the forwarder, its injector and any network implement the gate.
THEOREM ForwarderImplementsGate ==
    ASSUME Strategy = "wrong_seq"
    PROVE  SafetySpec => ImplementsGate
<1>1. Init => Gate!Init
  BY GateInit
<1>2. Inv /\ [Next]_vars => [Gate!Next]_([f \in Flows |-> GateOf(f)])
  BY StepMovesGate
<1> QED
  BY <1>1, <1>2, InvHolds, PTL DEF SafetySpec, ImplementsGate, Gate!Spec

====
