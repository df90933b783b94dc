---- MODULE WindowsInjectorProofs ----
(* The Windows build keeps the injector's invariant, with its own handling of packets,
   failed sends and Stop; its fakes settle, and its Stop ends. *)
EXTENDS WindowsInjector, RawInjectorProofs

\* Who still runs: the sniffer outlives running, and takes its packet with it.
Winding ==
    /\ running => "sniff" \in loops
    /\ "sniff" \notin loops => pkt = NoPacket /\ held = NoFlow
    /\ stopped => loops = {} /\ ~running

WindowsInv == InjectorInv /\ WindowsTypeOK /\ Winding

\* A handler of the sniffer that is the same on Linux, or that changes no flow.
LEMMA WinSnifferKeepsInv ==
    ASSUME InjectorInv, WinSniff
    PROVE  InjectorInv'
<1> USE DEF InjectorInv, InjectorTypeOK
<1>1. CASE WinLookup
  <2>1. held' \in Flows /\ pkt \in Packets
    BY <1>1, PacketAssumption DEF WinLookup, Packets
  <2> QED BY <1>1, <2>1 DEF WinLookup, HeldHasPacket, Progress
<1>2. CASE WinLookupMisses
  BY <1>2, FlowAssumption DEF WinLookupMisses, HeldHasPacket, Progress
<1>3. CASE WinHandlePacket
  <2>1. CASE WinAckIgnored
    BY <1>3, <2>1 DEF WinAckIgnored, Handling, HeldHasPacket, Progress
  <2>2. CASE HandlePacket
    BY <2>2, SnifferKeepsInv DEF Sniff
  <2> QED BY <1>3, <2>1, <2>2 DEF WinHandlePacket, HandlePacket
<1> QED BY <1>1, <1>2, <1>3 DEF WinSniff

\* A send that fails is final.
LEMMA WinInjectionKeepsInv ==
    ASSUME InjectorInv, NEW f \in Flows, WinInjectStep(f)
    PROVE  InjectorInv'
<1> USE DEF InjectorInv, InjectorTypeOK
<1>1. CASE WinInject(f)
  BY <1>1, InjectionKeepsInv DEF WinInject, InjectStep
<1>2. CASE WinInjectFails(f)
  <2>1. inj' \in [Flows -> InjectionState]
    BY <1>2 DEF WinInjectFails, InjectionState
  <2>2. ps' \in [Flows -> PortState]
    BY <1>2 DEF WinInjectFails, PortState
  <2>3. inj' = [inj EXCEPT ![f] = [@ EXCEPT !.st = "failed"]]
    BY <1>2 DEF WinInjectFails
  <2>4. \A g \in Flows : ps'[g].fakeSent = ps[g].fakeSent /\ ps'[g].confirmed = ps[g].confirmed
    BY <1>2 DEF WinInjectFails, PortState
  <2>5. Progress'
    BY <1>2, <2>3, <2>4 DEF WinInjectFails, Progress, InjectionState
  <2> QED BY <1>2, <2>1, <2>2, <2>5 DEF WinInjectFails, HeldHasPacket
<1> QED BY <1>1, <1>2 DEF WinInjectStep

LEMMA WindowsInitInv == WindowsInit => WindowsInv
<1> SUFFICES ASSUME WindowsInit PROVE WindowsInv
  OBVIOUS
<1>1. InjectorInv
  BY InjectorInitInv DEF WindowsInit
<1> QED BY <1>1 DEF WindowsInit, InjectorInit, WindowsInv, WindowsTypeOK, InjectorInv, Winding

\* The injector's part of the invariant.
LEMMA WindowsStepInjector ==
    ASSUME InjectorInv, [WindowsNext]_windowsVars
    PROVE  InjectorInv'
<1>1. CASE UNCHANGED injectorVars
  BY <1>1 DEF injectorVars, InjectorInv, InjectorTypeOK, HeldHasPacket, Progress
<1>2. ASSUME NEW p \in Ports, WinCleanupPort(p) PROVE InjectorInv'
  BY <1>2 DEF WinCleanupPort, CleanupPort, InjectorInv, InjectorTypeOK, HeldHasPacket, Progress
<1>3. ASSUME NEW p \in Ports, NEW f \in Flows, WinRegisterPort(p, f) PROVE InjectorInv'
  BY <1>3, RegistryKeepsInv DEF WinRegisterPort
<1>4. ASSUME NEW k \in Packets, WinReceive(k) PROVE InjectorInv'
  BY <1>4 DEF WinReceive, Receive, InjectorInv, InjectorTypeOK, HeldHasPacket, Progress
<1>5. CASE WinSniff
  BY <1>5, WinSnifferKeepsInv
<1>6. ASSUME NEW f \in Flows, WinInjectStep(f) PROVE InjectorInv'
  BY <1>6, WinInjectionKeepsInv
<1>7. CASE WinStop
  BY <1>7 DEF WinStop, Stop, InjectorInv, InjectorTypeOK, HeldHasPacket, Progress
<1>8. CASE RefreshTick \/ StopStep
  BY <1>1, <1>8 DEF RefreshTick, StopStep, SniffEnds, RefreshEnds, StopReturns
<1>9. CASE UNCHANGED windowsVars
  BY <1>1, <1>9 DEF windowsVars
<1> QED BY <1>2, <1>3, <1>4, <1>5, <1>6, <1>7, <1>8, <1>9 DEF WindowsNext

\* Packets are only taken while the sniffer runs.
LEMMA WindowsStepWinding ==
    ASSUME WindowsInv, [WindowsNext]_windowsVars
    PROVE  /\ Winding'
           /\ localIP' \in {"unset", "first", "second"}
           /\ loops' \subseteq {"sniff", "refresh"} /\ stopped' \in BOOLEAN
<1> USE DEF WindowsInv, WindowsTypeOK, Winding, windowsOnly
<1>1. ASSUME UNCHANGED windowsVars PROVE Winding'
  BY <1>1 DEF windowsVars, injectorVars
<1>2. ASSUME NEW p \in Ports, WinCleanupPort(p) PROVE Winding'
  BY <1>2 DEF WinCleanupPort, CleanupPort
<1>3. ASSUME NEW p \in Ports, NEW f \in Flows, WinRegisterPort(p, f) PROVE Winding'
  BY <1>3 DEF WinRegisterPort, RegisterPort
<1>4. ASSUME NEW k \in Packets, WinReceive(k) PROVE Winding'
  BY <1>4 DEF WinReceive, Receive
<1>5. ASSUME WinSniff PROVE Winding'
  <2>1. pkt # NoPacket
    BY <1>5, PacketAssumption
    DEF WinSniff, WinLookup, WinLookupMisses, WinHandlePacket, OutboundSyn, WinAckIgnored,
        OutboundAckTrigger, InboundAck, InboundRst, OtherPacket, Handling, InjectorInv, HeldHasPacket
  <2>2. CASE WinLookup
    BY <2>1, <2>2 DEF WinLookup
  <2>3. CASE WinLookupMisses
    BY <2>1, <2>3 DEF WinLookupMisses
  <2>4. CASE WinHandlePacket
    <3>1. UNCHANGED <<running, loops, stopped>>
      BY <2>4 DEF WinHandlePacket, OutboundSyn, WinAckIgnored, OutboundAckTrigger, InboundAck,
                  InboundRst, OtherPacket, Handling
    <3> QED BY <2>1, <3>1
  <2> QED BY <1>5, <2>2, <2>3, <2>4 DEF WinSniff
<1>6. ASSUME NEW f \in Flows, WinInjectStep(f) PROVE Winding'
  BY <1>6 DEF WinInjectStep, WinInject, Inject, WinInjectFails
<1>7. ASSUME WinStop PROVE Winding'
  BY <1>7 DEF WinStop, Stop
<1>8. ASSUME RefreshTick PROVE Winding'
  BY <1>8 DEF RefreshTick, injectorVars
<1>9. ASSUME StopStep PROVE Winding'
  <2>1. ASSUME SniffEnds PROVE Winding'
    <3>1. pkt = NoPacket /\ held = NoFlow /\ ~running
      BY <2>1, PacketAssumption DEF SniffEnds, InjectorInv, HeldHasPacket
    <3>2. UNCHANGED <<pkt, held, running, stopped>> /\ loops' \subseteq loops
      BY <2>1 DEF SniffEnds, injectorVars
    <3> QED BY <3>1, <3>2
  <2>2. ASSUME RefreshEnds PROVE Winding'
    <3>1. ~running /\ ~stopped
      BY <2>2 DEF RefreshEnds
    <3>2. UNCHANGED <<running, pkt, held, stopped>> /\ ("sniff" \in loops => "sniff" \in loops')
      BY <2>2 DEF RefreshEnds, injectorVars
    <3> QED BY <3>1, <3>2
  <2>3. ASSUME StopReturns PROVE Winding'
    <3>1. ~running /\ loops = {} /\ UNCHANGED <<running, pkt, held, loops>>
      BY <2>3 DEF StopReturns, injectorVars
    <3> QED BY <3>1
  <2> QED BY <1>9, <2>1, <2>2, <2>3 DEF StopStep
<1>10. UNCHANGED windowsOnly \/ RefreshTick \/ StopStep
  BY DEF WindowsNext, WinCleanupPort, WinRegisterPort, WinReceive, WinSniff, WinLookup,
         WinLookupMisses, WinHandlePacket, WinInjectStep, WinInject, WinInjectFails, WinStop,
         windowsVars
<1>11. /\ localIP' \in {"unset", "first", "second"}
       /\ loops' \subseteq {"sniff", "refresh"} /\ stopped' \in BOOLEAN
  BY <1>10 DEF RefreshTick, StopStep, SniffEnds, RefreshEnds, StopReturns
<1> QED BY <1>1, <1>2, <1>3, <1>4, <1>5, <1>6, <1>7, <1>8, <1>9, <1>11 DEF WindowsNext

LEMMA WindowsInvHolds == WindowsSafetySpec => []WindowsInv
<1>1. WindowsInv /\ [WindowsNext]_windowsVars => WindowsInv'
  BY WindowsStepInjector, WindowsStepWinding DEF WindowsInv, WindowsTypeOK, InjectorInv
<1> QED BY WindowsInitInv, <1>1, PTL DEF WindowsSafetySpec

\* What is proved of the Linux build's flows holds of the Windows build's, although a
\* changing local address hides any packet from the sniffer at any time.
THEOREM WindowsOneFake == WindowsSafetySpec => []OneFakePerFlow
<1>1. WindowsInv => OneFakePerFlow
  BY DEF WindowsInv, InjectorInv, Progress, OneFakePerFlow
<1> QED BY <1>1, WindowsInvHolds, PTL

\* The fake stays below the stream, as on Linux.
THEOREM WindowsFakeNeverInStream == WindowsSafetySpec => []FakeBelowStream
<1>1. WindowsInv => FakeBelowStream
  <2> SUFFICES ASSUME WindowsInv, NEW f \in Flows, inj[f].sends > 0
               PROVE  SeqAdd(inj[f].seq, FakeLen) = inj[f].tpl
    BY DEF FakeBelowStream
  <2>1. inj[f].st = "sent"
    BY DEF WindowsInv, InjectorInv, Progress
  <2>2. inj[f].isn \in Seqs
    BY DEF WindowsInv, InjectorInv, InjectorTypeOK, InjectionState
  <2> QED BY <2>1, <2>2, FakeEndsAtNext DEF WindowsInv, InjectorInv, Progress
<1> QED BY <1>1, WindowsInvHolds, PTL

\* Once Stop has returned, the sniffer is gone with whatever packet it had: only an
\* injection goroutine may still report its own failed send.
THEOREM WindowsQuietAfterStop == WindowsSafetySpec => QuietAfterStop
<1>1. ASSUME WindowsInv, [WindowsNext]_windowsVars, stopped
      PROVE  /\ held' = NoFlow
             /\ \A f \in Flows : ps'[f] # ps[f] /\ ps[f].alloc
                                    => inj'[f] # inj[f] /\ inj'[f].st = "failed"
  <2>1. ~running /\ pkt = NoPacket /\ held = NoFlow
    BY <1>1 DEF WindowsInv, Winding
  <2>2. ~WinSniff
    BY <2>1 DEF WinSniff, WinLookup, WinLookupMisses, WinHandlePacket, OutboundSyn, WinAckIgnored,
                OutboundAckTrigger, InboundAck, InboundRst, OtherPacket, Handling
  <2>3. ~WinStop /\ \A k \in Packets : ~WinReceive(k)
    BY <2>1 DEF WinStop, Stop, WinReceive, Receive
  <2>4. CASE RefreshTick \/ StopStep \/ UNCHANGED windowsVars
    BY <2>1, <2>4 DEF RefreshTick, StopStep, SniffEnds, RefreshEnds, StopReturns, windowsVars, injectorVars
  <2>5. ASSUME NEW p \in Ports, WinCleanupPort(p) PROVE UNCHANGED <<ps, held>>
    BY <2>5 DEF WinCleanupPort, CleanupPort
  <2>6. ASSUME NEW p \in Ports, NEW g \in Flows, WinRegisterPort(p, g)
        PROVE  held' = held /\ ~ps[g].alloc /\ \A f \in Flows \ {g} : ps'[f] = ps[f]
    BY <2>6, <1>1 DEF WinRegisterPort, RegisterPort, WindowsInv, InjectorInv, InjectorTypeOK
  <2>7. ASSUME NEW g \in Flows, WinInjectStep(g)
        PROVE  /\ held' = held /\ \A f \in Flows \ {g} : ps'[f] = ps[f]
               /\ inj'[g] # inj[g] /\ inj'[g].st = "failed"
    <3>1. ~WinInject(g)
      BY <2>1 DEF WinInject, Inject
    <3>2. WinInjectFails(g)
      BY <2>7, <3>1 DEF WinInjectStep
    <3> QED BY <3>2, <1>1 DEF WinInjectFails, WindowsInv, InjectorInv, InjectorTypeOK, InjectionState
  <2> QED BY <1>1, <2>1, <2>2, <2>3, <2>4, <2>5, <2>6, <2>7 DEF WindowsNext
<1>2. WindowsInv /\ [WindowsNext]_windowsVars =>
        [stopped => /\ held' = NoFlow
                    /\ \A f \in Flows : ps'[f] # ps[f] /\ ps[f].alloc
                                          => inj'[f] # inj[f] /\ inj'[f].st = "failed"
        ]_windowsVars
  BY <1>1
<1> QED BY <1>2, WindowsInvHolds, PTL DEF WindowsSafetySpec, QuietAfterStop

\* As on Linux, a flow is confirmed only after its fake was triggered.
THEOREM WindowsConfirmationNeedsTrigger == WindowsSafetySpec => []ConfirmNeedsTrigger
<1>1. WindowsInv => ConfirmNeedsTrigger
  BY DEF WindowsInv, InjectorInv, Progress, ConfirmNeedsTrigger
<1> QED
  BY <1>1, WindowsInvHolds, PTL

-----------------------------------------------------------------------------
(* What must happen                                                          *)

\* There is no second attempt: a send that fails is reported at once.
WinReported == Reported /\ \A f \in Flows : inj[f].st # "retry"

\* The only attempt of an injection goroutine settles its fake.
LEMMA WinInjectionAdvances ==
    ASSUME InjectorInv, NEW f \in Flows, WinInjectStep(f), inj[f].st # "retry"
    PROVE  /\ inj[f].st = "scheduled" /\ inj'[f].st \in {"sent", "failed"}
           /\ inj'[f].st = "failed" => ps'[f].failed
           /\ \A g \in Flows : ps[g].failed => ps'[g].failed
           /\ \A g \in Flows \ {f} : inj'[g] = inj[g]
<1> USE DEF InjectorInv, InjectorTypeOK, InjectionState
<1>1. CASE WinInject(f)
  BY <1>1 DEF WinInject, Inject, Pending
<1>2. CASE WinInjectFails(f)
  <2>1. \A g \in Flows : ps'[g].failed = (g = f \/ ps[g].failed)
    BY <1>2 DEF WinInjectFails, PortState
  <2> QED
    BY <1>2, <2>1 DEF WinInjectFails
<1> QED
  BY <1>1, <1>2 DEF WinInjectStep

\* Nobody else touches an injection in flight.
LEMMA WinInjectionsMove ==
    ASSUME InjectorInv, WinReported, [WindowsNext]_windowsVars, NEW f \in Flows
    PROVE  /\ \/ inj'[f] = inj[f]
              \/ inj[f].st = "idle" /\ inj'[f].st = "scheduled"
              \/ WinInjectStep(f)
           /\ ps[f].failed => ps'[f].failed
<1>1. CASE UNCHANGED windowsVars
  BY <1>1 DEF windowsVars, injectorVars
<1>2. ASSUME NEW p \in Ports, WinCleanupPort(p) PROVE UNCHANGED <<inj, ps>>
  BY <1>2 DEF WinCleanupPort, CleanupPort
<1>3. ASSUME NEW p \in Ports, NEW g \in Flows, WinRegisterPort(p, g)
      PROVE  inj' = inj /\ (ps[f].failed => ps'[f].failed)
  BY <1>3 DEF WinRegisterPort, RegisterPort, InjectorInv, InjectorTypeOK, PortState
<1>4. ASSUME NEW k \in Packets, WinReceive(k) PROVE UNCHANGED <<inj, ps>>
  BY <1>4 DEF WinReceive, Receive
<1>5. ASSUME WinSniff
      PROVE  /\ inj'[f] = inj[f] \/ (inj[f].st = "idle" /\ inj'[f].st = "scheduled")
             /\ ps[f].failed => ps'[f].failed
  <2>1. CASE WinLookup \/ WinLookupMisses
    BY <2>1 DEF WinLookup, WinLookupMisses
  <2>2. CASE WinHandlePacket
    <3>1. CASE WinAckIgnored
      BY <3>1 DEF WinAckIgnored
    <3>2. CASE HandlePacket
      BY <3>2, SnifferStarts
    <3> QED
      BY <2>2, <3>1, <3>2 DEF WinHandlePacket, HandlePacket
  <2> QED
    BY <1>5, <2>1, <2>2 DEF WinSniff
<1>6. ASSUME NEW g \in Flows, WinInjectStep(g)
      PROVE  (g = f \/ inj'[f] = inj[f]) /\ (ps[f].failed => ps'[f].failed)
  <2>1. inj[g].st # "retry"
    BY DEF WinReported
  <2> QED
    BY <1>6, <2>1, WinInjectionAdvances
<1>7. CASE WinStop
  BY <1>7 DEF WinStop, Stop
<1>8. CASE RefreshTick \/ StopStep
  BY <1>8 DEF RefreshTick, StopStep, SniffEnds, RefreshEnds, StopReturns, injectorVars
<1> QED
  BY <1>1, <1>2, <1>3, <1>4, <1>5, <1>6, <1>7, <1>8, Zenon DEF WindowsNext

\* It holds in every behaviour.
LEMMA WinReportedHolds == WindowsSafetySpec => []WinReported
<1>1. WindowsInit => WinReported
  BY DEF WindowsInit, InjectorInit, WinReported, Reported, NoInjection
<1>2. WindowsInv /\ WinReported /\ [WindowsNext]_windowsVars => WinReported'
  <2> SUFFICES ASSUME InjectorInv, WinReported, [WindowsNext]_windowsVars, NEW f \in Flows
               PROVE  inj'[f].st # "retry" /\ (inj'[f].st = "failed" => ps'[f].failed)
    BY DEF WinReported, Reported, WindowsInv
  <2>1. CASE WinInjectStep(f)
    <3>1. inj[f].st # "retry"
      BY DEF WinReported
    <3> QED
      BY <2>1, <3>1, WinInjectionAdvances
  <2>2. CASE ~WinInjectStep(f)
    <3>1. inj'[f] = inj[f] \/ (inj[f].st = "idle" /\ inj'[f].st = "scheduled")
      BY <2>2, WinInjectionsMove
    <3>2. ps[f].failed => ps'[f].failed
      BY WinInjectionsMove
    <3> QED
      BY <3>1, <3>2 DEF WinReported, Reported
  <2> QED
    BY <2>1, <2>2
<1> QED
  BY <1>1, <1>2, WindowsInvHolds, PTL DEF WindowsSafetySpec

\* The guards of its steps say when an injection goroutine can take one.
WinInjectionCanStep(f) ==
    [](inj[f].st = "scheduled" => ENABLED <<WinInjectStep(f)>>_windowsVars)

\* The fake of one flow.
LEMMA WinFakeOfFlowSettles ==
    ASSUME NEW f \in Flows
    PROVE  WindowsSafetySpec /\ WinInjectionFairness(f) /\ WinInjectionCanStep(f)
             => (ps[f].fakeSent ~> (inj[f].sends = 1 \/ ps[f].failed))
<1> DEFINE Scheduled == inj[f].st = "scheduled"
           Over == inj[f].st \in {"sent", "failed"}
           Good == WindowsInv /\ WinReported
<1>1. Good /\ ps[f].fakeSent => Scheduled \/ inj[f].sends = 1 \/ ps[f].failed
  BY FakeIsInHand DEF WindowsInv, WinReported, FakeInHand, Pending
<1>2. Good /\ Over => inj[f].sends = 1 \/ ps[f].failed
  BY DEF WindowsInv, InjectorInv, WinReported, Reported, Progress
<1>3. Good /\ [WindowsNext]_windowsVars => (Scheduled => Scheduled' \/ Over')
  <2> SUFFICES ASSUME Good, [WindowsNext]_windowsVars, Scheduled PROVE Scheduled' \/ Over'
    OBVIOUS
  <2>1. InjectorInv /\ WinReported /\ inj[f].st # "retry"
    BY DEF WindowsInv, WinReported
  <2> QED
    BY <2>1, WinInjectionsMove, WinInjectionAdvances
<1>4. Good /\ <<WinInjectStep(f)>>_windowsVars => Over'
  <2> SUFFICES ASSUME Good, WinInjectStep(f) PROVE Over'
    OBVIOUS
  <2>1. InjectorInv /\ inj[f].st # "retry"
    BY DEF WindowsInv, WinReported
  <2> QED
    BY <2>1, WinInjectionAdvances
<1>5. WindowsSafetySpec => []Good
  BY WindowsInvHolds, WinReportedHolds, PTL
<1>6. WinInjectionCanStep(f) => [](Scheduled => ENABLED <<WinInjectStep(f)>>_windowsVars)
  BY PTL DEF WinInjectionCanStep
<1> HIDE DEF Scheduled, Over, Good
<1> QED
  BY <1>1, <1>2, <1>3, <1>4, <1>5, <1>6, PTL DEF WindowsSafetySpec, WinInjectionFairness

\* On Windows, too, each scheduled fake is sent or reported as failed.
THEOREM WindowsFakesSettle ==
    WindowsSpec /\ (\A f \in Flows : WinInjectionCanStep(f)) => FakeSettles
<1>1. WindowsSpec => WindowsSafetySpec /\ \A f \in Flows : WinInjectionFairness(f)
  BY PTL DEF WindowsSpec, WindowsFairness
<1> QED
  BY <1>1, WinFakeOfFlowSettles DEF FakeSettles

\* The sniffer can go on while it has a packet, and the end of Stop once it has none.
LoopsCanStep ==
    /\ [](pkt # NoPacket => ENABLED <<WinSniff>>_windowsVars)
    /\ [](~running /\ ~stopped /\ pkt = NoPacket => ENABLED <<StopStep>>_windowsVars)

\* What is left to do after Stop closed the handles only becomes less.
LEMMA StopAdvances ==
    ASSUME WindowsInv, ~running, [WindowsNext]_windowsVars
    PROVE  /\ ~running' /\ (stopped => stopped')
           /\ (pkt' = pkt /\ held' = held) \/ WinSniff
           /\ "sniff" \in loops' => "sniff" \in loops
           /\ "refresh" \in loops' => "refresh" \in loops
<1> USE DEF windowsVars, injectorVars, windowsOnly
<1>1. CASE UNCHANGED windowsVars
  BY <1>1
<1>2. ASSUME NEW p \in Ports, WinCleanupPort(p) PROVE UNCHANGED <<running, pkt, held, windowsOnly>>
  BY <1>2 DEF WinCleanupPort, CleanupPort
<1>3. ASSUME NEW p \in Ports, NEW g \in Flows, WinRegisterPort(p, g)
      PROVE  UNCHANGED <<running, pkt, held, windowsOnly>>
  BY <1>3 DEF WinRegisterPort, RegisterPort
<1>4. ASSUME NEW k \in Packets, WinReceive(k) PROVE FALSE
  BY <1>4 DEF WinReceive, Receive
<1>5. ASSUME WinSniff PROVE UNCHANGED <<running, windowsOnly>>
  BY <1>5 DEF WinSniff, WinLookup, WinLookupMisses, WinHandlePacket, OutboundSyn, WinAckIgnored,
              OutboundAckTrigger, InboundAck, InboundRst, OtherPacket, Handling
<1>6. ASSUME NEW g \in Flows, WinInjectStep(g) PROVE UNCHANGED <<running, pkt, held, windowsOnly>>
  BY <1>6 DEF WinInjectStep, WinInject, Inject, WinInjectFails
<1>7. ASSUME WinStop PROVE FALSE
  BY <1>7 DEF WinStop, Stop
<1>8. CASE RefreshTick \/ StopStep
  BY <1>8 DEF RefreshTick, StopStep, SniffEnds, RefreshEnds, StopReturns
<1> QED
  BY <1>1, <1>2, <1>3, <1>4, <1>5, <1>6, <1>7, <1>8 DEF WindowsNext

\* The sniffer gives the packet back, or ends.
LEMMA SniffAdvances ==
    ASSUME WindowsInv, WinSniff
    PROVE  /\ pkt # NoPacket
           /\ held = NoFlow => held' # NoFlow \/ pkt' = NoPacket
           /\ held # NoFlow => pkt' = NoPacket
  BY PacketAssumption
  DEF WindowsInv, InjectorInv, HeldHasPacket, WinSniff, WinLookup, WinLookupMisses,
      WinHandlePacket, OutboundSyn, WinAckIgnored, OutboundAckTrigger, InboundAck, InboundRst,
      OtherPacket, Handling

\* Each step of the stopping side leaves less to do.
LEMMA StopStepAdvances ==
    ASSUME StopStep
    PROVE  \/ "sniff" \in loops /\ "sniff" \notin loops'
           \/ "refresh" \in loops /\ "refresh" \notin loops'
           \/ stopped'
BY DEF StopStep, SniffEnds, RefreshEnds, StopReturns

\* Stop returns: the sniffer finishes the packet it has and ends, whatever becomes of the
\* address meanwhile, and the refresh loop notices at its next tick (Stop, sniffLoop and
\* localIPRefreshLoop, rawinjector_windows.go).
THEOREM WindowsStopCompletes == WindowsSpec /\ LoopsCanStep => StopCompletes
<1> DEFINE Down == ~running
           Sniffing == "sniff" \in loops
           Refreshing == "refresh" \in loops
           Busy == pkt # NoPacket
           Held == held # NoFlow
<1>1. WindowsInv /\ Down /\ [WindowsNext]_windowsVars =>
        /\ Down' /\ (stopped => stopped')
        /\ ~WinSniff => (Busy' <=> Busy) /\ (Held' <=> Held)
        /\ Sniffing' => Sniffing
        /\ Refreshing' => Refreshing
  BY StopAdvances
<1>2. WindowsInv /\ WinSniff => Busy /\ (~Held => Held' \/ ~Busy') /\ (Held => ~Busy')
  BY SniffAdvances
<1>3. (pkt # NoPacket <=> Busy) /\ (pkt = NoPacket <=> ~Busy) /\ (~running <=> Down)
  OBVIOUS
<1>4. <<StopStep>>_windowsVars => (Sniffing /\ ~Sniffing') \/ (Refreshing /\ ~Refreshing') \/ stopped'
  BY StopStepAdvances
<1>5. WindowsSpec => [][WindowsNext]_windowsVars /\ []WindowsInv
                     /\ WF_windowsVars(WinSniff) /\ WF_windowsVars(StopStep)
  BY WindowsInvHolds, PTL DEF WindowsSpec, WindowsFairness, WindowsSafetySpec
<1> HIDE DEF Down, Sniffing, Refreshing, Busy, Held
<1> QED
  BY <1>1, <1>2, <1>3, <1>4, <1>5, PTL DEF LoopsCanStep, StopCompletes

====
