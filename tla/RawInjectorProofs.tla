---- MODULE RawInjectorProofs ----
(***************************************************************************)
(* What the injector guarantees for any number of ports and flows, any     *)
(* width of the sequence numbers and any fake length below it, whatever    *)
(* the caller does and whatever packets arrive; and that each fake is sent *)
(* or reported, if the injection goroutines go on while they can.          *)
(***************************************************************************)
EXTENDS RawInjector, TLAPS

\* The arithmetic never leaves the sequence space.
LEMMA SeqArithmetic ==
    ASSUME NEW a \in Seqs, NEW b \in Seqs
    PROVE  SeqAdd(a, b) \in Seqs /\ SeqSub(a, b) \in Seqs
  BY SeqAssumption DEF Seqs, SeqAdd, SeqSub

\* The frame's last byte is the one below the template's sequence number.
LEMMA FakeEndsAtNext ==
    ASSUME NEW isn \in Seqs
    PROVE  FakeSeq(isn) \in Seqs /\ SeqAdd(FakeSeq(isn), FakeLen) = SeqAdd(isn, 1)
<1>1. SeqAdd(isn, 1) \in Seqs
  BY SeqAssumption DEF Seqs, SeqAdd
<1>2. \A n \in Seqs : SeqSub(n, FakeLen) \in Seqs /\ SeqAdd(SeqSub(n, FakeLen), FakeLen) = n
  BY SeqAssumption DEF Seqs, SeqAdd, SeqSub
<1> QED
  BY <1>1, <1>2 DEF FakeSeq

\* How far the injection goroutine is, in terms of fakeSent, and what it carries.
Progress ==
    \A f \in Flows :
        /\ inj[f].st = "idle" <=> ~ps[f].fakeSent
        /\ inj[f].sends = IF inj[f].st = "sent" THEN 1 ELSE 0
        /\ inj[f].st # "idle" => inj[f].tpl = SeqAdd(inj[f].isn, 1)
        /\ inj[f].st = "sent" => inj[f].seq = FakeSeq(inj[f].isn)
        /\ ps[f].confirmed => ps[f].fakeSent

\* A looked-up portState goes with a received packet.
HeldHasPacket == held # NoFlow => pkt \in Packets

InjectorInv == InjectorTypeOK /\ HeldHasPacket /\ Progress

\* No flow has begun at the start.
LEMMA InjectorInitInv == InjectorInit => InjectorInv
<1> SUFFICES ASSUME InjectorInit PROVE InjectorInv
  OBVIOUS
<1>1. InjectorTypeOK
  <2>1. 0 \in Seqs
    BY SeqAssumption DEF Seqs
  <2> QED
    BY <2>1 DEF InjectorInit, InjectorTypeOK, PortState, InjectionState, UnusedPortState, NoInjection
<1>2. Progress
  BY DEF InjectorInit, Progress, UnusedPortState, NoInjection
<1>3. HeldHasPacket
  BY DEF InjectorInit, HeldHasPacket
<1> QED
  BY <1>1, <1>2, <1>3 DEF InjectorInv

\* Registering and cleaning up touch no progress of a flow.
LEMMA RegistryKeepsInv ==
    ASSUME InjectorInv, NEW p \in Ports, NEW f \in Flows,
           CleanupPort(p) \/ RegisterPort(p, f)
    PROVE  InjectorInv'
<1>1. CASE CleanupPort(p)
  BY <1>1 DEF CleanupPort, InjectorInv, InjectorTypeOK, HeldHasPacket, Progress
<1>2. CASE RegisterPort(p, f)
  <2>1. InjectorTypeOK'
    BY <1>2, ZenonT(60) DEF RegisterPort, InjectorInv, InjectorTypeOK, PortState
  <2>2. \A g \in Flows : ps'[g].fakeSent = ps[g].fakeSent /\ ps'[g].confirmed = ps[g].confirmed
    BY <1>2 DEF RegisterPort, InjectorInv, InjectorTypeOK, PortState
  <2>3. Progress'
    BY <1>2, <2>2 DEF RegisterPort, InjectorInv, Progress
  <2>4. HeldHasPacket'
    BY <1>2 DEF RegisterPort, InjectorInv, HeldHasPacket
  <2> QED
    BY <2>1, <2>3, <2>4 DEF InjectorInv
<1> QED
  BY <1>1, <1>2

\* A step that leaves fakeSent, confirmed and the goroutines alone keeps Progress.
LEMMA ProgressFrame ==
    ASSUME Progress, UNCHANGED inj,
           \A f \in Flows : /\ ps'[f].fakeSent = ps[f].fakeSent
                           /\ ps'[f].confirmed = ps[f].confirmed
    PROVE  Progress'
  BY DEF Progress

\* The trigger takes isn and template from one and the same state.
LEMMA SnifferKeepsInv ==
    ASSUME InjectorInv, Sniff
    PROVE  InjectorInv'
<1>1. CASE Lookup
  <2>1. held' \in Flows /\ pkt \in Packets
    BY <1>1, PacketAssumption DEF Lookup, InjectorInv, InjectorTypeOK, Packets
  <2> QED
    BY <1>1, <2>1 DEF Lookup, InjectorInv, InjectorTypeOK, HeldHasPacket, Progress
<1>2. CASE LookupMisses
  BY <1>2, FlowAssumption DEF LookupMisses, InjectorInv, InjectorTypeOK, HeldHasPacket, Progress
<1>3. CASE HandlePacket
  <2>1. /\ held \in Flows /\ pkt \in Packets /\ pkt.num \in Seqs
        /\ pkt' = NoPacket /\ held' = NoFlow /\ UNCHANGED <<ports, running>>
    BY <1>3 DEF HandlePacket, OutboundSyn, OutboundAckIgnored, OutboundAckMismatch,
                OutboundAckTrigger, InboundAck, InboundRst, OtherPacket, Handling, Packets,
                InjectorInv, InjectorTypeOK, HeldHasPacket
  <2>2. HeldHasPacket'
    BY <2>1 DEF HeldHasPacket
  <2>3. SUFFICES /\ ps' \in [Flows -> PortState] /\ inj' \in [Flows -> InjectionState]
                 /\ Progress'
    BY <2>1, <2>2 DEF InjectorInv, InjectorTypeOK
  <2> USE <2>1 DEF InjectorInv, InjectorTypeOK
  <2>4. CASE OutboundSyn
    <3>1. ps' \in [Flows -> PortState]
      BY <2>4 DEF OutboundSyn, PortState
    <3>2. \A f \in Flows : /\ ps'[f].fakeSent = ps[f].fakeSent
                          /\ ps'[f].confirmed = ps[f].confirmed
      BY <2>4 DEF OutboundSyn, PortState
    <3> QED
      BY <2>4, <3>1, <3>2, ProgressFrame DEF OutboundSyn
  <2>5. CASE OutboundAckIgnored \/ OtherPacket
    BY <2>5 DEF OutboundAckIgnored, OtherPacket, Progress
  <2>6. CASE OutboundAckMismatch
    <3>1. ps' \in [Flows -> PortState]
      BY <2>6, ZenonT(60) DEF OutboundAckMismatch, PortState
    <3>2. \A f \in Flows : /\ ps'[f].fakeSent = ps[f].fakeSent
                          /\ ps'[f].confirmed = ps[f].confirmed
      BY <2>6 DEF OutboundAckMismatch, PortState
    <3> QED
      BY <2>6, <3>1, <3>2, ProgressFrame DEF OutboundAckMismatch
  <2>7. CASE OutboundAckTrigger
    <3>1. ps' \in [Flows -> PortState]
      BY <2>7 DEF OutboundAckTrigger, PortState
    <3>2. /\ pkt.num = SeqAdd(ps[held].synSeq, 1) /\ ~ps[held].fakeSent
          /\ ps[held].synSeq \in Seqs
      BY <2>7 DEF OutboundAckTrigger, SeqMatches, PortState
    <3>3. inj' = [inj EXCEPT ![held] = [@ EXCEPT !.st = "scheduled", !.tpl = pkt.num,
                                                 !.isn = ps[held].synSeq]]
      BY <2>7 DEF OutboundAckTrigger
    <3>4. inj' \in [Flows -> InjectionState]
      BY <3>2, <3>3 DEF InjectionState
    <3>5. /\ ps'[held].fakeSent
          /\ ps'[held].confirmed = ps[held].confirmed
          /\ \A f \in Flows \ {held} : ps'[f] = ps[f]
      BY <2>7 DEF OutboundAckTrigger, PortState
    <3>6. inj[held].st = "idle" /\ inj[held].sends = 0
      BY <3>2 DEF Progress
    <3>7. /\ inj'[held].st = "scheduled" /\ inj'[held].tpl = SeqAdd(inj'[held].isn, 1)
          /\ inj'[held].sends = 0
      BY <3>2, <3>3, <3>6 DEF InjectionState
    <3>8. \A f \in Flows \ {held} : inj'[f] = inj[f]
      BY <3>3
    <3>9. ASSUME NEW f \in Flows
          PROVE  /\ inj'[f].st = "idle" <=> ~ps'[f].fakeSent
                 /\ inj'[f].sends = IF inj'[f].st = "sent" THEN 1 ELSE 0
                 /\ inj'[f].st # "idle" => inj'[f].tpl = SeqAdd(inj'[f].isn, 1)
                 /\ inj'[f].st = "sent" => inj'[f].seq = FakeSeq(inj'[f].isn)
                 /\ ps'[f].confirmed => ps'[f].fakeSent
      <4>1. CASE f = held
        BY <4>1, <3>5, <3>7
      <4>2. CASE f # held
        BY <4>2, <3>5, <3>8 DEF Progress
      <4> QED
        BY <4>1, <4>2
    <3> QED
      BY <3>1, <3>4, <3>9 DEF Progress
  <2>8. CASE InboundAck
    <3>1. ps' \in [Flows -> PortState]
      BY <2>8 DEF InboundAck, PortState
    <3>2. \A f \in Flows : /\ ps'[f].fakeSent = ps[f].fakeSent
                          /\ ps'[f].confirmed => ps[f].confirmed \/ ps[f].fakeSent
      BY <2>8 DEF InboundAck, PortState
    <3>3. Progress'
      BY <2>8, <3>2 DEF InboundAck, Progress
    <3> QED
      BY <2>8, <3>1, <3>3 DEF InboundAck
  <2>9. CASE InboundRst
    <3>1. ps' \in [Flows -> PortState]
      BY <2>9 DEF InboundRst, PortState
    <3>2. \A f \in Flows : /\ ps'[f].fakeSent = ps[f].fakeSent
                          /\ ps'[f].confirmed = ps[f].confirmed
      BY <2>9 DEF InboundRst, PortState
    <3> QED
      BY <2>9, <3>1, <3>2, ProgressFrame DEF InboundRst
  <2> QED
    BY <1>3, <2>4, <2>5, <2>6, <2>7, <2>8, <2>9 DEF HandlePacket
<1> QED
  BY <1>1, <1>2, <1>3 DEF Sniff

\* The goroutine only moves its own flow, and forwards.
LEMMA InjectionKeepsInv ==
    ASSUME InjectorInv, NEW f \in Flows, InjectStep(f)
    PROVE  InjectorInv'
<1> USE DEF InjectorInv, InjectorTypeOK
<1>1. CASE Inject(f)
  <2>1. FakeSeq(inj[f].isn) \in Seqs
    BY FakeEndsAtNext DEF InjectionState
  <2>2. inj[f].sends = 0 /\ inj[f].st # "idle"
    BY <1>1 DEF Inject, Pending, Progress
  <2>3. inj' = [inj EXCEPT ![f] = [@ EXCEPT !.st = "sent", !.seq = FakeSeq(inj[f].isn),
                                            !.sends = 1]]
    <3>1. inj[f].sends + 1 = 1
      BY <2>2
    <3> QED
      BY <1>1, <3>1 DEF Inject
  <2>4. UNCHANGED <<ports, ps, pkt, held, running>>
    BY <1>1 DEF Inject
  <2>5. inj' \in [Flows -> InjectionState]
    <3> DEFINE new == [inj[f] EXCEPT !.st = "sent", !.seq = FakeSeq(inj[f].isn), !.sends = 1]
    <3>1. inj[f] \in InjectionState /\ 1 \in 0 .. 2
      OBVIOUS
    <3>2. new \in InjectionState
      BY <2>1, <3>1 DEF InjectionState
    <3> QED
      BY <2>3, <3>2
  <2>6. /\ inj'[f].st = "sent" /\ inj'[f].seq = FakeSeq(inj'[f].isn) /\ inj'[f].sends = 1
        /\ inj'[f].tpl = inj[f].tpl /\ inj'[f].isn = inj[f].isn
        /\ \A g \in Flows \ {f} : inj'[g] = inj[g]
    BY <2>3 DEF InjectionState
  <2>7. Progress'
    BY <2>2, <2>4, <2>6 DEF Progress
  <2> QED
    BY <2>4, <2>5, <2>7 DEF HeldHasPacket
<1>2. CASE InjectFails(f)
  <2>1. inj' \in [Flows -> InjectionState]
    BY <1>2 DEF InjectFails, InjectionState
  <2>2. inj' = [inj EXCEPT ![f] = [@ EXCEPT !.st = "retry"]]
    BY <1>2 DEF InjectFails
  <2>3. Progress'
    BY <1>2, <2>2 DEF InjectFails, Progress, InjectionState
  <2> QED
    BY <1>2, <2>1, <2>3 DEF InjectFails, HeldHasPacket
<1>3. CASE RetryFails(f)
  <2>1. inj' \in [Flows -> InjectionState] /\ ps' \in [Flows -> PortState]
    <3>1. inj' \in [Flows -> InjectionState]
      BY <1>3 DEF RetryFails, InjectionState
    <3>2. ps' \in [Flows -> PortState]
      BY <1>3 DEF RetryFails, PortState
    <3> QED
      BY <3>1, <3>2
  <2>2. inj' = [inj EXCEPT ![f] = [@ EXCEPT !.st = "failed"]]
    BY <1>3 DEF RetryFails
  <2>3. \A g \in Flows : ps'[g].fakeSent = ps[g].fakeSent /\ ps'[g].confirmed = ps[g].confirmed
    BY <1>3 DEF RetryFails, PortState
  <2>4. Progress'
    BY <1>3, <2>2, <2>3 DEF RetryFails, Progress, InjectionState
  <2> QED
    BY <1>3, <2>1, <2>4 DEF RetryFails, HeldHasPacket
<1> QED
  BY <1>1, <1>2, <1>3 DEF InjectStep

\* The strengthening is inductive.
LEMMA InjectorStepInv == InjectorInv /\ [InjectorNext]_injectorVars => InjectorInv'
<1> SUFFICES ASSUME InjectorInv, [InjectorNext]_injectorVars PROVE InjectorInv'
  OBVIOUS
<1>1. CASE UNCHANGED injectorVars
  BY <1>1 DEF injectorVars, InjectorInv, InjectorTypeOK, HeldHasPacket, Progress
<1>2. ASSUME NEW p \in Ports, CleanupPort(p) PROVE InjectorInv'
  BY <1>2 DEF CleanupPort, InjectorInv, InjectorTypeOK, HeldHasPacket, Progress
<1>3. ASSUME NEW p \in Ports, NEW f \in Flows, RegisterPort(p, f) PROVE InjectorInv'
  BY <1>3, RegistryKeepsInv
<1>4. ASSUME NEW k \in Packets, Receive(k) PROVE InjectorInv'
  BY <1>4 DEF Receive, InjectorInv, InjectorTypeOK, HeldHasPacket, Progress
<1>5. CASE Sniff
  BY <1>5, SnifferKeepsInv
<1>6. ASSUME NEW f \in Flows, InjectStep(f) PROVE InjectorInv'
  BY <1>6, InjectionKeepsInv
<1>7. CASE Stop
  BY <1>7 DEF Stop, InjectorInv, InjectorTypeOK, HeldHasPacket, Progress
<1> QED
  BY <1>1, <1>2, <1>3, <1>4, <1>5, <1>6, <1>7 DEF InjectorNext

\* The inductive invariant holds in every behaviour.
LEMMA InjectorInvHolds == InjectorSafetySpec => []InjectorInv
<1>1. InjectorInit => InjectorInv
  BY InjectorInitInv
<1>2. InjectorInv /\ [InjectorNext]_injectorVars => InjectorInv'
  BY InjectorStepInv
<1> QED
  BY <1>1, <1>2, PTL DEF InjectorSafetySpec

\* Every variable of the injector keeps its type.
THEOREM InjectorTypeCorrect == InjectorSafetySpec => []InjectorTypeOK
<1>1. InjectorInv => InjectorTypeOK
  BY DEF InjectorInv
<1> QED
  BY <1>1, InjectorInvHolds, PTL

\* However many ACKs, retries and interleavings, one fake per flow at most.
THEOREM AtMostOneFake == InjectorSafetySpec => []OneFakePerFlow
<1>1. InjectorInv => OneFakePerFlow
  BY DEF InjectorInv, Progress, OneFakePerFlow
<1> QED
  BY <1>1, InjectorInvHolds, PTL

\* A fake on the wire ends below the first byte of the client's stream, wrap-around and
\* retransmitted SYNs included.
THEOREM FakeNeverInStream == InjectorSafetySpec => []FakeBelowStream
<1>1. InjectorInv => FakeBelowStream
  <2> SUFFICES ASSUME InjectorInv, NEW f \in Flows, inj[f].sends > 0
               PROVE  SeqAdd(inj[f].seq, FakeLen) = inj[f].tpl
    BY DEF FakeBelowStream
  <2>1. inj[f].st = "sent"
    BY DEF InjectorInv, Progress
  <2>2. inj[f].isn \in Seqs
    BY DEF InjectorInv, InjectorTypeOK, InjectionState
  <2> QED
    BY <2>1, <2>2, FakeEndsAtNext DEF InjectorInv, Progress
<1> QED
  BY <1>1, InjectorInvHolds, PTL

\* No confirmation without a handshake of the flow's own that triggered the fake.
THEOREM ConfirmationNeedsTrigger == InjectorSafetySpec => []ConfirmNeedsTrigger
<1>1. InjectorInv => ConfirmNeedsTrigger
  BY DEF InjectorInv, Progress, ConfirmNeedsTrigger
<1> QED
  BY <1>1, InjectorInvHolds, PTL

-----------------------------------------------------------------------------
(* Who is waited for                                                         *)

\* An injection that failed for good was reported to the flow.
Reported == \A f \in Flows : inj[f].st = "failed" => ps[f].failed

\* A packet starts an injection, or leaves all of them alone, and never takes a failure back.
LEMMA SnifferStarts ==
    ASSUME InjectorInv, HandlePacket, NEW f \in Flows
    PROVE  /\ inj'[f] = inj[f] \/ (inj[f].st = "idle" /\ inj'[f].st = "scheduled")
           /\ ps[f].failed => ps'[f].failed
<1> USE DEF InjectorInv, InjectorTypeOK
<1>1. held \in Flows
  BY DEF HandlePacket, OutboundSyn, OutboundAckIgnored, OutboundAckMismatch, OutboundAckTrigger,
         InboundAck, InboundRst, OtherPacket, Handling
<1>2. CASE OutboundAckTrigger
  <2>1. \A g \in Flows : ps'[g].failed = ps[g].failed
    BY <1>2 DEF OutboundAckTrigger, PortState
  <2>2. inj[held].st = "idle"
    BY <1>1, <1>2 DEF OutboundAckTrigger, Progress
  <2>3. inj'[held].st = "scheduled" /\ \A g \in Flows \ {held} : inj'[g] = inj[g]
    BY <1>1, <1>2 DEF OutboundAckTrigger, InjectionState
  <2> QED
    BY <2>1, <2>2, <2>3
<1>3. CASE OutboundSyn
  BY <1>1, <1>3 DEF OutboundSyn, PortState
<1>4. CASE OutboundAckIgnored \/ OtherPacket
  BY <1>4 DEF OutboundAckIgnored, OtherPacket
<1>5. CASE OutboundAckMismatch
  BY <1>1, <1>5 DEF OutboundAckMismatch, PortState
<1>6. CASE InboundAck
  BY <1>1, <1>6 DEF InboundAck, PortState
<1>7. CASE InboundRst
  BY <1>1, <1>7 DEF InboundRst, PortState
<1> QED
  BY <1>2, <1>3, <1>4, <1>5, <1>6, <1>7 DEF HandlePacket

\* An injection goroutine ends with the frame sent or the failure reported.
LEMMA InjectionAdvances ==
    ASSUME InjectorInv, NEW f \in Flows, InjectStep(f)
    PROVE  /\ \/ inj[f].st = "scheduled" /\ inj'[f].st \in {"retry", "sent"}
              \/ inj[f].st = "retry" /\ inj'[f].st \in {"sent", "failed"}
           /\ inj'[f].st = "failed" => ps'[f].failed
           /\ \A g \in Flows : ps[g].failed => ps'[g].failed
           /\ \A g \in Flows \ {f} : inj'[g] = inj[g]
<1> USE DEF InjectorInv, InjectorTypeOK, InjectionState
<1>1. CASE Inject(f)
  BY <1>1 DEF Inject, Pending
<1>2. CASE InjectFails(f)
  BY <1>2 DEF InjectFails
<1>3. CASE RetryFails(f)
  <2>1. \A g \in Flows : ps'[g].failed = (g = f \/ ps[g].failed)
    BY <1>3 DEF RetryFails, PortState
  <2> QED
    BY <1>3, <2>1 DEF RetryFails
<1> QED
  BY <1>1, <1>2, <1>3 DEF InjectStep

\* What any step does to the injection of one flow.
LEMMA InjectionsMove ==
    ASSUME InjectorInv, [InjectorNext]_injectorVars, NEW f \in Flows
    PROVE  /\ \/ inj'[f] = inj[f]
              \/ inj[f].st = "idle" /\ inj'[f].st = "scheduled"
              \/ InjectStep(f)
           /\ ps[f].failed => ps'[f].failed
<1>1. CASE UNCHANGED injectorVars
  BY <1>1 DEF injectorVars
<1>2. ASSUME NEW p \in Ports, CleanupPort(p) PROVE UNCHANGED <<inj, ps>>
  BY <1>2 DEF CleanupPort
<1>3. ASSUME NEW p \in Ports, NEW g \in Flows, RegisterPort(p, g)
      PROVE  inj' = inj /\ (ps[f].failed => ps'[f].failed)
  BY <1>3 DEF RegisterPort, InjectorInv, InjectorTypeOK, PortState
<1>4. ASSUME NEW k \in Packets, Receive(k) PROVE UNCHANGED <<inj, ps>>
  BY <1>4 DEF Receive
<1>5. ASSUME Sniff
      PROVE  /\ inj'[f] = inj[f] \/ (inj[f].st = "idle" /\ inj'[f].st = "scheduled")
             /\ ps[f].failed => ps'[f].failed
  <2>1. CASE Lookup \/ LookupMisses
    BY <2>1 DEF Lookup, LookupMisses
  <2>2. CASE HandlePacket
    BY <2>2, SnifferStarts
  <2> QED
    BY <1>5, <2>1, <2>2 DEF Sniff
<1>6. ASSUME NEW g \in Flows, InjectStep(g)
      PROVE  (g = f \/ inj'[f] = inj[f]) /\ (ps[f].failed => ps'[f].failed)
  BY <1>6, InjectionAdvances
<1>7. CASE Stop
  BY <1>7 DEF Stop
<1> QED
  BY <1>1, <1>2, <1>3, <1>4, <1>5, <1>6, <1>7, Zenon DEF InjectorNext

\* A fake in flight is reported or on its way in every behaviour.
LEMMA ReportedHolds == InjectorSafetySpec => []Reported
<1>1. InjectorInit => Reported
  BY DEF InjectorInit, Reported, NoInjection
<1>2. InjectorInv /\ Reported /\ [InjectorNext]_injectorVars => Reported'
  <2> SUFFICES ASSUME InjectorInv, Reported, [InjectorNext]_injectorVars,
                      NEW f \in Flows, inj'[f].st = "failed"
               PROVE  ps'[f].failed
    BY DEF Reported
  <2>1. CASE InjectStep(f)
    BY <2>1, InjectionAdvances
  <2>2. CASE ~InjectStep(f)
    <3>1. inj'[f] = inj[f] /\ (ps[f].failed => ps'[f].failed)
      BY <2>2, InjectionsMove
    <3> QED
      BY <3>1 DEF Reported
  <2> QED
    BY <2>1, <2>2
<1> QED
  BY <1>1, <1>2, InjectorInvHolds, PTL DEF InjectorSafetySpec

\* A scheduled fake leaves nobody waiting for nothing: it was sent, its failure reported, or
\* its goroutine has a step to take.
FakeInHand == \A f \in Flows : ps[f].fakeSent => inj[f].sends = 1 \/ ps[f].failed \/ Pending(f)

\* So somebody still has to deal with each fake that was asked for.
LEMMA FakeIsInHand == InjectorInv /\ Reported => FakeInHand
BY DEF FakeInHand, Reported, InjectorInv, InjectorTypeOK, InjectionState, Progress, Pending

\* The guards of its steps say when an injection goroutine can take one.
InjectionCanStep(f) == [](Pending(f) => ENABLED <<InjectStep(f)>>_injectorVars)

\* The two attempts of one injection goroutine.
LEMMA FakeOfFlowSettles ==
    ASSUME NEW f \in Flows
    PROVE  InjectorSafetySpec /\ InjectionFairness(f) /\ InjectionCanStep(f)
             => (ps[f].fakeSent ~> (inj[f].sends = 1 \/ ps[f].failed))
<1> DEFINE Scheduled == inj[f].st = "scheduled"
           Retrying == inj[f].st = "retry"
           Over == inj[f].st \in {"sent", "failed"}
           Good == InjectorInv /\ Reported
<1>1. Good /\ ps[f].fakeSent => Scheduled \/ Retrying \/ inj[f].sends = 1 \/ ps[f].failed
  BY FakeIsInHand DEF FakeInHand, Pending
<1>2. Pending(f) <=> Scheduled \/ Retrying
  BY DEF Pending
<1>3. Good /\ Over => inj[f].sends = 1 \/ ps[f].failed
  BY DEF InjectorInv, Reported, Progress
<1>4. Good /\ [InjectorNext]_injectorVars =>
        /\ Scheduled => Scheduled' \/ Retrying' \/ Over'
        /\ Retrying => Retrying' \/ Over'
  BY InjectionsMove, InjectionAdvances
<1>5. Good /\ <<InjectStep(f)>>_injectorVars =>
        /\ Scheduled => Retrying' \/ Over'
        /\ Retrying => Over'
  BY InjectionAdvances
<1>6. InjectorSafetySpec => []Good
  BY InjectorInvHolds, ReportedHolds, PTL
<1> HIDE DEF Scheduled, Retrying, Over, Good
<1> QED
  BY <1>1, <1>2, <1>3, <1>4, <1>5, <1>6, PTL
  DEF InjectorSafetySpec, InjectionFairness, InjectionCanStep

\* No waiter sits out the timeout because of a fake that was never sent: under the fairness
\* of the injection goroutines each fake is sent or reported as failed, whatever comes
\* between the two attempts, Stop included (injectFrame's caller in handlePacket).
THEOREM FakesSettle == InjectorSpec /\ (\A f \in Flows : InjectionCanStep(f)) => FakeSettles
<1>1. InjectorSpec => InjectorSafetySpec /\ \A f \in Flows : InjectionFairness(f)
  BY PTL DEF InjectorSpec, InjectorFairness
<1> QED
  BY <1>1, FakeOfFlowSettles DEF FakeSettles

=============================================================================
