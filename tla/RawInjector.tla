---- MODULE RawInjector ----
(***************************************************************************)
(* The Linux raw injector (internal/rawinjector/rawinjector_linux.go): a   *)
(* registry of local ports, the sniffer goroutine that follows every       *)
(* registered handshake through captured packets, and one goroutine per    *)
(* flow that injects the fake ClientHello.                                 *)
(*                                                                         *)
(* A member of Flows stands for one portState object: the code allocates a *)
(* fresh one in every successful RegisterPort, and the goroutines keep a   *)
(* pointer to it after CleanupPort.  Packets of other remotes never reach  *)
(* the state (line 626), so a packet here is already one between this host *)
(* (own), or a host behind it (~own), and the injector's remote endpoint.  *)
(***************************************************************************)
EXTENDS Naturals, FiniteSets

CONSTANTS
    Ports,         \* local TCP ports
    Flows,         \* portState objects
    NoFlow,        \* "no such entry"
    NoPacket,      \* the sniffer holds no packet
    SeqMod,        \* number of sequence numbers: 2^32 in the code
    FakeLen,       \* length of the fake ClientHello
    LocalIPKnown   \* whether the injector could determine its source address

ASSUME FlowAssumption == NoFlow \notin Flows
ASSUME SeqAssumption == SeqMod \in Nat /\ FakeLen \in Nat /\ 0 < FakeLen /\ FakeLen < SeqMod
ASSUME LocalIPAssumption == LocalIPKnown \in BOOLEAN

Seqs == 0 .. SeqMod - 1

SeqSubNoWrap(a, b) == a - b

\* uint32 addition and subtraction of the sequence numbers.
SeqAdd(a, b) == IF a + b < SeqMod THEN a + b ELSE a + b - SeqMod
SeqSub(a, b) == IF a < b THEN a + SeqMod - b ELSE a - b

\* kind "syn" is SYN without ACK, "ack" is ACK without SYN, FIN or RST (an
\* outbound one without payload), "rst" has RST; num is the sequence number of
\* an outbound packet and the acknowledgment number of an inbound one.
Packets == [dir : {"out", "in"}, kind : {"syn", "ack", "rst", "other"},
            port : Ports, num : Seqs, own : BOOLEAN]

ASSUME PacketAssumption == NoPacket \notin Packets

VARIABLES
    ports,     \* injector.ports: which portState a local port is registered to
    ps,        \* the portState objects
    inj,       \* the injection goroutine of each portState
    pkt,       \* the packet sniffLoop took from the capture socket
    held,      \* the portState pointer handlePacket looked up for it
    running    \* injector.running, with the two descriptors open

injectorVars == <<ports, ps, inj, pkt, held, running>>

\* synSeq is meaningful once synSeen; confirmed and failed say that the channel is closed.
PortState == [alloc : BOOLEAN, synSeen : BOOLEAN, synSeq : Seqs, fakeSent : BOOLEAN,
              mismatchSeen : BOOLEAN, confirmed : BOOLEAN, failed : BOOLEAN]

\* tpl is the sequence number of the template packet, isn the copy of synSeq the
\* goroutine captured, seq the number written into the frame, sends how many frames
\* went out (counted to state properties, the code has no such counter).
InjectionState == [st : {"idle", "scheduled", "retry", "sent", "failed"},
              tpl : Seqs, isn : Seqs, seq : Seqs, sends : 0 .. 2]

UnusedPortState == [alloc |-> FALSE, synSeen |-> FALSE, synSeq |-> 0, fakeSent |-> FALSE,
                    mismatchSeen |-> FALSE, confirmed |-> FALSE, failed |-> FALSE]

NoInjection == [st |-> "idle", tpl |-> 0, isn |-> 0, seq |-> 0, sends |-> 0]

\* New and a successful Start.
InjectorInit ==
    /\ ports = [p \in Ports |-> NoFlow]
    /\ ps = [f \in Flows |-> UnusedPortState]
    /\ inj = [f \in Flows |-> NoInjection]
    /\ pkt = NoPacket
    /\ held = NoFlow
    /\ running = TRUE

-----------------------------------------------------------------------------
(* The registry: RegisterPort, CleanupPort, WaitForConfirmationDetailed.    *)

RegisterPortClobbers(p, f) ==
    /\ ~ps[f].alloc
    /\ ports' = [ports EXCEPT ![p] = f]
    /\ ps' = [ps EXCEPT ![f].alloc = TRUE]
    /\ UNCHANGED <<inj, pkt, held, running>>

\* RegisterPort returned true: p was free, and now has a portState of its own.
RegisterPort(p, f) ==
    /\ ports[p] = NoFlow
    /\ ~ps[f].alloc
    /\ ports' = [ports EXCEPT ![p] = f]
    /\ ps' = [ps EXCEPT ![f].alloc = TRUE]
    /\ UNCHANGED <<inj, pkt, held, running>>

\* CleanupPort deletes the entry whoever owns it; pointers to it live on.
CleanupPort(p) ==
    /\ ports' = [ports EXCEPT ![p] = NoFlow]
    /\ UNCHANGED <<ps, inj, pkt, held, running>>

\* What WaitForConfirmationDetailed may return now for the looked-up f: select
\* takes any ready case, and the timer may be due at any moment.
WaitOutcomes(f) ==
    IF f = NoFlow
    THEN {"not_registered"}
    ELSE {"timeout"} \cup {s \in {"confirmed"} : ps[f].confirmed}
                     \cup {s \in {"failed"} : ps[f].failed}

-----------------------------------------------------------------------------
(* sniffLoop and handlePacket.  One goroutine: it receives a packet, looks  *)
(* the port up under portsMu, and updates the portState under its own lock; *)
(* RegisterPort, CleanupPort and Stop may come between any two of these.    *)

\* Recvfrom returned packet k to the running loop.  A loop that had tested running before
\* Stop cleared it may take one more packet: that order is Receive and then Stop, which
\* leaves the packet in hand.
Receive(k) ==
    /\ running
    /\ pkt = NoPacket
    /\ pkt' = k
    /\ UNCHANGED <<ports, ps, inj, held, running>>

OwnPacketAny(k) == k \in Packets

\* The localIP guard: a packet of another host is ours only if localIP is unset.
OwnPacket(k) == LocalIPKnown => k.own

\* The lookup finds a portState for a packet the guards let through.
Lookup ==
    /\ pkt # NoPacket
    /\ held = NoFlow
    /\ ports[pkt.port] # NoFlow
    /\ OwnPacket(pkt)
    /\ held' = ports[pkt.port]
    /\ UNCHANGED <<ports, ps, inj, pkt, running>>

\* An unregistered port or a foreign host: handlePacket returns.
LookupMisses ==
    /\ pkt # NoPacket
    /\ held = NoFlow
    /\ \/ ports[pkt.port] = NoFlow
       \/ ~OwnPacket(pkt)
    /\ pkt' = NoPacket
    /\ UNCHANGED <<ports, ps, inj, held, running>>

\* handlePacket is about to act on a packet of this shape, then returns.
Handling(dir, kind) ==
    /\ held # NoFlow
    /\ pkt.dir = dir
    /\ pkt.kind = kind
    /\ pkt' = NoPacket
    /\ held' = NoFlow
    /\ UNCHANGED <<ports, running>>

OutboundSyn ==
    /\ Handling("out", "syn")
    /\ ps' = [ps EXCEPT ![held].synSeq = pkt.num, ![held].synSeen = TRUE]
    /\ UNCHANGED inj

\* A handshake ACK after the trigger, or before any SYN: noted and ignored.
OutboundAckIgnored ==
    /\ Handling("out", "ack")
    /\ ps[held].fakeSent \/ ~ps[held].synSeen
    /\ UNCHANGED <<ps, inj>>

SeqMatches(f) == ps[f].synSeen /\ pkt.num = SeqAdd(ps[f].synSeq, 1)

\* The first mismatching ACK is tolerated, a second one fails the flow.
OutboundAckMismatch ==
    /\ Handling("out", "ack")
    /\ ps[held].synSeen /\ ~ps[held].fakeSent
    /\ ~SeqMatches(held)
    /\ ps' = IF ps[held].mismatchSeen
             THEN [ps EXCEPT ![held].failed = TRUE]
             ELSE [ps EXCEPT ![held].mismatchSeen = TRUE]
    /\ UNCHANGED inj

OutboundAckTriggerRepeats ==
    /\ Handling("out", "ack")
    /\ SeqMatches(held)
    /\ ps' = [ps EXCEPT ![held].fakeSent = TRUE]
    /\ inj' = [inj EXCEPT ![held].st = "scheduled", ![held].tpl = pkt.num,
                          ![held].isn = ps[held].synSeq]

\* The ACK that ends the handshake: fakeSent is set and the goroutine started,
\* one millisecond before the frame is built.
OutboundAckTrigger ==
    /\ Handling("out", "ack")
    /\ ~ps[held].fakeSent
    /\ SeqMatches(held)
    /\ ps' = [ps EXCEPT ![held].fakeSent = TRUE]
    /\ inj' = [inj EXCEPT ![held].st = "scheduled", ![held].tpl = pkt.num,
                          ![held].isn = ps[held].synSeq]

InboundAckAny ==
    /\ Handling("in", "ack")
    /\ ps' = [ps EXCEPT ![held].confirmed = TRUE]
    /\ UNCHANGED inj

\* An inbound ACK, with or without data: confirms when it acknowledges exactly
\* the handshake's sequence number and the fake is scheduled.
InboundAck ==
    /\ Handling("in", "ack")
    /\ ps' = IF ps[held].fakeSent /\ pkt.num = SeqAdd(ps[held].synSeq, 1)
             THEN [ps EXCEPT ![held].confirmed = TRUE]
             ELSE ps
    /\ UNCHANGED inj

InboundRstConfirms ==
    /\ Handling("in", "rst")
    /\ ps' = [ps EXCEPT ![held].confirmed = TRUE]
    /\ UNCHANGED inj

InboundRst ==
    /\ Handling("in", "rst")
    /\ ps' = [ps EXCEPT ![held].failed = TRUE]
    /\ UNCHANGED inj

\* Every other shape, the injected frame itself (outbound with payload) included.
OtherPacket ==
    /\ \/ Handling("out", "rst") \/ Handling("out", "other")
       \/ Handling("in", "syn") \/ Handling("in", "other")
    /\ UNCHANGED <<ps, inj>>

HandlePacket ==
    \/ OutboundSyn
    \/ OutboundAckIgnored
    \/ OutboundAckMismatch
    \/ OutboundAckTrigger
    \/ InboundAck
    \/ InboundRst
    \/ OtherPacket

-----------------------------------------------------------------------------
(* The injection goroutine: buildFakeFrame, then injectFrame with one retry *)
(* after a failed send.  buildFakeFrame cannot fail: handlePacket has       *)
(* checked the same header lengths of the same bytes.                       *)

\* The fake ends where the client's first byte will start.
FakeSeq(isn) == SeqSub(SeqAdd(isn, 1), FakeLen)

Pending(f) == inj[f].st \in {"scheduled", "retry"}

InjectLateRead(f) ==
    /\ running
    /\ Pending(f)
    /\ inj' = [inj EXCEPT ![f].st = "sent", ![f].seq = FakeSeq(ps[f].synSeq),
                          ![f].sends = inj[f].sends + 1]
    /\ UNCHANGED <<ports, ps, pkt, held, running>>

\* injectFrame succeeded, at the first try or at the retry.
Inject(f) ==
    /\ running
    /\ Pending(f)
    /\ inj' = [inj EXCEPT ![f].st = "sent", ![f].seq = FakeSeq(inj[f].isn),
                          ![f].sends = inj[f].sends + 1]
    /\ UNCHANGED <<ports, ps, pkt, held, running>>

\* The first send failed (no route, EAGAIN, or EBADF after Stop).
InjectFails(f) ==
    /\ inj[f].st = "scheduled"
    /\ inj' = [inj EXCEPT ![f].st = "retry"]
    /\ UNCHANGED <<ports, ps, pkt, held, running>>

RetryFailsSilently(f) ==
    /\ inj[f].st = "retry"
    /\ inj' = [inj EXCEPT ![f].st = "failed"]
    /\ UNCHANGED <<ports, ps, pkt, held, running>>

\* The second send failed: markFailed.
RetryFails(f) ==
    /\ inj[f].st = "retry"
    /\ inj' = [inj EXCEPT ![f].st = "failed"]
    /\ ps' = [ps EXCEPT ![f].failed = TRUE]
    /\ UNCHANGED <<ports, pkt, held, running>>

\* Stop: running is swapped to false and both descriptors are closed, so that
\* every later send fails; the sniffer finishes the packet it has.
Stop ==
    /\ running
    /\ running' = FALSE
    /\ UNCHANGED <<ports, ps, inj, pkt, held>>

Sniff == Lookup \/ LookupMisses \/ HandlePacket

InjectStep(f) == Inject(f) \/ InjectFails(f) \/ RetryFails(f)

\* The injector alone: any caller, any packets.
InjectorNext ==
    \/ \E p \in Ports : CleanupPort(p) \/ \E f \in Flows : RegisterPort(p, f)
    \/ \E k \in Packets : Receive(k)
    \/ Sniff
    \/ \E f \in Flows : InjectStep(f)
    \/ Stop

InjectionFairness(f) == WF_injectorVars(InjectStep(f))

\* A received packet is handled and a started goroutine runs to its end: both
\* wait for nothing but their own sleeps.
InjectorFairness ==
    /\ WF_injectorVars(Sniff)
    /\ \A f \in Flows : InjectionFairness(f)

InjectorSafetySpec == InjectorInit /\ [][InjectorNext]_injectorVars
InjectorSpec == InjectorSafetySpec /\ InjectorFairness

-----------------------------------------------------------------------------
(* Properties                                                               *)

InjectorTypeOK ==
    /\ ports \in [Ports -> Flows \cup {NoFlow}]
    /\ ps \in [Flows -> PortState]
    /\ inj \in [Flows -> InjectionState]
    /\ pkt \in Packets \cup {NoPacket}
    /\ held \in Flows \cup {NoFlow}
    /\ running \in BOOLEAN

\* However often handshake ACKs are retransmitted or sends are retried, a flow puts
\* at most one fake ClientHello on the wire (fakeSent is tested and set under ps.mu).
OneFakePerFlow == \A f \in Flows : inj[f].sends <= 1

\* An injected fake ends exactly below the template's sequence number, in space the
\* server has already received, even if the SYN is retransmitted with another number
\* during the goroutine's sleep: the bytes can never become part of the stream.
FakeBelowStream ==
    \A f \in Flows : inj[f].sends > 0 => SeqAdd(inj[f].seq, FakeLen) = inj[f].tpl

\* A flow is never confirmed unless its own handshake was seen to end, and unless a
\* fake was at least scheduled for it, whatever packets hit its port.
ConfirmNeedsTrigger ==
    \A f \in Flows : ps[f].confirmed => ps[f].fakeSent /\ inj[f].st # "idle"

\* A flow whose fake was scheduled ends with the fake on the wire or marked failed, so
\* that its waiter need not sit out the timeout, even if Stop comes in between.
FakeSettles ==
    \A f \in Flows : ps[f].fakeSent ~> (inj[f].sends = 1 \/ ps[f].failed)

====
