---- MODULE WindowsInjector ----
(***************************************************************************)
(* The Windows raw injector (internal/rawinjector/rawinjector_windows.go): *)
(* the protocol of RawInjector over WinDivert handles, and what differs    *)
(* from Linux: the local address is refreshed while packets are handled, a *)
(* mismatching handshake ACK is ignored, a failed send is not retried, and *)
(* Stop waits for both loops.                                              *)
(*                                                                         *)
(* A packet's own says which of two addresses it carries on this host's    *)
(* side: the first one, or another (the one after a VPN or DHCP change, or *)
(* that of another host).                                                  *)
(***************************************************************************)
EXTENDS RawInjector

VARIABLES
    localIP,   \* localIPVal: "unset" is the packed address 0
    loops,     \* the goroutines wg counts
    stopped    \* Stop has returned

windowsOnly == <<localIP, loops, stopped>>
windowsVars == <<injectorVars, windowsOnly>>

\* New, and a Start whose route lookup for an unset address may fail.
WindowsInit ==
    /\ InjectorInit
    /\ localIP \in {"unset", "first"}
    /\ loops = {"sniff", "refresh"}
    /\ stopped = FALSE

-----------------------------------------------------------------------------
(* The registry *)

WinRegisterPort(p, f) ==
    /\ RegisterPort(p, f)
    /\ UNCHANGED windowsOnly

WinCleanupPort(p) ==
    /\ CleanupPort(p)
    /\ UNCHANGED windowsOnly

-----------------------------------------------------------------------------
(* localIPRefreshLoop *)

\* One tick: the route lookup fails, or finds the address this host has now.
RefreshTick ==
    /\ "refresh" \in loops
    /\ running
    /\ localIP' \in {localIP, "first", "second"}
    /\ UNCHANGED <<injectorVars, loops, stopped>>

RefreshEndsNever ==
    /\ "refresh" \in loops
    /\ running
    /\ ~running
    /\ UNCHANGED <<injectorVars, localIP, loops, stopped>>

\* The tick after Stop ends the loop.
RefreshEnds ==
    /\ "refresh" \in loops
    /\ ~running
    /\ loops' = loops \ {"refresh"}
    /\ UNCHANGED <<injectorVars, localIP, stopped>>

-----------------------------------------------------------------------------
(* sniffLoop and handlePacket *)

\* The localIP guard, evaluated when the packet is handled.
WinOwnPacket(k) == localIP # "unset" => (k.own <=> localIP = "first")

\* WinDivertRecv returned packet k.  One that it still returns while Stop closes the handle
\* is modelled as taken just before Stop, as on Linux.
WinReceive(k) ==
    /\ Receive(k)
    /\ UNCHANGED windowsOnly

WinLookup ==
    /\ pkt # NoPacket
    /\ held = NoFlow
    /\ ports[pkt.port] # NoFlow
    /\ WinOwnPacket(pkt)
    /\ held' = ports[pkt.port]
    /\ UNCHANGED <<ports, ps, inj, pkt, running, windowsOnly>>

WinLookupMisses ==
    /\ pkt # NoPacket
    /\ held = NoFlow
    /\ \/ ports[pkt.port] = NoFlow
       \/ ~WinOwnPacket(pkt)
    /\ pkt' = NoPacket
    /\ UNCHANGED <<ports, ps, inj, held, running, windowsOnly>>

\* A handshake ACK after the trigger, before any SYN, or of another number.
WinAckIgnored ==
    /\ Handling("out", "ack")
    /\ ps[held].fakeSent \/ ~SeqMatches(held)
    /\ UNCHANGED <<ps, inj>>

WinHandlePacket ==
    /\ \/ OutboundSyn
       \/ WinAckIgnored
       \/ OutboundAckTrigger
       \/ InboundAck
       \/ InboundRst
       \/ OtherPacket
    /\ UNCHANGED windowsOnly

\* Stop closed the handle, which fails the pending WinDivertRecv.
SniffEnds ==
    /\ "sniff" \in loops
    /\ ~running
    /\ pkt = NoPacket
    /\ loops' = loops \ {"sniff"}
    /\ UNCHANGED <<injectorVars, localIP, stopped>>

-----------------------------------------------------------------------------
(* The injection goroutine and Stop *)

WinInject(f) ==
    /\ Inject(f)
    /\ UNCHANGED windowsOnly

WinInjectFailsSilently(f) ==
    /\ inj[f].st = "scheduled"
    /\ inj' = [inj EXCEPT ![f].st = "failed"]
    /\ UNCHANGED <<ports, ps, pkt, held, running, windowsOnly>>

\* The checksum helper or WinDivertSend failed: markFailed at once.
WinInjectFails(f) ==
    /\ inj[f].st = "scheduled"
    /\ inj' = [inj EXCEPT ![f].st = "failed"]
    /\ ps' = [ps EXCEPT ![f].failed = TRUE]
    /\ UNCHANGED <<ports, pkt, held, running, windowsOnly>>

\* Stop closes both handles ...
WinStop ==
    /\ Stop
    /\ UNCHANGED windowsOnly

StopReturnsEarly ==
    /\ ~running
    /\ ~stopped
    /\ stopped' = TRUE
    /\ UNCHANGED <<injectorVars, localIP, loops>>

\* ... and returns once wg is empty.
StopReturns ==
    /\ ~running
    /\ loops = {}
    /\ ~stopped
    /\ stopped' = TRUE
    /\ UNCHANGED <<injectorVars, localIP, loops>>

WinSniff == WinLookup \/ WinLookupMisses \/ WinHandlePacket

WinInjectStep(f) == WinInject(f) \/ WinInjectFails(f)

StopStep == SniffEnds \/ RefreshEnds \/ StopReturns

WindowsNext ==
    \/ \E p \in Ports : WinCleanupPort(p)
    \/ \E p \in Ports, f \in Flows : WinRegisterPort(p, f)
    \/ \E k \in Packets : WinReceive(k)
    \/ WinSniff
    \/ \E f \in Flows : WinInjectStep(f)
    \/ RefreshTick
    \/ WinStop
    \/ StopStep

WinInjectionFairness(f) == WF_windowsVars(WinInjectStep(f))

\* Goroutines that can run do, and a ticker ticks.
WindowsFairness ==
    /\ WF_windowsVars(WinSniff)
    /\ \A f \in Flows : WinInjectionFairness(f)
    /\ WF_windowsVars(StopStep)

WindowsSafetySpec == WindowsInit /\ [][WindowsNext]_windowsVars
WindowsSpec == WindowsSafetySpec /\ WindowsFairness

-----------------------------------------------------------------------------
(* Properties *)

WindowsTypeOK ==
    /\ InjectorTypeOK
    /\ localIP \in {"unset", "first", "second"}
    /\ loops \subseteq {"sniff", "refresh"}
    /\ stopped \in BOOLEAN

\* Stop returns, although it waits for a loop that may be handling a packet and for
\* one that looks at running only every five seconds.
StopCompletes == (~running /\ loops # {}) ~> stopped

\* After Stop has returned no captured packet changes a flow any more: the sniffer
\* was waited for, and only an injection goroutine, which wg does not count, may
\* still mark its own flow failed.
QuietAfterStop ==
    [][stopped => /\ held' = NoFlow
                  /\ \A f \in Flows : ps'[f] # ps[f] /\ ps[f].alloc
                                        => inj'[f] # inj[f] /\ inj'[f].st = "failed"
      ]_windowsVars
====
