---- MODULE MCForwarder ----
(* Connections f1, f2, ... with distinct initial sequence numbers, and the packets a
   host behind the router can exchange with the same upstream from a port of ours. *)
EXTENDS Forwarder, TLC

CONSTANTS f1, f2, f3, p1, p2

\* Far enough apart that no acknowledgment of one flow fits another.
MCIsn == [f \in Flows |-> IF f = f1 THEN 0 ELSE IF f = f2 THEN 3 ELSE 6]

\* Without an injector nobody looks at sequence numbers, and connections are alike.
MCSameIsn == [f \in Flows |-> 0]
FlowSymmetry == Permutations(Flows)

MCForeign == [dir : {"in"}, kind : {"ack", "rst"}, port : {p1}, num : {1}, own : {FALSE}]
MCNoForeign == {}

PortSymmetry == Permutations(Ports)
====
