---- MODULE MCStrict ----
(* Two connections, at the same time on ports of their own, or the second, when the first
   has got its data through or failed, on the port the first one had.  All that can happen
   to both at once is too much for one run: the action constraint leaves out steps of
   Forwarder, and adds none. *)
EXTENDS MCForwarder

\* The server, too, waits for its turn.
OwnPorts ==
    /\ port'[f1] \in {NoPort, p1} /\ port'[f2] \in {NoPort, p2}
    /\ Len(wire') <= 1
    /\ \A f \in acked' \ acked : inj[f].sends > 0

OnePort ==
    /\ p2 \notin {port'[f1], port'[f2]}
    /\ pc'[f2] # "idle" => pc'[f1] \in {"relay", "unregister", "done"}

OwnOrOnePort == OwnPorts \/ OnePort
====
