---- MODULE ConfirmationGate ----
(***************************************************************************)
(* What wrong_seq promises the client of a connection, whatever packets    *)
(* are lost and whatever else the server does: data passes only through a  *)
(* gate that an acknowledgment of the connection's own handshake has       *)
(* unlocked, and a gate that was closed never opens again.                 *)
(***************************************************************************)
CONSTANT Conns

VARIABLE gate

Init == gate = [c \in Conns |-> "shut"]

\* A confirming acknowledgment arrived.
Unlock(c) == gate[c] = "shut" /\ gate' = [gate EXCEPT ![c] = "unlocked"]

\* The first byte of the client's data goes upstream.
Open(c) == gate[c] = "unlocked" /\ gate' = [gate EXCEPT ![c] = "open"]

\* The connection is dropped, given up, or over.
Close(c) == gate[c] # "closed" /\ gate' = [gate EXCEPT ![c] = "closed"]

Next == \E c \in Conns : Unlock(c) \/ Open(c) \/ Close(c)

Spec == Init /\ [][Next]_gate
====
