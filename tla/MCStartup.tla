---- MODULE MCStartup ----
(* Files that differ in what the stages look at: endpoints, listeners and method in
   all combinations, the top-level fields one or two at a time. *)
EXTENDS Startup

MCEndpoint(ip, port, sni, enabled) == [ip |-> ip, port |-> port, sni |-> sni, enabled |-> enabled]

A == MCEndpoint("a", 443, "s", TRUE)
B == MCEndpoint("hostname", 0, "", TRUE)
C == MCEndpoint("b", 443, "t", TRUE)
Off == MCEndpoint("", 0, "", FALSE)
BadPort == MCEndpoint("b", 70000, "t", TRUE)
BadName == MCEndpoint("b", 443, "long", TRUE)

Inheriting == [port |-> 0, ip |-> "", cport |-> 0, sni |-> "", method |-> ""]
Strict == [port |-> 444, ip |-> "hostname", cport |-> 443, sni |-> "t", method |-> "WRONG_SEQ"]
Faulty == [port |-> 444, ip |-> "b", cport |-> 70000, sni |-> "long", method |-> "bogus"]

Base == [DefaultConfig EXCEPT !.port = 443]

TopLevels ==
    { Base,
      [Base EXCEPT !.port = 0], [Base EXCEPT !.cport = 0], [Base EXCEPT !.port = 70000],
      [Base EXCEPT !.ip = ""], [Base EXCEPT !.sni = ""], [Base EXCEPT !.sni = "long"],
      [Base EXCEPT !.lb = "bogus", !.auto = TRUE],
      [Base EXCEPT !.lb = "round_robin", !.retries = -1], [Base EXCEPT !.bad = TRUE] }

MCFiles ==
    { [top EXCEPT !.endpoints = es, !.listeners = ls, !.method = m, !.probe = p] :
        top \in TopLevels,
        es \in {<<>>, <<A>>, <<A, C>>, <<C, B, A>>, <<Off, C>>, <<Off>>, <<A, BadPort>>,
                <<BadName>>},
        ls \in {<<>>, <<Inheriting>>, <<Strict, Inheriting>>, <<Inheriting, Faulty>>},
        m \in {"", "fragment", "combined", "wrong_seq", "WRONG_SEQ", "bogus"},
        p \in BOOLEAN }
====
