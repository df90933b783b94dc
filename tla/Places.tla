---- MODULE Places ----
(* The elements of a sequence that pass a test, in their order, as a loop that appends
   them collects them: the test gives the set of their places. *)
EXTENDS Naturals, Sequences, FiniteSets

\* How many of the places are not above p, and the k-th of the places.
CountUpTo(places, p) == Cardinality({q \in places : q <= p})
KthOf(places, k) == CHOOSE p \in places : CountUpTo(places, p) = k

ElementsAt(s, places) == [k \in 1 .. Cardinality(places) |-> s[KthOf(places, k)]]
====
