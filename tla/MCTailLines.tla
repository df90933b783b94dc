---- MODULE MCTailLines ----
EXTENDS TailLines

MCLimits == 1 .. 3

====
