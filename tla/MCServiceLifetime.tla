------------------------- MODULE MCServiceLifetime -------------------------
EXTENDS ServiceLifetime

CONSTANTS w1, w2, p1, p2, p3

MCWorkers == {w1, w2}
MCPackets3 == {p1, p2, p3}
=============================================================================
