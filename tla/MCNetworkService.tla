--------------------------- MODULE MCNetworkService ---------------------------
EXTENDS NetworkService, TLC

CONSTANTS w1, w2, c1, c2, h1, h2

MCWorkers == {w1, w2}
MCClients == {c1, c2}
MCPatient == {c1}
MCHandles == {h1, h2}

(* c2 may send a handshake, a command and one more handshake. *)
MCPackets == [c \in MCClients |-> IF c = c1 THEN 2 ELSE 3]
MCFewPackets == [c \in MCClients |-> IF c = c1 THEN 1 ELSE 2]

(* Workers and transport objects are interchangeable. *)
MCSymmetry == Permutations(Workers) \cup Permutations(Handles)
===============================================================================
