---------------------------- MODULE MCTaskService ----------------------------
EXTENDS TaskService, TLC

CONSTANTS w1, w2, w3, r1, r2, r3, q1, a1, a2

MCWorkers3 == {w1, w2, w3}
MCRuns2 == {r1, r2}
MCRuns3 == {r1, r2, r3}
MCQueries1 == {q1}
MCAddresses1 == {a1}
MCAddresses2 == {a1, a2}

(* A JavaScript runner takes the steps of a Lua runner. *)
MCLanguages == {"lua", "python", "unknown"}

(* Workers, addresses and runs are interchangeable, in the safety run. *)
MCSymmetry == Permutations(Workers) \cup Permutations(Addresses) \cup Permutations(Runs)
=============================================================================
