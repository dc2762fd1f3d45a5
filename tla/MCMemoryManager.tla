-------------------------- MODULE MCMemoryManager ---------------------------
(* MemoryManager on small instances.                                       *)
EXTENDS MemoryManager, TLC

CONSTANTS a, ab, m1, m2, m3, d1, d2, d3, t1, t2

(* ab stands for a session named like a with a colon behind it.            *)
PrefixOf(s) == IF s = a THEN {a, ab} ELSE {s}

(* chat:a:<index> is before chat:a:<rest of the name>:<index>.             *)
KeyOrder(x, y) == IF x[1] = y[1] THEN x[2] < y[2] ELSE x[1] = a

Symmetry == Permutations({m1, m2, m3}) \cup Permutations({d1, d2, d3}) \cup
            Permutations({t1, t2})
=============================================================================
