--------------------------- MODULE MCMemoryStore ---------------------------
(* Finite instances of MemoryStore: everything in one project, except API    *)
(* key a2, which belongs to a second one.                                    *)
EXTENDS MemoryStore, TLC

CONSTANTS a2, p1, p2

MCProjectOf == [x \in Keys \cup APIKeys |-> IF x = a2 THEN p2 ELSE p1]

ThreadSymmetry == Permutations(Threads)
=============================================================================
