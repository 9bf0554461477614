-------------------------- MODULE MCSQLiteStore ----------------------------
(* Finite instances of SQLiteStore: one project, interchangeable handlers.  *)
EXTENDS SQLiteStore, TLC

CONSTANTS p1

MCProjectOf == [x \in Keys \cup APIKeys |-> p1]

HandlerSymmetry == Permutations(Handlers)
=============================================================================
