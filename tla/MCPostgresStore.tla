-------------------------- MODULE MCPostgresStore --------------------------
(* Finite instances of PostgresStore: one project, interchangeable handlers. *)
EXTENDS PostgresStore, TLC

CONSTANTS p1

MCProjectOf == [x \in Keys \cup APIKeys |-> p1]

HandlerSymmetry == Permutations(Handlers)
=============================================================================
