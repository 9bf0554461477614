----------------------------- MODULE MCIdentity -----------------------------
(* The instances of Tenancy, and of the Accounts below it, for TLC.        *)
EXTENDS Tenancy, TLC

CONSTANTS h1, h2

Symmetry == Permutations(Handlers)
=============================================================================
