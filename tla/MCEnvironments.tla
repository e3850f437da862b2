-------------------------- MODULE MCEnvironments --------------------------
(* Small instances of Environments for TLC. *)
EXTENDS Environments, TLC

CONSTANTS g, e1, e2, e3, e4, e5, e6

MCSymmetry == Permutations(Env \ {Global})
=============================================================================
