----------------------------- MODULE MCResolver -----------------------------
(* Small instances of Resolver for TLC. *)
EXTENDS Resolver, TLC

CONSTANTS x, y, z

MCSymmetry == Permutations(Name)
=============================================================================
