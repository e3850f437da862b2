---------------------------- MODULE MCUpvalues ----------------------------
(* Small instances of Upvalues for TLC. *)
EXTENDS Upvalues, TLC

CONSTANTS a, b, f, g, h, u, v, w

MCSymmetry == Permutations(Val) \cup Permutations(Closure) \cup Permutations(Up)
=============================================================================
