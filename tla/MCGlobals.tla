----------------------------- MODULE MCGlobals -----------------------------
(* Small instances of Globals for TLC. *)
EXTENDS Globals, TLC

CONSTANTS o1, o2, o3, x, y, z

MCSymmetry == Permutations(Obj) \cup Permutations(Text)
=============================================================================
