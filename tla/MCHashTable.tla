---------------------------- MODULE MCHashTable ----------------------------
(* Small instances of HashTable for TLC. *)
EXTENDS HashTable, TLC

CONSTANTS k1, k2, k3, i1, i2

MCSymmetry == Permutations(Key)
=============================================================================
