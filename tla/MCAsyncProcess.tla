--------------------------- MODULE MCAsyncProcess ---------------------------
(* Small instances of AsyncProcess for TLC. *)
EXTENDS AsyncProcess, TLC

CONSTANTS root, a, b, c, one, text, func

\* A number fits beside its size in every pipe; a text is longer.
MCBodyLen == [v \in Value |-> IF v = text THEN 3 ELSE 1]

\* The children are alike.
MCSymmetry == Permutations(Proc \ {Root})
=============================================================================
