----------------------------- MODULE MCCompiler -----------------------------
(* Small instances of Compiler for TLC. *)
EXTENDS Compiler

CONSTANTS x, y

Programs(productions, maxCode) == [productions |-> productions, maxCode |-> maxCode]

\* Programs about names, about jumps, about loops and about functions.
MCGrammars ==
    { Programs({"block", "var", "fun", "name"}, 4),
      Programs({"block", "var", "logic", "if", "while"}, 8),
      Programs({"var", "for", "statement", "binary"}, 7),
      Programs({"fun", "return", "call", "unary"}, 4) }

\* Identifiers are only compared.
MCSymmetry == Permutations(Name)
=============================================================================
