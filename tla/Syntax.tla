------------------------------- MODULE Syntax -------------------------------
(***************************************************************************)
(* What both parsers of Lox are to build: the derivations of a sequence of *)
(* tokens, by the precedences that src/vm/compiler.c names, with what the  *)
(* two dialects differ in as a parameter d:                                *)
(*   group   the precedence of what may stand between parentheses          *)
(*   value   that of what is printed, and of initial values                *)
(*   body    whether a branch or the body of a loop may be a declaration   *)
(*   returns whether `return` may stand here                               *)
(*   empty   whether `=` may be followed by no initial value               *)
(*   loops   whether there is a `for`                                      *)
(*                                                                         *)
(* Identifiers are one token, "name", and literals another, "value": how   *)
(* a program is parsed does not depend on more, if each occurrence is      *)
(* another identifier.  A tree is a tuple, the kind of its root and then   *)
(* its parts; <<>> is a part that is missing.                              *)
(***************************************************************************)
EXTENDS Naturals, Sequences, FiniteSets, SequencesExt

VARIABLE program    \* the tokens of the scanner, but for the last, "end"

\* Precedence, PREC_NONE = 0 to PREC_CALL = 9.
Assignment == 1
Or == 2
And == 3
Equality == 4
Comparison == 5
Term == 6
Factor == 7
Unary == 8
Call == 9

\* The binary operators of a precedence, one or two of each.
Operators(level) ==
    CASE level = Or -> {"or"} [] level = And -> {"and"}
      [] level = Equality -> {"=="} [] level = Comparison -> {"<"}
      [] level = Term -> {"-", "+"} [] level = Factor -> {"*"} [] OTHER -> {}

Unaries == {"-", "!", "await"}

\* `and` and `or` are associative: their trees are as flat as they can be.
Operands(op, tree) == IF tree # <<>> /\ tree[1] = op THEN Tail(tree) ELSE <<tree>>
Logical(op, left, right) == <<op>> \o Operands(op, left) \o Operands(op, right)
Binary(op, left, right) ==
    IF op \in {"or", "and"} THEN Logical(op, left, right) ELSE <<op, left, right>>

Name == <<"name">>

\* What w has at i..j.
Part(w, i, j) == SubSeq(w, i, IF j > Len(w) THEN Len(w) ELSE j)

RECURSIVE Expressions(_, _, _), Arguments(_, _)

\* The trees of w as an expression of at least that precedence.
Expressions(w, level, d) ==
    LET n == Len(w)
        calls == { k \in 2..n - 1 : w[k] = "(" /\ w[n] = ")" }
    IN  CASE n = 0 -> {}
          [] level = Assignment ->
               Expressions(w, Or, d) \cup
               IF n > 2 /\ w[1] = "name" /\ w[2] = "="
               THEN { <<"=", Name, value>> : value \in Expressions(Part(w, 3, n), Assignment, d) }
               ELSE {}
          [] level \in Or..Factor ->
               Expressions(w, level + 1, d) \cup
               UNION { { Binary(w[k], left, right) :
                           left \in Expressions(Part(w, 1, k - 1), level, d),
                           right \in Expressions(Part(w, k + 1, n), level + 1, d) } :
                       k \in { i \in 2..n - 1 : w[i] \in Operators(level) } }
          [] level = Unary ->
               Expressions(w, Call, d) \cup
               IF w[1] \in Unaries
               THEN { <<w[1], child>> : child \in Expressions(Tail(w), Unary, d) } ELSE {}
          [] level = Call ->
               (IF n = 1 /\ w[1] \in {"name", "value"} THEN {<<w[1]>>} ELSE {}) \cup
               (IF n > 2 /\ w[1] = "(" /\ w[n] = ")"
                THEN { <<"group", child>> : child \in Expressions(Part(w, 2, n - 1), d.group, d) }
                ELSE {}) \cup
               (IF Part(w, 1, 2) = <<"async", "name">> /\ 3 \in calls
                THEN { <<"async", Name>> \o args : args \in Arguments(Part(w, 4, n - 1), d) }
                ELSE {}) \cup
               UNION { { <<"call", callee>> \o args :
                           callee \in Expressions(Part(w, 1, k - 1), Call, d),
                           args \in Arguments(Part(w, k + 1, n - 1), d) } : k \in calls }

\* The lists of arguments, none for no tokens.
Arguments(w, d) ==
    IF w = <<>> THEN {<<>>}
    ELSE { <<e>> : e \in Expressions(w, Assignment, d) } \cup
         UNION { { <<e>> \o rest : e \in Expressions(Part(w, 1, k - 1), Assignment, d),
                                   rest \in Arguments(Part(w, k + 1, Len(w)), d) } :
                 k \in { i \in 2..Len(w) - 1 : w[i] = "," } }

\* Whether an `else` after the statement would belong to an `if` in it.
RECURSIVE Open(_)
Open(tree) ==
    \/ tree[1] = "if" /\ (Len(tree) = 3 \/ Open(Last(tree)))
    \/ tree[1] \in {"while", "for"} /\ Open(Last(tree))

\* The expressions between here and a last token.
Upto(last, w, level, d) ==
    IF w # <<>> /\ Last(w) = last THEN Expressions(Front(w), level, d) ELSE {}

ParameterList(w) ==
    w = <<>> \/ (Len(w) % 2 = 1
                 /\ \A i \in DOMAIN w : w[i] = IF i % 2 = 1 THEN "name" ELSE ",")

RECURSIVE Statements(_, _), Declarations(_, _), Lists(_, _)

\* What a condition and a body make of w from its second token on.
Conditional(kind, w, d, Bodies(_)) ==
    UNION { UNION { { <<kind, condition>> \o bodies : bodies \in Bodies(Part(w, k + 1, Len(w))) } :
                    condition \in Expressions(Part(w, 3, k - 1), Assignment, d) } :
            k \in { i \in 3..Len(w) : w[2] = "(" /\ w[i] = ")" } }

Branch(w, d) == IF d.body THEN Declarations(w, d) ELSE Statements(w, d)

Branches(w, d) ==
    { <<s>> : s \in Branch(w, d) } \cup
    UNION { UNION { { <<s, t>> : t \in Branch(Part(w, k + 1, Len(w)), d) } :
                    s \in { u \in Branch(Part(w, 1, k - 1), d) : ~ Open(u) } } :
            k \in { i \in DOMAIN w : w[i] = "else" } }

\* The loops of forStatement: between the parentheses of `for` an initializer
\* and a semicolon, a condition or none, two semicolons and a parenthesis, and
\* an increment or none.  splits are the ends of these three.
ForLoops(w, d) ==
    LET n == Len(w)
        Optional(u) == IF u = <<>> THEN {<<>>} ELSE Expressions(u, Assignment, d)
        Initializers(u) ==
            IF u = <<";">> THEN {<<>>}
            ELSE { s \in Declarations(u, d) : s[1] \in {"var", "expression"} }
        splits == { s \in (3..n) \X (3..n) \X (3..n) :
                      /\ Part(w, 1, 2) = <<"for", "(">>
                      /\ Part(w, s[1], s[1] + 1) = <<";", ";">> /\ s[1] + 1 < s[2]
                      /\ Part(w, s[2], s[2] + 2) = <<";", ";", ")">> /\ s[2] + 2 < s[3]
                      /\ w[s[3]] = ")" }
    IN  UNION { { <<"for", initializer, condition, increment, body>> :
                    initializer \in Initializers(Part(w, 3, s[1])),
                    condition \in Optional(Part(w, s[1] + 2, s[2] - 1)),
                    increment \in Optional(Part(w, s[2] + 3, s[3] - 1)),
                    body \in Branch(Part(w, s[3] + 1, n), d) } : s \in splits }

Statements(w, d) ==
    CASE w = <<>> -> {}
      [] w[1] = "print" -> { <<"print", e>> : e \in Upto(";", Tail(w), d.value, d) }
      [] w[1] = "return" ->
           IF ~ d.returns THEN {}
           ELSE { <<"return", e>> : e \in Upto(";", Tail(w), Assignment, d) } \cup
                IF w = <<"return", ";">> THEN {<<"return">>} ELSE {}
      [] w[1] = "{" ->
           IF Last(w) = "}" THEN { <<"block">> \o l : l \in Lists(Part(w, 2, Len(w) - 1), d) }
           ELSE {}
      [] w[1] = "if" -> Conditional("if", w, d, LAMBDA u : Branches(u, d))
      [] w[1] = "while" ->
           Conditional("while", w, d, LAMBDA u : { <<s>> : s \in Branch(u, d) })
      [] w[1] = "for" -> IF d.loops THEN ForLoops(w, d) ELSE {}
      [] OTHER -> { <<"expression", e>> : e \in Upto(";", w, Assignment, d) }

Declarations(w, d) ==
    CASE Part(w, 1, 2) = <<"var", "name">> ->
           { <<"var", Name, e>> : e \in IF Len(w) > 2 /\ w[3] = "="
                                        THEN Upto(";", Part(w, 4, Len(w)), d.value, d) ELSE {} }
           \cup IF \/ Part(w, 3, Len(w)) = <<";">>
                   \/ d.empty /\ Part(w, 3, Len(w)) = <<"=", ";">>
                THEN {<<"var", Name>>} ELSE {}
      [] Part(w, 1, 3) = <<"fun", "name", "(">> ->
           UNION { { <<"fun", Name, <<"parameters">> \o [i \in 1..(k - 3) \div 2 |-> Name],
                       <<"block">> \o l>> :
                       l \in Lists(Part(w, k + 2, Len(w) - 1), [d EXCEPT !.returns = TRUE]) } :
                   k \in { i \in 4..Len(w) - 2 :
                              /\ w[i] = ")" /\ w[i + 1] = "{" /\ Last(w) = "}"
                              /\ ParameterList(Part(w, 4, i - 1)) } }
      [] OTHER -> Statements(w, d)

\* A first declaration, and the lists of the rest for each.
Lists(w, d) ==
    IF w = <<>> THEN {<<>>}
    ELSE UNION { UNION { { <<s>> \o l : l \in Lists(Part(w, k + 1, Len(w)), d) } :
                         s \in Declarations(Part(w, 1, k), d) } : k \in DOMAIN w }

-----------------------------------------------------------------------------
(* The state of a parser: the token it is at, whether it is in panic mode  *)
(* (the VM's only), what went wrong, and the tree of what it parsed last.  *)
(* What goes wrong is an "error" that is reported, a "crash" when a NULL   *)
(* pointer is followed, or that it is "stuck" in a loop for ever, which it *)
(* is with the token stop to come.  Then nothing is left to parse or report.  *)

Start == [at |-> 1, panic |-> FALSE, bad |-> {}, stop |-> 0, tree |-> <<>>]

Token(i) == IF i <= Len(program) THEN program[i] ELSE "end"
Current(p) == Token(p.at)

Stop(p, why) ==
    [p EXCEPT !.bad = @ \cup {why}, !.stop = p.at, !.at = Len(program) + 1]

Advance(p) == [p EXCEPT !.at = IF @ > Len(program) THEN @ ELSE @ + 1]
Error(p) ==
    [p EXCEPT !.panic = TRUE, !.bad = @ \cup IF p.stop = 0 THEN {"error"} ELSE {}]
Consume(p, type) == IF Current(p) = type THEN Advance(p) ELSE Error(p)

With(p, tree) == [p EXCEPT !.tree = tree]
Adding(p, q) == With(q, Append(p.tree, q.tree))
=============================================================================
