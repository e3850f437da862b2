------------------------------ MODULE VMParser ------------------------------
(***************************************************************************)
(* The parser of the bytecode VM (src/vm/compiler.c): precedence climbing  *)
(* for expressions, recursive descent for statements, and after an error   *)
(* the search for a statement to go on with.                               *)
(*                                                                         *)
(* The operator for a C function takes the state of the parser and returns *)
(* it, with the tree of what was compiled; the bytes that are emitted are  *)
(* the subject of module Compiler.                                         *)
(***************************************************************************)
EXTENDS Syntax

\* ParseRule.precedence
PrecedenceOf(type) ==
    CASE type \in {"(", "async", "await"} -> Call
      [] type = "*" -> Factor
      [] type \in {"-", "+"} -> Term
      [] type = "<" -> Comparison
      [] type = "==" -> Equality
      [] type = "and" -> And
      [] type = "or" -> Or
      [] OTHER -> 0

\* RightOperand that gives an operator of the same precedence to the right.
RightOperandSame(type) == PrecedenceOf(type)

\* What and_, or_ and binary call parsePrecedence with.
RightOperand(type) ==
    IF type \in {"and", "or"} THEN PrecedenceOf(type) ELSE PrecedenceOf(type) + 1

RECURSIVE ParsePrecedence(_, _), NextArgument(_, _), Climb(_, _)

Expression(p) == ParsePrecedence(p, Assignment)

\* argumentList after the tree call of what came before.
NextArgument(p, call) ==
    LET e == Expression(p)
        tree == Append(call, e.tree)
    IN  IF Current(e) = "," THEN NextArgument(Advance(e), tree)
                            ELSE Consume(With(e, tree), ")")

ArgumentList(p, call) ==
    IF Current(p) = ")" THEN With(Advance(p), call) ELSE NextArgument(p, call)

NamedVariable(p, canAssign) ==
    IF canAssign /\ Current(p) = "="
    THEN LET e == Expression(Advance(p)) IN With(e, <<"=", Name, e.tree>>)
    ELSE With(p, Name)

\* The prefix function of a token that has one; p is after it.
Prefix(type, p, canAssign) ==
    CASE type = "value" -> With(p, <<"value">>)
      [] type = "name" -> NamedVariable(p, canAssign)
      [] type = "(" ->
           LET e == Expression(p) IN Consume(With(e, <<"group", e.tree>>), ")")
      [] type \in {"-", "!"} ->
           LET e == ParsePrecedence(p, Unary) IN With(e, <<type, e.tree>>)
      [] type = "await" ->
           LET e == ParsePrecedence(p, Call) IN With(e, <<type, e.tree>>)
      [] type = "async" ->
           LET callee == NamedVariable(Consume(p, "name"), canAssign)
           IN  ArgumentList(Consume(callee, "("), <<type, callee.tree>>)

\* The infix function; `async` and `await` have a precedence but none.
Infix(type, p) ==
    CASE type \in {"async", "await"} -> Stop(p, "crash")
      [] type = "(" -> ArgumentList(p, <<"call", p.tree>>)
      [] OTHER -> LET e == ParsePrecedence(p, RightOperand(type))
                  IN  With(e, Binary(type, p.tree, e.tree))

\* The loop of parsePrecedence.
Climb(p, precedence) ==
    IF precedence > PrecedenceOf(Current(p)) THEN p
    ELSE LET q == Infix(Current(p), Advance(p))
             invalid == precedence <= Assignment /\ Current(q) = "="
         IN  Climb(IF invalid THEN Error(Advance(q)) ELSE q, precedence)

StartsExpression == {"value", "name", "(", "async"} \cup Unaries

\* ParsePrecedence that leaves a token where it is if it starts no expression.
ParsePrecedenceHere(p, precedence) ==
    IF Current(p) \in StartsExpression
    THEN Climb(Prefix(Current(p), Advance(p), precedence <= Assignment), precedence)
    ELSE With(Error(p), <<>>)

ParsePrecedence(p, precedence) ==
    IF Current(p) \in StartsExpression
    THEN Climb(Prefix(Current(p), Advance(p), precedence <= Assignment), precedence)
    ELSE With(Error(Advance(p)), <<>>)

-----------------------------------------------------------------------------
(* Statements; script is whether they are outside all functions. *)

RECURSIVE Statement(_, _), Body(_, _, _, _)

\* An expression, and the token that ends it.
Ended(p, kind, last) ==
    LET e == Expression(p) IN Consume(With(e, <<kind, e.tree>>), last)

Condition(p, kind) == Ended(Consume(p, "("), kind, ")")

\* The statement that is compiled next as a part of what is being compiled.
Controlled(p, script) == Adding(p, Statement(p, script))

IfStatement(p, script) ==
    LET then == Controlled(p, script)
    IN  IF Current(then) = "else" THEN Controlled(Advance(then), script) ELSE then

ReturnStatement(p, script) ==
    LET q == IF script THEN Error(p) ELSE p
    IN  IF Current(q) = ";" THEN With(Advance(q), <<"return">>)
                            ELSE Ended(q, "return", ";")

VarDeclaration(p) ==
    LET n == With(Consume(p, "name"), <<"var", Name>>)
        e == Expression(Advance(n))
    IN  Consume(IF Current(n) = "=" THEN Adding(n, e) ELSE n, ";")

\* The first clause of `for`.
Initializer(p) ==
    Adding(With(p, <<"for">>),
           CASE Current(p) = ";" -> With(Advance(p), <<>>)
             [] Current(p) = "var" -> VarDeclaration(Advance(p))
             [] OTHER -> Ended(p, "expression", ";"))

\* Condition and increment: an expression or none, and the token that ends it.
Clause(p, last) ==
    Adding(p, IF Current(p) = last THEN With(Advance(p), <<>>)
              ELSE Consume(Expression(p), last))

\* The initializer and the condition end with a semicolon and are followed by
\* another, and a parenthesis stands before the increment.
ForClauses(p) ==
    LET condition == Clause(Consume(Initializer(Consume(p, "(")), ";"), ";")
    IN  Clause(Consume(Consume(condition, ";"), ")"), ")")

RECURSIVE Parameters(_)
Parameters(p) ==
    LET n == With(Consume(p, "name"), Append(p.tree, Name))
    IN  IF Current(n) = "," THEN Parameters(Advance(n)) ELSE n

FunDeclaration(p) ==
    LET n == With(Consume(Consume(p, "name"), "("), <<"parameters">>)
        parameters == IF Current(n) = ")" THEN n ELSE Parameters(n)
        begin == Consume(Consume(parameters, ")"), "{")
        body == Body(begin, <<"block">>, {"}", "end"}, FALSE)
    IN  Consume(With(body, <<"fun", Name, parameters.tree, body.tree>>), "}")

\* synchronize: go on after a semicolon, or before a keyword.
Synchronize(p) ==
    LET keywords == {"fun", "var", "for", "if", "while", "print", "return", "end"}
        stops == { i \in p.at..Len(program) + 1 :
                     Token(i) \in keywords \/ (i > 1 /\ Token(i - 1) = ";") }
    IN  [p EXCEPT !.panic = FALSE, !.at = Min(stops)]

Declaration(p, script) ==
    LET q == CASE Current(p) = "fun" -> FunDeclaration(Advance(p))
               [] Current(p) = "var" -> VarDeclaration(Advance(p))
               [] OTHER -> Statement(p, script)
    IN  IF q.panic THEN Synchronize(q) ELSE q

\* Declarations up to one of the tokens ends; one that takes no token is
\* taken again and again.
Body(p, tree, ends, script) ==
    LET q == Declaration(p, script)
    IN  IF Current(p) \in ends THEN With(p, tree)
        ELSE IF q.at = p.at THEN Stop(p, "stuck")
        ELSE Body(q, Append(tree, q.tree), ends, script)

Statement(p, script) ==
    LET q == Advance(p)
    IN  CASE Current(p) = "print" -> Ended(q, "print", ";")
          [] Current(p) = "for" -> Controlled(ForClauses(q), script)
          [] Current(p) = "if" -> IfStatement(Condition(q, "if"), script)
          [] Current(p) = "return" -> ReturnStatement(q, script)
          [] Current(p) = "while" -> Controlled(Condition(q, "while"), script)
          [] Current(p) = "{" -> Consume(Body(q, <<"block">>, {"}", "end"}, script), "}")
          [] OTHER -> Ended(p, "expression", ";")

\* compile
Compile == Body(Start, <<>>, {"end"}, TRUE)
=============================================================================
