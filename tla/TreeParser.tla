----------------------------- MODULE TreeParser -----------------------------
(***************************************************************************)
(* The parser of the tree-walking interpreter (src/treewalk/parser.c):     *)
(* recursive descent into a syntax tree.  An error is reported and parsing *)
(* goes on where it was; the program is then not run.                      *)
(*                                                                         *)
(* The operator for a C function takes the state of the parser and returns *)
(* it with the tree.                                                       *)
(***************************************************************************)
EXTENDS Syntax

\* parse_or, parse_and, parse_equality, parse_comparison, parse_term and
\* parse_factor differ in the operators they match.
Matched(level) ==
    CASE level = Or -> {"or"} [] level = And -> {"and"}
      [] level = Equality -> {"=="} [] level = Comparison -> {"<"}
      [] level = Term -> {"-", "+"} [] level = Factor -> {"*"}

RECURSIVE ParseAssignment(_), Parse(_, _), Repeat(_, _), NextArgument(_, _), Calls(_)

ParseExpression(p) == ParseAssignment(p)

\* ParsePrimary that looks at a name or a literal and does not take it.
ParsePrimaryPeeks(p) ==
    LET q == Advance(p)
    IN  CASE Current(p) \in {"value", "name"} -> With(p, <<Current(p)>>)
          [] Current(p) = "(" ->
               LET e == Parse(q, Equality) IN Consume(With(e, <<"group", e.tree>>), ")")
          [] OTHER -> With(p, <<>>)

\* parse_primary; what starts no expression is left alone and gives NULL.
ParsePrimary(p) ==
    LET q == Advance(p)
    IN  CASE Current(p) \in {"value", "name"} -> With(q, <<Current(p)>>)
          [] Current(p) = "(" ->
               LET e == Parse(q, Equality) IN Consume(With(e, <<"group", e.tree>>), ")")
          [] OTHER -> With(p, <<>>)

\* One turn of the loop in finish_call.  After an argument that is missing
\* the list starts again; if it is the last, NULL->next is written.
NextArgument(p, call) ==
    LET e == ParseExpression(p)
        list == IF e.tree = <<>> THEN SubSeq(call, 1, 2) ELSE Append(call, e.tree)
    IN  IF Current(e) = "," THEN NextArgument(Advance(e), list)
        ELSE Consume(With(IF e.tree = <<>> THEN Stop(e, "crash") ELSE e, list), ")")

FinishCall(p) ==
    LET call == <<"call", p.tree>>
    IN  IF Current(p) = ")" THEN With(Advance(p), call) ELSE NextArgument(p, call)

\* The loop of parse_call.
Calls(p) == IF Current(p) = "(" THEN Calls(FinishCall(Advance(p))) ELSE p

\* Repeat that takes one operator only.
RepeatOnce(p, level) ==
    IF Current(p) \notin Matched(level) THEN p
    ELSE LET right == Parse(Advance(p), level)
         IN  With(right, Binary(Current(p), p.tree, right.tree))

\* The loop of a function for binary operators, p is after the left operand.
Repeat(p, level) ==
    IF Current(p) \notin Matched(level) THEN p
    ELSE LET right == Parse(Advance(p), level + 1)
         IN  Repeat(With(right, Binary(Current(p), p.tree, right.tree)), level)

\* The function for a precedence.
Parse(p, level) ==
    IF level < Unary THEN Repeat(Parse(p, level + 1), level)
    ELSE IF Current(p) \in {"!", "-"}
    THEN LET child == Parse(Advance(p), Unary) IN With(child, <<Current(p), child.tree>>)
    ELSE Calls(ParsePrimary(p))

\* The type of the left side is read, whether there is one or not.
ParseAssignment(p) ==
    LET e == Parse(p, Or)
        v == ParseAssignment(Advance(e))
    IN  IF Current(e) # "=" THEN e
        ELSE IF e.tree = <<>> THEN Stop(v, "crash")
        ELSE IF e.tree = Name THEN With(v, <<"=", Name, v.tree>>)
        ELSE With(Error(v), e.tree)

-----------------------------------------------------------------------------
(* Statements. *)

RECURSIVE ParseStatement(_), Body(_, _, _), Parameters(_)

\* Statements up to one of the tokens ends; one that takes no token is parsed
\* again and again.
Body(p, tree, ends) ==
    LET q == ParseStatement(p)
    IN  IF Current(p) \in ends THEN With(p, tree)
        ELSE IF q.at = p.at THEN Stop(p, "stuck")
        ELSE Body(q, Append(tree, q.tree), ends)

ParseBlock(p) == Consume(Body(p, <<"block">>, {"}", "end"}), "}")

\* A value that is NULL is no value, here and for resolver and interpreter.
Valued(p, e) == IF e.tree = <<>> THEN With(e, p.tree) ELSE Adding(p, e)

ParseVariable(p) ==
    LET n == With(Consume(p, "name"), <<"var", Name>>)
    IN  Consume(IF Current(n) = "=" THEN Valued(n, Parse(Advance(n), Equality)) ELSE n, ";")

Condition(p, kind) ==
    LET e == ParseExpression(Consume(p, "(")) IN Consume(With(e, <<kind, e.tree>>), ")")

ParseIf(p) ==
    LET condition == Condition(p, "if")
        then == Adding(condition, ParseStatement(condition))
    IN  IF Current(then) = "else" THEN Adding(then, ParseStatement(Advance(then)))
                                  ELSE then

ParseWhile(p) ==
    LET condition == Condition(p, "while")
    IN  Adding(condition, ParseStatement(condition))

\* The loop over the parameters; NULL->next is written if the last is missing.
Parameters(p) ==
    LET n == With(Consume(p, "name"), Append(p.tree, Name))
    IN  IF Current(n) = "," THEN Parameters(Advance(n))
        ELSE IF Current(p) # "name" THEN Stop(n, "crash") ELSE n

ParseFunction(p) ==
    LET n == With(Consume(Consume(p, "name"), "("), <<"parameters">>)
        parameters == IF Current(n) = ")" THEN n ELSE Parameters(n)
        body == ParseBlock(Consume(Consume(parameters, ")"), "{"))
    IN  With(body, <<"fun", Name, parameters.tree, body.tree>>)

ParseReturn(p) ==
    LET r == With(p, <<"return">>)
    IN  Consume(IF Current(p) = ";" THEN r ELSE Valued(r, ParseExpression(p)), ";")

ParseStatement(p) ==
    LET q == Advance(p)
        e == Parse(q, Equality)
        value == ParseExpression(p)
    IN  CASE Current(p) = "if" -> ParseIf(q)
          [] Current(p) = "while" -> ParseWhile(q)
          [] Current(p) = "print" -> Consume(With(e, <<"print", e.tree>>), ";")
          [] Current(p) = "return" -> ParseReturn(q)
          [] Current(p) = "fun" -> ParseFunction(q)
          [] Current(p) = "var" -> ParseVariable(q)
          [] Current(p) = "{" -> ParseBlock(q)
          [] OTHER -> Consume(With(value, <<"expression", value.tree>>), ";")

\* parse
ParseProgram == Body(Start, <<>>, {"end"})
=============================================================================
