------------------------------ MODULE Parsers ------------------------------
(***************************************************************************)
(* The parsers of both implementations on the same programs: those that    *)
(* TLC makes from the beginnings, tokens and ends that are given.          *)
(***************************************************************************)
EXTENDS Syntax

CONSTANT
    Forms   \* how programs look: a beginning, `most` of some tokens, an end

ASSUME ParsersConstants == \A f \in Forms : f.most \in Nat

VARIABLES
    form,
    stage,      \* "writing", "written", "parsed"
    compiled,   \* how the compiler of the VM has left the program,
    parsed      \* and the parser of the tree-walker

vars == <<program, form, stage, compiled, parsed>>

VM == INSTANCE VMParser
Tree == INSTANCE TreeParser

Init ==
    /\ form \in Forms
    /\ program = form.begin
    /\ stage = "writing"
    /\ compiled = Start /\ parsed = Start

Write(token) ==
    /\ stage = "writing"
    /\ Len(program) < Len(form.begin) + form.most
    /\ program' = Append(program, token)
    /\ UNCHANGED <<form, stage, compiled, parsed>>

End ==
    /\ stage = "writing"
    /\ program' = program \o form.end
    /\ stage' = "written"
    /\ UNCHANGED <<form, compiled, parsed>>

ParseBoth ==
    /\ stage = "written"
    /\ compiled' = VM!Compile
    /\ parsed' = Tree!ParseProgram
    /\ stage' = "parsed"
    /\ UNCHANGED <<program, form>>

Next == End \/ ParseBoth \/ \E token \in form.tokens : Write(token)

Spec == Init /\ [][Next]_vars

-----------------------------------------------------------------------------
(* Properties. *)

\* A declaration is no branch and no body of a loop.
VMDialect ==
    [group |-> Assignment, value |-> Assignment, body |-> FALSE, returns |-> FALSE,
     empty |-> FALSE, loops |-> TRUE]

\* No `and`, `or` or assignment between parentheses, after `print` or as an
\* initial value; but a declaration where any statement may be, and
\* `var a = ;`, which is read as `var a;`.
TreeDialect ==
    [group |-> Equality, value |-> Equality, body |-> TRUE, returns |-> TRUE,
     empty |-> TRUE, loops |-> FALSE]

\* The compiler of the VM accepts just the programs of the grammar, and what
\* it compiles has their one derivation: precedence climbing with the table
\* of rules, and the flag that lets a variable be assigned to, do what the
\* order of the precedences promises.
VMParses ==
    stage = "parsed" =>
        Lists(program, VMDialect) = IF compiled.bad = {} THEN {compiled.tree} ELSE {}

Operand == {"name", "value", ")"}
Async == {"async", "await"}

\* Whatever the program, the compiler of the VM comes to its end, and crashes
\* only at an `async` or `await` right behind an operand or, after an error,
\* behind a token that begins no expression and was taken where one was to
\* begin, or a misplaced `=`: then the loop of parsePrecedence calls the infix
\* function that the two do not have.
VMEnds ==
    /\ "stuck" \notin compiled.bad
    /\ "crash" \in compiled.bad =>
           LET i == compiled.stop - 1
           IN  /\ i > 1 /\ program[i] \in Async
               /\ \/ program[i - 1] \in Operand
                  \/ "error" \in compiled.bad /\ program[i - 1] \notin VM!StartsExpression

\* A program of the tree-walker, for which these are no keywords.
ForTree == stage = "parsed" /\ ToSet(program) \cap Async = {}

RECURSIVE Whole(_)
Whole(tree) == tree # <<>> /\ \A i \in 2..Len(tree) : Whole(tree[i])

\* Between two commas or a parenthesis and a comma an argument is missing.
Skips ==
    \E i \in 2..Len(program) : program[i - 1] \in {"(", ","} /\ program[i] = ","

\* The parser of the tree-walker gives each program of its grammar the one
\* derivation; any other it refuses, or gives it a tree with parts missing
\* (on which the resolver crashes), unless arguments were skipped: then it may
\* be accepted.
TreeParses ==
    LET whole == parsed.bad = {} /\ \A i \in DOMAIN parsed.tree : Whole(parsed.tree[i])
    IN  ForTree =>
            \/ whole /\ Skips
            \/ Lists(program, TreeDialect) = IF whole THEN {parsed.tree} ELSE {}

Stray == {")", "}", ",", "else", "for"}

\* The parser of the tree-walker goes round for ever, reporting one error, only
\* where a statement is to begin with a token that begins none.
StuckAtStray == ForTree /\ "stuck" \in parsed.bad => Token(parsed.stop) \in Stray
=============================================================================
