------------------------------ MODULE Resolver ------------------------------
(***************************************************************************)
(* The resolver of the tree-walking interpreter                            *)
(* (src/treewalk/resolver.c): a walk over the syntax tree before it is     *)
(* run, which tells how many environments out each name is to be found.    *)
(*                                                                         *)
(* The tree is not given: each action takes what the walk meets next.      *)
(* What has neither names nor scopes of its own leaves no trace.  A scope  *)
(* is a hash table of HashTable, with 0 for a name that is declared and 1  *)
(* for one that is defined.  scope_size is left out: it misses the         *)
(* outermost scope on the way in and counts it on the way out, but a       *)
(* distance is the difference of two values of it.                         *)
(*                                                                         *)
(* lexical and latest are history: the variables that each open scope of   *)
(* the program has, and what the walk did last.                            *)
(***************************************************************************)
EXTENDS Integers, Sequences, FiniteSets, SequencesExt

CONSTANTS
    Name,
    NoName,
    HashBound,  \* hashes are taken from 0..HashBound - 1
    MaxSize,    \* containers of a table at most
    MaxDepth    \* bounds the scopes open at a time

ASSUME ResolverConstants ==
    /\ NoName \notin Name
    /\ HashBound \in Nat \ {0} /\ MaxSize \in Nat \ {0} /\ MaxDepth \in Nat

VARIABLES
    hash,       \* hash(name)
    scopes,     \* the list of scopes, `scopes` of the code is the last
    work,       \* what the walk is in: blocks, functions, an initializer
    failed,     \* the message with which runtime_error ended the program
    lexical,
    latest

vars == <<hash, scopes, work, failed, lexical, latest>>

\* The items of a table are Booleans, hashtable_get returns -1 for NULL.
Tables == INSTANCE HashTable WITH
    Key <- Name, Item <- {0, 1}, NoItem <- -1, NoKey <- NoName,
    table <- <<>>, filled <- 0, answer <- -1, crashed <- FALSE

Messages == {"none", "own initializer", "already a variable"}

Work == [kind : {"block", "parameters", "function", "initializer"},
         name : Name \cup {NoName}]

Latest == [kind : {"none", "declare", "read", "assign"},
           name : Name \cup {NoName}, distance : Nat \cup {-1}]

Names(scope) == { scope.table[i].key : i \in DOMAIN scope.table } \ {NoName}

\* The names in a scope's table are its variables.
TypeOK ==
    /\ hash \in [Name -> 0..(HashBound - 1)]
    /\ \A i \in DOMAIN scopes :
        /\ scopes[i].table \in Seq(Tables!Container)
        /\ scopes[i].filled \in 0..Len(scopes[i].table)
    /\ lexical = [i \in DOMAIN scopes |-> Names(scopes[i])]
    /\ work \in Seq(Work)
    /\ failed \in Messages
    /\ latest \in Latest

Nothing == [kind |-> "none", name |-> NoName, distance |-> -1]

Init ==
    /\ hash \in [Name -> 0..(HashBound - 1)]
    /\ scopes = <<>> /\ work = <<>> /\ failed = "none"
    /\ lexical = <<>> /\ latest = Nothing

-----------------------------------------------------------------------------
(* What the walk is in. *)

In(kinds) == work # <<>> /\ Last(work).kind \in kinds

Statement == failed = "none" /\ (work = <<>> \/ In({"block", "function"}))

Expression == failed = "none" /\ ~ In({"parameters"})

Enter(kind, name) == Append(work, [kind |-> kind, name |-> name])

-----------------------------------------------------------------------------
(* Scopes. *)

\* make_scope; what hashtable_new leaves uninitialised is never decisive in a
\* table from which nothing is deleted.
MakeScope == [table |-> Tables!Blank(1), filled |-> 0]

\* scope_set on the last of scopes s.
ScopeSet(s, name, set) ==
    [s EXCEPT ![Len(s)] = Tables!After(@.table, @.filled, name, set)]

ScopeGet(name) == Tables!Find(Last(scopes).table, name)

ScopeContains(scope, name) == Tables!Has(scope.table, name)

\* ScopeEnd that goes back to the first of the scopes.
ScopeEndFirst(s) == SubSeq(s, 1, IF Len(s) > 1 THEN 1 ELSE 0)

\* scope_end
ScopeEnd(s) == Front(s)

Fits(scope) == 2 * Len(scope.table) <= MaxSize

\* Known that does not look at the scope.
KnownNever(name) == FALSE

\* declare finds the name in the scope and refuses it.
Known(name) == ScopeContains(Last(scopes), name)

\* declare, and what follows it where it returns: ScopesAfter are the scopes
\* in the end, a name outside all scopes is not entered anywhere.
Declare(name, ScopesAfter) ==
    /\ latest' = [Nothing EXCEPT !.kind = "declare", !.name = name]
    /\ UNCHANGED hash
    /\ IF scopes # <<>> /\ Known(name)
       THEN /\ failed' = "already a variable"
            /\ UNCHANGED <<scopes, work, lexical>>
       ELSE /\ scopes # <<>> => Fits(Last(scopes))
            /\ scopes' = ScopesAfter
            /\ UNCHANGED failed

\* What declare and define leave of the scopes, at once.
DeclareAndDefine(name) == ScopeSet(ScopeSet(scopes, name, 0), name, 1)

Lexically(name) == [lexical EXCEPT ![Len(lexical)] = @ \cup {name}]

-----------------------------------------------------------------------------
(* Statements. *)

\* resolve_block_stmt: scope_begin.
Block ==
    /\ Statement
    /\ Len(scopes) < MaxDepth
    /\ scopes' = Append(scopes, MakeScope)
    /\ lexical' = Append(lexical, {})
    /\ work' = Enter("block", NoName)
    /\ latest' = Nothing
    /\ UNCHANGED <<hash, failed>>

\* The end of a block or of a function.
EndScope ==
    /\ failed = "none" /\ In({"block", "function"})
    /\ scopes' = ScopeEnd(scopes)
    /\ lexical' = Front(lexical)
    /\ work' = Front(work)
    /\ latest' = Nothing
    /\ UNCHANGED <<hash, failed>>

\* resolve_function_stmt, to where the parameters are met.
Function(name) ==
    /\ Statement
    /\ Len(scopes) < MaxDepth
    /\ LET around == IF scopes = <<>> THEN scopes ELSE DeclareAndDefine(name)
       IN  Declare(name, Append(around, MakeScope))
    /\ failed' = "none" =>
        /\ work' = Enter("parameters", NoName)
        /\ lexical' = Append(IF lexical = <<>> THEN lexical ELSE Lexically(name), {})

\* One turn of the loop in resolve_function.
Parameter(name) ==
    /\ failed = "none" /\ In({"parameters"})
    /\ Declare(name, DeclareAndDefine(name))
    /\ failed' = "none" => lexical' = Lexically(name) /\ UNCHANGED work

\* The body of the function follows its parameters.
Body ==
    /\ failed = "none" /\ In({"parameters"})
    /\ work' = Append(Front(work), [kind |-> "function", name |-> NoName])
    /\ latest' = Nothing
    /\ UNCHANGED <<hash, scopes, failed, lexical>>

\* resolve_var_stmt, to where the value is met.
Variable(name) ==
    /\ Statement
    /\ Declare(name, IF scopes = <<>> THEN scopes ELSE ScopeSet(scopes, name, 0))
    /\ failed' = "none" =>
        /\ work' = Enter("initializer", name)
        /\ lexical' = IF lexical = <<>> THEN lexical ELSE Lexically(name)

\* Define that leaves the name declared.
DefineNot(name) == scopes

\* define
Define(name) == IF scopes = <<>> THEN scopes ELSE ScopeSet(scopes, name, 1)

EndVariable ==
    /\ failed = "none" /\ In({"initializer"})
    /\ scopes # <<>> => Fits(Last(scopes))
    /\ scopes' = Define(Last(work).name)
    /\ work' = Front(work)
    /\ latest' = Nothing
    /\ UNCHANGED <<hash, failed, lexical>>

-----------------------------------------------------------------------------
(* Expressions. *)

Hop(i) == Len(scopes) - i

\* ResolveLocal that goes on to the outermost scope that has the name.
ResolveOutermost(name) ==
    LET hits == { Hop(i) : i \in { j \in DOMAIN scopes : ScopeContains(scopes[j], name) } }
    IN  IF hits = {} THEN -1 ELSE Max(hits)

\* resolve_local: how far out the name is; -1 where nothing is recorded and
\* the interpreter will look among the globals.
ResolveLocal(name) ==
    LET hits == { Hop(i) : i \in { j \in DOMAIN scopes : ScopeContains(scopes[j], name) } }
    IN  IF hits = {} THEN -1 ELSE Min(hits)

\* resolve_var_expr
Read(name) ==
    /\ Expression
    /\ failed' = IF scopes # <<>> /\ ScopeGet(name) = 0
                 THEN "own initializer" ELSE failed
    /\ latest' = [Nothing EXCEPT !.kind = "read", !.name = name,
                                 !.distance = ResolveLocal(name)]
    /\ UNCHANGED <<hash, scopes, work, lexical>>

\* resolve_assign_expr, after the value.
Assign(name) ==
    /\ Expression
    /\ latest' = [Nothing EXCEPT !.kind = "assign", !.name = name,
                                 !.distance = ResolveLocal(name)]
    /\ UNCHANGED <<hash, scopes, work, failed, lexical>>

Next ==
    \/ Block \/ EndScope \/ Body \/ EndVariable
    \/ \E name \in Name :
        Function(name) \/ Parameter(name) \/ Variable(name)
        \/ Read(name) \/ Assign(name)
    \/ failed # "none" /\ UNCHANGED vars

Spec == Init /\ [][Next]_vars

-----------------------------------------------------------------------------
(* Properties. *)

\* No name of the scope starts its probe where another one does: none has
\* been displaced, which hashtable_has cannot see.
Apart(i) ==
    \A m, n \in lexical[i] :
        Tables!At(scopes[i].table, m, 0) = Tables!At(scopes[i].table, n, 0) => m = n

Lookups == {"read", "assign"}

\* A recorded distance is that of a scope that has the variable, and the
\* nearest such one unless names have collided on the way: no growth of a
\* table, no repeated scope_set and no scope that came and went misleads
\* resolve_local.
ResolvesLexically ==
    latest.kind \in Lookups =>
        LET having == { i \in DOMAIN lexical : latest.name \in lexical[i] }
        IN  /\ latest.distance # -1 => Len(lexical) - latest.distance \in having
            /\ (\A i \in DOMAIN lexical : (\A j \in having : i >= j) => Apart(i)) =>
                latest.distance = IF having = {} THEN -1 ELSE Hop(Max(having))

\* "Can't read local variable in its own initializer" stops the programs that
\* do it and no other, whatever collides and whatever was there before.
RefusesOwnInitializer ==
    failed = "own initializer" <=>
        /\ latest.kind = "read" /\ scopes # <<>>
        /\ In({"initializer"}) /\ Last(work).name = latest.name

\* "Already a variable with this name in the current scope" is true when it is
\* said, and said of every second variable unless names have collided.
RefusesDuplicates ==
    [][latest'.kind = "declare" =>
        LET again == lexical # <<>> /\ latest'.name \in Last(lexical)
            refused == failed' = "already a variable"
        IN  /\ refused => again
            /\ again /\ Apart(Len(lexical)) => refused]_vars
=============================================================================
