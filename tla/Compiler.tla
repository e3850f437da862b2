------------------------------ MODULE Compiler ------------------------------
(***************************************************************************)
(* The single-pass compiler of the bytecode VM (src/vm/compiler.c): from   *)
(* the productions of a program to chunks of bytes, with the slots of      *)
(* local variables, the upvalues of functions, and jumps that are patched  *)
(* when their target is known.                                             *)
(*                                                                         *)
(* A program is not given: each action takes the production the source     *)
(* has next.  `work` is the stack of C calls that are not done yet, its    *)
(* head is what the compiler is at.  Only programs without syntax errors   *)
(* are compiled here; an error of the compiler itself ends the run.        *)
(*                                                                         *)
(* Literals, operators and calls are told apart by their effect on the     *)
(* stack only.  The ghost fields decl, born, gone and land, and envs, say  *)
(* what the program means: which declaration a name refers to, from where  *)
(* to where a variable exists, and where a jump is to go.                  *)
(***************************************************************************)
EXTENDS Integers, Sequences, FiniteSets, SequencesExt

CONSTANTS
    Name,       \* identifiers
    Base,       \* UINT8_MAX + 1 in the operands of jumps
    Count,      \* UINT8_COUNT: locals, upvalues and constants of a function
    Grammars,   \* what programs may look like: productions, and a number of
                \* bytes: none of them begins in a chunk that has as many
    MaxWork,    \* nor with this many calls to come back to
    MaxDecl,    \* declarations of local variables in a program
    MaxFun      \* functions open at a time, the script among them

NoName == ""    \* the name of slot 0, the scanner finds no such identifier

ASSUME CompilerConstants ==
    /\ Base \in Nat \ {0, 1} /\ Count \in Nat \ {0}
    /\ \A g \in Grammars : g.maxCode \in Nat
    /\ MaxWork \in Nat /\ MaxDecl \in Nat
    /\ MaxFun \in Nat \ {0}
    /\ NoName \notin Name

VARIABLES
    chain,      \* the Compiler structures, from the script to `current`
    work,       \* what is left to compile
    done,       \* the functions that endCompiler returned
    envs,       \* the declaration each name refers to, for each open scope
    decls,      \* how many local variables were declared
    grammar     \* what this program looks like

vars == <<chain, work, done, envs, decls, grammar>>

Global == 0             \* a name that no open scope declares
Itself == MaxDecl + 1   \* the variable in whose initializer a name occurs

\* A byte of a chunk: an instruction, with what it refers to, or an operand.
Op(o) == [op |-> o, n |-> 0, decl |-> Global]
Ref(o, d) == [op |-> o, n |-> 0, decl |-> d]
Byte(n) == [op |-> "operand", n |-> n, decl |-> Global]

\* What is left to do: call a production, or go on after a part of one.
Do(k) == [k |-> k, at |-> <<>>, s |-> <<>>]
At(k, at) == [k |-> k, at |-> at, s |-> <<>>]
Emits(s) == [k |-> "emit", at |-> <<>>, s |-> s]
Defines(s) == [k |-> "define", at |-> <<>>, s |-> s]

Instructions ==
    { "LITERAL", "UNARY", "BINARY", "CALL", "POP", "PRINT", "RETURN", "CLOSURE",
      "CLOSE_UPVALUE", "GET_LOCAL", "SET_LOCAL", "GET_UPVALUE", "SET_UPVALUE",
      "GET_GLOBAL", "SET_GLOBAL", "DEFINE_GLOBAL", "JUMP", "JUMP_IF_FALSE", "LOOP" }

Bytes == [op : Instructions \cup {"operand"}, n : Nat, decl : 0..Itself]
Local == [name : Name \cup {NoName}, depth : Int, captured : BOOLEAN, decl : 0..MaxDecl]
Upvalue == [index : Nat, isLocal : BOOLEAN, decl : 0..Itself]
Mark == [decl : 1..MaxDecl, at : Nat]

Function == [code : Seq(Bytes), constants : Seq(Nat), upvalues : Seq(Upvalue),
             params : Seq(1..MaxDecl), born : SUBSET Mark, gone : SUBSET Mark,
             land : SUBSET [from : Nat, to : Nat]]

TypeOK ==
    /\ \A i \in DOMAIN chain :
           /\ chain[i].locals \in Seq(Local)
           /\ Len(chain[i].locals) <= Count /\ Len(chain[i].f.upvalues) <= Count
           /\ chain[i].scopeDepth \in Nat /\ chain[i].error \in BOOLEAN
           /\ chain[i].f \in Function
    /\ \A i \in DOMAIN work : work[i].at \in Seq(Nat) /\ work[i].s \in Seq(Bytes)
    /\ done \in Seq(Function)
    /\ envs \in Seq([Name -> 0..MaxDecl])
    /\ decls \in 0..MaxDecl
    \* a local that has no value yet is the last, the compiler is in its initializer
    /\ \A i \in DOMAIN chain : \A l \in DOMAIN chain[i].locals :
           chain[i].locals[l].depth \in 0..chain[i].scopeDepth
             \/ (chain[i].locals[l].depth = -1 /\ l = Len(chain[i].locals))

-----------------------------------------------------------------------------
(* Chunks: bytes, constants and jumps. *)

Emit(c, s) == [c EXCEPT !.f.code = @ \o s]
Position(c) == Len(c.f.code)
Error(c) == [c EXCEPT !.error = TRUE]

\* The index makeConstant returns for the next constant, and what it leaves.
ConstantIndex(c) == IF Len(c.f.constants) < Count THEN Len(c.f.constants) ELSE 0
MakeConstant(c, value) ==
    [c EXCEPT !.f.constants = Append(@, value),
              !.error = @ \/ Len(c.f.constants) >= Count]

\* emitJump returns the place of the two bytes it leaves open.
EmitJump(c, op) == Emit(c, <<Op(op), Byte(Base - 1), Byte(Base - 1)>>)
JumpOffset(c) == Position(c) + 1

\* JumpLength that does not count both bytes of the operand.
JumpLengthLong(c, offset) == Position(c) - offset - 1

JumpLength(c, offset) == Position(c) - offset - 2

PatchJump(c, offset) ==
    LET jump == JumpLength(c, offset)
    IN  [c EXCEPT !.f.code[offset + 1] = Byte((jump \div Base) % Base),
                  !.f.code[offset + 2] = Byte(jump % Base),
                  !.error = @ \/ jump > Base * Base - 1,
                  !.f.land = @ \cup {[from |-> offset - 1, to |-> Position(c)]}]

\* The high byte is the truth of the shifted offset, not the byte: `&&`.
EmitLoop(c, start) ==
    LET offset == Position(c) + 1 - start + 2
        high == IF offset \div Base = 0 THEN 0 ELSE 1
    IN  [Emit(c, <<Op("LOOP"), Byte(high), Byte(offset % Base)>>) EXCEPT
            !.error = @ \/ offset > Base * Base - 1,
            !.f.land = @ \cup {[from |-> Position(c), to |-> start]}]

-----------------------------------------------------------------------------
(* Scopes and local variables. *)

Current == chain[Len(chain)]
SetCurrent(c) == chain' = [chain EXCEPT ![Len(chain)] = c]

SlotZero == [name |-> NoName, depth |-> 0, captured |-> FALSE, decl |-> 0]

InitCompiler ==
    [locals |-> <<SlotZero>>, scopeDepth |-> 0, error |-> FALSE,
     f |-> [code |-> <<>>, constants |-> <<>>, upvalues |-> <<>>, params |-> <<>>,
            born |-> {}, gone |-> {}, land |-> {}]]

BeginScope(c) == [c EXCEPT !.scopeDepth = @ + 1]

\* Ending that forgets about closures.
EndingPops(l) == Op("POP")

Ending(l) == Op(IF l.captured THEN "CLOSE_UPVALUE" ELSE "POP")

\* How many locals are left when the loop comes to one that stays, or to none.
Kept(c) ==
    CHOOSE n \in 0..Len(c.locals) :
        /\ n > 0 => c.locals[n].depth < c.scopeDepth
        /\ \A i \in n + 1..Len(c.locals) : c.locals[i].depth >= c.scopeDepth

\* One instruction for each local that goes, from the last on.
EndScope(c) ==
    LET dead == [i \in 1..Len(c.locals) - Kept(c) |-> c.locals[Len(c.locals) + 1 - i]]
        ends == { [decl |-> dead[i].decl, at |-> Position(c) + i - 1] : i \in DOMAIN dead }
    IN  [Emit(c, [i \in DOMAIN dead |-> Ending(dead[i])]) EXCEPT
            !.locals = SubSeq(@, 1, Kept(c)), !.scopeDepth = @ - 1, !.f.gone = @ \cup ends]

Declared(c, x) ==
    \E i \in DOMAIN c.locals :
        /\ c.locals[i].name = x
        /\ \A j \in i..Len(c.locals) : c.locals[j].depth \in {-1, c.scopeDepth}

\* AddLocal that lets one local too many in.
AddLocalAtLimit(c, x) ==
    IF Len(c.locals) > Count
    THEN Error(c)
    ELSE [c EXCEPT !.locals = Append(@, [name |-> x, depth |-> -1, captured |-> FALSE,
                                         decl |-> decls + 1])]

AddLocal(c, x) ==
    IF Len(c.locals) = Count
    THEN Error(c)
    ELSE [c EXCEPT !.locals = Append(@, [name |-> x, depth |-> -1, captured |-> FALSE,
                                         decl |-> decls + 1])]

DeclareVariable(c, x) ==
    IF c.scopeDepth = 0 THEN c
    ELSE AddLocal(IF Declared(c, x) THEN Error(c) ELSE c, x)

\* parseVariable: a local variable, or a constant with the name of a global.
\* The tail of its declaration is DEFINE_GLOBAL with that constant.
ParseVariable(c, x) == IF c.scopeDepth > 0 THEN DeclareVariable(c, x)
                                           ELSE MakeConstant(c, Global)
Definition(c) == IF c.scopeDepth > 0
                 THEN <<>> ELSE <<Op("DEFINE_GLOBAL"), Byte(ConstantIndex(c))>>

MarkInitialized(c) ==
    IF c.scopeDepth = 0 THEN c
    ELSE [c EXCEPT !.locals[Len(c.locals)].depth = c.scopeDepth]

\* The name in the scope the program opened last, from here on.
Bind(x, d) == [envs EXCEPT ![Len(envs)][x] = d]

-----------------------------------------------------------------------------
(* Names: resolveLocal, resolveUpvalue, addUpvalue. *)

Slots(c, x) == { i \in DOMAIN c.locals : c.locals[i].name = x }

\* resolveLocal that searches from the first local.
ResolveFirst(c, x) == (CHOOSE i \in Slots(c, x) : \A j \in Slots(c, x) : i <= j) - 1

\* The slot of the last local of that name.
ResolveLocal(c, x) == (CHOOSE i \in Slots(c, x) : \A j \in Slots(c, x) : i >= j) - 1

Matching(c, index, isLocal) ==
    { i \in DOMAIN c.f.upvalues : /\ c.f.upvalues[i].index = index
                                  /\ c.f.upvalues[i].isLocal = isLocal }

AddUpvalue(c, index, isLocal, d) ==
    IF Matching(c, index, isLocal) # {} THEN c
    ELSE IF Len(c.f.upvalues) = Count THEN Error(c)
    ELSE [c EXCEPT !.f.upvalues = Append(@, [index |-> index, isLocal |-> isLocal,
                                             decl |-> d])]

\* What addUpvalue returns.
UpvalueIndex(c, index, isLocal) ==
    IF Matching(c, index, isLocal) # {}
    THEN (CHOOSE i \in Matching(c, index, isLocal) : TRUE) - 1
    ELSE Len(c.f.upvalues) % Count

\* The functions around the current one that declare x.
Around(x) == { k \in 1..Len(chain) - 1 : Slots(chain[k], x) # {} }

\* The declaration a name refers to.
Means(x) == IF Last(Current.locals).depth = -1 /\ Last(Current.locals).name = x
            THEN Itself ELSE Last(envs)[x]

\* The innermost of them gives its local variable to the function in it, each
\* function between them hands the upvalue on.
ResolveUpvalue(x) ==
    LET owner == CHOOSE k \in Around(x) : \A j \in Around(x) : j <= k
        local == ResolveLocal(chain[owner], x)
        \* What the function n levels in from the owner knows it as.
        Index[n \in 0..Len(chain) - owner] ==
            IF n = 0 THEN local
            ELSE UpvalueIndex(chain[owner + n], Index[n - 1], n = 1)
    IN  [arg |-> Index[Len(chain) - owner],
         chain |-> [k \in DOMAIN chain |->
             IF k < owner THEN chain[k]
             ELSE IF k = owner THEN [chain[k] EXCEPT !.locals[local + 1].captured = TRUE]
             ELSE AddUpvalue(chain[k], Index[k - owner - 1], k = owner + 1, Means(x))]]

\* The instructions for a name, their operand, and what resolving it leaves.
Resolve(x) ==
    IF Slots(Current, x) # {}
    THEN [get |-> "GET_LOCAL", set |-> "SET_LOCAL",
          arg |-> ResolveLocal(Current, x), chain |-> chain]
    ELSE IF Around(x) # {}
    THEN [get |-> "GET_UPVALUE", set |-> "SET_UPVALUE",
          arg |-> ResolveUpvalue(x).arg, chain |-> ResolveUpvalue(x).chain]
    ELSE [get |-> "GET_GLOBAL", set |-> "SET_GLOBAL", arg |-> ConstantIndex(Current),
          chain |-> [chain EXCEPT ![Len(chain)] = MakeConstant(@, Global)]]

-----------------------------------------------------------------------------
(* Productions.  The one the source has next is taken where the C function *)
(* expects it, and leaves its parts and what comes after them as work.     *)

Working == work # <<>> /\ \A i \in DOMAIN chain : ~ chain[i].error
Expected(ks) == Working /\ Head(work).k \in ks
Production(p, ks) ==
    /\ Expected(ks) /\ p \in grammar.productions
    /\ Position(Current) < grammar.maxCode /\ Len(work) < MaxWork

\* Where a list of declarations is expected, it still is after one of them.
Rest == IF Head(work).k = "declarations" THEN work ELSE Tail(work)

\* The compiler is now c, and the parts come before what was left.
Compile(c, parts) ==
    /\ SetCurrent(c)
    /\ work' = parts \o Rest
    /\ UNCHANGED <<done, envs, decls, grammar>>

Expression == Do("expression")
literal == <<Emits(<<Op("LITERAL")>>)>>
unary == <<Expression, Emits(<<Op("UNARY")>>)>>
binary == <<Expression, Expression, Emits(<<Op("BINARY")>>)>>
call(args) == [i \in 1..args + 1 |-> Expression] \o <<Emits(<<Op("CALL"), Byte(args)>>)>>
and_ == <<Expression, Do("and")>>
or_ == <<Expression, Do("or")>>
expressionStatement == <<Expression, Emits(<<Op("POP")>>)>>
printStatement == <<Expression, Emits(<<Op("PRINT")>>)>>
returnStatement == { <<Expression, Emits(<<Op("RETURN")>>)>>,
                     <<Emits(<<Op("LITERAL"), Op("RETURN")>>)>> }
ifStatement == <<Expression, Do("then")>>
whileStatement == <<Expression, At("test", <<Position(Current)>>)>>

Simple ==
    \/ Expected({"expression"}) /\ Compile(Current, literal)
    \/ Production("unary", {"expression"}) /\ Compile(Current, unary)
    \/ Production("binary", {"expression"}) /\ Compile(Current, binary)
    \/ Production("call", {"expression"}) /\ \E n \in 0..1 : Compile(Current, call(n))
    \/ Production("logic", {"expression"}) /\ \E e \in {and_, or_} : Compile(Current, e)
    \/ /\ Production("statement", {"declarations", "statement", "initializer"})
       /\ Compile(Current, expressionStatement)
    \/ /\ Production("statement", {"declarations", "statement"})
       /\ Compile(Current, printStatement)
    \/ /\ Production("return", {"declarations", "statement"})
       /\ Len(chain) > 1            \* an error in the script
       /\ \E r \in returnStatement : Compile(Current, r)
    \/ /\ Production("if", {"declarations", "statement"})
       /\ Compile(Current, ifStatement)
    \/ /\ Production("while", {"declarations", "statement"})
       /\ Compile(Current, whileStatement)

\* namedVariable
Use(x) ==
    /\ Production("name", {"expression"})
    /\ LET r == Resolve(x)
       IN  chain' = [r.chain EXCEPT ![Len(chain)] =
                         Emit(@, <<Ref(r.get, Means(x)), Byte(r.arg)>>)]
    /\ work' = Tail(work)
    /\ UNCHANGED <<done, envs, decls, grammar>>

Assign(x) ==
    /\ Production("name", {"expression"})
    /\ LET r == Resolve(x)
       IN  /\ chain' = r.chain
           /\ work' = <<Expression, Emits(<<Ref(r.set, Means(x)), Byte(r.arg)>>)>>
                          \o Tail(work)
    /\ UNCHANGED <<done, envs, decls, grammar>>

OpenScope(parts) ==
    /\ SetCurrent(BeginScope(Current))
    /\ envs' = Append(envs, Last(envs))
    /\ work' = parts \o <<Do("endScope")>> \o Rest
    /\ UNCHANGED <<done, decls, grammar>>

\* An empty block is always allowed where a statement must come.
Block ==
    /\ Production("block", {"declarations"}) \/ Expected({"statement"})
    /\ OpenScope(<<Do("declarations")>>)

\* The initializer of a for loop is a statement of its own, or nothing.
ForStatement ==
    /\ Production("for", {"declarations", "statement"})
    /\ OpenScope(<<Do("initializer"), Do("for")>>)

\* No more declarations, no initializer, no more parameters.
EndList ==
    /\ Expected({"declarations", "initializer", "parameters"})
    /\ work' = Tail(work)
    /\ UNCHANGED <<chain, done, envs, decls, grammar>>

\* The local variable a declaration adds, none in the scope of the globals.
CountDeclaration ==
    /\ Current.scopeDepth > 0 => decls < MaxDecl
    /\ decls' = IF Current.scopeDepth > 0 THEN decls + 1 ELSE decls

VarDeclaration(x) ==
    /\ Production("var", {"declarations", "initializer"})
    /\ CountDeclaration
    /\ SetCurrent(ParseVariable(Current, x))
    /\ work' = <<Expression, Defines(Definition(Current))>> \o Rest
    /\ UNCHANGED <<done, envs, grammar>>

\* The function is declared before its body; a Compiler of its own begins.
FunDeclaration(x) ==
    /\ Production("fun", {"declarations"})
    /\ Len(chain) < MaxFun
    /\ CountDeclaration
    /\ chain' = Append([chain EXCEPT ![Len(chain)] = MarkInitialized(ParseVariable(@, x))],
                       BeginScope(InitCompiler))
    /\ envs' = LET now == IF Current.scopeDepth > 0 THEN Bind(x, decls + 1) ELSE envs
               IN  Append(now, Last(now))
    /\ work' = <<Do("parameters"), Do("declarations"), Do("endFunction"),
                 Defines(Definition(Current))>> \o Rest
    /\ UNCHANGED <<done, grammar>>

Parameter(x) ==
    /\ Expected({"parameters"})
    /\ CountDeclaration
    /\ SetCurrent([MarkInitialized(ParseVariable(Current, x)) EXCEPT
                       !.f.params = Append(@, decls + 1)])
    /\ envs' = Bind(x, decls + 1)
    /\ UNCHANGED <<work, done, grammar>>

-----------------------------------------------------------------------------
(* What a production does after one of its parts. *)

Saved(i) == Head(work).at[i]

\* The left operand of `and`, the condition of `if` or of a loop: if it is
\* false go on at a place not known yet, with it on the stack.  The first of
\* these leaves it there when it is true as well.
JumpIfFalseKeeps(c) == EmitJump(c, "JUMP_IF_FALSE")

JumpIfFalse(c) == Emit(EmitJump(c, "JUMP_IF_FALSE"), <<Op("POP")>>)

OrRight ==
    LET else == EmitJump(Current, "JUMP_IF_FALSE")
        end == EmitJump(else, "JUMP")
    IN  Compile(Emit(PatchJump(end, JumpOffset(Current)), <<Op("POP")>>),
                <<Expression, At("patch", <<JumpOffset(else)>>)>>)

\* After the first branch of `if`: the other one, or none.
Else ==
    \E branch \in {<<>>, <<Do("statement")>>} :
        Compile(Emit(PatchJump(EmitJump(Current, "JUMP"), Saved(1)), <<Op("POP")>>),
                branch \o <<At("patch", <<JumpOffset(Current)>>)>>)

\* After the condition of `while`: the body, the jump back, the exit.
Test ==
    Compile(JumpIfFalse(Current),
            <<Do("statement"), At("loop", <<Saved(1)>>), At("exit", <<JumpOffset(Current)>>)>>)

\* forStatement after its initializer: a condition, or none.
ForCondition ==
    \E parts \in { <<Expression, At("forTest", <<Position(Current)>>)>>,
                   <<At("forBody", <<Position(Current)>>)>> } : Compile(Current, parts)

ForTest ==
    Compile(JumpIfFalse(Current),
            <<At("forBody", <<Saved(1)>>), At("exit", <<JumpOffset(Current)>>)>>)

\* With an increment the body jumps back to it, and it to the condition.
ForBody ==
    LET jump == EmitJump(Current, "JUMP")
        back == At("forIncrement", <<Saved(1), JumpOffset(Current)>>)
    IN  \/ Compile(Current, <<Do("statement"), At("loop", <<Saved(1)>>)>>)
        \/ Compile(jump, <<Expression, back, Do("statement"), At("loop", <<Position(jump)>>)>>)

ForIncrement ==
    Compile(PatchJump(EmitLoop(Emit(Current, <<Op("POP")>>), Saved(1)), Saved(2)), <<>>)

Continue ==
    \/ Expected({"emit"}) /\ Compile(Emit(Current, Head(work).s), <<>>)
    \/ Expected({"patch"}) /\ Compile(PatchJump(Current, Saved(1)), <<>>)
    \/ Expected({"loop"}) /\ Compile(EmitLoop(Current, Saved(1)), <<>>)
    \/ Expected({"exit"}) /\ Compile(Emit(PatchJump(Current, Saved(1)), <<Op("POP")>>), <<>>)
    \/ /\ Expected({"and"})
       /\ Compile(JumpIfFalse(Current), <<Expression, At("patch", <<JumpOffset(Current)>>)>>)
    \/ /\ Expected({"then"})
       /\ Compile(JumpIfFalse(Current), <<Do("statement"), At("else", <<JumpOffset(Current)>>)>>)
    \/ Expected({"or"}) /\ OrRight
    \/ Expected({"else"}) /\ Else
    \/ Expected({"test"}) /\ Test
    \/ Expected({"for"}) /\ ForCondition
    \/ Expected({"forTest"}) /\ ForTest
    \/ Expected({"forBody"}) /\ ForBody
    \/ Expected({"forIncrement"}) /\ ForIncrement

\* What the initializer left on the stack is the local variable.
DefineVariable ==
    /\ Expected({"define"})
    /\ LET c == Emit(MarkInitialized(Current), Head(work).s)
           l == Last(c.locals)
           mark == [decl |-> l.decl, at |-> Position(c)]
       IN  IF c.scopeDepth = 0
           THEN SetCurrent(c) /\ UNCHANGED envs
           ELSE /\ SetCurrent([c EXCEPT !.f.born = @ \cup {mark}])
                /\ envs' = Bind(l.name, l.decl)
    /\ work' = Tail(work)
    /\ UNCHANGED <<done, decls, grammar>>

EndBlock ==
    /\ Expected({"endScope"})
    /\ SetCurrent(EndScope(Current))
    /\ envs' = Front(envs)
    /\ work' = Tail(work)
    /\ UNCHANGED <<done, decls, grammar>>

\* endCompiler
EndCompiler(c) == Emit(c, <<Op("LITERAL"), Op("RETURN")>>).f

\* A pair of bytes for each upvalue.
Captured(us) ==
    [i \in 1..2 * Len(us) |->
        IF i % 2 = 0 THEN Byte(us[i \div 2].index)
        ELSE Byte(IF us[(i + 1) \div 2].isLocal THEN 1 ELSE 0)]

\* OP_CLOSURE in the function around.
EndFunction ==
    /\ Expected({"endFunction"})
    /\ LET f == EndCompiler(Current)
           c == chain[Len(chain) - 1]
       IN  /\ done' = Append(done, f)
           /\ chain' = Append(SubSeq(chain, 1, Len(chain) - 2),
                  Emit(MakeConstant(c, Len(done) + 1),
                       <<Op("CLOSURE"), Byte(ConstantIndex(c))>> \o Captured(f.upvalues)))
    /\ envs' = Front(envs)
    /\ work' = Tail(work)
    /\ UNCHANGED <<decls, grammar>>

\* compile: the end of the source.  `current` is NULL from here on.
EndScript ==
    /\ Expected({"endScript"})
    /\ done' = Append(done, EndCompiler(Current))
    /\ chain' = <<>> /\ work' = <<>>
    /\ UNCHANGED <<envs, decls, grammar>>

-----------------------------------------------------------------------------
Init ==
    /\ chain = <<InitCompiler>>
    /\ work = <<Do("declarations"), Do("endScript")>>
    /\ done = <<>>
    /\ envs = <<[x \in Name |-> Global]>>
    /\ decls = 0
    /\ grammar \in Grammars

Next ==
    \/ Simple \/ Continue
    \/ \E x \in Name : Use(x) \/ Assign(x) \/ VarDeclaration(x) \/ FunDeclaration(x)
                           \/ Parameter(x)
    \/ Block \/ ForStatement \/ EndList
    \/ DefineVariable \/ EndBlock \/ EndFunction \/ EndScript

Spec == Init /\ [][Next]_vars

-----------------------------------------------------------------------------
(* What the VM does with a function (run, src/vm/vm.c): the positions it   *)
(* reaches and the number of values in its frame there, whichever way the  *)
(* conditions go.                                                          *)

Operand(f, at, i) == f.code[at + 1 + i].n
Instruction(f, at) == f.code[at + 1]
Operation(f, at) == Instruction(f, at).op
IsInstruction(f, at) == at \in 0..Len(f.code) - 1 /\ Operation(f, at) # "operand"

\* The function a CLOSURE instruction names.
Enclosed(f, at) == done[f.constants[Operand(f, at, 1) + 1]]

Size(f, at) ==
    LET op == Operation(f, at)
    IN  CASE op \in {"JUMP", "JUMP_IF_FALSE", "LOOP"} -> 3
          [] op \in {"GET_LOCAL", "SET_LOCAL", "GET_UPVALUE", "SET_UPVALUE", "GET_GLOBAL",
                     "SET_GLOBAL", "DEFINE_GLOBAL", "CALL"} -> 2
          [] op = "CLOSURE" -> 2 + 2 * Len(Enclosed(f, at).upvalues)
          [] OTHER -> 1

\* How many values an instruction takes from the stack, and puts there.
Takes(f, at) ==
    LET op == Operation(f, at)
    IN  CASE op = "BINARY" -> 2
          [] op = "CALL" -> 1 + Operand(f, at, 1)
          [] op \in {"UNARY", "POP", "PRINT", "CLOSE_UPVALUE", "DEFINE_GLOBAL", "RETURN",
                     "JUMP_IF_FALSE", "SET_LOCAL", "SET_UPVALUE", "SET_GLOBAL"} -> 1
          [] OTHER -> 0
Puts(f, at) ==
    IF Operation(f, at) \in {"POP", "PRINT", "CLOSE_UPVALUE", "DEFINE_GLOBAL", "RETURN",
                             "JUMP", "LOOP"} THEN 0 ELSE 1

\* READ_SHORT, once ip is past the operands.
Jump(f, at) == Operand(f, at, 1) * Base + Operand(f, at, 2)
Target(f, at) ==
    IF Operation(f, at) = "LOOP" THEN at + 3 - Jump(f, at) ELSE at + 3 + Jump(f, at)

Follow(f, at) ==
    CASE Operation(f, at) = "RETURN" -> {}
      [] Operation(f, at) \in {"JUMP", "LOOP"} -> {Target(f, at)}
      [] Operation(f, at) = "JUMP_IF_FALSE" -> {Target(f, at), at + 3}
      [] OTHER -> {at + Size(f, at)}

Step(f, p) ==
    IF ~ IsInstruction(f, p.at) THEN {}
    ELSE { [at |-> q, height |-> p.height - Takes(f, p.at) + Puts(f, p.at)] :
               q \in Follow(f, p.at) }

\* A path without a cycle is no longer than the code.
Reached(f) ==
    LET Within[n \in 0..Len(f.code)] ==
            IF n = 0 THEN {[at |-> 0, height |-> 1 + Len(f.params)]}
            ELSE LET some == Within[n - 1]
                 IN  some \cup UNION { Step(f, p) : p \in some }
    IN  Within[Len(f.code)]

-----------------------------------------------------------------------------
(* Properties of the programs that compile. *)

Finished == IF chain = <<>> THEN ToSet(done) ELSE {}

\* The offset of a loop fits the bytes emitLoop leaves.
LoopsFit(f) ==
    \A m \in f.land : Operation(f, m.from) = "LOOP" => m.from + 3 - m.to < 2 * Base

\* A jump of a program that compiles goes where its statement or operator
\* says, whatever was emitted between the jump and its target: patchJump and
\* READ_SHORT agree on the two bytes.  A loop does so only below 2 * Base
\* bytes, where `&&` instead of `&` does not show.
JumpsLand ==
    \A f \in Finished : \A m \in f.land :
        (Operation(f, m.from) = "LOOP" => m.from + 3 - m.to < 2 * Base)
            => Target(f, m.from) = m.to

\* On every path through a function the VM reads whole instructions in the
\* chunk, has the same number of values on the stack whenever it is at the
\* same place, and never takes slot 0 or a parameter as an operand: `and`,
\* `or`, `if` and the loops leave what they found.
Balanced ==
    \A f \in Finished : LoopsFit(f) =>
        /\ \A p \in Reached(f) :
               /\ IsInstruction(f, p.at)
               /\ p.height > Len(f.params) + Takes(f, p.at)
        /\ \A p, q \in Reached(f) : p.at = q.at => p.height = q.height

\* The slot, from the begin of the frame, where a variable of f is born.
Place(f, d) ==
    IF d \in ToSet(f.params)
    THEN CHOOSE i \in DOMAIN f.params : f.params[i] = d
    ELSE LET m == CHOOSE m \in f.born : m.decl = d
         IN  (CHOOSE p \in Reached(f) : p.at = m.at).height - 1

Owns(f, d) == d \in ToSet(f.params) \/ \E m \in f.born : m.decl = d

\* The instruction at `at` finds the variable d of f in a slot that is in use.
Finds(f, p, slot, d) == Owns(f, d) /\ slot = Place(f, d) /\ slot < p.height

\* A name is compiled to the variable that lexical scoping gives it: to the
\* stack slot where that variable is at run time, or to an upvalue that hands
\* it on from function to function.  A local variable named in its own
\* initializer is the exception, the compiler does not refuse it: its slot is
\* not in use yet.
Resolves ==
    \A f \in Finished : LoopsFit(f) => \A p \in Reached(f) :
        LET op == Operation(f, p.at)
            d == Instruction(f, p.at).decl
            arg == Operand(f, p.at, 1)
        IN  /\ op \in {"GET_LOCAL", "SET_LOCAL"} => d = Itself \/ Finds(f, p, arg, d)
            /\ op \in {"GET_UPVALUE", "SET_UPVALUE"} =>
                   d # Global /\ f.upvalues[arg + 1].decl = d
            /\ op \in {"GET_GLOBAL", "SET_GLOBAL"} => d = Global
            /\ op = "CLOSURE" => \A i \in DOMAIN Enclosed(f, p.at).upvalues :
                   LET index == Operand(f, p.at, 2 * i + 1)
                       u == Enclosed(f, p.at).upvalues[i]
                   IN  IF Operand(f, p.at, 2 * i) = 1
                       THEN Finds(f, [p EXCEPT !.height = @ + 1], index, u.decl)
                       ELSE f.upvalues[index + 1].decl = u.decl

Captures(g, d) == \E i \in DOMAIN g.upvalues : g.upvalues[i].isLocal /\ g.upvalues[i].decl = d

\* At the end of a scope each of its variables leaves the stack from its own
\* slot, with OP_CLOSE_UPVALUE just when a function in the scope captures it.
ClosesCaptured ==
    \A f \in Finished : LoopsFit(f) => \A m \in f.gone, p \in Reached(f) :
        m.at = p.at =>
            /\ Finds(f, p, p.height - 1, m.decl)
            /\ Operation(f, p.at) = "CLOSE_UPVALUE"
                   <=> \E k \in DOMAIN done : Captures(done[k], m.decl)
=============================================================================
