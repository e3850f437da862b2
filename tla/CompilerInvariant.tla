------------------------- MODULE CompilerInvariant -------------------------
(***************************************************************************)
(* The inductive invariant of Compiler, and what the proofs about it talk  *)
(* of.                                                                     *)
(*                                                                         *)
(* The argument: what is left to compile determines what the VM's stack    *)
(* holds when it comes to the end of the code.  Two witnesses say so.  To  *)
(* each item of `work` belongs a *point*: how many values and variables    *)
(* are on the stack when the item begins, and in which function and scope. *)
(* To each position of a chunk that begins an instruction belongs a        *)
(* *frame*: how high the stack is there and which variable each slot       *)
(* holds.  The frame at the end of the code of the current function is     *)
(* what the first point says, and each instruction leads from the frame at *)
(* its place to the frames where it goes on.  A jump that is still open is *)
(* one the work holds the place of.                                        *)
(***************************************************************************)
EXTENDS Compiler

-----------------------------------------------------------------------------
(* Frames and the instructions that lead from one to the next. *)

Slot == 1..Count

Frame == [height : Nat, slot : [Slot -> 0..MaxDecl]]

\* Where instructions begin, and where the next one will.
Starts(f) == { p \in 0..Len(f.code) - 1 : f.code[p + 1].op # "operand" }

Spots(f) == Starts(f) \cup {Len(f.code)}

\* Size, of an instruction of a function that is compiled before es are done.
Width(ds, f, at) ==
    LET op == Operation(f, at)
    IN  CASE op \in {"JUMP", "JUMP_IF_FALSE", "LOOP"} -> 3
          [] op \in {"GET_LOCAL", "SET_LOCAL", "GET_UPVALUE", "SET_UPVALUE", "GET_GLOBAL",
                     "SET_GLOBAL", "DEFINE_GLOBAL", "CALL"} -> 2
          [] op = "CLOSURE" -> 2 + 2 * Len(ds[f.constants[Operand(f, at, 1) + 1]].upvalues)
          [] OTHER -> 1

\* The frame an instruction leaves: what it takes is gone, what it puts there
\* is no variable.
After(f, M, p) ==
    LET n == M[p].height - Takes(f, p)
    IN  [height |-> n + Puts(f, p),
         slot |-> [i \in Slot |-> IF i <= n THEN M[p].slot[i] ELSE Global]]

\* From the frame s the function goes on at q.  A variable may be born there.
Flow(f, M, s, q) ==
    /\ q \in Spots(f) /\ M[q].height = s.height
    /\ \A i \in Slot : M[q].slot[i] = s.slot[i] \/ [decl |-> M[q].slot[i], at |-> q] \in f.born

Jumps == {"JUMP", "JUMP_IF_FALSE"}

Leaps == {"JUMP", "JUMP_IF_FALSE", "LOOP"}

\* The instruction at p is whole, finds what it takes, and goes where there is
\* a frame it leads to.  P are the jumps that are still open.
Runs(ds, f, M, P, p) ==
    /\ p + Width(ds, f, p) \in Spots(f)
    /\ \A i \in 1..Width(ds, f, p) - 1 : f.code[p + 1 + i].op = "operand"
    /\ M[p].height > Len(f.params) + Takes(f, p)
    /\ Operation(f, p) \notin {"RETURN", "JUMP", "LOOP"} =>
           Flow(f, M, After(f, M, p), p + Width(ds, f, p))
    /\ Operation(f, p) \in Leaps =>
           \/ p \in P
           \/ \E m \in f.land : m.from = p /\ Flow(f, M, After(f, M, p), m.to)
    /\ Operation(f, p) = "CLOSURE" =>
           /\ Operand(f, p, 1) + 1 \in DOMAIN f.constants
           /\ f.constants[Operand(f, p, 1) + 1] \in DOMAIN ds

\* The operand of a jump that is not open is right.
Lands(f, P, m) ==
    /\ m.from \in Starts(f) \ P
    /\ Operation(f, m.from) \in Leaps
    /\ (Operation(f, m.from) = "LOOP" => m.from + 3 - m.to < 2 * Base) => Target(f, m.from) = m.to

Typed(ds, f, M, P) ==
    /\ M \in [0..Len(f.code) -> Frame]
    /\ 0 \in Spots(f)
    /\ M[0].height = 1 + Len(f.params)
    /\ \A p \in Starts(f) : Runs(ds, f, M, P, p)
    /\ \A m \in f.land : Lands(f, P, m)
    /\ P \subseteq { p \in Starts(f) : Operation(f, p) \in Jumps }

\* A variable that a slot holds came there as a parameter or where it is born.
Origin(f, M, i, d) ==
    \/ i - 1 \in DOMAIN f.params /\ f.params[i - 1] = d
    \/ \E m \in f.born : m.decl = d /\ M[m.at].height = i

Vars(f, M, dc) ==
    /\ \A p \in Spots(f) : \A i \in Slot : M[p].slot[i] # Global =>
           i <= M[p].height /\ Origin(f, M, i, M[p].slot[i])
    /\ \A m \in f.born : /\ m.at \in Spots(f) /\ m.decl <= dc
                         /\ M[m.at].height \in Slot /\ M[m.at].slot[M[m.at].height] = m.decl
    /\ \A m \in f.born : M[m.at].height > 1 + Len(f.params)
    /\ \A m, n \in f.born : m.decl = n.decl => m = n
    /\ \A m \in f.born : \A i \in DOMAIN f.params : f.params[i] # m.decl
    /\ \A i, j \in DOMAIN f.params : f.params[i] = f.params[j] => i = j

\* A variable that is gone left the stack from the top.
Dead(f, M, dc) ==
    \A m \in f.gone :
        /\ m.decl \in 1..dc
        /\ m.at \in Starts(f) /\ M[m.at].height \in Slot /\ M[m.at].slot[M[m.at].height] = m.decl

\* Operands name what the program means.  `late` is the function that is on
\* the stack but not yet a variable when its closure is made.
MeantAt(ds, f, M, late, p) ==
    LET op == Operation(f, p)
        d == Instruction(f, p).decl
        arg == Operand(f, p, 1)
        q == p + Width(ds, f, p)
        us == ds[f.constants[arg + 1]].upvalues
    IN  /\ op \in {"GET_LOCAL", "SET_LOCAL"} =>
              d = Itself \/ (arg + 1 \in Slot /\ M[p].slot[arg + 1] = d /\ d # Global)
        /\ op \in {"GET_UPVALUE", "SET_UPVALUE"} =>
              arg + 1 \in DOMAIN f.upvalues /\ f.upvalues[arg + 1].decl = d /\ d # Global
        /\ op \in {"GET_GLOBAL", "SET_GLOBAL"} => d = Global
        /\ op = "CLOSURE" => \A i \in DOMAIN us :
              LET index == Operand(f, p, 2 * i + 1)
              IN  /\ Operand(f, p, 2 * i) = IF us[i].isLocal THEN 1 ELSE 0
                  /\ IF us[i].isLocal
                     THEN /\ index + 1 \in Slot /\ us[i].decl # Global
                          /\ \/ M[q].slot[index + 1] = us[i].decl
                             \/ q = Len(f.code) /\ index + 1 = M[q].height /\ us[i].decl = late
                     ELSE index + 1 \in DOMAIN f.upvalues
                          /\ f.upvalues[index + 1].decl = us[i].decl

Meant(ds, f, M, late) == \A p \in Starts(f) : MeantAt(ds, f, M, late, p)

Sound(ds, f, M, P, late, dc) ==
    Typed(ds, f, M, P) /\ Vars(f, M, dc) /\ Dead(f, M, dc) /\ Meant(ds, f, M, late)

-----------------------------------------------------------------------------
(* Longer code. *)

\* g is f and more, but for the operands of the jumps in H, and es is ds and
\* more.
Extends(ds, es, f, g, H) ==
    /\ DOMAIN ds \subseteq DOMAIN es /\ \A i \in DOMAIN ds : es[i] = ds[i]
    /\ Len(f.code) <= Len(g.code)
    /\ \A i \in 1..Len(f.code) :
           \/ g.code[i] = f.code[i]
           \/ g.code[i].op = "operand" /\ f.code[i].op = "operand" /\ \E o \in H : i \in {o + 2, o + 3}
    /\ \A i \in DOMAIN f.constants : i \in DOMAIN g.constants /\ g.constants[i] = f.constants[i]
    /\ \A i \in DOMAIN f.upvalues : i \in DOMAIN g.upvalues /\ g.upvalues[i] = f.upvalues[i]
    /\ g.params = f.params
    /\ Len(f.code) \in Spots(g)

\* The instruction at p is the same in f and in g, the operand of a jump in H
\* aside.
Alike(ds, es, f, g, H, p) ==
    /\ p \in Starts(g) /\ Instruction(g, p) = Instruction(f, p)
    /\ Operation(g, p) = Operation(f, p)
    /\ Width(ds, f, p) \in Nat /\ Width(ds, f, p) >= 1
    /\ p + Width(ds, f, p) <= Len(f.code)
    /\ Width(es, g, p) = Width(ds, f, p)
    /\ Takes(g, p) = Takes(f, p) /\ Puts(g, p) = Puts(f, p)
    /\ p \notin H => \A i \in 1..Width(ds, f, p) - 1 : Operand(g, p, i) = Operand(f, p, i)
    /\ Operation(f, p) = "CLOSURE" =>
           /\ Operand(f, p, 1) + 1 \in DOMAIN f.constants
           /\ f.constants[Operand(f, p, 1) + 1] \in DOMAIN ds
           /\ Len(ds[f.constants[Operand(f, p, 1) + 1]].upvalues) \in Nat
           /\ g.constants[Operand(g, p, 1) + 1] = f.constants[Operand(f, p, 1) + 1]
           /\ es[g.constants[Operand(g, p, 1) + 1]] = ds[f.constants[Operand(f, p, 1) + 1]]

\* What the slots at a spot hold, and what a mark of a variable that is gone
\* says.
Sources(f, M, F) ==
    \A i \in Slot : F.slot[i] # Global => i <= F.height /\ Origin(f, M, i, F.slot[i])

Died(f, M, dc, m) ==
    /\ m.decl \in 1..dc
    /\ m.at \in Starts(f) /\ M[m.at].height \in Slot /\ M[m.at].slot[M[m.at].height] = m.decl

\* What must hold of what g has and f has not: H are jumps of f that are no
\* longer open in g, P those open in f and Q those open in g.
Grows(ds, es, f, g, M, N, P, Q, H, late, ec) ==
    /\ H \subseteq P /\ Extends(ds, es, f, g, H)
    /\ N \in [0..Len(g.code) -> Frame] /\ \A q \in Spots(f) : N[q] = M[q]
    /\ g.born = f.born /\ f.land \subseteq g.land /\ f.gone \subseteq g.gone
    /\ P \ H \subseteq Q /\ Q \subseteq (P \ H) \cup (Starts(g) \ Starts(f))
    /\ \A p \in Q \ P : Operation(g, p) \in Jumps
    /\ \A p \in Starts(g) \ Starts(f) : Runs(es, g, N, Q, p) /\ MeantAt(es, g, N, late, p)
    /\ \A o \in H : \E m \in g.land : m.from = o /\ Flow(g, N, After(f, M, o), m.to)
    /\ \A m \in g.land \ f.land : Lands(g, Q, m)
    /\ \A q \in Spots(g) \ Spots(f) : Sources(f, M, N[q])
    /\ \A m \in g.gone \ f.gone : Died(g, N, ec, m)

-----------------------------------------------------------------------------
(* One more instruction. *)

Emitted(f, s) == [f EXCEPT !.code = @ \o s]

\* The frames of f, and F at the end of the n bytes there are now.
Longer(M, n, F) ==
    [q \in 0..n |-> IF q = n THEN F ELSE IF q \in DOMAIN M THEN M[q] ELSE F]

Prolongs(M, l, n, F, N) ==
    N \in [0..n -> Frame] /\ N[n] = F /\ \A q \in 0..l : N[q] = M[q]

\* s is one instruction.
One(s) ==
    /\ s \in Seq(Bytes) /\ Len(s) >= 1 /\ s[1].op # "operand"
    /\ \A i \in 2..Len(s) : s[i].op = "operand"

\* g is f with the instruction s at its end.
Appends(f, s, g) ==
    LET L == Len(f.code)
    IN  /\ g \in Function /\ Len(g.code) = L + Len(s)
        /\ \A i \in 1..L : g.code[i] = f.code[i]
        /\ g.constants = f.constants /\ g.upvalues = f.upvalues
        /\ g.params = f.params /\ g.born = f.born /\ g.gone = f.gone
        /\ Starts(g) = Starts(f) \cup {L} /\ L \notin Starts(f)
        /\ Spots(g) = Spots(f) \cup {Len(g.code)}
        /\ Instruction(g, L) = s[1] /\ Operation(g, L) = s[1].op
        /\ \A i \in 1..Len(s) - 1 : /\ Operand(g, L, i) = s[i + 1].n
                                    /\ g.code[L + 1 + i].op = "operand"

\* g is f with s at its end, an instruction that is no jump back: it finds what
\* it takes, the variables stay where they were, and the stack is k high then.
Lengthens(ds, f, M, P, s, late, g, k, N, Q) ==
    LET L == Len(f.code)
    IN  /\ One(s) /\ g = Emitted(f, s)
        /\ N = Longer(M, Len(g.code), [height |-> k, slot |-> M[L].slot])
        /\ Q = IF s[1].op \in Jumps THEN P \cup {L} ELSE P
        /\ s[1].op # "LOOP" /\ Width(ds, g, L) = Len(s)
        /\ M[L].height > Len(f.params) + Takes(g, L)
        /\ k \in Nat /\ Takes(g, L) \in Nat /\ Puts(g, L) \in Nat
        /\ s[1].op \notin {"RETURN", "JUMP"} => k = M[L].height - Takes(g, L) + Puts(g, L)
        /\ \A i \in Slot : M[L].slot[i] # Global => i <= M[L].height - Takes(g, L) /\ i <= k
        /\ s[1].op = "CLOSURE" => /\ Len(s) >= 2 /\ s[2].n + 1 \in DOMAIN f.constants
                                  /\ f.constants[s[2].n + 1] \in DOMAIN ds
        /\ MeantAt(ds, g, N, late, L)

\* What g is then.
Lengthened(ds, f, M, late, g, k, N, Q, dc) ==
    /\ Sound(ds, g, N, Q, late, dc) /\ g \in Function
    /\ N[Len(g.code)] = [height |-> k, slot |-> M[Len(f.code)].slot]
    /\ \A q \in 0..Len(f.code) : N[q] = M[q]
    /\ Extends(ds, ds, f, g, {})

-----------------------------------------------------------------------------
(* The code of a function, and what is on the stack at its end.            *)

\* The stack is h high at the end of the code, its slots hold sl.
Coding(ds, dc, f, M, P, h, sl) ==
    /\ f \in Function /\ Sound(ds, f, M, P, Global, dc)
    /\ M[Len(f.code)].height = h /\ M[Len(f.code)].slot = sl

\* What is left of f and its frames when there is more code.
Onward(f, M, g, N) ==
    /\ Starts(f) \subseteq Starts(g) /\ Spots(f) \subseteq Spots(g) /\ Len(f.code) <= Len(g.code)
    /\ \A q \in Spots(f) : N[q] = M[q]
    /\ \A p \in Starts(f) : After(g, N, p) = After(f, M, p) /\ Operation(g, p) = Operation(f, p)
    /\ g.upvalues = f.upvalues /\ g.params = f.params /\ g.born = f.born /\ g.gone = f.gone

\* Above the v variables of sl there are values only.
Clear(f, h, sl, v) ==
    v \in Nat /\ v <= h /\ v > Len(f.params) /\ \A i \in Slot : sl[i] # Global => i <= v

\* What an instruction takes and puts, told from its bytes.
TakesOf(s) ==
    CASE s[1].op = "BINARY" -> 2
      [] s[1].op = "CALL" -> 1 + s[2].n
      [] s[1].op \in {"UNARY", "POP", "PRINT", "CLOSE_UPVALUE", "DEFINE_GLOBAL", "RETURN",
                      "JUMP_IF_FALSE", "SET_LOCAL", "SET_UPVALUE", "SET_GLOBAL"} -> 1
      [] OTHER -> 0

PutsOf(s) ==
    IF s[1].op \in {"POP", "PRINT", "CLOSE_UPVALUE", "DEFINE_GLOBAL", "RETURN",
                    "JUMP", "LOOP"} THEN 0 ELSE 1

\* An instruction with one operand, of a byte.
Short == {"GET_LOCAL", "SET_LOCAL", "GET_UPVALUE", "SET_UPVALUE", "GET_GLOBAL",
          "SET_GLOBAL", "DEFINE_GLOBAL", "CALL"}

\* Neither a jump back nor a closure.
Plain(s) ==
    /\ One(s) /\ s[1].op \in Instructions \ {"LOOP", "CLOSURE"}
    /\ Len(s) = IF s[1].op \in Jumps THEN 3 ELSE IF s[1].op \in Short THEN 2 ELSE 1

\* The operand of s names what it should.
Names(f, sl, s) ==
    /\ s[1].op \in {"GET_LOCAL", "SET_LOCAL"} =>
           \/ s[1].decl = Itself
           \/ s[2].n + 1 \in Slot /\ sl[s[2].n + 1] = s[1].decl /\ s[1].decl # Global
    /\ s[1].op \in {"GET_UPVALUE", "SET_UPVALUE"} =>
           /\ s[2].n + 1 \in DOMAIN f.upvalues /\ f.upvalues[s[2].n + 1].decl = s[1].decl
           /\ s[1].decl # Global
    /\ s[1].op \in {"GET_GLOBAL", "SET_GLOBAL"} => s[1].decl = Global

\* s is behind f now, and the stack is k high.
Stepped(ds, dc, f, M, P, h, sl, s, k, N) ==
    LET g == Emitted(f, s)
    IN  /\ Coding(ds, dc, g, N, IF s[1].op \in Jumps THEN P \cup {Len(f.code)} ELSE P, k, sl)
        /\ Onward(f, M, g, N) /\ g.constants = f.constants
        /\ Len(f.code) \in Starts(g)
        /\ After(g, N, Len(f.code)) = [height |-> h - TakesOf(s) + PutsOf(s), slot |-> sl]

-----------------------------------------------------------------------------
(* The bytes of jumps.                                                     *)

\* The jump at o goes to the end of the code.
Patched(f, o) ==
    [f EXCEPT !.code[o + 2] = Byte(((Len(f.code) - o - 3) \div Base) % Base),
              !.code[o + 3] = Byte((Len(f.code) - o - 3) % Base),
              !.land = @ \cup {[from |-> o, to |-> Len(f.code)]}]

\* The jump at o is no longer open.
Closes(ds, dc, f, M, P, h, sl, o) ==
    /\ Coding(ds, dc, Patched(f, o), M, P \ {o}, h, sl)
    /\ Onward(f, M, Patched(f, o), M)
    /\ Patched(f, o).constants = f.constants /\ Len(Patched(f, o).code) = Len(f.code)

\* A jump back to start comes to the end of the code.
LoopOp(f, start) ==
    LET offset == Len(f.code) + 1 - start + 2
    IN  <<Op("LOOP"), Byte(IF offset \div Base = 0 THEN 0 ELSE 1), Byte(offset % Base)>>

Looped(f, start) ==
    [f EXCEPT !.code = @ \o LoopOp(f, start),
              !.land = @ \cup {[from |-> Len(f.code), to |-> start]}]

\* The code ends with the jump back to start.
Loops(ds, dc, f, M, P, sl, start, k, N) ==
    /\ Coding(ds, dc, Looped(f, start), N, P, k, sl)
    /\ Onward(f, M, Looped(f, start), N)
    /\ Looped(f, start).constants = f.constants

-----------------------------------------------------------------------------
(* Points: what the compiler knows when it comes to an item of work.       *)

\* The function at `level`, the scope at `depth` in it, the scope at `env` of
\* the program; `all` locals, of which `seen` have been declared for names and
\* `vars` have a value on the stack of `height` values.
Point == [level : Nat, depth : Nat, env : Nat, all : Nat, seen : Nat, vars : Nat,
          height : Nat]

Raise(a, n) == [a EXCEPT !.height = @ + n]

Settled(a) == a.seen = a.all /\ a.vars = a.all /\ a.height = a.all

Sane(a) ==
    /\ a \in Point
    /\ a.level >= 1 /\ a.env >= 1 /\ a.vars >= 1 /\ a.all <= Count
    /\ a.all - 1 <= a.vars /\ a.vars <= a.seen /\ a.seen <= a.all /\ a.vars <= a.height

SlotsOf(c, n) == [i \in Slot |-> IF i <= n THEN c.locals[i].decl ELSE Global]

Stack(c, a) == [height |-> a.height, slot |-> SlotsOf(c, a.vars)]

\* The instructions s lead from the point a to b.
Sets == {"SET_LOCAL", "SET_UPVALUE", "SET_GLOBAL"}

Emission(s, a, b) ==
    \/ s = <<Op("LITERAL")>> /\ b = Raise(a, 1)
    \/ s = <<Op("UNARY")>> /\ a.height > a.vars /\ b = a
    \/ s = <<Op("BINARY")>> /\ a.height > a.vars + 1 /\ b = Raise(a, -1)
    \/ /\ s \in {<<Op("POP")>>, <<Op("PRINT")>>, <<Op("RETURN")>>}
       /\ a.height > a.vars /\ b = Raise(a, -1)
    \/ s = <<Op("LITERAL"), Op("RETURN")>> /\ b = a
    \/ \E n \in 0..1 : s = <<Op("CALL"), Byte(n)>> /\ a.height > a.vars + n /\ b = Raise(a, 0 - n)
    \/ \E o \in Sets, d \in 0..Itself, n \in Nat :
           s = <<Ref(o, d), Byte(n)>> /\ a.height > a.vars /\ b = a

\* The item w leads from the point a to b, where v is next.
Ends == {"endScope", "endFunction", "endScript"}

Fits(w, a, v, b) ==
    \/ w.k = "expression" /\ b = Raise(a, 1)
    \/ w.k = "statement" /\ Settled(a) /\ b = a
    \/ w.k = "declarations" /\ Settled(a) /\ b = a /\ v.k \in Ends
    \/ w.k = "initializer" /\ Settled(a) /\ b = a /\ v.k = "for"
    \/ w.k = "parameters" /\ Settled(a) /\ b = a /\ v.k = "declarations"
    \/ w.k = "emit" /\ Emission(w.s, a, b)
    \/ /\ w.k = "define" /\ Settled(b) /\ b.all = a.all
       /\ IF a.depth = 0
          THEN a = Raise(b, 1) /\ \E n \in Nat : w.s = <<Op("DEFINE_GLOBAL"), Byte(n)>>
          ELSE a = [b EXCEPT !.vars = @ - 1, !.seen = a.seen] /\ w.s = <<>>
    \/ w.k \in {"and", "or"} /\ a.height > a.vars /\ b = a
    \/ /\ w.k \in {"then", "test", "forTest", "forIncrement", "exit"}
       /\ Settled(b) /\ a = Raise(b, 1)
    \/ w.k = "else" /\ Settled(a) /\ b = a
    \/ w.k = "for" /\ Settled(a) /\ b = a /\ v.k = "endScope"
    \/ w.k = "patch" /\ b = a
    \/ w.k \in {"loop", "forBody"} /\ Settled(a) /\ b = [a EXCEPT !.height = b.height]
    \/ /\ w.k = "endScope" /\ Settled(a) /\ Settled(b) /\ a.depth = b.depth + 1
       /\ a.level = b.level /\ a.env = b.env + 1 /\ b.all <= a.all
    \/ /\ w.k = "endFunction" /\ Settled(a) /\ a.depth = 1 /\ a.level = b.level + 1
       /\ a.env = b.env + 1 /\ v.k = "define" /\ b.seen = b.all

\* The open jumps that an item will close.
Holes(w) == IF w.k \in {"patch", "exit", "else"} THEN {w.at[1] - 1}
            ELSE IF w.k = "forIncrement" THEN {w.at[2] - 1} ELSE {}

\* Later points are further out.
Within(w, a, b) ==
    /\ b.level <= a.level /\ b.env <= a.env
    /\ w.k = "endFunction" => b.level < a.level
    /\ w.k \in {"endScope", "endFunction"} => b.env < a.env
    /\ a.level = b.level =>
         /\ b.depth <= a.depth /\ b.all <= a.all
         /\ w.k = "endScope" => b.depth < a.depth

\* There is a jump to patch, with the frame s behind it.
Hole(c, M, o, s) == o \in Nat /\ o - 1 \in Starts(c.f) /\ After(c.f, M, o - 1) = s

\* The operand of an assignment that is still to be emitted.
Refers(c, n, op, d, arg) ==
    /\ op = "SET_LOCAL" =>
          d = Itself \/ (arg + 1 \in 1..n /\ c.locals[arg + 1].decl = d /\ d # Global)
    /\ op = "SET_UPVALUE" =>
          arg + 1 \in DOMAIN c.f.upvalues /\ c.f.upvalues[arg + 1].decl = d /\ d # Global
    /\ op = "SET_GLOBAL" => d = Global

\* What the item w remembers is true of the function c with the frames M.
Holds(w, a, b, c, M) ==
    /\ w.k \in {"patch", "exit"} => Hole(c, M, w.at[1], Stack(c, a))
    /\ w.k = "else" => Hole(c, M, w.at[1], Stack(c, Raise(a, 1)))
    /\ w.k \in {"loop", "forBody"} => Flow(c.f, M, Stack(c, a), w.at[1])
    /\ w.k \in {"test", "forTest"} => Flow(c.f, M, Stack(c, Raise(a, -1)), w.at[1])
    /\ w.k = "forIncrement" => /\ Flow(c.f, M, Stack(c, Raise(a, -1)), w.at[1])
                                /\ Hole(c, M, w.at[2], Stack(c, Raise(a, -1)))
    /\ w.k = "endScope" => \A l \in DOMAIN c.locals :
                               l <= b.all <=> c.locals[l].depth \in 0..a.depth - 1
    /\ w.k = "parameters" => c.f.code = <<>> /\ c.f.born = {}
    /\ w.k = "emit" /\ w.s[1].op \in Sets =>
          Refers(c, a.vars, w.s[1].op, w.s[1].decl, w.s[2].n)

\* The function c is at the point a, with the frame s.
Here(c, M, a, s) ==
    /\ a.depth = c.scopeDepth /\ a.all = Len(c.locals)
    /\ a.seen = a.all <=> c.locals[Len(c.locals)].depth # -1
    /\ M[Len(c.f.code)] = s
    /\ a.vars < a.all => \A m \in c.f.born : m.decl # c.locals[a.all].decl
    /\ a.vars < a.all => c.locals[a.all].depth \in {-1, a.depth}

\* The locals named x of function j that a name in function k can see, if n
\* of those of k have been declared.
Visible(ch, k, n, j, x) ==
    { l \in 1..(IF j = k THEN n ELSE Len(ch[j].locals)) : ch[j].locals[l].name = x }

Binds(ch, k, n, x, d) ==
    \/ d = Global /\ \A j \in 1..k : Visible(ch, k, n, j, x) = {}
    \/ \E j \in 1..k : \E l \in Visible(ch, k, n, j, x) :
         /\ d = ch[j].locals[l].decl
         /\ \A m \in Visible(ch, k, n, j, x) : m <= l
         /\ \A i \in j + 1..k : Visible(ch, k, n, i, x) = {}

Named(ch, en, a) == \A x \in Name : Binds(ch, a.level, a.seen, x, en[a.env][x])

Fine(ch, a) ==
    /\ Sane(a) /\ a.level \in DOMAIN ch
    /\ a.vars > Len(ch[a.level].f.params) /\ a.all <= Len(ch[a.level].locals)

Link(ch, en, maps, w, a, v, b) ==
    /\ Fits(w, a, v, b) /\ Within(w, a, b)
    /\ Holds(w, a, b, ch[a.level], maps[a.level])
    /\ w.k \in {"endScope", "endFunction"} => Named(ch, en, b)
    /\ w.k = "endFunction" =>
           Here(ch[b.level], maps[b.level], b, Stack(ch[b.level], Raise(b, -1)))

Listed(ch, en, maps, wk, ctx) ==
    /\ Len(wk) \in Nat /\ Len(wk) >= 1 /\ Len(ctx) = Len(wk)
    /\ DOMAIN wk = 1..Len(wk) /\ DOMAIN ctx = 1..Len(wk)
    /\ \A i \in 1..Len(wk) :
           /\ Fine(ch, ctx[i])
           /\ wk[i].k # "define" => ctx[i].vars = ctx[i].seen
    /\ \A i \in 1..Len(wk) - 1 : Link(ch, en, maps, wk[i], ctx[i], wk[i + 1], ctx[i + 1])
    /\ LET w == wk[Len(wk)]
           a == ctx[Len(wk)]
       IN  w.k = "endScript" /\ a.level = 1 /\ a.depth = 0 /\ a.env = 1 /\ Settled(a)
    /\ \A i, j \in 1..Len(wk) : i < j =>
           /\ Within(wk[i], ctx[i], ctx[j])
           /\ ctx[i].level = ctx[j].level => Holes(wk[i]) \cap Holes(wk[j]) = {}
    /\ \A i \in 2..Len(wk) : wk[i].k # "parameters"

\* The compiler is at the first point.
Heads(ch, en, maps, wk, ctx) ==
    /\ ctx[1].level = Len(ch) /\ ctx[1].env = Len(en)
    /\ Here(ch[Len(ch)], maps[Len(ch)], ctx[1], Stack(ch[Len(ch)], ctx[1]))
    /\ Named(ch, en, ctx[1])
    /\ wk[1].k = "parameters" => wk[3].k = "endFunction"

-----------------------------------------------------------------------------
(* Functions that are open, and all functions.                             *)

Locals(c, dc) ==
    /\ c.locals # <<>> /\ c.locals[1].name = NoName /\ c.locals[1].decl = Global
    /\ c.locals[1].depth = 0
    /\ \A l \in 2..Len(c.locals) : c.locals[l].name \in Name /\ c.locals[l].decl \in 1..dc
    /\ Len(c.f.params) < Len(c.locals)
    /\ \A i \in DOMAIN c.f.params : c.locals[i + 1].decl = c.f.params[i]

Pending(wk, ctx, k) == UNION { Holes(wk[i]) : i \in { j \in 1..Len(wk) : ctx[j].level = k } }

\* The function that is on the stack but no variable yet, at the point a.
Late(c, a) == IF a.vars < a.seen THEN c.locals[a.all].decl ELSE Global

Coded(ch, ds, dc, maps, wk, ctx) ==
    \A k \in DOMAIN ch :
        /\ Sound(ds, ch[k].f, maps[k], Pending(wk, ctx, k),
                 IF k = Len(ch) THEN Late(ch[k], ctx[1]) ELSE Global, dc)
        /\ Locals(ch[k], dc)

Apart(ch) ==
    \A k \in DOMAIN ch : \A l \in 2..Len(ch[k].locals) :
    \A k2 \in DOMAIN ch : \A l2 \in 2..Len(ch[k2].locals) :
        ch[k].locals[l].decl = ch[k2].locals[l2].decl => k = k2 /\ l = l2

\* An upvalue is a local or an upvalue of the function around.
Joins(c, u) ==
    /\ u.decl # Global
    /\ IF u.isLocal
       THEN u.index + 1 \in DOMAIN c.locals /\ c.locals[u.index + 1].decl = u.decl
       ELSE u.index + 1 \in DOMAIN c.f.upvalues /\ c.f.upvalues[u.index + 1].decl = u.decl

Linked(ch) ==
    /\ ch[1].f.upvalues = <<>>
    /\ \A k \in 2..Len(ch) : \A i \in DOMAIN ch[k].f.upvalues :
           Joins(ch[k - 1], ch[k].f.upvalues[i])

Everyone(ch, ds) == { ds[i] : i \in DOMAIN ds } \cup { ch[k].f : k \in DOMAIN ch }

Taken(ch, ds, d) == \E g \in Everyone(ch, ds) : Captures(g, d)

Flagged(ch, ds, dc) ==
    /\ \A k \in DOMAIN ch : \A l \in 2..Len(ch[k].locals) :
         ch[k].locals[l].captured <=> Taken(ch, ds, ch[k].locals[l].decl)
    /\ \A g \in Everyone(ch, ds) : \A i \in DOMAIN g.upvalues : g.upvalues[i].decl \in 1..dc

\* What is gone is no longer a local, and was closed if it is captured.
Closed(ch, ds, f) ==
    \A m \in f.gone :
        /\ \A k \in DOMAIN ch : \A l \in 2..Len(ch[k].locals) : ch[k].locals[l].decl # m.decl
        /\ Operation(f, m.at) = "CLOSE_UPVALUE" <=> Taken(ch, ds, m.decl)

Tied(ch, ds, dc) ==
    /\ Apart(ch) /\ Linked(ch) /\ Flagged(ch, ds, dc)
    /\ \A g \in Everyone(ch, ds) : Closed(ch, ds, g)

Good(ch, wk, ds, en, dc, ctx, maps) ==
    /\ ctx \in Seq(Point) /\ DOMAIN maps = DOMAIN ch
    /\ Listed(ch, en, maps, wk, ctx) /\ Heads(ch, en, maps, wk, ctx)
    /\ Coded(ch, ds, dc, maps, wk, ctx) /\ Tied(ch, ds, dc)

\* A function that is done never runs past its end.
Goes(ds, f, M) ==
    \A p \in Starts(f) :
        /\ p + Width(ds, f, p) \in Starts(f) \/ Operation(f, p) = "RETURN"
        /\ Operation(f, p) \in Leaps =>
               \E m \in f.land : m.from = p /\ m.to \in Starts(f) /\ Flow(f, M, After(f, M, p), m.to)

Whole(ds, f, M, dc) ==
    f \in Function /\ Sound(ds, f, M, {}, Global, dc) /\ 0 \in Starts(f) /\ Goes(ds, f, M)

-----------------------------------------------------------------------------
(* Work that is done, and work that is added.                              *)

\* What belongs to w, when it comes before wk.
Fresh(ch, en, maps, wk, ctx, w, a) ==
    /\ Fine(ch, a)
    /\ w.k # "define" => a.vars = a.seen
    /\ Link(ch, en, maps, w, a, wk[1], ctx[1])
    /\ wk[1].k # "parameters"
    /\ Holes(w) \cap Pending(wk, ctx, a.level) = {}

\* The frame s at q became r: variables that are born there have been added.
Settles(f, s, r, q) ==
    /\ r.height = s.height
    /\ \A i \in Slot : r.slot[i] = s.slot[i] \/ [decl |-> r.slot[i], at |-> q] \in f.born

\* The function c with the frames M became d with N: nothing changed for what
\* is left to do at a depth up to dep with the first v locals.
Keeps(c, M, d, N, v, dep) ==
    /\ \A p \in Starts(c.f) : p \in Starts(d.f) /\ After(d.f, N, p) = After(c.f, M, p)
    /\ \A q \in Spots(c.f) : q \in Spots(d.f) /\ Settles(d.f, M[q], N[q], q)
    /\ c.f.born \subseteq d.f.born /\ d.f.params = c.f.params
    /\ \A i \in DOMAIN c.f.upvalues : i \in DOMAIN d.f.upvalues /\ d.f.upvalues[i] = c.f.upvalues[i]
    /\ Len(d.locals) \in Nat /\ v <= Len(d.locals) /\ DOMAIN d.locals \subseteq Nat
    /\ \A l \in 1..v : d.locals[l].name = c.locals[l].name /\ d.locals[l].decl = c.locals[l].decl
    /\ \A l \in DOMAIN d.locals :
           \/ l \in DOMAIN c.locals /\ d.locals[l].depth = c.locals[l].depth
           \/ l > v /\ d.locals[l].depth \notin 0..dep - 1
           \/ /\ l \in DOMAIN c.locals /\ c.locals[l].depth \notin 0..dep - 1
              /\ d.locals[l].depth \notin 0..dep - 1

\* Only more upvalues, or locals that are captured.
Same(c, M, d, N) ==
    /\ d.f.code = c.f.code /\ d.f.born = c.f.born /\ d.f.params = c.f.params
    /\ \A i \in DOMAIN c.f.upvalues : i \in DOMAIN d.f.upvalues /\ d.f.upvalues[i] = c.f.upvalues[i]
    /\ N = M /\ d.scopeDepth = c.scopeDepth
    /\ DOMAIN d.locals = DOMAIN c.locals /\ Len(d.locals) = Len(c.locals)
    /\ \A l \in DOMAIN c.locals : /\ d.locals[l].name = c.locals[l].name
                                  /\ d.locals[l].decl = c.locals[l].decl
                                  /\ d.locals[l].depth = c.locals[l].depth

\* Up to n locals of function k, the names are the same.
SameNames(ch, es, k, n) ==
    \A j \in 1..k : /\ j = k \/ Len(es[j].locals) = Len(ch[j].locals)
                    /\ \A l \in 1..(IF j = k THEN n ELSE Len(ch[j].locals)) :
                           /\ es[j].locals[l].name = ch[j].locals[l].name
                           /\ es[j].locals[l].decl = ch[j].locals[l].decl

-----------------------------------------------------------------------------
(* What all functions have to do with each other.                          *)

Comp == [locals : Seq(Local), scopeDepth : Nat, error : BOOLEAN, f : Function]

Kinds ==
    { "expression", "statement", "declarations", "initializer", "parameters", "emit", "define",
      "and", "or", "then", "else", "test", "for", "forTest", "forBody", "forIncrement", "patch",
      "loop", "exit", "endScope", "endFunction", "endScript" }

Item == [k : Kinds, at : Seq(Nat), s : Seq(Bytes)]

Limits(c) ==
    /\ Len(c.locals) <= Count /\ Len(c.f.upvalues) <= Count
    /\ \A l \in DOMAIN c.locals :
           c.locals[l].depth \in 0..c.scopeDepth
             \/ (c.locals[l].depth = -1 /\ l = Len(c.locals))

Types(ch, wk, ds, en, dc) ==
    /\ ch \in Seq(Comp) /\ wk \in Seq(Item) /\ ds \in Seq(Function)
    /\ en \in Seq([Name -> 0..MaxDecl]) /\ dc \in 0..MaxDecl
    /\ \A k \in DOMAIN ch : Limits(ch[k])

\* The same functions, as far as what they capture goes.
Akin(ch, ds, es, fs) ==
    /\ \A g \in Everyone(ch, ds) : \E h \in Everyone(es, fs) : h.upvalues = g.upvalues
    /\ \A h \in Everyone(es, fs) : \E g \in Everyone(ch, ds) : h.upvalues = g.upvalues

\* The locals of es are locals of ch.
Among(ch, es) ==
    /\ DOMAIN es \subseteq DOMAIN ch
    /\ \A k \in DOMAIN es :
           /\ Len(ch[k].locals) \in Nat /\ Len(es[k].locals) \in Nat
           /\ Len(es[k].locals) <= Len(ch[k].locals)
           /\ \A l \in 1..Len(es[k].locals) :
                  /\ es[k].locals[l].decl = ch[k].locals[l].decl
                  /\ es[k].locals[l].captured = ch[k].locals[l].captured

\* g did what f did with the variables that are gone.
Follows(f, g) ==
    g.gone = f.gone /\ \A m \in f.gone : Operation(g, m.at) = Operation(f, m.at)

-----------------------------------------------------------------------------
(* Steps that add code to the function that is compiled.                   *)

Beside(a, b) == b = [a EXCEPT !.height = b.height]

Coder(c, M, e, N) ==
    /\ e \in Comp /\ e.locals = c.locals /\ e.scopeDepth = c.scopeDepth
    /\ Onward(c.f, M, e.f, N)

\* Only function n changes, and there is nothing left to do further in.
UpTo(ch, en, maps, wk, ctx, es, fn, naps, n) ==
    /\ n \in Nat /\ n <= Len(ch) /\ ctx[1].level <= n
    /\ \A k \in DOMAIN ch : Len(ch[k].locals) >= 1
    /\ \A k \in 1..n - 1 : k \in DOMAIN es /\ es[k] = ch[k] /\ naps[k] = maps[k]
    /\ ctx[1].level = n => /\ n \in DOMAIN es
                           /\ Keeps(ch[n], maps[n], es[n], naps[n], ctx[1].all, ctx[1].depth)
    /\ \A e \in 1..ctx[1].env - 1 : fn[e] = en[e]
    /\ wk[1].k # "parameters"

\* What is left when the head of the work is done, or stays.
RestWork(wk) == IF wk[1].k = "declarations" THEN wk ELSE Tail(wk)

RestCtx(wk, ctx) == IF wk[1].k = "declarations" THEN ctx ELSE Tail(ctx)

\* wk is left, the first point differs from a in its height only.
Going(es, en, naps, a, wk, ctx) ==
    /\ Listed(es, en, naps, wk, ctx) /\ wk \in Seq(Item) /\ ctx \in Seq(Point)
    /\ Len(ctx) = Len(wk) /\ Len(wk) >= 1
    /\ Beside(a, ctx[1]) /\ wk[1].k # "parameters"

\* rw and rc are what is left of wk and ctx, for function n and for others.
Splits(wk, ctx, rw, rc, n) ==
    /\ Pending(wk, ctx, n) = Holes(wk[1]) \cup Pending(rw, rc, n)
    /\ Holes(wk[1]) \cap Pending(rw, rc, n) = {}
    /\ \A k \in 1..n - 1 : Pending(wk, ctx, k) = Pending(rw, rc, k)
    /\ IF wk[1].k = "declarations" THEN rw[1] = wk[1] /\ rc[1] = ctx[1]
                                   ELSE rw[1] = wk[2] /\ rc[1] = ctx[2]

\* Items that no code step leaves as a part.
Outer == {"endScope", "endFunction", "endScript", "define", "parameters"}

\* The state after function Len(ch) became e, with the frames N.
Changed(ch, maps, e, N, es, naps) ==
    /\ es = [ch EXCEPT ![Len(ch)] = e]
    /\ naps = [k \in DOMAIN ch |-> IF k = Len(ch) THEN N ELSE maps[k]]

\* The function Len(ch) has changed: pw is what is left to do, P are the
\* jumps of that function that are still open.
Left(ch, wk, en, ctx, es, naps, pw, pc, P) ==
    /\ Going(es, en, naps, ctx[1], pw, pc)
    /\ Pending(pw, pc, Len(ch)) = P
    /\ \A k \in 1..Len(ch) - 1 : Pending(pw, pc, k) = Pending(wk, ctx, k)

\* The item w at the point p may come before v at b, in the function c with
\* the frames M where the jumps P are open; a is where the production began.
Part(a, w, p, v, b, c, M, P) ==
    /\ w \in Item /\ w.k \notin Outer
    /\ Sane(p) /\ Beside(a, p) /\ p.vars = p.seen
    /\ Fits(w, p, v, b) /\ Holds(w, p, b, c, M) /\ Holes(w) \cap P = {}

\* pw becomes r, with w before it, and its points pc become q.
Before(x, s, r) == r = <<x>> \o s

Adds(ch, wk, en, ctx, es, naps, pw, pc, P, w, p, r, q) ==
    /\ Left(ch, wk, en, ctx, es, naps, pw, pc, P)
    /\ Sane(ctx[1]) /\ ctx[1].level = Len(ch)
    /\ Part(ctx[1], w, p, pw[1], pc[1], es[Len(ch)], naps[Len(ch)], P)
    /\ Before(w, pw, r) /\ Before(p, pc, q)

-----------------------------------------------------------------------------
(* Productions that add code to the current function, or none.             *)

Valid(ch, wk, ds, en, dc) ==
    /\ Types(ch, wk, ds, en, dc)
    /\ \E ctx, maps : Good(ch, wk, ds, en, dc, ctx, maps)

Ready(ch, wk, ds, en, dc, ctx, maps) ==
    Types(ch, wk, ds, en, dc) /\ Good(ch, wk, ds, en, dc, ctx, maps) /\ wk[1].k \notin Outer

\* The current function c becomes e with the frames N, P are the jumps that
\* are open for what is left, a and b the points before and after.
Turn(ch, wk, ds, en, dc, ctx, maps, e, N, es, P) ==
    /\ Ready(ch, wk, ds, en, dc, ctx, maps)
    /\ Coder(ch[Len(ch)], maps[Len(ch)], e, N)
    /\ es = [ch EXCEPT ![Len(ch)] = e]
    /\ P = Pending(RestWork(wk), RestCtx(wk, ctx), Len(ch))

Renewed(ch, maps, N) == [k \in DOMAIN ch |-> IF k = Len(ch) THEN N ELSE maps[k]]

OneByOne3(x, y, z, s) == <<x, y, z>> \o s = <<x>> \o (<<y>> \o (<<z>> \o s))

OneByOne4(x, y, z, u, s) ==
    <<x, y, z, u>> \o s = <<x>> \o (<<y>> \o (<<z>> \o (<<u>> \o s)))

-----------------------------------------------------------------------------
(* Items that remember a place in the code.                                *)

\* The point p is one of the production at a.
Under(a, p) == Sane(p) /\ Beside(a, p) /\ p.vars = p.seen

-----------------------------------------------------------------------------
(* The code that emitByte, patchJump and emitLoop leave.                   *)

\* The function c with the frames M: P are open jumps, the stack is h high, v
\* variables are on it, in the slots sl.
Wrote(ds, dc, c, M, P, h, sl, v) ==
    c \in Comp /\ Coding(ds, dc, c.f, M, P, h, sl) /\ Clear(c.f, h, sl, v)

\* s is behind the code of c now, and the stack is k high.
Writes(ds, dc, c, M, P, h, sl, v, s, k, N) ==
    LET e == Emit(c, s)
        L == Position(c)
    IN  /\ Coder(c, M, e, N) /\ e.error = c.error /\ L \in Starts(e.f) /\ L \in Nat
        /\ Wrote(ds, dc, e, N, IF s[1].op \in Jumps THEN P \cup {L} ELSE P, k, sl, v)
        /\ After(e.f, N, L) = [height |-> h - TakesOf(s) + PutsOf(s), slot |-> sl]

\* The jump with its operand at o is patched, and the code is as long as before.
Fills(ds, dc, c, M, P, h, sl, v, o) ==
    LET e == PatchJump(c, o)
    IN  /\ Coder(c, M, e, M) /\ Position(e) = Position(c)
        /\ Wrote(ds, dc, e, M, P \ {o - 1}, h, sl, v)

\* The code of c ends with a jump back to start now.
Returns(ds, dc, c, M, P, sl, v, start, k, N) ==
    LET e == EmitLoop(c, start)
    IN  Coder(c, M, e, N) /\ Wrote(ds, dc, e, N, P, k, sl, v)

-----------------------------------------------------------------------------
(* Instructions that are emitted behind an expression or a statement.      *)

\* A single instruction, from the point a to b.
Single(f, a, s, b) ==
    /\ Plain(s) /\ s[1].op \notin Jumps /\ a.vars + TakesOf(s) <= a.height
    /\ s[1].op # "RETURN" => b.height = a.height - TakesOf(s) + PutsOf(s)

\* An emission writes code that leads to its point.
Grown(ds, dc, c, M, e, N, P, h, sl, v) ==
    Coder(c, M, e, N) /\ Wrote(ds, dc, e, N, P, h, sl, v)

-----------------------------------------------------------------------------
(* One step of the code of the current function.                           *)

\* The current function is c, with the frames M and the open jumps Q, of which
\* P stay open; a is the point where it is, and v the next item, at b.
Scene(ch, wk, ds, en, dc, ctx, maps, a, b, v, c, M, P, Q) ==
    /\ Ready(ch, wk, ds, en, dc, ctx, maps)
    /\ a = ctx[1] /\ b = RestCtx(wk, ctx)[1] /\ v = RestWork(wk)[1]
    /\ c = ch[Len(ch)] /\ M = maps[Len(ch)]
    /\ P = Pending(RestWork(wk), RestCtx(wk, ctx), Len(ch)) /\ Q = Pending(wk, ctx, Len(ch))

-----------------------------------------------------------------------------
(* Jumps that are left open.                                               *)

\* A jump that is open ends the code of c.
Jumped(ds, dc, c, M, P, h, sl, v, op, k, N) ==
    LET e == EmitJump(c, op)
        L == Position(c)
    IN  /\ Grown(ds, dc, c, M, e, N, P \cup {L}, k, sl, v) /\ e.error = c.error
        /\ L \in Nat /\ L \notin P /\ JumpOffset(c) \in Nat /\ JumpOffset(c) - 1 = L
        /\ Hole(e, N, JumpOffset(c), [height |-> h, slot |-> sl])

\* JUMP_IF_FALSE, and POP on the path where the condition is true.
Tests(ds, dc, c, M, P, h, sl, v, k, N) ==
    LET e == JumpIfFalse(c)
        L == Position(c)
    IN  /\ Grown(ds, dc, c, M, e, N, P \cup {L}, k, sl, v)
        /\ L \in Nat /\ L \notin P /\ JumpOffset(c) \in Nat /\ JumpOffset(c) - 1 = L
        /\ Hole(e, N, JumpOffset(c), [height |-> h, slot |-> sl])

-----------------------------------------------------------------------------
(* What a production does after one of its parts: each step of Continue.   *)

\* The jump to the increment of a loop, which begins and ends at the same
\* point as its body.
Increments(a, p, e, N, m, o, X) ==
    /\ Under(a, p) /\ Settled(a) /\ p = Raise(a, 1) /\ a = Raise(p, -1)
    /\ m \in Nat /\ Flow(e.f, N, Stack(e, a), m)
    /\ Hole(e, N, o, Stack(e, a)) /\ o - 1 \notin X

-----------------------------------------------------------------------------
(* The ends of lists, and what is left when the first item is done.        *)

\* The first item w is at the point a, it leads to v at b; tw and tc are what
\* is left.
Tails(ch, wk, en, ctx, maps, w, a, v, b, tw, tc) ==
    /\ w = wk[1] /\ a = ctx[1] /\ v = wk[2] /\ b = ctx[2] /\ tw = Tail(wk) /\ tc = Tail(ctx)
    /\ tw \in Seq(Item) /\ tc \in Seq(Point) /\ Len(tc) = Len(tw) /\ Len(tw) >= 1
    /\ tw[1] = v /\ tc[1] = b /\ Len(wk) >= 2 /\ Len(wk) = Len(tw) + 1
    /\ Listed(ch, en, maps, tw, tc) /\ Link(ch, en, maps, w, a, v, b) /\ Fine(ch, a) /\ Fine(ch, b)
    /\ v.k # "parameters" /\ (v.k # "define" => b.vars = b.seen) /\ (w.k # "define" => a.vars = a.seen)
    /\ \A k : Pending(wk, ctx, k) = (IF a.level = k THEN Holes(w) ELSE {}) \cup Pending(tw, tc, k)
    /\ Holes(w) \cap Pending(tw, tc, a.level) = {}

-----------------------------------------------------------------------------
(* Steps that change the function that is compiled and the scopes.         *)

\* Only function n, the last, changes.
Tops(ch, maps, es, naps, n) ==
    /\ n = Len(ch) /\ n \in Nat /\ n >= 1 /\ ch \in Seq(Comp) /\ es \in Seq(Comp) /\ Len(es) = n
    /\ DOMAIN ch = 1..n /\ DOMAIN es = 1..n /\ DOMAIN naps = 1..n /\ DOMAIN maps = 1..n
    /\ \A k \in 1..n - 1 : es[k] = ch[k] /\ naps[k] = maps[k]
    /\ \A k \in 1..n : Len(ch[k].locals) >= 1

\* pw and pc are what is left to do.
Rested(es, fn, naps, pw, pc) ==
    /\ Listed(es, fn, naps, pw, pc) /\ pw \in Seq(Item) /\ pc \in Seq(Point)
    /\ Len(pc) = Len(pw) /\ Len(pw) >= 1 /\ pw[1].k # "parameters"

\* With w before them they are r and q.
Pushes(es, fn, naps, pw, pc, w, p, r, q) ==
    /\ r = <<w>> \o pw /\ q = <<p>> \o pc
    /\ Listed(es, fn, naps, r, q) /\ r \in Seq(Item) /\ q \in Seq(Point)
    /\ Len(q) = Len(r) /\ Len(r) >= 2 /\ r[1] = w /\ q[1] = p /\ r[2] = pw[1]
    /\ r[3] = pw[2] \/ Len(pw) = 1
    /\ \A k : Pending(r, q, k) = (IF p.level = k THEN Holes(w) ELSE {}) \cup Pending(pw, pc, k)

\* A list of declarations, or what belongs to a loop, leads nowhere else.
Flat(w, v) ==
    \/ w.k = "declarations" /\ v.k \in Ends
    \/ w.k = "initializer" /\ v.k = "for"
    \/ w.k = "for" /\ v.k = "endScope"

-----------------------------------------------------------------------------
(* Scopes that are opened.                                                 *)

\* The current function c, at the point a, becomes e at q: it is one scope
\* further in.  rw and rc are what is left after the production.
Inside(a) == [a EXCEPT !.depth = @ + 1, !.env = @ + 1]

Opening(ch, wk, ds, en, dc, ctx, maps, n, a, q, c, e, es, fn, naps, rw, rc) ==
    /\ Ready(ch, wk, ds, en, dc, ctx, maps) /\ wk[1].k \in {"declarations", "statement"}
    /\ n = Len(ch) /\ c = ch[n] /\ e = BeginScope(c) /\ es = [ch EXCEPT ![n] = e]
    /\ naps = Renewed(ch, maps, maps[n]) /\ fn = Append(en, Last(en))
    /\ a = ctx[1] /\ q = Inside(a)
    /\ rw = RestWork(wk) /\ rc = RestCtx(wk, ctx)

\* An item that is pushed and leaves the point where it is.
FlatPush(es, fn, naps, pw, pc, w, r, q) ==
    /\ Rested(es, fn, naps, r, q) /\ r[1] = w /\ q[1] = pc[1]
    /\ \A k : Pending(r, q, k) = Pending(pw, pc, k)

\* The end of the scope before what is left.
Scoped(es, fn, naps, rw, rc, w, q, r, t) ==
    /\ Rested(es, fn, naps, r, t) /\ r[1] = w /\ t[1] = q /\ Fine(es, q) /\ Settled(q)
    /\ \A k : Pending(r, t, k) = Pending(rw, rc, k)

-----------------------------------------------------------------------------
(* Scopes that end.                                                        *)

\* k of the locals of c are not of the scope that ends.
Keeping(c, k) ==
    /\ k \in 1..Len(c.locals) /\ c.scopeDepth >= 1
    /\ \A l \in DOMAIN c.locals : l <= k <=> c.locals[l].depth \in 0..c.scopeDepth - 1
    /\ \A l \in DOMAIN c.locals : c.locals[l].depth \in 0..c.scopeDepth

\* The scope of c ends, k locals stay and n go: it becomes e.
Ended(c, k, n, e) ==
    LET L == Len(c.f.code)
    IN  /\ e \in Comp /\ e.scopeDepth = c.scopeDepth - 1 /\ e.error = c.error
        /\ Len(e.locals) = k /\ DOMAIN e.locals = 1..k /\ n = Len(c.locals) - k /\ n \in Nat
        /\ \A l \in 1..k : e.locals[l] = c.locals[l]
        /\ Len(e.f.code) = L + n /\ L \in Nat
        /\ \A i \in 1..L : e.f.code[i] = c.f.code[i]
        /\ \A i \in 1..n : e.f.code[L + i] = Ending(c.locals[Len(c.locals) + 1 - i])
        /\ e.f.constants = c.f.constants /\ e.f.upvalues = c.f.upvalues
        /\ e.f.params = c.f.params /\ e.f.born = c.f.born /\ e.f.land = c.f.land
        /\ c.f.gone \subseteq e.f.gone
        /\ \A m \in e.f.gone : m \in c.f.gone \/ \E i \in 1..n :
               m.decl = c.locals[Len(c.locals) + 1 - i].decl /\ m.at = L + i - 1

\* The frames of e: one local less after each instruction.
Shrinks(c, M, e) ==
    [q \in 0..Len(e.f.code) |->
        IF q <= Len(c.f.code) THEN M[q]
        ELSE LET h == Len(c.locals) - (q - Len(c.f.code))
             IN  [height |-> h, slot |-> SlotsOf(c, h)]]

\* The scope may end: all locals of c are on the stack, and nothing else.
MayEnd(ds, dc, c, M, P, k, n, e, N, L, h) ==
    /\ L = Len(c.f.code) /\ h = Len(c.locals)
    /\ ds \in Seq(Function) /\ dc \in Nat /\ dc <= MaxDecl /\ c \in Comp
    /\ Keeping(c, k) /\ Ended(c, k, n, e) /\ N = Shrinks(c, M, e)
    /\ Sound(ds, c.f, M, P, Global, dc) /\ Locals(c, dc) /\ Len(c.locals) <= Count
    /\ M[Len(c.f.code)] = [height |-> Len(c.locals), slot |-> SlotsOf(c, Len(c.locals))]
    /\ k > Len(c.f.params)

\* k locals, and nothing else.
Bare(c, k) == [height |-> k, slot |-> SlotsOf(c, k)]

\* The current function c ends a scope at the point a, and is e at b then.
Closing(ch, wk, ds, en, dc, ctx, maps, n, a, b, c, e, N, es, fn, naps, tw, tc) ==
    /\ Types(ch, wk, ds, en, dc) /\ Good(ch, wk, ds, en, dc, ctx, maps) /\ wk[1].k = "endScope"
    /\ n = Len(ch) /\ c = ch[n] /\ e = EndScope(c) /\ es = [ch EXCEPT ![n] = e]
    /\ N = Shrinks(c, maps[n], e) /\ naps = Renewed(ch, maps, N) /\ fn = Front(en)
    /\ a = ctx[1] /\ b = ctx[2] /\ tw = Tail(wk) /\ tc = Tail(ctx)

\* Where it is.
ClosingPoints(ch, en, maps, n, a, b, c) ==
    /\ n \in Nat /\ n >= 1 /\ n \in DOMAIN ch
    /\ Settled(a) /\ Settled(b) /\ Sane(a) /\ Sane(b) /\ a.depth = b.depth + 1
    /\ a.level = n /\ b.level = n /\ a.env = b.env + 1 /\ b.all <= a.all
    /\ a.depth = c.scopeDepth /\ a.all = Len(c.locals) /\ a.env = Len(en)
    /\ b.vars > Len(c.f.params)
    /\ Here(c, maps[n], a, Stack(c, a)) /\ Named(ch, en, b)
    /\ \A l \in DOMAIN c.locals : l <= b.all <=> c.locals[l].depth \in 0..a.depth - 1

-----------------------------------------------------------------------------
(* Local variables that are declared.                                      *)

\* The function c has a new local named x, its declaration is d; dd is -1 if
\* it has no value yet, and the scope it is in otherwise.
Declares(c, e, x, dd, d) ==
    /\ c \in Comp /\ e \in Comp /\ x \in Name /\ d \in 1..MaxDecl
    /\ c.scopeDepth >= 1 /\ dd \in {-1, c.scopeDepth} /\ e.scopeDepth = c.scopeDepth
    /\ Len(e.locals) = Len(c.locals) + 1 /\ DOMAIN e.locals = 1..Len(c.locals) + 1
    /\ \A l \in 1..Len(c.locals) : e.locals[l] = c.locals[l]
    /\ e.locals[Len(c.locals) + 1] = [name |-> x, depth |-> dd, captured |-> FALSE, decl |-> d]
    /\ e.f.code = c.f.code /\ e.f.born = c.f.born /\ e.f.gone = c.f.gone
    /\ e.f.upvalues = c.f.upvalues

\* What is gone was declared.
GoneBy(ch, ds, dc) == \A g \in Everyone(ch, ds) : \A m \in g.gone : m.decl \in 1..dc

\* The same functions, up to their locals and parameters.
Aligned(ch, es, n) ==
    /\ n \in Nat /\ ch \in Seq(Comp) /\ es \in Seq(Comp) /\ Len(ch) = n /\ Len(es) = n
    /\ DOMAIN ch = 1..n /\ DOMAIN es = 1..n
    /\ \A k \in 1..n : /\ es[k].f.upvalues = ch[k].f.upvalues /\ es[k].f.gone = ch[k].f.gone
                       /\ es[k].f.code = ch[k].f.code

\* One variable more is on the stack.
More(a) == [a EXCEPT !.all = @ + 1, !.seen = @ + 1, !.vars = @ + 1, !.height = @ + 1]

\* The end of the scope, or of the function, comes next in ew, at a: there is
\* a new local.
Bumps(ch, maps, es, naps, n, en, fn, ew, ec, a, x, dd, d) ==
    /\ Tops(ch, maps, es, naps, n) /\ Declares(ch[n], es[n], x, dd, d)
    /\ naps[n] = maps[n] \/ ew[1].k = "endFunction"
    /\ Listed(ch, en, maps, ew, ec) /\ ew \in Seq(Item) /\ ec \in Seq(Point)
    /\ ew[1].k \in {"endScope", "endFunction"}
    /\ a = ec[1] /\ Settled(a) /\ Sane(a) /\ a.level = n /\ a.all = Len(ch[n].locals)
    /\ a.depth = ch[n].scopeDepth /\ a.all + 1 <= Count
    /\ Len(es[n].f.params) <= a.all
    /\ es[n].f.params = ch[n].f.params \/ ew[1].k = "endFunction"
    /\ \A i \in 1..a.env - 1 : fn[i] = en[i]

\* What comes after that, tw and tc, begins at b.
Behind(ch, maps, es, naps, n, en, fn, ew, ec, a, b, tw, tc) ==
    /\ Tails(ch, ew, en, ec, maps, ew[1], a, ew[2], b, tw, tc)
    /\ Rested(es, fn, naps, tw, tc)
    /\ Sane(b) /\ b.level <= n /\ b.level \in Nat /\ a.env = b.env + 1 /\ b.env \in Nat /\ b.env >= 1
    /\ b.level = n => b.all <= a.all /\ ew[1].k = "endScope" /\ a.depth = b.depth + 1
    /\ b.all \in Nat /\ b.seen \in Nat /\ b.seen <= b.all /\ b.depth \in Nat
    /\ ew[1].k = "endFunction" => b.level + 1 = n

\* ew is left, and leads on from the point p.
Moved(es, fn, naps, ew, ec, q, p) ==
    /\ Rested(es, fn, naps, ew, q) /\ q[1] = p /\ Fine(es, p) /\ Settled(p)
    /\ \A k : Pending(ew, q, k) = Pending(ew, ec, k)

\* The same when what comes next leaves the point where it is.
BumpsFlat(ch, maps, es, naps, n, en, fn, rw, rc, a, x, dd, d, ew, ec) ==
    /\ Listed(ch, en, maps, rw, rc) /\ rw \in Seq(Item) /\ rc \in Seq(Point) /\ Len(rw) >= 2
    /\ Flat(rw[1], rw[2]) /\ ew = Tail(rw) /\ ec = Tail(rc)
    /\ Bumps(ch, maps, es, naps, n, en, fn, ew, ec, a, x, dd, d)

-----------------------------------------------------------------------------
(* Declarations of variables.                                              *)

\* An initializer begins at p0 and ends at p1, its definition leads to b.
Initializes(es, p0, p1, s, v, b) ==
    /\ Fine(es, p0) /\ Fine(es, p1) /\ p1 = Raise(p0, 1) /\ p0.vars = p0.seen
    /\ s \in Seq(Bytes) /\ Fits(Defines(s), p1, v, b)
    /\ p0.level = b.level /\ p0.env = b.env /\ p0.depth = b.depth /\ p0.all = b.all

\* r is left, with the initializer before rw.
Begun(es, fn, naps, rw, rq, r, q, p0) ==
    /\ Rested(es, fn, naps, r, q) /\ q[1] = p0
    /\ \A k : Pending(r, q, k) = Pending(rw, rq, k)

\* c has one more constant, it becomes e.
Constant(c, v, e) ==
    /\ e \in Comp /\ e.locals = c.locals /\ e.scopeDepth = c.scopeDepth
    /\ e.f.code = c.f.code /\ e.f.upvalues = c.f.upvalues /\ e.f.params = c.f.params
    /\ e.f.born = c.f.born /\ e.f.gone = c.f.gone /\ e.f.land = c.f.land
    /\ Len(e.f.constants) = Len(c.f.constants) + 1 /\ e.f.constants[Len(c.f.constants) + 1] = v
    /\ \A i \in DOMAIN c.f.constants : i \in DOMAIN e.f.constants /\ e.f.constants[i] = c.f.constants[i]
    /\ Len(c.f.constants) + 1 \in DOMAIN e.f.constants

\* The function that is compiled, where a declaration may come.
Declaring(ch, wk, ds, en, dc, ctx, maps, n, a, c, rw, rc) ==
    /\ Ready(ch, wk, ds, en, dc, ctx, maps) /\ wk[1].k \in {"declarations", "initializer"}
    /\ n = Len(ch) /\ c = ch[n] /\ a = ctx[1]
    /\ rw = RestWork(wk) /\ rc = RestCtx(wk, ctx)

Declarer(ch, wk, ds, en, dc, maps, n, a, c, rc) ==
    /\ n \in Nat /\ n >= 1 /\ n \in DOMAIN ch /\ c \in Comp /\ Limits(c) /\ Locals(c, dc)
    /\ Settled(a) /\ Sane(a) /\ a \in Point /\ a.level = n /\ a.depth = c.scopeDepth
    /\ a.all = Len(c.locals) /\ a.env = Len(en) /\ rc[1] = a /\ Fine(ch, a)
    /\ Here(c, maps[n], a, Stack(c, a)) /\ Named(ch, en, a)
    /\ Holes(wk[1]) = {} /\ ch \in Seq(Comp) /\ ds \in Seq(Function) /\ dc \in Nat

\* The last function, at a scope in it, has a new local.
Locally(ch, wk, ds, en, dc, ctx, maps, n, a, c, rw, rc, e, es, naps, fn, x, dd, d) ==
    /\ Declaring(ch, wk, ds, en, dc, ctx, maps, n, a, c, rw, rc)
    /\ Declares(c, e, x, dd, d) /\ e.f.params = c.f.params /\ Len(e.locals) <= Count
    /\ Changed(ch, maps, e, maps[n], es, naps)
    /\ \A i \in 1..a.env - 1 : fn[i] = en[i]

\* What parseVariable leaves when the scope is not that of the globals.
Room(c) == Limits(c) /\ c.locals[Len(c.locals)].depth # -1 /\ Len(c.locals) >= 1

\* The initializer of a local variable has no value for it: the point where it
\* begins, after a.
Waiting(a) == [a EXCEPT !.all = @ + 1]

Waits(a, z) ==
    /\ Sane(z) /\ Sane(Raise(z, 1))
    /\ z.level = a.level /\ z.depth = a.depth /\ z.env = a.env
    /\ z.all = a.all + 1 /\ z.seen = a.all
    /\ z.vars = a.all /\ z.height = a.all
    /\ Raise(z, 1) = [More(a) EXCEPT !.vars = @ - 1, !.seen = a.all]

-----------------------------------------------------------------------------
(* Variables that are born.                                                *)

\* The value on top of the stack of f, in the slot h, is the variable d now.
Births(dc, f, M, h, d, g, N) ==
    LET L == Len(f.code)
    IN  /\ f \in Function /\ g \in Function /\ g.code = f.code /\ g.constants = f.constants
        /\ g.upvalues = f.upvalues /\ g.params = f.params /\ g.gone = f.gone /\ g.land = f.land
        /\ g.born = f.born \cup {[decl |-> d, at |-> L]}
        /\ h \in Slot /\ d \in 1..MaxDecl /\ d <= dc
        /\ M[L].height = h /\ M[L].slot[h] = Global /\ h > 1 + Len(f.params)
        /\ N \in [0..L -> Frame] /\ N[L].height = h /\ N[L].slot[h] = d
        /\ \A i \in Slot : i # h => N[L].slot[i] = M[L].slot[i]
        /\ \A q \in 0..L - 1 : N[q] = M[q]
        /\ \A m \in f.born : m.decl # d
        /\ \A i \in DOMAIN f.params : f.params[i] # d

\* c with its last local in the scope that c is in.
Marked(c, e) ==
    LET L == Len(c.locals)
    IN  /\ e \in Comp /\ e.scopeDepth = c.scopeDepth /\ e.error = c.error /\ e.f = c.f
        /\ Len(e.locals) = L /\ DOMAIN e.locals = 1..L /\ L \in Nat /\ L >= 1
        /\ \A l \in 1..L - 1 : e.locals[l] = c.locals[l]
        /\ e.locals[L] = [name |-> c.locals[L].name, depth |-> c.scopeDepth,
                          captured |-> c.locals[L].captured, decl |-> c.locals[L].decl]

\* The last local of c is born at the end of the code of c, which becomes e.
Delivered(c, e) ==
    LET L == Len(c.locals)
    IN  /\ e \in Comp /\ e.scopeDepth = c.scopeDepth /\ e.error = c.error
        /\ Len(e.locals) = L /\ DOMAIN e.locals = 1..L /\ L \in Nat /\ L >= 1
        /\ \A l \in 1..L - 1 : e.locals[l] = c.locals[l]
        /\ e.locals[L] = [name |-> c.locals[L].name, depth |-> c.scopeDepth,
                          captured |-> c.locals[L].captured, decl |-> c.locals[L].decl]
        /\ e.f.code = c.f.code /\ e.f.constants = c.f.constants /\ e.f.upvalues = c.f.upvalues
        /\ e.f.params = c.f.params /\ e.f.gone = c.f.gone /\ e.f.land = c.f.land
        /\ e.f.born = c.f.born \cup {[decl |-> c.locals[L].decl, at |-> Len(c.f.code)]}

\* A declaration of c at the point a ends at b, tw and tc are what is left.
Defining(ch, wk, ds, en, dc, ctx, maps, n, a, b, c, tw, tc) ==
    /\ Types(ch, wk, ds, en, dc) /\ Good(ch, wk, ds, en, dc, ctx, maps) /\ wk[1].k = "define"
    /\ n = Len(ch) /\ c = ch[n] /\ a = ctx[1] /\ b = ctx[2]
    /\ tw = Tail(wk) /\ tc = Tail(ctx)

DefiningAt(ch, wk, ds, en, dc, ctx, maps, n, a, b, c, tw, tc) ==
    /\ n \in Nat /\ n >= 1 /\ n \in DOMAIN ch /\ c \in Comp /\ Limits(c) /\ Locals(c, dc)
    /\ ch \in Seq(Comp) /\ ds \in Seq(Function) /\ dc \in Nat /\ dc \in 0..MaxDecl
    /\ Sane(a) /\ Sane(b) /\ a \in Point /\ b \in Point /\ Fine(ch, a) /\ Fine(ch, b)
    /\ a.level = n /\ a.depth = c.scopeDepth /\ a.all = Len(c.locals) /\ a.env = Len(en)
    /\ Here(c, maps[n], a, Stack(c, a)) /\ Named(ch, en, a)
    /\ Sound(ds, c.f, maps[n], Pending(wk, ctx, n), Late(c, a), dc)
    /\ Listed(ch, en, maps, tw, tc) /\ tw \in Seq(Item) /\ tc \in Seq(Point)
    /\ Len(tc) = Len(tw) /\ Len(tw) >= 1 /\ tw[1].k # "parameters" /\ tc[1] = b
    /\ \A k : Pending(wk, ctx, k) = Pending(tw, tc, k)
    /\ Settled(b) /\ b.all = a.all
    /\ IF a.depth = 0
       THEN a = Raise(b, 1) /\ \E i \in Nat : wk[1].s = <<Op("DEFINE_GLOBAL"), Byte(i)>>
       ELSE a = [b EXCEPT !.vars = @ - 1, !.seen = a.seen] /\ wk[1].s = <<>>

\* The variable is born: c becomes e.
Delivers(ch, wk, ds, en, dc, ctx, maps, n, a, b, c, tw, tc, e, es, N, naps, fn, h, d) ==
    /\ Defining(ch, wk, ds, en, dc, ctx, maps, n, a, b, c, tw, tc) /\ a.depth # 0
    /\ Delivered(c, e) /\ es = [ch EXCEPT ![n] = e]
    /\ h = Len(c.locals) /\ d = c.locals[h].decl
    /\ N = [maps[n] EXCEPT ![Len(c.f.code)] = [height |-> h, slot |-> SlotsOf(c, h)]]
    /\ naps = Renewed(ch, maps, N)
    /\ fn = [en EXCEPT ![Len(en)] = [@ EXCEPT ![c.locals[h].name] = d]]

\* The points a and b, and the local that is born.
BornAt(c, a, b, h, d, dc) ==
    /\ a.vars + 1 = h /\ h \in Nat /\ h >= 2 /\ h \in Slot /\ a.seen \in {h - 1, h} /\ a.height = h
    /\ b.all = h /\ b.seen = h /\ b.vars = h /\ b.height = h
    /\ b.level = a.level /\ b.depth = a.depth /\ b.env = a.env /\ b.depth \in Nat
    /\ d \in 1..dc /\ d \in 1..MaxDecl /\ c.locals[h].name \in Name /\ c.locals[h].decl = d
    /\ \A m \in c.f.born : m.decl # d
    /\ Late(c, a) \in {Global, d}

\* The function around which locals of c change: their names do not.
BornNames(c, e, h) ==
    /\ h \in Nat /\ h >= 1 /\ Len(c.locals) = h /\ Len(e.locals) = h
    /\ \A l \in 1..h : e.locals[l].name = c.locals[l].name /\ e.locals[l].decl = c.locals[l].decl

\* A global variable has its value: c becomes e.
DefinesGlobal(ch, wk, ds, en, dc, ctx, maps, n, a, b, c, tw, tc, e, es) ==
    /\ Defining(ch, wk, ds, en, dc, ctx, maps, n, a, b, c, tw, tc) /\ a.depth = 0
    /\ e = Emit(c, wk[1].s) /\ es = [ch EXCEPT ![n] = e]

-----------------------------------------------------------------------------
(* Functions that begin.                                                   *)

\* A function without code, its parameters are on the stack.
Empty(f, M) ==
    /\ f \in Function /\ f.code = <<>> /\ f.born = {} /\ f.gone = {} /\ f.land = {}
    /\ M \in [0..0 -> Frame] /\ M[0].height = 1 + Len(f.params)
    /\ \A i \in Slot : M[0].slot[i] # Global =>
           i - 1 \in DOMAIN f.params /\ f.params[i - 1] = M[0].slot[i]
    /\ \A i, j \in DOMAIN f.params : f.params[i] = f.params[j] => i = j

\* The Compiler of a function that begins, and its frame.
Begins(g, M) ==
    /\ g \in Comp /\ g.scopeDepth = 1 /\ ~ g.error
    /\ g.locals = <<SlotZero>> /\ Len(g.locals) = 1
    /\ g.locals[1] = SlotZero /\ DOMAIN g.locals = {1}
    /\ g.f.code = <<>> /\ g.f.params = <<>> /\ g.f.upvalues = <<>>
    /\ g.f.born = {} /\ g.f.gone = {}
    /\ Empty(g.f, M) /\ M[0] = [height |-> 1, slot |-> [i \in Slot |-> Global]]

FirstFrame == [q \in 0..0 |-> [height |-> 1, slot |-> [i \in Slot |-> Global]]]

\* Where it begins, at the level n with e scopes open.
Beginning(n, e) ==
    [level |-> n, depth |-> 1, env |-> e, all |-> 1, seen |-> 1, vars |-> 1, height |-> 1]

\* The last function, n, waits at the point b for a function that is compiled
\* before it goes on with pw.
Suspended(es, ds, fn, d, naps, n, pw, pc, b) ==
    /\ Rested(es, fn, naps, pw, pc) /\ pw[1].k = "define" /\ b = pc[1] /\ Sane(b)
    /\ n = Len(es) /\ n \in Nat /\ n >= 1 /\ es \in Seq(Comp)
    /\ DOMAIN es = 1..n /\ DOMAIN naps = 1..n
    /\ b.level = n /\ b.env = Len(fn) /\ b.seen = b.all /\ b.all = Len(es[n].locals)
    /\ Here(es[n], naps[n], b, Stack(es[n], Raise(b, -1))) /\ Named(es, fn, b)
    /\ \A k \in 1..n : /\ Sound(ds, es[k].f, naps[k], Pending(pw, pc, k), Global, d)
                       /\ Locals(es[k], d) /\ Limits(es[k]) /\ Len(es[k].locals) >= 1
    /\ Tied(es, ds, d) /\ d \in 0..MaxDecl /\ ds \in Seq(Function)
    /\ fn \in Seq([Name -> 0..MaxDecl]) /\ Len(fn) \in Nat

\* The function g begins.
Opens(es, ds, fn, d, naps, n, pw, pc, b, g, hs, gn, laps) ==
    /\ Suspended(es, ds, fn, d, naps, n, pw, pc, b)
    /\ g = BeginScope(InitCompiler) /\ hs = Append(es, g) /\ gn = Append(fn, Last(fn))
    /\ laps = [k \in 1..n + 1 |-> IF k = n + 1 THEN FirstFrame ELSE naps[k]]

Opened(es, fn, naps, n, b, g, hs, gn, laps) ==
    /\ hs \in Seq(Comp) /\ Len(hs) = n + 1 /\ DOMAIN hs = 1..n + 1 /\ hs[n + 1] = g
    /\ DOMAIN laps = 1..n + 1 /\ laps[n + 1] = FirstFrame
    /\ \A k \in 1..n : hs[k] = es[k] /\ laps[k] = naps[k]
    /\ gn \in Seq([Name -> 0..MaxDecl]) /\ Len(gn) = b.env + 1 /\ gn[b.env + 1] = fn[b.env]
    /\ \A e \in 1..b.env : gn[e] = fn[e]
    /\ b.env \in Nat /\ b.env >= 1

\* The end of the function, the list of its declarations and the list of its
\* parameters are left to do.
Enders(hs, ds, gn, d, laps, n, pw, z, r, q) ==
    /\ Rested(hs, gn, laps, r, q) /\ q[1] = z /\ Fine(hs, z) /\ Settled(z)
    /\ r = <<Do("endFunction")>> \o pw /\ r[1] = Do("endFunction")

\* The state where the parameters of g come next.
Parametric(hs, gn, laps, pw, pc, z, r, q) ==
    /\ Listed(hs, gn, laps, r, q) /\ r \in Seq(Item) /\ q \in Seq(Point)
    /\ r = <<Do("parameters")>> \o (<<Do("declarations")>> \o (<<Do("endFunction")>> \o pw))
    /\ q[1] = z /\ r[1].k = "parameters" /\ r[3].k = "endFunction"
    /\ \A k : Pending(r, q, k) = Pending(pw, pc, k)

\* The function n has declared a function, and goes on at b with its
\* definition, before what is left at p.
Ahead(es, ds, fn, d, naps, n, rw, q, p, s, b) ==
    /\ Rested(es, fn, naps, rw, q) /\ p = q[1] /\ p.vars = p.seen
    /\ Fine(es, b) /\ s \in Seq(Bytes) /\ Fits(Defines(s), b, rw[1], p)
    /\ p.level = b.level /\ p.env = b.env /\ p.depth = b.depth /\ p.all = b.all
    /\ n = Len(es) /\ n \in Nat /\ n >= 1 /\ DOMAIN es = 1..n /\ DOMAIN naps = 1..n
    /\ b.level = n /\ b.env = Len(fn) /\ b.seen = b.all /\ b.all = Len(es[n].locals)
    /\ Here(es[n], naps[n], b, Stack(es[n], Raise(b, -1))) /\ Named(es, fn, b)
    /\ Coded(es, ds, d, naps, rw, q) /\ Tied(es, ds, d) /\ Types(es, rw, ds, fn, d)

-----------------------------------------------------------------------------
(* Functions that are declared.                                            *)

\* The name x refers to the declaration d in the scope opened last.
Rebinds(en, x, d, fn) == fn = [en EXCEPT ![Len(en)] = [@ EXCEPT ![x] = d]]

Rebound(en, x, d, fn) ==
    /\ fn \in Seq([Name -> 0..MaxDecl]) /\ Len(fn) = Len(en) /\ Len(en) \in Nat
    /\ \A i \in 1..Len(en) - 1 : fn[i] = en[i]
    /\ \A y \in Name : fn[Len(en)][y] = IF y = x THEN d ELSE en[Len(en)][y]

\* The point where a function that is a local variable waits for its closure.
Owed(a) == [More(a) EXCEPT !.vars = @ - 1]

Owes(a, p, b) ==
    /\ Sane(b) /\ b.level = a.level /\ b.depth = a.depth /\ b.env = a.env
    /\ b.all = a.all + 1 /\ b.seen = a.all + 1 /\ b.vars = a.all /\ b.height = a.all + 1
    /\ b = [p EXCEPT !.vars = @ - 1, !.seen = b.seen]
    /\ Raise(b, -1).height = a.all /\ Raise(b, -1).vars = a.all

\* A function is declared as a local variable.
FunLocal(ch, wk, ds, en, dc, ctx, maps, n, a, c, rw, rc, e, es, naps, fn, x, dd, d) ==
    /\ Locally(ch, wk, ds, en, dc, ctx, maps, n, a, c, rw, rc, e, es, naps, fn, x, dd, d)
    /\ dd = c.scopeDepth /\ d = dc + 1 /\ e.f = c.f /\ GoneBy(ch, ds, dc) /\ Limits(e)
    /\ Rebinds(en, x, d, fn)

\* A function is declared as a global variable.
FunGlobal(ch, wk, ds, en, dc, ctx, maps, n, a, c, rw, rc, e, es, s, b) ==
    /\ Declaring(ch, wk, ds, en, dc, ctx, maps, n, a, c, rw, rc) /\ c.scopeDepth = 0
    /\ e = MakeConstant(c, Global) /\ ~ e.error /\ es = [ch EXCEPT ![n] = e]
    /\ s = <<Op("DEFINE_GLOBAL"), Byte(ConstantIndex(c))>> /\ b = Raise(a, 1)

\* The function with one more constant is where it was.
GlobalHere(ch, ds, en, dc, maps, n, a, e, es, naps, rw, rc, b) ==
    /\ Coder(ch[n], maps[n], e, maps[n])
    /\ Tops(ch, maps, es, naps, n) /\ es[n] = e /\ naps[n] = maps[n] /\ Limits(e)
    /\ Here(es[n], naps[n], b, Stack(es[n], a)) /\ Named(es, en, b) /\ Raise(b, -1) = a
    /\ Coded(es, ds, dc, naps, rw, rc) /\ Tied(es, ds, dc)

-----------------------------------------------------------------------------
(* Parameters.                                                             *)

\* The function c, in which a parameter may come, has the parameter x: it
\* becomes e, and its frame N.
Param(ch, wk, ds, en, dc, ctx, maps, n, a, c, e, es, N, naps, fn, x, d) ==
    /\ Types(ch, wk, ds, en, dc) /\ Good(ch, wk, ds, en, dc, ctx, maps) /\ wk[1].k = "parameters"
    /\ n = Len(ch) /\ c = ch[n] /\ a = ctx[1] /\ d = dc + 1
    /\ Declares(c, e, x, c.scopeDepth, d) /\ Limits(e) /\ Len(e.locals) <= Count
    /\ e.f.land = c.f.land
    /\ Len(e.f.params) = Len(c.f.params) + 1 /\ e.f.params[Len(c.f.params) + 1] = d
    /\ \A i \in DOMAIN c.f.params : e.f.params[i] = c.f.params[i]
    /\ GoneBy(ch, ds, dc) /\ Rebinds(en, x, d, fn)
    /\ es = [ch EXCEPT ![n] = e]
    /\ N = [q \in 0..0 |-> Stack(e, More(a))] /\ naps = Renewed(ch, maps, N)

\* What is known of the function that has a parameter more.
Params(ch, wk, ds, en, dc, ctx, maps, n, a, c, e, h, m) ==
    /\ n \in Nat /\ n >= 1 /\ n \in DOMAIN ch /\ c \in Comp /\ e \in Comp /\ ds \in Seq(Function) /\ dc \in Nat
    /\ Settled(a) /\ Sane(a) /\ a.level = n /\ a.depth = c.scopeDepth /\ a.env = Len(en)
    /\ a.all = h /\ h = Len(c.locals) /\ h \in Nat /\ h >= 1 /\ Locals(c, dc) /\ Limits(c)
    /\ c.f \in Function /\ e.f \in Function
    /\ c.f.code = <<>> /\ c.f.born = {} /\ c.f.gone = {} /\ c.f.land = {}
    /\ m = Len(c.f.params) /\ m \in Nat /\ h = m + 1 /\ DOMAIN c.f.params = 1..m
    /\ \A i, j \in 1..m : c.f.params[i] = c.f.params[j] => i = j
    /\ Named(ch, en, a) /\ Listed(ch, en, maps, wk, ctx) /\ wk[3].k = "endFunction"
    /\ Pending(wk, ctx, n) = {} /\ Tied(ch, ds, dc) /\ Coded(ch, ds, dc, maps, wk, ctx)

\* What is left to do, with a local more.
ParamLeft(es, fn, naps, wk, ctx, v, t, ew, ec, q, p) ==
    /\ t = <<v>> \o ew /\ v \in Item /\ Flat(v, ew[1])
    /\ Moved(es, fn, naps, ew, ec, q, p)
    /\ \A k : Pending(ew, ec, k) = Pending(wk, ctx, k)

ParamTops(ch, maps, es, naps, n, e, a, en, fn) ==
    Tops(ch, maps, es, naps, n) /\ es[n] = e /\ \A i \in 1..a.env - 1 : fn[i] = en[i]

-----------------------------------------------------------------------------
(* Functions that end.                                                     *)

\* The function g is done, it becomes f; its closure s is made in the function
\* around, c, which has one more constant then, d, and becomes e.
Finish(ch, wk, ds, en, dc, ctx, maps, n, g, c, a, b, tw, tc, f, d, s, e, hd, es, fn) ==
    /\ Types(ch, wk, ds, en, dc) /\ Good(ch, wk, ds, en, dc, ctx, maps) /\ wk[1].k = "endFunction"
    /\ n = Len(ch) - 1 /\ g = ch[n + 1] /\ c = ch[n] /\ a = ctx[1] /\ b = ctx[2]
    /\ tw = Tail(wk) /\ tc = Tail(ctx)
    /\ f = EndCompiler(g) /\ d = MakeConstant(c, Len(ds) + 1) /\ ~ d.error
    /\ s = <<Op("CLOSURE"), Byte(ConstantIndex(c))>> \o Captured(f.upvalues)
    /\ e = Emit(d, s) /\ hd = Append(ds, f) /\ es = Append(SubSeq(ch, 1, n - 1), e)
    /\ fn = Front(en)

Around2(ch, wk, ds, en, dc, ctx, maps, n, g, c, a, b, tw, tc) ==
    /\ n \in Nat /\ n >= 1 /\ Len(ch) = n + 1 /\ ch \in Seq(Comp) /\ DOMAIN ch = 1..n + 1
    /\ DOMAIN maps = 1..n + 1
    /\ g \in Comp /\ c \in Comp /\ Limits(g) /\ Limits(c) /\ Locals(c, dc) /\ Len(c.locals) >= 1
    /\ ds \in Seq(Function) /\ dc \in Nat
    /\ Settled(a) /\ Sane(a) /\ a.level = n + 1 /\ a.env = b.env + 1 /\ a.env = Len(en)
    /\ Sane(b) /\ b.level = n /\ Fine(ch, b) /\ b.seen = b.all /\ b.all = Len(c.locals)
    /\ b.height - 1 = b.vars
    /\ Here(c, maps[n], b, Stack(c, Raise(b, -1))) /\ Named(ch, en, b)
    /\ tw \in Seq(Item) /\ tc \in Seq(Point) /\ Len(tc) = Len(tw) /\ Len(tw) >= 1
    /\ tw[1].k = "define" /\ tc[1] = b /\ Listed(ch, en, maps, tw, tc)
    /\ Pending(wk, ctx, n + 1) = {} /\ \A k : Pending(wk, ctx, k) = Pending(tw, tc, k)
    /\ en \in Seq([Name -> 0..MaxDecl])

\* The compiler is at the end of the function g, c is the one around it.
Leaving(ch, wk, ds, en, dc, ctx, maps, n, g, c, a, b, tw, tc) ==
    /\ Types(ch, wk, ds, en, dc) /\ Good(ch, wk, ds, en, dc, ctx, maps) /\ wk[1].k = "endFunction"
    /\ n = Len(ch) - 1 /\ g = ch[n + 1] /\ c = ch[n] /\ a = ctx[1] /\ b = ctx[2]
    /\ tw = Tail(wk) /\ tc = Tail(ctx)

\* More functions are done.
Wider(ds, hd) == DOMAIN ds \subseteq DOMAIN hd /\ \A i \in DOMAIN ds : hd[i] = ds[i]

\* Behind RETURN nothing comes.
Sealed(ds, dc, d, M, e, N, h, sl, v, k, sm, u) ==
    /\ Wrote(ds, dc, d, M, {}, h, sl, v) /\ Wrote(ds, dc, e, N, {}, k, sm, u)
    /\ Coder(d, M, e, N) /\ e = Emit(d, <<Op("RETURN")>>) /\ ds \in Seq(Function)

\* What endCompiler returns.
Compiled(ds, dc, g, f, hd, F) ==
    /\ Whole(hd, f, F, dc) /\ Follows(g.f, f) /\ f.upvalues = g.f.upvalues /\ f \in Function
    /\ hd \in Seq(Function)

\* The instruction that makes a closure, with its operands.
Encloses(us, n, s) ==
    /\ One(s) /\ Len(us) \in Nat /\ Len(s) = 2 + 2 * Len(us) /\ s[1].op = "CLOSURE" /\ s[2].n = n
    /\ \A i \in 1..Len(us) : /\ s[2 * i + 1].n = IF us[i].isLocal THEN 1 ELSE 0
                             /\ s[2 * i + 2].n = us[i].index

\* The function c, at the frame before b, makes the closure of f: with one more
\* constant it is d, with the instruction e, and N are its frames.
Encloser(ds, dc, c, M, P, b, f, hd, d, s, e, N) ==
    /\ ds \in Seq(Function) /\ f \in Function /\ hd = Append(ds, f) /\ dc \in Nat
    /\ c \in Comp /\ Sane(b) /\ b.all = Len(c.locals) /\ b.seen = b.all /\ b.height - 1 = b.vars
    /\ b.vars > Len(c.f.params)
    /\ Sound(ds, c.f, M, P, Global, dc) /\ M[Len(c.f.code)] = Stack(c, Raise(b, -1))
    /\ \A i \in DOMAIN f.upvalues : Joins(c, f.upvalues[i])
    /\ d = MakeConstant(c, Len(ds) + 1) /\ ~ d.error
    /\ s = <<Op("CLOSURE"), Byte(ConstantIndex(c))>> \o Captured(f.upvalues)
    /\ e = Emit(d, s) /\ N = Longer(M, Len(e.f.code), [height |-> b.height, slot |-> SlotsOf(c, b.vars)])

\* The code of e, behind L bytes of that of c.
Closer(ds, c, f, hd, d, s, e, L, n) ==
    /\ L = Len(c.f.code) /\ L \in Nat /\ n = Len(f.upvalues) /\ n \in Nat
    /\ hd \in Seq(Function) /\ Wider(ds, hd) /\ hd[Len(ds) + 1] = f /\ Len(ds) + 1 \in DOMAIN hd
    /\ d \in Comp /\ e \in Comp /\ Constant(c, Len(ds) + 1, d)
    /\ Encloses(f.upvalues, Len(c.f.constants), s) /\ s \in Seq(Bytes)
    /\ e.f = Emitted(d.f, s) /\ Appends(d.f, s, e.f)
    /\ e.locals = c.locals /\ e.scopeDepth = c.scopeDepth /\ d.f.code = c.f.code
    /\ Operation(e.f, L) = "CLOSURE" /\ Operand(e.f, L, 1) = Len(c.f.constants)
    /\ e.f.constants[Len(c.f.constants) + 1] = Len(ds) + 1
    /\ Len(c.f.constants) + 1 \in DOMAIN e.f.constants
    /\ \A i \in 1..n : /\ Operand(e.f, L, 2 * i) = IF f.upvalues[i].isLocal THEN 1 ELSE 0
                       /\ Operand(e.f, L, 2 * i + 1) = f.upvalues[i].index
    /\ Width(hd, e.f, L) = 2 + 2 * n /\ Len(s) = 2 + 2 * n /\ Len(e.f.code) = L + 2 + 2 * n
    /\ e.f.upvalues = c.f.upvalues /\ e.f.params = c.f.params /\ e.f.born = c.f.born
    /\ e.f.gone = c.f.gone /\ e.error = d.error

\* The frames of c go on to those of e.
Enclosing(ds, dc, c, M, P, b, hd, e, N) ==
    /\ Sound(hd, e.f, N, P, Late(c, b), dc) /\ N[Len(e.f.code)] = Stack(e, b)
    /\ Coder(c, M, e, N) /\ hd \in Seq(Function) /\ Wider(ds, hd) /\ e.f.upvalues = c.f.upvalues

\* The functions and scopes that are left.
Less(ch, en, b, n, e, N, es, fn, maps, naps) ==
    /\ es \in Seq(Comp) /\ Len(es) = n /\ DOMAIN es = 1..n /\ es[n] = e
    /\ naps = [k \in 1..n |-> IF k = n THEN N ELSE maps[k]] /\ naps[n] = N
    /\ \A k \in 1..n - 1 : es[k] = ch[k] /\ naps[k] = maps[k]
    /\ fn \in Seq([Name -> 0..MaxDecl]) /\ Len(fn) = b.env
    /\ \A i \in 1..b.env : fn[i] = en[i]
    /\ b.env \in Nat /\ b.env >= 1

\* The chain without its last function, whose closure the one before has made.
Drops(ch, en, n, e, es, fn) == es = Append(SubSeq(ch, 1, n - 1), e) /\ fn = Front(en)

\* All that is known once the closure is made.
Done(ch, wk, ds, en, dc, ctx, maps, n, g, c, a, b, tw, tc, f, d, s, e, hd, es, fn, F, N, naps) ==
    /\ Finish(ch, wk, ds, en, dc, ctx, maps, n, g, c, a, b, tw, tc, f, d, s, e, hd, es, fn)
    /\ Around2(ch, wk, ds, en, dc, ctx, maps, n, g, c, a, b, tw, tc)
    /\ Compiled(ds, dc, g, f, hd, F)
    /\ Enclosing(ds, dc, c, maps[n], Pending(wk, ctx, n), b, hd, e, N)
    /\ Less(ch, en, b, n, e, N, es, fn, maps, naps)

\* Each function is one there was, with more code.
Traces(ch, ds, es, fs) ==
    /\ \A q \in Everyone(es, fs) : \E p \in Everyone(ch, ds) : Follows(p, q) /\ q.upvalues = p.upvalues
    /\ \A p \in Everyone(ch, ds) : \E q \in Everyone(es, fs) : q.upvalues = p.upvalues

-----------------------------------------------------------------------------
(* The end of the source.                                                  *)

\* The script g is done, it becomes f.
Over(ch, wk, ds, en, dc, ctx, maps, g, f, hd) ==
    /\ Types(ch, wk, ds, en, dc) /\ Good(ch, wk, ds, en, dc, ctx, maps) /\ wk[1].k = "endScript"
    /\ g = ch[Len(ch)] /\ f = EndCompiler(g) /\ hd = Append(ds, f)

OverIs(ch, wk, ds, dc, ctx, maps, a, g) ==
    /\ Len(ch) = 1 /\ DOMAIN ch = {1} /\ g = ch[1] /\ g \in Comp /\ ch \in Seq(Comp)
    /\ ds \in Seq(Function) /\ dc \in Nat /\ a = ctx[1] /\ Settled(a)
    /\ Pending(wk, ctx, 1) = {} /\ Tied(ch, ds, dc)

-----------------------------------------------------------------------------
(* Names.                                                                  *)

\* The function c has become e: it may have more constants and more upvalues,
\* and other locals may be captured.
Resembles(c, e) ==
    /\ e \in Comp /\ Limits(e) /\ e.scopeDepth = c.scopeDepth
    /\ e.f.code = c.f.code /\ e.f.params = c.f.params /\ e.f.born = c.f.born
    /\ e.f.gone = c.f.gone /\ e.f.land = c.f.land
    /\ \A i \in DOMAIN c.f.constants : i \in DOMAIN e.f.constants /\ e.f.constants[i] = c.f.constants[i]
    /\ \A i \in DOMAIN c.f.upvalues : i \in DOMAIN e.f.upvalues /\ e.f.upvalues[i] = c.f.upvalues[i]
    /\ Len(e.locals) = Len(c.locals) /\ DOMAIN e.locals = DOMAIN c.locals
    /\ \A l \in DOMAIN c.locals : /\ e.locals[l].name = c.locals[l].name
                                  /\ e.locals[l].decl = c.locals[l].decl
                                  /\ e.locals[l].depth = c.locals[l].depth

Resolved(ch, hs, n) ==
    /\ hs \in Seq(Comp) /\ Len(hs) = n /\ DOMAIN hs = 1..n /\ n = Len(ch)
    /\ \A k \in 1..n : Resembles(ch[k], hs[k])

\* l is the last local of c that is named x.
Lasts(c, x, l) == l \in Slots(c, x) /\ \A j \in Slots(c, x) : j <= l

\* The declaration d that x refers to, in the function ch[n] at the point a.
Refer(ch, en, dc, n, a, x, d) ==
    /\ ch \in Seq(Comp) /\ n = Len(ch) /\ n \in Nat /\ n >= 1 /\ DOMAIN ch = 1..n
    /\ \A k \in 1..n : ch[k] \in Comp /\ Locals(ch[k], dc) /\ Len(ch[k].locals) >= 1
    /\ x \in Name /\ Sane(a) /\ a.vars = a.seen /\ a.level = n /\ a.env = Len(en)
    /\ a.all = Len(ch[n].locals)
    /\ a.seen = a.all <=> ch[n].locals[Len(ch[n].locals)].depth # -1
    /\ Binds(ch, n, a.seen, x, en[a.env][x])
    /\ LET last == ch[n].locals[Len(ch[n].locals)]
       IN  d = IF last.depth = -1 /\ last.name = x THEN Itself ELSE en[a.env][x]

\* A local variable is found in the function.
FoundHere(c, dc, a, x, d, l) ==
    /\ Lasts(c, x, l)
    /\ d = Itself \/ (l <= a.vars /\ l \in Slot /\ c.locals[l].decl = d /\ d \in 1..dc)

\* A local variable is found in the function o, and in none further in.
FoundAround(ch, dc, n, x, d, o, l) ==
    /\ o \in 1..n - 1 /\ Slots(ch[o], x) # {} /\ \A j \in o + 1..n : Slots(ch[j], x) = {}
    /\ Lasts(ch[o], x, l) /\ l \in 2..Len(ch[o].locals)
    /\ ch[o].locals[l].decl = d /\ d \in 1..dc

-----------------------------------------------------------------------------
(* Upvalues.                                                               *)

\* addUpvalue makes e of c, for a variable d that the function around knows as
\* i; j is what it returns.
Added(c, i, loc, d, e, j) ==
    /\ e \in Comp /\ Limits(e) /\ j \in Nat
    /\ e.locals = c.locals /\ e.scopeDepth = c.scopeDepth
    /\ e.f.code = c.f.code /\ e.f.params = c.f.params /\ e.f.born = c.f.born
    /\ e.f.gone = c.f.gone /\ e.f.land = c.f.land /\ e.f.constants = c.f.constants
    /\ \A u \in DOMAIN c.f.upvalues : u \in DOMAIN e.f.upvalues /\ e.f.upvalues[u] = c.f.upvalues[u]
    /\ \A u \in DOMAIN e.f.upvalues : u \in DOMAIN c.f.upvalues \/
           e.f.upvalues[u] = [index |-> i, isLocal |-> loc, decl |-> d]
    /\ ~ e.error =>
           /\ j + 1 \in DOMAIN e.f.upvalues
           /\ e.f.upvalues[j + 1].index = i /\ e.f.upvalues[j + 1].isLocal = loc

\* The variable d, the local l of function o, is handed on to function n: idx
\* are the numbers it has on the way, hs the functions then.
Hands(ch, n, o, l, d, idx, hs) ==
    /\ idx[0] = l - 1 /\ hs = [k \in 1..n |-> hs[k]]
    /\ \A i \in 1..n - o : idx[i] = UpvalueIndex(ch[o + i], idx[i - 1], i = 1)
    /\ \A k \in 1..n : hs[k] =
           IF k < o THEN ch[k]
           ELSE IF k = o THEN [ch[k] EXCEPT !.locals[l].captured = TRUE]
           ELSE AddUpvalue(ch[k], idx[k - o - 1], k = o + 1, d)

\* What is known of them.
Handed(ch, n, o, l, d, idx, hs) ==
    /\ hs \in Seq(Comp) /\ Len(hs) = n /\ DOMAIN hs = 1..n /\ o \in 1..n - 1 /\ idx[0] = l - 1
    /\ \A i \in 0..n - o : idx[i] \in Nat
    /\ \A k \in 1..o - 1 : hs[k] = ch[k]
    /\ hs[o] = [ch[o] EXCEPT !.locals[l].captured = TRUE] /\ hs[o] \in Comp
    /\ \A k \in o + 1..n : Added(ch[k], idx[k - o - 1], k = o + 1, d, hs[k], idx[k - o])

\* The functions that are open.
Chained(ch, n) ==
    /\ ch \in Seq(Comp) /\ n = Len(ch) /\ n \in Nat /\ n >= 1 /\ DOMAIN ch = 1..n
    /\ \A k \in 1..n : ch[k] \in Comp /\ Limits(ch[k])

\* A local is captured.
Catches(c, l, e) == e = [c EXCEPT !.locals[l].captured = TRUE]

\* The function c has become e, it knows the variable d as its upvalue j and
\* takes it from q, the function around.
Gets(c, loc, d, e, j, q) ==
    /\ j + 1 \in DOMAIN e.f.upvalues /\ e.f.upvalues[j + 1].decl = d
    /\ e.f.upvalues[j + 1].isLocal = loc
    /\ \A u \in DOMAIN e.f.upvalues :
           /\ Joins(q, e.f.upvalues[u])
           /\ \/ u \in DOMAIN c.f.upvalues /\ e.f.upvalues[u] = c.f.upvalues[u]
              \/ e.f.upvalues[u].decl = d /\ e.f.upvalues[u].isLocal = loc

Linkable(c, p) == \A u \in DOMAIN c.f.upvalues : Joins(p, c.f.upvalues[u])

\* Nothing went wrong.
Fault(hs) == \E k \in DOMAIN hs : hs[k].error

\* The local l of function o, the variable d, is captured by the functions in
\* it now.
Spread(ch, hs, n, o, l, d) ==
    /\ n \in Nat /\ n >= 2 /\ o \in 1..n /\ o + 1 \in 1..n
    /\ Len(ch) = n /\ DOMAIN ch = 1..n /\ Len(hs) = n /\ DOMAIN hs = 1..n
    /\ l \in 2..Len(ch[o].locals) /\ ch[o].locals[l].decl = d
    /\ hs[o].locals[l].captured
    /\ \A k \in 1..n : Resembles(ch[k], hs[k])
    /\ \A k \in 1..n : \A m \in 2..Len(ch[k].locals) :
           k # o \/ m # l => hs[k].locals[m].captured = ch[k].locals[m].captured
    /\ hs[1].f.upvalues = ch[1].f.upvalues
    /\ \A k \in 2..n : Linkable(hs[k], hs[k - 1])
    /\ \A k \in 1..n : \A u \in DOMAIN hs[k].f.upvalues :
           \/ u \in DOMAIN ch[k].f.upvalues /\ hs[k].f.upvalues[u] = ch[k].f.upvalues[u]
           \/ hs[k].f.upvalues[u].decl = d
    /\ Captures(hs[o + 1].f, d)

\* What namedVariable knows of the name for the variable d when it is resolved:
\* hs are the functions now, a is the point.
Resolution(ch, n, a, d, r, hs, ds, dc) ==
    /\ Resolved(ch, hs, n) /\ hs = r.chain /\ r.arg \in Nat /\ d \in 0..Itself
    /\ ~ Fault(hs) => Tied(hs, ds, dc)
    /\ \/ /\ r.get = "GET_LOCAL" /\ r.set = "SET_LOCAL"
          /\ \/ d = Itself
             \/ /\ r.arg + 1 \in 1..a.vars /\ r.arg + 1 \in Slot /\ d # Global
                /\ hs[n].locals[r.arg + 1].decl = d
       \/ /\ r.get = "GET_UPVALUE" /\ r.set = "SET_UPVALUE" /\ d # Global
          /\ ~ Fault(hs) =>
                r.arg + 1 \in DOMAIN hs[n].f.upvalues /\ hs[n].f.upvalues[r.arg + 1].decl = d
       \/ r.get = "GET_GLOBAL" /\ r.set = "SET_GLOBAL" /\ d = Global

-----------------------------------------------------------------------------
(* The actions of the compiler.                                            *)

\* Without an error, what is left can be compiled.
Fares(ch, wk, ds, en, dc) ==
    Types(ch, wk, ds, en, dc) /\ (~ Fault(ch) => Valid(ch, wk, ds, en, dc))

\* A function is compiled, at the points ctx with the frames maps.
Running(ctx, maps) ==
    Working /\ Types(chain, work, done, envs, decls)
            /\ Good(chain, work, done, envs, decls, ctx, maps)

\* The compiler c became e, which has more code.
Appended(c, e) ==
    /\ c \in Comp /\ e \in Comp /\ e.locals = c.locals /\ e.scopeDepth = c.scopeDepth
    /\ e.f.upvalues = c.f.upvalues /\ Len(c.f.code) <= Len(e.f.code)

\* The item w patches the jump with its operand at o.
Patches(w, o) ==
    \/ w.k \in {"patch", "exit", "else"} /\ o = w.at[1]
    \/ w.k = "forIncrement" /\ o = w.at[2]

Uses(hs, n, d, r, s, e, es) ==
    s = <<Ref(r.get, d), Byte(r.arg)>> /\ e = Emit(hs[n], s) /\ es = [hs EXCEPT ![n] = e]

\* A function is declared.
FunParts(s) == <<Do("parameters"), Do("declarations"), Do("endFunction"), Defines(s)>>

\* What the declaration of a function becomes once it is declared.
FunBegins(es, fn, s, rw) ==
    /\ chain' = Append(es, BeginScope(InitCompiler)) /\ envs' = Append(fn, Last(fn))
    /\ work' = FunParts(s) \o rw /\ done' = done

\* The function m with the parameter d more.
Extended(m, e, d) ==
    /\ e \in Comp /\ e.locals = m.locals /\ e.scopeDepth = m.scopeDepth /\ e.error = m.error
    /\ e.f.code = m.f.code /\ e.f.born = m.f.born /\ e.f.gone = m.f.gone /\ e.f.land = m.f.land
    /\ e.f.upvalues = m.f.upvalues
    /\ Len(e.f.params) = Len(m.f.params) + 1 /\ e.f.params[Len(m.f.params) + 1] = d
    /\ \A i \in DOMAIN m.f.params : e.f.params[i] = m.f.params[i]

\* Each function that is done is whole.
AllWhole(ds, dc) == \A i \in DOMAIN ds : \E M : Whole(ds, ds[i], M, dc)

\* The source ends.
Concluded(ch, wk, ds) == ch = <<>> /\ wk = <<>> /\ \A i \in DOMAIN ds : Closed(<<>>, ds, ds[i])

\* Of the actions only two add to the functions that are done.
Others ==
    \/ Simple \/ Continue
    \/ \E x \in Name : Use(x) \/ Assign(x) \/ VarDeclaration(x) \/ FunDeclaration(x)
                           \/ Parameter(x)
    \/ Block \/ ForStatement \/ EndList \/ DefineVariable \/ EndBlock

-----------------------------------------------------------------------------
(* The begin of a program.                                                 *)

\* The script, and the point at which it begins.
Outset == [level |-> 1, depth |-> 0, env |-> 1, all |-> 1, seen |-> 1, vars |-> 1, height |-> 1]

Script(c) ==
    /\ c \in Comp /\ c.scopeDepth = 0 /\ ~ c.error /\ Limits(c) /\ Locals(c, 0)
    /\ DOMAIN c.locals = {1} /\ Len(c.locals) = 1 /\ c.locals[1] = SlotZero
    /\ c.f.code = <<>> /\ c.f.params = <<>> /\ c.f.upvalues = <<>>
    /\ c.f.born = {} /\ c.f.gone = {} /\ Empty(c.f, FirstFrame)

\* What a program begins with.
Starting(c, ch, wk, en, ctx, maps) ==
    /\ Script(c) /\ ch = <<c>> /\ wk = <<Do("declarations"), Do("endScript")>>
    /\ en = <<[x \in Name |-> Global]>> /\ ctx = <<Outset, Outset>> /\ maps = <<FirstFrame>>

-----------------------------------------------------------------------------
(* The inductive invariant.                                                *)

\* While the program is compiled and no error was met, what is left fits the
\* code that is there; functions that are done are whole.
IInv ==
    /\ Types(chain, work, done, envs, decls)
    /\ ~ Fault(chain) =>
           /\ AllWhole(done, decls)
           /\ Concluded(chain, work, done) \/ Valid(chain, work, done, envs, decls)

-----------------------------------------------------------------------------
(* What the VM does with such a function: each position it reaches begins  *)
(* an instruction, the stack there is as high as the frame says, and the   *)
(* positions reached are closed under its steps.                           *)

Entry(f) == [at |-> 0, height |-> 1 + Len(f.params)]

Visit(M, a) == [at |-> a, height |-> M[a].height]

Visits(f, M) == { Visit(M, a) : a \in Starts(f) }

\* The function f of the program, with frames M, can be run.
Runnable(f, M) ==
    /\ f \in Function /\ done \in Seq(Function) /\ LoopsFit(f)
    /\ \E dc : Whole(done, f, M, dc)

\* The sets of places that paths of at most i steps reach, as Reached has them.
Paths(f, W) ==
    /\ W[0] = {Entry(f)}
    /\ \A i \in 1..Len(f.code) : W[i] = W[i - 1] \cup UNION { Step(f, p) : p \in W[i - 1] }

\* At a place that is reached, a variable that a slot holds is a parameter or
\* was born at a place of R.
Known(f, M, R, a) ==
    \A i \in Slot : M[a].slot[i] # Global =>
        \/ \E j \in DOMAIN f.params : f.params[j] = M[a].slot[i]
        \/ \E m \in f.born : m.decl = M[a].slot[i] /\ m.at \in Starts(f) /\ Visit(M, m.at) \in R
=============================================================================
