--------------------------- MODULE CompilerFrames ---------------------------
(***************************************************************************)
(* Proofs about CompilerInvariant: what one more instruction, a patched    *)
(* jump and a loop do to the frames of the code, and what each production  *)
(* that only emits code and leaves work does to the points of the work,    *)
(* for every program, every number of names, locals, functions and         *)
(* declarations, and every width of a jump.                                *)
(***************************************************************************)
EXTENDS CompilerInvariant, SequenceTheorems, WellFoundedInduction, TLAPS

-----------------------------------------------------------------------------
(* Numbers. *)

\* A set of numbers has a least one.
LEMMA Least ==
    ASSUME NEW T, T \subseteq Nat, T # {}
    PROVE  \E x \in T : \A y \in T : x <= y
<1> DEFINE R == { p \in Nat \X Nat : p[1] < p[2] }
<1>1. IsWellFoundedOn(R, Nat)
  BY NatLessThanWellFounded, Zenon DEF OpToRel
<1>2. PICK x \in T : \A y \in T : ~ (<<y, x>> \in R)
  BY <1>1, WFMin, Zenon
<1>3. \A y \in T : ~ (y < x)
  BY <1>2
<1> QED
  BY <1>3

\* A set that holds 0, and with a number the next, holds all.
LEMMA Induction ==
    ASSUME NEW S, 0 \in S, \A n \in Nat : n \in S => n + 1 \in S
    PROVE  \A n \in Nat : n \in S
<1> SUFFICES ASSUME NEW n \in Nat, n \notin S  PROVE FALSE
  OBVIOUS
<1> DEFINE T == Nat \ S
<1>1. PICK x \in T : \A y \in T : x <= y
  <2>1. n \in T /\ T \subseteq Nat
    OBVIOUS
  <2> QED
    BY <2>1, Least, Zenon
<1>2. x # 0 /\ x - 1 \in Nat /\ ~ (x <= x - 1) /\ (x - 1) + 1 = x
  BY <1>1
<1>3. x - 1 \in S
  BY <1>1, <1>2
<1> QED
  BY <1>1, <1>2, <1>3

\* f is defined by its value b at 0 and by what step makes of each value.
Iterates(n, b, step, f) ==
    f = [i \in 0..n |-> IF i = 0 THEN b ELSE step[<<i, f[i - 1]>>]]

\* There is such a function.
LEMMA Recursion ==
    ASSUME NEW X, NEW b \in X, NEW step \in [Nat \X X -> X], NEW n \in Nat
    PROVE  \E f \in [0..n -> X] : Iterates(n, b, step, f)
<1> DEFINE Recurs(m, f) == f[0] = b /\ \A i \in 1..m : f[i] = step[<<i, f[i - 1]>>]
           S == { m \in Nat : \E f \in [0..m -> X] : Recurs(m, f) }
<1>1. 0 \in S
  <2>1. [i \in 0..0 |-> b] \in [0..0 -> X] /\ Recurs(0, [i \in 0..0 |-> b])
    OBVIOUS
  <2> QED
    BY <2>1
<1>2. ASSUME NEW m \in Nat, m \in S  PROVE m + 1 \in S
  <2>1. PICK f \in [0..m -> X] : Recurs(m, f)
    BY <1>2
  <2> DEFINE g == [i \in 0..(m + 1) |-> IF i <= m THEN f[i] ELSE step[<<m + 1, f[m]>>]]
  <2>2. step[<<m + 1, f[m]>>] \in X
    BY <2>1
  <2>3. g \in [0..(m + 1) -> X]
    BY <2>1, <2>2
  <2>4. g[0] = b
    BY <2>1
  <2>5. ASSUME NEW i \in 1..(m + 1)  PROVE g[i] = step[<<i, g[i - 1]>>]
    <3>1. CASE i <= m
      BY <2>1, <3>1
    <3>2. CASE i = m + 1
      BY <2>1, <3>2
    <3> QED
      BY <3>1, <3>2
  <2>6. Recurs(m + 1, g)
    BY <2>4, <2>5
  <2> HIDE DEF g, Recurs
  <2>7. \E x \in [0..(m + 1) -> X] : Recurs(m + 1, x)
    BY <2>3, <2>6
  <2> QED
    BY <2>7
<1> HIDE DEF S
<1>3. n \in S
  BY <1>1, <1>2, Induction
<1>4. PICK f \in [0..n -> X] : Recurs(n, f)
  BY <1>3 DEF S
<1>5. f = [i \in 0..n |-> IF i = 0 THEN b ELSE step[<<i, f[i - 1]>>]]
  <2> DEFINE g == [i \in 0..n |-> IF i = 0 THEN b ELSE step[<<i, f[i - 1]>>]]
  <2>1. \A i \in 0..n : f[i] = g[i]
    BY <1>4
  <2>2. f = [i \in 0..n |-> f[i]]
    OBVIOUS
  <2> QED
    BY <2>1, <2>2
<1> QED
  BY <1>5 DEF Iterates

\* Dividing h by n leaves a remainder.
LEMMA Division ==
    ASSUME NEW n \in Nat \ {0}, NEW h \in Nat
    PROVE  \E q \in Nat : \E r \in 0..(n - 1) : h = n * q + r
<1> DEFINE S == { m \in Nat : \E q \in Nat : \E r \in 0..(n - 1) : m = n * q + r }
<1>1. 0 \in S
  <2>1. 0 = n * 0 + 0 /\ 0 \in 0..(n - 1)
    OBVIOUS
  <2> QED
    BY <2>1
<1>2. ASSUME NEW m \in Nat, m \in S  PROVE m + 1 \in S
  <2>1. PICK q \in Nat, r \in 0..(n - 1) : m = n * q + r
    BY <1>2
  <2>2. CASE r + 1 < n
    <3>1. r + 1 \in 0..(n - 1) /\ m + 1 = n * q + (r + 1)
      BY <2>1, <2>2
    <3> QED
      BY <3>1
  <2>3. CASE r + 1 = n
    <3>1. n * (q + 1) = n * q + n
      OBVIOUS
    <3>2. n * q \in Nat
      OBVIOUS
    <3>3. q + 1 \in Nat /\ 0 \in 0..(n - 1) /\ m + 1 = n * (q + 1) + 0
      BY <2>1, <2>3, <3>1, <3>2
    <3>4. \E p \in Nat : \E s \in 0..(n - 1) : m + 1 = n * p + s
      BY <3>3, Zenon
    <3> QED
      BY <3>4
  <2> QED
    BY <2>1, <2>2, <2>3
<1> HIDE DEF S
<1>3. h \in S
  BY <1>1, <1>2, Induction
<1> QED
  BY <1>3 DEF S

\* The remainder of a sum.
LEMMA Remainder ==
    ASSUME NEW n \in Nat \ {0}, NEW q \in Nat, NEW r \in 0..(n - 1)
    PROVE  (n * q + r) % n = r
  OBVIOUS

-----------------------------------------------------------------------------
(* Longer code. *)

LEMMA SeqIs ==
    ASSUME NEW S, NEW s \in Seq(S)
    PROVE  Len(s) \in Nat /\ DOMAIN s = 1..Len(s) /\ \A i \in 1..Len(s) : s[i] \in S
  OBVIOUS

\* Bytes are where the types say.
LEMMA CodeBytes ==
    ASSUME NEW f \in Function
    PROVE  /\ Len(f.code) \in Nat /\ DOMAIN f.code = 1..Len(f.code)
           /\ \A i \in 1..Len(f.code) : f.code[i] \in Bytes
           /\ Len(f.params) \in Nat /\ DOMAIN f.params = 1..Len(f.params)
           /\ \A i \in DOMAIN f.params : f.params[i] \in 1..MaxDecl
           /\ Len(f.upvalues) \in Nat /\ DOMAIN f.upvalues = 1..Len(f.upvalues)
           /\ \A i \in DOMAIN f.upvalues : f.upvalues[i] \in Upvalue
           /\ Len(f.constants) \in Nat /\ DOMAIN f.constants = 1..Len(f.constants)
           /\ \A i \in DOMAIN f.constants : f.constants[i] \in Nat
           /\ f.born \subseteq Mark /\ f.gone \subseteq Mark
           /\ f.land \subseteq [from : Nat, to : Nat]
<1> f.code \in Seq(Bytes) /\ f.constants \in Seq(Nat) /\ f.upvalues \in Seq(Upvalue)
    /\ f.params \in Seq(1..MaxDecl)
  BY DEF Function
<1>1. Len(f.code) \in Nat /\ DOMAIN f.code = 1..Len(f.code)
      /\ \A i \in 1..Len(f.code) : f.code[i] \in Bytes
  BY SeqIs
<1>2. Len(f.params) \in Nat /\ DOMAIN f.params = 1..Len(f.params)
      /\ \A i \in DOMAIN f.params : f.params[i] \in 1..MaxDecl
  BY SeqIs
<1>3. Len(f.upvalues) \in Nat /\ DOMAIN f.upvalues = 1..Len(f.upvalues)
      /\ \A i \in DOMAIN f.upvalues : f.upvalues[i] \in Upvalue
  BY SeqIs
<1>4. Len(f.constants) \in Nat /\ DOMAIN f.constants = 1..Len(f.constants)
      /\ \A i \in DOMAIN f.constants : f.constants[i] \in Nat
  BY SeqIs
<1>5. f.born \subseteq Mark /\ f.gone \subseteq Mark /\ f.land \subseteq [from : Nat, to : Nat]
  BY DEF Function
<1> QED
  BY <1>1, <1>2, <1>3, <1>4, <1>5

\* A position where an instruction begins, and the byte there.
LEMMA StartIs ==
    ASSUME NEW f \in Function, NEW p \in Starts(f)
    PROVE  /\ p \in 0..Len(f.code) - 1 /\ p \in Nat /\ p + 1 \in 1..Len(f.code)
           /\ Instruction(f, p) = f.code[p + 1] /\ Operation(f, p) = f.code[p + 1].op
           /\ Operation(f, p) # "operand" /\ Operation(f, p) \in Instructions
           /\ Instruction(f, p) \in Bytes
<1>1. p \in 0..Len(f.code) - 1 /\ p \in Nat /\ p + 1 \in 1..Len(f.code)
  BY CodeBytes DEF Starts
<1>2. f.code[p + 1] \in Bytes /\ f.code[p + 1].op # "operand"
  BY <1>1, CodeBytes DEF Starts
<1> QED
  BY <1>1, <1>2 DEF Instruction, Operation, Bytes

\* What an instruction does depends on its operation and on few operands.
LEMMA WidthIs ==
    ASSUME NEW ds, NEW f \in Function, NEW p \in Starts(f)
    PROVE  /\ Operation(f, p) \in Leaps => Width(ds, f, p) = 3
           /\ Operation(f, p) \in {"GET_LOCAL", "SET_LOCAL", "GET_UPVALUE", "SET_UPVALUE", "GET_GLOBAL",
                                   "SET_GLOBAL", "DEFINE_GLOBAL", "CALL"} => Width(ds, f, p) = 2
           /\ Operation(f, p) = "CLOSURE" =>
                  Width(ds, f, p) = 2 + 2 * Len(ds[f.constants[Operand(f, p, 1) + 1]].upvalues)
           /\ Operation(f, p) \in {"LITERAL", "UNARY", "BINARY", "POP", "PRINT", "RETURN",
                                   "CLOSE_UPVALUE"} => Width(ds, f, p) = 1
  BY DEF Width, Leaps

\* An open jump, and the bytes of an instruction that is not a jump.
LEMMA OwnBytes ==
    ASSUME NEW ds, NEW f \in Function, NEW M, NEW P, Typed(ds, f, M, P),
           NEW p \in Starts(f), NEW o \in P, p # o, NEW i \in Nat, i >= 1, i < Width(ds, f, p),
           Width(ds, f, p) \in Nat
    PROVE  p + 1 + i \notin {o + 2, o + 3}
<1>1. o \in Starts(f) /\ Operation(f, o) \in Leaps /\ p \in Nat /\ o \in Nat
  BY StartIs DEF Typed, Jumps, Leaps
<1>2. Width(ds, f, o) = 3
  BY <1>1, WidthIs
<1>3. /\ \A j \in 1..Width(ds, f, p) - 1 : f.code[p + 1 + j].op = "operand"
      /\ \A j \in 1..2 : f.code[o + 1 + j].op = "operand"
  <2>1. \A j \in 1..Width(ds, f, p) - 1 : f.code[p + 1 + j].op = "operand"
    BY DEF Typed, Runs
  <2>2. \A j \in 1..3 - 1 : f.code[o + 1 + j].op = "operand"
    BY <1>1, <1>2 DEF Typed, Runs
  <2> QED
    BY <2>1, <2>2
<1>4. f.code[o + 1].op # "operand" /\ f.code[p + 1].op # "operand"
  BY <1>1 DEF Starts
<1> SUFFICES ASSUME p + 1 + i \in {o + 2, o + 3}  PROVE FALSE
  OBVIOUS
<1>5. CASE p < o
  <2>1. o - p \in 1..Width(ds, f, p) - 1 /\ p + 1 + (o - p) = o + 1
    BY <1>1, <1>5
  <2> QED
    BY <2>1, <1>3, <1>4
<1>6. CASE o < p
  <2>1. p - o \in 1..2 /\ o + 1 + (p - o) = p + 1
    BY <1>1, <1>6
  <2> QED
    BY <2>1, <1>3, <1>4
<1> QED
  BY <1>1, <1>5, <1>6

\* The instructions of f are instructions of g.
LEMMA SameCode ==
    ASSUME NEW ds \in Seq(Function), NEW es, NEW f \in Function, NEW g \in Function, NEW M, NEW P,
           NEW H, H \subseteq P, Typed(ds, f, M, P), Extends(ds, es, f, g, H),
           NEW p \in Starts(f)
    PROVE  Alike(ds, es, f, g, H, p)
<1>1. /\ p \in Nat /\ p + 1 \in 1..Len(f.code) /\ Operation(f, p) \in Instructions
      /\ f.code[p + 1].op # "operand" /\ Len(f.code) \in Nat /\ Len(g.code) \in Nat
  BY StartIs, CodeBytes DEF Starts
<1>2. g.code[p + 1] = f.code[p + 1]
  BY <1>1 DEF Extends
<1>3. p \in Starts(g) /\ Instruction(g, p) = Instruction(f, p) /\ Operation(g, p) = Operation(f, p)
  BY <1>1, <1>2 DEF Extends, Starts, Instruction, Operation
<1>4. Runs(ds, f, M, P, p)
  BY DEF Typed
<1>5. Operation(f, p) = "CLOSURE" =>
         /\ Operand(f, p, 1) + 1 \in DOMAIN f.constants
         /\ f.constants[Operand(f, p, 1) + 1] \in DOMAIN ds
         /\ Len(ds[f.constants[Operand(f, p, 1) + 1]].upvalues) \in Nat
  <2> SUFFICES ASSUME Operation(f, p) = "CLOSURE"
               PROVE  /\ Operand(f, p, 1) + 1 \in DOMAIN f.constants
                      /\ f.constants[Operand(f, p, 1) + 1] \in DOMAIN ds
                      /\ Len(ds[f.constants[Operand(f, p, 1) + 1]].upvalues) \in Nat
    OBVIOUS
  <2>1. /\ Operand(f, p, 1) + 1 \in DOMAIN f.constants
        /\ f.constants[Operand(f, p, 1) + 1] \in DOMAIN ds
    BY <1>4 DEF Runs
  <2>2. ds[f.constants[Operand(f, p, 1) + 1]] \in Function
    BY <2>1
  <2> QED
    BY <2>1, <2>2, CodeBytes
<1>6. Width(ds, f, p) \in Nat /\ Width(ds, f, p) >= 1
  <2>1. CASE Operation(f, p) = "CLOSURE"
    <3>1. Width(ds, f, p) = 2 + 2 * Len(ds[f.constants[Operand(f, p, 1) + 1]].upvalues)
      BY <2>1, WidthIs
    <3> QED
      BY <3>1, <2>1, <1>5
  <2>2. CASE Operation(f, p) # "CLOSURE"
    <3>1. Width(ds, f, p) \in {1, 2, 3}
      BY <2>2 DEF Width
    <3> QED
      BY <3>1
  <2> QED
    BY <2>1, <2>2
<1>7. p + Width(ds, f, p) <= Len(f.code)
  BY <1>1, <1>4, <1>6 DEF Runs, Spots, Starts
<1>8. ASSUME p \notin H, NEW i \in 1..Width(ds, f, p) - 1
      PROVE  Operand(g, p, i) = Operand(f, p, i)
  <2>1. p + 1 + i \in 1..Len(f.code) /\ i \in Nat /\ i >= 1 /\ i < Width(ds, f, p)
    BY <1>1, <1>6, <1>7
  <2>2. \A o \in H : p + 1 + i \notin {o + 2, o + 3}
    BY <1>6, <1>8, <2>1, OwnBytes
  <2>3. g.code[p + 1 + i] = f.code[p + 1 + i]
    BY <2>1, <2>2 DEF Extends
  <2> QED
    BY <2>3 DEF Operand
<1>9. p \in H => Operation(f, p) \in Jumps
  BY DEF Typed
<1>10. Operation(f, p) \in {"CALL", "CLOSURE"} => Operand(g, p, 1) = Operand(f, p, 1)
  BY <1>5, <1>6, <1>8, <1>9, WidthIs DEF Jumps
<1>11. Takes(g, p) = Takes(f, p) /\ Puts(g, p) = Puts(f, p)
  BY <1>3, <1>10 DEF Takes, Puts
<1>12. Operation(f, p) = "CLOSURE" =>
         /\ g.constants[Operand(g, p, 1) + 1] = f.constants[Operand(f, p, 1) + 1]
         /\ es[g.constants[Operand(g, p, 1) + 1]] = ds[f.constants[Operand(f, p, 1) + 1]]
  BY <1>5, <1>10 DEF Extends
<1>13. Width(es, g, p) = Width(ds, f, p)
  BY <1>1, <1>3, <1>12 DEF Width
<1> QED
  BY <1>3, <1>5, <1>6, <1>7, <1>8, <1>11, <1>12, <1>13 DEF Alike

\* What holds of f holds of a longer g, if it holds of what is new.
LEMMA FlowStays ==
    ASSUME NEW f, NEW g, NEW M, NEW N, NEW s, NEW q, Flow(f, M, s, q),
           Spots(f) \subseteq Spots(g), \A r \in Spots(f) : N[r] = M[r], f.born \subseteq g.born
    PROVE  Flow(g, N, s, q)
  BY DEF Flow

LEMMA RunsStay ==
    ASSUME NEW ds \in Seq(Function), NEW es, NEW f \in Function, NEW g \in Function, NEW M, NEW N,
           NEW P, NEW Q, NEW H, H \subseteq P, Typed(ds, f, M, P), Extends(ds, es, f, g, H),
           \A q \in Spots(f) : N[q] = M[q], f.born \subseteq g.born, f.land \subseteq g.land,
           P \ H \subseteq Q,
           \A o \in H : \E m \in g.land : m.from = o /\ Flow(g, N, After(f, M, o), m.to),
           NEW p \in Starts(f)
    PROVE  Runs(es, g, N, Q, p)
<1>1. /\ p \in Starts(g) /\ Operation(g, p) = Operation(f, p)
      /\ Width(ds, f, p) \in Nat /\ p + Width(ds, f, p) <= Len(f.code)
      /\ Width(es, g, p) = Width(ds, f, p)
      /\ Takes(g, p) = Takes(f, p) /\ Puts(g, p) = Puts(f, p)
      /\ Operation(f, p) = "CLOSURE" =>
                 /\ Operand(f, p, 1) + 1 \in DOMAIN f.constants
                 /\ f.constants[Operand(f, p, 1) + 1] \in DOMAIN ds
                 /\ Len(ds[f.constants[Operand(f, p, 1) + 1]].upvalues) \in Nat
                 /\ g.constants[Operand(g, p, 1) + 1] = f.constants[Operand(f, p, 1) + 1]
                 /\ es[g.constants[Operand(g, p, 1) + 1]] = ds[f.constants[Operand(f, p, 1) + 1]]
  <2>1. Alike(ds, es, f, g, H, p)
    BY SameCode
  <2> QED
    BY <2>1 DEF Alike
<1>2. Runs(ds, f, M, P, p) /\ p \in Spots(f) /\ p \in Nat /\ N[p] = M[p]
  BY StartIs DEF Typed, Spots
<1>3. Spots(f) \subseteq Spots(g)
  <2>1. \A q \in Starts(f) : q \in Starts(g)
    BY SameCode DEF Alike
  <2> QED
    BY <2>1 DEF Extends, Spots
<1>4. After(g, N, p) = After(f, M, p)
  BY <1>1, <1>2 DEF After
<1>5. \A i \in 1..Width(ds, f, p) - 1 : g.code[p + 1 + i].op = "operand"
  <2> SUFFICES ASSUME NEW i \in 1..Width(ds, f, p) - 1  PROVE g.code[p + 1 + i].op = "operand"
    OBVIOUS
  <2>1. f.code[p + 1 + i].op = "operand"
    BY <1>2 DEF Runs
  <2>2. p + 1 + i \in 1..Len(f.code)
    BY <1>1, <1>2, CodeBytes
  <2> QED
    BY <2>1, <2>2 DEF Extends
<1>6. Operation(f, p) \notin {"RETURN", "JUMP", "LOOP"} =>
           Flow(g, N, After(f, M, p), p + Width(ds, f, p))
  BY <1>2, <1>3, FlowStays DEF Runs
<1>7. Operation(f, p) \in Leaps =>
           p \in Q \/ \E m \in g.land : m.from = p /\ Flow(g, N, After(f, M, p), m.to)
  <2>1. CASE \E m \in f.land : m.from = p /\ Flow(f, M, After(f, M, p), m.to)
    BY <2>1, <1>3, FlowStays
  <2>2. CASE p \in P
    BY <2>2
  <2> QED
    BY <2>1, <2>2, <1>2 DEF Runs
<1>8. Operation(f, p) = "CLOSURE" =>
           /\ Operand(g, p, 1) + 1 \in DOMAIN g.constants
           /\ g.constants[Operand(g, p, 1) + 1] \in DOMAIN es
  <2>1. Operation(f, p) = "CLOSURE" => Operand(g, p, 1) = Operand(f, p, 1)
    <3> SUFFICES ASSUME Operation(f, p) = "CLOSURE"  PROVE Operand(g, p, 1) = Operand(f, p, 1)
      OBVIOUS
    <3>1. 1 \in 1..Width(ds, f, p) - 1
      <4>1. Width(ds, f, p) = 2 + 2 * Len(ds[f.constants[Operand(f, p, 1) + 1]].upvalues)
        BY WidthIs
      <4> QED
        BY <4>1, <1>1
    <3>2. p \notin H
      BY DEF Typed, Jumps
    <3>3. Alike(ds, es, f, g, H, p)
      BY SameCode
    <3> QED
      BY <3>1, <3>2, <3>3 DEF Alike
  <2> QED
    BY <2>1, <1>1 DEF Extends
<1>9. N[p].height > Len(g.params) + Takes(g, p)
  BY <1>1, <1>2 DEF Runs, Extends
<1>10. p + Width(es, g, p) \in Spots(g)
  BY <1>1, <1>2, <1>3 DEF Runs
<1> QED
  BY <1>1, <1>4, <1>5, <1>6, <1>7, <1>8, <1>9, <1>10 DEF Runs

LEMMA LandsStay ==
    ASSUME NEW ds \in Seq(Function), NEW es, NEW f \in Function, NEW g \in Function, NEW M,
           NEW P, NEW Q, NEW H, H \subseteq P, Typed(ds, f, M, P), Extends(ds, es, f, g, H),
           Q \subseteq (P \ H) \cup (Starts(g) \ Starts(f)), NEW m \in f.land
    PROVE  Lands(g, Q, m)
<1>1. Lands(f, P, m)
  BY DEF Typed
<1>2. m.from \in Starts(f) /\ m.from \notin Q /\ m.from \notin H /\ Operation(f, m.from) \in Leaps
  BY <1>1 DEF Lands
<1>0. Alike(ds, es, f, g, H, m.from)
  BY <1>2, SameCode
<1>3. m.from \in Starts(g) /\ Operation(g, m.from) = Operation(f, m.from)
  BY <1>0 DEF Alike
<1>4. Target(g, m.from) = Target(f, m.from)
  <2>1. Width(ds, f, m.from) = 3
    BY <1>2, WidthIs
  <2>2. \A i \in 1..3 - 1 : Operand(g, m.from, i) = Operand(f, m.from, i)
    BY <1>0, <1>2, <2>1 DEF Alike
  <2>3. Operand(g, m.from, 1) = Operand(f, m.from, 1) /\ Operand(g, m.from, 2) = Operand(f, m.from, 2)
    BY <2>2
  <2> QED
    BY <2>3, <1>3 DEF Target, Jump
<1> QED
  BY <1>1, <1>2, <1>3, <1>4 DEF Lands

LEMMA MeantStays ==
    ASSUME NEW ds \in Seq(Function), NEW es, NEW f \in Function, NEW g \in Function, NEW M, NEW N,
           NEW P, NEW H, H \subseteq P, Typed(ds, f, M, P), Extends(ds, es, f, g, H),
           \A q \in Spots(f) : N[q] = M[q], NEW late, NEW p \in Starts(f),
           MeantAt(ds, f, M, Global, p)
    PROVE  MeantAt(es, g, N, late, p)
<1> DEFINE us == ds[f.constants[Operand(f, p, 1) + 1]].upvalues
<1>1. /\ p \in Starts(g) /\ Instruction(g, p) = Instruction(f, p)
      /\ Operation(g, p) = Operation(f, p)
      /\ Width(es, g, p) = Width(ds, f, p)
      /\ p \notin H => \A i \in 1..Width(ds, f, p) - 1 : Operand(g, p, i) = Operand(f, p, i)
      /\ Operation(f, p) = "CLOSURE" =>
                 /\ Len(us) \in Nat
                 /\ es[g.constants[Operand(g, p, 1) + 1]] = ds[f.constants[Operand(f, p, 1) + 1]]
  <2>1. Alike(ds, es, f, g, H, p)
    BY SameCode
  <2> QED
    BY <2>1 DEF Alike
<1>2. N[p] = M[p] /\ p + Width(ds, f, p) \in Spots(f)
      /\ N[p + Width(ds, f, p)] = M[p + Width(ds, f, p)]
  BY DEF Typed, Spots, Runs
<1>3. p \in H => Operation(f, p) \in Jumps
  BY DEF Typed
<1>4. Operation(f, p) \in {"GET_LOCAL", "SET_LOCAL", "GET_UPVALUE", "SET_UPVALUE"} =>
          Operand(g, p, 1) = Operand(f, p, 1)
  BY <1>1, <1>3, WidthIs DEF Jumps
<1>5. ASSUME Operation(f, p) = "CLOSURE", NEW i \in DOMAIN us
      PROVE  Operand(g, p, 2 * i) = Operand(f, p, 2 * i) /\ Operand(g, p, 2 * i + 1) = Operand(f, p, 2 * i + 1)
  <2>1. Width(ds, f, p) = 2 + 2 * Len(us)
    BY <1>5, WidthIs
  <2>2. i \in 1..Len(us)
    <3>1. Runs(ds, f, M, P, p)
      BY DEF Typed
    <3>2. ds[f.constants[Operand(f, p, 1) + 1]] \in Function
      BY <3>1, <1>5 DEF Runs
    <3> QED
      BY <3>2, CodeBytes
  <2>3. 2 * i \in 1..Width(ds, f, p) - 1 /\ 2 * i + 1 \in 1..Width(ds, f, p) - 1
    <3> HIDE DEF us
    <3> QED
      BY <1>1, <1>5, <2>1, <2>2
  <2> QED
    BY <2>3, <1>1, <1>3, <1>5 DEF Jumps
<1> QED
  <2>1. Operation(f, p) \in {"GET_LOCAL", "SET_LOCAL"} =>
            \/ Instruction(g, p).decl = Itself
            \/ /\ Operand(g, p, 1) + 1 \in Slot
               /\ N[p].slot[Operand(g, p, 1) + 1] = Instruction(g, p).decl
               /\ Instruction(g, p).decl # Global
    BY <1>1, <1>2, <1>4 DEF MeantAt
  <2>2. Operation(f, p) \in {"GET_UPVALUE", "SET_UPVALUE"} =>
              /\ Operand(g, p, 1) + 1 \in DOMAIN g.upvalues
              /\ g.upvalues[Operand(g, p, 1) + 1].decl = Instruction(g, p).decl
              /\ Instruction(g, p).decl # Global
    BY <1>1, <1>4 DEF MeantAt, Extends
  <2>3. Operation(f, p) \in {"GET_GLOBAL", "SET_GLOBAL"} => Instruction(g, p).decl = Global
    BY <1>1 DEF MeantAt
  <2>4. ASSUME Operation(f, p) = "CLOSURE", NEW i \in DOMAIN us
        PROVE  /\ Operand(g, p, 2 * i) = IF us[i].isLocal THEN 1 ELSE 0
               /\ us[i].isLocal =>
                     /\ Operand(g, p, 2 * i + 1) + 1 \in Slot /\ us[i].decl # Global
                     /\ N[p + Width(ds, f, p)].slot[Operand(g, p, 2 * i + 1) + 1] = us[i].decl
               /\ ~ us[i].isLocal =>
                     /\ Operand(g, p, 2 * i + 1) + 1 \in DOMAIN g.upvalues
                     /\ g.upvalues[Operand(g, p, 2 * i + 1) + 1].decl = us[i].decl
    <3>1. Operand(g, p, 2 * i) = Operand(f, p, 2 * i) /\ Operand(g, p, 2 * i + 1) = Operand(f, p, 2 * i + 1)
      BY <2>4, <1>5
    <3>2. /\ Operand(f, p, 2 * i) = IF us[i].isLocal THEN 1 ELSE 0
          /\ us[i].isLocal =>
                     /\ Operand(f, p, 2 * i + 1) + 1 \in Slot /\ us[i].decl # Global
                     /\ M[p + Width(ds, f, p)].slot[Operand(f, p, 2 * i + 1) + 1] = us[i].decl
          /\ ~ us[i].isLocal =>
                     /\ Operand(f, p, 2 * i + 1) + 1 \in DOMAIN f.upvalues
                     /\ f.upvalues[Operand(f, p, 2 * i + 1) + 1].decl = us[i].decl
      BY <2>4 DEF MeantAt
    <3> QED
      BY <3>1, <3>2, <1>2 DEF Extends
  <2> HIDE DEF us
  <2>5. Operation(f, p) = "CLOSURE" => es[g.constants[Operand(g, p, 1) + 1]].upvalues = us
    BY <1>1 DEF us
  <2> QED
    BY <2>1, <2>2, <2>3, <2>4, <2>5, <1>1 DEF MeantAt

LEMMA VarsStay ==
    ASSUME NEW f, NEW g, NEW M, NEW N, NEW dc \in Nat, NEW ec \in Nat, dc <= ec, f \in Function,
           Vars(f, M, dc), Spots(f) \subseteq Spots(g), \A q \in Spots(f) : N[q] = M[q],
           g.born = f.born, g.params = f.params,
           \A q \in Spots(g) \ Spots(f) : Sources(f, M, N[q])
    PROVE  Vars(g, N, ec)
<1>1. \A m \in f.born : m.at \in Spots(f) /\ N[m.at] = M[m.at] /\ m.decl \in Nat /\ m.decl <= dc
  <2>1. \A m \in f.born : m.decl \in 1..MaxDecl
    BY CodeBytes DEF Mark
  <2> QED
    BY <2>1, CompilerConstants DEF Vars
<1>2. \A i, d : Origin(f, M, i, d) => Origin(g, N, i, d)
  BY <1>1 DEF Origin
<1>3. ASSUME NEW p \in Spots(g), NEW i \in Slot, N[p].slot[i] # Global
      PROVE  i <= N[p].height /\ Origin(g, N, i, N[p].slot[i])
  <2>1. CASE p \in Spots(f)
    BY <2>1, <1>2, <1>3 DEF Vars
  <2>2. CASE p \notin Spots(f)
    BY <2>2, <1>2, <1>3 DEF Sources
  <2> QED
    BY <2>1, <2>2
<1>4. \A m \in g.born : /\ m.at \in Spots(g) /\ m.decl <= ec
                        /\ N[m.at].height \in Slot /\ N[m.at].slot[N[m.at].height] = m.decl
  BY <1>1 DEF Vars
<1>5. \A m, n \in g.born : m.decl = n.decl => m = n
  BY DEF Vars
<1>6. \A m \in g.born : \A i \in DOMAIN g.params : g.params[i] # m.decl
  BY DEF Vars
<1>7. \A i, j \in DOMAIN g.params : g.params[i] = g.params[j] => i = j
  BY DEF Vars
<1>8. \A m \in g.born : N[m.at].height > 1 + Len(g.params)
  BY <1>1 DEF Vars
<1> QED
  BY <1>3, <1>4, <1>5, <1>6, <1>7, <1>8 DEF Vars

LEMMA Extension ==
    ASSUME NEW ds \in Seq(Function), NEW es, NEW f \in Function, NEW g \in Function, NEW M, NEW N,
           NEW P, NEW Q, NEW H, NEW dc \in Nat, NEW ec \in Nat, dc <= ec, NEW late,
           Sound(ds, f, M, P, Global, dc), Grows(ds, es, f, g, M, N, P, Q, H, late, ec)
    PROVE  Sound(es, g, N, Q, late, ec)
<1> USE DEF Grows
<1>0. Typed(ds, f, M, P) /\ Vars(f, M, dc) /\ Dead(f, M, dc) /\ Meant(ds, f, M, Global)
  BY DEF Sound
<1>1. \A p \in Starts(f) : p \in Starts(g) /\ Operation(g, p) = Operation(f, p)
  <2>1. \A p \in Starts(f) : Alike(ds, es, f, g, H, p)
    BY <1>0, SameCode
  <2> QED
    BY <2>1 DEF Alike
<1>2. Spots(f) \subseteq Spots(g)
  BY <1>1 DEF Extends, Spots
<1>3. Typed(es, g, N, Q)
  <2>1. 0 \in Spots(g) /\ N[0].height = 1 + Len(g.params)
    BY <1>0, <1>2 DEF Typed, Extends
  <2>2. \A p \in Starts(f) : Runs(es, g, N, Q, p)
    <3>1. f.born \subseteq g.born
      OBVIOUS
    <3> QED
      BY <1>0, <3>1, RunsStay
  <2>3. \A m \in f.land : Lands(g, Q, m)
    BY <1>0, LandsStay
  <2>4. Q \subseteq { p \in Starts(g) : Operation(g, p) \in Jumps }
    <3>1. \A p \in P : p \in Starts(f) /\ Operation(f, p) \in Jumps
      BY <1>0 DEF Typed
    <3> QED
      BY <3>1, <1>1
  <2> QED
    BY <2>1, <2>2, <2>3, <2>4 DEF Typed
<1>4. Vars(g, N, ec)
  BY <1>0, <1>2, VarsStay DEF Extends
<1>5. Dead(g, N, ec)
  <2>1. ASSUME NEW m \in f.gone  PROVE Died(g, N, ec, m)
    <3>1. /\ m.decl \in 1..dc
          /\ m.at \in Starts(f) /\ M[m.at].height \in Slot
          /\ M[m.at].slot[M[m.at].height] = m.decl
      BY <1>0 DEF Dead
    <3>2. N[m.at] = M[m.at]
      BY <3>1 DEF Spots
    <3> QED
      BY <3>1, <3>2, <1>1 DEF Died
  <2>2. \A m \in g.gone : Died(g, N, ec, m)
    BY <2>1
  <2> QED
    BY <2>2 DEF Dead, Died
<1>6. Meant(es, g, N, late)
  <2>1. \A p \in Starts(f) : MeantAt(es, g, N, late, p)
    BY <1>0, MeantStays DEF Meant
  <2> QED
    BY <2>1 DEF Meant
<1> QED
  BY <1>3, <1>4, <1>5, <1>6 DEF Sound

\* Tables of a function, and the functions that are done, may grow.
LEMMA Tables ==
    ASSUME NEW ds \in Seq(Function), NEW es, NEW f \in Function, NEW g \in Function, NEW M, NEW P,
           NEW dc \in Nat, NEW ec \in Nat, dc <= ec, NEW late,
           Sound(ds, f, M, P, Global, dc),
           DOMAIN ds \subseteq DOMAIN es, \A i \in DOMAIN ds : es[i] = ds[i],
           g.code = f.code, g.params = f.params, g.born = f.born, g.gone = f.gone, g.land = f.land,
           \A i \in DOMAIN f.constants : i \in DOMAIN g.constants /\ g.constants[i] = f.constants[i],
           \A i \in DOMAIN f.upvalues : i \in DOMAIN g.upvalues /\ g.upvalues[i] = f.upvalues[i]
    PROVE  Sound(es, g, M, P, late, ec)
<1>1. Starts(g) = Starts(f) /\ Spots(g) = Spots(f)
  BY DEF Starts, Spots
<1>2. Extends(ds, es, f, g, {})
  BY <1>1, CodeBytes DEF Extends, Spots
<1>3. M \in [0..Len(g.code) -> Frame]
  BY DEF Sound, Typed
<1>4. Starts(g) \ Starts(f) = {} /\ Spots(g) \ Spots(f) = {} /\ P \ P = {} /\ P \ {} = P
      /\ g.land \ f.land = {} /\ g.gone \ f.gone = {} /\ {} \subseteq P
      /\ P \subseteq (P \ {}) \cup (Starts(g) \ Starts(f))
      /\ f.land \subseteq g.land /\ f.gone \subseteq g.gone
  BY <1>1
<1>5. Grows(ds, es, f, g, M, M, P, P, {}, late, ec)
  BY <1>2, <1>3, <1>4 DEF Grows
<1> QED
  BY <1>5, Extension

-----------------------------------------------------------------------------
(* One more instruction. *)

LEMMA LongerIs ==
    ASSUME NEW M, NEW l \in Nat, NEW n \in Nat, l < n, M \in [0..l -> Frame], NEW F \in Frame,
           NEW N, N = Longer(M, n, F)
    PROVE  Prolongs(M, l, n, F, N)
<1>1. n \in 0..n /\ \A q \in 0..l : q \in 0..n /\ q # n
  OBVIOUS
<1>2. \A q \in 0..n : (IF q = n THEN F ELSE IF q \in DOMAIN M THEN M[q] ELSE F) \in Frame
  OBVIOUS
<1> QED
  BY <1>1, <1>2 DEF Longer, Prolongs

LEMMA Joined ==
    ASSUME NEW S, NEW s \in Seq(S), NEW t \in Seq(S)
    PROVE  /\ s \o t \in Seq(S) /\ Len(s \o t) = Len(s) + Len(t)
           /\ \A i \in 1..Len(s) : (s \o t)[i] = s[i]
           /\ \A i \in 1..Len(t) : (s \o t)[Len(s) + i] = t[i]
  OBVIOUS

LEMMA EmittedCode ==
    ASSUME NEW f \in Function, NEW s \in Seq(Bytes), NEW ds
    PROVE  /\ Emitted(f, s) \in Function
           /\ Emitted(f, s).code = f.code \o s
           /\ Emitted(f, s).constants = f.constants /\ Emitted(f, s).upvalues = f.upvalues
           /\ Emitted(f, s).params = f.params /\ Emitted(f, s).born = f.born
           /\ Emitted(f, s).gone = f.gone /\ Emitted(f, s).land = f.land
           /\ Len(Emitted(f, s).code) = Len(f.code) + Len(s)
           /\ \A i \in 1..Len(f.code) : Emitted(f, s).code[i] = f.code[i]
           /\ \A i \in 1..Len(s) : Emitted(f, s).code[Len(f.code) + i] = s[i]
<1>1. f.code \in Seq(Bytes)
  BY DEF Function
<1>2. f.code \o s \in Seq(Bytes)
  BY <1>1, Joined
<1>3. Emitted(f, s) \in Function /\ Emitted(f, s).code = f.code \o s
  BY <1>2 DEF Emitted, Function
<1>4. /\ Emitted(f, s).constants = f.constants /\ Emitted(f, s).upvalues = f.upvalues
      /\ Emitted(f, s).params = f.params /\ Emitted(f, s).born = f.born
      /\ Emitted(f, s).gone = f.gone /\ Emitted(f, s).land = f.land
  BY DEF Emitted, Function
<1> QED
  BY <1>1, <1>3, <1>4, Joined

LEMMA OneMore ==
    ASSUME NEW f \in Function, NEW s, One(s), NEW g \in Function,
           Len(g.code) = Len(f.code) + Len(s),
           \A i \in 1..Len(f.code) : g.code[i] = f.code[i],
           \A i \in 1..Len(s) : g.code[Len(f.code) + i] = s[i],
           g.constants = f.constants, g.upvalues = f.upvalues,
           g.params = f.params, g.born = f.born, g.gone = f.gone
    PROVE  Appends(f, s, g)
<1> DEFINE L == Len(f.code)
<1>1. /\ L \in Nat /\ Len(s) \in Nat /\ Len(s) >= 1
      /\ Len(g.code) = L + Len(s)
      /\ \A i \in 1..L : g.code[i] = f.code[i]
      /\ \A i \in 1..Len(s) : g.code[L + i] = s[i]
  BY CodeBytes, SeqIs DEF One
<1>0. L = Len(f.code)
  OBVIOUS
<1> HIDE DEF L
<1>2. g.code[L + 1] = s[1]
  BY <1>1
<1>3. \A i \in 1..Len(s) - 1 : g.code[L + 1 + i] = s[i + 1] /\ s[i + 1].op = "operand"
  <2> SUFFICES ASSUME NEW i \in 1..Len(s) - 1
               PROVE  g.code[L + 1 + i] = s[i + 1] /\ s[i + 1].op = "operand"
    OBVIOUS
  <2>0. L \in Nat /\ Len(s) \in Nat /\ i \in Nat /\ 1 <= i /\ i <= Len(s) - 1
    BY <1>1
  <2>1. i + 1 \in 1..Len(s) /\ i + 1 \in 2..Len(s) /\ L + 1 + i = L + (i + 1)
    BY <2>0
  <2>2. ASSUME NEW j, j = i + 1  PROVE g.code[L + j] = s[j]
    <3>1. j \in 1..Len(s)
      BY <2>1, <2>2
    <3> QED
      BY <3>1, <1>1
  <2>3. s[i + 1].op = "operand"
    BY <2>1 DEF One
  <2> QED
    BY <2>1, <2>2, <2>3
<1>4. ASSUME NEW p \in 0..L + Len(s) - 1
      PROVE  g.code[p + 1].op # "operand" <=> p = L \/ (p \in 0..L - 1 /\ f.code[p + 1].op # "operand")
  <2>1. CASE p < L
    <3>1. p + 1 \in 1..L /\ p \in 0..L - 1 /\ p # L
      BY <1>1, <2>1
    <3> QED
      BY <3>1, <1>1
  <2>2. CASE p = L
    BY <1>1, <1>2, <2>2 DEF One
  <2>3. CASE p > L
    <3>1. p - L \in 1..Len(s) - 1 /\ p + 1 = L + 1 + (p - L)
      BY <1>1, <2>3
    <3>2. g.code[L + 1 + (p - L)] = s[(p - L) + 1] /\ s[(p - L) + 1].op = "operand"
      BY <3>1, <1>3
    <3>3. g.code[p + 1].op = "operand" /\ p # L /\ p \notin 0..L - 1
      BY <3>1, <3>2, <2>3, <1>1
    <3> QED
      BY <3>3
  <2> QED
    BY <2>1, <2>2, <2>3, <1>1
<1>5. Starts(g) = Starts(f) \cup {L} /\ L \notin Starts(f)
  <2>1. Starts(f) = { p \in 0..L - 1 : f.code[p + 1].op # "operand" }
    BY <1>0 DEF Starts
  <2>2. Starts(g) = { p \in 0..L + Len(s) - 1 : g.code[p + 1].op # "operand" }
    BY <1>1 DEF Starts
  <2>3. L \in 0..L + Len(s) - 1 /\ L \notin 0..L - 1 /\ \A p \in 0..L - 1 : p \in 0..L + Len(s) - 1
    BY <1>1
  <2>4. \A p : p \in Starts(g) <=> p \in Starts(f) \cup {L}
    BY <2>1, <2>2, <2>3, <1>4
  <2> QED
    BY <2>1, <2>3, <2>4
<1> QED
  <2>1. Spots(g) = Spots(f) \cup {Len(g.code)}
    BY <1>0, <1>5 DEF Spots
  <2>2. \A i \in 1..Len(s) - 1 : Operand(g, L, i) = s[i + 1].n
    BY <1>3 DEF Operand
  <2>3. Instruction(g, L) = s[1] /\ Operation(g, L) = s[1].op
    BY <1>2 DEF Instruction, Operation
  <2> QED
    BY <1>0, <1>1, <1>3, <1>5, <2>1, <2>2, <2>3 DEF Appends

LEMMA EmitOne ==
    ASSUME NEW ds \in Seq(Function), NEW f \in Function, NEW M, NEW P, NEW dc \in Nat,
           Sound(ds, f, M, P, Global, dc), NEW s, NEW late, NEW g, NEW h, NEW N, NEW Q,
           Lengthens(ds, f, M, P, s, late, g, h, N, Q)
    PROVE  Lengthened(ds, f, M, late, g, h, N, Q, dc)
<1> SUFFICES ASSUME NEW L, L = Len(f.code)
             PROVE  /\ Sound(ds, g, N, Q, late, dc) /\ g \in Function
                    /\ N[Len(g.code)] = [height |-> h, slot |-> M[L].slot]
                    /\ \A q \in 0..L : N[q] = M[q]
                    /\ Extends(ds, ds, f, g, {})
  BY DEF Lengthened
<1>h. /\ One(s) /\ g = Emitted(f, s)
      /\ N = Longer(M, Len(g.code), [height |-> h, slot |-> M[L].slot])
      /\ Q = IF s[1].op \in Jumps THEN P \cup {L} ELSE P
      /\ s[1].op # "LOOP" /\ Width(ds, g, L) = Len(s)
      /\ M[L].height > Len(f.params) + Takes(g, L)
      /\ h \in Nat /\ Takes(g, L) \in Nat /\ Puts(g, L) \in Nat
      /\ s[1].op \notin {"RETURN", "JUMP"} => h = M[L].height - Takes(g, L) + Puts(g, L)
      /\ \A i \in Slot : M[L].slot[i] # Global => i <= M[L].height - Takes(g, L) /\ i <= h
      /\ s[1].op = "CLOSURE" => /\ Len(s) >= 2 /\ s[2].n + 1 \in DOMAIN f.constants
                                /\ f.constants[s[2].n + 1] \in DOMAIN ds
      /\ MeantAt(ds, g, N, late, L)
  BY DEF Lengthens
<1> USE <1>h
<1> DEFINE F == [height |-> h, slot |-> M[L].slot]
<1>0. Typed(ds, f, M, P) /\ Vars(f, M, dc) /\ L \in Nat /\ L \in Spots(f) /\ s \in Seq(Bytes)
  BY CodeBytes DEF Sound, Spots, One
<1>1. Appends(f, s, g) /\ g.land = f.land
  <2>1. Emitted(f, s) \in Function /\ Emitted(f, s).land = f.land
    BY <1>0, EmittedCode
  <2>2. Appends(f, s, Emitted(f, s))
    BY <1>0, <2>1, EmittedCode, OneMore
  <2> QED
    BY <2>1, <2>2
<1>2. /\ g \in Function /\ Len(g.code) = L + Len(s)
      /\ \A i \in 1..L : g.code[i] = f.code[i]
      /\ g.constants = f.constants /\ g.upvalues = f.upvalues
      /\ g.params = f.params /\ g.born = f.born /\ g.gone = f.gone
      /\ Starts(g) = Starts(f) \cup {L} /\ L \notin Starts(f)
      /\ Spots(g) = Spots(f) \cup {Len(g.code)}
      /\ Operation(g, L) = s[1].op
      /\ \A i \in 1..Len(s) - 1 : Operand(g, L, i) = s[i + 1].n /\ g.code[L + 1 + i].op = "operand"
  BY <1>1 DEF Appends
<1>3. Len(s) \in Nat /\ Len(s) >= 1 /\ L < Len(g.code) /\ Len(g.code) \in Nat
  <2>1. Len(s) \in Nat /\ Len(s) >= 1
    BY DEF One
  <2> QED
    BY <2>1, <1>0, <1>2
<1>4. M \in [0..L -> Frame] /\ M[L] \in Frame /\ F \in Frame
  BY <1>0 DEF Typed, Frame
<1>5. N \in [0..Len(g.code) -> Frame] /\ N[Len(g.code)] = F /\ \A q \in 0..L : N[q] = M[q]
  <2> HIDE DEF F
  <2>1. N = Longer(M, Len(g.code), F)
    BY DEF F
  <2> QED
    <3>1. L \in Nat /\ Len(g.code) \in Nat /\ L < Len(g.code) /\ M \in [0..L -> Frame] /\ F \in Frame
      BY <1>0, <1>3, <1>4
    <3>2. Prolongs(M, L, Len(g.code), F, N)
      BY <2>1, <3>1, LongerIs
    <3> QED
      BY <3>2 DEF Prolongs
<1>6. \A q \in Spots(f) : q \in 0..L /\ N[q] = M[q]
  BY <1>0, <1>5, CodeBytes DEF Spots, Starts
<1>7. Extends(ds, ds, f, g, {})
  <2>1. L <= Len(g.code) /\ L \in Spots(g)
    BY <1>0, <1>2, <1>3 DEF Spots
  <2>2. \A i \in 1..L : g.code[i] = f.code[i]
    BY <1>2
  <2>3. g.constants = f.constants
    BY <1>2
  <2> HIDE <1>h
  <2> QED
    BY <1>1, <1>2, <2>1, <2>2, <2>3 DEF Extends
<1>8. Len(g.code) \notin Spots(f) /\ Spots(g) \ Spots(f) = {Len(g.code)}
  BY <1>2, <1>3, <1>6
<1>9. Runs(ds, g, N, Q, L)
  <2>1. L + Width(ds, g, L) = Len(g.code) /\ L + Width(ds, g, L) \in Spots(g)
    BY <1>2
  <2>2. \A i \in 1..Width(ds, g, L) - 1 : g.code[L + 1 + i].op = "operand"
    BY <1>2
  <2>3. N[L] = M[L] /\ N[L].height > Len(g.params) + Takes(g, L)
    BY <1>0, <1>2, <1>6
  <2>4. s[1].op \notin {"RETURN", "JUMP", "LOOP"} => Flow(g, N, After(g, N, L), Len(g.code))
    <3> SUFFICES ASSUME s[1].op \notin {"RETURN", "JUMP", "LOOP"}
                 PROVE  Flow(g, N, After(g, N, L), Len(g.code))
      OBVIOUS
    <3>1. \A i \in Slot : M[L].slot[i] \in 0..MaxDecl /\ i \in Int
      <4>1. M[L].slot \in [Slot -> 0..MaxDecl]
        BY <1>4 DEF Frame
      <4>2. \A i \in Slot : i \in Int
        BY CompilerConstants DEF Slot
      <4> QED
        BY <4>1, <4>2
    <3>2. \A i \in Slot : (IF i <= M[L].height - Takes(g, L) THEN M[L].slot[i] ELSE Global) = M[L].slot[i]
      BY <3>1
    <3>3. After(g, N, L).height = h
      BY <2>3 DEF After
    <3>4. \A i \in Slot : After(g, N, L).slot[i] = M[L].slot[i]
      BY <2>3, <3>2 DEF After
    <3>5. N[Len(g.code)].height = h /\ N[Len(g.code)].slot = M[L].slot
      BY <1>5
    <3>6. Len(g.code) \in Spots(g)
      BY <2>1
    <3> HIDE DEF F
    <3> QED
      BY <3>3, <3>4, <3>5, <3>6 DEF Flow
  <2>5. Operation(g, L) \in Leaps => L \in Q
    BY <1>2 DEF Leaps, Jumps
  <2>6. Operation(g, L) = "CLOSURE" =>
           /\ Operand(g, L, 1) + 1 \in DOMAIN g.constants
           /\ g.constants[Operand(g, L, 1) + 1] \in DOMAIN ds
    <3> SUFFICES ASSUME s[1].op = "CLOSURE"
                 PROVE  Operand(g, L, 1) + 1 \in DOMAIN g.constants
                        /\ g.constants[Operand(g, L, 1) + 1] \in DOMAIN ds
      BY <1>2
    <3>1. f.constants[s[2].n + 1] \in DOMAIN ds
      OBVIOUS
    <3>2. 1 \in 1..Len(s) - 1
      BY <1>3
    <3>3. Operand(g, L, 1) = s[2].n
      BY <3>2, <1>2
    <3> QED
      BY <3>1, <3>3, <1>2
  <2> QED
    BY <2>1, <2>2, <2>3, <2>4, <2>5, <2>6, <1>2 DEF Runs
<1>10. Sources(f, M, F)
  <2>1. \A i \in Slot : M[L].slot[i] # Global => Origin(f, M, i, M[L].slot[i])
    BY <1>0 DEF Vars
  <2> QED
    BY <2>1 DEF Sources
<1>11. /\ {} \subseteq P /\ dc <= dc /\ P \ {} \subseteq Q
       /\ Q \subseteq (P \ {}) \cup (Starts(g) \ Starts(f))
       /\ \A p \in Q \ P : Operation(g, p) \in Jumps
       /\ Starts(g) \ Starts(f) = {L} /\ g.land \ f.land = {} /\ g.gone \ f.gone = {}
       /\ f.land \subseteq g.land /\ f.gone \subseteq g.gone
  BY <1>1, <1>2
<1>12. Grows(ds, ds, f, g, M, N, P, Q, {}, late, dc)
  <2>1. \A p \in Starts(g) \ Starts(f) : Runs(ds, g, N, Q, p) /\ MeantAt(ds, g, N, late, p)
    BY <1>9, <1>11
  <2>2. \A q \in Spots(g) \ Spots(f) : Sources(f, M, N[q])
    BY <1>5, <1>8, <1>10
  <2> HIDE DEF F
  <2> QED
    BY <1>2, <1>5, <1>6, <1>7, <1>11, <2>1, <2>2 DEF Grows
<1>13. Sound(ds, g, N, Q, late, dc)
  BY <1>2, <1>12, Extension
<1> HIDE DEF F
<1> QED
  BY <1>2, <1>5, <1>7, <1>13, Zenon DEF F

-----------------------------------------------------------------------------
(* The code of a function, and what is on the stack at its end.            *)

LEMMA OnwardTwice ==
    ASSUME NEW f \in Function, NEW M, NEW g \in Function, NEW N, NEW h \in Function, NEW O,
           Onward(f, M, g, N), Onward(g, N, h, O)
    PROVE  Onward(f, M, h, O)
<1>1. Len(f.code) \in Nat /\ Len(g.code) \in Nat /\ Len(h.code) \in Nat
  BY CodeBytes
<1> QED
  BY <1>1 DEF Onward

LEMMA Further ==
    ASSUME NEW ds \in Seq(Function), NEW es, NEW f \in Function, NEW g \in Function, NEW M, NEW N,
           NEW P, NEW H, H \subseteq P, Typed(ds, f, M, P), Extends(ds, es, f, g, H),
           \A q \in Spots(f) : N[q] = M[q],
           g.upvalues = f.upvalues, g.params = f.params, g.born = f.born, g.gone = f.gone
    PROVE  Onward(f, M, g, N)
<1>1. \A p \in Starts(f) : Alike(ds, es, f, g, H, p)
  BY SameCode
<1>2. \A p \in Starts(f) : /\ p \in Starts(g) /\ Operation(g, p) = Operation(f, p)
                           /\ Takes(g, p) = Takes(f, p) /\ Puts(g, p) = Puts(f, p)
  BY <1>1 DEF Alike
<1>3. \A p \in Starts(f) : N[p] = M[p]
  BY DEF Spots
<1>4. \A p \in Starts(f) : After(g, N, p) = After(f, M, p)
  BY <1>2, <1>3 DEF After
<1>5. Len(f.code) <= Len(g.code) /\ Spots(f) \subseteq Spots(g)
  BY <1>2 DEF Extends, Spots
<1> QED
  BY <1>2, <1>4, <1>5 DEF Onward

LEMMA EffectOf ==
    ASSUME NEW ds, NEW f, NEW s, One(s), NEW g, Appends(f, s, g),
           s[1].op \in Short => Len(s) = 2, s[1].op \in Leaps => Len(s) = 3
    PROVE  /\ Takes(g, Len(f.code)) = TakesOf(s) /\ Puts(g, Len(f.code)) = PutsOf(s)
           /\ TakesOf(s) \in Nat /\ PutsOf(s) \in Nat
           /\ s[1].op \in Short => Width(ds, g, Len(f.code)) = 2
           /\ s[1].op \in Leaps => Width(ds, g, Len(f.code)) = 3
           /\ s[1].op \in Instructions \ (Short \cup Leaps \cup {"CLOSURE"}) =>
                  Width(ds, g, Len(f.code)) = 1
           /\ Plain(s) => Width(ds, g, Len(f.code)) = Len(s)
<1>1. Operation(g, Len(f.code)) = s[1].op
  BY DEF Appends
<1>2. s[1].op = "CALL" => Operand(g, Len(f.code), 1) = s[2].n /\ s[2].n \in Nat
  <2> SUFFICES ASSUME s[1].op = "CALL"  PROVE Operand(g, Len(f.code), 1) = s[2].n /\ s[2].n \in Nat
    OBVIOUS
  <2>1. Len(s) = 2 /\ 1 \in 1..Len(s) - 1 /\ 2 \in 1..Len(s)
    BY DEF Short
  <2>2. s[2] \in Bytes
    BY <2>1, SeqIs DEF One
  <2> QED
    BY <2>1, <2>2 DEF Appends, Bytes
<1>3. Takes(g, Len(f.code)) = TakesOf(s) /\ TakesOf(s) \in Nat
  BY <1>1, <1>2 DEF Takes, TakesOf
<1>4. Puts(g, Len(f.code)) = PutsOf(s) /\ PutsOf(s) \in Nat
  BY <1>1 DEF Puts, PutsOf
<1> QED
  BY <1>1, <1>3, <1>4 DEF Width, Short, Leaps, Jumps, Instructions, Plain

LEMMA FrameAtEnd ==
    ASSUME NEW ds, NEW dc, NEW f, NEW M, NEW P, NEW h, NEW sl, Coding(ds, dc, f, M, P, h, sl)
    PROVE  /\ f \in Function /\ Len(f.code) \in Nat /\ Len(f.params) \in Nat
           /\ Typed(ds, f, M, P) /\ M \in [0..Len(f.code) -> Frame]
           /\ M[Len(f.code)] = [height |-> h, slot |-> sl]
           /\ h \in Nat /\ sl \in [Slot -> 0..MaxDecl]
           /\ \A i \in Slot : i \in Nat
<1>1. f \in Function /\ Len(f.code) \in Nat /\ Len(f.params) \in Nat
  BY CodeBytes DEF Coding
<1>2. Typed(ds, f, M, P) /\ M \in [0..Len(f.code) -> Frame]
  BY DEF Coding, Sound, Typed
<1>3. M[Len(f.code)] \in Frame
  BY <1>1, <1>2
<1>4. \A i \in Slot : i \in Nat
  BY CompilerConstants DEF Slot
<1> QED
  BY <1>1, <1>2, <1>3, <1>4 DEF Coding, Frame

\* An instruction that is neither a jump back nor a closure.
LEMMA PlainStep ==
    ASSUME NEW ds \in Seq(Function), NEW dc \in Nat, NEW f, NEW M, NEW P, NEW h, NEW sl, NEW v,
           Coding(ds, dc, f, M, P, h, sl), Clear(f, h, sl, v),
           NEW s, Plain(s), Names(f, sl, s), v + TakesOf(s) <= h, NEW k \in Nat, v <= k,
           s[1].op \notin {"RETURN", "JUMP"} => k = h - TakesOf(s) + PutsOf(s)
    PROVE  \E N : Stepped(ds, dc, f, M, P, h, sl, s, k, N)
<1> DEFINE L == Len(f.code)
           g == Emitted(f, s)
           N == Longer(M, Len(g.code), [height |-> k, slot |-> M[L].slot])
           Q == IF s[1].op \in Jumps THEN P \cup {L} ELSE P
<1>1. /\ f \in Function /\ L \in Nat /\ Len(f.params) \in Nat
      /\ Typed(ds, f, M, P) /\ M \in [0..Len(f.code) -> Frame]
      /\ M[L].height = h /\ M[L].slot = sl /\ h \in Nat /\ sl \in [Slot -> 0..MaxDecl]
      /\ Sound(ds, f, M, P, Global, dc) /\ \A i \in Slot : i \in Nat
  <2>1. /\ f \in Function /\ L \in Nat /\ Len(f.params) \in Nat
        /\ Typed(ds, f, M, P) /\ M \in [0..Len(f.code) -> Frame]
        /\ M[L] = [height |-> h, slot |-> sl]
        /\ h \in Nat /\ sl \in [Slot -> 0..MaxDecl]
        /\ \A i \in Slot : i \in Nat
    BY FrameAtEnd
  <2>2. Sound(ds, f, M, P, Global, dc)
    BY DEF Coding
  <2> QED
    BY <2>1, <2>2
<1>2. /\ One(s) /\ s \in Seq(Bytes) /\ s[1].op \notin {"LOOP", "CLOSURE"}
      /\ s[1].op \in Short => Len(s) = 2
      /\ s[1].op \in Leaps => Len(s) = 3
  BY DEF Plain, One, Short, Leaps, Jumps
<1>3. Appends(f, s, g) /\ g \in Function /\ g.constants = f.constants
  BY <1>1, <1>2, EmittedCode, OneMore
<1>4. /\ Takes(g, L) = TakesOf(s) /\ Puts(g, L) = PutsOf(s)
      /\ TakesOf(s) \in Nat /\ PutsOf(s) \in Nat /\ Width(ds, g, L) = Len(s)
  BY <1>2, <1>3, EffectOf
<1>5. v \in Nat /\ v <= h /\ v > Len(f.params) /\ \A i \in Slot : sl[i] # Global => i <= v
  BY DEF Clear
<1>6. M[L].height > Len(f.params) + Takes(g, L)
  BY <1>1, <1>4, <1>5
<1>0. \A i \in Slot : sl[i] # Global => i <= h - TakesOf(s) /\ i <= k
  <2> SUFFICES ASSUME NEW i \in Slot, i <= v  PROVE i <= h - TakesOf(s) /\ i <= k
    BY <1>5
  <2>1. i \in Nat /\ h \in Nat /\ TakesOf(s) \in Nat /\ v \in Nat
    BY <1>1, <1>4, <1>5
  <2> QED
    BY <2>1
<1>7. \A i \in Slot : M[L].slot[i] # Global => i <= M[L].height - Takes(g, L) /\ i <= k
  BY <1>0, <1>1, <1>4
<1>8. L \in 0..L /\ \A q \in 0..L : N[q] = M[q]
  <2> HIDE DEF N, g, L
  <2>1. L \in Nat /\ Len(g.code) \in Nat /\ L < Len(g.code) /\ M \in [0..L -> Frame]
    <3>1. Len(s) \in Nat /\ Len(s) >= 1
      BY DEF One, Plain
    <3> QED
      BY <1>1, <1>3, <3>1 DEF Appends, L
  <2> QED
    BY <2>1 DEF N, Longer
<1>9. MeantAt(ds, g, N, Global, L)
  <2>1. Operation(g, L) = s[1].op /\ Instruction(g, L) = s[1] /\ g.upvalues = f.upvalues
    BY <1>3 DEF Appends
  <2>2. s[1].op \in Short => Operand(g, L, 1) = s[2].n
    BY <1>2, <1>3 DEF Appends
  <2>3. N[L].slot = sl
    BY <1>1, <1>8
  <2> HIDE DEF N, g, L
  <2> QED
    BY <2>1, <2>2, <2>3, <1>2 DEF MeantAt, Names, Short
<1>10. /\ Sound(ds, g, N, Q, Global, dc)
       /\ N[Len(g.code)] = [height |-> k, slot |-> M[L].slot]
       /\ Extends(ds, ds, f, g, {})
  <2> HIDE DEF N, g, L, Q
  <2>1. s[1].op # "LOOP" /\ (s[1].op = "CLOSURE" => FALSE)
    BY <1>2
  <2>2. M[L].height = h
    BY <1>1
  <2>3. Lengthens(ds, f, M, P, s, Global, g, k, N, Q)
    BY <1>1, <1>2, <1>4, <1>6, <1>7, <1>9, <2>1, <2>2 DEF N, g, L, Q, Lengthens
  <2>4. f \in Function /\ Sound(ds, f, M, P, Global, dc)
    BY <1>1
  <2>5. Lengthened(ds, f, M, Global, g, k, N, Q, dc)
    BY <2>3, <2>4, EmitOne
  <2> QED
    BY <2>5 DEF L, Lengthened
<1>12. Coding(ds, dc, g, N, Q, k, sl)
  <2> HIDE DEF N, g, L, Q
  <2> QED
    BY <1>1, <1>3, <1>10 DEF Coding
<1>13. Onward(f, M, g, N)
  <2>1. /\ g.upvalues = f.upvalues /\ g.params = f.params /\ g.born = f.born /\ g.gone = f.gone
    BY <1>3 DEF Appends
  <2>2. \A q \in Spots(f) : N[q] = M[q]
    BY <1>8, <1>1 DEF Spots, Starts
  <2>3. f \in Function /\ Typed(ds, f, M, P) /\ {} \subseteq P
    BY <1>1
  <2> HIDE DEF N, g, L, Q
  <2> QED
    BY <1>3, <1>10, <2>1, <2>2, <2>3, Further
<1>14. After(g, N, L) = [height |-> h - TakesOf(s) + PutsOf(s), slot |-> sl]
  <2>1. N[L].height = h /\ N[L].slot = sl
    BY <1>1, <1>8
  <2> HIDE DEF N, g, L, Q
  <2>2. \A i \in Slot : (IF i <= h - TakesOf(s) THEN sl[i] ELSE Global) = sl[i]
    BY <1>0
  <2>3. [i \in Slot |-> IF i <= h - TakesOf(s) THEN sl[i] ELSE Global] = sl
    BY <1>1, <2>2
  <2> QED
    BY <1>4, <2>1, <2>3 DEF After
<1>15. L \in Starts(g)
  BY <1>3 DEF Appends
<1>16. Stepped(ds, dc, f, M, P, h, sl, s, k, N)
  BY <1>3, <1>12, <1>13, <1>14, <1>15 DEF Stepped
<1> QED
  BY <1>16

-----------------------------------------------------------------------------
(* The bytes of jumps.                                                     *)

\* Two bytes hold a number below Base * Base, one and a truth value one below
\* 2 * Base.
LEMMA Quotient ==
    ASSUME NEW j \in Nat
    PROVE  \E q \in Nat : \E r \in Nat : r < Base /\ j = Base * q + r /\ j \div Base = q /\ j % Base = r
<1>1. Base \in Nat \ {0} /\ Base > 1
  BY CompilerConstants
<1>2. PICK q \in Nat, r \in 0..(Base - 1) : j = Base * q + r
  BY <1>1, Division
<1>3. (Base * q + r) % Base = r
  BY <1>1, Remainder
<1>4. (Base * q + r) \div Base = q
  BY <1>1
<1>5. j \div Base = q /\ j % Base = r
  BY <1>2, <1>3, <1>4, Zenon
<1>6. r \in Nat /\ r < Base
  BY <1>1
<1> QED
  BY <1>2, <1>5, <1>6, Zenon

LEMMA TwoBytes ==
    ASSUME NEW j \in Nat, j <= Base * Base - 1
    PROVE  ((j \div Base) % Base) * Base + (j % Base) = j
<1>1. PICK q \in Nat : \E r \in Nat : r < Base /\ j = Base * q + r /\ j \div Base = q /\ j % Base = r
  BY Quotient
<1>2. PICK r \in Nat : r < Base /\ j = Base * q + r /\ j \div Base = q /\ j % Base = r
  BY <1>1
<1>3. Base \in Nat /\ Base > 1 /\ r < Base /\ j = Base * q + r
  BY <1>2, CompilerConstants
<1>4. q < Base
  <2> SUFFICES ASSUME q >= Base  PROVE FALSE
    BY <1>3
  <2>1. Base * q >= Base * Base
    <3>1. q - Base \in Nat /\ Base * (q - Base) \in Nat
      BY <1>3
    <3>2. Base * q = Base * Base + Base * (q - Base)
      BY <1>3
    <3>3. Base * Base \in Nat
      BY <1>3
    <3> QED
      BY <3>1, <3>2, <3>3
  <2>2. Base * q \in Nat /\ Base * Base \in Nat
    BY <1>3
  <2> QED
    BY <2>1, <2>2, <1>3
<1>5. q % Base = q
  BY <1>3, <1>4
<1>6. q * Base + r = j
  <2>1. q * Base = Base * q
    BY <1>3
  <2> QED
    BY <1>3, <2>1
<1> DEFINE a == (j \div Base) % Base
           b == j % Base
<1>7. a = q /\ b = r
  <2>1. j \div Base = q /\ j % Base = r
    BY <1>2, Zenon
  <2> QED
    BY <2>1, <1>5, Zenon
<1> HIDE DEF a, b
<1>8. a * Base + b = j
  BY <1>6, <1>7
<1> QED
  BY <1>8, Zenon DEF a, b

LEMMA LoopBytes ==
    ASSUME NEW j \in Nat, j < 2 * Base
    PROVE  (IF j \div Base = 0 THEN 0 ELSE 1) * Base + (j % Base) = j
<1>1. PICK q \in Nat : \E r \in Nat : r < Base /\ j = Base * q + r /\ j \div Base = q /\ j % Base = r
  BY Quotient
<1>2. PICK r \in Nat : r < Base /\ j = Base * q + r /\ j \div Base = q /\ j % Base = r
  BY <1>1
<1>3. Base \in Nat /\ Base > 1 /\ r < Base /\ j = Base * q + r
  BY <1>2, CompilerConstants
<1>4. q < 2
  <2> SUFFICES ASSUME q >= 2  PROVE FALSE
    BY <1>3
  <2>1. q - 2 \in Nat /\ Base * (q - 2) \in Nat /\ Base * q = 2 * Base + Base * (q - 2)
    BY <1>3
  <2>2. Base * q \in Nat
    BY <1>3
  <2> QED
    BY <2>1, <2>2, <1>3
<1>5. (IF q = 0 THEN 0 ELSE 1) * Base + r = j
  <2>1. CASE q = 0
    BY <1>3, <2>1
  <2>2. CASE q = 1
    BY <1>3, <2>2
  <2> QED
    BY <2>1, <2>2, <1>4
<1>6. j \div Base = q /\ j % Base = r
  BY <1>2, Zenon
<1> DEFINE a == j \div Base
           b == j % Base
<1>7. a = q /\ b = r
  BY <1>6
<1> HIDE DEF a, b
<1>8. (IF a = 0 THEN 0 ELSE 1) * Base + b = j
  BY <1>5, <1>7
<1> QED
  BY <1>8, Zenon DEF a, b

LEMMA PatchedCode ==
    ASSUME NEW f \in Function, NEW o \in Nat, o + 3 <= Len(f.code)
    PROVE  /\ Patched(f, o) \in Function
           /\ Len(Patched(f, o).code) = Len(f.code)
           /\ \A i \in 1..Len(f.code) : i \notin {o + 2, o + 3} => Patched(f, o).code[i] = f.code[i]
           /\ Patched(f, o).code[o + 2] = Byte(((Len(f.code) - o - 3) \div Base) % Base)
           /\ Patched(f, o).code[o + 3] = Byte((Len(f.code) - o - 3) % Base)
           /\ Patched(f, o).constants = f.constants /\ Patched(f, o).upvalues = f.upvalues
           /\ Patched(f, o).params = f.params /\ Patched(f, o).born = f.born
           /\ Patched(f, o).gone = f.gone
           /\ Patched(f, o).land = f.land \cup {[from |-> o, to |-> Len(f.code)]}
<1> DEFINE j == Len(f.code) - o - 3
           a == Byte((j \div Base) % Base)
           b == Byte(j % Base)
           code == [[f.code EXCEPT ![o + 2] = a] EXCEPT ![o + 3] = b]
<1>1. Len(f.code) \in Nat /\ f.code \in Seq(Bytes) /\ DOMAIN f.code = 1..Len(f.code)
  BY CodeBytes DEF Function
<1>2. j \in Nat
  BY <1>1
<1>3. j % Base \in Nat /\ (j \div Base) % Base \in Nat
  <2> HIDE DEF j
  <2>1. PICK q \in Nat : \E r \in Nat : r < Base /\ j = Base * q + r /\ j \div Base = q /\ j % Base = r
    BY <1>2, Quotient
  <2>2. q % Base \in Nat
    BY CompilerConstants
  <2> QED
    BY <2>1, <2>2, Zenon
<1> HIDE DEF j
<1>4. a \in Bytes /\ b \in Bytes
  BY <1>3, CompilerConstants DEF Byte, Bytes, Global, Itself
<1>5. Patched(f, o) = [f EXCEPT !.code = code, !.land = @ \cup {[from |-> o, to |-> Len(f.code)]}]
  BY DEF Patched, j, Function
<1> HIDE DEF a, b
<1>6. o + 2 \in 1..Len(f.code) /\ o + 3 \in 1..Len(f.code) /\ o + 2 # o + 3
  BY <1>1
<1>7. /\ code \in Seq(Bytes) /\ Len(code) = Len(f.code) /\ code[o + 2] = a /\ code[o + 3] = b
      /\ \A i \in 1..Len(f.code) : i \notin {o + 2, o + 3} => code[i] = f.code[i]
  BY <1>1, <1>4, <1>6
<1> HIDE DEF code
<1>8. /\ Patched(f, o).code = code
      /\ Patched(f, o).constants = f.constants /\ Patched(f, o).upvalues = f.upvalues
      /\ Patched(f, o).params = f.params /\ Patched(f, o).born = f.born
      /\ Patched(f, o).gone = f.gone
      /\ Patched(f, o).land = f.land \cup {[from |-> o, to |-> Len(f.code)]}
  BY <1>5 DEF Function
<1>9. Patched(f, o) \in Function
  <2>1. [from |-> o, to |-> Len(f.code)] \in [from : Nat, to : Nat]
    BY <1>1
  <2> DEFINE land == f.land \cup {[from |-> o, to |-> Len(f.code)]}
  <2>2. land \in SUBSET [from : Nat, to : Nat]
    BY <2>1, CodeBytes
  <2> HIDE DEF land
  <2>3. [f EXCEPT !.code = code, !.land = land] \in Function
    BY <1>7, <2>2 DEF Function
  <2>4. Patched(f, o) = [f EXCEPT !.code = code, !.land = land]
    BY <1>5 DEF land, Function
  <2> QED
    BY <2>3, <2>4
<1> QED
  BY <1>7, <1>8, <1>9 DEF a, b, j

LEMMA OpenJump ==
    ASSUME NEW ds, NEW f \in Function, NEW M, NEW P, Typed(ds, f, M, P), NEW o \in P
    PROVE  /\ o \in Starts(f) /\ o \in Nat /\ Operation(f, o) \in Jumps /\ Len(f.code) \in Nat
           /\ o + 3 <= Len(f.code) /\ f.code[o + 2].op = "operand" /\ f.code[o + 3].op = "operand"
<1>1. o \in Starts(f) /\ o \in Nat /\ Operation(f, o) \in Jumps /\ Len(f.code) \in Nat
  BY StartIs, CodeBytes DEF Typed
<1>2. Width(ds, f, o) = 3
  BY <1>1, WidthIs DEF Jumps, Leaps
<1>3. o + 3 \in Spots(f) /\ \A i \in 1..3 - 1 : f.code[o + 1 + i].op = "operand"
  BY <1>1, <1>2 DEF Typed, Runs
<1>4. o + 3 <= Len(f.code)
  BY <1>1, <1>3 DEF Spots, Starts
<1>5. f.code[o + 1 + 1].op = "operand" /\ f.code[o + 1 + 2].op = "operand"
  BY <1>3
<1> QED
  BY <1>1, <1>4, <1>5

LEMMA PatchStep ==
    ASSUME NEW ds \in Seq(Function), NEW dc \in Nat, NEW f, NEW M, NEW P, NEW h, NEW sl,
           Coding(ds, dc, f, M, P, h, sl), NEW o \in P, After(f, M, o) = [height |-> h, slot |-> sl],
           Len(f.code) - o - 3 <= Base * Base - 1
    PROVE  Closes(ds, dc, f, M, P, h, sl, o)
<1> DEFINE L == Len(f.code)
           g == Patched(f, o)
           to == [from |-> o, to |-> Len(f.code)]
<1>1. /\ f \in Function /\ L \in Nat /\ Typed(ds, f, M, P) /\ M \in [0..L -> Frame]
      /\ M[L] = [height |-> h, slot |-> sl] /\ Sound(ds, f, M, P, Global, dc)
  BY FrameAtEnd DEF Coding
<1>2. /\ o \in Starts(f) /\ o \in Nat /\ Operation(f, o) \in Jumps
      /\ o + 3 <= L /\ f.code[o + 2].op = "operand" /\ f.code[o + 3].op = "operand"
  BY <1>1, OpenJump
<1>3. /\ g \in Function /\ Len(g.code) = L
      /\ \A i \in 1..L : i \notin {o + 2, o + 3} => g.code[i] = f.code[i]
      /\ g.code[o + 2] = Byte(((L - o - 3) \div Base) % Base)
      /\ g.code[o + 3] = Byte((L - o - 3) % Base)
      /\ g.constants = f.constants /\ g.upvalues = f.upvalues
      /\ g.params = f.params /\ g.born = f.born
      /\ g.gone = f.gone /\ g.land = f.land \cup {to}
  BY <1>1, <1>2, PatchedCode
<1> HIDE DEF g, L
<1>4. \A i \in 1..L : g.code[i] = f.code[i] \/
          (g.code[i].op = "operand" /\ f.code[i].op = "operand" /\ i \in {o + 2, o + 3})
  <2>1. g.code[o + 2].op = "operand" /\ g.code[o + 3].op = "operand"
    BY <1>3 DEF Byte
  <2> QED
    BY <2>1, <1>2, <1>3
<1>5. Starts(g) = Starts(f)
  <2>1. \A p \in 0..L - 1 : p + 1 \in 1..L /\ g.code[p + 1].op = f.code[p + 1].op
    BY <1>1, <1>4
  <2>2. Starts(f) = { p \in 0..L - 1 : f.code[p + 1].op # "operand" }
    BY DEF Starts, L
  <2>3. Starts(g) = { p \in 0..L - 1 : g.code[p + 1].op # "operand" }
    BY <1>3 DEF Starts
  <2> QED
    BY <2>1, <2>2, <2>3
<1>6. Spots(g) = Spots(f) /\ L \in Spots(g)
  BY <1>3, <1>5 DEF Spots, L
<1>7. Extends(ds, ds, f, g, {o})
  BY <1>1, <1>3, <1>4, <1>6 DEF Extends, L
<1>8. Flow(g, M, After(f, M, o), L)
  BY <1>1, <1>6 DEF Flow
<1>9. Lands(g, P \ {o}, to)
  <2>0. o \in Nat /\ L \in Nat /\ o + 3 <= L
    BY <1>1, <1>2
  <2>1. o \in Starts(g) /\ Operation(g, o) = Operation(f, o)
    <3>1. o + 1 \in 1..L /\ o + 1 \notin {o + 2, o + 3}
      BY <2>0
    <3> QED
      BY <3>1, <1>2, <1>3, <1>5 DEF Operation, Instruction
  <2>2. Operand(g, o, 1) = ((L - o - 3) \div Base) % Base /\ Operand(g, o, 2) = (L - o - 3) % Base
    <3>1. o + 1 + 1 = o + 2 /\ o + 1 + 2 = o + 3
      BY <1>2
    <3> QED
      BY <3>1, <1>3 DEF Operand, Byte
  <2>3. Jump(g, o) = L - o - 3
    <3>1. L - o - 3 \in Nat /\ L - o - 3 <= Base * Base - 1
      BY <1>1, <1>2 DEF L
    <3>2. (((L - o - 3) \div Base) % Base) * Base + ((L - o - 3) % Base) = L - o - 3
      BY <3>1, TwoBytes
    <3> QED
      BY <2>2, <3>2, Zenon DEF Jump
  <2>4. Target(g, o) = L
    <3>1. Operation(g, o) # "LOOP"
      BY <2>1, <1>2 DEF Jumps
    <3>2. o + 3 + (L - o - 3) = L
      BY <2>0
    <3> QED
      BY <2>3, <3>1, <3>2 DEF Target
  <2> QED
    BY <2>1, <2>4, <1>2 DEF Lands, Leaps, Jumps, L
<1>10. Grows(ds, ds, f, g, M, M, P, P \ {o}, {o}, Global, dc)
  <2>1. \A p \in (P \ {o}) \ P : Operation(g, p) \in Jumps
    OBVIOUS
  <2>2. Starts(g) \ Starts(f) = {} /\ Spots(g) \ Spots(f) = {}
    BY <1>5, <1>6
  <2>3. g.land \ f.land \subseteq {to} /\ to \in g.land /\ to.from = o /\ to.to = L
    BY <1>3 DEF L
  <2> HIDE DEF to
  <2>4. f.land \subseteq g.land /\ f.gone \subseteq g.gone /\ g.gone \ f.gone = {}
    BY <1>3
  <2>5. \E m \in g.land : m.from = o /\ Flow(g, M, After(f, M, o), m.to)
    BY <2>3, <1>8
  <2>6. \A m \in g.land \ f.land : Lands(g, P \ {o}, m)
    BY <2>3, <1>9
  <2> QED
    BY <1>1, <1>3, <1>7, <2>1, <2>2, <2>4, <2>5, <2>6 DEF Grows
<1>11. Sound(ds, g, M, P \ {o}, Global, dc)
  BY <1>1, <1>3, <1>10, Extension
<1>12. Onward(f, M, g, M)
  <2>1. {o} \subseteq P
    OBVIOUS
  <2> QED
    BY <1>1, <1>3, <1>7, <2>1, Further
<1>13. M[Len(g.code)].height = h /\ M[Len(g.code)].slot = sl
  BY <1>1, <1>3
<1> QED
  BY <1>3, <1>11, <1>12, <1>13 DEF Closes, Coding, g, L

LEMMA LoopCode ==
    ASSUME NEW f \in Function, NEW start \in Nat, start <= Len(f.code)
    PROVE  /\ Appends(f, LoopOp(f, start), Looped(f, start)) /\ One(LoopOp(f, start))
           /\ Len(LoopOp(f, start)) = 3 /\ LoopOp(f, start)[1] = Op("LOOP")
           /\ Looped(f, start).land = f.land \cup {[from |-> Len(f.code), to |-> start]}
           /\ Len(f.code) + 3 - start < 2 * Base =>
                 LoopOp(f, start)[2].n * Base + LoopOp(f, start)[3].n = Len(f.code) + 3 - start
<1> DEFINE s == LoopOp(f, start)
           e == Emitted(f, s)
           g == Looped(f, start)
           to == [from |-> Len(f.code), to |-> start]
           offset == Len(f.code) + 1 - start + 2
           high == IF offset \div Base = 0 THEN 0 ELSE 1
           low == offset % Base
<1>1. Len(f.code) \in Nat /\ offset \in Nat /\ offset = Len(f.code) + 3 - start
  BY CodeBytes
<1>2. low \in Nat /\ high \in Nat
  <2> HIDE DEF offset
  <2>1. PICK q \in Nat : \E r \in Nat : r < Base /\ offset = Base * q + r /\ offset \div Base = q /\ offset % Base = r
    BY <1>1, Quotient
  <2> QED
    BY <2>1
<1>3. s = <<Op("LOOP"), Byte(high), Byte(low)>>
  BY DEF LoopOp
<1>4. offset < 2 * Base => high * Base + low = offset
  <2> HIDE DEF offset
  <2> QED
    BY <1>1, LoopBytes, Zenon
<1> HIDE DEF s, high, low
<1>5. /\ Len(s) = 3 /\ s \in Seq(Bytes) /\ s[1] = Op("LOOP") /\ s[2] = Byte(high) /\ s[3] = Byte(low)
  <2>1. Op("LOOP") \in Bytes /\ Byte(high) \in Bytes /\ Byte(low) \in Bytes
    BY <1>2, CompilerConstants DEF Op, Byte, Bytes, Instructions, Global, Itself
  <2> HIDE DEF offset
  <2> QED
    BY <1>3, <2>1
<1>6. One(s)
  <2>1. \A i \in 2..3 : i = 2 \/ i = 3
    OBVIOUS
  <2> QED
    BY <1>5, <2>1 DEF One, Op, Byte
<1>7. e \in Function /\ Appends(f, s, e) /\ e.land = f.land /\ e.code = f.code \o s
  BY <1>5, <1>6, EmittedCode, OneMore
<1>8. g = [e EXCEPT !.land = @ \cup {to}]
  BY DEF Looped, Emitted, Function, s
<1> HIDE DEF e
<1>9. to \in [from : Nat, to : Nat]
  BY <1>1
<1> HIDE DEF to
<1>10. g \in Function /\ g.code = e.code /\ g.land = f.land \cup {to} /\ g.constants = e.constants
       /\ g.upvalues = e.upvalues /\ g.params = e.params /\ g.born = e.born /\ g.gone = e.gone
  <2> DEFINE land == f.land \cup {to}
  <2>1. land \in SUBSET [from : Nat, to : Nat]
    BY <1>9, CodeBytes
  <2>2. g = [e EXCEPT !.land = land]
    BY <1>7, <1>8 DEF Function
  <2> HIDE DEF land, g
  <2>3. /\ g \in Function /\ g.code = e.code /\ g.land = land /\ g.constants = e.constants
        /\ g.upvalues = e.upvalues /\ g.params = e.params /\ g.born = e.born /\ g.gone = e.gone
    BY <1>7, <2>1, <2>2 DEF Function
  <2> QED
    BY <2>3 DEF land
<1> HIDE DEF g
<1>11. Starts(g) = Starts(e) /\ Spots(g) = Spots(e)
       /\ Instruction(g, Len(f.code)) = Instruction(e, Len(f.code))
       /\ Operation(g, Len(f.code)) = Operation(e, Len(f.code))
       /\ \A i : Operand(g, Len(f.code), i) = Operand(e, Len(f.code), i)
  BY <1>10 DEF Starts, Spots, Instruction, Operation, Operand
<1>12. Appends(f, s, g)
  BY <1>7, <1>10, <1>11 DEF Appends
<1>13. offset < 2 * Base => s[2].n * Base + s[3].n = offset
  BY <1>4, <1>5 DEF Byte
<1> QED
  BY <1>1, <1>5, <1>6, <1>10, <1>12, <1>13 DEF g, s, to

LEMMA LoopStep ==
    ASSUME NEW ds \in Seq(Function), NEW dc \in Nat, NEW f, NEW M, NEW P, NEW h, NEW sl, NEW v,
           Coding(ds, dc, f, M, P, h, sl), Clear(f, h, sl, v), NEW start,
           Flow(f, M, [height |-> h, slot |-> sl], start), NEW k \in Nat, v <= k
    PROVE  \E N : Loops(ds, dc, f, M, P, sl, start, k, N)
<1> DEFINE L == Len(f.code)
           s == LoopOp(f, start)
           g == Looped(f, start)
           to == [from |-> L, to |-> start]
           F == [height |-> k, slot |-> sl]
           N == Longer(M, L + 3, F)
<1>1. /\ f \in Function /\ L \in Nat /\ Typed(ds, f, M, P) /\ M \in [0..L -> Frame]
      /\ M[L] = [height |-> h, slot |-> sl] /\ Sound(ds, f, M, P, Global, dc)
      /\ h \in Nat /\ sl \in [Slot -> 0..MaxDecl] /\ \A i \in Slot : i \in Nat
  BY FrameAtEnd DEF Coding
<1>2. start \in Spots(f) /\ start \in Nat /\ start <= L
  <2>1. start \in Spots(f)
    BY DEF Flow
  <2> QED
    BY <2>1, <1>1 DEF Spots, Starts
<1>3. /\ Appends(f, s, g) /\ One(s) /\ Len(s) = 3 /\ s[1] = Op("LOOP") /\ g.land = f.land \cup {to}
      /\ L + 3 - start < 2 * Base => s[2].n * Base + s[3].n = L + 3 - start
  BY <1>1, <1>2, LoopCode
<1> HIDE DEF s, g
<1>4. /\ g \in Function /\ Len(g.code) = L + 3
      /\ \A i \in 1..L : g.code[i] = f.code[i]
      /\ g.constants = f.constants /\ g.upvalues = f.upvalues
      /\ g.params = f.params /\ g.born = f.born /\ g.gone = f.gone
      /\ Starts(g) = Starts(f) \cup {L} /\ L \notin Starts(f)
      /\ Spots(g) = Spots(f) \cup {L + 3}
      /\ Operation(g, L) = "LOOP" /\ Instruction(g, L) = s[1]
      /\ \A i \in 1..2 : Operand(g, L, i) = s[i + 1].n /\ g.code[L + 1 + i].op = "operand"
  BY <1>3 DEF Appends, Op
<1>5. Operand(g, L, 1) = s[2].n /\ Operand(g, L, 2) = s[3].n
  BY <1>4
<1>6. F \in Frame
  BY <1>1 DEF Frame
<1> HIDE DEF F, L
<1>7. N \in [0..L + 3 -> Frame] /\ N[L + 3] = F /\ \A q \in 0..L : N[q] = M[q]
  BY <1>1, <1>6 DEF Longer
<1> HIDE DEF N
<1>8. \A q \in Spots(f) : q \in 0..L /\ N[q] = M[q]
  BY <1>1, <1>7 DEF Spots, Starts, L
<1>9. Extends(ds, ds, f, g, {})
  <2>1. L <= Len(g.code) /\ L \in Spots(g)
    BY <1>1, <1>4 DEF Spots
  <2>2. \A i \in 1..L : g.code[i] = f.code[i]
    BY <1>4
  <2> QED
    BY <1>4, <2>1, <2>2 DEF Extends, L
<1>10. N[L] = M[L] /\ L \in 0..L
  BY <1>1, <1>7
<1>11. L \in Starts(g) /\ Takes(g, L) = 0 /\ Puts(g, L) = 0 /\ Width(ds, g, L) = 3
  BY <1>4 DEF Takes, Puts, Width
<1>12. After(g, N, L) = [height |-> h, slot |-> sl]
  <2>1. \A i \in Slot : (IF i <= h THEN sl[i] ELSE Global) = sl[i]
    <3> SUFFICES ASSUME NEW i \in Slot, sl[i] # Global  PROVE i <= h
      OBVIOUS
    <3>1. i \in Nat /\ i <= v /\ v \in Nat /\ v <= h
      BY <1>1 DEF Clear
    <3> QED
      BY <3>1, <1>1
  <2>2. [i \in Slot |-> IF i <= h THEN sl[i] ELSE Global] = sl
    BY <2>1, <1>1
  <2>3. h - 0 = h /\ h + 0 = h
    BY <1>1
  <2> QED
    BY <2>2, <2>3, <1>1, <1>10, <1>11 DEF After
<1>13. Flow(g, N, After(g, N, L), start)
  <2>1. Flow(f, M, After(g, N, L), start)
    BY <1>12
  <2>2. Spots(f) \subseteq Spots(g) /\ f.born \subseteq g.born
    BY <1>4
  <2> QED
    BY <2>1, <2>2, <1>8, FlowStays
<1>14. Runs(ds, g, N, P, L)
  <2>1. L + 3 \in Spots(g)
    BY <1>4
  <2>2. N[L].height > Len(g.params) + Takes(g, L)
    <3>1. h > Len(f.params) /\ Len(f.params) \in Nat
      BY <1>1, CodeBytes DEF Clear
    <3> QED
      BY <3>1, <1>1, <1>4, <1>10, <1>11
  <2>3. to \in g.land /\ to.from = L /\ to.to = start
    BY <1>3
  <2> HIDE DEF to
  <2>4. \E m \in g.land : m.from = L /\ Flow(g, N, After(g, N, L), m.to)
    BY <2>3, <1>13
  <2> QED
    BY <2>1, <2>2, <2>4, <1>4, <1>11 DEF Runs
<1>15. MeantAt(ds, g, N, Global, L)
  BY <1>4 DEF MeantAt
<1>16. Lands(g, P, to)
  <2>1. L \notin P
    BY <1>1, <1>4 DEF Typed
  <2>2. L + 3 - start < 2 * Base => Target(g, L) = start
    <3> SUFFICES ASSUME L + 3 - start < 2 * Base  PROVE Target(g, L) = start
      OBVIOUS
    <3>1. Jump(g, L) = L + 3 - start
      BY <1>3, <1>5, Zenon DEF Jump
    <3>2. L + 3 - (L + 3 - start) = start
      BY <1>1, <1>2
    <3> QED
      BY <3>1, <3>2, <1>4 DEF Target
  <2> QED
    BY <2>1, <2>2, <1>4, <1>11 DEF Lands, Leaps
<1>17. Sources(f, M, F)
  <2>1. \A i \in Slot : sl[i] # Global => Origin(f, M, i, sl[i])
    <3>1. L \in Spots(f) /\ Vars(f, M, dc) /\ M[L].slot = sl
      BY <1>1 DEF Sound, Spots, L
    <3> QED
      BY <3>1 DEF Vars
  <2>2. \A i \in Slot : sl[i] # Global => i <= k
    <3> SUFFICES ASSUME NEW i \in Slot, sl[i] # Global  PROVE i <= k
      OBVIOUS
    <3>1. i \in Nat /\ i <= v /\ v \in Nat
      BY <1>1 DEF Clear
    <3> QED
      BY <3>1
  <2> QED
    BY <2>1, <2>2 DEF Sources, F
<1>18. Grows(ds, ds, f, g, M, N, P, P, {}, Global, dc)
  <2>1. g.land \ f.land \subseteq {to} /\ f.land \subseteq g.land /\ f.gone \subseteq g.gone
        /\ g.gone \ f.gone = {}
    BY <1>3, <1>4
  <2>2. Starts(g) \ Starts(f) = {L} /\ Spots(g) \ Spots(f) \subseteq {L + 3}
    BY <1>4
  <2>3. /\ P \ {} \subseteq P /\ P \subseteq (P \ {}) \cup (Starts(g) \ Starts(f))
        /\ P \ P = {}
    OBVIOUS
  <2>4. \A q \in Spots(g) \ Spots(f) : Sources(f, M, N[q])
    BY <2>2, <1>7, <1>17
  <2>5. \A m \in g.land \ f.land : Lands(g, P, m)
    BY <2>1, <1>16
  <2>6. \A p \in Starts(g) \ Starts(f) : Runs(ds, g, N, P, p) /\ MeantAt(ds, g, N, Global, p)
    BY <2>2, <1>14, <1>15
  <2> HIDE DEF to
  <2> QED
    BY <1>4, <1>7, <1>8, <1>9, <2>1, <2>3, <2>4, <2>5, <2>6 DEF Grows
<1>19. Sound(ds, g, N, P, Global, dc)
  BY <1>1, <1>4, <1>18, Extension
<1>20. Onward(f, M, g, N)
  <2>1. {} \subseteq P
    OBVIOUS
  <2>2. \A q \in Spots(f) : N[q] = M[q]
    BY <1>8
  <2>3. /\ f \in Function /\ g \in Function /\ Typed(ds, f, M, P) /\ Extends(ds, ds, f, g, {})
        /\ g.upvalues = f.upvalues /\ g.params = f.params /\ g.born = f.born /\ g.gone = f.gone
    BY <1>1, <1>4, <1>9
  <2> QED
    BY <2>1, <2>2, <2>3, Further, SMT
<1>21. Coding(ds, dc, g, N, P, k, sl)
  BY <1>4, <1>7, <1>19 DEF Coding, F
<1> QED
  BY <1>4, <1>20, <1>21 DEF Loops, g

-----------------------------------------------------------------------------
(* Work that is done, and work that is added.                              *)

LEMMA Points ==
    ASSUME NEW a, Sane(a)
    PROVE  /\ a \in Point /\ a.level \in Nat /\ a.depth \in Nat /\ a.env \in Nat /\ a.all \in Nat
           /\ a.seen \in Nat /\ a.vars \in Nat /\ a.height \in Nat
           /\ a.level >= 1 /\ a.env >= 1 /\ a.vars >= 1 /\ a.all <= Count
           /\ a.all - 1 <= a.vars /\ a.vars <= a.seen /\ a.seen <= a.all /\ a.vars <= a.height
  BY DEF Sane, Point

LEMMA Raised ==
    ASSUME NEW a \in Point, NEW n
    PROVE  /\ Raise(a, n).level = a.level /\ Raise(a, n).depth = a.depth /\ Raise(a, n).env = a.env
           /\ Raise(a, n).all = a.all /\ Raise(a, n).seen = a.seen /\ Raise(a, n).vars = a.vars
           /\ Raise(a, n).height = a.height + n
  BY DEF Raise, Point

LEMMA Pushed ==
    ASSUME NEW S, NEW T, NEW s \in Seq(S), NEW x \in T
    PROVE  /\ Len(<<x>> \o s) = Len(s) + 1 /\ DOMAIN (<<x>> \o s) = 1..Len(s) + 1
           /\ (<<x>> \o s)[1] = x /\ \A i \in 1..Len(s) : (<<x>> \o s)[i + 1] = s[i]
           /\ Tail(<<x>> \o s) = s
<1>1. s \in Seq(S \cup T) /\ <<x>> \in Seq(S \cup T) /\ Len(s) \in Nat
  OBVIOUS
<1> QED
  BY <1>1

LEMMA Popped ==
    ASSUME NEW S, NEW s \in Seq(S), Len(s) >= 1
    PROVE  /\ Tail(s) \in Seq(S) /\ Len(Tail(s)) = Len(s) - 1 /\ DOMAIN Tail(s) = 1..Len(s) - 1
           /\ \A i \in 1..Len(s) - 1 : Tail(s)[i] = s[i + 1]
           /\ s = <<s[1]>> \o Tail(s) /\ Head(s) = s[1] /\ s[1] \in S
<1>1. s # <<>>
  OBVIOUS
<1>2. Head(s) = s[1] /\ s[1] \in S /\ Tail(s) \in Seq(S) /\ Len(Tail(s)) = Len(s) - 1
  BY <1>1
<1>3. \A i \in 1..Len(s) - 1 : Tail(s)[i] = s[i + 1]
  BY <1>1
<1>4. s = <<s[1]>> \o Tail(s)
  BY <1>1, <1>2, <1>3
<1> QED
  BY <1>2, <1>3, <1>4

\* The first item is done.
LEMMA Pop ==
    ASSUME NEW S, NEW wk \in Seq(S), NEW ctx \in Seq(Point), NEW ch, NEW en, NEW maps,
           Listed(ch, en, maps, wk, ctx), Len(wk) >= 2
    PROVE  Listed(ch, en, maps, Tail(wk), Tail(ctx))
<1> DEFINE n == Len(wk)
           tw == Tail(wk)
           tc == Tail(ctx)
<1>1. n \in Nat /\ Len(ctx) = n
  BY DEF Listed
<1>2. /\ Len(tw) = n - 1 /\ DOMAIN tw = 1..n - 1 /\ \A i \in 1..n - 1 : tw[i] = wk[i + 1]
      /\ Len(tc) = n - 1 /\ DOMAIN tc = 1..n - 1 /\ \A i \in 1..n - 1 : tc[i] = ctx[i + 1]
  BY <1>1, Popped
<1>3. /\ \A i \in 1..n : Fine(ch, ctx[i]) /\ (wk[i].k # "define" => ctx[i].vars = ctx[i].seen)
      /\ \A i \in 1..n - 1 : Link(ch, en, maps, wk[i], ctx[i], wk[i + 1], ctx[i + 1])
      /\ \A i, j \in 1..n : i < j =>
           /\ Within(wk[i], ctx[i], ctx[j])
           /\ ctx[i].level = ctx[j].level => Holes(wk[i]) \cap Holes(wk[j]) = {}
      /\ \A i \in 2..n : wk[i].k # "parameters"
  BY DEF Listed
<1> HIDE DEF tw, tc, n
<1>4. \A i \in 1..n - 1 :
        /\ i + 1 \in 1..n /\ Fine(ch, tc[i])
        /\ tw[i].k # "define" => tc[i].vars = tc[i].seen
  <2> SUFFICES ASSUME NEW i \in 1..n - 1
               PROVE  /\ i + 1 \in 1..n /\ Fine(ch, tc[i])
                      /\ tw[i].k # "define" => tc[i].vars = tc[i].seen
    OBVIOUS
  <2>1. i + 1 \in 1..n
    BY <1>1
  <2>2. tw[i] = wk[i + 1] /\ tc[i] = ctx[i + 1]
    BY <1>2
  <2> QED
    BY <2>1, <2>2, <1>3
<1>5. \A i \in 1..(n - 1) - 1 : Link(ch, en, maps, tw[i], tc[i], tw[i + 1], tc[i + 1])
  <2> SUFFICES ASSUME NEW i \in 1..(n - 1) - 1
               PROVE  Link(ch, en, maps, tw[i], tc[i], tw[i + 1], tc[i + 1])
    OBVIOUS
  <2>1. i \in 1..n - 1 /\ i + 1 \in 1..n - 1
    BY <1>1
  <2>2. Link(ch, en, maps, wk[i + 1], ctx[i + 1], wk[(i + 1) + 1], ctx[(i + 1) + 1])
    BY <2>1, <1>3
  <2>3. tw[i] = wk[i + 1] /\ tw[i + 1] = wk[(i + 1) + 1] /\ tc[i] = ctx[i + 1] /\ tc[i + 1] = ctx[(i + 1) + 1]
    BY <2>1, <1>2
  <2> QED
    BY <2>2, <2>3
<1>6. \A i, j \in 1..n - 1 : i < j =>
           /\ Within(tw[i], tc[i], tc[j])
           /\ tc[i].level = tc[j].level => Holes(tw[i]) \cap Holes(tw[j]) = {}
  <2> SUFFICES ASSUME NEW i \in 1..n - 1, NEW j \in 1..n - 1, i < j
               PROVE  /\ Within(tw[i], tc[i], tc[j])
                      /\ tc[i].level = tc[j].level => Holes(tw[i]) \cap Holes(tw[j]) = {}
    OBVIOUS
  <2>1. i + 1 \in 1..n /\ j + 1 \in 1..n /\ i + 1 < j + 1
    BY <1>1
  <2>2. /\ Within(wk[i + 1], ctx[i + 1], ctx[j + 1])
        /\ ctx[i + 1].level = ctx[j + 1].level => Holes(wk[i + 1]) \cap Holes(wk[j + 1]) = {}
    BY <2>1, <1>3
  <2>3. tw[i] = wk[i + 1] /\ tw[j] = wk[j + 1] /\ tc[i] = ctx[i + 1] /\ tc[j] = ctx[j + 1]
    BY <1>2
  <2> QED
    BY <2>2, <2>3
<1>7. \A i \in 2..n - 1 : tw[i].k # "parameters"
  BY <1>1, <1>2, <1>3
<1>8. tw[n - 1] = wk[n] /\ tc[n - 1] = ctx[n] /\ n - 1 \in Nat /\ n - 1 >= 1
  <2>1. n - 1 \in 1..n - 1 /\ (n - 1) + 1 = n
    BY <1>1 DEF n
  <2> QED
    BY <2>1, <1>2
<1>9. LET w == wk[n]
          a == ctx[n]
      IN  w.k = "endScript" /\ a.level = 1 /\ a.depth = 0 /\ a.env = 1 /\ Settled(a)
  BY DEF Listed, n
<1>10. Listed(ch, en, maps, tw, tc)
  BY <1>2, <1>4, <1>5, <1>6, <1>7, <1>8, <1>9 DEF Listed
<1> QED
  BY <1>10 DEF tw, tc

LEMMA WithinTwice ==
    ASSUME NEW ch, NEW w, NEW a, NEW v, NEW b, NEW c, Fine(ch, a), Fine(ch, b), Fine(ch, c),
           Within(w, a, b), Within(v, b, c)
    PROVE  Within(w, a, c)
<1>1. /\ a.level \in Nat /\ a.depth \in Nat /\ a.env \in Nat /\ a.all \in Nat
      /\ b.level \in Nat /\ b.depth \in Nat /\ b.env \in Nat /\ b.all \in Nat
      /\ c.level \in Nat /\ c.depth \in Nat /\ c.env \in Nat /\ c.all \in Nat
  BY Points DEF Fine
<1> QED
  BY <1>1 DEF Within

\* An item is added before the others.
LEMMA Push ==
    ASSUME NEW S, NEW wk \in Seq(S), NEW ctx \in Seq(Point), NEW ch, NEW en, NEW maps,
           Listed(ch, en, maps, wk, ctx), NEW T, NEW w \in T, NEW a,
           Fresh(ch, en, maps, wk, ctx, w, a)
    PROVE  Listed(ch, en, maps, <<w>> \o wk, <<a>> \o ctx)
<1> DEFINE n == Len(wk)
           pw == <<w>> \o wk
           pc == <<a>> \o ctx
<1>0. a \in Point
  BY Points DEF Fresh, Fine
<1>1. /\ n \in Nat /\ n >= 1 /\ Len(ctx) = n
      /\ \A i \in 1..n : Fine(ch, ctx[i]) /\ (wk[i].k # "define" => ctx[i].vars = ctx[i].seen)
      /\ \A i \in 1..n - 1 : Link(ch, en, maps, wk[i], ctx[i], wk[i + 1], ctx[i + 1])
      /\ \A i, j \in 1..n : i < j =>
           /\ Within(wk[i], ctx[i], ctx[j])
           /\ ctx[i].level = ctx[j].level => Holes(wk[i]) \cap Holes(wk[j]) = {}
      /\ \A i \in 2..n : wk[i].k # "parameters"
  BY DEF Listed
<1>2. /\ Len(pw) = n + 1 /\ DOMAIN pw = 1..n + 1 /\ pw[1] = w /\ \A i \in 1..n : pw[i + 1] = wk[i]
      /\ Len(pc) = n + 1 /\ DOMAIN pc = 1..n + 1 /\ pc[1] = a /\ \A i \in 1..n : pc[i + 1] = ctx[i]
  BY <1>0, <1>1, Pushed
<1>3. /\ Fine(ch, a) /\ (w.k # "define" => a.vars = a.seen)
      /\ Link(ch, en, maps, w, a, wk[1], ctx[1]) /\ wk[1].k # "parameters"
      /\ Holes(w) \cap Pending(wk, ctx, a.level) = {}
  BY DEF Fresh
<1>4. \A j \in 1..n : a.level = ctx[j].level => Holes(w) \cap Holes(wk[j]) = {}
  BY <1>3 DEF Pending
<1>5. \A j \in 1..n : Within(w, a, ctx[j])
  <2> SUFFICES ASSUME NEW j \in 1..n  PROVE Within(w, a, ctx[j])
    OBVIOUS
  <2>1. Within(w, a, ctx[1])
    BY <1>3 DEF Link
  <2>2. CASE j = 1
    BY <2>1, <2>2
  <2>3. CASE j # 1
    <3>1. 1 \in 1..n /\ 1 < j
      BY <1>1, <2>3
    <3>2. Within(wk[1], ctx[1], ctx[j]) /\ Fine(ch, ctx[1]) /\ Fine(ch, ctx[j])
      BY <3>1, <1>1
    <3> QED
      BY <2>1, <3>2, <1>3, WithinTwice
  <2> QED
    BY <2>2, <2>3
<1>6. ASSUME NEW i \in 1..n + 1, i # 1  PROVE \E j \in 1..n : i = j + 1 /\ pw[i] = wk[j] /\ pc[i] = ctx[j]
  <2>1. i - 1 \in 1..n /\ i = (i - 1) + 1
    BY <1>1, <1>6
  <2> QED
    BY <2>1, <1>2
<1>7. LET v == wk[n]
          b == ctx[n]
      IN  v.k = "endScript" /\ b.level = 1 /\ b.depth = 0 /\ b.env = 1 /\ Settled(b)
  BY DEF Listed
<1>8. pw[n + 1] = wk[n] /\ pc[n + 1] = ctx[n] /\ pw[1 + 1] = wk[1] /\ pc[1 + 1] = ctx[1]
  <2>1. n \in 1..n /\ 1 \in 1..n
    BY <1>1
  <2> QED
    BY <2>1, <1>2
<1> HIDE DEF pw, pc, n
<1>9. \A i \in 1..n + 1 : Fine(ch, pc[i]) /\ (pw[i].k # "define" => pc[i].vars = pc[i].seen)
  <2> SUFFICES ASSUME NEW i \in 1..n + 1
               PROVE  Fine(ch, pc[i]) /\ (pw[i].k # "define" => pc[i].vars = pc[i].seen)
    OBVIOUS
  <2>1. CASE i = 1
    BY <2>1, <1>2, <1>3
  <2>2. CASE i # 1
    BY <2>2, <1>1, <1>6
  <2> QED
    BY <2>1, <2>2
<1>10. \A i \in 1..(n + 1) - 1 : Link(ch, en, maps, pw[i], pc[i], pw[i + 1], pc[i + 1])
  <2> SUFFICES ASSUME NEW i \in 1..n  PROVE Link(ch, en, maps, pw[i], pc[i], pw[i + 1], pc[i + 1])
    BY <1>1
  <2>1. CASE i = 1
    BY <2>1, <1>2, <1>3, <1>8
  <2>2. CASE i # 1
    <3>1. i \in 1..n + 1
      BY <1>1
    <3>2. PICK j \in 1..n : i = j + 1 /\ pw[i] = wk[j] /\ pc[i] = ctx[j]
      BY <3>1, <2>2, <1>6
    <3>3. j \in 1..n - 1 /\ pw[i + 1] = wk[j + 1] /\ pc[i + 1] = ctx[j + 1]
      <4>1. j \in 1..n - 1 /\ i = j + 1
        BY <3>2, <1>1
      <4> QED
        BY <4>1, <1>2
    <3> QED
      BY <3>2, <3>3, <1>1
  <2> QED
    BY <2>1, <2>2
<1>11. \A i, j \in 1..n + 1 : i < j =>
           /\ Within(pw[i], pc[i], pc[j])
           /\ pc[i].level = pc[j].level => Holes(pw[i]) \cap Holes(pw[j]) = {}
  <2> SUFFICES ASSUME NEW i \in 1..n + 1, NEW j \in 1..n + 1, i < j
               PROVE  /\ Within(pw[i], pc[i], pc[j])
                      /\ pc[i].level = pc[j].level => Holes(pw[i]) \cap Holes(pw[j]) = {}
    OBVIOUS
  <2>1. j # 1
    BY <1>1
  <2>2. PICK l \in 1..n : j = l + 1 /\ pw[j] = wk[l] /\ pc[j] = ctx[l]
    BY <2>1, <1>6
  <2>3. CASE i = 1
    BY <2>2, <2>3, <1>2, <1>4, <1>5
  <2>4. CASE i # 1
    <3>1. PICK m \in 1..n : i = m + 1 /\ pw[i] = wk[m] /\ pc[i] = ctx[m]
      BY <2>4, <1>6
    <3>2. m < l
      BY <2>2, <3>1, <1>1
    <3> QED
      BY <2>2, <3>1, <3>2, <1>1
  <2> QED
    BY <2>3, <2>4
<1>12. \A i \in 2..n + 1 : pw[i].k # "parameters"
  <2> SUFFICES ASSUME NEW i \in 2..n + 1  PROVE pw[i].k # "parameters"
    OBVIOUS
  <2>1. i \in 1..n + 1 /\ i # 1
    BY <1>1
  <2>2. PICK j \in 1..n : i = j + 1 /\ pw[i] = wk[j] /\ pc[i] = ctx[j]
    BY <2>1, <1>6
  <2>3. j = 1 \/ j \in 2..n
    BY <1>1
  <2> QED
    BY <2>2, <2>3, <1>1, <1>3
<1>13. n + 1 \in Nat /\ n + 1 >= 1
  BY <1>1
<1>14. Listed(ch, en, maps, pw, pc)
  BY <1>2, <1>7, <1>8, <1>9, <1>10, <1>11, <1>12, <1>13 DEF Listed
<1> QED
  BY <1>14 DEF pw, pc

LEMMA PendingPush ==
    ASSUME NEW S, NEW wk \in Seq(S), NEW ctx \in Seq(Point), Len(ctx) = Len(wk),
           NEW T, NEW w \in T, NEW a \in Point, NEW k
    PROVE  Pending(<<w>> \o wk, <<a>> \o ctx, k) =
               (IF a.level = k THEN Holes(w) ELSE {}) \cup Pending(wk, ctx, k)
<1> DEFINE n == Len(wk)
           pw == <<w>> \o wk
           pc == <<a>> \o ctx
<1>1. /\ n \in Nat /\ Len(pw) = n + 1 /\ pw[1] = w /\ \A i \in 1..n : pw[i + 1] = wk[i]
      /\ pc[1] = a /\ \A i \in 1..n : pc[i + 1] = ctx[i]
  BY Pushed
<1> HIDE DEF pw, pc, n
<1>2. \A h : h \in Pending(pw, pc, k) <=> \E i \in 1..n + 1 : pc[i].level = k /\ h \in Holes(pw[i])
  BY <1>1 DEF Pending
<1>3. \A h : h \in Pending(wk, ctx, k) <=> \E i \in 1..n : ctx[i].level = k /\ h \in Holes(wk[i])
  BY DEF Pending, n
<1>4. \A i \in 1..n + 1 : i = 1 \/ (i - 1 \in 1..n /\ i = (i - 1) + 1)
  BY <1>1
<1>5. 1 \in 1..n + 1 /\ \A i \in 1..n : i + 1 \in 1..n + 1
  BY <1>1
<1>6. ASSUME NEW h, h \in Pending(pw, pc, k)
      PROVE  h \in (IF a.level = k THEN Holes(w) ELSE {}) \cup Pending(wk, ctx, k)
  <2>1. PICK i \in 1..n + 1 : pc[i].level = k /\ h \in Holes(pw[i])
    BY <1>2, <1>6
  <2>2. CASE i = 1
    BY <2>1, <2>2, <1>1
  <2>3. CASE i # 1
    <3>1. i - 1 \in 1..n /\ pc[i] = ctx[i - 1] /\ pw[i] = wk[i - 1]
      BY <2>3, <1>1, <1>4
    <3> QED
      BY <2>1, <3>1, <1>3
  <2> QED
    BY <2>2, <2>3
<1>7. ASSUME NEW h, h \in (IF a.level = k THEN Holes(w) ELSE {}) \cup Pending(wk, ctx, k)
      PROVE  h \in Pending(pw, pc, k)
  <2>1. CASE h \in Pending(wk, ctx, k)
    <3>1. PICK i \in 1..n : ctx[i].level = k /\ h \in Holes(wk[i])
      BY <2>1, <1>3
    <3> QED
      BY <3>1, <1>1, <1>2, <1>5
  <2>2. CASE h \notin Pending(wk, ctx, k)
    BY <2>2, <1>1, <1>2, <1>5, <1>7
  <2> QED
    BY <2>1, <2>2
<1>8. Pending(pw, pc, k) = (IF a.level = k THEN Holes(w) ELSE {}) \cup Pending(wk, ctx, k)
  BY <1>6, <1>7
<1> QED
  BY <1>8 DEF pw, pc

LEMMA PendingPop ==
    ASSUME NEW S, NEW wk \in Seq(S), NEW ctx \in Seq(Point), NEW ch, NEW en, NEW maps,
           Listed(ch, en, maps, wk, ctx), Len(wk) >= 2, NEW k
    PROVE  /\ Pending(wk, ctx, k) = (IF ctx[1].level = k THEN Holes(wk[1]) ELSE {})
                                        \cup Pending(Tail(wk), Tail(ctx), k)
           /\ ctx[1].level = k => Holes(wk[1]) \cap Pending(Tail(wk), Tail(ctx), k) = {}
<1> DEFINE n == Len(wk)
           tw == Tail(wk)
           tc == Tail(ctx)
<1>1. n \in Nat /\ Len(ctx) = n /\ n >= 2
  BY DEF Listed
<1>2. /\ tw \in Seq(S) /\ tc \in Seq(Point) /\ Len(tw) = n - 1 /\ Len(tc) = n - 1
      /\ wk = <<wk[1]>> \o tw /\ ctx = <<ctx[1]>> \o tc /\ ctx[1] \in Point /\ wk[1] \in S
      /\ \A i \in 1..n - 1 : tw[i] = wk[i + 1] /\ tc[i] = ctx[i + 1]
  BY <1>1, Popped
<1> HIDE DEF tw, tc
<1>3. Pending(<<wk[1]>> \o tw, <<ctx[1]>> \o tc, k) =
          (IF ctx[1].level = k THEN Holes(wk[1]) ELSE {}) \cup Pending(tw, tc, k)
  <2>1. tw \in Seq(S) /\ tc \in Seq(Point) /\ Len(tc) = Len(tw) /\ wk[1] \in S /\ ctx[1] \in Point
    BY <1>2
  <2> QED
    BY <2>1, PendingPush
<1>4. Pending(wk, ctx, k) = (IF ctx[1].level = k THEN Holes(wk[1]) ELSE {}) \cup Pending(tw, tc, k)
  BY <1>2, <1>3
<1>5. ASSUME ctx[1].level = k, NEW h \in Holes(wk[1]), h \in Pending(tw, tc, k)  PROVE FALSE
  <2>1. PICK i \in 1..Len(tw) : tc[i].level = k /\ h \in Holes(tw[i])
    BY <1>5 DEF Pending
  <2>2. i + 1 \in 1..n /\ 1 \in 1..n /\ 1 < i + 1 /\ tw[i] = wk[i + 1] /\ tc[i] = ctx[i + 1]
    BY <2>1, <1>1, <1>2
  <2>3. Holes(wk[1]) \cap Holes(wk[i + 1]) = {}
    BY <2>1, <2>2, <1>5 DEF Listed, n
  <2> QED
    BY <2>1, <2>2, <2>3, <1>5
<1> QED
  BY <1>4, <1>5 DEF tw, tc

LEMMA SameKeeps ==
    ASSUME NEW c, NEW M, NEW d, NEW N, Same(c, M, d, N), NEW v \in Nat, v <= Len(c.locals),
           DOMAIN c.locals = 1..Len(c.locals), Len(c.locals) \in Nat, NEW dep
    PROVE  Keeps(c, M, d, N, v, dep)
<1>1. Starts(d.f) = Starts(c.f) /\ Spots(d.f) = Spots(c.f) /\ N = M
  BY DEF Same, Starts, Spots
<1>2. \A p : Takes(d.f, p) = Takes(c.f, p) /\ Puts(d.f, p) = Puts(c.f, p)
  BY DEF Same, Takes, Puts, Operation, Operand, Instruction
<1>3. \A p : After(d.f, N, p) = After(c.f, M, p)
  BY <1>1, <1>2 DEF After
<1>4. \A l \in 1..v : l \in DOMAIN c.locals
  OBVIOUS
<1>5. DOMAIN d.locals \subseteq Nat
  BY DEF Same
<1> QED
  BY <1>1, <1>3, <1>4, <1>5 DEF Keeps, Same, Settles

LEMMA StackStays ==
    ASSUME NEW c, NEW M, NEW d, NEW N, NEW v \in Nat, NEW dep, Keeps(c, M, d, N, v, dep),
           NEW a, a.vars \in Nat, a.vars <= v
    PROVE  Stack(d, a) = Stack(c, a)
<1>1. \A i \in Slot : i \in Nat /\ i >= 1
  BY CompilerConstants DEF Slot
<1>2. \A i \in Slot : i <= a.vars => d.locals[i].decl = c.locals[i].decl
  <2> SUFFICES ASSUME NEW i \in Slot, i <= a.vars  PROVE d.locals[i].decl = c.locals[i].decl
    OBVIOUS
  <2>1. i \in 1..v
    BY <1>1
  <2> QED
    BY <2>1 DEF Keeps
<1> QED
  BY <1>2 DEF Stack, SlotsOf

LEMMA HoldsStay ==
    ASSUME NEW w, NEW a, NEW b, NEW c, NEW M, NEW d, NEW N, NEW v \in Nat, NEW dep \in Nat,
           Holds(w, a, b, c, M), Keeps(c, M, d, N, v, dep), Sane(a), Sane(b),
           a.all <= v, w.k = "endScope" => b.all <= v, a.depth <= dep, w.k # "parameters"
    PROVE  Holds(w, a, b, d, N)
<1>1. /\ a \in Point /\ a.vars \in Nat /\ a.vars <= v /\ a.depth \in Nat
      /\ b.all \in Nat
  BY Points
<1>2. ASSUME NEW x, x.vars = a.vars  PROVE Stack(d, x) = Stack(c, x)
  BY <1>1, <1>2, StackStays
<1>3. Stack(d, a) = Stack(c, a) /\ \A n : Stack(d, Raise(a, n)) = Stack(c, Raise(a, n))
  BY <1>1, <1>2, Raised
<1>4. \A o, s : Hole(c, M, o, s) => Hole(d, N, o, s)
  BY DEF Hole, Keeps
<1>5. \A s, q : Flow(c.f, M, s, q) => Flow(d.f, N, s, q)
  BY DEF Flow, Keeps, Settles
<1>6. w.k = "endScope" => \A l \in DOMAIN d.locals : l <= b.all <=> d.locals[l].depth \in 0..a.depth - 1
  <2> SUFFICES ASSUME w.k = "endScope", NEW l \in DOMAIN d.locals
               PROVE  l <= b.all <=> d.locals[l].depth \in 0..a.depth - 1
    OBVIOUS
  <2>1. CASE l \in DOMAIN c.locals /\ d.locals[l].depth = c.locals[l].depth
    BY <2>1 DEF Holds
  <2>2. CASE l > v /\ d.locals[l].depth \notin 0..dep - 1
    <3>0. b.all <= v
      OBVIOUS
    <3>1. d.locals[l].depth \notin 0..a.depth - 1
      BY <2>2, <1>1
    <3>2. ~ (l <= b.all)
      <4>1. l \in Nat
        BY DEF Keeps
      <4> QED
        BY <4>1, <2>2, <1>1, <3>0
    <3> QED
      BY <3>1, <3>2
  <2>3. CASE /\ l \in DOMAIN c.locals /\ c.locals[l].depth \notin 0..dep - 1
             /\ d.locals[l].depth \notin 0..dep - 1
    <3>1. d.locals[l].depth \notin 0..a.depth - 1 /\ c.locals[l].depth \notin 0..a.depth - 1
      BY <2>3, <1>1
    <3>2. ~ (l <= b.all)
      BY <2>3, <3>1 DEF Holds
    <3> QED
      BY <3>1, <3>2
  <2> QED
    BY <2>1, <2>2, <2>3 DEF Keeps
<1>7. \A op, e, arg : Refers(c, a.vars, op, e, arg) => Refers(d, a.vars, op, e, arg)
  <2>1. \A arg : arg + 1 \in 1..a.vars => arg + 1 \in 1..v
    BY <1>1
  <2> QED
    BY <2>1 DEF Refers, Keeps
<1> QED
  BY <1>3, <1>4, <1>5, <1>6, <1>7 DEF Holds

LEMMA BindsStay ==
    ASSUME NEW ch, NEW es, NEW k \in Nat, NEW n, SameNames(ch, es, k, n), NEW x, NEW d,
           Binds(ch, k, n, x, d)
    PROVE  Binds(es, k, n, x, d)
<1>1. ASSUME NEW j \in 1..k  PROVE Visible(es, k, n, j, x) = Visible(ch, k, n, j, x)
  <2> DEFINE L == IF j = k THEN n ELSE Len(ch[j].locals)
  <2>1. /\ (IF j = k THEN n ELSE Len(es[j].locals)) = L
        /\ \A l \in 1..L : es[j].locals[l].name = ch[j].locals[l].name
    BY DEF SameNames
  <2> QED
    BY <2>1 DEF Visible
<1>2. \A j \in 1..k : \A l \in Visible(ch, k, n, j, x) : es[j].locals[l].decl = ch[j].locals[l].decl
  BY DEF Visible, SameNames
<1>3. CASE d = Global /\ \A j \in 1..k : Visible(ch, k, n, j, x) = {}
  BY <1>1, <1>3 DEF Binds
<1>4. CASE \E j \in 1..k : \E l \in Visible(ch, k, n, j, x) :
             /\ d = ch[j].locals[l].decl
             /\ \A m \in Visible(ch, k, n, j, x) : m <= l
             /\ \A i \in j + 1..k : Visible(ch, k, n, i, x) = {}
  <2>0. PICK j \in 1..k : \E l \in Visible(ch, k, n, j, x) :
             /\ d = ch[j].locals[l].decl
             /\ \A m \in Visible(ch, k, n, j, x) : m <= l
             /\ \A i \in j + 1..k : Visible(ch, k, n, i, x) = {}
    BY <1>4
  <2>1. PICK l \in Visible(ch, k, n, j, x) :
             /\ d = ch[j].locals[l].decl
             /\ \A m \in Visible(ch, k, n, j, x) : m <= l
             /\ \A i \in j + 1..k : Visible(ch, k, n, i, x) = {}
    BY <2>0
  <2>2. \A i \in j + 1..k : i \in 1..k
    OBVIOUS
  <2>3. /\ l \in Visible(es, k, n, j, x) /\ d = es[j].locals[l].decl
        /\ \A m \in Visible(es, k, n, j, x) : m <= l
        /\ \A i \in j + 1..k : Visible(es, k, n, i, x) = {}
    BY <2>1, <2>2, <1>1, <1>2
  <2> QED
    BY <2>3 DEF Binds
<1> QED
  BY <1>3, <1>4 DEF Binds

LEMMA NamedStays ==
    ASSUME NEW ch, NEW es, NEW en, NEW fn, NEW a, Named(ch, en, a), a.level \in Nat,
           SameNames(ch, es, a.level, a.seen), fn[a.env] = en[a.env]
    PROVE  Named(es, fn, a)
  BY BindsStay DEF Named

LEMMA HereStays ==
    ASSUME NEW c, NEW M, NEW d, NEW N, Same(c, M, d, N), NEW a, NEW s, Here(c, M, a, s),
           DOMAIN c.locals = 1..Len(c.locals), Len(c.locals) \in Nat, Len(c.locals) >= 1
    PROVE  Here(d, N, a, s)
<1>1. Len(c.locals) \in DOMAIN c.locals /\ (a.vars < a.all => a.all \in DOMAIN c.locals)
  BY DEF Here
<1> QED
  BY <1>1 DEF Here, Same

LEMMA KeepsLess ==
    ASSUME NEW c, NEW M, NEW d, NEW N, NEW v \in Nat, NEW dep \in Nat, Keeps(c, M, d, N, v, dep),
           NEW u \in Nat, u <= v, NEW e \in Nat, e <= dep
    PROVE  Keeps(c, M, d, N, u, e)
<1>1. \A l \in 1..u : l \in 1..v
  OBVIOUS
<1>2. \A x : x \notin 0..dep - 1 => x \notin 0..e - 1
  OBVIOUS
<1>3. \A l \in Nat : l > v => l > u
  OBVIOUS
<1>4. u <= Len(d.locals)
  <2>1. v <= Len(d.locals) /\ DOMAIN d.locals \subseteq Nat
    BY DEF Keeps
  <2> QED
    BY <2>1
<1> QED
  BY <1>1, <1>2, <1>3, <1>4 DEF Keeps

\* What is left to do is not disturbed by what happens further in.
LEMMA RestStays ==
    ASSUME NEW wk, NEW ctx, NEW ch, NEW en, NEW maps, Listed(ch, en, maps, wk, ctx),
           NEW es, NEW fn, NEW naps, NEW t, t = ctx[1].level,
           t \in DOMAIN es,
           \A k \in 1..t - 1 : /\ k \in DOMAIN es /\ Same(ch[k], maps[k], es[k], naps[k])
                               /\ Len(ch[k].locals) \in Nat /\ Len(ch[k].locals) >= 1
                               /\ DOMAIN ch[k].locals = 1..Len(ch[k].locals),
           Keeps(ch[t], maps[t], es[t], naps[t], ctx[1].all, ctx[1].depth),
           \A e \in 1..ctx[1].env - 1 : fn[e] = en[e],
           wk[1].k # "parameters"
    PROVE  Listed(es, fn, naps, wk, ctx)
<1> DEFINE n == Len(wk)
<1>1. /\ n \in Nat /\ n >= 1 /\ 1 \in 1..n
      /\ \A i \in 1..n : Fine(ch, ctx[i])
      /\ \A i \in 1..n - 1 : Link(ch, en, maps, wk[i], ctx[i], wk[i + 1], ctx[i + 1])
      /\ \A i, j \in 1..n : i < j => Within(wk[i], ctx[i], ctx[j])
      /\ \A i \in 2..n : wk[i].k # "parameters"
  BY DEF Listed
<1>2. /\ t \in Nat /\ t >= 1 /\ ctx[1].all \in Nat /\ ctx[1].depth \in Nat /\ ctx[1].env \in Nat
      /\ \A i \in 1..n : Sane(ctx[i])
  BY <1>1, Points DEF Fine
<1> HIDE DEF n
<1>3. ASSUME NEW i \in 1..n
      PROVE  /\ ctx[i].level \in 1..t /\ ctx[i].env \in Nat /\ ctx[i].env <= ctx[1].env
             /\ ctx[i].all \in Nat /\ ctx[i].depth \in Nat /\ ctx[i].seen \in Nat
             /\ ctx[i].seen <= ctx[i].all
             /\ ctx[i].level = t => ctx[i].all <= ctx[1].all /\ ctx[i].depth <= ctx[1].depth
  <2>1. /\ ctx[i].level \in Nat /\ ctx[i].level >= 1 /\ ctx[i].env \in Nat
        /\ ctx[i].all \in Nat /\ ctx[i].depth \in Nat /\ ctx[i].seen \in Nat
        /\ ctx[i].seen <= ctx[i].all
    BY <1>2, Points
  <2>2. CASE i = 1
    BY <2>1, <2>2, <1>2
  <2>3. CASE i # 1
    <3>1. 1 < i
      BY <2>3, <1>1
    <3>2. Within(wk[1], ctx[1], ctx[i])
      BY <3>1, <1>1
    <3> QED
      BY <2>1, <3>2, <1>2 DEF Within
  <2> QED
    BY <2>2, <2>3
<1>4. \A k \in 1..t : k = t \/ k \in 1..t - 1
  BY <1>2
<1>5. ASSUME NEW i \in 1..n
      PROVE  Keeps(ch[ctx[i].level], maps[ctx[i].level], es[ctx[i].level], naps[ctx[i].level],
                   ctx[i].all, ctx[i].depth)
  <2>1. CASE ctx[i].level = t
    BY <2>1, <1>2, <1>3, KeepsLess
  <2>2. CASE ctx[i].level # t
    <3>1. ctx[i].level \in 1..t - 1 /\ ctx[i].all \in Nat
      BY <2>2, <1>3, <1>4
    <3>2. ctx[i].all <= Len(ch[ctx[i].level].locals)
      BY <1>1 DEF Fine
    <3> QED
      BY <3>1, <3>2, SameKeeps
  <2> QED
    BY <2>1, <2>2
<1>6. \A i \in 1..n : Fine(es, ctx[i])
  <2> SUFFICES ASSUME NEW i \in 1..n  PROVE Fine(es, ctx[i])
    OBVIOUS
  <2>1. ctx[i].level \in DOMAIN es
    BY <1>3, <1>4
  <2>2. /\ es[ctx[i].level].f.params = ch[ctx[i].level].f.params
        /\ ctx[i].all <= Len(es[ctx[i].level].locals)
    BY <1>5 DEF Keeps
  <2> QED
    BY <2>1, <2>2, <1>1 DEF Fine
<1>7. ASSUME NEW i \in 1..n - 1, wk[i].k \in {"endScope", "endFunction"}
      PROVE  Named(es, fn, ctx[i + 1])
  <2>1. i \in 1..n /\ i + 1 \in 1..n
    BY <1>1
  <2>2. Named(ch, en, ctx[i + 1]) /\ ctx[i + 1].env < ctx[i].env
    BY <1>1, <1>7 DEF Link, Within
  <2>3. ctx[i + 1].env \in 1..ctx[1].env - 1
    <3>1. Sane(ctx[i + 1]) /\ ctx[i].env <= ctx[1].env /\ ctx[i].env \in Nat
      BY <2>1, <1>2, <1>3
    <3>2. ctx[i + 1].env \in Nat /\ ctx[i + 1].env >= 1
      BY <3>1, Points
    <3> QED
      BY <3>1, <3>2, <2>2, <1>2
  <2>4. SameNames(ch, es, ctx[i + 1].level, ctx[i + 1].seen)
    <3> DEFINE b == ctx[i + 1]
    <3>1. /\ Keeps(ch[b.level], maps[b.level], es[b.level], naps[b.level], b.all, b.depth)
          /\ b.level \in 1..t /\ b.seen \in Nat /\ b.all \in Nat /\ b.seen <= b.all
      BY <2>1, <1>3, <1>5
    <3> HIDE DEF b
    <3>2. \A l \in 1..b.seen : l \in 1..b.all
      BY <3>1
    <3>3. \A j \in 1..b.level : j = b.level \/ j \in 1..t - 1
      BY <3>1, <1>2
    <3>4. \A l \in 1..b.seen : /\ es[b.level].locals[l].name = ch[b.level].locals[l].name
                               /\ es[b.level].locals[l].decl = ch[b.level].locals[l].decl
      BY <3>1, <3>2 DEF Keeps
    <3>5. \A j \in 1..t - 1 : /\ Len(es[j].locals) = Len(ch[j].locals)
                              /\ \A l \in 1..Len(ch[j].locals) :
                                     /\ es[j].locals[l].name = ch[j].locals[l].name
                                     /\ es[j].locals[l].decl = ch[j].locals[l].decl
      BY DEF Same
    <3>6. SameNames(ch, es, b.level, b.seen)
      BY <3>3, <3>4, <3>5 DEF SameNames
    <3> QED
      BY <3>6 DEF b
  <2>5. ctx[i + 1].level \in Nat
    BY <2>1, <1>3
  <2> QED
    BY <2>2, <2>3, <2>4, <2>5, NamedStays
<1>8. ASSUME NEW i \in 1..n - 1
      PROVE  Link(es, fn, naps, wk[i], ctx[i], wk[i + 1], ctx[i + 1])
  <2> DEFINE a == ctx[i]
             b == ctx[i + 1]
  <2>1. i \in 1..n /\ i + 1 \in 1..n
    BY <1>1
  <2>2. Link(ch, en, maps, wk[i], a, wk[i + 1], b)
    BY <1>1
  <2>3. /\ a.level \in 1..t /\ b.level \in 1..t /\ a.all \in Nat /\ a.depth \in Nat /\ Sane(a) /\ Sane(b)
        /\ Keeps(ch[a.level], maps[a.level], es[a.level], naps[a.level], a.all, a.depth)
    BY <2>1, <1>2, <1>3, <1>5
  <2>4. wk[i].k # "parameters"
    <3>1. i = 1 \/ i \in 2..n
      BY <1>1
    <3> QED
      BY <3>1, <1>1
  <2>5. wk[i].k = "endScope" => b.all <= a.all
    BY <2>2 DEF Link, Fits
  <2>6. wk[i].k \in {"endScope", "endFunction"} => Named(es, fn, b)
    BY <1>7
  <2> HIDE DEF a, b
  <2>7. Holds(wk[i], a, b, es[a.level], naps[a.level])
    <3>1. Holds(wk[i], a, b, ch[a.level], maps[a.level]) /\ a.all <= a.all /\ a.depth <= a.depth
      BY <2>2, <2>3 DEF Link
    <3> DEFINE c == ch[a.level]
               M == maps[a.level]
               d == es[a.level]
               N == naps[a.level]
    <3>2. Holds(wk[i], a, b, c, M) /\ Keeps(c, M, d, N, a.all, a.depth)
      BY <3>1, <2>3
    <3> HIDE DEF c, M, d, N
    <3>3. Holds(wk[i], a, b, d, N)
      BY <3>1, <3>2, <2>3, <2>4, <2>5, HoldsStay
    <3> QED
      BY <3>3 DEF d, N
  <2>8. ASSUME wk[i].k = "endFunction"
        PROVE  Here(es[b.level], naps[b.level], b, Stack(es[b.level], Raise(b, -1)))
    <3>1. b.level \in 1..t - 1
      BY <2>2, <2>3, <2>8, <1>2 DEF Link, Within
    <3>2. /\ Same(ch[b.level], maps[b.level], es[b.level], naps[b.level])
          /\ Len(ch[b.level].locals) \in Nat /\ Len(ch[b.level].locals) >= 1
          /\ DOMAIN ch[b.level].locals = 1..Len(ch[b.level].locals)
      BY <3>1
    <3>3. Here(ch[b.level], maps[b.level], b, Stack(ch[b.level], Raise(b, -1)))
      BY <2>2, <2>8 DEF Link
    <3>4. Stack(es[b.level], Raise(b, -1)) = Stack(ch[b.level], Raise(b, -1))
      <4>1. /\ Raise(b, -1).vars = b.vars /\ b.vars \in Nat /\ b.all \in Nat /\ b.vars <= b.all
        BY <2>3, Points, Raised
      <4>2. b.all <= Len(ch[b.level].locals)
        BY <2>1, <1>1 DEF Fine, b
      <4>3. Keeps(ch[b.level], maps[b.level], es[b.level], naps[b.level], b.all, 0)
        BY <3>2, <4>1, <4>2, SameKeeps
      <4> QED
        BY <4>1, <4>3, StackStays
    <3> QED
      BY <3>2, <3>3, <3>4, HereStays
  <2>9. Link(es, fn, naps, wk[i], a, wk[i + 1], b)
    BY <2>2, <2>6, <2>7, <2>8 DEF Link
  <2> QED
    BY <2>9 DEF a, b
<1> QED
  BY <1>6, <1>8 DEF Listed, n

-----------------------------------------------------------------------------
(* What all functions have to do with each other.                          *)

LEMMA TakenStays ==
    ASSUME NEW ch, NEW ds, NEW es, NEW fs, Akin(ch, ds, es, fs), NEW d
    PROVE  Taken(es, fs, d) <=> Taken(ch, ds, d)
<1>1. \A f, g : f.upvalues = g.upvalues => (Captures(f, d) <=> Captures(g, d))
  BY DEF Captures
<1> QED
  BY <1>1 DEF Akin, Taken

LEMMA ClosedStays ==
    ASSUME NEW ch, NEW ds, NEW es, NEW fs, Akin(ch, ds, es, fs), Among(ch, es),
           NEW f, NEW g, Follows(f, g), Closed(ch, ds, f)
    PROVE  Closed(es, fs, g)
<1>1. ASSUME NEW k \in DOMAIN es, NEW l \in 2..Len(es[k].locals)
      PROVE  k \in DOMAIN ch /\ l \in 2..Len(ch[k].locals) /\ es[k].locals[l].decl = ch[k].locals[l].decl
  <2>1. l \in 1..Len(es[k].locals) /\ l \in 2..Len(ch[k].locals)
    BY DEF Among
  <2> QED
    BY <2>1 DEF Among
<1>2. \A d : Taken(es, fs, d) <=> Taken(ch, ds, d)
  BY TakenStays
<1> QED
  BY <1>1, <1>2 DEF Closed, Follows

\* All that ties the functions together but what is gone.
LEMMA TiesStay ==
    ASSUME NEW ch \in Seq(Comp), NEW ds, NEW es \in Seq(Comp), NEW fs, NEW dc,
           Akin(ch, ds, es, fs), Among(ch, es), Tied(ch, ds, dc), Len(es) >= 1,
           \A k \in DOMAIN es : /\ es[k].f.upvalues = ch[k].f.upvalues
                                /\ k = Len(es) \/ DOMAIN es[k].locals = DOMAIN ch[k].locals
    PROVE  Apart(es) /\ Linked(es) /\ Flagged(es, fs, dc)
<1>0. /\ Len(ch) \in Nat /\ Len(es) \in Nat /\ DOMAIN ch = 1..Len(ch) /\ DOMAIN es = 1..Len(es)
      /\ Len(es) <= Len(ch)
  <2>1. Len(ch) \in Nat /\ Len(es) \in Nat /\ DOMAIN ch = 1..Len(ch) /\ DOMAIN es = 1..Len(es)
    OBVIOUS
  <2>2. Len(es) \in DOMAIN ch
    BY <2>1 DEF Among
  <2> QED
    BY <2>1, <2>2
<1>1. ASSUME NEW k \in DOMAIN es, NEW l \in 2..Len(es[k].locals)
      PROVE  /\ k \in DOMAIN ch /\ l \in 2..Len(ch[k].locals)
             /\ es[k].locals[l].decl = ch[k].locals[l].decl
             /\ es[k].locals[l].captured = ch[k].locals[l].captured
  <2>1. l \in 1..Len(es[k].locals) /\ l \in 2..Len(ch[k].locals)
    BY DEF Among
  <2> QED
    BY <2>1 DEF Among
<1>2. Apart(es)
  <2> SUFFICES ASSUME NEW k \in DOMAIN es, NEW l \in 2..Len(es[k].locals),
                      NEW j \in DOMAIN es, NEW m \in 2..Len(es[j].locals),
                      es[k].locals[l].decl = es[j].locals[m].decl
               PROVE  k = j /\ l = m
    BY DEF Apart
  <2>1. /\ k \in DOMAIN ch /\ l \in 2..Len(ch[k].locals) /\ j \in DOMAIN ch /\ m \in 2..Len(ch[j].locals)
        /\ ch[k].locals[l].decl = ch[j].locals[m].decl
    BY <1>1
  <2> QED
    BY <2>1 DEF Tied, Apart
<1>3. Linked(es)
  <2>1. es[1].f.upvalues = <<>>
    BY <1>0 DEF Tied, Linked
  <2>2. ASSUME NEW k \in 2..Len(es), NEW i \in DOMAIN es[k].f.upvalues
        PROVE  Joins(es[k - 1], es[k].f.upvalues[i])
    <3>1. k \in DOMAIN es /\ k - 1 \in DOMAIN es /\ k - 1 # Len(es) /\ k \in 2..Len(ch)
      BY <1>0
    <3>2. Joins(ch[k - 1], es[k].f.upvalues[i])
      BY <3>1 DEF Tied, Linked
    <3>3. /\ es[k - 1].f.upvalues = ch[k - 1].f.upvalues
          /\ DOMAIN es[k - 1].locals = DOMAIN ch[k - 1].locals
      BY <3>1
    <3>4. \A l \in DOMAIN es[k - 1].locals : es[k - 1].locals[l].decl = ch[k - 1].locals[l].decl
      <4>1. es[k - 1] \in Comp
        BY <3>1, <1>0
      <4>2. DOMAIN es[k - 1].locals = 1..Len(es[k - 1].locals)
        BY <4>1 DEF Comp
      <4> QED
        BY <3>1, <4>2 DEF Among
    <3> DEFINE u == es[k].f.upvalues[i]
               c == ch[k - 1]
               d == es[k - 1]
    <3>5. /\ d.f.upvalues = c.f.upvalues /\ DOMAIN d.locals = DOMAIN c.locals
          /\ \A l \in DOMAIN d.locals : d.locals[l].decl = c.locals[l].decl
      BY <3>3, <3>4
    <3>6. Joins(c, u)
      BY <3>2
    <3> HIDE DEF u, c, d
    <3>7. Joins(d, u)
      BY <3>5, <3>6 DEF Joins
    <3> QED
      BY <3>7 DEF d, u
  <2> QED
    BY <2>1, <2>2 DEF Linked
<1>4. Flagged(es, fs, dc)
  <2>1. \A d : Taken(es, fs, d) <=> Taken(ch, ds, d)
    BY TakenStays
  <2>2. \A k \in DOMAIN es : \A l \in 2..Len(es[k].locals) :
            es[k].locals[l].captured <=> Taken(es, fs, es[k].locals[l].decl)
    <3> SUFFICES ASSUME NEW k \in DOMAIN es, NEW l \in 2..Len(es[k].locals)
                 PROVE  es[k].locals[l].captured <=> Taken(es, fs, es[k].locals[l].decl)
      OBVIOUS
    <3>1. ch[k].locals[l].captured <=> Taken(ch, ds, ch[k].locals[l].decl)
      BY <1>1 DEF Tied, Flagged
    <3> QED
      BY <3>1, <2>1, <1>1
  <2>3. \A g \in Everyone(es, fs) : \A i \in DOMAIN g.upvalues : g.upvalues[i].decl \in 1..dc
    BY DEF Tied, Flagged, Akin
  <2> QED
    BY <2>2, <2>3 DEF Flagged
<1> QED
  BY <1>2, <1>3, <1>4

-----------------------------------------------------------------------------
(* Steps that add code to the function that is compiled.                   *)

LEMMA CompIs ==
    ASSUME NEW c \in Comp
    PROVE  /\ c.locals \in Seq(Local) /\ Len(c.locals) \in Nat /\ DOMAIN c.locals = 1..Len(c.locals)
           /\ \A l \in DOMAIN c.locals : c.locals[l] \in Local
           /\ c.scopeDepth \in Nat /\ c.error \in BOOLEAN /\ c.f \in Function
<1>1. c.locals \in Seq(Local) /\ c.scopeDepth \in Nat /\ c.error \in BOOLEAN /\ c.f \in Function
  BY DEF Comp
<1> QED
  BY <1>1, SeqIs

LEMMA CoderKeeps ==
    ASSUME NEW c \in Comp, NEW M, NEW e, NEW N, Coder(c, M, e, N), NEW v \in Nat,
           v <= Len(c.locals), NEW dep
    PROVE  Keeps(c, M, e, N, v, dep)
<1>1. /\ e.locals = c.locals /\ DOMAIN c.locals = 1..Len(c.locals) /\ Len(c.locals) \in Nat
      /\ Onward(c.f, M, e.f, N)
  BY CompIs DEF Coder
<1> QED
  BY <1>1 DEF Keeps, Onward, Settles

LEMMA SameSelf ==
    ASSUME NEW c, NEW M
    PROVE  Same(c, M, c, M)
  BY DEF Same

LEMMA RestStaysTop ==
    ASSUME NEW ch \in Seq(Comp), NEW wk, NEW ctx, NEW en, NEW maps, Listed(ch, en, maps, wk, ctx),
           NEW es, NEW fn, NEW naps, NEW n, UpTo(ch, en, maps, wk, ctx, es, fn, naps, n)
    PROVE  Listed(es, fn, naps, wk, ctx)
<1> USE DEF UpTo
<1> DEFINE t == ctx[1].level
<1>1. /\ Fine(ch, ctx[1]) /\ t \in Nat /\ t >= 1 /\ ctx[1].all \in Nat
      /\ ctx[1].all <= Len(ch[t].locals)
  <2>1. Fine(ch, ctx[1])
    BY DEF Listed
  <2> QED
    BY <2>1, Points DEF Fine
<1>2. Len(ch) \in Nat /\ DOMAIN ch = 1..Len(ch) /\ \A k \in 1..n : k \in DOMAIN ch /\ ch[k] \in Comp
  <2>1. Len(ch) \in Nat /\ DOMAIN ch = 1..Len(ch) /\ \A k \in 1..Len(ch) : ch[k] \in Comp
    BY SeqIs
  <2> QED
    BY <2>1
<1>3. \A k \in 1..n : /\ Len(ch[k].locals) \in Nat /\ Len(ch[k].locals) >= 1
                      /\ DOMAIN ch[k].locals = 1..Len(ch[k].locals)
  BY <1>2, CompIs
<1>4. \A k \in 1..n - 1 : Same(ch[k], maps[k], es[k], naps[k])
  BY SameSelf
<1>5. \A k \in 1..t - 1 : k \in 1..n - 1 /\ k \in 1..n
  BY <1>1
<1>6. t \in DOMAIN es /\ Keeps(ch[t], maps[t], es[t], naps[t], ctx[1].all, ctx[1].depth)
  <2>1. CASE t = n
    BY <2>1
  <2>2. CASE t # n
    <3>1. t \in 1..n - 1 /\ t \in 1..n
      BY <2>2, <1>1
    <3>2. Same(ch[t], maps[t], es[t], naps[t])
      BY <3>1, <1>4
    <3> QED
      BY <3>1, <3>2, <1>1, <1>3, SameKeeps
  <2> QED
    BY <2>1, <2>2
<1>7. \A k \in 1..t - 1 : /\ k \in DOMAIN es /\ Same(ch[k], maps[k], es[k], naps[k])
                          /\ Len(ch[k].locals) \in Nat /\ Len(ch[k].locals) >= 1
                          /\ DOMAIN ch[k].locals = 1..Len(ch[k].locals)
  BY <1>3, <1>4, <1>5
<1> HIDE DEF t
<1>8. t = ctx[1].level
  BY DEF t
<1> QED
  BY <1>6, <1>7, <1>8, RestStays

\* What every good state has.
LEMMA GoodIs ==
    ASSUME NEW ch, NEW wk, NEW ds, NEW en, NEW dc, NEW ctx, NEW maps,
           Types(ch, wk, ds, en, dc), Good(ch, wk, ds, en, dc, ctx, maps)
    PROVE  /\ ch \in Seq(Comp) /\ wk \in Seq(Item) /\ ds \in Seq(Function) /\ dc \in Nat
           /\ Len(ch) \in Nat /\ DOMAIN ch = 1..Len(ch) /\ Len(ch) \in DOMAIN ch /\ Len(ch) >= 1
           /\ ctx \in Seq(Point) /\ DOMAIN maps = DOMAIN ch
           /\ \A k \in DOMAIN ch : ch[k] \in Comp /\ Locals(ch[k], dc) /\ Len(ch[k].locals) >= 1
           /\ Listed(ch, en, maps, wk, ctx) /\ Heads(ch, en, maps, wk, ctx)
           /\ Sane(ctx[1]) /\ ctx[1].level = Len(ch)
           /\ ctx[1].all = Len(ch[Len(ch)].locals) /\ ctx[1].depth = ch[Len(ch)].scopeDepth
           /\ Len(wk) \in Nat /\ Len(wk) >= 1
<1>1. ch \in Seq(Comp) /\ wk \in Seq(Item) /\ ds \in Seq(Function) /\ dc \in Nat
  BY CompilerConstants DEF Types
<1>2. Len(ch) \in Nat /\ DOMAIN ch = 1..Len(ch) /\ \A k \in DOMAIN ch : ch[k] \in Comp
  BY <1>1, SeqIs
<1>3. /\ Listed(ch, en, maps, wk, ctx) /\ Heads(ch, en, maps, wk, ctx) /\ DOMAIN maps = DOMAIN ch
      /\ ctx \in Seq(Point)
      /\ \A k \in DOMAIN ch : Locals(ch[k], dc)
  BY DEF Good, Coded
<1>4. Sane(ctx[1]) /\ ctx[1].level = Len(ch) /\ ctx[1].level \in DOMAIN ch /\ Len(wk) \in Nat /\ Len(wk) >= 1
  BY <1>3 DEF Listed, Heads, Fine
<1>5. \A k \in DOMAIN ch : Len(ch[k].locals) >= 1
  BY <1>2, <1>3, CompIs DEF Locals
<1>6. ctx[1].all = Len(ch[Len(ch)].locals) /\ ctx[1].depth = ch[Len(ch)].scopeDepth
  BY <1>3 DEF Heads, Here
<1>7. Len(ch) >= 1
  BY <1>2, <1>4
<1> QED
  BY <1>1, <1>2, <1>3, <1>4, <1>5, <1>6, <1>7

LEMMA SplitsRest ==
    ASSUME NEW wk \in Seq(Item), NEW ctx \in Seq(Point), NEW ch, NEW en, NEW maps, NEW n \in Nat,
           Listed(ch, en, maps, wk, ctx), wk[1].k # "endScript", ctx[1].level = n
    PROVE  /\ Splits(wk, ctx, RestWork(wk), RestCtx(wk, ctx), n)
           /\ Listed(ch, en, maps, RestWork(wk), RestCtx(wk, ctx))
           /\ RestWork(wk) \in Seq(Item) /\ RestCtx(wk, ctx) \in Seq(Point)
           /\ Len(RestCtx(wk, ctx)) = Len(RestWork(wk)) /\ Len(RestWork(wk)) >= 1
           /\ wk[1].k # "parameters" => RestWork(wk)[1].k # "parameters"
           /\ Len(wk) >= 2 /\ Within(wk[1], ctx[1], ctx[2])
           /\ Link(ch, en, maps, wk[1], ctx[1], wk[2], ctx[2])
<1>1. /\ Len(wk) \in Nat /\ Len(wk) >= 2 /\ Len(ctx) = Len(wk)
      /\ \A i \in 2..Len(wk) : wk[i].k # "parameters"
      /\ \A i \in 1..Len(wk) - 1 : Link(ch, en, maps, wk[i], ctx[i], wk[i + 1], ctx[i + 1])
      /\ \A i, j \in 1..Len(wk) : i < j => Within(wk[i], ctx[i], ctx[j])
  BY DEF Listed
<1>2. /\ Tail(wk) \in Seq(Item) /\ Tail(ctx) \in Seq(Point)
      /\ Len(Tail(wk)) = Len(wk) - 1 /\ Len(Tail(ctx)) = Len(wk) - 1
      /\ Tail(wk)[1] = wk[2] /\ Tail(ctx)[1] = ctx[2]
  <2>1. 1 \in 1..Len(wk) - 1 /\ 1 + 1 = 2
    BY <1>1
  <2> QED
    BY <2>1, <1>1, Popped
<1>3. Listed(ch, en, maps, Tail(wk), Tail(ctx))
  BY <1>1, Pop
<1>4. Link(ch, en, maps, wk[1], ctx[1], wk[2], ctx[2]) /\ Within(wk[1], ctx[1], ctx[2])
      /\ wk[2].k # "parameters"
  <2>1. 1 \in 1..Len(wk) - 1 /\ 1 + 1 = 2 /\ 2 \in 2..Len(wk)
    BY <1>1
  <2> QED
    BY <2>1, <1>1 DEF Link
<1>5. CASE wk[1].k = "declarations"
  <2>1. RestWork(wk) = wk /\ RestCtx(wk, ctx) = ctx /\ Holes(wk[1]) = {}
    BY <1>5 DEF RestWork, RestCtx, Holes
  <2>2. Splits(wk, ctx, wk, ctx, n)
    BY <1>5, <2>1 DEF Splits
  <2> QED
    BY <2>1, <2>2, <1>1, <1>4
<1>6. CASE wk[1].k # "declarations"
  <2>1. RestWork(wk) = Tail(wk) /\ RestCtx(wk, ctx) = Tail(ctx)
    BY <1>6 DEF RestWork, RestCtx
  <2>2. \A k : /\ Pending(wk, ctx, k) = (IF ctx[1].level = k THEN Holes(wk[1]) ELSE {})
                                           \cup Pending(Tail(wk), Tail(ctx), k)
               /\ ctx[1].level = k => Holes(wk[1]) \cap Pending(Tail(wk), Tail(ctx), k) = {}
    BY <1>1, PendingPop
  <2>3. /\ Pending(wk, ctx, n) = Holes(wk[1]) \cup Pending(Tail(wk), Tail(ctx), n)
        /\ Holes(wk[1]) \cap Pending(Tail(wk), Tail(ctx), n) = {}
    BY <1>1, PendingPop
  <2>4. ASSUME NEW k \in 1..n - 1  PROVE Pending(wk, ctx, k) = Pending(Tail(wk), Tail(ctx), k)
    <3>1. ctx[1].level # k
      OBVIOUS
    <3>2. Pending(wk, ctx, k) = (IF ctx[1].level = k THEN Holes(wk[1]) ELSE {})
                                           \cup Pending(Tail(wk), Tail(ctx), k)
      BY <2>2
    <3> QED
      BY <3>1, <3>2
  <2>5. Splits(wk, ctx, Tail(wk), Tail(ctx), n)
    BY <2>3, <2>4, <1>2, <1>6 DEF Splits
  <2> QED
    BY <2>1, <2>5, <1>1, <1>2, <1>3, <1>4
<1> QED
  BY <1>5, <1>6

LEMMA ChangedIs ==
    ASSUME NEW ch \in Seq(Comp), NEW maps, Len(ch) >= 1, NEW e \in Comp,
           NEW N, NEW es, NEW naps, Changed(ch, maps, e, N, es, naps)
    PROVE  /\ es \in Seq(Comp) /\ Len(es) = Len(ch) /\ DOMAIN es = 1..Len(ch) /\ DOMAIN naps = DOMAIN es
           /\ es[Len(ch)] = e /\ naps[Len(ch)] = N
           /\ \A k \in 1..Len(ch) - 1 : k \in DOMAIN ch /\ k \in DOMAIN es /\ es[k] = ch[k] /\ naps[k] = maps[k]
<1>1. Len(ch) \in Nat
  OBVIOUS
<1>2. PICK n \in Nat : n = Len(ch)
  BY <1>1
<1>3. DOMAIN ch = 1..n
  BY <1>2
<1>4. es = [ch EXCEPT ![n] = e] /\ naps = [k \in DOMAIN ch |-> IF k = n THEN N ELSE maps[k]]
  BY <1>2 DEF Changed
<1>5. DOMAIN es = 1..n /\ \A k \in 1..n : es[k] = IF k = n THEN e ELSE ch[k]
  BY <1>3, <1>4
<1>6. es \in Seq(Comp) /\ Len(es) = n
  <2>1. es \in Seq(Comp)
    BY <1>2, <1>4
  <2> QED
    BY <1>2, <1>4, <2>1
<1>7. DOMAIN naps = 1..n /\ \A k \in 1..n : naps[k] = IF k = n THEN N ELSE maps[k]
  BY <1>3, <1>4
<1>8. n \in 1..n
  BY <1>2
<1>9. es[n] = e /\ naps[n] = N
  BY <1>5, <1>7, <1>8
<1>10. \A k \in 1..n - 1 : k \in 1..n /\ k # n
  OBVIOUS
<1>11. \A k \in 1..n - 1 : k \in DOMAIN ch /\ k \in DOMAIN es /\ es[k] = ch[k] /\ naps[k] = maps[k]
  BY <1>3, <1>5, <1>7, <1>10
<1>12. DOMAIN naps = DOMAIN es
  BY <1>5, <1>7
<1> HIDE DEF Changed
<1> QED
  BY <1>2, <1>5, <1>6, <1>9, <1>11, <1>12

LEMMA BesideRaised ==
    ASSUME NEW a \in Point, NEW i, i \in Int, a.height + i \in Nat
    PROVE  Beside(a, Raise(a, i)) /\ Raise(a, i) \in Point /\ Beside(a, a)
<1>1. Raise(a, i).height = a.height + i
  BY DEF Raise, Point
<1>2. Beside(a, Raise(a, i))
  BY <1>1 DEF Beside, Raise
<1>3. Raise(a, i) \in Point
  BY DEF Raise, Point
<1>4. Beside(a, a)
  BY DEF Beside, Point
<1> QED
  BY <1>2, <1>3, <1>4

LEMMA FitsBeside ==
    ASSUME NEW w, NEW a, NEW v, NEW b, Fits(w, a, v, b), Sane(a), Sane(b), w.k \notin Outer
    PROVE  Beside(a, b)
<1>1. a \in Point /\ b \in Point
  BY DEF Sane
<1>2. \A i : b = Raise(a, i) => Beside(a, b)
  <2> SUFFICES ASSUME NEW i, b = Raise(a, i)  PROVE Beside(a, b)
    OBVIOUS
  <2>1. b.height = a.height + i
    BY <1>1, Raised
  <2> QED
    BY <2>1 DEF Beside, Raise
<1>3. \A i : a = Raise(b, i) => Beside(a, b)
  <2> SUFFICES ASSUME NEW i, a = Raise(b, i)  PROVE Beside(a, b)
    OBVIOUS
  <2>1. a = [b EXCEPT !.height = @ + i]
    BY DEF Raise
  <2> QED
    BY <2>1, <1>1 DEF Beside, Point
<1>4. b = a => Beside(a, b)
  BY <1>1 DEF Beside, Point
<1>5. CASE w.k = "emit"
  <2>1. Emission(w.s, a, b)
    BY <1>5 DEF Fits
  <2> QED
    BY <2>1, <1>2, <1>4 DEF Emission
<1>6. CASE w.k \in {"loop", "forBody"}
  BY <1>6 DEF Fits, Beside
<1>7. CASE w.k \in {"then", "test", "forTest", "forIncrement", "exit"}
  BY <1>7, <1>3 DEF Fits
<1>8. CASE w.k = "expression"
  BY <1>8, <1>2 DEF Fits
<1>9. CASE w.k \notin {"emit", "loop", "forBody", "then", "test", "forTest", "forIncrement", "exit", "expression"}
  BY <1>9, <1>4 DEF Fits, Outer
<1> QED
  BY <1>5, <1>6, <1>7, <1>8, <1>9

\* What is left when the first item is done, or stays, has not changed.
LEMMA CodeRest ==
    ASSUME NEW ch, NEW wk, NEW ds, NEW en, NEW dc, NEW ctx, NEW maps,
           Types(ch, wk, ds, en, dc), Good(ch, wk, ds, en, dc, ctx, maps), wk[1].k \notin Outer,
           NEW e, NEW N, Coder(ch[Len(ch)], maps[Len(ch)], e, N),
           NEW es, NEW naps, Changed(ch, maps, e, N, es, naps)
    PROVE  /\ Left(ch, wk, en, ctx, es, naps, RestWork(wk), RestCtx(wk, ctx),
                   Pending(RestWork(wk), RestCtx(wk, ctx), Len(ch)))
           /\ Splits(wk, ctx, RestWork(wk), RestCtx(wk, ctx), Len(ch))
           /\ Fits(wk[1], ctx[1], wk[2], ctx[2])
           /\ Holds(wk[1], ctx[1], ctx[2], ch[Len(ch)], maps[Len(ch)])
           /\ Len(wk) >= 2
<1> DEFINE rw == RestWork(wk)
           rc == RestCtx(wk, ctx)
           n == Len(ch)
<1>1. /\ ch \in Seq(Comp) /\ wk \in Seq(Item) /\ ctx \in Seq(Point)
      /\ n \in Nat /\ DOMAIN ch = 1..n /\ n \in DOMAIN ch /\ n >= 1
      /\ \A k \in DOMAIN ch : ch[k] \in Comp /\ Len(ch[k].locals) >= 1
      /\ Listed(ch, en, maps, wk, ctx) /\ Sane(ctx[1]) /\ ctx[1].level = n
  BY GoodIs
<1>2. wk[1].k # "endScript" /\ wk[1].k # "parameters"
  BY DEF Outer
<1>3. /\ Splits(wk, ctx, rw, rc, n) /\ Listed(ch, en, maps, rw, rc)
      /\ rw \in Seq(Item) /\ rc \in Seq(Point) /\ Len(rc) = Len(rw) /\ Len(rw) >= 1
      /\ rw[1].k # "parameters"
      /\ Len(wk) >= 2 /\ Within(wk[1], ctx[1], ctx[2])
      /\ Link(ch, en, maps, wk[1], ctx[1], wk[2], ctx[2])
  BY <1>1, <1>2, SplitsRest
<1>4. Fine(ch, rc[1])
  <2>1. Len(rw) \in Nat /\ 1 \in 1..Len(rw)
    BY <1>3
  <2> QED
    BY <2>1, <1>3 DEF Listed
<1>5. Beside(ctx[1], rc[1])
  <2>1. CASE wk[1].k = "declarations"
    <3>1. rc[1] = ctx[1]
      BY <2>1, <1>3 DEF Splits
    <3> QED
      BY <3>1, <1>1 DEF Beside, Sane, Point
  <2>2. CASE wk[1].k # "declarations"
    <3>1. rc[1] = ctx[2]
      BY <2>2, <1>3 DEF Splits
    <3>2. Fits(wk[1], ctx[1], wk[2], ctx[2]) /\ Sane(ctx[2])
      BY <1>3, <1>4, <3>1 DEF Link, Fine
    <3> QED
      BY <3>1, <3>2, <1>1, FitsBeside
  <2> QED
    BY <2>1, <2>2
<1>6. rc[1].level = n /\ rc[1].all = ctx[1].all /\ rc[1].depth = ctx[1].depth
  BY <1>5, <1>1 DEF Beside, Sane, Point
<1>7. /\ es \in Seq(Comp) /\ DOMAIN es = 1..n /\ es[n] = e /\ naps[n] = N
      /\ \A k \in 1..n - 1 : k \in DOMAIN es /\ es[k] = ch[k] /\ naps[k] = maps[k]
  BY <1>1, ChangedIs DEF Coder
<1>8. Keeps(ch[n], maps[n], es[n], naps[n], rc[1].all, rc[1].depth)
  <2>1. rc[1].all \in Nat /\ rc[1].all <= Len(ch[n].locals)
    BY <1>4, <1>6, Points DEF Fine
  <2>2. ch[n] \in Comp
    BY <1>1
  <2> HIDE DEF n, rc
  <2>3. Keeps(ch[n], maps[n], e, N, rc[1].all, rc[1].depth)
    BY <2>1, <2>2, CoderKeeps DEF n
  <2> QED
    BY <2>3, <1>7
<1> HIDE DEF n, rc, rw
<1>9. Listed(es, en, naps, rw, rc)
  <2>1. n \in DOMAIN es
    BY <1>1, <1>7
  <2>2. \A k \in DOMAIN ch : Len(ch[k].locals) >= 1
    BY <1>1
  <2>3. n <= Len(ch) /\ rc[1].level <= n
    BY <1>1, <1>6 DEF n
  <2>4. \A k \in 1..n - 1 : k \in DOMAIN es /\ es[k] = ch[k] /\ naps[k] = maps[k]
    BY <1>7
  <2>5. rc[1].level = n => /\ n \in DOMAIN es
                           /\ Keeps(ch[n], maps[n], es[n], naps[n], rc[1].all, rc[1].depth)
    BY <1>8, <2>1
  <2>6. \A i \in 1..rc[1].env - 1 : en[i] = en[i]
    OBVIOUS
  <2>7. ch \in Seq(Comp) /\ n \in Nat /\ Listed(ch, en, maps, rw, rc) /\ rw[1].k # "parameters"
    BY <1>1, <1>3
  <2>8. UpTo(ch, en, maps, rw, rc, es, en, naps, n)
    BY <2>2, <2>3, <2>4, <2>5, <2>6, <2>7 DEF UpTo
  <2> QED
    BY <2>7, <2>8, RestStaysTop
<1>10. Going(es, en, naps, ctx[1], rw, rc)
  BY <1>3, <1>5, <1>9 DEF Going
<1>11. \A k \in 1..n - 1 : Pending(rw, rc, k) = Pending(wk, ctx, k)
  BY <1>3 DEF Splits
<1>12. Left(ch, wk, en, ctx, es, naps, rw, rc, Pending(rw, rc, n))
  BY <1>10, <1>11 DEF Left, n
<1>13. Fits(wk[1], ctx[1], wk[2], ctx[2]) /\ Holds(wk[1], ctx[1], ctx[2], ch[n], maps[n])
  BY <1>1, <1>3 DEF Link
<1> QED
  BY <1>3, <1>12, <1>13 DEF rw, rc, n

LEMMA PartPush ==
    ASSUME NEW ch, NEW wk, NEW en, NEW ctx, NEW es, NEW naps, NEW pw, NEW pc, NEW P,
           Left(ch, wk, en, ctx, es, naps, pw, pc, P),
           Sane(ctx[1]), ctx[1].level = Len(ch), NEW w, NEW p,
           Part(ctx[1], w, p, pw[1], pc[1], es[Len(ch)], naps[Len(ch)], P)
    PROVE  /\ Left(ch, wk, en, ctx, es, naps, <<w>> \o pw, <<p>> \o pc, Holes(w) \cup P)
           /\ (<<w>> \o pw)[1] = w /\ (<<p>> \o pc)[1] = p
<1> DEFINE n == Len(ch)
<1>1. /\ Listed(es, en, naps, pw, pc) /\ pw \in Seq(Item) /\ pc \in Seq(Point)
      /\ Len(pc) = Len(pw) /\ Len(pw) >= 1 /\ Beside(ctx[1], pc[1]) /\ pw[1].k # "parameters"
      /\ Pending(pw, pc, n) = P
      /\ \A k \in 1..n - 1 : Pending(pw, pc, k) = Pending(wk, ctx, k)
  BY DEF Left, Going
<1>2. Fine(es, pc[1])
  <2>1. Len(pw) \in Nat /\ 1 \in 1..Len(pw)
    BY <1>1
  <2> QED
    BY <2>1, <1>1 DEF Listed
<1>3. /\ w \in Item /\ w.k \notin Outer /\ Sane(p) /\ Beside(ctx[1], p) /\ p.vars = p.seen
      /\ Fits(w, p, pw[1], pc[1]) /\ Holds(w, p, pc[1], es[n], naps[n]) /\ Holes(w) \cap P = {}
  BY DEF Part
<1>4. /\ p.level = n /\ p.env = pc[1].env /\ p.depth = pc[1].depth /\ p.all = pc[1].all
      /\ p.vars = pc[1].vars /\ p.level = pc[1].level
  BY <1>1, <1>3 DEF Beside, Sane, Point
<1>5. Fine(es, p)
  BY <1>2, <1>3, <1>4 DEF Fine
<1>6. Within(w, p, pc[1])
  <2>1. p \in Point
    BY <1>3 DEF Sane
  <2>2. w.k # "endScope" /\ w.k # "endFunction"
    BY <1>3 DEF Outer
  <2> QED
    BY <1>4, <2>1, <2>2 DEF Within, Point
<1>7. Link(es, en, naps, w, p, pw[1], pc[1])
  BY <1>3, <1>4, <1>6 DEF Link, Outer
<1>8. Fresh(es, en, naps, pw, pc, w, p)
  BY <1>1, <1>3, <1>4, <1>5, <1>7 DEF Fresh
<1>9. Listed(es, en, naps, <<w>> \o pw, <<p>> \o pc)
  BY <1>1, <1>3, <1>8, Push
<1>10. p \in Point /\ w \in Item
  BY <1>3 DEF Sane
<1>11. /\ <<w>> \o pw \in Seq(Item) /\ Len(<<w>> \o pw) = Len(pw) + 1 /\ (<<w>> \o pw)[1] = w
       /\ <<p>> \o pc \in Seq(Point) /\ Len(<<p>> \o pc) = Len(pc) + 1 /\ (<<p>> \o pc)[1] = p
  <2>1. <<w>> \in Seq(Item) /\ <<p>> \in Seq(Point)
    BY <1>10
  <2>2. <<w>> \o pw \in Seq(Item) /\ <<p>> \o pc \in Seq(Point)
    BY <2>1, <1>1, Joined
  <2>3. Len(<<w>> \o pw) = Len(pw) + 1 /\ (<<w>> \o pw)[1] = w
    BY <1>1, <1>10, Pushed
  <2>4. Len(<<p>> \o pc) = Len(pc) + 1 /\ (<<p>> \o pc)[1] = p
    BY <1>1, <1>10, Pushed
  <2> QED
    BY <2>2, <2>3, <2>4
<1>12. Going(es, en, naps, ctx[1], <<w>> \o pw, <<p>> \o pc)
  <2>1. Len(pw) \in Nat
    BY <1>1
  <2> QED
    BY <2>1, <1>1, <1>3, <1>9, <1>11 DEF Going, Outer
<1>13. \A k : Pending(<<w>> \o pw, <<p>> \o pc, k) = (IF p.level = k THEN Holes(w) ELSE {}) \cup Pending(pw, pc, k)
  BY <1>1, <1>10, PendingPush
<1>14. Pending(<<w>> \o pw, <<p>> \o pc, n) = Holes(w) \cup P
  BY <1>1, <1>4, <1>13
<1>15. ASSUME NEW k \in 1..n - 1
       PROVE  Pending(<<w>> \o pw, <<p>> \o pc, k) = Pending(wk, ctx, k)
  <2>1. p.level # k
    <3>1. p.level \in Nat
      BY <1>10 DEF Point
    <3> QED
      BY <3>1, <1>4
  <2> QED
    BY <2>1, <1>1, <1>13
<1> QED
  BY <1>11, <1>12, <1>14, <1>15 DEF Left

LEMMA PartBefore ==
    ASSUME NEW ch, NEW wk, NEW en, NEW ctx, NEW es, NEW naps, NEW pw, NEW pc, NEW P, NEW w, NEW p,
           NEW r, NEW q, Adds(ch, wk, en, ctx, es, naps, pw, pc, P, w, p, r, q)
    PROVE  Left(ch, wk, en, ctx, es, naps, r, q, Holes(w) \cup P) /\ r[1] = w /\ q[1] = p
<1>1. r = <<w>> \o pw /\ q = <<p>> \o pc
  BY DEF Adds, Before
<1>2. /\ Left(ch, wk, en, ctx, es, naps, <<w>> \o pw, <<p>> \o pc, Holes(w) \cup P)
      /\ (<<w>> \o pw)[1] = w /\ (<<p>> \o pc)[1] = p
  BY PartPush DEF Adds
<1> QED
  BY <1>1, <1>2, Zenon

\* The names in the function that is compiled, and where its code ends.
LEMMA CodeHeads ==
    ASSUME NEW ch \in Seq(Comp), NEW en, NEW maps, NEW wk, NEW ctx, Heads(ch, en, maps, wk, ctx),
           NEW n \in Nat, n = Len(ch), n >= 1, Sane(ctx[1]), ctx[1].vars = ctx[1].seen,
           NEW es \in Seq(Comp), Len(es) = n, \A k \in 1..n - 1 : es[k] = ch[k],
           NEW naps, Coder(ch[n], maps[n], es[n], naps[n]),
           NEW pw, NEW pc, Beside(ctx[1], pc[1]), pw[1].k # "parameters",
           naps[n][Len(es[n].f.code)] = Stack(ch[n], pc[1])
    PROVE  Heads(es, en, naps, pw, pc)
<1>1. /\ ctx[1].level = n /\ ctx[1].env = Len(en)
      /\ Here(ch[n], maps[n], ctx[1], Stack(ch[n], ctx[1])) /\ Named(ch, en, ctx[1])
  BY DEF Heads
<1>2. /\ pc[1].level = n /\ pc[1].env = Len(en) /\ pc[1].depth = ctx[1].depth
      /\ pc[1].all = ctx[1].all /\ pc[1].seen = ctx[1].seen /\ pc[1].vars = ctx[1].vars
      /\ pc[1].env = ctx[1].env
  BY <1>1 DEF Beside, Sane, Point
<1>3. /\ es[n].locals = ch[n].locals /\ es[n].scopeDepth = ch[n].scopeDepth
      /\ es[n].f.born = ch[n].f.born
  BY DEF Coder, Onward
<1>4. Stack(es[n], pc[1]) = Stack(ch[n], pc[1])
  BY <1>3 DEF Stack, SlotsOf
<1>5. Here(es[n], naps[n], pc[1], Stack(es[n], pc[1]))
  <2>1. /\ pc[1].depth = es[n].scopeDepth /\ pc[1].all = Len(es[n].locals)
        /\ pc[1].seen = pc[1].all <=> es[n].locals[Len(es[n].locals)].depth # -1
        /\ pc[1].vars < pc[1].all => \A m \in es[n].f.born : m.decl # es[n].locals[pc[1].all].decl
        /\ pc[1].vars < pc[1].all => es[n].locals[pc[1].all].depth \in {-1, pc[1].depth}
    BY <1>1, <1>2, <1>3 DEF Here
  <2> QED
    BY <2>1, <1>4 DEF Here
<1>6. Named(es, en, pc[1])
  <2>1. Named(ch, en, pc[1])
    BY <1>1, <1>2 DEF Named
  <2>2. SameNames(ch, es, pc[1].level, pc[1].seen)
    <3>1. \A j \in 1..n : es[j].locals = ch[j].locals
      <4>1. \A j \in 1..n : j = n \/ j \in 1..n - 1
        OBVIOUS
      <4> QED
        BY <4>1, <1>3
    <3> QED
      BY <3>1, <1>2 DEF SameNames
  <2> QED
    BY <2>1, <2>2, <1>2, NamedStays
<1> QED
  BY <1>2, <1>5, <1>6 DEF Heads

\* What ties the functions together when one of them has more code.
LEMMA CodeTied ==
    ASSUME NEW ch \in Seq(Comp), NEW ds, NEW dc, Tied(ch, ds, dc), NEW n \in Nat, n = Len(ch), n >= 1,
           NEW es \in Seq(Comp), Len(es) = n, \A k \in 1..n - 1 : es[k] = ch[k],
           es[n].locals = ch[n].locals, es[n].f.upvalues = ch[n].f.upvalues,
           Follows(ch[n].f, es[n].f)
    PROVE  Tied(es, ds, dc)
<1>1. DOMAIN ch = 1..n /\ DOMAIN es = 1..n
  OBVIOUS
<1>2. \A k \in 1..n : /\ es[k].locals = ch[k].locals /\ es[k].f.upvalues = ch[k].f.upvalues
                      /\ Follows(ch[k].f, es[k].f)
  <2>1. \A k \in 1..n : k = n \/ k \in 1..n - 1
    OBVIOUS
  <2> QED
    BY <2>1 DEF Follows
<1>3. Akin(ch, ds, es, ds)
  <2>1. ASSUME NEW g \in Everyone(ch, ds)
        PROVE  \E h \in Everyone(es, ds) : h.upvalues = g.upvalues
    <3>1. CASE g \in { ds[i] : i \in DOMAIN ds }
      BY <3>1 DEF Everyone
    <3>2. CASE \E k \in 1..n : g = ch[k].f
      <4>1. PICK k \in 1..n : g = ch[k].f
        BY <3>2
      <4>2. es[k].f \in Everyone(es, ds) /\ es[k].f.upvalues = g.upvalues
        BY <4>1, <1>1, <1>2 DEF Everyone
      <4> QED
        BY <4>2
    <3> QED
      BY <3>1, <3>2, <1>1 DEF Everyone
  <2>2. ASSUME NEW h \in Everyone(es, ds)
        PROVE  \E g \in Everyone(ch, ds) : h.upvalues = g.upvalues
    <3>1. CASE h \in { ds[i] : i \in DOMAIN ds }
      BY <3>1 DEF Everyone
    <3>2. CASE \E k \in 1..n : h = es[k].f
      <4>1. PICK k \in 1..n : h = es[k].f
        BY <3>2
      <4>2. ch[k].f \in Everyone(ch, ds) /\ ch[k].f.upvalues = h.upvalues
        BY <4>1, <1>1, <1>2 DEF Everyone
      <4> QED
        BY <4>2
    <3> QED
      BY <3>1, <3>2, <1>1 DEF Everyone
  <2> QED
    BY <2>1, <2>2 DEF Akin
<1>4. Among(ch, es)
  <2>1. \A k \in 1..n : Len(ch[k].locals) \in Nat
    BY <1>1, CompIs
  <2> QED
    BY <2>1, <1>1, <1>2 DEF Among
<1>5. Apart(es) /\ Linked(es) /\ Flagged(es, ds, dc)
  <2>1. \A k \in DOMAIN es : /\ es[k].f.upvalues = ch[k].f.upvalues
                             /\ k = Len(es) \/ DOMAIN es[k].locals = DOMAIN ch[k].locals
    BY <1>1, <1>2
  <2> QED
    BY <2>1, <1>3, <1>4, TiesStay
<1>6. ASSUME NEW h \in Everyone(es, ds)  PROVE Closed(es, ds, h)
  <2>1. CASE h \in { ds[i] : i \in DOMAIN ds }
    <3>1. h \in Everyone(ch, ds)
      BY <2>1 DEF Everyone
    <3>2. Closed(ch, ds, h) /\ Follows(h, h)
      BY <3>1 DEF Tied, Follows
    <3> QED
      BY <3>2, <1>3, <1>4, ClosedStays
  <2>2. CASE \E k \in 1..n : h = es[k].f
    <3>1. PICK k \in 1..n : h = es[k].f
      BY <2>2
    <3>2. Closed(ch, ds, ch[k].f)
      BY <3>1, <1>1 DEF Tied, Everyone
    <3> QED
      BY <3>1, <3>2, <1>2, <1>3, <1>4, ClosedStays
  <2> QED
    BY <2>1, <2>2, <1>1 DEF Everyone
<1> QED
  BY <1>5, <1>6 DEF Tied

LEMMA CodeStep ==
    ASSUME NEW ch, NEW wk, NEW ds, NEW en, NEW dc, NEW ctx, NEW maps,
           Types(ch, wk, ds, en, dc), Good(ch, wk, ds, en, dc, ctx, maps), ctx[1].vars = ctx[1].seen,
           NEW e, NEW N, Coder(ch[Len(ch)], maps[Len(ch)], e, N), Limits(e),
           NEW es, NEW naps, Changed(ch, maps, e, N, es, naps),
           NEW pw, NEW pc, NEW P, Left(ch, wk, en, ctx, es, naps, pw, pc, P),
           Coding(ds, dc, e.f, N, P, pc[1].height, SlotsOf(ch[Len(ch)], ctx[1].vars))
    PROVE  Types(es, pw, ds, en, dc) /\ Good(es, pw, ds, en, dc, pc, naps)
<1>0. PICK n : n = Len(ch)
  OBVIOUS
<1>1. /\ ch \in Seq(Comp) /\ wk \in Seq(Item) /\ ctx \in Seq(Point)
      /\ n \in Nat /\ DOMAIN ch = 1..n /\ n \in DOMAIN ch /\ n >= 1
      /\ \A k \in DOMAIN ch : ch[k] \in Comp /\ Locals(ch[k], dc)
      /\ Heads(ch, en, maps, wk, ctx) /\ Sane(ctx[1]) /\ ctx[1].level = n
  BY <1>0, GoodIs
<1>2. /\ Going(es, en, naps, ctx[1], pw, pc)
      /\ Pending(pw, pc, n) = P
      /\ \A k \in 1..n - 1 : Pending(pw, pc, k) = Pending(wk, ctx, k)
  BY <1>0 DEF Left
<1>3. /\ Listed(es, en, naps, pw, pc) /\ pw \in Seq(Item) /\ pc \in Seq(Point)
      /\ Beside(ctx[1], pc[1]) /\ pw[1].k # "parameters"
  BY <1>2 DEF Going
<1>4. Coder(ch[n], maps[n], e, N) /\ Coding(ds, dc, e.f, N, P, pc[1].height, SlotsOf(ch[n], ctx[1].vars))
  BY <1>0
<1>5. /\ e \in Comp /\ e.locals = ch[n].locals /\ e.scopeDepth = ch[n].scopeDepth
      /\ e.f.upvalues = ch[n].f.upvalues /\ e.f.params = ch[n].f.params
      /\ e.f.gone = ch[n].f.gone
      /\ \A p \in Starts(ch[n].f) : Operation(e.f, p) = Operation(ch[n].f, p)
  BY <1>4 DEF Coder, Onward
<1>6. /\ es \in Seq(Comp) /\ Len(es) = n /\ DOMAIN es = 1..n /\ DOMAIN naps = DOMAIN es
      /\ es[n] = e /\ naps[n] = N
      /\ \A k \in 1..n - 1 : es[k] = ch[k] /\ naps[k] = maps[k]
  BY <1>0, <1>1, <1>5, ChangedIs
<1>7. pc[1].level = n /\ pc[1].vars = ctx[1].vars /\ pc[1].seen = ctx[1].seen
  BY <1>1, <1>3 DEF Beside, Sane, Point
<1>8. N[Len(e.f.code)] = Stack(ch[n], pc[1])
  <2>1. N[Len(e.f.code)] = [height |-> pc[1].height, slot |-> SlotsOf(ch[n], ctx[1].vars)]
    BY <1>4, FrameAtEnd
  <2> QED
    BY <2>1, <1>7 DEF Stack
<1>9. Heads(es, en, naps, pw, pc)
  <2>1. Coder(ch[n], maps[n], es[n], naps[n]) /\ naps[n][Len(es[n].f.code)] = Stack(ch[n], pc[1])
    BY <1>4, <1>6, <1>8
  <2>2. \A k \in 1..n - 1 : es[k] = ch[k]
    BY <1>6
  <2> QED
    BY <2>1, <2>2, <1>0, <1>1, <1>3, <1>6, CodeHeads
<1>10. Coded(es, ds, dc, naps, pw, pc)
  <2>1. Coded(ch, ds, dc, maps, wk, ctx)
    BY DEF Good
  <2>2. Late(es[n], pc[1]) = Global
    <3>1. pc[1].vars \in Nat /\ pc[1].vars = pc[1].seen
      BY <1>1, <1>7 DEF Sane, Point
    <3> QED
      BY <3>1 DEF Late
  <2>3. Sound(ds, es[n].f, naps[n], Pending(pw, pc, n), Late(es[n], pc[1]), dc)
    BY <2>2, <1>2, <1>4, <1>6 DEF Coding
  <2>4. Locals(es[n], dc)
    <3>1. Locals(ch[n], dc) /\ e.locals = ch[n].locals /\ e.f.params = ch[n].f.params /\ es[n] = e
      BY <1>1, <1>5, <1>6
    <3>2. Locals(e, dc)
      BY <3>1 DEF Locals
    <3> QED
      BY <3>1, <3>2
  <2>5. ASSUME NEW k \in 1..n - 1
        PROVE  /\ Sound(ds, es[k].f, naps[k], Pending(pw, pc, k), Global, dc)
               /\ Locals(es[k], dc) /\ k # n
    <3>1. k \in DOMAIN ch /\ k # n
      BY <1>1
    <3>2. Sound(ds, ch[k].f, maps[k], Pending(wk, ctx, k), Global, dc)
      BY <3>1, <2>1, <1>0 DEF Coded
    <3> QED
      BY <3>1, <3>2, <1>1, <1>2, <1>6
  <2>6. ASSUME NEW k \in DOMAIN es
        PROVE  /\ Sound(ds, es[k].f, naps[k], Pending(pw, pc, k),
                        IF k = Len(es) THEN Late(es[k], pc[1]) ELSE Global, dc)
               /\ Locals(es[k], dc)
    <3>1. k = n \/ k \in 1..n - 1
      BY <1>1, <1>6
    <3>2. CASE k = n
      BY <3>2, <2>3, <2>4, <1>6
    <3>3. CASE k \in 1..n - 1
      BY <3>3, <2>5, <1>6
    <3> QED
      BY <3>1, <3>2, <3>3
  <2> QED
    BY <2>6 DEF Coded
<1>11. Tied(es, ds, dc)
  <2>1. Follows(ch[n].f, es[n].f)
    <3>1. Dead(ch[n].f, maps[n], dc)
      BY <1>1 DEF Good, Coded, Sound
    <3>2. \A m \in ch[n].f.gone : m.at \in Starts(ch[n].f)
      BY <3>1 DEF Dead
    <3> QED
      BY <3>2, <1>5, <1>6 DEF Follows
  <2>2. Tied(ch, ds, dc)
    BY DEF Good
  <2>3. es[n].locals = ch[n].locals /\ es[n].f.upvalues = ch[n].f.upvalues
    BY <1>5, <1>6
  <2>4. \A k \in 1..n - 1 : es[k] = ch[k]
    BY <1>6
  <2> QED
    BY <2>1, <2>2, <2>3, <2>4, <1>0, <1>1, <1>6, CodeTied
<1>12. Good(es, pw, ds, en, dc, pc, naps)
  BY <1>3, <1>6, <1>9, <1>10, <1>11 DEF Good
<1>13. Types(es, pw, ds, en, dc)
  <2>1. \A k \in DOMAIN ch : Limits(ch[k])
    BY DEF Types
  <2>2. \A k \in 1..n : k = n \/ k \in 1..n - 1
    BY <1>1
  <2>3. \A k \in DOMAIN es : Limits(es[k])
    BY <2>1, <2>2, <1>1, <1>6
  <2> QED
    BY <2>3, <1>3, <1>6 DEF Types
<1> QED
  BY <1>12, <1>13

-----------------------------------------------------------------------------
(* Productions that add code to the current function, or none.             *)

\* What the function that is compiled is like.
LEMMA AtCode ==
    ASSUME NEW ch, NEW wk, NEW ds, NEW en, NEW dc, NEW ctx, NEW maps,
           Ready(ch, wk, ds, en, dc, ctx, maps), NEW n, n = Len(ch)
    PROVE  /\ ds \in Seq(Function) /\ dc \in Nat /\ n \in Nat /\ n >= 1
           /\ ch[n] \in Comp /\ Limits(ch[n]) /\ Locals(ch[n], dc)
           /\ Sane(ctx[1]) /\ ctx[1].vars = ctx[1].seen /\ ctx[1].all = Len(ch[n].locals)
           /\ Coding(ds, dc, ch[n].f, maps[n], Pending(wk, ctx, n), ctx[1].height,
                     SlotsOf(ch[n], ctx[1].vars))
           /\ Clear(ch[n].f, ctx[1].height, SlotsOf(ch[n], ctx[1].vars), ctx[1].vars)
           /\ maps[n][Len(ch[n].f.code)] = Stack(ch[n], ctx[1])
           /\ Len(ch[n].f.code) \in Spots(ch[n].f)
           /\ wk \in Seq(Item) /\ Len(wk) >= 2
<1>0. Types(ch, wk, ds, en, dc) /\ Good(ch, wk, ds, en, dc, ctx, maps) /\ wk[1].k \notin Outer
  BY DEF Ready
<1>1. /\ ch \in Seq(Comp) /\ wk \in Seq(Item) /\ ds \in Seq(Function) /\ dc \in Nat
      /\ n \in Nat /\ DOMAIN ch = 1..n /\ n \in DOMAIN ch /\ n >= 1
      /\ \A k \in DOMAIN ch : ch[k] \in Comp /\ Locals(ch[k], dc)
      /\ Listed(ch, en, maps, wk, ctx) /\ Heads(ch, en, maps, wk, ctx) /\ Sane(ctx[1])
      /\ ctx[1].level = n /\ ctx[1].all = Len(ch[n].locals) /\ Len(wk) \in Nat /\ Len(wk) >= 1
  BY <1>0, GoodIs
<1>2. Fine(ch, ctx[1]) /\ ctx[1].vars = ctx[1].seen
  <2>1. 1 \in 1..Len(wk) /\ wk[1].k # "define"
    BY <1>0, <1>1 DEF Outer
  <2> QED
    BY <2>1, <1>1 DEF Listed
<1>3. /\ ctx[1] \in Point /\ ctx[1].vars \in Nat /\ ctx[1].vars <= ctx[1].height
      /\ ctx[1].vars > Len(ch[n].f.params)
  BY <1>1, <1>2 DEF Fine, Sane, Point
<1>4. maps[n][Len(ch[n].f.code)] = Stack(ch[n], ctx[1])
  BY <1>1 DEF Heads, Here
<1>5. Coding(ds, dc, ch[n].f, maps[n], Pending(wk, ctx, n), ctx[1].height, SlotsOf(ch[n], ctx[1].vars))
  <2>1. Sound(ds, ch[n].f, maps[n], Pending(wk, ctx, n), Late(ch[n], ctx[1]), dc)
    BY <1>0, <1>1 DEF Good, Coded
  <2>2. Late(ch[n], ctx[1]) = Global
    BY <1>2, <1>3 DEF Late
  <2>3. ch[n].f \in Function
    BY <1>1, CompIs
  <2> QED
    BY <2>1, <2>2, <2>3, <1>4 DEF Coding, Stack
<1>6. Clear(ch[n].f, ctx[1].height, SlotsOf(ch[n], ctx[1].vars), ctx[1].vars)
  <2>1. \A i \in Slot : SlotsOf(ch[n], ctx[1].vars)[i] # Global => i <= ctx[1].vars
    BY DEF SlotsOf
  <2> QED
    BY <2>1, <1>3 DEF Clear
<1>7. ch[n] \in Comp /\ Limits(ch[n]) /\ Locals(ch[n], dc)
  BY <1>0, <1>1 DEF Types
<1>8. Len(wk) # 1
  <2>1. Len(wk) = 1 => wk[1].k = "endScript"
    BY <1>1 DEF Listed
  <2> QED
    BY <2>1, <1>0 DEF Outer
<1>9. Len(wk) >= 2
  <2>1. PICK l \in Nat : l = Len(wk)
    BY <1>1
  <2>2. l >= 1 /\ l # 1
    BY <2>1, <1>1, <1>8
  <2>3. l >= 2
    BY <2>2
  <2> QED
    BY <2>1, <2>3
<1>10. Len(ch[n].f.code) \in Spots(ch[n].f)
  BY DEF Spots
<1> QED
  BY <1>1, <1>2, <1>4, <1>5, <1>6, <1>7, <1>9, <1>10

\* Where the first item leads to, or stays.
LEMMA RestPoint ==
    ASSUME NEW ch, NEW wk, NEW ds, NEW en, NEW dc, NEW ctx, NEW maps,
           Ready(ch, wk, ds, en, dc, ctx, maps), NEW a, a = ctx[1], NEW b, b = RestCtx(wk, ctx)[1]
    PROVE  /\ Sane(b) /\ Beside(a, b) /\ a \in Point /\ b \in Point
           /\ wk[1].k = "expression" => b = Raise(a, 1)
           /\ wk[1].k \in {"statement", "declarations", "initializer", "for", "else"} =>
                  b = a /\ Settled(a)
           /\ wk[1].k \in {"and", "or"} => a.height > a.vars /\ b = a
           /\ wk[1].k \in {"then", "test", "forTest", "forIncrement", "exit"} =>
                  Settled(b) /\ a = Raise(b, 1)
           /\ wk[1].k = "patch" => b = a
           /\ wk[1].k \in {"loop", "forBody"} => Settled(a) /\ b = [a EXCEPT !.height = b.height]
           /\ wk[1].k = "emit" => Emission(wk[1].s, a, b)
           /\ Holds(wk[1], a, ctx[2], ch[Len(ch)], maps[Len(ch)])
           /\ wk[1].k # "declarations" => b = ctx[2]
           /\ Pending(wk, ctx, Len(ch)) =
                  Holes(wk[1]) \cup Pending(RestWork(wk), RestCtx(wk, ctx), Len(ch))
           /\ Holes(wk[1]) \cap Pending(RestWork(wk), RestCtx(wk, ctx), Len(ch)) = {}
<1>0. Types(ch, wk, ds, en, dc) /\ Good(ch, wk, ds, en, dc, ctx, maps) /\ wk[1].k \notin Outer
  BY DEF Ready
<1>1. /\ ch \in Seq(Comp) /\ wk \in Seq(Item) /\ ctx \in Seq(Point) /\ Len(ch) \in Nat
      /\ Listed(ch, en, maps, wk, ctx) /\ Sane(a) /\ a.level = Len(ch)
  BY <1>0, GoodIs
<1>2. wk[1].k # "endScript" /\ wk[1].k # "parameters"
  BY <1>0 DEF Outer
<1>3. /\ Splits(wk, ctx, RestWork(wk), RestCtx(wk, ctx), Len(ch))
      /\ Listed(ch, en, maps, RestWork(wk), RestCtx(wk, ctx))
      /\ RestWork(wk) \in Seq(Item) /\ Len(RestWork(wk)) >= 1
      /\ Link(ch, en, maps, wk[1], a, wk[2], ctx[2])
  BY <1>1, <1>2, SplitsRest
<1>4. Sane(b)
  <2>1. Len(RestWork(wk)) \in Nat /\ 1 \in 1..Len(RestWork(wk))
    BY <1>3
  <2> QED
    BY <2>1, <1>3 DEF Listed, Fine
<1>5. Fits(wk[1], a, wk[2], ctx[2]) /\ Holds(wk[1], a, ctx[2], ch[Len(ch)], maps[Len(ch)])
  BY <1>1, <1>3 DEF Link
<1>6. wk[1].k = "declarations" => b = a /\ Settled(a)
  <2>1. wk[1].k = "declarations" => b = a
    BY <1>3 DEF Splits
  <2> QED
    BY <2>1, <1>5 DEF Fits
<1>7. wk[1].k # "declarations" => b = ctx[2] /\ Fits(wk[1], a, wk[2], b)
  BY <1>3, <1>5 DEF Splits
<1>8. Beside(a, b)
  <2>1. b = a => Beside(a, b)
    BY <1>1 DEF Beside, Sane, Point
  <2> QED
    BY <2>1, <1>0, <1>1, <1>4, <1>6, <1>7, FitsBeside
<1>9. CASE wk[1].k = "declarations"
  BY <1>9, <1>1, <1>3, <1>4, <1>5, <1>6, <1>8 DEF Splits, Sane
<1>10. CASE wk[1].k # "declarations"
  <2>1. wk[1].k = "expression" => b = Raise(a, 1)
    BY <1>7 DEF Fits
  <2>2. wk[1].k \in {"statement", "declarations", "initializer", "for", "else"} => b = a /\ Settled(a)
    BY <1>7, <1>10 DEF Fits
  <2>3. wk[1].k \in {"and", "or"} => a.height > a.vars /\ b = a
    BY <1>7 DEF Fits
  <2>4. wk[1].k \in {"then", "test", "forTest", "forIncrement", "exit"} => Settled(b) /\ a = Raise(b, 1)
    BY <1>7 DEF Fits
  <2>5. wk[1].k = "patch" => b = a
    BY <1>7 DEF Fits
  <2>6. wk[1].k \in {"loop", "forBody"} => Settled(a) /\ b = [a EXCEPT !.height = b.height]
    BY <1>7 DEF Fits
  <2>7. wk[1].k = "emit" => Emission(wk[1].s, a, b)
    BY <1>7 DEF Fits
  <2> QED
    BY <2>1, <2>2, <2>3, <2>4, <2>5, <2>6, <2>7, <1>1, <1>3, <1>4, <1>5, <1>7, <1>8, <1>10 DEF Splits, Sane
<1> QED
  BY <1>9, <1>10

LEMMA TurnStart ==
    ASSUME NEW ch, NEW wk, NEW ds, NEW en, NEW dc, NEW ctx, NEW maps, NEW e, NEW N, NEW es, NEW P,
           Turn(ch, wk, ds, en, dc, ctx, maps, e, N, es, P)
    PROVE  /\ Left(ch, wk, en, ctx, es, Renewed(ch, maps, N), RestWork(wk), RestCtx(wk, ctx), P)
           /\ Sane(ctx[1]) /\ ctx[1].level = Len(ch)
           /\ es[Len(ch)] = e /\ Renewed(ch, maps, N)[Len(ch)] = N
<1> DEFINE naps == Renewed(ch, maps, N)
<1>1. /\ Types(ch, wk, ds, en, dc) /\ Good(ch, wk, ds, en, dc, ctx, maps) /\ wk[1].k \notin Outer
      /\ Coder(ch[Len(ch)], maps[Len(ch)], e, N)
  BY DEF Turn, Ready
<1>2. Changed(ch, maps, e, N, es, naps)
  BY DEF Turn, Changed, Renewed
<1>3. ch \in Seq(Comp) /\ Len(ch) >= 1 /\ Sane(ctx[1]) /\ ctx[1].level = Len(ch)
  BY <1>1, GoodIs
<1>4. e \in Comp
  BY <1>1 DEF Coder
<1> HIDE DEF naps
<1>5. es[Len(ch)] = e /\ naps[Len(ch)] = N
  BY <1>2, <1>3, <1>4, ChangedIs
<1>6. Left(ch, wk, en, ctx, es, naps, RestWork(wk), RestCtx(wk, ctx), P)
  BY <1>1, <1>2, CodeRest DEF Turn
<1> QED
  BY <1>3, <1>5, <1>6 DEF naps

LEMMA TurnEnd ==
    ASSUME NEW ch, NEW wk, NEW ds, NEW en, NEW dc, NEW ctx, NEW maps, NEW e, NEW N, NEW es, NEW P,
           Turn(ch, wk, ds, en, dc, ctx, maps, e, N, es, P), NEW pw, NEW pc, NEW Q,
           Left(ch, wk, en, ctx, es, Renewed(ch, maps, N), pw, pc, Q),
           Coding(ds, dc, e.f, N, Q, pc[1].height, SlotsOf(ch[Len(ch)], ctx[1].vars))
    PROVE  Valid(es, pw, ds, en, dc)
<1> DEFINE naps == Renewed(ch, maps, N)
<1>1. /\ Types(ch, wk, ds, en, dc) /\ Good(ch, wk, ds, en, dc, ctx, maps) /\ wk[1].k \notin Outer
      /\ Coder(ch[Len(ch)], maps[Len(ch)], e, N) /\ Ready(ch, wk, ds, en, dc, ctx, maps)
  BY DEF Turn, Ready
<1>2. Changed(ch, maps, e, N, es, naps)
  BY DEF Turn, Changed, Renewed
<1>3. ctx[1].vars = ctx[1].seen /\ Limits(ch[Len(ch)])
  BY <1>1, AtCode
<1>4. Limits(e)
  BY <1>1, <1>3 DEF Limits, Coder, Onward
<1> HIDE DEF naps
<1>5. Left(ch, wk, en, ctx, es, naps, pw, pc, Q)
  BY DEF naps
<1>6. Types(es, pw, ds, en, dc) /\ Good(es, pw, ds, en, dc, pc, naps)
  BY <1>1, <1>2, <1>3, <1>4, <1>5, CodeStep
<1> QED
  BY <1>6 DEF Valid

\* Sequences that begin with a few elements.
LEMMA ConcatOne ==
    ASSUME NEW S, NEW s \in Seq(S), NEW x \in S
    PROVE  /\ <<x>> \in Seq(S) /\ Len(<<x>>) = 1 /\ <<x>>[1] = x
           /\ <<x>> \o s \in Seq(S) /\ <<>> \o s = s
<1>1. <<x>> \in Seq(S) /\ Len(<<x>>) = 1 /\ <<x>>[1] = x
  OBVIOUS
<1>2. <<x>> \o s \in Seq(S)
  BY <1>1, ConcatProperties
<1>3. <<>> \o s = s
  BY ConcatEmptySeq
<1> QED
  BY <1>1, <1>2, <1>3

LEMMA ConcatTwo ==
    ASSUME NEW S, NEW s \in Seq(S), NEW x \in S, NEW y \in S
    PROVE  <<x, y>> \o s = <<x>> \o (<<y>> \o s)
<1>1. /\ <<x, y>> \in Seq(S) /\ Len(<<x, y>>) = 2
      /\ <<x, y>>[1] = x /\ <<x, y>>[2] = y
  OBVIOUS
<1>2. <<x>> \in Seq(S) /\ Len(<<x>>) = 1 /\ <<x>>[1] = x
  OBVIOUS
<1>3. <<y>> \in Seq(S) /\ Len(<<y>>) = 1 /\ <<y>>[1] = y
  OBVIOUS
<1>4. /\ <<x>> \o <<y>> \in Seq(S) /\ Len(<<x>> \o <<y>>) = 2
      /\ (<<x>> \o <<y>>)[1] = x /\ (<<x>> \o <<y>>)[2] = y
  BY <1>2, <1>3, ConcatProperties
<1>5. <<x, y>> = <<x>> \o <<y>>
  <2>1. \A i \in 1..2 : i = 1 \/ i = 2
    OBVIOUS
  <2>2. \A i \in 1..Len(<<x, y>>) : <<x, y>>[i] = (<<x>> \o <<y>>)[i]
    BY <2>1, <1>1, <1>4
  <2> QED
    BY <1>1, <1>4, <2>2, SeqEqual
<1>6. (<<x>> \o <<y>>) \o s = <<x>> \o (<<y>> \o s)
  BY <1>2, <1>3, ConcatAssociative
<1> QED
  BY <1>5, <1>6

LEMMA ConcatThree ==
    ASSUME NEW S, NEW s \in Seq(S), NEW x \in S, NEW y \in S, NEW z \in S
    PROVE  OneByOne3(x, y, z, s)
<1>1. /\ <<x, y, z>> \in Seq(S) /\ Len(<<x, y, z>>) = 3
      /\ <<x, y, z>>[1] = x /\ <<x, y, z>>[2] = y /\ <<x, y, z>>[3] = z
  OBVIOUS
<1>2. <<x, y>> \in Seq(S) /\ Len(<<x, y>>) = 2 /\ <<x, y>>[1] = x /\ <<x, y>>[2] = y
  OBVIOUS
<1>3. <<z>> \in Seq(S) /\ Len(<<z>>) = 1 /\ <<z>>[1] = z
  OBVIOUS
<1>4. /\ <<x, y>> \o <<z>> \in Seq(S) /\ Len(<<x, y>> \o <<z>>) = 3
      /\ (<<x, y>> \o <<z>>)[1] = x /\ (<<x, y>> \o <<z>>)[2] = y /\ (<<x, y>> \o <<z>>)[3] = z
  BY <1>2, <1>3, ConcatProperties
<1>5. <<x, y, z>> = <<x, y>> \o <<z>>
  <2>1. \A i \in 1..3 : i = 1 \/ i = 2 \/ i = 3
    OBVIOUS
  <2>2. \A i \in 1..Len(<<x, y, z>>) : <<x, y, z>>[i] = (<<x, y>> \o <<z>>)[i]
    BY <2>1, <1>1, <1>4
  <2> QED
    BY <1>1, <1>4, <2>2, SeqEqual
<1>6. (<<x, y>> \o <<z>>) \o s = <<x, y>> \o (<<z>> \o s)
  BY <1>2, <1>3, ConcatAssociative
<1>7. PICK t \in Seq(S) : t = <<z>> \o s
  BY ConcatOne
<1>8. <<x, y>> \o t = <<x>> \o (<<y>> \o t)
  BY <1>7, ConcatTwo
<1> QED
  BY <1>5, <1>6, <1>7, <1>8, Zenon DEF OneByOne3

LEMMA ConcatFour ==
    ASSUME NEW S, NEW s \in Seq(S), NEW x \in S, NEW y \in S, NEW z \in S, NEW u \in S
    PROVE  OneByOne4(x, y, z, u, s)
<1>1. /\ <<x, y, z, u>> \in Seq(S) /\ Len(<<x, y, z, u>>) = 4
      /\ <<x, y, z, u>>[1] = x /\ <<x, y, z, u>>[2] = y /\ <<x, y, z, u>>[3] = z /\ <<x, y, z, u>>[4] = u
  OBVIOUS
<1>2. <<x, y, z>> \in Seq(S) /\ Len(<<x, y, z>>) = 3 /\ <<x, y, z>>[1] = x /\ <<x, y, z>>[2] = y /\ <<x, y, z>>[3] = z
  OBVIOUS
<1>3. <<u>> \in Seq(S) /\ Len(<<u>>) = 1 /\ <<u>>[1] = u
  OBVIOUS
<1>4. /\ <<x, y, z>> \o <<u>> \in Seq(S) /\ Len(<<x, y, z>> \o <<u>>) = 4
      /\ (<<x, y, z>> \o <<u>>)[1] = x /\ (<<x, y, z>> \o <<u>>)[2] = y /\ (<<x, y, z>> \o <<u>>)[3] = z /\ (<<x, y, z>> \o <<u>>)[4] = u
  BY <1>2, <1>3, ConcatProperties
<1>5. <<x, y, z, u>> = <<x, y, z>> \o <<u>>
  <2>1. \A i \in 1..4 : i = 1 \/ i = 2 \/ i = 3 \/ i = 4
    OBVIOUS
  <2>2. \A i \in 1..Len(<<x, y, z, u>>) : <<x, y, z, u>>[i] = (<<x, y, z>> \o <<u>>)[i]
    BY <2>1, <1>1, <1>4
  <2> QED
    BY <1>1, <1>4, <2>2, SeqEqual
<1>6. (<<x, y, z>> \o <<u>>) \o s = <<x, y, z>> \o (<<u>> \o s)
  BY <1>2, <1>3, ConcatAssociative
<1>7. PICK t \in Seq(S) : t = <<u>> \o s
  BY ConcatOne
<1>8. OneByOne3(x, y, z, t)
  BY <1>7, ConcatThree
<1> QED
  BY <1>5, <1>6, <1>7, <1>8, Zenon DEF OneByOne3, OneByOne4

\* A production leaves up to four parts before the rest.
LEMMA Parts0 ==
    ASSUME NEW ch, NEW wk, NEW ds, NEW en, NEW dc, NEW ctx, NEW maps, NEW e, NEW N, NEW es, NEW P,
           Turn(ch, wk, ds, en, dc, ctx, maps, e, N, es, P),
           Coding(ds, dc, e.f, N, P, RestCtx(wk, ctx)[1].height, SlotsOf(ch[Len(ch)], ctx[1].vars))
    PROVE  Valid(es, RestWork(wk), ds, en, dc)
<1>1. Left(ch, wk, en, ctx, es, Renewed(ch, maps, N), RestWork(wk), RestCtx(wk, ctx), P)
  BY TurnStart
<1> QED
  BY <1>1, TurnEnd

LEMMA Parts1 ==
    ASSUME NEW ch, NEW wk, NEW ds, NEW en, NEW dc, NEW ctx, NEW maps, NEW e, NEW N, NEW es, NEW P,
           Turn(ch, wk, ds, en, dc, ctx, maps, e, N, es, P),
           NEW w1, NEW p1,
           Part(ctx[1], w1, p1, RestWork(wk)[1], RestCtx(wk, ctx)[1], e, N, P),
           Coding(ds, dc, e.f, N, Holes(w1) \cup P, p1.height,
                  SlotsOf(ch[Len(ch)], ctx[1].vars))
    PROVE  Valid(es, <<w1>> \o RestWork(wk), ds, en, dc)
<1>1. PICK naps : naps = Renewed(ch, maps, N)
  OBVIOUS
<1>2. PICK r, q : r = RestWork(wk) /\ q = RestCtx(wk, ctx)
  OBVIOUS
<1>3. /\ Left(ch, wk, en, ctx, es, naps, r, q, P)
      /\ Sane(ctx[1]) /\ ctx[1].level = Len(ch) /\ es[Len(ch)] = e /\ naps[Len(ch)] = N
  BY <1>1, <1>2, TurnStart
<1>4. PICK r1, q1 : Before(w1, r, r1) /\ Before(p1, q, q1)
  BY DEF Before
<1>5. PICK P1 : P1 = Holes(w1) \cup P
  OBVIOUS
<1>6. Adds(ch, wk, en, ctx, es, naps, r, q, P, w1, p1, r1, q1)
  BY <1>2, <1>3, <1>4, <1>5 DEF Adds
<1>7. Left(ch, wk, en, ctx, es, naps, r1, q1, P1) /\ r1[1] = w1 /\ q1[1] = p1
  <2>1. Left(ch, wk, en, ctx, es, naps, r1, q1, Holes(w1) \cup P) /\ r1[1] = w1 /\ q1[1] = p1
    BY <1>6, PartBefore
  <2> QED
    BY <2>1, <1>5
<1>8. Valid(es, r1, ds, en, dc)
  BY <1>7, <1>1, <1>2, <1>4, <1>5, TurnEnd
<1> QED
  BY <1>8, <1>2, <1>4, <1>5, Zenon DEF Before

LEMMA Parts2 ==
    ASSUME NEW ch, NEW wk, NEW ds, NEW en, NEW dc, NEW ctx, NEW maps, NEW e, NEW N, NEW es, NEW P,
           Turn(ch, wk, ds, en, dc, ctx, maps, e, N, es, P),
           NEW w1, NEW p1, NEW w2, NEW p2,
           Part(ctx[1], w2, p2, RestWork(wk)[1], RestCtx(wk, ctx)[1], e, N, P),
           Part(ctx[1], w1, p1, w2, p2, e, N, Holes(w2) \cup P),
           Coding(ds, dc, e.f, N, Holes(w1) \cup (Holes(w2) \cup P), p1.height,
                  SlotsOf(ch[Len(ch)], ctx[1].vars))
    PROVE  Valid(es, <<w1, w2>> \o RestWork(wk), ds, en, dc)
<1>1. PICK naps : naps = Renewed(ch, maps, N)
  OBVIOUS
<1>2. PICK r, q : r = RestWork(wk) /\ q = RestCtx(wk, ctx)
  OBVIOUS
<1>3. /\ Left(ch, wk, en, ctx, es, naps, r, q, P)
      /\ Sane(ctx[1]) /\ ctx[1].level = Len(ch) /\ es[Len(ch)] = e /\ naps[Len(ch)] = N
  BY <1>1, <1>2, TurnStart
<1>4. PICK r2, q2 : Before(w2, r, r2) /\ Before(p2, q, q2)
  BY DEF Before
<1>5. PICK P2 : P2 = Holes(w2) \cup P
  OBVIOUS
<1>6. Adds(ch, wk, en, ctx, es, naps, r, q, P, w2, p2, r2, q2)
  BY <1>2, <1>3, <1>4, <1>5 DEF Adds
<1>7. Left(ch, wk, en, ctx, es, naps, r2, q2, P2) /\ r2[1] = w2 /\ q2[1] = p2
  <2>1. Left(ch, wk, en, ctx, es, naps, r2, q2, Holes(w2) \cup P) /\ r2[1] = w2 /\ q2[1] = p2
    BY <1>6, PartBefore
  <2> QED
    BY <2>1, <1>5
<1>8. PICK r1, q1 : Before(w1, r2, r1) /\ Before(p1, q2, q1)
  BY DEF Before
<1>9. PICK P1 : P1 = Holes(w1) \cup P2
  OBVIOUS
<1>10. Adds(ch, wk, en, ctx, es, naps, r2, q2, P2, w1, p1, r1, q1)
  BY <1>2, <1>3, <1>4, <1>5, <1>7, <1>8, <1>9 DEF Adds
<1>11. Left(ch, wk, en, ctx, es, naps, r1, q1, P1) /\ r1[1] = w1 /\ q1[1] = p1
  <2>1. Left(ch, wk, en, ctx, es, naps, r1, q1, Holes(w1) \cup P2) /\ r1[1] = w1 /\ q1[1] = p1
    BY <1>10, PartBefore
  <2> QED
    BY <2>1, <1>9
<1>12. Valid(es, r1, ds, en, dc)
  BY <1>11, <1>1, <1>2, <1>4, <1>5, <1>8, <1>9, TurnEnd
<1>13. w1 \in Item /\ w2 \in Item
  BY DEF Part
<1>14. r \in Seq(Item)
  BY <1>3 DEF Left, Going
<1>15. <<w1, w2>> \o r = <<w1>> \o (<<w2>> \o r)
  BY <1>13, <1>14, ConcatTwo
<1> QED
  BY <1>12, <1>15, <1>2, <1>4, <1>5, <1>8, <1>9, Zenon DEF Before

LEMMA Parts3 ==
    ASSUME NEW ch, NEW wk, NEW ds, NEW en, NEW dc, NEW ctx, NEW maps, NEW e, NEW N, NEW es, NEW P,
           Turn(ch, wk, ds, en, dc, ctx, maps, e, N, es, P),
           NEW w1, NEW p1, NEW w2, NEW p2, NEW w3, NEW p3,
           Part(ctx[1], w3, p3, RestWork(wk)[1], RestCtx(wk, ctx)[1], e, N, P),
           Part(ctx[1], w2, p2, w3, p3, e, N, Holes(w3) \cup P),
           Part(ctx[1], w1, p1, w2, p2, e, N, Holes(w2) \cup (Holes(w3) \cup P)),
           Coding(ds, dc, e.f, N, Holes(w1) \cup (Holes(w2) \cup (Holes(w3) \cup P)), p1.height,
                  SlotsOf(ch[Len(ch)], ctx[1].vars))
    PROVE  Valid(es, <<w1, w2, w3>> \o RestWork(wk), ds, en, dc)
<1>1. PICK naps : naps = Renewed(ch, maps, N)
  OBVIOUS
<1>2. PICK r, q : r = RestWork(wk) /\ q = RestCtx(wk, ctx)
  OBVIOUS
<1>3. /\ Left(ch, wk, en, ctx, es, naps, r, q, P)
      /\ Sane(ctx[1]) /\ ctx[1].level = Len(ch) /\ es[Len(ch)] = e /\ naps[Len(ch)] = N
  BY <1>1, <1>2, TurnStart
<1>4. PICK r3, q3 : Before(w3, r, r3) /\ Before(p3, q, q3)
  BY DEF Before
<1>5. PICK P3 : P3 = Holes(w3) \cup P
  OBVIOUS
<1>6. Adds(ch, wk, en, ctx, es, naps, r, q, P, w3, p3, r3, q3)
  BY <1>2, <1>3, <1>4, <1>5 DEF Adds
<1>7. Left(ch, wk, en, ctx, es, naps, r3, q3, P3) /\ r3[1] = w3 /\ q3[1] = p3
  <2>1. Left(ch, wk, en, ctx, es, naps, r3, q3, Holes(w3) \cup P) /\ r3[1] = w3 /\ q3[1] = p3
    BY <1>6, PartBefore
  <2> QED
    BY <2>1, <1>5
<1>8. PICK r2, q2 : Before(w2, r3, r2) /\ Before(p2, q3, q2)
  BY DEF Before
<1>9. PICK P2 : P2 = Holes(w2) \cup P3
  OBVIOUS
<1>10. Adds(ch, wk, en, ctx, es, naps, r3, q3, P3, w2, p2, r2, q2)
  BY <1>2, <1>3, <1>4, <1>5, <1>7, <1>8, <1>9 DEF Adds
<1>11. Left(ch, wk, en, ctx, es, naps, r2, q2, P2) /\ r2[1] = w2 /\ q2[1] = p2
  <2>1. Left(ch, wk, en, ctx, es, naps, r2, q2, Holes(w2) \cup P3) /\ r2[1] = w2 /\ q2[1] = p2
    BY <1>10, PartBefore
  <2> QED
    BY <2>1, <1>9
<1>12. PICK r1, q1 : Before(w1, r2, r1) /\ Before(p1, q2, q1)
  BY DEF Before
<1>13. PICK P1 : P1 = Holes(w1) \cup P2
  OBVIOUS
<1>14. Adds(ch, wk, en, ctx, es, naps, r2, q2, P2, w1, p1, r1, q1)
  BY <1>2, <1>3, <1>4, <1>5, <1>8, <1>9, <1>11, <1>12, <1>13 DEF Adds
<1>15. Left(ch, wk, en, ctx, es, naps, r1, q1, P1) /\ r1[1] = w1 /\ q1[1] = p1
  <2>1. Left(ch, wk, en, ctx, es, naps, r1, q1, Holes(w1) \cup P2) /\ r1[1] = w1 /\ q1[1] = p1
    BY <1>14, PartBefore
  <2> QED
    BY <2>1, <1>13
<1>16. Valid(es, r1, ds, en, dc)
  BY <1>15, <1>1, <1>2, <1>4, <1>5, <1>8, <1>9, <1>12, <1>13, TurnEnd
<1>17. w1 \in Item /\ w2 \in Item /\ w3 \in Item
  BY DEF Part
<1>18. r \in Seq(Item)
  BY <1>3 DEF Left, Going
<1>19. OneByOne3(w1, w2, w3, r)
  BY <1>17, <1>18, ConcatThree
<1> QED
  BY <1>16, <1>19, <1>2, <1>4, <1>5, <1>8, <1>9, <1>12, <1>13, Zenon DEF Before, OneByOne3

LEMMA Parts4 ==
    ASSUME NEW ch, NEW wk, NEW ds, NEW en, NEW dc, NEW ctx, NEW maps, NEW e, NEW N, NEW es, NEW P,
           Turn(ch, wk, ds, en, dc, ctx, maps, e, N, es, P),
           NEW w1, NEW p1, NEW w2, NEW p2, NEW w3, NEW p3, NEW w4, NEW p4,
           Part(ctx[1], w4, p4, RestWork(wk)[1], RestCtx(wk, ctx)[1], e, N, P),
           Part(ctx[1], w3, p3, w4, p4, e, N, Holes(w4) \cup P),
           Part(ctx[1], w2, p2, w3, p3, e, N, Holes(w3) \cup (Holes(w4) \cup P)),
           Part(ctx[1], w1, p1, w2, p2, e, N, Holes(w2) \cup (Holes(w3) \cup (Holes(w4) \cup P))),
           Coding(ds, dc, e.f, N, Holes(w1) \cup (Holes(w2) \cup (Holes(w3) \cup (Holes(w4) \cup P))), p1.height,
                  SlotsOf(ch[Len(ch)], ctx[1].vars))
    PROVE  Valid(es, <<w1, w2, w3, w4>> \o RestWork(wk), ds, en, dc)
<1>1. PICK naps : naps = Renewed(ch, maps, N)
  OBVIOUS
<1>2. PICK r, q : r = RestWork(wk) /\ q = RestCtx(wk, ctx)
  OBVIOUS
<1>3. /\ Left(ch, wk, en, ctx, es, naps, r, q, P)
      /\ Sane(ctx[1]) /\ ctx[1].level = Len(ch) /\ es[Len(ch)] = e /\ naps[Len(ch)] = N
  BY <1>1, <1>2, TurnStart
<1>4. PICK r4, q4 : Before(w4, r, r4) /\ Before(p4, q, q4)
  BY DEF Before
<1>5. PICK P4 : P4 = Holes(w4) \cup P
  OBVIOUS
<1>6. Adds(ch, wk, en, ctx, es, naps, r, q, P, w4, p4, r4, q4)
  BY <1>2, <1>3, <1>4, <1>5 DEF Adds
<1>7. Left(ch, wk, en, ctx, es, naps, r4, q4, P4) /\ r4[1] = w4 /\ q4[1] = p4
  <2>1. Left(ch, wk, en, ctx, es, naps, r4, q4, Holes(w4) \cup P) /\ r4[1] = w4 /\ q4[1] = p4
    BY <1>6, PartBefore
  <2> QED
    BY <2>1, <1>5
<1>8. PICK r3, q3 : Before(w3, r4, r3) /\ Before(p3, q4, q3)
  BY DEF Before
<1>9. PICK P3 : P3 = Holes(w3) \cup P4
  OBVIOUS
<1>10. Adds(ch, wk, en, ctx, es, naps, r4, q4, P4, w3, p3, r3, q3)
  BY <1>2, <1>3, <1>4, <1>5, <1>7, <1>8, <1>9 DEF Adds
<1>11. Left(ch, wk, en, ctx, es, naps, r3, q3, P3) /\ r3[1] = w3 /\ q3[1] = p3
  <2>1. Left(ch, wk, en, ctx, es, naps, r3, q3, Holes(w3) \cup P4) /\ r3[1] = w3 /\ q3[1] = p3
    BY <1>10, PartBefore
  <2> QED
    BY <2>1, <1>9
<1>12. PICK r2, q2 : Before(w2, r3, r2) /\ Before(p2, q3, q2)
  BY DEF Before
<1>13. PICK P2 : P2 = Holes(w2) \cup P3
  OBVIOUS
<1>14. Adds(ch, wk, en, ctx, es, naps, r3, q3, P3, w2, p2, r2, q2)
  BY <1>2, <1>3, <1>4, <1>5, <1>8, <1>9, <1>11, <1>12, <1>13 DEF Adds
<1>15. Left(ch, wk, en, ctx, es, naps, r2, q2, P2) /\ r2[1] = w2 /\ q2[1] = p2
  <2>1. Left(ch, wk, en, ctx, es, naps, r2, q2, Holes(w2) \cup P3) /\ r2[1] = w2 /\ q2[1] = p2
    BY <1>14, PartBefore
  <2> QED
    BY <2>1, <1>13
<1>16. PICK r1, q1 : Before(w1, r2, r1) /\ Before(p1, q2, q1)
  BY DEF Before
<1>17. PICK P1 : P1 = Holes(w1) \cup P2
  OBVIOUS
<1>18. Adds(ch, wk, en, ctx, es, naps, r2, q2, P2, w1, p1, r1, q1)
  BY <1>2, <1>3, <1>4, <1>5, <1>8, <1>9, <1>12, <1>13, <1>15, <1>16, <1>17 DEF Adds
<1>19. Left(ch, wk, en, ctx, es, naps, r1, q1, P1) /\ r1[1] = w1 /\ q1[1] = p1
  <2>1. Left(ch, wk, en, ctx, es, naps, r1, q1, Holes(w1) \cup P2) /\ r1[1] = w1 /\ q1[1] = p1
    BY <1>18, PartBefore
  <2> QED
    BY <2>1, <1>17
<1>20. Valid(es, r1, ds, en, dc)
  BY <1>19, <1>1, <1>2, <1>4, <1>5, <1>8, <1>9, <1>12, <1>13, <1>16, <1>17, TurnEnd
<1>21. w1 \in Item /\ w2 \in Item /\ w3 \in Item /\ w4 \in Item
  BY DEF Part
<1>22. r \in Seq(Item)
  BY <1>3 DEF Left, Going
<1>23. OneByOne4(w1, w2, w3, w4, r)
  BY <1>21, <1>22, ConcatFour
<1> QED
  BY <1>20, <1>23, <1>2, <1>4, <1>5, <1>8, <1>9, <1>12, <1>13, <1>16, <1>17, Zenon DEF Before, OneByOne4

\* Points that differ in their height.
LEMMA Higher ==
    ASSUME NEW a, Sane(a), NEW i, i \in Int, a.height + i >= a.vars
    PROVE  /\ Sane(Raise(a, i)) /\ Beside(a, Raise(a, i))
           /\ Raise(a, i).vars = a.vars /\ Raise(a, i).seen = a.seen /\ Raise(a, i).all = a.all
           /\ Raise(a, i).height = a.height + i
           /\ \A j : j \in Int => Raise(Raise(a, i), j) = Raise(a, i + j)
           /\ Raise(a, 0) = a
<1>1. /\ a \in Point /\ a.height \in Nat /\ a.vars \in Nat
  BY Points
<1>2. /\ Raise(a, i).level = a.level /\ Raise(a, i).depth = a.depth /\ Raise(a, i).env = a.env
      /\ Raise(a, i).all = a.all /\ Raise(a, i).seen = a.seen /\ Raise(a, i).vars = a.vars
      /\ Raise(a, i).height = a.height + i
  BY <1>1, Raised
<1>3. a.height + i \in Nat
  BY <1>1
<1>4. Raise(a, i) \in Point /\ Beside(a, Raise(a, i))
  BY <1>1, <1>3, BesideRaised
<1>5. Sane(Raise(a, i))
  <2>1. /\ a.level >= 1 /\ a.env >= 1 /\ a.vars >= 1 /\ a.all <= Count
        /\ a.all - 1 <= a.vars /\ a.vars <= a.seen /\ a.seen <= a.all
    BY DEF Sane
  <2>2. a.vars <= a.height + i
    BY <1>1
  <2> HIDE DEF Raise
  <2> QED
    BY <2>1, <2>2, <1>2, <1>4 DEF Sane
<1>6. ASSUME NEW j, j \in Int  PROVE Raise(Raise(a, i), j) = Raise(a, i + j)
  <2>1. Raise(a, i).height + j = a.height + (i + j)
    BY <1>1, <1>2, <1>6
  <2>2. Raise(Raise(a, i), j) = [Raise(a, i) EXCEPT !.height = Raise(a, i).height + j]
    BY DEF Raise
  <2>3. Raise(a, i + j) = [a EXCEPT !.height = a.height + (i + j)]
    BY DEF Raise
  <2>4. Raise(a, i) = [a EXCEPT !.height = a.height + i]
    BY DEF Raise
  <2> QED
    BY <2>1, <2>2, <2>3, <2>4, <1>1 DEF Point
<1>7. Raise(a, 0) = a
  BY <1>1 DEF Raise, Point
<1> QED
  BY <1>2, <1>4, <1>5, <1>6, <1>7

LEMMA DoIs ==
    ASSUME NEW k \in Kinds
    PROVE  Do(k) \in Item /\ Do(k).k = k /\ Do(k).s = <<>>
<1>1. <<>> \in Seq(Nat) /\ <<>> \in Seq(Bytes)
  BY EmptySeq
<1> QED
  BY <1>1 DEF Do, Item

LEMMA AtIs ==
    ASSUME NEW k \in Kinds, NEW at \in Seq(Nat)
    PROVE  At(k, at) \in Item /\ At(k, at).k = k /\ At(k, at).at = at
<1>1. <<>> \in Seq(Bytes)
  BY EmptySeq
<1> QED
  BY <1>1 DEF At, Item

LEMMA EmitsIs ==
    ASSUME NEW s \in Seq(Bytes)
    PROVE  /\ Emits(s) \in Item /\ Emits(s).k = "emit" /\ Emits(s).s = s
           /\ Defines(s) \in Item /\ Defines(s).k = "define" /\ Defines(s).s = s
<1>1. <<>> \in Seq(Nat)
  BY EmptySeq
<1>2. "emit" \in Kinds /\ "define" \in Kinds
  BY DEF Kinds
<1> QED
  BY <1>1, <1>2 DEF Emits, Defines, Item

\* Items that hold whatever the code is.
LEMMA ExpressionPart ==
    ASSUME NEW a, NEW p, Sane(p), Beside(a, p), p.vars = p.seen, NEW v, NEW b, b = Raise(p, 1),
           NEW e, NEW N, NEW P
    PROVE  Part(a, Expression, p, v, b, e, N, P) /\ Holes(Expression) = {}
<1>1. Expression.k = "expression" /\ Expression \in Item
  <2>1. "expression" \in Kinds
    BY DEF Kinds
  <2> QED
    BY <2>1, DoIs DEF Expression
<1> HIDE DEF Expression
<1> QED
  BY <1>1 DEF Part, Fits, Holds, Holes, Outer

LEMMA EmitsPart ==
    ASSUME NEW a, NEW p, Sane(p), Beside(a, p), p.vars = p.seen, NEW v, NEW b,
           NEW s \in Seq(Bytes), Emission(s, p, b), s[1].op \notin Sets, NEW e, NEW N, NEW P
    PROVE  Part(a, Emits(s), p, v, b, e, N, P) /\ Holes(Emits(s)) = {}
<1>1. Emits(s).k = "emit" /\ Emits(s).s = s /\ Emits(s) \in Item
  BY EmitsIs
<1> HIDE DEF Emits
<1> QED
  BY <1>1 DEF Part, Fits, Holds, Holes, Outer

LEMMA StatementPart ==
    ASSUME NEW a, NEW p, Sane(p), Beside(a, p), Settled(p), NEW v, NEW e, NEW N, NEW P
    PROVE  Part(a, Do("statement"), p, v, p, e, N, P) /\ Holes(Do("statement")) = {}
<1>1. Do("statement").k = "statement" /\ Do("statement") \in Item
  <2>1. "statement" \in Kinds
    BY DEF Kinds
  <2> QED
    BY <2>1, DoIs
<1>2. p.vars = p.seen
  BY DEF Settled
<1> HIDE DEF Do
<1> QED
  BY <1>1, <1>2 DEF Part, Fits, Holds, Holes, Outer

LEMMA RestOpen ==
    ASSUME NEW ch, NEW wk, NEW ds, NEW en, NEW dc, NEW ctx, NEW maps,
           Ready(ch, wk, ds, en, dc, ctx, maps)
    PROVE  /\ Pending(wk, ctx, Len(ch)) =
                  Holes(wk[1]) \cup Pending(RestWork(wk), RestCtx(wk, ctx), Len(ch))
           /\ Holes(wk[1]) \cap Pending(RestWork(wk), RestCtx(wk, ctx), Len(ch)) = {}
<1>1. PICK a, b : a = ctx[1] /\ b = RestCtx(wk, ctx)[1]
  OBVIOUS
<1> QED
  BY <1>1, RestPoint

\* The function that is compiled does not change.
LEMMA Idle ==
    ASSUME NEW ch, NEW wk, NEW ds, NEW en, NEW dc, NEW ctx, NEW maps,
           Ready(ch, wk, ds, en, dc, ctx, maps), Holes(wk[1]) = {},
           NEW es, es = [ch EXCEPT ![Len(ch)] = ch[Len(ch)]],
           NEW P, P = Pending(RestWork(wk), RestCtx(wk, ctx), Len(ch))
    PROVE  /\ Turn(ch, wk, ds, en, dc, ctx, maps, ch[Len(ch)], maps[Len(ch)], es, P)
           /\ Coding(ds, dc, ch[Len(ch)].f, maps[Len(ch)], P, ctx[1].height,
                     SlotsOf(ch[Len(ch)], ctx[1].vars))
<1> DEFINE c == ch[Len(ch)]
           M == maps[Len(ch)]
<1>1. c \in Comp /\ Coding(ds, dc, c.f, M, Pending(wk, ctx, Len(ch)), ctx[1].height, SlotsOf(c, ctx[1].vars))
  BY AtCode
<1>2. Pending(wk, ctx, Len(ch)) = P
  <2>1. Pending(wk, ctx, Len(ch)) = Holes(wk[1]) \cup P
    BY RestOpen
  <2> QED
    BY <2>1
<1>3. Coder(c, M, c, M)
  <2>1. Len(c.f.code) \in Nat
    BY <1>1, CompIs, CodeBytes
  <2> QED
    BY <2>1, <1>1 DEF Coder, Onward
<1> QED
  BY <1>1, <1>2, <1>3 DEF Turn

\* Instructions and operands are bytes.
LEMMA OpIs ==
    ASSUME NEW o \in Instructions
    PROVE  /\ Op(o) \in Bytes /\ Op(o).op = o /\ Op(o).op # "operand"
           /\ \A d \in 0..Itself : /\ Ref(o, d) \in Bytes /\ Ref(o, d).op = o /\ Ref(o, d).decl = d
                                   /\ Ref(o, d).op # "operand"
<1>1. o # "operand"
  BY DEF Instructions
<1>2. Global \in 0..Itself
  BY CompilerConstants DEF Global, Itself
<1> QED
  BY <1>1, <1>2 DEF Op, Ref, Bytes

LEMMA ByteIs ==
    ASSUME NEW n \in Nat
    PROVE  Byte(n) \in Bytes /\ Byte(n).op = "operand" /\ Byte(n).n = n
<1>1. Global \in 0..Itself
  BY CompilerConstants DEF Global, Itself
<1> QED
  BY <1>1 DEF Byte, Bytes

LEMMA OneByte ==
    ASSUME NEW x \in Bytes
    PROVE  <<x>> \in Seq(Bytes) /\ Len(<<x>>) = 1 /\ <<x>>[1] = x
  OBVIOUS

LEMMA TwoByte ==
    ASSUME NEW x \in Bytes, NEW y \in Bytes
    PROVE  <<x, y>> \in Seq(Bytes) /\ Len(<<x, y>>) = 2 /\ <<x, y>>[1] = x /\ <<x, y>>[2] = y
  OBVIOUS

\* Single instructions that expressions and statements end with.
LEMMA SingleIs ==
    ASSUME NEW o \in Instructions \ Sets
    PROVE  <<Op(o)>> \in Seq(Bytes) /\ <<Op(o)>>[1].op = o /\ <<Op(o)>>[1].op \notin Sets
<1>1. Op(o) \in Bytes /\ Op(o).op = o
  BY OpIs
<1>2. <<Op(o)>> \in Seq(Bytes) /\ <<Op(o)>>[1] = Op(o)
  BY <1>1, OneByte
<1> QED
  BY <1>1, <1>2

\* In the place of an expression.
LEMMA LiteralStep ==
    ASSUME NEW ch, NEW wk, NEW ds, NEW en, NEW dc, NEW ctx, NEW maps,
           Ready(ch, wk, ds, en, dc, ctx, maps), wk[1].k = "expression",
           NEW es, es = [ch EXCEPT ![Len(ch)] = ch[Len(ch)]]
    PROVE  Valid(es, literal \o RestWork(wk), ds, en, dc)
<1> DEFINE a == ctx[1]
           b == RestCtx(wk, ctx)[1]
           c == ch[Len(ch)]
           M == maps[Len(ch)]
           P == Pending(RestWork(wk), RestCtx(wk, ctx), Len(ch))
           w1 == Emits(<<Op("LITERAL")>>)
<1>1. Sane(a) /\ a.vars = a.seen
  BY AtCode
<1>2. b = Raise(a, 1)
  BY RestPoint
<1>3. Holes(wk[1]) = {}
  BY DEF Holes
<1>4. /\ Turn(ch, wk, ds, en, dc, ctx, maps, c, M, es, P)
      /\ Coding(ds, dc, c.f, M, P, a.height, SlotsOf(c, a.vars))
  BY <1>3, Idle
<1>5. <<Op("LITERAL")>> \in Seq(Bytes) /\ <<Op("LITERAL")>>[1].op \notin Sets
  BY SingleIs DEF Instructions, Sets
<1>6. Emission(<<Op("LITERAL")>>, a, b)
  BY <1>2 DEF Emission
<1>7. Beside(a, a)
  BY <1>1 DEF Beside, Sane, Point
<1> HIDE DEF a, b, c, M, P
<1>8. Part(a, w1, a, RestWork(wk)[1], b, c, M, P) /\ Holes(w1) = {}
  BY <1>1, <1>5, <1>6, <1>7, EmitsPart
<1>9. Holes(w1) \cup P = P
  BY <1>8
<1>10. Coding(ds, dc, c.f, M, Holes(w1) \cup P, a.height, SlotsOf(c, a.vars))
  BY <1>4, <1>9
<1> HIDE DEF w1
<1>11. Valid(es, <<w1>> \o RestWork(wk), ds, en, dc)
  BY <1>4, <1>8, <1>10, Parts1 DEF a, b, c, M, P
<1> QED
  BY <1>11 DEF literal, w1

LEMMA Above ==
    ASSUME NEW a, Sane(a), a.vars = a.seen, NEW i \in Nat
    PROVE  /\ Sane(Raise(a, i)) /\ Beside(a, Raise(a, i)) /\ Raise(a, i).vars = Raise(a, i).seen
           /\ Raise(a, i).vars = a.vars /\ Raise(a, i).height = a.height + i
           /\ Raise(Raise(a, i), 1) = Raise(a, i + 1)
           /\ i > 0 => Raise(Raise(a, i), -1) = Raise(a, i - 1)
           /\ Raise(Raise(a, i), 0) = Raise(a, i) /\ Raise(a, 0) = a
           /\ a.height \in Nat /\ a.vars \in Nat /\ a.vars <= a.height
<1>1. a.height \in Nat /\ a.vars \in Nat /\ a.vars <= a.height
  BY Points
<1>2. i \in Int /\ a.height + i >= a.vars
  BY <1>1
<1>3. /\ Sane(Raise(a, i)) /\ Beside(a, Raise(a, i))
      /\ Raise(a, i).vars = a.vars /\ Raise(a, i).seen = a.seen
      /\ Raise(a, i).height = a.height + i
      /\ \A j : j \in Int => Raise(Raise(a, i), j) = Raise(a, i + j)
      /\ Raise(a, 0) = a
  BY <1>2, Higher
<1>4. 1 \in Int /\ -1 \in Int /\ 0 \in Int /\ i + (-1) = i - 1 /\ i + 0 = i
  OBVIOUS
<1> HIDE DEF Raise
<1>5. Raise(Raise(a, i), 1) = Raise(a, i + 1) /\ Raise(Raise(a, i), 0) = Raise(a, i)
  BY <1>3, <1>4
<1>6. Raise(Raise(a, i), -1) = Raise(a, i - 1)
  BY <1>3, <1>4
<1> QED
  BY <1>1, <1>3, <1>5, <1>6

LEMMA UnaryStep ==
    ASSUME NEW ch, NEW wk, NEW ds, NEW en, NEW dc, NEW ctx, NEW maps,
           Ready(ch, wk, ds, en, dc, ctx, maps), wk[1].k = "expression",
           NEW es, es = [ch EXCEPT ![Len(ch)] = ch[Len(ch)]]
    PROVE  Valid(es, unary \o RestWork(wk), ds, en, dc)
<1> DEFINE a == ctx[1]
           b == RestCtx(wk, ctx)[1]
           c == ch[Len(ch)]
           M == maps[Len(ch)]
           P == Pending(RestWork(wk), RestCtx(wk, ctx), Len(ch))
           w1 == Expression
           w2 == Emits(<<Op("UNARY")>>)
           a1 == Raise(a, 1)
<1>1. Sane(a) /\ a.vars = a.seen
  BY AtCode
<1>2. b = a1
  BY RestPoint
<1>3. Holes(wk[1]) = {}
  BY DEF Holes
<1>4. /\ Turn(ch, wk, ds, en, dc, ctx, maps, c, M, es, P)
      /\ Coding(ds, dc, c.f, M, P, a.height, SlotsOf(c, a.vars))
  BY <1>3, Idle
<1> HIDE DEF a, b, c, M, P
<1>5. Beside(a, a)
  BY <1>1 DEF Beside, Sane, Point
<1>6. /\ Sane(a1) /\ Beside(a, a1) /\ a1.vars = a1.seen /\ a1.vars = a.vars
      /\ a1.height = a.height + 1 /\ Raise(a1, -1) = a /\ a1 = Raise(a, 1)
      /\ a.height \in Nat /\ a.vars \in Nat /\ a.vars <= a.height
  <2>1. 1 \in Nat /\ 0 \in Nat /\ 0 + 1 = 1 /\ 1 > 0 /\ 1 - 1 = 0
    OBVIOUS
  <2>2. /\ Sane(a1) /\ Beside(a, a1) /\ a1.vars = a1.seen /\ a1.vars = a.vars
        /\ a1.height = a.height + 1 /\ Raise(a1, -1) = Raise(a, 1 - 1)
        /\ a.height \in Nat /\ a.vars \in Nat /\ a.vars <= a.height /\ Raise(a, 0) = a
    BY <1>1, <2>1, Above
  <2> QED
    BY <2>1, <2>2
<1> HIDE DEF a1
<1>7. Part(a, w2, a1, RestWork(wk)[1], b, c, M, P) /\ Holes(w2) = {}
  <2>1. <<Op("UNARY")>> \in Seq(Bytes) /\ <<Op("UNARY")>>[1].op \notin Sets
    BY SingleIs DEF Instructions, Sets
  <2>2. Emission(<<Op("UNARY")>>, a1, b)
    BY <1>2, <1>6 DEF Emission
  <2> QED
    BY <2>1, <2>2, <1>6, EmitsPart
<1>8. Part(a, w1, a, w2, a1, c, M, Holes(w2) \cup P) /\ Holes(w1) = {}
  BY <1>1, <1>2, <1>5, <1>6, ExpressionPart
<1>9. Holes(w1) \cup (Holes(w2) \cup P) = P
  BY <1>7, <1>8
<1>10. Coding(ds, dc, c.f, M, Holes(w1) \cup (Holes(w2) \cup P), a.height, SlotsOf(c, a.vars))
  BY <1>4, <1>9
<1> HIDE DEF w1, w2
<1>11. Valid(es, <<w1, w2>> \o RestWork(wk), ds, en, dc)
  BY <1>4, <1>7, <1>8, <1>10, Parts2 DEF a, b, c, M, P
<1> QED
  BY <1>11 DEF unary, w1, w2

LEMMA BinaryStep ==
    ASSUME NEW ch, NEW wk, NEW ds, NEW en, NEW dc, NEW ctx, NEW maps,
           Ready(ch, wk, ds, en, dc, ctx, maps), wk[1].k = "expression",
           NEW es, es = [ch EXCEPT ![Len(ch)] = ch[Len(ch)]]
    PROVE  Valid(es, binary \o RestWork(wk), ds, en, dc)
<1> DEFINE a == ctx[1]
           b == RestCtx(wk, ctx)[1]
           c == ch[Len(ch)]
           M == maps[Len(ch)]
           P == Pending(RestWork(wk), RestCtx(wk, ctx), Len(ch))
           w1 == Expression
           w2 == Expression
           w3 == Emits(<<Op("BINARY")>>)
           a1 == Raise(a, 1)
           a2 == Raise(a, 2)
<1>1. Sane(a) /\ a.vars = a.seen
  BY AtCode
<1>2. b = a1
  BY RestPoint
<1>3. Holes(wk[1]) = {}
  BY DEF Holes
<1>4. /\ Turn(ch, wk, ds, en, dc, ctx, maps, c, M, es, P)
      /\ Coding(ds, dc, c.f, M, P, a.height, SlotsOf(c, a.vars))
  BY <1>3, Idle
<1> HIDE DEF a, b, c, M, P
<1>5. Beside(a, a)
  BY <1>1 DEF Beside, Sane, Point
<1>6. /\ Sane(a1) /\ Beside(a, a1) /\ a1.vars = a1.seen /\ a1.vars = a.vars
      /\ a1.height = a.height + 1 /\ Raise(a1, -1) = a /\ a1 = Raise(a, 1)
      /\ a.height \in Nat /\ a.vars \in Nat /\ a.vars <= a.height
  <2>1. 1 \in Nat /\ 0 \in Nat /\ 0 + 1 = 1 /\ 1 > 0 /\ 1 - 1 = 0
    OBVIOUS
  <2>2. /\ Sane(a1) /\ Beside(a, a1) /\ a1.vars = a1.seen /\ a1.vars = a.vars
        /\ a1.height = a.height + 1 /\ Raise(a1, -1) = Raise(a, 1 - 1)
        /\ a.height \in Nat /\ a.vars \in Nat /\ a.vars <= a.height /\ Raise(a, 0) = a
    BY <1>1, <2>1, Above
  <2> QED
    BY <2>1, <2>2
<1>7. /\ Sane(a2) /\ Beside(a, a2) /\ a2.vars = a2.seen /\ a2.vars = a.vars
      /\ a2.height = a.height + 2 /\ Raise(a2, -1) = a1 /\ a2 = Raise(a1, 1)
      /\ a.height \in Nat /\ a.vars \in Nat /\ a.vars <= a.height
  <2>1. 2 \in Nat /\ 1 \in Nat /\ 1 + 1 = 2 /\ 2 > 0 /\ 2 - 1 = 1
    OBVIOUS
  <2>2. /\ Sane(a2) /\ Beside(a, a2) /\ a2.vars = a2.seen /\ a2.vars = a.vars
        /\ a2.height = a.height + 2 /\ Raise(a2, -1) = Raise(a, 2 - 1)
        /\ a.height \in Nat /\ a.vars \in Nat /\ a.vars <= a.height /\ Raise(a, 0) = a
    BY <1>1, <2>1, Above
  <2>3. Raise(a1, 1) = Raise(a, 1 + 1)
    BY <1>1, <2>1, Above
  <2> QED
    BY <2>1, <2>2, <2>3
<1> HIDE DEF a1, a2
<1>8. Part(a, w3, a2, RestWork(wk)[1], b, c, M, P) /\ Holes(w3) = {}
  <2>1. <<Op("BINARY")>> \in Seq(Bytes) /\ <<Op("BINARY")>>[1].op \notin Sets
    BY SingleIs DEF Instructions, Sets
  <2>2. Emission(<<Op("BINARY")>>, a2, b)
    BY <1>2, <1>6, <1>7 DEF Emission
  <2> QED
    BY <2>1, <2>2, <1>6, <1>7, EmitsPart
<1>9. Part(a, w2, a1, w3, a2, c, M, Holes(w3) \cup P) /\ Holes(w2) = {}
  BY <1>1, <1>2, <1>5, <1>6, <1>7, ExpressionPart
<1>10. Part(a, w1, a, w2, a1, c, M, Holes(w2) \cup (Holes(w3) \cup P)) /\ Holes(w1) = {}
  BY <1>1, <1>2, <1>5, <1>6, <1>7, ExpressionPart
<1>11. Holes(w1) \cup (Holes(w2) \cup (Holes(w3) \cup P)) = P
  BY <1>8, <1>9, <1>10
<1>12. Coding(ds, dc, c.f, M, Holes(w1) \cup (Holes(w2) \cup (Holes(w3) \cup P)), a.height, SlotsOf(c, a.vars))
  BY <1>4, <1>11
<1> HIDE DEF w1, w2, w3
<1>13. Valid(es, <<w1, w2, w3>> \o RestWork(wk), ds, en, dc)
  BY <1>4, <1>8, <1>9, <1>10, <1>12, Parts3 DEF a, b, c, M, P
<1> QED
  BY <1>13 DEF binary, w1, w2, w3

LEMMA AndStart ==
    ASSUME NEW ch, NEW wk, NEW ds, NEW en, NEW dc, NEW ctx, NEW maps,
           Ready(ch, wk, ds, en, dc, ctx, maps), wk[1].k = "expression",
           NEW es, es = [ch EXCEPT ![Len(ch)] = ch[Len(ch)]]
    PROVE  Valid(es, and_ \o RestWork(wk), ds, en, dc)
<1> DEFINE a == ctx[1]
           b == RestCtx(wk, ctx)[1]
           c == ch[Len(ch)]
           M == maps[Len(ch)]
           P == Pending(RestWork(wk), RestCtx(wk, ctx), Len(ch))
           w1 == Expression
           w2 == Do("and")
           a1 == Raise(a, 1)
<1>1. Sane(a) /\ a.vars = a.seen
  BY AtCode
<1>2. b = a1
  BY RestPoint
<1>3. Holes(wk[1]) = {}
  BY DEF Holes
<1>4. /\ Turn(ch, wk, ds, en, dc, ctx, maps, c, M, es, P)
      /\ Coding(ds, dc, c.f, M, P, a.height, SlotsOf(c, a.vars))
  BY <1>3, Idle
<1> HIDE DEF a, b, c, M, P
<1>5. Beside(a, a)
  BY <1>1 DEF Beside, Sane, Point
<1>6. /\ Sane(a1) /\ Beside(a, a1) /\ a1.vars = a1.seen /\ a1.vars = a.vars
      /\ a1.height = a.height + 1 /\ Raise(a1, -1) = a /\ a1 = Raise(a, 1)
      /\ a.height \in Nat /\ a.vars \in Nat /\ a.vars <= a.height
  <2>1. 1 \in Nat /\ 0 \in Nat /\ 0 + 1 = 1 /\ 1 > 0 /\ 1 - 1 = 0
    OBVIOUS
  <2>2. /\ Sane(a1) /\ Beside(a, a1) /\ a1.vars = a1.seen /\ a1.vars = a.vars
        /\ a1.height = a.height + 1 /\ Raise(a1, -1) = Raise(a, 1 - 1)
        /\ a.height \in Nat /\ a.vars \in Nat /\ a.vars <= a.height /\ Raise(a, 0) = a
    BY <1>1, <2>1, Above
  <2> QED
    BY <2>1, <2>2
<1> HIDE DEF a1
<1>7. Part(a, w2, a1, RestWork(wk)[1], b, c, M, P) /\ Holes(w2) = {}
  <2>1. w2.k = "and" /\ w2 \in Item
    BY DoIs DEF Kinds
  <2>2. a1.height > a1.vars
    BY <1>6
  <2> HIDE DEF w2
  <2> QED
    BY <2>1, <2>2, <1>2, <1>6 DEF Part, Fits, Holds, Holes, Outer
<1>8. Part(a, w1, a, w2, a1, c, M, Holes(w2) \cup P) /\ Holes(w1) = {}
  BY <1>1, <1>2, <1>5, <1>6, ExpressionPart
<1>9. Holes(w1) \cup (Holes(w2) \cup P) = P
  BY <1>7, <1>8
<1>10. Coding(ds, dc, c.f, M, Holes(w1) \cup (Holes(w2) \cup P), a.height, SlotsOf(c, a.vars))
  BY <1>4, <1>9
<1> HIDE DEF w1, w2
<1>11. Valid(es, <<w1, w2>> \o RestWork(wk), ds, en, dc)
  BY <1>4, <1>7, <1>8, <1>10, Parts2 DEF a, b, c, M, P
<1> QED
  BY <1>11 DEF and_, w1, w2

LEMMA OrStart ==
    ASSUME NEW ch, NEW wk, NEW ds, NEW en, NEW dc, NEW ctx, NEW maps,
           Ready(ch, wk, ds, en, dc, ctx, maps), wk[1].k = "expression",
           NEW es, es = [ch EXCEPT ![Len(ch)] = ch[Len(ch)]]
    PROVE  Valid(es, or_ \o RestWork(wk), ds, en, dc)
<1> DEFINE a == ctx[1]
           b == RestCtx(wk, ctx)[1]
           c == ch[Len(ch)]
           M == maps[Len(ch)]
           P == Pending(RestWork(wk), RestCtx(wk, ctx), Len(ch))
           w1 == Expression
           w2 == Do("or")
           a1 == Raise(a, 1)
<1>1. Sane(a) /\ a.vars = a.seen
  BY AtCode
<1>2. b = a1
  BY RestPoint
<1>3. Holes(wk[1]) = {}
  BY DEF Holes
<1>4. /\ Turn(ch, wk, ds, en, dc, ctx, maps, c, M, es, P)
      /\ Coding(ds, dc, c.f, M, P, a.height, SlotsOf(c, a.vars))
  BY <1>3, Idle
<1> HIDE DEF a, b, c, M, P
<1>5. Beside(a, a)
  BY <1>1 DEF Beside, Sane, Point
<1>6. /\ Sane(a1) /\ Beside(a, a1) /\ a1.vars = a1.seen /\ a1.vars = a.vars
      /\ a1.height = a.height + 1 /\ Raise(a1, -1) = a /\ a1 = Raise(a, 1)
      /\ a.height \in Nat /\ a.vars \in Nat /\ a.vars <= a.height
  <2>1. 1 \in Nat /\ 0 \in Nat /\ 0 + 1 = 1 /\ 1 > 0 /\ 1 - 1 = 0
    OBVIOUS
  <2>2. /\ Sane(a1) /\ Beside(a, a1) /\ a1.vars = a1.seen /\ a1.vars = a.vars
        /\ a1.height = a.height + 1 /\ Raise(a1, -1) = Raise(a, 1 - 1)
        /\ a.height \in Nat /\ a.vars \in Nat /\ a.vars <= a.height /\ Raise(a, 0) = a
    BY <1>1, <2>1, Above
  <2> QED
    BY <2>1, <2>2
<1> HIDE DEF a1
<1>7. Part(a, w2, a1, RestWork(wk)[1], b, c, M, P) /\ Holes(w2) = {}
  <2>1. w2.k = "or" /\ w2 \in Item
    BY DoIs DEF Kinds
  <2>2. a1.height > a1.vars
    BY <1>6
  <2> HIDE DEF w2
  <2> QED
    BY <2>1, <2>2, <1>2, <1>6 DEF Part, Fits, Holds, Holes, Outer
<1>8. Part(a, w1, a, w2, a1, c, M, Holes(w2) \cup P) /\ Holes(w1) = {}
  BY <1>1, <1>2, <1>5, <1>6, ExpressionPart
<1>9. Holes(w1) \cup (Holes(w2) \cup P) = P
  BY <1>7, <1>8
<1>10. Coding(ds, dc, c.f, M, Holes(w1) \cup (Holes(w2) \cup P), a.height, SlotsOf(c, a.vars))
  BY <1>4, <1>9
<1> HIDE DEF w1, w2
<1>11. Valid(es, <<w1, w2>> \o RestWork(wk), ds, en, dc)
  BY <1>4, <1>7, <1>8, <1>10, Parts2 DEF a, b, c, M, P
<1> QED
  BY <1>11 DEF or_, w1, w2

LEMMA ExpressionStatementStep ==
    ASSUME NEW ch, NEW wk, NEW ds, NEW en, NEW dc, NEW ctx, NEW maps,
           Ready(ch, wk, ds, en, dc, ctx, maps), wk[1].k \in {"statement", "declarations", "initializer"},
           NEW es, es = [ch EXCEPT ![Len(ch)] = ch[Len(ch)]]
    PROVE  Valid(es, expressionStatement \o RestWork(wk), ds, en, dc)
<1> DEFINE a == ctx[1]
           b == RestCtx(wk, ctx)[1]
           c == ch[Len(ch)]
           M == maps[Len(ch)]
           P == Pending(RestWork(wk), RestCtx(wk, ctx), Len(ch))
           w1 == Expression
           w2 == Emits(<<Op("POP")>>)
           a1 == Raise(a, 1)
<1>1. Sane(a) /\ a.vars = a.seen
  BY AtCode
<1>2. b = a /\ Settled(a)
  BY RestPoint
<1>3. Holes(wk[1]) = {}
  BY DEF Holes
<1>4. /\ Turn(ch, wk, ds, en, dc, ctx, maps, c, M, es, P)
      /\ Coding(ds, dc, c.f, M, P, a.height, SlotsOf(c, a.vars))
  BY <1>3, Idle
<1> HIDE DEF a, b, c, M, P
<1>5. Beside(a, a)
  BY <1>1 DEF Beside, Sane, Point
<1>6. /\ Sane(a1) /\ Beside(a, a1) /\ a1.vars = a1.seen /\ a1.vars = a.vars
      /\ a1.height = a.height + 1 /\ Raise(a1, -1) = a /\ a1 = Raise(a, 1)
      /\ a.height \in Nat /\ a.vars \in Nat /\ a.vars <= a.height
  <2>1. 1 \in Nat /\ 0 \in Nat /\ 0 + 1 = 1 /\ 1 > 0 /\ 1 - 1 = 0
    OBVIOUS
  <2>2. /\ Sane(a1) /\ Beside(a, a1) /\ a1.vars = a1.seen /\ a1.vars = a.vars
        /\ a1.height = a.height + 1 /\ Raise(a1, -1) = Raise(a, 1 - 1)
        /\ a.height \in Nat /\ a.vars \in Nat /\ a.vars <= a.height /\ Raise(a, 0) = a
    BY <1>1, <2>1, Above
  <2> QED
    BY <2>1, <2>2
<1> HIDE DEF a1
<1>7. Part(a, w2, a1, RestWork(wk)[1], b, c, M, P) /\ Holes(w2) = {}
  <2>1. <<Op("POP")>> \in Seq(Bytes) /\ <<Op("POP")>>[1].op \notin Sets
    BY SingleIs DEF Instructions, Sets
  <2>2. Emission(<<Op("POP")>>, a1, b)
    BY <1>2, <1>6 DEF Emission
  <2> QED
    BY <2>1, <2>2, <1>6, EmitsPart
<1>8. Part(a, w1, a, w2, a1, c, M, Holes(w2) \cup P) /\ Holes(w1) = {}
  BY <1>1, <1>2, <1>5, <1>6, ExpressionPart
<1>9. Holes(w1) \cup (Holes(w2) \cup P) = P
  BY <1>7, <1>8
<1>10. Coding(ds, dc, c.f, M, Holes(w1) \cup (Holes(w2) \cup P), a.height, SlotsOf(c, a.vars))
  BY <1>4, <1>9
<1> HIDE DEF w1, w2
<1>11. Valid(es, <<w1, w2>> \o RestWork(wk), ds, en, dc)
  BY <1>4, <1>7, <1>8, <1>10, Parts2 DEF a, b, c, M, P
<1> QED
  BY <1>11 DEF expressionStatement, w1, w2

LEMMA PrintStep ==
    ASSUME NEW ch, NEW wk, NEW ds, NEW en, NEW dc, NEW ctx, NEW maps,
           Ready(ch, wk, ds, en, dc, ctx, maps), wk[1].k \in {"statement", "declarations", "initializer"},
           NEW es, es = [ch EXCEPT ![Len(ch)] = ch[Len(ch)]]
    PROVE  Valid(es, printStatement \o RestWork(wk), ds, en, dc)
<1> DEFINE a == ctx[1]
           b == RestCtx(wk, ctx)[1]
           c == ch[Len(ch)]
           M == maps[Len(ch)]
           P == Pending(RestWork(wk), RestCtx(wk, ctx), Len(ch))
           w1 == Expression
           w2 == Emits(<<Op("PRINT")>>)
           a1 == Raise(a, 1)
<1>1. Sane(a) /\ a.vars = a.seen
  BY AtCode
<1>2. b = a /\ Settled(a)
  BY RestPoint
<1>3. Holes(wk[1]) = {}
  BY DEF Holes
<1>4. /\ Turn(ch, wk, ds, en, dc, ctx, maps, c, M, es, P)
      /\ Coding(ds, dc, c.f, M, P, a.height, SlotsOf(c, a.vars))
  BY <1>3, Idle
<1> HIDE DEF a, b, c, M, P
<1>5. Beside(a, a)
  BY <1>1 DEF Beside, Sane, Point
<1>6. /\ Sane(a1) /\ Beside(a, a1) /\ a1.vars = a1.seen /\ a1.vars = a.vars
      /\ a1.height = a.height + 1 /\ Raise(a1, -1) = a /\ a1 = Raise(a, 1)
      /\ a.height \in Nat /\ a.vars \in Nat /\ a.vars <= a.height
  <2>1. 1 \in Nat /\ 0 \in Nat /\ 0 + 1 = 1 /\ 1 > 0 /\ 1 - 1 = 0
    OBVIOUS
  <2>2. /\ Sane(a1) /\ Beside(a, a1) /\ a1.vars = a1.seen /\ a1.vars = a.vars
        /\ a1.height = a.height + 1 /\ Raise(a1, -1) = Raise(a, 1 - 1)
        /\ a.height \in Nat /\ a.vars \in Nat /\ a.vars <= a.height /\ Raise(a, 0) = a
    BY <1>1, <2>1, Above
  <2> QED
    BY <2>1, <2>2
<1> HIDE DEF a1
<1>7. Part(a, w2, a1, RestWork(wk)[1], b, c, M, P) /\ Holes(w2) = {}
  <2>1. <<Op("PRINT")>> \in Seq(Bytes) /\ <<Op("PRINT")>>[1].op \notin Sets
    BY SingleIs DEF Instructions, Sets
  <2>2. Emission(<<Op("PRINT")>>, a1, b)
    BY <1>2, <1>6 DEF Emission
  <2> QED
    BY <2>1, <2>2, <1>6, EmitsPart
<1>8. Part(a, w1, a, w2, a1, c, M, Holes(w2) \cup P) /\ Holes(w1) = {}
  BY <1>1, <1>2, <1>5, <1>6, ExpressionPart
<1>9. Holes(w1) \cup (Holes(w2) \cup P) = P
  BY <1>7, <1>8
<1>10. Coding(ds, dc, c.f, M, Holes(w1) \cup (Holes(w2) \cup P), a.height, SlotsOf(c, a.vars))
  BY <1>4, <1>9
<1> HIDE DEF w1, w2
<1>11. Valid(es, <<w1, w2>> \o RestWork(wk), ds, en, dc)
  BY <1>4, <1>7, <1>8, <1>10, Parts2 DEF a, b, c, M, P
<1> QED
  BY <1>11 DEF printStatement, w1, w2

LEMMA ReturnStep ==
    ASSUME NEW ch, NEW wk, NEW ds, NEW en, NEW dc, NEW ctx, NEW maps,
           Ready(ch, wk, ds, en, dc, ctx, maps), wk[1].k \in {"statement", "declarations", "initializer"},
           NEW es, es = [ch EXCEPT ![Len(ch)] = ch[Len(ch)]]
    PROVE  Valid(es, <<Expression, Emits(<<Op("RETURN")>>)>> \o RestWork(wk), ds, en, dc)
<1> DEFINE a == ctx[1]
           b == RestCtx(wk, ctx)[1]
           c == ch[Len(ch)]
           M == maps[Len(ch)]
           P == Pending(RestWork(wk), RestCtx(wk, ctx), Len(ch))
           w1 == Expression
           w2 == Emits(<<Op("RETURN")>>)
           a1 == Raise(a, 1)
<1>1. Sane(a) /\ a.vars = a.seen
  BY AtCode
<1>2. b = a /\ Settled(a)
  BY RestPoint
<1>3. Holes(wk[1]) = {}
  BY DEF Holes
<1>4. /\ Turn(ch, wk, ds, en, dc, ctx, maps, c, M, es, P)
      /\ Coding(ds, dc, c.f, M, P, a.height, SlotsOf(c, a.vars))
  BY <1>3, Idle
<1> HIDE DEF a, b, c, M, P
<1>5. Beside(a, a)
  BY <1>1 DEF Beside, Sane, Point
<1>6. /\ Sane(a1) /\ Beside(a, a1) /\ a1.vars = a1.seen /\ a1.vars = a.vars
      /\ a1.height = a.height + 1 /\ Raise(a1, -1) = a /\ a1 = Raise(a, 1)
      /\ a.height \in Nat /\ a.vars \in Nat /\ a.vars <= a.height
  <2>1. 1 \in Nat /\ 0 \in Nat /\ 0 + 1 = 1 /\ 1 > 0 /\ 1 - 1 = 0
    OBVIOUS
  <2>2. /\ Sane(a1) /\ Beside(a, a1) /\ a1.vars = a1.seen /\ a1.vars = a.vars
        /\ a1.height = a.height + 1 /\ Raise(a1, -1) = Raise(a, 1 - 1)
        /\ a.height \in Nat /\ a.vars \in Nat /\ a.vars <= a.height /\ Raise(a, 0) = a
    BY <1>1, <2>1, Above
  <2> QED
    BY <2>1, <2>2
<1> HIDE DEF a1
<1>7. Part(a, w2, a1, RestWork(wk)[1], b, c, M, P) /\ Holes(w2) = {}
  <2>1. <<Op("RETURN")>> \in Seq(Bytes) /\ <<Op("RETURN")>>[1].op \notin Sets
    BY SingleIs DEF Instructions, Sets
  <2>2. Emission(<<Op("RETURN")>>, a1, b)
    BY <1>2, <1>6 DEF Emission
  <2> QED
    BY <2>1, <2>2, <1>6, EmitsPart
<1>8. Part(a, w1, a, w2, a1, c, M, Holes(w2) \cup P) /\ Holes(w1) = {}
  BY <1>1, <1>2, <1>5, <1>6, ExpressionPart
<1>9. Holes(w1) \cup (Holes(w2) \cup P) = P
  BY <1>7, <1>8
<1>10. Coding(ds, dc, c.f, M, Holes(w1) \cup (Holes(w2) \cup P), a.height, SlotsOf(c, a.vars))
  BY <1>4, <1>9
<1> HIDE DEF w1, w2
<1>11. Valid(es, <<w1, w2>> \o RestWork(wk), ds, en, dc)
  BY <1>4, <1>7, <1>8, <1>10, Parts2 DEF a, b, c, M, P
<1> QED
  BY <1>11 DEF w1, w2

LEMMA IfStart ==
    ASSUME NEW ch, NEW wk, NEW ds, NEW en, NEW dc, NEW ctx, NEW maps,
           Ready(ch, wk, ds, en, dc, ctx, maps), wk[1].k \in {"statement", "declarations", "initializer"},
           NEW es, es = [ch EXCEPT ![Len(ch)] = ch[Len(ch)]]
    PROVE  Valid(es, ifStatement \o RestWork(wk), ds, en, dc)
<1> DEFINE a == ctx[1]
           b == RestCtx(wk, ctx)[1]
           c == ch[Len(ch)]
           M == maps[Len(ch)]
           P == Pending(RestWork(wk), RestCtx(wk, ctx), Len(ch))
           w1 == Expression
           w2 == Do("then")
           a1 == Raise(a, 1)
<1>1. Sane(a) /\ a.vars = a.seen
  BY AtCode
<1>2. b = a /\ Settled(a)
  BY RestPoint
<1>3. Holes(wk[1]) = {}
  BY DEF Holes
<1>4. /\ Turn(ch, wk, ds, en, dc, ctx, maps, c, M, es, P)
      /\ Coding(ds, dc, c.f, M, P, a.height, SlotsOf(c, a.vars))
  BY <1>3, Idle
<1> HIDE DEF a, b, c, M, P
<1>5. Beside(a, a)
  BY <1>1 DEF Beside, Sane, Point
<1>6. /\ Sane(a1) /\ Beside(a, a1) /\ a1.vars = a1.seen /\ a1.vars = a.vars
      /\ a1.height = a.height + 1 /\ Raise(a1, -1) = a /\ a1 = Raise(a, 1)
      /\ a.height \in Nat /\ a.vars \in Nat /\ a.vars <= a.height
  <2>1. 1 \in Nat /\ 0 \in Nat /\ 0 + 1 = 1 /\ 1 > 0 /\ 1 - 1 = 0
    OBVIOUS
  <2>2. /\ Sane(a1) /\ Beside(a, a1) /\ a1.vars = a1.seen /\ a1.vars = a.vars
        /\ a1.height = a.height + 1 /\ Raise(a1, -1) = Raise(a, 1 - 1)
        /\ a.height \in Nat /\ a.vars \in Nat /\ a.vars <= a.height /\ Raise(a, 0) = a
    BY <1>1, <2>1, Above
  <2> QED
    BY <2>1, <2>2
<1> HIDE DEF a1
<1>7. Part(a, w2, a1, RestWork(wk)[1], b, c, M, P) /\ Holes(w2) = {}
  <2>1. w2.k = "then" /\ w2 \in Item
    BY DoIs DEF Kinds
  <2>2. a1.height > a1.vars
    BY <1>6
  <2> HIDE DEF w2
  <2> QED
    BY <2>1, <2>2, <1>2, <1>6 DEF Part, Fits, Holds, Holes, Outer
<1>8. Part(a, w1, a, w2, a1, c, M, Holes(w2) \cup P) /\ Holes(w1) = {}
  BY <1>1, <1>2, <1>5, <1>6, ExpressionPart
<1>9. Holes(w1) \cup (Holes(w2) \cup P) = P
  BY <1>7, <1>8
<1>10. Coding(ds, dc, c.f, M, Holes(w1) \cup (Holes(w2) \cup P), a.height, SlotsOf(c, a.vars))
  BY <1>4, <1>9
<1> HIDE DEF w1, w2
<1>11. Valid(es, <<w1, w2>> \o RestWork(wk), ds, en, dc)
  BY <1>4, <1>7, <1>8, <1>10, Parts2 DEF a, b, c, M, P
<1> QED
  BY <1>11 DEF ifStatement, w1, w2

-----------------------------------------------------------------------------
(* Items that remember a place in the code.                                *)

LEMMA PlaceIs ==
    ASSUME NEW k \in Kinds, NEW n \in Nat
    PROVE  /\ At(k, <<n>>) \in Item /\ At(k, <<n>>).k = k /\ At(k, <<n>>).at[1] = n
           /\ At(k, <<n>>).at = <<n>>
<1>1. <<n>> \in Seq(Nat) /\ <<n>>[1] = n
  OBVIOUS
<1> QED
  BY <1>1, AtIs

LEMMA PlacesIs ==
    ASSUME NEW k \in Kinds, NEW n \in Nat, NEW m \in Nat
    PROVE  /\ At(k, <<n, m>>) \in Item /\ At(k, <<n, m>>).k = k
           /\ At(k, <<n, m>>).at[1] = n /\ At(k, <<n, m>>).at[2] = m
<1>1. <<n, m>> \in Seq(Nat) /\ <<n, m>>[1] = n /\ <<n, m>>[2] = m
  OBVIOUS
<1> QED
  BY <1>1, AtIs

LEMMA TestPart ==
    ASSUME NEW a, NEW p, Under(a, p), NEW b, Settled(b), p = Raise(b, 1), b = Raise(p, -1),
           NEW c, NEW M, NEW n \in Nat, Flow(c.f, M, Stack(c, b), n),
           NEW k \in {"test", "forTest"}, NEW v, NEW P
    PROVE  Part(a, At(k, <<n>>), p, v, b, c, M, P) /\ Holes(At(k, <<n>>)) = {}
<1>1. k \in Kinds
  BY DEF Kinds
<1>2. PICK w : w = At(k, <<n>>)
  OBVIOUS
<1>3. w \in Item /\ w.k = k /\ w.at[1] = n
  BY <1>1, <1>2, PlaceIs
<1>4. Fits(w, p, v, b)
  BY <1>3 DEF Fits
<1>5. Holds(w, p, b, c, M)
  BY <1>3 DEF Holds
<1>6. Holes(w) = {}
  BY <1>3 DEF Holes
<1>7. w.k \notin Outer
  BY <1>3 DEF Outer
<1> QED
  BY <1>2, <1>3, <1>4, <1>5, <1>6, <1>7 DEF Part, Under

LEMMA LoopPart ==
    ASSUME NEW a, NEW p, Under(a, p), Settled(p), NEW b, b = [p EXCEPT !.height = b.height],
           NEW c, NEW M, NEW n \in Nat, Flow(c.f, M, Stack(c, p), n),
           NEW k \in {"loop", "forBody"}, NEW v, NEW P
    PROVE  Part(a, At(k, <<n>>), p, v, b, c, M, P) /\ Holes(At(k, <<n>>)) = {}
<1>1. k \in Kinds
  BY DEF Kinds
<1>2. PICK w : w = At(k, <<n>>)
  OBVIOUS
<1>3. w \in Item /\ w.k = k /\ w.at[1] = n
  BY <1>1, <1>2, PlaceIs
<1>4. Fits(w, p, v, b)
  BY <1>3 DEF Fits
<1>5. Holds(w, p, b, c, M)
  BY <1>3 DEF Holds
<1>6. Holes(w) = {}
  BY <1>3 DEF Holes
<1>7. w.k \notin Outer
  BY <1>3 DEF Outer
<1> QED
  BY <1>2, <1>3, <1>4, <1>5, <1>6, <1>7 DEF Part, Under

LEMMA PatchPart ==
    ASSUME NEW a, NEW p, Under(a, p), NEW b, NEW c, NEW M, NEW n, Hole(c, M, n, Stack(c, p)),
           NEW k, \/ k = "patch" /\ b = p
                  \/ k = "exit" /\ Settled(b) /\ p = Raise(b, 1),
           NEW v, NEW P, n - 1 \notin P
    PROVE  Part(a, At(k, <<n>>), p, v, b, c, M, P) /\ Holes(At(k, <<n>>)) = {n - 1}
<1>1. k \in Kinds /\ n \in Nat
  BY DEF Kinds, Hole
<1>2. PICK w : w = At(k, <<n>>)
  OBVIOUS
<1>3. w \in Item /\ w.k = k /\ w.at[1] = n
  BY <1>1, <1>2, PlaceIs
<1>4. Fits(w, p, v, b)
  BY <1>3 DEF Fits
<1>5. Holds(w, p, b, c, M)
  BY <1>3 DEF Holds
<1>6. Holes(w) = {n - 1}
  BY <1>3 DEF Holes
<1>7. w.k \notin Outer
  BY <1>3 DEF Outer
<1> QED
  BY <1>2, <1>3, <1>4, <1>5, <1>6, <1>7 DEF Part, Under

LEMMA ElsePart ==
    ASSUME NEW a, NEW p, Under(a, p), Settled(p), NEW c, NEW M, NEW n,
           Hole(c, M, n, Stack(c, Raise(p, 1))), NEW v, NEW P, n - 1 \notin P
    PROVE  Part(a, At("else", <<n>>), p, v, p, c, M, P) /\ Holes(At("else", <<n>>)) = {n - 1}
<1>1. "else" \in Kinds /\ n \in Nat
  BY DEF Kinds, Hole
<1>2. PICK w : w = At("else", <<n>>)
  OBVIOUS
<1>3. w \in Item /\ w.k = "else" /\ w.at[1] = n
  BY <1>1, <1>2, PlaceIs
<1>4. Fits(w, p, v, p)
  BY <1>3 DEF Fits
<1>5. Holds(w, p, p, c, M)
  BY <1>3 DEF Holds
<1>6. Holes(w) = {n - 1}
  BY <1>3 DEF Holes
<1>7. w.k \notin Outer
  BY <1>3 DEF Outer
<1> QED
  BY <1>2, <1>3, <1>4, <1>5, <1>6, <1>7 DEF Part, Under

LEMMA Rises ==
    ASSUME NEW a, Sane(a), a.vars = a.seen
    PROVE  /\ Under(a, a) /\ Under(a, Raise(a, 1)) /\ Under(a, Raise(a, 2))
           /\ Raise(Raise(a, 1), 1) = Raise(a, 2) /\ Raise(Raise(a, 2), -1) = Raise(a, 1)
           /\ Raise(Raise(a, 1), -1) = a /\ Raise(Raise(a, 1), 0) = Raise(a, 1) /\ Raise(a, 0) = a
           /\ Raise(a, 1).height > Raise(a, 1).vars /\ Raise(a, 2).height > Raise(a, 2).vars + 1
<1>1. 0 \in Nat /\ 1 \in Nat /\ 2 \in Nat /\ 1 + 1 = 2 /\ 2 - 1 = 1 /\ 1 - 1 = 0 /\ 1 > 0 /\ 2 > 0
  OBVIOUS
<1>2. /\ Sane(Raise(a, 1)) /\ Beside(a, Raise(a, 1)) /\ Raise(a, 1).vars = Raise(a, 1).seen
      /\ Raise(a, 1).vars = a.vars /\ Raise(a, 1).height = a.height + 1
      /\ Raise(Raise(a, 1), 1) = Raise(a, 1 + 1)
      /\ Raise(Raise(a, 1), -1) = Raise(a, 1 - 1)
      /\ Raise(Raise(a, 1), 0) = Raise(a, 1) /\ Raise(a, 0) = a
      /\ a.height \in Nat /\ a.vars \in Nat /\ a.vars <= a.height
  BY <1>1, Above
<1>3. /\ Sane(Raise(a, 2)) /\ Beside(a, Raise(a, 2)) /\ Raise(a, 2).vars = Raise(a, 2).seen
      /\ Raise(a, 2).vars = a.vars /\ Raise(a, 2).height = a.height + 2
      /\ Raise(Raise(a, 2), -1) = Raise(a, 2 - 1)
  BY <1>1, Above
<1>4. Sane(Raise(a, 0)) /\ Beside(a, Raise(a, 0)) /\ Raise(a, 0).vars = Raise(a, 0).seen
  BY <1>1, Above
<1> HIDE DEF Raise
<1>5. Raise(a, 1).height > Raise(a, 1).vars /\ Raise(a, 2).height > Raise(a, 2).vars + 1
  BY <1>2, <1>3
<1> QED
  BY <1>1, <1>2, <1>3, <1>4, <1>5 DEF Under

LEMMA RestLoop ==
    ASSUME NEW ch, NEW wk, NEW ds, NEW en, NEW dc, NEW ctx, NEW maps,
           Ready(ch, wk, ds, en, dc, ctx, maps), wk[1].k \in {"loop", "forBody"},
           NEW a, a = ctx[1], NEW b, b = RestCtx(wk, ctx)[1]
    PROVE  Settled(a) /\ Beside(a, b)
  BY RestPoint

LEMMA CallIs ==
    ASSUME NEW n \in Nat
    PROVE  /\ <<Op("CALL"), Byte(n)>> \in Seq(Bytes) /\ <<Op("CALL"), Byte(n)>>[1].op = "CALL"
           /\ <<Op("CALL"), Byte(n)>>[1].op \notin Sets
<1>1. Op("CALL") \in Bytes /\ Op("CALL").op = "CALL" /\ Byte(n) \in Bytes
  BY OpIs, ByteIs DEF Instructions
<1> QED
  BY <1>1, TwoByte DEF Sets

LEMMA CallParts ==
    /\ call(0) = <<Expression, Emits(<<Op("CALL"), Byte(0)>>)>>
    /\ call(1) = <<Expression, Expression, Emits(<<Op("CALL"), Byte(1)>>)>>
<1>1. call(0) = <<Expression, Emits(<<Op("CALL"), Byte(0)>>)>>
  <2>1. PICK x, y : x = Expression /\ y = Emits(<<Op("CALL"), Byte(0)>>)
    OBVIOUS
  <2>2. [i \in 1..0 + 1 |-> x] = <<x>>
    <3> DEFINE f == [i \in 1..0 + 1 |-> x]
    <3>2. f \in Seq({x}) /\ Len(f) = 1 /\ f[1] = x
      <4>1. 0 + 1 = 1
        OBVIOUS
      <4> QED
        BY <4>1
    <3>3. <<x>> \in Seq({x}) /\ Len(<<x>>) = 1 /\ <<x>>[1] = x
      OBVIOUS
    <3>4. f = <<x>>
      BY <3>2, <3>3, SeqEqual
    <3> QED
      BY <3>4
  <2>3. <<x>> \o <<y>> = <<x, y>>
    <3>1. x \in {x, y} /\ y \in {x, y}
      OBVIOUS
    <3>2. <<y>> \in Seq({x, y})
      BY <3>1, ConcatOne
    <3> DEFINE S == {x, y}
    <3>4. <<x>> \o <<y>> \in Seq(S) /\ <<x, y>> \in Seq(S)
      BY <3>1, <3>2
    <3>5. /\ Len(<<x>> \o <<y>>) = 2 /\ (<<x>> \o <<y>>)[1] = x /\ (<<x>> \o <<y>>)[2] = y
          /\ Len(<<x, y>>) = 2 /\ <<x, y>>[1] = x /\ <<x, y>>[2] = y
      BY <3>1, <3>2
    <3>6. \A i \in 1..2 : (<<x>> \o <<y>>)[i] = <<x, y>>[i]
      BY <3>5
    <3> QED
      BY <3>4, <3>5, <3>6, SeqEqual
  <2> QED
    BY <2>1, <2>2, <2>3 DEF call
<1>2. call(1) = <<Expression, Expression, Emits(<<Op("CALL"), Byte(1)>>)>>
  <2>1. PICK x, y : x = Expression /\ y = Emits(<<Op("CALL"), Byte(1)>>)
    OBVIOUS
  <2>2. [i \in 1..1 + 1 |-> x] = <<x, x>>
    <3> DEFINE f == [i \in 1..1 + 1 |-> x]
    <3>2. f \in Seq({x}) /\ Len(f) = 2 /\ f[1] = x /\ f[2] = x
      <4>1. 1 + 1 = 2
        OBVIOUS
      <4> QED
        BY <4>1
    <3>3. <<x, x>> \in Seq({x}) /\ Len(<<x, x>>) = 2 /\ <<x, x>>[1] = x /\ <<x, x>>[2] = x
      OBVIOUS
    <3>4. \A i \in 1..2 : f[i] = <<x, x>>[i]
      BY <3>2, <3>3
    <3>5. f = <<x, x>>
      BY <3>2, <3>3, <3>4, SeqEqual
    <3> QED
      BY <3>5
  <2>3. <<x, x>> \o <<y>> = <<x, x, y>>
    <3> DEFINE S == {x, y}
    <3>2. x \in S /\ y \in S
      OBVIOUS
    <3> HIDE DEF S
    <3>3. <<y>> \in Seq(S)
      BY <3>2, ConcatOne
    <3>4. PICK s, t : s = <<x, x>> \o <<y>> /\ t = <<x, x, y>>
      OBVIOUS
    <3>5. s \in Seq(S) /\ t \in Seq(S) /\ Len(s) = 3 /\ Len(t) = 3
      BY <3>2, <3>3, <3>4
    <3>6. s[1] = x /\ s[2] = x /\ s[3] = y /\ t[1] = x /\ t[2] = x /\ t[3] = y
      BY <3>2, <3>3, <3>4
    <3>7. \A i \in 1..3 : s[i] = t[i]
      BY <3>6
    <3> QED
      BY <3>4, <3>5, <3>7, SeqEqual
  <2> QED
    BY <2>1, <2>2, <2>3 DEF call
<1> QED
  BY <1>1, <1>2

LEMMA CallStep0 ==
    ASSUME NEW ch, NEW wk, NEW ds, NEW en, NEW dc, NEW ctx, NEW maps,
           Ready(ch, wk, ds, en, dc, ctx, maps), wk[1].k = "expression",
           NEW es, es = [ch EXCEPT ![Len(ch)] = ch[Len(ch)]]
    PROVE  Valid(es, call(0) \o RestWork(wk), ds, en, dc)
<1> DEFINE a == ctx[1]
           b == RestCtx(wk, ctx)[1]
           v == RestWork(wk)[1]
           c == ch[Len(ch)]
           M == maps[Len(ch)]
           P == Pending(RestWork(wk), RestCtx(wk, ctx), Len(ch))
<1>1. Sane(a) /\ a.vars = a.seen
  BY AtCode
<1>2. b = Raise(a, 1)
  BY RestPoint
<1>3. Holes(wk[1]) = {}
  BY DEF Holes
<1>4. /\ Turn(ch, wk, ds, en, dc, ctx, maps, c, M, es, P)
      /\ Coding(ds, dc, c.f, M, P, a.height, SlotsOf(c, a.vars))
  BY <1>3, Idle
<1> HIDE DEF a, b, v, c, M, P
<1>6. /\ Under(a, a) /\ Under(a, Raise(a, 1)) /\ Under(a, Raise(a, 2))
      /\ Raise(Raise(a, 1), 1) = Raise(a, 2) /\ Raise(Raise(a, 2), -1) = Raise(a, 1)
      /\ Raise(Raise(a, 1), -1) = a /\ Raise(Raise(a, 1), 0) = Raise(a, 1) /\ Raise(a, 0) = a
      /\ Raise(a, 1).height > Raise(a, 1).vars /\ Raise(a, 2).height > Raise(a, 2).vars + 1
  BY <1>1, Rises
<1> DEFINE w1 == Expression
           w2 == Emits(<<Op("CALL"), Byte(0)>>)
<1>7. Part(a, w2, Raise(a, 1), v, b, c, M, P) /\ Holes(w2) = {}
  <2>1. <<Op("CALL"), Byte(0)>> \in Seq(Bytes) /\ <<Op("CALL"), Byte(0)>>[1].op \notin Sets
    BY CallIs
  <2>2. PICK p : p = Raise(a, 1)
    OBVIOUS
  <2>3. b = Raise(p, 0 - 0) /\ p.height > p.vars + 0 /\ 0 \in 0..1 /\ Under(a, p)
    <3>1. 0 - 0 = 0 /\ 0 - 1 = -1
      OBVIOUS
    <3>2. p.vars \in Nat
      BY <1>6, <2>2 DEF Under, Sane, Point
    <3>3. p.vars + 0 = p.vars
      BY <3>2
    <3> QED
      BY <1>2, <1>6, <2>2, <3>1, <3>3
  <2>4. Emission(<<Op("CALL"), Byte(0)>>, p, b)
    BY <2>3 DEF Emission
  <2> QED
    BY <2>1, <2>2, <2>3, <2>4, EmitsPart DEF Under
<1>8. Part(a, w1, a, w2, Raise(a, 1), c, M, Holes(w2) \cup P) /\ Holes(w1) = {}
  BY <1>6, ExpressionPart DEF Under
<1>9. Holes(w1) \cup (Holes(w2) \cup P) = P
  BY <1>7, <1>8
<1>10. Coding(ds, dc, c.f, M, Holes(w1) \cup (Holes(w2) \cup P), a.height, SlotsOf(c, a.vars))
  BY <1>4, <1>9
<1> HIDE DEF w1, w2
<1>11. Valid(es, <<w1, w2>> \o RestWork(wk), ds, en, dc)
  BY <1>4, <1>7, <1>8, <1>10, Parts2 DEF a, b, v, c, M, P
<1> QED
  BY <1>11, CallParts DEF w1, w2

LEMMA CallStep1 ==
    ASSUME NEW ch, NEW wk, NEW ds, NEW en, NEW dc, NEW ctx, NEW maps,
           Ready(ch, wk, ds, en, dc, ctx, maps), wk[1].k = "expression",
           NEW es, es = [ch EXCEPT ![Len(ch)] = ch[Len(ch)]]
    PROVE  Valid(es, call(1) \o RestWork(wk), ds, en, dc)
<1> DEFINE a == ctx[1]
           b == RestCtx(wk, ctx)[1]
           v == RestWork(wk)[1]
           c == ch[Len(ch)]
           M == maps[Len(ch)]
           P == Pending(RestWork(wk), RestCtx(wk, ctx), Len(ch))
<1>1. Sane(a) /\ a.vars = a.seen
  BY AtCode
<1>2. b = Raise(a, 1)
  BY RestPoint
<1>3. Holes(wk[1]) = {}
  BY DEF Holes
<1>4. /\ Turn(ch, wk, ds, en, dc, ctx, maps, c, M, es, P)
      /\ Coding(ds, dc, c.f, M, P, a.height, SlotsOf(c, a.vars))
  BY <1>3, Idle
<1> HIDE DEF a, b, v, c, M, P
<1>6. /\ Under(a, a) /\ Under(a, Raise(a, 1)) /\ Under(a, Raise(a, 2))
      /\ Raise(Raise(a, 1), 1) = Raise(a, 2) /\ Raise(Raise(a, 2), -1) = Raise(a, 1)
      /\ Raise(Raise(a, 1), -1) = a /\ Raise(Raise(a, 1), 0) = Raise(a, 1) /\ Raise(a, 0) = a
      /\ Raise(a, 1).height > Raise(a, 1).vars /\ Raise(a, 2).height > Raise(a, 2).vars + 1
  BY <1>1, Rises
<1> DEFINE w1 == Expression
           w2 == Expression
           w3 == Emits(<<Op("CALL"), Byte(1)>>)
<1>7. Part(a, w3, Raise(a, 2), v, b, c, M, P) /\ Holes(w3) = {}
  <2>1. <<Op("CALL"), Byte(1)>> \in Seq(Bytes) /\ <<Op("CALL"), Byte(1)>>[1].op \notin Sets
    BY CallIs
  <2>2. PICK p : p = Raise(a, 2)
    OBVIOUS
  <2>3. b = Raise(p, 0 - 1) /\ p.height > p.vars + 1 /\ 1 \in 0..1 /\ Under(a, p)
    <3>1. 0 - 0 = 0 /\ 0 - 1 = -1
      OBVIOUS
    <3>2. p.vars \in Nat
      BY <1>6, <2>2 DEF Under, Sane, Point
    <3>3. p.vars + 0 = p.vars
      BY <3>2
    <3> QED
      BY <1>2, <1>6, <2>2, <3>1, <3>3
  <2>4. Emission(<<Op("CALL"), Byte(1)>>, p, b)
    BY <2>3 DEF Emission
  <2> QED
    BY <2>1, <2>2, <2>3, <2>4, EmitsPart DEF Under
<1>8. Part(a, w2, Raise(a, 1), w3, Raise(a, 2), c, M, Holes(w3) \cup P) /\ Holes(w2) = {}
  BY <1>6, ExpressionPart DEF Under
<1>9. Part(a, w1, a, w2, Raise(a, 1), c, M, Holes(w2) \cup (Holes(w3) \cup P)) /\ Holes(w1) = {}
  BY <1>6, ExpressionPart DEF Under
<1>10. Holes(w1) \cup (Holes(w2) \cup (Holes(w3) \cup P)) = P
  BY <1>7, <1>8, <1>9
<1>11. Coding(ds, dc, c.f, M, Holes(w1) \cup (Holes(w2) \cup (Holes(w3) \cup P)), a.height, SlotsOf(c, a.vars))
  BY <1>4, <1>10
<1> HIDE DEF w1, w2, w3
<1>12. Valid(es, <<w1, w2, w3>> \o RestWork(wk), ds, en, dc)
  BY <1>4, <1>7, <1>8, <1>9, <1>11, Parts3 DEF a, b, v, c, M, P
<1> QED
  BY <1>12, CallParts DEF w1, w2, w3

LEMMA ReturnNothing ==
    ASSUME NEW ch, NEW wk, NEW ds, NEW en, NEW dc, NEW ctx, NEW maps,
           Ready(ch, wk, ds, en, dc, ctx, maps), wk[1].k \in {"statement", "declarations", "initializer"},
           NEW es, es = [ch EXCEPT ![Len(ch)] = ch[Len(ch)]]
    PROVE  Valid(es, <<Emits(<<Op("LITERAL"), Op("RETURN")>>)>> \o RestWork(wk), ds, en, dc)
<1> DEFINE a == ctx[1]
           b == RestCtx(wk, ctx)[1]
           v == RestWork(wk)[1]
           c == ch[Len(ch)]
           M == maps[Len(ch)]
           P == Pending(RestWork(wk), RestCtx(wk, ctx), Len(ch))
<1>1. Sane(a) /\ a.vars = a.seen
  BY AtCode
<1>2. b = a
  BY RestPoint
<1>3. Holes(wk[1]) = {}
  BY DEF Holes
<1>4. /\ Turn(ch, wk, ds, en, dc, ctx, maps, c, M, es, P)
      /\ Coding(ds, dc, c.f, M, P, a.height, SlotsOf(c, a.vars))
  BY <1>3, Idle
<1> HIDE DEF a, b, v, c, M, P
<1>6. /\ Under(a, a) /\ Under(a, Raise(a, 1)) /\ Under(a, Raise(a, 2))
      /\ Raise(Raise(a, 1), 1) = Raise(a, 2) /\ Raise(Raise(a, 2), -1) = Raise(a, 1)
      /\ Raise(Raise(a, 1), -1) = a /\ Raise(Raise(a, 1), 0) = Raise(a, 1) /\ Raise(a, 0) = a
      /\ Raise(a, 1).height > Raise(a, 1).vars /\ Raise(a, 2).height > Raise(a, 2).vars + 1
  BY <1>1, Rises
<1> DEFINE w1 == Emits(<<Op("LITERAL"), Op("RETURN")>>)
<1>7. Part(a, w1, a, v, b, c, M, P) /\ Holes(w1) = {}
  <2>1. Op("LITERAL") \in Bytes /\ Op("LITERAL").op = "LITERAL" /\ Op("RETURN") \in Bytes
    BY OpIs DEF Instructions
  <2>2. /\ <<Op("LITERAL"), Op("RETURN")>> \in Seq(Bytes)
        /\ <<Op("LITERAL"), Op("RETURN")>>[1].op \notin Sets
    BY <2>1, TwoByte DEF Sets
  <2>3. Emission(<<Op("LITERAL"), Op("RETURN")>>, a, b)
    BY <1>2 DEF Emission
  <2> QED
    BY <2>2, <2>3, <1>6, EmitsPart DEF Under
<1>8. Holes(w1) \cup P = P
  BY <1>7
<1>9. Coding(ds, dc, c.f, M, Holes(w1) \cup P, a.height, SlotsOf(c, a.vars))
  BY <1>4, <1>8
<1> HIDE DEF w1
<1>10. Valid(es, <<w1>> \o RestWork(wk), ds, en, dc)
  BY <1>4, <1>7, <1>9, Parts1 DEF a, b, v, c, M, P
<1> QED
  BY <1>10 DEF w1

LEMMA WhileStart ==
    ASSUME NEW ch, NEW wk, NEW ds, NEW en, NEW dc, NEW ctx, NEW maps,
           Ready(ch, wk, ds, en, dc, ctx, maps), wk[1].k \in {"statement", "declarations", "initializer"},
           NEW es, es = [ch EXCEPT ![Len(ch)] = ch[Len(ch)]]
    PROVE  Valid(es, <<Expression, At("test", <<Position(ch[Len(ch)])>>)>> \o RestWork(wk), ds, en, dc)
<1> DEFINE a == ctx[1]
           b == RestCtx(wk, ctx)[1]
           v == RestWork(wk)[1]
           c == ch[Len(ch)]
           M == maps[Len(ch)]
           P == Pending(RestWork(wk), RestCtx(wk, ctx), Len(ch))
<1>1. Sane(a) /\ a.vars = a.seen
  BY AtCode
<1>2. b = a /\ Settled(a)
  BY RestPoint
<1>3. Holes(wk[1]) = {}
  BY DEF Holes
<1>4. /\ Turn(ch, wk, ds, en, dc, ctx, maps, c, M, es, P)
      /\ Coding(ds, dc, c.f, M, P, a.height, SlotsOf(c, a.vars))
  BY <1>3, Idle
<1>5. /\ Flow(c.f, M, Stack(c, a), Len(c.f.code)) /\ Len(c.f.code) \in Nat
  <2>1. M[Len(c.f.code)] = Stack(c, a) /\ Len(c.f.code) \in Spots(c.f) /\ c \in Comp
    BY AtCode
  <2>2. Len(c.f.code) \in Nat
    BY <2>1 DEF Comp, Function
  <2> QED
    BY <2>1, <2>2 DEF Flow
<1> HIDE DEF a, b, v, c, M, P
<1>6. /\ Under(a, a) /\ Under(a, Raise(a, 1)) /\ Under(a, Raise(a, 2))
      /\ Raise(Raise(a, 1), 1) = Raise(a, 2) /\ Raise(Raise(a, 2), -1) = Raise(a, 1)
      /\ Raise(Raise(a, 1), -1) = a /\ Raise(Raise(a, 1), 0) = Raise(a, 1) /\ Raise(a, 0) = a
      /\ Raise(a, 1).height > Raise(a, 1).vars /\ Raise(a, 2).height > Raise(a, 2).vars + 1
  BY <1>1, Rises
<1> DEFINE w1 == Expression
           w2 == At("test", <<Len(c.f.code)>>)
<1>7. Part(a, w2, Raise(a, 1), v, b, c, M, P) /\ Holes(w2) = {}
  BY <1>2, <1>5, <1>6, TestPart
<1>8. Part(a, w1, a, w2, Raise(a, 1), c, M, Holes(w2) \cup P) /\ Holes(w1) = {}
  BY <1>6, ExpressionPart DEF Under
<1>9. Holes(w1) \cup (Holes(w2) \cup P) = P
  BY <1>8, <1>7
<1>10. Coding(ds, dc, c.f, M, Holes(w1) \cup (Holes(w2) \cup P), a.height, SlotsOf(c, a.vars))
  BY <1>4, <1>9
<1> HIDE DEF w1, w2, c, Position
<1>11. Valid(es, <<w1, w2>> \o RestWork(wk), ds, en, dc)
  BY <1>4, <1>8, <1>7, <1>10, Parts2 DEF a, b, v, c, M, P
<1> QED
  BY <1>11 DEF w1, w2, c, Position

LEMMA ForStart ==
    ASSUME NEW ch, NEW wk, NEW ds, NEW en, NEW dc, NEW ctx, NEW maps,
           Ready(ch, wk, ds, en, dc, ctx, maps), wk[1].k = "for",
           NEW es, es = [ch EXCEPT ![Len(ch)] = ch[Len(ch)]]
    PROVE  Valid(es, <<Expression, At("forTest", <<Position(ch[Len(ch)])>>)>> \o RestWork(wk), ds, en, dc)
<1> DEFINE a == ctx[1]
           b == RestCtx(wk, ctx)[1]
           v == RestWork(wk)[1]
           c == ch[Len(ch)]
           M == maps[Len(ch)]
           P == Pending(RestWork(wk), RestCtx(wk, ctx), Len(ch))
<1>1. Sane(a) /\ a.vars = a.seen
  BY AtCode
<1>2. b = a /\ Settled(a)
  BY RestPoint
<1>3. Holes(wk[1]) = {}
  BY DEF Holes
<1>4. /\ Turn(ch, wk, ds, en, dc, ctx, maps, c, M, es, P)
      /\ Coding(ds, dc, c.f, M, P, a.height, SlotsOf(c, a.vars))
  BY <1>3, Idle
<1>5. /\ Flow(c.f, M, Stack(c, a), Len(c.f.code)) /\ Len(c.f.code) \in Nat
  <2>1. M[Len(c.f.code)] = Stack(c, a) /\ Len(c.f.code) \in Spots(c.f) /\ c \in Comp
    BY AtCode
  <2>2. Len(c.f.code) \in Nat
    BY <2>1 DEF Comp, Function
  <2> QED
    BY <2>1, <2>2 DEF Flow
<1> HIDE DEF a, b, v, c, M, P
<1>6. /\ Under(a, a) /\ Under(a, Raise(a, 1)) /\ Under(a, Raise(a, 2))
      /\ Raise(Raise(a, 1), 1) = Raise(a, 2) /\ Raise(Raise(a, 2), -1) = Raise(a, 1)
      /\ Raise(Raise(a, 1), -1) = a /\ Raise(Raise(a, 1), 0) = Raise(a, 1) /\ Raise(a, 0) = a
      /\ Raise(a, 1).height > Raise(a, 1).vars /\ Raise(a, 2).height > Raise(a, 2).vars + 1
  BY <1>1, Rises
<1> DEFINE w1 == Expression
           w2 == At("forTest", <<Len(c.f.code)>>)
<1>7. Part(a, w2, Raise(a, 1), v, b, c, M, P) /\ Holes(w2) = {}
  BY <1>2, <1>5, <1>6, TestPart
<1>8. Part(a, w1, a, w2, Raise(a, 1), c, M, Holes(w2) \cup P) /\ Holes(w1) = {}
  BY <1>6, ExpressionPart DEF Under
<1>9. Holes(w1) \cup (Holes(w2) \cup P) = P
  BY <1>8, <1>7
<1>10. Coding(ds, dc, c.f, M, Holes(w1) \cup (Holes(w2) \cup P), a.height, SlotsOf(c, a.vars))
  BY <1>4, <1>9
<1> HIDE DEF w1, w2, c, Position
<1>11. Valid(es, <<w1, w2>> \o RestWork(wk), ds, en, dc)
  BY <1>4, <1>8, <1>7, <1>10, Parts2 DEF a, b, v, c, M, P
<1> QED
  BY <1>11 DEF w1, w2, c, Position

LEMMA ForEver ==
    ASSUME NEW ch, NEW wk, NEW ds, NEW en, NEW dc, NEW ctx, NEW maps,
           Ready(ch, wk, ds, en, dc, ctx, maps), wk[1].k = "for",
           NEW es, es = [ch EXCEPT ![Len(ch)] = ch[Len(ch)]]
    PROVE  Valid(es, <<At("forBody", <<Position(ch[Len(ch)])>>)>> \o RestWork(wk), ds, en, dc)
<1> DEFINE a == ctx[1]
           b == RestCtx(wk, ctx)[1]
           v == RestWork(wk)[1]
           c == ch[Len(ch)]
           M == maps[Len(ch)]
           P == Pending(RestWork(wk), RestCtx(wk, ctx), Len(ch))
<1>1. Sane(a) /\ a.vars = a.seen
  BY AtCode
<1>2. b = a /\ Settled(a)
  BY RestPoint
<1>3. Holes(wk[1]) = {}
  BY DEF Holes
<1>4. /\ Turn(ch, wk, ds, en, dc, ctx, maps, c, M, es, P)
      /\ Coding(ds, dc, c.f, M, P, a.height, SlotsOf(c, a.vars))
  BY <1>3, Idle
<1>5. /\ Flow(c.f, M, Stack(c, a), Len(c.f.code)) /\ Len(c.f.code) \in Nat
  <2>1. M[Len(c.f.code)] = Stack(c, a) /\ Len(c.f.code) \in Spots(c.f) /\ c \in Comp
    BY AtCode
  <2>2. Len(c.f.code) \in Nat
    BY <2>1 DEF Comp, Function
  <2> QED
    BY <2>1, <2>2 DEF Flow
<1> HIDE DEF a, b, v, c, M, P
<1>6. /\ Under(a, a) /\ Under(a, Raise(a, 1)) /\ Under(a, Raise(a, 2))
      /\ Raise(Raise(a, 1), 1) = Raise(a, 2) /\ Raise(Raise(a, 2), -1) = Raise(a, 1)
      /\ Raise(Raise(a, 1), -1) = a /\ Raise(Raise(a, 1), 0) = Raise(a, 1) /\ Raise(a, 0) = a
      /\ Raise(a, 1).height > Raise(a, 1).vars /\ Raise(a, 2).height > Raise(a, 2).vars + 1
  BY <1>1, Rises
<1> DEFINE w1 == At("forBody", <<Len(c.f.code)>>)
<1>7. Part(a, w1, a, v, b, c, M, P) /\ Holes(w1) = {}
  <2>1. a = [a EXCEPT !.height = a.height]
    BY <1>1 DEF Sane, Point
  <2> QED
    BY <2>1, <1>2, <1>5, <1>6, LoopPart
<1>8. Holes(w1) \cup P = P
  BY <1>7
<1>9. Coding(ds, dc, c.f, M, Holes(w1) \cup P, a.height, SlotsOf(c, a.vars))
  BY <1>4, <1>8
<1> HIDE DEF w1
<1>10. Valid(es, <<w1>> \o RestWork(wk), ds, en, dc)
  BY <1>4, <1>7, <1>9, Parts1 DEF a, b, v, c, M, P
<1> QED
  BY <1>10 DEF w1, c, Position

LEMMA BodyStart ==
    ASSUME NEW ch, NEW wk, NEW ds, NEW en, NEW dc, NEW ctx, NEW maps,
           Ready(ch, wk, ds, en, dc, ctx, maps), wk[1].k = "forBody",
           NEW es, es = [ch EXCEPT ![Len(ch)] = ch[Len(ch)]]
    PROVE  Valid(es, <<Do("statement"), At("loop", <<wk[1].at[1]>>)>> \o RestWork(wk), ds, en, dc)
<1> DEFINE a == ctx[1]
           b == RestCtx(wk, ctx)[1]
           v == RestWork(wk)[1]
           c == ch[Len(ch)]
           M == maps[Len(ch)]
           P == Pending(RestWork(wk), RestCtx(wk, ctx), Len(ch))
<1>1. Sane(a) /\ a.vars = a.seen
  BY AtCode
<1>2. /\ Settled(a) /\ b = [a EXCEPT !.height = b.height]
      /\ Holds(wk[1], a, ctx[2], c, M)
  <2>1. PICK x, y : x = a /\ y = b
    OBVIOUS
  <2>2. Settled(x) /\ Beside(x, y)
    BY <2>1, RestLoop
  <2>3. Holds(wk[1], x, ctx[2], ch[Len(ch)], maps[Len(ch)])
    BY <2>1, RestPoint
  <2> QED
    BY <2>1, <2>2, <2>3 DEF Beside
<1>3. Holes(wk[1]) = {}
  BY DEF Holes
<1>4. /\ Turn(ch, wk, ds, en, dc, ctx, maps, c, M, es, P)
      /\ Coding(ds, dc, c.f, M, P, a.height, SlotsOf(c, a.vars))
  BY <1>3, Idle
<1>5. /\ Flow(c.f, M, Stack(c, a), wk[1].at[1]) /\ wk[1].at[1] \in Nat
  <2>1. Flow(c.f, M, Stack(c, a), wk[1].at[1])
    BY <1>2 DEF Holds
  <2>2. c \in Comp
    BY AtCode
  <2>3. Len(c.f.code) \in Nat
    BY <2>2 DEF Comp, Function
  <2> QED
    BY <2>1, <2>3 DEF Flow, Spots, Starts
<1> HIDE DEF a, b, v, c, M, P
<1>6. /\ Under(a, a) /\ Under(a, Raise(a, 1)) /\ Under(a, Raise(a, 2))
      /\ Raise(Raise(a, 1), 1) = Raise(a, 2) /\ Raise(Raise(a, 2), -1) = Raise(a, 1)
      /\ Raise(Raise(a, 1), -1) = a /\ Raise(Raise(a, 1), 0) = Raise(a, 1) /\ Raise(a, 0) = a
      /\ Raise(a, 1).height > Raise(a, 1).vars /\ Raise(a, 2).height > Raise(a, 2).vars + 1
  BY <1>1, Rises
<1> DEFINE w1 == Do("statement")
           w2 == At("loop", <<wk[1].at[1]>>)
<1>7. Part(a, w2, a, v, b, c, M, P) /\ Holes(w2) = {}
  BY <1>2, <1>5, <1>6, LoopPart
<1>8. Part(a, w1, a, w2, a, c, M, Holes(w2) \cup P) /\ Holes(w1) = {}
  BY <1>2, <1>6, StatementPart DEF Under
<1>9. Holes(w1) \cup (Holes(w2) \cup P) = P
  BY <1>8, <1>7
<1>10. Coding(ds, dc, c.f, M, Holes(w1) \cup (Holes(w2) \cup P), a.height, SlotsOf(c, a.vars))
  BY <1>4, <1>9
<1> HIDE DEF w1, w2
<1>11. Valid(es, <<w1, w2>> \o RestWork(wk), ds, en, dc)
  BY <1>4, <1>8, <1>7, <1>10, Parts2 DEF a, b, v, c, M, P
<1> QED
  BY <1>11 DEF w1, w2

-----------------------------------------------------------------------------
(* The code that emitByte, patchJump and emitLoop leave.                   *)

LEMMA CoderTwice ==
    ASSUME NEW c \in Comp, NEW M, NEW d \in Comp, NEW N, NEW e, NEW O,
           Coder(c, M, d, N), Coder(d, N, e, O)
    PROVE  Coder(c, M, e, O)
<1>1. c.f \in Function /\ d.f \in Function /\ e \in Comp /\ e.f \in Function
  BY DEF Comp, Coder
<1>2. Onward(c.f, M, d.f, N) /\ Onward(d.f, N, e.f, O)
  BY DEF Coder
<1>3. Onward(c.f, M, e.f, O)
  BY <1>1, <1>2, OnwardTwice
<1> QED
  BY <1>1, <1>3 DEF Coder

LEMMA StackSame ==
    ASSUME NEW c, NEW M, NEW e, NEW N, Coder(c, M, e, N), NEW a
    PROVE  Stack(e, a) = Stack(c, a) /\ \A n : SlotsOf(e, n) = SlotsOf(c, n)
<1>1. e.locals = c.locals
  BY DEF Coder
<1>2. \A n : SlotsOf(e, n) = SlotsOf(c, n)
  BY <1>1 DEF SlotsOf
<1> QED
  BY <1>2 DEF Stack

\* A jump that was open can still be patched, a place to go back to is there.
LEMMA HoleOn ==
    ASSUME NEW c, NEW M, NEW e, NEW N, Coder(c, M, e, N), NEW o, NEW s, Hole(c, M, o, s)
    PROVE  Hole(e, N, o, s)
  BY DEF Coder, Onward, Hole

LEMMA FlowOn ==
    ASSUME NEW c, NEW M, NEW e, NEW N, Coder(c, M, e, N), NEW s, NEW q, Flow(c.f, M, s, q)
    PROVE  Flow(e.f, N, s, q)
<1>1. /\ Spots(c.f) \subseteq Spots(e.f) /\ \A r \in Spots(c.f) : N[r] = M[r]
      /\ c.f.born \subseteq e.f.born
  BY DEF Coder, Onward
<1> QED
  BY <1>1, FlowStays

LEMMA EmitIs ==
    ASSUME NEW c \in Comp, NEW s \in Seq(Bytes)
    PROVE  /\ Emit(c, s) \in Comp /\ Emit(c, s).f = Emitted(c.f, s)
           /\ Emit(c, s).locals = c.locals /\ Emit(c, s).scopeDepth = c.scopeDepth
           /\ Emit(c, s).error = c.error
<1>1. c.f \in Function
  BY DEF Comp
<1>2. PICK g : g = Emitted(c.f, s)
  OBVIOUS
<1>3. g \in Function
  BY <1>1, <1>2, EmittedCode
<1>4. Emit(c, s) = [c EXCEPT !.f = g]
  BY <1>2 DEF Emit, Emitted, Comp
<1> QED
  BY <1>2, <1>3, <1>4 DEF Comp

LEMMA EmitWrites ==
    ASSUME NEW ds \in Seq(Function), NEW dc \in Nat, NEW c, NEW M, NEW P, NEW h, NEW sl, NEW v,
           Wrote(ds, dc, c, M, P, h, sl, v), NEW s, Plain(s), Names(c.f, sl, s),
           v + TakesOf(s) <= h, NEW k \in Nat, v <= k,
           s[1].op \notin {"RETURN", "JUMP"} => k = h - TakesOf(s) + PutsOf(s)
    PROVE  \E N : Writes(ds, dc, c, M, P, h, sl, v, s, k, N)
<1>1. Coding(ds, dc, c.f, M, P, h, sl) /\ Clear(c.f, h, sl, v) /\ c \in Comp
  BY DEF Wrote
<1>2. PICK N : Stepped(ds, dc, c.f, M, P, h, sl, s, k, N)
  BY <1>1, PlainStep
<1>3. s \in Seq(Bytes)
  BY DEF Plain, One
<1>4. PICK e : e = Emit(c, s)
  OBVIOUS
<1>5. /\ e \in Comp /\ e.f = Emitted(c.f, s) /\ e.locals = c.locals
      /\ e.scopeDepth = c.scopeDepth /\ e.error = c.error
  BY <1>1, <1>3, <1>4, EmitIs
<1>6. PICK Q : Q = IF s[1].op \in Jumps THEN P \cup {Len(c.f.code)} ELSE P
  OBVIOUS
<1>7. /\ Coding(ds, dc, e.f, N, Q, k, sl) /\ Onward(c.f, M, e.f, N) /\ Len(c.f.code) \in Starts(e.f)
      /\ After(e.f, N, Len(c.f.code)) = [height |-> h - TakesOf(s) + PutsOf(s), slot |-> sl]
  BY <1>2, <1>5, <1>6 DEF Stepped
<1>8. Len(c.f.code) \in Nat
  BY <1>1 DEF Comp, Function
<1>9. Clear(e.f, k, sl, v)
  BY <1>1, <1>7 DEF Clear, Onward
<1>10. Coder(c, M, e, N) /\ Wrote(ds, dc, e, N, Q, k, sl, v)
  BY <1>5, <1>7, <1>9 DEF Coder, Wrote
<1> QED
  BY <1>4, <1>5, <1>6, <1>7, <1>8, <1>10 DEF Writes, Position

LEMMA PatchIs ==
    ASSUME NEW c \in Comp, NEW o \in Nat, o - 1 \in Nat, o + 2 <= Len(c.f.code)
    PROVE  /\ PatchJump(c, o) \in Comp /\ PatchJump(c, o).f = Patched(c.f, o - 1)
           /\ PatchJump(c, o).locals = c.locals /\ PatchJump(c, o).scopeDepth = c.scopeDepth
           /\ PatchJump(c, o).error = (c.error \/ Len(c.f.code) - o - 2 > Base * Base - 1)
<1>1. c.f \in Function /\ Len(c.f.code) \in Nat
  BY DEF Comp, Function
<1>2. /\ o - 1 + 3 <= Len(c.f.code) /\ o - 1 + 2 = o + 1 /\ o - 1 + 3 = o + 2
      /\ Len(c.f.code) - (o - 1) - 3 = Len(c.f.code) - o - 2
  BY <1>1
<1>3. PICK g : g = Patched(c.f, o - 1)
  OBVIOUS
<1>4. g \in Function
  BY <1>1, <1>2, <1>3, PatchedCode
<1>5. PICK j : j = Len(c.f.code) - o - 2
  OBVIOUS
<1>6. g = [c.f EXCEPT !.code[o + 1] = Byte((j \div Base) % Base), !.code[o + 2] = Byte(j % Base),
                      !.land = @ \cup {[from |-> o - 1, to |-> Len(c.f.code)]}]
  BY <1>2, <1>3, <1>5 DEF Patched
<1>7. PatchJump(c, o) = [c EXCEPT !.f = g, !.error = @ \/ j > Base * Base - 1]
  BY <1>5, <1>6 DEF PatchJump, JumpLength, Position, Comp, Function
<1>8. c.error \in BOOLEAN /\ (c.error \/ j > Base * Base - 1) \in BOOLEAN
  BY DEF Comp
<1> QED
  BY <1>3, <1>4, <1>5, <1>7, <1>8 DEF Comp

LEMMA PatchWrites ==
    ASSUME NEW ds \in Seq(Function), NEW dc \in Nat, NEW c, NEW M, NEW P, NEW h, NEW sl, NEW v,
           Wrote(ds, dc, c, M, P, h, sl, v), NEW o \in Nat, o - 1 \in P,
           After(c.f, M, o - 1) = [height |-> h, slot |-> sl], ~ PatchJump(c, o).error
    PROVE  Fills(ds, dc, c, M, P, h, sl, v, o)
<1>1. Coding(ds, dc, c.f, M, P, h, sl) /\ Clear(c.f, h, sl, v) /\ c \in Comp
  BY DEF Wrote
<1>2. c.f \in Function /\ Typed(ds, c.f, M, P)
  BY <1>1 DEF Coding, Sound
<1>3. o - 1 \in Nat /\ o - 1 + 3 <= Len(c.f.code) /\ Len(c.f.code) \in Nat
  BY <1>2, OpenJump
<1>4. o + 2 <= Len(c.f.code) /\ Len(c.f.code) - (o - 1) - 3 = Len(c.f.code) - o - 2
  BY <1>3
<1>5. PICK e : e = PatchJump(c, o)
  OBVIOUS
<1>6. /\ e \in Comp /\ e.f = Patched(c.f, o - 1) /\ e.locals = c.locals
      /\ e.scopeDepth = c.scopeDepth
      /\ e.error = (c.error \/ Len(c.f.code) - o - 2 > Base * Base - 1)
  BY <1>1, <1>3, <1>4, <1>5, PatchIs
<1>7. Len(c.f.code) - o - 2 <= Base * Base - 1
  <2>1. Base * Base \in Int /\ Len(c.f.code) - o - 2 \in Int
    BY <1>3, CompilerConstants
  <2>2. ~ (Len(c.f.code) - o - 2 > Base * Base - 1)
    BY <1>5, <1>6
  <2> QED
    BY <2>1, <2>2
<1>8. Closes(ds, dc, c.f, M, P, h, sl, o - 1)
  <2>1. PICK p : p = o - 1
    OBVIOUS
  <2>2. p \in P /\ After(c.f, M, p) = [height |-> h, slot |-> sl]
        /\ Len(c.f.code) - p - 3 <= Base * Base - 1
    BY <1>4, <1>7, <2>1
  <2>3. Closes(ds, dc, c.f, M, P, h, sl, p)
    BY <1>1, <2>2, PatchStep
  <2> QED
    BY <2>1, <2>3
<1>9. /\ Coding(ds, dc, e.f, M, P \ {o - 1}, h, sl) /\ Onward(c.f, M, e.f, M)
      /\ Len(e.f.code) = Len(c.f.code)
  BY <1>6, <1>8 DEF Closes
<1>10. Clear(e.f, h, sl, v)
  BY <1>1, <1>9 DEF Clear, Onward
<1> QED
  BY <1>5, <1>6, <1>9, <1>10 DEF Fills, Coder, Wrote, Position

LEMMA LoopIs ==
    ASSUME NEW c \in Comp, NEW start \in Nat, start <= Len(c.f.code)
    PROVE  /\ EmitLoop(c, start) \in Comp /\ EmitLoop(c, start).f = Looped(c.f, start)
           /\ EmitLoop(c, start).locals = c.locals /\ EmitLoop(c, start).scopeDepth = c.scopeDepth
<1>1. c.f \in Function /\ Len(c.f.code) \in Nat
  BY DEF Comp, Function
<1>2. PICK g : g = Looped(c.f, start)
  OBVIOUS
<1>3. g \in Function
  BY <1>1, <1>2, LoopCode DEF Appends
<1>4. PICK s : s = LoopOp(c.f, start)
  OBVIOUS
<1>5. PICK x : x = (c.error \/ Len(c.f.code) + 1 - start + 2 > Base * Base - 1)
  OBVIOUS
<1>6. g = [c.f EXCEPT !.code = @ \o s, !.land = @ \cup {[from |-> Len(c.f.code), to |-> start]}]
  BY <1>2, <1>4 DEF Looped
<1>7. EmitLoop(c, start) = [Emit(c, s) EXCEPT
            !.error = @ \/ Len(c.f.code) + 1 - start + 2 > Base * Base - 1,
            !.f.land = @ \cup {[from |-> Len(c.f.code), to |-> start]}]
  BY <1>4 DEF EmitLoop, LoopOp, Position
<1>8. EmitLoop(c, start) = [c EXCEPT !.f = g, !.error = x]
  BY <1>5, <1>6, <1>7 DEF Emit, Comp, Function
<1>9. x \in BOOLEAN
  BY <1>5 DEF Comp
<1> QED
  BY <1>2, <1>3, <1>8, <1>9 DEF Comp

LEMMA LoopWrites ==
    ASSUME NEW ds \in Seq(Function), NEW dc \in Nat, NEW c, NEW M, NEW P, NEW h, NEW sl, NEW v,
           Wrote(ds, dc, c, M, P, h, sl, v), NEW start,
           Flow(c.f, M, [height |-> h, slot |-> sl], start), NEW k \in Nat, v <= k
    PROVE  \E N : Returns(ds, dc, c, M, P, sl, v, start, k, N)
<1>1. Coding(ds, dc, c.f, M, P, h, sl) /\ Clear(c.f, h, sl, v) /\ c \in Comp
  BY DEF Wrote
<1>2. PICK N : Loops(ds, dc, c.f, M, P, sl, start, k, N)
  BY <1>1, LoopStep
<1>3. start \in Nat /\ start <= Len(c.f.code)
  <2>1. Len(c.f.code) \in Nat
    BY <1>1 DEF Comp, Function
  <2>2. start \in Spots(c.f)
    BY DEF Flow
  <2> QED
    BY <2>1, <2>2 DEF Spots, Starts
<1>4. PICK e : e = EmitLoop(c, start)
  OBVIOUS
<1>5. e \in Comp /\ e.f = Looped(c.f, start) /\ e.locals = c.locals /\ e.scopeDepth = c.scopeDepth
  BY <1>1, <1>3, <1>4, LoopIs
<1>6. Coding(ds, dc, e.f, N, P, k, sl) /\ Onward(c.f, M, e.f, N)
  BY <1>2, <1>5 DEF Loops
<1>7. Clear(e.f, k, sl, v)
  BY <1>1, <1>6 DEF Clear, Onward
<1> QED
  BY <1>4, <1>5, <1>6, <1>7 DEF Returns, Coder, Wrote

-----------------------------------------------------------------------------
(* Instructions that are emitted behind an expression or a statement.      *)

LEMMA AtWrote ==
    ASSUME NEW ch, NEW wk, NEW ds, NEW en, NEW dc, NEW ctx, NEW maps,
           Ready(ch, wk, ds, en, dc, ctx, maps), NEW c, c = ch[Len(ch)], NEW a, a = ctx[1],
           NEW M, M = maps[Len(ch)]
    PROVE  /\ Wrote(ds, dc, c, M, Pending(wk, ctx, Len(ch)), a.height, SlotsOf(c, a.vars), a.vars)
           /\ ds \in Seq(Function) /\ dc \in Nat /\ Sane(a) /\ a.vars = a.seen
           /\ c \in Comp
<1>1. PICK n : n = Len(ch)
  OBVIOUS
<1>2. /\ ds \in Seq(Function) /\ dc \in Nat /\ ch[n] \in Comp
      /\ Sane(ctx[1]) /\ ctx[1].vars = ctx[1].seen
      /\ Coding(ds, dc, ch[n].f, maps[n], Pending(wk, ctx, n), ctx[1].height,
                SlotsOf(ch[n], ctx[1].vars))
      /\ Clear(ch[n].f, ctx[1].height, SlotsOf(ch[n], ctx[1].vars), ctx[1].vars)
  BY <1>1, AtCode
<1> QED
  BY <1>1, <1>2 DEF Wrote

LEMMA OpPlain ==
    ASSUME NEW o \in {"LITERAL", "UNARY", "BINARY", "POP", "PRINT", "RETURN", "CLOSE_UPVALUE"},
           NEW s, s = <<Op(o)>>, NEW f, NEW sl
    PROVE  Plain(s) /\ Names(f, sl, s) /\ s[1].op = o /\ s[1].op \notin Jumps
<1>1. o \in Instructions
  BY DEF Instructions
<1>2. Op(o) \in Bytes /\ Op(o).op = o /\ Op(o).op # "operand"
  BY <1>1, OpIs
<1>3. s \in Seq(Bytes) /\ Len(s) = 1 /\ s[1] = Op(o)
  BY <1>2, OneByte
<1>4. One(s)
  BY <1>2, <1>3 DEF One
<1>5. o \notin Jumps /\ o \notin Short /\ o \in Instructions \ {"LOOP", "CLOSURE"}
  BY <1>1 DEF Jumps, Short
<1>6. s[1].op = o
  BY <1>2, <1>3
<1>7. Plain(s)
  BY <1>3, <1>4, <1>5, <1>6 DEF Plain
<1>8. Names(f, sl, s)
  BY <1>6 DEF Names
<1> QED
  BY <1>5, <1>6, <1>7, <1>8

\* An instruction with one operand.
LEMMA ShortPlain ==
    ASSUME NEW o \in Short, NEW d \in 0..Itself, NEW n \in Nat, NEW s, s = <<Ref(o, d), Byte(n)>>
    PROVE  /\ Plain(s) /\ s[1].op = o /\ s[1].decl = d /\ s[2].n = n /\ s[1].op \notin Jumps
           /\ s \in Seq(Bytes)
<1>1. o \in Instructions
  BY DEF Instructions, Short
<1>2. Ref(o, d) \in Bytes /\ Ref(o, d).op = o /\ Ref(o, d).decl = d /\ Ref(o, d).op # "operand"
  BY <1>1, OpIs
<1>3. Byte(n) \in Bytes /\ Byte(n).op = "operand" /\ Byte(n).n = n
  BY ByteIs
<1>4. s \in Seq(Bytes) /\ Len(s) = 2 /\ s[1] = Ref(o, d) /\ s[2] = Byte(n)
  BY <1>2, <1>3, TwoByte
<1>5. One(s)
  BY <1>2, <1>3, <1>4 DEF One
<1>6. o \notin Jumps /\ o \in Instructions \ {"LOOP", "CLOSURE"}
  BY <1>1 DEF Jumps, Short
<1>7. s[1].op = o /\ s[1].decl = d /\ s[2].n = n
  BY <1>2, <1>3, <1>4
<1>8. Plain(s)
  BY <1>4, <1>5, <1>6, <1>7 DEF Plain
<1> QED
  BY <1>4, <1>6, <1>7, <1>8

\* Op(o) is the same byte as Ref(o, Global).
LEMMA OpShort ==
    ASSUME NEW o \in Short, NEW n \in Nat, NEW s, s = <<Op(o), Byte(n)>>
    PROVE  /\ Plain(s) /\ s[1].op = o /\ s[1].decl = Global /\ s[2].n = n /\ s[1].op \notin Jumps
           /\ s \in Seq(Bytes)
<1>1. Op(o) = Ref(o, 0)
  BY DEF Op, Ref, Global
<1>2. 0 \in 0..Itself
  BY CompilerConstants DEF Itself
<1> QED
  BY <1>1, <1>2, ShortPlain DEF Global

LEMMA EmissionIs ==
    ASSUME NEW a, Sane(a), NEW s, NEW b, Emission(s, a, b), Sane(b), NEW f
    PROVE  s = <<Op("LITERAL"), Op("RETURN")>> \/ Single(f, a, s, b)
<1>1. /\ a.height \in Nat /\ a.vars \in Nat /\ a.vars <= a.height /\ a \in Point
  BY Points
<1>2. \A i : Raise(a, i).height = a.height + i
  BY <1>1, Raised
<1>3. CASE s = <<Op("LITERAL")>> /\ b = Raise(a, 1)
  <2>1. Plain(s) /\ s[1].op = "LITERAL" /\ s[1].op \notin Jumps
    BY <1>3, OpPlain
  <2>2. TakesOf(s) = 0 /\ PutsOf(s) = 1
    BY <2>1 DEF TakesOf, PutsOf
  <2>3. b.height = a.height + 1
    BY <1>2, <1>3
  <2> QED
    BY <1>1, <2>1, <2>2, <2>3 DEF Single
<1>4. CASE s = <<Op("UNARY")>> /\ a.height > a.vars /\ b = a
  <2>1. Plain(s) /\ s[1].op = "UNARY" /\ s[1].op \notin Jumps
    BY <1>4, OpPlain
  <2>2. TakesOf(s) = 1 /\ PutsOf(s) = 1
    BY <2>1 DEF TakesOf, PutsOf
  <2> QED
    BY <1>1, <1>4, <2>1, <2>2 DEF Single
<1>5. CASE s = <<Op("BINARY")>> /\ a.height > a.vars + 1 /\ b = Raise(a, -1)
  <2>1. Plain(s) /\ s[1].op = "BINARY" /\ s[1].op \notin Jumps
    BY <1>5, OpPlain
  <2>2. TakesOf(s) = 2 /\ PutsOf(s) = 1
    BY <2>1 DEF TakesOf, PutsOf
  <2>3. b.height = a.height + (-1)
    BY <1>2, <1>5
  <2> QED
    BY <1>1, <1>5, <2>1, <2>2, <2>3 DEF Single
<1>6. ASSUME NEW o \in {"POP", "PRINT", "RETURN"}, s = <<Op(o)>>, a.height > a.vars, b = Raise(a, -1)
      PROVE  Single(f, a, s, b)
  <2>1. Plain(s) /\ s[1].op = o /\ s[1].op \notin Jumps
    BY <1>6, OpPlain
  <2>2. TakesOf(s) = 1 /\ PutsOf(s) = 0
    BY <2>1, <1>6 DEF TakesOf, PutsOf
  <2>3. b.height = a.height + (-1)
    BY <1>2, <1>6
  <2> QED
    BY <1>1, <1>6, <2>1, <2>2, <2>3 DEF Single
<1>7. ASSUME NEW n \in 0..1, s = <<Op("CALL"), Byte(n)>>, a.height > a.vars + n, b = Raise(a, 0 - n)
      PROVE  Single(f, a, s, b)
  <2>1. Plain(s) /\ s[1].op = "CALL" /\ s[2].n = n /\ s[1].op \notin Jumps
    BY <1>7, OpShort DEF Short
  <2>2. TakesOf(s) = 1 + n /\ PutsOf(s) = 1
    BY <2>1 DEF TakesOf, PutsOf
  <2>3. b.height = a.height + (0 - n)
    BY <1>2, <1>7
  <2> QED
    BY <1>1, <1>7, <2>1, <2>2, <2>3 DEF Single
<1>8. ASSUME NEW o \in Sets, NEW d \in 0..Itself, NEW n \in Nat, s = <<Ref(o, d), Byte(n)>>,
             a.height > a.vars, b = a
      PROVE  Single(f, a, s, b)
  <2>1. Plain(s) /\ s[1].op = o /\ s[1].op \notin Jumps
    BY <1>8, ShortPlain DEF Short, Sets
  <2>2. TakesOf(s) = 1 /\ PutsOf(s) = 1
    BY <2>1, <1>8 DEF TakesOf, PutsOf, Sets
  <2> QED
    BY <1>1, <1>8, <2>1, <2>2 DEF Single
<1> QED
  BY <1>3, <1>4, <1>5, <1>6, <1>7, <1>8 DEF Emission

LEMMA SingleWrites ==
    ASSUME NEW ds \in Seq(Function), NEW dc \in Nat, NEW c, NEW M, NEW P, NEW a, NEW sl,
           Wrote(ds, dc, c, M, P, a.height, sl, a.vars), NEW s, NEW b, Single(c.f, a, s, b),
           Names(c.f, sl, s), b.height \in Nat, a.vars <= b.height
    PROVE  \E N : Grown(ds, dc, c, M, Emit(c, s), N, P, b.height, sl, a.vars)
<1>1. PICK h, v, k : h = a.height /\ v = a.vars /\ k = b.height
  OBVIOUS
<1>2. /\ Wrote(ds, dc, c, M, P, h, sl, v) /\ Plain(s) /\ s[1].op \notin Jumps
      /\ v + TakesOf(s) <= h /\ k \in Nat /\ v <= k
      /\ s[1].op \notin {"RETURN", "JUMP"} => k = h - TakesOf(s) + PutsOf(s)
  BY <1>1 DEF Single
<1>3. PICK N : Writes(ds, dc, c, M, P, h, sl, v, s, k, N)
  BY <1>2, EmitWrites
<1> QED
  BY <1>1, <1>2, <1>3 DEF Writes, Grown

LEMMA RefersNames ==
    ASSUME NEW c, NEW a, Sane(a), NEW s,
           s[1].op \in Sets => Refers(c, a.vars, s[1].op, s[1].decl, s[2].n),
           s[1].op \notin {"GET_LOCAL", "GET_UPVALUE", "GET_GLOBAL"}, s[2].n \in Nat
    PROVE  Names(c.f, SlotsOf(c, a.vars), s)
<1>1. a.vars \in Nat /\ a.vars <= Count
  <2>1. a.vars \in Nat /\ a.all \in Nat /\ a.seen \in Nat /\ a.vars <= a.seen /\ a.seen <= a.all /\ a.all <= Count
    BY Points
  <2> QED
    BY <2>1, CompilerConstants
<1>2. CASE s[1].op = "SET_LOCAL"
  <2>1. Refers(c, a.vars, s[1].op, s[1].decl, s[2].n)
    BY <1>2 DEF Sets
  <2>2. CASE s[1].decl = Itself
    BY <1>2, <2>2 DEF Names
  <2>3. CASE s[1].decl # Itself
    <3>1. /\ s[2].n + 1 \in 1..a.vars /\ c.locals[s[2].n + 1].decl = s[1].decl /\ s[1].decl # Global
      BY <1>2, <2>1, <2>3 DEF Refers
    <3>2. s[2].n + 1 \in Slot /\ s[2].n + 1 <= a.vars
      BY <3>1, <1>1, CompilerConstants DEF Slot
    <3>3. SlotsOf(c, a.vars)[s[2].n + 1] = s[1].decl
      BY <3>1, <3>2 DEF SlotsOf
    <3> QED
      BY <1>2, <3>1, <3>2, <3>3 DEF Names
  <2> QED
    BY <2>2, <2>3
<1>3. CASE s[1].op # "SET_LOCAL"
  BY <1>3 DEF Names, Refers, Sets
<1> QED
  BY <1>2, <1>3

LEMMA JoinedOne ==
    ASSUME NEW S, NEW s \in Seq(S), NEW x \in S
    PROVE  /\ s \o <<x>> \in Seq(S) /\ Len(s \o <<x>>) = Len(s) + 1
           /\ \A i \in 1..Len(s) : (s \o <<x>>)[i] = s[i]
           /\ (s \o <<x>>)[Len(s) + 1] = x
  OBVIOUS

LEMMA DoubleEmit ==
    ASSUME NEW c \in Comp, NEW x \in Bytes, NEW y \in Bytes
    PROVE  Emit(c, <<x, y>>) = Emit(Emit(c, <<x>>), <<y>>)
<1>1. c.f \in Function /\ c.f.code \in Seq(Bytes)
  BY DEF Comp, Function
<1>2. PICK code : code = c.f.code
  OBVIOUS
<1>3. code \in Seq(Bytes)
  BY <1>1, <1>2
<1>4. code \o <<x, y>> = (code \o <<x>>) \o <<y>>
  <2>1. PICK s, t : s = code \o <<x, y>> /\ t = (code \o <<x>>) \o <<y>>
    OBVIOUS
  <2>2. PICK n \in Nat : n = Len(code)
    BY <1>3
  <2>3. /\ <<x, y>> \in Seq(Bytes) /\ Len(<<x, y>>) = 2 /\ <<x, y>>[1] = x /\ <<x, y>>[2] = y
        /\ <<x>> \in Seq(Bytes) /\ Len(<<x>>) = 1 /\ <<x>>[1] = x
        /\ <<y>> \in Seq(Bytes) /\ Len(<<y>>) = 1 /\ <<y>>[1] = y
    BY OneByte, TwoByte
  <2>4. PICK u : u = code \o <<x>>
    OBVIOUS
  <2>5. /\ u \in Seq(Bytes) /\ Len(u) = n + 1 /\ \A i \in 1..n : u[i] = code[i]
        /\ u[n + 1] = x
    <3>1. /\ code \o <<x>> \in Seq(Bytes) /\ Len(code \o <<x>>) = Len(code) + 1
          /\ \A i \in 1..Len(code) : (code \o <<x>>)[i] = code[i]
          /\ \A i \in 1..1 : (code \o <<x>>)[Len(code) + i] = <<x>>[i]
      BY <1>3, <2>3, Joined
    <3>2. 1 \in 1..1
      OBVIOUS
    <3> QED
      BY <2>2, <2>3, <2>4, <3>1, <3>2
  <2>6. /\ t \in Seq(Bytes) /\ Len(t) = n + 1 + 1 /\ \A i \in 1..n + 1 : t[i] = u[i]
        /\ t[n + 1 + 1] = y
    <3>1. /\ u \o <<y>> \in Seq(Bytes) /\ Len(u \o <<y>>) = Len(u) + 1
          /\ \A i \in 1..Len(u) : (u \o <<y>>)[i] = u[i]
          /\ (u \o <<y>>)[Len(u) + 1] = y
      <4>1. u \in Seq(Bytes)
        BY <2>5
      <4> QED
        BY <4>1, JoinedOne
    <3>2. t = u \o <<y>>
      BY <2>1, <2>4
    <3> QED
      BY <2>5, <3>1, <3>2
  <2>7. /\ s \in Seq(Bytes) /\ Len(s) = n + 2 /\ \A i \in 1..n : s[i] = code[i]
        /\ s[n + 1] = x /\ s[n + 2] = y
    <3>1. /\ code \o <<x, y>> \in Seq(Bytes) /\ Len(code \o <<x, y>>) = Len(code) + 2
          /\ \A i \in 1..Len(code) : (code \o <<x, y>>)[i] = code[i]
          /\ \A i \in 1..2 : (code \o <<x, y>>)[Len(code) + i] = <<x, y>>[i]
      BY <1>3, <2>3, Joined
    <3>2. 1 \in 1..2 /\ 2 \in 1..2
      OBVIOUS
    <3> QED
      BY <2>1, <2>2, <2>3, <3>1, <3>2
  <2>8. n + 1 + 1 = n + 2 /\ \A i \in 1..n + 2 : i \in 1..n \/ i = n + 1 \/ i = n + 2
    BY <2>2
  <2>9. n + 1 \in 1..n + 1 /\ \A i \in 1..n : i \in 1..n + 1
    BY <2>2
  <2>10. \A i \in 1..n + 2 : s[i] = t[i]
    BY <2>5, <2>6, <2>7, <2>8, <2>9
  <2>11. s = t
    BY <2>6, <2>7, <2>8, <2>10, SeqEqual
  <2> QED
    BY <2>1, <2>11
<1>5. Emit(c, <<x>>) = [c EXCEPT !.f.code = c.f.code \o <<x>>]
  BY DEF Emit
<1>6. Emit(c, <<x>>).f.code = c.f.code \o <<x>>
  BY <1>1, <1>5 DEF Comp, Function
<1>7. Emit(Emit(c, <<x>>), <<y>>) = [Emit(c, <<x>>) EXCEPT !.f.code = (c.f.code \o <<x>>) \o <<y>>]
  BY <1>6 DEF Emit
<1>8. Emit(c, <<x, y>>) = [c EXCEPT !.f.code = c.f.code \o <<x, y>>]
  BY DEF Emit
<1> QED
  BY <1>1, <1>2, <1>4, <1>5, <1>7, <1>8 DEF Comp, Function

LEMMA EmissionWrites ==
    ASSUME NEW ds \in Seq(Function), NEW dc \in Nat, NEW c, NEW M, NEW P, NEW a, Sane(a),
           NEW sl, sl = SlotsOf(c, a.vars),
           Wrote(ds, dc, c, M, P, a.height, sl, a.vars),
           NEW s, NEW b, Emission(s, a, b), Sane(b), Beside(a, b),
           s[1].op \in Sets => Refers(c, a.vars, s[1].op, s[1].decl, s[2].n)
    PROVE  \E N : Grown(ds, dc, c, M, Emit(c, s), N, P, b.height, sl, a.vars)
<1>1. /\ a.height \in Nat /\ a.vars \in Nat /\ a.vars <= a.height /\ a \in Point
      /\ b.height \in Nat /\ b.vars <= b.height
  BY Points
<1>2. b.vars = a.vars
  BY <1>1 DEF Beside, Point
<1>3. c \in Comp
  BY DEF Wrote
<1>4. CASE Single(c.f, a, s, b)
  <2>1. Names(c.f, sl, s)
    <3>1. CASE s[1].op \in Sets
      <4>1. s[2].n \in Nat
        <5>1. s \in Seq(Bytes) /\ Len(s) = 2
          BY <1>4, <3>1 DEF Single, Plain, One, Sets, Jumps, Short
        <5>2. 2 \in 1..Len(s)
          BY <5>1
        <5>3. s[2] \in Bytes
          BY <5>1, <5>2, SeqIs
        <5> QED
          BY <5>3 DEF Bytes
      <4>2. s[1].op \notin {"GET_LOCAL", "GET_UPVALUE", "GET_GLOBAL"}
        BY <3>1 DEF Sets
      <4> QED
        BY <4>1, <4>2, RefersNames
    <3>2. CASE s[1].op \notin Sets
      <4>1. s[1].op \notin {"GET_LOCAL", "GET_UPVALUE", "GET_GLOBAL"}
        <5>1. \A o \in Instructions \ {"GET_LOCAL", "GET_UPVALUE", "GET_GLOBAL"}, d \in Nat :
                  Op(o).op \notin {"GET_LOCAL", "GET_UPVALUE", "GET_GLOBAL"}
          BY DEF Op
        <5>2. \/ \E o \in {"LITERAL", "UNARY", "BINARY", "POP", "PRINT", "RETURN"} : s = <<Op(o)>>
              \/ s = <<Op("LITERAL"), Op("RETURN")>>
              \/ \E n \in 0..1 : s = <<Op("CALL"), Byte(n)>>
              \/ \E o \in Sets, d \in 0..Itself, n \in Nat : s = <<Ref(o, d), Byte(n)>>
          BY DEF Emission
        <5>3. ASSUME NEW o \in Sets, NEW d \in 0..Itself, NEW n \in Nat, s = <<Ref(o, d), Byte(n)>>
              PROVE  FALSE
          <6>1. s[1].op = o
            BY <5>3, ShortPlain DEF Short, Sets
          <6> QED
            BY <3>2, <6>1, <5>3
        <5>4. ASSUME NEW o \in {"LITERAL", "UNARY", "BINARY", "POP", "PRINT", "RETURN"}, s = <<Op(o)>>
              PROVE  s[1].op \notin {"GET_LOCAL", "GET_UPVALUE", "GET_GLOBAL"}
          <6>1. s[1].op = o
            BY <5>4, OpPlain
          <6> QED
            BY <6>1, <5>4
        <5>5. ASSUME s = <<Op("LITERAL"), Op("RETURN")>>
              PROVE  s[1].op \notin {"GET_LOCAL", "GET_UPVALUE", "GET_GLOBAL"}
          BY <5>5 DEF Op
        <5>6. ASSUME NEW n \in 0..1, s = <<Op("CALL"), Byte(n)>>
              PROVE  s[1].op \notin {"GET_LOCAL", "GET_UPVALUE", "GET_GLOBAL"}
          BY <5>6 DEF Op
        <5> QED
          BY <5>2, <5>3, <5>4, <5>5, <5>6
      <4> QED
        BY <3>2, <4>1 DEF Names, Sets
    <3> QED
      BY <3>1, <3>2
  <2> QED
    BY <1>1, <1>2, <1>4, <2>1, SingleWrites
<1>5. CASE s = <<Op("LITERAL"), Op("RETURN")>>
  <2>1. b = a
    <3>1. s # <<Op("LITERAL")>> /\ s # <<Op("UNARY")>> /\ s # <<Op("BINARY")>>
          /\ s \notin {<<Op("POP")>>, <<Op("PRINT")>>, <<Op("RETURN")>>}
      BY <1>5
    <3>2. \A n \in 0..1 : s # <<Op("CALL"), Byte(n)>>
      BY <1>5 DEF Op
    <3>3. ASSUME NEW o \in Sets, NEW d \in 0..Itself, NEW n \in Nat, s = <<Ref(o, d), Byte(n)>>
          PROVE  b = a
      <4>1. s[1].op = o
        BY <3>3, ShortPlain DEF Short, Sets
      <4>2. s[1].op = "LITERAL"
        BY <1>5 DEF Op
      <4> QED
        BY <4>1, <4>2 DEF Sets
    <3> QED
      BY <3>1, <3>2, <3>3 DEF Emission
  <2>2. PICK h, v, s1, s2 : h = a.height /\ v = a.vars /\ s1 = <<Op("LITERAL")>> /\ s2 = <<Op("RETURN")>>
    OBVIOUS
  <2>3. /\ Plain(s1) /\ Names(c.f, sl, s1) /\ s1[1].op = "LITERAL" /\ s1[1].op \notin Jumps
        /\ TakesOf(s1) = 0 /\ PutsOf(s1) = 1
    <3>1. Plain(s1) /\ Names(c.f, sl, s1) /\ s1[1].op = "LITERAL" /\ s1[1].op \notin Jumps
      BY <2>2, OpPlain
    <3> QED
      BY <3>1 DEF TakesOf, PutsOf
  <2>4. h + 1 \in Nat /\ v <= h + 1 /\ v + 0 <= h /\ h + 1 = h - 0 + 1
    BY <1>1, <2>2
  <2>5. PICK N : Writes(ds, dc, c, M, P, h, sl, v, s1, h + 1, N)
    BY <2>2, <2>3, <2>4, EmitWrites
  <2>6. PICK e : e = Emit(c, s1)
    OBVIOUS
  <2>7. Coder(c, M, e, N) /\ Wrote(ds, dc, e, N, P, h + 1, sl, v) /\ e \in Comp
    BY <2>3, <2>5, <2>6 DEF Writes, Wrote
  <2>8. /\ Plain(s2) /\ Names(e.f, sl, s2) /\ s2[1].op = "RETURN" /\ s2[1].op \notin Jumps
        /\ TakesOf(s2) = 1 /\ PutsOf(s2) = 0
    <3>1. Plain(s2) /\ Names(e.f, sl, s2) /\ s2[1].op = "RETURN" /\ s2[1].op \notin Jumps
      BY <2>2, OpPlain
    <3> QED
      BY <3>1 DEF TakesOf, PutsOf
  <2>9. v + 1 <= h + 1 /\ h \in Nat /\ v <= h
    BY <1>1, <2>2
  <2>10. PICK g : g = h + 1
    OBVIOUS
  <2>11. PICK O : Writes(ds, dc, e, N, P, g, sl, v, s2, h, O)
    BY <2>7, <2>8, <2>9, <2>10, EmitWrites
  <2>12. PICK u : u = Emit(e, s2)
    OBVIOUS
  <2>13. Coder(e, N, u, O) /\ Wrote(ds, dc, u, O, P, h, sl, v)
    BY <2>8, <2>11, <2>12 DEF Writes
  <2>14. Coder(c, M, u, O)
    BY <1>3, <2>7, <2>13, CoderTwice
  <2>15. u = Emit(c, s)
    <3>1. Op("LITERAL") \in Bytes /\ Op("RETURN") \in Bytes
      BY OpIs DEF Instructions
    <3> QED
      BY <3>1, <1>3, <1>5, <2>2, <2>6, <2>12, DoubleEmit
  <2> QED
    BY <2>1, <2>2, <2>13, <2>14, <2>15 DEF Grown
<1> QED
  BY <1>4, <1>5, EmissionIs

-----------------------------------------------------------------------------
(* One step of the code of the current function.                           *)

LEMMA SceneIs ==
    ASSUME NEW ch, NEW wk, NEW ds, NEW en, NEW dc, NEW ctx, NEW maps, NEW a, NEW b, NEW v, NEW c,
           NEW M, NEW P, NEW Q, Scene(ch, wk, ds, en, dc, ctx, maps, a, b, v, c, M, P, Q)
    PROVE  /\ Wrote(ds, dc, c, M, Q, a.height, SlotsOf(c, a.vars), a.vars)
           /\ ds \in Seq(Function) /\ dc \in Nat /\ c \in Comp
           /\ Under(a, a) /\ Sane(b) /\ Beside(a, b)
           /\ Q = Holes(wk[1]) \cup P /\ Holes(wk[1]) \cap P = {}
<1>1. /\ Wrote(ds, dc, c, M, Q, a.height, SlotsOf(c, a.vars), a.vars)
      /\ ds \in Seq(Function) /\ dc \in Nat /\ c \in Comp /\ Sane(a) /\ a.vars = a.seen
  BY AtWrote DEF Scene
<1>2. Under(a, a)
  BY <1>1, Rises
<1>3. Sane(b) /\ Beside(a, b)
  BY RestPoint DEF Scene
<1>4. Q = Holes(wk[1]) \cup P /\ Holes(wk[1]) \cap P = {}
  BY RestOpen DEF Scene
<1> QED
  BY <1>1, <1>2, <1>3, <1>4

\* What the first item says of the point and of the code.
LEMMA SceneHolds ==
    ASSUME NEW ch, NEW wk, NEW ds, NEW en, NEW dc, NEW ctx, NEW maps, NEW a, NEW b, NEW v, NEW c,
           NEW M, NEW P, NEW Q, Scene(ch, wk, ds, en, dc, ctx, maps, a, b, v, c, M, P, Q)
    PROVE  /\ wk[1].k \in {"for", "else"} => b = a /\ Settled(a)
           /\ wk[1].k \in {"and", "or"} => a.height > a.vars /\ b = a
           /\ wk[1].k \in {"then", "test", "forTest", "forIncrement", "exit"} =>
                  Settled(b) /\ a = Raise(b, 1)
           /\ wk[1].k = "patch" => b = a
           /\ wk[1].k \in {"loop", "forBody"} => Settled(a)
           /\ wk[1].k = "emit" => Emission(wk[1].s, a, b)
           /\ Holds(wk[1], a, ctx[2], c, M)
  BY RestPoint DEF Scene

LEMMA SceneTurn ==
    ASSUME NEW ch, NEW wk, NEW ds, NEW en, NEW dc, NEW ctx, NEW maps, NEW a, NEW b, NEW v, NEW c,
           NEW M, NEW P, NEW Q, Scene(ch, wk, ds, en, dc, ctx, maps, a, b, v, c, M, P, Q),
           NEW e, NEW N, Coder(c, M, e, N), NEW es, es = [ch EXCEPT ![Len(ch)] = e]
    PROVE  Turn(ch, wk, ds, en, dc, ctx, maps, e, N, es, P)
  BY DEF Scene, Turn

LEMMA Finish0 ==
    ASSUME NEW ch, NEW wk, NEW ds, NEW en, NEW dc, NEW ctx, NEW maps, NEW a, NEW b, NEW v, NEW c,
           NEW M, NEW P, NEW Q, Scene(ch, wk, ds, en, dc, ctx, maps, a, b, v, c, M, P, Q),
           NEW e, NEW N, NEW es, es = [ch EXCEPT ![Len(ch)] = e],
           Grown(ds, dc, c, M, e, N, P, b.height, SlotsOf(c, a.vars), a.vars)
    PROVE  Valid(es, RestWork(wk), ds, en, dc)
<1>1. Coder(c, M, e, N) /\ Coding(ds, dc, e.f, N, P, b.height, SlotsOf(c, a.vars))
  BY DEF Grown, Wrote
<1>2. Turn(ch, wk, ds, en, dc, ctx, maps, e, N, es, P)
  BY <1>1, SceneTurn
<1>3. a = ctx[1] /\ b = RestCtx(wk, ctx)[1] /\ v = RestWork(wk)[1] /\ c = ch[Len(ch)]
  BY DEF Scene
<1> QED
  BY <1>1, <1>2, <1>3, Parts0

LEMMA Finish1 ==
    ASSUME NEW ch, NEW wk, NEW ds, NEW en, NEW dc, NEW ctx, NEW maps, NEW a, NEW b, NEW v, NEW c,
           NEW M, NEW P, NEW Q, Scene(ch, wk, ds, en, dc, ctx, maps, a, b, v, c, M, P, Q),
           NEW e, NEW N, NEW es, es = [ch EXCEPT ![Len(ch)] = e], NEW w1, NEW p1,
           Part(a, w1, p1, v, b, e, N, P),
           Grown(ds, dc, c, M, e, N, Holes(w1) \cup P, p1.height, SlotsOf(c, a.vars), a.vars)
    PROVE  Valid(es, <<w1>> \o RestWork(wk), ds, en, dc)
<1>1. Coder(c, M, e, N) /\ Coding(ds, dc, e.f, N, Holes(w1) \cup P, p1.height, SlotsOf(c, a.vars))
  BY DEF Grown, Wrote
<1>2. Turn(ch, wk, ds, en, dc, ctx, maps, e, N, es, P)
  BY <1>1, SceneTurn
<1>3. a = ctx[1] /\ b = RestCtx(wk, ctx)[1] /\ v = RestWork(wk)[1] /\ c = ch[Len(ch)]
  BY DEF Scene
<1> QED
  BY <1>1, <1>2, <1>3, Parts1

LEMMA Finish2 ==
    ASSUME NEW ch, NEW wk, NEW ds, NEW en, NEW dc, NEW ctx, NEW maps, NEW a, NEW b, NEW v, NEW c,
           NEW M, NEW P, NEW Q, Scene(ch, wk, ds, en, dc, ctx, maps, a, b, v, c, M, P, Q),
           NEW e, NEW N, NEW es, es = [ch EXCEPT ![Len(ch)] = e], NEW w1, NEW p1, NEW w2, NEW p2,
           Part(a, w2, p2, v, b, e, N, P),
           Part(a, w1, p1, w2, p2, e, N, Holes(w2) \cup P),
           Grown(ds, dc, c, M, e, N, Holes(w1) \cup (Holes(w2) \cup P), p1.height, SlotsOf(c, a.vars), a.vars)
    PROVE  Valid(es, <<w1, w2>> \o RestWork(wk), ds, en, dc)
<1>1. Coder(c, M, e, N) /\ Coding(ds, dc, e.f, N, Holes(w1) \cup (Holes(w2) \cup P), p1.height, SlotsOf(c, a.vars))
  BY DEF Grown, Wrote
<1>2. Turn(ch, wk, ds, en, dc, ctx, maps, e, N, es, P)
  BY <1>1, SceneTurn
<1>3. a = ctx[1] /\ b = RestCtx(wk, ctx)[1] /\ v = RestWork(wk)[1] /\ c = ch[Len(ch)]
  BY DEF Scene
<1> QED
  BY <1>1, <1>2, <1>3, Parts2

LEMMA Finish3 ==
    ASSUME NEW ch, NEW wk, NEW ds, NEW en, NEW dc, NEW ctx, NEW maps, NEW a, NEW b, NEW v, NEW c,
           NEW M, NEW P, NEW Q, Scene(ch, wk, ds, en, dc, ctx, maps, a, b, v, c, M, P, Q),
           NEW e, NEW N, NEW es, es = [ch EXCEPT ![Len(ch)] = e], NEW w1, NEW p1, NEW w2, NEW p2, NEW w3, NEW p3,
           Part(a, w3, p3, v, b, e, N, P),
           Part(a, w2, p2, w3, p3, e, N, Holes(w3) \cup P),
           Part(a, w1, p1, w2, p2, e, N, Holes(w2) \cup (Holes(w3) \cup P)),
           Grown(ds, dc, c, M, e, N, Holes(w1) \cup (Holes(w2) \cup (Holes(w3) \cup P)), p1.height, SlotsOf(c, a.vars), a.vars)
    PROVE  Valid(es, <<w1, w2, w3>> \o RestWork(wk), ds, en, dc)
<1>1. Coder(c, M, e, N) /\ Coding(ds, dc, e.f, N, Holes(w1) \cup (Holes(w2) \cup (Holes(w3) \cup P)), p1.height, SlotsOf(c, a.vars))
  BY DEF Grown, Wrote
<1>2. Turn(ch, wk, ds, en, dc, ctx, maps, e, N, es, P)
  BY <1>1, SceneTurn
<1>3. a = ctx[1] /\ b = RestCtx(wk, ctx)[1] /\ v = RestWork(wk)[1] /\ c = ch[Len(ch)]
  BY DEF Scene
<1> QED
  BY <1>1, <1>2, <1>3, Parts3

LEMMA Finish4 ==
    ASSUME NEW ch, NEW wk, NEW ds, NEW en, NEW dc, NEW ctx, NEW maps, NEW a, NEW b, NEW v, NEW c,
           NEW M, NEW P, NEW Q, Scene(ch, wk, ds, en, dc, ctx, maps, a, b, v, c, M, P, Q),
           NEW e, NEW N, NEW es, es = [ch EXCEPT ![Len(ch)] = e], NEW w1, NEW p1, NEW w2, NEW p2, NEW w3, NEW p3, NEW w4, NEW p4,
           Part(a, w4, p4, v, b, e, N, P),
           Part(a, w3, p3, w4, p4, e, N, Holes(w4) \cup P),
           Part(a, w2, p2, w3, p3, e, N, Holes(w3) \cup (Holes(w4) \cup P)),
           Part(a, w1, p1, w2, p2, e, N, Holes(w2) \cup (Holes(w3) \cup (Holes(w4) \cup P))),
           Grown(ds, dc, c, M, e, N, Holes(w1) \cup (Holes(w2) \cup (Holes(w3) \cup (Holes(w4) \cup P))), p1.height, SlotsOf(c, a.vars), a.vars)
    PROVE  Valid(es, <<w1, w2, w3, w4>> \o RestWork(wk), ds, en, dc)
<1>1. Coder(c, M, e, N) /\ Coding(ds, dc, e.f, N, Holes(w1) \cup (Holes(w2) \cup (Holes(w3) \cup (Holes(w4) \cup P))), p1.height, SlotsOf(c, a.vars))
  BY DEF Grown, Wrote
<1>2. Turn(ch, wk, ds, en, dc, ctx, maps, e, N, es, P)
  BY <1>1, SceneTurn
<1>3. a = ctx[1] /\ b = RestCtx(wk, ctx)[1] /\ v = RestWork(wk)[1] /\ c = ch[Len(ch)]
  BY DEF Scene
<1> QED
  BY <1>1, <1>2, <1>3, Parts4

-----------------------------------------------------------------------------
(* Jumps that are left open.                                               *)

LEMMA OpenPlain ==
    ASSUME NEW o \in Jumps, NEW n \in Nat, NEW s, s = <<Op(o), Byte(n), Byte(n)>>, NEW f, NEW sl
    PROVE  /\ Plain(s) /\ Names(f, sl, s) /\ s[1].op = o /\ Len(s) = 3
           /\ TakesOf(s) = IF o = "JUMP" THEN 0 ELSE 1
           /\ PutsOf(s) = IF o = "JUMP" THEN 0 ELSE 1
<1>1. o \in Instructions /\ o \in {"JUMP", "JUMP_IF_FALSE"}
  BY DEF Instructions, Jumps
<1>2. Op(o) \in Bytes /\ Op(o).op = o /\ Op(o).op # "operand"
  BY <1>1, OpIs
<1>3. Byte(n) \in Bytes /\ Byte(n).op = "operand"
  BY ByteIs
<1>4. s \in Seq(Bytes) /\ Len(s) = 3 /\ s[1] = Op(o) /\ s[2] = Byte(n) /\ s[3] = Byte(n)
  BY <1>2, <1>3
<1>5. \A i \in 2..3 : s[i].op = "operand"
  BY <1>3, <1>4
<1>6. One(s)
  BY <1>2, <1>4, <1>5 DEF One
<1>7. s[1].op = o
  BY <1>2, <1>4
<1>8. Plain(s)
  BY <1>1, <1>4, <1>6, <1>7 DEF Plain
<1>9. Names(f, sl, s)
  BY <1>1, <1>7 DEF Names
<1>10. /\ TakesOf(s) = IF o = "JUMP" THEN 0 ELSE 1
       /\ PutsOf(s) = IF o = "JUMP" THEN 0 ELSE 1
  BY <1>1, <1>7 DEF TakesOf, PutsOf
<1> QED
  BY <1>4, <1>7, <1>8, <1>9, <1>10

LEMMA JumpWrites ==
    ASSUME NEW ds \in Seq(Function), NEW dc \in Nat, NEW c, NEW M, NEW P, NEW h, NEW sl, NEW v,
           Wrote(ds, dc, c, M, P, h, sl, v), NEW op \in Jumps, NEW k \in Nat, v <= k,
           op = "JUMP_IF_FALSE" => v + 1 <= h /\ k = h
    PROVE  \E N : Jumped(ds, dc, c, M, P, h, sl, v, op, k, N)
<1>1. PICK s : s = <<Op(op), Byte(Base - 1), Byte(Base - 1)>>
  OBVIOUS
<1>2. Base - 1 \in Nat
  BY CompilerConstants
<1>3. /\ Plain(s) /\ Names(c.f, sl, s) /\ s[1].op = op
      /\ TakesOf(s) = (IF op = "JUMP" THEN 0 ELSE 1) /\ PutsOf(s) = IF op = "JUMP" THEN 0 ELSE 1
  BY <1>1, <1>2, OpenPlain
<1>4. Coding(ds, dc, c.f, M, P, h, sl) /\ Clear(c.f, h, sl, v) /\ c \in Comp
  BY DEF Wrote
<1>5. h \in Nat /\ v \in Nat /\ v <= h
  BY <1>4, FrameAtEnd DEF Clear
<1>6. op = "JUMP" \/ op = "JUMP_IF_FALSE"
  BY DEF Jumps
<1>7. v + TakesOf(s) <= h
  BY <1>3, <1>5, <1>6
<1>8. h - TakesOf(s) + PutsOf(s) = h
  BY <1>3, <1>5, <1>6
<1>9. s[1].op \notin {"RETURN", "JUMP"} => k = h - TakesOf(s) + PutsOf(s)
  BY <1>3, <1>6, <1>8
<1>10. PICK N : Writes(ds, dc, c, M, P, h, sl, v, s, k, N)
  BY <1>3, <1>7, <1>9, EmitWrites
<1>11. PICK e, L : e = EmitJump(c, op) /\ L = Position(c)
  OBVIOUS
<1>12. e = Emit(c, s)
  BY <1>1, <1>11 DEF EmitJump
<1>13. /\ Coder(c, M, e, N) /\ e.error = c.error /\ L \in Starts(e.f) /\ L \in Nat
       /\ Wrote(ds, dc, e, N, P \cup {L}, k, sl, v)
       /\ After(e.f, N, L) = [height |-> h, slot |-> sl]
  BY <1>3, <1>8, <1>10, <1>11, <1>12 DEF Writes
<1>14. L \notin P
  <2>1. c.f \in Function /\ Typed(ds, c.f, M, P)
    BY <1>4 DEF Coding, Sound
  <2>2. P \subseteq Starts(c.f)
    BY <2>1 DEF Typed
  <2>3. L = Len(c.f.code) /\ Len(c.f.code) \in Nat
    BY <1>4, <1>11 DEF Position, Comp, Function
  <2>4. L \notin Starts(c.f)
    BY <2>3 DEF Starts
  <2> QED
    BY <2>2, <2>4
<1>15. JumpOffset(c) = L + 1 /\ JumpOffset(c) \in Nat /\ JumpOffset(c) - 1 = L
  BY <1>11, <1>13 DEF JumpOffset
<1>16. Hole(e, N, JumpOffset(c), [height |-> h, slot |-> sl])
  BY <1>13, <1>15 DEF Hole
<1> QED
  BY <1>11, <1>13, <1>14, <1>15, <1>16 DEF Jumped, Grown

LEMMA PopWrites ==
    ASSUME NEW ds \in Seq(Function), NEW dc \in Nat, NEW c, NEW M, NEW P, NEW h, NEW sl, NEW v,
           Wrote(ds, dc, c, M, P, h, sl, v), NEW k, k = h - 1, v + 1 <= h
    PROVE  \E N : Grown(ds, dc, c, M, Emit(c, <<Op("POP")>>), N, P, k, sl, v)
<1>1. PICK s : s = <<Op("POP")>>
  OBVIOUS
<1>2. Plain(s) /\ Names(c.f, sl, s) /\ s[1].op = "POP" /\ s[1].op \notin Jumps
  BY <1>1, OpPlain
<1>3. TakesOf(s) = 1 /\ PutsOf(s) = 0
  BY <1>2 DEF TakesOf, PutsOf
<1>4. h \in Nat /\ v \in Nat /\ v <= h
  BY FrameAtEnd DEF Clear, Wrote
<1>5. k \in Nat /\ v <= k /\ v + TakesOf(s) <= h /\ k = h - TakesOf(s) + PutsOf(s)
  BY <1>3, <1>4
<1>6. PICK N : Writes(ds, dc, c, M, P, h, sl, v, s, k, N)
  BY <1>2, <1>5, EmitWrites
<1> QED
  BY <1>1, <1>2, <1>6 DEF Writes, Grown

\* A step after a step.
LEMMA GrownTwice ==
    ASSUME NEW ds, NEW dc, NEW c \in Comp, NEW M, NEW d, NEW N, NEW e, NEW O, NEW P, NEW h, NEW sl,
           NEW v, NEW Q, NEW k, NEW u, NEW sm,
           Grown(ds, dc, c, M, d, N, P, h, sl, v), Grown(ds, dc, d, N, e, O, Q, k, sm, u)
    PROVE  Grown(ds, dc, c, M, e, O, Q, k, sm, u)
<1>1. d \in Comp
  BY DEF Grown, Wrote
<1>2. Coder(c, M, e, O)
  BY <1>1, CoderTwice DEF Grown
<1> QED
  BY <1>2 DEF Grown

LEMMA TestWrites ==
    ASSUME NEW ds \in Seq(Function), NEW dc \in Nat, NEW c, NEW M, NEW P, NEW h, NEW sl, NEW v,
           Wrote(ds, dc, c, M, P, h, sl, v), NEW k, k = h - 1, v + 1 <= h
    PROVE  \E N : Tests(ds, dc, c, M, P, h, sl, v, k, N)
<1>1. h \in Nat /\ v \in Nat /\ v <= h /\ c \in Comp
  BY FrameAtEnd DEF Clear, Wrote
<1>2. "JUMP_IF_FALSE" \in Jumps
  BY DEF Jumps
<1>3. PICK N : Jumped(ds, dc, c, M, P, h, sl, v, "JUMP_IF_FALSE", h, N)
  BY <1>1, <1>2, JumpWrites
<1>4. PICK d, L, o : d = EmitJump(c, "JUMP_IF_FALSE") /\ L = Position(c) /\ o = JumpOffset(c)
  OBVIOUS
<1>5. PICK Q : Q = P \cup {L}
  OBVIOUS
<1>6. /\ Grown(ds, dc, c, M, d, N, Q, h, sl, v)
      /\ L \in Nat /\ L \notin P /\ o \in Nat /\ o - 1 = L
      /\ Hole(d, N, o, [height |-> h, slot |-> sl])
  BY <1>3, <1>4, <1>5 DEF Jumped
<1>7. PICK e : e = Emit(d, <<Op("POP")>>)
  OBVIOUS
<1>8. PICK O : Grown(ds, dc, d, N, e, O, Q, k, sl, v)
  <2>1. Wrote(ds, dc, d, N, Q, h, sl, v)
    BY <1>6 DEF Grown
  <2> QED
    BY <1>7, <2>1, PopWrites
<1>9. Grown(ds, dc, c, M, e, O, Q, k, sl, v)
  BY <1>1, <1>6, <1>8, GrownTwice
<1>10. Hole(e, O, o, [height |-> h, slot |-> sl])
  BY <1>6, <1>8, HoleOn DEF Grown
<1>11. e = JumpIfFalse(c)
  BY <1>4, <1>7 DEF JumpIfFalse
<1> QED
  BY <1>4, <1>5, <1>6, <1>9, <1>10, <1>11 DEF Tests

-----------------------------------------------------------------------------
(* What a production does after one of its parts: each step of Continue.   *)

\* The point without the value on top of the stack.
LEMMA Lower ==
    ASSUME NEW a, Sane(a), NEW b, Sane(b), Settled(b), a = Raise(b, 1)
    PROVE  /\ Under(a, b) /\ b = Raise(a, -1) /\ a.height = b.height + 1 /\ b.height = a.height - 1
           /\ a.vars = b.vars /\ a.vars + 1 <= a.height
           /\ b.height \in Nat /\ a.height \in Nat /\ a.vars \in Nat /\ a.vars <= b.height
<1>1. /\ b \in Point /\ b.height \in Nat /\ b.vars \in Nat /\ b.vars <= b.height
      /\ a \in Point /\ a.height \in Nat
  BY Points
<1>2. a.height = b.height + 1 /\ a.vars = b.vars
  BY <1>1, Raised
<1>3. b = Raise(a, -1)
  <2>1. 1 \in Int /\ -1 \in Int /\ 1 + (-1) = 0 /\ b.height + 1 >= b.vars
    BY <1>1
  <2>2. Raise(Raise(b, 1), -1) = Raise(b, 1 + (-1)) /\ Raise(b, 0) = b
    BY <2>1, Higher
  <2> QED
    BY <2>1, <2>2
<1>4. Beside(a, b)
  BY <1>1 DEF Raise, Point, Beside
<1>5. b.vars = b.seen
  BY DEF Settled
<1> QED
  BY <1>1, <1>2, <1>3, <1>4, <1>5 DEF Under

LEMMA Under1 ==
    ASSUME NEW a, Sane(a), a.vars = a.seen, a.height > a.vars, NEW b, b = Raise(a, -1)
    PROVE  /\ Under(a, b) /\ a = Raise(b, 1) /\ b.height = a.height - 1
           /\ a.vars = b.vars /\ a.vars + 1 <= a.height
           /\ b.height \in Nat /\ a.height \in Nat /\ a.vars \in Nat /\ a.vars <= b.height
<1>1. /\ a \in Point /\ a.height \in Nat /\ a.vars \in Nat
  BY Points
<1>2. -1 \in Int /\ a.height + (-1) >= a.vars /\ a.height + (-1) = a.height - 1
  BY <1>1
<1>3. /\ Sane(b) /\ Beside(a, b) /\ b.vars = a.vars /\ b.seen = a.seen /\ b.height = a.height + (-1)
  BY <1>2, Higher
<1>4. a = Raise(b, 1)
  <2>1. 1 \in Int /\ (-1) + 1 = 0
    OBVIOUS
  <2>2. Raise(Raise(a, -1), 1) = Raise(a, (-1) + 1) /\ Raise(a, 0) = a
    BY <1>2, <2>1, Higher
  <2> QED
    BY <2>1, <2>2
<1> QED
  BY <1>1, <1>2, <1>3, <1>4 DEF Under

LEMMA PatchOnly ==
    ASSUME NEW a, NEW p, Under(a, p), NEW c, NEW M, NEW n, Hole(c, M, n, Stack(c, p)),
           NEW v, NEW P, n - 1 \notin P
    PROVE  Part(a, At("patch", <<n>>), p, v, p, c, M, P) /\ Holes(At("patch", <<n>>)) = {n - 1}
<1>1. "patch" \in Kinds /\ n \in Nat
  BY DEF Kinds, Hole
<1>2. PICK w : w = At("patch", <<n>>)
  OBVIOUS
<1>3. w \in Item /\ w.k = "patch" /\ w.at[1] = n
  BY <1>1, <1>2, PlaceIs
<1>4. Fits(w, p, v, p)
  BY <1>3 DEF Fits
<1>5. Holds(w, p, p, c, M)
  BY <1>3 DEF Holds
<1>6. Holes(w) = {n - 1}
  BY <1>3 DEF Holes
<1>7. w.k \notin Outer
  BY <1>3 DEF Outer
<1> QED
  BY <1>2, <1>3, <1>4, <1>5, <1>6, <1>7 DEF Part, Under

LEMMA EmitTurn ==
    ASSUME NEW ch, NEW wk, NEW ds, NEW en, NEW dc, NEW ctx, NEW maps, NEW a, NEW b, NEW v, NEW c,
           NEW M, NEW P, NEW Q, Scene(ch, wk, ds, en, dc, ctx, maps, a, b, v, c, M, P, Q), wk[1].k = "emit",
           NEW e, e = Emit(c, wk[1].s), NEW es, es = [ch EXCEPT ![Len(ch)] = e]
    PROVE  Valid(es, RestWork(wk), ds, en, dc)
<1>1. /\ Wrote(ds, dc, c, M, Q, a.height, SlotsOf(c, a.vars), a.vars)
      /\ ds \in Seq(Function) /\ dc \in Nat /\ c \in Comp
      /\ Under(a, a) /\ Sane(b) /\ Beside(a, b) /\ Sane(a)
      /\ Q = Holes(wk[1]) \cup P /\ Holes(wk[1]) \cap P = {}
  BY SceneIs DEF Under
<1>2. PICK h, n, sl : h = a.height /\ n = a.vars /\ sl = SlotsOf(c, a.vars)
  OBVIOUS
<1>3. Wrote(ds, dc, c, M, Q, h, sl, n)
  BY <1>1, <1>2
<1>4. Emission(wk[1].s, a, b) /\ Holds(wk[1], a, ctx[2], c, M)
  BY SceneHolds
<1>5. PICK s : s = wk[1].s
  OBVIOUS
<1>6. s[1].op \in Sets => Refers(c, a.vars, s[1].op, s[1].decl, s[2].n)
  BY <1>4, <1>5 DEF Holds
<1>7. Holes(wk[1]) = {}
  BY DEF Holes
<1>8. Q = P
  BY <1>1, <1>7
<1>9. PICK N : Grown(ds, dc, c, M, Emit(c, s), N, Q, b.height, sl, a.vars)
  BY <1>1, <1>2, <1>4, <1>5, <1>6, EmissionWrites
<1> QED
  BY <1>2, <1>5, <1>8, <1>9, Finish0

LEMMA PatchTurn ==
    ASSUME NEW ch, NEW wk, NEW ds, NEW en, NEW dc, NEW ctx, NEW maps, NEW a, NEW b, NEW v, NEW c,
           NEW M, NEW P, NEW Q, Scene(ch, wk, ds, en, dc, ctx, maps, a, b, v, c, M, P, Q), wk[1].k = "patch",
           NEW e, e = PatchJump(c, wk[1].at[1]), NEW es, es = [ch EXCEPT ![Len(ch)] = e],
           ~ e.error
    PROVE  Valid(es, RestWork(wk), ds, en, dc)
<1>1. /\ Wrote(ds, dc, c, M, Q, a.height, SlotsOf(c, a.vars), a.vars)
      /\ ds \in Seq(Function) /\ dc \in Nat /\ c \in Comp
      /\ Under(a, a) /\ Sane(b) /\ Beside(a, b) /\ Sane(a)
      /\ Q = Holes(wk[1]) \cup P /\ Holes(wk[1]) \cap P = {}
  BY SceneIs DEF Under
<1>2. PICK h, n, sl : h = a.height /\ n = a.vars /\ sl = SlotsOf(c, a.vars)
  OBVIOUS
<1>3. Wrote(ds, dc, c, M, Q, h, sl, n)
  BY <1>1, <1>2
<1>4. b = a /\ Holds(wk[1], a, ctx[2], c, M)
  BY SceneHolds
<1>5. PICK o : o = wk[1].at[1]
  OBVIOUS
<1>6. Hole(c, M, o, Stack(c, a)) /\ Holes(wk[1]) = {o - 1}
  BY <1>4, <1>5 DEF Holds, Holes
<1>7. o \in Nat /\ o - 1 \in Q /\ After(c.f, M, o - 1) = [height |-> h, slot |-> sl]
  BY <1>1, <1>2, <1>6 DEF Hole, Stack
<1>8. Fills(ds, dc, c, M, Q, h, sl, n, o)
  BY <1>1, <1>3, <1>5, <1>7, PatchWrites
<1>9. Q \ {o - 1} = P
  BY <1>1, <1>6
<1>10. Grown(ds, dc, c, M, e, M, P, h, sl, n)
  BY <1>5, <1>8, <1>9 DEF Fills, Grown
<1> QED
  BY <1>2, <1>4, <1>10, Finish0

LEMMA ExitTurn ==
    ASSUME NEW ch, NEW wk, NEW ds, NEW en, NEW dc, NEW ctx, NEW maps, NEW a, NEW b, NEW v, NEW c,
           NEW M, NEW P, NEW Q, Scene(ch, wk, ds, en, dc, ctx, maps, a, b, v, c, M, P, Q), wk[1].k = "exit",
           NEW e, e = Emit(PatchJump(c, wk[1].at[1]), <<Op("POP")>>), NEW es, es = [ch EXCEPT ![Len(ch)] = e],
           ~ e.error
    PROVE  Valid(es, RestWork(wk), ds, en, dc)
<1>1. /\ Wrote(ds, dc, c, M, Q, a.height, SlotsOf(c, a.vars), a.vars)
      /\ ds \in Seq(Function) /\ dc \in Nat /\ c \in Comp
      /\ Under(a, a) /\ Sane(b) /\ Beside(a, b) /\ Sane(a)
      /\ Q = Holes(wk[1]) \cup P /\ Holes(wk[1]) \cap P = {}
  BY SceneIs DEF Under
<1>2. PICK h, n, sl : h = a.height /\ n = a.vars /\ sl = SlotsOf(c, a.vars)
  OBVIOUS
<1>3. Wrote(ds, dc, c, M, Q, h, sl, n)
  BY <1>1, <1>2
<1>4. Settled(b) /\ a = Raise(b, 1) /\ Holds(wk[1], a, ctx[2], c, M)
  BY SceneHolds
<1>5. PICK o, d : o = wk[1].at[1] /\ d = PatchJump(c, wk[1].at[1])
  OBVIOUS
<1>6. Hole(c, M, o, Stack(c, a)) /\ Holes(wk[1]) = {o - 1}
  BY <1>4, <1>5 DEF Holds, Holes
<1>7. o \in Nat /\ o - 1 \in Q /\ After(c.f, M, o - 1) = [height |-> h, slot |-> sl]
  BY <1>1, <1>2, <1>6 DEF Hole, Stack
<1>8. ~ d.error
  <2>1. e.error = d.error
    <3>1. c.f \in Function /\ Typed(ds, c.f, M, Q)
      BY <1>1 DEF Wrote, Coding, Sound
    <3>2. o - 1 \in Nat /\ o - 1 + 3 <= Len(c.f.code) /\ Len(c.f.code) \in Nat
      BY <1>7, <3>1, OpenJump
    <3>3. o + 2 <= Len(c.f.code)
      BY <1>7, <3>2
    <3>4. d \in Comp
      BY <1>1, <1>5, <1>7, <3>2, <3>3, PatchIs
    <3>5. <<Op("POP")>> \in Seq(Bytes)
      BY OpPlain DEF Plain, One
    <3> QED
      BY <1>5, <3>4, <3>5, EmitIs
  <2> QED
    BY <2>1
<1>9. Fills(ds, dc, c, M, Q, h, sl, n, o)
  BY <1>1, <1>3, <1>5, <1>7, <1>8, PatchWrites
<1>10. Q \ {o - 1} = P
  BY <1>1, <1>6
<1>11. Grown(ds, dc, c, M, d, M, P, h, sl, n)
  BY <1>5, <1>9, <1>10 DEF Fills, Grown
<1>12. b.height = h - 1 /\ n + 1 <= h
  BY <1>1, <1>2, <1>4, Lower
<1>13. PICK N : Grown(ds, dc, d, M, e, N, P, b.height, sl, n)
  <2>1. Wrote(ds, dc, d, M, P, h, sl, n)
    BY <1>11 DEF Grown
  <2> QED
    BY <1>1, <1>5, <1>12, <2>1, PopWrites
<1>14. Grown(ds, dc, c, M, e, N, P, b.height, sl, n)
  BY <1>1, <1>11, <1>13, GrownTwice
<1> QED
  BY <1>2, <1>14, Finish0

LEMMA LoopTurn ==
    ASSUME NEW ch, NEW wk, NEW ds, NEW en, NEW dc, NEW ctx, NEW maps, NEW a, NEW b, NEW v, NEW c,
           NEW M, NEW P, NEW Q, Scene(ch, wk, ds, en, dc, ctx, maps, a, b, v, c, M, P, Q), wk[1].k = "loop",
           NEW e, e = EmitLoop(c, wk[1].at[1]), NEW es, es = [ch EXCEPT ![Len(ch)] = e]
    PROVE  Valid(es, RestWork(wk), ds, en, dc)
<1>1. /\ Wrote(ds, dc, c, M, Q, a.height, SlotsOf(c, a.vars), a.vars)
      /\ ds \in Seq(Function) /\ dc \in Nat /\ c \in Comp
      /\ Under(a, a) /\ Sane(b) /\ Beside(a, b) /\ Sane(a)
      /\ Q = Holes(wk[1]) \cup P /\ Holes(wk[1]) \cap P = {}
  BY SceneIs DEF Under
<1>2. PICK h, n, sl : h = a.height /\ n = a.vars /\ sl = SlotsOf(c, a.vars)
  OBVIOUS
<1>3. Wrote(ds, dc, c, M, Q, h, sl, n)
  BY <1>1, <1>2
<1>4. Settled(a) /\ Holds(wk[1], a, ctx[2], c, M)
  BY SceneHolds
<1>5. PICK o : o = wk[1].at[1]
  OBVIOUS
<1>6. Flow(c.f, M, Stack(c, a), o) /\ Holes(wk[1]) = {}
  BY <1>4, <1>5 DEF Holds, Holes
<1>7. Flow(c.f, M, [height |-> h, slot |-> sl], o)
  BY <1>2, <1>6 DEF Stack
<1>8. b.height \in Nat /\ n <= b.height
  <2>1. b \in Point /\ a \in Point /\ b.height \in Nat /\ b.vars <= b.height
    BY <1>1, Points
  <2>2. b.vars = a.vars
    BY <1>1, <2>1 DEF Beside, Point
  <2> QED
    BY <1>2, <2>1, <2>2
<1>9. PICK k : k = b.height
  OBVIOUS
<1>10. PICK N : Returns(ds, dc, c, M, Q, sl, n, o, k, N)
  <2>1. k \in Nat /\ n <= k
    BY <1>8, <1>9
  <2> QED
    BY <1>1, <1>3, <1>7, <2>1, LoopWrites
<1>11. Q = P
  BY <1>1, <1>6
<1>12. Grown(ds, dc, c, M, e, N, P, b.height, sl, n)
  BY <1>5, <1>9, <1>10, <1>11 DEF Returns, Grown
<1> QED
  BY <1>2, <1>12, Finish0

LEMMA AndTurn ==
    ASSUME NEW ch, NEW wk, NEW ds, NEW en, NEW dc, NEW ctx, NEW maps, NEW a, NEW b, NEW v, NEW c,
           NEW M, NEW P, NEW Q, Scene(ch, wk, ds, en, dc, ctx, maps, a, b, v, c, M, P, Q), wk[1].k = "and",
           NEW e, e = JumpIfFalse(c), NEW es, es = [ch EXCEPT ![Len(ch)] = e]
    PROVE  Valid(es, <<Expression, At("patch", <<JumpOffset(c)>>)>> \o RestWork(wk), ds, en, dc)
<1>1. /\ Wrote(ds, dc, c, M, Q, a.height, SlotsOf(c, a.vars), a.vars)
      /\ ds \in Seq(Function) /\ dc \in Nat /\ c \in Comp
      /\ Under(a, a) /\ Sane(b) /\ Beside(a, b) /\ Sane(a)
      /\ Q = Holes(wk[1]) \cup P /\ Holes(wk[1]) \cap P = {}
  BY SceneIs DEF Under
<1>2. PICK h, n, sl : h = a.height /\ n = a.vars /\ sl = SlotsOf(c, a.vars)
  OBVIOUS
<1>3. Wrote(ds, dc, c, M, Q, h, sl, n)
  BY <1>1, <1>2
<1>4. a.height > a.vars /\ b = a
  BY SceneHolds
<1>5. PICK p : p = Raise(a, -1)
  OBVIOUS
<1>6. /\ Under(a, p) /\ a = Raise(p, 1) /\ p.height = h - 1 /\ n + 1 <= h
  BY <1>1, <1>2, <1>4, <1>5, Under1 DEF Under
<1>7. Q = P
  <2>1. Holes(wk[1]) = {}
    BY DEF Holes
  <2> QED
    BY <1>1, <2>1
<1>8. PICK k, o, L : k = p.height /\ o = JumpOffset(c) /\ L = Position(c)
  OBVIOUS
<1>9. PICK N : Tests(ds, dc, c, M, P, h, sl, n, k, N)
  BY <1>1, <1>3, <1>6, <1>7, <1>8, TestWrites
<1>10. /\ Grown(ds, dc, c, M, e, N, P \cup {L}, k, sl, n)
       /\ L \notin P /\ o \in Nat /\ o - 1 = L /\ Hole(e, N, o, [height |-> h, slot |-> sl])
  BY <1>8, <1>9 DEF Tests
<1>11. Stack(e, a) = [height |-> h, slot |-> sl]
  <2>1. Stack(e, a) = Stack(c, a)
    BY <1>10, StackSame DEF Grown
  <2> QED
    BY <1>2, <2>1 DEF Stack
<1>12. PICK w1, w2 : w1 = Expression /\ w2 = At("patch", <<o>>)
  OBVIOUS
<1>13. Part(a, w2, a, v, b, e, N, P) /\ Holes(w2) = {L}
  <2>1. Hole(e, N, o, Stack(e, a)) /\ o - 1 \notin P
    BY <1>10, <1>11
  <2>2. Part(a, At("patch", <<o>>), a, v, a, e, N, P) /\ Holes(At("patch", <<o>>)) = {o - 1}
    BY <1>1, <2>1, PatchOnly
  <2> QED
    BY <1>4, <1>10, <1>12, <2>2
<1>14. Part(a, w1, p, w2, a, e, N, Holes(w2) \cup P) /\ Holes(w1) = {}
  BY <1>6, <1>12, ExpressionPart DEF Under
<1>15. Holes(w1) \cup (Holes(w2) \cup P) = P \cup {L}
  BY <1>13, <1>14
<1>16. Grown(ds, dc, c, M, e, N, Holes(w1) \cup (Holes(w2) \cup P), p.height, SlotsOf(c, a.vars), a.vars)
  BY <1>2, <1>8, <1>10, <1>15
<1>17. Valid(es, <<w1, w2>> \o RestWork(wk), ds, en, dc)
  BY <1>13, <1>14, <1>16, Finish2
<1> QED
  BY <1>8, <1>12, <1>17

LEMMA ThenTurn ==
    ASSUME NEW ch, NEW wk, NEW ds, NEW en, NEW dc, NEW ctx, NEW maps, NEW a, NEW b, NEW v, NEW c,
           NEW M, NEW P, NEW Q, Scene(ch, wk, ds, en, dc, ctx, maps, a, b, v, c, M, P, Q), wk[1].k = "then",
           NEW e, e = JumpIfFalse(c), NEW es, es = [ch EXCEPT ![Len(ch)] = e]
    PROVE  Valid(es, <<Do("statement"), At("else", <<JumpOffset(c)>>)>> \o RestWork(wk), ds, en, dc)
<1>1. /\ Wrote(ds, dc, c, M, Q, a.height, SlotsOf(c, a.vars), a.vars)
      /\ ds \in Seq(Function) /\ dc \in Nat /\ c \in Comp
      /\ Under(a, a) /\ Sane(b) /\ Beside(a, b) /\ Sane(a)
      /\ Q = Holes(wk[1]) \cup P /\ Holes(wk[1]) \cap P = {}
  BY SceneIs DEF Under
<1>2. PICK h, n, sl : h = a.height /\ n = a.vars /\ sl = SlotsOf(c, a.vars)
  OBVIOUS
<1>3. Wrote(ds, dc, c, M, Q, h, sl, n)
  BY <1>1, <1>2
<1>4. Settled(b) /\ a = Raise(b, 1) /\ Holds(wk[1], a, ctx[2], c, M)
  BY SceneHolds
<1>6. /\ Under(a, b) /\ b.height = h - 1 /\ n + 1 <= h /\ b = Raise(a, -1)
  BY <1>1, <1>2, <1>4, Lower
<1>7. Q = P
  <2>1. Holes(wk[1]) = {}
    BY DEF Holes
  <2> QED
    BY <1>1, <2>1
<1>8. PICK k, o, L : k = b.height /\ o = JumpOffset(c) /\ L = Position(c)
  OBVIOUS
<1>9. PICK N : Tests(ds, dc, c, M, P, h, sl, n, k, N)
  BY <1>1, <1>3, <1>6, <1>7, <1>8, TestWrites
<1>10. /\ Grown(ds, dc, c, M, e, N, P \cup {L}, k, sl, n)
       /\ L \notin P /\ o \in Nat /\ o - 1 = L /\ Hole(e, N, o, [height |-> h, slot |-> sl])
  BY <1>8, <1>9 DEF Tests
<1>11. Stack(e, a) = [height |-> h, slot |-> sl] /\ Stack(e, b) = Stack(c, b)
  <2>1. Stack(e, a) = Stack(c, a) /\ Stack(e, b) = Stack(c, b)
    BY <1>10, StackSame DEF Grown
  <2> QED
    BY <1>2, <2>1 DEF Stack
<1>12. PICK w1, w2 : w1 = Do("statement") /\ w2 = At("else", <<o>>)
  OBVIOUS
<1>13. Part(a, w2, b, v, b, e, N, P) /\ Holes(w2) = {L}
  <2>1. Hole(e, N, o, Stack(e, Raise(b, 1))) /\ o - 1 \notin P
    BY <1>4, <1>10, <1>11
  <2>2. Part(a, At("else", <<o>>), b, v, b, e, N, P) /\ Holes(At("else", <<o>>)) = {o - 1}
    BY <1>4, <1>6, <2>1, ElsePart
  <2> QED
    BY <1>10, <1>12, <2>2
<1>14. Part(a, w1, b, w2, b, e, N, Holes(w2) \cup P) /\ Holes(w1) = {}
  BY <1>4, <1>6, <1>12, StatementPart DEF Under
<1>15. Holes(w1) \cup (Holes(w2) \cup P) = P \cup {L}
  BY <1>13, <1>14
<1>16. Grown(ds, dc, c, M, e, N, Holes(w1) \cup (Holes(w2) \cup P), b.height, SlotsOf(c, a.vars), a.vars)
  BY <1>2, <1>8, <1>10, <1>15
<1>17. Valid(es, <<w1, w2>> \o RestWork(wk), ds, en, dc)
  BY <1>13, <1>14, <1>16, Finish2
<1> QED
  BY <1>8, <1>12, <1>17

LEMMA TestTurn ==
    ASSUME NEW ch, NEW wk, NEW ds, NEW en, NEW dc, NEW ctx, NEW maps, NEW a, NEW b, NEW v, NEW c,
           NEW M, NEW P, NEW Q, Scene(ch, wk, ds, en, dc, ctx, maps, a, b, v, c, M, P, Q), wk[1].k = "test",
           NEW e, e = JumpIfFalse(c), NEW es, es = [ch EXCEPT ![Len(ch)] = e]
    PROVE  Valid(es, <<Do("statement"), At("loop", <<wk[1].at[1]>>), At("exit", <<JumpOffset(c)>>)>>
                     \o RestWork(wk), ds, en, dc)
<1>1. /\ Wrote(ds, dc, c, M, Q, a.height, SlotsOf(c, a.vars), a.vars)
      /\ ds \in Seq(Function) /\ dc \in Nat /\ c \in Comp
      /\ Under(a, a) /\ Sane(b) /\ Beside(a, b) /\ Sane(a)
      /\ Q = Holes(wk[1]) \cup P /\ Holes(wk[1]) \cap P = {}
  BY SceneIs DEF Under
<1>2. PICK h, n, sl : h = a.height /\ n = a.vars /\ sl = SlotsOf(c, a.vars)
  OBVIOUS
<1>3. Wrote(ds, dc, c, M, Q, h, sl, n)
  BY <1>1, <1>2
<1>4. Settled(b) /\ a = Raise(b, 1) /\ Holds(wk[1], a, ctx[2], c, M)
  BY SceneHolds
<1>6. /\ Under(a, b) /\ b.height = h - 1 /\ n + 1 <= h /\ b = Raise(a, -1)
  BY <1>1, <1>2, <1>4, Lower
<1>7. Q = P
  <2>1. Holes(wk[1]) = {}
    BY DEF Holes
  <2> QED
    BY <1>1, <2>1
<1>8. PICK k, o, L : k = b.height /\ o = JumpOffset(c) /\ L = Position(c)
  OBVIOUS
<1>9. PICK N : Tests(ds, dc, c, M, P, h, sl, n, k, N)
  BY <1>1, <1>3, <1>6, <1>7, <1>8, TestWrites
<1>10. /\ Grown(ds, dc, c, M, e, N, P \cup {L}, k, sl, n)
       /\ L \notin P /\ o \in Nat /\ o - 1 = L /\ Hole(e, N, o, [height |-> h, slot |-> sl])
  BY <1>8, <1>9 DEF Tests
<1>11. Stack(e, a) = [height |-> h, slot |-> sl] /\ Stack(e, b) = Stack(c, b)
  <2>1. Stack(e, a) = Stack(c, a) /\ Stack(e, b) = Stack(c, b)
    BY <1>10, StackSame DEF Grown
  <2> QED
    BY <1>2, <2>1 DEF Stack
<1>18. PICK m : m = wk[1].at[1]
  OBVIOUS
<1>19. Flow(e.f, N, Stack(e, b), m) /\ m \in Nat
  <2>1. Flow(c.f, M, Stack(c, b), m)
    BY <1>4, <1>6, <1>18 DEF Holds
  <2>2. Len(c.f.code) \in Nat
    BY <1>1 DEF Comp, Function
  <2>3. m \in Nat
    BY <2>1, <2>2 DEF Flow, Spots, Starts
  <2>4. Flow(e.f, N, Stack(c, b), m)
    BY <1>10, <2>1, FlowOn DEF Grown
  <2> QED
    BY <1>11, <2>3, <2>4
<1>20. b = [b EXCEPT !.height = b.height]
  BY <1>1 DEF Sane, Point
<1>21. a = [b EXCEPT !.height = a.height]
  BY <1>1, <1>4 DEF Raise, Sane, Point
<1>12. PICK w1, w2, w3 : w1 = Do("statement") /\ w2 = At("loop", <<m>>) /\ w3 = At("exit", <<o>>)
  OBVIOUS
<1>13. Part(a, w3, a, v, b, e, N, P) /\ Holes(w3) = {L}
  BY <1>1, <1>4, <1>10, <1>11, <1>12, PatchPart
<1>14. Part(a, w2, b, w3, a, e, N, Holes(w3) \cup P) /\ Holes(w2) = {}
  BY <1>4, <1>6, <1>12, <1>19, <1>21, LoopPart
<1>15. Part(a, w1, b, w2, b, e, N, Holes(w2) \cup (Holes(w3) \cup P)) /\ Holes(w1) = {}
  BY <1>4, <1>6, <1>12, StatementPart DEF Under
<1>16. Holes(w1) \cup (Holes(w2) \cup (Holes(w3) \cup P)) = P \cup {L}
  BY <1>13, <1>14, <1>15
<1>17. Grown(ds, dc, c, M, e, N, Holes(w1) \cup (Holes(w2) \cup (Holes(w3) \cup P)), b.height,
             SlotsOf(c, a.vars), a.vars)
  BY <1>2, <1>8, <1>10, <1>16
<1>22. Valid(es, <<w1, w2, w3>> \o RestWork(wk), ds, en, dc)
  BY <1>13, <1>14, <1>15, <1>17, Finish3
<1> QED
  BY <1>8, <1>12, <1>18, <1>22

LEMMA ForTestTurn ==
    ASSUME NEW ch, NEW wk, NEW ds, NEW en, NEW dc, NEW ctx, NEW maps, NEW a, NEW b, NEW v, NEW c,
           NEW M, NEW P, NEW Q, Scene(ch, wk, ds, en, dc, ctx, maps, a, b, v, c, M, P, Q), wk[1].k = "forTest",
           NEW e, e = JumpIfFalse(c), NEW es, es = [ch EXCEPT ![Len(ch)] = e]
    PROVE  Valid(es, <<At("forBody", <<wk[1].at[1]>>), At("exit", <<JumpOffset(c)>>)>> \o RestWork(wk), ds, en, dc)
<1>1. /\ Wrote(ds, dc, c, M, Q, a.height, SlotsOf(c, a.vars), a.vars)
      /\ ds \in Seq(Function) /\ dc \in Nat /\ c \in Comp
      /\ Under(a, a) /\ Sane(b) /\ Beside(a, b) /\ Sane(a)
      /\ Q = Holes(wk[1]) \cup P /\ Holes(wk[1]) \cap P = {}
  BY SceneIs DEF Under
<1>2. PICK h, n, sl : h = a.height /\ n = a.vars /\ sl = SlotsOf(c, a.vars)
  OBVIOUS
<1>3. Wrote(ds, dc, c, M, Q, h, sl, n)
  BY <1>1, <1>2
<1>4. Settled(b) /\ a = Raise(b, 1) /\ Holds(wk[1], a, ctx[2], c, M)
  BY SceneHolds
<1>6. /\ Under(a, b) /\ b.height = h - 1 /\ n + 1 <= h /\ b = Raise(a, -1)
  BY <1>1, <1>2, <1>4, Lower
<1>7. Q = P
  <2>1. Holes(wk[1]) = {}
    BY DEF Holes
  <2> QED
    BY <1>1, <2>1
<1>8. PICK k, o, L : k = b.height /\ o = JumpOffset(c) /\ L = Position(c)
  OBVIOUS
<1>9. PICK N : Tests(ds, dc, c, M, P, h, sl, n, k, N)
  BY <1>1, <1>3, <1>6, <1>7, <1>8, TestWrites
<1>10. /\ Grown(ds, dc, c, M, e, N, P \cup {L}, k, sl, n)
       /\ L \notin P /\ o \in Nat /\ o - 1 = L /\ Hole(e, N, o, [height |-> h, slot |-> sl])
  BY <1>8, <1>9 DEF Tests
<1>11. Stack(e, a) = [height |-> h, slot |-> sl] /\ Stack(e, b) = Stack(c, b)
  <2>1. Stack(e, a) = Stack(c, a) /\ Stack(e, b) = Stack(c, b)
    BY <1>10, StackSame DEF Grown
  <2> QED
    BY <1>2, <2>1 DEF Stack
<1>18. PICK m : m = wk[1].at[1]
  OBVIOUS
<1>19. Flow(e.f, N, Stack(e, b), m) /\ m \in Nat
  <2>1. Flow(c.f, M, Stack(c, b), m)
    BY <1>4, <1>6, <1>18 DEF Holds
  <2>2. Len(c.f.code) \in Nat
    BY <1>1 DEF Comp, Function
  <2>3. m \in Nat
    BY <2>1, <2>2 DEF Flow, Spots, Starts
  <2>4. Flow(e.f, N, Stack(c, b), m)
    BY <1>10, <2>1, FlowOn DEF Grown
  <2> QED
    BY <1>11, <2>3, <2>4
<1>20. b = [b EXCEPT !.height = b.height]
  BY <1>1 DEF Sane, Point
<1>21. a = [b EXCEPT !.height = a.height]
  BY <1>1, <1>4 DEF Raise, Sane, Point
<1>12. PICK w1, w2 : w1 = At("forBody", <<m>>) /\ w2 = At("exit", <<o>>)
  OBVIOUS
<1>13. Part(a, w2, a, v, b, e, N, P) /\ Holes(w2) = {L}
  BY <1>1, <1>4, <1>10, <1>11, <1>12, PatchPart
<1>14. Part(a, w1, b, w2, a, e, N, Holes(w2) \cup P) /\ Holes(w1) = {}
  BY <1>4, <1>6, <1>12, <1>19, <1>21, LoopPart
<1>15. Holes(w1) \cup (Holes(w2) \cup P) = P \cup {L}
  BY <1>13, <1>14
<1>16. Grown(ds, dc, c, M, e, N, Holes(w1) \cup (Holes(w2) \cup P), b.height, SlotsOf(c, a.vars), a.vars)
  BY <1>2, <1>8, <1>10, <1>15
<1>17. Valid(es, <<w1, w2>> \o RestWork(wk), ds, en, dc)
  BY <1>13, <1>14, <1>16, Finish2
<1> QED
  BY <1>8, <1>12, <1>17, <1>18

\* No error later on was no error in patchJump.
LEMMA PopError ==
    ASSUME NEW c \in Comp, NEW ds, NEW dc, NEW M, NEW P, NEW h, NEW sl, NEW v,
           Wrote(ds, dc, c, M, P, h, sl, v), NEW o \in Nat, o - 1 \in P,
           NEW d, d = PatchJump(c, o), NEW e, e = Emit(d, <<Op("POP")>>)
    PROVE  d \in Comp /\ e.error = d.error
<1>1. c.f \in Function /\ Typed(ds, c.f, M, P)
  BY DEF Wrote, Coding, Sound
<1>2. o - 1 \in Nat /\ o - 1 + 3 <= Len(c.f.code) /\ Len(c.f.code) \in Nat
  BY <1>1, OpenJump
<1>3. o + 2 <= Len(c.f.code)
  BY <1>2
<1>4. d \in Comp
  BY <1>2, <1>3, PatchIs
<1>5. <<Op("POP")>> \in Seq(Bytes)
  BY OpPlain DEF Plain, One
<1> QED
  BY <1>4, <1>5, EmitIs

LEMMA OrTurn ==
    ASSUME NEW ch, NEW wk, NEW ds, NEW en, NEW dc, NEW ctx, NEW maps, NEW a, NEW b, NEW v, NEW c,
           NEW M, NEW P, NEW Q, Scene(ch, wk, ds, en, dc, ctx, maps, a, b, v, c, M, P, Q), wk[1].k = "or",
           NEW e, e = Emit(PatchJump(EmitJump(EmitJump(c, "JUMP_IF_FALSE"), "JUMP"), JumpOffset(c)), <<Op("POP")>>), NEW es, es = [ch EXCEPT ![Len(ch)] = e],
           ~ e.error
    PROVE  Valid(es, <<Expression, At("patch", <<JumpOffset(EmitJump(c, "JUMP_IF_FALSE"))>>)>>
                     \o RestWork(wk), ds, en, dc)
<1>1. /\ Wrote(ds, dc, c, M, Q, a.height, SlotsOf(c, a.vars), a.vars)
      /\ ds \in Seq(Function) /\ dc \in Nat /\ c \in Comp
      /\ Under(a, a) /\ Sane(b) /\ Beside(a, b) /\ Sane(a)
      /\ Q = Holes(wk[1]) \cup P /\ Holes(wk[1]) \cap P = {}
  BY SceneIs DEF Under
<1>2. PICK h, n, sl : h = a.height /\ n = a.vars /\ sl = SlotsOf(c, a.vars)
  OBVIOUS
<1>3. Wrote(ds, dc, c, M, Q, h, sl, n)
  BY <1>1, <1>2
<1>4. a.height > a.vars /\ b = a
  BY SceneHolds
<1>5. PICK p : p = Raise(a, -1)
  OBVIOUS
<1>6. /\ Under(a, p) /\ a = Raise(p, 1) /\ p.height = h - 1 /\ n + 1 <= h /\ h \in Nat /\ n <= h
  BY <1>1, <1>2, <1>4, <1>5, Under1 DEF Under
<1>7. Q = P
  <2>1. Holes(wk[1]) = {}
    BY DEF Holes
  <2> QED
    BY <1>1, <2>1
<1>8. PICK k, L, o, d : k = p.height /\ L = Position(c) /\ o = JumpOffset(c) /\ d = EmitJump(c, "JUMP_IF_FALSE")
  OBVIOUS
<1>9. PICK F : F = [height |-> h, slot |-> sl]
  OBVIOUS
<1>10. PICK N : Jumped(ds, dc, c, M, P, h, sl, n, "JUMP_IF_FALSE", h, N)
  <2>1. "JUMP_IF_FALSE" \in Jumps
    BY DEF Jumps
  <2> QED
    BY <1>1, <1>3, <1>6, <1>7, <2>1, JumpWrites
<1>11. /\ Grown(ds, dc, c, M, d, N, P \cup {L}, h, sl, n)
       /\ L \notin P /\ o \in Nat /\ o - 1 = L /\ Hole(d, N, o, F)
  BY <1>8, <1>9, <1>10 DEF Jumped
<1>12. PICK R, g, K, q : R = P \cup {L} /\ g = EmitJump(d, "JUMP") /\ K = Position(d) /\ q = JumpOffset(d)
  OBVIOUS
<1>13. PICK O : Jumped(ds, dc, d, N, R, h, sl, n, "JUMP", h, O)
  <2>1. "JUMP" \in Jumps /\ Wrote(ds, dc, d, N, R, h, sl, n)
    BY <1>11, <1>12 DEF Jumps, Grown
  <2> QED
    BY <1>1, <1>6, <2>1, JumpWrites
<1>14. /\ Grown(ds, dc, d, N, g, O, R \cup {K}, h, sl, n)
       /\ K \notin R /\ q \in Nat /\ q - 1 = K /\ Hole(g, O, q, F)
  BY <1>9, <1>12, <1>13 DEF Jumped
<1>15. Hole(g, O, o, F)
  BY <1>11, <1>14, HoleOn DEF Grown
<1>16. PICK u : u = PatchJump(g, o)
  OBVIOUS
<1>17. e = Emit(u, <<Op("POP")>>)
  BY <1>8, <1>12, <1>16
<1>18. ~ u.error
  <2>1. g \in Comp /\ Wrote(ds, dc, g, O, R \cup {K}, h, sl, n)
    BY <1>14 DEF Grown, Wrote
  <2>2. o - 1 \in R \cup {K}
    BY <1>11, <1>12
  <2> QED
    BY <1>11, <1>16, <1>17, <2>1, <2>2, PopError
<1>19. Fills(ds, dc, g, O, R \cup {K}, h, sl, n, o)
  <2>1. Wrote(ds, dc, g, O, R \cup {K}, h, sl, n)
    BY <1>14 DEF Grown
  <2>2. o \in Nat /\ o - 1 \in R \cup {K} /\ After(g.f, O, o - 1) = [height |-> h, slot |-> sl]
    BY <1>9, <1>11, <1>12, <1>15 DEF Hole
  <2> QED
    BY <1>1, <1>16, <1>18, <2>1, <2>2, PatchWrites
<1>20. (R \cup {K}) \ {o - 1} = P \cup {K}
  BY <1>11, <1>12, <1>14
<1>21. Grown(ds, dc, g, O, u, O, P \cup {K}, h, sl, n)
  BY <1>16, <1>19, <1>20 DEF Fills, Grown
<1>22. PICK T : Grown(ds, dc, u, O, e, T, P \cup {K}, k, sl, n)
  <2>1. Wrote(ds, dc, u, O, P \cup {K}, h, sl, n)
    BY <1>21 DEF Grown
  <2> QED
    BY <1>1, <1>6, <1>8, <1>17, <2>1, PopWrites
<1>23. Grown(ds, dc, c, M, e, T, P \cup {K}, k, sl, n)
  <2>1. d \in Comp /\ g \in Comp /\ u \in Comp
    BY <1>11, <1>14, <1>21 DEF Grown, Wrote
  <2>2. Grown(ds, dc, d, N, u, O, P \cup {K}, h, sl, n)
    BY <2>1, <1>14, <1>21, GrownTwice
  <2>3. Grown(ds, dc, d, N, e, T, P \cup {K}, k, sl, n)
    BY <2>1, <2>2, <1>22, GrownTwice
  <2> QED
    BY <1>1, <2>3, <1>11, GrownTwice
<1>24. Hole(e, T, q, F)
  <2>1. Hole(u, O, q, F)
    BY <1>14, <1>21, HoleOn DEF Grown
  <2> QED
    BY <2>1, <1>22, HoleOn DEF Grown
<1>25. Stack(e, a) = F
  <2>1. Stack(e, a) = Stack(c, a)
    BY <1>23, StackSame DEF Grown
  <2> QED
    BY <1>2, <1>9, <2>1 DEF Stack
<1>26. PICK w1, w2 : w1 = Expression /\ w2 = At("patch", <<q>>)
  OBVIOUS
<1>27. Part(a, w2, a, v, b, e, T, P) /\ Holes(w2) = {K}
  <2>1. Hole(e, T, q, Stack(e, a)) /\ q - 1 \notin P
    BY <1>12, <1>14, <1>24, <1>25
  <2>2. Part(a, At("patch", <<q>>), a, v, a, e, T, P) /\ Holes(At("patch", <<q>>)) = {q - 1}
    BY <1>1, <2>1, PatchOnly
  <2> QED
    BY <1>4, <1>14, <1>26, <2>2
<1>28. Part(a, w1, p, w2, a, e, T, Holes(w2) \cup P) /\ Holes(w1) = {}
  BY <1>6, <1>26, ExpressionPart DEF Under
<1>29. Holes(w1) \cup (Holes(w2) \cup P) = P \cup {K}
  BY <1>27, <1>28
<1>30. Grown(ds, dc, c, M, e, T, Holes(w1) \cup (Holes(w2) \cup P), p.height, SlotsOf(c, a.vars), a.vars)
  BY <1>2, <1>8, <1>23, <1>29
<1>31. Valid(es, <<w1, w2>> \o RestWork(wk), ds, en, dc)
  BY <1>27, <1>28, <1>30, Finish2
<1> QED
  BY <1>8, <1>12, <1>26, <1>31

LEMMA ElseTurn ==
    ASSUME NEW ch, NEW wk, NEW ds, NEW en, NEW dc, NEW ctx, NEW maps, NEW a, NEW b, NEW v, NEW c,
           NEW M, NEW P, NEW Q, Scene(ch, wk, ds, en, dc, ctx, maps, a, b, v, c, M, P, Q), wk[1].k = "else",
           NEW e, e = Emit(PatchJump(EmitJump(c, "JUMP"), wk[1].at[1]), <<Op("POP")>>), NEW es, es = [ch EXCEPT ![Len(ch)] = e],
           ~ e.error
    PROVE  Valid(es, <<At("patch", <<JumpOffset(c)>>)>> \o RestWork(wk), ds, en, dc)
<1>1. /\ Wrote(ds, dc, c, M, Q, a.height, SlotsOf(c, a.vars), a.vars)
      /\ ds \in Seq(Function) /\ dc \in Nat /\ c \in Comp
      /\ Under(a, a) /\ Sane(b) /\ Beside(a, b) /\ Sane(a)
      /\ Q = Holes(wk[1]) \cup P /\ Holes(wk[1]) \cap P = {}
  BY SceneIs DEF Under
<1>2. PICK h, n, sl : h = a.height /\ n = a.vars /\ sl = SlotsOf(c, a.vars)
  OBVIOUS
<1>3. Wrote(ds, dc, c, M, Q, h, sl, n)
  BY <1>1, <1>2
<1>4. b = a /\ Settled(a) /\ Holds(wk[1], a, ctx[2], c, M)
  BY SceneHolds
<1>5. PICK m, t : m = wk[1].at[1] /\ t = h + 1
  OBVIOUS
<1>6. h \in Nat /\ n \in Nat /\ n <= h /\ t \in Nat /\ n <= t /\ n + 1 <= t /\ h = t - 1 /\ t = h + 1
  <2>1. h \in Nat /\ n \in Nat /\ n <= h
    BY <1>1, <1>2, Points
  <2> QED
    BY <2>1, <1>5
<1>7. Stack(c, Raise(a, 1)) = [height |-> t, slot |-> sl]
  <2>1. Raise(a, 1).height = t /\ Raise(a, 1).vars = n
    BY <1>1, <1>2, <1>5, Raised DEF Sane
  <2> QED
    BY <1>2, <2>1 DEF Stack
<1>8. Hole(c, M, m, [height |-> t, slot |-> sl]) /\ Holes(wk[1]) = {m - 1}
  BY <1>4, <1>5, <1>7 DEF Holds, Holes
<1>9. PICK L, o, d : L = Position(c) /\ o = JumpOffset(c) /\ d = EmitJump(c, "JUMP")
  OBVIOUS
<1>10. PICK N : Jumped(ds, dc, c, M, Q, h, sl, n, "JUMP", t, N)
  <2>1. "JUMP" \in Jumps
    BY DEF Jumps
  <2> QED
    BY <1>1, <1>3, <1>6, <2>1, JumpWrites
<1>11. /\ Grown(ds, dc, c, M, d, N, Q \cup {L}, t, sl, n)
       /\ L \notin Q /\ o \in Nat /\ o - 1 = L /\ Hole(d, N, o, [height |-> h, slot |-> sl])
  BY <1>9, <1>10 DEF Jumped
<1>12. PICK u : u = PatchJump(d, m)
  OBVIOUS
<1>13. e = Emit(u, <<Op("POP")>>)
  BY <1>5, <1>9, <1>12
<1>14. /\ d \in Comp /\ Wrote(ds, dc, d, N, Q \cup {L}, t, sl, n) /\ m \in Nat /\ m - 1 \in Q \cup {L}
       /\ After(d.f, N, m - 1) = [height |-> t, slot |-> sl]
  <2>1. Hole(d, N, m, [height |-> t, slot |-> sl])
    BY <1>8, <1>11, HoleOn DEF Grown
  <2>2. m - 1 \in Q
    BY <1>1, <1>8
  <2> QED
    BY <1>11, <2>1, <2>2 DEF Grown, Wrote, Hole
<1>15. ~ u.error
  BY <1>12, <1>13, <1>14, PopError
<1>16. Fills(ds, dc, d, N, Q \cup {L}, t, sl, n, m)
  BY <1>1, <1>12, <1>14, <1>15, PatchWrites
<1>17. (Q \cup {L}) \ {m - 1} = P \cup {L} /\ L \notin P
  BY <1>1, <1>8, <1>11
<1>18. Grown(ds, dc, d, N, u, N, P \cup {L}, t, sl, n)
  BY <1>12, <1>16, <1>17 DEF Fills, Grown
<1>19. PICK T : Grown(ds, dc, u, N, e, T, P \cup {L}, h, sl, n)
  <2>1. Wrote(ds, dc, u, N, P \cup {L}, t, sl, n)
    BY <1>18 DEF Grown
  <2> QED
    BY <1>1, <1>6, <1>13, <2>1, PopWrites
<1>20. Grown(ds, dc, c, M, e, T, P \cup {L}, h, sl, n)
  <2>1. u \in Comp
    BY <1>18 DEF Grown, Wrote
  <2>2. Grown(ds, dc, d, N, e, T, P \cup {L}, h, sl, n)
    BY <1>14, <1>18, <1>19, GrownTwice
  <2> QED
    BY <1>1, <1>11, <2>2, GrownTwice
<1>21. Hole(e, T, o, Stack(e, a))
  <2>1. Hole(u, N, o, [height |-> h, slot |-> sl])
    BY <1>11, <1>18, HoleOn DEF Grown
  <2>2. Hole(e, T, o, [height |-> h, slot |-> sl])
    BY <2>1, <1>19, HoleOn DEF Grown
  <2>3. Stack(e, a) = Stack(c, a)
    BY <1>20, StackSame DEF Grown
  <2>4. Stack(c, a) = [height |-> h, slot |-> sl]
    BY <1>2 DEF Stack
  <2> QED
    BY <2>2, <2>3, <2>4
<1>22. PICK w1, w2 : w1 = Do("statement") /\ w2 = At("patch", <<o>>)
  OBVIOUS
<1>23. Part(a, w2, a, v, b, e, T, P) /\ Holes(w2) = {L}
  <2>1. o - 1 \notin P
    BY <1>11, <1>17
  <2>2. Part(a, At("patch", <<o>>), a, v, a, e, T, P) /\ Holes(At("patch", <<o>>)) = {o - 1}
    BY <1>1, <1>21, <2>1, PatchOnly
  <2> QED
    BY <1>4, <1>11, <1>22, <2>2
<1>24. Holes(w2) \cup P = P \cup {L}
  BY <1>23
<1>25. Grown(ds, dc, c, M, e, T, Holes(w2) \cup P, a.height, SlotsOf(c, a.vars), a.vars)
  BY <1>2, <1>20, <1>24
<1>26. Valid(es, <<w2>> \o RestWork(wk), ds, en, dc)
  BY <1>23, <1>25, Finish1
<1> QED
  BY <1>9, <1>22, <1>26

LEMMA ElseBranchTurn ==
    ASSUME NEW ch, NEW wk, NEW ds, NEW en, NEW dc, NEW ctx, NEW maps, NEW a, NEW b, NEW v, NEW c,
           NEW M, NEW P, NEW Q, Scene(ch, wk, ds, en, dc, ctx, maps, a, b, v, c, M, P, Q), wk[1].k = "else",
           NEW e, e = Emit(PatchJump(EmitJump(c, "JUMP"), wk[1].at[1]), <<Op("POP")>>), NEW es, es = [ch EXCEPT ![Len(ch)] = e],
           ~ e.error
    PROVE  Valid(es, <<Do("statement"), At("patch", <<JumpOffset(c)>>)>> \o RestWork(wk), ds, en, dc)
<1>1. /\ Wrote(ds, dc, c, M, Q, a.height, SlotsOf(c, a.vars), a.vars)
      /\ ds \in Seq(Function) /\ dc \in Nat /\ c \in Comp
      /\ Under(a, a) /\ Sane(b) /\ Beside(a, b) /\ Sane(a)
      /\ Q = Holes(wk[1]) \cup P /\ Holes(wk[1]) \cap P = {}
  BY SceneIs DEF Under
<1>2. PICK h, n, sl : h = a.height /\ n = a.vars /\ sl = SlotsOf(c, a.vars)
  OBVIOUS
<1>3. Wrote(ds, dc, c, M, Q, h, sl, n)
  BY <1>1, <1>2
<1>4. b = a /\ Settled(a) /\ Holds(wk[1], a, ctx[2], c, M)
  BY SceneHolds
<1>5. PICK m, t : m = wk[1].at[1] /\ t = h + 1
  OBVIOUS
<1>6. h \in Nat /\ n \in Nat /\ n <= h /\ t \in Nat /\ n <= t /\ n + 1 <= t /\ h = t - 1 /\ t = h + 1
  <2>1. h \in Nat /\ n \in Nat /\ n <= h
    BY <1>1, <1>2, Points
  <2> QED
    BY <2>1, <1>5
<1>7. Stack(c, Raise(a, 1)) = [height |-> t, slot |-> sl]
  <2>1. Raise(a, 1).height = t /\ Raise(a, 1).vars = n
    BY <1>1, <1>2, <1>5, Raised DEF Sane
  <2> QED
    BY <1>2, <2>1 DEF Stack
<1>8. Hole(c, M, m, [height |-> t, slot |-> sl]) /\ Holes(wk[1]) = {m - 1}
  BY <1>4, <1>5, <1>7 DEF Holds, Holes
<1>9. PICK L, o, d : L = Position(c) /\ o = JumpOffset(c) /\ d = EmitJump(c, "JUMP")
  OBVIOUS
<1>10. PICK N : Jumped(ds, dc, c, M, Q, h, sl, n, "JUMP", t, N)
  <2>1. "JUMP" \in Jumps
    BY DEF Jumps
  <2> QED
    BY <1>1, <1>3, <1>6, <2>1, JumpWrites
<1>11. /\ Grown(ds, dc, c, M, d, N, Q \cup {L}, t, sl, n)
       /\ L \notin Q /\ o \in Nat /\ o - 1 = L /\ Hole(d, N, o, [height |-> h, slot |-> sl])
  BY <1>9, <1>10 DEF Jumped
<1>12. PICK u : u = PatchJump(d, m)
  OBVIOUS
<1>13. e = Emit(u, <<Op("POP")>>)
  BY <1>5, <1>9, <1>12
<1>14. /\ d \in Comp /\ Wrote(ds, dc, d, N, Q \cup {L}, t, sl, n) /\ m \in Nat /\ m - 1 \in Q \cup {L}
       /\ After(d.f, N, m - 1) = [height |-> t, slot |-> sl]
  <2>1. Hole(d, N, m, [height |-> t, slot |-> sl])
    BY <1>8, <1>11, HoleOn DEF Grown
  <2>2. m - 1 \in Q
    BY <1>1, <1>8
  <2> QED
    BY <1>11, <2>1, <2>2 DEF Grown, Wrote, Hole
<1>15. ~ u.error
  BY <1>12, <1>13, <1>14, PopError
<1>16. Fills(ds, dc, d, N, Q \cup {L}, t, sl, n, m)
  BY <1>1, <1>12, <1>14, <1>15, PatchWrites
<1>17. (Q \cup {L}) \ {m - 1} = P \cup {L} /\ L \notin P
  BY <1>1, <1>8, <1>11
<1>18. Grown(ds, dc, d, N, u, N, P \cup {L}, t, sl, n)
  BY <1>12, <1>16, <1>17 DEF Fills, Grown
<1>19. PICK T : Grown(ds, dc, u, N, e, T, P \cup {L}, h, sl, n)
  <2>1. Wrote(ds, dc, u, N, P \cup {L}, t, sl, n)
    BY <1>18 DEF Grown
  <2> QED
    BY <1>1, <1>6, <1>13, <2>1, PopWrites
<1>20. Grown(ds, dc, c, M, e, T, P \cup {L}, h, sl, n)
  <2>1. u \in Comp
    BY <1>18 DEF Grown, Wrote
  <2>2. Grown(ds, dc, d, N, e, T, P \cup {L}, h, sl, n)
    BY <1>14, <1>18, <1>19, GrownTwice
  <2> QED
    BY <1>1, <1>11, <2>2, GrownTwice
<1>21. Hole(e, T, o, Stack(e, a))
  <2>1. Hole(u, N, o, [height |-> h, slot |-> sl])
    BY <1>11, <1>18, HoleOn DEF Grown
  <2>2. Hole(e, T, o, [height |-> h, slot |-> sl])
    BY <2>1, <1>19, HoleOn DEF Grown
  <2>3. Stack(e, a) = Stack(c, a)
    BY <1>20, StackSame DEF Grown
  <2>4. Stack(c, a) = [height |-> h, slot |-> sl]
    BY <1>2 DEF Stack
  <2> QED
    BY <2>2, <2>3, <2>4
<1>22. PICK w1, w2 : w1 = Do("statement") /\ w2 = At("patch", <<o>>)
  OBVIOUS
<1>23. Part(a, w2, a, v, b, e, T, P) /\ Holes(w2) = {L}
  <2>1. o - 1 \notin P
    BY <1>11, <1>17
  <2>2. Part(a, At("patch", <<o>>), a, v, a, e, T, P) /\ Holes(At("patch", <<o>>)) = {o - 1}
    BY <1>1, <1>21, <2>1, PatchOnly
  <2> QED
    BY <1>4, <1>11, <1>22, <2>2
<1>24. Part(a, w1, a, w2, a, e, T, Holes(w2) \cup P) /\ Holes(w1) = {}
  BY <1>1, <1>4, <1>22, StatementPart DEF Under
<1>25. Holes(w1) \cup (Holes(w2) \cup P) = P \cup {L}
  BY <1>23, <1>24
<1>26. Grown(ds, dc, c, M, e, T, Holes(w1) \cup (Holes(w2) \cup P), a.height, SlotsOf(c, a.vars), a.vars)
  BY <1>2, <1>20, <1>25
<1>27. Valid(es, <<w1, w2>> \o RestWork(wk), ds, en, dc)
  BY <1>23, <1>24, <1>26, Finish2
<1> QED
  BY <1>9, <1>22, <1>27

LEMMA IncrementBefore ==
    ASSUME NEW a, NEW p, NEW e, NEW N, NEW m, NEW o, NEW X, Increments(a, p, e, N, m, o, X),
           NEW v, NEW w, w = At("forIncrement", <<m, o>>)
    PROVE  Part(a, w, p, v, a, e, N, X) /\ Holes(w) = {o - 1}
<1>1. "forIncrement" \in Kinds /\ o \in Nat /\ m \in Nat
  BY DEF Kinds, Hole, Increments
<1>3. w \in Item /\ w.k = "forIncrement" /\ w.at[1] = m /\ w.at[2] = o
  BY <1>1, PlacesIs
<1>4. Fits(w, p, v, a)
  BY <1>3 DEF Fits, Increments
<1>5. Holds(w, p, a, e, N)
  BY <1>3 DEF Holds, Increments
<1>6. Holes(w) = {o - 1}
  BY <1>3 DEF Holes
<1>7. w.k \notin Outer
  BY <1>3 DEF Outer
<1> QED
  BY <1>3, <1>4, <1>5, <1>6, <1>7 DEF Part, Under, Increments

LEMMA ForBodyTurn ==
    ASSUME NEW ch, NEW wk, NEW ds, NEW en, NEW dc, NEW ctx, NEW maps, NEW a, NEW b, NEW v, NEW c,
           NEW M, NEW P, NEW Q, Scene(ch, wk, ds, en, dc, ctx, maps, a, b, v, c, M, P, Q), wk[1].k = "forBody",
           NEW e, e = EmitJump(c, "JUMP"), NEW es, es = [ch EXCEPT ![Len(ch)] = e]
    PROVE  Valid(es, <<Expression, At("forIncrement", <<wk[1].at[1], JumpOffset(c)>>), Do("statement"),
                       At("loop", <<Position(e)>>)>> \o RestWork(wk), ds, en, dc)
<1>1. /\ Wrote(ds, dc, c, M, Q, a.height, SlotsOf(c, a.vars), a.vars)
      /\ ds \in Seq(Function) /\ dc \in Nat /\ c \in Comp
      /\ Under(a, a) /\ Sane(b) /\ Beside(a, b) /\ Sane(a)
      /\ Q = Holes(wk[1]) \cup P /\ Holes(wk[1]) \cap P = {}
  BY SceneIs DEF Under
<1>2. PICK h, n, sl : h = a.height /\ n = a.vars /\ sl = SlotsOf(c, a.vars)
  OBVIOUS
<1>3. Wrote(ds, dc, c, M, Q, h, sl, n)
  BY <1>1, <1>2
<1>4. Settled(a) /\ Holds(wk[1], a, ctx[2], c, M)
  BY SceneHolds
<1>5. PICK m, L, o, q : m = wk[1].at[1] /\ L = Position(c) /\ o = JumpOffset(c) /\ q = Position(e)
  OBVIOUS
<1>6. Flow(c.f, M, Stack(c, a), m) /\ Holes(wk[1]) = {}
  BY <1>4, <1>5 DEF Holds, Holes
<1>7. Q = P /\ h \in Nat /\ n \in Nat /\ n <= h
  <2>1. h \in Nat /\ n \in Nat /\ n <= h
    BY <1>1, <1>2, Points
  <2> QED
    BY <2>1, <1>1, <1>6
<1>8. PICK N : Jumped(ds, dc, c, M, P, h, sl, n, "JUMP", h, N)
  <2>1. "JUMP" \in Jumps
    BY DEF Jumps
  <2> QED
    BY <1>1, <1>3, <1>7, <2>1, JumpWrites
<1>9. /\ Grown(ds, dc, c, M, e, N, P \cup {L}, h, sl, n)
      /\ L \notin P /\ o \in Nat /\ o - 1 = L /\ Hole(e, N, o, [height |-> h, slot |-> sl])
  BY <1>5, <1>8 DEF Jumped
<1>10. Stack(e, a) = Stack(c, a) /\ Stack(c, a) = [height |-> h, slot |-> sl]
  <2>1. Stack(e, a) = Stack(c, a)
    BY <1>9, StackSame DEF Grown
  <2> QED
    BY <1>2, <2>1 DEF Stack
<1>11. Flow(e.f, N, Stack(e, a), m) /\ m \in Nat
  <2>1. Len(c.f.code) \in Nat
    BY <1>1 DEF Comp, Function
  <2>2. m \in Nat
    BY <1>6, <2>1 DEF Flow, Spots, Starts
  <2>3. Flow(e.f, N, Stack(c, a), m)
    BY <1>9, <1>6, FlowOn DEF Grown
  <2> QED
    BY <1>10, <2>2, <2>3
<1>12. Flow(e.f, N, Stack(e, a), q) /\ q \in Nat
  <2>1. e \in Comp /\ Coding(ds, dc, e.f, N, P \cup {L}, h, sl)
    BY <1>9 DEF Grown, Wrote
  <2>2. q = Len(e.f.code) /\ q \in Nat
    BY <1>5, <2>1 DEF Position, Comp, Function
  <2>3. q \in Spots(e.f)
    BY <2>2 DEF Spots
  <2>4. N[q].height = h /\ N[q].slot = sl
    BY <2>1, <2>2 DEF Coding
  <2> QED
    BY <1>10, <2>2, <2>3, <2>4 DEF Flow
<1>13. PICK w1, w2, w3, w4 : /\ w1 = Expression /\ w2 = At("forIncrement", <<m, o>>)
                             /\ w3 = Do("statement") /\ w4 = At("loop", <<q>>)
  OBVIOUS
<1>14. PICK p : p = Raise(a, 1)
  OBVIOUS
<1>15. Under(a, p) /\ a = Raise(p, -1)
  BY <1>1, <1>14, Rises DEF Under
<1>16. Part(a, w4, a, v, b, e, N, P) /\ Holes(w4) = {}
  <2>1. b = [a EXCEPT !.height = b.height]
    BY <1>1 DEF Beside
  <2> QED
    BY <1>1, <1>4, <1>12, <1>13, <2>1, LoopPart
<1>17. Part(a, w3, a, w4, a, e, N, Holes(w4) \cup P) /\ Holes(w3) = {}
  BY <1>1, <1>4, <1>13, StatementPart DEF Under
<1>18. Part(a, w2, p, w3, a, e, N, Holes(w3) \cup (Holes(w4) \cup P)) /\ Holes(w2) = {L}
  <2>1. PICK X : X = Holes(w3) \cup (Holes(w4) \cup P)
    OBVIOUS
  <2>2. o - 1 \notin X
    BY <1>9, <1>16, <1>17, <2>1
  <2>3. Hole(e, N, o, Stack(e, a))
    BY <1>9, <1>10
  <2>4. Increments(a, p, e, N, m, o, X)
    BY <1>4, <1>11, <1>14, <1>15, <2>2, <2>3 DEF Increments
  <2>5. Part(a, w2, p, w3, a, e, N, X) /\ Holes(w2) = {o - 1}
    BY <1>13, <2>4, IncrementBefore
  <2> QED
    BY <1>9, <2>1, <2>5
<1>19. Part(a, w1, a, w2, p, e, N, Holes(w2) \cup (Holes(w3) \cup (Holes(w4) \cup P))) /\ Holes(w1) = {}
  BY <1>1, <1>13, <1>14, ExpressionPart DEF Under
<1>20. Holes(w1) \cup (Holes(w2) \cup (Holes(w3) \cup (Holes(w4) \cup P))) = P \cup {L}
  BY <1>16, <1>17, <1>18, <1>19
<1>21. Grown(ds, dc, c, M, e, N, Holes(w1) \cup (Holes(w2) \cup (Holes(w3) \cup (Holes(w4) \cup P))),
             a.height, SlotsOf(c, a.vars), a.vars)
  BY <1>2, <1>9, <1>20
<1>22. Valid(es, <<w1, w2, w3, w4>> \o RestWork(wk), ds, en, dc)
  BY <1>16, <1>17, <1>18, <1>19, <1>21, Finish4
<1> QED
  BY <1>5, <1>13, <1>22

LEMMA ForIncrementTurn ==
    ASSUME NEW ch, NEW wk, NEW ds, NEW en, NEW dc, NEW ctx, NEW maps, NEW a, NEW b, NEW v, NEW c,
           NEW M, NEW P, NEW Q, Scene(ch, wk, ds, en, dc, ctx, maps, a, b, v, c, M, P, Q), wk[1].k = "forIncrement",
           NEW e, e = PatchJump(EmitLoop(Emit(c, <<Op("POP")>>), wk[1].at[1]), wk[1].at[2]), NEW es, es = [ch EXCEPT ![Len(ch)] = e],
           ~ e.error
    PROVE  Valid(es, RestWork(wk), ds, en, dc)
<1>1. /\ Wrote(ds, dc, c, M, Q, a.height, SlotsOf(c, a.vars), a.vars)
      /\ ds \in Seq(Function) /\ dc \in Nat /\ c \in Comp
      /\ Under(a, a) /\ Sane(b) /\ Beside(a, b) /\ Sane(a)
      /\ Q = Holes(wk[1]) \cup P /\ Holes(wk[1]) \cap P = {}
  BY SceneIs DEF Under
<1>2. PICK h, n, sl : h = a.height /\ n = a.vars /\ sl = SlotsOf(c, a.vars)
  OBVIOUS
<1>3. Wrote(ds, dc, c, M, Q, h, sl, n)
  BY <1>1, <1>2
<1>4. Settled(b) /\ a = Raise(b, 1) /\ Holds(wk[1], a, ctx[2], c, M)
  BY SceneHolds
<1>5. PICK m, o, k : m = wk[1].at[1] /\ o = wk[1].at[2] /\ k = b.height
  OBVIOUS
<1>6. /\ Under(a, b) /\ k = h - 1 /\ n + 1 <= h /\ b = Raise(a, -1) /\ b.vars = n /\ k \in Nat /\ n <= k
  BY <1>1, <1>2, <1>4, <1>5, Lower
<1>7. Stack(c, b) = [height |-> k, slot |-> sl]
  BY <1>2, <1>5, <1>6 DEF Stack
<1>8. Flow(c.f, M, [height |-> k, slot |-> sl], m) /\ Hole(c, M, o, [height |-> k, slot |-> sl])
      /\ Holes(wk[1]) = {o - 1}
  BY <1>4, <1>5, <1>6, <1>7 DEF Holds, Holes
<1>9. PICK d : d = Emit(c, <<Op("POP")>>)
  OBVIOUS
<1>10. PICK N : Grown(ds, dc, c, M, d, N, Q, k, sl, n)
  BY <1>1, <1>3, <1>6, <1>9, PopWrites
<1>11. PICK g : g = EmitLoop(d, m)
  OBVIOUS
<1>12. PICK O : Returns(ds, dc, d, N, Q, sl, n, m, k, O)
  <2>1. Wrote(ds, dc, d, N, Q, k, sl, n) /\ Flow(d.f, N, [height |-> k, slot |-> sl], m)
    BY <1>8, <1>10, FlowOn DEF Grown
  <2> QED
    BY <1>1, <1>6, <2>1, LoopWrites
<1>13. Grown(ds, dc, d, N, g, O, Q, k, sl, n)
  BY <1>11, <1>12 DEF Returns, Grown
<1>14. Grown(ds, dc, c, M, g, O, Q, k, sl, n)
  BY <1>1, <1>10, <1>13, GrownTwice
<1>15. Hole(g, O, o, [height |-> k, slot |-> sl])
  BY <1>8, <1>14, HoleOn DEF Grown
<1>16. o \in Nat /\ o - 1 \in Q /\ After(g.f, O, o - 1) = [height |-> k, slot |-> sl]
  BY <1>1, <1>8, <1>15 DEF Hole
<1>17. e = PatchJump(g, o)
  BY <1>5, <1>9, <1>11
<1>18. Fills(ds, dc, g, O, Q, k, sl, n, o)
  <2>1. Wrote(ds, dc, g, O, Q, k, sl, n)
    BY <1>14 DEF Grown
  <2> QED
    BY <1>1, <1>16, <1>17, <2>1, PatchWrites
<1>19. Q \ {o - 1} = P
  BY <1>1, <1>8
<1>20. Grown(ds, dc, g, O, e, O, P, k, sl, n)
  BY <1>17, <1>18, <1>19 DEF Fills, Grown
<1>21. Grown(ds, dc, c, M, e, O, P, k, sl, n)
  BY <1>1, <1>14, <1>20, GrownTwice
<1> QED
  BY <1>2, <1>5, <1>21, Finish0

-----------------------------------------------------------------------------
(* The ends of lists, and what is left when the first item is done.        *)

LEMMA TailsAre ==
    ASSUME NEW ch, NEW wk \in Seq(Item), NEW en, NEW ctx \in Seq(Point), NEW maps,
           Listed(ch, en, maps, wk, ctx), wk[1].k # "endScript",
           NEW w, w = wk[1], NEW a, a = ctx[1], NEW v, v = wk[2], NEW b, b = ctx[2],
           NEW tw, tw = Tail(wk), NEW tc, tc = Tail(ctx)
    PROVE  Tails(ch, wk, en, ctx, maps, w, a, v, b, tw, tc)
<1>1. /\ Len(wk) \in Nat /\ Len(wk) >= 2 /\ Len(ctx) = Len(wk)
      /\ \A i \in 1..Len(wk) : Fine(ch, ctx[i]) /\ (wk[i].k # "define" => ctx[i].vars = ctx[i].seen)
      /\ \A i \in 2..Len(wk) : wk[i].k # "parameters"
      /\ \A i \in 1..Len(wk) - 1 : Link(ch, en, maps, wk[i], ctx[i], wk[i + 1], ctx[i + 1])
  BY DEF Listed
<1>2. 1 \in 1..Len(wk) /\ 2 \in 1..Len(wk) /\ 2 \in 2..Len(wk) /\ 1 \in 1..Len(wk) - 1 /\ 1 + 1 = 2
  BY <1>1
<1>3. /\ tw \in Seq(Item) /\ tc \in Seq(Point) /\ Len(tw) = Len(wk) - 1 /\ Len(tc) = Len(wk) - 1
      /\ tw[1] = v /\ tc[1] = b
  BY <1>1, <1>2, Popped
<1>4. Listed(ch, en, maps, tw, tc)
  BY <1>1, Pop
<1>5. /\ \A k : Pending(wk, ctx, k) = (IF a.level = k THEN Holes(w) ELSE {}) \cup Pending(tw, tc, k)
      /\ Holes(w) \cap Pending(tw, tc, a.level) = {}
  <2>1. \A k : /\ Pending(wk, ctx, k) = (IF ctx[1].level = k THEN Holes(wk[1]) ELSE {})
                                           \cup Pending(Tail(wk), Tail(ctx), k)
               /\ ctx[1].level = k => Holes(wk[1]) \cap Pending(Tail(wk), Tail(ctx), k) = {}
    BY <1>1, PendingPop
  <2> QED
    BY <2>1, Zenon
<1>6. Len(tc) = Len(tw) /\ Len(tw) >= 1 /\ Len(wk) = Len(tw) + 1
  BY <1>1, <1>3
<1>7. /\ Fine(ch, a) /\ Fine(ch, b) /\ v.k # "parameters" /\ Link(ch, en, maps, w, a, v, b)
      /\ (v.k # "define" => b.vars = b.seen) /\ (w.k # "define" => a.vars = a.seen)
  BY <1>1, <1>2
<1> QED
  BY <1>1, <1>3, <1>4, <1>5, <1>6, <1>7 DEF Tails

\* No more declarations, no initializer, no more parameters.
LEMMA EndListStep ==
    ASSUME NEW ch, NEW wk, NEW ds, NEW en, NEW dc, NEW ctx, NEW maps,
           Types(ch, wk, ds, en, dc), Good(ch, wk, ds, en, dc, ctx, maps),
           wk[1].k \in {"declarations", "initializer", "parameters"}
    PROVE  Valid(ch, Tail(wk), ds, en, dc)
<1>1. /\ ch \in Seq(Comp) /\ wk \in Seq(Item) /\ ctx \in Seq(Point) /\ Len(ch) \in Nat
      /\ Listed(ch, en, maps, wk, ctx) /\ Heads(ch, en, maps, wk, ctx)
  BY GoodIs
<1>2. PICK w, a, v, b, tw, tc : Tails(ch, wk, en, ctx, maps, w, a, v, b, tw, tc)
  <2>1. Tails(ch, wk, en, ctx, maps, wk[1], ctx[1], wk[2], ctx[2], Tail(wk), Tail(ctx))
    BY <1>1, TailsAre
  <2> QED
    BY <2>1
<1>3. /\ w = wk[1] /\ a = ctx[1] /\ tw = Tail(wk) /\ tw \in Seq(Item) /\ tc \in Seq(Point)
      /\ tw[1] = v /\ tc[1] = b /\ Listed(ch, en, maps, tw, tc) /\ v.k # "parameters"
      /\ \A k : Pending(wk, ctx, k) = (IF a.level = k THEN Holes(w) ELSE {}) \cup Pending(tw, tc, k)
  BY <1>2 DEF Tails
<1>4. Fits(w, a, v, b)
  BY <1>2 DEF Tails, Link
<1>5. b = a
  BY <1>3, <1>4 DEF Fits
<1>6. \A k : Pending(tw, tc, k) = Pending(wk, ctx, k)
  <2>1. Holes(w) = {}
    BY <1>3 DEF Holes
  <2> QED
    BY <2>1, <1>3
<1>7. Heads(ch, en, maps, tw, tc)
  BY <1>1, <1>3, <1>5 DEF Heads
<1>8. Coded(ch, ds, dc, maps, tw, tc)
  <2>1. Coded(ch, ds, dc, maps, wk, ctx)
    BY DEF Good
  <2> QED
    BY <2>1, <1>3, <1>5, <1>6 DEF Coded
<1>9. Good(ch, tw, ds, en, dc, tc, maps)
  BY <1>3, <1>7, <1>8 DEF Good
<1>10. Types(ch, tw, ds, en, dc)
  BY <1>3 DEF Types
<1> QED
  BY <1>3, <1>9, <1>10 DEF Valid
=============================================================================
