--------------------------- MODULE CompilerProofs ---------------------------
(***************************************************************************)
(* Proofs about Compiler: names and upvalues are resolved right, every     *)
(* step keeps the invariant (IInv), and what the invariant says of a       *)
(* program that compiled without an error.  The VM gets to no position but *)
(* those that have a frame, because the frames are closed under the VM's   *)
(* steps; each property holds at the frames.                               *)
(***************************************************************************)
EXTENDS CompilerScopes, FiniteSetTheorems

-----------------------------------------------------------------------------
(* Names.                                                                  *)

LEMMA ResemblesSame ==
    ASSUME NEW c, NEW e, Resembles(c, e), NEW M
    PROVE  Same(c, M, e, M)
  BY DEF Resembles, Same

LEMMA ResemblesLocals ==
    ASSUME NEW c \in Comp, NEW e, Resembles(c, e), NEW dc, Locals(c, dc)
    PROVE  Locals(e, dc)
<1>1. /\ c.locals \in Seq(Local) /\ Len(c.locals) \in Nat /\ DOMAIN c.locals = 1..Len(c.locals)
  BY CompIs
<1>2. /\ Len(e.locals) = Len(c.locals) /\ DOMAIN e.locals = DOMAIN c.locals /\ e.f.params = c.f.params
      /\ \A l \in DOMAIN c.locals : /\ e.locals[l].name = c.locals[l].name
                                    /\ e.locals[l].decl = c.locals[l].decl
                                    /\ e.locals[l].depth = c.locals[l].depth
      /\ e.locals \in Seq(Local)
  BY CompIs DEF Resembles
<1>3. /\ c.locals # <<>> /\ c.locals[1].name = NoName /\ c.locals[1].decl = Global
      /\ c.locals[1].depth = 0
      /\ \A l \in 2..Len(c.locals) : c.locals[l].name \in Name /\ c.locals[l].decl \in 1..dc
      /\ Len(c.f.params) < Len(c.locals)
      /\ \A i \in DOMAIN c.f.params : c.locals[i + 1].decl = c.f.params[i]
  BY DEF Locals
<1>4. Len(c.locals) >= 1
  BY <1>1, <1>3
<1>5. 1 \in DOMAIN c.locals /\ \A l \in 2..Len(c.locals) : l \in DOMAIN c.locals
  BY <1>1, <1>4
<1>6. e.locals # <<>>
  BY <1>1, <1>2, <1>4
<1>7. \A i \in DOMAIN c.f.params : i + 1 \in DOMAIN c.locals
  <2>1. c.f.params \in Seq(1..MaxDecl)
    BY DEF Comp, Function
  <2>2. PICK m \in Nat : m = Len(c.f.params) /\ DOMAIN c.f.params = 1..m
    BY <2>1, SeqIs
  <2> QED
    BY <2>2, <1>1, <1>3
<1>8. /\ \A l \in 2..Len(e.locals) : e.locals[l].name \in Name /\ e.locals[l].decl \in 1..dc
      /\ e.locals[1].name = NoName /\ e.locals[1].decl = Global /\ e.locals[1].depth = 0
  BY <1>2, <1>3, <1>5
<1>9. \A i \in DOMAIN e.f.params : e.locals[i + 1].decl = e.f.params[i]
  BY <1>2, <1>3, <1>7
<1> QED
  BY <1>2, <1>3, <1>6, <1>8, <1>9 DEF Locals

LEMMA ResemblesSound ==
    ASSUME NEW c \in Comp, NEW e, Resembles(c, e), NEW ds \in Seq(Function), NEW M, NEW P, NEW dc \in Nat,
           Sound(ds, c.f, M, P, Global, dc)
    PROVE  Sound(ds, e.f, M, P, Global, dc)
<1>1. c.f \in Function /\ e.f \in Function
  BY DEF Comp, Resembles
<1>2. DOMAIN ds \subseteq DOMAIN ds /\ (\A i \in DOMAIN ds : ds[i] = ds[i]) /\ dc <= dc
  OBVIOUS
<1>3. /\ e.f.code = c.f.code /\ e.f.params = c.f.params /\ e.f.born = c.f.born
      /\ e.f.gone = c.f.gone /\ e.f.land = c.f.land
      /\ \A i \in DOMAIN c.f.constants : i \in DOMAIN e.f.constants /\ e.f.constants[i] = c.f.constants[i]
      /\ \A i \in DOMAIN c.f.upvalues : i \in DOMAIN e.f.upvalues /\ e.f.upvalues[i] = c.f.upvalues[i]
  BY DEF Resembles
<1> QED
  BY <1>1, <1>2, <1>3, Tables

\* What is left to do is the same.
LEMMA ResolvedListed ==
    ASSUME NEW ch, NEW wk, NEW ds, NEW en, NEW dc, NEW ctx, NEW maps,
           Ready(ch, wk, ds, en, dc, ctx, maps), NEW hs, NEW n, Resolved(ch, hs, n)
    PROVE  Listed(hs, en, maps, wk, ctx) /\ Heads(hs, en, maps, wk, ctx)
<1>1. /\ Types(ch, wk, ds, en, dc) /\ Good(ch, wk, ds, en, dc, ctx, maps) /\ wk[1].k \notin Outer
  BY DEF Ready
<1>2. /\ ch \in Seq(Comp) /\ n \in Nat /\ n >= 1 /\ DOMAIN ch = 1..n /\ n = Len(ch)
      /\ \A k \in DOMAIN ch : ch[k] \in Comp /\ Len(ch[k].locals) >= 1
      /\ Listed(ch, en, maps, wk, ctx) /\ Heads(ch, en, maps, wk, ctx)
      /\ Sane(ctx[1]) /\ ctx[1].level = n /\ ctx[1].all = Len(ch[n].locals)
  BY <1>1, GoodIs DEF Resolved
<1>3. DOMAIN hs = 1..n /\ \A k \in 1..n : Resembles(ch[k], hs[k])
  BY DEF Resolved
<1>4. \A k \in 1..n : Same(ch[k], maps[k], hs[k], maps[k])
  BY <1>3, ResemblesSame
<1>5. \A k \in 1..n : /\ Len(ch[k].locals) \in Nat /\ Len(ch[k].locals) >= 1
                      /\ DOMAIN ch[k].locals = 1..Len(ch[k].locals)
  BY <1>2, CompIs
<1>6. n \in 1..n /\ n \in DOMAIN hs
  BY <1>2, <1>3
<1>7. PICK a : a = ctx[1]
  OBVIOUS
<1>8. /\ a \in Point /\ a.all \in Nat /\ a.depth \in Nat /\ a.level = n /\ a.all = Len(ch[n].locals)
      /\ a.vars \in Nat /\ a.vars <= a.all /\ a.seen \in Nat /\ a.seen <= a.all
  BY <1>2, <1>7, Points
<1>9. Keeps(ch[n], maps[n], hs[n], maps[n], a.all, a.depth)
  BY <1>4, <1>5, <1>6, <1>8, SameKeeps
<1>10. Listed(hs, en, maps, wk, ctx)
  <2>1. n = ctx[1].level
    BY <1>2
  <2>2. \A k \in 1..n - 1 : /\ k \in DOMAIN hs /\ Same(ch[k], maps[k], hs[k], maps[k])
                            /\ Len(ch[k].locals) \in Nat /\ Len(ch[k].locals) >= 1
                            /\ DOMAIN ch[k].locals = 1..Len(ch[k].locals)
    <3>1. \A k \in 1..n - 1 : k \in 1..n
      BY <1>2
    <3> QED
      BY <3>1, <1>3, <1>4, <1>5
  <2>3. Keeps(ch[n], maps[n], hs[n], maps[n], ctx[1].all, ctx[1].depth)
    BY <1>7, <1>9
  <2>4. (\A e \in 1..ctx[1].env - 1 : en[e] = en[e]) /\ wk[1].k # "parameters"
    BY <1>1 DEF Outer
  <2> QED
    BY <2>1, <2>2, <2>3, <2>4, <1>2, <1>6, RestStays
<1>11. Here(hs[n], maps[n], a, Stack(hs[n], a))
  <2>1. Here(ch[n], maps[n], a, Stack(ch[n], a))
    BY <1>2, <1>7 DEF Heads
  <2>2. Here(hs[n], maps[n], a, Stack(ch[n], a))
    BY <2>1, <1>4, <1>5, <1>6, HereStays
  <2>3. Stack(hs[n], a) = Stack(ch[n], a)
    BY <1>8, <1>9, StackStays
  <2> QED
    BY <2>2, <2>3
<1>12. Named(hs, en, a)
  <2>1. Named(ch, en, a)
    BY <1>2, <1>7 DEF Heads
  <2>2. \A j \in 1..n : /\ Len(hs[j].locals) = Len(ch[j].locals)
                        /\ \A l \in DOMAIN ch[j].locals :
                              /\ hs[j].locals[l].name = ch[j].locals[l].name
                              /\ hs[j].locals[l].decl = ch[j].locals[l].decl
    BY <1>3 DEF Resembles
  <2>3. ASSUME NEW j \in 1..n, NEW l \in 1..(IF j = n THEN a.seen ELSE Len(ch[j].locals))
        PROVE  l \in DOMAIN ch[j].locals
    <3>1. Len(ch[j].locals) \in Nat /\ DOMAIN ch[j].locals = 1..Len(ch[j].locals)
      BY <1>5
    <3>2. CASE j = n
      BY <3>1, <3>2, <2>3, <1>8
    <3>3. CASE j # n
      BY <3>1, <3>3, <2>3
    <3> QED
      BY <3>2, <3>3
  <2>4. SameNames(ch, hs, n, a.seen)
    BY <2>2, <2>3 DEF SameNames
  <2> QED
    BY <2>1, <2>4, <1>2, <1>8, NamedStays
<1>13. Len(hs) = n /\ ctx[1].env = Len(en) /\ wk[1].k # "parameters"
  BY <1>1, <1>2 DEF Resolved, Heads, Outer
<1> QED
  BY <1>2, <1>7, <1>8, <1>10, <1>11, <1>12, <1>13 DEF Heads

\* The code of all functions is the same.
LEMMA ResolvedGood ==
    ASSUME NEW ch, NEW wk, NEW ds, NEW en, NEW dc, NEW ctx, NEW maps,
           Ready(ch, wk, ds, en, dc, ctx, maps), NEW hs, NEW n, Resolved(ch, hs, n),
           Tied(hs, ds, dc)
    PROVE  Ready(hs, wk, ds, en, dc, ctx, maps)
<1>1. /\ Types(ch, wk, ds, en, dc) /\ Good(ch, wk, ds, en, dc, ctx, maps) /\ wk[1].k \notin Outer
  BY DEF Ready
<1>2. /\ ch \in Seq(Comp) /\ n \in Nat /\ n >= 1 /\ DOMAIN ch = 1..n /\ n = Len(ch)
      /\ \A k \in DOMAIN ch : ch[k] \in Comp /\ Locals(ch[k], dc)
      /\ ctx \in Seq(Point) /\ DOMAIN maps = DOMAIN ch /\ ds \in Seq(Function) /\ dc \in Nat
  BY <1>1, GoodIs DEF Resolved
<1>3. hs \in Seq(Comp) /\ Len(hs) = n /\ DOMAIN hs = 1..n /\ \A k \in 1..n : Resembles(ch[k], hs[k])
  BY DEF Resolved
<1>4. ctx[1].vars = ctx[1].seen
  BY <1>2, AtCode
<1>5. \A c : Late(c, ctx[1]) = Global
  <2>1. Sane(ctx[1])
    BY <1>2, AtCode
  <2>2. ctx[1].vars \in Nat
    BY <2>1, Points
  <2>3. ~ (ctx[1].vars < ctx[1].seen)
    BY <2>2, <1>4
  <2> QED
    BY <2>3 DEF Late
<1>6. Coded(hs, ds, dc, maps, wk, ctx)
  <2> SUFFICES ASSUME NEW k \in 1..n
               PROVE  Sound(ds, hs[k].f, maps[k], Pending(wk, ctx, k), Global, dc) /\ Locals(hs[k], dc)
    BY <1>3, <1>5 DEF Coded
  <2>1. Coded(ch, ds, dc, maps, wk, ctx)
    BY <1>1 DEF Good
  <2>2. Sound(ds, ch[k].f, maps[k], Pending(wk, ctx, k), Global, dc)
    BY <2>1, <1>2, <1>5 DEF Coded
  <2>3. ch[k] \in Comp /\ Resembles(ch[k], hs[k]) /\ Locals(ch[k], dc)
    BY <1>2, <1>3
  <2> QED
    BY <2>2, <2>3, <1>2, ResemblesSound, ResemblesLocals
<1>7. Types(hs, wk, ds, en, dc)
  <2>1. \A k \in DOMAIN hs : Limits(hs[k])
    BY <1>3 DEF Resembles
  <2> QED
    BY <2>1, <1>1, <1>3 DEF Types
<1>8. Listed(hs, en, maps, wk, ctx) /\ Heads(hs, en, maps, wk, ctx)
  BY ResolvedListed
<1>9. Good(hs, wk, ds, en, dc, ctx, maps)
  <2>1. DOMAIN maps = DOMAIN hs
    <3>1. DOMAIN ch = 1..n /\ DOMAIN maps = DOMAIN ch
      BY <1>2, Zenon
    <3>2. DOMAIN hs = 1..n
      BY <1>3, Zenon
    <3> QED
      BY <3>1, <3>2, Zenon
  <2> QED
    BY <2>1, <1>2, <1>6, <1>8 DEF Good
<1> QED
  BY <1>1, <1>7, <1>9 DEF Ready

LEMMA LastIs ==
    ASSUME NEW c \in Comp, NEW x, NEW l, Lasts(c, x, l)
    PROVE  /\ ResolveLocal(c, x) = l - 1 /\ l \in DOMAIN c.locals /\ l \in Nat /\ l >= 1
           /\ c.locals[l].name = x
<1>1. DOMAIN c.locals = 1..Len(c.locals) /\ Len(c.locals) \in Nat
  BY CompIs
<1>2. Slots(c, x) \subseteq 1..Len(c.locals)
  BY <1>1 DEF Slots
<1>3. l \in Slots(c, x) /\ \A j \in Slots(c, x) : l >= j
  BY <1>2 DEF Lasts
<1> DEFINE i == CHOOSE k \in Slots(c, x) : \A j \in Slots(c, x) : k >= j
<1>4. i \in Slots(c, x) /\ \A j \in Slots(c, x) : i >= j
  BY <1>3
<1>5. i = l
  <2> HIDE DEF i
  <2>1. i >= l /\ l >= i /\ i \in Int /\ l \in Int
    BY <1>2, <1>3, <1>4
  <2> QED
    BY <2>1
<1>6. ResolveLocal(c, x) = l - 1
  BY <1>5 DEF ResolveLocal
<1> QED
  BY <1>1, <1>2, <1>3, <1>6 DEF Slots

\* The locals that a name in function k can see, when all of those of k have
\* been declared.
LEMMA SeenAll ==
    ASSUME NEW ch \in Seq(Comp), NEW k, NEW n, NEW j \in DOMAIN ch, NEW x,
           j = k => n = Len(ch[j].locals)
    PROVE  Visible(ch, k, n, j, x) = Slots(ch[j], x)
<1>1. ch[j] \in Comp
  OBVIOUS
<1>2. DOMAIN ch[j].locals = 1..Len(ch[j].locals)
  BY <1>1, CompIs
<1> QED
  BY <1>2 DEF Visible, Slots

LEMMA MeansIs ==
    ASSUME NEW wk, NEW ds, NEW dc, NEW ctx, NEW maps,
           Ready(chain, wk, ds, envs, dc, ctx, maps), NEW x \in Name, NEW n, n = Len(chain)
    PROVE  Refer(chain, envs, dc, n, ctx[1], x, Means(x))
<1>1. /\ Types(chain, wk, ds, envs, dc) /\ Good(chain, wk, ds, envs, dc, ctx, maps)
  BY DEF Ready
<1>2. /\ chain \in Seq(Comp) /\ n \in Nat /\ n >= 1 /\ DOMAIN chain = 1..n
      /\ \A k \in DOMAIN chain : chain[k] \in Comp /\ Locals(chain[k], dc) /\ Len(chain[k].locals) >= 1
      /\ Heads(chain, envs, maps, wk, ctx)
      /\ Sane(ctx[1]) /\ ctx[1].level = n /\ ctx[1].all = Len(chain[n].locals)
  BY <1>1, GoodIs
<1>3. ctx[1].vars = ctx[1].seen
  BY <1>2, AtCode
<1>4. /\ ctx[1].env = Len(envs)
      /\ ctx[1].seen = ctx[1].all <=> chain[n].locals[Len(chain[n].locals)].depth # -1
      /\ Named(chain, envs, ctx[1])
  BY <1>2 DEF Heads, Here
<1>5. Binds(chain, n, ctx[1].seen, x, envs[ctx[1].env][x])
  BY <1>2, <1>4 DEF Named
<1>6. Last(chain[n].locals) = chain[n].locals[Len(chain[n].locals)] /\ Last(envs) = envs[Len(envs)]
  BY DEF Last
<1>7. LET last == chain[n].locals[Len(chain[n].locals)]
      IN  Means(x) = IF last.depth = -1 /\ last.name = x THEN Itself ELSE envs[ctx[1].env][x]
  BY <1>4, <1>6 DEF Means, Current
<1> QED
  BY <1>2, <1>3, <1>4, <1>5, <1>7 DEF Refer

LEMMA ReferHere ==
    ASSUME NEW ch, NEW en, NEW dc, NEW n, NEW a, NEW x, NEW d, Refer(ch, en, dc, n, a, x, d),
           Slots(ch[n], x) # {}
    PROVE  \E l : FoundHere(ch[n], dc, a, x, d, l)
<1>1. PICK c : c = ch[n]
  OBVIOUS
<1>2. /\ ch \in Seq(Comp) /\ n \in Nat /\ n >= 1 /\ n \in DOMAIN ch /\ c \in Comp
      /\ Locals(c, dc) /\ Len(c.locals) >= 1
      /\ x \in Name /\ Sane(a) /\ a.vars = a.seen /\ a.all = Len(c.locals)
      /\ a.seen = a.all <=> c.locals[Len(c.locals)].depth # -1
      /\ Binds(ch, n, a.seen, x, en[a.env][x])
      /\ d = IF c.locals[Len(c.locals)].depth = -1 /\ c.locals[Len(c.locals)].name = x
             THEN Itself ELSE en[a.env][x]
  BY <1>1 DEF Refer
<1>3. /\ a.all \in Nat /\ a.seen \in Nat /\ a.seen <= a.all /\ a.all - 1 <= a.seen /\ a.all <= Count
      /\ a.vars = a.seen
  BY <1>2, Points
<1>4. DOMAIN c.locals = 1..Len(c.locals) /\ Len(c.locals) \in Nat
  BY <1>2, CompIs
<1>5. Slots(c, x) \subseteq 1..Len(c.locals)
  BY <1>4 DEF Slots
<1>6. CASE c.locals[Len(c.locals)].depth = -1 /\ c.locals[Len(c.locals)].name = x
  <2>1. d = Itself
    BY <1>2, <1>6
  <2>2. Len(c.locals) \in Slots(c, x)
    BY <1>2, <1>4, <1>6 DEF Slots
  <2>3. Lasts(c, x, Len(c.locals))
    BY <2>2, <1>5 DEF Lasts
  <2> QED
    BY <2>1, <2>3, <1>1 DEF FoundHere
<1>7. CASE ~ (c.locals[Len(c.locals)].depth = -1 /\ c.locals[Len(c.locals)].name = x)
  <2>1. d = en[a.env][x]
    BY <1>2, <1>7
  <2>2. Visible(ch, n, a.seen, n, x) = Slots(c, x)
    <3>1. CASE a.seen = a.all
      BY <3>1, <1>1, <1>2, SeenAll
    <3>2. CASE a.seen # a.all
      <4>1. c.locals[Len(c.locals)].name # x
        BY <3>2, <1>2, <1>7
      <4>2. a.seen = Len(c.locals) - 1
        BY <3>2, <1>2, <1>3
      <4>3. Visible(ch, n, a.seen, n, x) = { l \in 1..a.seen : c.locals[l].name = x }
        BY <1>1 DEF Visible
      <4>4. Slots(c, x) = { l \in 1..Len(c.locals) : c.locals[l].name = x }
        BY <1>4 DEF Slots
      <4>5. \A l \in 1..Len(c.locals) : c.locals[l].name = x => l \in 1..a.seen
        <5> SUFFICES ASSUME NEW l \in 1..Len(c.locals), c.locals[l].name = x PROVE l \in 1..a.seen
          OBVIOUS
        <5>1. l # Len(c.locals)
          BY <4>1
        <5> QED
          BY <5>1, <4>2, <1>3
      <4>6. 1..a.seen \subseteq 1..Len(c.locals)
        BY <4>2, <1>3
      <4> QED
        BY <4>3, <4>4, <4>5, <4>6
    <3> QED
      BY <3>1, <3>2
  <2>3. PICK l \in Slots(c, x) : d = c.locals[l].decl /\ \A m \in Slots(c, x) : m <= l
    <3>1. n \in 1..n
      BY <1>2
    <3>2. Visible(ch, n, a.seen, n, x) # {}
      BY <2>2, <1>1
    <3>3. PICK j \in 1..n : \E l \in Visible(ch, n, a.seen, j, x) :
             /\ d = ch[j].locals[l].decl
             /\ \A m \in Visible(ch, n, a.seen, j, x) : m <= l
             /\ \A i \in j + 1..n : Visible(ch, n, a.seen, i, x) = {}
      BY <3>1, <3>2, <2>1, <1>2 DEF Binds
    <3>4. j = n
      <4> SUFFICES ASSUME j # n PROVE FALSE
        OBVIOUS
      <4>1. n \in j + 1..n
        BY <1>2
      <4> QED
        BY <4>1, <3>2, <3>3
    <3> QED
      BY <3>3, <3>4, <2>2, <1>1
  <2>4. l \in 1..a.seen
    BY <2>2 DEF Visible
  <2>5. c.locals[l].name = x
    BY <2>3 DEF Slots
  <2>6. l # 1 /\ l \in 2..Len(c.locals)
    <3>1. c.locals[1].name = NoName
      BY <1>2 DEF Locals
    <3>2. l # 1
      BY <3>1, <2>5, <1>2, CompilerConstants
    <3> QED
      BY <3>2, <2>4, <1>2, <1>3
  <2>7. d \in 1..dc
    BY <2>3, <2>6, <1>2 DEF Locals
  <2>8. l <= a.vars /\ l \in Slot
    BY <2>4, <1>3, CompilerConstants DEF Slot
  <2>9. Lasts(c, x, l)
    BY <2>3 DEF Lasts
  <2> QED
    BY <2>3, <2>7, <2>8, <2>9, <1>1 DEF FoundHere
<1> QED
  BY <1>6, <1>7

LEMMA ReferSeen ==
    ASSUME NEW ch, NEW en, NEW dc, NEW n, NEW a, NEW x, NEW d, Refer(ch, en, dc, n, a, x, d),
           Slots(ch[n], x) = {}
    PROVE  /\ Binds(ch, n, a.seen, x, d)
           /\ \A j \in 1..n - 1 : Visible(ch, n, a.seen, j, x) = Slots(ch[j], x)
           /\ Visible(ch, n, a.seen, n, x) = {}
<1>1. PICK c : c = ch[n]
  OBVIOUS
<1>2. /\ ch \in Seq(Comp) /\ n \in Nat /\ n >= 1 /\ DOMAIN ch = 1..n /\ c \in Comp
      /\ Len(c.locals) >= 1 /\ Sane(a) /\ a.all = Len(c.locals)
      /\ Binds(ch, n, a.seen, x, en[a.env][x])
      /\ d = IF c.locals[Len(c.locals)].depth = -1 /\ c.locals[Len(c.locals)].name = x
             THEN Itself ELSE en[a.env][x]
  BY <1>1 DEF Refer
<1>3. a.all \in Nat /\ a.seen \in Nat /\ a.seen <= a.all
  BY <1>2, Points
<1>4. DOMAIN c.locals = 1..Len(c.locals) /\ Len(c.locals) \in DOMAIN c.locals
  <2>1. DOMAIN c.locals = 1..Len(c.locals) /\ Len(c.locals) \in Nat
    BY <1>2, CompIs
  <2> QED
    BY <2>1, <1>2
<1>5. \A l \in DOMAIN c.locals : c.locals[l].name # x
  BY <1>1 DEF Slots
<1>6. d = en[a.env][x]
  BY <1>2, <1>4, <1>5
<1>7. Visible(ch, n, a.seen, n, x) = {}
  <2>1. \A l \in 1..a.seen : l \in DOMAIN c.locals
    BY <1>2, <1>3, <1>4
  <2> QED
    BY <2>1, <1>1, <1>5 DEF Visible
<1>8. \A j \in 1..n - 1 : Visible(ch, n, a.seen, j, x) = Slots(ch[j], x)
  <2>1. \A j \in 1..n - 1 : j \in DOMAIN ch /\ j # n
    BY <1>2
  <2> QED
    BY <2>1, <1>2, SeenAll
<1> QED
  BY <1>2, <1>6, <1>7, <1>8

LEMMA ReferAround ==
    ASSUME NEW ch, NEW en, NEW dc, NEW n, NEW a, NEW x, NEW d, Refer(ch, en, dc, n, a, x, d),
           Slots(ch[n], x) = {}, NEW k \in 1..n - 1, Slots(ch[k], x) # {}
    PROVE  \E o, l : FoundAround(ch, dc, n, x, d, o, l)
<1>1. /\ ch \in Seq(Comp) /\ n \in Nat /\ n >= 1 /\ DOMAIN ch = 1..n /\ x \in Name
      /\ \A i \in 1..n : ch[i] \in Comp /\ Locals(ch[i], dc) /\ Len(ch[i].locals) >= 1
  BY DEF Refer
<1>2. /\ Binds(ch, n, a.seen, x, d)
      /\ \A j \in 1..n - 1 : Visible(ch, n, a.seen, j, x) = Slots(ch[j], x)
      /\ Visible(ch, n, a.seen, n, x) = {}
  BY ReferSeen
<1>3. k \in 1..n /\ Visible(ch, n, a.seen, k, x) # {}
  BY <1>1, <1>2
<1>4. PICK o \in 1..n : \E l \in Visible(ch, n, a.seen, o, x) :
         /\ d = ch[o].locals[l].decl
         /\ \A m \in Visible(ch, n, a.seen, o, x) : m <= l
         /\ \A i \in o + 1..n : Visible(ch, n, a.seen, i, x) = {}
  BY <1>2, <1>3 DEF Binds
<1>5. o # n
  BY <1>2, <1>4
<1>6. o \in 1..n - 1
  BY <1>1, <1>5
<1>7. PICK l \in Slots(ch[o], x) :
         /\ d = ch[o].locals[l].decl
         /\ \A m \in Slots(ch[o], x) : m <= l
         /\ \A i \in o + 1..n : Visible(ch, n, a.seen, i, x) = {}
  BY <1>2, <1>4, <1>6
<1>8. ASSUME NEW j \in o + 1..n  PROVE Slots(ch[j], x) = {}
  <2>1. CASE j = n
    BY <2>1
  <2>2. CASE j # n
    <3>1. j \in 1..n - 1
      BY <2>2, <1>1, <1>6
    <3> QED
      BY <3>1, <1>2, <1>7
  <2> QED
    BY <2>1, <2>2
<1>9. l \in 2..Len(ch[o].locals)
  <2>1. PICK c : c = ch[o]
    OBVIOUS
  <2>2. c \in Comp /\ Locals(c, dc)
    BY <2>1, <1>1, <1>4
  <2>3. DOMAIN c.locals = 1..Len(c.locals) /\ Len(c.locals) \in Nat
    BY <2>2, CompIs
  <2>4. l \in DOMAIN c.locals /\ c.locals[l].name = x
    BY <2>1, <1>7 DEF Slots
  <2>5. c.locals[1].name = NoName
    BY <2>2 DEF Locals
  <2>6. l # 1
    BY <2>4, <2>5, <1>1, CompilerConstants
  <2> QED
    BY <2>1, <2>3, <2>4, <2>6
<1>10. d \in 1..dc
  BY <1>1, <1>4, <1>7, <1>9 DEF Locals
<1>11. Lasts(ch[o], x, l)
  BY <1>7 DEF Lasts
<1>12. FoundAround(ch, dc, n, x, d, o, l)
  BY <1>6, <1>7, <1>8, <1>9, <1>10, <1>11 DEF FoundAround
<1> QED
  BY <1>12

LEMMA ReferGlobal ==
    ASSUME NEW ch, NEW en, NEW dc, NEW n, NEW a, NEW x, NEW d, Refer(ch, en, dc, n, a, x, d),
           Slots(ch[n], x) = {}, \A k \in 1..n - 1 : Slots(ch[k], x) = {}
    PROVE  d = Global
<1>1. n \in Nat /\ n >= 1
  BY DEF Refer
<1>2. /\ Binds(ch, n, a.seen, x, d)
      /\ \A j \in 1..n - 1 : Visible(ch, n, a.seen, j, x) = Slots(ch[j], x)
      /\ Visible(ch, n, a.seen, n, x) = {}
  BY ReferSeen
<1>3. ASSUME NEW j \in 1..n  PROVE Visible(ch, n, a.seen, j, x) = {}
  <2>1. j = n \/ j \in 1..n - 1
    BY <1>1
  <2> QED
    BY <2>1, <1>2
<1> QED
  BY <1>2, <1>3 DEF Binds

-----------------------------------------------------------------------------
(* Upvalues.                                                               *)

LEMMA Residue ==
    ASSUME NEW a \in Nat, NEW n \in Nat, n # 0
    PROVE  a % n \in Nat /\ (a < n => a % n = a)
<1>1. n \in Nat \ {0}
  OBVIOUS
<1>2. PICK q \in Nat, r \in 0..(n - 1) : a = n * q + r
  BY <1>1, Division
<1>3. (n * q + r) % n = r
  BY <1>1, Remainder
<1>4. a % n = r
  BY <1>2, <1>3, Zenon
<1>5. r \in Nat
  BY <1>1
<1>6. a < n => a % n = a
  <2> SUFFICES ASSUME a < n  PROVE a % n = a
    OBVIOUS
  <2>1. a \in 0..(n - 1) /\ 0 \in Nat /\ n * 0 + a = a
    OBVIOUS
  <2>2. (n * 0 + a) % n = a
    BY <1>1, <2>1, Remainder
  <2> QED
    BY <2>1, <2>2, Zenon
<1> QED
  BY <1>4, <1>5, <1>6

LEMMA UpvalueIndexIs ==
    ASSUME NEW c \in Comp, NEW i, NEW loc
    PROVE  /\ UpvalueIndex(c, i, loc) \in Nat
           /\ Matching(c, i, loc) # {} => UpvalueIndex(c, i, loc) + 1 \in Matching(c, i, loc)
           /\ Matching(c, i, loc) = {} => UpvalueIndex(c, i, loc) = Len(c.f.upvalues) % Count
<1>1. c.f \in Function
  BY CompIs
<1>2. PICK n \in Nat : n = Len(c.f.upvalues) /\ DOMAIN c.f.upvalues = 1..n
  BY <1>1, CodeBytes
<1>3. CASE Matching(c, i, loc) # {}
  <2>1. PICK m : m = CHOOSE u \in Matching(c, i, loc) : TRUE
    OBVIOUS
  <2>2. m \in Matching(c, i, loc)
    BY <1>3, <2>1
  <2>3. m \in 1..n
    BY <1>2, <2>2 DEF Matching
  <2>4. UpvalueIndex(c, i, loc) = m - 1
    BY <1>3, <2>1 DEF UpvalueIndex
  <2>5. m - 1 \in Nat /\ (m - 1) + 1 = m
    BY <1>2, <2>3
  <2> QED
    BY <1>3, <2>2, <2>4, <2>5
<1>4. CASE Matching(c, i, loc) = {}
  <2>1. UpvalueIndex(c, i, loc) = n % Count
    BY <1>2, <1>4 DEF UpvalueIndex
  <2>2. Count \in Nat /\ Count # 0
    BY CompilerConstants
  <2>3. n % Count \in Nat
    BY <2>2, Residue
  <2> QED
    BY <1>2, <1>4, <2>1, <2>3
<1> QED
  BY <1>3, <1>4

LEMMA UpvalueIs ==
    ASSUME NEW c \in Comp, Limits(c), NEW i \in Nat, NEW loc \in BOOLEAN, NEW d \in 1..MaxDecl,
           NEW e, e = AddUpvalue(c, i, loc, d), NEW j, j = UpvalueIndex(c, i, loc)
    PROVE  Added(c, i, loc, d, e, j)
<1>1. c.f \in Function /\ c.locals \in Seq(Local) /\ c.scopeDepth \in Nat /\ c.error \in BOOLEAN
  BY CompIs
<1>2. c.f.upvalues \in Seq(Upvalue)
  BY <1>1 DEF Function
<1>3. PICK n \in Nat : n = Len(c.f.upvalues) /\ DOMAIN c.f.upvalues = 1..n
  BY <1>1, CodeBytes
<1>4. n <= Count
  BY <1>3 DEF Limits
<1>5. /\ j \in Nat
      /\ Matching(c, i, loc) # {} => j + 1 \in Matching(c, i, loc)
      /\ Matching(c, i, loc) = {} => j = n % Count
  BY <1>3, UpvalueIndexIs
<1>6. CASE Matching(c, i, loc) # {}
  <2>1. e = c
    BY <1>6 DEF AddUpvalue
  <2>2. /\ j + 1 \in DOMAIN c.f.upvalues /\ c.f.upvalues[j + 1].index = i
        /\ c.f.upvalues[j + 1].isLocal = loc
    BY <1>5, <1>6 DEF Matching
  <2> QED
    BY <1>5, <2>1, <2>2 DEF Added
<1>7. CASE Matching(c, i, loc) = {} /\ n = Count
  <2>1. e = Error(c)
    BY <1>3, <1>7 DEF AddUpvalue
  <2>2. e \in Comp /\ e.error /\ e.locals = c.locals /\ e.scopeDepth = c.scopeDepth /\ e.f = c.f
    BY <2>1, ErrorIs
  <2>3. Limits(e)
    BY <2>2 DEF Limits
  <2> QED
    BY <1>5, <2>2, <2>3 DEF Added
<1>8. CASE Matching(c, i, loc) = {} /\ n # Count
  <2>1. PICK u : u = [index |-> i, isLocal |-> loc, decl |-> d]
    OBVIOUS
  <2>2. u \in Upvalue
    BY <2>1, CompilerConstants DEF Upvalue, Itself
  <2>3. PICK us : us = Append(c.f.upvalues, u)
    OBVIOUS
  <2>4. /\ us \in Seq(Upvalue) /\ Len(us) = n + 1 /\ us[n + 1] = u
        /\ \A k \in 1..n : us[k] = c.f.upvalues[k]
        /\ DOMAIN us = 1..n + 1
    BY <1>2, <1>3, <2>2, <2>3, AppendIs
  <2>5. e = [c EXCEPT !.f.upvalues = us]
    BY <1>3, <1>8, <2>1, <2>3 DEF AddUpvalue
  <2>6. PICK f : f = [c.f EXCEPT !.upvalues = us]
    OBVIOUS
  <2>7. /\ f \in Function /\ f.upvalues = us /\ f.code = c.f.code /\ f.params = c.f.params
        /\ f.born = c.f.born /\ f.gone = c.f.gone /\ f.land = c.f.land
        /\ f.constants = c.f.constants
    BY <1>1, <2>4, <2>6 DEF Function
  <2>8. e = [c EXCEPT !.f = f]
    BY <2>5, <2>6 DEF Comp
  <2>9. /\ e \in Comp /\ e.f = f /\ e.locals = c.locals /\ e.scopeDepth = c.scopeDepth
    BY <2>7, <2>8 DEF Comp
  <2>10. n < Count /\ n + 1 <= Count /\ n % Count = n
    <3>1. Count \in Nat /\ Count # 0
      BY CompilerConstants
    <3>2. n < Count /\ n + 1 <= Count
      BY <3>1, <1>4, <1>8
    <3> QED
      BY <3>1, <3>2, Residue
  <2>11. Limits(e)
    BY <2>4, <2>7, <2>9, <2>10 DEF Limits
  <2>12. j = n
    BY <1>5, <1>8, <2>10
  <2>13. \A k \in 1..n + 1 : k \in 1..n \/ k = n + 1
    BY <1>3
  <2>14. n + 1 \in 1..n + 1 /\ \A k \in 1..n : k \in 1..n + 1
    BY <1>3
  <2>15. u.index = i /\ u.isLocal = loc
    BY <2>1
  <2>16. \A k \in DOMAIN us : k \in DOMAIN c.f.upvalues \/ us[k] = [index |-> i, isLocal |-> loc, decl |-> d]
    BY <1>3, <2>1, <2>4, <2>13
  <2>17. j + 1 \in DOMAIN us /\ us[j + 1].index = i /\ us[j + 1].isLocal = loc
    BY <2>4, <2>12, <2>14, <2>15
  <2>18. \A k \in DOMAIN c.f.upvalues : k \in DOMAIN us /\ us[k] = c.f.upvalues[k]
    BY <1>3, <2>4, <2>14
  <2>19. e.f.upvalues = us
    BY <2>7, <2>9
  <2> QED
    BY <1>5, <2>7, <2>9, <2>11, <2>16, <2>17, <2>18, <2>19 DEF Added
<1> QED
  BY <1>6, <1>7, <1>8

LEMMA HandsIs ==
    ASSUME NEW ch, NEW n, Chained(ch, n), NEW o \in 1..n - 1, NEW l \in Nat, l >= 1,
           l \in DOMAIN ch[o].locals, NEW d \in 1..MaxDecl, NEW idx, NEW hs,
           Hands(ch, n, o, l, d, idx, hs)
    PROVE  Handed(ch, n, o, l, d, idx, hs)
<1>1. n \in Nat /\ n >= 1 /\ o \in Nat /\ o >= 1 /\ o < n /\ n - o \in Nat /\ o \in 1..n
  BY DEF Chained
<1>2. \A k \in 1..n : ch[k] \in Comp /\ Limits(ch[k])
  BY DEF Chained
<1>3. idx[0] = l - 1 /\ l - 1 \in Nat
  BY DEF Hands
<1>4. \A i \in 0..n - o : idx[i] \in Nat
  <2> SUFFICES ASSUME NEW i \in 0..n - o  PROVE idx[i] \in Nat
    OBVIOUS
  <2>1. CASE i = 0
    BY <1>3, <2>1
  <2>2. CASE i # 0
    <3>1. i \in 1..n - o /\ o + i \in 1..n
      BY <1>1, <2>2
    <3>2. idx[i] = UpvalueIndex(ch[o + i], idx[i - 1], i = 1)
      BY <3>1 DEF Hands
    <3>3. ch[o + i] \in Comp
      BY <1>2, <3>1
    <3> QED
      BY <3>2, <3>3, UpvalueIndexIs
  <2> QED
    BY <2>1, <2>2
<1>5. \A k \in 1..o - 1 : hs[k] = ch[k]
  <2> SUFFICES ASSUME NEW k \in 1..o - 1  PROVE hs[k] = ch[k]
    OBVIOUS
  <2>1. k \in 1..n /\ k < o
    BY <1>1
  <2> QED
    BY <2>1 DEF Hands
<1>6. hs[o] = [ch[o] EXCEPT !.locals[l].captured = TRUE] /\ hs[o] \in Comp
  <2>1. ~ (o < o)
    BY <1>1
  <2>2. hs[o] = [ch[o] EXCEPT !.locals[l].captured = TRUE]
    BY <1>1, <2>1 DEF Hands
  <2>3. ch[o] \in Comp
    BY <1>1, <1>2
  <2>4. ch[o].locals \in Seq(Local)
    BY <2>3, CompIs
  <2>5. PICK b : b = [ch[o].locals[l] EXCEPT !.captured = TRUE]
    OBVIOUS
  <2>6. ch[o].locals[l] \in Local
    BY <2>4
  <2>7. b \in Local
    BY <2>5, <2>6 DEF Local
  <2>8. PICK ls : ls = [ch[o].locals EXCEPT ![l] = b]
    OBVIOUS
  <2>9. ls \in Seq(Local)
    BY <2>4, <2>7, <2>8
  <2>10. [ch[o] EXCEPT !.locals = ls] \in Comp
    BY <2>3, <2>9 DEF Comp
  <2>11. hs[o] = [ch[o] EXCEPT !.locals = ls]
    BY <2>2, <2>5, <2>8
  <2> QED
    BY <2>2, <2>10, <2>11
<1>7. \A k \in o + 1..n : Added(ch[k], idx[k - o - 1], k = o + 1, d, hs[k], idx[k - o])
  <2> SUFFICES ASSUME NEW k \in o + 1..n
               PROVE  Added(ch[k], idx[k - o - 1], k = o + 1, d, hs[k], idx[k - o])
    OBVIOUS
  <2>1. /\ k \in 1..n /\ ~ (k < o) /\ k # o /\ k - o \in 1..n - o /\ o + (k - o) = k
        /\ k - o - 1 \in 0..n - o
    BY <1>1
  <2>2. (k - o = 1) = (k = o + 1)
    BY <1>1
  <2>3. PICK i : i = k - o
    OBVIOUS
  <2>4. hs[k] = AddUpvalue(ch[k], idx[k - o - 1], k = o + 1, d)
    BY <2>1 DEF Hands
  <2>5. idx[i] = UpvalueIndex(ch[o + i], idx[i - 1], i = 1)
    BY <2>1, <2>3 DEF Hands
  <2>6. PICK loc \in BOOLEAN : loc = (k = o + 1)
    OBVIOUS
  <2>7. PICK a \in Nat : a = idx[k - o - 1]
    BY <1>4, <2>1
  <2>8. idx[k - o] = UpvalueIndex(ch[k], a, loc)
    <3>1. idx[i - 1] = a /\ o + i = k /\ (i = 1) = loc
      BY <2>1, <2>2, <2>3, <2>6, <2>7
    <3> QED
      BY <2>3, <2>5, <3>1
  <2>9. hs[k] = AddUpvalue(ch[k], a, loc, d)
    BY <2>4, <2>6, <2>7
  <2>10. ch[k] \in Comp /\ Limits(ch[k])
    BY <1>2, <2>1
  <2>11. Added(ch[k], a, loc, d, hs[k], idx[k - o])
    BY <2>8, <2>9, <2>10, UpvalueIs
  <2> QED
    BY <2>6, <2>7, <2>11
<1>8. hs \in Seq(Comp) /\ Len(hs) = n /\ DOMAIN hs = 1..n
  <2>1. \A k \in 1..n : hs[k] \in Comp
    <3> SUFFICES ASSUME NEW k \in 1..n  PROVE hs[k] \in Comp
      OBVIOUS
    <3>1. CASE k \in 1..o - 1
      BY <1>2, <1>5, <3>1
    <3>2. CASE k = o
      BY <1>6, <3>2
    <3>3. CASE k \in o + 1..n
      BY <1>7, <3>3 DEF Added
    <3> QED
      BY <1>1, <3>1, <3>2, <3>3
  <2>2. hs = [k \in 1..n |-> hs[k]]
    BY DEF Hands
  <2>3. PICK gs : gs = [k \in 1..n |-> hs[k]]
    OBVIOUS
  <2>4. gs \in Seq(Comp) /\ Len(gs) = n /\ DOMAIN gs = 1..n
    BY <1>1, <2>1, <2>3
  <2> QED
    BY <2>2, <2>3, <2>4
<1> QED
  BY <1>3, <1>4, <1>5, <1>6, <1>7, <1>8 DEF Handed

\* resolveUpvalue finds the function o, and hands its local on.
LEMMA ResolveUpvalueIs ==
    ASSUME NEW n, Chained(chain, n), NEW dc, NEW x, NEW o, NEW l, NEW d, d = Means(x),
           FoundAround(chain, dc, n, x, d, o, l), NEW r, r = ResolveUpvalue(x)
    PROVE  \E idx : Hands(chain, n, o, l, d, idx, r.chain) /\ r.arg = idx[n - o]
<1> DEFINE owner == CHOOSE k \in Around(x) : \A j \in Around(x) : j <= k
           local == ResolveLocal(chain[owner], x)
           next(i, v) == UpvalueIndex(chain[owner + i], v, i = 1)
           Is(f) == f = [i \in 0..Len(chain) - owner |-> IF i = 0 THEN local ELSE next(i, f[i - 1])]
           idx == CHOOSE f : Is(f)
           after(k) == IF k < owner THEN chain[k]
                       ELSE IF k = owner THEN [chain[k] EXCEPT !.locals[local + 1].captured = TRUE]
                       ELSE AddUpvalue(chain[k], idx[k - owner - 1], k = owner + 1, Means(x))
<1>1. r = [arg |-> idx[Len(chain) - owner], chain |-> [k \in DOMAIN chain |-> after(k)]]
  BY DEF ResolveUpvalue
<1>2. /\ n = Len(chain) /\ n \in Nat /\ n >= 1 /\ DOMAIN chain = 1..n
      /\ \A k \in 1..n : chain[k] \in Comp
  BY DEF Chained
<1>3. /\ o \in 1..n - 1 /\ Slots(chain[o], x) # {} /\ \A j \in o + 1..n : Slots(chain[j], x) = {}
      /\ Lasts(chain[o], x, l) /\ l \in 2..Len(chain[o].locals)
  BY DEF FoundAround
<1>4. owner = o
  <2>1. o \in Around(x)
    BY <1>2, <1>3 DEF Around
  <2>2. \A j \in Around(x) : j <= o
    <3> SUFFICES ASSUME NEW j \in Around(x)  PROVE j <= o
      OBVIOUS
    <3>1. j \in 1..n - 1 /\ Slots(chain[j], x) # {}
      BY <1>2 DEF Around
    <3>2. j \notin o + 1..n
      BY <1>3, <3>1
    <3> QED
      BY <1>2, <1>3, <3>1, <3>2
  <2>3. \A k \in Around(x) : k \in Nat
    BY <1>2 DEF Around
  <2>4. owner \in Around(x) /\ \A j \in Around(x) : j <= owner
    BY <2>1, <2>2, Zenon
  <2> HIDE DEF owner
  <2>5. owner <= o /\ o <= owner
    BY <2>1, <2>2, <2>4
  <2> QED
    BY <2>1, <2>3, <2>4, <2>5
<1>5. local = l - 1 /\ local + 1 = l /\ l \in Nat /\ l >= 1 /\ local \in Nat
  <2>1. o \in 1..n
    BY <1>2, <1>3
  <2>2. chain[o] \in Comp
    BY <1>2, <2>1
  <2>3. ResolveLocal(chain[o], x) = l - 1 /\ l \in Nat /\ l >= 1
    BY <1>3, <2>2, LastIs
  <2>4. local = l - 1
    BY <1>4, <2>3
  <2> QED
    BY <2>3, <2>4
<1>6. o \in Nat /\ o < n /\ n - o \in Nat
  BY <1>2, <1>3
<1> HIDE DEF owner, local
<1> DEFINE step == [p \in Nat \X Nat |-> IF owner + p[1] \in 1..n THEN next(p[1], p[2]) ELSE 0]
<1>7. step \in [Nat \X Nat -> Nat]
  <2> SUFFICES ASSUME NEW i \in Nat, NEW v \in Nat, owner + i \in 1..n  PROVE next(i, v) \in Nat
    OBVIOUS
  <2>1. chain[owner + i] \in Comp
    BY <1>2
  <2> QED
    BY <2>1, UpvalueIndexIs
<1>8. PICK f \in [0..n - o -> Nat] : Iterates(n - o, local, step, f)
  BY <1>5, <1>6, <1>7, Recursion
<1>9. Is(f)
  <2>0. \A i \in 0..n - o : i # 0 => i \in Nat /\ i - 1 \in 0..n - o /\ o + i \in 1..n
    BY <1>2, <1>3, <1>6
  <2>1. \A i \in 0..n - o : i # 0 => i \in Nat /\ f[i - 1] \in Nat /\ owner + i \in 1..n
    BY <1>4, <1>8, <2>0
  <2>2. \A i \in 0..n - o : i # 0 => step[<<i, f[i - 1]>>] = next(i, f[i - 1])
    BY <2>1
  <2> HIDE DEF step, next
  <2>3. f = [i \in 0..n - o |-> IF i = 0 THEN local ELSE step[<<i, f[i - 1]>>]]
    BY <1>8 DEF Iterates
  <2>4. \A i \in 0..n - o : (IF i = 0 THEN local ELSE step[<<i, f[i - 1]>>])
                              = (IF i = 0 THEN local ELSE next(i, f[i - 1]))
    BY <2>2
  <2>5. f = [i \in 0..n - o |-> IF i = 0 THEN local ELSE next(i, f[i - 1])]
    BY <2>3, <2>4
  <2>6. 0..n - o = 0..Len(chain) - owner
    BY <1>2, <1>4
  <2> QED
    BY <2>5, <2>6
<1>10. Is(idx)
  BY <1>9, Zenon
<1> HIDE DEF idx, after
<1>11. r.arg = idx[n - o] /\ r.chain = [k \in DOMAIN chain |-> after(k)]
  <2>1. Len(chain) - owner = n - o
    BY <1>2, <1>4
  <2> QED
    BY <1>1, <2>1
<1> USE DEF after
<1>12. /\ idx[0] = l - 1
       /\ \A i \in 1..n - o : idx[i] = UpvalueIndex(chain[o + i], idx[i - 1], i = 1)
  <2>1. \A i \in 0..n - o : idx[i] = IF i = 0 THEN local ELSE next(i, idx[i - 1])
    <3>1. idx = [i \in 0..Len(chain) - owner |-> IF i = 0 THEN local ELSE next(i, idx[i - 1])]
      BY <1>10
    <3>2. 0..n - o = 0..Len(chain) - owner
      BY <1>2, <1>4
    <3> HIDE DEF Is, next
    <3> QED
      BY <3>1, <3>2, Zenon
  <2>2. 0 \in 0..n - o /\ \A i \in 1..n - o : i \in 0..n - o /\ i # 0
    BY <1>6
  <2> HIDE DEF next, Is
  <2>3. idx[0] = local /\ \A i \in 1..n - o : idx[i] = next(i, idx[i - 1])
    BY <2>1, <2>2
  <2> QED
    BY <1>4, <1>5, <2>3 DEF next
<1> HIDE DEF Is, step, next
<1> DEFINE hs == r.chain
<1>13. \A k \in 1..n : hs[k] = IF k < o THEN chain[k]
           ELSE IF k = o THEN [chain[k] EXCEPT !.locals[l].captured = TRUE]
           ELSE AddUpvalue(chain[k], idx[k - o - 1], k = o + 1, d)
  <2> SUFFICES ASSUME NEW k \in 1..n
               PROVE  hs[k] = IF k < o THEN chain[k]
                   ELSE IF k = o THEN [chain[k] EXCEPT !.locals[l].captured = TRUE]
                   ELSE AddUpvalue(chain[k], idx[k - o - 1], k = o + 1, d)
    OBVIOUS
  <2>1. hs[k] = after(k)
    BY <1>2, <1>11
  <2> QED
    BY <1>4, <1>5, <2>1
<1>14. hs = [k \in 1..n |-> hs[k]]
  BY <1>2, <1>11
<1> HIDE DEF hs, after
<1>15. Hands(chain, n, o, l, d, idx, hs)
  BY <1>12, <1>13, <1>14 DEF Hands
<1>16. Hands(chain, n, o, l, d, idx, r.chain)
  BY <1>15 DEF hs
<1> QED
  BY <1>11, <1>16

LEMMA ResemblesItself ==
    ASSUME NEW c \in Comp, Limits(c)
    PROVE  Resembles(c, c)
  BY DEF Resembles

LEMMA CatchesIs ==
    ASSUME NEW c \in Comp, Limits(c), NEW l \in DOMAIN c.locals, NEW e, e \in Comp,
           Catches(c, l, e)
    PROVE  /\ Resembles(c, e) /\ e.f = c.f /\ e.locals[l].captured
           /\ \A m \in DOMAIN c.locals : m # l => e.locals[m].captured = c.locals[m].captured
<1>1. c.locals \in Seq(Local)
  BY DEF Comp
<1>2. PICK b : b = [c.locals[l] EXCEPT !.captured = TRUE]
  OBVIOUS
<1>3. c.locals[l] \in Local /\ \A m \in DOMAIN c.locals : c.locals[m] \in Local
  BY <1>1
<1>4. /\ b \in Local /\ b.captured /\ b.name = c.locals[l].name /\ b.decl = c.locals[l].decl
      /\ b.depth = c.locals[l].depth
  BY <1>2, <1>3 DEF Local
<1>5. PICK ls : ls = [c.locals EXCEPT ![l] = b]
  OBVIOUS
<1>6. /\ ls \in Seq(Local) /\ DOMAIN ls = DOMAIN c.locals /\ Len(ls) = Len(c.locals)
      /\ ls[l] = b /\ \A m \in DOMAIN c.locals : m # l => ls[m] = c.locals[m]
  BY <1>1, <1>4, <1>5
<1>7. e = [c EXCEPT !.locals = ls]
  BY <1>2, <1>5 DEF Catches
<1>8. e.locals = ls /\ e.f = c.f /\ e.scopeDepth = c.scopeDepth
  BY <1>7 DEF Comp
<1>9. \A m \in DOMAIN c.locals : /\ ls[m].name = c.locals[m].name
                                 /\ ls[m].decl = c.locals[m].decl
                                 /\ ls[m].depth = c.locals[m].depth
  <2> SUFFICES ASSUME NEW m \in DOMAIN c.locals
               PROVE  /\ ls[m].name = c.locals[m].name /\ ls[m].decl = c.locals[m].decl
                      /\ ls[m].depth = c.locals[m].depth
    OBVIOUS
  <2> QED
    BY <1>4, <1>6
<1>10. Limits(e)
  BY <1>6, <1>8, <1>9 DEF Limits
<1>11. Resembles(c, e)
  BY <1>6, <1>8, <1>9, <1>10 DEF Resembles
<1> QED
  BY <1>4, <1>6, <1>8, <1>11

LEMMA AddedResembles ==
    ASSUME NEW c, NEW i, NEW loc, NEW d, NEW e, NEW j, Added(c, i, loc, d, e, j)
    PROVE  Resembles(c, e)
  BY DEF Added, Resembles

LEMMA HandedResolved ==
    ASSUME NEW ch, NEW n, Chained(ch, n), NEW o, NEW l, NEW d, NEW idx, NEW hs,
           Handed(ch, n, o, l, d, idx, hs), l \in DOMAIN ch[o].locals
    PROVE  Resolved(ch, hs, n)
<1>1. /\ n = Len(ch) /\ n \in Nat /\ DOMAIN ch = 1..n
      /\ \A k \in 1..n : ch[k] \in Comp /\ Limits(ch[k])
  BY DEF Chained
<1>2. hs \in Seq(Comp) /\ Len(hs) = n /\ DOMAIN hs = 1..n /\ o \in 1..n - 1 /\ o \in 1..n
  BY <1>1 DEF Handed
<1>3. ASSUME NEW k \in 1..n  PROVE Resembles(ch[k], hs[k])
  <2>1. ch[k] \in Comp /\ Limits(ch[k])
    BY <1>1
  <2>2. CASE k \in 1..o - 1
    <3>1. hs[k] = ch[k]
      BY <2>2 DEF Handed
    <3> QED
      BY <2>1, <3>1, ResemblesItself
  <2>3. CASE k = o
    <3>1. hs[o] = [ch[o] EXCEPT !.locals[l].captured = TRUE] /\ hs[o] \in Comp
      BY DEF Handed
    <3>2. ch[o] \in Comp /\ Limits(ch[o])
      BY <1>1, <1>2
    <3>3. PICK e : e = hs[o]
      OBVIOUS
    <3>4. Catches(ch[o], l, e) /\ e \in Comp
      BY <3>1, <3>3 DEF Catches
    <3>5. Resembles(ch[o], e)
      BY <3>2, <3>4, CatchesIs
    <3> QED
      BY <2>3, <3>3, <3>5
  <2>4. CASE k \in o + 1..n
    <3>1. Added(ch[k], idx[k - o - 1], k = o + 1, d, hs[k], idx[k - o])
      BY <2>4 DEF Handed
    <3> QED
      BY <3>1, AddedResembles
  <2>5. k \in 1..o - 1 \/ k = o \/ k \in o + 1..n
    BY <1>1, <1>2
  <2> QED
    BY <2>2, <2>3, <2>4, <2>5
<1> QED
  BY <1>1, <1>2, <1>3 DEF Resolved

LEMMA JoinsResembles ==
    ASSUME NEW p, NEW q, Resembles(p, q), NEW u, Joins(p, u)
    PROVE  Joins(q, u)
<1>1. DOMAIN q.locals = DOMAIN p.locals
  BY DEF Resembles
<1>2. \A l \in DOMAIN p.locals : q.locals[l].decl = p.locals[l].decl
  BY DEF Resembles
<1>3. \A i \in DOMAIN p.f.upvalues : i \in DOMAIN q.f.upvalues /\ q.f.upvalues[i] = p.f.upvalues[i]
  BY DEF Resembles
<1>4. CASE u.isLocal
  <2>1. u.decl # Global /\ u.index + 1 \in DOMAIN p.locals /\ p.locals[u.index + 1].decl = u.decl
    BY <1>4 DEF Joins
  <2>2. q.locals[u.index + 1].decl = u.decl
    BY <1>2, <2>1
  <2> QED
    BY <1>1, <1>4, <2>1, <2>2 DEF Joins
<1>5. CASE ~ u.isLocal
  <2>1. /\ u.decl # Global /\ u.index + 1 \in DOMAIN p.f.upvalues
        /\ p.f.upvalues[u.index + 1].decl = u.decl
    BY <1>5 DEF Joins
  <2>2. u.index + 1 \in DOMAIN q.f.upvalues /\ q.f.upvalues[u.index + 1].decl = u.decl
    BY <1>3, <2>1
  <2> QED
    BY <1>5, <2>1, <2>2 DEF Joins
<1> QED
  BY <1>4, <1>5

LEMMA AddedGets ==
    ASSUME NEW c, NEW i, NEW loc, NEW d, NEW e, NEW j, Added(c, i, loc, d, e, j), ~ e.error,
           NEW p, NEW q, Resembles(p, q), Linkable(c, p), NEW v,
           v = [index |-> i, isLocal |-> loc, decl |-> d], Joins(q, v)
    PROVE  Gets(c, loc, d, e, j, q)
<1>1. /\ j + 1 \in DOMAIN e.f.upvalues
      /\ e.f.upvalues[j + 1].index = i /\ e.f.upvalues[j + 1].isLocal = loc
  BY DEF Added
<1>2. \A u \in DOMAIN c.f.upvalues : u \in DOMAIN e.f.upvalues /\ e.f.upvalues[u] = c.f.upvalues[u]
  BY DEF Added
<1>3. \A u \in DOMAIN e.f.upvalues : u \in DOMAIN c.f.upvalues \/ e.f.upvalues[u] = v
  BY DEF Added
<1>4. v.decl = d /\ v.isLocal = loc /\ v.index = i
  OBVIOUS
<1>5. ASSUME NEW u \in DOMAIN c.f.upvalues
      PROVE  Joins(q, e.f.upvalues[u]) /\ e.f.upvalues[u] = c.f.upvalues[u]
  <2>1. Joins(p, c.f.upvalues[u])
    BY DEF Linkable
  <2>2. e.f.upvalues[u] = c.f.upvalues[u]
    BY <1>2
  <2> QED
    BY <2>1, <2>2, JoinsResembles
<1>6. e.f.upvalues[j + 1].decl = d
  <2>1. CASE e.f.upvalues[j + 1] = v
    BY <1>4, <2>1
  <2>2. CASE j + 1 \in DOMAIN c.f.upvalues
    <3>1. PICK w : w = e.f.upvalues[j + 1]
      OBVIOUS
    <3>2. Joins(q, w) /\ w.index = i /\ w.isLocal = loc
      BY <1>1, <1>5, <2>2, <3>1
    <3>3. w.decl = v.decl
      BY <1>4, <3>2 DEF Joins
    <3> QED
      BY <1>4, <3>1, <3>3
  <2> QED
    BY <1>1, <1>3, <2>1, <2>2
<1>7. ASSUME NEW u \in DOMAIN e.f.upvalues
      PROVE  /\ Joins(q, e.f.upvalues[u])
             /\ \/ u \in DOMAIN c.f.upvalues /\ e.f.upvalues[u] = c.f.upvalues[u]
                \/ e.f.upvalues[u].decl = d /\ e.f.upvalues[u].isLocal = loc
  <2>1. CASE u \in DOMAIN c.f.upvalues
    BY <1>5, <2>1
  <2>2. CASE e.f.upvalues[u] = v
    BY <1>4, <2>2
  <2> QED
    BY <1>3, <2>1, <2>2
<1> QED
  BY <1>1, <1>6, <1>7 DEF Gets

LEMMA HandedGets ==
    ASSUME NEW ch, NEW n, Chained(ch, n), NEW o, NEW l, NEW d, NEW idx, NEW hs,
           Handed(ch, n, o, l, d, idx, hs), l \in DOMAIN ch[o].locals, l \in Nat,
           ch[o].locals[l].decl = d, d # Global, ~ Fault(hs), Linked(ch)
    PROVE  \A k \in o + 1..n : Gets(ch[k], k = o + 1, d, hs[k], idx[k - o], hs[k - 1])
<1>1. /\ n = Len(ch) /\ n \in Nat /\ DOMAIN ch = 1..n /\ DOMAIN hs = 1..n /\ o \in 1..n - 1
      /\ o \in 1..n /\ o \in Nat /\ o >= 1 /\ o < n /\ n - o \in Nat
  BY DEF Handed, Chained
<1>2. \A k \in 1..n : Resembles(ch[k], hs[k])
  BY HandedResolved DEF Resolved
<1>3. \A k \in 2..n : Linkable(ch[k], ch[k - 1])
  BY <1>1 DEF Linked, Linkable
<1>4. ASSUME NEW k \in o + 1..n, NEW i, i = idx[k - o - 1], NEW loc, loc = (k = o + 1),
             Joins(hs[k - 1], [index |-> i, isLocal |-> loc, decl |-> d])
      PROVE  Gets(ch[k], loc, d, hs[k], idx[k - o], hs[k - 1])
  <2>1. k \in 1..n /\ k \in 2..n /\ k - 1 \in 1..n
    BY <1>1
  <2>2. Added(ch[k], i, loc, d, hs[k], idx[k - o])
    BY <1>4 DEF Handed
  <2>3. ~ hs[k].error
    BY <1>1, <2>1 DEF Fault
  <2>4. Resembles(ch[k - 1], hs[k - 1]) /\ Linkable(ch[k], ch[k - 1])
    BY <1>2, <1>3, <2>1
  <2> QED
    BY <1>4, <2>2, <2>3, <2>4, AddedGets
<1> DEFINE S == { i \in Nat : i + 1 <= n - o =>
                    Gets(ch[o + i + 1], i = 0, d, hs[o + i + 1], idx[i + 1], hs[o + i]) }
<1>5. 0 \in S
  <2>1. PICK k \in o + 1..n : k = o + 1
    BY <1>1
  <2>2. k - o - 1 = 0 /\ k - 1 = o /\ k - o = 0 + 1 /\ o + 0 + 1 = k /\ o + 0 = o /\ (k = o + 1)
    BY <1>1, <2>1
  <2>3. PICK v : v = [index |-> l - 1, isLocal |-> TRUE, decl |-> d]
    OBVIOUS
  <2>4. v.index + 1 = l /\ v.isLocal /\ v.decl = d
    BY <2>3
  <2>5. Joins(ch[o], v)
    BY <2>4 DEF Joins
  <2>6. Joins(hs[o], v)
    BY <1>1, <1>2, <2>5, JoinsResembles
  <2>7. idx[k - o - 1] = l - 1
    BY <2>2 DEF Handed
  <2>8. Gets(ch[k], TRUE, d, hs[k], idx[k - o], hs[k - 1])
    BY <1>4, <2>2, <2>3, <2>6, <2>7
  <2>9. Gets(ch[o + 0 + 1], 0 = 0, d, hs[o + 0 + 1], idx[0 + 1], hs[o + 0])
    BY <2>2, <2>8
  <2> QED
    BY <2>9
<1>6. ASSUME NEW i \in Nat, i \in S  PROVE i + 1 \in S
  <2> SUFFICES ASSUME (i + 1) + 1 <= n - o
               PROVE  Gets(ch[o + (i + 1) + 1], i + 1 = 0, d, hs[o + (i + 1) + 1], idx[(i + 1) + 1], hs[o + (i + 1)])
    OBVIOUS
  <2>1. i + 1 <= n - o
    BY <1>1
  <2>2. PICK k \in o + 1..n : k = o + (i + 1) + 1
    BY <1>1
  <2>3. /\ k - o - 1 = i + 1 /\ k - 1 = o + (i + 1) /\ k - o = (i + 1) + 1 /\ k # o + 1
        /\ o + i + 1 = o + (i + 1) /\ i + 1 # 0 /\ k - 1 = o + i + 1
    BY <1>1, <2>2
  <2>4. Gets(ch[o + i + 1], i = 0, d, hs[o + i + 1], idx[i + 1], hs[o + i])
    BY <1>6, <2>1
  <2>5. PICK j : j = idx[i + 1]
    OBVIOUS
  <2>6. j + 1 \in DOMAIN hs[k - 1].f.upvalues /\ hs[k - 1].f.upvalues[j + 1].decl = d
    BY <2>3, <2>4, <2>5 DEF Gets
  <2>7. PICK v : v = [index |-> j, isLocal |-> FALSE, decl |-> d]
    OBVIOUS
  <2>8. v.index = j /\ ~ v.isLocal /\ v.decl = d
    BY <2>7
  <2>9. Joins(hs[k - 1], v)
    BY <2>6, <2>8 DEF Joins
  <2>10. idx[k - o - 1] = j
    BY <2>3, <2>5
  <2>11. Gets(ch[k], FALSE, d, hs[k], idx[k - o], hs[k - 1])
    BY <1>4, <2>3, <2>7, <2>9, <2>10
  <2>12. PICK m : m = o + (i + 1)
    OBVIOUS
  <2>13. Gets(ch[m + 1], FALSE, d, hs[m + 1], idx[(i + 1) + 1], hs[m])
    BY <2>2, <2>3, <2>11, <2>12
  <2>14. (i + 1 = 0) = FALSE
    BY <2>3
  <2> QED
    BY <2>12, <2>13, <2>14
<1> HIDE DEF S
<1>7. \A i \in Nat : i \in S
  BY <1>5, <1>6, Induction
<1> SUFFICES ASSUME NEW k \in o + 1..n
             PROVE  Gets(ch[k], k = o + 1, d, hs[k], idx[k - o], hs[k - 1])
  OBVIOUS
<1>8. PICK i \in Nat : i = k - o - 1
  BY <1>1
<1>9. i + 1 <= n - o /\ o + i + 1 = k /\ i + 1 = k - o /\ o + i = k - 1 /\ (i = 0) = (k = o + 1)
  BY <1>1, <1>8
<1>10. Gets(ch[o + i + 1], i = 0, d, hs[o + i + 1], idx[i + 1], hs[o + i])
  BY <1>7, <1>9 DEF S
<1> QED
  BY <1>9, <1>10

LEMMA HandedSpread ==
    ASSUME NEW ch, NEW n, Chained(ch, n), NEW o, NEW l, NEW d, NEW idx, NEW hs,
           Handed(ch, n, o, l, d, idx, hs), l \in 2..Len(ch[o].locals),
           ch[o].locals[l].decl = d, d # Global, ~ Fault(hs), Linked(ch)
    PROVE  Spread(ch, hs, n, o, l, d)
<1>1. /\ n = Len(ch) /\ n \in Nat /\ DOMAIN ch = 1..n /\ DOMAIN hs = 1..n /\ Len(hs) = n
      /\ o \in 1..n - 1 /\ o \in 1..n /\ o \in Nat /\ o >= 1 /\ o < n /\ n >= 2 /\ o + 1 \in 1..n
      /\ o + 1 \in o + 1..n
  BY DEF Handed, Chained
<1>2. \A k \in 1..n : ch[k] \in Comp /\ Limits(ch[k])
  BY DEF Chained
<1>3. l \in DOMAIN ch[o].locals /\ l \in Nat
  <2>1. ch[o] \in Comp
    BY <1>1, <1>2
  <2>2. Len(ch[o].locals) \in Nat /\ DOMAIN ch[o].locals = 1..Len(ch[o].locals)
    BY <2>1, CompIs
  <2> QED
    BY <2>2
<1>4. \A k \in 1..n : Resembles(ch[k], hs[k])
  BY <1>3, HandedResolved DEF Resolved
<1>5. \A k \in o + 1..n : Gets(ch[k], k = o + 1, d, hs[k], idx[k - o], hs[k - 1])
  BY <1>3, HandedGets
<1>6. /\ hs[o].f = ch[o].f /\ hs[o].locals[l].captured
      /\ \A m \in DOMAIN ch[o].locals : m # l => hs[o].locals[m].captured = ch[o].locals[m].captured
  <2>1. hs[o] = [ch[o] EXCEPT !.locals[l].captured = TRUE] /\ hs[o] \in Comp
    BY DEF Handed
  <2>2. Catches(ch[o], l, hs[o])
    BY <2>1 DEF Catches
  <2>3. ch[o] \in Comp /\ Limits(ch[o]) /\ hs[o] \in Comp
    BY <1>1, <1>2, <2>1
  <2> QED
    BY <1>3, <2>2, <2>3, CatchesIs
<1>7. \A k \in 1..o - 1 : hs[k] = ch[k]
  BY DEF Handed
<1>8. \A k \in o + 1..n : hs[k].locals = ch[k].locals
  BY DEF Handed, Added
<1>9. \A k \in 1..o : hs[k].f = ch[k].f
  BY <1>1, <1>6, <1>7
<1>10. ASSUME NEW k \in 1..n, NEW m \in 2..Len(ch[k].locals), k # o \/ m # l
       PROVE  hs[k].locals[m].captured = ch[k].locals[m].captured
  <2>1. k \in 1..o - 1 \/ k = o \/ k \in o + 1..n
    BY <1>1
  <2>2. m \in DOMAIN ch[k].locals
    <3>1. ch[k] \in Comp
      BY <1>2
    <3>2. Len(ch[k].locals) \in Nat /\ DOMAIN ch[k].locals = 1..Len(ch[k].locals)
      BY <3>1, CompIs
    <3> QED
      BY <3>2
  <2> QED
    BY <1>6, <1>7, <1>8, <1>10, <2>1, <2>2
<1>11. hs[1].f.upvalues = ch[1].f.upvalues
  <2>1. 1 \in 1..o
    BY <1>1
  <2> QED
    BY <1>9, <2>1
<1>12. ASSUME NEW k \in 2..n  PROVE Linkable(hs[k], hs[k - 1])
  <2>1. CASE k \in 2..o
    <3>1. k \in 1..o /\ k - 1 \in 1..n
      BY <1>1, <2>1
    <3>2. Linkable(ch[k], ch[k - 1])
      BY <1>1 DEF Linked, Linkable
    <3>3. hs[k].f = ch[k].f /\ Resembles(ch[k - 1], hs[k - 1])
      BY <1>4, <1>9, <3>1
    <3>4. \A u \in DOMAIN ch[k].f.upvalues : Joins(hs[k - 1], ch[k].f.upvalues[u])
      BY <3>2, <3>3, JoinsResembles DEF Linkable
    <3> QED
      BY <3>3, <3>4 DEF Linkable
  <2>2. CASE k \in o + 1..n
    BY <1>5, <2>2 DEF Gets, Linkable
  <2> QED
    BY <1>1, <2>1, <2>2
<1>13. ASSUME NEW k \in 1..n, NEW u \in DOMAIN hs[k].f.upvalues
       PROVE  \/ u \in DOMAIN ch[k].f.upvalues /\ hs[k].f.upvalues[u] = ch[k].f.upvalues[u]
              \/ hs[k].f.upvalues[u].decl = d
  <2>1. CASE k \in 1..o
    BY <1>9, <2>1
  <2>2. CASE k \in o + 1..n
    BY <1>5, <2>2 DEF Gets
  <2> QED
    BY <1>1, <2>1, <2>2
<1>14. Captures(hs[o + 1].f, d)
  <2>1. PICK k \in o + 1..n : k = o + 1
    BY <1>1
  <2>2. PICK j : j = idx[k - o]
    OBVIOUS
  <2>3. Gets(ch[k], k = o + 1, d, hs[k], j, hs[k - 1])
    BY <1>5, <2>2
  <2>4. /\ j + 1 \in DOMAIN hs[o + 1].f.upvalues /\ hs[o + 1].f.upvalues[j + 1].decl = d
        /\ hs[o + 1].f.upvalues[j + 1].isLocal
    BY <2>1, <2>3 DEF Gets
  <2> QED
    BY <2>4 DEF Captures
<1> QED
  BY <1>1, <1>4, <1>6, <1>10, <1>11, <1>12, <1>13, <1>14 DEF Spread

\* What every function has of the others before, it has after.
LEMMA SpreadApart ==
    ASSUME NEW ch, NEW hs, NEW n, NEW o, NEW l, NEW d, Spread(ch, hs, n, o, l, d)
    PROVE  \A k \in 1..n : /\ Len(hs[k].locals) = Len(ch[k].locals)
                           /\ \A m \in 2..Len(ch[k].locals) : hs[k].locals[m].decl = ch[k].locals[m].decl
<1> SUFFICES ASSUME NEW k \in 1..n
             PROVE  /\ Len(hs[k].locals) = Len(ch[k].locals)
                    /\ \A m \in 2..Len(ch[k].locals) : hs[k].locals[m].decl = ch[k].locals[m].decl
  OBVIOUS
<1>1. Resembles(ch[k], hs[k])
  BY DEF Spread
<1>2. hs[k] \in Comp
  BY <1>1 DEF Resembles
<1>3. Len(hs[k].locals) \in Nat /\ DOMAIN hs[k].locals = 1..Len(hs[k].locals)
  BY <1>2, CompIs
<1>4. Len(hs[k].locals) = Len(ch[k].locals) /\ DOMAIN hs[k].locals = DOMAIN ch[k].locals
  BY <1>1 DEF Resembles
<1>5. \A m \in 2..Len(ch[k].locals) : m \in DOMAIN ch[k].locals
  BY <1>3, <1>4
<1> QED
  BY <1>1, <1>4, <1>5 DEF Resembles

LEMMA SpreadTaken ==
    ASSUME NEW ch, NEW hs, NEW n, NEW o, NEW l, NEW d, Spread(ch, hs, n, o, l, d), NEW ds, NEW x
    PROVE  Taken(hs, ds, x) <=> Taken(ch, ds, x) \/ x = d
<1>1. /\ DOMAIN ch = 1..n /\ DOMAIN hs = 1..n /\ o + 1 \in 1..n
      /\ \A k \in 1..n : Resembles(ch[k], hs[k])
      /\ Captures(hs[o + 1].f, d)
  BY DEF Spread
<1>2. ASSUME Taken(ch, ds, x)  PROVE Taken(hs, ds, x)
  <2>1. PICK g \in Everyone(ch, ds) : Captures(g, x)
    BY <1>2 DEF Taken
  <2>2. CASE g \in { ds[i] : i \in DOMAIN ds }
    <3>1. g \in Everyone(hs, ds)
      BY <2>2 DEF Everyone
    <3> QED
      BY <2>1, <3>1 DEF Taken
  <2>3. CASE g \in { ch[k].f : k \in DOMAIN ch }
    <3>1. PICK k \in 1..n : g = ch[k].f
      BY <1>1, <2>3
    <3>2. hs[k].f \in Everyone(hs, ds)
      BY <1>1 DEF Everyone
    <3>3. Captures(hs[k].f, x)
      BY <1>1, <2>1, <3>1 DEF Captures, Resembles
    <3> QED
      BY <3>2, <3>3 DEF Taken
  <2> QED
    BY <2>2, <2>3 DEF Everyone
<1>3. ASSUME x = d  PROVE Taken(hs, ds, x)
  <2>1. hs[o + 1].f \in Everyone(hs, ds)
    BY <1>1 DEF Everyone
  <2> QED
    BY <1>1, <1>3, <2>1 DEF Taken
<1>4. ASSUME Taken(hs, ds, x)  PROVE Taken(ch, ds, x) \/ x = d
  <2>1. PICK g \in Everyone(hs, ds) : Captures(g, x)
    BY <1>4 DEF Taken
  <2>2. CASE g \in { ds[i] : i \in DOMAIN ds }
    <3>1. g \in Everyone(ch, ds)
      BY <2>2 DEF Everyone
    <3> QED
      BY <2>1, <3>1 DEF Taken
  <2>3. CASE g \in { hs[k].f : k \in DOMAIN hs }
    <3>1. PICK k \in 1..n : g = hs[k].f
      BY <1>1, <2>3
    <3>2. PICK u \in DOMAIN hs[k].f.upvalues : /\ hs[k].f.upvalues[u].isLocal
                                               /\ hs[k].f.upvalues[u].decl = x
      BY <2>1, <3>1 DEF Captures
    <3>3. \/ u \in DOMAIN ch[k].f.upvalues /\ hs[k].f.upvalues[u] = ch[k].f.upvalues[u]
          \/ hs[k].f.upvalues[u].decl = d
      BY DEF Spread
    <3>4. CASE u \in DOMAIN ch[k].f.upvalues /\ hs[k].f.upvalues[u] = ch[k].f.upvalues[u]
      <4>1. Captures(ch[k].f, x)
        BY <3>2, <3>4 DEF Captures
      <4>2. ch[k].f \in Everyone(ch, ds)
        BY <1>1 DEF Everyone
      <4> QED
        BY <4>1, <4>2 DEF Taken
    <3> QED
      BY <3>2, <3>3, <3>4
  <2> QED
    BY <2>2, <2>3 DEF Everyone
<1> QED
  BY <1>2, <1>3, <1>4

LEMMA SpreadTied ==
    ASSUME NEW ch, NEW hs, NEW n, NEW o, NEW l, NEW d, Spread(ch, hs, n, o, l, d), NEW ds, NEW dc,
           d \in 1..dc, Tied(ch, ds, dc)
    PROVE  Tied(hs, ds, dc)
<1>1. /\ n \in Nat /\ n >= 2 /\ DOMAIN ch = 1..n /\ DOMAIN hs = 1..n /\ Len(hs) = n /\ Len(ch) = n
      /\ \A k \in 1..n : Resembles(ch[k], hs[k])
      /\ o \in 1..n /\ l \in 2..Len(ch[o].locals) /\ ch[o].locals[l].decl = d
      /\ hs[o].locals[l].captured
  BY DEF Spread
<1>2. \A k \in 1..n : /\ Len(hs[k].locals) = Len(ch[k].locals)
                      /\ \A m \in 2..Len(ch[k].locals) : hs[k].locals[m].decl = ch[k].locals[m].decl
  BY SpreadApart
<1>3. \A x : Taken(hs, ds, x) <=> Taken(ch, ds, x) \/ x = d
  BY SpreadTaken
<1>4. Apart(ch) /\ Linked(ch) /\ Flagged(ch, ds, dc) /\ \A g \in Everyone(ch, ds) : Closed(ch, ds, g)
  BY DEF Tied
<1>5. Apart(hs)
  <2> SUFFICES ASSUME NEW k \in 1..n, NEW m \in 2..Len(hs[k].locals),
                      NEW k2 \in 1..n, NEW m2 \in 2..Len(hs[k2].locals),
                      hs[k].locals[m].decl = hs[k2].locals[m2].decl
               PROVE  k = k2 /\ m = m2
    BY <1>1 DEF Apart
  <2>1. m \in 2..Len(ch[k].locals) /\ m2 \in 2..Len(ch[k2].locals)
    BY <1>2
  <2>2. ch[k].locals[m].decl = ch[k2].locals[m2].decl
    BY <1>2, <2>1
  <2>3. k \in DOMAIN ch /\ k2 \in DOMAIN ch
    BY <1>1
  <2> QED
    BY <1>4, <2>1, <2>2, <2>3, Zenon DEF Apart
<1>6. Linked(hs)
  <2>1. hs[1].f.upvalues = <<>>
    BY <1>4 DEF Spread, Linked
  <2>2. \A k \in 2..n : Linkable(hs[k], hs[k - 1])
    BY DEF Spread
  <2> QED
    BY <1>1, <2>1, <2>2 DEF Linked, Linkable
<1>7. ASSUME NEW k \in 1..n, NEW m \in 2..Len(hs[k].locals)
      PROVE  hs[k].locals[m].captured <=> Taken(hs, ds, hs[k].locals[m].decl)
  <2>1. m \in 2..Len(ch[k].locals) /\ hs[k].locals[m].decl = ch[k].locals[m].decl
    BY <1>2
  <2>2. ch[k].locals[m].captured <=> Taken(ch, ds, ch[k].locals[m].decl)
    BY <1>1, <1>4, <2>1 DEF Flagged
  <2>3. CASE k = o /\ m = l
    BY <1>1, <1>3, <2>1, <2>3
  <2>4. CASE k # o \/ m # l
    <3>1. hs[k].locals[m].captured = ch[k].locals[m].captured
      BY <2>1, <2>4 DEF Spread
    <3>2. ch[k].locals[m].decl # d
      <4>1. k \in DOMAIN ch /\ o \in DOMAIN ch /\ ch[o].locals[l].decl = d /\ l \in 2..Len(ch[o].locals)
        BY <1>1
      <4>2. ch[k].locals[m].decl = ch[o].locals[l].decl => k = o /\ m = l
        BY <1>4, <2>1, <4>1, Zenon DEF Apart
      <4> QED
        BY <2>4, <4>1, <4>2
    <3> QED
      BY <1>3, <2>1, <2>2, <3>1, <3>2
  <2> QED
    BY <2>3, <2>4
<1>8. ASSUME NEW g \in Everyone(hs, ds), NEW u \in DOMAIN g.upvalues  PROVE g.upvalues[u].decl \in 1..dc
  <2>1. CASE g \in { ds[i] : i \in DOMAIN ds }
    <3>1. g \in Everyone(ch, ds)
      BY <2>1 DEF Everyone
    <3> QED
      BY <1>4, <3>1 DEF Flagged
  <2>2. CASE g \in { hs[k].f : k \in DOMAIN hs }
    <3>1. PICK k \in 1..n : g = hs[k].f
      BY <1>1, <2>2
    <3>2. \/ u \in DOMAIN ch[k].f.upvalues /\ hs[k].f.upvalues[u] = ch[k].f.upvalues[u]
          \/ hs[k].f.upvalues[u].decl = d
      BY <3>1 DEF Spread
    <3>3. ch[k].f \in Everyone(ch, ds)
      BY <1>1 DEF Everyone
    <3> QED
      BY <1>4, <3>1, <3>2, <3>3 DEF Flagged
  <2> QED
    BY <2>1, <2>2 DEF Everyone
<1>9. ASSUME NEW f, NEW g, Closed(ch, ds, f), g.gone = f.gone, g.code = f.code
      PROVE  Closed(hs, ds, g)
  <2> SUFFICES ASSUME NEW m \in g.gone
               PROVE  /\ \A k \in 1..n : \A i \in 2..Len(hs[k].locals) : hs[k].locals[i].decl # m.decl
                      /\ Operation(g, m.at) = "CLOSE_UPVALUE" <=> Taken(hs, ds, m.decl)
    BY <1>1 DEF Closed
  <2>1. /\ \A k \in 1..n : \A i \in 2..Len(ch[k].locals) : ch[k].locals[i].decl # m.decl
        /\ Operation(f, m.at) = "CLOSE_UPVALUE" <=> Taken(ch, ds, m.decl)
    BY <1>1, <1>9 DEF Closed
  <2>2. m.decl # d
    BY <1>1, <2>1
  <2>3. Operation(g, m.at) = Operation(f, m.at)
    BY <1>9 DEF Operation, Instruction
  <2>4. ASSUME NEW k \in 1..n, NEW i \in 2..Len(hs[k].locals)  PROVE hs[k].locals[i].decl # m.decl
    BY <1>2, <2>1
  <2>5. Operation(g, m.at) = "CLOSE_UPVALUE" <=> Taken(hs, ds, m.decl)
    BY <1>3, <2>1, <2>2, <2>3
  <2> QED
    BY <2>4, <2>5
<1>10. ASSUME NEW g \in Everyone(hs, ds)  PROVE Closed(hs, ds, g)
  <2>1. CASE g \in { ds[i] : i \in DOMAIN ds }
    <3>1. g \in Everyone(ch, ds)
      BY <2>1 DEF Everyone
    <3>2. Closed(ch, ds, g)
      BY <1>4, <3>1
    <3> QED
      BY <1>9, <3>2
  <2>2. CASE g \in { hs[k].f : k \in DOMAIN hs }
    <3>1. PICK k \in 1..n : g = hs[k].f
      BY <1>1, <2>2
    <3>2. ch[k].f \in Everyone(ch, ds)
      BY <1>1 DEF Everyone
    <3>3. Closed(ch, ds, ch[k].f)
      BY <1>4, <3>2
    <3>4. hs[k].f.gone = ch[k].f.gone /\ hs[k].f.code = ch[k].f.code
      BY <1>1 DEF Resembles
    <3> QED
      BY <1>9, <3>1, <3>3, <3>4
  <2> QED
    BY <2>1, <2>2 DEF Everyone
<1>11. Flagged(hs, ds, dc)
  BY <1>1, <1>7, <1>8 DEF Flagged
<1> QED
  BY <1>5, <1>6, <1>10, <1>11 DEF Tied

LEMMA ReadyChained ==
    ASSUME NEW ch, NEW wk, NEW ds, NEW en, NEW dc, NEW ctx, NEW maps,
           Ready(ch, wk, ds, en, dc, ctx, maps), NEW n, n = Len(ch)
    PROVE  /\ Chained(ch, n) /\ Tied(ch, ds, dc) /\ Resolved(ch, ch, n) /\ dc \in Nat /\ dc <= MaxDecl
           /\ MaxDecl \in Nat /\ Sane(ctx[1])
<1>1. Types(ch, wk, ds, en, dc) /\ Good(ch, wk, ds, en, dc, ctx, maps)
  BY DEF Ready
<1>2. /\ ch \in Seq(Comp) /\ n \in Nat /\ DOMAIN ch = 1..n /\ n >= 1
      /\ \A k \in DOMAIN ch : ch[k] \in Comp
      /\ Sane(ctx[1])
  BY <1>1, GoodIs
<1>3. \A k \in DOMAIN ch : Limits(ch[k])
  BY <1>1 DEF Types
<1>4. MaxDecl \in Nat
  BY CompilerConstants
<1>5. dc \in 0..MaxDecl
  BY <1>1 DEF Types
<1>6. Tied(ch, ds, dc)
  BY <1>1 DEF Good
<1>7. Chained(ch, n)
  BY <1>2, <1>3 DEF Chained
<1>8. \A k \in 1..n : Resembles(ch[k], ch[k])
  BY <1>2, <1>3, ResemblesItself
<1>9. Resolved(ch, ch, n)
  BY <1>2, <1>8 DEF Resolved
<1> QED
  BY <1>2, <1>4, <1>5, <1>6, <1>7, <1>9

\* A local variable of the function.
LEMMA ResolveHere ==
    ASSUME NEW wk, NEW ds, NEW dc, NEW ctx, NEW maps,
           Ready(chain, wk, ds, envs, dc, ctx, maps), NEW x \in Name, NEW n, n = Len(chain),
           NEW d, Refer(chain, envs, dc, n, ctx[1], x, d), d \in 0..Itself,
           NEW r, r = Resolve(x), Slots(chain[n], x) # {}
    PROVE  Resolution(chain, n, ctx[1], d, r, r.chain, ds, dc)
<1>1. /\ Tied(chain, ds, dc) /\ Resolved(chain, chain, n) /\ Sane(ctx[1])
      /\ n \in 1..n /\ chain[n] \in Comp /\ Locals(chain[n], dc)
  <2>1. n \in Nat /\ n >= 1 /\ \A k \in 1..n : chain[k] \in Comp /\ Locals(chain[k], dc)
    BY DEF Refer
  <2> QED
    BY <2>1, ReadyChained
<1>2. PICK l : FoundHere(chain[n], dc, ctx[1], x, d, l)
  BY ReferHere
<1>3. /\ Lasts(chain[n], x, l)
      /\ d = Itself \/ (l <= ctx[1].vars /\ l \in Slot /\ chain[n].locals[l].decl = d /\ d \in 1..dc)
  BY <1>2 DEF FoundHere
<1>4. ResolveLocal(chain[n], x) = l - 1 /\ l \in Nat /\ l >= 1
  BY <1>1, <1>3, LastIs
<1>5. r = [get |-> "GET_LOCAL", set |-> "SET_LOCAL", arg |-> ResolveLocal(chain[n], x), chain |-> chain]
  BY DEF Resolve, Current
<1>6. r.get = "GET_LOCAL" /\ r.set = "SET_LOCAL" /\ r.chain = chain /\ r.arg = l - 1
  BY <1>4, <1>5
<1>7. r.arg + 1 = l /\ r.arg \in Nat
  BY <1>4, <1>6
<1>8. ctx[1].vars \in Nat /\ d \in 1..dc => d # Global
  BY <1>1, Points DEF Global
<1>9. l <= ctx[1].vars => l \in 1..ctx[1].vars
  <2>1. ctx[1].vars \in Nat
    BY <1>1, Points
  <2> QED
    BY <1>4, <2>1
<1>10. \/ d = Itself
       \/ /\ r.arg + 1 \in 1..ctx[1].vars /\ r.arg + 1 \in Slot /\ d # Global
          /\ chain[n].locals[r.arg + 1].decl = d
  <2>1. d \in 1..dc => d # Global
    BY DEF Global
  <2> QED
    BY <1>3, <1>7, <1>9, <2>1
<1> QED
  BY <1>1, <1>6, <1>7, <1>10 DEF Resolution

\* A local variable of a function around.
LEMMA ResolveAround ==
    ASSUME NEW wk, NEW ds, NEW dc, NEW ctx, NEW maps,
           Ready(chain, wk, ds, envs, dc, ctx, maps), NEW x \in Name, NEW n, n = Len(chain),
           NEW d, Refer(chain, envs, dc, n, ctx[1], x, d), d = Means(x), d \in 0..Itself,
           NEW r, r = Resolve(x), Slots(chain[n], x) = {}, Around(x) # {}
    PROVE  Resolution(chain, n, ctx[1], d, r, r.chain, ds, dc)
<1>1. /\ Chained(chain, n) /\ Tied(chain, ds, dc) /\ dc \in Nat /\ dc <= MaxDecl /\ MaxDecl \in Nat
  BY ReadyChained
<1>2. PICK k \in 1..n - 1 : Slots(chain[k], x) # {}
  BY DEF Around
<1>3. \E o, l : FoundAround(chain, dc, n, x, d, o, l)
  BY <1>2, ReferAround
<1>4. PICK o, l : FoundAround(chain, dc, n, x, d, o, l)
  BY <1>3
<1>5. /\ o \in 1..n - 1 /\ l \in 2..Len(chain[o].locals) /\ chain[o].locals[l].decl = d /\ d \in 1..dc
      /\ n \in Nat /\ n >= 1 /\ \A j \in 1..n : chain[j] \in Comp
  BY <1>1, <1>4 DEF FoundAround, Chained
<1>6. d \in 1..MaxDecl /\ d # Global /\ o \in 1..n /\ n \in o + 1..n
  BY <1>1, <1>5 DEF Global
<1>7. l \in Nat /\ l >= 1 /\ l \in DOMAIN chain[o].locals
  <2>1. chain[o] \in Comp
    BY <1>5, <1>6
  <2>2. Len(chain[o].locals) \in Nat /\ DOMAIN chain[o].locals = 1..Len(chain[o].locals)
    BY <2>1, CompIs
  <2> QED
    BY <1>5, <2>2
<1>8. PICK u : u = ResolveUpvalue(x)
  OBVIOUS
<1>9. r = [get |-> "GET_UPVALUE", set |-> "SET_UPVALUE", arg |-> u.arg, chain |-> u.chain]
  BY <1>8 DEF Resolve, Current
<1>10. r.get = "GET_UPVALUE" /\ r.set = "SET_UPVALUE" /\ r.chain = u.chain /\ r.arg = u.arg
  BY <1>9
<1>11. \E idx : Hands(chain, n, o, l, d, idx, u.chain) /\ u.arg = idx[n - o]
  BY <1>1, <1>4, <1>8, ResolveUpvalueIs
<1>12. PICK idx : Hands(chain, n, o, l, d, idx, u.chain) /\ u.arg = idx[n - o]
  BY <1>11
<1>13. PICK hs : hs = u.chain
  OBVIOUS
<1>14. Handed(chain, n, o, l, d, idx, hs)
  <2>1. Hands(chain, n, o, l, d, idx, hs)
    BY <1>12, <1>13
  <2> QED
    BY <1>1, <1>5, <1>6, <1>7, <2>1, HandsIs
<1>15. Resolved(chain, hs, n)
  BY <1>1, <1>7, <1>14, HandedResolved
<1>16. r.arg \in Nat
  <2>1. n - o \in 0..n - o
    BY <1>5
  <2>2. idx[n - o] \in Nat
    BY <1>14, <2>1 DEF Handed
  <2> QED
    BY <1>10, <1>12, <2>2
<1>17. Linked(chain)
  BY <1>1 DEF Tied
<1>18. ~ Fault(hs) => Tied(hs, ds, dc)
  <2> SUFFICES ASSUME ~ Fault(hs)  PROVE Tied(hs, ds, dc)
    OBVIOUS
  <2>1. Spread(chain, hs, n, o, l, d)
    BY <1>1, <1>5, <1>6, <1>14, <1>17, HandedSpread
  <2> QED
    BY <1>1, <1>5, <2>1, SpreadTied
<1>19. ~ Fault(hs) => r.arg + 1 \in DOMAIN hs[n].f.upvalues /\ hs[n].f.upvalues[r.arg + 1].decl = d
  <2> SUFFICES ASSUME ~ Fault(hs)
               PROVE  r.arg + 1 \in DOMAIN hs[n].f.upvalues /\ hs[n].f.upvalues[r.arg + 1].decl = d
    OBVIOUS
  <2>1. \A j \in o + 1..n : Gets(chain[j], j = o + 1, d, hs[j], idx[j - o], hs[j - 1])
    BY <1>1, <1>5, <1>6, <1>7, <1>14, <1>17, HandedGets
  <2>2. PICK j : j = idx[n - o]
    OBVIOUS
  <2>3. Gets(chain[n], n = o + 1, d, hs[n], j, hs[n - 1])
    BY <1>6, <2>1, <2>2
  <2>4. j = r.arg
    BY <1>10, <1>12, <2>2
  <2> QED
    BY <2>3, <2>4 DEF Gets
<1>20. hs = r.chain
  BY <1>10, <1>13
<1>21. Resolution(chain, n, ctx[1], d, r, hs, ds, dc)
  BY <1>6, <1>10, <1>15, <1>16, <1>18, <1>19, <1>20 DEF Resolution
<1> QED
  BY <1>20, <1>21

\* A global variable.
LEMMA ResolveGlobal ==
    ASSUME NEW wk, NEW ds, NEW dc, NEW ctx, NEW maps,
           Ready(chain, wk, ds, envs, dc, ctx, maps), NEW x \in Name, NEW n, n = Len(chain),
           NEW d, Refer(chain, envs, dc, n, ctx[1], x, d), d \in 0..Itself,
           NEW r, r = Resolve(x), Slots(chain[n], x) = {}, Around(x) = {}
    PROVE  Resolution(chain, n, ctx[1], d, r, r.chain, ds, dc)
<1>1. /\ Chained(chain, n) /\ Tied(chain, ds, dc) /\ Resolved(chain, chain, n)
  BY ReadyChained
<1>2. /\ n \in Nat /\ n >= 1 /\ DOMAIN chain = 1..n /\ n \in 1..n /\ chain \in Seq(Comp)
      /\ \A k \in 1..n : chain[k] \in Comp /\ Limits(chain[k])
  BY <1>1 DEF Chained
<1>3. d = Global
  <2>1. \A k \in 1..n - 1 : Slots(chain[k], x) = {}
    BY DEF Around
  <2> QED
    BY <2>1, ReferGlobal
<1>4. PICK c : c = chain[n]
  OBVIOUS
<1>5. PICK e : e = MakeConstant(c, Global)
  OBVIOUS
<1>6. c \in Comp /\ Limits(c) /\ Global \in Nat
  BY <1>2, <1>4 DEF Global
<1>7. Constant(c, Global, e) /\ ConstantIndex(c) \in Nat
  BY <1>5, <1>6, ConstantIs
<1>8. Limits(e)
  BY <1>6, <1>7, ConstantLimits
<1>9. e \in Comp /\ Resembles(c, e)
  BY <1>7, <1>8 DEF Constant, Resembles
<1>10. PICK hs : hs = [chain EXCEPT ![n] = e]
  OBVIOUS
<1>11. r = [get |-> "GET_GLOBAL", set |-> "SET_GLOBAL", arg |-> ConstantIndex(c), chain |-> hs]
  <2>1. [chain EXCEPT ![Len(chain)] = MakeConstant(@, Global)] = hs
    BY <1>2, <1>4, <1>5, <1>10
  <2> QED
    BY <1>4, <2>1 DEF Resolve, Current
<1>12. r.get = "GET_GLOBAL" /\ r.set = "SET_GLOBAL" /\ r.chain = hs /\ r.arg = ConstantIndex(c)
  BY <1>11
<1>13. /\ hs \in Seq(Comp) /\ Len(hs) = n /\ DOMAIN hs = 1..n /\ hs[n] = e
       /\ \A k \in 1..n : k # n => hs[k] = chain[k]
  BY <1>2, <1>9, <1>10
<1>14. \A k \in 1..n : Resembles(chain[k], hs[k])
  <2> SUFFICES ASSUME NEW k \in 1..n  PROVE Resembles(chain[k], hs[k])
    OBVIOUS
  <2>1. CASE k = n
    BY <1>4, <1>9, <1>13, <2>1
  <2>2. CASE k # n
    BY <1>2, <1>13, <2>2, ResemblesItself
  <2> QED
    BY <2>1, <2>2
<1>15. Resolved(chain, hs, n)
  BY <1>13, <1>14 DEF Resolved
<1>16. \A k \in 1..n : /\ hs[k].f.upvalues = chain[k].f.upvalues /\ hs[k].f.gone = chain[k].f.gone
                       /\ hs[k].f.code = chain[k].f.code /\ hs[k].locals = chain[k].locals
  <2>1. /\ e.f.upvalues = c.f.upvalues /\ e.f.gone = c.f.gone /\ e.f.code = c.f.code
        /\ e.locals = c.locals
    BY <1>7 DEF Constant
  <2> QED
    BY <1>4, <1>13, <2>1
<1>17. Aligned(chain, hs, n)
  BY <1>2, <1>13, <1>16 DEF Aligned
<1>18. Tied(hs, ds, dc)
  <2>1. \A k \in 1..n : /\ Len(hs[k].locals) = Len(chain[k].locals)
                        /\ \A l \in 1..Len(chain[k].locals) :
                               /\ hs[k].locals[l].decl = chain[k].locals[l].decl
                               /\ hs[k].locals[l].captured = chain[k].locals[l].captured
    BY <1>16
  <2> QED
    BY <1>1, <1>2, <1>17, <2>1, AlignedTied
<1>19. Resolution(chain, n, ctx[1], d, r, hs, ds, dc)
  BY <1>3, <1>7, <1>12, <1>15, <1>18 DEF Resolution
<1> QED
  BY <1>12, <1>19

\* The name s of a variable is right, in the function that knows it now.
LEMMA ResolutionNames ==
    ASSUME NEW ch, NEW n, NEW a, NEW d, NEW r, NEW hs, NEW ds, NEW dc,
           Resolution(ch, n, a, d, r, hs, ds, dc), ~ Fault(hs), NEW c, c = hs[n], NEW f, f = c.f,
           NEW s, NEW m, m = r.arg, Sane(a)
    PROVE  /\ s = <<Ref(r.get, d), Byte(m)>> =>
                 /\ Names(f, SlotsOf(c, a.vars), s) /\ Plain(s) /\ s \in Seq(Bytes)
                 /\ s[1].op \in {"GET_LOCAL", "GET_UPVALUE", "GET_GLOBAL"}
           /\ s = <<Ref(r.set, d), Byte(m)>> =>
                 /\ Refers(c, a.vars, s[1].op, s[1].decl, s[2].n) /\ s \in Seq(Bytes)
                 /\ r.set \in Sets
<1>1. a.vars \in Nat
  BY Points
<1>2. m \in Nat /\ d \in 0..Itself
  BY DEF Resolution
<1> DEFINE Found == d = Itself \/ (m + 1 \in 1..a.vars /\ m + 1 \in Slot /\ d # Global /\ c.locals[m + 1].decl = d)
           Caught == d # Global /\ m + 1 \in DOMAIN f.upvalues /\ f.upvalues[m + 1].decl = d
<1>3. \/ r.get = "GET_LOCAL" /\ r.set = "SET_LOCAL" /\ Found
      \/ r.get = "GET_UPVALUE" /\ r.set = "SET_UPVALUE" /\ Caught
      \/ r.get = "GET_GLOBAL" /\ r.set = "SET_GLOBAL" /\ d = Global
  BY DEF Resolution
<1>4. r.get \in Short /\ r.set \in Short /\ r.set \in Sets /\ r.get \in {"GET_LOCAL", "GET_UPVALUE", "GET_GLOBAL"}
  BY <1>3 DEF Short, Sets
<1>5. Found => d = Itself \/ (m + 1 \in Slot /\ SlotsOf(c, a.vars)[m + 1] = d /\ d # Global)
  <2> SUFFICES ASSUME m + 1 \in 1..a.vars, m + 1 \in Slot, c.locals[m + 1].decl = d
               PROVE  SlotsOf(c, a.vars)[m + 1] = d
    OBVIOUS
  <2>1. m + 1 <= a.vars
    BY <1>1
  <2>2. PICK k \in Slot : k = m + 1
    OBVIOUS
  <2>3. k <= a.vars /\ c.locals[k].decl = d
    BY <2>1, <2>2
  <2>4. SlotsOf(c, a.vars)[k] = d
    BY <2>3 DEF SlotsOf
  <2> QED
    BY <2>2, <2>4
<1>6. ASSUME s = <<Ref(r.get, d), Byte(m)>>
      PROVE  /\ Names(f, SlotsOf(c, a.vars), s) /\ Plain(s) /\ s \in Seq(Bytes)
             /\ s[1].op \in {"GET_LOCAL", "GET_UPVALUE", "GET_GLOBAL"}
  <2>1. Plain(s) /\ s[1].op = r.get /\ s[1].decl = d /\ s[2].n = m /\ s \in Seq(Bytes)
    BY <1>2, <1>4, <1>6, ShortPlain
  <2>2. PICK sl : sl = SlotsOf(c, a.vars)
    OBVIOUS
  <2>3. Found => d = Itself \/ (m + 1 \in Slot /\ sl[m + 1] = d /\ d # Global)
    BY <1>5, <2>2
  <2>4. Names(f, sl, s)
    BY <1>3, <2>1, <2>3 DEF Names
  <2> QED
    BY <1>4, <2>1, <2>2, <2>4
<1>7. ASSUME s = <<Ref(r.set, d), Byte(m)>>
      PROVE  Refers(c, a.vars, s[1].op, s[1].decl, s[2].n) /\ s \in Seq(Bytes)
  <2>1. s[1].op = r.set /\ s[1].decl = d /\ s[2].n = m /\ s \in Seq(Bytes)
    BY <1>2, <1>4, <1>7, ShortPlain
  <2>2. Refers(c, a.vars, r.set, d, m)
    BY <1>3 DEF Refers
  <2> QED
    BY <2>1, <2>2
<1> QED
  BY <1>4, <1>6, <1>7

\* What names refer to, is resolved.
LEMMA ResolutionReady ==
    ASSUME NEW ch, NEW wk, NEW ds, NEW en, NEW dc, NEW ctx, NEW maps,
           Ready(ch, wk, ds, en, dc, ctx, maps), NEW n, NEW a, NEW d, NEW r, NEW hs,
           Resolution(ch, n, a, d, r, hs, ds, dc), ~ Fault(hs)
    PROVE  Ready(hs, wk, ds, en, dc, ctx, maps) /\ Len(hs) = n /\ n \in 1..n /\ n \in DOMAIN hs
<1>1. Resolved(ch, hs, n) /\ Tied(hs, ds, dc)
  BY DEF Resolution
<1>2. Ready(hs, wk, ds, en, dc, ctx, maps)
  BY <1>1, ResolvedGood
<1>3. Len(hs) = n /\ n = Len(ch) /\ DOMAIN hs = 1..n
  BY <1>1 DEF Resolved
<1>4. n \in Nat /\ n >= 1
  BY <1>3, AtCode
<1> QED
  BY <1>2, <1>3, <1>4

LEMMA UseTurn ==
    ASSUME NEW ch, NEW wk, NEW ds, NEW en, NEW dc, NEW ctx, NEW maps,
           Ready(ch, wk, ds, en, dc, ctx, maps), wk[1].k = "expression", NEW n, NEW d, NEW r, NEW hs,
           Resolution(ch, n, ctx[1], d, r, hs, ds, dc), ~ Fault(hs),
           NEW s, s = <<Ref(r.get, d), Byte(r.arg)>>,
           NEW e, e = Emit(hs[n], s), NEW es, es = [hs EXCEPT ![n] = e]
    PROVE  Valid(es, RestWork(wk), ds, en, dc)
<1>1. Ready(hs, wk, ds, en, dc, ctx, maps) /\ Len(hs) = n
  BY ResolutionReady
<1>2. PICK a, b, v, c, M, P, Q : Scene(hs, wk, ds, en, dc, ctx, maps, a, b, v, c, M, P, Q)
  BY <1>1 DEF Scene
<1>3. /\ Wrote(ds, dc, c, M, Q, a.height, SlotsOf(c, a.vars), a.vars)
      /\ ds \in Seq(Function) /\ dc \in Nat /\ c \in Comp
      /\ Sane(a) /\ Sane(b) /\ Q = Holes(wk[1]) \cup P
  BY <1>2, SceneIs DEF Under
<1>4. a = ctx[1] /\ c = hs[n] /\ b = RestCtx(wk, ctx)[1]
  BY <1>1, <1>2 DEF Scene
<1>5. b = Raise(a, 1)
  BY <1>1, <1>4, RestPoint
<1>6. Q = P
  BY <1>3 DEF Holes
<1>7. /\ a.height \in Nat /\ a.vars \in Nat /\ a.vars <= a.height /\ b.height = a.height + 1
      /\ a.vars <= b.height /\ b.height \in Nat
  <2>1. a \in Point /\ a.height \in Nat /\ a.vars \in Nat /\ a.vars <= a.height
    BY <1>3, Points
  <2>2. b.height = a.height + 1
    BY <1>5, <2>1, Raised
  <2> QED
    BY <2>1, <2>2
<1>8. PICK sl : sl = SlotsOf(c, a.vars)
  OBVIOUS
<1>9. /\ Names(c.f, sl, s) /\ Plain(s) /\ s[1].op \in {"GET_LOCAL", "GET_UPVALUE", "GET_GLOBAL"}
  BY <1>3, <1>4, <1>8, ResolutionNames
<1>10. TakesOf(s) = 0 /\ PutsOf(s) = 1 /\ s[1].op \notin Jumps
  BY <1>9 DEF TakesOf, PutsOf, Jumps
<1>11. Single(c.f, a, s, b)
  <2>1. a.vars + 0 <= a.height /\ b.height = a.height - 0 + 1
    BY <1>7
  <2> QED
    BY <1>9, <1>10, <2>1 DEF Single
<1>12. Wrote(ds, dc, c, M, P, a.height, sl, a.vars)
  BY <1>3, <1>6, <1>8
<1>13. PICK N : Grown(ds, dc, c, M, Emit(c, s), N, P, b.height, sl, a.vars)
  BY <1>3, <1>7, <1>9, <1>11, <1>12, SingleWrites
<1>14. e = Emit(c, s) /\ es = [hs EXCEPT ![Len(hs)] = e]
  BY <1>1, <1>4
<1>15. Grown(ds, dc, c, M, e, N, P, b.height, SlotsOf(c, a.vars), a.vars)
  BY <1>8, <1>13, <1>14
<1>16. PICK fs : fs = [hs EXCEPT ![Len(hs)] = e]
  OBVIOUS
<1>17. Valid(fs, RestWork(wk), ds, en, dc)
  BY <1>2, <1>15, <1>16, Finish0
<1> QED
  BY <1>14, <1>16, <1>17

\* An assignment: its instruction comes after an expression.
LEMMA AssignTurn ==
    ASSUME NEW ch, NEW wk, NEW ds, NEW en, NEW dc, NEW ctx, NEW maps,
           Ready(ch, wk, ds, en, dc, ctx, maps), wk[1].k = "expression", NEW n, NEW d, NEW r, NEW hs,
           Resolution(ch, n, ctx[1], d, r, hs, ds, dc), ~ Fault(hs),
           NEW s, s = <<Ref(r.set, d), Byte(r.arg)>>
    PROVE  Valid(hs, <<Expression, Emits(s)>> \o RestWork(wk), ds, en, dc)
<1>1. Ready(hs, wk, ds, en, dc, ctx, maps) /\ Len(hs) = n /\ n \in DOMAIN hs
  BY ResolutionReady
<1> DEFINE a == ctx[1]
           b == RestCtx(wk, ctx)[1]
           c == hs[Len(hs)]
           M == maps[Len(hs)]
           P == Pending(RestWork(wk), RestCtx(wk, ctx), Len(hs))
           w1 == Expression
           w2 == Emits(s)
           a1 == Raise(a, 1)
<1>2. Sane(a) /\ a.vars = a.seen
  BY <1>1, AtCode
<1>3. b = a1
  BY <1>1, RestPoint
<1>4. Holes(wk[1]) = {}
  BY DEF Holes
<1>5. PICK es : es = [hs EXCEPT ![Len(hs)] = hs[Len(hs)]]
  OBVIOUS
<1>6. es = hs
  <2>1. Ready(hs, wk, ds, en, dc, ctx, maps)
    BY <1>1
  <2>2. hs \in Seq(Comp)
    BY <2>1 DEF Ready, Types
  <2> QED
    BY <1>5, <2>2
<1>7. /\ Turn(hs, wk, ds, en, dc, ctx, maps, c, M, es, P)
      /\ Coding(ds, dc, c.f, M, P, a.height, SlotsOf(c, a.vars))
  BY <1>1, <1>4, <1>5, Idle
<1>8. c = hs[n]
  BY <1>1
<1> HIDE DEF a, b, c, M, P
<1>9. Beside(a, a)
  BY <1>2 DEF Beside, Sane, Point
<1>10. /\ Sane(a1) /\ Beside(a, a1) /\ a1.vars = a1.seen /\ a1.vars = a.vars
       /\ a1.height = a.height + 1 /\ a1 = Raise(a, 1)
       /\ a.height \in Nat /\ a.vars \in Nat /\ a.vars <= a.height
  BY <1>2, Above
<1> HIDE DEF a1
<1>11. a1.height > a1.vars
  BY <1>10
<1>12. Refers(c, a1.vars, s[1].op, s[1].decl, s[2].n) /\ s \in Seq(Bytes)
  BY <1>2, <1>8, <1>10, ResolutionNames DEF a
<1>13. r.set \in Sets /\ d \in 0..Itself /\ r.arg \in Nat
  <2>1. r.set \in {"SET_LOCAL", "SET_UPVALUE", "SET_GLOBAL"} /\ d \in 0..Itself /\ r.arg \in Nat
    BY DEF Resolution
  <2> QED
    BY <2>1 DEF Sets
<1>14. Emission(s, a1, b)
  BY <1>3, <1>11, <1>13 DEF Emission
<1>15. Part(a, w2, a1, RestWork(wk)[1], b, c, M, P) /\ Holes(w2) = {}
  <2>1. w2.k = "emit" /\ w2.s = s /\ w2 \in Item
    BY <1>12, EmitsIs
  <2> HIDE DEF w2
  <2>2. Holds(w2, a1, b, c, M)
    BY <1>12, <2>1 DEF Holds
  <2>3. Holes(w2) = {} /\ w2.k \notin Outer
    BY <2>1 DEF Holes, Outer
  <2>4. Fits(w2, a1, RestWork(wk)[1], b)
    BY <1>14, <2>1 DEF Fits
  <2> QED
    BY <1>10, <2>1, <2>2, <2>3, <2>4 DEF Part
<1>16. Part(a, w1, a, w2, a1, c, M, Holes(w2) \cup P) /\ Holes(w1) = {}
  BY <1>2, <1>9, <1>10, ExpressionPart
<1>17. Holes(w1) \cup (Holes(w2) \cup P) = P
  BY <1>15, <1>16
<1>18. Coding(ds, dc, c.f, M, Holes(w1) \cup (Holes(w2) \cup P), a.height, SlotsOf(c, a.vars))
  BY <1>7, <1>17
<1> HIDE DEF w1, w2
<1>19. Valid(es, <<w1, w2>> \o RestWork(wk), ds, en, dc)
  BY <1>7, <1>15, <1>16, <1>18, Parts2 DEF a, b, c, M, P
<1> QED
  BY <1>6, <1>19 DEF w1, w2

-----------------------------------------------------------------------------
(* The actions of the compiler.                                            *)

LEMMA ValidFares ==
    ASSUME NEW ch, NEW wk, NEW ds, NEW en, NEW dc, Valid(ch, wk, ds, en, dc)
    PROVE  Fares(ch, wk, ds, en, dc)
  BY DEF Valid, Fares

LEMMA RunningIs ==
    ASSUME NEW ctx, NEW maps, Running(ctx, maps)
    PROVE  /\ work \in Seq(Item) /\ Len(work) \in Nat /\ Len(work) >= 1 /\ Head(work) = work[1]
           /\ chain \in Seq(Comp) /\ Len(chain) \in Nat /\ Len(chain) >= 1
           /\ Len(chain) \in DOMAIN chain /\ DOMAIN chain = 1..Len(chain)
           /\ chain[Len(chain)] \in Comp /\ Limits(chain[Len(chain)])
           /\ Rest = RestWork(work) /\ Current = chain[Len(chain)]
           /\ decls \in Nat /\ done \in Seq(Function) /\ ~ Fault(chain)
           /\ work[1].k \notin Outer =>
                  Ready(chain, work, done, envs, decls, ctx, maps)
                  /\ RestWork(work) \in Seq(Item)
<1>1. Types(chain, work, done, envs, decls) /\ Good(chain, work, done, envs, decls, ctx, maps) /\ Working
  BY DEF Running
<1>2. work \in Seq(Item) /\ work # <<>> /\ Len(work) \in Nat /\ Len(work) >= 1 /\ Head(work) = work[1]
  BY <1>1 DEF Types, Working
<1>3. chain \in Seq(Comp) /\ Len(chain) >= 1
  BY <1>1, GoodIs
<1>4. Len(chain) \in Nat /\ Len(chain) \in DOMAIN chain /\ DOMAIN chain = 1..Len(chain)
  BY <1>3
<1>5. chain[Len(chain)] \in Comp /\ Limits(chain[Len(chain)])
  BY <1>1, <1>3, <1>4 DEF Types
<1>6. Rest = RestWork(work)
  BY <1>2 DEF Rest, RestWork
<1>7. decls \in Nat /\ done \in Seq(Function)
  BY <1>1, CompilerConstants DEF Types
<1>8. ~ Fault(chain)
  BY <1>1 DEF Working, Fault
<1>9. RestWork(work) \in Seq(Item)
  BY <1>2 DEF RestWork
<1> QED
  BY <1>1, <1>2, <1>3, <1>4, <1>5, <1>6, <1>7, <1>8, <1>9 DEF Ready, Current

\* What compiles leaves the chain with e at its end.
LEMMA CompileIs ==
    ASSUME NEW ctx, NEW maps, Running(ctx, maps), NEW e, NEW parts, Compile(e, parts)
    PROVE  /\ chain' = [chain EXCEPT ![Len(chain)] = e] /\ work' = parts \o RestWork(work)
           /\ done' = done /\ envs' = envs /\ decls' = decls
  BY RunningIs DEF Compile, SetCurrent

LEMMA CompileFares ==
    ASSUME NEW ctx, NEW maps, Running(ctx, maps), NEW e, NEW parts, Compile(e, parts),
           NEW es, es = [chain EXCEPT ![Len(chain)] = e],
           Fares(es, parts \o RestWork(work), done, envs, decls)
    PROVE  Fares(chain', work', done', envs', decls')
  BY CompileIs, Zenon

LEMMA SimpleStep ==
    ASSUME NEW ctx, NEW maps, Running(ctx, maps), Simple
    PROVE  Fares(chain', work', done', envs', decls')
<1>1. /\ Head(work) = work[1] /\ Current = chain[Len(chain)]
      /\ work[1].k \notin Outer => Ready(chain, work, done, envs, decls, ctx, maps)
  BY RunningIs
<1>2. PICK es : es = [chain EXCEPT ![Len(chain)] = chain[Len(chain)]]
  OBVIOUS
<1>3. ASSUME NEW parts, Compile(Current, parts), Valid(es, parts \o RestWork(work), done, envs, decls)
      PROVE  Fares(chain', work', done', envs', decls')
  BY <1>1, <1>2, <1>3, CompileFares, ValidFares, Zenon
<1>4. PICK statements : statements = {"declarations", "statement", "initializer"}
  OBVIOUS
<1>7. \A ks : Expected(ks) => work[1].k \in ks
  BY <1>1 DEF Expected
<1>8. \A p, ks : Production(p, ks) => work[1].k \in ks
  BY <1>7 DEF Production
<1>5. CASE work[1].k = "expression"
  <2>1. work[1].k = "expression" /\ work[1].k \notin Outer
    BY <1>5 DEF Outer
  <2>2. Ready(chain, work, done, envs, decls, ctx, maps)
    BY <1>1, <2>1
  <2>3. /\ Valid(es, literal \o RestWork(work), done, envs, decls)
        /\ Valid(es, unary \o RestWork(work), done, envs, decls)
        /\ Valid(es, binary \o RestWork(work), done, envs, decls)
        /\ Valid(es, and_ \o RestWork(work), done, envs, decls)
        /\ Valid(es, or_ \o RestWork(work), done, envs, decls)
    BY <1>2, <2>1, <2>2, LiteralStep, UnaryStep, BinaryStep, AndStart, OrStart
  <2>4. \A n \in 0..1 : Valid(es, call(n) \o RestWork(work), done, envs, decls)
    <3>1. Valid(es, call(0) \o RestWork(work), done, envs, decls)
      BY <1>2, <2>1, <2>2, CallStep0
    <3>2. Valid(es, call(1) \o RestWork(work), done, envs, decls)
      BY <1>2, <2>1, <2>2, CallStep1
    <3>3. \A n \in 0..1 : n = 0 \/ n = 1
      OBVIOUS
    <3> QED
      BY <3>1, <3>2, <3>3
  <2>5. \/ Compile(Current, literal) \/ Compile(Current, unary) \/ Compile(Current, binary)
        \/ \E n \in 0..1 : Compile(Current, call(n))
        \/ Compile(Current, and_) \/ Compile(Current, or_)
    BY <1>7, <1>8, <2>1 DEF Simple
  <2> QED
    BY <1>3, <2>3, <2>4, <2>5
<1>6. CASE work[1].k \in statements
  <2>1. work[1].k \in statements /\ work[1].k \notin Outer /\ work[1].k # "expression"
    BY <1>4, <1>6 DEF Outer
  <2>2. Ready(chain, work, done, envs, decls, ctx, maps) /\ work[1].k \in {"statement", "declarations", "initializer"}
    BY <1>1, <1>4, <2>1
  <2>3. /\ Valid(es, expressionStatement \o RestWork(work), done, envs, decls)
        /\ Valid(es, printStatement \o RestWork(work), done, envs, decls)
        /\ Valid(es, ifStatement \o RestWork(work), done, envs, decls)
        /\ Valid(es, <<Expression, Emits(<<Op("RETURN")>>)>> \o RestWork(work), done, envs, decls)
        /\ Valid(es, <<Emits(<<Op("LITERAL"), Op("RETURN")>>)>> \o RestWork(work), done, envs, decls)
    BY <1>2, <2>2, ExpressionStatementStep, PrintStep, IfStart, ReturnStep, ReturnNothing
  <2>4. Valid(es, whileStatement \o RestWork(work), done, envs, decls)
    <3>1. whileStatement = <<Expression, At("test", <<Position(chain[Len(chain)])>>)>>
      BY <1>1 DEF whileStatement
    <3> QED
      BY <1>2, <2>2, <3>1, WhileStart
  <2>5. \/ Compile(Current, expressionStatement) \/ Compile(Current, printStatement)
        \/ Compile(Current, ifStatement) \/ Compile(Current, whileStatement)
        \/ Compile(Current, <<Expression, Emits(<<Op("RETURN")>>)>>)
        \/ Compile(Current, <<Emits(<<Op("LITERAL"), Op("RETURN")>>)>>)
    BY <1>7, <1>8, <2>1 DEF Simple, returnStatement
  <2> QED
    BY <1>3, <2>3, <2>4, <2>5
<1> QED
  <2>1. work[1].k = "expression" \/ work[1].k \in statements
    BY <1>4, <1>7, <1>8 DEF Simple
  <2> QED
    BY <1>5, <1>6, <2>1

LEMMA AlikeEmit ==
    ASSUME NEW c \in Comp, NEW s \in Seq(Bytes), NEW e, e = Emit(c, s)
    PROVE  Appended(c, e) /\ Len(e.f.code) = Len(c.f.code) + Len(s)
<1>1. c.f \in Function
  BY DEF Comp
<1>2. /\ e \in Comp /\ e.f = Emitted(c.f, s) /\ e.locals = c.locals /\ e.scopeDepth = c.scopeDepth
  BY EmitIs
<1>3. /\ e.f.upvalues = c.f.upvalues /\ Len(e.f.code) = Len(c.f.code) + Len(s)
  <2>1. PICK ds : ds = <<>>
    OBVIOUS
  <2>2. PICK f : f = c.f
    OBVIOUS
  <2>3. Emitted(f, s).upvalues = f.upvalues /\ Len(Emitted(f, s).code) = Len(f.code) + Len(s)
    BY <1>1, <2>2, EmittedCode
  <2> QED
    BY <1>2, <2>2, <2>3
<1>4. Len(c.f.code) \in Nat /\ Len(s) \in Nat
  BY <1>1, CodeBytes, SeqIs
<1>5. Len(c.f.code) <= Len(e.f.code)
  BY <1>3, <1>4
<1> QED
  BY <1>2, <1>3, <1>5 DEF Appended

LEMMA AlikePatch ==
    ASSUME NEW c \in Comp, NEW o \in Nat, o - 1 \in Nat, o + 2 <= Len(c.f.code),
           NEW e, e = PatchJump(c, o)
    PROVE  Appended(c, e)
<1>1. c.f \in Function /\ Len(c.f.code) \in Nat
  BY CodeBytes DEF Comp
<1>2. PICK p : p = o - 1
  OBVIOUS
<1>3. p \in Nat /\ p + 3 <= Len(c.f.code)
  BY <1>1, <1>2
<1>4. /\ e \in Comp /\ e.f = Patched(c.f, p) /\ e.locals = c.locals /\ e.scopeDepth = c.scopeDepth
  BY <1>2, PatchIs
<1>5. e.f.upvalues = c.f.upvalues /\ Len(e.f.code) = Len(c.f.code)
  BY <1>1, <1>3, <1>4, PatchedCode
<1> QED
  BY <1>1, <1>4, <1>5 DEF Appended

LEMMA AlikeLoop ==
    ASSUME NEW c \in Comp, NEW start \in Nat, start <= Len(c.f.code), NEW e, e = EmitLoop(c, start)
    PROVE  Appended(c, e)
<1>1. c.f \in Function /\ Len(c.f.code) \in Nat
  BY CodeBytes DEF Comp
<1>2. /\ e \in Comp /\ e.f = Looped(c.f, start) /\ e.locals = c.locals /\ e.scopeDepth = c.scopeDepth
  BY LoopIs
<1>3. PICK s : s = LoopOp(c.f, start)
  OBVIOUS
<1>4. Appends(c.f, s, e.f) /\ Len(s) = 3
  BY <1>1, <1>2, <1>3, LoopCode
<1>5. Len(e.f.code) = Len(c.f.code) + 3 /\ e.f.upvalues = c.f.upvalues
  BY <1>4 DEF Appends
<1>6. Len(c.f.code) <= Len(e.f.code)
  BY <1>1, <1>5
<1> QED
  BY <1>2, <1>5, <1>6 DEF Appended

LEMMA AlikeTwice ==
    ASSUME NEW c, NEW d, NEW e, Appended(c, d), Appended(d, e)
    PROVE  Appended(c, e)
<1>1. \A g \in Comp : Len(g.f.code) \in Nat
  BY CodeBytes DEF Comp
<1>2. c \in Comp /\ d \in Comp /\ e \in Comp
  BY DEF Appended
<1>3. PICK i, j, k : i = Len(c.f.code) /\ j = Len(d.f.code) /\ k = Len(e.f.code)
  OBVIOUS
<1>4. i <= j /\ j <= k
  BY <1>3 DEF Appended
<1>5. i \in Nat /\ j \in Nat /\ k \in Nat
  BY <1>1, <1>2, <1>3
<1>6. i <= k
  BY <1>4, <1>5
<1> QED
  BY <1>3, <1>6 DEF Appended

\* The types hold whatever happens to the code of the current function.
LEMMA AlikeTypes ==
    ASSUME NEW ctx, NEW maps, Running(ctx, maps), NEW e, Limits(e), e \in Comp,
           NEW es, es = [chain EXCEPT ![Len(chain)] = e], NEW wk \in Seq(Item)
    PROVE  Types(es, wk, done, envs, decls) /\ (e.error => Fault(es))
<1>1. /\ chain \in Seq(Comp) /\ Len(chain) \in Nat /\ Len(chain) \in DOMAIN chain
      /\ Types(chain, work, done, envs, decls)
  BY RunningIs DEF Running
<1>2. es \in Seq(Comp) /\ DOMAIN es = DOMAIN chain /\ es[Len(chain)] = e
  BY <1>1
<1>3. \A k \in DOMAIN es : es[k] = e \/ es[k] = chain[k]
  BY <1>1
<1>4. \A k \in DOMAIN es : Limits(es[k])
  BY <1>1, <1>2, <1>3 DEF Types
<1> QED
  BY <1>1, <1>2, <1>4 DEF Types, Fault

LEMMA AlikeFares ==
    ASSUME NEW ctx, NEW maps, Running(ctx, maps), NEW e, Appended(chain[Len(chain)], e),
           NEW es, es = [chain EXCEPT ![Len(chain)] = e], NEW wk \in Seq(Item),
           ~ e.error => Valid(es, wk, done, envs, decls)
    PROVE  Fares(es, wk, done, envs, decls)
<1>1. Limits(chain[Len(chain)])
  BY RunningIs
<1>2. Limits(e) /\ e \in Comp
  BY <1>1 DEF Appended, Limits
<1>3. Types(es, wk, done, envs, decls) /\ (e.error => Fault(es))
  BY <1>2, AlikeTypes
<1> QED
  BY <1>3 DEF Fares

\* Where patchJump and emitLoop go, there is code.
LEMMA ScenePlaces ==
    ASSUME NEW ch, NEW wk, NEW ds, NEW en, NEW dc, NEW ctx, NEW maps, NEW a, NEW b, NEW v, NEW c,
           NEW M, NEW P, NEW Q, Scene(ch, wk, ds, en, dc, ctx, maps, a, b, v, c, M, P, Q),
           NEW o, Patches(wk[1], o)
    PROVE  /\ o \in Nat /\ o - 1 \in Nat /\ o + 2 <= Len(c.f.code)
           /\ wk[1].k = "forIncrement" => wk[1].at[1] \in Nat /\ wk[1].at[1] <= Len(c.f.code)
<1>1. /\ Wrote(ds, dc, c, M, Q, a.height, SlotsOf(c, a.vars), a.vars)
      /\ Q = Holes(wk[1]) \cup P /\ c.f \in Function
  BY SceneIs DEF Comp
<1>2. Holds(wk[1], a, ctx[2], c, M)
  BY SceneHolds
<1>3. o \in Nat /\ o - 1 \in Q
  BY <1>1, <1>2 DEF Holds, Hole, Holes, Patches
<1>4. Typed(ds, c.f, M, Q)
  BY <1>1 DEF Wrote, Coding, Sound
<1>5. o - 1 \in Nat /\ o - 1 + 3 <= Len(c.f.code) /\ Len(c.f.code) \in Nat
  BY <1>1, <1>3, <1>4, OpenJump
<1>6. o + 2 <= Len(c.f.code)
  BY <1>3, <1>5
<1>7. wk[1].k = "forIncrement" => wk[1].at[1] \in Nat /\ wk[1].at[1] <= Len(c.f.code)
  <2>1. PICK q, s : q = wk[1].at[1] /\ s = Stack(c, Raise(a, -1))
    OBVIOUS
  <2>2. HAVE wk[1].k = "forIncrement"
  <2>3. q \in Spots(c.f)
    BY <2>1, <2>2, <1>2 DEF Holds, Flow
  <2>4. q \in Nat /\ q <= Len(c.f.code)
    BY <2>3, <1>5 DEF Spots, Starts
  <2> QED
    BY <2>1, <2>4
<1> QED
  BY <1>3, <1>5, <1>6, <1>7

LEMMA SceneOf ==
    ASSUME NEW ctx, NEW maps, Running(ctx, maps), work[1].k \notin Outer
    PROVE  \E a, b, v, M, P, Q :
               Scene(chain, work, done, envs, decls, ctx, maps, a, b, v, chain[Len(chain)], M, P, Q)
<1>1. Ready(chain, work, done, envs, decls, ctx, maps)
  BY RunningIs
<1>2. PICK a, b, v : a = ctx[1] /\ b = RestCtx(work, ctx)[1] /\ v = RestWork(work)[1]
  OBVIOUS
<1>3. PICK M, P, Q : /\ M = maps[Len(chain)] /\ Q = Pending(work, ctx, Len(chain))
                     /\ P = Pending(RestWork(work), RestCtx(work, ctx), Len(chain))
  OBVIOUS
<1>4. Scene(chain, work, done, envs, decls, ctx, maps, a, b, v, chain[Len(chain)], M, P, Q)
  BY <1>1, <1>2, <1>3 DEF Scene
<1> QED
  BY <1>4

LEMMA AlikeCompile ==
    ASSUME NEW ctx, NEW maps, Running(ctx, maps), NEW e, NEW parts \in Seq(Item),
           work[1].k \notin Outer, Appended(chain[Len(chain)], e), Compile(e, parts),
           NEW es, es = [chain EXCEPT ![Len(chain)] = e],
           ~ e.error => Valid(es, parts \o RestWork(work), done, envs, decls)
    PROVE  Fares(chain', work', done', envs', decls')
<1>1. RestWork(work) \in Seq(Item)
  BY RunningIs
<1>2. parts \o RestWork(work) \in Seq(Item)
  BY <1>1
<1>3. Fares(es, parts \o RestWork(work), done, envs, decls)
  BY <1>2, AlikeFares
<1> QED
  BY <1>3, CompileFares, Zenon

\* What emitJump leaves.
LEMMA AlikeJump ==
    ASSUME NEW c \in Comp, NEW o \in Jumps, NEW e, e = EmitJump(c, o)
    PROVE  /\ Appended(c, e) /\ Len(e.f.code) = Len(c.f.code) + 3
           /\ JumpOffset(c) = Len(c.f.code) + 1 /\ Len(c.f.code) \in Nat /\ e.error = c.error
<1>1. PICK s : s = <<Op(o), Byte(Base - 1), Byte(Base - 1)>>
  OBVIOUS
<1>2. s \in Seq(Bytes) /\ Len(s) = 3
  <2>1. o \in Instructions /\ Base - 1 \in Nat
    BY CompilerConstants DEF Jumps, Instructions
  <2>2. Op(o) \in Bytes /\ Byte(Base - 1) \in Bytes
    BY <2>1, OpIs, ByteIs
  <2> QED
    BY <1>1, <2>2
<1>3. e = Emit(c, s)
  BY <1>1 DEF EmitJump
<1>4. Len(c.f.code) \in Nat
  BY CodeBytes DEF Comp
<1>5. Appended(c, e) /\ Len(e.f.code) = Len(c.f.code) + Len(s)
  BY <1>2, <1>3, AlikeEmit
<1>6. JumpOffset(c) = Len(c.f.code) + 1
  BY DEF JumpOffset, Position
<1>7. e.error = c.error
  BY <1>2, <1>3, EmitIs
<1> QED
  BY <1>2, <1>4, <1>5, <1>6, <1>7

\* The steps of Continue that patch a jump.
LEMMA ContinuePatch ==
    ASSUME NEW ctx, NEW maps, Running(ctx, maps), NEW c, c = chain[Len(chain)],
           \/ work[1].k = "patch" /\ Compile(PatchJump(c, work[1].at[1]), <<>>)
           \/ work[1].k = "exit" /\ Compile(Emit(PatchJump(c, work[1].at[1]), <<Op("POP")>>), <<>>)
           \/ /\ work[1].k = "forIncrement"
              /\ Compile(PatchJump(EmitLoop(Emit(c, <<Op("POP")>>), work[1].at[1]), work[1].at[2]), <<>>)
    PROVE  Fares(chain', work', done', envs', decls')
<1>1. work[1].k \notin Outer
  BY DEF Outer
<1>2. PICK a, b, v, M, P, Q : Scene(chain, work, done, envs, decls, ctx, maps, a, b, v, c, M, P, Q)
  BY <1>1, SceneOf
<1>3. c \in Comp /\ RestWork(work) \in Seq(Item) /\ <<>> \in Seq(Item) /\ <<>> \o RestWork(work) = RestWork(work)
  BY <1>1, RunningIs
<1>4. PICK s : s = <<Op("POP")>>
  OBVIOUS
<1>5. s \in Seq(Bytes)
  BY <1>4, OpPlain DEF Plain, One
<1>6. CASE work[1].k = "patch"
  <2>1. PICK o, e : o = work[1].at[1] /\ e = PatchJump(c, o)
    OBVIOUS
  <2>2. o \in Nat /\ o - 1 \in Nat /\ o + 2 <= Len(c.f.code)
    BY <1>2, <1>6, <2>1, ScenePlaces DEF Patches
  <2>3. Appended(c, e)
    BY <1>3, <2>1, <2>2, AlikePatch
  <2>4. PICK es : es = [chain EXCEPT ![Len(chain)] = e]
    OBVIOUS
  <2>5. ~ e.error => Valid(es, RestWork(work), done, envs, decls)
    BY <1>2, <1>6, <2>1, <2>4, PatchTurn
  <2>6. Compile(e, <<>>)
    BY <1>6, <2>1
  <2> QED
    BY <1>1, <1>3, <2>3, <2>4, <2>5, <2>6, AlikeCompile
<1>7. CASE work[1].k = "exit"
  <2>1. PICK o, d, e : o = work[1].at[1] /\ d = PatchJump(c, o) /\ e = Emit(d, s)
    OBVIOUS
  <2>2. o \in Nat /\ o - 1 \in Nat /\ o + 2 <= Len(c.f.code)
    BY <1>2, <1>7, <2>1, ScenePlaces DEF Patches
  <2>3. Appended(c, d)
    BY <1>3, <2>1, <2>2, AlikePatch
  <2>4. Appended(d, e)
    BY <1>5, <2>1, <2>3, AlikeEmit DEF Appended
  <2>5. Appended(c, e)
    BY <2>3, <2>4, AlikeTwice
  <2>6. PICK es : es = [chain EXCEPT ![Len(chain)] = e]
    OBVIOUS
  <2>7. ~ e.error => Valid(es, RestWork(work), done, envs, decls)
    BY <1>2, <1>4, <1>7, <2>1, <2>6, ExitTurn
  <2>8. Compile(e, <<>>)
    BY <1>4, <1>7, <2>1
  <2> QED
    BY <1>1, <1>3, <2>5, <2>6, <2>7, <2>8, AlikeCompile
<1>8. CASE work[1].k = "forIncrement"
  <2>1. PICK o, m, d, g, e : /\ o = work[1].at[2] /\ m = work[1].at[1] /\ d = Emit(c, s)
                             /\ g = EmitLoop(d, m) /\ e = PatchJump(g, o)
    OBVIOUS
  <2>2. o \in Nat /\ o - 1 \in Nat /\ o + 2 <= Len(c.f.code) /\ m \in Nat /\ m <= Len(c.f.code)
    BY <1>2, <1>8, <2>1, ScenePlaces DEF Patches
  <2>3. Appended(c, d)
    BY <1>3, <1>5, <2>1, AlikeEmit
  <2>4. \A h \in Comp : Len(h.f.code) \in Nat
    BY CodeBytes DEF Comp
  <2>5. m <= Len(d.f.code)
    BY <2>2, <2>3, <2>4 DEF Appended
  <2>6. Appended(d, g)
    BY <2>1, <2>2, <2>3, <2>5, AlikeLoop DEF Appended
  <2>7. Appended(c, g)
    BY <2>3, <2>6, AlikeTwice
  <2>8. o + 2 <= Len(g.f.code)
    <3>1. PICK i, j : i = Len(c.f.code) /\ j = Len(g.f.code)
      OBVIOUS
    <3>2. i \in Nat /\ j \in Nat /\ i <= j
      BY <2>4, <2>7, <3>1 DEF Appended
    <3>3. o + 2 <= j
      BY <2>2, <3>1, <3>2
    <3> QED
      BY <3>1, <3>3
  <2>9. Appended(g, e)
    BY <2>1, <2>2, <2>6, <2>8, AlikePatch DEF Appended
  <2>10. Appended(c, e)
    BY <2>7, <2>9, AlikeTwice
  <2>11. PICK es : es = [chain EXCEPT ![Len(chain)] = e]
    OBVIOUS
  <2>12. ~ e.error => Valid(es, RestWork(work), done, envs, decls)
    BY <1>2, <1>4, <1>8, <2>1, <2>11, ForIncrementTurn
  <2>13. Compile(e, <<>>)
    BY <1>4, <1>8, <2>1
  <2> QED
    BY <1>1, <1>3, <2>10, <2>11, <2>12, <2>13, AlikeCompile
<1> QED
  BY <1>6, <1>7, <1>8

LEMMA PairOf ==
    ASSUME NEW S, NEW x \in S, NEW y \in S
    PROVE  <<x>> \o <<y>> = <<x, y>> /\ <<x, y>> \in Seq(S)
<1>1. PICK s, t, u : s = <<x>> /\ t = <<y>> /\ u = <<x, y>>
  OBVIOUS
<1>2. s \in Seq(S) /\ Len(s) = 1 /\ s[1] = x /\ t \in Seq(S) /\ Len(t) = 1 /\ t[1] = y
  BY <1>1
<1>3. u \in Seq(S) /\ Len(u) = 2 /\ u[1] = x /\ u[2] = y
  BY <1>1
<1>4. s \o t \in Seq(S) /\ Len(s \o t) = 2 /\ (s \o t)[1] = x /\ (s \o t)[2] = y
  BY <1>2, ConcatProperties
<1>5. \A i \in 1..2 : i = 1 \/ i = 2
  OBVIOUS
<1>6. s \o t = u
  <2>1. \A i \in 1..Len(u) : u[i] = (s \o t)[i]
    BY <1>3, <1>4, <1>5
  <2> QED
    BY <1>3, <1>4, <2>1, SeqEqual
<1> QED
  BY <1>1, <1>3, <1>6

LEMMA ContinueOr ==
    ASSUME NEW ctx, NEW maps, Running(ctx, maps), work[1].k = "or", OrRight
    PROVE  Fares(chain', work', done', envs', decls')
<1>1. work[1].k \notin Outer
  BY DEF Outer
<1>2. PICK c : c = chain[Len(chain)]
  OBVIOUS
<1>3. c \in Comp /\ Current = c
  BY <1>2, RunningIs
<1>4. PICK d, g, o : d = EmitJump(c, "JUMP_IF_FALSE") /\ g = EmitJump(d, "JUMP") /\ o = JumpOffset(c)
  OBVIOUS
<1>5. PICK s, h, e, t : /\ s = <<Op("POP")>> /\ h = PatchJump(g, o) /\ e = Emit(h, s)
                        /\ t = <<Expression, At("patch", <<JumpOffset(d)>>)>>
  OBVIOUS
<1>6. Compile(e, t)
  BY <1>3, <1>4, <1>5 DEF OrRight
<1>7. /\ Appended(c, d) /\ Len(d.f.code) = Len(c.f.code) + 3 /\ o = Len(c.f.code) + 1
      /\ Len(c.f.code) \in Nat
  BY <1>3, <1>4, AlikeJump DEF Jumps
<1>8. d \in Comp
  BY <1>7 DEF Appended
<1>9. Appended(d, g) /\ Len(g.f.code) = Len(d.f.code) + 3 /\ JumpOffset(d) = Len(d.f.code) + 1
  BY <1>4, <1>8, AlikeJump DEF Jumps
<1>10. g \in Comp
  BY <1>9 DEF Appended
<1>11. o \in Nat /\ o - 1 \in Nat /\ o + 2 <= Len(g.f.code) /\ JumpOffset(d) \in Nat
  BY <1>7, <1>9
<1>12. Appended(g, h)
  BY <1>5, <1>10, <1>11, AlikePatch
<1>13. Appended(h, e)
  <2>1. s \in Seq(Bytes)
    BY <1>5, OpPlain DEF Plain, One
  <2> QED
    BY <1>5, <1>12, <2>1, AlikeEmit DEF Appended
<1>14. Appended(c, e)
  BY <1>7, <1>9, <1>12, <1>13, AlikeTwice
<1>15. t \in Seq(Item)
  <2>1. PICK m : m = JumpOffset(d)
    OBVIOUS
  <2>2. <<m>> \in Seq(Nat)
    BY <1>11, <2>1
  <2>3. Expression \in Item /\ At("patch", <<m>>) \in Item
    BY <2>2, DoIs, AtIs DEF Kinds, Expression
  <2> QED
    BY <1>5, <2>1, <2>3
<1>16. PICK es : es = [chain EXCEPT ![Len(chain)] = e]
  OBVIOUS
<1>17. PICK a, b, v, M, P, Q : Scene(chain, work, done, envs, decls, ctx, maps, a, b, v, c, M, P, Q)
  BY <1>1, <1>2, SceneOf
<1>18. ~ e.error => Valid(es, t \o RestWork(work), done, envs, decls)
  BY <1>4, <1>5, <1>16, <1>17, OrTurn
<1> QED
  BY <1>1, <1>2, <1>6, <1>14, <1>15, <1>16, <1>18, AlikeCompile

LEMMA ContinueElse ==
    ASSUME NEW ctx, NEW maps, Running(ctx, maps), work[1].k = "else", Else
    PROVE  Fares(chain', work', done', envs', decls')
<1>1. work[1].k \notin Outer
  BY DEF Outer
<1>2. PICK c : c = chain[Len(chain)]
  OBVIOUS
<1>3. c \in Comp /\ Current = c /\ Head(work) = work[1]
  BY <1>2, RunningIs
<1>4. PICK g, m : g = EmitJump(c, "JUMP") /\ m = work[1].at[1]
  OBVIOUS
<1>5. PICK s, h, e, w : /\ s = <<Op("POP")>> /\ h = PatchJump(g, m) /\ e = Emit(h, s)
                        /\ w = At("patch", <<JumpOffset(c)>>)
  OBVIOUS
<1>6. PICK branch \in {<<>>, <<Do("statement")>>} : Compile(e, branch \o <<w>>)
  BY <1>3, <1>4, <1>5 DEF Else, Saved
<1>7. PICK a, b, v, M, P, Q : Scene(chain, work, done, envs, decls, ctx, maps, a, b, v, c, M, P, Q)
  BY <1>1, <1>2, SceneOf
<1>8. m \in Nat /\ m - 1 \in Nat /\ m + 2 <= Len(c.f.code)
  BY <1>4, <1>7, ScenePlaces DEF Patches
<1>9. /\ Appended(c, g) /\ Len(g.f.code) = Len(c.f.code) + 3 /\ JumpOffset(c) = Len(c.f.code) + 1
      /\ Len(c.f.code) \in Nat
  BY <1>3, <1>4, AlikeJump DEF Jumps
<1>10. m + 2 <= Len(g.f.code) /\ g \in Comp /\ JumpOffset(c) \in Nat
  BY <1>8, <1>9 DEF Appended
<1>11. Appended(g, h)
  BY <1>5, <1>8, <1>10, AlikePatch
<1>12. Appended(h, e)
  <2>1. s \in Seq(Bytes)
    BY <1>5, OpPlain DEF Plain, One
  <2> QED
    BY <1>5, <1>11, <2>1, AlikeEmit DEF Appended
<1>13. Appended(c, e)
  BY <1>9, <1>11, <1>12, AlikeTwice
<1>14. w \in Item /\ Do("statement") \in Item
  <2>1. PICK o : o = JumpOffset(c)
    OBVIOUS
  <2>2. <<o>> \in Seq(Nat)
    BY <1>10, <2>1
  <2> QED
    BY <1>5, <2>1, <2>2, DoIs, AtIs DEF Kinds
<1>15. PICK es : es = [chain EXCEPT ![Len(chain)] = e]
  OBVIOUS
<1>16. CASE branch = <<>>
  <2>1. <<>> \o <<w>> = <<w>> /\ <<w>> \in Seq(Item)
    BY <1>14
  <2>2. ~ e.error => Valid(es, <<w>> \o RestWork(work), done, envs, decls)
    BY <1>4, <1>5, <1>7, <1>15, ElseTurn
  <2>3. Compile(e, <<w>>)
    BY <1>6, <1>16, <2>1
  <2> QED
    BY <1>1, <1>2, <1>13, <1>15, <2>1, <2>2, <2>3, AlikeCompile
<1>17. CASE branch = <<Do("statement")>>
  <2>1. PICK u : u = Do("statement")
    OBVIOUS
  <2>2. <<u>> \o <<w>> = <<u, w>> /\ <<u, w>> \in Seq(Item)
    <3>1. u \in Item /\ w \in Item
      BY <1>14, <2>1
    <3> QED
      BY <3>1, PairOf
  <2>3. ~ e.error => Valid(es, <<u, w>> \o RestWork(work), done, envs, decls)
    BY <1>4, <1>5, <1>7, <1>15, <2>1, ElseBranchTurn
  <2>4. Compile(e, <<u, w>>)
    BY <1>6, <1>17, <2>1, <2>2
  <2> QED
    BY <1>1, <1>2, <1>13, <1>15, <2>2, <2>3, <2>4, AlikeCompile
<1> QED
  BY <1>16, <1>17

LEMMA ContinueStep ==
    ASSUME NEW ctx, NEW maps, Running(ctx, maps), Continue
    PROVE  Fares(chain', work', done', envs', decls')
<1>1. PICK c : c = chain[Len(chain)]
  OBVIOUS
<1>2. /\ Head(work) = work[1] /\ Current = c
      /\ work[1].k \notin Outer =>
             Ready(chain, work, done, envs, decls, ctx, maps) /\ RestWork(work) \in Seq(Item)
  BY <1>1, RunningIs
<1>3. \A ks : Expected(ks) => work[1].k \in ks
  BY <1>2 DEF Expected
<1>4. PICK w : w = work[1]
  OBVIOUS
<1>5. \A i : Saved(i) = w.at[i]
  BY <1>2, <1>4 DEF Saved
<1>6. w.k \notin Outer
  BY <1>3, <1>4 DEF Continue, Outer
<1>7. /\ Ready(chain, work, done, envs, decls, ctx, maps)
      /\ RestWork(work) \in Seq(Item) /\ <<>> \o RestWork(work) = RestWork(work)
  BY <1>2, <1>4, <1>6
<1>8. PICK a, b, v, M, P, Q : Scene(chain, work, done, envs, decls, ctx, maps, a, b, v, c, M, P, Q)
  BY <1>1, <1>4, <1>6, SceneOf
<1>9. ASSUME NEW e, NEW parts, Compile(e, parts),
             \A es : es = [chain EXCEPT ![Len(chain)] = e]
                        => Valid(es, parts \o RestWork(work), done, envs, decls)
      PROVE  Fares(chain', work', done', envs', decls')
  <2>1. PICK es : es = [chain EXCEPT ![Len(chain)] = e]
    OBVIOUS
  <2>2. Valid(es, parts \o RestWork(work), done, envs, decls)
    BY <1>9, <2>1
  <2> QED
    BY <1>9, <2>1, <2>2, CompileFares, ValidFares, Zenon
<1>10. CASE w.k = "emit" /\ Compile(Emit(c, w.s), <<>>)
  <2>1. ASSUME NEW es, es = [chain EXCEPT ![Len(chain)] = Emit(c, w.s)]
        PROVE  Valid(es, <<>> \o RestWork(work), done, envs, decls)
    <3>1. Valid(es, RestWork(work), done, envs, decls)
      BY <1>1, <1>4, <1>7, <1>8, <1>10, <2>1, EmitTurn
    <3> QED
      BY <1>7, <3>1
  <2> QED
    BY <1>9, <1>10, <2>1
<1>11. CASE w.k = "loop" /\ Compile(EmitLoop(c, w.at[1]), <<>>)
  <2>1. ASSUME NEW es, es = [chain EXCEPT ![Len(chain)] = EmitLoop(c, w.at[1])]
        PROVE  Valid(es, <<>> \o RestWork(work), done, envs, decls)
    <3>1. Valid(es, RestWork(work), done, envs, decls)
      BY <1>1, <1>4, <1>7, <1>8, <1>11, <2>1, LoopTurn
    <3> QED
      BY <1>7, <3>1
  <2> QED
    BY <1>9, <1>11, <2>1
<1>12. CASE w.k = "and" /\ Compile(JumpIfFalse(c), <<Expression, At("patch", <<JumpOffset(c)>>)>>)
  <2>1. ASSUME NEW es, es = [chain EXCEPT ![Len(chain)] = JumpIfFalse(c)]
        PROVE  Valid(es, <<Expression, At("patch", <<JumpOffset(c)>>)>> \o RestWork(work), done, envs, decls)
    BY <1>1, <1>4, <1>7, <1>8, <1>12, <2>1, AndTurn
  <2> QED
    BY <1>9, <1>12, <2>1
<1>13. CASE w.k = "then" /\ Compile(JumpIfFalse(c), <<Do("statement"), At("else", <<JumpOffset(c)>>)>>)
  <2>1. ASSUME NEW es, es = [chain EXCEPT ![Len(chain)] = JumpIfFalse(c)]
        PROVE  Valid(es, <<Do("statement"), At("else", <<JumpOffset(c)>>)>> \o RestWork(work), done, envs, decls)
    BY <1>1, <1>4, <1>7, <1>8, <1>13, <2>1, ThenTurn
  <2> QED
    BY <1>9, <1>13, <2>1
<1>14. CASE w.k = "test" /\ Compile(JumpIfFalse(c), <<Do("statement"), At("loop", <<w.at[1]>>), At("exit", <<JumpOffset(c)>>)>>)
  <2>1. ASSUME NEW es, es = [chain EXCEPT ![Len(chain)] = JumpIfFalse(c)]
        PROVE  Valid(es, <<Do("statement"), At("loop", <<w.at[1]>>), At("exit", <<JumpOffset(c)>>)>> \o RestWork(work), done, envs, decls)
    BY <1>1, <1>4, <1>7, <1>8, <1>14, <2>1, TestTurn
  <2> QED
    BY <1>9, <1>14, <2>1
<1>15. CASE w.k = "for" /\ Compile(c, <<Expression, At("forTest", <<Position(c)>>)>>)
  <2>1. ASSUME NEW es, es = [chain EXCEPT ![Len(chain)] = c]
        PROVE  Valid(es, <<Expression, At("forTest", <<Position(c)>>)>> \o RestWork(work), done, envs, decls)
    BY <1>1, <1>4, <1>7, <1>8, <1>15, <2>1, ForStart
  <2> QED
    BY <1>9, <1>15, <2>1
<1>16. CASE w.k = "for" /\ Compile(c, <<At("forBody", <<Position(c)>>)>>)
  <2>1. ASSUME NEW es, es = [chain EXCEPT ![Len(chain)] = c]
        PROVE  Valid(es, <<At("forBody", <<Position(c)>>)>> \o RestWork(work), done, envs, decls)
    BY <1>1, <1>4, <1>7, <1>8, <1>16, <2>1, ForEver
  <2> QED
    BY <1>9, <1>16, <2>1
<1>17. CASE w.k = "forTest" /\ Compile(JumpIfFalse(c), <<At("forBody", <<w.at[1]>>), At("exit", <<JumpOffset(c)>>)>>)
  <2>1. ASSUME NEW es, es = [chain EXCEPT ![Len(chain)] = JumpIfFalse(c)]
        PROVE  Valid(es, <<At("forBody", <<w.at[1]>>), At("exit", <<JumpOffset(c)>>)>> \o RestWork(work), done, envs, decls)
    BY <1>1, <1>4, <1>7, <1>8, <1>17, <2>1, ForTestTurn
  <2> QED
    BY <1>9, <1>17, <2>1
<1>18. CASE w.k = "forBody" /\ Compile(c, <<Do("statement"), At("loop", <<w.at[1]>>)>>)
  <2>1. ASSUME NEW es, es = [chain EXCEPT ![Len(chain)] = c]
        PROVE  Valid(es, <<Do("statement"), At("loop", <<w.at[1]>>)>> \o RestWork(work), done, envs, decls)
    BY <1>1, <1>4, <1>7, <1>8, <1>18, <2>1, BodyStart
  <2> QED
    BY <1>9, <1>18, <2>1
<1>19. CASE w.k = "forBody" /\ Compile(EmitJump(c, "JUMP"), <<Expression, At("forIncrement", <<w.at[1], JumpOffset(c)>>), Do("statement"), At("loop", <<Position(EmitJump(c, "JUMP"))>>)>>)
  <2>1. ASSUME NEW es, es = [chain EXCEPT ![Len(chain)] = EmitJump(c, "JUMP")]
        PROVE  Valid(es, <<Expression, At("forIncrement", <<w.at[1], JumpOffset(c)>>), Do("statement"), At("loop", <<Position(EmitJump(c, "JUMP"))>>)>> \o RestWork(work), done, envs, decls)
    BY <1>1, <1>4, <1>7, <1>8, <1>19, <2>1, ForBodyTurn
  <2> QED
    BY <1>9, <1>19, <2>1
<1>20. CASE w.k = "patch" /\ Compile(PatchJump(c, w.at[1]), <<>>)
  BY <1>1, <1>4, <1>20, ContinuePatch, Zenon
<1>30. CASE w.k = "exit" /\ Compile(Emit(PatchJump(c, w.at[1]), <<Op("POP")>>), <<>>)
  BY <1>1, <1>4, <1>30, ContinuePatch, Zenon
<1>31. CASE /\ w.k = "forIncrement"
            /\ Compile(PatchJump(EmitLoop(Emit(c, <<Op("POP")>>), w.at[1]), w.at[2]), <<>>)
  BY <1>1, <1>4, <1>31, ContinuePatch, Zenon
<1>21. CASE w.k = "or" /\ OrRight
  BY <1>4, <1>21, ContinueOr
<1>22. CASE w.k = "else" /\ Else
  BY <1>4, <1>22, ContinueElse
<1>23. \/ w.k = "emit" /\ Compile(Emit(c, w.s), <<>>)
       \/ w.k = "patch" /\ Compile(PatchJump(c, Saved(1)), <<>>)
       \/ w.k = "loop" /\ Compile(EmitLoop(c, Saved(1)), <<>>)
       \/ w.k = "exit" /\ Compile(Emit(PatchJump(c, Saved(1)), <<Op("POP")>>), <<>>)
       \/ w.k = "and" /\ Compile(JumpIfFalse(c), <<Expression, At("patch", <<JumpOffset(c)>>)>>)
       \/ w.k = "then" /\ Compile(JumpIfFalse(c), <<Do("statement"), At("else", <<JumpOffset(c)>>)>>)
       \/ w.k = "or" /\ OrRight
       \/ w.k = "else" /\ Else
       \/ w.k = "test" /\ Test
       \/ w.k = "for" /\ ForCondition
       \/ w.k = "forTest" /\ ForTest
       \/ w.k = "forBody" /\ ForBody
       \/ w.k = "forIncrement" /\ ForIncrement
  <2>1. \A k : Expected({k}) => w.k = k
    BY <1>3, <1>4
  <2>2. Head(work) = w
    BY <1>2, <1>4
  <2>3. Continue
    OBVIOUS
  <2> QED
    BY <1>2, <2>1, <2>2, <2>3 DEF Continue
<1>24. Test => Compile(JumpIfFalse(c), <<Do("statement"), At("loop", <<w.at[1]>>), At("exit", <<JumpOffset(c)>>)>>)
  BY <1>2, <1>5 DEF Test
<1>25. ForCondition => \/ Compile(c, <<Expression, At("forTest", <<Position(c)>>)>>)
                       \/ Compile(c, <<At("forBody", <<Position(c)>>)>>)
  BY <1>2 DEF ForCondition
<1>26. ForTest => Compile(JumpIfFalse(c), <<At("forBody", <<w.at[1]>>), At("exit", <<JumpOffset(c)>>)>>)
  BY <1>2, <1>5 DEF ForTest
<1>27. ForBody => \/ Compile(c, <<Do("statement"), At("loop", <<w.at[1]>>)>>)
                  \/ Compile(EmitJump(c, "JUMP"),
                             <<Expression, At("forIncrement", <<w.at[1], JumpOffset(c)>>), Do("statement"),
                               At("loop", <<Position(EmitJump(c, "JUMP"))>>)>>)
  BY <1>2, <1>5 DEF ForBody
<1>28. ForIncrement => Compile(PatchJump(EmitLoop(Emit(c, <<Op("POP")>>), w.at[1]), w.at[2]), <<>>)
  BY <1>2, <1>5 DEF ForIncrement
<1>29. /\ Saved(1) = w.at[1]
  BY <1>5
<1> QED
  <2>1. CASE w.k = "emit" /\ Compile(Emit(c, w.s), <<>>)
    BY <1>29, <2>1, <1>10
  <2>2. CASE w.k = "patch" /\ Compile(PatchJump(c, Saved(1)), <<>>)
    <3>1. Compile(PatchJump(c, w.at[1]), <<>>)
      BY <1>29, <2>2
    <3>2. w.k = "patch" /\ Compile(PatchJump(c, w.at[1]), <<>>)
      BY <2>2, <3>1
    <3> QED
      BY <3>2, <1>20, Zenon
  <2>3. CASE w.k = "loop" /\ Compile(EmitLoop(c, Saved(1)), <<>>)
    BY <1>29, <2>3, <1>11
  <2>4. CASE w.k = "exit" /\ Compile(Emit(PatchJump(c, Saved(1)), <<Op("POP")>>), <<>>)
    <3>1. Compile(Emit(PatchJump(c, w.at[1]), <<Op("POP")>>), <<>>)
      BY <1>29, <2>4
    <3> QED
      BY <2>4, <3>1, <1>30
  <2>5. CASE w.k = "and" /\ Compile(JumpIfFalse(c), <<Expression, At("patch", <<JumpOffset(c)>>)>>)
    BY <1>29, <2>5, <1>12
  <2>6. CASE w.k = "then" /\ Compile(JumpIfFalse(c), <<Do("statement"), At("else", <<JumpOffset(c)>>)>>)
    BY <1>29, <2>6, <1>13
  <2>7. CASE w.k = "or" /\ OrRight
    BY <1>29, <2>7, <1>21
  <2>8. CASE w.k = "else" /\ Else
    BY <1>29, <2>8, <1>22
  <2>9. CASE w.k = "test" /\ Test
    BY <1>29, <2>9, <1>14, <1>24
  <2>10. CASE w.k = "for" /\ ForCondition
    BY <1>29, <2>10, <1>15, <1>16, <1>25
  <2>11. CASE w.k = "forTest" /\ ForTest
    BY <1>29, <2>11, <1>17, <1>26
  <2>12. CASE w.k = "forBody" /\ ForBody
    BY <1>29, <2>12, <1>18, <1>19, <1>27
  <2>13. CASE w.k = "forIncrement" /\ ForIncrement
    BY <1>29, <2>13, <1>31, <1>28
  <2> QED
    BY <1>23, <2>1, <2>2, <2>3, <2>4, <2>5, <2>6, <2>7, <2>8, <2>9, <2>10, <2>11, <2>12, <2>13

\* A name is resolved, whatever it refers to.
LEMMA ResolveAny ==
    ASSUME NEW ctx, NEW maps, Running(ctx, maps), NEW x \in Name, work[1].k = "expression",
           NEW n, n = Len(chain), NEW d, d = Means(x), NEW r, r = Resolve(x)
    PROVE  Resolution(chain, n, ctx[1], d, r, r.chain, done, decls)
<1>1. Ready(chain, work, done, envs, decls, ctx, maps)
  BY RunningIs DEF Outer
<1>2. Refer(chain, envs, decls, n, ctx[1], x, d)
  BY <1>1, MeansIs
<1>3. d \in 0..Itself
  <2>1. PICK m : m = ctx[1].env
    OBVIOUS
  <2>2. m = Len(envs) /\ d \in {Itself, envs[m][x]} /\ m \in Nat /\ m >= 1
    BY <1>2, <2>1 DEF Refer, Sane, Point
  <2>3. envs \in Seq([Name -> 0..MaxDecl])
    BY <1>1 DEF Ready, Types
  <2>4. m \in 1..Len(envs)
    BY <2>2, <2>3
  <2>5. envs[m] \in [Name -> 0..MaxDecl]
    BY <2>3, <2>4, SeqIs
  <2>6. envs[m][x] \in 0..MaxDecl
    BY <2>5
  <2>7. 0..MaxDecl \subseteq 0..Itself /\ Itself \in 0..Itself
    BY CompilerConstants DEF Itself
  <2> QED
    BY <2>2, <2>6, <2>7
<1>4. Around(x) \subseteq DOMAIN chain
  <2>1. chain \in Seq(Comp) /\ n \in Nat
    BY <1>2 DEF Refer
  <2> QED
    BY <2>1 DEF Around
<1>5. CASE Slots(chain[n], x) # {}
  BY <1>1, <1>2, <1>3, <1>5, ResolveHere
<1>6. CASE Slots(chain[n], x) = {} /\ Around(x) # {}
  BY <1>1, <1>2, <1>3, <1>6, ResolveAround
<1>7. CASE Slots(chain[n], x) = {} /\ Around(x) = {}
  BY <1>1, <1>2, <1>3, <1>7, ResolveGlobal
<1> QED
  BY <1>5, <1>6, <1>7

\* The functions that know a name.
LEMMA ResolvedTypes ==
    ASSUME NEW ctx, NEW maps, Running(ctx, maps), NEW n, NEW hs, Resolved(chain, hs, n),
           NEW wk \in Seq(Item)
    PROVE  Types(hs, wk, done, envs, decls)
<1>1. Types(chain, work, done, envs, decls)
  BY DEF Running
<1>2. hs \in Seq(Comp) /\ DOMAIN hs = 1..n /\ \A k \in 1..n : Limits(hs[k])
  BY DEF Resolved, Resembles
<1> QED
  BY <1>1, <1>2 DEF Types

LEMMA UseValid ==
    ASSUME NEW ch, NEW wk, NEW ds, NEW en, NEW dc, NEW ctx, NEW maps,
           Ready(ch, wk, ds, en, dc, ctx, maps), wk[1].k = "expression", NEW n, NEW d, NEW r, NEW hs,
           Resolution(ch, n, ctx[1], d, r, hs, ds, dc), ~ Fault(hs), NEW s, NEW e, NEW es,
           Uses(hs, n, d, r, s, e, es)
    PROVE  Valid(es, RestWork(wk), ds, en, dc)
<1>1. s = <<Ref(r.get, d), Byte(r.arg)>>
  BY Zenon DEF Uses
<1>2. e = Emit(hs[n], s)
  BY Zenon DEF Uses
<1>3. es = [hs EXCEPT ![n] = e]
  BY Zenon DEF Uses
<1> QED
  BY <1>1, <1>2, <1>3, UseTurn, Zenon

LEMMA UseStep ==
    ASSUME NEW ctx, NEW maps, Running(ctx, maps), NEW x \in Name, Use(x)
    PROVE  Fares(chain', work', done', envs', decls')
<1>1. PICK n, d, r : n = Len(chain) /\ d = Means(x) /\ r = Resolve(x)
  OBVIOUS
<1>2. PICK s, hs : s = <<Ref(r.get, d), Byte(r.arg)>> /\ hs = r.chain
  OBVIOUS
<1>3. PICK e, es : e = Emit(hs[n], s) /\ es = [hs EXCEPT ![n] = e]
  OBVIOUS
<1>4. work[1].k = "expression" /\ RestWork(work) \in Seq(Item) /\ RestWork(work) = Tail(work)
  <2>1. work[1].k = "expression"
    BY RunningIs DEF Use, Production, Expected
  <2> QED
    BY <2>1, RunningIs DEF Outer, RestWork
<1>5. chain' = es /\ work' = RestWork(work) /\ done' = done /\ envs' = envs /\ decls' = decls
  <2>1. chain' = [hs EXCEPT ![n] = Emit(hs[n], s)]
    BY <1>1, <1>2 DEF Use
  <2> QED
    BY <1>3, <1>4, <2>1 DEF Use
<1>6. Resolution(chain, n, ctx[1], d, r, hs, done, decls)
  BY <1>1, <1>2, <1>4, ResolveAny
<1>7. Ready(chain, work, done, envs, decls, ctx, maps)
  BY <1>4, RunningIs DEF Outer
<1>8. CASE ~ Fault(hs)
  <2>1. Valid(es, RestWork(work), done, envs, decls)
    <3>1. Uses(hs, n, d, r, s, e, es)
      BY <1>2, <1>3 DEF Uses
    <3> QED
      BY <1>4, <1>6, <1>7, <1>8, <3>1, UseValid
  <2> QED
    BY <1>5, <2>1, ValidFares, Zenon
<1>9. CASE Fault(hs)
  <2>1. Resolved(chain, hs, n) /\ r.arg \in Nat /\ d \in 0..Itself /\ r.get \in Instructions
    BY <1>6 DEF Resolution, Instructions
  <2>2. hs \in Seq(Comp) /\ DOMAIN hs = 1..n /\ n \in DOMAIN hs
    <3>1. n \in Nat /\ n >= 1
      BY <1>1, RunningIs
    <3> QED
      BY <2>1, <3>1 DEF Resolved
  <2>3. hs[n] \in Comp /\ Limits(hs[n])
    BY <2>1, <2>2 DEF Resolved, Resembles
  <2>4. s \in Seq(Bytes)
    BY <1>2, <2>1, OpIs, ByteIs, TwoByte
  <2>5. Appended(hs[n], e) /\ e.error = hs[n].error
    BY <1>3, <2>3, <2>4, AlikeEmit, EmitIs
  <2>6. Limits(e) /\ e \in Comp
    BY <2>3, <2>5 DEF Appended, Limits
  <2>7. Types(hs, RestWork(work), done, envs, decls)
    BY <1>4, <2>1, ResolvedTypes
  <2>8. es \in Seq(Comp) /\ DOMAIN es = DOMAIN hs /\ \A k \in DOMAIN hs : es[k] = IF k = n THEN e ELSE hs[k]
    BY <1>3, <2>2, <2>6
  <2>9. Types(es, RestWork(work), done, envs, decls)
    BY <2>6, <2>7, <2>8 DEF Types
  <2>10. Fault(es)
    BY <1>9, <2>5, <2>8 DEF Fault
  <2> QED
    BY <1>5, <2>9, <2>10 DEF Fares
<1> QED
  BY <1>8, <1>9

LEMMA AssignStep ==
    ASSUME NEW ctx, NEW maps, Running(ctx, maps), NEW x \in Name, Assign(x)
    PROVE  Fares(chain', work', done', envs', decls')
<1>1. PICK n, d, r : n = Len(chain) /\ d = Means(x) /\ r = Resolve(x)
  OBVIOUS
<1>2. PICK s, hs : s = <<Ref(r.set, d), Byte(r.arg)>> /\ hs = r.chain
  OBVIOUS
<1>3. PICK parts : parts = <<Expression, Emits(s)>>
  OBVIOUS
<1>4. work[1].k = "expression" /\ RestWork(work) \in Seq(Item) /\ RestWork(work) = Tail(work)
  <2>1. work[1].k = "expression"
    BY RunningIs DEF Assign, Production, Expected
  <2> QED
    BY <2>1, RunningIs DEF Outer, RestWork
<1>5. /\ chain' = hs /\ work' = parts \o RestWork(work)
      /\ done' = done /\ envs' = envs /\ decls' = decls
  BY <1>1, <1>2, <1>3, <1>4 DEF Assign
<1>6. Resolution(chain, n, ctx[1], d, r, hs, done, decls)
  BY <1>1, <1>2, <1>4, ResolveAny
<1>7. Ready(chain, work, done, envs, decls, ctx, maps)
  BY <1>4, RunningIs DEF Outer
<1>8. CASE ~ Fault(hs)
  <2>1. Valid(hs, parts \o RestWork(work), done, envs, decls)
    BY <1>2, <1>3, <1>4, <1>6, <1>7, <1>8, AssignTurn
  <2> QED
    BY <1>5, <2>1, ValidFares, Zenon
<1>9. CASE Fault(hs)
  <2>1. Resolved(chain, hs, n) /\ r.arg \in Nat /\ d \in 0..Itself /\ r.set \in Instructions
    BY <1>6 DEF Resolution, Instructions
  <2>2. s \in Seq(Bytes)
    BY <1>2, <2>1, OpIs, ByteIs, TwoByte
  <2>3. parts \in Seq(Item)
    <3>1. Expression \in Item /\ Emits(s) \in Item
      BY <2>2, DoIs, EmitsIs DEF Kinds, Expression
    <3> QED
      BY <1>3, <3>1
  <2>4. parts \o RestWork(work) \in Seq(Item)
    BY <1>4, <2>3
  <2>5. Types(hs, parts \o RestWork(work), done, envs, decls)
    BY <2>1, <2>4, ResolvedTypes
  <2> QED
    BY <1>5, <1>9, <2>5 DEF Fares
<1> QED
  BY <1>8, <1>9

\* A scope is opened.
LEMMA OpenTypes ==
    ASSUME NEW ctx, NEW maps, Running(ctx, maps), NEW parts, OpenScope(parts),
           work[1].k \in {"declarations", "statement"}
    PROVE  \E n, a, q, c, e, es, fn, naps, rw, rc :
              /\ Opening(chain, work, done, envs, decls, ctx, maps, n, a, q, c, e, es, fn, naps, rw, rc)
              /\ rw \in Seq(Item) /\ chain' = es /\ work' = parts \o <<Do("endScope")>> \o rw
              /\ done' = done /\ envs' = fn /\ decls' = decls
<1>1. PICK n : n = Len(chain)
  OBVIOUS
<1>2. PICK c : c = chain[n]
  OBVIOUS
<1>3. PICK e : e = BeginScope(c)
  OBVIOUS
<1>4. PICK es : es = [chain EXCEPT ![n] = e]
  OBVIOUS
<1>5. PICK naps, fn : naps = Renewed(chain, maps, maps[n]) /\ fn = Append(envs, Last(envs))
  OBVIOUS
<1>6. PICK a, q : a = ctx[1] /\ q = Inside(a)
  OBVIOUS
<1>7. PICK rw, rc : rw = RestWork(work) /\ rc = RestCtx(work, ctx)
  OBVIOUS
<1>8. /\ Ready(chain, work, done, envs, decls, ctx, maps) /\ rw \in Seq(Item) /\ Rest = rw
      /\ Current = c
  BY <1>1, <1>2, <1>7, RunningIs DEF Outer
<1>9. Opening(chain, work, done, envs, decls, ctx, maps, n, a, q, c, e, es, fn, naps, rw, rc)
  BY <1>1, <1>2, <1>3, <1>4, <1>5, <1>6, <1>7, <1>8 DEF Opening
<1>10. chain' = es
  BY <1>1, <1>3, <1>4, <1>8, Zenon DEF OpenScope, SetCurrent
<1>11. /\ work' = parts \o <<Do("endScope")>> \o rw
       /\ done' = done /\ envs' = fn /\ decls' = decls
  BY <1>5, <1>8 DEF OpenScope
<1> QED
  BY <1>8, <1>9, <1>10, <1>11

LEMMA BlockAction ==
    ASSUME NEW ctx, NEW maps, Running(ctx, maps), Block
    PROVE  Fares(chain', work', done', envs', decls')
<1>1. \A ks : Expected(ks) => work[1].k \in ks
  BY RunningIs DEF Expected
<1>2. \A p, ks : Production(p, ks) => work[1].k \in ks
  BY <1>1 DEF Production
<1>3. work[1].k \in {"declarations", "statement"} /\ OpenScope(<<Do("declarations")>>)
  BY <1>1, <1>2 DEF Block
<1>4. PICK parts : parts = <<Do("declarations")>>
  OBVIOUS
<1>5. PICK n, a, q, c, e, es, fn, naps, rw, rc :
              /\ Opening(chain, work, done, envs, decls, ctx, maps, n, a, q, c, e, es, fn, naps, rw, rc)
              /\ rw \in Seq(Item) /\ chain' = es /\ work' = parts \o <<Do("endScope")>> \o rw
              /\ done' = done /\ envs' = fn /\ decls' = decls
  <2>1. OpenScope(parts) /\ work[1].k \in {"declarations", "statement"}
    BY <1>3, <1>4
  <2> QED
    BY <2>1, OpenTypes
<1>6. work' = <<Do("declarations")>> \o (<<Do("endScope")>> \o rw)
  <2>1. Do("declarations") \in Item /\ Do("endScope") \in Item
    BY DoIs DEF Kinds
  <2>2. parts \in Seq(Item) /\ <<Do("endScope")>> \in Seq(Item)
    BY <1>4, <2>1
  <2> QED
    BY <1>4, <1>5, <2>2, ConcatAssociative
<1>7. Valid(es, <<Do("declarations")>> \o (<<Do("endScope")>> \o rw), done, fn, decls)
  BY <1>5, BlockStep
<1> QED
  BY <1>5, <1>6, <1>7, ValidFares, Zenon

LEMMA ForAction ==
    ASSUME NEW ctx, NEW maps, Running(ctx, maps), ForStatement
    PROVE  Fares(chain', work', done', envs', decls')
<1>1. \A p, ks : Production(p, ks) => work[1].k \in ks
  BY RunningIs DEF Production, Expected
<1>3. work[1].k \in {"declarations", "statement"} /\ OpenScope(<<Do("initializer"), Do("for")>>)
  BY <1>1 DEF ForStatement
<1>4. PICK parts : parts = <<Do("initializer"), Do("for")>>
  OBVIOUS
<1>5. PICK n, a, q, c, e, es, fn, naps, rw, rc :
              /\ Opening(chain, work, done, envs, decls, ctx, maps, n, a, q, c, e, es, fn, naps, rw, rc)
              /\ rw \in Seq(Item) /\ chain' = es /\ work' = parts \o <<Do("endScope")>> \o rw
              /\ done' = done /\ envs' = fn /\ decls' = decls
  <2>1. OpenScope(parts) /\ work[1].k \in {"declarations", "statement"}
    BY <1>3, <1>4
  <2> QED
    BY <2>1, OpenTypes
<1>6. work' = <<Do("initializer")>> \o (<<Do("for")>> \o (<<Do("endScope")>> \o rw))
  <2>1. Do("initializer") \in Item /\ Do("for") \in Item /\ Do("endScope") \in Item
    BY DoIs DEF Kinds
  <2>2. parts \in Seq(Item) /\ <<Do("endScope")>> \in Seq(Item) /\ <<Do("endScope")>> \o rw \in Seq(Item)
    BY <1>4, <1>5, <2>1
  <2>3. parts \o <<Do("endScope")>> \o rw = parts \o (<<Do("endScope")>> \o rw)
    BY <1>5, <2>2, ConcatAssociative
  <2>4. parts \o (<<Do("endScope")>> \o rw) = <<Do("initializer")>> \o (<<Do("for")>> \o (<<Do("endScope")>> \o rw))
    BY <1>4, <2>1, <2>2, ConcatTwo
  <2> QED
    BY <1>5, <2>3, <2>4
<1>7. Valid(es, <<Do("initializer")>> \o (<<Do("for")>> \o (<<Do("endScope")>> \o rw)), done, fn, decls)
  BY <1>5, ForStep
<1> QED
  BY <1>5, <1>6, <1>7, ValidFares, Zenon

LEMMA EndListAction ==
    ASSUME NEW ctx, NEW maps, Running(ctx, maps), EndList
    PROVE  Fares(chain', work', done', envs', decls')
<1>1. work[1].k \in {"declarations", "initializer", "parameters"}
  BY RunningIs DEF EndList, Expected
<1>2. Valid(chain, Tail(work), done, envs, decls)
  BY <1>1, EndListStep DEF Running
<1>3. /\ chain' = chain /\ work' = Tail(work)
      /\ done' = done /\ envs' = envs /\ decls' = decls
  BY DEF EndList
<1> QED
  BY <1>2, <1>3, ValidFares, Zenon

LEMMA EndBlockAction ==
    ASSUME NEW ctx, NEW maps, Running(ctx, maps), EndBlock
    PROVE  Fares(chain', work', done', envs', decls')
<1>1. PICK n : n = Len(chain)
  OBVIOUS
<1>2. PICK c : c = chain[n]
  OBVIOUS
<1>3. PICK e : e = EndScope(c)
  OBVIOUS
<1>4. PICK es : es = [chain EXCEPT ![n] = e]
  OBVIOUS
<1>5. PICK N : N = Shrinks(c, maps[n], e)
  OBVIOUS
<1>6. PICK naps, fn : naps = Renewed(chain, maps, N) /\ fn = Front(envs)
  OBVIOUS
<1>7. PICK a, b, tw, tc : a = ctx[1] /\ b = ctx[2] /\ tw = Tail(work) /\ tc = Tail(ctx)
  OBVIOUS
<1>8. work[1].k = "endScope" /\ Current = c
  BY <1>1, <1>2, RunningIs DEF EndBlock, Expected
<1>9. Closing(chain, work, done, envs, decls, ctx, maps, n, a, b, c, e, N, es, fn, naps, tw, tc)
  BY <1>1, <1>2, <1>3, <1>4, <1>5, <1>6, <1>7, <1>8 DEF Closing, Running
<1>10. Valid(es, tw, done, fn, decls)
  BY <1>9, EndBlockStep
<1>11. chain' = es
  BY <1>1, <1>3, <1>4, <1>8, Zenon DEF EndBlock, SetCurrent
<1>12. work' = tw /\ done' = done /\ envs' = fn /\ decls' = decls
  BY <1>6, <1>7 DEF EndBlock
<1> QED
  BY <1>10, <1>11, <1>12, ValidFares, Zenon

\* The types hold when the current function and the rest become others.
LEMMA ChainTypes ==
    ASSUME NEW ctx, NEW maps, Running(ctx, maps), NEW e \in Comp, Limits(e),
           NEW es, es = [chain EXCEPT ![Len(chain)] = e], NEW wk \in Seq(Item),
           NEW en \in Seq([Name -> 0..MaxDecl]), NEW dc \in 0..MaxDecl
    PROVE  Types(es, wk, done, en, dc) /\ (e.error => Fault(es))
<1>1. Types(es, wk, done, envs, decls) /\ (e.error => Fault(es))
  BY AlikeTypes
<1> QED
  BY <1>1 DEF Types

\* Where a declaration may come there is room for a local.
LEMMA RoomIs ==
    ASSUME NEW ctx, NEW maps, Running(ctx, maps), NEW c, c = chain[Len(chain)],
           work[1].k \in {"declarations", "initializer", "parameters"}
    PROVE  /\ c \in Comp /\ Room(c) /\ c.scopeDepth \in Nat /\ envs \in Seq([Name -> 0..MaxDecl])
           /\ ctx[1].depth = c.scopeDepth /\ Settled(ctx[1]) /\ Sane(ctx[1])
           /\ ctx[1].all = Len(c.locals) /\ ctx[1].env = Len(envs)
           /\ decls \in 0..MaxDecl /\ decls \in Nat
<1>1. Types(chain, work, done, envs, decls) /\ Good(chain, work, done, envs, decls, ctx, maps)
  BY DEF Running
<1>2. c \in Comp /\ Limits(c) /\ work \in Seq(Item) /\ decls \in Nat
  BY RunningIs
<1>3. Listed(chain, envs, maps, work, ctx) /\ Heads(chain, envs, maps, work, ctx)
  BY <1>1 DEF Good
<1>4. Here(c, maps[Len(chain)], ctx[1], Stack(c, ctx[1])) /\ ctx[1].env = Len(envs)
  BY <1>3 DEF Heads
<1>5. work[1].k # "endScript" /\ ctx \in Seq(Point)
  BY <1>1 DEF Good
<1>6. PICK w, a, v, b, tw, tc : /\ w = work[1] /\ a = ctx[1] /\ v = work[2] /\ b = ctx[2]
                                /\ tw = Tail(work) /\ tc = Tail(ctx)
  OBVIOUS
<1>7. Tails(chain, work, envs, ctx, maps, w, a, v, b, tw, tc)
  BY <1>2, <1>3, <1>5, <1>6, TailsAre
<1>8. Fits(w, a, v, b) /\ Sane(a)
  BY <1>7 DEF Tails, Link, Fine
<1>9. Settled(a)
  BY <1>6, <1>8 DEF Fits
<1>10. /\ a.depth = c.scopeDepth /\ a.all = Len(c.locals)
       /\ a.seen = a.all <=> c.locals[Len(c.locals)].depth # -1
  BY <1>4, <1>6 DEF Here
<1>11. c.locals[Len(c.locals)].depth # -1
  BY <1>9, <1>10 DEF Settled
<1>12. Len(c.locals) >= 1
  <2>1. a.vars >= 1 /\ a.vars = a.all
    BY <1>8, <1>9 DEF Sane, Settled
  <2> QED
    BY <2>1, <1>10
<1>13. c.scopeDepth \in Nat
  BY <1>2 DEF Comp
<1> QED
  BY <1>1, <1>2, <1>4, <1>6, <1>8, <1>9, <1>10, <1>11, <1>12, <1>13 DEF Room, Types

LEMMA CountIs ==
    ASSUME NEW ctx, NEW maps, Running(ctx, maps), CountDeclaration, NEW c, c = chain[Len(chain)]
    PROVE  /\ c.scopeDepth = 0 => decls' = decls
           /\ c.scopeDepth # 0 => /\ decls' = decls + 1 /\ decls + 1 \in 1..MaxDecl
                                  /\ decls + 1 \in 0..MaxDecl /\ c.scopeDepth >= 1
<1>1. c \in Comp /\ Current = c /\ decls \in Nat
  BY RunningIs
<1>2. c.scopeDepth \in Nat /\ MaxDecl \in Nat
  BY <1>1, CompilerConstants DEF Comp
<1>3. CASE c.scopeDepth = 0
  BY <1>1, <1>3 DEF CountDeclaration
<1>4. CASE c.scopeDepth # 0
  <2>1. c.scopeDepth > 0 /\ c.scopeDepth >= 1
    BY <1>2, <1>4
  <2>2. decls < MaxDecl /\ decls' = decls + 1
    BY <1>1, <2>1 DEF CountDeclaration
  <2> QED
    BY <1>1, <1>2, <1>4, <2>1, <2>2
<1> QED
  BY <1>3, <1>4

\* What a global declaration leaves.
LEMMA GlobalIs ==
    ASSUME NEW c \in Comp, Limits(c), NEW e, e = MakeConstant(c, Global)
    PROVE  /\ e \in Comp /\ Limits(e) /\ ConstantIndex(c) \in Nat
           /\ <<Op("DEFINE_GLOBAL"), Byte(ConstantIndex(c))>> \in Seq(Bytes)
<1>1. Global \in Nat
  BY DEF Global
<1>2. Constant(c, Global, e) /\ ConstantIndex(c) \in Nat
  BY <1>1, ConstantIs
<1>3. e \in Comp /\ e.locals = c.locals /\ e.scopeDepth = c.scopeDepth /\ e.f.upvalues = c.f.upvalues
  BY <1>2 DEF Constant
<1>4. Limits(e)
  BY <1>3 DEF Limits
<1>5. <<Op("DEFINE_GLOBAL"), Byte(ConstantIndex(c))>> \in Seq(Bytes)
  <2>1. "DEFINE_GLOBAL" \in Instructions
    BY DEF Instructions
  <2> QED
    BY <1>2, <2>1, OpIs, ByteIs, TwoByte
<1> QED
  BY <1>2, <1>3, <1>4, <1>5

LEMMA VarGlobal ==
    ASSUME NEW ctx, NEW maps, Running(ctx, maps), NEW x \in Name, VarDeclaration(x),
           work[1].k \in {"declarations", "initializer"}, chain[Len(chain)].scopeDepth = 0
    PROVE  Fares(chain', work', done', envs', decls')
<1>1. PICK n, a : n = Len(chain) /\ a = ctx[1]
  OBVIOUS
<1>2. PICK c : c = chain[n]
  OBVIOUS
<1>3. PICK e, s : e = MakeConstant(c, Global) /\ s = <<Op("DEFINE_GLOBAL"), Byte(ConstantIndex(c))>>
  OBVIOUS
<1>4. PICK es : es = [chain EXCEPT ![n] = e]
  OBVIOUS
<1>5. PICK rw, rc : rw = RestWork(work) /\ rc = RestCtx(work, ctx)
  OBVIOUS
<1>6. /\ Current = c /\ Rest = rw /\ Ready(chain, work, done, envs, decls, ctx, maps)
      /\ rw \in Seq(Item) /\ c \in Comp /\ Limits(c)
  BY <1>1, <1>2, <1>5, RunningIs DEF Outer
<1>7. e \in Comp /\ Limits(e) /\ s \in Seq(Bytes)
  BY <1>3, <1>6, GlobalIs
<1>8. decls' = decls
  BY <1>1, <1>2, CountIs DEF VarDeclaration
<1>9. chain' = es
  <2>1. ParseVariable(c, x) = e
    BY <1>1, <1>2, <1>3 DEF ParseVariable
  <2> QED
    BY <1>1, <1>4, <1>6, <2>1, Zenon DEF VarDeclaration, SetCurrent
<1>10. Expression \in Item /\ Defines(s) \in Item
  BY <1>7, DoIs, EmitsIs DEF Kinds, Expression
<1>11. work' = <<Expression>> \o (<<Defines(s)>> \o rw)
  <2>1. Definition(c) = s
    BY <1>1, <1>2, <1>3 DEF Definition
  <2>2. work' = <<Expression, Defines(s)>> \o rw
    BY <1>6, <2>1 DEF VarDeclaration
  <2> QED
    BY <1>6, <1>10, <2>2, ConcatTwo
<1>12. done' = done /\ envs' = envs
  BY DEF VarDeclaration
<1>13. CASE e.error
  <2>1. <<Defines(s)>> \o rw \in Seq(Item)
    BY <1>6, <1>10, ConcatOne
  <2>2. <<Expression>> \o (<<Defines(s)>> \o rw) \in Seq(Item)
    BY <2>1, <1>10, ConcatOne
  <2>3. PICK wk \in Seq(Item) : wk = <<Expression>> \o (<<Defines(s)>> \o rw)
    BY <2>2
  <2>4. Types(es, wk, done, envs, decls) /\ Fault(es)
    BY <1>1, <1>4, <1>7, <1>13, AlikeTypes
  <2> QED
    BY <1>8, <1>9, <1>11, <1>12, <2>3, <2>4 DEF Fares
<1>14. CASE ~ e.error
  <2>1. Declaring(chain, work, done, envs, decls, ctx, maps, n, a, c, rw, rc)
    BY <1>1, <1>2, <1>5, <1>6 DEF Declaring
  <2>2. c.scopeDepth = 0
    BY <1>1, <1>2
  <2>3. Valid(es, <<Expression>> \o (<<Defines(s)>> \o rw), done, envs, decls)
    BY <1>3, <1>4, <1>14, <2>1, <2>2, GlobalVarStep
  <2> QED
    BY <1>8, <1>9, <1>11, <1>12, <2>3, ValidFares, Zenon
<1> QED
  BY <1>13, <1>14

LEMMA VarLocal ==
    ASSUME NEW ctx, NEW maps, Running(ctx, maps), NEW x \in Name, VarDeclaration(x),
           GoneBy(chain, done, decls),
           work[1].k \in {"declarations", "initializer"}, chain[Len(chain)].scopeDepth # 0
    PROVE  Fares(chain', work', done', envs', decls')
<1>1. PICK n, a : n = Len(chain) /\ a = ctx[1]
  OBVIOUS
<1>2. PICK c : c = chain[n]
  OBVIOUS
<1>3. PICK e, d : e = ParseVariable(c, x) /\ d = decls + 1
  OBVIOUS
<1>4. PICK es, naps : /\ es = [chain EXCEPT ![n] = e]
                      /\ naps = [k \in DOMAIN chain |-> IF k = n THEN maps[n] ELSE maps[k]]
  OBVIOUS
<1>5. PICK rw, rc : rw = RestWork(work) /\ rc = RestCtx(work, ctx)
  OBVIOUS
<1>6. /\ Current = c /\ Rest = rw /\ Ready(chain, work, done, envs, decls, ctx, maps)
      /\ rw \in Seq(Item) /\ c \in Comp /\ Room(c) /\ decls \in Nat
  BY <1>1, <1>2, <1>5, RunningIs, RoomIs DEF Outer
<1>7. decls' = d /\ decls + 1 \in 1..MaxDecl /\ d \in 0..MaxDecl /\ c.scopeDepth >= 1
  BY <1>1, <1>2, <1>3, CountIs DEF VarDeclaration
<1>8. /\ e \in Comp /\ Limits(e)
      /\ ~ e.error => Declares(c, e, x, -1, d) /\ e.f = c.f /\ Len(e.locals) <= Count
  BY <1>3, <1>6, <1>7, LocalIs
<1>9. chain' = es
  BY <1>1, <1>3, <1>4, <1>6, Zenon DEF VarDeclaration, SetCurrent
<1>10. Expression \in Item /\ Defines(<<>>) \in Item
  <2>1. <<>> \in Seq(Bytes)
    BY EmptySeq
  <2> QED
    BY <2>1, DoIs, EmitsIs DEF Kinds, Expression
<1>11. work' = <<Expression>> \o (<<Defines(<<>>)>> \o rw)
  <2>1. Definition(c) = <<>>
    BY <1>6, <1>7 DEF Definition, Comp
  <2>2. work' = <<Expression, Defines(<<>>)>> \o rw
    BY <1>6, <2>1 DEF VarDeclaration
  <2> QED
    BY <1>6, <1>10, <2>2, ConcatTwo
<1>12. done' = done /\ envs' = envs
  BY DEF VarDeclaration
<1>13. CASE e.error
  <2>1. <<Defines(<<>>)>> \o rw \in Seq(Item)
    BY <1>6, <1>10, ConcatOne
  <2>2. <<Expression>> \o (<<Defines(<<>>)>> \o rw) \in Seq(Item)
    BY <2>1, <1>10, ConcatOne
  <2>3. PICK wk \in Seq(Item) : wk = <<Expression>> \o (<<Defines(<<>>)>> \o rw)
    BY <2>2
  <2>4. envs \in Seq([Name -> 0..MaxDecl])
    BY DEF Running, Types
  <2>5. Types(es, wk, done, envs, d) /\ Fault(es)
    BY <1>1, <1>4, <1>7, <1>8, <1>13, <2>4, ChainTypes
  <2> QED
    BY <1>7, <1>9, <1>11, <1>12, <2>3, <2>5 DEF Fares
<1>14. CASE ~ e.error
  <2>1. Declaring(chain, work, done, envs, decls, ctx, maps, n, a, c, rw, rc)
    BY <1>1, <1>2, <1>5, <1>6 DEF Declaring
  <2>2. Changed(chain, maps, e, maps[n], es, naps)
    BY <1>1, <1>4 DEF Changed
  <2>3. Locally(chain, work, done, envs, decls, ctx, maps, n, a, c, rw, rc, e, es, naps, envs, x, -1, d)
    BY <1>8, <1>14, <2>1, <2>2 DEF Locally
  <2>4. Valid(es, <<Expression>> \o (<<Defines(<<>>)>> \o rw), done, envs, d)
    BY <1>3, <1>8, <1>14, <2>3, LocalVarStep
  <2> QED
    BY <1>7, <1>9, <1>11, <1>12, <2>4, ValidFares, Zenon
<1> QED
  BY <1>13, <1>14

LEMMA VarAction ==
    ASSUME NEW ctx, NEW maps, Running(ctx, maps), NEW x \in Name, VarDeclaration(x),
           GoneBy(chain, done, decls)
    PROVE  Fares(chain', work', done', envs', decls')
<1>1. work[1].k \in {"declarations", "initializer"}
  BY RunningIs DEF VarDeclaration, Production, Expected
<1> QED
  BY <1>1, VarGlobal, VarLocal

\* A variable is defined.
LEMMA DefineGlobalAction ==
    ASSUME NEW ctx, NEW maps, Running(ctx, maps), DefineVariable, work[1].k = "define",
           chain[Len(chain)].scopeDepth = 0
    PROVE  Fares(chain', work', done', envs', decls')
<1>1. PICK n : n = Len(chain)
  OBVIOUS
<1>2. PICK c : c = chain[n]
  OBVIOUS
<1>3. PICK s : s = work[1].s
  OBVIOUS
<1>4. PICK e : e = Emit(c, s)
  OBVIOUS
<1>5. PICK es : es = [chain EXCEPT ![n] = e]
  OBVIOUS
<1>6. PICK a, b, tw, tc : a = ctx[1] /\ b = ctx[2] /\ tw = Tail(work) /\ tc = Tail(ctx)
  OBVIOUS
<1>7. Head(work) = work[1] /\ Current = c /\ c \in Comp
  BY <1>1, <1>2, RunningIs
<1>8. Defining(chain, work, done, envs, decls, ctx, maps, n, a, b, c, tw, tc)
  BY <1>1, <1>2, <1>6 DEF Defining, Running
<1>9. a.depth = 0 /\ c.scopeDepth = 0
  <2>1. DefiningAt(chain, work, done, envs, decls, ctx, maps, n, a, b, c, tw, tc)
    BY <1>8, DefiningIs
  <2>2. a.depth = c.scopeDepth
    BY <2>1 DEF DefiningAt
  <2> QED
    BY <1>1, <1>2, <2>2
<1>10. DefinesGlobal(chain, work, done, envs, decls, ctx, maps, n, a, b, c, tw, tc, e, es)
  BY <1>3, <1>4, <1>5, <1>8, <1>9 DEF DefinesGlobal
<1>11. Valid(es, tw, done, envs, decls)
  BY <1>10, DefineGlobalStep
<1>12. e = Emit(MarkInitialized(Current), Head(work).s) /\ e.scopeDepth = 0
  <2>1. MarkInitialized(c) = c
    BY <1>9 DEF MarkInitialized
  <2>2. e.scopeDepth = 0
    BY <1>4, <1>7, <1>9 DEF Emit, Comp
  <2> QED
    BY <1>3, <1>4, <1>7, <2>1, <2>2
<1>13. SetCurrent(e) /\ envs' = envs
  BY <1>12, Zenon DEF DefineVariable
<1>14. chain' = es
  BY <1>1, <1>5, <1>13, Zenon DEF SetCurrent
<1>15. work' = tw /\ done' = done /\ decls' = decls
  BY <1>6 DEF DefineVariable
<1> QED
  BY <1>11, <1>13, <1>14, <1>15, ValidFares, Zenon

LEMMA DefineLocalAction ==
    ASSUME NEW ctx, NEW maps, Running(ctx, maps), DefineVariable, work[1].k = "define",
           chain[Len(chain)].scopeDepth # 0
    PROVE  Fares(chain', work', done', envs', decls')
<1>1. PICK n : n = Len(chain)
  OBVIOUS
<1>2. PICK c : c = chain[n]
  OBVIOUS
<1>3. PICK a, b, tw, tc : a = ctx[1] /\ b = ctx[2] /\ tw = Tail(work) /\ tc = Tail(ctx)
  OBVIOUS
<1>4. Head(work) = work[1] /\ Current = c /\ c \in Comp
  BY <1>1, <1>2, RunningIs
<1>5. Defining(chain, work, done, envs, decls, ctx, maps, n, a, b, c, tw, tc)
  BY <1>1, <1>2, <1>3 DEF Defining, Running
<1>6. DefiningAt(chain, work, done, envs, decls, ctx, maps, n, a, b, c, tw, tc)
  BY <1>5, DefiningIs
<1>7. a.depth # 0 /\ c.scopeDepth # 0 /\ work[1].s = <<>> /\ a.all = Len(c.locals) /\ Locals(c, decls)
      /\ decls \in 0..MaxDecl
  BY <1>1, <1>2, <1>6 DEF DefiningAt
<1>8. PICK h : h = Len(c.locals)
  OBVIOUS
<1>9. h \in Nat /\ h >= 2
  <2>1. b.vars = a.all /\ a.vars + 1 = b.vars
    <3>1. Settled(b) /\ b.all = a.all /\ a = [b EXCEPT !.vars = @ - 1, !.seen = a.seen] /\ b \in Point
      BY <1>6, <1>7 DEF DefiningAt
    <3>2. a.vars = b.vars - 1 /\ b.vars \in Nat /\ b.vars = b.all
      BY <3>1 DEF Settled, Point
    <3> QED
      BY <3>1, <3>2
  <2>2. Sane(a) /\ a \in Point
    BY <1>6 DEF DefiningAt
  <2> QED
    BY <2>1, <2>2, <1>7, <1>8 DEF Sane, Point
<1>10. PICK d : d = c.locals[h].decl
  OBVIOUS
<1>11. d \in 1..MaxDecl
  <2>1. h \in 2..Len(c.locals)
    BY <1>8, <1>9
  <2>2. d \in 1..decls
    BY <1>7, <1>10, <2>1 DEF Locals
  <2>3. decls <= MaxDecl /\ decls \in Nat /\ MaxDecl \in Nat
    BY <1>7, CompilerConstants
  <2> QED
    BY <2>2, <2>3
<1>12. PICK m : m = Emit(MarkInitialized(c), <<>>)
  OBVIOUS
<1>13. PICK l : l = Last(m.locals)
  OBVIOUS
<1>14. PICK mark : mark = [decl |-> l.decl, at |-> Position(m)]
  OBVIOUS
<1>15. PICK e : e = [m EXCEPT !.f.born = @ \cup {mark}]
  OBVIOUS
<1>16. PICK es : es = [chain EXCEPT ![n] = e]
  OBVIOUS
<1>17. Delivered(c, e) /\ l.name = c.locals[h].name /\ l.decl = d
  <2>1. Len(c.locals) >= 1 /\ c.locals[Len(c.locals)].decl \in 1..MaxDecl
    BY <1>8, <1>9, <1>10, <1>11
  <2>2. e = [m EXCEPT !.f.born = @ \cup {[decl |-> l.decl, at |-> Position(m)]}]
    BY <1>14, <1>15
  <2>3. Delivered(c, e) /\ l.name = c.locals[Len(c.locals)].name /\ l.decl = c.locals[Len(c.locals)].decl
    BY <1>4, <1>7, <1>12, <1>13, <2>1, <2>2, DeliveredIs
  <2> QED
    BY <2>3, <1>8, <1>10
<1>18. PICK N : N = [maps[n] EXCEPT ![Len(c.f.code)] = [height |-> h, slot |-> SlotsOf(c, h)]]
  OBVIOUS
<1>19. PICK naps : naps = Renewed(chain, maps, N)
  OBVIOUS
<1>20. PICK fn : fn = [envs EXCEPT ![Len(envs)] = [@ EXCEPT ![c.locals[h].name] = d]]
  OBVIOUS
<1>21. Delivers(chain, work, done, envs, decls, ctx, maps, n, a, b, c, tw, tc, e, es, N, naps, fn, h, d)
  BY <1>5, <1>7, <1>8, <1>10, <1>16, <1>17, <1>18, <1>19, <1>20 DEF Delivers
<1>22. Valid(es, tw, done, fn, decls)
  BY <1>21, DefineLocalStep
<1>23. m.scopeDepth # 0
  <2>1. Len(c.locals) >= 1
    BY <1>8, <1>9
  <2>2. Marked(c, MarkInitialized(c))
    BY <1>4, <1>7, <2>1, MarkedIs
  <2>3. MarkInitialized(c) \in Comp /\ MarkInitialized(c).scopeDepth = c.scopeDepth
    BY <2>2 DEF Marked
  <2>4. m = MarkInitialized(c)
    BY <1>12, <2>3, EmitNothing
  <2> QED
    BY <1>7, <2>3, <2>4
<1>24. m = Emit(MarkInitialized(Current), Head(work).s)
  BY <1>4, <1>7, <1>12
<1>25. SetCurrent(e) /\ envs' = Bind(l.name, l.decl)
  BY <1>13, <1>14, <1>15, <1>23, <1>24, Zenon DEF DefineVariable
<1>26. chain' = es
  BY <1>1, <1>16, <1>25, Zenon DEF SetCurrent
<1>27. envs' = fn
  BY <1>17, <1>20, <1>25 DEF Bind
<1>28. work' = tw /\ done' = done /\ decls' = decls
  BY <1>3 DEF DefineVariable
<1> QED
  BY <1>22, <1>26, <1>27, <1>28, ValidFares, Zenon

LEMMA DefineAction ==
    ASSUME NEW ctx, NEW maps, Running(ctx, maps), DefineVariable
    PROVE  Fares(chain', work', done', envs', decls')
<1>1. work[1].k = "define"
  BY RunningIs DEF DefineVariable, Expected
<1> QED
  BY <1>1, DefineGlobalAction, DefineLocalAction

\* A local that has its scope from the begin.
LEMMA MarkedLocal ==
    ASSUME NEW c \in Comp, NEW x \in Name, decls \in Nat, decls + 1 \in 1..MaxDecl, c.scopeDepth >= 1,
           Room(c), NEW e, e = MarkInitialized(ParseVariable(c, x))
    PROVE  /\ e \in Comp /\ Limits(e) /\ e.f = c.f /\ e.scopeDepth = c.scopeDepth
           /\ ~ e.error => Declares(c, e, x, c.scopeDepth, decls + 1) /\ Len(e.locals) <= Count
<1>1. PICK d : d = ParseVariable(c, x)
  OBVIOUS
<1>2. /\ d \in Comp /\ Limits(d) /\ Len(d.locals) >= 1 /\ d.scopeDepth = c.scopeDepth /\ d.f = c.f
      /\ ~ d.error => Declares(c, d, x, -1, decls + 1) /\ Len(d.locals) <= Count
  BY <1>1, LocalIs
<1>3. c.scopeDepth \in Nat /\ d.scopeDepth # 0
  BY <1>2, CompIs
<1>4. Marked(d, e)
  BY <1>1, <1>2, <1>3, MarkedIs
<1>5. PICK L \in Nat : L = Len(d.locals)
  BY <1>2, CompIs
<1>6. /\ e \in Comp /\ e.scopeDepth = c.scopeDepth /\ e.error = d.error /\ e.f = c.f
      /\ Len(e.locals) = L /\ DOMAIN e.locals = 1..L /\ L >= 1
      /\ \A l \in 1..L - 1 : e.locals[l] = d.locals[l]
      /\ e.locals[L] = [name |-> d.locals[L].name, depth |-> c.scopeDepth,
                        captured |-> d.locals[L].captured, decl |-> d.locals[L].decl]
  BY <1>2, <1>4, <1>5 DEF Marked
<1>7. Limits(e)
  <2>1. Len(e.locals) <= Count /\ Len(e.f.upvalues) <= Count
    BY <1>2, <1>5, <1>6 DEF Limits
  <2>2. ASSUME NEW l \in DOMAIN e.locals
        PROVE  e.locals[l].depth \in 0..e.scopeDepth
    <3>1. CASE l = L
      BY <1>3, <1>6, <3>1
    <3>2. CASE l # L
      <4>1. l \in 1..L - 1 /\ l \in 1..L
        BY <1>5, <1>6, <2>2, <3>2
      <4>2. e.locals[l] = d.locals[l] /\ l \in DOMAIN d.locals
        <5>1. DOMAIN d.locals = 1..Len(d.locals)
          BY <1>2, CompIs
        <5> QED
          BY <1>5, <1>6, <4>1, <5>1
      <4> QED
        BY <1>2, <1>5, <1>6, <3>2, <4>2 DEF Limits
    <3> QED
      BY <3>1, <3>2
  <2> QED
    BY <2>1, <2>2 DEF Limits
<1>8. ASSUME ~ e.error
      PROVE  Declares(c, e, x, c.scopeDepth, decls + 1) /\ Len(e.locals) <= Count
  <2>1. Declares(c, d, x, -1, decls + 1) /\ Len(d.locals) <= Count
    BY <1>2, <1>6, <1>8
  <2>2. PICK h \in Nat : h = Len(c.locals)
    BY CompIs
  <2>3. /\ L = h + 1 /\ decls + 1 \in 1..MaxDecl
        /\ \A l \in 1..h : d.locals[l] = c.locals[l]
        /\ d.locals[h + 1] = [name |-> x, depth |-> -1, captured |-> FALSE, decl |-> decls + 1]
    BY <1>5, <2>1, <2>2 DEF Declares
  <2>4. /\ \A l \in 1..h : e.locals[l] = c.locals[l]
        /\ e.locals[h + 1] = [name |-> x, depth |-> c.scopeDepth, captured |-> FALSE, decl |-> decls + 1]
        /\ DOMAIN e.locals = 1..h + 1 /\ Len(e.locals) = h + 1
    <3>1. L - 1 = h
      BY <2>2, <2>3
    <3> QED
      BY <1>6, <2>3, <3>1
  <2>5. /\ \A l \in 1..Len(c.locals) : e.locals[l] = c.locals[l]
        /\ e.locals[Len(c.locals) + 1] =
               [name |-> x, depth |-> c.scopeDepth, captured |-> FALSE, decl |-> decls + 1]
        /\ DOMAIN e.locals = 1..Len(c.locals) + 1 /\ Len(e.locals) = Len(c.locals) + 1
    BY <2>2, <2>4
  <2> QED
    BY <1>5, <1>6, <2>1, <2>3, <2>5 DEF Declares
<1> QED
  BY <1>6, <1>7, <1>8

\* One more function in the chain, and one more scope.
LEMMA AppendTypes ==
    ASSUME NEW es, NEW wk, NEW ds, NEW en, NEW dc, Types(es, wk, ds, en, dc), Len(en) >= 1,
           NEW hs, hs = Append(es, BeginScope(InitCompiler)), NEW gn, gn = Append(en, Last(en)),
           NEW pw \in Seq(Item)
    PROVE  Types(hs, pw, ds, gn, dc) /\ (Fault(es) => Fault(hs))
<1>1. PICK g : g = BeginScope(InitCompiler)
  OBVIOUS
<1>2. g \in Comp /\ Limits(g)
  BY <1>1, BeginsIs DEF Begins
<1>3. PICK n \in Nat : n = Len(es)
  BY DEF Types
<1>4. es \in Seq(Comp) /\ DOMAIN es = 1..n
  BY <1>3 DEF Types
<1>5. /\ hs \in Seq(Comp) /\ Len(hs) = n + 1 /\ hs[n + 1] = g /\ DOMAIN hs = 1..n + 1
      /\ \A k \in 1..n : hs[k] = es[k]
  BY <1>1, <1>2, <1>3, <1>4, AppendIs
<1>6. gn \in Seq([Name -> 0..MaxDecl])
  <2>1. en \in Seq([Name -> 0..MaxDecl]) /\ Len(en) \in Nat
    BY DEF Types
  <2>2. Len(en) \in 1..Len(en) /\ Last(en) = en[Len(en)]
    BY <2>1 DEF Last
  <2>3. Last(en) \in [Name -> 0..MaxDecl]
    BY <2>1, <2>2
  <2> QED
    BY <2>1, <2>3
<1>7. \A k \in DOMAIN hs : Limits(hs[k])
  <2>1. \A k \in 1..n : Limits(es[k])
    BY <1>4 DEF Types
  <2>2. \A k \in 1..n + 1 : k = n + 1 \/ k \in 1..n
    BY <1>3
  <2> QED
    BY <1>2, <1>5, <2>1, <2>2
<1>8. Fault(es) => Fault(hs)
  <2>1. \A k \in 1..n : k \in 1..n + 1
    BY <1>3
  <2> QED
    BY <1>4, <1>5, <2>1 DEF Fault
<1> QED
  BY <1>5, <1>6, <1>7, <1>8 DEF Types

LEMMA FunPartsIs ==
    ASSUME NEW s \in Seq(Bytes), NEW rw \in Seq(Item)
    PROVE  /\ FunParts(s) \o rw \in Seq(Item)
           /\ FunParts(s) \o rw = <<Do("parameters")>> \o (<<Do("declarations")>>
                                      \o (<<Do("endFunction")>> \o (<<Defines(s)>> \o rw)))
<1>1. /\ Do("parameters") \in Item /\ Do("declarations") \in Item /\ Do("endFunction") \in Item
      /\ Defines(s) \in Item
  BY DoIs, EmitsIs DEF Kinds
<1>2. OneByOne4(Do("parameters"), Do("declarations"), Do("endFunction"), Defines(s), rw)
  BY <1>1, ConcatFour
<1>3. FunParts(s) \in Seq(Item)
  BY <1>1 DEF FunParts
<1>4. FunParts(s) \o rw \in Seq(Item)
  BY <1>3
<1> QED
  BY <1>2, <1>4 DEF FunParts, OneByOne4

LEMMA FunFares ==
    ASSUME NEW es, NEW fn, NEW s \in Seq(Bytes), NEW rw \in Seq(Item), FunBegins(es, fn, s, rw),
           NEW naps, NEW n, NEW q, NEW p, NEW b, Ahead(es, done, fn, decls', naps, n, rw, q, p, s, b)
    PROVE  Fares(chain', work', done', envs', decls')
<1>1. PICK hs, gn : hs = Append(es, BeginScope(InitCompiler)) /\ gn = Append(fn, Last(fn))
  OBVIOUS
<1>2. Valid(hs, <<Do("parameters")>> \o (<<Do("declarations")>> \o (<<Do("endFunction")>>
                         \o (<<Defines(s)>> \o rw))), done, gn, decls')
  BY <1>1, AheadStep
<1>3. /\ chain' = hs /\ envs' = gn /\ done' = done
      /\ work' = <<Do("parameters")>> \o (<<Do("declarations")>> \o (<<Do("endFunction")>>
                         \o (<<Defines(s)>> \o rw)))
  BY <1>1, FunPartsIs DEF FunBegins
<1> QED
  BY <1>2, <1>3, ValidFares, Zenon

LEMMA FunFaults ==
    ASSUME NEW es, NEW fn, NEW s \in Seq(Bytes), NEW rw \in Seq(Item), FunBegins(es, fn, s, rw),
           NEW wk, Types(es, wk, done, fn, decls'), Fault(es), Len(fn) >= 1
    PROVE  Fares(chain', work', done', envs', decls')
<1>1. PICK hs, gn : hs = Append(es, BeginScope(InitCompiler)) /\ gn = Append(fn, Last(fn))
  OBVIOUS
<1>2. PICK pw \in Seq(Item) : pw = FunParts(s) \o rw
  BY FunPartsIs
<1>3. Types(hs, pw, done, gn, decls') /\ Fault(hs)
  BY <1>1, AppendTypes
<1>4. chain' = hs /\ envs' = gn /\ done' = done /\ work' = pw
  BY <1>1, <1>2 DEF FunBegins
<1> QED
  BY <1>3, <1>4 DEF Fares

LEMMA FunGlobalAction ==
    ASSUME NEW ctx, NEW maps, Running(ctx, maps), NEW x \in Name, FunDeclaration(x),
           work[1].k = "declarations", chain[Len(chain)].scopeDepth = 0
    PROVE  Fares(chain', work', done', envs', decls')
<1>1. PICK n, a : n = Len(chain) /\ a = ctx[1]
  OBVIOUS
<1>2. PICK c : c = chain[n]
  OBVIOUS
<1>3. PICK e, s, b : /\ e = MakeConstant(c, Global) /\ b = Raise(a, 1)
                     /\ s = <<Op("DEFINE_GLOBAL"), Byte(ConstantIndex(c))>>
  OBVIOUS
<1>4. PICK es : es = [chain EXCEPT ![n] = e]
  OBVIOUS
<1>5. PICK rw, rc : rw = RestWork(work) /\ rc = RestCtx(work, ctx)
  OBVIOUS
<1>6. /\ Current = c /\ Rest = rw /\ Ready(chain, work, done, envs, decls, ctx, maps)
      /\ rw \in Seq(Item) /\ c \in Comp /\ Limits(c) /\ n \in DOMAIN chain
  BY <1>1, <1>2, <1>5, RunningIs DEF Outer
<1>7. e \in Comp /\ Limits(e) /\ s \in Seq(Bytes)
  BY <1>3, <1>6, GlobalIs
<1>8. decls' = decls /\ c.scopeDepth = 0
  BY <1>1, <1>2, CountIs DEF FunDeclaration
<1>9. MarkInitialized(ParseVariable(c, x)) = e
  <2>1. ParseVariable(c, x) = e
    BY <1>3, <1>8 DEF ParseVariable
  <2>2. e.scopeDepth = 0
    BY <1>3, <1>6, <1>8 DEF MakeConstant, Comp
  <2> QED
    BY <2>1, <2>2 DEF MarkInitialized
<1>10. FunBegins(es, envs, s, rw)
  <2>1. chain' = Append(es, BeginScope(InitCompiler))
    <3>1. [chain EXCEPT ![Len(chain)] = MarkInitialized(ParseVariable(@, x))] = es
      BY <1>1, <1>2, <1>4, <1>6, <1>9
    <3> QED
      BY <3>1 DEF FunDeclaration
  <2>2. envs' = Append(envs, Last(envs))
    BY <1>6, <1>8 DEF FunDeclaration
  <2>3. work' = FunParts(s) \o rw
    <3>1. Definition(c) = s
      BY <1>3, <1>8 DEF Definition
    <3> QED
      BY <3>1, <1>6 DEF FunDeclaration, FunParts
  <2>4. done' = done
    BY DEF FunDeclaration
  <2> QED
    BY <2>1, <2>2, <2>3, <2>4 DEF FunBegins
<1>11. CASE e.error
  <2>1. Types(es, rw, done, envs, decls) /\ Fault(es)
    BY <1>1, <1>4, <1>6, <1>7, <1>11, AlikeTypes
  <2>2. Len(envs) >= 1
    BY LastScope DEF Running
  <2> QED
    BY <1>6, <1>7, <1>8, <1>10, <2>1, <2>2, FunFaults
<1>12. CASE ~ e.error
  <2>1. Declaring(chain, work, done, envs, decls, ctx, maps, n, a, c, rw, rc)
    BY <1>1, <1>2, <1>5, <1>6 DEF Declaring
  <2>2. FunGlobal(chain, work, done, envs, decls, ctx, maps, n, a, c, rw, rc, e, es, s, b)
    BY <1>3, <1>4, <1>8, <1>12, <2>1 DEF FunGlobal
  <2>3. PICK naps : Ahead(es, done, envs, decls, naps, n, rw, rc, a, s, b)
    BY <2>2, FunGlobalStep
  <2> QED
    BY <1>6, <1>7, <1>8, <1>10, <2>3, FunFares
<1> QED
  BY <1>11, <1>12

LEMMA FunLocalAction ==
    ASSUME NEW ctx, NEW maps, Running(ctx, maps), NEW x \in Name, FunDeclaration(x),
           GoneBy(chain, done, decls),
           work[1].k = "declarations", chain[Len(chain)].scopeDepth # 0
    PROVE  Fares(chain', work', done', envs', decls')
<1>1. PICK n, a : n = Len(chain) /\ a = ctx[1]
  OBVIOUS
<1>2. PICK c : c = chain[n]
  OBVIOUS
<1>3. PICK e, d, dd : /\ e = MarkInitialized(ParseVariable(c, x))
                      /\ d = decls + 1 /\ dd = c.scopeDepth
  OBVIOUS
<1>4. PICK es, naps : /\ es = [chain EXCEPT ![n] = e]
                      /\ naps = [k \in DOMAIN chain |-> IF k = n THEN maps[n] ELSE maps[k]]
  OBVIOUS
<1>5. PICK rw, rc : rw = RestWork(work) /\ rc = RestCtx(work, ctx)
  OBVIOUS
<1>6. /\ Current = c /\ Rest = rw /\ Ready(chain, work, done, envs, decls, ctx, maps)
      /\ rw \in Seq(Item) /\ c \in Comp /\ Room(c) /\ decls \in Nat /\ n \in DOMAIN chain
  BY <1>1, <1>2, <1>5, RunningIs, RoomIs DEF Outer
<1>7. /\ decls' = d /\ decls + 1 \in 1..MaxDecl /\ d \in 0..MaxDecl /\ d \in 1..MaxDecl
      /\ c.scopeDepth >= 1 /\ c.scopeDepth > 0
  <2>1. decls' = d /\ decls + 1 \in 1..MaxDecl /\ d \in 0..MaxDecl /\ c.scopeDepth >= 1
    BY <1>1, <1>2, <1>3, CountIs DEF FunDeclaration
  <2>2. c.scopeDepth \in Nat
    BY <1>6, CompIs
  <2> QED
    BY <1>3, <2>1, <2>2
<1>8. /\ e \in Comp /\ Limits(e) /\ e.f = c.f
      /\ ~ e.error => Declares(c, e, x, dd, d) /\ Len(e.locals) <= Count
  BY <1>3, <1>6, <1>7, MarkedLocal
<1>9. PICK fn : fn = Bind(x, d)
  OBVIOUS
<1>10. FunBegins(es, fn, <<>>, rw)
  <2>1. chain' = Append(es, BeginScope(InitCompiler))
    <3>1. [chain EXCEPT ![Len(chain)] = MarkInitialized(ParseVariable(@, x))] = es
      BY <1>1, <1>2, <1>3, <1>4, <1>6
    <3> QED
      BY <3>1 DEF FunDeclaration
  <2>2. envs' = Append(fn, Last(fn))
    BY <1>3, <1>6, <1>7, <1>9 DEF FunDeclaration
  <2>3. work' = FunParts(<<>>) \o rw
    <3>1. Definition(c) = <<>>
      BY <1>7 DEF Definition
    <3> QED
      BY <3>1, <1>6 DEF FunDeclaration, FunParts
  <2>4. done' = done
    BY DEF FunDeclaration
  <2> QED
    BY <2>1, <2>2, <2>3, <2>4 DEF FunBegins
<1>11. Len(envs) >= 1 /\ envs \in Seq([Name -> 0..MaxDecl])
  BY LastScope DEF Running
<1>12. Rebinds(envs, x, d, fn)
  BY <1>9 DEF Bind, Rebinds
<1>13. Rebound(envs, x, d, fn)
  BY <1>7, <1>11, <1>12, RebindIs
<1>14. <<>> \in Seq(Bytes)
  BY EmptySeq
<1>15. CASE e.error
  <2>1. fn \in Seq([Name -> 0..MaxDecl]) /\ Len(fn) >= 1
    BY <1>11, <1>13 DEF Rebound
  <2>2. Types(es, rw, done, fn, d) /\ Fault(es)
    BY <1>1, <1>4, <1>6, <1>7, <1>8, <1>15, <2>1, ChainTypes
  <2> QED
    BY <1>6, <1>7, <1>10, <1>14, <2>1, <2>2, FunFaults
<1>16. CASE ~ e.error
  <2>1. Declaring(chain, work, done, envs, decls, ctx, maps, n, a, c, rw, rc)
    BY <1>1, <1>2, <1>5, <1>6 DEF Declaring
  <2>2. Changed(chain, maps, e, maps[n], es, naps)
    BY <1>1, <1>4 DEF Changed
  <2>3. a.env = Len(envs)
    BY <1>1, LastScope DEF Running
  <2>4. \A i \in 1..a.env - 1 : fn[i] = envs[i]
    BY <2>3, <1>13 DEF Rebound
  <2>5. Locally(chain, work, done, envs, decls, ctx, maps, n, a, c, rw, rc, e, es, naps, fn, x, dd, d)
    BY <1>8, <1>16, <2>1, <2>2, <2>4 DEF Locally
  <2>6. FunLocal(chain, work, done, envs, decls, ctx, maps, n, a, c, rw, rc, e, es, naps, fn, x, dd, d)
    BY <1>3, <1>8, <1>12, <2>5 DEF FunLocal
  <2>7. PICK q, p, b : Ahead(es, done, fn, d, naps, n, rw, q, p, <<>>, b)
    BY <2>6, FunLocalStep
  <2> QED
    BY <1>6, <1>7, <1>10, <1>14, <2>7, FunFares
<1> QED
  BY <1>15, <1>16

LEMMA FunAction ==
    ASSUME NEW ctx, NEW maps, Running(ctx, maps), NEW x \in Name, FunDeclaration(x),
           GoneBy(chain, done, decls)
    PROVE  Fares(chain', work', done', envs', decls')
<1>1. work[1].k = "declarations"
  BY RunningIs DEF FunDeclaration, Production, Expected
<1> QED
  BY <1>1, FunGlobalAction, FunLocalAction

\* Parameters are locals of the scope of their function.
LEMMA ParamDepth ==
    ASSUME NEW ctx, NEW maps, Running(ctx, maps), work[1].k = "parameters"
    PROVE  ctx[1].depth = 1
<1>1. Good(chain, work, done, envs, decls, ctx, maps)
  BY DEF Running
<1>2. Listed(chain, envs, maps, work, ctx) /\ work[3].k = "endFunction"
  BY <1>1 DEF Good, Heads
<1>20. Len(work) \in Nat
  BY <1>2 DEF Listed
<1>3. PICK n \in Nat : n = Len(work)
  BY <1>20
<1>4. /\ work[n].k = "endScript" /\ n >= 1
      /\ \A i \in 1..n - 1 : Link(chain, envs, maps, work[i], ctx[i], work[i + 1], ctx[i + 1])
  BY <1>2, <1>3 DEF Listed
<1>5. \A i \in 1..n : work[i].k # "endScript" => i \in 1..n - 1
  BY <1>3, <1>4
<1>6. 1 \in 1..n - 1
  BY <1>3, <1>4, <1>5
<1>7. PICK a, w, v, b : a = ctx[1] /\ w = work[1] /\ v = work[2] /\ b = ctx[2]
  OBVIOUS
<1>8. Fits(w, a, v, b)
  <2>1. Link(chain, envs, maps, work[1], ctx[1], work[1 + 1], ctx[1 + 1])
    BY <1>4, <1>6
  <2> QED
    BY <1>7, <2>1 DEF Link
<1>9. b = a /\ v.k = "declarations"
  BY <1>7, <1>8 DEF Fits
<1>10. 2 \in 1..n
  BY <1>3, <1>6
<1>11. 2 \in 1..n - 1
  BY <1>5, <1>7, <1>9, <1>10
<1>12. PICK u, c : u = work[3] /\ c = ctx[3]
  OBVIOUS
<1>13. Fits(v, b, u, c)
  <2>1. Link(chain, envs, maps, work[2], ctx[2], work[2 + 1], ctx[2 + 1])
    BY <1>4, <1>11
  <2> QED
    BY <1>7, <1>12, <2>1 DEF Link
<1>14. c = b
  BY <1>9, <1>13 DEF Fits
<1>15. 3 \in 1..n
  BY <1>3, <1>11
<1>16. 3 \in 1..n - 1
  BY <1>2, <1>5, <1>15
<1>17. PICK t, d : t = work[4] /\ d = ctx[4]
  OBVIOUS
<1>18. Fits(u, c, t, d)
  <2>1. Link(chain, envs, maps, work[3], ctx[3], work[3 + 1], ctx[3 + 1])
    BY <1>4, <1>16
  <2> QED
    BY <1>12, <1>17, <2>1 DEF Link
<1>19. c.depth = 1
  BY <1>2, <1>12, <1>18 DEF Fits
<1> QED
  BY <1>7, <1>9, <1>14, <1>19

LEMMA ExtendedIs ==
    ASSUME NEW m \in Comp, NEW d \in 1..MaxDecl, NEW e, e = [m EXCEPT !.f.params = Append(@, d)]
    PROVE  Extended(m, e, d)
<1>1. m.f \in Function /\ m.f.params \in Seq(1..MaxDecl)
  BY DEF Comp, Function
<1>2. PICK ps : ps = Append(m.f.params, d)
  OBVIOUS
<1>3. /\ ps \in Seq(1..MaxDecl) /\ Len(ps) = Len(m.f.params) + 1 /\ ps[Len(m.f.params) + 1] = d
      /\ \A i \in DOMAIN m.f.params : ps[i] = m.f.params[i]
  BY <1>1, <1>2, AppendIs
<1>4. PICK f : f = [m.f EXCEPT !.params = ps]
  OBVIOUS
<1>5. /\ f \in Function /\ f.code = m.f.code /\ f.born = m.f.born /\ f.gone = m.f.gone
      /\ f.land = m.f.land /\ f.upvalues = m.f.upvalues /\ f.params = ps
  BY <1>1, <1>3, <1>4 DEF Function
<1>6. e = [m EXCEPT !.f = f]
  BY <1>1, <1>2, <1>4 DEF Comp, Function
<1>7. /\ e \in Comp /\ e.f = f /\ e.locals = m.locals /\ e.scopeDepth = m.scopeDepth
      /\ e.error = m.error
  BY <1>5, <1>6 DEF Comp
<1> QED
  BY <1>3, <1>5, <1>7 DEF Extended

\* A parameter is declared.
LEMMA ParamAction ==
    ASSUME NEW ctx, NEW maps, Running(ctx, maps), NEW x \in Name, Parameter(x),
           GoneBy(chain, done, decls)
    PROVE  Fares(chain', work', done', envs', decls')
<1>1. PICK n, a : n = Len(chain) /\ a = ctx[1]
  OBVIOUS
<1>2. PICK c : c = chain[n]
  OBVIOUS
<1>3. PICK m, d : m = MarkInitialized(ParseVariable(c, x)) /\ d = decls + 1
  OBVIOUS
<1>4. PICK e : e = [m EXCEPT !.f.params = Append(@, d)]
  OBVIOUS
<1>5. PICK es : es = [chain EXCEPT ![n] = e]
  OBVIOUS
<1>6. work[1].k = "parameters"
  BY RunningIs DEF Parameter, Expected
<1>7. /\ Current = c /\ c \in Comp /\ Room(c) /\ decls \in Nat /\ work \in Seq(Item)
      /\ c.scopeDepth = 1 /\ a.all = Len(c.locals)
  BY <1>1, <1>2, <1>6, RunningIs, RoomIs, ParamDepth
<1>8. decls' = d /\ decls + 1 \in 1..MaxDecl /\ d \in 0..MaxDecl /\ d \in 1..MaxDecl
  <2>1. decls' = d /\ decls + 1 \in 1..MaxDecl /\ d \in 0..MaxDecl
    BY <1>1, <1>2, <1>3, <1>7, CountIs DEF Parameter
  <2> QED
    BY <1>3, <2>1
<1>9. /\ m \in Comp /\ Limits(m) /\ m.f = c.f /\ m.scopeDepth = c.scopeDepth
      /\ ~ m.error => Declares(c, m, x, c.scopeDepth, d) /\ Len(m.locals) <= Count
  <2>1. c.scopeDepth >= 1
    BY <1>7
  <2> QED
    BY <1>3, <1>7, <1>8, <2>1, MarkedLocal
<1>10. Extended(m, e, d)
  BY <1>4, <1>8, <1>9, ExtendedIs
<1>11. e \in Comp /\ Limits(e) /\ e.error = m.error
  BY <1>9, <1>10 DEF Extended, Limits
<1>12. PICK fn : fn = Bind(x, d)
  OBVIOUS
<1>13. chain' = es
  BY <1>1, <1>3, <1>4, <1>5, <1>7, Zenon DEF Parameter, SetCurrent
<1>14. envs' = fn /\ work' = work /\ done' = done
  BY <1>3, <1>12 DEF Parameter
<1>15. Len(envs) >= 1 /\ envs \in Seq([Name -> 0..MaxDecl])
  BY LastScope DEF Running
<1>16. Rebinds(envs, x, d, fn)
  BY <1>12 DEF Bind, Rebinds
<1>17. CASE e.error
  <2>1. fn \in Seq([Name -> 0..MaxDecl])
    BY <1>8, <1>15, <1>16, RebindIs DEF Rebound
  <2>2. Types(es, work, done, fn, d) /\ Fault(es)
    BY <1>1, <1>5, <1>7, <1>8, <1>11, <1>17, <2>1, ChainTypes
  <2> QED
    BY <1>8, <1>13, <1>14, <2>2 DEF Fares
<1>18. CASE ~ e.error
  <2>1. Declares(c, m, x, c.scopeDepth, d) /\ Len(m.locals) <= Count
    BY <1>9, <1>11, <1>18
  <2>2. Declares(c, e, x, c.scopeDepth, d) /\ Len(e.locals) <= Count
    BY <1>10, <1>11, <2>1 DEF Declares, Extended
  <2>3. PICK N : N = [q \in 0..0 |-> Stack(e, More(a))]
    OBVIOUS
  <2>4. PICK naps : naps = Renewed(chain, maps, N)
    OBVIOUS
  <2>5. /\ e.f.land = c.f.land
        /\ Len(e.f.params) = Len(c.f.params) + 1 /\ e.f.params[Len(c.f.params) + 1] = d
        /\ \A i \in DOMAIN c.f.params : e.f.params[i] = c.f.params[i]
    BY <1>9, <1>10 DEF Extended
  <2>6. Types(chain, work, done, envs, decls) /\ Good(chain, work, done, envs, decls, ctx, maps)
    BY DEF Running
  <2>7. Param(chain, work, done, envs, decls, ctx, maps, n, a, c, e, es, N, naps, fn, x, d)
    BY <1>1, <1>2, <1>3, <1>5, <1>6, <1>11, <1>16, <2>2, <2>3, <2>4, <2>5, <2>6 DEF Param
  <2>8. Valid(es, work, done, fn, d)
    BY <2>7, ParamStep
  <2> QED
    BY <1>8, <1>13, <1>14, <2>8, ValidFares, Zenon
<1> QED
  BY <1>17, <1>18

LEMMA WholeLonger ==
    ASSUME NEW ds \in Seq(Function), NEW dc \in Nat, AllWhole(ds, dc),
           NEW f \in Function, NEW hd, hd = Append(ds, f), NEW F, Whole(hd, f, F, dc)
    PROVE  AllWhole(hd, dc)
<1>1. /\ hd \in Seq(Function) /\ Len(hd) = Len(ds) + 1 /\ hd[Len(ds) + 1] = f
      /\ \A i \in 1..Len(ds) : hd[i] = ds[i]
      /\ DOMAIN hd = 1..Len(ds) + 1 /\ DOMAIN ds = 1..Len(ds) /\ Len(ds) \in Nat
  BY AppendIs
<1>2. Wider(ds, hd)
  BY <1>1 DEF Wider
<1>3. ASSUME NEW i \in DOMAIN hd  PROVE \E M : Whole(hd, hd[i], M, dc)
  <2>1. CASE i = Len(ds) + 1
    BY <1>1, <2>1
  <2>2. CASE i # Len(ds) + 1
    <3>1. i \in DOMAIN ds
      BY <1>1, <1>3, <2>2
    <3>2. PICK M : Whole(ds, ds[i], M, dc)
      BY <3>1 DEF AllWhole
    <3>3. PICK g : g = ds[i]
      OBVIOUS
    <3>4. dc <= dc
      OBVIOUS
    <3>5. Whole(ds, g, M, dc)
      BY <3>2, <3>3
    <3>6. Whole(hd, g, M, dc)
      BY <1>2, <3>4, <3>5, WholeLater
    <3> QED
      BY <1>1, <3>1, <3>3, <3>6
  <2> QED
    BY <2>1, <2>2
<1> QED
  BY <1>3 DEF AllWhole

LEMMA WholeSame ==
    ASSUME NEW ds \in Seq(Function), NEW dc \in Nat, NEW ec \in Nat, dc <= ec, AllWhole(ds, dc)
    PROVE  AllWhole(ds, ec)
<1>1. Wider(ds, ds)
  BY DEF Wider
<1>2. ASSUME NEW i \in DOMAIN ds  PROVE \E M : Whole(ds, ds[i], M, ec)
  <2>1. PICK M : Whole(ds, ds[i], M, dc)
    BY <1>2 DEF AllWhole
  <2>2. Whole(ds, ds[i], M, ec)
    BY <1>1, <2>1, WholeLater
  <2> QED
    BY <2>2
<1> QED
  BY <1>2 DEF AllWhole

\* What is gone was declared, in the functions that are open as in the others.
LEMMA GoneIs ==
    ASSUME NEW ch, NEW wk, NEW ds, NEW en, NEW dc, NEW ctx, NEW maps,
           Good(ch, wk, ds, en, dc, ctx, maps), AllWhole(ds, dc)
    PROVE  GoneBy(ch, ds, dc)
<1>1. ASSUME NEW g \in Everyone(ch, ds), NEW m \in g.gone  PROVE m.decl \in 1..dc
  <2>1. CASE \E i \in DOMAIN ds : g = ds[i]
    <3>1. PICK i \in DOMAIN ds : g = ds[i]
      BY <2>1
    <3>2. PICK M : Whole(ds, g, M, dc)
      BY <3>1 DEF AllWhole
    <3>3. Dead(g, M, dc)
      BY <3>2 DEF Whole, Sound
    <3> QED
      BY <1>1, <3>3 DEF Dead
  <2>2. CASE \E k \in DOMAIN ch : g = ch[k].f
    <3>1. PICK k \in DOMAIN ch : g = ch[k].f
      BY <2>2
    <3>2. Coded(ch, ds, dc, maps, wk, ctx)
      BY DEF Good
    <3>3. PICK M : M = maps[k]
      OBVIOUS
    <3>4. Dead(ch[k].f, M, dc)
      BY <3>1, <3>2, <3>3 DEF Coded, Sound
    <3> QED
      BY <1>1, <3>1, <3>4 DEF Dead
  <2>3. \/ \E i \in DOMAIN ds : g = ds[i]
        \/ \E k \in DOMAIN ch : g = ch[k].f
    BY <1>1 DEF Everyone
  <2> QED
    BY <2>1, <2>2, <2>3
<1> QED
  BY <1>1 DEF GoneBy

\* A function ends.
LEMMA EndFunctionAction ==
    ASSUME NEW ctx, NEW maps, Running(ctx, maps), EndFunction, AllWhole(done, decls)
    PROVE  Fares(chain', work', done', envs', decls') /\ (~ Fault(chain') => AllWhole(done', decls'))
<1>1. PICK n, a, b, tw, tc : /\ n = Len(chain) - 1 /\ a = ctx[1] /\ b = ctx[2]
                             /\ tw = Tail(work) /\ tc = Tail(ctx)
  OBVIOUS
<1>2. PICK g, c : g = chain[n + 1] /\ c = chain[n]
  OBVIOUS
<1>3. PICK f : f = EndCompiler(g)
  OBVIOUS
<1>4. PICK d : d = MakeConstant(c, Len(done) + 1)
  OBVIOUS
<1>5. PICK us : us = f.upvalues
  OBVIOUS
<1>6. PICK s : s = <<Op("CLOSURE"), Byte(ConstantIndex(c))>> \o Captured(us)
  OBVIOUS
<1>7. PICK e : e = Emit(d, s)
  OBVIOUS
<1>8. PICK hd, es, fn : /\ hd = Append(done, f) /\ es = Append(SubSeq(chain, 1, n - 1), e)
                        /\ fn = Front(envs)
  OBVIOUS
<1>9. /\ work[1].k = "endFunction" /\ decls \in Nat /\ done \in Seq(Function)
      /\ Types(chain, work, done, envs, decls) /\ Good(chain, work, done, envs, decls, ctx, maps)
  BY RunningIs DEF EndFunction, Expected, Running
<1>10. Leaving(chain, work, done, envs, decls, ctx, maps, n, g, c, a, b, tw, tc)
  BY <1>1, <1>2, <1>9 DEF Leaving
<1>11. Around2(chain, work, done, envs, decls, ctx, maps, n, g, c, a, b, tw, tc)
  BY <1>10, LeavingIs
<1>12. /\ n \in Nat /\ Len(chain) = n + 1 /\ g \in Comp /\ c \in Comp /\ Limits(c) /\ Limits(g)
       /\ tw \in Seq(Item) /\ Current = g
  <2>1. n \in Nat /\ Len(chain) = n + 1 /\ g \in Comp /\ c \in Comp /\ Limits(c) /\ Limits(g)
        /\ tw \in Seq(Item)
    BY <1>11 DEF Around2
  <2> QED
    BY <2>1, <1>2 DEF Current
<1>13. chain' = es /\ work' = tw /\ done' = hd /\ envs' = fn /\ decls' = decls
  <2>1. chain[Len(chain) - 1] = c
    BY <1>1, <1>2
  <2>2. SubSeq(chain, 1, Len(chain) - 2) = SubSeq(chain, 1, n - 1)
    <3>1. Len(chain) - 2 = n - 1
      BY <1>12
    <3> QED
      BY <3>1
  <2>3. /\ done' = Append(done, f)
        /\ chain' = Append(SubSeq(chain, 1, Len(chain) - 2), Emit(MakeConstant(c, Len(done) + 1),
                       <<Op("CLOSURE"), Byte(ConstantIndex(c))>> \o Captured(f.upvalues)))
    BY <1>3, <1>12, <2>1 DEF EndFunction
  <2>4. chain' = es
    BY <1>4, <1>5, <1>6, <1>7, <1>8, <2>2, <2>3
  <2> QED
    BY <1>1, <1>8, <2>3, <2>4 DEF EndFunction
<1>14. CASE ~ d.error
  <2>1. Finish(chain, work, done, envs, decls, ctx, maps, n, g, c, a, b, tw, tc, f, d, s, e, hd, es, fn)
    BY <1>1, <1>2, <1>3, <1>4, <1>5, <1>6, <1>7, <1>8, <1>9, <1>14 DEF Finish
  <2>2. Valid(es, tw, hd, fn, decls)
    BY <2>1, FinishStep
  <2>3. PICK F : Compiled(done, decls, g, f, hd, F)
    BY <2>1, FinishStep
  <2>4. AllWhole(hd, decls)
    BY <1>8, <1>9, <2>3, WholeLonger DEF Compiled
  <2>5. Fares(es, tw, hd, fn, decls)
    BY <2>2, ValidFares
  <2> QED
    BY <1>13, <2>4, <2>5, Zenon
<1>15. CASE d.error
  <2>1. Len(done) + 1 \in Nat
    BY <1>9
  <2>2. Constant(c, Len(done) + 1, d) /\ ConstantIndex(c) \in Nat
    BY <1>4, <1>12, <2>1, ConstantIs
  <2>3. d \in Comp /\ Limits(d)
    BY <1>12, <2>2 DEF Constant, Limits
  <2>4. f \in Function /\ us \in Seq(Upvalue)
    <3>1. PICK r : r = <<Op("LITERAL"), Op("RETURN")>>
      OBVIOUS
    <3>2. r \in Seq(Bytes)
      <4>1. Op("LITERAL") \in Bytes /\ Op("RETURN") \in Bytes
        BY OpIs DEF Instructions
      <4> QED
        BY <3>1, <4>1
    <3>3. Emit(g, r) \in Comp
      BY <1>12, <3>2, EmitIs
    <3>4. f = Emit(g, r).f
      BY <1>3, <3>1 DEF EndCompiler
    <3> QED
      BY <1>5, <3>3, <3>4 DEF Comp, Function
  <2>5. s \in Seq(Bytes)
    <3>1. Encloses(us, ConstantIndex(c), s)
      BY <1>6, <2>2, <2>4, EnclosesIs
    <3> QED
      BY <3>1 DEF Encloses, One
  <2>6. Appended(d, e) /\ e.error = d.error
    BY <1>7, <2>3, <2>5, AlikeEmit, EmitIs
  <2>7. e \in Comp /\ Limits(e) /\ e.error
    BY <1>15, <2>3, <2>6 DEF Appended, Limits
  <2>8. PICK naps : naps = [k \in 1..n |-> IF k = n THEN <<>> ELSE maps[k]]
    OBVIOUS
  <2>9. Drops(chain, envs, n, e, es, fn)
    BY <1>8 DEF Drops
  <2>10. Less(chain, envs, b, n, e, <<>>, es, fn, maps, naps)
    BY <1>11, <2>7, <2>8, <2>9, LessAt
  <2>11. /\ es \in Seq(Comp) /\ DOMAIN es = 1..n /\ es[n] = e /\ \A k \in 1..n - 1 : es[k] = chain[k]
         /\ fn \in Seq([Name -> 0..MaxDecl])
    BY <2>10 DEF Less
  <2>12. n >= 1 /\ DOMAIN chain = 1..n + 1
    BY <1>11 DEF Around2
  <2>13. \A k \in DOMAIN es : Limits(es[k])
    <3> SUFFICES ASSUME NEW k \in DOMAIN es  PROVE Limits(es[k])
      OBVIOUS
    <3>1. CASE k = n
      BY <2>7, <2>11, <3>1
    <3>2. CASE k # n
      <4>1. k \in 1..n - 1 /\ k \in 1..n + 1
        BY <1>12, <2>11, <3>2
      <4> QED
        BY <1>9, <2>11, <2>12, <4>1 DEF Types
    <3> QED
      BY <3>1, <3>2
  <2>14. hd \in Seq(Function)
    BY <1>8, <1>9, <2>4
  <2>15. Types(es, tw, hd, fn, decls)
    BY <1>9, <1>12, <2>11, <2>13, <2>14 DEF Types
  <2>16. Fault(es)
    <3>1. n \in DOMAIN es
      BY <1>12, <2>11, <2>12
    <3> QED
      BY <2>7, <2>11, <3>1 DEF Fault
  <2> QED
    BY <1>13, <2>15, <2>16 DEF Fares
<1> QED
  BY <1>14, <1>15

LEMMA EndScriptAction ==
    ASSUME NEW ctx, NEW maps, Running(ctx, maps), EndScript, AllWhole(done, decls)
    PROVE  /\ Types(chain', work', done', envs', decls')
           /\ AllWhole(done', decls') /\ Concluded(chain', work', done')
<1>1. PICK g : g = chain[Len(chain)]
  OBVIOUS
<1>2. PICK f : f = EndCompiler(g)
  OBVIOUS
<1>3. PICK hd : hd = Append(done, f)
  OBVIOUS
<1>4. /\ work[1].k = "endScript" /\ Current = g /\ decls \in Nat /\ done \in Seq(Function)
      /\ Types(chain, work, done, envs, decls) /\ Good(chain, work, done, envs, decls, ctx, maps)
  BY <1>1, RunningIs DEF EndScript, Expected, Running
<1>5. Over(chain, work, done, envs, decls, ctx, maps, g, f, hd)
  BY <1>1, <1>2, <1>3, <1>4 DEF Over
<1>6. PICK F : Compiled(done, decls, g, f, hd, F)
  BY <1>5, OverStep
<1>7. \A q \in Everyone(<<>>, hd) : Closed(<<>>, hd, q)
  BY <1>5, OverStep
<1>8. done' = hd /\ chain' = <<>> /\ work' = <<>> /\ envs' = envs /\ decls' = decls
  BY <1>2, <1>3, <1>4 DEF EndScript
<1>9. hd \in Seq(Function) /\ Whole(hd, f, F, decls) /\ f \in Function
  BY <1>6 DEF Compiled
<1>10. AllWhole(hd, decls)
  BY <1>3, <1>4, <1>9, WholeLonger
<1>11. Types(<<>>, <<>>, hd, envs, decls)
  <2>1. <<>> \in Seq(Comp) /\ <<>> \in Seq(Item) /\ DOMAIN <<>> = {}
    BY EmptySeq
  <2>2. \A k \in DOMAIN <<>> : Limits(<<>>[k])
    BY <2>1
  <2> QED
    BY <1>4, <1>9, <2>1, <2>2 DEF Types
<1>12. Concluded(<<>>, <<>>, hd)
  <2>1. \A i \in DOMAIN hd : hd[i] \in Everyone(<<>>, hd)
    BY DEF Everyone
  <2> QED
    BY <1>7, <2>1 DEF Concluded
<1> QED
  BY <1>8, <1>10, <1>11, <1>12, Zenon

LEMMA CompileSame ==
    ASSUME NEW e, NEW parts, Compile(e, parts)
    PROVE  done' = done /\ decls' = decls
  BY DEF Compile

LEMMA SimpleSame ==
    ASSUME Simple
    PROVE  done' = done /\ decls' = decls
  BY CompileSame DEF Simple, returnStatement

LEMMA ContinueSame ==
    ASSUME Continue
    PROVE  done' = done /\ decls' = decls
  BY CompileSame DEF Continue, OrRight, Else, Test, ForCondition, ForTest, ForBody, ForIncrement

LEMMA OthersDone ==
    ASSUME Others, decls \in Nat
    PROVE  done' = done /\ decls' \in Nat /\ decls <= decls'
<1>1. CountDeclaration => decls' \in {decls, decls + 1}
  BY DEF CountDeclaration
<1>2. done' = done /\ decls' \in {decls, decls + 1}
  <2>1. CASE Simple \/ Continue
    BY <2>1, SimpleSame, ContinueSame
  <2>2. ASSUME NEW x \in Name, Use(x) \/ Assign(x)
        PROVE  done' = done /\ decls' \in {decls, decls + 1}
    BY <2>2 DEF Use, Assign
  <2>3. ASSUME NEW x \in Name, VarDeclaration(x) \/ FunDeclaration(x) \/ Parameter(x)
        PROVE  done' = done /\ decls' \in {decls, decls + 1}
    BY <1>1, <2>3 DEF VarDeclaration, FunDeclaration, Parameter
  <2>4. CASE Block \/ ForStatement
    BY <2>4 DEF Block, ForStatement, OpenScope
  <2>5. CASE EndList \/ DefineVariable \/ EndBlock
    BY <2>5 DEF EndList, DefineVariable, EndBlock
  <2> QED
    BY <2>1, <2>2, <2>3, <2>4, <2>5 DEF Others
<1> QED
  BY <1>2

LEMMA OthersFare ==
    ASSUME NEW ctx, NEW maps, Running(ctx, maps), Others, AllWhole(done, decls)
    PROVE  Fares(chain', work', done', envs', decls')
<1>1. GoneBy(chain, done, decls)
  BY GoneIs DEF Running
<1>2. CASE Simple
  BY <1>2, SimpleStep
<1>3. CASE Continue
  BY <1>3, ContinueStep
<1>4. ASSUME NEW x \in Name, Use(x)
      PROVE  Fares(chain', work', done', envs', decls')
  BY <1>4, UseStep
<1>5. ASSUME NEW x \in Name, Assign(x)
      PROVE  Fares(chain', work', done', envs', decls')
  BY <1>5, AssignStep
<1>6. ASSUME NEW x \in Name, VarDeclaration(x)
      PROVE  Fares(chain', work', done', envs', decls')
  BY <1>1, <1>6, VarAction
<1>7. ASSUME NEW x \in Name, FunDeclaration(x)
      PROVE  Fares(chain', work', done', envs', decls')
  BY <1>1, <1>7, FunAction
<1>8. ASSUME NEW x \in Name, Parameter(x)
      PROVE  Fares(chain', work', done', envs', decls')
  BY <1>1, <1>8, ParamAction
<1>9. CASE Block
  BY <1>9, BlockAction
<1>10. CASE ForStatement
  BY <1>10, ForAction
<1>11. CASE EndList
  BY <1>11, EndListAction
<1>12. CASE DefineVariable
  BY <1>12, DefineAction
<1>13. CASE EndBlock
  BY <1>13, EndBlockAction
<1> QED
  BY <1>2, <1>3, <1>4, <1>5, <1>6, <1>7, <1>8, <1>9, <1>10, <1>11, <1>12, <1>13 DEF Others

-----------------------------------------------------------------------------
(* The begin of a program.                                                 *)

LEMMA ScriptIs ==
    ASSUME NEW c, c = InitCompiler
    PROVE  Script(c)
<1>1. PICK g : g = BeginScope(InitCompiler)
  OBVIOUS
<1>2. Begins(g, FirstFrame) /\ Limits(g) /\ Locals(g, 0)
  BY <1>1, BeginsIs
<1>3. /\ c.locals = <<SlotZero>> /\ c.scopeDepth = 0 /\ c.error = FALSE
      /\ g = [c EXCEPT !.scopeDepth = @ + 1]
      /\ c = [locals |-> c.locals, scopeDepth |-> c.scopeDepth, error |-> c.error, f |-> c.f]
  BY <1>1 DEF InitCompiler, BeginScope
<1>4. g.locals = c.locals /\ g.f = c.f
  BY <1>3
<1>5. c.locals \in Seq(Local) /\ c.f \in Function
  BY <1>2, <1>4 DEF Begins, Comp
<1>6. c \in Comp
  <2>1. PICK ls, f : ls = c.locals /\ f = c.f
    OBVIOUS
  <2>2. ls \in Seq(Local) /\ f \in Function
    BY <1>5, <2>1
  <2>3. c = [locals |-> ls, scopeDepth |-> 0, error |-> FALSE, f |-> f]
    BY <2>1 DEF InitCompiler
  <2> QED
    BY <2>2, <2>3 DEF Comp
<1>7. DOMAIN c.locals = {1} /\ Len(c.locals) = 1 /\ c.locals[1] = SlotZero
  BY <1>2, <1>4 DEF Begins
<1>8. Limits(c)
  <2>1. Len(c.locals) <= Count /\ Len(c.f.upvalues) <= Count
    BY <1>2, <1>4 DEF Limits
  <2>2. \A l \in DOMAIN c.locals : c.locals[l].depth = 0
    BY <1>7 DEF SlotZero
  <2> QED
    BY <2>1, <2>2, <1>3 DEF Limits
<1>9. Locals(c, 0)
  BY <1>2, <1>4 DEF Locals
<1> QED
  BY <1>2, <1>3, <1>4, <1>6, <1>7, <1>8, <1>9 DEF Begins, Script

LEMMA OutsetIs ==
    ASSUME NEW c, NEW ch, NEW wk, NEW en, NEW ctx, NEW maps, Starting(c, ch, wk, en, ctx, maps)
    PROVE  /\ Outset \in Point /\ Sane(Outset) /\ Settled(Outset) /\ Fine(ch, Outset)
           /\ ch \in Seq(Comp) /\ DOMAIN ch = {1} /\ Len(ch) = 1 /\ ch[1] = c
           /\ wk \in Seq(Item) /\ DOMAIN wk = {1, 2} /\ Len(wk) = 2
           /\ wk[1].k = "declarations" /\ wk[2].k = "endScript"
           /\ en \in Seq([Name -> 0..MaxDecl]) /\ Len(en) = 1 /\ en[1] = [x \in Name |-> Global]
           /\ ctx \in Seq(Point) /\ DOMAIN ctx = {1, 2} /\ Len(ctx) = 2
           /\ ctx[1] = Outset /\ ctx[2] = Outset
           /\ DOMAIN maps = {1} /\ maps[1] = FirstFrame
           /\ \A k : Pending(wk, ctx, k) = {}
<1>1. Count \in Nat /\ Count >= 1 /\ MaxDecl \in Nat
  BY CompilerConstants
<1>2. Outset \in Point /\ Sane(Outset) /\ Settled(Outset)
  BY <1>1 DEF Outset, Point, Sane, Settled
<1>3. c \in Comp /\ Len(c.locals) = 1 /\ c.f.params = <<>>
  BY DEF Starting, Script
<1>4. ch \in Seq(Comp) /\ DOMAIN ch = {1} /\ Len(ch) = 1 /\ ch[1] = c
  BY <1>3 DEF Starting
<1>5. Fine(ch, Outset)
  <2>1. Outset.level = 1 /\ Outset.vars = 1 /\ Outset.all = 1
    BY DEF Outset
  <2>2. Len(c.f.params) = 0
    BY <1>3
  <2>3. Outset.level \in DOMAIN ch /\ ch[Outset.level] = c
    BY <1>4, <2>1
  <2>4. Outset.vars > Len(ch[Outset.level].f.params) /\ Outset.all <= Len(ch[Outset.level].locals)
    <3>1. PICK d : d = ch[Outset.level]
      OBVIOUS
    <3>2. Len(d.f.params) = 0 /\ Len(d.locals) = 1
      BY <1>3, <2>2, <2>3, <3>1
    <3> QED
      BY <2>1, <3>1, <3>2
  <2> QED
    BY <1>2, <2>3, <2>4 DEF Fine
<1>6. PICK v, w : v = Do("declarations") /\ w = Do("endScript")
  OBVIOUS
<1>7. /\ v \in Item /\ w \in Item /\ v.k = "declarations" /\ w.k = "endScript"
  BY <1>6, DoIs DEF Kinds
<1>8. wk = <<v, w>>
  BY <1>6 DEF Starting
<1>9. wk \in Seq(Item) /\ DOMAIN wk = {1, 2} /\ Len(wk) = 2 /\ wk[1] = v /\ wk[2] = w
  BY <1>7, <1>8
<1>10. PICK fn : fn = [x \in Name |-> Global]
  OBVIOUS
<1>11. fn \in [Name -> 0..MaxDecl]
  BY <1>1, <1>10 DEF Global
<1>12. en \in Seq([Name -> 0..MaxDecl]) /\ Len(en) = 1 /\ en[1] = fn
  BY <1>10, <1>11 DEF Starting
<1>13. ctx \in Seq(Point) /\ DOMAIN ctx = {1, 2} /\ Len(ctx) = 2 /\ ctx[1] = Outset /\ ctx[2] = Outset
  BY <1>2 DEF Starting
<1>14. DOMAIN maps = {1} /\ maps[1] = FirstFrame
  BY DEF Starting
<1>15. Holes(wk[1]) = {} /\ Holes(wk[2]) = {}
  BY <1>7, <1>9 DEF Holes
<1>16. \A k : Pending(wk, ctx, k) = {}
  <2>1. \A i \in 1..Len(wk) : i = 1 \/ i = 2
    BY <1>9
  <2> QED
    BY <1>15, <2>1 DEF Pending
<1> QED
  BY <1>2, <1>4, <1>5, <1>7, <1>9, <1>10, <1>12, <1>13, <1>14, <1>16

LEMMA OutsetListed ==
    ASSUME NEW c, NEW ch, NEW wk, NEW en, NEW ctx, NEW maps, Starting(c, ch, wk, en, ctx, maps)
    PROVE  Listed(ch, en, maps, wk, ctx)
<1>1. /\ Sane(Outset) /\ Settled(Outset) /\ Fine(ch, Outset)
      /\ DOMAIN wk = {1, 2} /\ Len(wk) = 2 /\ wk[1].k = "declarations" /\ wk[2].k = "endScript"
      /\ DOMAIN ctx = {1, 2} /\ Len(ctx) = 2 /\ ctx[1] = Outset /\ ctx[2] = Outset
  BY OutsetIs
<1>2. Outset.level = 1 /\ Outset.depth = 0 /\ Outset.env = 1 /\ Outset.vars = Outset.seen
  BY DEF Outset
<1>3. PICK v, w : v = wk[1] /\ w = wk[2]
  OBVIOUS
<1>4. Within(v, Outset, Outset)
  BY <1>1, <1>2, <1>3 DEF Within, Outset
<1>5. Link(ch, en, maps, v, Outset, w, Outset)
  <2>1. Fits(v, Outset, w, Outset)
    BY <1>1, <1>3 DEF Fits, Ends
  <2>2. Holds(v, Outset, Outset, ch[Outset.level], maps[Outset.level])
    BY <1>1, <1>3 DEF Holds
  <2> QED
    BY <1>1, <1>3, <1>4, <2>1, <2>2 DEF Link
<1>6. 1..Len(wk) = {1, 2} /\ 1..Len(wk) - 1 = {1} /\ 2..Len(wk) = {2} /\ Len(wk) \in Nat /\ Len(wk) >= 1
  BY <1>1
<1>7. \A i \in 1..Len(wk) : Fine(ch, ctx[i]) /\ ctx[i].vars = ctx[i].seen
  BY <1>1, <1>2, <1>6
<1>8. \A i \in 1..Len(wk) - 1 : Link(ch, en, maps, wk[i], ctx[i], wk[i + 1], ctx[i + 1])
  <2>1. \A i \in 1..Len(wk) - 1 : i = 1 /\ i + 1 = 2
    BY <1>6
  <2> QED
    BY <1>1, <1>3, <1>5, <2>1
<1>9. ASSUME NEW i \in 1..Len(wk), NEW j \in 1..Len(wk), i < j
      PROVE  /\ Within(wk[i], ctx[i], ctx[j])
             /\ ctx[i].level = ctx[j].level => Holes(wk[i]) \cap Holes(wk[j]) = {}
  <2>1. i = 1 /\ j = 2
    BY <1>6, <1>9
  <2>2. Holes(wk[1]) = {}
    BY <1>1 DEF Holes
  <2> QED
    BY <1>1, <1>3, <1>4, <2>1, <2>2
<1>10. \A i \in 2..Len(wk) : wk[i].k # "parameters"
  BY <1>1, <1>6
<1>11. /\ wk[Len(wk)].k = "endScript" /\ ctx[Len(wk)].level = 1 /\ ctx[Len(wk)].depth = 0
       /\ ctx[Len(wk)].env = 1 /\ Settled(ctx[Len(wk)])
  BY <1>1, <1>2
<1> QED
  BY <1>1, <1>6, <1>7, <1>8, <1>9, <1>10, <1>11 DEF Listed

LEMMA OutsetHeads ==
    ASSUME NEW c, NEW ch, NEW wk, NEW en, NEW ctx, NEW maps, Starting(c, ch, wk, en, ctx, maps)
    PROVE  Heads(ch, en, maps, wk, ctx)
<1>1. /\ Len(ch) = 1 /\ ch[1] = c /\ Len(en) = 1 /\ en[1] = [x \in Name |-> Global]
      /\ ctx[1] = Outset /\ maps[1] = FirstFrame /\ wk[1].k = "declarations"
  BY OutsetIs
<1>2. /\ Outset.level = 1 /\ Outset.depth = 0 /\ Outset.env = 1 /\ Outset.vars = 1
      /\ Outset.seen = 1 /\ Outset.all = 1 /\ Outset.height = 1
  BY DEF Outset
<1>3. /\ c.scopeDepth = 0 /\ Len(c.locals) = 1 /\ c.locals[1] = SlotZero /\ c.f.code = <<>>
      /\ c.f.born = {} /\ Len(c.f.code) = 0 /\ SlotZero.depth = 0 /\ SlotZero.decl = Global
      /\ SlotZero.name = NoName
  BY DEF Starting, Script, SlotZero, Global
<1>4. PICK s : s = Stack(c, Outset)
  OBVIOUS
<1>5. FirstFrame[0] = s
  <2>1. FirstFrame[0] = [height |-> 1, slot |-> [i \in Slot |-> Global]]
    BY DEF FirstFrame
  <2>2. SlotsOf(c, 1) = [i \in Slot |-> Global]
    <3>1. \A i \in Slot : i <= 1 => i = 1
      BY DEF Slot
    <3>2. \A i \in Slot : (IF i <= 1 THEN c.locals[i].decl ELSE Global) = Global
      BY <1>3, <3>1
    <3> QED
      BY <3>2 DEF SlotsOf
  <2> QED
    BY <1>2, <1>4, <2>1, <2>2 DEF Stack
<1>6. Here(c, FirstFrame, Outset, s)
  <2>1. FirstFrame[Len(c.f.code)] = s
    BY <1>3, <1>5
  <2>2. Outset.seen = Outset.all <=> c.locals[Len(c.locals)].depth # -1
    BY <1>2, <1>3
  <2>3. ~ (Outset.vars < Outset.all)
    BY <1>2
  <2> QED
    BY <1>2, <1>3, <2>1, <2>2, <2>3 DEF Here
<1>7. Named(ch, en, Outset)
  <2>1. \A x \in Name : c.locals[1].name # x
    BY <1>3, CompilerConstants
  <2>2. ASSUME NEW x \in Name  PROVE Binds(ch, 1, 1, x, Global)
    <3>1. \A j \in 1..1 : Visible(ch, 1, 1, j, x) = {}
      <4>1. \A j \in 1..1 : j = 1
        OBVIOUS
      <4>2. \A l \in 1..1 : ch[1].locals[l].name # x
        BY <1>1, <2>1
      <4>3. Visible(ch, 1, 1, 1, x) = {}
        BY <4>2 DEF Visible
      <4> QED
        BY <4>1, <4>3
    <3> QED
      BY <3>1 DEF Binds
  <2> QED
    BY <1>1, <1>2, <2>2 DEF Named
<1> QED
  BY <1>1, <1>2, <1>4, <1>6, <1>7 DEF Heads

LEMMA OutsetGood ==
    ASSUME NEW c, NEW ch, NEW wk, NEW en, NEW ctx, NEW maps, Starting(c, ch, wk, en, ctx, maps)
    PROVE  Valid(ch, wk, <<>>, en, 0) /\ Types(ch, wk, <<>>, en, 0) /\ ~ Fault(ch)
<1>1. /\ ch \in Seq(Comp) /\ DOMAIN ch = {1} /\ Len(ch) = 1 /\ ch[1] = c
      /\ wk \in Seq(Item) /\ en \in Seq([Name -> 0..MaxDecl])
      /\ ctx \in Seq(Point) /\ ctx[1] = Outset /\ DOMAIN maps = {1} /\ maps[1] = FirstFrame
      /\ \A k : Pending(wk, ctx, k) = {}
  BY OutsetIs
<1>2. /\ c \in Comp /\ ~ c.error /\ Limits(c) /\ Locals(c, 0) /\ Len(c.locals) = 1
      /\ c.f.upvalues = <<>> /\ c.f.gone = {} /\ Empty(c.f, FirstFrame)
  BY DEF Starting, Script
<1>3. <<>> \in Seq(Function) /\ 0 \in 0..MaxDecl
  BY EmptySeq, CompilerConstants
<1>4. Types(ch, wk, <<>>, en, 0) /\ ~ Fault(ch)
  <2>1. \A k \in DOMAIN ch : Limits(ch[k]) /\ ~ ch[k].error
    BY <1>1, <1>2
  <2> QED
    BY <1>1, <1>3, <2>1 DEF Types, Fault
<1>5. Coded(ch, <<>>, 0, maps, wk, ctx)
  <2>1. Late(c, Outset) = Global
    <3>1. ~ (Outset.vars < Outset.seen)
      BY DEF Outset
    <3> QED
      BY <3>1 DEF Late
  <2>2. PICK ds : ds = <<>>
    OBVIOUS
  <2>3. Sound(ds, c.f, FirstFrame, {}, Global, 0)
    BY <1>2, EmptySound
  <2> QED
    BY <1>1, <1>2, <2>1, <2>2, <2>3 DEF Coded
<1>6. Tied(ch, <<>>, 0)
  <2>1. \A k \in DOMAIN ch : 2..Len(ch[k].locals) = {}
    <3>1. \A k \in DOMAIN ch : ch[k] = c
      BY <1>1
    <3>2. 2..Len(c.locals) = {}
      BY <1>2
    <3> QED
      BY <3>1, <3>2
  <2>2. Apart(ch)
    BY <2>1 DEF Apart
  <2>3. Linked(ch)
    BY <1>1, <1>2 DEF Linked
  <2>4. \A g \in Everyone(ch, <<>>) : g = c.f
    <3>1. DOMAIN <<>> = {}
      OBVIOUS
    <3>2. \A k \in DOMAIN ch : ch[k].f = c.f
      BY <1>1
    <3> QED
      BY <3>1, <3>2 DEF Everyone
  <2>5. DOMAIN c.f.upvalues = {}
    BY <1>2
  <2>6. Flagged(ch, <<>>, 0)
    BY <2>1, <2>4, <2>5 DEF Flagged
  <2>7. \A g \in Everyone(ch, <<>>) : Closed(ch, <<>>, g)
    BY <1>2, <2>4 DEF Closed
  <2> QED
    BY <2>2, <2>3, <2>6, <2>7 DEF Tied
<1>7. Listed(ch, en, maps, wk, ctx) /\ Heads(ch, en, maps, wk, ctx)
  BY OutsetListed, OutsetHeads
<1>8. Good(ch, wk, <<>>, en, 0, ctx, maps)
  BY <1>1, <1>5, <1>6, <1>7 DEF Good
<1> QED
  BY <1>4, <1>8 DEF Valid

-----------------------------------------------------------------------------
(* The inductive invariant.                                                *)

LEMMA InitIInv ==
    ASSUME Init
    PROVE  IInv
<1>1. PICK c : c = InitCompiler
  OBVIOUS
<1>2. PICK ctx, maps : ctx = <<Outset, Outset>> /\ maps = <<FirstFrame>>
  OBVIOUS
<1>3. Starting(c, chain, work, envs, ctx, maps)
  BY <1>1, <1>2, ScriptIs DEF Init, Starting
<1>4. done = <<>> /\ decls = 0
  BY DEF Init
<1>5. PICK ds, dc : ds = <<>> /\ dc = 0
  OBVIOUS
<1>6. Valid(chain, work, ds, envs, dc) /\ Types(chain, work, ds, envs, dc)
  BY <1>3, <1>5, OutsetGood
<1>7. AllWhole(ds, dc)
  BY <1>5 DEF AllWhole
<1> QED
  BY <1>4, <1>5, <1>6, <1>7 DEF IInv

LEMMA NextIInv ==
    ASSUME IInv, Next
    PROVE  IInv'
<1>1. Working
  BY DEF Next, Simple, Continue, Use, Assign, VarDeclaration, FunDeclaration, Parameter, Block,
         ForStatement, EndList, DefineVariable, EndBlock, EndFunction, EndScript, Production, Expected
<1>2. ~ Fault(chain) /\ work # <<>>
  BY <1>1 DEF Working, Fault
<1>3. Valid(chain, work, done, envs, decls) /\ AllWhole(done, decls)
  BY <1>2 DEF IInv, Concluded
<1>4. PICK ctx, maps : Good(chain, work, done, envs, decls, ctx, maps)
  BY <1>3 DEF Valid
<1>5. Running(ctx, maps)
  BY <1>1, <1>4 DEF Running, IInv
<1>6. decls \in Nat /\ done \in Seq(Function)
  BY <1>5, RunningIs
<1>7. CASE Others
  <2>1. Fares(chain', work', done', envs', decls')
    BY <1>3, <1>5, <1>7, OthersFare
  <2>2. AllWhole(done', decls')
    <3>1. done' = done /\ decls' \in Nat /\ decls <= decls'
      BY <1>6, <1>7, OthersDone
    <3> QED
      BY <1>3, <1>6, <3>1, WholeSame
  <2> QED
    BY <2>1, <2>2 DEF IInv, Fares
<1>8. CASE EndFunction
  <2>1. Fares(chain', work', done', envs', decls') /\ (~ Fault(chain') => AllWhole(done', decls'))
    BY <1>3, <1>5, <1>8, EndFunctionAction
  <2> QED
    BY <2>1 DEF IInv, Fares
<1>9. CASE EndScript
  <2>1. /\ Types(chain', work', done', envs', decls')
        /\ AllWhole(done', decls') /\ Concluded(chain', work', done')
    BY <1>3, <1>5, <1>9, EndScriptAction
  <2> QED
    BY <2>1 DEF IInv
<1> QED
  BY <1>7, <1>8, <1>9 DEF Next, Others

\* Whatever the compiler has emitted so far and whatever is left to compile, the
\* frames of the code fit the points of the work.
THEOREM Invariant == Spec => []IInv
<1>1. Init => IInv
  BY InitIInv
<1>2. IInv /\ [Next]_vars => IInv'
  <2>1. IInv /\ UNCHANGED vars => IInv'
    BY DEF vars, IInv, Types, Fault, AllWhole, Concluded, Valid
  <2> QED
    BY <2>1, NextIInv
<1> QED
  BY <1>1, <1>2, PTL DEF Spec

-----------------------------------------------------------------------------
(* The types of the state.                                                 *)

\* The compilers, the functions and what is left to compile are of their types
\* at every time: no function has more locals or upvalues than UINT8_COUNT, and
\* only the last local of a compiler waits for its value.
THEOREM TypeCorrect == Spec => []TypeOK
<1>1. IInv => TypeOK
  <2> SUFFICES ASSUME IInv  PROVE TypeOK
    OBVIOUS
  <2>1. /\ chain \in Seq(Comp) /\ work \in Seq(Item) /\ done \in Seq(Function)
        /\ envs \in Seq([Name -> 0..MaxDecl]) /\ decls \in 0..MaxDecl
        /\ \A i \in DOMAIN chain : Limits(chain[i])
    BY DEF IInv, Types
  <2>2. \A i \in DOMAIN chain : chain[i] \in Comp
    BY <2>1
  <2>3. \A i \in DOMAIN chain :
            /\ chain[i].locals \in Seq(Local) /\ chain[i].scopeDepth \in Nat
            /\ chain[i].error \in BOOLEAN /\ chain[i].f \in Function
    BY <2>2 DEF Comp
  <2>4. \A i \in DOMAIN work : work[i] \in Item
    BY <2>1
  <2>5. \A i \in DOMAIN work : work[i].at \in Seq(Nat) /\ work[i].s \in Seq(Bytes)
    BY <2>4 DEF Item
  <2> QED
    BY <2>1, <2>3, <2>5 DEF TypeOK, Limits
<1> QED
  BY <1>1, Invariant, PTL

-----------------------------------------------------------------------------
(* What holds of a function of a program that compiled.                    *)

LEMMA FinishedIs ==
    ASSUME IInv, NEW f, f \in Finished
    PROVE  Closed(<<>>, done, f) /\ done \in Seq(Function) /\ \E M : Whole(done, f, M, decls)
<1>1. chain = <<>> /\ f \in ToSet(done)
  BY DEF Finished
<1>2. ~ Fault(chain)
  BY <1>1 DEF Fault
<1>3. ~ Valid(chain, work, done, envs, decls)
  <2> SUFFICES ASSUME Valid(chain, work, done, envs, decls)  PROVE FALSE
    OBVIOUS
  <2>1. PICK ctx, maps : Good(chain, work, done, envs, decls, ctx, maps)
    BY DEF Valid
  <2>2. Types(chain, work, done, envs, decls)
    BY DEF IInv
  <2>3. Len(chain) >= 1
    BY <2>1, <2>2, GoodIs
  <2> QED
    BY <1>1, <2>3
<1>4. AllWhole(done, decls) /\ Concluded(chain, work, done) /\ done \in Seq(Function)
  BY <1>2, <1>3 DEF IInv, Types
<1>5. PICK i \in DOMAIN done : f = done[i]
  BY <1>1 DEF ToSet
<1> QED
  BY <1>4, <1>5 DEF AllWhole, Concluded

\* Jumps and loops go where they are to go.
LEMMA LandsIs ==
    ASSUME NEW f, NEW M, NEW dc, Whole(done, f, M, dc), NEW m \in f.land
    PROVE  /\ Lands(f, {}, m)
           /\ (Operation(f, m.from) = "LOOP" => m.from + 3 - m.to < 2 * Base)
                  => Target(f, m.from) = m.to
<1>1. Lands(f, {}, m)
  BY DEF Whole, Sound, Typed
<1> QED
  BY <1>1 DEF Lands

\* In a program that compiled each jump goes to the place that its statement
\* or operator says; a loop if its offset is less than 2 * Base.
THEOREM JumpsLandCorrect == Spec => []JumpsLand
<1>1. IInv => JumpsLand
  <2> SUFFICES ASSUME IInv, NEW f \in Finished, NEW m \in f.land,
                      Operation(f, m.from) = "LOOP" => m.from + 3 - m.to < 2 * Base
               PROVE  Target(f, m.from) = m.to
    BY DEF JumpsLand
  <2>1. PICK M : Whole(done, f, M, decls)
    BY FinishedIs
  <2> QED
    BY <2>1, LandsIs
<1> QED
  BY <1>1, Invariant, PTL

-----------------------------------------------------------------------------
(* What the VM does with such a function: each position it reaches begins  *)
(* an instruction, the stack there is as high as the frame says, and the   *)
(* positions reached are closed under its steps.                           *)

LEMMA RunnableIs ==
    ASSUME NEW f, NEW M, Runnable(f, M)
    PROVE  /\ f \in Function /\ Typed(done, f, M, {}) /\ Goes(done, f, M)
           /\ Meant(done, f, M, Global) /\ 0 \in Starts(f) /\ \E dc : Vars(f, M, dc) /\ Dead(f, M, dc)
           /\ \A a \in Starts(f) : Runs(done, f, M, {}, a)
  BY DEF Runnable, Whole, Sound, Typed

LEMMA VisitsAre ==
    ASSUME NEW f, NEW M, Runnable(f, M)
    PROVE  /\ Entry(f) \in Visits(f, M)
           /\ \A p \in Visits(f, M) : p.at \in Starts(f) /\ p.height = M[p.at].height /\ p = Visit(M, p.at)
           /\ \A a \in Starts(f) : Visit(M, a) \in Visits(f, M)
                                   /\ Visit(M, a).at = a /\ Visit(M, a).height = M[a].height
<1>1. 0 \in Starts(f) /\ M[0].height = 1 + Len(f.params)
  BY RunnableIs DEF Typed
<1>2. Entry(f) = Visit(M, 0)
  BY <1>1 DEF Entry, Visit
<1> QED
  BY <1>1, <1>2 DEF Visits, Visit

\* Where an instruction leads to.
LEMMA FollowIs ==
    ASSUME NEW f, NEW M, Runnable(f, M), NEW a \in Starts(f), NEW t \in Follow(f, a)
    PROVE  t \in Starts(f) /\ Flow(f, M, After(f, M, a), t)
<1>1. /\ f \in Function /\ Typed(done, f, M, {}) /\ Goes(done, f, M) /\ Runs(done, f, M, {}, a)
      /\ LoopsFit(f)
  BY RunnableIs DEF Runnable
<1>2. Size(f, a) = Width(done, f, a)
  BY DEF Size, Width, Enclosed
<1>3. Operation(f, a) \in Leaps => Target(f, a) \in Starts(f) /\ Flow(f, M, After(f, M, a), Target(f, a))
  <2> SUFFICES ASSUME Operation(f, a) \in Leaps
               PROVE  Target(f, a) \in Starts(f) /\ Flow(f, M, After(f, M, a), Target(f, a))
    OBVIOUS
  <2>1. PICK m \in f.land : m.from = a /\ m.to \in Starts(f) /\ Flow(f, M, After(f, M, a), m.to)
    BY <1>1 DEF Goes
  <2>2. Lands(f, {}, m)
    BY <1>1 DEF Typed
  <2>3. Operation(f, m.from) = "LOOP" => m.from + 3 - m.to < 2 * Base
    BY <1>1 DEF LoopsFit
  <2>4. Target(f, a) = m.to
    BY <2>1, <2>2, <2>3 DEF Lands
  <2> QED
    BY <2>1, <2>4
<1>4. Operation(f, a) \notin {"RETURN", "JUMP", "LOOP"} =>
          /\ a + Width(done, f, a) \in Starts(f)
          /\ Flow(f, M, After(f, M, a), a + Width(done, f, a))
  BY <1>1 DEF Runs, Goes
<1>5. CASE Operation(f, a) = "RETURN"
  BY <1>5 DEF Follow
<1>6. CASE Operation(f, a) \in {"JUMP", "LOOP"}
  <2>1. t = Target(f, a) /\ Operation(f, a) \in Leaps
    BY <1>6 DEF Follow, Leaps
  <2> QED
    BY <2>1, <1>3
<1>7. CASE Operation(f, a) = "JUMP_IF_FALSE"
  <2>1. t \in {Target(f, a), a + 3} /\ Operation(f, a) \in Leaps
    BY <1>7 DEF Follow, Leaps
  <2>2. Width(done, f, a) = 3
    BY <2>1, <1>1, WidthIs
  <2> QED
    BY <2>1, <2>2, <1>3, <1>4, <1>7
<1>8. CASE Operation(f, a) \notin {"RETURN", "JUMP", "LOOP", "JUMP_IF_FALSE"}
  <2>1. t = a + Size(f, a)
    BY <1>8 DEF Follow
  <2> QED
    BY <2>1, <1>2, <1>4, <1>8
<1> QED
  BY <1>5, <1>6, <1>7, <1>8

LEMMA StepIs ==
    ASSUME NEW f, NEW M, Runnable(f, M), NEW p \in Visits(f, M), NEW q \in Step(f, p)
    PROVE  q \in Visits(f, M) /\ Flow(f, M, After(f, M, p.at), q.at)
<1>1. p.at \in Starts(f) /\ p.height = M[p.at].height
  BY VisitsAre
<1>2. PICK t \in Follow(f, p.at) :
          q = [at |-> t, height |-> p.height - Takes(f, p.at) + Puts(f, p.at)]
  BY DEF Step
<1>3. t \in Starts(f) /\ Flow(f, M, After(f, M, p.at), t)
  BY <1>1, <1>2, FollowIs
<1>4. M[t].height = p.height - Takes(f, p.at) + Puts(f, p.at)
  BY <1>1, <1>3 DEF Flow, After
<1>5. q = Visit(M, t)
  BY <1>2, <1>4 DEF Visit
<1> QED
  BY <1>2, <1>3, <1>5 DEF Visits

\* The instruction after one that does not jump is reached by a step.
LEMMA StepOn ==
    ASSUME NEW f, NEW M, Runnable(f, M), NEW p \in Visits(f, M),
           Operation(f, p.at) \notin {"RETURN", "JUMP", "LOOP", "JUMP_IF_FALSE"}
    PROVE  Visit(M, p.at + Width(done, f, p.at)) \in Step(f, p)
<1>1. p.at \in Starts(f) /\ p.height = M[p.at].height
  BY VisitsAre
<1>2. IsInstruction(f, p.at)
  BY <1>1, RunnableIs, StartIs DEF IsInstruction
<1>3. PICK t : t = p.at + Width(done, f, p.at)
  OBVIOUS
<1>4. t \in Follow(f, p.at)
  <2>1. Size(f, p.at) = Width(done, f, p.at)
    BY DEF Size, Width, Enclosed
  <2> QED
    BY <2>1, <1>3 DEF Follow
<1>5. M[t].height = p.height - Takes(f, p.at) + Puts(f, p.at)
  <2>1. Flow(f, M, After(f, M, p.at), t)
    BY <1>1, <1>4, FollowIs
  <2> QED
    BY <2>1, <1>1 DEF Flow, After
<1> QED
  BY <1>2, <1>3, <1>4, <1>5 DEF Step, Visit

LEMMA PathsAre ==
    ASSUME NEW f, NEW M, Runnable(f, M)
    PROVE  \E W \in [0..Len(f.code) -> SUBSET Visits(f, M)] : Paths(f, W) /\ Reached(f) = W[Len(f.code)]
<1> DEFINE L == Len(f.code)
           next(some) == some \cup UNION { Step(f, p) : p \in some }
           Is(W) == W = [i \in 0..L |-> IF i = 0 THEN {[at |-> 0, height |-> 1 + Len(f.params)]}
                                        ELSE LET some == W[i - 1]
                                             IN  some \cup UNION { Step(f, p) : p \in some }]
           W == CHOOSE W : Is(W)
           X == SUBSET Visits(f, M)
           step == [a \in Nat \X X |-> next(a[2])]
<1>1. L \in Nat
  BY CodeBytes DEF Runnable
<1>2. Reached(f) = W[L]
  BY DEF Reached
<1>3. \A S \in X : next(S) \in X
  BY StepIs
<1>4. step \in [Nat \X X -> X]
  BY <1>3
<1>5. {Entry(f)} \in X
  BY VisitsAre
<1>6. \A i \in 1..L : i \in Nat /\ i # 0 /\ i - 1 \in 0..L /\ i \in 0..L
  BY <1>1
<1>7. \A i \in 0..L : i # 0 => i \in 1..L
  BY <1>1
<1>8. \A i \in Nat, S \in X : step[<<i, S>>] = next(S)
  OBVIOUS
<1> HIDE DEF L, X, step
<1>9. PICK V \in [0..L -> X] : Iterates(L, {Entry(f)}, step, V)
  BY <1>1, <1>4, <1>5, Recursion
<1>10. Is(V)
  <2>1. V = [i \in 0..L |-> IF i = 0 THEN {Entry(f)} ELSE step[<<i, V[i - 1]>>]]
    BY <1>9 DEF Iterates
  <2>2. \A i \in 0..L : i # 0 => step[<<i, V[i - 1]>>] = next(V[i - 1])
    BY <1>6, <1>7, <1>8, <1>9
  <2> HIDE DEF next
  <2>3. V = [i \in 0..L |-> IF i = 0 THEN {Entry(f)} ELSE next(V[i - 1])]
    BY <2>1, <2>2
  <2> QED
    BY <2>3 DEF Entry, next
<1>11. Is(W)
  BY <1>10, Zenon
<1> HIDE DEF W
<1>12. \A i \in 0..L : W[i] = IF i = 0 THEN {Entry(f)} ELSE next(W[i - 1])
  <2>1. W = [i \in 0..L |-> IF i = 0 THEN {Entry(f)} ELSE next(W[i - 1])]
    BY <1>11 DEF Entry
  <2> HIDE DEF next
  <2> QED
    BY <2>1, Zenon
<1>13. W[0] = {Entry(f)} /\ \A i \in 1..L : W[i] = next(W[i - 1])
  <2>1. 0 \in 0..L
    BY <1>1
  <2> QED
    BY <2>1, <1>6, <1>12
<1>14. Paths(f, W)
  BY <1>13 DEF Paths, L
<1>15. W \in [0..L -> X]
  <2> DEFINE S == { i \in Nat : i <= L => W[i] \in X }
  <2>1. 0 \in S
    BY <1>5, <1>13
  <2>2. \A i \in Nat : i \in S => i + 1 \in S
    <3> SUFFICES ASSUME NEW i \in S, i + 1 <= L  PROVE W[i + 1] \in X
      OBVIOUS
    <3>1. i \in Nat /\ i + 1 \in 1..L /\ (i + 1) - 1 = i /\ i <= L
      BY <1>1
    <3>2. W[i] \in X /\ W[i + 1] = next(W[i])
      BY <3>1, <1>13
    <3> QED
      BY <3>2, <1>3 DEF X
  <2> HIDE DEF S
  <2>3. \A i \in Nat : i \in S
    BY <2>1, <2>2, Induction
  <2>4. \A i \in 0..L : i \in Nat /\ i <= L
    BY <1>1
  <2>5. \A i \in 0..L : W[i] \in X
    BY <2>3, <2>4 DEF S
  <2>6. W = [i \in 0..L |-> W[i]]
    BY <1>11
  <2> QED
    BY <2>5, <2>6
<1> QED
  BY <1>2, <1>14, <1>15 DEF X, L

\* Each step from a place that is reached reaches a place: a path without a
\* cycle is no longer than the code.
LEMMA ReachedClosed ==
    ASSUME NEW f, NEW M, Runnable(f, M)
    PROVE  Reached(f) \subseteq Visits(f, M) /\ \A p \in Reached(f) : Step(f, p) \subseteq Reached(f)
<1>1. PICK L : L = Len(f.code)
  OBVIOUS
<1>2. L \in Nat /\ Starts(f) \subseteq 0..L - 1
  BY <1>1, CodeBytes DEF Runnable, Starts
<1>3. PICK W \in [0..L -> SUBSET Visits(f, M)] : Paths(f, W) /\ Reached(f) = W[L]
  BY <1>1, PathsAre
<1> DEFINE Stable(i) == \A p \in W[i] : Step(f, p) \subseteq W[i]
           Ats(i) == { p.at : p \in W[i] }
           S == { i \in Nat : i <= L => Stable(i) \/ Cardinality(Ats(i)) > i }
<1>4. ASSUME NEW i \in 0..L
      PROVE  /\ W[i] \subseteq Visits(f, M) /\ Ats(i) \subseteq 0..L - 1
             /\ IsFiniteSet(Ats(i)) /\ Cardinality(Ats(i)) \in Nat /\ Cardinality(Ats(i)) <= L
  <2>1. W[i] \subseteq Visits(f, M)
    BY <1>3
  <2>2. Ats(i) \subseteq Starts(f)
    BY <2>1, VisitsAre
  <2>3. Ats(i) \in SUBSET (0..L - 1)
    BY <2>2, <1>2
  <2>4. IsFiniteSet(0..L - 1) /\ Cardinality(0..L - 1) = L
    <3>1. 0 \in Int /\ L - 1 \in Int
      BY <1>2
    <3>2. IsFiniteSet(0..L - 1) /\ Cardinality(0..L - 1) = IF 0 > L - 1 THEN 0 ELSE (L - 1) - 0 + 1
      BY <3>1, FS_Interval
    <3> QED
      BY <3>2, <1>2
  <2>5. IsFiniteSet(Ats(i)) /\ Cardinality(Ats(i)) <= L
    <3> HIDE DEF Ats
    <3> QED
      BY <2>3, <2>4, FS_Subset
  <2> QED
    BY <2>1, <2>3, <2>5, FS_CardinalityType
<1>5. 0 \in S
  <2>1. Ats(0) = {0}
    BY <1>3 DEF Paths, Entry
  <2>2. Cardinality(Ats(0)) = 1
    <3>1. Cardinality({0}) = 1
      BY FS_Singleton
    <3> QED
      BY <2>1, <3>1
  <2> QED
    BY <2>2
<1>6. \A i \in Nat : i \in S => i + 1 \in S
  <2> HIDE DEF Stable, Ats
  <2> SUFFICES ASSUME NEW i \in S, i + 1 <= L
               PROVE  Stable(i + 1) \/ Cardinality(Ats(i + 1)) > i + 1
    OBVIOUS
  <2> USE DEF Stable, Ats
  <2>1. i \in Nat /\ i \in 0..L /\ i + 1 \in 0..L /\ i + 1 \in 1..L /\ (i + 1) - 1 = i /\ i <= L
    BY <1>2
  <2>2. W[i + 1] = W[i] \cup UNION { Step(f, p) : p \in W[i] }
    BY <2>1, <1>1, <1>3 DEF Paths
  <2>3. CASE Stable(i)
    <3>1. W[i + 1] = W[i]
      BY <2>2, <2>3
    <3> QED
      BY <2>3, <3>1
  <2>4. CASE ~ Stable(i)
    <3>0. PICK p \in W[i] : \E q \in Step(f, p) : q \notin W[i]
      BY <2>4
    <3>1. PICK q \in Step(f, p) : q \notin W[i]
      BY <3>0
    <3>2. W[i] \subseteq W[i + 1] /\ q \in W[i + 1]
      BY <2>2, <3>1
    <3>3. q.at \notin Ats(i)
      <4>1. \A r \in W[i + 1] : r = Visit(M, r.at)
        BY <1>4, <2>1, VisitsAre
      <4>2. \A r \in W[i] : r.at = q.at => r = q
        BY <3>2, <4>1
      <4> QED
        BY <3>1, <4>2
    <3>4. Ats(i) \subseteq Ats(i + 1) /\ q.at \in Ats(i + 1)
      BY <3>2
    <3>5. Ats(i) # Ats(i + 1) /\ Ats(i) \in SUBSET Ats(i + 1)
      BY <3>3, <3>4
    <3>6. /\ IsFiniteSet(Ats(i + 1)) /\ Cardinality(Ats(i)) \in Nat /\ Cardinality(Ats(i + 1)) \in Nat
      BY <1>4, <2>1
    <3>7. Cardinality(Ats(i)) > i
      BY <2>1, <2>4
    <3> HIDE DEF Ats
    <3>8. Cardinality(Ats(i)) <= Cardinality(Ats(i + 1)) /\ Cardinality(Ats(i)) # Cardinality(Ats(i + 1))
      BY <3>5, <3>6, FS_Subset
    <3> QED
      BY <2>1, <3>6, <3>7, <3>8
  <2> QED
    BY <2>3, <2>4
<1> HIDE DEF S
<1>7. \A i \in Nat : i \in S
  BY <1>5, <1>6, Induction
<1> USE DEF S
<1>8. L \in 0..L /\ L <= L
  BY <1>2
<1>9. Stable(L)
  <2>1. Stable(L) \/ Cardinality(Ats(L)) > L
    BY <1>2, <1>7, <1>8
  <2>2. Cardinality(Ats(L)) \in Nat /\ Cardinality(Ats(L)) <= L
    BY <1>4, <1>8
  <2> HIDE DEF Ats, Stable
  <2> QED
    BY <2>1, <2>2, <1>2
<1> QED
  BY <1>3, <1>4, <1>8, <1>9

LEMMA EntryKnown ==
    ASSUME NEW f, NEW M, Runnable(f, M), NEW R
    PROVE  Known(f, M, R, 0)
<1> SUFFICES ASSUME NEW i \in Slot, M[0].slot[i] # Global
             PROVE  \E j \in DOMAIN f.params : f.params[j] = M[0].slot[i]
  BY DEF Known
<1>1. PICK dc : Vars(f, M, dc)
  BY RunnableIs
<1>2. /\ 0 \in Spots(f) /\ M[0].height = 1 + Len(f.params) /\ Len(f.params) \in Nat
  BY RunnableIs, CodeBytes DEF Typed
<1>3. i <= 1 + Len(f.params) /\ Origin(f, M, i, M[0].slot[i])
  BY <1>1, <1>2 DEF Vars
<1>4. \A m \in f.born : M[m.at].height > 1 + Len(f.params)
  BY <1>1 DEF Vars
<1>5. i \in Nat
  BY CompilerConstants DEF Slot
<1>6. \A m \in f.born : M[m.at].height # i
  BY <1>2, <1>3, <1>4, <1>5
<1> QED
  BY <1>3, <1>6 DEF Origin

LEMMA StepKnown ==
    ASSUME NEW f, NEW M, Runnable(f, M), NEW R, NEW p \in Visits(f, M), NEW q \in Step(f, p),
           Known(f, M, R, p.at), NEW T, R \subseteq T, q \in T
    PROVE  Known(f, M, T, q.at)
<1>1. q \in Visits(f, M) /\ Flow(f, M, After(f, M, p.at), q.at)
  BY StepIs
<1>2. q.at \in Starts(f) /\ q = Visit(M, q.at)
  BY <1>1, VisitsAre
<1> SUFFICES ASSUME NEW i \in Slot, NEW d, d = M[q.at].slot[i], d # Global
             PROVE  \/ \E j \in DOMAIN f.params : f.params[j] = d
                    \/ \E m \in f.born : m.decl = d /\ m.at \in Starts(f) /\ Visit(M, m.at) \in T
  BY DEF Known
<1>3. After(f, M, p.at).slot[i] = d \/ [decl |-> d, at |-> q.at] \in f.born
  BY <1>1 DEF Flow
<1>4. CASE After(f, M, p.at).slot[i] = d
  <2>1. M[p.at].slot[i] = d
    BY <1>4 DEF After
  <2> QED
    BY <2>1 DEF Known
<1>5. CASE [decl |-> d, at |-> q.at] \in f.born
  <2>1. PICK m \in f.born : m = [decl |-> d, at |-> q.at]
    BY <1>5
  <2>2. m.decl = d /\ m.at = q.at
    BY <2>1
  <2> QED
    BY <2>2, <1>2
<1> QED
  BY <1>3, <1>4, <1>5

LEMMA ReachedKnown ==
    ASSUME NEW f, NEW M, Runnable(f, M), NEW p \in Reached(f)
    PROVE  Known(f, M, Reached(f), p.at)
<1>1. PICK L : L = Len(f.code)
  OBVIOUS
<1>2. L \in Nat
  BY <1>1, CodeBytes DEF Runnable
<1>3. PICK W \in [0..L -> SUBSET Visits(f, M)] : Paths(f, W) /\ Reached(f) = W[L]
  BY <1>1, PathsAre
<1> DEFINE S == { i \in Nat : i <= L => \A r \in W[i] : Known(f, M, W[i], r.at) }
<1>4. 0 \in S
  <2>1. \A r \in W[0] : r.at = 0
    BY <1>3 DEF Paths, Entry
  <2> QED
    BY <2>1, EntryKnown
<1>5. \A i \in Nat : i \in S => i + 1 \in S
  <2> SUFFICES ASSUME NEW i \in S, i + 1 <= L, NEW q \in W[i + 1]
               PROVE  Known(f, M, W[i + 1], q.at)
    OBVIOUS
  <2>1. i \in Nat /\ i \in 0..L /\ i + 1 \in 1..L /\ (i + 1) - 1 = i /\ i <= L
    BY <1>2
  <2>2. W[i + 1] = W[i] \cup UNION { Step(f, p1) : p1 \in W[i] }
    BY <2>1, <1>1, <1>3 DEF Paths
  <2>3. W[i] \subseteq W[i + 1] /\ W[i] \subseteq Visits(f, M)
    BY <2>1, <2>2, <1>3
  <2>4. \A r \in W[i] : Known(f, M, W[i], r.at)
    BY <2>1
  <2>5. CASE q \in W[i]
    BY <2>3, <2>4, <2>5 DEF Known
  <2>6. CASE q \notin W[i]
    <3>1. PICK r \in W[i] : q \in Step(f, r)
      BY <2>2, <2>6
    <3>2. Known(f, M, W[i], r.at) /\ r \in Visits(f, M)
      BY <2>3, <2>4
    <3> QED
      BY <2>3, <3>1, <3>2, StepKnown
  <2> QED
    BY <2>5, <2>6
<1> HIDE DEF S
<1>6. \A i \in Nat : i \in S
  BY <1>4, <1>5, Induction
<1>7. L \in S /\ L <= L
  BY <1>2, <1>6
<1> QED
  BY <1>3, <1>7 DEF S

\* A variable in a slot at a place that is reached is the one that is found.
LEMMA FindsIs ==
    ASSUME NEW f, NEW M, Runnable(f, M), NEW p \in Reached(f), NEW i \in Slot,
           NEW d, d = M[p.at].slot[i], d # Global
    PROVE  Owns(f, d) /\ Place(f, d) = i - 1 /\ i - 1 < p.height
<1>1. PICK dc : Vars(f, M, dc)
  BY RunnableIs
<1>2. p.at \in Starts(f) /\ p.height = M[p.at].height /\ Reached(f) \subseteq Visits(f, M)
  BY ReachedClosed, VisitsAre
<1>3. p.at \in Spots(f) /\ M \in [0..Len(f.code) -> Frame] /\ f \in Function
  BY <1>2, RunnableIs DEF Spots, Typed
<1>4. i <= p.height /\ Origin(f, M, i, d)
  BY <1>1, <1>2, <1>3 DEF Vars
<1>5. i \in Nat /\ p.height \in Nat
  <2>1. p.at \in 0..Len(f.code)
    BY <1>2, <1>3, CodeBytes DEF Starts
  <2>2. M[p.at] \in Frame
    BY <2>1, <1>3
  <2> QED
    BY <2>2, <1>2, CompilerConstants DEF Slot, Frame
<1>6. ToSet(f.params) = { f.params[j] : j \in DOMAIN f.params }
  BY DEF ToSet
<1>7. CASE d \in ToSet(f.params)
  <2>1. PICK j \in DOMAIN f.params : f.params[j] = d
    BY <1>6, <1>7
  <2>2. \A m \in f.born : m.decl # d
    BY <2>1, <1>1 DEF Vars
  <2>3. i - 1 \in DOMAIN f.params /\ f.params[i - 1] = d
    BY <2>2, <1>4 DEF Origin
  <2>4. \A k \in DOMAIN f.params : f.params[k] = d => k = i - 1
    BY <2>3, <1>1 DEF Vars
  <2>5. (CHOOSE k \in DOMAIN f.params : f.params[k] = d) = i - 1
    BY <2>3, <2>4
  <2>6. Place(f, d) = i - 1
    BY <2>5, <1>7 DEF Place
  <2> QED
    BY <2>6, <1>4, <1>5, <1>7 DEF Owns
<1>8. CASE d \notin ToSet(f.params)
  <2>1. PICK m \in f.born : m.decl = d /\ M[m.at].height = i
    <3>1. ~ (i - 1 \in DOMAIN f.params /\ f.params[i - 1] = d)
      BY <1>6, <1>8
    <3> QED
      BY <3>1, <1>4 DEF Origin
  <2>2. \A k \in f.born : k.decl = d => k = m
    BY <2>1, <1>1 DEF Vars
  <2>3. (CHOOSE k \in f.born : k.decl = d) = m
    BY <2>1, <2>2
  <2>4. Visit(M, m.at) \in Reached(f)
    <3>1. Known(f, M, Reached(f), p.at)
      BY ReachedKnown
    <3>2. ~ \E j \in DOMAIN f.params : f.params[j] = d
      BY <1>6, <1>8
    <3>3. PICK k \in f.born : k.decl = d /\ Visit(M, k.at) \in Reached(f)
      BY <3>1, <3>2 DEF Known
    <3> QED
      BY <2>2, <3>3
  <2>5. \A r \in Reached(f) : r.at = m.at => r.height = i
    <3>1. \A r \in Reached(f) : r.height = M[r.at].height
      BY <1>2, VisitsAre
    <3> QED
      BY <3>1, <2>1
  <2>6. (CHOOSE r \in Reached(f) : r.at = m.at).height = i
    <3>1. \E r \in Reached(f) : r.at = m.at
      BY <2>4 DEF Visit
    <3>2. PICK r : r = CHOOSE x \in Reached(f) : x.at = m.at
      OBVIOUS
    <3>3. r \in Reached(f) /\ r.at = m.at
      BY <3>1, <3>2
    <3> QED
      BY <2>5, <3>2, <3>3
  <2>7. Place(f, d) = i - 1
    BY <2>3, <2>6, <1>8 DEF Place
  <2> QED
    BY <2>1, <2>7, <1>4, <1>5 DEF Owns
<1> QED
  BY <1>7, <1>8

-----------------------------------------------------------------------------
(* The properties of the programs that compile. *)

LEMMA FinishedRuns ==
    ASSUME IInv, NEW f, f \in Finished, LoopsFit(f)
    PROVE  Closed(<<>>, done, f) /\ \E M : Runnable(f, M)
<1>1. Closed(<<>>, done, f) /\ done \in Seq(Function)
  BY FinishedIs
<1>2. PICK M : Whole(done, f, M, decls)
  BY FinishedIs
<1>3. Runnable(f, M)
  BY <1>1, <1>2 DEF Runnable, Whole
<1> QED
  BY <1>1, <1>3

\* On every path through a function of a program that compiled the VM is at
\* an instruction, with as many values on the stack whenever it is there, and
\* takes no parameter as an operand.
THEOREM BalancedCorrect == Spec => []Balanced
<1>1. IInv => Balanced
  <2> SUFFICES ASSUME IInv, NEW f \in Finished, LoopsFit(f)
               PROVE  /\ \A p \in Reached(f) : /\ IsInstruction(f, p.at)
                                               /\ p.height > Len(f.params) + Takes(f, p.at)
                      /\ \A p, q \in Reached(f) : p.at = q.at => p.height = q.height
    BY DEF Balanced
  <2>1. PICK M : Runnable(f, M)
    BY FinishedRuns
  <2>2. \A p \in Reached(f) : p.at \in Starts(f) /\ p.height = M[p.at].height
    BY <2>1, ReachedClosed, VisitsAre
  <2>3. \A p \in Reached(f) : IsInstruction(f, p.at) /\ p.height > Len(f.params) + Takes(f, p.at)
    <3> SUFFICES ASSUME NEW p \in Reached(f)
                 PROVE  IsInstruction(f, p.at) /\ p.height > Len(f.params) + Takes(f, p.at)
      OBVIOUS
    <3>1. f \in Function /\ Runs(done, f, M, {}, p.at)
      BY <2>1, <2>2, RunnableIs
    <3>2. IsInstruction(f, p.at)
      BY <2>2, <3>1, StartIs DEF IsInstruction
    <3> QED
      BY <2>2, <3>1, <3>2 DEF Runs
  <2> QED
    BY <2>2, <2>3
<1> QED
  BY <1>1, Invariant, PTL

\* The operands of an instruction are in the chunk.
LEMMA OperandIs ==
    ASSUME NEW f, NEW M, Runnable(f, M), NEW a \in Starts(f), NEW k \in Nat, k >= 1,
           k < Width(done, f, a), Width(done, f, a) \in Nat
    PROVE  Operand(f, a, k) \in Nat
<1>1. f \in Function /\ a \in Nat /\ a + Width(done, f, a) \in Spots(f)
  BY RunnableIs, StartIs DEF Runs
<1>2. PICK w \in Nat : w = Width(done, f, a)
  OBVIOUS
<1>3. PICK L \in Nat : L = Len(f.code)
  BY <1>1, CodeBytes
<1>4. a + w <= L
  BY <1>1, <1>2, <1>3 DEF Spots, Starts
<1>5. a + 1 + k \in 1..L
  BY <1>1, <1>2, <1>4
<1>6. f.code[a + 1 + k] \in Bytes
  BY <1>1, <1>3, <1>5, CodeBytes
<1> QED
  BY <1>6 DEF Bytes, Operand

\* GET_LOCAL and SET_LOCAL find the variable that is named.
LEMMA LocalFinds ==
    ASSUME NEW f, NEW M, Runnable(f, M), NEW p \in Reached(f),
           Operation(f, p.at) \in {"GET_LOCAL", "SET_LOCAL"}
    PROVE  \/ Instruction(f, p.at).decl = Itself
           \/ Finds(f, p, Operand(f, p.at, 1), Instruction(f, p.at).decl)
<1>1. PICK a, d, arg : a = p.at /\ d = Instruction(f, p.at).decl /\ arg = Operand(f, p.at, 1)
  OBVIOUS
<1>2. a \in Starts(f) /\ f \in Function
  BY <1>1, ReachedClosed, VisitsAre, RunnableIs
<1>3. arg \in Nat
  <2>1. Width(done, f, a) = 2
    BY <1>1, <1>2, WidthIs
  <2>2. 1 \in Nat /\ 1 >= 1 /\ 1 < Width(done, f, a) /\ Width(done, f, a) \in Nat
    BY <2>1
  <2> QED
    BY <2>2, <1>1, <1>2, OperandIs
<1>4. d = Itself \/ (arg + 1 \in Slot /\ M[a].slot[arg + 1] = d /\ d # Global)
  BY <1>1, <1>2, RunnableIs DEF Meant, MeantAt
<1>5. CASE arg + 1 \in Slot /\ M[a].slot[arg + 1] = d /\ d # Global
  <2>1. PICK i \in Slot : i = arg + 1
    BY <1>5
  <2>2. Owns(f, d) /\ Place(f, d) = i - 1 /\ i - 1 < p.height
    BY <2>1, <1>1, <1>5, FindsIs
  <2>3. i - 1 = arg
    BY <2>1, <1>3
  <2> QED
    BY <2>2, <2>3, <1>1 DEF Finds
<1> QED
  BY <1>1, <1>4, <1>5

\* What CLOSURE hands on, at a place that is reached.
LEMMA ClosureFinds ==
    ASSUME NEW f, NEW M, Runnable(f, M), NEW p \in Reached(f), Operation(f, p.at) = "CLOSURE",
           NEW us, us = Enclosed(f, p.at).upvalues, NEW i \in DOMAIN us,
           NEW index, index = Operand(f, p.at, 2 * i + 1)
    PROVE  IF Operand(f, p.at, 2 * i) = 1
           THEN Finds(f, [p EXCEPT !.height = @ + 1], index, us[i].decl)
           ELSE f.upvalues[index + 1].decl = us[i].decl
<1>1. PICK a : a = p.at
  OBVIOUS
<1>2. /\ a \in Starts(f) /\ f \in Function /\ p \in Visits(f, M) /\ p.height = M[a].height
      /\ p = Visit(M, a) /\ Runs(done, f, M, {}, a) /\ done \in Seq(Function)
  <2>1. f \in Function /\ done \in Seq(Function)
    BY DEF Runnable
  <2>2. p \in Visits(f, M)
    BY ReachedClosed
  <2>3. a \in Starts(f) /\ p.height = M[a].height /\ p = Visit(M, a)
    BY <1>1, <2>2, VisitsAre
  <2>4. Runs(done, f, M, {}, a)
    BY <2>3, RunnableIs
  <2> QED
    BY <2>1, <2>2, <2>3, <2>4
<1>3. us = done[f.constants[Operand(f, a, 1) + 1]].upvalues
  BY <1>1 DEF Enclosed
<1>4. us \in Seq(Upvalue) /\ Len(us) \in Nat /\ i \in 1..Len(us)
  <2>1. f.constants[Operand(f, a, 1) + 1] \in DOMAIN done
    BY <1>1, <1>2 DEF Runs
  <2>2. done[f.constants[Operand(f, a, 1) + 1]] \in Function
    BY <2>1, <1>2
  <2> QED
    BY <2>2, <1>3 DEF Function
<1>5. PICK q : q = a + Width(done, f, a)
  OBVIOUS
<1>6. Width(done, f, a) = 2 + 2 * Len(us)
  BY <1>1, <1>2, <1>3, WidthIs
<1>7. index \in Nat
  <2>1. /\ 2 * i + 1 \in Nat /\ 2 * i + 1 >= 1 /\ 2 * i + 1 < Width(done, f, a)
        /\ Width(done, f, a) \in Nat
    BY <1>4, <1>6
  <2> QED
    BY <2>1, <1>1, <1>2, OperandIs
<1>8. /\ Operand(f, a, 2 * i) = IF us[i].isLocal THEN 1 ELSE 0
      /\ IF us[i].isLocal
         THEN /\ index + 1 \in Slot /\ us[i].decl # Global
              /\ \/ M[q].slot[index + 1] = us[i].decl
                 \/ q = Len(f.code) /\ index + 1 = M[q].height /\ us[i].decl = Global
         ELSE index + 1 \in DOMAIN f.upvalues /\ f.upvalues[index + 1].decl = us[i].decl
  <2>1. MeantAt(done, f, M, Global, a)
    BY <1>2, RunnableIs DEF Meant
  <2> QED
    BY <2>1, <1>1, <1>3, <1>5 DEF MeantAt
<1>9. CASE us[i].isLocal
  <2>1. PICK j \in Slot : j = index + 1
    BY <1>8, <1>9
  <2>2. PICK d : d = us[i].decl /\ d # Global /\ M[q].slot[j] = d
    BY <2>1, <1>8, <1>9
  <2>3. PICK r : r = Visit(M, q)
    OBVIOUS
  <2>4. Operation(f, a) \notin {"RETURN", "JUMP", "LOOP", "JUMP_IF_FALSE"}
    BY <1>1
  <2>5. r \in Step(f, p)
    BY <2>3, <2>4, <1>1, <1>2, <1>5, StepOn
  <2>6. r \in Reached(f) /\ r.at = q
    BY <2>3, <2>5, ReachedClosed DEF Visit
  <2>7. r.height = p.height + 1
    <3>1. Flow(f, M, After(f, M, a), r.at) /\ r.height = M[r.at].height
      BY <2>5, <1>1, <1>2, StepIs, VisitsAre
    <3>2. Takes(f, a) = 0 /\ Puts(f, a) = 1
      BY <1>1 DEF Takes, Puts
    <3>3. r.height = p.height - Takes(f, a) + Puts(f, a)
      BY <3>1, <1>2 DEF Flow, After
    <3>4. p.height \in Nat
      <4>1. a \in 0..Len(f.code)
        BY <1>2, CodeBytes DEF Starts
      <4> QED
        BY <4>1, <1>2, RunnableIs DEF Typed, Frame
    <3> QED
      BY <3>2, <3>3, <3>4
  <2>8. Owns(f, d) /\ Place(f, d) = j - 1 /\ j - 1 < r.height
    BY <2>2, <2>6, FindsIs
  <2>9. j - 1 = index
    BY <2>1, <1>7
  <2>10. [p EXCEPT !.height = @ + 1].height = p.height + 1
    BY <1>2 DEF Visit
  <2>11. Finds(f, [p EXCEPT !.height = @ + 1], index, d)
    BY <2>7, <2>8, <2>9, <2>10 DEF Finds
  <2>12. Operand(f, p.at, 2 * i) = 1
    BY <1>1, <1>8, <1>9
  <2> QED
    BY <2>2, <2>11, <2>12
<1>10. CASE ~ us[i].isLocal
  <2>1. Operand(f, p.at, 2 * i) = 0
    BY <1>1, <1>8, <1>10
  <2> QED
    BY <2>1, <1>8, <1>10
<1> QED
  BY <1>9, <1>10

\* In a program that compiled a name is the variable that lexical scoping
\* gives it: a local is in the slot that is read or written, an upvalue hands
\* on the variable it was made for, and no local is taken for a global.
THEOREM ResolvesCorrect == Spec => []Resolves
<1>1. IInv => Resolves
  <2> SUFFICES ASSUME IInv, NEW f \in Finished, LoopsFit(f), NEW p \in Reached(f),
                      NEW op, op = Operation(f, p.at), NEW d, d = Instruction(f, p.at).decl,
                      NEW arg, arg = Operand(f, p.at, 1)
               PROVE  /\ op \in {"GET_LOCAL", "SET_LOCAL"} => d = Itself \/ Finds(f, p, arg, d)
                      /\ op \in {"GET_UPVALUE", "SET_UPVALUE"} =>
                             d # Global /\ f.upvalues[arg + 1].decl = d
                      /\ op \in {"GET_GLOBAL", "SET_GLOBAL"} => d = Global
                      /\ op = "CLOSURE" => \A i \in DOMAIN Enclosed(f, p.at).upvalues :
                             LET index == Operand(f, p.at, 2 * i + 1)
                                 u == Enclosed(f, p.at).upvalues[i]
                             IN  IF Operand(f, p.at, 2 * i) = 1
                                 THEN Finds(f, [p EXCEPT !.height = @ + 1], index, u.decl)
                                 ELSE f.upvalues[index + 1].decl = u.decl
    BY DEF Resolves
  <2>1. PICK M : Runnable(f, M)
    BY FinishedRuns
  <2>2. p.at \in Starts(f)
    BY <2>1, ReachedClosed, VisitsAre
  <2>3. MeantAt(done, f, M, Global, p.at)
    BY <2>1, <2>2, RunnableIs DEF Meant
  <2>4. op \in {"GET_LOCAL", "SET_LOCAL"} => d = Itself \/ Finds(f, p, arg, d)
    BY <2>1, LocalFinds
  <2>5. /\ op \in {"GET_UPVALUE", "SET_UPVALUE"} => d # Global /\ f.upvalues[arg + 1].decl = d
        /\ op \in {"GET_GLOBAL", "SET_GLOBAL"} => d = Global
    BY <2>3 DEF MeantAt
  <2>6. op = "CLOSURE" => \A i \in DOMAIN Enclosed(f, p.at).upvalues :
            IF Operand(f, p.at, 2 * i) = 1
            THEN Finds(f, [p EXCEPT !.height = @ + 1], Operand(f, p.at, 2 * i + 1),
                       Enclosed(f, p.at).upvalues[i].decl)
            ELSE f.upvalues[Operand(f, p.at, 2 * i + 1) + 1].decl = Enclosed(f, p.at).upvalues[i].decl
    <3> SUFFICES ASSUME Operation(f, p.at) = "CLOSURE",
                        NEW us, us = Enclosed(f, p.at).upvalues, NEW i \in DOMAIN us,
                        NEW index, index = Operand(f, p.at, 2 * i + 1)
                 PROVE  IF Operand(f, p.at, 2 * i) = 1
                        THEN Finds(f, [p EXCEPT !.height = @ + 1], index, us[i].decl)
                        ELSE f.upvalues[index + 1].decl = us[i].decl
      OBVIOUS
    <3> QED
      BY <2>1, ClosureFinds, SMT
  <2> QED
    BY <2>4, <2>5, <2>6
<1> QED
  BY <1>1, Invariant, PTL

\* In a program that compiled a variable leaves the stack from its own slot at
\* the end of its scope, and is closed there just when a function captures it.
THEOREM ClosesCapturedCorrect == Spec => []ClosesCaptured
<1>1. IInv => ClosesCaptured
  <2> SUFFICES ASSUME IInv, NEW f \in Finished, LoopsFit(f), NEW m \in f.gone,
                      NEW p \in Reached(f), m.at = p.at
               PROVE  /\ Finds(f, p, p.height - 1, m.decl)
                      /\ Operation(f, p.at) = "CLOSE_UPVALUE"
                             <=> \E k \in DOMAIN done : Captures(done[k], m.decl)
    BY DEF ClosesCaptured
  <2>1. PICK M : Runnable(f, M)
    BY FinishedRuns
  <2>2. Closed(<<>>, done, f)
    BY FinishedRuns
  <2>3. p.height = M[p.at].height
    BY <2>1, ReachedClosed, VisitsAre
  <2>4. PICK dc : Dead(f, M, dc)
    BY <2>1, RunnableIs
  <2>5. p.height \in Slot /\ M[p.at].slot[p.height] = m.decl /\ m.decl # Global
    BY <2>3, <2>4 DEF Dead, Global
  <2>6. Owns(f, m.decl) /\ Place(f, m.decl) = p.height - 1 /\ p.height - 1 < p.height
    BY <2>1, <2>5, FindsIs
  <2>7. Finds(f, p, p.height - 1, m.decl)
    BY <2>6 DEF Finds
  <2>8. Everyone(<<>>, done) = { done[i] : i \in DOMAIN done }
    BY DEF Everyone
  <2>9. Operation(f, p.at) = "CLOSE_UPVALUE"
            <=> \E k \in DOMAIN done : Captures(done[k], m.decl)
    BY <2>2, <2>8 DEF Closed, Taken
  <2> QED
    BY <2>7, <2>9
<1> QED
  BY <1>1, Invariant, PTL
=============================================================================
