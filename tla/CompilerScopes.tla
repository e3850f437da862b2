--------------------------- MODULE CompilerScopes ---------------------------
(***************************************************************************)
(* Proofs about CompilerInvariant, continued: scopes that begin and end,   *)
(* variables that are declared and born, functions that begin and end with *)
(* their parameters and closures.                                          *)
(***************************************************************************)
EXTENDS CompilerFrames

-----------------------------------------------------------------------------
(* Steps that change the function that is compiled and the scopes.         *)

LEMMA TopsAre ==
    ASSUME NEW ch, NEW wk, NEW ds, NEW en, NEW dc, NEW ctx, NEW maps,
           Types(ch, wk, ds, en, dc), Good(ch, wk, ds, en, dc, ctx, maps),
           NEW e \in Comp, NEW N, NEW es, NEW naps, Changed(ch, maps, e, N, es, naps),
           NEW n, n = Len(ch)
    PROVE  Tops(ch, maps, es, naps, n) /\ es[n] = e /\ naps[n] = N
<1>1. /\ ch \in Seq(Comp) /\ n \in Nat /\ DOMAIN ch = 1..n /\ n >= 1 /\ DOMAIN maps = 1..n
      /\ \A k \in DOMAIN ch : Len(ch[k].locals) >= 1
  BY GoodIs
<1>3. /\ es \in Seq(Comp) /\ Len(es) = n /\ DOMAIN es = 1..n /\ DOMAIN naps = 1..n
      /\ es[n] = e /\ naps[n] = N
      /\ \A k \in 1..n - 1 : es[k] = ch[k] /\ naps[k] = maps[k]
  BY <1>1, ChangedIs
<1> QED
  BY <1>1, <1>3 DEF Tops

LEMMA RestTops ==
    ASSUME NEW ch, NEW maps, NEW es, NEW naps, NEW n, Tops(ch, maps, es, naps, n),
           NEW en, NEW fn, NEW pw, NEW pc, Listed(ch, en, maps, pw, pc), pw[1].k # "parameters",
           pc[1].level <= n,
           pc[1].level = n => Keeps(ch[n], maps[n], es[n], naps[n], pc[1].all, pc[1].depth),
           \A e \in 1..pc[1].env - 1 : fn[e] = en[e]
    PROVE  Listed(es, fn, naps, pw, pc)
<1>1. /\ n \in Nat /\ n = Len(ch) /\ n >= 1 /\ ch \in Seq(Comp) /\ DOMAIN es = 1..n /\ DOMAIN ch = 1..n
      /\ \A k \in 1..n - 1 : es[k] = ch[k] /\ naps[k] = maps[k]
      /\ \A k \in 1..n : Len(ch[k].locals) >= 1
  BY DEF Tops
<1>2. /\ n \in DOMAIN es /\ n <= Len(ch)
      /\ \A k \in 1..n - 1 : k \in DOMAIN es
  BY <1>1
<1>3. UpTo(ch, en, maps, pw, pc, es, fn, naps, n)
  BY <1>1, <1>2 DEF UpTo
<1> QED
  BY <1>1, <1>3, RestStaysTop

\* Sound, with more declarations.
LEMMA SoundLater ==
    ASSUME NEW ds \in Seq(Function), NEW f \in Function, NEW M, NEW P, NEW dc \in Nat, NEW ec \in Nat,
           dc <= ec, Sound(ds, f, M, P, Global, dc)
    PROVE  Sound(ds, f, M, P, Global, ec)
  BY Tables

LEMMA LocalsLater ==
    ASSUME NEW c, NEW dc \in Nat, NEW ec \in Nat, dc <= ec, Locals(c, dc)
    PROVE  Locals(c, ec)
<1>1. \A d \in 1..dc : d \in 1..ec
  OBVIOUS
<1> QED
  BY <1>1 DEF Locals

LEMMA CodedTops ==
    ASSUME NEW ch, NEW maps, NEW es, NEW naps, NEW n, Tops(ch, maps, es, naps, n),
           NEW ds \in Seq(Function), NEW dc \in Nat, NEW ec \in Nat, dc <= ec, NEW wk, NEW ctx,
           Coded(ch, ds, dc, maps, wk, ctx), NEW pw, NEW pc,
           \A k \in 1..n - 1 : Pending(pw, pc, k) = Pending(wk, ctx, k),
           Sound(ds, es[n].f, naps[n], Pending(pw, pc, n), Late(es[n], pc[1]), ec),
           Locals(es[n], ec)
    PROVE  Coded(es, ds, ec, naps, pw, pc)
<1>1. /\ n \in Nat /\ n = Len(ch) /\ n >= 1 /\ ch \in Seq(Comp) /\ DOMAIN es = 1..n /\ DOMAIN ch = 1..n
      /\ Len(es) = n /\ \A k \in 1..n - 1 : es[k] = ch[k] /\ naps[k] = maps[k]
  BY DEF Tops
<1>2. ASSUME NEW k \in 1..n - 1
      PROVE  Sound(ds, es[k].f, naps[k], Pending(pw, pc, k), Global, ec) /\ Locals(es[k], ec) /\ k # n
  <2>1. k \in DOMAIN ch /\ k # n
    BY <1>1
  <2>2. Sound(ds, ch[k].f, maps[k], Pending(wk, ctx, k), Global, dc) /\ Locals(ch[k], dc)
    BY <2>1, <1>1 DEF Coded
  <2>3. ch[k].f \in Function
    BY <2>1, <1>1, CompIs, SeqIs
  <2>4. Sound(ds, ch[k].f, maps[k], Pending(wk, ctx, k), Global, ec)
    BY <2>2, <2>3, SoundLater
  <2>5. Locals(ch[k], ec)
    BY <2>2, LocalsLater
  <2> QED
    BY <2>1, <2>4, <2>5, <1>1
<1>3. \A k \in DOMAIN es : k = n \/ k \in 1..n - 1
  BY <1>1
<1> QED
  BY <1>1, <1>2, <1>3 DEF Coded

LEMMA PushAny ==
    ASSUME NEW es, NEW fn, NEW naps, NEW pw, NEW pc, Rested(es, fn, naps, pw, pc), NEW w \in Item, NEW p,
           Fresh(es, fn, naps, pw, pc, w, p), NEW r, r = <<w>> \o pw, NEW q, q = <<p>> \o pc
    PROVE  Pushes(es, fn, naps, pw, pc, w, p, r, q)
<1>1. /\ Listed(es, fn, naps, pw, pc) /\ pw \in Seq(Item) /\ pc \in Seq(Point)
      /\ Len(pc) = Len(pw) /\ Len(pw) >= 1
  BY DEF Rested
<1>2. p \in Point
  BY DEF Fresh, Fine, Sane
<1>3. Listed(es, fn, naps, r, q)
  BY <1>1, Push
<1>4. Len(r) = Len(pw) + 1 /\ Len(q) = Len(pc) + 1 /\ r[1] = w /\ q[1] = p
      /\ \A i \in 1..Len(pw) : r[i + 1] = pw[i]
  BY <1>1, <1>2, Pushed
<1>5. r \in Seq(Item) /\ q \in Seq(Point)
  <2>1. <<w>> \in Seq(Item) /\ <<p>> \in Seq(Point)
    BY <1>2
  <2> QED
    BY <2>1, <1>1, Joined
<1>6. \A k : Pending(r, q, k) = (IF p.level = k THEN Holes(w) ELSE {}) \cup Pending(pw, pc, k)
  BY <1>1, <1>2, PendingPush
<1>7. PICK m \in Nat : m = Len(pw)
  BY <1>1
<1>8. r[2] = pw[1] /\ (r[3] = pw[2] \/ m = 1) /\ m + 1 >= 2
  <2>1. m >= 1 /\ \A i \in 1..m : r[i + 1] = pw[i]
    BY <1>1, <1>4, <1>7
  <2>2. 1 \in 1..m /\ 1 + 1 = 2 /\ 2 + 1 = 3 /\ (m = 1 \/ 2 \in 1..m)
    BY <2>1
  <2>3. r[2] = pw[1]
    BY <2>1, <2>2
  <2>4. 2 \in 1..m => r[3] = pw[2]
    BY <2>1, <2>2
  <2>5. m + 1 >= 2
    BY <2>1
  <2> QED
    BY <2>2, <2>3, <2>4, <2>5
<1> QED
  BY <1>1, <1>3, <1>4, <1>5, <1>6, <1>7, <1>8 DEF Pushes

\* What is pushed is left to do, if it is not the list of parameters.
LEMMA PushRests ==
    ASSUME NEW es, NEW fn, NEW naps, NEW pw, NEW pc, NEW w, NEW p, NEW r, NEW q,
           Pushes(es, fn, naps, pw, pc, w, p, r, q), w.k # "parameters"
    PROVE  Rested(es, fn, naps, r, q)
<1>1. Len(r) >= 1
  BY DEF Pushes
<1> QED
  BY <1>1 DEF Pushes, Rested

LEMMA FlatFresh ==
    ASSUME NEW es, NEW fn, NEW naps, NEW pw, NEW pc, Rested(es, fn, naps, pw, pc), NEW w, Flat(w, pw[1]),
           NEW p, p = pc[1], Fine(es, p), Settled(p)
    PROVE  Fresh(es, fn, naps, pw, pc, w, p) /\ Holes(w) = {} /\ w.k # "parameters"
<1>1. p \in Point /\ pw[1].k # "parameters"
  BY DEF Fine, Sane, Rested
<1>2. Fits(w, p, pw[1], p)
  BY DEF Flat, Fits
<1>3. w.k \notin {"endScope", "endFunction", "define", "parameters"}
  BY DEF Flat
<1>4. Within(w, p, p)
  BY <1>1, <1>3 DEF Within, Point
<1>5. Holds(w, p, p, es[p.level], naps[p.level]) /\ Holes(w) = {}
  BY DEF Flat, Holds, Holes
<1>6. p.vars = p.seen
  BY DEF Settled
<1> QED
  BY <1>1, <1>2, <1>3, <1>4, <1>5, <1>6 DEF Fresh, Link

-----------------------------------------------------------------------------
(* Scopes that are opened.                                                 *)

LEMMA AppendIs ==
    ASSUME NEW S, NEW s \in Seq(S), NEW x \in S
    PROVE  /\ Append(s, x) \in Seq(S) /\ Len(Append(s, x)) = Len(s) + 1
           /\ Append(s, x)[Len(s) + 1] = x /\ \A i \in 1..Len(s) : Append(s, x)[i] = s[i]
           /\ DOMAIN Append(s, x) = 1..Len(s) + 1
  OBVIOUS

\* The last of the scopes the program has open.
LEMMA LastScope ==
    ASSUME NEW ch, NEW wk, NEW ds, NEW en, NEW dc, NEW ctx, NEW maps,
           Types(ch, wk, ds, en, dc), Good(ch, wk, ds, en, dc, ctx, maps)
    PROVE  /\ en \in Seq([Name -> 0..MaxDecl]) /\ Len(en) \in Nat /\ Len(en) >= 1
           /\ ctx[1].env = Len(en) /\ Last(en) = en[Len(en)] /\ Last(en) \in [Name -> 0..MaxDecl]
<1>1. en \in Seq([Name -> 0..MaxDecl]) /\ ctx[1].env = Len(en) /\ Sane(ctx[1])
  BY GoodIs DEF Types, Heads
<1>2. Len(en) \in Nat /\ Len(en) >= 1
  BY <1>1, Points
<1>3. Last(en) = en[Len(en)]
  BY DEF Last
<1>4. en[Len(en)] \in [Name -> 0..MaxDecl]
  <2>1. Len(en) \in 1..Len(en)
    BY <1>2
  <2> QED
    BY <2>1, <1>1, SeqIs
<1> QED
  BY <1>1, <1>2, <1>3, <1>4

\* The compiler one scope further in, and the point it is at then.
LEMMA Deeper ==
    ASSUME NEW c \in Comp, NEW e, e = BeginScope(c)
    PROVE  /\ e \in Comp /\ e.locals = c.locals /\ e.f = c.f
           /\ c.scopeDepth \in Nat /\ e.scopeDepth = c.scopeDepth + 1
  BY DEF Comp, BeginScope

LEMMA DeeperPoint ==
    ASSUME NEW a \in Point, NEW q, q = Inside(a)
    PROVE  /\ q \in Point /\ q.level = a.level /\ q.depth = a.depth + 1 /\ q.env = a.env + 1
           /\ q.all = a.all /\ q.seen = a.seen /\ q.vars = a.vars /\ q.height = a.height
<1> DEFINE z == [a EXCEPT !.depth = a.depth + 1, !.env = a.env + 1]
<1>1. a.depth + 1 \in Nat /\ a.env + 1 \in Nat
  BY DEF Point
<1>2. q = z
  BY DEF Inside
<1>3. z \in Point
  BY <1>1 DEF Point
<1>4. /\ z.level = a.level /\ z.depth = a.depth + 1 /\ z.env = a.env + 1
      /\ z.all = a.all /\ z.seen = a.seen /\ z.vars = a.vars /\ z.height = a.height
  BY DEF Point
<1> QED
  BY <1>2, <1>3, <1>4

LEMMA OpeningIs ==
    ASSUME NEW ch, NEW wk, NEW ds, NEW en, NEW dc, NEW ctx, NEW maps, NEW n, NEW a, NEW q, NEW c,
           NEW e, NEW es, NEW fn, NEW naps, NEW rw, NEW rc,
           Opening(ch, wk, ds, en, dc, ctx, maps, n, a, q, c, e, es, fn, naps, rw, rc)
    PROVE  /\ Tops(ch, maps, es, naps, n) /\ es[n] = e /\ naps[n] = maps[n] /\ ch[n] = c
           /\ c \in Comp /\ e \in Comp /\ e.locals = c.locals /\ e.f = c.f
           /\ c.scopeDepth \in Nat /\ e.scopeDepth = c.scopeDepth + 1
           /\ Settled(a) /\ Settled(q) /\ Sane(a) /\ Sane(q) /\ Fine(es, q) /\ rc[1] = a
           /\ a.level = n /\ a.depth = c.scopeDepth /\ a.all = Len(c.locals) /\ a.env = Len(en)
           /\ q.level = n /\ q.depth = a.depth + 1 /\ q.env = a.env + 1 /\ q.all = a.all
           /\ q.seen = a.seen /\ q.vars = a.vars /\ q.height = a.height
           /\ Listed(ch, en, maps, rw, rc) /\ rw \in Seq(Item) /\ rc \in Seq(Point)
           /\ Len(rc) = Len(rw) /\ Len(rw) >= 1 /\ rw[1].k # "parameters"
           /\ \A k \in 1..n : Pending(wk, ctx, k) = Pending(rw, rc, k)
<1>0. /\ Ready(ch, wk, ds, en, dc, ctx, maps) /\ wk[1].k \in {"declarations", "statement"}
      /\ n = Len(ch) /\ c = ch[n] /\ e = BeginScope(c) /\ es = [ch EXCEPT ![n] = e]
      /\ naps = Renewed(ch, maps, maps[n]) /\ a = ctx[1]
      /\ q = Inside(a)
      /\ rw = RestWork(wk) /\ rc = RestCtx(wk, ctx)
  BY DEF Opening
<1>1. Types(ch, wk, ds, en, dc) /\ Good(ch, wk, ds, en, dc, ctx, maps) /\ wk[1].k \notin Outer
  BY <1>0 DEF Ready
<1>2. /\ ch \in Seq(Comp) /\ wk \in Seq(Item) /\ ctx \in Seq(Point) /\ n \in Nat
      /\ n \in DOMAIN ch /\ \A k \in DOMAIN ch : ch[k] \in Comp
      /\ Listed(ch, en, maps, wk, ctx) /\ Heads(ch, en, maps, wk, ctx)
      /\ Sane(a) /\ a.level = n /\ a.depth = c.scopeDepth /\ a.all = Len(c.locals)
  BY <1>0, <1>1, GoodIs
<1>3. c \in Comp
  BY <1>0, <1>2
<1>4. e \in Comp /\ e.locals = c.locals /\ e.f = c.f /\ c.scopeDepth \in Nat /\ e.scopeDepth = c.scopeDepth + 1
  BY <1>0, <1>3, Deeper
<1>5. Tops(ch, maps, es, naps, n) /\ es[n] = e /\ naps[n] = maps[n]
  <2>1. Changed(ch, maps, e, maps[n], es, naps)
    BY <1>0 DEF Changed, Renewed
  <2>2. n = Len(ch) /\ e \in Comp
    BY <1>0, <1>4
  <2> QED
    BY <2>1, <2>2, <1>1, TopsAre
<1>6. /\ a \in Point /\ q.level = a.level /\ q.depth = a.depth + 1 /\ q.env = a.env + 1 /\ q.all = a.all
      /\ q.seen = a.seen /\ q.vars = a.vars /\ q.height = a.height /\ q \in Point
  <2>1. a \in Point
    BY <1>2 DEF Sane
  <2> QED
    BY <2>1, <1>0, DeeperPoint
<1>7. rc[1] = a /\ Settled(a)
  BY <1>0, RestPoint
<1>8. Settled(q) /\ Sane(q)
  <2>1. a.env \in Nat /\ a.level \in Nat /\ a.env >= 1
    BY <1>2, Points
  <2> QED
    BY <2>1, <1>2, <1>6, <1>7 DEF Settled, Sane
<1>9. Fine(es, q)
  <2>1. Fine(ch, a)
    BY <1>0, <1>2 DEF Listed
  <2>2. n \in DOMAIN es /\ Len(es[n].locals) = Len(c.locals) /\ es[n].f = c.f
    BY <1>2, <1>4, <1>5 DEF Tops
  <2> QED
    BY <2>1, <2>2, <1>0, <1>2, <1>6, <1>8 DEF Fine
<1>10. wk[1].k # "endScript" /\ wk[1].k # "parameters" /\ Holes(wk[1]) = {}
  BY <1>0 DEF Holes
<1>11. /\ Splits(wk, ctx, rw, rc, n) /\ Listed(ch, en, maps, rw, rc) /\ rw \in Seq(Item)
       /\ rc \in Seq(Point) /\ Len(rc) = Len(rw) /\ Len(rw) >= 1 /\ rw[1].k # "parameters"
  BY <1>0, <1>2, <1>10, SplitsRest
<1>12. ASSUME NEW k \in 1..n  PROVE Pending(wk, ctx, k) = Pending(rw, rc, k)
  <2>1. k = n \/ k \in 1..n - 1
    BY <1>2
  <2> QED
    BY <2>1, <1>10, <1>11 DEF Splits
<1>13. a.env = Len(en)
  BY <1>0, <1>2 DEF Heads
<1>14. ch[n] = c
  BY <1>0
<1> QED
  BY <1>2, <1>3, <1>4, <1>5, <1>6, <1>7, <1>8, <1>9, <1>11, <1>12, <1>13, <1>14

\* The end of the scope is the first thing to do that is new.
LEMMA ScopeEnds ==
    ASSUME NEW ch, NEW wk, NEW ds, NEW en, NEW dc, NEW ctx, NEW maps, NEW n, NEW a, NEW q, NEW c,
           NEW e, NEW es, NEW fn, NEW naps, NEW rw, NEW rc,
           Opening(ch, wk, ds, en, dc, ctx, maps, n, a, q, c, e, es, fn, naps, rw, rc),
           NEW w, w = Do("endScope")
    PROVE  Rested(es, fn, naps, rw, rc) /\ Fresh(es, fn, naps, rw, rc, w, q) /\ w \in Item
<1>1. /\ Tops(ch, maps, es, naps, n) /\ es[n] = e /\ naps[n] = maps[n] /\ ch[n] = c
      /\ c \in Comp /\ e \in Comp /\ e.locals = c.locals /\ e.f = c.f
      /\ Settled(a) /\ Settled(q) /\ Sane(a) /\ Sane(q) /\ Fine(es, q) /\ rc[1] = a
      /\ a.level = n /\ a.depth = c.scopeDepth /\ a.all = Len(c.locals) /\ a.env = Len(en)
      /\ q.level = n /\ q.depth = a.depth + 1 /\ q.env = a.env + 1 /\ q.all = a.all
      /\ q.seen = a.seen /\ q.vars = a.vars /\ q.height = a.height
      /\ Listed(ch, en, maps, rw, rc) /\ rw \in Seq(Item) /\ rc \in Seq(Point)
      /\ Len(rc) = Len(rw) /\ Len(rw) >= 1 /\ rw[1].k # "parameters"
  BY OpeningIs
<1>2. Types(ch, wk, ds, en, dc) /\ Good(ch, wk, ds, en, dc, ctx, maps) /\ fn = Append(en, Last(en)) /\ a = ctx[1]
  BY DEF Opening, Ready
<1>3. \A i \in 1..Len(en) : fn[i] = en[i]
  BY <1>2, LastScope, AppendIs
<1>4. Listed(es, fn, naps, rw, rc)
  <2>1. n \in Nat /\ rc[1].level <= n
    BY <1>1 DEF Tops
  <2>2. Keeps(ch[n], maps[n], es[n], naps[n], rc[1].all, rc[1].depth)
    <3>1. DOMAIN c.locals = 1..Len(c.locals) /\ Len(c.locals) \in Nat
      BY <1>1, CompIs
    <3> QED
      BY <3>1, <1>1 DEF Keeps, Settles
  <2>3. \A i \in 1..rc[1].env - 1 : fn[i] = en[i]
    <3>1. Len(en) \in Nat
      BY <1>2, LastScope
    <3> QED
      BY <3>1, <1>1, <1>3
  <2> QED
    BY <2>1, <2>2, <2>3, <1>1, RestTops
<1>5. Rested(es, fn, naps, rw, rc)
  BY <1>1, <1>4 DEF Rested
<1>6. w \in Item /\ w.k = "endScope"
  BY DoIs DEF Kinds
<1>7. /\ a \in Point /\ a.level \in Nat /\ a.depth \in Nat /\ a.env \in Nat /\ a.all \in Nat /\ q \in Point
      /\ a.env >= 1
  BY <1>1, Points
<1>8. Fits(w, q, rw[1], a)
  BY <1>1, <1>6, <1>7 DEF Fits
<1>9. Within(w, q, a)
  BY <1>1, <1>6, <1>7 DEF Within
<1>10. Here(c, maps[n], a, Stack(c, a)) /\ Named(ch, en, a)
  <2>1. Heads(ch, en, maps, wk, ctx) /\ Len(ch) = n
    BY <1>1, <1>2, GoodIs DEF Tops
  <2> QED
    BY <2>1, <1>1, <1>2 DEF Heads
<1>11. Holds(w, q, a, e, naps[n])
  <2>1. Limits(c)
    BY <1>1, <1>2 DEF Types, Tops
  <2>2. c.locals[Len(c.locals)].depth # -1
    BY <1>1, <1>10 DEF Here, Settled
  <2>3. DOMAIN c.locals = 1..Len(c.locals) /\ Len(c.locals) \in Nat
    BY <1>1, CompIs
  <2>4. \A l \in DOMAIN c.locals : c.locals[l].depth \in 0..c.scopeDepth
    BY <2>1, <2>2 DEF Limits
  <2>5. q.depth - 1 = c.scopeDepth
    BY <1>1, <1>7
  <2>6. \A l \in DOMAIN e.locals : l <= a.all <=> e.locals[l].depth \in 0..q.depth - 1
    BY <2>3, <2>4, <2>5, <1>1
  <2> QED
    BY <2>6, <1>6 DEF Holds
<1>12. Named(es, fn, a)
  <2>1. SameNames(ch, es, a.level, a.seen)
    <3>1. \A j \in 1..n : es[j].locals = ch[j].locals
      <4>1. \A j \in 1..n : j = n \/ j \in 1..n - 1
        BY <1>1, <1>7
      <4> QED
        BY <4>1, <1>1 DEF Tops
    <3> QED
      BY <3>1, <1>1 DEF SameNames
  <2>2. fn[a.env] = en[a.env]
    <3>1. a.env \in 1..Len(en)
      BY <1>1, <1>7
    <3> QED
      BY <3>1, <1>3
  <2> QED
    BY <2>1, <2>2, <1>7, <1>10, NamedStays
<1>13. Link(es, fn, naps, w, q, rw[1], a)
  BY <1>1, <1>6, <1>8, <1>9, <1>11, <1>12 DEF Link
<1>14. Holes(w) = {} /\ q.vars = q.seen
  BY <1>1, <1>6 DEF Holes, Settled
<1> QED
  BY <1>1, <1>5, <1>6, <1>13, <1>14 DEF Fresh

\* What the function that is compiled is then.
LEMMA ScopeGood ==
    ASSUME NEW ch, NEW wk, NEW ds, NEW en, NEW dc, NEW ctx, NEW maps, NEW n, NEW a, NEW q, NEW c,
           NEW e, NEW es, NEW fn, NEW naps, NEW rw, NEW rc,
           Opening(ch, wk, ds, en, dc, ctx, maps, n, a, q, c, e, es, fn, naps, rw, rc),
           NEW pw, NEW pc, Rested(es, fn, naps, pw, pc), pc[1] = q,
           \A k : Pending(pw, pc, k) = Pending(rw, rc, k)
    PROVE  Valid(es, pw, ds, fn, dc)
<1>1. /\ Tops(ch, maps, es, naps, n) /\ es[n] = e /\ naps[n] = maps[n] /\ ch[n] = c
      /\ c \in Comp /\ e \in Comp /\ e.locals = c.locals /\ e.f = c.f
      /\ c.scopeDepth \in Nat /\ e.scopeDepth = c.scopeDepth + 1
      /\ Settled(a) /\ Settled(q) /\ Sane(a) /\ Sane(q)
      /\ a.level = n /\ a.depth = c.scopeDepth /\ a.all = Len(c.locals) /\ a.env = Len(en)
      /\ q.level = n /\ q.depth = a.depth + 1 /\ q.env = a.env + 1 /\ q.all = a.all
      /\ q.seen = a.seen /\ q.vars = a.vars /\ q.height = a.height
      /\ \A k \in 1..n : Pending(wk, ctx, k) = Pending(rw, rc, k)
  BY OpeningIs
<1>2. Types(ch, wk, ds, en, dc) /\ Good(ch, wk, ds, en, dc, ctx, maps) /\ fn = Append(en, Last(en)) /\ a = ctx[1]
  BY DEF Opening, Ready
<1>3. /\ n \in Nat /\ n = Len(ch) /\ n >= 1 /\ ch \in Seq(Comp) /\ es \in Seq(Comp) /\ Len(es) = n
      /\ DOMAIN ch = 1..n /\ DOMAIN es = 1..n /\ DOMAIN naps = 1..n
      /\ \A k \in 1..n - 1 : es[k] = ch[k] /\ naps[k] = maps[k]
  BY <1>1 DEF Tops
<1>4. /\ fn \in Seq([Name -> 0..MaxDecl]) /\ Len(fn) = a.env + 1 /\ fn[a.env + 1] = en[a.env]
  <2>1. /\ en \in Seq([Name -> 0..MaxDecl]) /\ Last(en) = en[Len(en)] /\ Last(en) \in [Name -> 0..MaxDecl]
    BY <1>2, LastScope
  <2> QED
    BY <2>1, <1>1, <1>2, AppendIs
<1>5. Heads(ch, en, maps, wk, ctx) /\ Here(c, maps[n], a, Stack(c, a)) /\ Named(ch, en, a)
  <2>1. Heads(ch, en, maps, wk, ctx)
    BY <1>2, GoodIs
  <2> QED
    BY <2>1, <1>1, <1>2, <1>3 DEF Heads
<1>6. Here(e, maps[n], q, Stack(e, q))
  <2>1. Stack(e, q) = Stack(c, a)
    BY <1>1 DEF Stack, SlotsOf
  <2> QED
    BY <2>1, <1>1, <1>5 DEF Here, Settled
<1>7. Named(es, fn, q)
  <2>1. SameNames(ch, es, n, a.seen)
    <3>1. \A j \in 1..n : es[j].locals = ch[j].locals
      <4>1. \A j \in 1..n : j = n \/ j \in 1..n - 1
        BY <1>3
      <4> QED
        BY <4>1, <1>1, <1>3
    <3> QED
      BY <3>1 DEF SameNames
  <2>2. \A x \in Name : Binds(ch, n, a.seen, x, en[a.env][x])
    BY <1>1, <1>5 DEF Named
  <2>3. \A x \in Name : Binds(es, n, a.seen, x, en[a.env][x])
    BY <2>1, <2>2, <1>3, BindsStay
  <2> QED
    BY <2>3, <1>1, <1>4 DEF Named
<1>8. Heads(es, fn, naps, pw, pc)
  BY <1>1, <1>3, <1>4, <1>6, <1>7 DEF Heads, Rested
<1>9. Coded(es, ds, dc, naps, pw, pc)
  <2>1. Coded(ch, ds, dc, maps, wk, ctx)
    BY <1>2 DEF Good
  <2>2. Late(e, q) = Late(c, a)
    BY <1>1 DEF Late
  <2>3. n \in DOMAIN ch
    BY <1>3
  <2>4. Sound(ds, c.f, maps[n], Pending(wk, ctx, n), Late(c, a), dc) /\ Locals(c, dc)
    BY <2>1, <2>3, <1>1, <1>2, <1>3 DEF Coded
  <2>5. Pending(pw, pc, n) = Pending(wk, ctx, n)
    BY <1>1, <1>3
  <2>6. Sound(ds, es[n].f, naps[n], Pending(pw, pc, n), Late(es[n], pc[1]), dc)
    BY <2>2, <2>4, <2>5, <1>1
  <2>7. Locals(es[n], dc)
    BY <2>4, <1>1 DEF Locals
  <2>8. ds \in Seq(Function) /\ dc \in Nat /\ dc <= dc
    BY <1>2, GoodIs
  <2>9. \A k \in 1..n - 1 : Pending(pw, pc, k) = Pending(wk, ctx, k)
    BY <1>1, <1>3
  <2> QED
    BY <2>1, <2>6, <2>7, <2>8, <2>9, <1>1, CodedTops
<1>10. Tied(es, ds, dc)
  <2>1. Tied(ch, ds, dc)
    BY <1>2 DEF Good
  <2>2. Follows(ch[n].f, es[n].f)
    BY <1>1 DEF Follows
  <2> QED
    BY <2>1, <2>2, <1>1, <1>3, CodeTied
<1>11. Good(es, pw, ds, fn, dc, pc, naps)
  BY <1>3, <1>8, <1>9, <1>10 DEF Good, Rested
<1>12. \A k \in DOMAIN es : Limits(es[k])
  <2>1. \A k \in DOMAIN ch : Limits(ch[k])
    BY <1>2 DEF Types
  <2>2. Limits(e)
    <3>1. Limits(c)
      BY <2>1, <1>1, <1>3
    <3>2. \A d \in 0..c.scopeDepth : d \in 0..e.scopeDepth
      BY <1>1
    <3> QED
      BY <3>1, <3>2, <1>1 DEF Limits
  <2>3. \A k \in 1..n : k = n \/ k \in 1..n - 1
    BY <1>3
  <2> QED
    BY <2>1, <2>2, <2>3, <1>1, <1>3
<1>13. Types(es, pw, ds, fn, dc)
  BY <1>2, <1>3, <1>4, <1>12 DEF Types, Rested
<1> QED
  BY <1>11, <1>13 DEF Valid

LEMMA FlatPushed ==
    ASSUME NEW es, NEW fn, NEW naps, NEW pw, NEW pc, Rested(es, fn, naps, pw, pc),
           NEW w \in Item, Flat(w, pw[1]), NEW p, p = pc[1], Fine(es, p), Settled(p),
           NEW r, r = <<w>> \o pw, NEW q, q = <<p>> \o pc
    PROVE  FlatPush(es, fn, naps, pw, pc, w, r, q)
<1>1. Fresh(es, fn, naps, pw, pc, w, p) /\ Holes(w) = {} /\ w.k # "parameters"
  BY FlatFresh
<1>2. Pushes(es, fn, naps, pw, pc, w, p, r, q)
  BY <1>1, PushAny
<1>3. Rested(es, fn, naps, r, q)
  BY <1>1, <1>2, PushRests
<1>4. ASSUME NEW k PROVE Pending(r, q, k) = Pending(pw, pc, k)
  BY <1>1, <1>2 DEF Pushes
<1> QED
  BY <1>2, <1>3, <1>4 DEF FlatPush, Pushes

LEMMA ScopePushed ==
    ASSUME NEW ch, NEW wk, NEW ds, NEW en, NEW dc, NEW ctx, NEW maps, NEW n, NEW a, NEW q, NEW c,
           NEW e, NEW es, NEW fn, NEW naps, NEW rw, NEW rc,
           Opening(ch, wk, ds, en, dc, ctx, maps, n, a, q, c, e, es, fn, naps, rw, rc),
           NEW w, w = Do("endScope"), NEW r, r = <<w>> \o rw, NEW t, t = <<q>> \o rc
    PROVE  Scoped(es, fn, naps, rw, rc, w, q, r, t)
<1>1. Rested(es, fn, naps, rw, rc) /\ Fresh(es, fn, naps, rw, rc, w, q) /\ w \in Item
  BY ScopeEnds
<1>2. Pushes(es, fn, naps, rw, rc, w, q, r, t)
  BY <1>1, PushAny
<1>3. w.k = "endScope"
  BY DEF Do
<1>4. Rested(es, fn, naps, r, t)
  BY <1>2, <1>3, PushRests
<1>5. Holes(w) = {}
  BY <1>3 DEF Holes
<1>6. ASSUME NEW k PROVE Pending(r, t, k) = Pending(rw, rc, k)
  BY <1>5, <1>2 DEF Pushes
<1>7. Fine(es, q) /\ Settled(q)
  BY OpeningIs
<1> QED
  BY <1>2, <1>4, <1>6, <1>7 DEF Pushes, Scoped

LEMMA BlockStep ==
    ASSUME NEW ch, NEW wk, NEW ds, NEW en, NEW dc, NEW ctx, NEW maps, NEW n, NEW a, NEW q, NEW c,
           NEW e, NEW es, NEW fn, NEW naps, NEW rw, NEW rc,
           Opening(ch, wk, ds, en, dc, ctx, maps, n, a, q, c, e, es, fn, naps, rw, rc)
    PROVE  Valid(es, <<Do("declarations")>> \o (<<Do("endScope")>> \o rw), ds, fn, dc)
<1> DEFINE w == Do("endScope")
           r == <<w>> \o rw
           t == <<q>> \o rc
           v == Do("declarations")
           r2 == <<v>> \o r
           t2 == <<q>> \o t
<1>1. w.k = "endScope" /\ v.k = "declarations" /\ v \in Item
  BY DoIs DEF Kinds
<1> HIDE DEF w, v
<1>2. /\ Rested(es, fn, naps, r, t) /\ r[1] = w /\ t[1] = q /\ Fine(es, q) /\ Settled(q)
      /\ \A k : Pending(r, t, k) = Pending(rw, rc, k)
  <2>1. w = Do("endScope") /\ r = <<w>> \o rw /\ t = <<q>> \o rc
    BY DEF w
  <2> HIDE DEF r, t
  <2>2. Scoped(es, fn, naps, rw, rc, w, q, r, t)
    BY <2>1, ScopePushed
  <2> QED
    BY <2>2 DEF Scoped
<1> HIDE DEF r, t
<1>3. Flat(v, r[1])
  BY <1>1, <1>2 DEF Flat, Ends
<1>4. FlatPush(es, fn, naps, r, t, v, r2, t2)
  BY <1>1, <1>2, <1>3, FlatPushed
<1> HIDE DEF r2, t2
<1>5. Rested(es, fn, naps, r2, t2) /\ t2[1] = q
  BY <1>2, <1>4 DEF FlatPush
<1>6. \A k : Pending(r2, t2, k) = Pending(rw, rc, k)
  BY <1>2, <1>4 DEF FlatPush
<1>7. Valid(es, r2, ds, fn, dc)
  BY <1>5, <1>6, ScopeGood
<1> QED
  BY <1>7 DEF r2, r, v, w

LEMMA ForStep ==
    ASSUME NEW ch, NEW wk, NEW ds, NEW en, NEW dc, NEW ctx, NEW maps, NEW n, NEW a, NEW q, NEW c,
           NEW e, NEW es, NEW fn, NEW naps, NEW rw, NEW rc,
           Opening(ch, wk, ds, en, dc, ctx, maps, n, a, q, c, e, es, fn, naps, rw, rc)
    PROVE  Valid(es, <<Do("initializer")>> \o (<<Do("for")>> \o (<<Do("endScope")>> \o rw)), ds, fn, dc)
<1> DEFINE w == Do("endScope")
           r == <<w>> \o rw
           t == <<q>> \o rc
           v == Do("for")
           r2 == <<v>> \o r
           t2 == <<q>> \o t
           u == Do("initializer")
           r3 == <<u>> \o r2
           t3 == <<q>> \o t2
<1>1. w.k = "endScope" /\ v.k = "for" /\ v \in Item /\ u.k = "initializer" /\ u \in Item
  BY DoIs DEF Kinds
<1> HIDE DEF w, v, u
<1>2. /\ Rested(es, fn, naps, r, t) /\ r[1] = w /\ t[1] = q /\ Fine(es, q) /\ Settled(q)
      /\ \A k : Pending(r, t, k) = Pending(rw, rc, k)
  <2>1. w = Do("endScope") /\ r = <<w>> \o rw /\ t = <<q>> \o rc
    BY DEF w
  <2> HIDE DEF r, t
  <2>2. Scoped(es, fn, naps, rw, rc, w, q, r, t)
    BY <2>1, ScopePushed
  <2> QED
    BY <2>2 DEF Scoped
<1> HIDE DEF r, t
<1>3. Flat(v, r[1])
  BY <1>1, <1>2 DEF Flat
<1>4. FlatPush(es, fn, naps, r, t, v, r2, t2)
  BY <1>1, <1>2, <1>3, FlatPushed
<1> HIDE DEF r2, t2
<1>5. Rested(es, fn, naps, r2, t2) /\ t2[1] = q /\ r2[1] = v
  BY <1>2, <1>4 DEF FlatPush
<1>6. Flat(u, r2[1])
  BY <1>1, <1>5 DEF Flat
<1>7. FlatPush(es, fn, naps, r2, t2, u, r3, t3)
  BY <1>1, <1>2, <1>5, <1>6, FlatPushed
<1> HIDE DEF r3, t3
<1>8. Rested(es, fn, naps, r3, t3) /\ t3[1] = q
  BY <1>5, <1>7 DEF FlatPush
<1>9. \A k : Pending(r3, t3, k) = Pending(rw, rc, k)
  BY <1>2, <1>4, <1>7 DEF FlatPush
<1>10. Valid(es, r3, ds, fn, dc)
  BY <1>8, <1>9, ScopeGood
<1> QED
  BY <1>10 DEF r3, r2, r, u, v, w

-----------------------------------------------------------------------------
(* Scopes that end.                                                        *)

LEMMA KeptIs ==
    ASSUME NEW c \in Comp, NEW k, Keeping(c, k)
    PROVE  Kept(c) = k
<1>1. /\ Len(c.locals) \in Nat /\ DOMAIN c.locals = 1..Len(c.locals) /\ c.scopeDepth \in Nat
      /\ k \in 1..Len(c.locals)
  BY CompIs DEF Keeping
<1>2. \A l \in 1..Len(c.locals) : /\ l <= k <=> c.locals[l].depth < c.scopeDepth
                                  /\ c.locals[l].depth \in Int
  BY <1>1 DEF Keeping
<1> DEFINE Fit(n) == /\ n > 0 => c.locals[n].depth < c.scopeDepth
                     /\ \A i \in n + 1..Len(c.locals) : c.locals[i].depth >= c.scopeDepth
<1>3. k \in 0..Len(c.locals) /\ Fit(k)
  BY <1>1, <1>2
<1>4. ASSUME NEW n \in 0..Len(c.locals), Fit(n)  PROVE n = k
  <2>1. CASE n < k
    <3>1. k \in n + 1..Len(c.locals)
      BY <2>1, <1>1
    <3>2. c.locals[k].depth >= c.scopeDepth
      BY <3>1, <1>4
    <3> QED
      BY <3>2, <1>1, <1>2
  <2>2. CASE n > k
    <3>1. n > 0 /\ n \in 1..Len(c.locals)
      BY <2>2, <1>1
    <3>2. c.locals[n].depth < c.scopeDepth
      BY <3>1, <1>4
    <3> QED
      BY <3>1, <3>2, <2>2, <1>1, <1>2
  <2> QED
    BY <2>1, <2>2, <1>1
<1> HIDE DEF Fit
<1>5. Kept(c) = CHOOSE n \in 0..Len(c.locals) : Fit(n)
  BY DEF Kept, Fit
<1> QED
  BY <1>3, <1>4, <1>5

LEMMA EndingIs ==
    ASSUME NEW l
    PROVE  /\ Ending(l) \in Bytes
           /\ Ending(l).op = IF l.captured THEN "CLOSE_UPVALUE" ELSE "POP"
<1>1. Ending(l) = Op(IF l.captured THEN "CLOSE_UPVALUE" ELSE "POP")
  BY DEF Ending
<1>2. Global \in 0..Itself
  BY CompilerConstants DEF Global, Itself
<1> QED
  BY <1>1, <1>2 DEF Op, Bytes, Instructions

LEMMA EndedIs ==
    ASSUME NEW c \in Comp, NEW k, Keeping(c, k), NEW n, n = Len(c.locals) - k,
           \A l \in 2..Len(c.locals) : c.locals[l].decl \in 1..MaxDecl,
           NEW e, e = EndScope(c)
    PROVE  Ended(c, k, n, e)
<1>1. /\ c.locals \in Seq(Local) /\ Len(c.locals) \in Nat /\ DOMAIN c.locals = 1..Len(c.locals)
      /\ c.scopeDepth \in Nat /\ c.f \in Function /\ k \in 1..Len(c.locals) /\ Kept(c) = k
      /\ c.scopeDepth >= 1 /\ k \in Nat
  BY CompIs, KeptIs DEF Keeping
<1>2. n \in Nat /\ n = Len(c.locals) - Kept(c) /\ n <= Len(c.locals)
  BY <1>1
<1> DEFINE dead == [i \in 1..Len(c.locals) - Kept(c) |-> c.locals[Len(c.locals) + 1 - i]]
           t == [i \in DOMAIN dead |-> Ending(dead[i])]
           ends == { [decl |-> dead[i].decl, at |-> Position(c) + i - 1] : i \in DOMAIN dead }
           L == Position(c)
           d == Emit(c, t)
           f == [d.f EXCEPT !.gone = @ \cup ends]
           z == [locals |-> SubSeq(c.locals, 1, k), scopeDepth |-> c.scopeDepth - 1,
                 error |-> c.error, f |-> f]
<1>3. EndScope(c) = [d EXCEPT !.locals = SubSeq(@, 1, Kept(c)), !.scopeDepth = @ - 1, !.f.gone = @ \cup ends]
  BY DEF EndScope
<1>4. DOMAIN dead = 1..n /\ \A i \in 1..n : dead[i] = c.locals[Len(c.locals) + 1 - i]
  BY <1>2
<1> HIDE DEF dead
<1>5. t \in Seq(Bytes) /\ Len(t) = n /\ \A i \in 1..n : t[i] = Ending(dead[i])
  <2>1. \A i \in 1..n : Ending(dead[i]) \in Bytes
    BY EndingIs
  <2>2. t = [i \in 1..n |-> Ending(dead[i])]
    BY <1>4
  <2> HIDE DEF t
  <2> QED
    BY <2>1, <2>2, <1>2
<1> HIDE DEF t
<1>6. L = Len(c.f.code) /\ L \in Nat
  BY <1>1, CodeBytes DEF Position
<1>7. ends \subseteq Mark
  <2> SUFFICES ASSUME NEW i \in 1..n  PROVE [decl |-> dead[i].decl, at |-> L + i - 1] \in Mark
    BY <1>4
  <2>1. Len(c.locals) + 1 - i \in 2..Len(c.locals)
    BY <1>1, <1>2
  <2>2. dead[i].decl \in 1..MaxDecl
    BY <2>1, <1>4
  <2>3. L + i - 1 \in Nat
    BY <1>6
  <2> QED
    BY <2>2, <2>3 DEF Mark
<1>8. /\ d.f = Emitted(c.f, t) /\ d.locals = c.locals /\ d.scopeDepth = c.scopeDepth
      /\ d.error = c.error /\ d = [locals |-> c.locals, scopeDepth |-> c.scopeDepth,
                                   error |-> c.error, f |-> Emitted(c.f, t)]
  <2>1. d = [c EXCEPT !.f = Emitted(c.f, t)]
    BY DEF Emit, Emitted
  <2>2. c \in [locals : Seq(Local), scopeDepth : Nat, error : BOOLEAN, f : Function]
    BY DEF Comp
  <2> HIDE DEF d
  <2> QED
    BY <2>1, <2>2
<1>9. /\ d.f \in Function /\ d.f.code = c.f.code \o t
      /\ d.f.constants = c.f.constants /\ d.f.upvalues = c.f.upvalues
      /\ d.f.params = c.f.params /\ d.f.born = c.f.born
      /\ d.f.gone = c.f.gone /\ d.f.land = c.f.land
      /\ Len(d.f.code) = L + n
      /\ \A i \in 1..L : d.f.code[i] = c.f.code[i]
      /\ \A i \in 1..n : d.f.code[L + i] = t[i]
  <2> DEFINE g == Emitted(c.f, t)
  <2>1. /\ g \in Function /\ g.code = c.f.code \o t
        /\ g.constants = c.f.constants /\ g.upvalues = c.f.upvalues
        /\ g.params = c.f.params /\ g.born = c.f.born
        /\ g.gone = c.f.gone /\ g.land = c.f.land
        /\ Len(g.code) = Len(c.f.code) + Len(t)
        /\ \A i \in 1..Len(c.f.code) : g.code[i] = c.f.code[i]
        /\ \A i \in 1..Len(t) : g.code[Len(c.f.code) + i] = t[i]
    BY <1>1, <1>5, EmittedCode
  <2> HIDE DEF g, L, d
  <2>2. d.f = g
    BY <1>8 DEF g
  <2>3. Len(g.code) = L + n
    BY <2>1, <1>5, <1>6
  <2>4. \A i \in 1..L : g.code[i] = c.f.code[i]
    BY <2>1, <1>6
  <2>5. ASSUME NEW i \in 1..n  PROVE g.code[L + i] = t[i]
    <3>1. i \in 1..Len(t)
      BY <1>5
    <3>2. g.code[Len(c.f.code) + i] = t[i]
      BY <2>1, <3>1
    <3> QED
      BY <3>2, <1>6
  <2> QED
    BY <2>1, <2>2, <2>3, <2>4, <2>5
<1> HIDE DEF ends, L
<1>10. EndScope(c) = z
  <2> HIDE DEF d
  <2> DEFINE x == [d EXCEPT !.locals = SubSeq(d.locals, 1, Kept(c)), !.scopeDepth = d.scopeDepth - 1,
                            !.f = [d.f EXCEPT !.gone = d.f.gone \cup ends]]
  <2>1. x = z
    <3>1. x = [d EXCEPT !.locals = SubSeq(d.locals, 1, Kept(c)), !.scopeDepth = d.scopeDepth - 1, !.f = f]
      BY DEF f
    <3> HIDE DEF f, x
    <3>2. d.locals = c.locals /\ d.scopeDepth = c.scopeDepth /\ Kept(c) = k
      BY <1>1, <1>8
    <3>3. x = [d EXCEPT !.locals = SubSeq(c.locals, 1, k), !.scopeDepth = c.scopeDepth - 1, !.f = f]
      BY <3>1, <3>2
    <3> QED
      BY <3>3, <1>8
  <2>2. EndScope(c) = x
    BY <1>3
  <2> QED
    BY <2>1, <2>2
<1> HIDE DEF d
<1>11. /\ f \in Function /\ f.code = d.f.code /\ f.constants = c.f.constants
       /\ f.upvalues = c.f.upvalues /\ f.params = c.f.params /\ f.born = c.f.born
       /\ f.land = c.f.land /\ f.gone = c.f.gone \cup ends
  <2>1. d.f.gone \cup ends \in SUBSET Mark
    BY <1>7, <1>9 DEF Function
  <2> QED
    BY <2>1, <1>9 DEF Function
<1> HIDE DEF f
<1>12. /\ SubSeq(c.locals, 1, k) \in Seq(Local) /\ Len(SubSeq(c.locals, 1, k)) = k
       /\ \A l \in 1..k : SubSeq(c.locals, 1, k)[l] = c.locals[l]
  BY <1>1
<1>13. c.scopeDepth - 1 \in Nat /\ c.error \in BOOLEAN
  BY <1>1, CompIs
<1>14. /\ z \in Comp /\ z.locals = SubSeq(c.locals, 1, k) /\ z.scopeDepth = c.scopeDepth - 1
       /\ z.error = c.error /\ z.f = f
  BY <1>11, <1>12, <1>13 DEF Comp
<1> HIDE DEF z
<1>15. e = z
  BY <1>10
<1>16. DOMAIN e.locals = 1..k /\ Len(e.locals) = k /\ \A l \in 1..k : e.locals[l] = c.locals[l]
  BY <1>1, <1>12, <1>14, <1>15
<1>17. ASSUME NEW i \in 1..n  PROVE e.f.code[L + i] = Ending(c.locals[Len(c.locals) + 1 - i])
  <2>1. e.f.code = d.f.code
    BY <1>11, <1>14, <1>15
  <2>2. d.f.code[L + i] = Ending(dead[i])
    BY <1>5, <1>9
  <2>3. dead[i] = c.locals[Len(c.locals) + 1 - i]
    BY <1>4
  <2> QED
    BY <2>1, <2>2, <2>3
<1>19. /\ Len(e.f.code) = L + n /\ \A i \in 1..L : e.f.code[i] = c.f.code[i]
  <2>1. e.f.code = d.f.code
    BY <1>11, <1>14, <1>15
  <2> QED
    BY <2>1, <1>9
<1>20. /\ e \in Comp /\ e.scopeDepth = c.scopeDepth - 1 /\ e.error = c.error
       /\ e.f.constants = c.f.constants /\ e.f.upvalues = c.f.upvalues
       /\ e.f.params = c.f.params /\ e.f.born = c.f.born /\ e.f.land = c.f.land
       /\ c.f.gone \subseteq e.f.gone
  BY <1>11, <1>14, <1>15
<1>18. \A m \in e.f.gone : m \in c.f.gone \/ \E i \in 1..n :
               m.decl = c.locals[Len(c.locals) + 1 - i].decl /\ m.at = L + i - 1
  <2> SUFFICES ASSUME NEW m \in e.f.gone, m \notin c.f.gone
               PROVE  \E i \in 1..n : m.decl = c.locals[Len(c.locals) + 1 - i].decl /\ m.at = L + i - 1
    OBVIOUS
  <2>1. m \in ends
    BY <1>11, <1>14, <1>15
  <2>2. PICK i \in DOMAIN dead : m = [decl |-> dead[i].decl, at |-> L + i - 1]
    BY <2>1 DEF ends, L
  <2>3. m.decl = dead[i].decl /\ m.at = L + i - 1 /\ i \in 1..n
    BY <2>2, <1>4
  <2> QED
    BY <2>3, <1>4
<1> QED
  BY <1>2, <1>6, <1>16, <1>17, <1>18, <1>19, <1>20 DEF Ended

LEMMA SlotsAre ==
    ASSUME NEW c \in Comp, NEW dc \in Nat, dc <= MaxDecl, Locals(c, dc), NEW h \in 0..Len(c.locals)
    PROVE  [height |-> h, slot |-> SlotsOf(c, h)] \in Frame
<1>1. Len(c.locals) \in Nat /\ DOMAIN c.locals = 1..Len(c.locals)
  BY CompIs
<1>2. ASSUME NEW i \in Slot, i <= h  PROVE c.locals[i].decl \in 0..MaxDecl
  <2>1. i = 1 \/ i \in 2..Len(c.locals)
    BY <1>1, <1>2, CompilerConstants DEF Slot
  <2> QED
    BY <2>1, CompilerConstants DEF Locals, Global
<1>3. SlotsOf(c, h) \in [Slot -> 0..MaxDecl]
  BY <1>2, CompilerConstants DEF SlotsOf, Global
<1>4. h \in Nat
  BY <1>1
<1> QED
  BY <1>3, <1>4 DEF Frame

\* The end of the code of e.
LEMMA ShrinksTo ==
    ASSUME NEW ds, NEW dc, NEW c, NEW M, NEW P, NEW k, NEW n, NEW e, NEW N,
           NEW L, NEW h, MayEnd(ds, dc, c, M, P, k, n, e, N, L, h)
    PROVE  /\ L \in Nat /\ n \in Nat /\ h \in Nat /\ k \in 1..h /\ n = h - k /\ Len(e.f.code) = L + n
           /\ c.f \in Function /\ e.f \in Function /\ DOMAIN N = 0..L + n
           /\ \A q \in 0..L : N[q] = M[q]
           /\ \A i \in 0..n : N[L + i] = [height |-> h - i, slot |-> SlotsOf(c, h - i)]
           /\ \A i \in 0..n : h - i \in 0..h /\ N[L + i] \in Frame
           /\ \A i \in 1..n : e.f.code[L + i] = Ending(c.locals[h + 1 - i]) /\ h + 1 - i \in 2..h
<1>0. c \in Comp /\ Keeping(c, k) /\ Ended(c, k, n, e) /\ L = Len(c.f.code) /\ h = Len(c.locals)
  BY DEF MayEnd
<1>1. /\ L \in Nat /\ n \in Nat /\ h \in Nat /\ k \in 1..h /\ n = h - k
  BY <1>0, CompIs DEF Ended, Keeping
<1>8. Len(e.f.code) = L + n /\ c.f \in Function /\ e.f \in Function
  BY <1>0, CompIs DEF Ended
<1>9. \A i \in 1..n : e.f.code[L + i] = Ending(c.locals[h + 1 - i])
  BY <1>0 DEF Ended
<1>2. N = Shrinks(c, M, e)
  BY DEF MayEnd
<1>3. DOMAIN N = 0..L + n
  BY <1>0, <1>1, <1>2, <1>8 DEF Shrinks
<1>4. ASSUME NEW q \in 0..L  PROVE N[q] = M[q]
  <2>1. q \in 0..L + n /\ q <= L
    BY <1>1
  <2> QED
    BY <2>1, <1>0, <1>1, <1>2, <1>8 DEF Shrinks
<1>5. ASSUME NEW i \in 0..n  PROVE N[L + i] = [height |-> h - i, slot |-> SlotsOf(c, h - i)]
  <2>1. CASE i = 0
    <3>1. L + i = L /\ h - i = h /\ L \in 0..L
      BY <2>1, <1>1
    <3>2. N[L] = M[L]
      BY <3>1, <1>4
    <3>3. M[L] = [height |-> h, slot |-> SlotsOf(c, h)]
      BY <1>0 DEF MayEnd
    <3> QED
      BY <3>1, <3>2, <3>3
  <2>2. CASE i # 0
    <3> DEFINE q == L + i
    <3>1. q \in 0..L + n /\ ~ (q <= L) /\ q - L = i
      BY <2>2, <1>1
    <3> HIDE DEF q
    <3>2. N[q] = [height |-> h - (q - L), slot |-> SlotsOf(c, h - (q - L))]
      BY <3>1, <1>0, <1>1, <1>2, <1>8 DEF Shrinks
    <3>3. N[q] = [height |-> h - i, slot |-> SlotsOf(c, h - i)]
      BY <3>1, <3>2
    <3> QED
      BY <3>3 DEF q
  <2> QED
    BY <2>1, <2>2
<1>6. ASSUME NEW i \in 0..n  PROVE h - i \in 0..h /\ N[L + i] \in Frame
  <2>1. h - i \in 0..h
    BY <1>1
  <2>2. c \in Comp /\ dc \in Nat /\ dc <= MaxDecl /\ Locals(c, dc)
    BY DEF MayEnd
  <2>3. [height |-> h - i, slot |-> SlotsOf(c, h - i)] \in Frame
    <3> DEFINE j == h - i
    <3>1. j \in 0..Len(c.locals)
      BY <2>1, <1>0
    <3> HIDE DEF j
    <3>2. [height |-> j, slot |-> SlotsOf(c, j)] \in Frame
      BY <3>1, <2>2, SlotsAre
    <3> QED
      BY <3>2 DEF j
  <2> QED
    BY <2>1, <2>3, <1>5
<1>7. \A i \in 1..n : h + 1 - i \in 2..h
  BY <1>1
<1> QED
  BY <1>1, <1>3, <1>4, <1>5, <1>6, <1>7, <1>8, <1>9

\* Where the instructions of e begin.
LEMMA ShrinksStarts ==
    ASSUME NEW ds, NEW dc, NEW c, NEW M, NEW P, NEW k, NEW n, NEW e, NEW N,
           NEW L, NEW h, MayEnd(ds, dc, c, M, P, k, n, e, N, L, h)
    PROVE  /\ Starts(e.f) = Starts(c.f) \cup L..L + n - 1
           /\ Spots(e.f) = Spots(c.f) \cup L..L + n
           /\ \A i \in 0..n - 1 : /\ L + i \in Starts(e.f) /\ L + i \notin Starts(c.f)
                                  /\ Operation(e.f, L + i) \in {"POP", "CLOSE_UPVALUE"}
                                  /\ Operation(e.f, L + i) = Ending(c.locals[h - i]).op
<1>0. h = Len(c.locals) /\ L = Len(c.f.code)
  BY DEF MayEnd
<1>11. /\ L \in Nat /\ n \in Nat /\ h \in Nat /\ Len(e.f.code) = L + n
       /\ \A i \in 1..n : e.f.code[L + i] = Ending(c.locals[h + 1 - i])
  BY ShrinksTo
<1>1. L \in Nat /\ n \in Nat /\ h \in Nat
  BY <1>11
<1>2. \A i \in 1..L : e.f.code[i] = c.f.code[i]
  BY <1>0 DEF MayEnd, Ended
<1>3. ASSUME NEW i \in 0..n - 1
      PROVE  /\ Operation(e.f, L + i) = Ending(c.locals[h - i]).op
             /\ Operation(e.f, L + i) \in {"POP", "CLOSE_UPVALUE"}
             /\ e.f.code[L + i + 1].op # "operand"
  <2> DEFINE j == i + 1
  <2>1. j \in 1..n /\ L + j = L + i + 1 /\ h + 1 - j = h - i
    BY <1>1
  <2>2. e.f.code[L + j] = Ending(c.locals[h + 1 - j])
    BY <2>1, <1>11
  <2> HIDE DEF j
  <2>3. e.f.code[L + i + 1] = Ending(c.locals[h - i])
    BY <2>1, <2>2
  <2>4. Operation(e.f, L + i) = e.f.code[L + i + 1].op
    BY DEF Operation, Instruction
  <2>5. Ending(c.locals[h - i]).op \in {"POP", "CLOSE_UPVALUE"}
    BY EndingIs
  <2> QED
    BY <2>3, <2>4, <2>5
<1>4. ASSUME NEW p \in 0..L - 1  PROVE p \in Starts(e.f) <=> p \in Starts(c.f)
  <2>1. p + 1 \in 1..L /\ p \in 0..L + n - 1
    BY <1>1
  <2> QED
    BY <2>1, <1>0, <1>1, <1>2, <1>11 DEF Starts
<1>5. ASSUME NEW p \in L..L + n - 1  PROVE p \in Starts(e.f)
  <2> DEFINE i == p - L
  <2>1. i \in 0..n - 1 /\ p = L + i /\ p \in 0..L + n - 1
    BY <1>1
  <2> HIDE DEF i
  <2>2. e.f.code[p + 1].op # "operand"
    BY <2>1, <1>3
  <2> QED
    BY <2>1, <2>2, <1>11 DEF Starts
<1>6. Starts(c.f) \subseteq 0..L - 1 /\ Starts(e.f) \subseteq 0..L + n - 1
  BY <1>0, <1>11 DEF Starts
<1>7. \A p \in 0..L + n - 1 : p \in 0..L - 1 \/ p \in L..L + n - 1
  BY <1>1
<1>8. Starts(e.f) = Starts(c.f) \cup L..L + n - 1
  BY <1>4, <1>5, <1>6, <1>7
<1>9. Spots(e.f) = Spots(c.f) \cup L..L + n
  <2>1. Spots(e.f) = Starts(e.f) \cup {L + n} /\ Spots(c.f) = Starts(c.f) \cup {L}
    BY <1>0, <1>11 DEF Spots
  <2>2. (L..L + n - 1) \cup {L + n} = {L} \cup L..L + n
    BY <1>1
  <2> QED
    BY <2>1, <2>2, <1>8
<1>10. ASSUME NEW i \in 0..n - 1  PROVE L + i \in Starts(e.f) /\ L + i \notin Starts(c.f)
  <2>1. L + i \in L..L + n - 1 /\ L + i \notin 0..L - 1
    BY <1>1
  <2> QED
    BY <2>1, <1>6, <1>8
<1> QED
  BY <1>0, <1>3, <1>8, <1>9, <1>10

\* The instructions of e that are new take one local each.
LEMMA ShrinksRun ==
    ASSUME NEW ds, NEW dc, NEW c, NEW M, NEW P, NEW k, NEW n, NEW e, NEW N, NEW L, NEW h,
           MayEnd(ds, dc, c, M, P, k, n, e, N, L, h), NEW i \in 0..n - 1, NEW p, p = L + i
    PROVE  Runs(ds, e.f, N, P, p) /\ MeantAt(ds, e.f, N, Global, p)
<1>1. /\ L \in Nat /\ n \in Nat /\ h \in Nat /\ k \in 1..h /\ n = h - k
  BY ShrinksTo
<1>2. /\ e.f \in Function /\ \A j \in 0..n : N[L + j] = [height |-> h - j, slot |-> SlotsOf(c, h - j)]
  BY ShrinksTo
<1>3. /\ p \in Starts(e.f) /\ Operation(e.f, p) \in {"POP", "CLOSE_UPVALUE"}
      /\ Spots(e.f) = Spots(c.f) \cup L..L + n
  BY ShrinksStarts
<1>4. Width(ds, e.f, p) = 1
  BY <1>2, <1>3, WidthIs
<1>5. Takes(e.f, p) = 1 /\ Puts(e.f, p) = 0
  BY <1>3 DEF Takes, Puts
<1>6. /\ i \in 0..n /\ i + 1 \in 0..n /\ p + 1 = L + (i + 1) /\ p + 1 \in L..L + n
      /\ h - (i + 1) = h - i - 1 /\ h - i \in Nat /\ h - i - 1 \in Nat /\ h - i > k /\ i \in Nat
  BY <1>1
<1>7. N[p] = [height |-> h - i, slot |-> SlotsOf(c, h - i)]
  BY <1>2, <1>6
<1>8. N[p + 1] = [height |-> h - i - 1, slot |-> SlotsOf(c, h - i - 1)]
  <2>1. N[L + (i + 1)] = [height |-> h - (i + 1), slot |-> SlotsOf(c, h - (i + 1))]
    BY <1>2, <1>6
  <2> QED
    BY <2>1, <1>6
<1>9. After(e.f, N, p) = N[p + 1]
  <2> DEFINE m == N[p].height - Takes(e.f, p)
  <2>1. m = h - i - 1 /\ m + Puts(e.f, p) = h - i - 1
    BY <1>5, <1>6, <1>7
  <2>2. After(e.f, N, p) = [height |-> m + Puts(e.f, p),
                            slot |-> [j \in Slot |-> IF j <= m THEN N[p].slot[j] ELSE Global]]
    BY DEF After
  <2> HIDE DEF m
  <2>3. [j \in Slot |-> IF j <= m THEN N[p].slot[j] ELSE Global] = SlotsOf(c, h - i - 1)
    <3>1. ASSUME NEW j \in Slot
          PROVE  (IF j <= m THEN N[p].slot[j] ELSE Global) = IF j <= h - i - 1 THEN c.locals[j].decl ELSE Global
      <4>1. j \in Nat
        BY CompilerConstants DEF Slot
      <4>2. N[p].slot[j] = IF j <= h - i THEN c.locals[j].decl ELSE Global
        BY <1>7 DEF SlotsOf
      <4>3. j <= h - i - 1 => j <= h - i
        BY <4>1, <1>6
      <4> QED
        BY <4>2, <4>3, <2>1
    <3> QED
      BY <3>1 DEF SlotsOf
  <2> QED
    BY <2>1, <2>2, <2>3, <1>8
<1>10. Flow(e.f, N, After(e.f, N, p), p + 1)
  BY <1>3, <1>6, <1>9 DEF Flow
<1>11. N[p].height > Len(e.f.params) + Takes(e.f, p)
  <2>1. e.f.params = c.f.params /\ k > Len(c.f.params) /\ c.f \in Function
    <3>1. k > Len(c.f.params) /\ Ended(c, k, n, e)
      BY DEF MayEnd
    <3> QED
      BY <3>1, ShrinksTo DEF Ended
  <2>2. Len(c.f.params) \in Nat
    BY <2>1, CodeBytes
  <2>3. k \in Nat
    BY <1>1
  <2>4. h - i > Len(c.f.params) + 1
    BY <2>1, <2>2, <2>3, <1>6
  <2> QED
    BY <2>1, <2>4, <1>5, <1>7
<1>12. p + Width(ds, e.f, p) \in Spots(e.f)
  BY <1>3, <1>4, <1>6
<1>13. \A j \in 1..Width(ds, e.f, p) - 1 : e.f.code[p + 1 + j].op = "operand"
  BY <1>4
<1>14. Operation(e.f, p) \notin Leaps /\ Operation(e.f, p) # "CLOSURE"
  BY <1>3 DEF Leaps
<1>15. Runs(ds, e.f, N, P, p)
  BY <1>4, <1>10, <1>11, <1>12, <1>13, <1>14 DEF Runs
<1>16. MeantAt(ds, e.f, N, Global, p)
  BY <1>3 DEF MeantAt
<1> QED
  BY <1>15, <1>16

\* The locals that are left are where they were.
LEMMA ShrinksSources ==
    ASSUME NEW ds, NEW dc, NEW c, NEW M, NEW P, NEW k, NEW n, NEW e, NEW N, NEW L, NEW h,
           MayEnd(ds, dc, c, M, P, k, n, e, N, L, h), NEW i \in 0..n
    PROVE  Sources(c.f, M, N[L + i])
<1>1. /\ L \in Nat /\ n \in Nat /\ h \in Nat /\ h - i \in 0..h
      /\ N[L + i] = [height |-> h - i, slot |-> SlotsOf(c, h - i)]
  BY ShrinksTo
<1>2. M[L] = [height |-> h, slot |-> SlotsOf(c, h)] /\ L = Len(c.f.code) /\ Vars(c.f, M, dc)
  BY DEF MayEnd, Sound
<1>3. ASSUME NEW j \in Slot, N[L + i].slot[j] # Global
      PROVE  j <= N[L + i].height /\ Origin(c.f, M, j, N[L + i].slot[j])
  <2>1. j \in Nat
    BY CompilerConstants DEF Slot
  <2>2. N[L + i].slot[j] = IF j <= h - i THEN c.locals[j].decl ELSE Global
    BY <1>1 DEF SlotsOf
  <2>3. j <= h - i /\ N[L + i].slot[j] = c.locals[j].decl
    BY <2>2, <1>3
  <2>4. j <= h
    BY <2>1, <2>3, <1>1
  <2>5. M[L].slot[j] = c.locals[j].decl
    BY <2>4, <1>2 DEF SlotsOf
  <2>6. L \in Spots(c.f)
    BY <1>2 DEF Spots
  <2>7. Origin(c.f, M, j, M[L].slot[j])
    BY <2>3, <2>5, <2>6, <1>2, <1>3 DEF Vars
  <2> QED
    BY <2>3, <2>5, <2>7, <1>1
<1> QED
  BY <1>3 DEF Sources

\* The variables that go.
LEMMA ShrinksDied ==
    ASSUME NEW ds, NEW dc, NEW c, NEW M, NEW P, NEW k, NEW n, NEW e, NEW N, NEW L, NEW h,
           MayEnd(ds, dc, c, M, P, k, n, e, N, L, h), NEW m, NEW i \in 1..n,
           m.decl = c.locals[h + 1 - i].decl, m.at = L + i - 1
    PROVE  Died(e.f, N, dc, m)
<1>1. /\ L \in Nat /\ n \in Nat /\ h \in Nat /\ k \in 1..h /\ n = h - k
  BY ShrinksTo
<1>2. \A j \in 0..n : N[L + j] = [height |-> h - j, slot |-> SlotsOf(c, h - j)]
  BY ShrinksTo
<1> DEFINE j == i - 1
<1>3. /\ j \in 0..n - 1 /\ j \in 0..n /\ L + i - 1 = L + j /\ h + 1 - i = h - j /\ h - j \in 2..h
      /\ h - j \in Nat
  BY <1>1
<1> HIDE DEF j
<1>4. m.at = L + j /\ m.decl = c.locals[h - j].decl
  BY <1>3
<1>5. m.at \in Starts(e.f)
  BY <1>3, <1>4, ShrinksStarts
<1>6. N[m.at] = [height |-> h - j, slot |-> SlotsOf(c, h - j)]
  BY <1>2, <1>3, <1>4
<1>7. Locals(c, dc) /\ h = Len(c.locals) /\ h <= Count
  BY DEF MayEnd
<1>8. m.decl \in 1..dc
  BY <1>3, <1>4, <1>7 DEF Locals
<1>9. h - j \in Slot
  <2>1. h <= Count /\ Count \in Nat
    BY <1>7, CompilerConstants
  <2> HIDE DEF Slot
  <2>2. h - j \in 1..Count
    BY <2>1, <1>1, <1>3
  <2> QED
    BY <2>2 DEF Slot
<1>10. N[m.at].slot[h - j] = c.locals[h - j].decl
  BY <1>3, <1>6, <1>9 DEF SlotsOf
<1> QED
  BY <1>4, <1>5, <1>6, <1>8, <1>9, <1>10 DEF Died

\* What the function is then.
LEMMA ShrinksSound ==
    ASSUME NEW ds, NEW dc, NEW c, NEW M, NEW P, NEW k, NEW n, NEW e, NEW N, NEW L, NEW h,
           MayEnd(ds, dc, c, M, P, k, n, e, N, L, h)
    PROVE  /\ Sound(ds, e.f, N, P, Global, dc) /\ Extends(ds, ds, c.f, e.f, {})
           /\ N[Len(e.f.code)] = Bare(c, k)
<1>1. /\ ds \in Seq(Function) /\ dc \in Nat /\ L = Len(c.f.code) /\ h = Len(c.locals)
      /\ Sound(ds, c.f, M, P, Global, dc) /\ Ended(c, k, n, e)
  BY DEF MayEnd
<1>2. /\ L \in Nat /\ n \in Nat /\ h \in Nat /\ k \in 1..h /\ n = h - k
  BY ShrinksTo
<1>3. /\ Len(e.f.code) = L + n /\ c.f \in Function /\ e.f \in Function /\ DOMAIN N = 0..L + n
      /\ \A q \in 0..L : N[q] = M[q]
  BY ShrinksTo
<1>4. \A j \in 0..n : /\ N[L + j] = [height |-> h - j, slot |-> SlotsOf(c, h - j)]
                      /\ N[L + j] \in Frame
  BY ShrinksTo
<1>5. /\ Starts(e.f) = Starts(c.f) \cup L..L + n - 1
      /\ Spots(e.f) = Spots(c.f) \cup L..L + n
  BY ShrinksStarts
<1>6. Extends(ds, ds, c.f, e.f, {})
  <2>1. /\ \A i \in 1..L : e.f.code[i] = c.f.code[i]
        /\ e.f.constants = c.f.constants /\ e.f.upvalues = c.f.upvalues
        /\ e.f.params = c.f.params
    BY <1>1 DEF Ended
  <2>2. L <= L + n /\ L \in L..L + n
    BY <1>2
  <2> QED
    BY <2>1, <2>2, <1>1, <1>3, <1>5 DEF Extends
<1>7. \A q \in 0..L + n : q \in 0..L \/ \E j \in 0..n : q = L + j
  <2> SUFFICES ASSUME NEW q \in 0..L + n, q \notin 0..L  PROVE \E j \in 0..n : q = L + j
    OBVIOUS
  <2>1. q - L \in 0..n /\ q = L + (q - L)
    BY <1>2
  <2> QED
    BY <2>1
<1>8. N \in [0..Len(e.f.code) -> Frame]
  <2>1. Shrinks(c, M, e) = N /\ N = [q \in DOMAIN N |-> N[q]]
    BY DEF MayEnd, Shrinks
  <2>2. M \in [0..L -> Frame]
    BY <1>1 DEF Sound, Typed
  <2>3. \A q \in 0..L + n : N[q] \in Frame
    BY <2>2, <1>3, <1>4, <1>7
  <2> QED
    BY <2>1, <2>3, <1>3
<1>9. \A q \in Spots(c.f) : N[q] = M[q]
  <2>1. Spots(c.f) \subseteq 0..L
    BY <1>1, <1>2 DEF Spots, Starts
  <2> QED
    BY <2>1, <1>3
<1>10. ASSUME NEW p \in Starts(e.f) \ Starts(c.f)
       PROVE  Runs(ds, e.f, N, P, p) /\ MeantAt(ds, e.f, N, Global, p)
  <2>1. p \in L..L + n - 1
    BY <1>5
  <2>2. p - L \in 0..n - 1 /\ p = L + (p - L)
    BY <2>1, <1>2
  <2> QED
    BY <2>2, ShrinksRun
<1>11. ASSUME NEW q \in Spots(e.f) \ Spots(c.f)  PROVE Sources(c.f, M, N[q])
  <2>1. q \in L..L + n
    BY <1>5
  <2>2. q - L \in 0..n /\ q = L + (q - L)
    BY <2>1, <1>2
  <2>3. Sources(c.f, M, N[L + (q - L)])
    BY <2>2, ShrinksSources
  <2> QED
    BY <2>2, <2>3
<1>12. ASSUME NEW m \in e.f.gone \ c.f.gone  PROVE Died(e.f, N, dc, m)
  <2>1. PICK i \in 1..n : m.decl = c.locals[h + 1 - i].decl /\ m.at = L + i - 1
    BY <1>1 DEF Ended
  <2> QED
    BY <2>1, ShrinksDied
<1>13. e.f.born = c.f.born /\ e.f.land = c.f.land /\ c.f.gone \subseteq e.f.gone
  BY <1>1 DEF Ended
<1>14. Grows(ds, ds, c.f, e.f, M, N, P, P, {}, Global, dc)
  BY <1>6, <1>8, <1>9, <1>10, <1>11, <1>12, <1>13 DEF Grows
<1>15. Sound(ds, e.f, N, P, Global, dc)
  <2>1. dc <= dc
    BY <1>1
  <2> QED
    BY <2>1, <1>1, <1>3, <1>14, Extension
<1>16. N[Len(e.f.code)] = [height |-> k, slot |-> SlotsOf(c, k)]
  <2>1. n \in 0..n /\ h - n = k
    BY <1>2
  <2>2. N[L + n] = [height |-> h - n, slot |-> SlotsOf(c, h - n)]
    BY <2>1, <1>4
  <2> QED
    BY <2>1, <2>2, <1>3
<1> QED
  BY <1>6, <1>15, <1>16 DEF Bare

LEMMA ClosingTails ==
    ASSUME NEW ch, NEW wk, NEW ds, NEW en, NEW dc, NEW ctx, NEW maps, NEW n, NEW a, NEW b, NEW c,
           NEW e, NEW N, NEW es, NEW fn, NEW naps, NEW tw, NEW tc,
           Closing(ch, wk, ds, en, dc, ctx, maps, n, a, b, c, e, N, es, fn, naps, tw, tc)
    PROVE  /\ Tails(ch, wk, en, ctx, maps, wk[1], a, wk[2], b, tw, tc) /\ Holes(wk[1]) = {}
           /\ ClosingPoints(ch, en, maps, n, a, b, c)
<1>1. /\ Types(ch, wk, ds, en, dc) /\ Good(ch, wk, ds, en, dc, ctx, maps) /\ wk[1].k = "endScope"
      /\ n = Len(ch) /\ c = ch[n] /\ a = ctx[1] /\ b = ctx[2] /\ tw = Tail(wk) /\ tc = Tail(ctx)
  BY DEF Closing
<1>2. /\ wk \in Seq(Item) /\ ctx \in Seq(Point) /\ Listed(ch, en, maps, wk, ctx)
      /\ Heads(ch, en, maps, wk, ctx) /\ n \in Nat /\ n >= 1 /\ n \in DOMAIN ch
      /\ Sane(a) /\ a.level = n /\ a.depth = c.scopeDepth /\ a.all = Len(c.locals)
  BY <1>1, GoodIs
<1>3. wk[1].k # "endScript" /\ Holes(wk[1]) = {}
  BY <1>1 DEF Holes
<1>4. Tails(ch, wk, en, ctx, maps, wk[1], a, wk[2], b, tw, tc)
  BY <1>1, <1>2, <1>3, TailsAre
<1>5. Link(ch, en, maps, wk[1], a, wk[2], b) /\ Fine(ch, b)
  BY <1>4 DEF Tails
<1>6. Fits(wk[1], a, wk[2], b) /\ Holds(wk[1], a, b, ch[a.level], maps[a.level]) /\ Named(ch, en, b)
  BY <1>5, <1>1 DEF Link
<1>7. /\ Settled(a) /\ Settled(b) /\ a.depth = b.depth + 1
      /\ a.level = b.level /\ a.env = b.env + 1 /\ b.all <= a.all
  BY <1>1, <1>6 DEF Fits
<1>8. \A l \in DOMAIN c.locals : l <= b.all <=> c.locals[l].depth \in 0..a.depth - 1
  BY <1>1, <1>2, <1>6 DEF Holds
<1>9. Sane(b) /\ b.vars > Len(c.f.params)
  BY <1>1, <1>2, <1>5, <1>7 DEF Fine
<1>10. a.env = Len(en) /\ Here(c, maps[n], a, Stack(c, a))
  BY <1>1, <1>2 DEF Heads
<1> QED
  BY <1>2, <1>3, <1>4, <1>6, <1>7, <1>8, <1>9, <1>10 DEF ClosingPoints

LEMMA ClosingEnds ==
    ASSUME NEW ch, NEW wk, NEW ds, NEW en, NEW dc, NEW ctx, NEW maps, NEW n, NEW a, NEW b, NEW c,
           NEW e, NEW N, NEW es, NEW fn, NEW naps, NEW tw, NEW tc,
           Closing(ch, wk, ds, en, dc, ctx, maps, n, a, b, c, e, N, es, fn, naps, tw, tc)
    PROVE  /\ \E m : MayEnd(ds, dc, c, maps[n], Pending(wk, ctx, n), b.all, m, e, N,
                            Len(c.f.code), Len(c.locals))
           /\ Tops(ch, maps, es, naps, n) /\ es[n] = e /\ naps[n] = N /\ Keeping(c, b.all)
           /\ c \in Comp /\ Locals(c, dc) /\ Limits(c)
<1>1. /\ Types(ch, wk, ds, en, dc) /\ Good(ch, wk, ds, en, dc, ctx, maps) /\ wk[1].k = "endScope"
      /\ n = Len(ch) /\ c = ch[n] /\ e = EndScope(c) /\ N = Shrinks(c, maps[n], e) /\ a = ctx[1]
  BY DEF Closing
<1>2. ClosingPoints(ch, en, maps, n, a, b, c)
  BY ClosingTails
<1>3. /\ n \in DOMAIN ch /\ Settled(a) /\ a.depth = c.scopeDepth /\ a.all = Len(c.locals)
      /\ a.depth = b.depth + 1 /\ b.all <= a.all /\ Here(c, maps[n], a, Stack(c, a))
      /\ b.vars > Len(c.f.params) /\ Settled(b)
      /\ \A l \in DOMAIN c.locals : l <= b.all <=> c.locals[l].depth \in 0..a.depth - 1
  BY <1>2 DEF ClosingPoints
<1>4. Sane(b) /\ Sane(a)
  BY <1>2 DEF ClosingPoints
<1>5. /\ a.all \in Nat /\ b.all \in Nat /\ b.depth \in Nat /\ b.all >= 1 /\ a.all <= Count
  <2>1. b.vars = b.all /\ b.vars >= 1
    BY <1>3, <1>4, Points DEF Settled
  <2> QED
    BY <2>1, <1>4, Points
<1>6. /\ c \in Comp /\ Locals(c, dc) /\ ds \in Seq(Function) /\ dc \in Nat
  BY <1>1, <1>3, GoodIs
<1>7. Limits(c) /\ dc \in 0..MaxDecl
  BY <1>1, <1>3 DEF Types
<1>8. Len(c.locals) \in Nat /\ DOMAIN c.locals = 1..Len(c.locals) /\ c.scopeDepth \in Nat
  BY <1>6, CompIs
<1>9. Keeping(c, b.all)
  <2>1. c.locals[Len(c.locals)].depth # -1
    BY <1>3 DEF Here, Settled
  <2>2. \A l \in DOMAIN c.locals : c.locals[l].depth \in 0..c.scopeDepth
    BY <2>1, <1>7 DEF Limits
  <2>3. b.all \in 1..Len(c.locals)
    <3>1. b.all <= Len(c.locals)
      BY <1>3
    <3> QED
      BY <3>1, <1>5, <1>8
  <2>4. c.scopeDepth >= 1
    <3>1. c.scopeDepth = b.depth + 1
      BY <1>3
    <3> QED
      BY <3>1, <1>5
  <2>5. \A l \in DOMAIN c.locals : l <= b.all <=> c.locals[l].depth \in 0..c.scopeDepth - 1
    BY <1>3
  <2> QED
    BY <2>2, <2>3, <2>4, <2>5 DEF Keeping
<1> DEFINE m == Len(c.locals) - b.all
<1>10. Ended(c, b.all, m, e)
  <2>1. \A l \in 2..Len(c.locals) : c.locals[l].decl \in 1..MaxDecl
    <3>1. \A d \in 1..dc : d \in 1..MaxDecl
      BY <1>6, <1>7, CompilerConstants
    <3> QED
      BY <3>1, <1>6 DEF Locals
  <2>2. m = Len(c.locals) - b.all
    OBVIOUS
  <2> HIDE DEF m
  <2> QED
    BY <2>1, <2>2, <1>1, <1>6, <1>9, EndedIs
<1> HIDE DEF m
<1>11. e \in Comp
  BY <1>10 DEF Ended
<1>12. Tops(ch, maps, es, naps, n) /\ es[n] = e /\ naps[n] = N
  <2>1. Changed(ch, maps, e, N, es, naps)
    BY DEF Closing, Changed, Renewed
  <2> QED
    BY <2>1, <1>1, <1>11, TopsAre
<1>13. Sound(ds, c.f, maps[n], Pending(wk, ctx, n), Global, dc)
  <2>1. Coded(ch, ds, dc, maps, wk, ctx)
    BY <1>1 DEF Good
  <2>2. Late(c, a) = Global
    <3>1. a.vars = a.seen /\ a.seen \in Nat
      BY <1>3, <1>5 DEF Settled
    <3> QED
      BY <3>1 DEF Late
  <2> QED
    BY <2>1, <2>2, <1>1, <1>3 DEF Coded
<1>14. maps[n][Len(c.f.code)] = [height |-> Len(c.locals), slot |-> SlotsOf(c, Len(c.locals))]
  <2>1. a.height = Len(c.locals) /\ a.vars = Len(c.locals)
    BY <1>3 DEF Settled
  <2>2. maps[n][Len(c.f.code)] = Stack(c, a)
    BY <1>3 DEF Here
  <2> QED
    BY <2>1, <2>2 DEF Stack
<1>15. b.all > Len(c.f.params) /\ Len(c.locals) <= Count /\ dc <= MaxDecl
  BY <1>3, <1>5, <1>7, CompilerConstants DEF Settled
<1>16. MayEnd(ds, dc, c, maps[n], Pending(wk, ctx, n), b.all, m, e, N, Len(c.f.code), Len(c.locals))
  BY <1>1, <1>6, <1>9, <1>10, <1>13, <1>14, <1>15 DEF MayEnd
<1> QED
  BY <1>6, <1>7, <1>9, <1>12, <1>16

LEMMA ClosingKeeps ==
    ASSUME NEW ds, NEW dc, NEW c, NEW M, NEW P, NEW k, NEW n, NEW e, NEW N, NEW L, NEW h,
           MayEnd(ds, dc, c, M, P, k, n, e, N, L, h), NEW d
    PROVE  Keeps(c, M, e, N, k, d)
<1>1. /\ ds \in Seq(Function) /\ L = Len(c.f.code) /\ Sound(ds, c.f, M, P, Global, dc)
      /\ Ended(c, k, n, e) /\ Keeping(c, k) /\ c \in Comp
  BY DEF MayEnd
<1>2. Extends(ds, ds, c.f, e.f, {}) /\ \A q \in 0..L : N[q] = M[q]
  <2>1. Extends(ds, ds, c.f, e.f, {})
    BY ShrinksSound
  <2>2. \A q \in 0..L : N[q] = M[q]
    BY ShrinksTo
  <2> QED
    BY <2>1, <2>2
<1>3. c.f \in Function /\ e.f \in Function /\ L \in Nat /\ n \in Nat
  BY ShrinksTo
<1>4. Typed(ds, c.f, M, P)
  BY <1>1 DEF Sound
<1>5. Starts(c.f) \subseteq 0..L /\ Spots(c.f) \subseteq 0..L
  BY <1>1, <1>3 DEF Spots, Starts
<1>6. ASSUME NEW p \in Starts(c.f)  PROVE p \in Starts(e.f) /\ After(e.f, N, p) = After(c.f, M, p)
  <2>1. Alike(ds, ds, c.f, e.f, {}, p)
    BY <1>1, <1>2, <1>3, <1>4, SameCode
  <2>2. N[p] = M[p]
    BY <1>2, <1>5
  <2> QED
    BY <2>1, <2>2 DEF Alike, After
<1>7. ASSUME NEW q \in Spots(c.f)  PROVE q \in Spots(e.f) /\ Settles(e.f, M[q], N[q], q)
  <2>1. L..L + n = {L} \cup L..L + n
    BY <1>3
  <2>2. q \in Spots(e.f)
    BY ShrinksStarts
  <2>3. N[q] = M[q]
    BY <1>2, <1>5
  <2> QED
    BY <2>2, <2>3 DEF Settles
<1>8. /\ c.f.born \subseteq e.f.born /\ e.f.params = c.f.params /\ e.f.upvalues = c.f.upvalues
      /\ Len(e.locals) = k /\ DOMAIN e.locals = 1..k /\ \A l \in 1..k : e.locals[l] = c.locals[l]
  BY <1>1 DEF Ended
<1>9. k \in Nat /\ k <= Len(c.locals) /\ DOMAIN c.locals = 1..Len(c.locals) /\ Len(c.locals) \in Nat
  BY <1>1, CompIs DEF Keeping
<1>10. \A l \in DOMAIN e.locals : l \in DOMAIN c.locals /\ e.locals[l].depth = c.locals[l].depth
  BY <1>8, <1>9
<1>11. DOMAIN e.locals \subseteq Nat
  BY <1>8
<1> QED
  BY <1>6, <1>7, <1>8, <1>9, <1>10, <1>11 DEF Keeps

\* What ties the functions together when the current one ends a scope.
LEMMA ClosingTied ==
    ASSUME NEW ch, NEW es, NEW maps, NEW naps, NEW n, Tops(ch, maps, es, naps, n),
           NEW ds, NEW dc, Tied(ch, ds, dc), NEW c, c = ch[n], NEW e, e = es[n],
           NEW M, NEW P, NEW k, NEW m, NEW N, NEW L, NEW h,
           MayEnd(ds, dc, c, M, P, k, m, e, N, L, h)
    PROVE  Tied(es, ds, dc)
<1>1. /\ n = Len(ch) /\ n \in Nat /\ n >= 1 /\ ch \in Seq(Comp) /\ es \in Seq(Comp) /\ Len(es) = n
      /\ DOMAIN ch = 1..n /\ DOMAIN es = 1..n /\ \A j \in 1..n - 1 : es[j] = ch[j]
  BY DEF Tops
<1>2. Ended(c, k, m, e) /\ Keeping(c, k) /\ c \in Comp /\ h = Len(c.locals) /\ L = Len(c.f.code)
  BY DEF MayEnd
<1>3. /\ L \in Nat /\ m \in Nat /\ h \in Nat /\ k \in 1..h /\ m = h - k
  BY ShrinksTo
<1>4. /\ e.f.upvalues = c.f.upvalues /\ Len(e.locals) = k /\ DOMAIN e.locals = 1..k
      /\ \A l \in 1..k : e.locals[l] = c.locals[l]
  BY <1>2 DEF Ended
<1>5. \A j \in 1..n : j = n \/ j \in 1..n - 1
  BY <1>1
<1>6. \A j \in 1..n : es[j].f.upvalues = ch[j].f.upvalues
  BY <1>1, <1>4, <1>5
<1>7. Akin(ch, ds, es, ds)
  <2>1. ASSUME NEW g \in Everyone(ch, ds)  PROVE \E q \in Everyone(es, ds) : q.upvalues = g.upvalues
    <3>1. CASE g \in { ds[i] : i \in DOMAIN ds }
      BY <3>1 DEF Everyone
    <3>2. CASE \E j \in DOMAIN ch : g = ch[j].f
      <4>1. PICK j \in 1..n : g = ch[j].f
        BY <3>2, <1>1
      <4>2. es[j].f \in Everyone(es, ds) /\ es[j].f.upvalues = g.upvalues
        BY <4>1, <1>1, <1>6 DEF Everyone
      <4> QED
        BY <4>2
    <3> QED
      BY <3>1, <3>2 DEF Everyone
  <2>2. ASSUME NEW q \in Everyone(es, ds)  PROVE \E g \in Everyone(ch, ds) : q.upvalues = g.upvalues
    <3>1. CASE q \in { ds[i] : i \in DOMAIN ds }
      BY <3>1 DEF Everyone
    <3>2. CASE \E j \in DOMAIN es : q = es[j].f
      <4>1. PICK j \in 1..n : q = es[j].f
        BY <3>2, <1>1
      <4>2. ch[j].f \in Everyone(ch, ds) /\ q.upvalues = ch[j].f.upvalues
        BY <4>1, <1>1, <1>6 DEF Everyone
      <4> QED
        BY <4>2
    <3> QED
      BY <3>1, <3>2 DEF Everyone
  <2> QED
    BY <2>1, <2>2 DEF Akin
<1>8. Among(ch, es)
  <2>1. ASSUME NEW j \in 1..n
        PROVE  /\ Len(ch[j].locals) \in Nat /\ Len(es[j].locals) \in Nat
               /\ Len(es[j].locals) <= Len(ch[j].locals)
               /\ \A l \in 1..Len(es[j].locals) :
                      /\ es[j].locals[l].decl = ch[j].locals[l].decl
                      /\ es[j].locals[l].captured = ch[j].locals[l].captured
    <3>1. CASE j = n
      <4>1. k \in Nat /\ k <= h
        BY <1>3
      <4> QED
        BY <3>1, <4>1, <1>2, <1>3, <1>4
    <3>2. CASE j \in 1..n - 1
      <4>1. ch[j] \in Comp /\ es[j] = ch[j]
        BY <3>2, <1>1
      <4>2. Len(ch[j].locals) \in Nat
        BY <4>1, CompIs
      <4> QED
        BY <4>1, <4>2
    <3> QED
      BY <3>1, <3>2, <1>5
  <2> QED
    BY <2>1, <1>1 DEF Among
<1>9. Apart(es) /\ Linked(es) /\ Flagged(es, ds, dc)
  <2>1. \A j \in DOMAIN es : /\ es[j].f.upvalues = ch[j].f.upvalues
                             /\ j = Len(es) \/ DOMAIN es[j].locals = DOMAIN ch[j].locals
    BY <1>1, <1>5, <1>6
  <2> QED
    BY <2>1, <1>1, <1>7, <1>8, TiesStay
<1>10. ASSUME NEW g \in Everyone(es, ds)  PROVE Closed(es, ds, g)
  <2>1. CASE g \in Everyone(ch, ds)
    <3>1. Closed(ch, ds, g)
      BY <2>1 DEF Tied
    <3>2. Follows(g, g)
      BY DEF Follows
    <3> QED
      BY <3>1, <3>2, <1>7, <1>8, ClosedStays
  <2>2. CASE g = e.f
    <3>1. Closed(ch, ds, c.f)
      <4>1. c.f \in Everyone(ch, ds)
        BY <1>1 DEF Everyone
      <4> QED
        BY <4>1 DEF Tied
    <3>2. ASSUME NEW x \in c.f.gone
          PROVE  /\ \A j \in DOMAIN es : \A l \in 2..Len(es[j].locals) : es[j].locals[l].decl # x.decl
                 /\ Operation(e.f, x.at) = "CLOSE_UPVALUE" <=> Taken(es, ds, x.decl)
      <4>1. /\ \A j \in DOMAIN ch : \A l \in 2..Len(ch[j].locals) : ch[j].locals[l].decl # x.decl
            /\ Operation(c.f, x.at) = "CLOSE_UPVALUE" <=> Taken(ch, ds, x.decl)
        BY <3>1 DEF Closed
      <4>2. \A j \in DOMAIN es : \A l \in 2..Len(es[j].locals) : es[j].locals[l].decl # x.decl
        <5> SUFFICES ASSUME NEW j \in DOMAIN es, NEW l \in 2..Len(es[j].locals)
                     PROVE  es[j].locals[l].decl # x.decl
          OBVIOUS
        <5>1. /\ j \in DOMAIN ch /\ Len(es[j].locals) \in Nat /\ Len(ch[j].locals) \in Nat
              /\ Len(es[j].locals) <= Len(ch[j].locals)
              /\ \A y \in 1..Len(es[j].locals) : es[j].locals[y].decl = ch[j].locals[y].decl
          BY <1>8 DEF Among
        <5>2. l \in 2..Len(ch[j].locals) /\ l \in 1..Len(es[j].locals)
          BY <5>1
        <5> QED
          BY <4>1, <5>1, <5>2
      <4>3. Operation(e.f, x.at) = Operation(c.f, x.at)
        <5>1. x.at \in Starts(c.f)
          BY DEF MayEnd, Sound, Dead
        <5>2. Alike(ds, ds, c.f, e.f, {}, x.at)
          <6>1. Extends(ds, ds, c.f, e.f, {}) /\ c.f \in Function /\ e.f \in Function
            BY ShrinksSound, ShrinksTo
          <6>2. ds \in Seq(Function) /\ Typed(ds, c.f, M, P)
            BY DEF MayEnd, Sound
          <6> QED
            BY <5>1, <6>1, <6>2, SameCode
        <5> QED
          BY <5>2 DEF Alike
      <4>4. Taken(es, ds, x.decl) <=> Taken(ch, ds, x.decl)
        BY <1>7, TakenStays
      <4> QED
        BY <4>1, <4>2, <4>3, <4>4
    <3>3. ASSUME NEW x \in e.f.gone, x \notin c.f.gone
          PROVE  /\ \A j \in DOMAIN es : \A l \in 2..Len(es[j].locals) : es[j].locals[l].decl # x.decl
                 /\ Operation(e.f, x.at) = "CLOSE_UPVALUE" <=> Taken(es, ds, x.decl)
      <4>1. PICK i \in 1..m : x.decl = c.locals[h + 1 - i].decl /\ x.at = L + i - 1
        BY <3>3, <1>2 DEF Ended
      <4> DEFINE y == h + 1 - i
                 z == i - 1
      <4>2. y \in 2..h /\ y > k /\ z \in 0..m - 1 /\ L + i - 1 = L + z /\ h - z = y
        BY <1>3
      <4> HIDE DEF y, z
      <4>3. x.decl = c.locals[y].decl /\ x.at = L + z
        BY <4>1, <4>2 DEF y
      <4>4. \A j \in DOMAIN es : \A l \in 2..Len(es[j].locals) : es[j].locals[l].decl # x.decl
        <5> SUFFICES ASSUME NEW j \in DOMAIN es, NEW l \in 2..Len(es[j].locals),
                            es[j].locals[l].decl = x.decl
                     PROVE  FALSE
          OBVIOUS
        <5>1. /\ j \in DOMAIN ch /\ Len(es[j].locals) \in Nat /\ Len(ch[j].locals) \in Nat
              /\ Len(es[j].locals) <= Len(ch[j].locals)
              /\ \A q \in 1..Len(es[j].locals) : es[j].locals[q].decl = ch[j].locals[q].decl
          BY <1>8 DEF Among
        <5>2. l \in 2..Len(ch[j].locals) /\ l \in 1..Len(es[j].locals)
          BY <5>1
        <5>3. ch[j].locals[l].decl = ch[n].locals[y].decl
          BY <4>3, <5>1, <5>2
        <5>4. n \in DOMAIN ch /\ y \in 2..Len(ch[n].locals)
          BY <4>2, <1>1, <1>2
        <5>5. j = n /\ l = y
          BY <5>1, <5>2, <5>3, <5>4 DEF Tied, Apart
        <5>6. l \in 2..k
          BY <5>5, <1>4
        <5> QED
          BY <5>5, <5>6, <4>2, <1>3
      <4>5. Operation(e.f, x.at) = Ending(c.locals[y]).op
        BY <4>2, <4>3, ShrinksStarts
      <4>6. Operation(e.f, x.at) = "CLOSE_UPVALUE" <=> c.locals[y].captured
        BY <4>5, EndingIs
      <4>7. c.locals[y].captured <=> Taken(ch, ds, x.decl)
        <5>1. n \in DOMAIN ch /\ y \in 2..Len(ch[n].locals)
          BY <4>2, <1>1, <1>2
        <5> QED
          BY <5>1, <4>3 DEF Tied, Flagged
      <4>8. Taken(es, ds, x.decl) <=> Taken(ch, ds, x.decl)
        BY <1>7, TakenStays
      <4> QED
        BY <4>4, <4>6, <4>7, <4>8
    <3> QED
      BY <2>2, <3>2, <3>3 DEF Closed
  <2>3. g \in Everyone(ch, ds) \/ g = e.f
    <3>1. CASE g \in { ds[i] : i \in DOMAIN ds }
      BY <3>1 DEF Everyone
    <3>2. CASE \E j \in DOMAIN es : g = es[j].f
      <4>1. PICK j \in 1..n : g = es[j].f
        BY <3>2, <1>1
      <4> QED
        BY <4>1, <1>1, <1>5 DEF Everyone
    <3> QED
      BY <3>1, <3>2 DEF Everyone
  <2> QED
    BY <2>1, <2>2, <2>3
<1> QED
  BY <1>9, <1>10 DEF Tied

\* A scope ends.
LEMMA EndBlockStep ==
    ASSUME NEW ch, NEW wk, NEW ds, NEW en, NEW dc, NEW ctx, NEW maps, NEW n, NEW a, NEW b, NEW c,
           NEW e, NEW N, NEW es, NEW fn, NEW naps, NEW tw, NEW tc,
           Closing(ch, wk, ds, en, dc, ctx, maps, n, a, b, c, e, N, es, fn, naps, tw, tc)
    PROVE  Valid(es, tw, ds, fn, dc)
<1>1. /\ Types(ch, wk, ds, en, dc) /\ Good(ch, wk, ds, en, dc, ctx, maps)
      /\ c = ch[n] /\ fn = Front(en)
  BY DEF Closing
<1>2. /\ Tails(ch, wk, en, ctx, maps, wk[1], a, wk[2], b, tw, tc) /\ Holes(wk[1]) = {}
      /\ ClosingPoints(ch, en, maps, n, a, b, c)
  BY ClosingTails
<1>3. PICK m : MayEnd(ds, dc, c, maps[n], Pending(wk, ctx, n), b.all, m, e, N,
                      Len(c.f.code), Len(c.locals))
  BY ClosingEnds
<1>4. /\ Tops(ch, maps, es, naps, n) /\ es[n] = e /\ naps[n] = N /\ Keeping(c, b.all)
      /\ c \in Comp /\ Locals(c, dc) /\ Limits(c)
  BY ClosingEnds
<1>5. /\ n \in Nat /\ n >= 1 /\ Len(es) = n /\ DOMAIN es = 1..n /\ DOMAIN naps = 1..n
      /\ DOMAIN ch = 1..n /\ es \in Seq(Comp) /\ \A k \in 1..n - 1 : es[k] = ch[k]
      /\ \A k \in 1..n : Len(ch[k].locals) >= 1
  BY <1>4 DEF Tops
<1>6. /\ Settled(b) /\ Sane(b) /\ a.depth = b.depth + 1 /\ b.level = n /\ a.env = b.env + 1
      /\ a.depth = c.scopeDepth /\ a.env = Len(en) /\ b.vars > Len(c.f.params) /\ Named(ch, en, b)
      /\ a.level = n
  BY <1>2 DEF ClosingPoints
<1>7. /\ b.env \in Nat /\ b.env >= 1 /\ b.depth \in Nat /\ b.all \in Nat
  BY <1>6, Points
<1>8. /\ tw \in Seq(Item) /\ tc \in Seq(Point) /\ Len(tc) = Len(tw) /\ Len(tw) >= 1
      /\ tc[1] = b /\ Listed(ch, en, maps, tw, tc) /\ tw[1].k # "parameters"
      /\ \A k : Pending(wk, ctx, k) = Pending(tw, tc, k)
  BY <1>2 DEF Tails
<1>9. /\ Sound(ds, e.f, N, Pending(wk, ctx, n), Global, dc)
      /\ N[Len(e.f.code)] = [height |-> b.all, slot |-> SlotsOf(c, b.all)]
  <2>1. Sound(ds, e.f, N, Pending(wk, ctx, n), Global, dc)
    BY <1>3, ShrinksSound
  <2>2. N[Len(e.f.code)] = [height |-> b.all, slot |-> SlotsOf(c, b.all)]
    <3>1. N[Len(e.f.code)] = Bare(c, b.all)
      BY <1>3, ShrinksSound
    <3> QED
      BY <3>1 DEF Bare
  <2> QED
    BY <2>1, <2>2
<1>10. \E i : Ended(c, b.all, i, e)
  BY <1>3 DEF MayEnd
<1>11. /\ e \in Comp /\ e.scopeDepth = c.scopeDepth - 1
       /\ Len(e.locals) = b.all /\ DOMAIN e.locals = 1..b.all
       /\ \A l \in 1..b.all : e.locals[l] = c.locals[l]
       /\ e.f.upvalues = c.f.upvalues /\ e.f.params = c.f.params
  BY <1>10 DEF Ended
<1>12. /\ en \in Seq([Name -> 0..MaxDecl]) /\ dc \in Nat /\ ds \in Seq(Function)
  BY <1>1, GoodIs DEF Types
<1>13. /\ fn \in Seq([Name -> 0..MaxDecl]) /\ Len(fn) = b.env /\ \A i \in 1..b.env : fn[i] = en[i]
  <2>1. Len(en) = b.env + 1
    BY <1>6
  <2> QED
    BY <2>1, <1>1, <1>7, <1>12 DEF Front
<1>14. Keeps(ch[n], maps[n], es[n], naps[n], b.all, b.depth)
  BY <1>1, <1>3, <1>4, ClosingKeeps
<1>15. Listed(es, fn, naps, tw, tc)
  <2>1. \A i \in 1..tc[1].env - 1 : fn[i] = en[i]
    BY <1>7, <1>8, <1>13
  <2>2. tc[1].level <= n /\ tc[1].all = b.all /\ tc[1].depth = b.depth
    BY <1>5, <1>6, <1>8
  <2> QED
    BY <2>1, <2>2, <1>4, <1>8, <1>14, RestTops
<1>16. Rested(es, fn, naps, tw, tc)
  BY <1>8, <1>15 DEF Rested
<1>17. b.all >= 1 /\ b.vars = b.all /\ b.seen = b.all /\ b.height = b.all
  <2>1. b.vars = b.all /\ b.seen = b.all /\ b.height = b.all
    BY <1>6 DEF Settled
  <2> QED
    BY <2>1, <1>6, Points
<1>18. SlotsOf(e, b.all) = SlotsOf(c, b.all)
  <2>1. \A i \in Slot : i <= b.all => e.locals[i].decl = c.locals[i].decl
    <3>1. \A i \in Slot : i <= b.all => i \in 1..b.all
      BY <1>7, CompilerConstants DEF Slot
    <3> QED
      BY <3>1, <1>11
  <2> QED
    BY <2>1 DEF SlotsOf
<1>19. Here(e, N, b, Stack(e, b))
  <2>1. b.depth = e.scopeDepth
    <3>1. b.depth + 1 = c.scopeDepth
      BY <1>6
    <3> QED
      BY <3>1, <1>7, <1>11
  <2>2. e.locals[Len(e.locals)].depth # -1
    <3>1. b.all \in 1..b.all /\ b.all \in DOMAIN c.locals
      BY <1>4, <1>7, <1>17, CompIs DEF Keeping
    <3>2. c.locals[b.all].depth \in 0..c.scopeDepth
      BY <3>1, <1>4 DEF Keeping
    <3>3. e.locals[Len(e.locals)].depth = c.locals[b.all].depth
      BY <3>1, <1>11
    <3> QED
      BY <3>2, <3>3, <1>4, CompIs
  <2>3. N[Len(e.f.code)] = Stack(e, b)
    BY <1>9, <1>17, <1>18 DEF Stack
  <2> QED
    BY <2>1, <2>2, <2>3, <1>7, <1>11, <1>17 DEF Here
<1>20. Named(es, fn, b)
  <2>1. SameNames(ch, es, b.level, b.seen)
    <3>1. ASSUME NEW j \in 1..n
          PROVE  /\ j = n \/ Len(es[j].locals) = Len(ch[j].locals)
                 /\ \A l \in 1..(IF j = n THEN b.all ELSE Len(ch[j].locals)) :
                        /\ es[j].locals[l].name = ch[j].locals[l].name
                        /\ es[j].locals[l].decl = ch[j].locals[l].decl
      <4>1. CASE j = n
        BY <4>1, <1>1, <1>4, <1>11
      <4>2. CASE j # n
        <5>1. j \in 1..n - 1
          BY <4>2, <1>5
        <5> QED
          BY <4>2, <5>1, <1>5
      <4> QED
        BY <4>1, <4>2
    <3> QED
      BY <3>1, <1>6, <1>17 DEF SameNames
  <2>2. fn[b.env] = en[b.env]
    <3>1. b.env \in 1..b.env
      BY <1>7
    <3> QED
      BY <3>1, <1>13
  <2>3. b.level \in Nat
    BY <1>5, <1>6
  <2> QED
    BY <2>1, <2>2, <2>3, <1>6, NamedStays
<1>21. Heads(es, fn, naps, tw, tc)
  BY <1>4, <1>5, <1>6, <1>8, <1>13, <1>19, <1>20 DEF Heads
<1>22. Locals(e, dc)
  <2>1. \A l \in 2..b.all : l \in 2..Len(c.locals) /\ l \in 1..b.all
    <3>1. b.all <= Len(c.locals) /\ Len(c.locals) \in Nat
      BY <1>4, CompIs DEF Keeping
    <3> QED
      BY <3>1, <1>7
  <2>2. 1 \in 1..b.all
    BY <1>7, <1>17
  <2>3. e.locals # <<>>
    BY <2>2, <1>11
  <2>4. Len(e.f.params) < Len(e.locals)
    <3>1. Len(c.f.params) \in Nat
      BY <1>4, CompIs, CodeBytes
    <3> QED
      BY <3>1, <1>6, <1>7, <1>11, <1>17
  <2>5. \A i \in DOMAIN e.f.params : e.locals[i + 1].decl = e.f.params[i]
    <3> SUFFICES ASSUME NEW i \in DOMAIN c.f.params  PROVE e.locals[i + 1].decl = c.f.params[i]
      BY <1>11
    <3>1. DOMAIN c.f.params = 1..Len(c.f.params) /\ Len(c.f.params) \in Nat
      BY <1>4, CompIs, CodeBytes
    <3>2. i + 1 \in 1..b.all
      BY <3>1, <1>6, <1>7, <1>17
    <3> QED
      BY <3>2, <1>4, <1>11 DEF Locals
  <2> QED
    BY <2>1, <2>2, <2>3, <2>4, <2>5, <1>4, <1>11 DEF Locals
<1>23. Coded(es, ds, dc, naps, tw, tc)
  <2>1. Coded(ch, ds, dc, maps, wk, ctx) /\ dc <= dc
    BY <1>1, <1>12 DEF Good
  <2>2. Late(e, b) = Global
    BY <1>7, <1>17 DEF Late
  <2>3. Sound(ds, es[n].f, naps[n], Pending(tw, tc, n), Late(es[n], tc[1]), dc)
    BY <2>2, <1>4, <1>8, <1>9
  <2>4. Locals(es[n], dc)
    BY <1>4, <1>22
  <2>5. \A k \in 1..n - 1 : Pending(tw, tc, k) = Pending(wk, ctx, k)
    BY <1>8
  <2> QED
    BY <2>1, <2>3, <2>4, <2>5, <1>4, <1>12, CodedTops
<1>24. Tied(es, ds, dc)
  <2>1. Tied(ch, ds, dc)
    BY <1>1 DEF Good
  <2> QED
    BY <2>1, <1>1, <1>3, <1>4, ClosingTied
<1>25. Good(es, tw, ds, fn, dc, tc, naps)
  BY <1>5, <1>8, <1>15, <1>21, <1>23, <1>24 DEF Good
<1>26. \A k \in DOMAIN es : Limits(es[k])
  <2>1. Limits(e)
    <3>1. \A l \in 1..b.all : e.locals[l].depth \in 0..e.scopeDepth
      <4>1. \A l \in 1..b.all : l \in DOMAIN c.locals /\ l <= b.all
        BY <1>4, <1>7, CompIs DEF Keeping
      <4> QED
        BY <4>1, <1>4, <1>11 DEF Keeping
    <3>2. b.all <= Count
      BY <1>6, Points
    <3> QED
      BY <3>1, <3>2, <1>4, <1>11 DEF Limits
  <2>2. \A k \in 1..n - 1 : Limits(es[k])
    <3>1. \A k \in 1..n - 1 : k \in DOMAIN ch
      BY <1>5
    <3> QED
      BY <3>1, <1>1, <1>5 DEF Types
  <2>3. \A k \in 1..n : k = n \/ k \in 1..n - 1
    BY <1>5
  <2> QED
    BY <2>1, <2>2, <2>3, <1>4, <1>5
<1>27. Types(es, tw, ds, fn, dc)
  BY <1>1, <1>5, <1>8, <1>13, <1>26 DEF Types
<1> QED
  BY <1>25, <1>27 DEF Valid

-----------------------------------------------------------------------------
(* Local variables that are declared.                                      *)

LEMMA AlignedAkin ==
    ASSUME NEW ch, NEW es, NEW n, Aligned(ch, es, n), NEW ds
    PROVE  /\ Akin(ch, ds, es, ds)
           /\ \A q \in Everyone(es, ds) : \E g \in Everyone(ch, ds) :
                  q.upvalues = g.upvalues /\ q.gone = g.gone /\ q.code = g.code
<1>1. ASSUME NEW g \in Everyone(ch, ds)  PROVE \E q \in Everyone(es, ds) : q.upvalues = g.upvalues
  <2>1. CASE g \in { ds[i] : i \in DOMAIN ds }
    BY <2>1 DEF Everyone
  <2>2. CASE \E j \in DOMAIN ch : g = ch[j].f
    <3>1. PICK j \in 1..n : g = ch[j].f
      BY <2>2 DEF Aligned
    <3>2. es[j].f \in Everyone(es, ds) /\ es[j].f.upvalues = g.upvalues
      BY <3>1 DEF Everyone, Aligned
    <3> QED
      BY <3>2
  <2> QED
    BY <2>1, <2>2 DEF Everyone
<1>2. ASSUME NEW q \in Everyone(es, ds)
      PROVE \E g \in Everyone(ch, ds) : q.upvalues = g.upvalues /\ q.gone = g.gone /\ q.code = g.code
  <2>1. CASE q \in { ds[i] : i \in DOMAIN ds }
    BY <2>1 DEF Everyone
  <2>2. CASE \E j \in DOMAIN es : q = es[j].f
    <3>1. PICK j \in 1..n : q = es[j].f
      BY <2>2 DEF Aligned
    <3>2. /\ ch[j].f \in Everyone(ch, ds) /\ q.upvalues = ch[j].f.upvalues
          /\ q.gone = ch[j].f.gone /\ q.code = ch[j].f.code
      BY <3>1 DEF Everyone, Aligned
    <3> QED
      BY <3>2
  <2> QED
    BY <2>1, <2>2 DEF Everyone
<1> QED
  BY <1>1, <1>2 DEF Akin

\* What ties the functions together when the last one has a new local.
LEMMA DeclaresTied ==
    ASSUME NEW ch, NEW es, NEW n, Aligned(ch, es, n), n >= 1, \A k \in 1..n - 1 : es[k] = ch[k],
           NEW ds, NEW dc \in Nat, Tied(ch, ds, dc), GoneBy(ch, ds, dc),
           \A k \in DOMAIN ch : Locals(ch[k], dc),
           NEW x, NEW dd, NEW d, d = dc + 1, Declares(ch[n], es[n], x, dd, d)
    PROVE  Tied(es, ds, d)
<1>1. /\ n \in Nat /\ ch \in Seq(Comp) /\ es \in Seq(Comp) /\ Len(ch) = n /\ Len(es) = n
      /\ DOMAIN ch = 1..n /\ DOMAIN es = 1..n
      /\ \A k \in 1..n : es[k].f.upvalues = ch[k].f.upvalues
  BY DEF Aligned
<1>2. /\ Akin(ch, ds, es, ds)
      /\ \A q \in Everyone(es, ds) : \E g \in Everyone(ch, ds) :
             q.upvalues = g.upvalues /\ q.gone = g.gone /\ q.code = g.code
  BY AlignedAkin
<1> DEFINE h == Len(ch[n].locals)
<1>3. h \in Nat /\ h >= 1 /\ n \in DOMAIN ch
  <2>1. n \in DOMAIN ch
    BY <1>1
  <2>2. ch[n] \in Comp /\ Locals(ch[n], dc)
    BY <2>1, <1>1
  <2> QED
    BY <2>1, <2>2, CompIs DEF Locals
<1>4. /\ Len(es[n].locals) = h + 1 /\ \A l \in 1..h : es[n].locals[l] = ch[n].locals[l]
      /\ es[n].locals[h + 1].decl = d /\ es[n].locals[h + 1].captured = FALSE
  BY DEF Declares
<1> HIDE DEF h
<1>5. ASSUME NEW k \in 1..n, NEW l \in 2..Len(es[k].locals)
      PROVE  \/ l \in 2..Len(ch[k].locals) /\ es[k].locals[l] = ch[k].locals[l]
             \/ k = n /\ l = h + 1 /\ es[k].locals[l].decl = d /\ es[k].locals[l].captured = FALSE
  <2>1. CASE k = n
    <3>1. l \in 2..h \/ l = h + 1
      BY <2>1, <1>3, <1>4
    <3>2. l \in 2..h => l \in 1..h
      BY <1>3
    <3>3. h = Len(ch[n].locals)
      BY DEF h
    <3> QED
      BY <2>1, <3>1, <3>2, <3>3, <1>4
  <2>2. CASE k # n
    <3>1. k \in 1..n - 1
      BY <2>2, <1>1
    <3> QED
      BY <3>1
  <2> QED
    BY <2>1, <2>2
<1>6. ASSUME NEW k \in 1..n, NEW l \in 2..Len(ch[k].locals)  PROVE ch[k].locals[l].decl \in 1..dc
  BY <1>1 DEF Locals
<1>7. d \notin 1..dc /\ \A y \in 1..dc : y \in 1..d
  OBVIOUS
<1>8. Apart(es)
  <2> SUFFICES ASSUME NEW k \in 1..n, NEW l \in 2..Len(es[k].locals),
                      NEW k2 \in 1..n, NEW l2 \in 2..Len(es[k2].locals),
                      es[k].locals[l].decl = es[k2].locals[l2].decl
               PROVE  k = k2 /\ l = l2
    BY <1>1 DEF Apart
  <2>1. CASE l \in 2..Len(ch[k].locals) /\ l2 \in 2..Len(ch[k2].locals) /\
             es[k].locals[l] = ch[k].locals[l] /\ es[k2].locals[l2] = ch[k2].locals[l2]
    BY <2>1, <1>1 DEF Tied, Apart
  <2>2. CASE k = n /\ l = h + 1 /\ k2 = n /\ l2 = h + 1
    BY <2>2
  <2>3. CASE l \in 2..Len(ch[k].locals) /\ es[k].locals[l] = ch[k].locals[l]
             /\ es[k2].locals[l2].decl = d
    <3>1. ch[k].locals[l].decl \in 1..dc
      BY <2>3, <1>6
    <3> QED
      BY <3>1, <2>3, <1>7
  <2>4. CASE l2 \in 2..Len(ch[k2].locals) /\ es[k2].locals[l2] = ch[k2].locals[l2]
             /\ es[k].locals[l].decl = d
    <3>1. ch[k2].locals[l2].decl \in 1..dc
      BY <2>4, <1>6
    <3> QED
      BY <3>1, <2>4, <1>7
  <2>5. \/ l \in 2..Len(ch[k].locals) /\ es[k].locals[l] = ch[k].locals[l]
        \/ k = n /\ l = h + 1 /\ es[k].locals[l].decl = d
    BY <1>5
  <2>6. \/ l2 \in 2..Len(ch[k2].locals) /\ es[k2].locals[l2] = ch[k2].locals[l2]
        \/ k2 = n /\ l2 = h + 1 /\ es[k2].locals[l2].decl = d
    BY <1>5
  <2> QED
    BY <2>1, <2>2, <2>3, <2>4, <2>5, <2>6
<1>9. Linked(es)
  <2>1. es[1].f.upvalues = <<>>
    <3>1. 1 \in 1..n
      BY <1>1
    <3> QED
      BY <3>1, <1>1 DEF Tied, Linked
  <2>2. ASSUME NEW k \in 2..n, NEW i \in DOMAIN es[k].f.upvalues
        PROVE  Joins(es[k - 1], es[k].f.upvalues[i])
    <3>1. k \in 1..n /\ k - 1 \in 1..n - 1
      BY <1>1
    <3>2. es[k].f.upvalues = ch[k].f.upvalues /\ es[k - 1] = ch[k - 1]
      BY <3>1, <1>1
    <3>3. Joins(ch[k - 1], ch[k].f.upvalues[i])
      BY <3>2, <1>1 DEF Tied, Linked
    <3> QED
      BY <3>2, <3>3
  <2> QED
    BY <2>1, <2>2, <1>1 DEF Linked
<1>10. Flagged(es, ds, d)
  <2>1. ASSUME NEW k \in 1..n, NEW l \in 2..Len(es[k].locals)
        PROVE  es[k].locals[l].captured <=> Taken(es, ds, es[k].locals[l].decl)
    <3>1. CASE l \in 2..Len(ch[k].locals) /\ es[k].locals[l] = ch[k].locals[l]
      <4>1. ch[k].locals[l].captured <=> Taken(ch, ds, ch[k].locals[l].decl)
        BY <3>1, <1>1 DEF Tied, Flagged
      <4> QED
        BY <3>1, <4>1, <1>2, TakenStays
    <3>2. CASE es[k].locals[l].decl = d /\ es[k].locals[l].captured = FALSE
      <4>1. ~ Taken(ch, ds, d)
        BY <1>7 DEF Tied, Flagged, Taken, Captures
      <4> QED
        BY <3>2, <4>1, <1>2, TakenStays
    <3> QED
      BY <3>1, <3>2, <1>5
  <2>2. ASSUME NEW q \in Everyone(es, ds), NEW i \in DOMAIN q.upvalues  PROVE q.upvalues[i].decl \in 1..d
    <3>1. PICK g \in Everyone(ch, ds) : q.upvalues = g.upvalues
      BY <1>2
    <3>2. g.upvalues[i].decl \in 1..dc
      BY <3>1 DEF Tied, Flagged
    <3> QED
      BY <3>1, <3>2, <1>7
  <2> QED
    BY <2>1, <2>2, <1>1 DEF Flagged
<1>11. ASSUME NEW q \in Everyone(es, ds)  PROVE Closed(es, ds, q)
  <2>1. PICK g \in Everyone(ch, ds) : q.upvalues = g.upvalues /\ q.gone = g.gone /\ q.code = g.code
    BY <1>2
  <2>2. Closed(ch, ds, g)
    BY DEF Tied
  <2>3. ASSUME NEW m \in g.gone
        PROVE  /\ \A k \in DOMAIN es : \A l \in 2..Len(es[k].locals) : es[k].locals[l].decl # m.decl
               /\ Operation(q, m.at) = "CLOSE_UPVALUE" <=> Taken(es, ds, m.decl)
    <3>1. /\ \A k \in DOMAIN ch : \A l \in 2..Len(ch[k].locals) : ch[k].locals[l].decl # m.decl
          /\ Operation(g, m.at) = "CLOSE_UPVALUE" <=> Taken(ch, ds, m.decl)
      BY <2>2 DEF Closed
    <3>2. m.decl # d
      BY <1>7 DEF GoneBy
    <3>3. \A k \in DOMAIN es : \A l \in 2..Len(es[k].locals) : es[k].locals[l].decl # m.decl
      BY <3>1, <3>2, <1>1, <1>5
    <3>4. Operation(q, m.at) = Operation(g, m.at)
      BY <2>1 DEF Operation, Instruction
    <3> QED
      BY <3>1, <3>3, <3>4, <1>2, TakenStays
  <2> QED
    BY <2>1, <2>3 DEF Closed
<1> QED
  BY <1>8, <1>9, <1>10, <1>11 DEF Tied

LEMMA MoreIs ==
    ASSUME NEW a, Sane(a), Settled(a), a.all + 1 <= Count
    PROVE  /\ Sane(More(a)) /\ Settled(More(a)) /\ More(a) \in Point
           /\ More(a).level = a.level /\ More(a).depth = a.depth /\ More(a).env = a.env
           /\ More(a).all = a.all + 1 /\ More(a).seen = a.all + 1
           /\ More(a).vars = a.all + 1 /\ More(a).height = a.all + 1
<1>1. /\ a \in Point /\ a.level \in Nat /\ a.depth \in Nat /\ a.env \in Nat /\ a.all \in Nat
      /\ a.seen = a.all /\ a.vars = a.all /\ a.height = a.all /\ a.level >= 1 /\ a.env >= 1
      /\ a.vars >= 1
  BY Points DEF Settled
<1>6. PICK m \in Nat : m = a.all + 1
  BY <1>1
<1> DEFINE z == [a EXCEPT !.all = m, !.seen = m, !.vars = m, !.height = m]
<1>2. More(a) = z
  BY <1>1, <1>6 DEF More
<1>7. /\ z \in Point /\ z.level = a.level /\ z.depth = a.depth /\ z.env = a.env
      /\ z.all = m /\ z.seen = m /\ z.vars = m /\ z.height = m
  BY <1>1 DEF Point
<1>3. /\ z \in Point /\ z.level = a.level /\ z.depth = a.depth /\ z.env = a.env
      /\ z.all = a.all + 1 /\ z.seen = a.all + 1 /\ z.vars = a.all + 1 /\ z.height = a.all + 1
  BY <1>6, <1>7
<1> HIDE DEF z
<1>4. Settled(z)
  BY <1>3 DEF Settled
<1>5. Sane(z)
  <2>1. a.all + 1 >= 1 /\ a.all + 1 - 1 <= a.all + 1
    BY <1>1
  <2> QED
    BY <2>1, <1>1, <1>3 DEF Sane
<1> QED
  BY <1>2, <1>3, <1>4, <1>5

LEMMA DeclaresKeeps ==
    ASSUME NEW c, NEW e, NEW x, NEW dd, NEW d, Declares(c, e, x, dd, d), NEW M, NEW k \in Nat,
           k <= Len(c.locals), NEW dep \in Nat, dep <= c.scopeDepth, e.f.params = c.f.params
    PROVE  Keeps(c, M, e, M, k, dep)
<1>1. /\ c \in Comp /\ c.scopeDepth \in Nat /\ dd \in {-1, c.scopeDepth}
      /\ Len(e.locals) = Len(c.locals) + 1 /\ DOMAIN e.locals = 1..Len(c.locals) + 1
      /\ \A l \in 1..Len(c.locals) : e.locals[l] = c.locals[l]
      /\ e.locals[Len(c.locals) + 1] = [name |-> x, depth |-> dd, captured |-> FALSE, decl |-> d]
      /\ e.f.code = c.f.code /\ e.f.born = c.f.born /\ e.f.upvalues = c.f.upvalues
  BY CompIs DEF Declares
<1>2. PICK h \in Nat : h = Len(c.locals) /\ DOMAIN c.locals = 1..h
  BY <1>1, CompIs
<1>3. Starts(e.f) = Starts(c.f) /\ Spots(e.f) = Spots(c.f)
  BY <1>1 DEF Starts, Spots
<1>4. \A p \in Starts(c.f) : After(e.f, M, p) = After(c.f, M, p)
  BY <1>1 DEF After, Takes, Puts, Operation, Operand, Instruction
<1>5. \A q \in Spots(c.f) : Settles(e.f, M[q], M[q], q)
  BY DEF Settles
<1>6. \A l \in DOMAIN e.locals :
           \/ l \in DOMAIN c.locals /\ e.locals[l].depth = c.locals[l].depth
           \/ l > k /\ e.locals[l].depth \notin 0..dep - 1
  <2> SUFFICES ASSUME NEW l \in 1..h + 1, l \notin 1..h
               PROVE  l > k /\ e.locals[l].depth \notin 0..dep - 1
    BY <1>1, <1>2
  <2>1. l = h + 1
    BY <1>2
  <2>2. e.locals[l].depth = dd
    BY <2>1, <1>1, <1>2
  <2>3. dd \notin 0..dep - 1
    BY <1>1
  <2>4. l > k
    BY <2>1, <1>2
  <2> QED
    BY <2>2, <2>3, <2>4
<1>7. Len(e.locals) = h + 1 /\ DOMAIN e.locals = 1..h + 1 /\ k <= h
  BY <1>1, <1>2
<1>8. \A l \in 1..k : e.locals[l].name = c.locals[l].name /\ e.locals[l].decl = c.locals[l].decl
  <2>1. \A l \in 1..k : l \in 1..h
    BY <1>7, <1>2
  <2> QED
    BY <2>1, <1>1, <1>2
<1>9. Len(e.locals) \in Nat /\ k <= Len(e.locals) /\ DOMAIN e.locals \subseteq Nat
  BY <1>7, <1>2
<1> QED
  BY <1>1, <1>3, <1>4, <1>5, <1>6, <1>8, <1>9 DEF Keeps

LEMMA BumpsTail ==
    ASSUME NEW ch, NEW maps, NEW es, NEW naps, NEW n, NEW en, NEW fn, NEW ew, NEW ec, NEW a,
           NEW x, NEW dd, NEW d, Bumps(ch, maps, es, naps, n, en, fn, ew, ec, a, x, dd, d),
           NEW tw, tw = Tail(ew), NEW tc, tc = Tail(ec), NEW b, b = ec[2]
    PROVE  Behind(ch, maps, es, naps, n, en, fn, ew, ec, a, b, tw, tc)
<1>1. /\ Tops(ch, maps, es, naps, n) /\ Declares(ch[n], es[n], x, dd, d)
      /\ naps[n] = maps[n] \/ ew[1].k = "endFunction"
      /\ Listed(ch, en, maps, ew, ec) /\ ew \in Seq(Item) /\ ec \in Seq(Point)
      /\ ew[1].k \in {"endScope", "endFunction"} /\ a = ec[1]
  BY DEF Bumps
<1>2. /\ Settled(a) /\ Sane(a) /\ a.level = n /\ a.all = Len(ch[n].locals)
      /\ a.depth = ch[n].scopeDepth
      /\ es[n].f.params = ch[n].f.params \/ ew[1].k = "endFunction"
      /\ \A i \in 1..a.env - 1 : fn[i] = en[i]
  BY DEF Bumps
<1>3. Tails(ch, ew, en, ec, maps, ew[1], a, ew[2], b, tw, tc)
  BY <1>1, TailsAre
<1>4. /\ tw \in Seq(Item) /\ tc \in Seq(Point) /\ Len(tc) = Len(tw) /\ Len(tw) >= 1
      /\ tw[1] = ew[2] /\ tc[1] = b /\ Listed(ch, en, maps, tw, tc)
      /\ Link(ch, en, maps, ew[1], a, ew[2], b) /\ Fine(ch, b) /\ ew[2].k # "parameters"
  BY <1>3 DEF Tails
<1>5. Fits(ew[1], a, ew[2], b) /\ Within(ew[1], a, b) /\ Sane(b)
  BY <1>4 DEF Link, Fine
<1>6. /\ b.level \in Nat /\ b.env \in Nat /\ b.env >= 1 /\ b.all \in Nat /\ b.seen \in Nat
      /\ b.seen <= b.all /\ b.depth \in Nat
  BY <1>5, Points
<1>7. /\ ew[1].k = "endScope" => a.depth = b.depth + 1 /\ a.level = b.level /\ b.all <= a.all
      /\ ew[1].k = "endFunction" => a.level = b.level + 1
      /\ a.env = b.env + 1
  BY <1>1, <1>5 DEF Fits
<1>8. b.level <= n
  BY <1>1, <1>2, <1>6, <1>7
<1>9. b.level = n => b.all <= a.all /\ ew[1].k = "endScope" /\ a.depth = b.depth + 1
  BY <1>1, <1>2, <1>6, <1>7
<1>10. b.level = n => Keeps(ch[n], maps[n], es[n], naps[n], b.all, b.depth)
  <2> SUFFICES ASSUME b.level = n  PROVE Keeps(ch[n], maps[n], es[n], naps[n], b.all, b.depth)
    OBVIOUS
  <2>1. b.all <= Len(ch[n].locals) /\ ch[n].scopeDepth = b.depth + 1
    BY <1>2, <1>9
  <2>2. /\ b.depth <= ch[n].scopeDepth /\ es[n].f.params = ch[n].f.params
        /\ naps[n] = maps[n]
    BY <2>1, <1>1, <1>2, <1>6, <1>9
  <2> QED
    BY <2>1, <2>2, <1>1, <1>6, DeclaresKeeps
<1>11. Listed(es, fn, naps, tw, tc)
  <2>1. \A i \in 1..tc[1].env - 1 : fn[i] = en[i]
    <3>1. \A i \in 1..b.env - 1 : i \in 1..a.env - 1
      BY <1>6, <1>7
    <3> QED
      BY <3>1, <1>2, <1>4
  <2>2. tc[1].level <= n /\ (tc[1].level = n => Keeps(ch[n], maps[n], es[n], naps[n], tc[1].all, tc[1].depth))
    BY <1>4, <1>8, <1>10
  <2>3. tw[1].k # "parameters"
    BY <1>4
  <2> QED
    BY <2>1, <2>2, <2>3, <1>1, <1>4, RestTops
<1>12. Rested(es, fn, naps, tw, tc)
  BY <1>4, <1>11 DEF Rested
<1> QED
  BY <1>1, <1>2, <1>3, <1>5, <1>6, <1>7, <1>8, <1>9, <1>12 DEF Behind

LEMMA BumpsLink ==
    ASSUME NEW ch, NEW maps, NEW es, NEW naps, NEW n, NEW en, NEW fn, NEW ew, NEW ec, NEW a,
           NEW x, NEW dd, NEW d, Bumps(ch, maps, es, naps, n, en, fn, ew, ec, a, x, dd, d),
           NEW w, w = ew[1], NEW v, v = ew[2], NEW b, b = ec[2]
    PROVE  Link(es, fn, naps, w, More(a), v, b)
<1>1. /\ Tops(ch, maps, es, naps, n) /\ Declares(ch[n], es[n], x, dd, d)
      /\ naps[n] = maps[n] \/ ew[1].k = "endFunction"
      /\ w.k \in {"endScope", "endFunction"}
  BY DEF Bumps
<1>2. /\ Settled(a) /\ Sane(a) /\ a.level = n /\ a.all = Len(ch[n].locals)
      /\ a.depth = ch[n].scopeDepth /\ a.all + 1 <= Count
      /\ \A i \in 1..a.env - 1 : fn[i] = en[i]
  BY DEF Bumps
<1>a. PICK tw, tc : tw = Tail(ew) /\ tc = Tail(ec)
  OBVIOUS
<1>b. Behind(ch, maps, es, naps, n, en, fn, ew, ec, a, b, tw, tc)
  BY <1>a, BumpsTail
<1>3. /\ Tails(ch, ew, en, ec, maps, w, a, v, b, tw, tc) /\ Sane(b)
      /\ b.level <= n /\ b.level \in Nat /\ a.env = b.env + 1 /\ b.env \in Nat /\ b.env >= 1
      /\ b.level = n => b.all <= a.all /\ w.k = "endScope" /\ a.depth = b.depth + 1
      /\ b.all \in Nat /\ b.seen \in Nat /\ b.seen <= b.all /\ b.depth \in Nat
      /\ w.k = "endFunction" => b.level + 1 = n
  BY <1>b DEF Behind
<1>4. Link(ch, en, maps, w, a, v, b)
  BY <1>3 DEF Tails
<1>5. /\ Settled(More(a)) /\ More(a).level = a.level /\ More(a).depth = a.depth /\ More(a).env = a.env
      /\ More(a).all = a.all + 1 /\ a.all \in Nat
  BY <1>2, MoreIs, Points
<1>6. Fits(w, a, v, b) /\ Within(w, a, b) /\ Holds(w, a, b, ch[n], maps[n])
  BY <1>4, <1>2 DEF Link
<1>7. Fits(w, More(a), v, b)
  <2>1. CASE w.k = "endScope"
    <3>1. Settled(b) /\ a.depth = b.depth + 1 /\ a.level = b.level /\ a.env = b.env + 1 /\ b.all <= a.all
      BY <2>1, <1>6 DEF Fits
    <3>2. b.all <= a.all + 1
      BY <3>1, <1>3, <1>5
    <3> QED
      BY <2>1, <3>1, <3>2, <1>5 DEF Fits
  <2>2. CASE w.k = "endFunction"
    <3>1. a.depth = 1 /\ a.level = b.level + 1 /\ a.env = b.env + 1 /\ v.k = "define" /\ b.seen = b.all
      BY <2>2, <1>6 DEF Fits
    <3> QED
      BY <2>2, <3>1, <1>5 DEF Fits
  <2> QED
    BY <2>1, <2>2, <1>1
<1>8. Within(w, More(a), b)
  <2>1. a.level = b.level => b.all <= a.all + 1
    BY <1>2, <1>3, <1>5
  <2> QED
    BY <2>1, <1>5, <1>6 DEF Within
<1>9. Holds(w, More(a), b, es[n], naps[n])
  <2> SUFFICES ASSUME w.k = "endScope", NEW l \in DOMAIN es[n].locals
               PROVE  l <= b.all <=> es[n].locals[l].depth \in 0..More(a).depth - 1
    BY <1>1 DEF Holds
  <2>1. \A j \in DOMAIN ch[n].locals : j <= b.all <=> ch[n].locals[j].depth \in 0..a.depth - 1
    BY <1>6 DEF Holds
  <2>2. /\ ch[n] \in Comp /\ dd \in {-1, ch[n].scopeDepth}
        /\ DOMAIN es[n].locals = 1..Len(ch[n].locals) + 1
        /\ \A j \in 1..Len(ch[n].locals) : es[n].locals[j] = ch[n].locals[j]
        /\ es[n].locals[Len(ch[n].locals) + 1].depth = dd
    BY <1>1 DEF Declares
  <2>3. PICK h \in Nat : h = Len(ch[n].locals) /\ DOMAIN ch[n].locals = 1..h
    BY <2>2, CompIs
  <2>4. CASE l \in 1..h
    BY <2>1, <2>2, <2>3, <2>4, <1>5
  <2>5. CASE l = h + 1
    <3>1. es[n].locals[l].depth = dd
      BY <2>2, <2>3, <2>5
    <3>2. dd \notin 0..a.depth - 1
      BY <2>2, <1>2, CompIs
    <3>3. b.all <= h
      <4>1. a.all = h
        BY <2>3, <1>2
      <4>2. b.all <= a.all
        BY <1>6 DEF Fits
      <4> QED
        BY <4>1, <4>2
    <3>4. ~ (l <= b.all)
      <4>1. b.all \in Nat
        BY <1>3
      <4> QED
        BY <4>1, <3>3, <2>3, <2>5
    <3> QED
      BY <3>1, <3>2, <3>4, <1>5
  <2> QED
    BY <2>2, <2>3, <2>4, <2>5
<1>10. Named(es, fn, b)
  <2>1. Named(ch, en, b)
    BY <1>1, <1>4 DEF Link
  <2>2. \A j \in 1..n - 1 : es[j] = ch[j]
    BY <1>1 DEF Tops
  <2>3. SameNames(ch, es, b.level, b.seen)
    <3> SUFFICES ASSUME NEW j \in 1..b.level
                 PROVE  /\ j = b.level \/ Len(es[j].locals) = Len(ch[j].locals)
                        /\ \A l \in 1..(IF j = b.level THEN b.seen ELSE Len(ch[j].locals)) :
                               /\ es[j].locals[l].name = ch[j].locals[l].name
                               /\ es[j].locals[l].decl = ch[j].locals[l].decl
      BY DEF SameNames
    <3>1. n \in Nat
      BY <1>1 DEF Tops
    <3>2. CASE j # n
      <4>1. j \in 1..n - 1
        BY <3>1, <3>2, <1>3
      <4> QED
        BY <4>1, <2>2
    <3>3. CASE j = n
      <4>1. b.level = n /\ b.all <= a.all
        BY <3>1, <3>3, <1>3
      <4>2. \A l \in 1..b.seen : l \in 1..Len(ch[n].locals)
        <5>1. b.seen <= Len(ch[n].locals)
          BY <4>1, <1>2, <1>3, <1>5
        <5>2. Len(ch[n].locals) \in Nat
          BY <1>2, <1>5
        <5> QED
          BY <5>1, <5>2, <1>3
      <4>3. \A l \in 1..Len(ch[n].locals) : es[n].locals[l] = ch[n].locals[l]
        BY <1>1 DEF Declares
      <4> QED
        BY <3>3, <4>1, <4>2, <4>3
    <3> QED
      BY <3>2, <3>3
  <2>4. fn[b.env] = en[b.env]
    <3>1. b.env \in 1..a.env - 1
      BY <1>3
    <3> QED
      BY <3>1, <1>2
  <2> QED
    BY <2>1, <2>3, <2>4, <1>3, NamedStays
<1>11. w.k = "endFunction" =>
           Here(es[b.level], naps[b.level], b, Stack(es[b.level], Raise(b, -1)))
  <2> SUFFICES ASSUME w.k = "endFunction"
               PROVE  Here(es[b.level], naps[b.level], b, Stack(es[b.level], Raise(b, -1)))
    OBVIOUS
  <2>1. Here(ch[b.level], maps[b.level], b, Stack(ch[b.level], Raise(b, -1)))
    BY <1>4 DEF Link
  <2>2. b.level \in 1..n - 1
    <3>1. b.level >= 1
      BY <1>3, Points
    <3> QED
      BY <3>1, <1>3
  <2>3. es[b.level] = ch[b.level] /\ naps[b.level] = maps[b.level]
    BY <2>2, <1>1 DEF Tops
  <2> QED
    BY <2>1, <2>3
<1> QED
  BY <1>2, <1>5, <1>7, <1>8, <1>9, <1>10, <1>11 DEF Link

LEMMA BumpsFine ==
    ASSUME NEW ch, NEW maps, NEW es, NEW naps, NEW n, NEW en, NEW fn, NEW ew, NEW ec, NEW a,
           NEW x, NEW dd, NEW d, Bumps(ch, maps, es, naps, n, en, fn, ew, ec, a, x, dd, d),
           NEW p, p = More(a)
    PROVE  Fine(es, p) /\ Settled(p)
<1>1. /\ Tops(ch, maps, es, naps, n) /\ Declares(ch[n], es[n], x, dd, d)
      /\ Settled(a) /\ Sane(a) /\ a.level = n /\ a.all = Len(ch[n].locals) /\ a.all + 1 <= Count
      /\ Len(es[n].f.params) <= a.all
  BY DEF Bumps
<1>2. /\ Sane(p) /\ Settled(p) /\ p.level = n /\ p.all = a.all + 1 /\ p.vars = a.all + 1
  BY <1>1, MoreIs
<1>3. n \in DOMAIN es
  BY <1>1 DEF Tops
<1>4. p.vars > Len(es[n].f.params)
  <2>1. a.all \in Nat
    BY <1>1, Points
  <2>2. es[n].f \in Function
    BY <1>1, CompIs DEF Declares
  <2>3. Len(es[n].f.params) \in Nat
    BY <2>2, CodeBytes
  <2> QED
    BY <2>1, <2>3, <1>1, <1>2
<1>5. p.all <= Len(es[n].locals)
  <2>1. Len(es[n].locals) = Len(ch[n].locals) + 1
    BY <1>1 DEF Declares
  <2>2. a.all \in Nat
    BY <1>1, Points
  <2> QED
    BY <2>1, <2>2, <1>1, <1>2
<1> QED
  BY <1>2, <1>3, <1>4, <1>5 DEF Fine

LEMMA BumpsEnd ==
    ASSUME NEW ch, NEW maps, NEW es, NEW naps, NEW n, NEW en, NEW fn, NEW ew, NEW ec, NEW a,
           NEW x, NEW dd, NEW d, Bumps(ch, maps, es, naps, n, en, fn, ew, ec, a, x, dd, d),
           NEW p, p = More(a)
    PROVE  \E q : Moved(es, fn, naps, ew, ec, q, p)
<1>1. PICK tw, tc, b, w : tw = Tail(ew) /\ tc = Tail(ec) /\ b = ec[2] /\ w = ew[1]
  OBVIOUS
<1>2. Behind(ch, maps, es, naps, n, en, fn, ew, ec, a, b, tw, tc)
  BY <1>1, BumpsTail
<1>3. /\ Tails(ch, ew, en, ec, maps, w, a, ew[2], b, tw, tc) /\ Rested(es, fn, naps, tw, tc)
  BY <1>1, <1>2 DEF Behind
<1>4. /\ tw[1] = ew[2] /\ \A k : Pending(ew, ec, k) = (IF a.level = k THEN Holes(w) ELSE {}) \cup Pending(tw, tc, k)
      /\ Link(ch, en, maps, w, a, ew[2], b) /\ tc[1] = b
  BY <1>3 DEF Tails
<1>5. /\ w.k \in {"endScope", "endFunction"} /\ ew \in Seq(Item) /\ Listed(ch, en, maps, ew, ec)
  BY <1>1 DEF Bumps
<1>6. Len(ew) >= 1
  BY <1>5 DEF Listed
<1>7. ew = <<w>> \o tw /\ w \in Item
  BY <1>1, <1>5, <1>6, Popped
<1>8. Holes(w) = {}
  BY <1>5 DEF Holes
<1>9. Link(es, fn, naps, w, p, ew[2], b)
  BY <1>1, BumpsLink
<1>10. Fine(es, p) /\ Settled(p)
  BY BumpsFine
<1>11. Fresh(es, fn, naps, tw, tc, w, p)
  <2>1. tw[1].k # "parameters"
    BY <1>3 DEF Rested
  <2>2. p.vars = p.seen
    BY <1>10 DEF Settled
  <2> QED
    BY <2>1, <2>2, <1>4, <1>8, <1>9, <1>10 DEF Fresh
<1> DEFINE q == <<p>> \o tc
<1>12. Pushes(es, fn, naps, tw, tc, w, p, ew, q)
  BY <1>3, <1>7, <1>11, PushAny
<1>13. Rested(es, fn, naps, ew, q)
  BY <1>12, <1>5, PushRests
<1>14. q[1] = p /\ \A k : Pending(ew, q, k) = (IF p.level = k THEN Holes(w) ELSE {}) \cup Pending(tw, tc, k)
  BY <1>12 DEF Pushes
<1> HIDE DEF q
<1>15. \A k : Pending(ew, q, k) = Pending(ew, ec, k)
  BY <1>4, <1>8, <1>14
<1> QED
  BY <1>10, <1>13, <1>14, <1>15 DEF Moved

LEMMA BumpsOver ==
    ASSUME NEW ch, NEW maps, NEW es, NEW naps, NEW n, NEW en, NEW fn, NEW rw, NEW rc, NEW a,
           NEW x, NEW dd, NEW d, NEW ew, NEW ec,
           BumpsFlat(ch, maps, es, naps, n, en, fn, rw, rc, a, x, dd, d, ew, ec),
           NEW p, p = More(a)
    PROVE  \E q : Moved(es, fn, naps, rw, rc, q, p)
<1>1. /\ Listed(ch, en, maps, rw, rc) /\ rw \in Seq(Item) /\ rc \in Seq(Point) /\ Len(rw) >= 2
      /\ Flat(rw[1], rw[2]) /\ ew = Tail(rw) /\ ec = Tail(rc)
      /\ Bumps(ch, maps, es, naps, n, en, fn, ew, ec, a, x, dd, d)
  BY DEF BumpsFlat
<1>2. PICK t : Moved(es, fn, naps, ew, ec, t, p)
  BY <1>1, BumpsEnd
<1>3. /\ Rested(es, fn, naps, ew, t) /\ t[1] = p /\ Fine(es, p) /\ Settled(p)
      /\ \A k : Pending(ew, t, k) = Pending(ew, ec, k)
  BY <1>2 DEF Moved
<1>4. PICK w, v, b, c : w = rw[1] /\ v = rw[2] /\ b = rc[1] /\ c = rc[2]
  OBVIOUS
<1>5. rw[1].k # "endScript"
  BY <1>1 DEF Flat
<1>6. Tails(ch, rw, en, rc, maps, w, b, v, c, ew, ec)
  BY <1>1, <1>4, <1>5, TailsAre
<1>7. /\ ew[1] = v /\ \A k : Pending(rw, rc, k) = (IF b.level = k THEN Holes(w) ELSE {}) \cup Pending(ew, ec, k)
  BY <1>6 DEF Tails
<1>8. rw = <<w>> \o ew /\ w \in Item
  BY <1>1, <1>4, Popped
<1>9. Holes(w) = {}
  BY <1>1, <1>4 DEF Flat, Holes
<1>10. Flat(w, ew[1])
  BY <1>1, <1>4, <1>7
<1> DEFINE q == <<p>> \o t
<1>11. FlatPush(es, fn, naps, ew, t, w, rw, q)
  BY <1>3, <1>8, <1>10, FlatPushed
<1>12. /\ Rested(es, fn, naps, rw, q) /\ q[1] = t[1]
       /\ \A k : Pending(rw, q, k) = Pending(ew, t, k)
  BY <1>11 DEF FlatPush
<1> HIDE DEF q
<1>13. \A k : Pending(rw, q, k) = Pending(rw, rc, k)
  BY <1>3, <1>7, <1>9, <1>12
<1> QED
  BY <1>3, <1>12, <1>13 DEF Moved

-----------------------------------------------------------------------------
(* Declarations of variables.                                              *)

LEMMA InitializerPushed ==
    ASSUME NEW es, NEW fn, NEW naps, NEW rw, NEW rq, Rested(es, fn, naps, rw, rq),
           NEW p0, NEW p1, NEW s, Initializes(es, p0, p1, s, rw[1], rq[1]),
           NEW r, r = <<Expression>> \o (<<Defines(s)>> \o rw)
    PROVE  \E q : Begun(es, fn, naps, rw, rq, r, q, p0)
<1>1. /\ Fine(es, p0) /\ Fine(es, p1) /\ p1 = Raise(p0, 1) /\ p0.vars = p0.seen
      /\ s \in Seq(Bytes) /\ Fits(Defines(s), p1, rw[1], rq[1])
      /\ p0.level = rq[1].level /\ p0.env = rq[1].env /\ p0.depth = rq[1].depth /\ p0.all = rq[1].all
  BY DEF Initializes
<1>2. PICK w, v, b, e : w = Defines(s) /\ v = rw[1] /\ b = rq[1] /\ e = Expression
  OBVIOUS
<1>3. /\ w \in Item /\ w.k = "define" /\ w.s = s
  BY <1>1, <1>2, EmitsIs
<1>4. /\ e \in Item /\ e.k = "expression"
  BY <1>2, DoIs DEF Expression, Kinds
<1>5. /\ Sane(p0) /\ p0 \in Point /\ p0.level \in Nat /\ p0.env \in Nat /\ p0.depth \in Nat /\ p0.all \in Nat
  BY <1>1, Points DEF Fine
<1>6. /\ p1.level = p0.level /\ p1.env = p0.env /\ p1.depth = p0.depth /\ p1.all = p0.all
  BY <1>1, <1>5, Raised
<1>7. Holes(w) = {} /\ Holes(e) = {}
  BY <1>3, <1>4 DEF Holes
<1>8. rw[1].k # "parameters"
  BY DEF Rested
<1>9. Within(w, p1, b)
  BY <1>1, <1>2, <1>3, <1>5, <1>6 DEF Within
<1>10. Holds(w, p1, b, es[p1.level], naps[p1.level])
  BY <1>3 DEF Holds
<1>11. Link(es, fn, naps, w, p1, v, b)
  BY <1>1, <1>2, <1>3, <1>9, <1>10 DEF Link
<1>12. Fresh(es, fn, naps, rw, rq, w, p1)
  BY <1>1, <1>2, <1>3, <1>7, <1>8, <1>11 DEF Fresh
<1>13. PICK r1, q1 : r1 = <<w>> \o rw /\ q1 = <<p1>> \o rq
  OBVIOUS
<1>14. Pushes(es, fn, naps, rw, rq, w, p1, r1, q1)
  BY <1>3, <1>12, <1>13, PushAny
<1>15. Rested(es, fn, naps, r1, q1)
  BY <1>3, <1>14, PushRests
<1>16. /\ r1[1] = w /\ q1[1] = p1
       /\ \A k : Pending(r1, q1, k) = (IF p1.level = k THEN Holes(w) ELSE {}) \cup Pending(rw, rq, k)
  BY <1>14 DEF Pushes
<1>17. Link(es, fn, naps, e, p0, w, p1)
  <2>1. Fits(e, p0, w, p1)
    BY <1>1, <1>4 DEF Fits
  <2>2. Within(e, p0, p1)
    BY <1>4, <1>5, <1>6 DEF Within
  <2>3. Holds(e, p0, p1, es[p0.level], naps[p0.level])
    BY <1>4 DEF Holds
  <2> QED
    BY <2>1, <2>2, <2>3, <1>4 DEF Link
<1>18. Fresh(es, fn, naps, r1, q1, e, p0)
  BY <1>1, <1>3, <1>7, <1>16, <1>17 DEF Fresh
<1>19. PICK q : q = <<p0>> \o q1
  OBVIOUS
<1>20. r = <<e>> \o r1
  BY <1>2, <1>13
<1>21. Pushes(es, fn, naps, r1, q1, e, p0, r, q)
  BY <1>4, <1>15, <1>18, <1>19, <1>20, PushAny
<1>22. Rested(es, fn, naps, r, q)
  BY <1>4, <1>21, PushRests
<1>23. /\ q[1] = p0
       /\ \A k : Pending(r, q, k) = (IF p0.level = k THEN Holes(e) ELSE {}) \cup Pending(r1, q1, k)
  BY <1>21 DEF Pushes
<1>24. \A k : Pending(r, q, k) = Pending(rw, rq, k)
  BY <1>7, <1>16, <1>23
<1>25. Begun(es, fn, naps, rw, rq, r, q, p0)
  BY <1>22, <1>23, <1>24 DEF Begun
<1> QED
  BY <1>25

LEMMA ConstantIs ==
    ASSUME NEW c \in Comp, NEW v \in Nat, NEW e, e = MakeConstant(c, v)
    PROVE  /\ Constant(c, v, e)
           /\ e.error = (c.error \/ Len(c.f.constants) >= Count)
           /\ ConstantIndex(c) \in Nat
           /\ ~ e.error => ConstantIndex(c) = Len(c.f.constants)
<1>1. c.f \in Function /\ c.f.constants \in Seq(Nat) /\ c.error \in BOOLEAN
  BY DEF Comp, Function
<1>2. PICK t : t = Append(c.f.constants, v)
  OBVIOUS
<1>3. /\ t \in Seq(Nat) /\ Len(t) = Len(c.f.constants) + 1 /\ t[Len(c.f.constants) + 1] = v
      /\ \A i \in 1..Len(c.f.constants) : t[i] = c.f.constants[i]
      /\ DOMAIN t = 1..Len(c.f.constants) + 1
  BY <1>1, <1>2, AppendIs
<1>4. /\ Len(c.f.constants) \in Nat /\ DOMAIN c.f.constants = 1..Len(c.f.constants)
  BY <1>1, SeqIs
<1>5. PICK g : g = [c.f EXCEPT !.constants = t]
  OBVIOUS
<1>6. /\ g \in Function /\ g.constants = t /\ g.code = c.f.code /\ g.upvalues = c.f.upvalues
      /\ g.params = c.f.params /\ g.born = c.f.born /\ g.gone = c.f.gone /\ g.land = c.f.land
  BY <1>1, <1>3, <1>5 DEF Function
<1>7. PICK m \in BOOLEAN : m = (c.error \/ Len(c.f.constants) >= Count)
  BY <1>1, <1>4, CompilerConstants
<1>8. e = [c EXCEPT !.f.constants = t, !.error = m]
  BY <1>2, <1>7 DEF MakeConstant
<1>9. /\ e \in Comp /\ e.locals = c.locals /\ e.scopeDepth = c.scopeDepth /\ e.f = g /\ e.error = m
  BY <1>5, <1>6, <1>8 DEF Comp
<1>10. \A i \in DOMAIN c.f.constants : i \in DOMAIN t /\ t[i] = c.f.constants[i]
  BY <1>3, <1>4
<1>11. Len(c.f.constants) + 1 \in DOMAIN t
  BY <1>3, <1>4
<1>12. Constant(c, v, e)
  BY <1>3, <1>6, <1>9, <1>10, <1>11 DEF Constant
<1>13. ConstantIndex(c) \in Nat /\ (~ e.error => ConstantIndex(c) = Len(c.f.constants))
  <2>1. /\ ConstantIndex(c) \in Nat
        /\ ~ (Len(c.f.constants) >= Count) => ConstantIndex(c) = Len(c.f.constants)
    BY <1>4, CompilerConstants DEF ConstantIndex
  <2>2. ~ e.error => ~ (Len(c.f.constants) >= Count)
    BY <1>7, <1>9, Zenon
  <2> QED
    BY <2>1, <2>2
<1> QED
  BY <1>7, <1>9, <1>12, <1>13

\* More constants disturb nothing.
LEMMA ConstantWrites ==
    ASSUME NEW ds \in Seq(Function), NEW dc \in Nat, NEW c, NEW M, NEW P, NEW h, NEW sl, NEW v,
           Wrote(ds, dc, c, M, P, h, sl, v), NEW k, NEW e, Constant(c, k, e)
    PROVE  Grown(ds, dc, c, M, e, M, P, h, sl, v)
<1>1. /\ c \in Comp /\ c.f \in Function /\ e.f \in Function
  BY CompIs DEF Wrote, Constant
<1>2. /\ Sound(ds, c.f, M, P, Global, dc) /\ M[Len(c.f.code)].height = h /\ M[Len(c.f.code)].slot = sl
      /\ Clear(c.f, h, sl, v)
  BY DEF Wrote, Coding
<1>3. /\ e \in Comp /\ e.locals = c.locals /\ e.scopeDepth = c.scopeDepth
      /\ e.f.code = c.f.code /\ e.f.upvalues = c.f.upvalues /\ e.f.params = c.f.params
      /\ e.f.born = c.f.born /\ e.f.gone = c.f.gone /\ e.f.land = c.f.land
      /\ \A i \in DOMAIN c.f.constants : i \in DOMAIN e.f.constants /\ e.f.constants[i] = c.f.constants[i]
  BY DEF Constant
<1>4. Sound(ds, e.f, M, P, Global, dc)
  BY <1>1, <1>2, <1>3, Tables
<1>5. Coding(ds, dc, e.f, M, P, h, sl)
  BY <1>1, <1>2, <1>3, <1>4 DEF Coding
<1>6. Clear(e.f, h, sl, v)
  BY <1>2, <1>3 DEF Clear
<1>7. Onward(c.f, M, e.f, M)
  <2>1. Starts(e.f) = Starts(c.f) /\ Spots(e.f) = Spots(c.f)
    BY <1>3 DEF Starts, Spots
  <2>2. \A p : After(e.f, M, p) = After(c.f, M, p) /\ Operation(e.f, p) = Operation(c.f, p)
    BY <1>3 DEF After, Takes, Puts, Operation, Operand, Instruction
  <2>3. Len(c.f.code) <= Len(e.f.code)
    BY <1>1, <1>3, CodeBytes
  <2> QED
    BY <2>1, <2>2, <2>3, <1>3 DEF Onward
<1>8. Coder(c, M, e, M)
  BY <1>3, <1>7 DEF Coder
<1> QED
  BY <1>3, <1>5, <1>6, <1>8 DEF Grown, Wrote

LEMMA ConstantLimits ==
    ASSUME NEW c, NEW v, NEW e, Constant(c, v, e), Limits(c)
    PROVE  Limits(e)
  BY DEF Constant, Limits

LEMMA DeclaringIs ==
    ASSUME NEW ch, NEW wk, NEW ds, NEW en, NEW dc, NEW ctx, NEW maps, NEW n, NEW a, NEW c, NEW rw,
           NEW rc, Declaring(ch, wk, ds, en, dc, ctx, maps, n, a, c, rw, rc)
    PROVE  Declarer(ch, wk, ds, en, dc, maps, n, a, c, rc)
<1>1. /\ Ready(ch, wk, ds, en, dc, ctx, maps) /\ wk[1].k \in {"declarations", "initializer"}
      /\ n = Len(ch) /\ c = ch[n] /\ a = ctx[1] /\ rc = RestCtx(wk, ctx)
      /\ Types(ch, wk, ds, en, dc) /\ Good(ch, wk, ds, en, dc, ctx, maps)
  BY DEF Declaring, Ready
<1>2. /\ ds \in Seq(Function) /\ dc \in Nat /\ n \in Nat /\ n >= 1
      /\ c \in Comp /\ Limits(c) /\ Locals(c, dc) /\ Sane(a) /\ a.all = Len(c.locals)
  BY <1>1, AtCode
<1>3. /\ a.level = n /\ a.depth = c.scopeDepth /\ n \in DOMAIN ch /\ ch \in Seq(Comp)
      /\ Heads(ch, en, maps, wk, ctx) /\ Listed(ch, en, maps, wk, ctx)
  BY <1>1, GoodIs
<1>4. a.env = Len(en) /\ Here(c, maps[n], a, Stack(c, a)) /\ Named(ch, en, a)
  BY <1>1, <1>3 DEF Heads
<1>5. rc[1] = a /\ Settled(a)
  BY <1>1, RestPoint
<1>6. Fine(ch, a)
  <2>1. Len(wk) \in Nat /\ Len(wk) >= 1 /\ \A i \in 1..Len(wk) : Fine(ch, ctx[i])
    BY <1>3 DEF Listed
  <2> QED
    BY <2>1, <1>1
<1>7. Holes(wk[1]) = {}
  BY <1>1 DEF Holes
<1>8. a \in Point
  BY <1>2, Points
<1> QED
  BY <1>2, <1>3, <1>4, <1>5, <1>6, <1>7, <1>8 DEF Declarer

LEMMA GlobalVarStep ==
    ASSUME NEW ch, NEW wk, NEW ds, NEW en, NEW dc, NEW ctx, NEW maps, NEW n, NEW a, NEW c, NEW rw,
           NEW rc, Declaring(ch, wk, ds, en, dc, ctx, maps, n, a, c, rw, rc), c.scopeDepth = 0,
           NEW e, e = MakeConstant(c, Global), ~ e.error, NEW es, es = [ch EXCEPT ![n] = e],
           NEW s, s = <<Op("DEFINE_GLOBAL"), Byte(ConstantIndex(c))>>
    PROVE  Valid(es, <<Expression>> \o (<<Defines(s)>> \o rw), ds, en, dc)
<1>1. /\ n \in Nat /\ n >= 1 /\ n \in DOMAIN ch /\ c \in Comp /\ Limits(c)
      /\ Settled(a) /\ Sane(a) /\ a \in Point /\ a.level = n /\ a.depth = c.scopeDepth
      /\ rc[1] = a /\ Fine(ch, a) /\ Holes(wk[1]) = {}
      /\ ch \in Seq(Comp) /\ ds \in Seq(Function) /\ dc \in Nat
  <2>1. Declarer(ch, wk, ds, en, dc, maps, n, a, c, rc)
    BY DeclaringIs
  <2> QED
    BY <2>1 DEF Declarer
<1>2. /\ Ready(ch, wk, ds, en, dc, ctx, maps) /\ n = Len(ch) /\ c = ch[n] /\ a = ctx[1]
      /\ rw = RestWork(wk) /\ rc = RestCtx(wk, ctx)
  BY DEF Declaring
<1>3. Constant(c, Global, e) /\ ConstantIndex(c) \in Nat
  BY <1>1, ConstantIs DEF Global
<1>4. PICK P, M : P = Pending(rw, rc, n) /\ M = maps[n]
  OBVIOUS
<1>5. P = Pending(wk, ctx, n)
  <2>1. Pending(wk, ctx, Len(ch)) =
            Holes(wk[1]) \cup Pending(RestWork(wk), RestCtx(wk, ctx), Len(ch))
    BY <1>2, RestOpen
  <2>2. Pending(wk, ctx, n) = Holes(wk[1]) \cup Pending(rw, rc, n)
    BY <2>1, <1>2
  <2> QED
    BY <2>2, <1>1, <1>4
<1>6. Wrote(ds, dc, c, M, P, a.height, SlotsOf(c, a.vars), a.vars)
  BY <1>2, <1>4, <1>5, AtWrote
<1>7. Grown(ds, dc, c, M, e, M, P, a.height, SlotsOf(c, a.vars), a.vars)
  BY <1>1, <1>3, <1>6, ConstantWrites
<1>8. Coder(c, M, e, M) /\ Coding(ds, dc, e.f, M, P, a.height, SlotsOf(c, a.vars))
  BY <1>7 DEF Grown, Wrote
<1>9. Turn(ch, wk, ds, en, dc, ctx, maps, e, M, es, P)
  BY <1>2, <1>4, <1>8 DEF Turn
<1>10. PICK naps : naps = Renewed(ch, maps, M)
  OBVIOUS
<1>11. Left(ch, wk, en, ctx, es, naps, rw, rc, P) /\ es[n] = e
  <2>1. Left(ch, wk, en, ctx, es, Renewed(ch, maps, M), RestWork(wk), RestCtx(wk, ctx), P)
    BY <1>9, TurnStart, Zenon
  <2>2. es[n] = e
    BY <1>1, <1>2
  <2> QED
    BY <2>1, <2>2, <1>2, <1>10
<1>12. /\ Listed(es, en, naps, rw, rc) /\ rw \in Seq(Item) /\ rc \in Seq(Point)
       /\ Len(rc) = Len(rw) /\ Len(rw) >= 1 /\ rw[1].k # "parameters"
       /\ \A k \in 1..n - 1 : Pending(rw, rc, k) = Pending(wk, ctx, k)
  BY <1>2, <1>11 DEF Left, Going
<1>13. Rested(es, en, naps, rw, rc)
  BY <1>12 DEF Rested
<1>14. Initializes(es, a, Raise(a, 1), s, rw[1], rc[1])
  <2>1. a.vars = a.seen /\ a.vars = a.all
    BY <1>1 DEF Settled
  <2>2. Under(a, Raise(a, 1))
    BY <1>1, <2>1, Rises
  <2>3. n \in DOMAIN es
    BY <1>1, <1>2
  <2>4. a.vars > Len(es[n].f.params) /\ a.all <= Len(es[n].locals)
    BY <1>1, <1>2, <1>3, <1>11 DEF Fine, Constant
  <2>5. Fine(es, a)
    BY <1>1, <2>3, <2>4 DEF Fine
  <2>6. /\ Raise(a, 1).level = a.level /\ Raise(a, 1).depth = a.depth
        /\ Raise(a, 1).all = a.all /\ Raise(a, 1).vars = a.vars
    BY <1>1, Raised
  <2>7. Fine(es, Raise(a, 1))
    BY <2>2, <2>5, <2>6 DEF Fine, Under
  <2>8. s \in Seq(Bytes) /\ \E i \in Nat : s = <<Op("DEFINE_GLOBAL"), Byte(i)>>
    BY <1>3, OpShort DEF Short
  <2>9. Fits(Defines(s), Raise(a, 1), rw[1], a)
    <3>1. Defines(s).k = "define" /\ Defines(s).s = s
      BY <2>8, EmitsIs
    <3> QED
      BY <3>1, <2>6, <2>8, <1>1 DEF Fits
  <2> QED
    BY <1>1, <2>1, <2>5, <2>7, <2>8, <2>9 DEF Initializes
<1> DEFINE r == <<Expression>> \o (<<Defines(s)>> \o rw)
<1>15. PICK q : Begun(es, en, naps, rw, rc, r, q, a)
  BY <1>13, <1>14, InitializerPushed
<1> HIDE DEF r
<1>16. /\ Rested(es, en, naps, r, q) /\ q[1] = a /\ \A k : Pending(r, q, k) = Pending(rw, rc, k)
  BY <1>15 DEF Begun
<1>17. Left(ch, wk, en, ctx, es, naps, r, q, P)
  <2>1. Beside(a, a)
    BY <1>1 DEF Beside, Point
  <2>2. Going(es, en, naps, a, r, q)
    BY <1>16, <2>1 DEF Going, Rested
  <2> QED
    BY <2>2, <1>2, <1>4, <1>12, <1>16 DEF Left
<1>18. Valid(es, r, ds, en, dc)
  <2>1. Coding(ds, dc, e.f, M, P, q[1].height, SlotsOf(ch[Len(ch)], ctx[1].vars))
    BY <1>2, <1>8, <1>16
  <2> QED
    BY <2>1, <1>9, <1>10, <1>17, TurnEnd
<1> QED
  BY <1>18 DEF r

\* The scope of a declaration that is not global ends some time.
LEMMA EndsThere ==
    ASSUME NEW ch, NEW en, NEW maps, NEW ew, NEW ec, Listed(ch, en, maps, ew, ec),
           ew[1].k = "endScript"
    PROVE  ec[1].depth = 0
<1>1. PICK m \in Nat : m = Len(ew) /\ m >= 1
  <2>1. Len(ew) \in Nat /\ Len(ew) >= 1
    BY DEF Listed
  <2> QED
    BY <2>1
<1>2. /\ \A i \in 1..m - 1 : Link(ch, en, maps, ew[i], ec[i], ew[i + 1], ec[i + 1])
      /\ ec[m].depth = 0
  BY <1>1 DEF Listed
<1>3. m = 1
  <2> SUFFICES ASSUME m # 1 PROVE FALSE
    OBVIOUS
  <2>1. 1 \in 1..m - 1
    BY <1>1
  <2>2. Fits(ew[1], ec[1], ew[1 + 1], ec[1 + 1])
    BY <2>1, <1>2 DEF Link
  <2> QED
    BY <2>2 DEF Fits
<1> QED
  BY <1>2, <1>3

\* What comes after a declaration.
LEMMA DeclaringRest ==
    ASSUME NEW ch, NEW wk, NEW ds, NEW en, NEW dc, NEW ctx, NEW maps, NEW n, NEW a, NEW c, NEW rw,
           NEW rc, Declaring(ch, wk, ds, en, dc, ctx, maps, n, a, c, rw, rc)
    PROVE  /\ Listed(ch, en, maps, rw, rc) /\ rw \in Seq(Item) /\ rc \in Seq(Point)
           /\ rw[1].k \in {"declarations", "for"} /\ Splits(wk, ctx, rw, rc, n)
<1>1. /\ Ready(ch, wk, ds, en, dc, ctx, maps) /\ wk[1].k \in {"declarations", "initializer"}
      /\ n = Len(ch) /\ a = ctx[1] /\ rw = RestWork(wk) /\ rc = RestCtx(wk, ctx)
  BY DEF Declaring
<1>2. /\ wk \in Seq(Item) /\ ctx \in Seq(Point) /\ Listed(ch, en, maps, wk, ctx)
      /\ ctx[1].level = n /\ n \in Nat
  BY <1>1, GoodIs DEF Ready
<1>3. /\ Splits(wk, ctx, RestWork(wk), RestCtx(wk, ctx), n)
      /\ Listed(ch, en, maps, RestWork(wk), RestCtx(wk, ctx))
      /\ RestWork(wk) \in Seq(Item) /\ RestCtx(wk, ctx) \in Seq(Point)
      /\ Link(ch, en, maps, wk[1], ctx[1], wk[2], ctx[2])
  BY <1>1, <1>2, SplitsRest
<1>4. rw[1].k \in {"declarations", "for"}
  <2>1. wk[1].k = "initializer" => wk[2].k = "for"
    BY <1>3 DEF Link, Fits
  <2>2. IF wk[1].k = "declarations" THEN rw[1] = wk[1] ELSE rw[1] = wk[2]
    BY <1>1, <1>3 DEF Splits
  <2> QED
    BY <1>1, <2>1, <2>2
<1> QED
  BY <1>1, <1>3, <1>4

LEMMA LocallyBumps ==
    ASSUME NEW ch, NEW wk, NEW ds, NEW en, NEW dc, NEW ctx, NEW maps, NEW n, NEW a, NEW c, NEW rw,
           NEW rc, NEW e, NEW es, NEW naps, NEW fn, NEW x, NEW dd, NEW d,
           Locally(ch, wk, ds, en, dc, ctx, maps, n, a, c, rw, rc, e, es, naps, fn, x, dd, d),
           NEW p, p = More(a)
    PROVE  \E q : Moved(es, fn, naps, rw, rc, q, p)
<1>1. /\ Declaring(ch, wk, ds, en, dc, ctx, maps, n, a, c, rw, rc)
      /\ Declares(c, e, x, dd, d) /\ e.f.params = c.f.params /\ Len(e.locals) <= Count
      /\ Changed(ch, maps, e, maps[n], es, naps)
      /\ \A i \in 1..a.env - 1 : fn[i] = en[i]
  BY DEF Locally
<1>2. Declarer(ch, wk, ds, en, dc, maps, n, a, c, rc)
  BY <1>1, DeclaringIs
<1>3. /\ n \in Nat /\ n >= 1 /\ n \in DOMAIN ch /\ c \in Comp /\ Locals(c, dc)
      /\ Settled(a) /\ Sane(a) /\ a.level = n /\ a.depth = c.scopeDepth
      /\ a.all = Len(c.locals) /\ rc[1] = a
  BY <1>2 DEF Declarer
<1>4. /\ Listed(ch, en, maps, rw, rc) /\ rw \in Seq(Item) /\ rc \in Seq(Point)
      /\ rw[1].k \in {"declarations", "for"}
  BY <1>1, DeclaringRest
<1>5. /\ Types(ch, wk, ds, en, dc) /\ Good(ch, wk, ds, en, dc, ctx, maps) /\ c = ch[n] /\ n = Len(ch)
  BY <1>1 DEF Declaring, Ready
<1>6. e \in Comp /\ Len(e.locals) = Len(c.locals) + 1 /\ c.scopeDepth >= 1
  BY <1>1 DEF Declares
<1>7. Tops(ch, maps, es, naps, n) /\ es[n] = e /\ naps[n] = maps[n]
  BY <1>1, <1>5, <1>6, TopsAre
<1>8. PICK w, v, b, ew, ec : w = rw[1] /\ v = rw[2] /\ b = rc[2] /\ ew = Tail(rw) /\ ec = Tail(rc)
  OBVIOUS
<1>9. Tails(ch, rw, en, rc, maps, w, a, v, b, ew, ec)
  <2>1. rw[1].k # "endScript"
    BY <1>4
  <2> QED
    BY <2>1, <1>3, <1>4, <1>8, TailsAre
<1>10. /\ ew \in Seq(Item) /\ ec \in Seq(Point) /\ ew[1] = v /\ ec[1] = b /\ Len(rw) >= 2
       /\ Listed(ch, en, maps, ew, ec) /\ Link(ch, en, maps, w, a, v, b)
  BY <1>9 DEF Tails
<1>11. b = a /\ Flat(w, v) /\ v.k \in Ends
  <2>1. Fits(w, a, v, b)
    BY <1>10 DEF Link
  <2> QED
    BY <2>1, <1>4, <1>8 DEF Fits, Flat, Ends
<1>12. v.k \in {"endScope", "endFunction"}
  <2>1. v.k # "endScript"
    <3>1. a.depth # 0
      BY <1>3, <1>6, CompIs
    <3> QED
      BY <3>1, <1>10, <1>11, EndsThere
  <2> QED
    BY <2>1, <1>11 DEF Ends
<1>13. a.all + 1 <= Count /\ Len(e.f.params) <= a.all
  <2>1. Len(c.f.params) < Len(c.locals)
    BY <1>3 DEF Locals
  <2>2. Len(c.f.params) \in Nat /\ Len(c.locals) \in Nat
    BY <1>3, CompIs, CodeBytes
  <2> QED
    BY <2>1, <2>2, <1>1, <1>3, <1>6
<1>14. Bumps(ch, maps, es, naps, n, en, fn, ew, ec, a, x, dd, d)
  BY <1>1, <1>3, <1>5, <1>7, <1>10, <1>11, <1>12, <1>13 DEF Bumps
<1>15. BumpsFlat(ch, maps, es, naps, n, en, fn, rw, rc, a, x, dd, d, ew, ec)
  BY <1>4, <1>8, <1>10, <1>11, <1>14 DEF BumpsFlat
<1> QED
  BY <1>15, BumpsOver

LEMMA AddLocalIs ==
    ASSUME NEW c \in Comp, NEW x \in Name, decls \in Nat, decls + 1 \in 1..MaxDecl, c.scopeDepth >= 1,
           Len(c.locals) # Count, Room(c), NEW e, e = AddLocal(c, x)
    PROVE  /\ Declares(c, e, x, -1, decls + 1) /\ e.f = c.f /\ e.error = c.error
           /\ Len(e.locals) <= Count /\ Limits(e)
<1>1. /\ c.locals \in Seq(Local) /\ Len(c.locals) \in Nat /\ DOMAIN c.locals = 1..Len(c.locals)
      /\ c.scopeDepth \in Nat
  BY CompIs
<1>2. PICK l : l = [name |-> x, depth |-> -1, captured |-> FALSE, decl |-> decls + 1]
  OBVIOUS
<1>3. l \in Local /\ l.depth = -1
  BY <1>2 DEF Local
<1>4. PICK t : t = Append(c.locals, l)
  OBVIOUS
<1>5. PICK h \in Nat : h = Len(c.locals)
  BY <1>1
<1>6. /\ t \in Seq(Local) /\ Len(t) = h + 1 /\ t[h + 1] = l /\ DOMAIN t = 1..h + 1
      /\ \A i \in 1..h : t[i] = c.locals[i]
  BY <1>1, <1>3, <1>4, <1>5, AppendIs
<1>7. e = [c EXCEPT !.locals = t]
  BY <1>2, <1>4 DEF AddLocal
<1>8. e \in Comp /\ e.locals = t /\ e.scopeDepth = c.scopeDepth /\ e.f = c.f /\ e.error = c.error
  BY <1>6, <1>7 DEF Comp
<1>9. Declares(c, e, x, -1, decls + 1)
  BY <1>1, <1>2, <1>5, <1>6, <1>8 DEF Declares
<1>10. h <= Count /\ h # Count /\ h >= 1
  BY <1>5 DEF Room, Limits
<1>11. h + 1 <= Count
  BY <1>10, CompilerConstants
<1>12. Limits(e)
  <2>1. Len(e.f.upvalues) <= Count
    BY <1>8 DEF Room, Limits
  <2>2. ASSUME NEW i \in 1..h + 1
        PROVE  t[i].depth \in 0..c.scopeDepth \/ (t[i].depth = -1 /\ i = h + 1)
    <3>1. CASE i = h + 1
      BY <3>1, <1>3, <1>6
    <3>2. CASE i # h + 1
      <4>1. i \in 1..h
        BY <3>2, <1>5
      <4>2. t[i] = c.locals[i]
        BY <4>1, <1>6
      <4>3. c.locals[i].depth \in 0..c.scopeDepth \/ (c.locals[i].depth = -1 /\ i = h)
        BY <4>1, <1>1, <1>5 DEF Room, Limits
      <4>4. c.locals[h].depth # -1
        BY <1>5 DEF Room
      <4> QED
        BY <4>2, <4>3, <4>4
    <3> QED
      BY <3>1, <3>2
  <2>3. Len(e.locals) <= Count
    BY <1>6, <1>8, <1>11
  <2> QED
    BY <1>6, <1>8, <2>1, <2>2, <2>3 DEF Limits
<1> QED
  BY <1>6, <1>8, <1>9, <1>11, <1>12

LEMMA ErrorIs ==
    ASSUME NEW c \in Comp
    PROVE  /\ Error(c) \in Comp /\ Error(c).error /\ Error(c).locals = c.locals
           /\ Error(c).scopeDepth = c.scopeDepth /\ Error(c).f = c.f
  BY DEF Error, Comp

LEMMA LocalIs ==
    ASSUME NEW c \in Comp, NEW x \in Name, decls \in Nat, decls + 1 \in 1..MaxDecl, c.scopeDepth >= 1,
           Room(c), NEW e, e = ParseVariable(c, x)
    PROVE  /\ e \in Comp /\ Limits(e) /\ Len(e.locals) >= 1
           /\ e.scopeDepth = c.scopeDepth /\ e.f = c.f
           /\ ~ e.error => Declares(c, e, x, -1, decls + 1) /\ e.f = c.f /\ Len(e.locals) <= Count
<1>1. PICK b : b = (IF Declared(c, x) THEN Error(c) ELSE c)
  OBVIOUS
<1>2. c.scopeDepth > 0 /\ c.scopeDepth # 0
  BY CompIs
<1>3. e = AddLocal(b, x)
  BY <1>1, <1>2 DEF ParseVariable, DeclareVariable
<1>4. /\ b \in Comp /\ b.locals = c.locals /\ b.scopeDepth = c.scopeDepth /\ b.f = c.f
      /\ b = c \/ b.error
  BY <1>1, ErrorIs
<1>5. Room(b)
  BY <1>4 DEF Room, Limits
<1>6. CASE Len(b.locals) = Count
  <2>1. e = Error(b)
    BY <1>3, <1>6 DEF AddLocal
  <2>2. e \in Comp /\ e.error /\ e.locals = c.locals /\ e.scopeDepth = c.scopeDepth /\ e.f = c.f
    BY <2>1, <1>4, ErrorIs
  <2> QED
    BY <2>2 DEF Room, Limits
<1>7. CASE Len(b.locals) # Count
  <2>1. /\ Declares(b, e, x, -1, decls + 1) /\ e.f = b.f /\ e.error = b.error
        /\ Len(e.locals) <= Count /\ Limits(e)
    BY <1>3, <1>4, <1>5, <1>7, AddLocalIs
  <2>2. e \in Comp /\ e.scopeDepth = b.scopeDepth /\ Len(e.locals) = Len(b.locals) + 1
    BY <2>1 DEF Declares
  <2>3. Len(b.locals) \in Nat
    BY <1>4, CompIs
  <2>4. Len(e.locals) >= 1
    BY <2>2, <2>3
  <2> QED
    BY <2>1, <2>2, <2>4, <1>4
<1> QED
  BY <1>6, <1>7

\* What the function with the new local is like.
LEMMA LocallyHere ==
    ASSUME NEW ch, NEW wk, NEW ds, NEW en, NEW dc, NEW ctx, NEW maps, NEW n, NEW a, NEW c, NEW rw,
           NEW rc, NEW e, NEW es, NEW naps, NEW fn, NEW x, NEW dd, NEW d,
           Locally(ch, wk, ds, en, dc, ctx, maps, n, a, c, rw, rc, e, es, naps, fn, x, dd, d),
           d = dc + 1, NEW q, q.depth = c.scopeDepth, q.all = a.all + 1,
           q.seen = q.all <=> dd # -1, NEW s, s = [height |-> a.all, slot |-> SlotsOf(e, a.all)]
    PROVE  Here(e, maps[n], q, s)
<1>1. /\ Declaring(ch, wk, ds, en, dc, ctx, maps, n, a, c, rw, rc) /\ Declares(c, e, x, dd, d)
  BY DEF Locally
<1>2. Declarer(ch, wk, ds, en, dc, maps, n, a, c, rc)
  BY <1>1, DeclaringIs
<1>3. /\ c \in Comp /\ Settled(a) /\ Sane(a) /\ a.all = Len(c.locals)
      /\ Here(c, maps[n], a, Stack(c, a)) /\ dc \in Nat /\ n \in DOMAIN ch
  BY <1>2 DEF Declarer
<1>4. PICK h \in Nat : h = Len(c.locals)
  BY <1>3, CompIs
<1>5. /\ Len(e.locals) = h + 1 /\ e.scopeDepth = c.scopeDepth /\ dd \in {-1, c.scopeDepth}
      /\ e.locals[h + 1].depth = dd /\ e.locals[h + 1].decl = d
      /\ \A l \in 1..h : e.locals[l] = c.locals[l]
      /\ e.f.code = c.f.code /\ e.f.born = c.f.born
  BY <1>1, <1>4 DEF Declares
<1>6. maps[n][Len(e.f.code)] = s
  <2>1. maps[n][Len(c.f.code)] = Stack(c, a)
    BY <1>3 DEF Here
  <2>2. Stack(c, a) = [height |-> a.all, slot |-> SlotsOf(c, a.all)]
    BY <1>3 DEF Stack, Settled
  <2>3. SlotsOf(e, a.all) = SlotsOf(c, a.all)
    <3>1. \A i \in Slot : i <= h => e.locals[i].decl = c.locals[i].decl
      <4>1. \A i \in Slot : i <= h => i \in 1..h
        BY <1>4 DEF Slot
      <4> QED
        BY <4>1, <1>5
    <3> QED
      BY <3>1, <1>3, <1>4 DEF SlotsOf
  <2> QED
    BY <2>1, <2>2, <2>3, <1>5
<1>7. \A m \in e.f.born : m.decl # d
  <2>1. Coded(ch, ds, dc, maps, wk, ctx)
    BY <1>1 DEF Declaring, Ready, Good
  <2>2. PICK late : Sound(ds, c.f, maps[n], Pending(wk, ctx, n), late, dc)
    BY <2>1, <1>1, <1>3 DEF Coded, Declaring
  <2>3. \A m \in c.f.born : m.decl <= dc
    BY <2>2 DEF Sound, Vars
  <2>4. \A m \in c.f.born : m.decl \in Nat
    <3>1. c.f.born \subseteq Mark
      BY <1>3, CompIs, CodeBytes
    <3> QED
      BY <3>1, CompilerConstants DEF Mark
  <2>5. \A i \in Nat : i <= dc => i # dc + 1
    BY <1>3
  <2> QED
    BY <2>3, <2>4, <2>5, <1>5
<1>8. q.all = h + 1
  BY <1>3, <1>4
<1> QED
  BY <1>5, <1>6, <1>7, <1>8 DEF Here

LEMMA LocallyIs ==
    ASSUME NEW ch, NEW wk, NEW ds, NEW en, NEW dc, NEW ctx, NEW maps, NEW n, NEW a, NEW c, NEW rw,
           NEW rc, NEW e, NEW es, NEW naps, NEW fn, NEW x, NEW dd, NEW d,
           Locally(ch, wk, ds, en, dc, ctx, maps, n, a, c, rw, rc, e, es, naps, fn, x, dd, d),
           d = dc + 1, e.f = c.f, GoneBy(ch, ds, dc)
    PROVE  /\ Tops(ch, maps, es, naps, n) /\ es[n] = e /\ naps[n] = maps[n]
           /\ Locals(e, d) /\ Tied(es, ds, d)
           /\ Sound(ds, e.f, maps[n], Pending(wk, ctx, n), Global, d) /\ SameNames(ch, es, n, a.all)
<1>1. /\ Declaring(ch, wk, ds, en, dc, ctx, maps, n, a, c, rw, rc) /\ Declares(c, e, x, dd, d)
      /\ Changed(ch, maps, e, maps[n], es, naps)
  BY DEF Locally
<1>2. Declarer(ch, wk, ds, en, dc, maps, n, a, c, rc)
  BY <1>1, DeclaringIs
<1>3. /\ c \in Comp /\ Settled(a) /\ Sane(a) /\ a.all = Len(c.locals) /\ Locals(c, dc)
      /\ dc \in Nat /\ n \in DOMAIN ch /\ ds \in Seq(Function) /\ n \in Nat /\ n >= 1
  BY <1>2 DEF Declarer
<1>4. /\ Types(ch, wk, ds, en, dc) /\ Good(ch, wk, ds, en, dc, ctx, maps) /\ c = ch[n] /\ n = Len(ch)
      /\ a = ctx[1]
  BY <1>1 DEF Declaring, Ready
<1>5. e \in Comp
  BY <1>1 DEF Declares
<1>6. Tops(ch, maps, es, naps, n) /\ es[n] = e /\ naps[n] = maps[n]
  BY <1>1, <1>4, <1>5, TopsAre
<1>7. PICK h \in Nat : h = Len(c.locals)
  BY <1>3, CompIs
<1>8. /\ Len(e.locals) = h + 1 /\ DOMAIN e.locals = 1..h + 1
      /\ e.locals[h + 1].name = x /\ e.locals[h + 1].decl = d
      /\ \A l \in 1..h : e.locals[l] = c.locals[l]
      /\ x \in Name /\ d \in 1..MaxDecl
  BY <1>1, <1>7 DEF Declares
<1>9. Locals(e, d)
  <2>1. /\ c.locals[1].name = NoName /\ c.locals[1].decl = Global
        /\ c.locals[1].depth = 0 /\ \A l \in 2..h : c.locals[l].name \in Name /\ c.locals[l].decl \in 1..dc
        /\ Len(c.f.params) < h /\ \A i \in DOMAIN c.f.params : c.locals[i + 1].decl = c.f.params[i]
    BY <1>3, <1>7 DEF Locals
  <2>2. Len(c.f.params) \in Nat /\ DOMAIN c.f.params = 1..Len(c.f.params)
    BY <1>3, CompIs, CodeBytes
  <2>3. PICK m \in Nat : m = Len(c.f.params)
    BY <2>2
  <2>4. h >= 1 /\ 1 \in 1..h
    BY <2>1, <2>3, <1>7
  <2>5. \A i \in 1..m : i + 1 \in 1..h
    BY <2>1, <2>3, <1>7
  <2>6. \A l \in 2..h + 1 : e.locals[l].name \in Name /\ e.locals[l].decl \in 1..d
    <3> SUFFICES ASSUME NEW l \in 2..h + 1  PROVE e.locals[l].name \in Name /\ e.locals[l].decl \in 1..d
      OBVIOUS
    <3>1. CASE l = h + 1
      BY <3>1, <1>8
    <3>2. CASE l # h + 1
      <4>1. l \in 2..h /\ l \in 1..h
        BY <3>2, <1>7
      <4>2. c.locals[l].decl \in 1..d
        BY <4>1, <2>1, <1>3
      <4> QED
        BY <4>1, <4>2, <2>1, <1>8
    <3> QED
      BY <3>1, <3>2
  <2>7. Len(e.f.params) < Len(e.locals)
    BY <2>1, <2>3, <1>7, <1>8
  <2>8. \A i \in DOMAIN e.f.params : e.locals[i + 1].decl = e.f.params[i]
    BY <2>1, <2>2, <2>3, <2>5, <1>8
  <2>9. e.locals # <<>>
    BY <1>7, <1>8
  <2> QED
    BY <2>1, <2>4, <2>6, <2>7, <2>8, <2>9, <1>8 DEF Locals
<1>10. Coded(ch, ds, dc, maps, wk, ctx) /\ Tied(ch, ds, dc)
  BY <1>4 DEF Good
<1>11. Sound(ds, e.f, maps[n], Pending(wk, ctx, n), Global, d)
  <2>1. Late(c, a) = Global
    BY <1>3, Points DEF Late, Settled
  <2>2. Sound(ds, c.f, maps[n], Pending(wk, ctx, n), Late(c, a), dc)
    BY <1>3, <1>4, <1>10 DEF Coded
  <2>3. c.f \in Function
    BY <1>3, CompIs
  <2>4. d \in Nat /\ dc <= d
    BY <1>3
  <2> QED
    BY <2>1, <2>2, <2>3, <2>4, <1>3, SoundLater
<1>12. /\ ch \in Seq(Comp) /\ es \in Seq(Comp) /\ Len(es) = n
       /\ DOMAIN ch = 1..n /\ DOMAIN es = 1..n /\ \A k \in 1..n - 1 : es[k] = ch[k]
  BY <1>6 DEF Tops
<1>13. \A k \in 1..n : k = n \/ k \in 1..n - 1
  BY <1>3
<1>14. Aligned(ch, es, n)
  BY <1>3, <1>4, <1>6, <1>12, <1>13 DEF Aligned
<1>15. Tied(es, ds, d)
  <2>1. \A k \in DOMAIN ch : Locals(ch[k], dc)
    BY <1>10 DEF Coded
  <2>2. Declares(ch[n], es[n], x, dd, d)
    BY <1>1, <1>4, <1>6
  <2> QED
    BY <2>1, <2>2, <1>3, <1>10, <1>12, <1>14, DeclaresTied
<1>16. SameNames(ch, es, n, a.all)
  <2>1. a.all = h
    BY <1>3, <1>7
  <2> QED
    BY <2>1, <1>4, <1>6, <1>8, <1>12, <1>13 DEF SameNames
<1> QED
  BY <1>6, <1>9, <1>11, <1>15, <1>16

LEMMA WaitingIs ==
    ASSUME NEW a, Sane(a), Settled(a), a.all + 1 <= Count
    PROVE  Waits(a, Waiting(a))
<1>1. /\ a \in Point /\ a.level \in Nat /\ a.depth \in Nat /\ a.env \in Nat /\ a.all \in Nat
      /\ a.seen = a.all /\ a.vars = a.all /\ a.height = a.all /\ a.level >= 1 /\ a.env >= 1
      /\ a.vars >= 1
  BY Points DEF Settled
<1>2. PICK m \in Nat : m = a.all + 1
  BY <1>1
<1>3. Waiting(a) = [a EXCEPT !.all = m]
  BY <1>1, <1>2 DEF Waiting
<1>4. PICK z : z = Waiting(a)
  OBVIOUS
<1>5. /\ z \in Point /\ z.level = a.level /\ z.depth = a.depth /\ z.env = a.env
      /\ z.all = m /\ z.seen = a.all /\ z.vars = a.all /\ z.height = a.all
  BY <1>1, <1>3, <1>4 DEF Point
<1>6. m >= 1 /\ m <= Count /\ m - 1 <= a.all /\ a.all <= m
  BY <1>1, <1>2
<1>7. Sane(z)
  BY <1>1, <1>5, <1>6 DEF Sane
<1>8. Sane(Raise(z, 1))
  <2>1. z.height + 1 >= z.vars
    BY <1>1, <1>5
  <2> QED
    BY <2>1, <1>7, Higher
<1>9. Raise(z, 1) = [More(a) EXCEPT !.vars = @ - 1, !.seen = a.all]
  <2>1. Raise(z, 1) = [a EXCEPT !.all = m, !.height = m]
    BY <1>1, <1>2, <1>3, <1>4 DEF Raise, Point
  <2>2. More(a) = [a EXCEPT !.all = m, !.seen = m, !.vars = m, !.height = m]
    BY <1>1, <1>2 DEF More
  <2>3. m - 1 = a.all
    BY <1>1, <1>2
  <2>4. [More(a) EXCEPT !.vars = @ - 1, !.seen = a.all] =
            [a EXCEPT !.all = m, !.seen = a.all, !.vars = a.all, !.height = m]
    BY <2>2, <2>3, <1>1 DEF Point
  <2>5. [a EXCEPT !.all = m, !.seen = a.all, !.vars = a.all, !.height = m] =
            [a EXCEPT !.all = m, !.height = m]
    BY <1>1 DEF Point
  <2> QED
    BY <2>1, <2>4, <2>5
<1> QED
  BY <1>2, <1>4, <1>5, <1>7, <1>8, <1>9 DEF Waits

\* The initializer, and the definition after it.
LEMMA LocalInitializes ==
    ASSUME NEW es, NEW a, Sane(a), Settled(a), a.depth # 0, NEW p, p = More(a), Fine(es, p),
           a.vars > Len(es[a.level].f.params), NEW p0, p0 = Waiting(a), NEW v
    PROVE  Initializes(es, p0, Raise(p0, 1), <<>>, v, p)
<1>1. /\ Sane(p) /\ p.level \in DOMAIN es /\ p.all <= Len(es[p.level].locals) /\ p.all <= Count
  BY DEF Fine, Sane
<1>2. a.all + 1 <= Count /\ a \in Point /\ a.all \in Nat
  BY <1>1, Points DEF More
<1>3. /\ Sane(p0) /\ Sane(Raise(p0, 1))
      /\ p0.level = a.level /\ p0.depth = a.depth /\ p0.env = a.env
      /\ p0.all = a.all + 1 /\ p0.seen = a.all /\ p0.vars = a.all /\ p0.height = a.all
      /\ Raise(p0, 1) = [More(a) EXCEPT !.vars = @ - 1, !.seen = a.all]
  <2>1. Waits(a, p0)
    BY <1>2, WaitingIs
  <2> QED
    BY <2>1 DEF Waits
<1>4. /\ p.level = a.level /\ p.depth = a.depth /\ p.env = a.env /\ p.all = a.all + 1 /\ Settled(p)
  BY <1>2, MoreIs
<1>5. a.vars = a.all
  BY DEF Settled
<1>6. /\ Raise(p0, 1).level = a.level /\ Raise(p0, 1).depth = a.depth
      /\ Raise(p0, 1).all = a.all + 1 /\ Raise(p0, 1).vars = a.all /\ Raise(p0, 1).seen = a.all
  BY <1>3, Points, Raised
<1>7. Fine(es, p0) /\ Fine(es, Raise(p0, 1))
  BY <1>1, <1>3, <1>4, <1>5, <1>6 DEF Fine
<1>8. Defines(<<>>).k = "define" /\ Defines(<<>>).s = <<>> /\ <<>> \in Seq(Bytes)
  <2>1. <<>> \in Seq(Bytes)
    OBVIOUS
  <2> QED
    BY <2>1, EmitsIs
<1>9. Fits(Defines(<<>>), Raise(p0, 1), v, p)
  <2>1. Raise(p0, 1) = [p EXCEPT !.vars = @ - 1, !.seen = Raise(p0, 1).seen]
    BY <1>3, <1>6
  <2> QED
    BY <2>1, <1>4, <1>6, <1>8 DEF Fits
<1> QED
  BY <1>3, <1>4, <1>7, <1>8, <1>9 DEF Initializes

\* What is left to do after a declaration, for function n and for those around.
LEMMA DeclaringOpen ==
    ASSUME NEW ch, NEW wk, NEW ds, NEW en, NEW dc, NEW ctx, NEW maps, NEW n, NEW a, NEW c, NEW rw,
           NEW rc, Declaring(ch, wk, ds, en, dc, ctx, maps, n, a, c, rw, rc)
    PROVE  \A k \in 1..n : Pending(wk, ctx, k) = Pending(rw, rc, k)
<1>1. Splits(wk, ctx, rw, rc, n)
  BY DeclaringRest
<1>2. Declarer(ch, wk, ds, en, dc, maps, n, a, c, rc)
  BY DeclaringIs
<1>3. Holes(wk[1]) = {} /\ n \in Nat
  BY <1>2 DEF Declarer
<1>4. \A k \in 1..n : k = n \/ k \in 1..n - 1
  BY <1>3
<1>5. /\ Pending(wk, ctx, n) = Pending(rw, rc, n)
      /\ \A k \in 1..n - 1 : Pending(wk, ctx, k) = Pending(rw, rc, k)
  BY <1>1, <1>3 DEF Splits
<1> QED
  BY <1>4, <1>5

LEMMA TypesTops ==
    ASSUME NEW ch, NEW wk, NEW ds, NEW en, NEW dc, Types(ch, wk, ds, en, dc),
           NEW maps, NEW es, NEW naps, NEW n, Tops(ch, maps, es, naps, n), Limits(es[n]),
           NEW pw \in Seq(Item), NEW fn \in Seq([Name -> 0..MaxDecl]), NEW d \in 0..MaxDecl
    PROVE  Types(es, pw, ds, fn, d)
<1>1. /\ es \in Seq(Comp) /\ DOMAIN es = 1..n /\ DOMAIN ch = 1..n /\ n \in Nat
      /\ \A k \in 1..n - 1 : es[k] = ch[k]
  BY DEF Tops
<1>2. \A k \in DOMAIN es : Limits(es[k])
  <2>1. \A k \in 1..n : k = n \/ k \in 1..n - 1
    BY <1>1
  <2>2. \A k \in 1..n : Limits(ch[k])
    BY <1>1 DEF Types
  <2>3. \A k \in 1..n - 1 : k \in 1..n
    BY <1>1
  <2> QED
    BY <2>1, <2>2, <2>3, <1>1
<1> QED
  BY <1>1, <1>2 DEF Types

LEMMA LocalVarStep ==
    ASSUME NEW ch, NEW wk, NEW ds, NEW en, NEW dc, NEW ctx, NEW maps, NEW n, NEW a, NEW c, NEW rw,
           NEW rc, NEW e, NEW es, NEW naps, NEW x, NEW d,
           Locally(ch, wk, ds, en, dc, ctx, maps, n, a, c, rw, rc, e, es, naps, en, x, -1, d),
           d = dc + 1, e.f = c.f, GoneBy(ch, ds, dc), Limits(e)
    PROVE  Valid(es, <<Expression>> \o (<<Defines(<<>>)>> \o rw), ds, en, d)
<1>1. /\ Declaring(ch, wk, ds, en, dc, ctx, maps, n, a, c, rw, rc) /\ Declares(c, e, x, -1, d)
  BY DEF Locally
<1>2. Declarer(ch, wk, ds, en, dc, maps, n, a, c, rc)
  BY <1>1, DeclaringIs
<1>3. /\ c \in Comp /\ Settled(a) /\ Sane(a) /\ a.level = n /\ a.depth = c.scopeDepth
      /\ a.all = Len(c.locals) /\ a.env = Len(en) /\ Fine(ch, a) /\ Named(ch, en, a)
      /\ dc \in Nat /\ n \in Nat /\ n >= 1 /\ ds \in Seq(Function)
  BY <1>2 DEF Declarer
<1>4. /\ Types(ch, wk, ds, en, dc) /\ Good(ch, wk, ds, en, dc, ctx, maps) /\ c = ch[n]
  BY <1>1 DEF Declaring, Ready
<1>5. PICK p, p0 : p = More(a) /\ p0 = Waiting(a)
  OBVIOUS
<1>6. PICK q : Moved(es, en, naps, rw, rc, q, p)
  BY <1>5, LocallyBumps
<1>7. /\ Rested(es, en, naps, rw, q) /\ q[1] = p /\ Fine(es, p)
      /\ \A k : Pending(rw, q, k) = Pending(rw, rc, k)
  BY <1>6 DEF Moved
<1>8. Tops(ch, maps, es, naps, n) /\ es[n] = e /\ naps[n] = maps[n] /\ Locals(e, d)
  BY LocallyIs
<1>9. Tied(es, ds, d) /\ Sound(ds, e.f, maps[n], Pending(wk, ctx, n), Global, d)
  BY LocallyIs
<1>10. SameNames(ch, es, n, a.all)
  BY LocallyIs
<1>11. Initializes(es, p0, Raise(p0, 1), <<>>, rw[1], q[1])
  <2>1. a.depth # 0
    BY <1>1, <1>3, CompIs DEF Declares
  <2>2. a.vars > Len(es[a.level].f.params)
    BY <1>3, <1>4, <1>8 DEF Fine
  <2> QED
    BY <2>1, <2>2, <1>3, <1>5, <1>7, LocalInitializes
<1> DEFINE r == <<Expression>> \o (<<Defines(<<>>)>> \o rw)
<1>12. PICK t : Begun(es, en, naps, rw, q, r, t, p0)
  BY <1>7, <1>11, InitializerPushed
<1>13. r[1].k # "parameters" /\ r \in Seq(Item)
  BY <1>12 DEF Begun, Rested
<1> HIDE DEF r
<1>14. /\ Rested(es, en, naps, r, t) /\ t[1] = p0 /\ \A k : Pending(r, t, k) = Pending(rw, q, k)
  BY <1>12 DEF Begun
<1>15. \A k \in 1..n : Pending(r, t, k) = Pending(wk, ctx, k)
  BY <1>1, <1>7, <1>14, DeclaringOpen
<1>16. /\ p0.level = n /\ p0.depth = c.scopeDepth /\ p0.env = Len(en) /\ p0.all = a.all + 1
       /\ p0.seen = a.all /\ p0.vars = a.all /\ p0.height = a.all /\ a.all \in Nat
  <2>1. a.all + 1 <= Count
    BY <1>1, <1>3 DEF Locally, Declares
  <2>2. Waits(a, p0)
    BY <2>1, <1>3, <1>5, WaitingIs
  <2> QED
    BY <2>2, <1>3, Points DEF Waits
<1>17. Here(es[n], naps[n], p0, Stack(es[n], p0))
  <2>1. Stack(e, p0) = [height |-> a.all, slot |-> SlotsOf(e, a.all)]
    BY <1>16 DEF Stack
  <2>2. p0.seen = p0.all <=> -1 # -1
    BY <1>16
  <2> QED
    BY <2>1, <2>2, <1>8, <1>16, LocallyHere
<1>18. Named(es, en, p0)
  <2>1. \A y \in Name : Binds(ch, n, a.all, y, en[Len(en)][y])
    BY <1>3 DEF Named, Settled
  <2>2. \A y \in Name : Binds(es, n, a.all, y, en[Len(en)][y])
    BY <2>1, <1>3, <1>10, BindsStay
  <2> QED
    BY <2>2, <1>16 DEF Named
<1>19. /\ es \in Seq(Comp) /\ Len(es) = n /\ DOMAIN es = 1..n /\ DOMAIN naps = 1..n
  BY <1>8 DEF Tops
<1>20. Heads(es, en, naps, r, t)
  BY <1>13, <1>14, <1>16, <1>17, <1>18, <1>19 DEF Heads
<1>21. Coded(es, ds, d, naps, r, t)
  <2>1. Late(es[n], t[1]) = Global
    BY <1>14, <1>16 DEF Late
  <2>2. Sound(ds, es[n].f, naps[n], Pending(r, t, n), Late(es[n], t[1]), d)
    <3>1. n \in 1..n
      BY <1>3
    <3>2. Pending(r, t, n) = Pending(wk, ctx, n)
      BY <3>1, <1>15
    <3> QED
      BY <2>1, <3>2, <1>8, <1>9
  <2>3. Coded(ch, ds, dc, maps, wk, ctx)
    BY <1>4 DEF Good
  <2>4. d \in Nat /\ dc <= d
    BY <1>3
  <2>5. \A k \in 1..n - 1 : Pending(r, t, k) = Pending(wk, ctx, k)
    <3>1. \A k \in 1..n - 1 : k \in 1..n
      BY <1>3
    <3> QED
      BY <3>1, <1>15
  <2>6. Locals(es[n], d)
    BY <1>8
  <2> QED
    BY <2>2, <2>3, <2>4, <2>5, <2>6, <1>3, <1>8, CodedTops
<1>22. Good(es, r, ds, en, d, t, naps)
  BY <1>9, <1>14, <1>19, <1>20, <1>21 DEF Good, Rested
<1>23. Types(es, r, ds, en, d)
  <2>1. d \in 0..MaxDecl
    BY <1>1 DEF Declares
  <2>2. en \in Seq([Name -> 0..MaxDecl])
    BY <1>4 DEF Types
  <2> QED
    BY <2>1, <2>2, <1>4, <1>8, <1>13, TypesTops
<1>24. Valid(es, r, ds, en, d)
  BY <1>22, <1>23 DEF Valid
<1> QED
  BY <1>24 DEF r

-----------------------------------------------------------------------------
(* Variables that are born.                                                *)

LEMMA BirthsCode ==
    ASSUME NEW dc, NEW f, NEW M, NEW h, NEW d, NEW g, NEW N, Births(dc, f, M, h, d, g, N), NEW ds
    PROVE  /\ Starts(g) = Starts(f) /\ Spots(g) = Spots(f)
           /\ \A p \in Starts(f) : /\ N[p] = M[p] /\ After(g, N, p) = After(f, M, p)
                                   /\ Takes(g, p) = Takes(f, p) /\ Operation(g, p) = Operation(f, p)
                                   /\ Instruction(g, p) = Instruction(f, p)
                                   /\ \A i : Operand(g, p, i) = Operand(f, p, i)
                                   /\ Width(ds, g, p) = Width(ds, f, p)
           /\ \A q \in Spots(f) : Settles(g, M[q], N[q], q)
           /\ \A s, q : Flow(f, M, s, q) => Flow(g, N, s, q)
<1>1. /\ f \in Function /\ g.code = f.code /\ g.constants = f.constants /\ Len(f.code) \in Nat
  BY CodeBytes DEF Births
<1>2. Starts(g) = Starts(f) /\ Spots(g) = Spots(f)
  BY <1>1 DEF Starts, Spots
<1>3. \A p : /\ Takes(g, p) = Takes(f, p) /\ Puts(g, p) = Puts(f, p)
             /\ Operation(g, p) = Operation(f, p) /\ Instruction(g, p) = Instruction(f, p)
             /\ \A i : Operand(g, p, i) = Operand(f, p, i)
  BY <1>1 DEF Takes, Puts, Operation, Operand, Instruction
<1>4. \A p : Width(ds, g, p) = Width(ds, f, p)
  BY <1>1, <1>3 DEF Width
<1>5. \A p \in Starts(f) : N[p] = M[p]
  <2>1. Starts(f) \subseteq 0..Len(f.code) - 1
    BY DEF Starts
  <2> QED
    BY <2>1 DEF Births
<1>6. \A p \in Starts(f) : After(g, N, p) = After(f, M, p)
  BY <1>3, <1>5 DEF After
<1>7. ASSUME NEW q \in Spots(f)  PROVE Settles(g, M[q], N[q], q)
  <2>1. CASE q = Len(f.code)
    <3>1. N[q].height = M[q].height
      BY <2>1 DEF Births
    <3>2. ASSUME NEW i \in Slot
          PROVE  N[q].slot[i] = M[q].slot[i] \/ [decl |-> N[q].slot[i], at |-> q] \in g.born
      BY <2>1 DEF Births
    <3> QED
      BY <3>1, <3>2 DEF Settles
  <2>2. CASE q \in Starts(f)
    BY <2>2, <1>5 DEF Settles
  <2> QED
    BY <2>1, <2>2 DEF Spots
<1>8. f.born \subseteq g.born
  BY DEF Births
<1>9. \A s, q : Flow(f, M, s, q) => Flow(g, N, s, q)
  BY <1>2, <1>7, <1>8 DEF Flow, Settles
<1> QED
  BY <1>2, <1>3, <1>4, <1>5, <1>6, <1>7, <1>9

LEMMA BirthsTyped ==
    ASSUME NEW dc, NEW f, NEW M, NEW h, NEW d, NEW g, NEW N, Births(dc, f, M, h, d, g, N),
           NEW ds, NEW P, Typed(ds, f, M, P)
    PROVE  Typed(ds, g, N, P)
<1>1. /\ Starts(g) = Starts(f) /\ Spots(g) = Spots(f)
      /\ \A p \in Starts(f) : /\ N[p] = M[p] /\ After(g, N, p) = After(f, M, p)
                              /\ Takes(g, p) = Takes(f, p) /\ Operation(g, p) = Operation(f, p)
                              /\ Instruction(g, p) = Instruction(f, p)
                              /\ \A i : Operand(g, p, i) = Operand(f, p, i)
                              /\ Width(ds, g, p) = Width(ds, f, p)
      /\ \A q \in Spots(f) : Settles(g, M[q], N[q], q)
      /\ \A s, q : Flow(f, M, s, q) => Flow(g, N, s, q)
  BY BirthsCode
<1>2. /\ g.code = f.code /\ g.constants = f.constants /\ g.params = f.params /\ g.land = f.land
      /\ N \in [0..Len(f.code) -> Frame]
  BY DEF Births
<1>3. N[0].height = 1 + Len(g.params)
  <2>1. 0 \in Spots(f) /\ M[0].height = 1 + Len(f.params)
    BY DEF Typed
  <2>2. Settles(g, M[0], N[0], 0)
    BY <2>1, <1>1
  <2> QED
    BY <2>1, <2>2, <1>2 DEF Settles
<1>4. ASSUME NEW p \in Starts(f)  PROVE Runs(ds, g, N, P, p)
  <2>1. Runs(ds, f, M, P, p)
    BY DEF Typed
  <2>2. /\ N[p] = M[p] /\ After(g, N, p) = After(f, M, p)
        /\ Takes(g, p) = Takes(f, p) /\ Operation(g, p) = Operation(f, p)
        /\ \A i : Operand(g, p, i) = Operand(f, p, i)
        /\ Width(ds, g, p) = Width(ds, f, p)
    BY <1>1
  <2>3. /\ p + Width(ds, g, p) \in Spots(g)
        /\ \A i \in 1..Width(ds, g, p) - 1 : g.code[p + 1 + i].op = "operand"
        /\ N[p].height > Len(g.params) + Takes(g, p)
    BY <2>1, <2>2, <1>1, <1>2 DEF Runs
  <2>4. Operation(g, p) \notin {"RETURN", "JUMP", "LOOP"} =>
           Flow(g, N, After(g, N, p), p + Width(ds, g, p))
    BY <2>1, <2>2, <1>1 DEF Runs
  <2>5. Operation(g, p) \in Leaps =>
           p \in P \/ \E m \in g.land : m.from = p /\ Flow(g, N, After(g, N, p), m.to)
    BY <2>1, <2>2, <1>1, <1>2 DEF Runs
  <2>6. Operation(g, p) = "CLOSURE" =>
           /\ Operand(g, p, 1) + 1 \in DOMAIN g.constants
           /\ g.constants[Operand(g, p, 1) + 1] \in DOMAIN ds
    BY <2>1, <2>2, <1>2 DEF Runs
  <2> QED
    BY <2>3, <2>4, <2>5, <2>6 DEF Runs
<1>5. ASSUME NEW m \in f.land  PROVE Lands(g, P, m)
  <2>1. Lands(f, P, m)
    BY DEF Typed
  <2>2. m.from \in Starts(f)
    BY <2>1 DEF Lands
  <2>3. Target(g, m.from) = Target(f, m.from)
    BY <2>2, <1>1 DEF Target, Jump
  <2> QED
    BY <2>1, <2>2, <2>3, <1>1 DEF Lands
<1>6. P \subseteq { p \in Starts(g) : Operation(g, p) \in Jumps }
  BY <1>1 DEF Typed
<1> QED
  BY <1>1, <1>2, <1>3, <1>4, <1>5, <1>6 DEF Typed

LEMMA BirthsVars ==
    ASSUME NEW dc, NEW f, NEW M, NEW h, NEW d, NEW g, NEW N, Births(dc, f, M, h, d, g, N),
           Vars(f, M, dc), dc \in Nat
    PROVE  Vars(g, N, dc)
<1> DEFINE L == Len(f.code)
<1>0. /\ f \in Function /\ L \in Nat /\ L \in Spots(f) /\ \A q \in Spots(f) : q = L \/ q \in Starts(f)
      /\ d # Global
  <2>1. f \in Function /\ d # Global
    BY CompilerConstants DEF Births, Global
  <2>2. Len(f.code) \in Nat
    BY <2>1, CodeBytes
  <2> QED
    BY <2>1, <2>2 DEF Spots
<1>1. /\ Spots(g) = Spots(f) /\ \A p \in Starts(f) : N[p] = M[p]
      /\ \A q \in Spots(f) : Settles(g, M[q], N[q], q)
  BY BirthsCode
<1>2. /\ g.params = f.params /\ g.born = f.born \cup {[decl |-> d, at |-> L]}
      /\ h \in Slot /\ d <= dc /\ N[L].height = h /\ N[L].slot[h] = d /\ h > 1 + Len(f.params)
      /\ M[L].height = h /\ M[L].slot[h] = Global
      /\ \A i \in Slot : i # h => N[L].slot[i] = M[L].slot[i]
      /\ \A m \in f.born : m.decl # d /\ m.decl # Global
      /\ \A i \in DOMAIN f.params : f.params[i] # d
  <2>1. \A m \in f.born : m.decl # Global
    <3>1. \A m \in f.born : m \in Mark
      BY <1>0, CodeBytes
    <3> QED
      BY <3>1, CompilerConstants DEF Mark, Global
  <2> QED
    BY <2>1 DEF Births
<1> HIDE DEF L
<1>3. \A q \in Spots(f) : N[q].height = M[q].height
  BY <1>1 DEF Settles
<1>4. \A m \in f.born : m.at # L /\ m.at \in Starts(f) /\ m.at \in Spots(f)
  <2>1. ASSUME NEW m \in f.born  PROVE m.at # L
    <3>1. M[m.at].height \in Slot /\ M[m.at].slot[M[m.at].height] = m.decl
      BY DEF Vars
    <3> QED
      BY <3>1, <1>2
  <2> QED
    BY <2>1, <1>0 DEF Vars
<1>5. \A i, x : Origin(f, M, i, x) => Origin(g, N, i, x)
  BY <1>2, <1>3, <1>4 DEF Origin
<1>6. ASSUME NEW p \in Spots(g), NEW i \in Slot, N[p].slot[i] # Global
      PROVE  i <= N[p].height /\ Origin(g, N, i, N[p].slot[i])
  <2>1. CASE p = L /\ i = h
    <3>1. i <= N[p].height
      BY <2>1, <1>2, CompilerConstants DEF Slot
    <3>2. Origin(g, N, h, d)
      <4>1. [decl |-> d, at |-> L] \in g.born
        BY <1>2
      <4> QED
        BY <4>1, <1>2 DEF Origin
    <3> QED
      BY <3>1, <3>2, <2>1, <1>2
  <2>2. CASE ~ (p = L /\ i = h)
    <3>1. N[p].slot[i] = M[p].slot[i] /\ N[p].height = M[p].height /\ p \in Spots(f)
      BY <2>2, <1>0, <1>1, <1>2, <1>3
    <3>2. i <= M[p].height /\ Origin(f, M, i, M[p].slot[i])
      BY <3>1, <1>6 DEF Vars
    <3> QED
      BY <3>1, <3>2, <1>5
  <2> QED
    BY <2>1, <2>2
<1>7. ASSUME NEW m \in g.born
      PROVE  /\ m.at \in Spots(g) /\ m.decl <= dc
             /\ N[m.at].height \in Slot /\ N[m.at].slot[N[m.at].height] = m.decl
  <2>1. CASE m \in f.born
    <3>1. /\ m.at \in Spots(f) /\ m.decl <= dc
          /\ M[m.at].height \in Slot /\ M[m.at].slot[M[m.at].height] = m.decl
      BY <2>1 DEF Vars
    <3>2. N[m.at] = M[m.at]
      BY <2>1, <1>1, <1>4
    <3> QED
      BY <3>1, <3>2, <1>1
  <2>2. CASE m = [decl |-> d, at |-> L]
    BY <2>2, <1>0, <1>1, <1>2
  <2> QED
    BY <2>1, <2>2, <1>2
<1>8. ASSUME NEW m \in g.born, NEW n \in g.born, m.decl = n.decl  PROVE m = n
  <2>1. CASE m \in f.born /\ n \in f.born
    BY <2>1, <1>8 DEF Vars
  <2>2. CASE m \notin f.born \/ n \notin f.born
    BY <2>2, <1>2, <1>8
  <2> QED
    BY <2>1, <2>2
<1>9. \A m \in g.born : \A i \in DOMAIN g.params : g.params[i] # m.decl
  BY <1>2 DEF Vars
<1>10. \A i, j \in DOMAIN g.params : g.params[i] = g.params[j] => i = j
  BY <1>2 DEF Vars
<1>11. ASSUME NEW m \in g.born  PROVE N[m.at].height > 1 + Len(g.params)
  <2>1. CASE m \in f.born
    <3>1. M[m.at].height > 1 + Len(f.params)
      BY <2>1 DEF Vars
    <3>2. N[m.at] = M[m.at]
      BY <2>1, <1>1, <1>4
    <3> QED
      BY <3>1, <3>2, <1>2
  <2>2. CASE m = [decl |-> d, at |-> L]
    BY <2>2, <1>2
  <2> QED
    BY <2>1, <2>2, <1>2
<1> QED
  BY <1>6, <1>7, <1>8, <1>9, <1>10, <1>11 DEF Vars

LEMMA BirthsSound ==
    ASSUME NEW dc \in Nat, NEW f, NEW M, NEW h, NEW d, NEW g, NEW N, Births(dc, f, M, h, d, g, N),
           NEW ds, NEW P, NEW late \in {Global, d}, Sound(ds, f, M, P, late, dc)
    PROVE  Sound(ds, g, N, P, Global, dc)
<1>1. Typed(ds, f, M, P) /\ Vars(f, M, dc) /\ Dead(f, M, dc) /\ Meant(ds, f, M, late)
  BY DEF Sound
<1>2. /\ Starts(g) = Starts(f) /\ Spots(g) = Spots(f)
      /\ \A p \in Starts(f) : /\ N[p] = M[p] /\ Operation(g, p) = Operation(f, p)
                              /\ Instruction(g, p) = Instruction(f, p)
                              /\ \A i : Operand(g, p, i) = Operand(f, p, i)
                              /\ Width(ds, g, p) = Width(ds, f, p)
  BY BirthsCode
<1>3. Typed(ds, g, N, P) /\ Vars(g, N, dc)
  BY <1>1, BirthsTyped, BirthsVars
<1>4. Dead(g, N, dc)
  <2>1. g.gone = f.gone
    BY DEF Births
  <2> QED
    BY <2>1, <1>1, <1>2 DEF Dead
<1>5. /\ g.constants = f.constants /\ g.upvalues = f.upvalues /\ g.code = f.code /\ f \in Function
      /\ M[Len(f.code)].height = h /\ M[Len(f.code)].slot[h] = Global /\ N[Len(f.code)].slot[h] = d
      /\ \A i \in Slot : i # h => N[Len(f.code)].slot[i] = M[Len(f.code)].slot[i]
  BY DEF Births
<1>6. ASSUME NEW p \in Starts(f)  PROVE MeantAt(ds, g, N, Global, p)
  <2>1. MeantAt(ds, f, M, late, p)
    BY <1>1 DEF Meant
  <2>2. /\ N[p] = M[p] /\ Operation(g, p) = Operation(f, p)
        /\ Instruction(g, p) = Instruction(f, p)
        /\ \A i : Operand(g, p, i) = Operand(f, p, i)
        /\ Width(ds, g, p) = Width(ds, f, p)
    BY <1>2
  <2>3. Operation(g, p) \in {"GET_LOCAL", "SET_LOCAL"} =>
           \/ Instruction(g, p).decl = Itself
           \/ /\ Operand(g, p, 1) + 1 \in Slot
              /\ N[p].slot[Operand(g, p, 1) + 1] = Instruction(g, p).decl
              /\ Instruction(g, p).decl # Global
    BY <2>1, <2>2 DEF MeantAt
  <2>4. /\ Operation(g, p) \in {"GET_UPVALUE", "SET_UPVALUE"} =>
               /\ Operand(g, p, 1) + 1 \in DOMAIN g.upvalues
               /\ g.upvalues[Operand(g, p, 1) + 1].decl = Instruction(g, p).decl
               /\ Instruction(g, p).decl # Global
        /\ Operation(g, p) \in {"GET_GLOBAL", "SET_GLOBAL"} => Instruction(g, p).decl = Global
    BY <2>1, <2>2, <1>5 DEF MeantAt
  <2>5. ASSUME Operation(g, p) = "CLOSURE", NEW us, us = ds[g.constants[Operand(g, p, 1) + 1]].upvalues,
               NEW i \in DOMAIN us, NEW q, q = p + Width(ds, g, p),
               NEW index, index = Operand(g, p, 2 * i + 1)
        PROVE  /\ Operand(g, p, 2 * i) = IF us[i].isLocal THEN 1 ELSE 0
               /\ IF us[i].isLocal
                  THEN /\ index + 1 \in Slot /\ us[i].decl # Global
                       /\ \/ N[q].slot[index + 1] = us[i].decl
                          \/ q = Len(g.code) /\ index + 1 = N[q].height /\ us[i].decl = Global
                  ELSE index + 1 \in DOMAIN g.upvalues
                       /\ g.upvalues[index + 1].decl = us[i].decl
    <3>1. /\ us = ds[f.constants[Operand(f, p, 1) + 1]].upvalues /\ q = p + Width(ds, f, p)
          /\ index = Operand(f, p, 2 * i + 1) /\ Operation(f, p) = "CLOSURE"
      BY <2>2, <2>5, <1>5
    <3>2. /\ Operand(f, p, 2 * i) = IF us[i].isLocal THEN 1 ELSE 0
          /\ IF us[i].isLocal
             THEN /\ index + 1 \in Slot /\ us[i].decl # Global
                  /\ \/ M[q].slot[index + 1] = us[i].decl
                     \/ q = Len(f.code) /\ index + 1 = M[q].height /\ us[i].decl = late
             ELSE index + 1 \in DOMAIN f.upvalues
                  /\ f.upvalues[index + 1].decl = us[i].decl
      BY <3>1, <2>1, <2>5 DEF MeantAt
    <3>3. q \in Spots(f)
      BY <3>1, <1>1 DEF Typed, Runs
    <3>4. q = Len(f.code) \/ N[q] = M[q]
      BY <3>3, <1>2 DEF Spots
    <3>5. us[i].isLocal => N[q].slot[index + 1] = us[i].decl
      <4> SUFFICES ASSUME us[i].isLocal  PROVE N[q].slot[index + 1] = us[i].decl
        OBVIOUS
      <4>1. index + 1 \in Slot /\ us[i].decl # Global
        BY <3>2
      <4>2. CASE M[q].slot[index + 1] = us[i].decl
        <5>1. q = Len(f.code) => index + 1 # h
          BY <4>1, <4>2, <1>5
        <5> QED
          BY <4>1, <4>2, <5>1, <3>4, <1>5
      <4>3. CASE q = Len(f.code) /\ index + 1 = M[q].height /\ us[i].decl = late
        BY <4>1, <4>3, <1>5
      <4> QED
        BY <4>2, <4>3, <3>2
    <3> QED
      BY <3>2, <3>5, <2>2, <1>5
  <2> QED
    BY <2>3, <2>4, <2>5 DEF MeantAt
<1>7. Meant(ds, g, N, Global)
  BY <1>2, <1>6 DEF Meant
<1> QED
  BY <1>3, <1>4, <1>7 DEF Sound

LEMMA MarkedIs ==
    ASSUME NEW c \in Comp, c.scopeDepth # 0, Len(c.locals) >= 1, NEW e, e = MarkInitialized(c)
    PROVE  Marked(c, e)
<1>1. /\ c.locals \in Seq(Local) /\ c.scopeDepth \in Nat /\ c.f \in Function /\ c.error \in BOOLEAN
  BY CompIs
<1>2. PICK L \in Nat : L = Len(c.locals)
  BY <1>1
<1>3. L \in 1..L /\ L >= 1 /\ DOMAIN c.locals = 1..L
  BY <1>1, <1>2
<1>4. c.locals[L] \in Local
  BY <1>1, <1>2, <1>3
<1>5. PICK m : m = [c.locals[L] EXCEPT !.depth = c.scopeDepth]
  OBVIOUS
<1>6. /\ m \in Local
      /\ m = [name |-> c.locals[L].name, depth |-> c.scopeDepth,
              captured |-> c.locals[L].captured, decl |-> c.locals[L].decl]
  BY <1>1, <1>4, <1>5 DEF Local
<1>7. PICK ls : ls = [c.locals EXCEPT ![L] = m]
  OBVIOUS
<1>8. /\ ls \in Seq(Local) /\ Len(ls) = L /\ DOMAIN ls = 1..L /\ ls[L] = m
      /\ \A l \in 1..L - 1 : ls[l] = c.locals[l]
  BY <1>1, <1>2, <1>3, <1>6, <1>7
<1>9. e = [c EXCEPT !.locals = ls]
  BY <1>2, <1>3, <1>5, <1>7 DEF MarkInitialized, Comp
<1>10. /\ e \in Comp /\ e.scopeDepth = c.scopeDepth /\ e.error = c.error /\ e.f = c.f
       /\ e.locals = ls
  BY <1>1, <1>8, <1>9 DEF Comp
<1> QED
  BY <1>2, <1>3, <1>6, <1>8, <1>10 DEF Marked

LEMMA EmitNothing ==
    ASSUME NEW c \in Comp
    PROVE  Emit(c, <<>>) = c
<1>1. c.f \in Function /\ c.f.code \in Seq(Bytes)
  BY DEF Comp, Function
<1>2. c.f.code \o <<>> = c.f.code
  BY <1>1
<1> QED
  BY <1>1, <1>2 DEF Emit, Comp, Function

LEMMA DeliveredIs ==
    ASSUME NEW c \in Comp, c.scopeDepth # 0, Len(c.locals) >= 1, c.locals[Len(c.locals)].decl \in 1..MaxDecl,
           NEW m, m = Emit(MarkInitialized(c), <<>>), NEW l, l = Last(m.locals),
           NEW e, e = [m EXCEPT !.f.born = @ \cup {[decl |-> l.decl, at |-> Position(m)]}]
    PROVE  Delivered(c, e) /\ l.name = c.locals[Len(c.locals)].name /\ l.decl = c.locals[Len(c.locals)].decl
<1>1. PICK d : d = MarkInitialized(c)
  OBVIOUS
<1>2. Marked(c, d)
  BY <1>1, MarkedIs
<1>3. PICK L : L = Len(c.locals)
  OBVIOUS
<1>4. /\ d \in Comp /\ d.scopeDepth = c.scopeDepth /\ d.error = c.error /\ d.f = c.f
      /\ Len(d.locals) = L /\ DOMAIN d.locals = 1..L /\ L \in Nat /\ L >= 1
      /\ \A i \in 1..L - 1 : d.locals[i] = c.locals[i]
      /\ d.locals[L] = [name |-> c.locals[L].name, depth |-> c.scopeDepth,
                        captured |-> c.locals[L].captured, decl |-> c.locals[L].decl]
  BY <1>2, <1>3 DEF Marked
<1>5. m = d
  BY <1>1, <1>4, EmitNothing
<1>6. l = d.locals[L]
  BY <1>4, <1>5 DEF Last
<1>7. l.name = c.locals[L].name /\ l.decl = c.locals[L].decl
  BY <1>4, <1>6
<1>8. PICK b : b = c.f.born \cup {[decl |-> c.locals[L].decl, at |-> Len(c.f.code)]}
  OBVIOUS
<1>9. c.f \in Function /\ Len(c.f.code) \in Nat
  BY CompIs, CodeBytes
<1>10. b \in SUBSET Mark
  BY <1>3, <1>8, <1>9, CodeBytes DEF Mark
<1>11. e = [d EXCEPT !.f.born = b]
  BY <1>4, <1>5, <1>7, <1>8 DEF Position, Comp, Function
<1>12. PICK g : g = [c.f EXCEPT !.born = b]
  OBVIOUS
<1>13. /\ g \in Function /\ g.code = c.f.code /\ g.constants = c.f.constants
       /\ g.upvalues = c.f.upvalues /\ g.params = c.f.params /\ g.gone = c.f.gone
       /\ g.land = c.f.land /\ g.born = b
  BY <1>9, <1>10, <1>12 DEF Function
<1>14. e = [d EXCEPT !.f = g]
  BY <1>4, <1>11, <1>12 DEF Comp, Function
<1>15. /\ e \in Comp /\ e.scopeDepth = d.scopeDepth /\ e.error = d.error /\ e.locals = d.locals /\ e.f = g
  BY <1>4, <1>13, <1>14 DEF Comp
<1> QED
  BY <1>3, <1>4, <1>7, <1>8, <1>13, <1>15 DEF Delivered

\* The function that is compiled, when no local waits for its value.
LEMMA AtSettled ==
    ASSUME NEW ch, NEW wk, NEW ds, NEW en, NEW dc, NEW ctx, NEW maps,
           Types(ch, wk, ds, en, dc), Good(ch, wk, ds, en, dc, ctx, maps), ctx[1].vars = ctx[1].seen,
           NEW c, c = ch[Len(ch)], NEW a, a = ctx[1], NEW M, M = maps[Len(ch)]
    PROVE  Wrote(ds, dc, c, M, Pending(wk, ctx, Len(ch)), a.height, SlotsOf(c, a.vars), a.vars)
<1>1. /\ Len(ch) \in DOMAIN ch /\ Len(wk) >= 1 /\ Len(wk) \in Nat
      /\ \A k \in DOMAIN ch : ch[k] \in Comp /\ Locals(ch[k], dc)
      /\ Listed(ch, en, maps, wk, ctx) /\ Heads(ch, en, maps, wk, ctx) /\ Sane(ctx[1])
      /\ ctx[1].level = Len(ch)
  BY GoodIs
<1>2. Fine(ch, ctx[1])
  <2>1. 1 \in 1..Len(wk)
    BY <1>1
  <2> QED
    BY <2>1, <1>1 DEF Listed
<1>3. /\ a \in Point /\ a.vars \in Nat /\ a.vars <= a.height
      /\ a.vars > Len(c.f.params)
  BY <1>1, <1>2 DEF Fine, Sane, Point
<1>4. M[Len(c.f.code)] = Stack(c, a)
  BY <1>1 DEF Heads, Here
<1>5. Coding(ds, dc, c.f, M, Pending(wk, ctx, Len(ch)), a.height, SlotsOf(c, a.vars))
  <2>1. Sound(ds, c.f, M, Pending(wk, ctx, Len(ch)), Late(c, a), dc)
    BY <1>1 DEF Good, Coded
  <2>2. Late(c, a) = Global
    BY <1>3 DEF Late
  <2>3. c.f \in Function
    BY <1>1, CompIs
  <2> QED
    BY <2>1, <2>2, <2>3, <1>4 DEF Coding, Stack
<1>6. Clear(c.f, a.height, SlotsOf(c, a.vars), a.vars)
  <2>1. \A i \in Slot : SlotsOf(c, a.vars)[i] # Global => i <= a.vars
    BY DEF SlotsOf
  <2> QED
    BY <2>1, <1>3 DEF Clear
<1> QED
  BY <1>1, <1>5, <1>6 DEF Wrote

LEMMA DefiningIs ==
    ASSUME NEW ch, NEW wk, NEW ds, NEW en, NEW dc, NEW ctx, NEW maps, NEW n, NEW a, NEW b, NEW c,
           NEW tw, NEW tc, Defining(ch, wk, ds, en, dc, ctx, maps, n, a, b, c, tw, tc)
    PROVE  DefiningAt(ch, wk, ds, en, dc, ctx, maps, n, a, b, c, tw, tc)
<1>0. /\ Types(ch, wk, ds, en, dc) /\ Good(ch, wk, ds, en, dc, ctx, maps) /\ wk[1].k = "define"
      /\ n = Len(ch) /\ c = ch[n] /\ a = ctx[1] /\ b = ctx[2] /\ tw = Tail(wk) /\ tc = Tail(ctx)
  BY DEF Defining
<1>1. /\ n \in Nat /\ n >= 1 /\ n \in DOMAIN ch /\ c \in Comp /\ Locals(c, dc)
      /\ ch \in Seq(Comp) /\ ds \in Seq(Function) /\ dc \in Nat /\ wk \in Seq(Item) /\ ctx \in Seq(Point)
      /\ Listed(ch, en, maps, wk, ctx) /\ Heads(ch, en, maps, wk, ctx)
      /\ a.level = n /\ a.all = Len(c.locals) /\ a.depth = c.scopeDepth
  BY <1>0, GoodIs
<1>2. Limits(c) /\ dc \in 0..MaxDecl
  BY <1>0, <1>1 DEF Types
<1>3. Tails(ch, wk, en, ctx, maps, wk[1], a, wk[2], b, tw, tc)
  BY <1>0, <1>1, TailsAre
<1>4. /\ tw \in Seq(Item) /\ tc \in Seq(Point) /\ Len(tc) = Len(tw) /\ Len(tw) >= 1
      /\ tc[1] = b /\ tw[1].k # "parameters" /\ Fine(ch, a) /\ Fine(ch, b)
      /\ Listed(ch, en, maps, tw, tc) /\ Fits(wk[1], a, wk[2], b)
      /\ \A k : Pending(wk, ctx, k) = (IF a.level = k THEN Holes(wk[1]) ELSE {}) \cup Pending(tw, tc, k)
  BY <1>3 DEF Tails, Link
<1>5. Holes(wk[1]) = {}
  BY <1>0 DEF Holes
<1>6. \A k : Pending(wk, ctx, k) = Pending(tw, tc, k)
  BY <1>4, <1>5
<1>7. /\ Settled(b) /\ b.all = a.all
      /\ IF a.depth = 0
         THEN a = Raise(b, 1) /\ \E i \in Nat : wk[1].s = <<Op("DEFINE_GLOBAL"), Byte(i)>>
         ELSE a = [b EXCEPT !.vars = @ - 1, !.seen = a.seen] /\ wk[1].s = <<>>
  BY <1>0, <1>4 DEF Fits
<1>8. Sane(a) /\ Sane(b) /\ a \in Point /\ b \in Point
  BY <1>4 DEF Fine, Sane
<1>9. Here(c, maps[n], a, Stack(c, a)) /\ Named(ch, en, a) /\ a.env = Len(en)
  BY <1>0, <1>1 DEF Heads
<1>10. Sound(ds, c.f, maps[n], Pending(wk, ctx, n), Late(c, a), dc)
  BY <1>0, <1>1 DEF Good, Coded
<1> QED
  BY <1>1, <1>2, <1>4, <1>6, <1>7, <1>8, <1>9, <1>10 DEF DefiningAt

LEMMA BornIs ==
    ASSUME NEW ch, NEW wk, NEW ds, NEW en, NEW dc, NEW ctx, NEW maps, NEW n, NEW a, NEW b, NEW c,
           NEW tw, NEW tc, NEW e, NEW es, NEW N, NEW naps, NEW fn, NEW h, NEW d,
           Delivers(ch, wk, ds, en, dc, ctx, maps, n, a, b, c, tw, tc, e, es, N, naps, fn, h, d)
    PROVE  BornAt(c, a, b, h, d, dc)
<1>1. /\ Defining(ch, wk, ds, en, dc, ctx, maps, n, a, b, c, tw, tc) /\ a.depth # 0
      /\ h = Len(c.locals) /\ d = c.locals[h].decl
  BY DEF Delivers
<1>2. DefiningAt(ch, wk, ds, en, dc, ctx, maps, n, a, b, c, tw, tc)
  BY <1>1, DefiningIs
<1>3. /\ Sane(a) /\ Sane(b) /\ a \in Point /\ b \in Point /\ Settled(b) /\ b.all = a.all /\ a.all = h
      /\ a = [b EXCEPT !.vars = @ - 1, !.seen = a.seen] /\ Locals(c, dc) /\ c \in Comp /\ dc \in 0..MaxDecl
      /\ Here(c, maps[n], a, Stack(c, a))
  BY <1>1, <1>2 DEF DefiningAt
<1>4. /\ a.vars = b.vars - 1 /\ a.level = b.level /\ a.depth = b.depth /\ a.env = b.env /\ a.height = b.height
  BY <1>3 DEF Point
<1>5. /\ b.all = h /\ b.seen = h /\ b.vars = h /\ b.height = h
  BY <1>3 DEF Settled
<1>6. /\ h \in Nat /\ a.vars \in Nat /\ a.vars >= 1 /\ h <= Count /\ a.seen \in Nat /\ a.vars <= a.seen
      /\ a.seen <= h /\ b.depth \in Nat
  BY <1>3, Points
<1>7. h >= 2 /\ h \in Slot /\ a.vars + 1 = h /\ a.seen \in {h - 1, h}
  BY <1>4, <1>5, <1>6, CompilerConstants DEF Slot
<1>8. d \in 1..dc /\ c.locals[h].name \in Name
  <2>1. h \in 2..Len(c.locals)
    BY <1>1, <1>7, <1>6
  <2> QED
    BY <2>1, <1>1, <1>3 DEF Locals
<1>9. d \in 1..MaxDecl
  BY <1>3, <1>8, CompilerConstants
<1>10. \A m \in c.f.born : m.decl # d
  <2>1. a.vars < a.all
    BY <1>3, <1>6, <1>7
  <2> QED
    BY <2>1, <1>1, <1>3 DEF Here
<1>11. Late(c, a) \in {Global, d}
  BY <1>1, <1>3 DEF Late
<1> QED
  BY <1>1, <1>4, <1>5, <1>6, <1>7, <1>8, <1>9, <1>10, <1>11 DEF BornAt

\* The frame where the variable is born.
LEMMA BornBirths ==
    ASSUME NEW ch, NEW wk, NEW ds, NEW en, NEW dc, NEW ctx, NEW maps, NEW n, NEW a, NEW b, NEW c,
           NEW tw, NEW tc, NEW e, NEW es, NEW N, NEW naps, NEW fn, NEW h, NEW d,
           Delivers(ch, wk, ds, en, dc, ctx, maps, n, a, b, c, tw, tc, e, es, N, naps, fn, h, d)
    PROVE  Births(dc, c.f, maps[n], h, d, e.f, N) /\ N[Len(c.f.code)] = Stack(e, b)
<1>1. /\ Defining(ch, wk, ds, en, dc, ctx, maps, n, a, b, c, tw, tc)
      /\ h = Len(c.locals) /\ d = c.locals[h].decl /\ Delivered(c, e)
      /\ N = [maps[n] EXCEPT ![Len(c.f.code)] = [height |-> h, slot |-> SlotsOf(c, h)]]
      /\ Good(ch, wk, ds, en, dc, ctx, maps) /\ c = ch[n]
  BY DEF Delivers, Defining
<1>2. DefiningAt(ch, wk, ds, en, dc, ctx, maps, n, a, b, c, tw, tc)
  BY <1>1, DefiningIs
<1>3. BornAt(c, a, b, h, d, dc)
  BY BornIs
<1>4. /\ a.vars + 1 = h /\ h \in Nat /\ h >= 2 /\ h \in Slot /\ a.height = h
      /\ b.all = h /\ b.seen = h /\ b.vars = h /\ b.height = h
      /\ d \in 1..dc /\ d \in 1..MaxDecl /\ \A m \in c.f.born : m.decl # d
  BY <1>3 DEF BornAt
<1>5. /\ c \in Comp /\ Locals(c, dc) /\ dc \in Nat /\ dc <= MaxDecl /\ Here(c, maps[n], a, Stack(c, a))
      /\ Sound(ds, c.f, maps[n], Pending(wk, ctx, n), Late(c, a), dc) /\ n \in DOMAIN ch
      /\ Fine(ch, a) /\ a.level = n
  BY <1>2, CompilerConstants DEF DefiningAt
<1>6. /\ e \in Comp /\ Len(e.locals) = h /\ DOMAIN e.locals = 1..h
      /\ \A l \in 1..h - 1 : e.locals[l] = c.locals[l]
      /\ e.locals[h].decl = c.locals[h].decl
      /\ e.f.code = c.f.code /\ e.f.constants = c.f.constants /\ e.f.upvalues = c.f.upvalues
      /\ e.f.params = c.f.params /\ e.f.gone = c.f.gone /\ e.f.land = c.f.land
      /\ e.f.born = c.f.born \cup {[decl |-> d, at |-> Len(c.f.code)]}
  BY <1>1 DEF Delivered
<1>7. PICK L : L = Len(c.f.code)
  OBVIOUS
<1>8. L \in Nat /\ c.f \in Function /\ e.f \in Function
  BY <1>5, <1>6, <1>7, CompIs, CodeBytes
<1>9. maps[n] \in [0..L -> Frame] /\ L \in 0..L
  BY <1>5, <1>7, <1>8 DEF Sound, Typed
<1>10. maps[n][L] = [height |-> h, slot |-> SlotsOf(c, a.vars)]
  BY <1>4, <1>5, <1>7 DEF Here, Stack
<1>11. PICK F : F = [height |-> h, slot |-> SlotsOf(c, h)]
  OBVIOUS
<1>12. F \in Frame
  BY <1>1, <1>4, <1>5, <1>11, SlotsAre
<1>13. /\ N \in [0..L -> Frame] /\ N[L] = F /\ \A q \in 0..L - 1 : N[q] = maps[n][q]
  BY <1>1, <1>7, <1>8, <1>9, <1>11, <1>12
<1>14. \A i \in Slot : i \in Nat /\ (i # h => (i <= h <=> i <= a.vars))
  <2>1. a.vars \in Nat
    BY <1>5, Points DEF Fine
  <2> QED
    BY <2>1, <1>4, CompilerConstants DEF Slot
<1>15. /\ F.height = h /\ F.slot[h] = d /\ SlotsOf(c, a.vars)[h] = Global
       /\ \A i \in Slot : i # h => F.slot[i] = SlotsOf(c, a.vars)[i]
  <2>1. h <= h /\ ~ (h <= a.vars)
    <3>1. a.vars \in Nat
      BY <1>5, Points DEF Fine
    <3> QED
      BY <3>1, <1>4
  <2> QED
    BY <2>1, <1>1, <1>4, <1>11, <1>14 DEF SlotsOf
<1>16. \A i \in DOMAIN c.f.params : c.f.params[i] # d
  <2> SUFFICES ASSUME NEW i \in DOMAIN c.f.params, c.f.params[i] = d  PROVE FALSE
    OBVIOUS
  <2>1. DOMAIN c.f.params = 1..Len(c.f.params) /\ Len(c.f.params) \in Nat
    BY <1>8, CodeBytes
  <2>2. a.vars > Len(c.f.params)
    BY <1>1, <1>5 DEF Fine
  <2>3. i + 1 \in 2..h /\ h \in 2..h /\ i + 1 # h
    <3>1. a.vars \in Nat
      BY <1>5, Points DEF Fine
    <3> QED
      BY <2>1, <2>2, <3>1, <1>4
  <2>4. ch[n].locals[i + 1].decl = ch[n].locals[h].decl
    BY <1>1, <1>5 DEF Locals
  <2>5. Apart(ch)
    BY <1>1 DEF Good, Tied
  <2> QED
    BY <2>3, <2>4, <2>5, <1>1, <1>5 DEF Apart
<1>17. N[Len(c.f.code)] = Stack(e, b)
  <2>1. \A i \in Slot : i <= h => e.locals[i].decl = c.locals[i].decl
    <3>1. \A i \in Slot : i <= h => i \in 1..h - 1 \/ i = h
      BY <1>4, CompilerConstants DEF Slot
    <3> QED
      BY <3>1, <1>6
  <2>2. SlotsOf(e, h) = SlotsOf(c, h)
    BY <2>1 DEF SlotsOf
  <2> QED
    BY <2>2, <1>4, <1>7, <1>11, <1>13 DEF Stack
<1>18. d <= dc /\ h > 1 + Len(c.f.params)
  <2>1. Len(c.f.params) \in Nat /\ a.vars \in Nat
    BY <1>5, <1>8, CodeBytes, Points DEF Fine
  <2>2. a.vars > Len(c.f.params)
    BY <1>1, <1>5 DEF Fine
  <2> QED
    BY <2>1, <2>2, <1>4, <1>5
<1>19. Births(dc, c.f, maps[n], h, d, e.f, N)
  <2>1. /\ maps[n][L].height = h /\ maps[n][L].slot[h] = Global
        /\ \A i \in Slot : i # h => N[L].slot[i] = maps[n][L].slot[i]
    BY <1>10, <1>13, <1>15
  <2>2. N[L].height = h /\ N[L].slot[h] = d
    BY <1>13, <1>15
  <2> QED
    BY <2>1, <2>2, <1>4, <1>6, <1>7, <1>8, <1>13, <1>16, <1>18 DEF Births
<1> QED
  BY <1>17, <1>19

\* What is left to do is not disturbed.
LEMMA BornKeeps ==
    ASSUME NEW ch, NEW wk, NEW ds, NEW en, NEW dc, NEW ctx, NEW maps, NEW n, NEW a, NEW b, NEW c,
           NEW tw, NEW tc, NEW e, NEW es, NEW N, NEW naps, NEW fn, NEW h, NEW d,
           Delivers(ch, wk, ds, en, dc, ctx, maps, n, a, b, c, tw, tc, e, es, N, naps, fn, h, d)
    PROVE  Keeps(c, maps[n], e, N, h, b.depth)
<1>1. /\ Defining(ch, wk, ds, en, dc, ctx, maps, n, a, b, c, tw, tc)
      /\ h = Len(c.locals) /\ Delivered(c, e)
  BY DEF Delivers
<1>2. DefiningAt(ch, wk, ds, en, dc, ctx, maps, n, a, b, c, tw, tc)
  BY <1>1, DefiningIs
<1>3. BornAt(c, a, b, h, d, dc) /\ Births(dc, c.f, maps[n], h, d, e.f, N)
  BY BornIs, BornBirths
<1>4. /\ Starts(e.f) = Starts(c.f) /\ Spots(e.f) = Spots(c.f)
      /\ \A p \in Starts(c.f) : After(e.f, N, p) = After(c.f, maps[n], p)
      /\ \A q \in Spots(c.f) : Settles(e.f, maps[n][q], N[q], q)
  BY <1>3, BirthsCode
<1>5. /\ Len(e.locals) = h /\ DOMAIN e.locals = 1..h /\ h \in Nat
      /\ \A l \in 1..h - 1 : e.locals[l] = c.locals[l]
      /\ e.locals[h].decl = c.locals[h].decl /\ e.locals[h].name = c.locals[h].name
      /\ e.locals[h].depth = c.scopeDepth
      /\ e.f.upvalues = c.f.upvalues /\ e.f.params = c.f.params /\ c.f.born \subseteq e.f.born
  BY <1>1, <1>3 DEF Delivered, BornAt
<1>6. /\ c \in Comp /\ Limits(c) /\ b.depth = c.scopeDepth /\ b.depth \in Nat /\ DOMAIN c.locals = 1..h
  <2>1. c \in Comp /\ Limits(c) /\ a.depth = c.scopeDepth
    BY <1>2 DEF DefiningAt
  <2> QED
    BY <2>1, <1>1, <1>3, CompIs DEF BornAt
<1>7. \A l \in 1..h : e.locals[l].name = c.locals[l].name /\ e.locals[l].decl = c.locals[l].decl
  <2>1. \A l \in 1..h : l = h \/ l \in 1..h - 1
    BY <1>5
  <2> QED
    BY <2>1, <1>5
<1>8. ASSUME NEW l \in 1..h
      PROVE  \/ e.locals[l].depth = c.locals[l].depth
             \/ c.locals[l].depth \notin 0..b.depth - 1 /\ e.locals[l].depth \notin 0..b.depth - 1
  <2>1. CASE l = h
    <3>1. e.locals[l].depth \notin 0..b.depth - 1
      BY <2>1, <1>5, <1>6
    <3>2. c.locals[h].depth \in {-1, c.scopeDepth}
      <4>1. a.vars < a.all /\ a.all = h /\ a.depth = c.scopeDepth
        <5>1. a.all = h /\ a.vars + 1 = h /\ a.vars \in Nat
          BY <1>2, <1>3, Points DEF BornAt, DefiningAt, Here, Fine
        <5> QED
          BY <5>1, <1>2 DEF DefiningAt, Here
      <4>2. Here(c, maps[n], a, Stack(c, a))
        BY <1>2 DEF DefiningAt
      <4> QED
        BY <4>1, <4>2 DEF Here
    <3>3. c.locals[l].depth \notin 0..b.depth - 1
      BY <2>1, <3>2, <1>6
    <3> QED
      BY <3>1, <3>3
  <2>2. CASE l # h
    <3>1. l \in 1..h - 1
      BY <2>2, <1>5
    <3> QED
      BY <3>1, <1>5
  <2> QED
    BY <2>1, <2>2
<1> QED
  BY <1>4, <1>5, <1>6, <1>7, <1>8 DEF Keeps

\* What ties the functions together when their locals stay what they are.
LEMMA AlignedTied ==
    ASSUME NEW ch, NEW es, NEW n, Aligned(ch, es, n), n >= 1, NEW ds, NEW dc, Tied(ch, ds, dc),
           \A k \in 1..n : /\ Len(es[k].locals) = Len(ch[k].locals)
                           /\ \A l \in 1..Len(ch[k].locals) :
                                  /\ es[k].locals[l].decl = ch[k].locals[l].decl
                                  /\ es[k].locals[l].captured = ch[k].locals[l].captured
    PROVE  Tied(es, ds, dc)
<1>1. /\ n \in Nat /\ ch \in Seq(Comp) /\ es \in Seq(Comp) /\ Len(ch) = n /\ Len(es) = n
      /\ DOMAIN ch = 1..n /\ DOMAIN es = 1..n
      /\ \A k \in 1..n : es[k].f.upvalues = ch[k].f.upvalues
  BY DEF Aligned
<1>2. /\ Akin(ch, ds, es, ds)
      /\ \A q \in Everyone(es, ds) : \E g \in Everyone(ch, ds) :
             q.upvalues = g.upvalues /\ q.gone = g.gone /\ q.code = g.code
  BY AlignedAkin
<1>3. \A k \in 1..n : ch[k] \in Comp /\ es[k] \in Comp
  BY <1>1
<1>4. \A k \in 1..n : /\ Len(ch[k].locals) \in Nat /\ DOMAIN ch[k].locals = 1..Len(ch[k].locals)
                      /\ DOMAIN es[k].locals = 1..Len(es[k].locals)
  BY <1>3, CompIs
<1>5. Among(ch, es)
  <2> SUFFICES ASSUME NEW k \in 1..n
               PROVE  /\ Len(ch[k].locals) \in Nat /\ Len(es[k].locals) \in Nat
                      /\ Len(es[k].locals) <= Len(ch[k].locals)
                      /\ \A l \in 1..Len(es[k].locals) :
                             /\ es[k].locals[l].decl = ch[k].locals[l].decl
                             /\ es[k].locals[l].captured = ch[k].locals[l].captured
    BY <1>1 DEF Among
  <2>1. PICK h \in Nat : h = Len(ch[k].locals)
    BY <1>4
  <2>2. Len(es[k].locals) = h
    BY <2>1
  <2> QED
    BY <2>1, <2>2
<1>6. Apart(es) /\ Linked(es) /\ Flagged(es, ds, dc)
  <2>1. \A k \in DOMAIN es : /\ es[k].f.upvalues = ch[k].f.upvalues
                             /\ k = Len(es) \/ DOMAIN es[k].locals = DOMAIN ch[k].locals
    BY <1>1, <1>4
  <2> QED
    BY <2>1, <1>1, <1>2, <1>5, TiesStay
<1>7. ASSUME NEW g \in Everyone(es, ds)  PROVE Closed(es, ds, g)
  <2>1. PICK f \in Everyone(ch, ds) : g.gone = f.gone /\ g.code = f.code
    BY <1>2
  <2>2. Follows(f, g)
    BY <2>1 DEF Follows, Operation, Instruction
  <2>3. Closed(ch, ds, f)
    BY DEF Tied
  <2> QED
    BY <2>2, <2>3, <1>2, <1>5, ClosedStays
<1> QED
  BY <1>6, <1>7 DEF Tied

\* A name means the same where the same locals of that name are seen.
LEMMA BindsSee ==
    ASSUME NEW ch, NEW es, NEW k \in Nat, NEW n, NEW m, NEW x, NEW d, Binds(ch, k, n, x, d),
           \A j \in 1..k : /\ Visible(es, k, m, j, x) = Visible(ch, k, n, j, x)
                           /\ \A l \in Visible(ch, k, n, j, x) :
                                  es[j].locals[l].decl = ch[j].locals[l].decl
    PROVE  Binds(es, k, m, x, d)
<1>1. CASE d = Global /\ \A j \in 1..k : Visible(ch, k, n, j, x) = {}
  BY <1>1 DEF Binds
<1>2. CASE \E j \in 1..k : \E l \in Visible(ch, k, n, j, x) :
             /\ d = ch[j].locals[l].decl
             /\ \A i \in Visible(ch, k, n, j, x) : i <= l
             /\ \A i \in j + 1..k : Visible(ch, k, n, i, x) = {}
  <2>1. PICK j \in 1..k : \E l \in Visible(ch, k, n, j, x) :
             /\ d = ch[j].locals[l].decl
             /\ \A i \in Visible(ch, k, n, j, x) : i <= l
             /\ \A i \in j + 1..k : Visible(ch, k, n, i, x) = {}
    BY <1>2
  <2>2. PICK l \in Visible(ch, k, n, j, x) :
             /\ d = ch[j].locals[l].decl
             /\ \A i \in Visible(ch, k, n, j, x) : i <= l
             /\ \A i \in j + 1..k : Visible(ch, k, n, i, x) = {}
    BY <2>1
  <2>3. \A i \in j + 1..k : i \in 1..k
    OBVIOUS
  <2>4. /\ l \in Visible(es, k, m, j, x) /\ d = es[j].locals[l].decl
        /\ \A i \in Visible(es, k, m, j, x) : i <= l
        /\ \A i \in j + 1..k : Visible(es, k, m, i, x) = {}
    BY <2>2, <2>3
  <2> QED
    BY <2>4 DEF Binds
<1> QED
  BY <1>1, <1>2 DEF Binds

\* The names once the last local of function n is one that can be seen.
LEMMA SeenLast ==
    ASSUME NEW ch, NEW es, NEW n \in Nat, n >= 1, \A k \in 1..n - 1 : es[k] = ch[k],
           NEW h, BornNames(ch[n], es[n], h), NEW s \in {h - 1, h}, NEW x, x = ch[n].locals[h].name,
           NEW y, NEW g, Binds(ch, n, s, y, g), NEW d, d = ch[n].locals[h].decl,
           NEW w, w = IF y = x THEN d ELSE g
    PROVE  Binds(es, n, h, y, w)
<1>1. /\ h \in Nat /\ h >= 1 /\ Len(ch[n].locals) = h /\ Len(es[n].locals) = h
      /\ \A l \in 1..h : es[n].locals[l].name = ch[n].locals[l].name /\ es[n].locals[l].decl = ch[n].locals[l].decl
  BY DEF BornNames
<1>2. CASE y = x
  <2>1. h \in Visible(es, n, h, n, y)
    BY <1>1, <1>2 DEF Visible
  <2>2. \A m \in Visible(es, n, h, n, y) : m <= h
    BY <1>1 DEF Visible
  <2>3. \A i \in n + 1..n : Visible(es, n, h, i, y) = {}
    OBVIOUS
  <2>4. d = es[n].locals[h].decl /\ n \in 1..n
    BY <1>1
  <2>5. Binds(es, n, h, y, d)
    BY <2>1, <2>2, <2>3, <2>4 DEF Binds
  <2> QED
    BY <2>5, <1>2
<1>3. CASE y # x
  <2>1. ASSUME NEW j \in 1..n
        PROVE  /\ Visible(es, n, h, j, y) = Visible(ch, n, s, j, y)
               /\ \A l \in Visible(ch, n, s, j, y) : es[j].locals[l].decl = ch[j].locals[l].decl
    <3>1. CASE j = n
      <4>1. Visible(es, n, h, j, y) = { l \in 1..h : es[n].locals[l].name = y }
        BY <3>1 DEF Visible
      <4>2. Visible(ch, n, s, j, y) = { l \in 1..s : ch[n].locals[l].name = y }
        BY <3>1 DEF Visible
      <4>3. \A l \in 1..h : es[n].locals[l].name = y => l \in 1..s
        <5>1. \A l \in 1..h : l = h \/ l \in 1..s
          BY <1>1
        <5> QED
          BY <5>1, <1>1, <1>3
      <4>4. \A l \in 1..s : l \in 1..h
        BY <1>1
      <4> QED
        BY <3>1, <4>1, <4>2, <4>3, <4>4, <1>1
    <3>2. CASE j # n
      <4>1. j \in 1..n - 1
        BY <3>2
      <4>2. es[j] = ch[j]
        BY <4>1
      <4> QED
        BY <3>2, <4>2 DEF Visible
    <3> QED
      BY <3>1, <3>2
  <2>2. Binds(es, n, h, y, g)
    BY <2>1, BindsSee
  <2> QED
    BY <2>2, <1>3
<1> QED
  BY <1>2, <1>3

\* A local variable has its value.
LEMMA DefineLocalStep ==
    ASSUME NEW ch, NEW wk, NEW ds, NEW en, NEW dc, NEW ctx, NEW maps, NEW n, NEW a, NEW b, NEW c,
           NEW tw, NEW tc, NEW e, NEW es, NEW N, NEW naps, NEW fn, NEW h, NEW d,
           Delivers(ch, wk, ds, en, dc, ctx, maps, n, a, b, c, tw, tc, e, es, N, naps, fn, h, d)
    PROVE  Valid(es, tw, ds, fn, dc)
<1>1. /\ Defining(ch, wk, ds, en, dc, ctx, maps, n, a, b, c, tw, tc)
      /\ h = Len(c.locals) /\ Delivered(c, e) /\ es = [ch EXCEPT ![n] = e]
      /\ naps = Renewed(ch, maps, N)
      /\ fn = [en EXCEPT ![Len(en)] = [@ EXCEPT ![c.locals[h].name] = d]]
  BY DEF Delivers
<1>2. DefiningAt(ch, wk, ds, en, dc, ctx, maps, n, a, b, c, tw, tc)
  BY <1>1, DefiningIs
<1>3. BornAt(c, a, b, h, d, dc) /\ Births(dc, c.f, maps[n], h, d, e.f, N) /\ N[Len(c.f.code)] = Stack(e, b)
  BY BornIs, BornBirths
<1>4. Keeps(c, maps[n], e, N, h, b.depth)
  BY BornKeeps
<1>5. /\ Types(ch, wk, ds, en, dc) /\ Good(ch, wk, ds, en, dc, ctx, maps) /\ n = Len(ch) /\ c = ch[n]
      /\ a = ctx[1]
  BY <1>1 DEF Defining
<1>6. /\ h \in Nat /\ h >= 2 /\ b.all = h /\ b.seen = h /\ b.vars = h /\ b.height = h
      /\ b.level = a.level /\ b.depth = a.depth /\ b.env = a.env /\ d \in 1..MaxDecl
      /\ c.locals[h].name \in Name /\ c.locals[h].decl = d /\ a.seen \in {h - 1, h}
      /\ Late(c, a) \in {Global, d} /\ h \in Slot
  BY <1>3 DEF BornAt
<1>7. /\ n \in Nat /\ n >= 1 /\ n \in DOMAIN ch /\ c \in Comp /\ Limits(c) /\ Locals(c, dc)
      /\ ch \in Seq(Comp) /\ ds \in Seq(Function) /\ dc \in Nat
      /\ a.level = n /\ a.depth = c.scopeDepth /\ a.env = Len(en) /\ Named(ch, en, a)
      /\ Sound(ds, c.f, maps[n], Pending(wk, ctx, n), Late(c, a), dc)
      /\ Listed(ch, en, maps, tw, tc) /\ tw \in Seq(Item) /\ tc \in Seq(Point)
      /\ Len(tc) = Len(tw) /\ Len(tw) >= 1 /\ tw[1].k # "parameters" /\ tc[1] = b
      /\ \A k : Pending(wk, ctx, k) = Pending(tw, tc, k)
      /\ dc \in 0..MaxDecl /\ Sane(a)
  BY <1>2 DEF DefiningAt
<1>8. /\ e \in Comp /\ e.scopeDepth = c.scopeDepth /\ Len(e.locals) = h /\ DOMAIN e.locals = 1..h
      /\ \A l \in 1..h - 1 : e.locals[l] = c.locals[l]
      /\ e.locals[h] = [name |-> c.locals[h].name, depth |-> c.scopeDepth,
                        captured |-> c.locals[h].captured, decl |-> d]
      /\ e.f.code = c.f.code /\ e.f.upvalues = c.f.upvalues /\ e.f.gone = c.f.gone
      /\ e.f.params = c.f.params
  BY <1>1, <1>6 DEF Delivered
<1>9. /\ DOMAIN c.locals = 1..h /\ Len(c.locals) = h /\ c.scopeDepth \in Nat
      /\ c.f \in Function
  BY <1>1, <1>7, CompIs
<1>10. ASSUME NEW l \in 1..h
       PROVE  /\ e.locals[l].name = c.locals[l].name /\ e.locals[l].decl = c.locals[l].decl
              /\ e.locals[l].captured = c.locals[l].captured
  <2>1. l = h \/ l \in 1..h - 1
    BY <1>6
  <2> QED
    BY <2>1, <1>6, <1>8
<1>11. Tops(ch, maps, es, naps, n) /\ es[n] = e /\ naps[n] = N
  <2>1. Changed(ch, maps, e, N, es, naps)
    BY <1>1, <1>5 DEF Changed, Renewed
  <2> QED
    BY <2>1, <1>5, <1>8, TopsAre
<1>12. /\ Len(es) = n /\ DOMAIN es = 1..n /\ DOMAIN naps = 1..n /\ DOMAIN ch = 1..n
       /\ es \in Seq(Comp) /\ \A k \in 1..n - 1 : es[k] = ch[k]
  BY <1>11 DEF Tops
<1>13. \A k \in 1..n : k = n \/ k \in 1..n - 1
  BY <1>7
<1>14. en \in Seq([Name -> 0..MaxDecl]) /\ Len(en) \in Nat /\ Len(en) >= 1
  BY <1>5, <1>7, Points DEF Types
<1>15. /\ fn \in Seq([Name -> 0..MaxDecl]) /\ Len(fn) = Len(en)
       /\ \A i \in 1..Len(en) - 1 : fn[i] = en[i]
       /\ \A y \in Name : fn[Len(en)][y] = IF y = c.locals[h].name THEN d ELSE en[Len(en)][y]
  <2>1. PICK E : E = en[Len(en)]
    OBVIOUS
  <2>2. PICK x : x = c.locals[h].name
    OBVIOUS
  <2>3. PICK F : F = [E EXCEPT ![x] = d]
    OBVIOUS
  <2>4. E \in [Name -> 0..MaxDecl]
    BY <2>1, <1>14
  <2>5. x \in Name /\ d \in 0..MaxDecl
    <3>1. d \in 1..MaxDecl
      BY <1>6
    <3> QED
      BY <3>1, <2>2, <1>6, CompilerConstants
  <2>6. F \in [Name -> 0..MaxDecl] /\ \A y \in Name : F[y] = IF y = x THEN d ELSE E[y]
    BY <2>3, <2>4, <2>5
  <2>7. fn = [en EXCEPT ![Len(en)] = F]
    BY <2>1, <2>2, <2>3, <1>1
  <2>8. fn[Len(en)] = F /\ Len(fn) = Len(en) /\ fn \in Seq([Name -> 0..MaxDecl])
        /\ \A i \in 1..Len(en) - 1 : fn[i] = en[i]
    BY <2>6, <2>7, <1>14
  <2> QED
    BY <2>1, <2>2, <2>6, <2>8
<1>16. Rested(es, fn, naps, tw, tc)
  <2>1. \A i \in 1..tc[1].env - 1 : fn[i] = en[i]
    BY <1>6, <1>7, <1>15
  <2>2. tc[1].level <= n /\ tc[1].all = h /\ tc[1].depth = b.depth
    BY <1>6, <1>7
  <2>3. Keeps(ch[n], maps[n], es[n], naps[n], tc[1].all, tc[1].depth)
    BY <2>2, <1>4, <1>5, <1>11
  <2>4. Listed(es, fn, naps, tw, tc)
    BY <2>1, <2>2, <2>3, <1>7, <1>11, RestTops
  <2> QED
    BY <2>4, <1>7 DEF Rested
<1>17. Here(e, N, b, Stack(e, b))
  <2>1. b.depth = e.scopeDepth /\ b.all = Len(e.locals)
    BY <1>6, <1>7, <1>8
  <2>2. e.locals[Len(e.locals)].depth # -1
    BY <1>8, <1>9
  <2>3. ~ (b.vars < b.all)
    BY <1>6
  <2> QED
    BY <2>1, <2>2, <2>3, <1>3, <1>6, <1>8 DEF Here
<1>18. Named(es, fn, b)
  <2> SUFFICES ASSUME NEW y \in Name  PROVE Binds(es, b.level, b.seen, y, fn[b.env][y])
    BY DEF Named
  <2>1. Binds(ch, n, a.seen, y, en[Len(en)][y])
    BY <1>7 DEF Named
  <2>2. BornNames(ch[n], es[n], h)
    BY <1>5, <1>6, <1>8, <1>9, <1>10, <1>11 DEF BornNames
  <2>3. Binds(es, n, h, y, IF y = ch[n].locals[h].name THEN ch[n].locals[h].decl ELSE en[Len(en)][y])
    <3>1. PICK s : s = a.seen
      OBVIOUS
    <3>2. PICK x : x = ch[n].locals[h].name
      OBVIOUS
    <3>3. PICK g : g = en[Len(en)][y]
      OBVIOUS
    <3>4. d = ch[n].locals[h].decl /\ s \in {h - 1, h} /\ h \in Nat
      BY <3>1, <1>5, <1>6
    <3>5. Binds(ch, n, s, y, g)
      BY <3>1, <3>3, <2>1
    <3>6. PICK w : w = IF y = x THEN d ELSE g
      OBVIOUS
    <3>7. Binds(es, n, h, y, w)
      <4>1. n \in Nat /\ n >= 1 /\ \A k \in 1..n - 1 : es[k] = ch[k]
        BY <1>7, <1>12
      <4> QED
        BY <4>1, <3>2, <3>4, <3>5, <3>6, <2>2, SeenLast
    <3> QED
      BY <3>2, <3>3, <3>4, <3>6, <3>7
  <2>4. fn[b.env][y] = IF y = ch[n].locals[h].name THEN ch[n].locals[h].decl ELSE en[Len(en)][y]
    BY <1>5, <1>6, <1>7, <1>15
  <2> QED
    BY <2>3, <2>4, <1>6, <1>7
<1>19. Heads(es, fn, naps, tw, tc)
  BY <1>6, <1>7, <1>11, <1>12, <1>15, <1>17, <1>18 DEF Heads
<1>20. Locals(e, dc)
  <2>1. 1 \in 1..h - 1 /\ \A l \in 2..h : l \in 1..h
    BY <1>6
  <2>2. e.locals # <<>>
    BY <1>6, <1>8
  <2>3. Len(c.f.params) \in Nat /\ DOMAIN c.f.params = 1..Len(c.f.params) /\ Len(c.f.params) < h
    BY <1>7, <1>9, CodeBytes DEF Locals
  <2>4. \A i \in DOMAIN e.f.params : e.locals[i + 1].decl = e.f.params[i]
    <3> SUFFICES ASSUME NEW i \in DOMAIN c.f.params  PROVE e.locals[i + 1].decl = c.f.params[i]
      BY <1>8
    <3>1. i + 1 \in 1..h
      BY <2>3, <1>6
    <3> QED
      BY <3>1, <1>7, <1>10 DEF Locals
  <2>5. /\ e.locals[1].name = NoName /\ e.locals[1].decl = Global /\ e.locals[1].depth = 0
    BY <2>1, <1>7, <1>8 DEF Locals
  <2>6. \A l \in 2..h : e.locals[l].name \in Name /\ e.locals[l].decl \in 1..dc
    BY <2>1, <1>7, <1>9, <1>10 DEF Locals
  <2> QED
    BY <2>2, <2>3, <2>4, <2>5, <2>6, <1>8 DEF Locals
<1>21. Coded(es, ds, dc, naps, tw, tc)
  <2>1. Coded(ch, ds, dc, maps, wk, ctx) /\ dc <= dc
    BY <1>5, <1>7 DEF Good
  <2>2. Late(e, b) = Global
    BY <1>6 DEF Late
  <2>3. Sound(ds, e.f, N, Pending(wk, ctx, n), Global, dc)
    BY <1>3, <1>6, <1>7, BirthsSound
  <2>4. Sound(ds, es[n].f, naps[n], Pending(tw, tc, n), Late(es[n], tc[1]), dc)
    BY <2>2, <2>3, <1>7, <1>11
  <2>5. Locals(es[n], dc) /\ \A k \in 1..n - 1 : Pending(tw, tc, k) = Pending(wk, ctx, k)
    BY <1>7, <1>11, <1>20
  <2> QED
    BY <2>1, <2>4, <2>5, <1>7, <1>11, CodedTops
<1>22. Tied(es, ds, dc)
  <2>1. Tied(ch, ds, dc)
    BY <1>5 DEF Good
  <2>2. Aligned(ch, es, n)
    BY <1>5, <1>7, <1>8, <1>11, <1>12, <1>13 DEF Aligned
  <2>3. \A k \in 1..n : /\ Len(es[k].locals) = Len(ch[k].locals)
                        /\ \A l \in 1..Len(ch[k].locals) :
                               /\ es[k].locals[l].decl = ch[k].locals[l].decl
                               /\ es[k].locals[l].captured = ch[k].locals[l].captured
    BY <1>5, <1>8, <1>9, <1>10, <1>11, <1>12, <1>13
  <2> QED
    BY <2>1, <2>2, <2>3, <1>7, AlignedTied
<1>23. Good(es, tw, ds, fn, dc, tc, naps)
  BY <1>7, <1>12, <1>16, <1>19, <1>21, <1>22 DEF Good, Rested
<1>24. Limits(es[n])
  <2>1. \A l \in 1..h : \/ e.locals[l].depth \in 0..e.scopeDepth
                        \/ e.locals[l].depth = -1 /\ l = Len(e.locals)
    <3> SUFFICES ASSUME NEW l \in 1..h
                 PROVE  \/ e.locals[l].depth \in 0..e.scopeDepth
                        \/ e.locals[l].depth = -1 /\ l = Len(e.locals)
      OBVIOUS
    <3>1. CASE l = h
      BY <3>1, <1>8, <1>9
    <3>2. CASE l \in 1..h - 1
      <4>1. e.locals[l] = c.locals[l] /\ l # Len(c.locals)
        BY <3>2, <1>6, <1>8, <1>9
      <4> QED
        BY <4>1, <1>7, <1>8, <1>9 DEF Limits
    <3> QED
      BY <3>1, <3>2, <1>6
  <2> QED
    BY <2>1, <1>7, <1>8, <1>9, <1>11 DEF Limits
<1>25. Types(es, tw, ds, fn, dc)
  BY <1>5, <1>7, <1>11, <1>15, <1>24, TypesTops
<1> QED
  BY <1>23, <1>25 DEF Valid

LEMMA DefineGlobalStep ==
    ASSUME NEW ch, NEW wk, NEW ds, NEW en, NEW dc, NEW ctx, NEW maps, NEW n, NEW a, NEW b, NEW c,
           NEW tw, NEW tc, NEW e, NEW es,
           DefinesGlobal(ch, wk, ds, en, dc, ctx, maps, n, a, b, c, tw, tc, e, es)
    PROVE  Valid(es, tw, ds, en, dc)
<1>0. /\ Defining(ch, wk, ds, en, dc, ctx, maps, n, a, b, c, tw, tc) /\ a.depth = 0
      /\ e = Emit(c, wk[1].s) /\ es = [ch EXCEPT ![n] = e]
  BY DEF DefinesGlobal
<1>1. DefiningAt(ch, wk, ds, en, dc, ctx, maps, n, a, b, c, tw, tc)
  BY <1>0, DefiningIs
<1>2. /\ n \in Nat /\ n >= 1 /\ n \in DOMAIN ch /\ c \in Comp /\ Limits(c)
      /\ ch \in Seq(Comp) /\ ds \in Seq(Function) /\ dc \in Nat
      /\ Sane(a) /\ Sane(b) /\ a \in Point /\ b \in Point
      /\ Listed(ch, en, maps, tw, tc) /\ tw \in Seq(Item) /\ tc \in Seq(Point)
      /\ Len(tc) = Len(tw) /\ Len(tw) >= 1 /\ tw[1].k # "parameters" /\ tc[1] = b
      /\ \A k : Pending(wk, ctx, k) = Pending(tw, tc, k)
      /\ Settled(b) /\ a = Raise(b, 1)
  BY <1>0, <1>1 DEF DefiningAt
<1>3. PICK i \in Nat : wk[1].s = <<Op("DEFINE_GLOBAL"), Byte(i)>>
  BY <1>0, <1>1 DEF DefiningAt
<1>4. PICK s : s = wk[1].s
  OBVIOUS
<1>5. /\ Types(ch, wk, ds, en, dc) /\ Good(ch, wk, ds, en, dc, ctx, maps)
      /\ n = Len(ch) /\ c = ch[n] /\ a = ctx[1] /\ tw = Tail(wk) /\ tc = Tail(ctx)
  BY <1>0 DEF Defining
<1>6. /\ a.height = b.height + 1 /\ a.vars = b.vars /\ a.seen = b.seen /\ b.vars = b.seen
      /\ b.height \in Nat /\ b.vars \in Nat /\ b.vars <= b.height
  BY <1>2, Raised, Points DEF Settled
<1>7. PICK M, P : M = maps[n] /\ P = Pending(wk, ctx, n)
  OBVIOUS
<1>8. PICK sl : sl = SlotsOf(c, a.vars)
  OBVIOUS
<1>9. Wrote(ds, dc, c, M, P, a.height, sl, a.vars)
  BY <1>5, <1>6, <1>7, <1>8, AtSettled
<1>10. /\ Plain(s) /\ s[1].op = "DEFINE_GLOBAL" /\ s[1].op \notin Jumps
  BY <1>3, <1>4, OpShort DEF Short
<1>11. Single(c.f, a, s, b)
  <2>1. TakesOf(s) = 1 /\ PutsOf(s) = 0
    BY <1>10 DEF TakesOf, PutsOf
  <2> QED
    BY <2>1, <1>6, <1>10 DEF Single
<1>12. Names(c.f, sl, s)
  BY <1>10 DEF Names
<1>13. PICK N : Grown(ds, dc, c, M, Emit(c, s), N, P, b.height, sl, a.vars)
  BY <1>2, <1>6, <1>9, <1>11, <1>12, SingleWrites
<1>14. /\ Coder(c, M, e, N) /\ Coding(ds, dc, e.f, N, P, b.height, sl) /\ e \in Comp
  BY <1>0, <1>4, <1>13 DEF Grown, Wrote, Coder
<1>15. PICK naps : naps = Renewed(ch, maps, N)
  OBVIOUS
<1>16. Changed(ch, maps, e, N, es, naps)
  BY <1>0, <1>5, <1>15 DEF Changed, Renewed
<1>17. Tops(ch, maps, es, naps, n) /\ es[n] = e /\ naps[n] = N
  <2>1. Types(ch, wk, ds, en, dc) /\ Good(ch, wk, ds, en, dc, ctx, maps) /\ n = Len(ch)
    BY <1>5
  <2>2. e \in Comp
    BY <1>14
  <2> QED
    BY <2>1, <2>2, <1>16, TopsAre
<1>18. c.locals \in Seq(Local) /\ Len(c.locals) \in Nat
  BY <1>2, CompIs
<1>19. b.level = n /\ b.all = Len(c.locals) /\ b.all \in Nat
  <2>1. a.level = n /\ a.all = Len(c.locals)
    BY <1>1 DEF DefiningAt
  <2> QED
    BY <2>1, <1>2, <1>18, Raised
<1>20. Keeps(c, M, e, N, b.all, b.depth)
  <2>1. b.all <= Len(c.locals)
    BY <1>18, <1>19
  <2> QED
    BY <1>2, <1>14, <1>19, <2>1, CoderKeeps, Zenon
<1>21. Listed(es, en, naps, tw, tc)
  <2>1. tc[1].level <= n
    BY <1>2, <1>19
  <2>2. Keeps(ch[n], maps[n], es[n], naps[n], tc[1].all, tc[1].depth)
    BY <1>2, <1>5, <1>7, <1>17, <1>20
  <2> QED
    BY <1>2, <1>17, <2>1, <2>2, RestTops, Zenon
<1>22. Left(ch, wk, en, ctx, es, naps, tw, tc, P)
  <2>1. Beside(a, b)
    BY <1>2 DEF Beside, Raise, Point
  <2>2. Going(es, en, naps, a, tw, tc)
    BY <1>2, <1>21, <2>1 DEF Going
  <2> QED
    BY <2>2, <1>2, <1>5, <1>7 DEF Left
<1>23. Limits(e)
  BY <1>2, <1>14 DEF Limits, Coder, Onward
<1>24. ctx[1].vars = ctx[1].seen /\ Coder(ch[Len(ch)], maps[Len(ch)], e, N)
  BY <1>5, <1>6, <1>7, <1>14
<1>25. Coding(ds, dc, e.f, N, P, tc[1].height, SlotsOf(ch[Len(ch)], ctx[1].vars))
  BY <1>2, <1>5, <1>8, <1>14
<1>26. Types(es, tw, ds, en, dc) /\ Good(es, tw, ds, en, dc, tc, naps)
  BY <1>5, <1>16, <1>22, <1>23, <1>24, <1>25, CodeStep
<1> QED
  BY <1>26 DEF Valid

-----------------------------------------------------------------------------
(* Functions that begin.                                                   *)

LEMMA EmptySound ==
    ASSUME NEW f, NEW M, Empty(f, M), NEW ds, NEW dc
    PROVE  Sound(ds, f, M, {}, Global, dc)
<1>1. Len(f.code) = 0 /\ Starts(f) = {} /\ Spots(f) = {0}
  BY DEF Empty, Starts, Spots
<1>2. Typed(ds, f, M, {})
  BY <1>1 DEF Empty, Typed
<1>3. \A i \in Slot : M[0].slot[i] # Global => i <= M[0].height /\ Origin(f, M, i, M[0].slot[i])
  <2> SUFFICES ASSUME NEW i \in Slot, M[0].slot[i] # Global
               PROVE  i <= M[0].height /\ Origin(f, M, i, M[0].slot[i])
    OBVIOUS
  <2>1. i - 1 \in DOMAIN f.params /\ f.params[i - 1] = M[0].slot[i]
    BY DEF Empty
  <2>2. f.params \in Seq(1..MaxDecl) /\ M[0].height = 1 + Len(f.params)
    BY DEF Empty, Function
  <2>3. Len(f.params) \in Nat /\ DOMAIN f.params = 1..Len(f.params)
    BY <2>2
  <2>4. i <= M[0].height
    BY <2>1, <2>2, <2>3 DEF Slot
  <2> QED
    BY <2>1, <2>4 DEF Origin
<1>4. Vars(f, M, dc)
  BY <1>1, <1>3 DEF Empty, Vars
<1>5. Dead(f, M, dc) /\ Meant(ds, f, M, Global)
  BY <1>1 DEF Empty, Dead, Meant
<1> QED
  BY <1>2, <1>4, <1>5 DEF Sound

LEMMA BeginsIs ==
    ASSUME NEW g, g = BeginScope(InitCompiler)
    PROVE  Begins(g, FirstFrame) /\ Limits(g) /\ \A dc : Locals(g, dc)
<1>1. SlotZero \in Local /\ SlotZero.name = NoName /\ SlotZero.decl = Global /\ SlotZero.depth = 0
  BY CompilerConstants DEF SlotZero, Local, Global
<1>2. /\ g.locals = <<SlotZero>> /\ g.scopeDepth = 1 /\ g.error = FALSE
      /\ g.f = [code |-> <<>>, constants |-> <<>>, upvalues |-> <<>>, params |-> <<>>,
                born |-> {}, gone |-> {}, land |-> {}]
  BY DEF BeginScope, InitCompiler
<1>3. g.f \in Function
  BY <1>2 DEF Function
<1>4. g.locals \in Seq(Local) /\ Len(g.locals) = 1 /\ g.locals[1] = SlotZero /\ DOMAIN g.locals = {1}
  BY <1>1, <1>2
<1>5. g \in Comp
  <2>1. InitCompiler \in Comp
    <3>1. InitCompiler.f = g.f
      BY <1>2 DEF InitCompiler
    <3>2. /\ InitCompiler.f \in Function /\ <<SlotZero>> \in Seq(Local)
      BY <3>1, <1>2, <1>3, <1>4
    <3> QED
      BY <3>2 DEF Comp, InitCompiler
  <2> QED
    BY <2>1, Deeper
<1>6. FirstFrame[0] = [height |-> 1, slot |-> [i \in Slot |-> Global]]
  BY DEF FirstFrame
<1>7. FirstFrame \in [0..0 -> Frame]
  BY CompilerConstants DEF FirstFrame, Frame, Global
<1>8. Empty(g.f, FirstFrame)
  BY <1>2, <1>3, <1>6, <1>7 DEF Empty
<1>9. Limits(g)
  BY <1>1, <1>2, <1>4, CompilerConstants DEF Limits
<1>10. \A dc : Locals(g, dc)
  BY <1>1, <1>2, <1>4 DEF Locals
<1> QED
  BY <1>2, <1>4, <1>5, <1>6, <1>8, <1>9, <1>10 DEF Begins

LEMMA BeginningIs ==
    ASSUME NEW n \in Nat, n >= 1, NEW e \in Nat, e >= 1, NEW b, b = Beginning(n, e)
    PROVE  /\ Sane(b) /\ Settled(b) /\ b \in Point /\ b.level = n /\ b.env = e /\ b.depth = 1
           /\ b.all = 1 /\ b.seen = 1 /\ b.vars = 1 /\ b.height = 1
  BY CompilerConstants DEF Beginning, Sane, Settled, Point

LEMMA OpensIs ==
    ASSUME NEW es, NEW ds, NEW fn, NEW d, NEW naps, NEW n, NEW pw, NEW pc, NEW b, NEW g, NEW hs,
           NEW gn, NEW laps, Opens(es, ds, fn, d, naps, n, pw, pc, b, g, hs, gn, laps)
    PROVE  Opened(es, fn, naps, n, b, g, hs, gn, laps) /\ Begins(g, FirstFrame) /\ Limits(g) /\ Locals(g, d)
<1>1. /\ n = Len(es) /\ n \in Nat /\ n >= 1 /\ es \in Seq(Comp) /\ DOMAIN es = 1..n
      /\ b.env = Len(fn) /\ Sane(b) /\ fn \in Seq([Name -> 0..MaxDecl])
  BY DEF Opens, Suspended
<1>2. b.env \in Nat /\ b.env >= 1
  BY <1>1, Points
<1>3. Begins(g, FirstFrame) /\ Limits(g) /\ Locals(g, d)
  BY BeginsIs DEF Opens
<1>4. g \in Comp
  BY <1>3 DEF Begins
<1>5. /\ hs \in Seq(Comp) /\ Len(hs) = n + 1 /\ DOMAIN hs = 1..n + 1 /\ hs[n + 1] = g
      /\ \A k \in 1..n : hs[k] = es[k]
  <2>1. hs = Append(es, g)
    BY DEF Opens
  <2> QED
    BY <2>1, <1>1, <1>4, AppendIs
<1>6. DOMAIN laps = 1..n + 1 /\ laps[n + 1] = FirstFrame /\ \A k \in 1..n : laps[k] = naps[k]
  BY <1>1 DEF Opens
<1>7. Last(fn) = fn[b.env] /\ Last(fn) \in [Name -> 0..MaxDecl]
  BY <1>1, <1>2, SeqIs DEF Last
<1>8. /\ gn \in Seq([Name -> 0..MaxDecl]) /\ Len(gn) = b.env + 1 /\ gn[b.env + 1] = fn[b.env]
      /\ \A e \in 1..b.env : gn[e] = fn[e]
  <2>1. gn = Append(fn, Last(fn))
    BY DEF Opens
  <2> QED
    BY <2>1, <1>1, <1>7, AppendIs
<1> QED
  BY <1>2, <1>3, <1>5, <1>6, <1>8 DEF Opened

LEMMA OpensRested ==
    ASSUME NEW es, NEW ds, NEW fn, NEW d, NEW naps, NEW n, NEW pw, NEW pc, NEW b, NEW g, NEW hs,
           NEW gn, NEW laps, Opens(es, ds, fn, d, naps, n, pw, pc, b, g, hs, gn, laps)
    PROVE  Rested(hs, gn, laps, pw, pc)
<1>1. Opened(es, fn, naps, n, b, g, hs, gn, laps)
  BY OpensIs
<1>2. /\ Rested(es, fn, naps, pw, pc) /\ b = pc[1] /\ Sane(b) /\ b.level = n
      /\ n = Len(es) /\ n \in Nat /\ n >= 1 /\ es \in Seq(Comp) /\ DOMAIN es = 1..n
      /\ b.all = Len(es[n].locals) /\ \A k \in 1..n : Len(es[k].locals) >= 1
  BY DEF Opens, Suspended
<1>3. n \in 1..n /\ n \in DOMAIN hs /\ hs[n] = es[n] /\ laps[n] = naps[n] /\ es[n] \in Comp
  BY <1>1, <1>2, SeqIs DEF Opened
<1>4. Keeps(es[n], naps[n], hs[n], laps[n], b.all, b.depth)
  <2>1. Same(es[n], naps[n], hs[n], laps[n])
    BY <1>3, SameSelf
  <2>2. Len(es[n].locals) \in Nat /\ DOMAIN es[n].locals = 1..Len(es[n].locals)
    BY <1>3, CompIs
  <2>3. b.all \in Nat /\ b.all <= Len(es[n].locals)
    BY <1>2, <2>2
  <2> QED
    BY <2>1, <2>2, <2>3, SameKeeps
<1>5. \A k \in 1..n - 1 : k \in DOMAIN hs /\ hs[k] = es[k] /\ laps[k] = naps[k]
  <2>1. \A k \in 1..n - 1 : k \in 1..n /\ k \in 1..n + 1
    BY <1>2
  <2> QED
    BY <2>1, <1>1 DEF Opened
<1>6. \A e \in 1..b.env - 1 : gn[e] = fn[e]
  <2>1. \A e \in 1..b.env - 1 : e \in 1..b.env
    BY <1>2, Points
  <2> QED
    BY <2>1, <1>1 DEF Opened
<1>7. UpTo(es, fn, naps, pw, pc, hs, gn, laps, n)
  <2>1. pw[1].k # "parameters"
    BY <1>2 DEF Rested
  <2> QED
    BY <2>1, <1>2, <1>3, <1>4, <1>5, <1>6 DEF UpTo
<1>8. Listed(hs, gn, laps, pw, pc)
  <2>1. Listed(es, fn, naps, pw, pc)
    BY <1>2 DEF Rested
  <2> QED
    BY <2>1, <1>2, <1>7, RestStaysTop
<1> QED
  BY <1>2, <1>8 DEF Rested

\* The names around the function, and in it.
LEMMA OpensNamed ==
    ASSUME NEW es, NEW ds, NEW fn, NEW d, NEW naps, NEW n, NEW pw, NEW pc, NEW b, NEW g, NEW hs,
           NEW gn, NEW laps, Opens(es, ds, fn, d, naps, n, pw, pc, b, g, hs, gn, laps),
           NEW z, z = Beginning(n + 1, b.env + 1)
    PROVE  Named(hs, gn, b) /\ Named(hs, gn, z)
<1>1. Opened(es, fn, naps, n, b, g, hs, gn, laps) /\ Begins(g, FirstFrame)
  BY OpensIs
<1>2. /\ Named(es, fn, b) /\ b.level = n /\ n \in Nat /\ n >= 1 /\ b.seen = b.all
      /\ b.all = Len(es[n].locals)
  BY DEF Opens, Suspended
<1>3. \A k \in 1..n : hs[k] = es[k]
  BY <1>1 DEF Opened
<1>4. Named(hs, gn, b)
  <2>1. SameNames(es, hs, n, b.seen)
    BY <1>3 DEF SameNames
  <2>2. gn[b.env] = fn[b.env]
    <3>1. b.env \in 1..b.env
      BY <1>1 DEF Opened
    <3> QED
      BY <3>1, <1>1 DEF Opened
  <2> QED
    BY <2>1, <2>2, <1>2, NamedStays
<1>5. z.level = n + 1 /\ z.seen = 1 /\ z.env = b.env + 1
  BY DEF Beginning
<1>6. \A y \in Name : Visible(hs, n + 1, 1, n + 1, y) = {}
  <2>1. hs[n + 1].locals[1].name = NoName
    BY <1>1 DEF Opened, Begins, SlotZero
  <2>2. \A l \in 1..1 : l = 1
    OBVIOUS
  <2> QED
    BY <2>1, <2>2, CompilerConstants DEF Visible
<1>7. \A y \in Name : \A j \in 1..n : Visible(hs, n + 1, 1, j, y) = Visible(es, n, b.seen, j, y)
  <2>1. \A j \in 1..n : j # n + 1
    BY <1>2
  <2> QED
    BY <2>1, <1>2, <1>3 DEF Visible
<1>8. ASSUME NEW y \in Name, NEW v, Binds(es, n, b.seen, y, v)
      PROVE  Binds(hs, n + 1, 1, y, v)
  <2>1. CASE v = Global /\ \A j \in 1..n : Visible(es, n, b.seen, j, y) = {}
    <3>1. \A j \in 1..n + 1 : j \in 1..n \/ j = n + 1
      BY <1>2
    <3>2. \A j \in 1..n + 1 : Visible(hs, n + 1, 1, j, y) = {}
      BY <3>1, <2>1, <1>6, <1>7
    <3> QED
      BY <3>2, <2>1 DEF Binds
  <2>2. CASE ~ (v = Global /\ \A j \in 1..n : Visible(es, n, b.seen, j, y) = {})
    <3>1. PICK j \in 1..n : \E l \in Visible(es, n, b.seen, j, y) :
              /\ v = es[j].locals[l].decl
              /\ \A m \in Visible(es, n, b.seen, j, y) : m <= l
              /\ \A i \in j + 1..n : Visible(es, n, b.seen, i, y) = {}
      BY <2>2, <1>8 DEF Binds
    <3>2. PICK l \in Visible(es, n, b.seen, j, y) :
              /\ v = es[j].locals[l].decl
              /\ \A m \in Visible(es, n, b.seen, j, y) : m <= l
              /\ \A i \in j + 1..n : Visible(es, n, b.seen, i, y) = {}
      BY <3>1
    <3>3. Visible(hs, n + 1, 1, j, y) = Visible(es, n, b.seen, j, y) /\ hs[j] = es[j]
      BY <1>3, <1>7
    <3>4. \A i \in j + 1..n + 1 : i = n + 1 \/ (i \in j + 1..n /\ i \in 1..n)
      BY <1>2
    <3>5. \A i \in j + 1..n + 1 : Visible(hs, n + 1, 1, i, y) = {}
      BY <3>2, <3>4, <1>6, <1>7
    <3>6. j \in 1..n + 1
      BY <1>2
    <3> QED
      BY <3>2, <3>3, <3>5, <3>6 DEF Binds
  <2> QED
    BY <2>1, <2>2
<1>9. \A y \in Name : Binds(es, n, b.seen, y, fn[b.env][y])
  BY <1>2 DEF Named
<1>10. \A y \in Name : Binds(hs, n + 1, 1, y, fn[b.env][y])
  BY <1>8, <1>9
<1>11. gn[z.env] = fn[b.env]
  BY <1>1, <1>5 DEF Opened
<1> QED
  BY <1>4, <1>5, <1>10, <1>11 DEF Named

LEMMA OpensTied ==
    ASSUME NEW es, NEW ds, NEW fn, NEW d, NEW naps, NEW n, NEW pw, NEW pc, NEW b, NEW g, NEW hs,
           NEW gn, NEW laps, Opens(es, ds, fn, d, naps, n, pw, pc, b, g, hs, gn, laps)
    PROVE  Tied(hs, ds, d)
<1>1. Opened(es, fn, naps, n, b, g, hs, gn, laps) /\ Begins(g, FirstFrame)
  BY OpensIs
<1>2. Tied(es, ds, d) /\ n \in Nat /\ n >= 1 /\ DOMAIN es = 1..n
  BY DEF Opens, Suspended
<1>3. /\ DOMAIN hs = 1..n + 1 /\ hs[n + 1] = g /\ \A k \in 1..n : hs[k] = es[k]
      /\ Len(g.locals) = 1 /\ g.f.upvalues = <<>> /\ g.f.gone = {}
  BY <1>1 DEF Opened, Begins
<1>4. \A k \in 1..n + 1 : (k \in 1..n /\ hs[k] = es[k]) \/ (k = n + 1 /\ hs[k] = g)
  BY <1>2, <1>3
<1>5. \A k \in 1..n : k \in 1..n + 1
  BY <1>2
<1>6. \A k \in 1..n + 1 : \A l \in 2..Len(hs[k].locals) :
          k \in 1..n /\ hs[k] = es[k] /\ l \in 2..Len(es[k].locals)
  <2> SUFFICES ASSUME NEW k \in 1..n + 1, NEW l \in 2..Len(hs[k].locals)
               PROVE  k \in 1..n /\ hs[k] = es[k] /\ l \in 2..Len(es[k].locals)
    OBVIOUS
  <2>1. ~ (k = n + 1 /\ hs[k] = g)
    <3> SUFFICES ASSUME hs[k] = g  PROVE FALSE
      OBVIOUS
    <3>1. Len(hs[k].locals) = 1
      BY <1>3
    <3>2. l \in 2..1
      BY <3>1
    <3> QED
      BY <3>2
  <2>2. k \in 1..n /\ hs[k] = es[k]
    BY <2>1, <1>4
  <2> QED
    BY <2>2
<1>7. Apart(hs)
  BY <1>2, <1>3, <1>6 DEF Tied, Apart
<1>8. Linked(hs)
  <2>1. hs[1].f.upvalues = <<>>
    BY <1>2, <1>3 DEF Tied, Linked
  <2>2. ASSUME NEW k \in 2..Len(hs), NEW i \in DOMAIN hs[k].f.upvalues
        PROVE  Joins(hs[k - 1], hs[k].f.upvalues[i])
    <3>1. Len(hs) = n + 1 /\ Len(es) = n
      BY <1>1 DEF Opened, Opens, Suspended
    <3>2. k # n + 1
      BY <2>2, <1>3
    <3>3. k \in 2..n /\ k \in 1..n /\ k - 1 \in 1..n
      BY <3>1, <3>2, <1>2
    <3>4. hs[k] = es[k] /\ hs[k - 1] = es[k - 1]
      BY <3>3, <1>3
    <3> QED
      BY <3>1, <3>3, <3>4, <2>2, <1>2 DEF Tied, Linked
  <2> QED
    BY <2>1, <2>2 DEF Linked
<1>9. \A q \in Everyone(hs, ds) : q = g.f \/ q \in Everyone(es, ds)
  BY <1>2, <1>3, <1>4 DEF Everyone
<1>10. \A q \in Everyone(es, ds) : q \in Everyone(hs, ds)
  BY <1>2, <1>3, <1>5 DEF Everyone
<1>11. \A v : ~ Captures(g.f, v)
  BY <1>3 DEF Captures
<1>12. \A v : Taken(hs, ds, v) <=> Taken(es, ds, v)
  BY <1>9, <1>10, <1>11 DEF Taken
<1>13. Flagged(hs, ds, d)
  <2>1. \A k \in 1..n : \A l \in 2..Len(es[k].locals) :
            es[k].locals[l].captured <=> Taken(es, ds, es[k].locals[l].decl)
    BY <1>2 DEF Tied, Flagged
  <2>2. \A k \in DOMAIN hs : \A l \in 2..Len(hs[k].locals) :
            hs[k].locals[l].captured <=> Taken(hs, ds, hs[k].locals[l].decl)
    BY <2>1, <1>3, <1>6, <1>12
  <2>3. \A q \in Everyone(hs, ds) : \A i \in DOMAIN q.upvalues : q.upvalues[i].decl \in 1..d
    BY <1>2, <1>3, <1>9 DEF Tied, Flagged
  <2> QED
    BY <2>2, <2>3 DEF Flagged
<1>14. \A q \in Everyone(hs, ds) : Closed(hs, ds, q)
  <2> SUFFICES ASSUME NEW q \in Everyone(hs, ds)
               PROVE  Closed(hs, ds, q)
    OBVIOUS
  <2>1. CASE q = g.f
    BY <2>1, <1>3 DEF Closed
  <2>2. CASE q \in Everyone(es, ds)
    <3>1. Closed(es, ds, q)
      BY <2>2, <1>2 DEF Tied
    <3> QED
      BY <3>1, <1>2, <1>3, <1>6, <1>12 DEF Closed
  <2> QED
    BY <2>1, <2>2, <1>9
<1> QED
  BY <1>7, <1>8, <1>13, <1>14 DEF Tied

LEMMA EnderPushed ==
    ASSUME NEW es, NEW ds, NEW fn, NEW d, NEW naps, NEW n, NEW pw, NEW pc, NEW b, NEW g, NEW hs,
           NEW gn, NEW laps, Opens(es, ds, fn, d, naps, n, pw, pc, b, g, hs, gn, laps),
           NEW z, z = Beginning(n + 1, b.env + 1)
    PROVE  \E r, q : /\ Enders(hs, ds, gn, d, laps, n, pw, z, r, q)
                     /\ \A k : Pending(r, q, k) = Pending(pw, pc, k)
<1>1. Opened(es, fn, naps, n, b, g, hs, gn, laps) /\ Begins(g, FirstFrame)
  BY OpensIs
<1>2. Rested(hs, gn, laps, pw, pc) /\ Named(hs, gn, b)
  BY OpensRested, OpensNamed
<1>3. /\ pw[1].k = "define" /\ b = pc[1] /\ Sane(b) /\ n \in Nat /\ n >= 1 /\ b.level = n
      /\ b.seen = b.all /\ Here(es[n], naps[n], b, Stack(es[n], Raise(b, -1)))
  BY DEF Opens, Suspended
<1>4. b.env \in Nat /\ b.env >= 1
  BY <1>3, Points
<1>5. /\ Sane(z) /\ Settled(z) /\ z \in Point /\ z.level = n + 1 /\ z.env = b.env + 1 /\ z.depth = 1
      /\ z.all = 1 /\ z.seen = 1 /\ z.vars = 1 /\ z.height = 1
  BY <1>3, <1>4, BeginningIs
<1>6. Fine(hs, z)
  <2>1. hs[z.level] = g /\ z.level \in DOMAIN hs
    BY <1>1, <1>3, <1>5 DEF Opened
  <2>2. Len(g.f.params) = 0 /\ Len(g.locals) = 1
    BY <1>1 DEF Begins
  <2> QED
    BY <2>1, <2>2, <1>5 DEF Fine
<1>7. PICK w, r, q : w = Do("endFunction") /\ r = <<w>> \o pw /\ q = <<z>> \o pc
  OBVIOUS
<1>8. w \in Item /\ w.k = "endFunction"
  BY <1>7, DoIs DEF Kinds
<1>9. Fits(w, z, pw[1], b)
  BY <1>3, <1>5, <1>8 DEF Fits
<1>10. Within(w, z, b)
  BY <1>3, <1>4, <1>5, <1>8 DEF Within
<1>11. Holds(w, z, b, hs[z.level], laps[z.level])
  BY <1>8 DEF Holds
<1>12. Here(hs[b.level], laps[b.level], b, Stack(hs[b.level], Raise(b, -1)))
  <2>1. n \in 1..n
    BY <1>3
  <2>2. hs[n] = es[n] /\ laps[n] = naps[n]
    BY <2>1, <1>1 DEF Opened
  <2> QED
    BY <2>2, <1>3
<1>13. Link(hs, gn, laps, w, z, pw[1], pc[1])
  BY <1>2, <1>3, <1>8, <1>9, <1>10, <1>11, <1>12 DEF Link
<1>14. Holes(w) = {}
  BY <1>8 DEF Holes
<1>15. Fresh(hs, gn, laps, pw, pc, w, z)
  <2>1. pw[1].k # "parameters" /\ z.vars = z.seen
    BY <1>3, <1>5
  <2> QED
    BY <2>1, <1>6, <1>13, <1>14 DEF Fresh
<1>16. Pushes(hs, gn, laps, pw, pc, w, z, r, q)
  BY <1>2, <1>7, <1>8, <1>15, PushAny
<1>17. Rested(hs, gn, laps, r, q)
  BY <1>8, <1>16, PushRests
<1>18. Enders(hs, ds, gn, d, laps, n, pw, z, r, q)
  BY <1>5, <1>6, <1>7, <1>16, <1>17 DEF Enders, Pushes
<1>19. \A k : Pending(r, q, k) = Pending(pw, pc, k)
  BY <1>14, <1>16 DEF Pushes
<1> QED
  BY <1>18, <1>19

LEMMA ParametersPushed ==
    ASSUME NEW es, NEW ds, NEW fn, NEW d, NEW naps, NEW n, NEW pw, NEW pc, NEW b, NEW g, NEW hs,
           NEW gn, NEW laps, Opens(es, ds, fn, d, naps, n, pw, pc, b, g, hs, gn, laps),
           NEW z, z = Beginning(n + 1, b.env + 1)
    PROVE  \E r, q : Parametric(hs, gn, laps, pw, pc, z, r, q)
<1>1. Opened(es, fn, naps, n, b, g, hs, gn, laps) /\ Begins(g, FirstFrame)
  BY OpensIs
<1>2. PICK r1, q1 : /\ Enders(hs, ds, gn, d, laps, n, pw, z, r1, q1)
                    /\ \A k : Pending(r1, q1, k) = Pending(pw, pc, k)
  BY EnderPushed
<1>3. /\ Rested(hs, gn, laps, r1, q1) /\ q1[1] = z /\ Fine(hs, z) /\ Settled(z)
      /\ r1 = <<Do("endFunction")>> \o pw /\ r1[1] = Do("endFunction")
  BY <1>2 DEF Enders
<1>4. PICK w2, r2, q2 : w2 = Do("declarations") /\ r2 = <<w2>> \o r1 /\ q2 = <<z>> \o q1
  OBVIOUS
<1>5. w2 \in Item /\ w2.k = "declarations" /\ r1[1].k = "endFunction"
  BY <1>3, <1>4, DoIs DEF Kinds
<1>6. Flat(w2, r1[1])
  BY <1>5 DEF Flat, Ends
<1>7. FlatPush(hs, gn, laps, r1, q1, w2, r2, q2)
  BY <1>3, <1>4, <1>5, <1>6, FlatPushed
<1>8. /\ Rested(hs, gn, laps, r2, q2) /\ r2[1] = w2 /\ q2[1] = z
      /\ \A k : Pending(r2, q2, k) = Pending(r1, q1, k)
  BY <1>3, <1>7 DEF FlatPush
<1>9. PICK w3, r3, q3 : w3 = Do("parameters") /\ r3 = <<w3>> \o r2 /\ q3 = <<z>> \o q2
  OBVIOUS
<1>10. w3 \in Item /\ w3.k = "parameters"
  BY <1>9, DoIs DEF Kinds
<1>11. Fits(w3, z, r2[1], z)
  BY <1>3, <1>5, <1>8, <1>10 DEF Fits
<1>12. Within(w3, z, z)
  BY <1>10, <1>3, Points DEF Within, Fine
<1>13. Holds(w3, z, z, hs[z.level], laps[z.level])
  <2>1. z.level = n + 1
    BY DEF Beginning
  <2>2. hs[z.level].f.code = <<>> /\ hs[z.level].f.born = {}
    BY <2>1, <1>1 DEF Opened, Begins
  <2> QED
    BY <2>2, <1>10 DEF Holds
<1>14. Link(hs, gn, laps, w3, z, r2[1], q2[1])
  BY <1>8, <1>10, <1>11, <1>12, <1>13 DEF Link
<1>15. Holes(w3) = {}
  BY <1>10 DEF Holes
<1>16. Fresh(hs, gn, laps, r2, q2, w3, z)
  <2>1. r2[1].k # "parameters" /\ z.vars = z.seen
    BY <1>3, <1>5, <1>8 DEF Settled
  <2> QED
    BY <2>1, <1>3, <1>14, <1>15 DEF Fresh
<1>17. Pushes(hs, gn, laps, r2, q2, w3, z, r3, q3)
  BY <1>8, <1>9, <1>10, <1>16, PushAny
<1>18. r3[3].k = "endFunction"
  <2>1. r2[2] = r1[1] /\ Len(r2) # 1
    <3>1. r1 \in Seq(Item) /\ Len(r1) >= 1
      BY <1>3 DEF Rested
    <3>2. Len(r2) = Len(r1) + 1 /\ \A i \in 1..Len(r1) : r2[i + 1] = r1[i]
      BY <3>1, <1>4, <1>5, Pushed
    <3>3. 1 \in 1..Len(r1) /\ 1 + 1 = 2 /\ Len(r1) \in Nat
      BY <3>1
    <3> QED
      BY <3>2, <3>3
  <2>2. r3[3] = r2[2]
    BY <2>1, <1>17 DEF Pushes
  <2> QED
    BY <2>1, <2>2, <1>5
<1>19. /\ Listed(hs, gn, laps, r3, q3) /\ r3 \in Seq(Item) /\ q3 \in Seq(Point)
       /\ r3[1] = w3 /\ q3[1] = z
       /\ \A k : Pending(r3, q3, k) = Pending(r2, q2, k)
  BY <1>15, <1>17 DEF Pushes
<1>20. Parametric(hs, gn, laps, pw, pc, z, r3, q3)
  BY <1>2, <1>3, <1>4, <1>8, <1>9, <1>10, <1>18, <1>19 DEF Parametric
<1> QED
  BY <1>20

\* A function begins.
LEMMA OpenStep ==
    ASSUME NEW es, NEW ds, NEW fn, NEW d, NEW naps, NEW n, NEW pw, NEW pc, NEW b, NEW g, NEW hs,
           NEW gn, NEW laps, Opens(es, ds, fn, d, naps, n, pw, pc, b, g, hs, gn, laps)
    PROVE  Valid(hs, <<Do("parameters")>> \o (<<Do("declarations")>> \o (<<Do("endFunction")>> \o pw)),
                 ds, gn, d)
<1>1. Opened(es, fn, naps, n, b, g, hs, gn, laps) /\ Begins(g, FirstFrame) /\ Limits(g) /\ Locals(g, d)
  BY OpensIs
<1>2. PICK z : z = Beginning(n + 1, b.env + 1)
  OBVIOUS
<1>3. PICK r, q : Parametric(hs, gn, laps, pw, pc, z, r, q)
  BY <1>2, ParametersPushed
<1>4. /\ Listed(hs, gn, laps, r, q) /\ r \in Seq(Item) /\ q \in Seq(Point)
      /\ r = <<Do("parameters")>> \o (<<Do("declarations")>> \o (<<Do("endFunction")>> \o pw))
      /\ q[1] = z /\ r[3].k = "endFunction"
      /\ \A k : Pending(r, q, k) = Pending(pw, pc, k)
  BY <1>3 DEF Parametric
<1>5. /\ Rested(es, fn, naps, pw, pc)
      /\ n \in Nat /\ n >= 1 /\ Sane(b) /\ b = pc[1] /\ b.level = n
      /\ \A k \in 1..n : /\ Sound(ds, es[k].f, naps[k], Pending(pw, pc, k), Global, d)
                         /\ Locals(es[k], d) /\ Limits(es[k])
      /\ Tied(es, ds, d) /\ d \in 0..MaxDecl /\ ds \in Seq(Function)
      /\ DOMAIN es = 1..n
  BY DEF Opens, Suspended
<1>6. b.env \in Nat /\ b.env >= 1
  BY <1>5, Points
<1>7. /\ Sane(z) /\ z.level = n + 1 /\ z.env = b.env + 1 /\ z.depth = 1
      /\ z.all = 1 /\ z.seen = 1 /\ z.vars = 1 /\ z.height = 1
  BY <1>2, <1>5, <1>6, BeginningIs
<1>8. /\ hs \in Seq(Comp) /\ Len(hs) = n + 1 /\ DOMAIN hs = 1..n + 1 /\ hs[n + 1] = g
      /\ DOMAIN laps = 1..n + 1 /\ laps[n + 1] = FirstFrame
      /\ \A k \in 1..n : hs[k] = es[k] /\ laps[k] = naps[k]
      /\ gn \in Seq([Name -> 0..MaxDecl]) /\ Len(gn) = b.env + 1
  BY <1>1 DEF Opened
<1>9. /\ g.scopeDepth = 1 /\ Len(g.locals) = 1 /\ g.locals[1] = SlotZero
      /\ g.f.code = <<>> /\ g.f.born = {} /\ Empty(g.f, FirstFrame)
      /\ FirstFrame[0] = [height |-> 1, slot |-> [i \in Slot |-> Global]]
  BY <1>1 DEF Begins
<1>10. Pending(r, q, n + 1) = {}
  <2>1. \A i \in 1..Len(pw) : pc[i].level # n + 1
    <3>1. Listed(es, fn, naps, pw, pc)
      BY <1>5 DEF Rested
    <3>2. \A i \in 1..Len(pw) : Fine(es, pc[i])
      BY <3>1 DEF Listed
    <3> QED
      BY <3>2, <1>5 DEF Fine
  <2>2. Pending(pw, pc, n + 1) = {}
    BY <2>1 DEF Pending
  <2> QED
    BY <2>2, <1>4
<1>11. Here(g, FirstFrame, z, Stack(g, z))
  <2>1. SlotsOf(g, 1) = [i \in Slot |-> Global]
    <3>1. \A i \in Slot : (IF i <= 1 THEN g.locals[i].decl ELSE Global) = Global
      <4>1. \A i \in Slot : i <= 1 => i = 1
        BY CompilerConstants DEF Slot
      <4> QED
        BY <4>1, <1>9 DEF SlotZero, Global
    <3> QED
      BY <3>1 DEF SlotsOf
  <2>2. Stack(g, z) = FirstFrame[0]
    BY <2>1, <1>7, <1>9 DEF Stack
  <2>3. g.locals[Len(g.locals)].depth # -1
    BY <1>9 DEF SlotZero
  <2> QED
    BY <2>2, <2>3, <1>7, <1>9 DEF Here
<1>12. Heads(hs, gn, laps, r, q)
  <2>1. Named(hs, gn, z)
    BY <1>2, OpensNamed
  <2> QED
    BY <2>1, <1>4, <1>7, <1>8, <1>11 DEF Heads
<1>13. Coded(hs, ds, d, laps, r, q)
  <2> SUFFICES ASSUME NEW k \in 1..n + 1
               PROVE  /\ Sound(ds, hs[k].f, laps[k], Pending(r, q, k),
                               IF k = Len(hs) THEN Late(hs[k], q[1]) ELSE Global, d)
                      /\ Locals(hs[k], d)
    BY <1>8 DEF Coded
  <2>1. CASE k \in 1..n
    <3>1. k # Len(hs)
      BY <2>1, <1>8, <1>5
    <3>2. hs[k] = es[k] /\ laps[k] = naps[k] /\ Pending(r, q, k) = Pending(pw, pc, k)
      BY <2>1, <1>4, <1>8
    <3> QED
      BY <2>1, <3>1, <3>2, <1>5
  <2>2. CASE k = n + 1
    <3>1. Late(g, z) = Global
      BY <1>7 DEF Late
    <3>2. Sound(ds, g.f, FirstFrame, {}, Global, d)
      BY <1>9, EmptySound
    <3> QED
      BY <2>2, <3>1, <3>2, <1>1, <1>4, <1>8, <1>10
  <2> QED
    BY <2>1, <2>2, <1>5
<1>14. Tied(hs, ds, d)
  BY OpensTied
<1>15. Good(hs, r, ds, gn, d, q, laps)
  BY <1>4, <1>8, <1>12, <1>13, <1>14 DEF Good
<1>16. Types(hs, r, ds, gn, d)
  <2>1. \A k \in 1..n + 1 : (k \in 1..n /\ hs[k] = es[k]) \/ hs[k] = g
    BY <1>5, <1>8
  <2>2. \A k \in DOMAIN hs : Limits(hs[k])
    BY <2>1, <1>1, <1>5, <1>8
  <2> QED
    BY <2>2, <1>4, <1>5, <1>8 DEF Types
<1>17. Valid(hs, r, ds, gn, d)
  BY <1>15, <1>16 DEF Valid
<1> QED
  BY <1>4, <1>17

LEMMA Suspends ==
    ASSUME NEW es, NEW ds, NEW fn, NEW d, NEW naps, NEW n, NEW rw, NEW q, NEW p, NEW s, NEW b,
           Ahead(es, ds, fn, d, naps, n, rw, q, p, s, b),
           NEW pw, pw = <<Defines(s)>> \o rw
    PROVE  \E pc : Suspended(es, ds, fn, d, naps, n, pw, pc, b)
<1>1. /\ Rested(es, fn, naps, rw, q) /\ p = q[1] /\ p.vars = p.seen
      /\ Fine(es, b) /\ s \in Seq(Bytes) /\ Fits(Defines(s), b, rw[1], p)
      /\ p.level = b.level /\ p.env = b.env /\ p.depth = b.depth /\ p.all = b.all
      /\ n = Len(es) /\ n \in Nat /\ n >= 1 /\ DOMAIN es = 1..n /\ DOMAIN naps = 1..n
      /\ b.level = n /\ b.env = Len(fn) /\ b.seen = b.all /\ b.all = Len(es[n].locals)
      /\ Here(es[n], naps[n], b, Stack(es[n], Raise(b, -1))) /\ Named(es, fn, b)
      /\ Coded(es, ds, d, naps, rw, q) /\ Tied(es, ds, d) /\ Types(es, rw, ds, fn, d)
  BY DEF Ahead
<1>2. PICK w, pc : w = Defines(s) /\ pc = <<b>> \o q
  OBVIOUS
<1>3. w \in Item /\ w.k = "define" /\ pw = <<w>> \o rw
  BY <1>1, <1>2, EmitsIs
<1>4. Sane(b)
  BY <1>1 DEF Fine
<1>5. Within(w, b, p)
  BY <1>1, <1>3, <1>4, Points DEF Within
<1>6. Link(es, fn, naps, w, b, rw[1], q[1])
  <2>1. Holds(w, b, p, es[b.level], naps[b.level])
    BY <1>3 DEF Holds
  <2> QED
    BY <2>1, <1>1, <1>2, <1>3, <1>5 DEF Link
<1>7. Holes(w) = {}
  BY <1>3 DEF Holes
<1>8. Fresh(es, fn, naps, rw, q, w, b)
  <2>1. rw[1].k # "parameters"
    BY <1>1 DEF Rested
  <2> QED
    BY <2>1, <1>1, <1>3, <1>6, <1>7 DEF Fresh
<1>9. Pushes(es, fn, naps, rw, q, w, b, pw, pc)
  BY <1>1, <1>2, <1>3, <1>8, PushAny
<1>10. Rested(es, fn, naps, pw, pc)
  BY <1>3, <1>9, PushRests
<1>11. /\ pw[1] = w /\ pc[1] = b /\ \A k : Pending(pw, pc, k) = Pending(rw, q, k)
  BY <1>7, <1>9 DEF Pushes
<1>12. Late(es[n], q[1]) = Global
  <2>1. Fine(es, q[1])
    BY <1>1 DEF Rested, Listed
  <2>2. p.vars \in Nat /\ p.vars = p.seen
    BY <2>1, <1>1, Points DEF Fine
  <2>3. ~ (p.vars < p.seen)
    BY <2>2
  <2> QED
    BY <2>3, <1>1 DEF Late
<1>13. /\ es \in Seq(Comp) /\ ds \in Seq(Function) /\ d \in 0..MaxDecl
       /\ fn \in Seq([Name -> 0..MaxDecl]) /\ \A k \in 1..n : Limits(es[k])
  BY <1>1 DEF Types
<1>14. \A k \in 1..n : /\ Sound(ds, es[k].f, naps[k], Pending(pw, pc, k), Global, d)
                       /\ Locals(es[k], d)
  <2> SUFFICES ASSUME NEW k \in 1..n
               PROVE  /\ Sound(ds, es[k].f, naps[k], Pending(pw, pc, k), Global, d)
                      /\ Locals(es[k], d)
    OBVIOUS
  <2>1. /\ Sound(ds, es[k].f, naps[k], Pending(rw, q, k),
                 IF k = Len(es) THEN Late(es[k], q[1]) ELSE Global, d)
        /\ Locals(es[k], d)
    BY <1>1 DEF Coded
  <2>2. (IF k = Len(es) THEN Late(es[k], q[1]) ELSE Global) = Global
    BY <1>1, <1>12
  <2> QED
    BY <2>1, <2>2, <1>11
<1>15. \A k \in 1..n : Len(es[k].locals) >= 1
  <2> SUFFICES ASSUME NEW k \in 1..n
               PROVE  Len(es[k].locals) >= 1
    OBVIOUS
  <2>1. es[k] \in Comp /\ es[k].locals # <<>>
    BY <1>1, <1>13, <1>14, SeqIs DEF Locals
  <2>2. es[k].locals \in Seq(Local)
    BY <2>1, CompIs
  <2> QED
    BY <2>1, <2>2
<1>16. Len(fn) \in Nat
  BY <1>13
<1> QED
  BY <1>1, <1>3, <1>4, <1>10, <1>11, <1>13, <1>14, <1>15, <1>16 DEF Suspended

-----------------------------------------------------------------------------
(* Functions that are declared.                                            *)

LEMMA RebindIs ==
    ASSUME NEW en \in Seq([Name -> 0..MaxDecl]), Len(en) >= 1, NEW x \in Name, NEW d \in 1..MaxDecl,
           NEW fn, Rebinds(en, x, d, fn)
    PROVE  Rebound(en, x, d, fn)
<1>1. PICK E : E = en[Len(en)]
  OBVIOUS
<1>2. PICK F : F = [E EXCEPT ![x] = d]
  OBVIOUS
<1>3. E \in [Name -> 0..MaxDecl]
  BY <1>1
<1>4. d \in 0..MaxDecl
  BY CompilerConstants
<1>5. F \in [Name -> 0..MaxDecl] /\ \A y \in Name : F[y] = IF y = x THEN d ELSE E[y]
  BY <1>2, <1>3, <1>4
<1>6. fn = [en EXCEPT ![Len(en)] = F]
  BY <1>1, <1>2 DEF Rebinds
<1>7. fn[Len(en)] = F /\ Len(fn) = Len(en) /\ fn \in Seq([Name -> 0..MaxDecl])
      /\ \A i \in 1..Len(en) - 1 : fn[i] = en[i]
  BY <1>5, <1>6
<1> QED
  BY <1>1, <1>5, <1>7 DEF Rebound

LEMMA OwedIs ==
    ASSUME NEW a, Sane(a), Settled(a), a.all + 1 <= Count, NEW b, b = Owed(a), NEW p, p = More(a)
    PROVE  Owes(a, p, b)
<1>1. /\ Sane(p) /\ p \in Point /\ p.level = a.level /\ p.depth = a.depth /\ p.env = a.env
      /\ p.all = a.all + 1 /\ p.seen = a.all + 1 /\ p.vars = a.all + 1 /\ p.height = a.all + 1
  BY MoreIs
<1>2. b = [p EXCEPT !.vars = @ - 1]
  BY DEF Owed
<1>3. a.all \in Nat /\ a.vars = a.all /\ a.vars >= 1 /\ a.level >= 1 /\ a.env >= 1
  BY DEF Sane, Point, Settled
<1>4. b \in Point
  BY <1>1, <1>2, <1>3 DEF Point
<1>5. /\ b.level = a.level /\ b.depth = a.depth /\ b.env = a.env
      /\ b.all = a.all + 1 /\ b.seen = a.all + 1 /\ b.vars = a.all /\ b.height = a.all + 1
  BY <1>1, <1>2, <1>3 DEF Point
<1>6. b = [p EXCEPT !.vars = @ - 1, !.seen = b.seen]
  BY <1>1, <1>2, <1>5 DEF Point
<1>7. Raise(b, -1).height = a.all /\ Raise(b, -1).vars = a.all
  BY <1>3, <1>4, <1>5 DEF Raise, Point
<1>8. Sane(b)
  BY <1>3, <1>4, <1>5 DEF Sane
<1> QED
  BY <1>5, <1>6, <1>7, <1>8 DEF Owes

\* The same compiler as before and after.
LEMMA SeenSelf ==
    ASSUME NEW es, NEW n \in Nat, n >= 1, NEW h, BornNames(es[n], es[n], h), NEW s \in {h - 1, h},
           NEW x, x = es[n].locals[h].name, NEW y, NEW g, Binds(es, n, s, y, g),
           NEW d, d = es[n].locals[h].decl, NEW w, w = IF y = x THEN d ELSE g
    PROVE  Binds(es, n, h, y, w)
<1>1. PICK ch : ch = es
  OBVIOUS
<1>2. /\ \A k \in 1..n - 1 : es[k] = ch[k]
      /\ BornNames(ch[n], es[n], h) /\ x = ch[n].locals[h].name /\ d = ch[n].locals[h].decl
      /\ Binds(ch, n, s, y, g)
  BY <1>1
<1> HIDE <1>1
<1> QED
  BY <1>2, SeenLast

LEMMA FunLocalStep ==
    ASSUME NEW ch, NEW wk, NEW ds, NEW en, NEW dc, NEW ctx, NEW maps, NEW n, NEW a, NEW c, NEW rw,
           NEW rc, NEW e, NEW es, NEW naps, NEW fn, NEW x, NEW dd, NEW d,
           FunLocal(ch, wk, ds, en, dc, ctx, maps, n, a, c, rw, rc, e, es, naps, fn, x, dd, d)
    PROVE  \E q, p, b : Ahead(es, ds, fn, d, naps, n, rw, q, p, <<>>, b)
<1>0. /\ Locally(ch, wk, ds, en, dc, ctx, maps, n, a, c, rw, rc, e, es, naps, fn, x, dd, d)
      /\ dd = c.scopeDepth /\ d = dc + 1 /\ e.f = c.f /\ GoneBy(ch, ds, dc) /\ Limits(e)
      /\ Rebinds(en, x, d, fn)
  BY DEF FunLocal
<1>1. /\ Declaring(ch, wk, ds, en, dc, ctx, maps, n, a, c, rw, rc) /\ Declares(c, e, x, dd, d)
      /\ Len(e.locals) <= Count
  BY <1>0 DEF Locally
<1>2. Declarer(ch, wk, ds, en, dc, maps, n, a, c, rc)
  BY <1>1, DeclaringIs
<1>3. /\ c \in Comp /\ Settled(a) /\ Sane(a) /\ a.level = n /\ a.depth = c.scopeDepth
      /\ a.all = Len(c.locals) /\ a.env = Len(en) /\ Fine(ch, a) /\ Named(ch, en, a)
      /\ dc \in Nat /\ n \in Nat /\ n >= 1 /\ ds \in Seq(Function)
  BY <1>2 DEF Declarer
<1>4. /\ Types(ch, wk, ds, en, dc) /\ Good(ch, wk, ds, en, dc, ctx, maps) /\ c = ch[n]
      /\ wk[1].k \in {"declarations", "initializer"}
  BY <1>1 DEF Declaring, Ready
<1>5. PICK p, b : p = More(a) /\ b = Owed(a)
  OBVIOUS
<1>6. PICK q : Moved(es, fn, naps, rw, rc, q, p)
  BY <1>0, <1>5, LocallyBumps
<1>7. /\ Rested(es, fn, naps, rw, q) /\ q[1] = p /\ Fine(es, p) /\ Settled(p)
      /\ \A k : Pending(rw, q, k) = Pending(rw, rc, k)
  BY <1>6 DEF Moved
<1>8. Tops(ch, maps, es, naps, n) /\ es[n] = e /\ naps[n] = maps[n] /\ Locals(e, d)
  BY <1>0, LocallyIs
<1>9. Tied(es, ds, d) /\ Sound(ds, e.f, maps[n], Pending(wk, ctx, n), Global, d)
  BY <1>0, LocallyIs
<1>10. SameNames(ch, es, n, a.all)
  BY <1>0, LocallyIs
<1>11. /\ c.scopeDepth >= 1 /\ Len(e.locals) = a.all + 1 /\ x \in Name /\ d \in 1..MaxDecl
       /\ e.locals[a.all + 1] = [name |-> x, depth |-> dd, captured |-> FALSE, decl |-> d]
       /\ c.scopeDepth \in Nat /\ a.all \in Nat /\ a.vars = a.all /\ a.seen = a.all
  BY <1>1, <1>3, CompIs DEF Declares, Settled
<1>12. a.all + 1 <= Count
  BY <1>1, <1>11
<1>13. /\ Sane(b) /\ b.level = n /\ b.depth = c.scopeDepth /\ b.env = Len(en)
       /\ b.all = a.all + 1 /\ b.seen = a.all + 1 /\ b.vars = a.all /\ b.height = a.all + 1
       /\ b = [p EXCEPT !.vars = @ - 1, !.seen = b.seen]
       /\ Raise(b, -1).height = a.all /\ Raise(b, -1).vars = a.all
  <2>1. Owes(a, p, b)
    BY <1>3, <1>5, <1>12, OwedIs
  <2> QED
    BY <2>1, <1>3 DEF Owes
<1>14. /\ p.level = n /\ p.depth = c.scopeDepth /\ p.env = Len(en) /\ p.all = a.all + 1
  BY <1>3, <1>5, <1>12, MoreIs
<1>15. /\ es \in Seq(Comp) /\ Len(es) = n /\ DOMAIN es = 1..n /\ DOMAIN naps = 1..n /\ n \in DOMAIN es
       /\ \A k \in 1..n - 1 : es[k] = ch[k]
  BY <1>3, <1>8 DEF Tops
<1>16. en \in Seq([Name -> 0..MaxDecl]) /\ Len(en) >= 1
  BY <1>3, <1>4, Points DEF Types
<1>17. /\ fn \in Seq([Name -> 0..MaxDecl]) /\ Len(fn) = Len(en)
       /\ \A y \in Name : fn[Len(en)][y] = IF y = x THEN d ELSE en[Len(en)][y]
  <2>1. Rebound(en, x, d, fn)
    BY <1>0, <1>11, <1>16, RebindIs
  <2> QED
    BY <2>1 DEF Rebound
<1>18. Fine(es, b)
  <2>1. b.vars > Len(es[n].f.params)
    BY <1>0, <1>3, <1>4, <1>8, <1>11, <1>13 DEF Fine
  <2>2. b.all <= Len(es[n].locals)
    BY <1>8, <1>11, <1>13
  <2> QED
    BY <2>1, <2>2, <1>13, <1>15 DEF Fine
<1>19. <<>> \in Seq(Bytes) /\ Fits(Defines(<<>>), b, rw[1], p)
  <2>1. b.depth # 0
    BY <1>11, <1>13
  <2>2. Defines(<<>>).k = "define" /\ Defines(<<>>).s = <<>>
    BY DEF Defines
  <2> QED
    BY <2>1, <2>2, <1>7, <1>13, <1>14 DEF Fits
<1>20. Here(es[n], naps[n], b, Stack(es[n], Raise(b, -1)))
  <2>1. Stack(e, Raise(b, -1)) = [height |-> a.all, slot |-> SlotsOf(e, a.all)]
    BY <1>13 DEF Stack
  <2>2. b.seen = b.all <=> dd # -1
    BY <1>0, <1>11, <1>13
  <2>3. PICK s : s = [height |-> a.all, slot |-> SlotsOf(e, a.all)]
    OBVIOUS
  <2>4. b.depth = c.scopeDepth /\ b.all = a.all + 1
    BY <1>13
  <2>5. /\ Locally(ch, wk, ds, en, dc, ctx, maps, n, a, c, rw, rc, e, es, naps, fn, x, dd, d)
        /\ d = dc + 1
    BY <1>0
  <2>6. Here(e, maps[n], b, s)
    BY <2>2, <2>3, <2>4, <2>5, LocallyHere
  <2> QED
    BY <2>1, <2>3, <2>6, <1>8
<1>21. Named(es, fn, b)
  <2> SUFFICES ASSUME NEW y \in Name  PROVE Binds(es, b.level, b.seen, y, fn[b.env][y])
    BY DEF Named
  <2>1. Binds(ch, n, a.all, y, en[Len(en)][y])
    BY <1>3, <1>11 DEF Named
  <2>2. PICK g, h : g = en[Len(en)][y] /\ h = a.all + 1
    OBVIOUS
  <2>3. Binds(es, n, a.all, y, g)
    BY <2>1, <2>2, <1>3, <1>10, BindsStay
  <2>4. BornNames(es[n], es[n], h)
    BY <2>2, <1>8, <1>11 DEF BornNames
  <2>5. PICK w : w = IF y = x THEN d ELSE g
    OBVIOUS
  <2>6. x = es[n].locals[h].name /\ d = es[n].locals[h].decl
    BY <2>2, <1>8, <1>11
  <2>7. Binds(es, n, h, y, w)
    <3>1. PICK s : s = a.all
      OBVIOUS
    <3>2. s \in {h - 1, h}
      BY <3>1, <2>2, <1>11
    <3>4. Binds(es, n, s, y, g)
      BY <3>1, <2>3
    <3> QED
      BY <3>2, <3>4, <2>4, <2>5, <2>6, <1>3, SeenSelf
  <2>8. fn[b.env][y] = w
    BY <2>2, <2>5, <1>13, <1>17
  <2> QED
    BY <2>2, <2>7, <2>8, <1>13
<1>22. Coded(es, ds, d, naps, rw, q)
  <2>1. Late(es[n], q[1]) = Global
    <3>1. p.vars = p.seen /\ p.vars \in Nat
      BY <1>3, <1>5, <1>7, <1>12, MoreIs DEF Settled, Point
    <3>2. ~ (p.vars < p.seen)
      BY <3>1
    <3> QED
      BY <3>2, <1>7 DEF Late
  <2>2. \A k \in 1..n : Pending(rw, q, k) = Pending(wk, ctx, k)
    BY <1>1, <1>7, DeclaringOpen
  <2>3. Sound(ds, es[n].f, naps[n], Pending(rw, q, n), Late(es[n], q[1]), d)
    <3>1. n \in 1..n
      BY <1>3
    <3>2. Pending(rw, q, n) = Pending(wk, ctx, n)
      BY <3>1, <2>2
    <3> QED
      BY <3>2, <2>1, <1>8, <1>9
  <2>4. Coded(ch, ds, dc, maps, wk, ctx)
    BY <1>4 DEF Good
  <2>5. d \in Nat /\ dc <= d
    BY <1>0, <1>3
  <2>6. \A k \in 1..n - 1 : Pending(rw, q, k) = Pending(wk, ctx, k)
    <3>1. \A k \in 1..n - 1 : k \in 1..n
      BY <1>3
    <3> QED
      BY <3>1, <2>2
  <2>7. Locals(es[n], d)
    BY <1>8
  <2> QED
    BY <2>3, <2>4, <2>5, <2>6, <2>7, <1>3, <1>8, CodedTops
<1>23. Types(es, rw, ds, fn, d)
  <2>1. d \in 0..MaxDecl
    BY <1>11, CompilerConstants
  <2>2. rw \in Seq(Item) /\ Limits(es[n])
    BY <1>0, <1>7, <1>8 DEF Rested
  <2> QED
    BY <2>1, <2>2, <1>4, <1>8, <1>17, TypesTops
<1>24. p.vars = p.seen
  BY <1>7 DEF Settled
<1>25. Ahead(es, ds, fn, d, naps, n, rw, q, p, <<>>, b)
  <2>1. /\ p.level = b.level /\ p.env = b.env /\ p.depth = b.depth /\ p.all = b.all
        /\ b.level = n /\ b.env = Len(fn) /\ b.seen = b.all /\ b.all = Len(es[n].locals)
    BY <1>8, <1>11, <1>13, <1>14, <1>17
  <2> QED
    BY <2>1, <1>3, <1>7, <1>9, <1>15, <1>18, <1>19, <1>20, <1>21, <1>22, <1>23, <1>24 DEF Ahead
<1> QED
  BY <1>25

LEMMA FunGlobalIs ==
    ASSUME NEW ch, NEW wk, NEW ds, NEW en, NEW dc, NEW ctx, NEW maps, NEW n, NEW a, NEW c, NEW rw,
           NEW rc, NEW e, NEW es, NEW s, NEW b,
           FunGlobal(ch, wk, ds, en, dc, ctx, maps, n, a, c, rw, rc, e, es, s, b),
           NEW naps, naps = Renewed(ch, maps, maps[n])
    PROVE  GlobalHere(ch, ds, en, dc, maps, n, a, e, es, naps, rw, rc, b)
<1>0. /\ Declaring(ch, wk, ds, en, dc, ctx, maps, n, a, c, rw, rc) /\ c.scopeDepth = 0
      /\ e = MakeConstant(c, Global) /\ ~ e.error /\ es = [ch EXCEPT ![n] = e]
      /\ b = Raise(a, 1)
  BY DEF FunGlobal
<1>1. Declarer(ch, wk, ds, en, dc, maps, n, a, c, rc)
  BY <1>0, DeclaringIs
<1>2. /\ n \in Nat /\ n >= 1 /\ n \in DOMAIN ch /\ c \in Comp /\ Limits(c) /\ Locals(c, dc)
      /\ Settled(a) /\ Sane(a) /\ a \in Point /\ a.level = n /\ a.depth = c.scopeDepth
      /\ a.all = Len(c.locals) /\ a.env = Len(en) /\ rc[1] = a
      /\ Here(c, maps[n], a, Stack(c, a)) /\ Named(ch, en, a)
      /\ ds \in Seq(Function) /\ dc \in Nat
  BY <1>1 DEF Declarer
<1>3. /\ Types(ch, wk, ds, en, dc) /\ Good(ch, wk, ds, en, dc, ctx, maps) /\ n = Len(ch) /\ c = ch[n]
      /\ a = ctx[1]
  BY <1>0 DEF Declaring, Ready
<1>4. Constant(c, Global, e)
  BY <1>0, <1>2, ConstantIs DEF Global
<1>5. /\ e \in Comp /\ e.locals = c.locals /\ e.scopeDepth = c.scopeDepth
      /\ e.f.code = c.f.code /\ e.f.upvalues = c.f.upvalues /\ e.f.params = c.f.params
      /\ e.f.born = c.f.born /\ e.f.gone = c.f.gone
  BY <1>4 DEF Constant
<1>6. Tops(ch, maps, es, naps, n) /\ es[n] = e /\ naps[n] = maps[n]
  <2>1. Changed(ch, maps, e, maps[n], es, naps)
    BY <1>0, <1>3 DEF Changed, Renewed
  <2> QED
    BY <2>1, <1>3, <1>5, TopsAre
<1>7. Limits(e) /\ Locals(e, dc)
  BY <1>2, <1>5 DEF Limits, Locals
<1>8. /\ Raise(b, -1) = a /\ b.level = a.level /\ b.depth = a.depth /\ b.env = a.env
      /\ b.all = a.all /\ b.seen = a.seen /\ b.vars = a.vars
  <2>1. a.vars = a.seen
    BY <1>2 DEF Settled
  <2> QED
    BY <2>1, <1>0, <1>2, Raised, Rises
<1>9. Here(es[n], naps[n], b, Stack(es[n], a))
  <2>1. Stack(e, a) = Stack(c, a)
    BY <1>5 DEF Stack, SlotsOf
  <2> QED
    BY <2>1, <1>2, <1>5, <1>6, <1>8 DEF Here
<1>10. \A k \in 1..n : k = n \/ k \in 1..n - 1
  BY <1>2
<1>11. /\ ch \in Seq(Comp) /\ es \in Seq(Comp) /\ Len(es) = n /\ DOMAIN es = 1..n /\ DOMAIN ch = 1..n
       /\ \A k \in 1..n - 1 : es[k] = ch[k]
  BY <1>6 DEF Tops
<1>12. \A k \in 1..n : es[k].locals = ch[k].locals
  BY <1>3, <1>5, <1>6, <1>10, <1>11
<1>13. Named(es, en, b)
  <2>1. SameNames(ch, es, n, a.seen)
    BY <1>12 DEF SameNames
  <2>2. Named(es, en, a)
    BY <2>1, <1>2, NamedStays
  <2> QED
    BY <2>2, <1>8 DEF Named
<1>14. Tied(es, ds, dc)
  <2>1. Tied(ch, ds, dc)
    BY <1>3 DEF Good
  <2>2. Aligned(ch, es, n)
    BY <1>2, <1>3, <1>5, <1>6, <1>10, <1>11 DEF Aligned
  <2>3. \A k \in 1..n : /\ Len(es[k].locals) = Len(ch[k].locals)
                        /\ \A l \in 1..Len(ch[k].locals) :
                               /\ es[k].locals[l].decl = ch[k].locals[l].decl
                               /\ es[k].locals[l].captured = ch[k].locals[l].captured
    BY <1>12
  <2> QED
    BY <2>1, <2>2, <2>3, <1>2, AlignedTied
<1>15. Coded(es, ds, dc, naps, rw, rc) /\ Coder(ch[n], maps[n], e, maps[n])
  <2>1. \A k \in 1..n : Pending(wk, ctx, k) = Pending(rw, rc, k)
    BY <1>0, DeclaringOpen
  <2>2. PICK P, M : P = Pending(rw, rc, n) /\ M = maps[n]
    OBVIOUS
  <2>3. n \in 1..n /\ \A k \in 1..n - 1 : k \in 1..n
    BY <1>2
  <2>4. P = Pending(wk, ctx, n)
    BY <2>1, <2>2, <2>3
  <2>5. Wrote(ds, dc, c, M, P, a.height, SlotsOf(c, a.vars), a.vars)
    <3>1. Ready(ch, wk, ds, en, dc, ctx, maps)
      BY <1>0 DEF Declaring
    <3> QED
      BY <3>1, <2>2, <2>4, <1>3, AtWrote
  <2>6. Grown(ds, dc, c, M, e, M, P, a.height, SlotsOf(c, a.vars), a.vars)
    BY <2>5, <1>2, <1>4, ConstantWrites
  <2>7. Sound(ds, e.f, M, P, Global, dc) /\ Coder(c, M, e, M)
    BY <2>6 DEF Grown, Wrote, Coding
  <2>8. Late(e, a) = Global
    <3>1. a.vars = a.seen /\ a.vars \in Nat
      BY <1>2 DEF Settled, Point
    <3>2. ~ (a.vars < a.seen)
      BY <3>1
    <3> QED
      BY <3>2 DEF Late
  <2>9. Sound(ds, es[n].f, naps[n], Pending(rw, rc, n), Late(es[n], rc[1]), dc)
    BY <2>2, <2>7, <2>8, <1>2, <1>6
  <2>10. Coded(ch, ds, dc, maps, wk, ctx)
    BY <1>3 DEF Good
  <2>11. /\ \A k \in 1..n - 1 : Pending(rw, rc, k) = Pending(wk, ctx, k)
         /\ Locals(es[n], dc) /\ dc <= dc
    BY <2>1, <2>3, <1>2, <1>6, <1>7
  <2> QED
    BY <2>2, <2>7, <2>9, <2>10, <2>11, <1>2, <1>3, <1>6, CodedTops
<1> QED
  BY <1>6, <1>7, <1>8, <1>9, <1>13, <1>14, <1>15 DEF GlobalHere

LEMMA FunGlobalStep ==
    ASSUME NEW ch, NEW wk, NEW ds, NEW en, NEW dc, NEW ctx, NEW maps, NEW n, NEW a, NEW c, NEW rw,
           NEW rc, NEW e, NEW es, NEW s, NEW b,
           FunGlobal(ch, wk, ds, en, dc, ctx, maps, n, a, c, rw, rc, e, es, s, b)
    PROVE  \E naps : Ahead(es, ds, en, dc, naps, n, rw, rc, a, s, b)
<1>0. /\ Declaring(ch, wk, ds, en, dc, ctx, maps, n, a, c, rw, rc) /\ c.scopeDepth = 0
      /\ e = MakeConstant(c, Global) /\ ~ e.error /\ es = [ch EXCEPT ![n] = e]
      /\ b = Raise(a, 1) /\ s = <<Op("DEFINE_GLOBAL"), Byte(ConstantIndex(c))>>
  BY DEF FunGlobal
<1>1. Declarer(ch, wk, ds, en, dc, maps, n, a, c, rc)
  BY <1>0, DeclaringIs
<1>2. /\ n \in Nat /\ n >= 1 /\ n \in DOMAIN ch /\ c \in Comp
      /\ Settled(a) /\ Sane(a) /\ a \in Point /\ a.level = n /\ a.depth = c.scopeDepth
      /\ a.all = Len(c.locals) /\ a.env = Len(en) /\ rc[1] = a /\ Fine(ch, a)
  BY <1>1 DEF Declarer
<1>3. Types(ch, wk, ds, en, dc) /\ Good(ch, wk, ds, en, dc, ctx, maps) /\ n = Len(ch) /\ c = ch[n]
  BY <1>0 DEF Declaring, Ready
<1>4. PICK naps : naps = Renewed(ch, maps, maps[n])
  OBVIOUS
<1>5. GlobalHere(ch, ds, en, dc, maps, n, a, e, es, naps, rw, rc, b)
  BY <1>4, FunGlobalIs
<1>6. /\ Tops(ch, maps, es, naps, n) /\ es[n] = e /\ naps[n] = maps[n] /\ Limits(e)
      /\ Here(es[n], naps[n], b, Stack(es[n], a)) /\ Named(es, en, b) /\ Raise(b, -1) = a
      /\ Coded(es, ds, dc, naps, rw, rc) /\ Tied(es, ds, dc)
      /\ Coder(ch[n], maps[n], e, maps[n])
  BY <1>5 DEF GlobalHere
<1>7. /\ Listed(ch, en, maps, rw, rc) /\ rw \in Seq(Item) /\ rc \in Seq(Point)
      /\ rw[1].k \in {"declarations", "for"}
  BY <1>0, DeclaringRest
<1>8. Constant(c, Global, e) /\ ConstantIndex(c) \in Nat
  BY <1>0, <1>2, ConstantIs DEF Global
<1>9. /\ e.locals = c.locals /\ e.scopeDepth = c.scopeDepth
      /\ e.f.code = c.f.code /\ e.f.upvalues = c.f.upvalues /\ e.f.params = c.f.params
      /\ e.f.born = c.f.born /\ e \in Comp
  BY <1>8 DEF Constant
<1>10. /\ es \in Seq(Comp) /\ Len(es) = n /\ DOMAIN es = 1..n /\ DOMAIN naps = 1..n /\ n \in DOMAIN es
  BY <1>2, <1>6 DEF Tops
<1>11. Rested(es, en, naps, rw, rc)
  <2>1. a.all \in Nat /\ a.all <= Len(c.locals)
    BY <1>2, CompIs
  <2>2. Keeps(ch[n], maps[n], es[n], naps[n], a.all, a.depth)
    BY <2>1, <1>2, <1>3, <1>6, CoderKeeps
  <2>3. Listed(es, en, naps, rw, rc)
    BY <2>2, <1>2, <1>6, <1>7, RestTops
  <2> QED
    BY <2>3, <1>7 DEF Rested, Listed
<1>12. /\ b.level = a.level /\ b.depth = a.depth /\ b.env = a.env
       /\ b.all = a.all /\ b.seen = a.seen /\ b.vars = a.vars /\ b.height = a.height + 1 /\ b \in Point
  BY <1>0, <1>2 DEF Raise, Point
<1>13. Fine(es, b)
  <2>1. Sane(b)
    BY <1>2, <1>12 DEF Sane, Point
  <2>2. b.vars > Len(es[n].f.params) /\ b.all <= Len(es[n].locals)
    BY <1>2, <1>3, <1>6, <1>9, <1>12 DEF Fine
  <2> QED
    BY <2>1, <2>2, <1>2, <1>10, <1>12 DEF Fine
<1>14. s \in Seq(Bytes) /\ \E i \in Nat : s = <<Op("DEFINE_GLOBAL"), Byte(i)>>
  BY <1>0, <1>8, OpShort DEF Short
<1>15. Fits(Defines(s), b, rw[1], a)
  <2>1. Defines(s).k = "define" /\ Defines(s).s = s
    BY <1>14, EmitsIs
  <2> QED
    BY <2>1, <1>0, <1>12, <1>14, <1>2 DEF Fits
<1>16. Types(es, rw, ds, en, dc)
  <2>1. dc \in 0..MaxDecl /\ en \in Seq([Name -> 0..MaxDecl]) /\ Limits(es[n])
    BY <1>3, <1>6 DEF Types
  <2> QED
    BY <2>1, <1>3, <1>6, <1>7, TypesTops
<1>17. /\ a.vars = a.seen /\ b.seen = b.all /\ b.all = Len(es[n].locals) /\ b.env = Len(en)
  BY <1>2, <1>6, <1>9, <1>12 DEF Settled
<1> QED
  BY <1>2, <1>6, <1>10, <1>11, <1>12, <1>13, <1>14, <1>15, <1>16, <1>17 DEF Ahead

\* A function begins once it is declared.
LEMMA AheadStep ==
    ASSUME NEW es, NEW ds, NEW fn, NEW d, NEW naps, NEW n, NEW rw, NEW q, NEW p, NEW s, NEW b,
           Ahead(es, ds, fn, d, naps, n, rw, q, p, s, b),
           NEW hs, hs = Append(es, BeginScope(InitCompiler)), NEW gn, gn = Append(fn, Last(fn))
    PROVE  Valid(hs, <<Do("parameters")>> \o (<<Do("declarations")>> \o (<<Do("endFunction")>>
                         \o (<<Defines(s)>> \o rw))), ds, gn, d)
<1>1. PICK pw : pw = <<Defines(s)>> \o rw
  OBVIOUS
<1>2. PICK pc : Suspended(es, ds, fn, d, naps, n, pw, pc, b)
  BY <1>1, Suspends
<1>3. PICK g, laps : /\ g = BeginScope(InitCompiler)
                     /\ laps = [k \in 1..n + 1 |-> IF k = n + 1 THEN FirstFrame ELSE naps[k]]
  OBVIOUS
<1>4. Opens(es, ds, fn, d, naps, n, pw, pc, b, g, hs, gn, laps)
  BY <1>2, <1>3 DEF Opens
<1>5. Valid(hs, <<Do("parameters")>> \o (<<Do("declarations")>> \o (<<Do("endFunction")>> \o pw)), ds, gn, d)
  BY <1>4, OpenStep
<1> QED
  BY <1>1, <1>5

-----------------------------------------------------------------------------
(* Parameters.                                                             *)

LEMMA ParamsAre ==
    ASSUME NEW ch, NEW wk, NEW ds, NEW en, NEW dc, NEW ctx, NEW maps, NEW n, NEW a, NEW c, NEW e,
           NEW es, NEW N, NEW naps, NEW fn, NEW x, NEW d,
           Param(ch, wk, ds, en, dc, ctx, maps, n, a, c, e, es, N, naps, fn, x, d)
    PROVE  \E h, m : Params(ch, wk, ds, en, dc, ctx, maps, n, a, c, e, h, m)
<1>1. /\ Types(ch, wk, ds, en, dc) /\ Good(ch, wk, ds, en, dc, ctx, maps) /\ wk[1].k = "parameters"
      /\ n = Len(ch) /\ c = ch[n] /\ a = ctx[1] /\ Declares(c, e, x, c.scopeDepth, d)
  BY DEF Param
<1>2. /\ ds \in Seq(Function) /\ dc \in Nat /\ n \in Nat /\ n >= 1 /\ n \in DOMAIN ch
      /\ \A k \in DOMAIN ch : ch[k] \in Comp /\ Locals(ch[k], dc) /\ Len(ch[k].locals) >= 1
      /\ Listed(ch, en, maps, wk, ctx) /\ Heads(ch, en, maps, wk, ctx)
      /\ Sane(a) /\ a.level = n /\ a.all = Len(c.locals) /\ a.depth = c.scopeDepth
      /\ Len(wk) \in Nat /\ Len(wk) >= 1
  BY <1>1, GoodIs
<1>3. /\ c \in Comp /\ Locals(c, dc) /\ Len(c.locals) >= 1 /\ e \in Comp
  BY <1>1, <1>2 DEF Declares
<1>4. c.f \in Function /\ e.f \in Function /\ Limits(c)
  BY <1>1, <1>2, <1>3, CompIs DEF Types
<1>5. PICK h, m : h = Len(c.locals) /\ m = Len(c.f.params)
  OBVIOUS
<1>6. h \in Nat /\ m \in Nat /\ DOMAIN c.f.params = 1..m /\ h >= 1 /\ a.all = h
  BY <1>2, <1>3, <1>4, <1>5, CompIs, CodeBytes
<1>7. /\ Here(c, maps[n], a, Stack(c, a)) /\ Named(ch, en, a) /\ wk[3].k = "endFunction"
      /\ a.env = Len(en)
  BY <1>1, <1>2 DEF Heads
<1>8. Link(ch, en, maps, wk[1], a, wk[2], ctx[2])
  <2>1. Len(wk) >= 2
    BY <1>1, <1>2 DEF Listed
  <2>2. 1 \in 1..Len(wk) - 1 /\ 1 + 1 = 2
    BY <2>1, <1>2
  <2> QED
    BY <2>2, <1>1, <1>2 DEF Listed
<1>9. Settled(a) /\ c.f.code = <<>> /\ c.f.born = {}
  <2>1. Fits(wk[1], a, wk[2], ctx[2]) /\ Holds(wk[1], a, ctx[2], c, maps[n])
    BY <1>1, <1>2, <1>8 DEF Link
  <2> QED
    BY <2>1, <1>1 DEF Fits, Holds
<1>10. Coded(ch, ds, dc, maps, wk, ctx) /\ Tied(ch, ds, dc)
  BY <1>1 DEF Good
<1>11. PICK late : Sound(ds, c.f, maps[n], Pending(wk, ctx, n), late, dc)
  BY <1>1, <1>2, <1>10 DEF Coded
<1>12. Starts(c.f) = {} /\ Len(c.f.code) = 0
  BY <1>9 DEF Starts
<1>13. c.f.gone = {}
  BY <1>11, <1>12 DEF Sound, Dead
<1>14. c.f.land = {}
  BY <1>11, <1>12 DEF Sound, Typed, Lands
<1>15. Pending(wk, ctx, n) = {}
  BY <1>11, <1>12 DEF Sound, Typed
<1>16. \A i, j \in 1..m : c.f.params[i] = c.f.params[j] => i = j
  BY <1>6, <1>11 DEF Sound, Vars
<1>17. h = m + 1
  <2>1. maps[n][0].height = 1 + m
    BY <1>5, <1>11 DEF Sound, Typed
  <2>2. maps[n][0] = Stack(c, a)
    BY <1>7, <1>12 DEF Here
  <2>3. Stack(c, a).height = a.all
    BY <1>9 DEF Stack, Settled
  <2> QED
    BY <2>1, <2>2, <2>3, <1>6
<1> QED
  BY <1>2, <1>3, <1>4, <1>5, <1>6, <1>7, <1>9, <1>10, <1>13, <1>14, <1>15, <1>16, <1>17 DEF Params

\* The locals of the function, and its frame.
LEMMA ParamLocals ==
    ASSUME NEW ch, NEW wk, NEW ds, NEW en, NEW dc, NEW ctx, NEW maps, NEW n, NEW a, NEW c, NEW e,
           NEW es, NEW N, NEW naps, NEW fn, NEW x, NEW d,
           Param(ch, wk, ds, en, dc, ctx, maps, n, a, c, e, es, N, naps, fn, x, d)
    PROVE  Locals(e, d) /\ Empty(e.f, N) /\ N[0] = Stack(e, More(a)) /\ Len(e.f.params) <= a.all
<1>1. /\ Declares(c, e, x, c.scopeDepth, d) /\ d = dc + 1 /\ e.f.land = c.f.land
      /\ Len(e.f.params) = Len(c.f.params) + 1 /\ e.f.params[Len(c.f.params) + 1] = d
      /\ \A i \in DOMAIN c.f.params : e.f.params[i] = c.f.params[i]
      /\ N = [q \in 0..0 |-> Stack(e, More(a))] /\ Len(e.locals) <= Count
  BY DEF Param
<1>2. PICK h, m : Params(ch, wk, ds, en, dc, ctx, maps, n, a, c, e, h, m)
  BY ParamsAre
<1>3. /\ c \in Comp /\ e \in Comp /\ dc \in Nat /\ Settled(a) /\ Sane(a) /\ a.all = h
      /\ h = Len(c.locals) /\ h \in Nat /\ h >= 1 /\ Locals(c, dc)
      /\ c.f \in Function /\ e.f \in Function
      /\ c.f.code = <<>> /\ c.f.born = {} /\ c.f.gone = {} /\ c.f.land = {}
      /\ m = Len(c.f.params) /\ m \in Nat /\ h = m + 1 /\ DOMAIN c.f.params = 1..m
      /\ \A i, j \in 1..m : c.f.params[i] = c.f.params[j] => i = j
  BY <1>2 DEF Params
<1>4. /\ Len(e.locals) = h + 1 /\ DOMAIN e.locals = 1..h + 1 /\ d \in 1..MaxDecl /\ x \in Name
      /\ e.locals[h + 1].name = x /\ e.locals[h + 1].decl = d
      /\ \A l \in 1..h : e.locals[l] = c.locals[l]
      /\ e.f.code = c.f.code /\ e.f.born = c.f.born /\ e.f.gone = c.f.gone
  BY <1>1, <1>3 DEF Declares
<1>5. /\ Len(e.f.params) = h /\ DOMAIN e.f.params = 1..h /\ e.f.params[h] = d
      /\ \A i \in 1..m : e.f.params[i] = c.f.params[i]
  BY <1>1, <1>3, CodeBytes
<1>6. /\ c.locals[1].name = NoName /\ c.locals[1].decl = Global /\ c.locals[1].depth = 0
      /\ \A l \in 2..h : c.locals[l].name \in Name /\ c.locals[l].decl \in 1..dc
      /\ \A i \in 1..m : c.locals[i + 1].decl = c.f.params[i]
  BY <1>3 DEF Locals
<1>7. \A i \in 1..h : i = h \/ i \in 1..m
  BY <1>3
<1>8. \A i \in 1..m : i + 1 \in 2..h /\ i + 1 \in 1..h
  BY <1>3
<1>9. \A i \in 1..h : e.locals[i + 1].decl = e.f.params[i]
  <2> SUFFICES ASSUME NEW i \in 1..h  PROVE e.locals[i + 1].decl = e.f.params[i]
    OBVIOUS
  <2>1. CASE i = h
    BY <2>1, <1>4, <1>5
  <2>2. CASE i \in 1..m
    BY <2>2, <1>4, <1>5, <1>6, <1>8
  <2> QED
    BY <2>1, <2>2, <1>7
<1>10. Locals(e, d)
  <2>1. \A l \in 2..h + 1 : l = h + 1 \/ (l \in 2..h /\ l \in 1..h)
    BY <1>3
  <2>2. \A l \in 2..h : c.locals[l].decl \in 1..d
    BY <1>1, <1>3, <1>6
  <2>3. \A l \in 2..h + 1 : e.locals[l].name \in Name /\ e.locals[l].decl \in 1..d
    <3> SUFFICES ASSUME NEW l \in 2..h + 1  PROVE e.locals[l].name \in Name /\ e.locals[l].decl \in 1..d
      OBVIOUS
    <3>1. CASE l = h + 1
      BY <3>1, <1>4
    <3>2. CASE l \in 2..h /\ l \in 1..h
      BY <3>2, <2>2, <1>4, <1>6
    <3> QED
      BY <3>1, <3>2, <2>1
  <2>4. 1 \in 1..h /\ e.locals # <<>>
    BY <1>3, <1>4
  <2>5. Len(e.f.params) < Len(e.locals)
    BY <1>3, <1>4, <1>5
  <2> QED
    BY <2>3, <2>4, <2>5, <1>4, <1>5, <1>6, <1>9 DEF Locals
<1>11. /\ More(a).vars = h + 1 /\ More(a).height = h + 1
  <2>1. a.all + 1 <= Count
    BY <1>1, <1>3, <1>4
  <2> QED
    BY <2>1, <1>3, MoreIs
<1>12. N[0] = Stack(e, More(a)) /\ DOMAIN N = 0..0
  BY <1>1
<1>13. /\ Stack(e, More(a)).height = h + 1
       /\ Stack(e, More(a)).slot = [i \in Slot |-> IF i <= h + 1 THEN e.locals[i].decl ELSE Global]
  BY <1>11 DEF Stack, SlotsOf
<1>14. Stack(e, More(a)) \in Frame
  <2>1. \A i \in Slot : (IF i <= h + 1 THEN e.locals[i].decl ELSE Global) \in 0..MaxDecl
    <3> SUFFICES ASSUME NEW i \in Slot  PROVE (IF i <= h + 1 THEN e.locals[i].decl ELSE Global) \in 0..MaxDecl
      OBVIOUS
    <3>1. CASE i <= h + 1
      <4>1. i \in 1..h + 1
        BY <3>1, <1>3, CompilerConstants DEF Slot
      <4>2. e.locals[i] \in Local
        BY <4>1, <1>3, <1>4, CompIs
      <4> QED
        BY <4>2, <3>1 DEF Local
    <3>2. CASE ~ (i <= h + 1)
      BY <3>2, CompilerConstants DEF Global
    <3> QED
      BY <3>1, <3>2
  <2>2. [i \in Slot |-> IF i <= h + 1 THEN e.locals[i].decl ELSE Global] \in [Slot -> 0..MaxDecl]
    BY <2>1
  <2>3. h + 1 \in Nat
    BY <1>3
  <2> QED
    BY <2>2, <2>3, <1>11 DEF Frame, Stack, SlotsOf
<1>15. N \in [0..0 -> Frame]
  BY <1>1, <1>14
<1>16. \A i \in Slot : N[0].slot[i] # Global => i - 1 \in 1..h /\ e.f.params[i - 1] = N[0].slot[i]
  <2> SUFFICES ASSUME NEW i \in Slot, N[0].slot[i] # Global
               PROVE  i - 1 \in 1..h /\ e.f.params[i - 1] = N[0].slot[i]
    OBVIOUS
  <2>1. N[0].slot[i] = IF i <= h + 1 THEN e.locals[i].decl ELSE Global
    BY <1>12, <1>13
  <2>2. i <= h + 1 /\ N[0].slot[i] = e.locals[i].decl
    BY <2>1
  <2>3. i # 1
    <3>1. e.locals[1].decl = Global
      BY <1>10 DEF Locals
    <3> QED
      BY <3>1, <2>2
  <2>4. i \in Nat /\ i >= 1
    BY CompilerConstants DEF Slot
  <2>5. PICK j : j = i - 1
    OBVIOUS
  <2>6. j \in 1..h /\ i = j + 1
    BY <2>2, <2>3, <2>4, <2>5, <1>3
  <2>7. e.locals[j + 1].decl = e.f.params[j]
    BY <2>6, <1>9
  <2> QED
    BY <2>2, <2>5, <2>6, <2>7
<1>17. \A i, j \in 1..h : e.f.params[i] = e.f.params[j] => i = j
  <2>1. \A i \in 1..m : c.f.params[i] # d
    <3> SUFFICES ASSUME NEW i \in 1..m  PROVE c.f.params[i] # d
      OBVIOUS
    <3>1. c.locals[i + 1].decl \in 1..dc
      BY <1>6, <1>8
    <3> QED
      BY <3>1, <1>1, <1>3, <1>6
  <2> QED
    BY <2>1, <1>3, <1>5, <1>7
<1>18. Empty(e.f, N)
  <2>1. N[0].height = 1 + Len(e.f.params)
    BY <1>3, <1>5, <1>12, <1>13
  <2> QED
    BY <2>1, <1>1, <1>3, <1>4, <1>5, <1>15, <1>16, <1>17 DEF Empty
<1> QED
  BY <1>3, <1>5, <1>10, <1>12, <1>18

LEMMA ParamMoved ==
    ASSUME NEW ch, NEW wk, NEW ds, NEW en, NEW dc, NEW ctx, NEW maps, NEW n, NEW a, NEW c, NEW e,
           NEW es, NEW N, NEW naps, NEW fn, NEW x, NEW d,
           Param(ch, wk, ds, en, dc, ctx, maps, n, a, c, e, es, N, naps, fn, x, d),
           ParamTops(ch, maps, es, naps, n, e, a, en, fn),
           NEW p, p = More(a), NEW t, t = Tail(wk), NEW tc, tc = Tail(ctx)
    PROVE  \E ew, ec, q : ParamLeft(es, fn, naps, wk, ctx, wk[2], t, ew, ec, q, p)
<1>0. Tops(ch, maps, es, naps, n) /\ es[n] = e /\ \A i \in 1..a.env - 1 : fn[i] = en[i]
  BY DEF ParamTops
<1>1. /\ wk[1].k = "parameters" /\ c = ch[n] /\ a = ctx[1] /\ Declares(c, e, x, c.scopeDepth, d)
      /\ Len(e.locals) <= Count /\ Types(ch, wk, ds, en, dc) /\ Good(ch, wk, ds, en, dc, ctx, maps)
      /\ n = Len(ch)
  BY DEF Param
<1>2. PICK h, m : Params(ch, wk, ds, en, dc, ctx, maps, n, a, c, e, h, m)
  BY ParamsAre
<1>3. /\ Settled(a) /\ Sane(a) /\ a.level = n /\ a.depth = c.scopeDepth /\ n \in Nat
      /\ a.all = h /\ h = Len(c.locals) /\ h \in Nat
      /\ Listed(ch, en, maps, wk, ctx) /\ wk[3].k = "endFunction"
  BY <1>2 DEF Params
<1>4. wk \in Seq(Item) /\ ctx \in Seq(Point)
  BY <1>1 DEF Types, Good
<1>5. PICK v, b, w : v = wk[2] /\ b = ctx[2] /\ w = wk[1]
  OBVIOUS
<1>6. Tails(ch, wk, en, ctx, maps, w, a, v, b, t, tc)
  BY <1>1, <1>3, <1>4, <1>5, TailsAre
<1>7. /\ t \in Seq(Item) /\ tc \in Seq(Point) /\ Len(t) >= 1 /\ t[1] = v /\ tc[1] = b
      /\ Listed(ch, en, maps, t, tc) /\ Link(ch, en, maps, w, a, v, b) /\ Len(wk) >= 2
      /\ \A k : Pending(wk, ctx, k) = (IF a.level = k THEN Holes(w) ELSE {}) \cup Pending(t, tc, k)
  BY <1>6 DEF Tails
<1>8. v.k = "declarations" /\ b = a
  BY <1>1, <1>5, <1>7 DEF Link, Fits
<1>9. PICK v3, b3, ew, ec : v3 = t[2] /\ b3 = tc[2] /\ ew = Tail(t) /\ ec = Tail(tc)
  OBVIOUS
<1>10. Tails(ch, t, en, tc, maps, v, b, v3, b3, ew, ec)
  BY <1>7, <1>8, <1>9, TailsAre
<1>11. /\ ew \in Seq(Item) /\ ec \in Seq(Point) /\ Len(t) >= 2 /\ ew[1] = v3 /\ ec[1] = b3
       /\ Listed(ch, en, maps, ew, ec) /\ Link(ch, en, maps, v, b, v3, b3)
       /\ \A k : Pending(t, tc, k) = (IF b.level = k THEN Holes(v) ELSE {}) \cup Pending(ew, ec, k)
  BY <1>10 DEF Tails
<1>12. b3 = a /\ v3.k \in Ends
  BY <1>8, <1>11 DEF Link, Fits
<1>13. t[2] = wk[3]
  <2>1. Len(t) = Len(wk) - 1 /\ \A i \in 1..Len(wk) - 1 : t[i] = wk[i + 1]
    BY <1>4, <1>7, Popped
  <2>2. 2 \in 1..Len(wk) - 1 /\ 2 + 1 = 3
    BY <2>1, <1>4, <1>11
  <2> QED
    BY <2>1, <2>2
<1>14. v3.k = "endFunction"
  BY <1>3, <1>9, <1>13
<1>15. Holes(w) = {} /\ Holes(v) = {}
  BY <1>1, <1>5, <1>8 DEF Holes
<1>16. \A k : Pending(ew, ec, k) = Pending(wk, ctx, k)
  BY <1>7, <1>11, <1>15
<1>17. Bumps(ch, maps, es, naps, n, en, fn, ew, ec, a, x, c.scopeDepth, d)
  <2>0. Len(e.f.params) <= a.all
    BY ParamLocals
  <2>1. Len(es[n].f.params) <= a.all
    BY <2>0, <1>0
  <2>2. a.all + 1 <= Count
    BY <1>1, <1>3 DEF Declares
  <2> QED
    BY <2>1, <2>2, <1>0, <1>1, <1>3, <1>11, <1>12, <1>14 DEF Bumps
<1>18. PICK q : Moved(es, fn, naps, ew, ec, q, p)
  BY <1>17, BumpsEnd
<1>19. t = <<v>> \o ew /\ v \in Item
  BY <1>7, <1>9, Popped
<1>20. Flat(v, ew[1])
  BY <1>8, <1>11, <1>12 DEF Flat
<1>21. ParamLeft(es, fn, naps, wk, ctx, wk[2], t, ew, ec, q, p)
  BY <1>5, <1>16, <1>18, <1>19, <1>20 DEF ParamLeft
<1> QED
  BY <1>21

LEMMA ParamListed ==
    ASSUME NEW ch, NEW wk, NEW ds, NEW en, NEW dc, NEW ctx, NEW maps, NEW n, NEW a, NEW c, NEW e,
           NEW es, NEW N, NEW naps, NEW fn, NEW x, NEW d,
           Param(ch, wk, ds, en, dc, ctx, maps, n, a, c, e, es, N, naps, fn, x, d),
           ParamTops(ch, maps, es, naps, n, e, a, en, fn),
           NEW p, p = More(a)
    PROVE  \E q : /\ Listed(es, fn, naps, wk, q) /\ q \in Seq(Point) /\ q[1] = p
                  /\ \A k : Pending(wk, q, k) = Pending(wk, ctx, k)
<1>1. PICK t, tc : t = Tail(wk) /\ tc = Tail(ctx)
  OBVIOUS
<1>0. es[n] = e
  BY DEF ParamTops
<1>a. PICK ew, ec, q0 : ParamLeft(es, fn, naps, wk, ctx, wk[2], t, ew, ec, q0, p)
  BY <1>1, ParamMoved
<1>2. /\ t = <<wk[2]>> \o ew /\ wk[2] \in Item /\ Flat(wk[2], ew[1])
      /\ Moved(es, fn, naps, ew, ec, q0, p)
      /\ \A k : Pending(ew, ec, k) = Pending(wk, ctx, k)
  BY <1>a DEF ParamLeft
<1>3. /\ Rested(es, fn, naps, ew, q0) /\ q0[1] = p /\ Fine(es, p) /\ Settled(p)
      /\ \A k : Pending(ew, q0, k) = Pending(ew, ec, k)
  BY <1>2 DEF Moved
<1>4. PICK v, w : v = wk[2] /\ w = wk[1]
  OBVIOUS
<1>5. PICK q1 : q1 = <<p>> \o q0
  OBVIOUS
<1>6. FlatPush(es, fn, naps, ew, q0, v, t, q1)
  BY <1>2, <1>3, <1>4, <1>5, FlatPushed
<1>7. /\ Rested(es, fn, naps, t, q1) /\ t[1] = v /\ q1[1] = q0[1]
      /\ \A k : Pending(t, q1, k) = Pending(ew, q0, k)
  BY <1>6 DEF FlatPush
<1>8. /\ wk[1].k = "parameters" /\ c = ch[n] /\ a = ctx[1] /\ Declares(c, e, x, c.scopeDepth, d)
      /\ Types(ch, wk, ds, en, dc)
  BY DEF Param
<1>9. wk \in Seq(Item) /\ Len(wk) >= 1
  <2>1. PICK h, m : Params(ch, wk, ds, en, dc, ctx, maps, n, a, c, e, h, m)
    BY ParamsAre
  <2> QED
    BY <2>1, <1>8 DEF Params, Types, Listed
<1>10. wk = <<w>> \o t /\ w \in Item
  BY <1>1, <1>4, <1>9, Popped
<1>11. PICK h, m : Params(ch, wk, ds, en, dc, ctx, maps, n, a, c, e, h, m)
  BY ParamsAre
<1>12. /\ c.f.code = <<>> /\ c.f.born = {} /\ a.level = n /\ Sane(a) /\ Settled(a)
       /\ a.all = Len(c.locals) /\ n \in Nat
  BY <1>11 DEF Params
<1>13. v.k \in {"declarations", "initializer", "for"} /\ v.k = "declarations"
  <2>1. Link(ch, en, maps, w, a, v, ctx[2])
    <3>1. Listed(ch, en, maps, wk, ctx)
      BY <1>11 DEF Params
    <3>2. 1 \in 1..Len(wk) - 1 /\ 1 + 1 = 2
      <4>1. Len(wk) >= 2
        BY <3>1, <1>8 DEF Listed
      <4> QED
        BY <4>1, <1>9
    <3> QED
      BY <3>1, <3>2, <1>4, <1>8 DEF Listed
  <2> QED
    BY <2>1, <1>4, <1>8 DEF Link, Fits
<1>14. Holds(w, p, p, es[n], naps[n])
  <2>1. e.f.code = <<>> /\ e.f.born = {}
    BY <1>8, <1>12 DEF Declares
  <2> QED
    BY <2>1, <1>0, <1>4, <1>8 DEF Holds
<1>15. p.level = n
  BY <1>12, Points DEF More, Point, Sane
<1>16. Link(es, fn, naps, w, p, v, p)
  <2>1. Fits(w, p, v, p)
    BY <1>3, <1>4, <1>8, <1>13 DEF Fits
  <2>2. Within(w, p, p)
    BY <1>3, <1>4, <1>8, Points DEF Within, Fine
  <2> QED
    BY <2>1, <2>2, <1>4, <1>8, <1>14, <1>15 DEF Link
<1>17. Holes(w) = {}
  BY <1>4, <1>8 DEF Holes
<1>18. Fresh(es, fn, naps, t, q1, w, p)
  <2>1. t[1].k # "parameters"
    BY <1>7 DEF Rested
  <2>2. p.vars = p.seen
    BY <1>3 DEF Settled
  <2> QED
    BY <2>1, <2>2, <1>3, <1>7, <1>16, <1>17 DEF Fresh
<1>19. PICK q : q = <<p>> \o q1
  OBVIOUS
<1>20. Pushes(es, fn, naps, t, q1, w, p, wk, q)
  BY <1>7, <1>10, <1>18, <1>19, PushAny
<1>21. /\ Listed(es, fn, naps, wk, q) /\ q \in Seq(Point) /\ q[1] = p
       /\ \A k : Pending(wk, q, k) = (IF p.level = k THEN Holes(w) ELSE {}) \cup Pending(t, q1, k)
  BY <1>20 DEF Pushes
<1>22. \A k : Pending(wk, q, k) = Pending(wk, ctx, k)
  BY <1>2, <1>3, <1>7, <1>17, <1>21
<1> QED
  BY <1>21, <1>22

\* What the function with the parameter is like, and those around it.
LEMMA ParamTied ==
    ASSUME NEW ch, NEW wk, NEW ds, NEW en, NEW dc, NEW ctx, NEW maps, NEW n, NEW a, NEW c, NEW e,
           NEW es, NEW N, NEW naps, NEW fn, NEW x, NEW d,
           Param(ch, wk, ds, en, dc, ctx, maps, n, a, c, e, es, N, naps, fn, x, d)
    PROVE  /\ Tops(ch, maps, es, naps, n) /\ es[n] = e /\ naps[n] = N
           /\ Rebound(en, x, d, fn) /\ Tied(es, ds, d) /\ SameNames(ch, es, n, a.all)
<1>1. PICK h, m : Params(ch, wk, ds, en, dc, ctx, maps, n, a, c, e, h, m)
  BY ParamsAre
<1>2. /\ Types(ch, wk, ds, en, dc) /\ Good(ch, wk, ds, en, dc, ctx, maps)
      /\ n = Len(ch) /\ c = ch[n] /\ a = ctx[1] /\ d = dc + 1
      /\ Declares(c, e, x, c.scopeDepth, d) /\ GoneBy(ch, ds, dc) /\ Rebinds(en, x, d, fn)
      /\ es = [ch EXCEPT ![n] = e] /\ naps = Renewed(ch, maps, N)
  BY DEF Param
<1>3. /\ n \in Nat /\ n >= 1 /\ c \in Comp /\ e \in Comp /\ dc \in Nat
      /\ a.env = Len(en) /\ Sane(a) /\ a.all = Len(c.locals) /\ a.all \in Nat
      /\ Tied(ch, ds, dc) /\ Coded(ch, ds, dc, maps, wk, ctx)
  BY <1>1 DEF Params
<1>4. Changed(ch, maps, e, N, es, naps)
  BY <1>2 DEF Changed, Renewed
<1>5. Tops(ch, maps, es, naps, n) /\ es[n] = e /\ naps[n] = N
  BY <1>2, <1>3, <1>4, TopsAre
<1>6. en \in Seq([Name -> 0..MaxDecl]) /\ Len(en) >= 1
  BY <1>2, <1>3, Points DEF Types
<1>7. Rebound(en, x, d, fn)
  BY <1>2, <1>6, RebindIs DEF Declares
<1>8. Aligned(ch, es, n)
  <2>1. /\ n \in Nat /\ ch \in Seq(Comp) /\ es \in Seq(Comp) /\ Len(ch) = n /\ Len(es) = n
        /\ DOMAIN ch = 1..n /\ DOMAIN es = 1..n /\ \A k \in 1..n - 1 : es[k] = ch[k]
    BY <1>5 DEF Tops
  <2>2. e.f.upvalues = c.f.upvalues /\ e.f.gone = c.f.gone /\ e.f.code = c.f.code
    BY <1>2 DEF Declares
  <2>3. \A k \in 1..n : /\ es[k].f.upvalues = ch[k].f.upvalues /\ es[k].f.gone = ch[k].f.gone
                        /\ es[k].f.code = ch[k].f.code
    <3> SUFFICES ASSUME NEW k \in 1..n
                 PROVE  /\ es[k].f.upvalues = ch[k].f.upvalues /\ es[k].f.gone = ch[k].f.gone
                        /\ es[k].f.code = ch[k].f.code
      OBVIOUS
    <3>1. CASE k = n
      BY <3>1, <2>2, <1>2, <1>5
    <3>2. CASE k # n
      <4>1. k \in 1..n - 1
        BY <3>2, <1>3
      <4>2. es[k] = ch[k]
        BY <4>1, <2>1
      <4> QED
        BY <4>2
    <3> QED
      BY <3>1, <3>2
  <2> QED
    BY <2>1, <2>3 DEF Aligned
<1>9. \A k \in DOMAIN ch : Locals(ch[k], dc)
  BY <1>3 DEF Coded
<1>10. Tied(es, ds, d)
  <2>1. \A k \in 1..n - 1 : es[k] = ch[k]
    BY <1>5 DEF Tops
  <2>2. Declares(ch[n], es[n], x, c.scopeDepth, d)
    BY <1>2, <1>5
  <2>3. PICK dd : dd = c.scopeDepth
    OBVIOUS
  <2>4. Declares(ch[n], es[n], x, dd, d)
    BY <2>2, <2>3
  <2>5. d = dc + 1 /\ n >= 1 /\ dc \in Nat /\ Tied(ch, ds, dc) /\ GoneBy(ch, ds, dc)
    BY <1>2, <1>3
  <2> QED
    BY <2>1, <2>4, <2>5, <1>8, <1>9, DeclaresTied
<1>11. SameNames(ch, es, n, a.all)
  <2>1. \A k \in 1..n - 1 : es[k] = ch[k]
    BY <1>5 DEF Tops
  <2>2. \A l \in 1..a.all : e.locals[l] = c.locals[l]
    BY <1>2, <1>3 DEF Declares
  <2>3. \A k \in 1..n : k = n \/ k \in 1..n - 1
    BY <1>3
  <2> QED
    BY <2>1, <2>2, <2>3, <1>2, <1>5 DEF SameNames
<1> QED
  BY <1>5, <1>7, <1>10, <1>11

\* A parameter more.
LEMMA ParamStep ==
    ASSUME NEW ch, NEW wk, NEW ds, NEW en, NEW dc, NEW ctx, NEW maps, NEW n, NEW a, NEW c, NEW e,
           NEW es, NEW N, NEW naps, NEW fn, NEW x, NEW d,
           Param(ch, wk, ds, en, dc, ctx, maps, n, a, c, e, es, N, naps, fn, x, d)
    PROVE  Valid(es, wk, ds, fn, d)
<1>1. PICK h, m : Params(ch, wk, ds, en, dc, ctx, maps, n, a, c, e, h, m)
  BY ParamsAre
<1>2. /\ n \in Nat /\ n >= 1 /\ e \in Comp /\ ds \in Seq(Function) /\ dc \in Nat
      /\ Settled(a) /\ Sane(a) /\ a.level = n /\ a.depth = c.scopeDepth /\ a.env = Len(en)
      /\ a.all = h /\ h = Len(c.locals) /\ h \in Nat /\ h >= 1
      /\ Named(ch, en, a) /\ wk[3].k = "endFunction"
      /\ Pending(wk, ctx, n) = {} /\ Coded(ch, ds, dc, maps, wk, ctx)
      /\ c.f.born = {} /\ c.f.code = <<>>
  BY <1>1 DEF Params
<1>3. /\ Types(ch, wk, ds, en, dc) /\ c = ch[n] /\ d = dc + 1
      /\ Declares(c, e, x, c.scopeDepth, d) /\ Limits(e) /\ Len(e.locals) <= Count
  BY DEF Param
<1>4. /\ Tops(ch, maps, es, naps, n) /\ es[n] = e /\ naps[n] = N
      /\ Rebound(en, x, d, fn) /\ Tied(es, ds, d) /\ SameNames(ch, es, n, a.all)
  BY ParamTied
<1>5. Locals(e, d) /\ Empty(e.f, N) /\ N[0] = Stack(e, More(a))
  BY ParamLocals
<1>6. /\ fn \in Seq([Name -> 0..MaxDecl]) /\ Len(fn) = Len(en)
      /\ \A i \in 1..Len(en) - 1 : fn[i] = en[i]
      /\ \A y \in Name : fn[Len(en)][y] = IF y = x THEN d ELSE en[Len(en)][y]
  BY <1>4 DEF Rebound
<1>7. PICK p : p = More(a)
  OBVIOUS
<1>8. \A i \in 1..a.env - 1 : fn[i] = en[i]
  BY <1>2, <1>6
<1>9. ParamTops(ch, maps, es, naps, n, e, a, en, fn)
  BY <1>4, <1>8 DEF ParamTops
<1>10. PICK q : /\ Listed(es, fn, naps, wk, q) /\ q \in Seq(Point) /\ q[1] = p
                /\ \A k : Pending(wk, q, k) = Pending(wk, ctx, k)
  BY <1>7, <1>9, ParamListed
<1>11. /\ x \in Name /\ d \in 1..MaxDecl /\ c.scopeDepth >= 1 /\ c.scopeDepth \in Nat
       /\ Len(e.locals) = h + 1 /\ e.scopeDepth = c.scopeDepth
       /\ e.locals[h + 1] = [name |-> x, depth |-> c.scopeDepth, captured |-> FALSE, decl |-> d]
       /\ e.f.code = <<>> /\ e.f.born = {}
  <2>1. c.scopeDepth \in Nat
    BY <1>3, CompIs DEF Declares
  <2> QED
    BY <2>1, <1>2, <1>3 DEF Declares
<1>12. /\ p.level = n /\ p.depth = c.scopeDepth /\ p.env = Len(en) /\ p.all = h + 1
       /\ p.seen = h + 1 /\ p.vars = h + 1
  BY <1>2, <1>3, <1>7, <1>11, MoreIs
<1>13. /\ es \in Seq(Comp) /\ Len(es) = n /\ DOMAIN es = 1..n /\ DOMAIN naps = 1..n
  BY <1>4 DEF Tops
<1>14. Here(es[n], naps[n], p, Stack(es[n], p))
  <2>1. naps[n][Len(es[n].f.code)] = Stack(es[n], p)
    BY <1>4, <1>5, <1>7, <1>11
  <2>2. es[n].locals[Len(es[n].locals)].depth # -1
    BY <1>4, <1>11
  <2>3. ~ (p.vars < p.all)
    BY <1>2, <1>12
  <2> QED
    BY <2>1, <2>2, <2>3, <1>4, <1>11, <1>12 DEF Here
<1>15. Named(es, fn, p)
  <2> SUFFICES ASSUME NEW y \in Name  PROVE Binds(es, p.level, p.seen, y, fn[p.env][y])
    BY DEF Named
  <2>1. Binds(ch, n, a.all, y, en[Len(en)][y])
    BY <1>2 DEF Named, Settled
  <2>2. PICK g, s : g = en[Len(en)][y] /\ s = a.all
    OBVIOUS
  <2>3. Binds(es, n, s, y, g)
    BY <2>1, <2>2, <1>2, <1>4, BindsStay
  <2>4. PICK k : k = h + 1
    OBVIOUS
  <2>5. BornNames(es[n], es[n], k)
    BY <2>4, <1>2, <1>4, <1>11 DEF BornNames
  <2>6. PICK w : w = IF y = x THEN d ELSE g
    OBVIOUS
  <2>7. x = es[n].locals[k].name /\ d = es[n].locals[k].decl
    BY <2>4, <1>4, <1>11
  <2>8. s \in {k - 1, k}
    BY <2>2, <2>4, <1>2
  <2>9. Binds(es, n, k, y, w)
    BY <2>3, <2>5, <2>6, <2>7, <2>8, <1>2, SeenSelf
  <2>10. fn[p.env][y] = w
    BY <2>2, <2>6, <1>6, <1>12
  <2> QED
    BY <2>4, <2>9, <2>10, <1>12
<1>16. Heads(es, fn, naps, wk, q)
  BY <1>2, <1>6, <1>10, <1>12, <1>13, <1>14, <1>15 DEF Heads
<1>17. Coded(es, ds, d, naps, wk, q)
  <2>1. Late(es[n], q[1]) = Global
    <3>1. ~ (p.vars < p.seen)
      BY <1>2, <1>12
    <3> QED
      BY <3>1, <1>10 DEF Late
  <2>2. Sound(ds, e.f, N, {}, Global, d)
    BY <1>5, EmptySound
  <2>3. Sound(ds, es[n].f, naps[n], Pending(wk, q, n), Late(es[n], q[1]), d)
    BY <2>1, <2>2, <1>2, <1>4, <1>10
  <2>4. d \in Nat /\ dc <= d /\ Locals(es[n], d)
    BY <1>2, <1>3, <1>4, <1>5
  <2>5. \A k \in 1..n - 1 : Pending(wk, q, k) = Pending(wk, ctx, k)
    BY <1>10
  <2> QED
    BY <2>3, <2>4, <2>5, <1>2, <1>4, CodedTops
<1>18. Types(es, wk, ds, fn, d)
  <2>1. d \in 0..MaxDecl
    BY <1>11, CompilerConstants
  <2>2. wk \in Seq(Item) /\ Limits(es[n])
    BY <1>3, <1>4 DEF Types
  <2> QED
    BY <2>1, <2>2, <1>3, <1>4, <1>6, TypesTops
<1>19. DOMAIN naps = DOMAIN es
  BY <1>13
<1>20. Good(es, wk, ds, fn, d, q, naps)
  BY <1>4, <1>10, <1>16, <1>17, <1>19 DEF Good
<1> QED
  BY <1>18, <1>20 DEF Valid

-----------------------------------------------------------------------------
(* Functions that end.                                                     *)

LEMMA LeavingIs ==
    ASSUME NEW ch, NEW wk, NEW ds, NEW en, NEW dc, NEW ctx, NEW maps, NEW n, NEW g, NEW c, NEW a,
           NEW b, NEW tw, NEW tc, Leaving(ch, wk, ds, en, dc, ctx, maps, n, g, c, a, b, tw, tc)
    PROVE  Around2(ch, wk, ds, en, dc, ctx, maps, n, g, c, a, b, tw, tc)
<1>1. /\ Types(ch, wk, ds, en, dc) /\ Good(ch, wk, ds, en, dc, ctx, maps) /\ wk[1].k = "endFunction"
      /\ n = Len(ch) - 1 /\ g = ch[n + 1] /\ c = ch[n] /\ a = ctx[1] /\ b = ctx[2]
      /\ tw = Tail(wk) /\ tc = Tail(ctx)
  BY DEF Leaving
<1>2. /\ ch \in Seq(Comp) /\ wk \in Seq(Item) /\ ds \in Seq(Function) /\ dc \in Nat
      /\ Len(ch) \in Nat /\ DOMAIN ch = 1..Len(ch) /\ Len(ch) >= 1
      /\ ctx \in Seq(Point) /\ DOMAIN maps = DOMAIN ch
      /\ \A k \in DOMAIN ch : ch[k] \in Comp /\ Locals(ch[k], dc) /\ Len(ch[k].locals) >= 1
      /\ Listed(ch, en, maps, wk, ctx) /\ Heads(ch, en, maps, wk, ctx)
      /\ Sane(a) /\ a.level = Len(ch)
  BY <1>1, GoodIs
<1>3. PICK w, v : w = wk[1] /\ v = wk[2]
  OBVIOUS
<1>4. Tails(ch, wk, en, ctx, maps, w, a, v, b, tw, tc)
  BY <1>1, <1>2, <1>3, TailsAre
<1>5. /\ tw \in Seq(Item) /\ tc \in Seq(Point) /\ Len(tc) = Len(tw) /\ Len(tw) >= 1
      /\ tw[1] = v /\ tc[1] = b /\ Len(wk) >= 2
      /\ Listed(ch, en, maps, tw, tc) /\ Link(ch, en, maps, w, a, v, b) /\ Fine(ch, b)
      /\ \A k : Pending(wk, ctx, k) = (IF a.level = k THEN Holes(w) ELSE {}) \cup Pending(tw, tc, k)
  BY <1>4 DEF Tails
<1>6. w.k = "endFunction" /\ Holes(w) = {}
  BY <1>1, <1>3 DEF Holes
<1>7. /\ Settled(a) /\ a.level = b.level + 1 /\ a.env = b.env + 1 /\ v.k = "define" /\ b.seen = b.all
  BY <1>5, <1>6 DEF Link, Fits
<1>8. Named(ch, en, b) /\ Here(ch[b.level], maps[b.level], b, Stack(ch[b.level], Raise(b, -1)))
  BY <1>5, <1>6 DEF Link
<1>9. Sane(b) /\ b.level \in Nat /\ b.level >= 1
  BY <1>5, Points DEF Fine
<1>10. b.level = n /\ n \in Nat /\ n >= 1 /\ Len(ch) = n + 1
  BY <1>1, <1>2, <1>7, <1>9
<1>11. n \in DOMAIN ch /\ n + 1 \in DOMAIN ch
  BY <1>2, <1>10
<1>12. \A k : Pending(wk, ctx, k) = Pending(tw, tc, k)
  BY <1>5, <1>6
<1>13. Pending(wk, ctx, n + 1) = {}
  <2>1. \A j \in 2..Len(wk) : ctx[j].level # n + 1
    <3> SUFFICES ASSUME NEW j \in 2..Len(wk)  PROVE ctx[j].level # n + 1
      OBVIOUS
    <3>1. 1 \in 1..Len(wk) /\ j \in 1..Len(wk) /\ 1 < j
      BY <1>5, <1>2
    <3>2. Within(wk[1], ctx[1], ctx[j]) /\ Fine(ch, ctx[j])
      BY <3>1, <1>2 DEF Listed
    <3>3. ctx[j].level < a.level
      BY <3>2, <1>1 DEF Within
    <3> QED
      BY <3>2, <3>3, <1>2, <1>10, Points DEF Fine
  <2>2. \A j \in 1..Len(wk) : ctx[j].level = n + 1 => Holes(wk[j]) = {}
    <3> SUFFICES ASSUME NEW j \in 1..Len(wk), ctx[j].level = n + 1  PROVE Holes(wk[j]) = {}
      OBVIOUS
    <3>1. j = 1
      <4>1. j = 1 \/ j \in 2..Len(wk)
        BY <1>2
      <4> QED
        BY <4>1, <2>1
    <3> QED
      BY <3>1, <1>3, <1>6
  <2> QED
    BY <2>2 DEF Pending
<1>14. b.height - 1 = b.vars
  <2>0. Len(tw) >= 2
    <3>1. tw[Len(tw)].k = "endScript"
      BY <1>5 DEF Listed
    <3>2. Len(tw) \in Nat
      BY <1>5
    <3> QED
      BY <3>1, <3>2, <1>5, <1>7
  <2>1. PICK p : p = tc[2]
    OBVIOUS
  <2>2. Link(ch, en, maps, tw[1], tc[1], tw[2], tc[2])
    <3>1. 1 \in 1..Len(tw) - 1 /\ 1 + 1 = 2
      BY <2>0, <1>5
    <3> QED
      BY <3>1, <1>5 DEF Listed
  <2>3. Fits(v, b, tw[2], p)
    BY <2>1, <2>2, <1>5 DEF Link
  <2>4. Fine(ch, p)
    <3>1. 2 \in 1..Len(tw)
      BY <2>0, <1>5
    <3> QED
      BY <3>1, <2>1, <1>5 DEF Listed
  <2>5. /\ p \in Point /\ p.height \in Nat /\ p.vars \in Nat /\ p.all \in Nat
    BY <2>4, Points DEF Fine
  <2>6. Settled(p) /\ (b = Raise(p, 1) \/ b = [p EXCEPT !.vars = @ - 1, !.seen = b.seen])
    BY <2>3, <1>7 DEF Fits
  <2>7. CASE b = Raise(p, 1)
    BY <2>5, <2>6, <2>7, Raised DEF Settled
  <2>8. CASE b = [p EXCEPT !.vars = @ - 1, !.seen = b.seen]
    <3>1. b.vars = p.vars - 1 /\ b.height = p.height
      BY <2>5, <2>8 DEF Point
    <3> QED
      BY <3>1, <2>5, <2>6 DEF Settled
  <2> QED
    BY <2>6, <2>7, <2>8
<1>15. b.all = Len(c.locals) /\ a.env = Len(en)
  BY <1>1, <1>2, <1>8, <1>10 DEF Here, Heads
<1>16. Limits(g) /\ Limits(c) /\ en \in Seq([Name -> 0..MaxDecl])
  BY <1>1, <1>11 DEF Types
<1>17. c \in Comp /\ g \in Comp /\ Locals(c, dc) /\ Len(c.locals) >= 1
  BY <1>1, <1>2, <1>11
<1> QED
  BY <1>1, <1>2, <1>5, <1>7, <1>8, <1>9, <1>10, <1>12, <1>13, <1>14, <1>15, <1>16, <1>17 DEF Around2

LEMMA FinishIs ==
    ASSUME NEW ch, NEW wk, NEW ds, NEW en, NEW dc, NEW ctx, NEW maps, NEW n, NEW g, NEW c, NEW a,
           NEW b, NEW tw, NEW tc, NEW f, NEW d, NEW s, NEW e, NEW hd, NEW es, NEW fn,
           Finish(ch, wk, ds, en, dc, ctx, maps, n, g, c, a, b, tw, tc, f, d, s, e, hd, es, fn)
    PROVE  Around2(ch, wk, ds, en, dc, ctx, maps, n, g, c, a, b, tw, tc)
<1>1. Leaving(ch, wk, ds, en, dc, ctx, maps, n, g, c, a, b, tw, tc)
  BY DEF Finish, Leaving
<1> QED
  BY <1>1, LeavingIs

LEMMA WholeLater ==
    ASSUME NEW ds \in Seq(Function), NEW hd, Wider(ds, hd),
           NEW dc \in Nat, NEW ec \in Nat, dc <= ec, NEW f, NEW M, Whole(ds, f, M, dc)
    PROVE  Whole(hd, f, M, ec)
<1>1. f \in Function /\ Sound(ds, f, M, {}, Global, dc) /\ 0 \in Starts(f) /\ Goes(ds, f, M)
  BY DEF Whole
<1>2. Sound(hd, f, M, {}, Global, ec)
  BY <1>1, Tables DEF Wider
<1>3. Extends(ds, hd, f, f, {})
  BY DEF Extends, Spots, Wider
<1>4. Typed(ds, f, M, {})
  BY <1>1 DEF Sound
<1>5. ASSUME NEW p \in Starts(f)  PROVE Width(hd, f, p) = Width(ds, f, p)
  <2>1. Alike(ds, hd, f, f, {}, p)
    BY <1>1, <1>3, <1>4, SameCode
  <2> QED
    BY <2>1 DEF Alike
<1>6. Goes(hd, f, M)
  BY <1>1, <1>5 DEF Goes
<1> QED
  BY <1>1, <1>2, <1>6 DEF Whole

LEMMA SealedWhole ==
    ASSUME NEW ds, NEW dc, NEW d, NEW M, NEW e, NEW N, NEW h, NEW sl, NEW v, NEW k, NEW sm, NEW u,
           Sealed(ds, dc, d, M, e, N, h, sl, v, k, sm, u)
    PROVE  Whole(ds, e.f, N, dc)
<1>1. /\ Wrote(ds, dc, d, M, {}, h, sl, v) /\ Wrote(ds, dc, e, N, {}, k, sm, u)
      /\ Coder(d, M, e, N) /\ e = Emit(d, <<Op("RETURN")>>) /\ ds \in Seq(Function)
  BY DEF Sealed
<1>2. d \in Comp /\ e \in Comp
  BY <1>1 DEF Wrote
<1>3. PICK f, g, s : f = d.f /\ g = e.f /\ s = <<Op("RETURN")>>
  OBVIOUS
<1>4. /\ f \in Function /\ g \in Function /\ Sound(ds, f, M, {}, Global, dc)
      /\ Sound(ds, g, N, {}, Global, dc)
  BY <1>1, <1>2, <1>3, CompIs DEF Wrote, Coding
<1>5. One(s) /\ s \in Seq(Bytes) /\ Len(s) = 1 /\ s[1].op = "RETURN"
  BY <1>3, OpPlain DEF Plain, One
<1>6. g = Emitted(f, s)
  BY <1>1, <1>2, <1>3, <1>5, EmitIs
<1>7. /\ Len(g.code) = Len(f.code) + 1 /\ g.land = f.land
      /\ \A i \in 1..Len(f.code) : g.code[i] = f.code[i]
      /\ g.constants = f.constants /\ g.upvalues = f.upvalues /\ g.params = f.params
      /\ g.born = f.born /\ g.gone = f.gone
      /\ \A i \in 1..Len(s) : g.code[Len(f.code) + i] = s[i]
  <2>1. /\ Len(Emitted(f, s).code) = Len(f.code) + Len(s) /\ Emitted(f, s).land = f.land
        /\ \A i \in 1..Len(f.code) : Emitted(f, s).code[i] = f.code[i]
        /\ Emitted(f, s).constants = f.constants /\ Emitted(f, s).upvalues = f.upvalues
        /\ Emitted(f, s).params = f.params
        /\ Emitted(f, s).born = f.born /\ Emitted(f, s).gone = f.gone
        /\ \A i \in 1..Len(s) : Emitted(f, s).code[Len(f.code) + i] = s[i]
    BY <1>4, <1>5, EmittedCode
  <2> QED
    BY <2>1, <1>5, <1>6
<1>8. Appends(f, s, g)
  BY <1>4, <1>5, <1>7, OneMore
<1>9. PICK L : L = Len(f.code)
  OBVIOUS
<1>10. /\ Starts(g) = Starts(f) \cup {L} /\ Operation(g, L) = "RETURN"
  BY <1>5, <1>8, <1>9 DEF Appends
<1>11. Spots(f) = Starts(g)
  BY <1>9, <1>10 DEF Spots
<1>12. Extends(ds, ds, f, g, {})
  <2>1. Len(f.code) \in Spots(g)
    BY <1>9, <1>10 DEF Spots
  <2>2. Len(f.code) <= Len(g.code)
    BY <1>4, <1>7, CodeBytes
  <2> QED
    BY <2>1, <2>2, <1>7 DEF Extends
<1>13. Typed(ds, f, M, {})
  BY <1>4 DEF Sound
<1>14. 0 \in Starts(g)
  BY <1>11, <1>13 DEF Typed
<1>15. Onward(f, M, g, N)
  BY <1>1, <1>3 DEF Coder
<1>16. ASSUME NEW p \in Starts(f)
       PROVE  /\ p + Width(ds, g, p) \in Starts(g)
              /\ Operation(g, p) \in Leaps =>
                   \E m \in g.land : m.from = p /\ m.to \in Starts(g) /\ Flow(g, N, After(g, N, p), m.to)
  <2>1. Alike(ds, ds, f, g, {}, p)
    BY <1>1, <1>4, <1>12, <1>13, SameCode
  <2>2. Width(ds, g, p) = Width(ds, f, p) /\ Operation(g, p) = Operation(f, p)
    BY <2>1 DEF Alike
  <2>3. Runs(ds, f, M, {}, p)
    BY <1>13 DEF Typed
  <2>4. p + Width(ds, g, p) \in Starts(g)
    BY <2>2, <2>3, <1>11 DEF Runs
  <2>5. After(g, N, p) = After(f, M, p)
    BY <1>15 DEF Onward
  <2>6. ASSUME Operation(g, p) \in Leaps
        PROVE  \E m \in g.land : m.from = p /\ m.to \in Starts(g) /\ Flow(g, N, After(g, N, p), m.to)
    <3>1. PICK m \in f.land : m.from = p /\ Flow(f, M, After(f, M, p), m.to)
      BY <2>2, <2>3, <2>6 DEF Runs
    <3>2. PICK t, q : t = After(f, M, p) /\ q = m.to
      OBVIOUS
    <3>3. Flow(f, M, t, q)
      BY <3>1, <3>2
    <3>4. Flow(e.f, N, t, q)
      BY <3>3, <1>1, <1>3, FlowOn
    <3>5. q \in Starts(g)
      BY <3>3, <1>11 DEF Flow
    <3> QED
      BY <3>1, <3>2, <3>4, <3>5, <2>5, <1>3, <1>7
  <2> QED
    BY <2>4, <2>6
<1>17. Goes(ds, g, N)
  <2> SUFFICES ASSUME NEW p \in Starts(g)
               PROVE  /\ p + Width(ds, g, p) \in Starts(g) \/ Operation(g, p) = "RETURN"
                      /\ Operation(g, p) \in Leaps =>
                           \E m \in g.land : m.from = p /\ m.to \in Starts(g) /\ Flow(g, N, After(g, N, p), m.to)
    BY DEF Goes
  <2>1. CASE p \in Starts(f)
    BY <2>1, <1>16
  <2>2. CASE p = L
    BY <2>2, <1>10 DEF Leaps
  <2> QED
    BY <2>1, <2>2, <1>10
<1>18. Whole(ds, g, N, dc)
  BY <1>4, <1>14, <1>17 DEF Whole
<1> QED
  BY <1>3, <1>18

LEMMA EndCompilerIs ==
    ASSUME NEW ds \in Seq(Function), NEW dc \in Nat, NEW g, NEW M, NEW h, NEW sl, NEW v,
           Wrote(ds, dc, g, M, {}, h, sl, v), NEW f, f = EndCompiler(g), NEW hd, hd = Append(ds, f)
    PROVE  \E F : Compiled(ds, dc, g, f, hd, F)
<1>1. g \in Comp /\ Coding(ds, dc, g.f, M, {}, h, sl) /\ Clear(g.f, h, sl, v)
  BY DEF Wrote
<1>2. h \in Nat /\ v \in Nat /\ v <= h
  BY <1>1, FrameAtEnd DEF Clear
<1>3. PICK s, t : s = <<Op("LITERAL")>> /\ t = <<Op("RETURN")>>
  OBVIOUS
<1>4. /\ Plain(s) /\ Names(g.f, sl, s) /\ s[1].op = "LITERAL" /\ s[1].op \notin Jumps
      /\ TakesOf(s) = 0 /\ PutsOf(s) = 1
  BY <1>3, OpPlain DEF TakesOf, PutsOf
<1>5. PICK k : k = h + 1
  OBVIOUS
<1>6. k \in Nat /\ v <= k /\ k = h - TakesOf(s) + PutsOf(s) /\ v + TakesOf(s) <= h
  BY <1>2, <1>4, <1>5
<1>7. PICK N : Writes(ds, dc, g, M, {}, h, sl, v, s, k, N)
  BY <1>4, <1>6, EmitWrites
<1>8. PICK d : d = Emit(g, s)
  OBVIOUS
<1>9. Coder(g, M, d, N) /\ Wrote(ds, dc, d, N, {}, k, sl, v)
  BY <1>4, <1>7, <1>8 DEF Writes
<1>10. /\ Plain(t) /\ Names(d.f, sl, t) /\ t[1].op = "RETURN" /\ t[1].op \notin Jumps /\ TakesOf(t) = 1
  BY <1>3, OpPlain DEF TakesOf
<1>11. v + TakesOf(t) <= k /\ t[1].op \in {"RETURN", "JUMP"}
  BY <1>2, <1>5, <1>10
<1>12. PICK O : Writes(ds, dc, d, N, {}, k, sl, v, t, h, O)
  BY <1>2, <1>9, <1>10, <1>11, EmitWrites
<1>13. PICK e : e = Emit(d, t)
  OBVIOUS
<1>14. Coder(d, N, e, O) /\ Wrote(ds, dc, e, O, {}, h, sl, v)
  BY <1>10, <1>12, <1>13 DEF Writes
<1>15. f = e.f
  <2>1. Op("LITERAL") \in Bytes /\ Op("RETURN") \in Bytes
    BY OpIs DEF Instructions
  <2>2. Emit(g, <<Op("LITERAL"), Op("RETURN")>>) = Emit(Emit(g, <<Op("LITERAL")>>), <<Op("RETURN")>>)
    BY <2>1, <1>1, DoubleEmit
  <2> QED
    BY <2>2, <1>3, <1>8, <1>13 DEF EndCompiler
<1>16. Sealed(ds, dc, d, N, e, O, k, sl, v, h, sl, v)
  BY <1>3, <1>9, <1>13, <1>14 DEF Sealed
<1>17. Whole(ds, f, O, dc)
  BY <1>15, <1>16, SealedWhole
<1>18. f \in Function
  BY <1>17 DEF Whole
<1>19. hd \in Seq(Function) /\ Wider(ds, hd)
  BY <1>18 DEF Wider
<1>20. Whole(hd, f, O, dc)
  <2>1. dc <= dc
    OBVIOUS
  <2> QED
    BY <2>1, <1>17, <1>19, WholeLater
<1>21. d \in Comp /\ e \in Comp
  BY <1>9, <1>14 DEF Wrote
<1>22. Onward(g.f, M, f, O)
  <2>1. Coder(g, M, e, O)
    BY <1>1, <1>9, <1>14, <1>21, CoderTwice
  <2> QED
    BY <2>1, <1>15 DEF Coder
<1>23. Follows(g.f, f) /\ f.upvalues = g.f.upvalues
  <2>1. \A m \in g.f.gone : m.at \in Starts(g.f)
    BY <1>1 DEF Coding, Sound, Dead
  <2> QED
    BY <2>1, <1>22 DEF Onward, Follows
<1> QED
  BY <1>18, <1>19, <1>20, <1>23 DEF Compiled

LEMMA Halves ==
    ASSUME NEW i \in Nat
    PROVE  /\ (2 * i) % 2 = 0 /\ (2 * i) \div 2 = i
           /\ (2 * i + 1) % 2 = 1 /\ (2 * i + 2) \div 2 = i + 1
  OBVIOUS

LEMMA CapturedIs ==
    ASSUME NEW us \in Seq(Upvalue), NEW t, t = Captured(us)
    PROVE  /\ t \in Seq(Bytes) /\ Len(t) = 2 * Len(us)
           /\ \A i \in 1..Len(t) : t[i].op = "operand"
           /\ \A i \in 1..Len(us) : /\ t[2 * i - 1].n = IF us[i].isLocal THEN 1 ELSE 0
                                    /\ t[2 * i].n = us[i].index
<1>1. Len(us) \in Nat /\ \A i \in 1..Len(us) : us[i] \in Upvalue
  BY SeqIs
<1>2. PICK m : m = 2 * Len(us) /\ m \in Nat
  BY <1>1
<1>3. t = [i \in 1..m |-> IF i % 2 = 0 THEN Byte(us[i \div 2].index)
                          ELSE Byte(IF us[(i + 1) \div 2].isLocal THEN 1 ELSE 0)]
  BY <1>2 DEF Captured
<1>4. ASSUME NEW i \in 1..m  PROVE t[i] \in Bytes /\ t[i].op = "operand"
  <2>1. CASE i % 2 = 0
    <3>1. i \div 2 \in 1..Len(us)
      BY <2>1, <1>1, <1>2
    <3>2. us[i \div 2].index \in Nat
      BY <3>1, <1>1 DEF Upvalue
    <3>3. t[i] = Byte(us[i \div 2].index)
      BY <2>1, <1>3
    <3> QED
      BY <3>2, <3>3, ByteIs
  <2>2. CASE i % 2 # 0
    <3>1. PICK n \in Nat : t[i] = Byte(n)
      BY <2>2, <1>3
    <3> QED
      BY <3>1, ByteIs
  <2> QED
    BY <2>1, <2>2
<1>5. t \in Seq(Bytes) /\ Len(t) = m
  <2>1. DOMAIN t = 1..m
    BY <1>3
  <2>2. t \in [1..m -> Bytes]
    BY <2>1, <1>3, <1>4
  <2> QED
    BY <2>2, <1>2
<1>6. ASSUME NEW i \in 1..Len(us)
      PROVE  /\ t[2 * i - 1].n = IF us[i].isLocal THEN 1 ELSE 0
             /\ t[2 * i].n = us[i].index
  <2>1. i \in Nat /\ i - 1 \in Nat /\ 2 * i \in 1..m /\ 2 * i - 1 \in 1..m
    BY <1>1, <1>2
  <2>2. (2 * i) % 2 = 0 /\ (2 * i) \div 2 = i
    BY <2>1, Halves
  <2>3. (2 * i - 1) % 2 = 1 /\ ((2 * i - 1) + 1) \div 2 = i
    BY <2>1
  <2>4. t[2 * i] = Byte(us[i].index)
    BY <2>1, <2>2, <1>3
  <2>5. t[2 * i - 1] = Byte(IF us[i].isLocal THEN 1 ELSE 0)
    BY <2>1, <2>3, <1>3
  <2> QED
    BY <2>4, <2>5 DEF Byte
<1> QED
  BY <1>2, <1>4, <1>5, <1>6

LEMMA EnclosesIs ==
    ASSUME NEW us \in Seq(Upvalue), NEW n \in Nat, NEW s,
           s = <<Op("CLOSURE"), Byte(n)>> \o Captured(us)
    PROVE  Encloses(us, n, s)
<1>1. PICK t, r : t = Captured(us) /\ r = <<Op("CLOSURE"), Byte(n)>>
  OBVIOUS
<1>2. /\ t \in Seq(Bytes) /\ Len(t) = 2 * Len(us)
      /\ \A i \in 1..Len(t) : t[i].op = "operand"
      /\ \A i \in 1..Len(us) : /\ t[2 * i - 1].n = IF us[i].isLocal THEN 1 ELSE 0
                               /\ t[2 * i].n = us[i].index
  BY <1>1, CapturedIs
<1>3. Op("CLOSURE") \in Bytes /\ Byte(n) \in Bytes /\ Op("CLOSURE").op = "CLOSURE" /\ Byte(n).op = "operand"
      /\ Byte(n).n = n
  BY OpIs, ByteIs DEF Instructions
<1>4. r \in Seq(Bytes) /\ Len(r) = 2 /\ r[1] = Op("CLOSURE") /\ r[2] = Byte(n)
  BY <1>1, <1>3
<1>5. /\ s \in Seq(Bytes) /\ Len(s) = 2 + Len(t) /\ \A i \in 1..2 : s[i] = r[i]
      /\ \A i \in 1..Len(t) : s[2 + i] = t[i]
  <2>1. s = r \o t
    BY <1>1
  <2>2. /\ r \o t \in Seq(Bytes) /\ Len(r \o t) = Len(r) + Len(t)
        /\ \A i \in 1..Len(r) : (r \o t)[i] = r[i]
        /\ \A i \in 1..Len(t) : (r \o t)[Len(r) + i] = t[i]
    <3>1. r \in Seq(Bytes) /\ t \in Seq(Bytes)
      BY <1>2, <1>4
    <3> QED
      BY <3>1, Joined
  <2> QED
    BY <2>1, <2>2, <1>4
<1>6. Len(us) \in Nat /\ Len(t) \in Nat /\ Len(s) = 2 + 2 * Len(us)
  BY <1>2, <1>5, SeqIs
<1>7. s[1].op = "CLOSURE" /\ s[2].n = n /\ s[2].op = "operand"
  BY <1>3, <1>4, <1>5
<1>8. One(s)
  <2>1. ASSUME NEW i \in 2..Len(s)  PROVE s[i].op = "operand"
    <3>1. CASE i = 2
      BY <3>1, <1>7
    <3>2. CASE i # 2
      <4>1. i - 2 \in 1..Len(t) /\ 2 + (i - 2) = i
        BY <3>2, <1>5, <1>6
      <4> QED
        BY <4>1, <1>2, <1>5
    <3> QED
      BY <3>1, <3>2
  <2>2. Len(s) >= 1 /\ s[1].op # "operand" /\ s \in Seq(Bytes)
    BY <1>5, <1>6, <1>7
  <2> QED
    BY <2>1, <2>2 DEF One
<1>9. ASSUME NEW i \in 1..Len(us)
      PROVE  /\ s[2 * i + 1].n = IF us[i].isLocal THEN 1 ELSE 0
             /\ s[2 * i + 2].n = us[i].index
  <2>1. 2 * i - 1 \in 1..Len(t) /\ 2 * i \in 1..Len(t) /\ 2 + (2 * i - 1) = 2 * i + 1 /\ 2 + 2 * i = 2 * i + 2
    BY <1>2, <1>6
  <2>2. s[2 * i + 1] = t[2 * i - 1] /\ s[2 * i + 2] = t[2 * i]
    BY <2>1, <1>5
  <2> QED
    BY <2>2, <1>2
<1> QED
  BY <1>6, <1>7, <1>8, <1>9 DEF Encloses

LEMMA CloserIs ==
    ASSUME NEW ds, NEW dc, NEW c, NEW M, NEW P, NEW b, NEW f, NEW hd, NEW d, NEW s, NEW e, NEW N,
           Encloser(ds, dc, c, M, P, b, f, hd, d, s, e, N)
    PROVE  \E L, n : Closer(ds, c, f, hd, d, s, e, L, n)
<1>1. /\ ds \in Seq(Function) /\ f \in Function /\ hd = Append(ds, f) /\ c \in Comp
      /\ d = MakeConstant(c, Len(ds) + 1) /\ ~ d.error
      /\ s = <<Op("CLOSURE"), Byte(ConstantIndex(c))>> \o Captured(f.upvalues)
      /\ e = Emit(d, s)
  BY DEF Encloser
<1>2. c.f \in Function
  BY <1>1, CompIs
<1>3. PICK L, n, m : L = Len(c.f.code) /\ n = Len(f.upvalues) /\ m = Len(c.f.constants)
  OBVIOUS
<1>4. L \in Nat /\ n \in Nat /\ m \in Nat
  BY <1>1, <1>2, <1>3, CodeBytes
<1>5. Len(ds) \in Nat /\ Len(ds) + 1 \in Nat
  BY <1>1, SeqIs
<1>6. Constant(c, Len(ds) + 1, d) /\ ConstantIndex(c) = m
  BY <1>1, <1>3, <1>5, ConstantIs
<1>7. f.upvalues \in Seq(Upvalue)
  BY <1>1 DEF Function
<1>8. Encloses(f.upvalues, m, s)
  BY <1>1, <1>4, <1>6, <1>7, EnclosesIs
<1>9. One(s) /\ s \in Seq(Bytes) /\ Len(s) = 2 + 2 * n /\ s[1].op = "CLOSURE" /\ s[2].n = m
  BY <1>3, <1>8 DEF Encloses, One
<1>10. d \in Comp /\ d.f \in Function
  BY <1>6, CompIs DEF Constant
<1>11. /\ e \in Comp /\ e.f = Emitted(d.f, s) /\ e.locals = d.locals /\ e.scopeDepth = d.scopeDepth
       /\ e.error = d.error
  BY <1>1, <1>9, <1>10, EmitIs
<1>12. e.f \in Function
  BY <1>11, CompIs
<1>13. PICK g : g = d.f
  OBVIOUS
<1>14. PICK h : h = e.f
  OBVIOUS
<1>15. /\ Len(h.code) = Len(g.code) + Len(s) /\ \A i \in 1..Len(g.code) : h.code[i] = g.code[i]
       /\ h.constants = g.constants /\ h.upvalues = g.upvalues
       /\ h.params = g.params /\ h.born = g.born /\ h.gone = g.gone
       /\ \A i \in 1..Len(s) : h.code[Len(g.code) + i] = s[i]
  <2>1. /\ Len(Emitted(g, s).code) = Len(g.code) + Len(s)
        /\ \A i \in 1..Len(g.code) : Emitted(g, s).code[i] = g.code[i]
        /\ Emitted(g, s).constants = g.constants /\ Emitted(g, s).upvalues = g.upvalues
        /\ Emitted(g, s).params = g.params
        /\ Emitted(g, s).born = g.born /\ Emitted(g, s).gone = g.gone
        /\ \A i \in 1..Len(s) : Emitted(g, s).code[Len(g.code) + i] = s[i]
    BY <1>9, <1>10, <1>13, EmittedCode
  <2> QED
    BY <2>1, <1>11, <1>13, <1>14
<1>16. Appends(g, s, h)
  BY <1>9, <1>10, <1>12, <1>13, <1>14, <1>15, OneMore
<1>17. Len(g.code) = L
  BY <1>3, <1>6, <1>13 DEF Constant
<1>18. /\ Operation(h, L) = "CLOSURE"
       /\ \A i \in 1..Len(s) - 1 : Operand(h, L, i) = s[i + 1].n
  BY <1>9, <1>16, <1>17 DEF Appends
<1>19. Operand(h, L, 1) = m
  <2>1. 1 \in 1..Len(s) - 1 /\ 1 + 1 = 2
    BY <1>4, <1>9
  <2> QED
    BY <2>1, <1>9, <1>18
<1>20. ASSUME NEW i \in 1..n
       PROVE  /\ Operand(h, L, 2 * i) = IF f.upvalues[i].isLocal THEN 1 ELSE 0
              /\ Operand(h, L, 2 * i + 1) = f.upvalues[i].index
  <2>1. 2 * i \in 1..Len(s) - 1 /\ 2 * i + 1 \in 1..Len(s) - 1 /\ (2 * i + 1) + 1 = 2 * i + 2
    BY <1>4, <1>9
  <2>2. Operand(h, L, 2 * i) = s[2 * i + 1].n /\ Operand(h, L, 2 * i + 1) = s[(2 * i + 1) + 1].n
    BY <2>1, <1>18
  <2>3. s[2 * i + 1].n = (IF f.upvalues[i].isLocal THEN 1 ELSE 0) /\ s[2 * i + 2].n = f.upvalues[i].index
    BY <1>3, <1>8 DEF Encloses
  <2> QED
    BY <2>1, <2>2, <2>3
<1>21. h.constants[m + 1] = Len(ds) + 1 /\ m + 1 \in DOMAIN h.constants
  BY <1>3, <1>6, <1>13, <1>15 DEF Constant
<1>22. hd \in Seq(Function) /\ Wider(ds, hd) /\ hd[Len(ds) + 1] = f /\ Len(ds) + 1 \in DOMAIN hd
  BY <1>1, <1>5 DEF Wider
<1>23. Width(hd, h, L) = 2 + 2 * n
  BY <1>3, <1>18, <1>19, <1>21, <1>22 DEF Width
<1>24. Len(h.code) = L + 2 + 2 * n
  BY <1>4, <1>9, <1>15, <1>17
<1>25. /\ e.locals = c.locals /\ e.scopeDepth = c.scopeDepth /\ d.f.code = c.f.code
       /\ h.upvalues = c.f.upvalues /\ h.params = c.f.params /\ h.born = c.f.born /\ h.gone = c.f.gone
  BY <1>6, <1>11, <1>13, <1>15 DEF Constant
<1>26. Closer(ds, c, f, hd, d, s, e, L, n)
  BY <1>3, <1>4, <1>6, <1>8, <1>9, <1>10, <1>11, <1>13, <1>14, <1>16, <1>18, <1>19, <1>20, <1>21,
     <1>22, <1>23, <1>24, <1>25 DEF Closer
<1> QED
  BY <1>26

\* What the closure captures is where its operands say.
LEMMA CloserMeant ==
    ASSUME NEW ds, NEW dc, NEW c, NEW M, NEW P, NEW b, NEW f, NEW hd, NEW d, NEW s, NEW e, NEW N,
           Encloser(ds, dc, c, M, P, b, f, hd, d, s, e, N), NEW L, NEW n,
           Closer(ds, c, f, hd, d, s, e, L, n)
    PROVE  MeantAt(hd, e.f, N, Late(c, b), L)
<1>1. /\ c \in Comp /\ Sane(b) /\ b.all = Len(c.locals) /\ b.seen = b.all /\ b.height - 1 = b.vars
      /\ \A i \in DOMAIN f.upvalues : Joins(c, f.upvalues[i])
      /\ N = Longer(M, Len(e.f.code), [height |-> b.height, slot |-> SlotsOf(c, b.vars)])
      /\ f \in Function
  BY DEF Encloser
<1>2. /\ L \in Nat /\ n = Len(f.upvalues) /\ n \in Nat /\ hd[Len(ds) + 1] = f
      /\ Operation(e.f, L) = "CLOSURE" /\ Operand(e.f, L, 1) = Len(c.f.constants)
      /\ e.f.constants[Len(c.f.constants) + 1] = Len(ds) + 1
      /\ \A i \in 1..n : /\ Operand(e.f, L, 2 * i) = IF f.upvalues[i].isLocal THEN 1 ELSE 0
                         /\ Operand(e.f, L, 2 * i + 1) = f.upvalues[i].index
      /\ Width(hd, e.f, L) = 2 + 2 * n /\ Len(e.f.code) = L + 2 + 2 * n
      /\ e.f.upvalues = c.f.upvalues
  BY DEF Closer
<1>3. PICK q : q = L + Width(hd, e.f, L)
  OBVIOUS
<1>4. q = Len(e.f.code) /\ q \in Nat
  <2>1. L \in Nat /\ n \in Nat /\ q = L + (2 + 2 * n) /\ Len(e.f.code) = L + 2 + 2 * n
    BY <1>2, <1>3
  <2> QED
    BY <2>1
<1>5. N[q].height = b.height /\ N[q].slot = SlotsOf(c, b.vars)
  <2>1. q \in 0..q
    BY <1>4
  <2>2. N = Longer(M, q, [height |-> b.height, slot |-> SlotsOf(c, b.vars)])
    BY <1>1, <1>4
  <2>3. N[q] = [height |-> b.height, slot |-> SlotsOf(c, b.vars)]
    BY <2>1, <2>2 DEF Longer
  <2> QED
    BY <2>3
<1>6. /\ Len(c.locals) \in Nat /\ DOMAIN c.locals = 1..Len(c.locals)
      /\ DOMAIN f.upvalues = 1..n /\ \A i \in 1..n : f.upvalues[i] \in Upvalue
  BY <1>1, <1>2, CompIs, CodeBytes
<1>7. /\ b.vars \in Nat /\ b.all \in Nat /\ b.all - 1 <= b.vars /\ b.vars <= b.all /\ b.all <= Count
      /\ b.height \in Nat
  BY <1>1, Points
<1>8. Count \in Nat
  BY CompilerConstants
<1>9. ASSUME NEW i \in 1..n, f.upvalues[i].isLocal
      PROVE  /\ f.upvalues[i].index + 1 \in Slot /\ f.upvalues[i].decl # Global
             /\ \/ N[q].slot[f.upvalues[i].index + 1] = f.upvalues[i].decl
                \/ q = Len(e.f.code) /\ f.upvalues[i].index + 1 = N[q].height
                     /\ f.upvalues[i].decl = Late(c, b)
  <2>1. Joins(c, f.upvalues[i])
    BY <1>1, <1>6
  <2>2. PICK u, x : u = f.upvalues[i] /\ x = f.upvalues[i].index + 1
    OBVIOUS
  <2>3. x \in 1..b.all /\ c.locals[x].decl = u.decl /\ u.decl # Global
    BY <2>1, <2>2, <1>1, <1>6, <1>9 DEF Joins
  <2>4. x \in Slot
    BY <2>3, <1>7, <1>8 DEF Slot
  <2>5. CASE x <= b.vars
    <3>1. N[q].slot[x] = u.decl
      BY <2>3, <2>4, <2>5, <1>5 DEF SlotsOf
    <3> QED
      BY <3>1, <2>2, <2>3, <2>4
  <2>6. CASE ~ (x <= b.vars)
    <3>1. x = b.all /\ b.vars < b.all /\ x = b.height
      BY <2>3, <2>6, <1>1, <1>7
    <3>2. u.decl = Late(c, b)
      BY <3>1, <2>3, <1>1 DEF Late
    <3> QED
      BY <3>1, <3>2, <2>2, <2>3, <2>4, <1>4, <1>5
  <2> QED
    BY <2>5, <2>6
<1>10. ASSUME NEW i \in 1..n, ~ f.upvalues[i].isLocal
       PROVE  /\ f.upvalues[i].index + 1 \in DOMAIN e.f.upvalues
              /\ e.f.upvalues[f.upvalues[i].index + 1].decl = f.upvalues[i].decl
  <2>1. Joins(c, f.upvalues[i])
    BY <1>1, <1>6
  <2> QED
    BY <2>1, <1>2, <1>10 DEF Joins
<1>11. hd[e.f.constants[Operand(e.f, L, 1) + 1]].upvalues = f.upvalues
  BY <1>2
<1>12. ASSUME NEW i \in DOMAIN f.upvalues
       PROVE  LET index == Operand(e.f, L, 2 * i + 1)
              IN  /\ Operand(e.f, L, 2 * i) = IF f.upvalues[i].isLocal THEN 1 ELSE 0
                  /\ IF f.upvalues[i].isLocal
                     THEN /\ index + 1 \in Slot /\ f.upvalues[i].decl # Global
                          /\ \/ N[q].slot[index + 1] = f.upvalues[i].decl
                             \/ q = Len(e.f.code) /\ index + 1 = N[q].height /\ f.upvalues[i].decl = Late(c, b)
                     ELSE index + 1 \in DOMAIN e.f.upvalues
                          /\ e.f.upvalues[index + 1].decl = f.upvalues[i].decl
  <2>1. i \in 1..n
    BY <1>6
  <2>2. /\ Operand(e.f, L, 2 * i) = IF f.upvalues[i].isLocal THEN 1 ELSE 0
        /\ Operand(e.f, L, 2 * i + 1) = f.upvalues[i].index
    BY <2>1, <1>2
  <2>3. CASE f.upvalues[i].isLocal
    BY <2>1, <2>2, <2>3, <1>9
  <2>4. CASE ~ f.upvalues[i].isLocal
    BY <2>1, <2>2, <2>4, <1>10
  <2> QED
    BY <2>3, <2>4
<1> QED
  BY <1>2, <1>3, <1>11, <1>12 DEF MeantAt

LEMMA CloserSound ==
    ASSUME NEW ds, NEW dc, NEW c, NEW M, NEW P, NEW b, NEW f, NEW hd, NEW d, NEW s, NEW e, NEW N,
           Encloser(ds, dc, c, M, P, b, f, hd, d, s, e, N), NEW L, NEW n,
           Closer(ds, c, f, hd, d, s, e, L, n)
    PROVE  Lengthened(hd, d.f, M, Late(c, b), e.f, b.height, N, P, dc)
<1>1. /\ c \in Comp /\ Sane(b) /\ b.all = Len(c.locals) /\ b.height - 1 = b.vars
      /\ b.vars > Len(c.f.params)
      /\ Sound(ds, c.f, M, P, Global, dc) /\ M[Len(c.f.code)] = Stack(c, Raise(b, -1))
      /\ N = Longer(M, Len(e.f.code), [height |-> b.height, slot |-> SlotsOf(c, b.vars)])
      /\ f \in Function /\ ds \in Seq(Function) /\ dc \in Nat
  BY DEF Encloser
<1>2. /\ L = Len(c.f.code) /\ L \in Nat /\ n \in Nat /\ hd \in Seq(Function) /\ Wider(ds, hd)
      /\ Len(ds) + 1 \in DOMAIN hd
      /\ d \in Comp /\ e \in Comp /\ Constant(c, Len(ds) + 1, d)
      /\ Encloses(f.upvalues, Len(c.f.constants), s)
      /\ e.f = Emitted(d.f, s) /\ d.f.code = c.f.code
      /\ Operation(e.f, L) = "CLOSURE"
      /\ Width(hd, e.f, L) = 2 + 2 * n /\ Len(s) = 2 + 2 * n
  BY DEF Closer
<1>3. c.f \in Function /\ d.f \in Function /\ e.f \in Function
  BY <1>1, <1>2, CompIs
<1>4. Sound(hd, d.f, M, P, Global, dc)
  <2>1. PICK g, h : g = c.f /\ h = d.f
    OBVIOUS
  <2>2. /\ h.code = g.code /\ h.params = g.params /\ h.born = g.born /\ h.gone = g.gone /\ h.land = g.land
        /\ h.upvalues = g.upvalues
        /\ \A i \in DOMAIN g.constants : i \in DOMAIN h.constants /\ h.constants[i] = g.constants[i]
    BY <2>1, <1>2 DEF Constant
  <2>3. /\ DOMAIN ds \subseteq DOMAIN hd /\ \A i \in DOMAIN ds : hd[i] = ds[i]
    BY <1>2 DEF Wider
  <2>4. g \in Function /\ h \in Function /\ Sound(ds, g, M, P, Global, dc) /\ dc <= dc
    BY <1>1, <1>3, <2>1
  <2>5. Sound(hd, h, M, P, Global, dc)
    BY <2>2, <2>3, <2>4, <1>1, Tables
  <2> QED
    BY <2>1, <2>5
<1>5. /\ b.vars \in Nat /\ b.height \in Nat /\ b.height = b.vars + 1 /\ b \in Point
  <2>1. b.vars \in Nat /\ b.height \in Nat /\ b \in Point
    BY <1>1, Points
  <2>2. b.height - 1 = b.vars
    BY <1>1
  <2> QED
    BY <2>1, <2>2
<1>6. M[L].height = b.vars /\ M[L].slot = SlotsOf(c, b.vars)
  <2>1. Raise(b, -1).height = b.height + (-1) /\ Raise(b, -1).vars = b.vars
    BY <1>5, Raised
  <2> QED
    <3>1. M[L] = Stack(c, Raise(b, -1))
      BY <1>1, <1>2
    <3>2. PICK r : r = Raise(b, -1)
      OBVIOUS
    <3>3. r.height = b.height + (-1) /\ r.vars = b.vars /\ M[L] = Stack(c, r)
      BY <2>1, <3>1, <3>2
    <3>4. M[L].height = r.height /\ M[L].slot = SlotsOf(c, r.vars)
      BY <3>3 DEF Stack
    <3> QED
      BY <3>3, <3>4, <1>5
<1>7. /\ One(s) /\ s[1].op = "CLOSURE" /\ s[2].n = Len(c.f.constants)
  BY <1>2 DEF Encloses
<1>8. Takes(e.f, L) = 0 /\ Puts(e.f, L) = 1
  BY <1>2 DEF Takes, Puts
<1>9. \A i \in Slot : M[L].slot[i] # Global => i <= b.vars
  BY <1>6 DEF SlotsOf
<1>10. Len(c.f.constants) + 1 \in DOMAIN d.f.constants /\ d.f.constants[Len(c.f.constants) + 1] = Len(ds) + 1
  BY <1>2 DEF Constant
<1>11. MeantAt(hd, e.f, N, Late(c, b), L)
  BY CloserMeant
<1>12. Lengthens(hd, d.f, M, P, s, Late(c, b), e.f, b.height, N, P)
  <2>1. Len(d.f.code) = L /\ d.f.params = c.f.params
    BY <1>2 DEF Constant
  <2>2. N = Longer(M, Len(e.f.code), [height |-> b.height, slot |-> M[L].slot])
    BY <1>1, <1>6
  <2>3. P = IF s[1].op \in Jumps THEN P \cup {L} ELSE P
    BY <1>7 DEF Jumps
  <2>4. M[L].height > Len(d.f.params) + Takes(e.f, L)
    BY <2>1, <1>1, <1>3, <1>5, <1>6, <1>8, CodeBytes
  <2>5. b.height = M[L].height - Takes(e.f, L) + Puts(e.f, L)
    BY <1>5, <1>6, <1>8
  <2>6. \A i \in Slot : M[L].slot[i] # Global => i <= M[L].height - Takes(e.f, L) /\ i <= b.height
    <3>1. \A i \in Slot : i \in Nat
      BY CompilerConstants DEF Slot
    <3>2. M[L].height - Takes(e.f, L) = b.vars
      BY <1>5, <1>6, <1>8
    <3>3. \A i \in Nat : i <= b.vars => i <= b.height
      BY <1>5
    <3> QED
      BY <3>1, <3>2, <3>3, <1>9
  <2>7. Len(s) >= 2 /\ s[2].n + 1 \in DOMAIN d.f.constants /\ d.f.constants[s[2].n + 1] \in DOMAIN hd
    BY <1>2, <1>7, <1>10
  <2> QED
    BY <2>1, <2>2, <2>3, <2>4, <2>5, <2>6, <2>7, <1>2, <1>5, <1>7, <1>8, <1>11 DEF Lengthens
<1> QED
  BY <1>2, <1>3, <1>4, <1>1, <1>12, EmitOne

LEMMA EnclosingIs ==
    ASSUME NEW ds, NEW dc, NEW c, NEW M, NEW P, NEW b, NEW f, NEW hd, NEW d, NEW s, NEW e, NEW N,
           Encloser(ds, dc, c, M, P, b, f, hd, d, s, e, N)
    PROVE  Enclosing(ds, dc, c, M, P, b, hd, e, N)
<1>1. PICK L, n : Closer(ds, c, f, hd, d, s, e, L, n)
  BY CloserIs
<1>2. Lengthened(hd, d.f, M, Late(c, b), e.f, b.height, N, P, dc)
  BY <1>1, CloserSound
<1>3. /\ Sound(hd, e.f, N, P, Late(c, b), dc) /\ e.f \in Function
      /\ N[Len(e.f.code)] = [height |-> b.height, slot |-> M[Len(d.f.code)].slot]
      /\ \A q \in 0..Len(d.f.code) : N[q] = M[q]
      /\ Extends(hd, hd, d.f, e.f, {})
  BY <1>2 DEF Lengthened
<1>4. /\ L = Len(c.f.code) /\ L \in Nat /\ hd \in Seq(Function) /\ Wider(ds, hd)
      /\ d \in Comp /\ e \in Comp /\ Constant(c, Len(ds) + 1, d)
      /\ e.locals = c.locals /\ e.scopeDepth = c.scopeDepth /\ d.f.code = c.f.code
      /\ e.f.upvalues = c.f.upvalues /\ e.f.params = c.f.params /\ e.f.born = c.f.born
      /\ e.f.gone = c.f.gone
  BY <1>1 DEF Closer
<1>5. /\ c \in Comp /\ ds \in Seq(Function) /\ Sound(ds, c.f, M, P, Global, dc)
      /\ N = Longer(M, Len(e.f.code), [height |-> b.height, slot |-> SlotsOf(c, b.vars)])
  BY DEF Encloser
<1>6. c.f \in Function /\ e.f \in Function
  BY <1>4, <1>5, CompIs
<1>7. N[Len(e.f.code)] = Stack(e, b)
  <2>1. Len(e.f.code) \in Nat
    BY <1>6, CodeBytes
  <2>2. PICK q : q = Len(e.f.code)
    OBVIOUS
  <2>3. N = Longer(M, q, [height |-> b.height, slot |-> SlotsOf(c, b.vars)]) /\ q \in 0..q
    BY <2>1, <2>2, <1>5
  <2>4. N[q] = [height |-> b.height, slot |-> SlotsOf(c, b.vars)]
    BY <2>3 DEF Longer
  <2>5. SlotsOf(e, b.vars) = SlotsOf(c, b.vars)
    BY <1>4 DEF SlotsOf
  <2> QED
    BY <2>2, <2>4, <2>5 DEF Stack
<1>8. PICK g, h : g = c.f /\ h = e.f
  OBVIOUS
<1>9. Extends(ds, hd, g, h, {})
  <2>1. /\ Len(d.f.code) <= Len(h.code) /\ h.params = d.f.params /\ Len(d.f.code) \in Spots(h)
        /\ \A i \in 1..Len(d.f.code) : h.code[i] = d.f.code[i]
        /\ \A i \in DOMAIN d.f.constants : i \in DOMAIN h.constants /\ h.constants[i] = d.f.constants[i]
    <3>1. Extends(hd, hd, d.f, h, {})
      BY <1>3, <1>8
    <3> QED
      BY <3>1 DEF Extends
  <2>2. \A i \in 1..Len(g.code) : h.code[i] = g.code[i]
    BY <2>1, <1>4, <1>8
  <2>3. /\ Len(g.code) <= Len(h.code) /\ Len(g.code) \in Spots(h)
    BY <2>1, <1>4, <1>8
  <2>4. \A i \in DOMAIN g.constants : i \in DOMAIN h.constants /\ h.constants[i] = g.constants[i]
    BY <2>1, <1>4, <1>8 DEF Constant
  <2>5. h.upvalues = g.upvalues /\ h.params = g.params
    BY <1>4, <1>8
  <2> QED
    BY <2>2, <2>3, <2>4, <2>5, <1>4 DEF Extends, Wider
<1>10. \A q \in Spots(g) : N[q] = M[q]
  <2>1. Spots(g) \subseteq 0..L
    BY <1>4, <1>8 DEF Spots, Starts
  <2>2. Len(d.f.code) = L
    BY <1>4
  <2> QED
    BY <2>1, <2>2, <1>3
<1>11. Onward(g, M, h, N)
  <2>1. Typed(ds, g, M, P)
    BY <1>5, <1>8 DEF Sound
  <2>2. h.upvalues = g.upvalues /\ h.params = g.params /\ h.born = g.born /\ h.gone = g.gone
    BY <1>4, <1>8
  <2>3. g \in Function /\ h \in Function /\ {} \subseteq P
    BY <1>6, <1>8
  <2> QED
    BY <2>1, <2>2, <2>3, <1>5, <1>9, <1>10, Further
<1>12. Coder(c, M, e, N)
  BY <1>4, <1>8, <1>11 DEF Coder
<1> QED
  BY <1>3, <1>4, <1>7, <1>12 DEF Enclosing

\* The function that is done, and its closure.
LEMMA FinishWorks ==
    ASSUME NEW ch, NEW wk, NEW ds, NEW en, NEW dc, NEW ctx, NEW maps, NEW n, NEW g, NEW c, NEW a,
           NEW b, NEW tw, NEW tc, NEW f, NEW d, NEW s, NEW e, NEW hd, NEW es, NEW fn,
           Finish(ch, wk, ds, en, dc, ctx, maps, n, g, c, a, b, tw, tc, f, d, s, e, hd, es, fn)
    PROVE  \E F, N : /\ Compiled(ds, dc, g, f, hd, F)
                     /\ Enclosing(ds, dc, c, maps[n], Pending(wk, ctx, n), b, hd, e, N)
<1>1. /\ Types(ch, wk, ds, en, dc) /\ Good(ch, wk, ds, en, dc, ctx, maps)
      /\ n = Len(ch) - 1 /\ g = ch[n + 1] /\ c = ch[n] /\ a = ctx[1] /\ b = ctx[2]
      /\ f = EndCompiler(g) /\ d = MakeConstant(c, Len(ds) + 1) /\ ~ d.error
      /\ s = <<Op("CLOSURE"), Byte(ConstantIndex(c))>> \o Captured(f.upvalues)
      /\ e = Emit(d, s) /\ hd = Append(ds, f)
  BY DEF Finish
<1>2. Around2(ch, wk, ds, en, dc, ctx, maps, n, g, c, a, b, tw, tc)
  BY FinishIs
<1>3. /\ n \in Nat /\ n >= 1 /\ Len(ch) = n + 1 /\ DOMAIN ch = 1..n + 1
      /\ g \in Comp /\ c \in Comp /\ ds \in Seq(Function) /\ dc \in Nat
      /\ Settled(a) /\ Sane(b) /\ b.level = n /\ Fine(ch, b) /\ b.seen = b.all /\ b.all = Len(c.locals)
      /\ b.height - 1 = b.vars /\ Here(c, maps[n], b, Stack(c, Raise(b, -1)))
      /\ Pending(wk, ctx, n + 1) = {}
  BY <1>2 DEF Around2
<1>4. Wrote(ds, dc, g, maps[n + 1], {}, a.height, SlotsOf(g, a.vars), a.vars)
  <2>1. ctx[1].vars = ctx[1].seen
    BY <1>1, <1>3 DEF Settled
  <2>2. g = ch[Len(ch)]
    BY <1>1, <1>3
  <2>3. Wrote(ds, dc, g, maps[Len(ch)], Pending(wk, ctx, Len(ch)), a.height, SlotsOf(g, a.vars), a.vars)
    BY <2>1, <2>2, <1>1, AtSettled
  <2> QED
    BY <2>3, <1>3
<1>5. PICK F : Compiled(ds, dc, g, f, hd, F)
  BY <1>1, <1>3, <1>4, EndCompilerIs
<1>6. f \in Function /\ f.upvalues = g.f.upvalues
  BY <1>5 DEF Compiled
<1>7. PICK P : P = Pending(wk, ctx, n)
  OBVIOUS
<1>8. Sound(ds, c.f, maps[n], P, Global, dc)
  <2>1. n \in DOMAIN ch /\ n # Len(ch)
    BY <1>3
  <2>2. Coded(ch, ds, dc, maps, wk, ctx)
    BY <1>1 DEF Good
  <2> QED
    BY <2>1, <2>2, <1>1, <1>7 DEF Coded
<1>9. ASSUME NEW i \in DOMAIN f.upvalues  PROVE Joins(c, f.upvalues[i])
  <2>1. Linked(ch)
    BY <1>1 DEF Good, Tied
  <2>2. PICK k : k = n + 1
    OBVIOUS
  <2>3. k \in 2..Len(ch) /\ k - 1 = n
    BY <2>2, <1>3
  <2>4. i \in DOMAIN ch[k].f.upvalues /\ ch[k].f.upvalues = f.upvalues
    BY <2>2, <1>1, <1>6
  <2>5. Joins(ch[k - 1], ch[k].f.upvalues[i])
    BY <2>1, <2>3, <2>4 DEF Linked
  <2> QED
    BY <2>3, <2>4, <2>5, <1>1
<1>10. b.vars > Len(c.f.params) /\ maps[n][Len(c.f.code)] = Stack(c, Raise(b, -1))
  BY <1>1, <1>3 DEF Fine, Here
<1>11. PICK N : N = Longer(maps[n], Len(e.f.code), [height |-> b.height, slot |-> SlotsOf(c, b.vars)])
  OBVIOUS
<1>12. Encloser(ds, dc, c, maps[n], P, b, f, hd, d, s, e, N)
  BY <1>1, <1>3, <1>6, <1>8, <1>9, <1>10, <1>11 DEF Encloser
<1>13. Enclosing(ds, dc, c, maps[n], P, b, hd, e, N)
  BY <1>12, EnclosingIs
<1> QED
  BY <1>5, <1>7, <1>13

LEMMA LessAt ==
    ASSUME NEW ch, NEW wk, NEW ds, NEW en, NEW dc, NEW ctx, NEW maps, NEW n, NEW g, NEW c, NEW a,
           NEW b, NEW tw, NEW tc, Around2(ch, wk, ds, en, dc, ctx, maps, n, g, c, a, b, tw, tc),
           NEW e \in Comp, NEW es, NEW fn, Drops(ch, en, n, e, es, fn),
           NEW N, NEW naps, naps = [k \in 1..n |-> IF k = n THEN N ELSE maps[k]]
    PROVE  Less(ch, en, b, n, e, N, es, fn, maps, naps)
<1>1. es = Append(SubSeq(ch, 1, n - 1), e) /\ fn = Front(en)
  BY DEF Drops
<1>3. /\ n \in Nat /\ n >= 1 /\ Len(ch) = n + 1 /\ DOMAIN ch = 1..n + 1 /\ ch \in Seq(Comp)
      /\ Sane(b) /\ a.env = b.env + 1 /\ a.env = Len(en) /\ en \in Seq([Name -> 0..MaxDecl])
  BY DEF Around2
<1>4. b.env \in Nat /\ b.env >= 1
  BY <1>3, Points
<1>5. PICK t : t = SubSeq(ch, 1, n - 1)
  OBVIOUS
<1>6. t \in Seq(Comp) /\ Len(t) = n - 1 /\ \A k \in 1..n - 1 : t[k] = ch[k]
  <2>1. n - 1 \in 0..Len(ch) /\ n - 1 \in Int
    BY <1>3
  <2>2. \A k \in 1..n - 1 : ch[k] \in Comp
    BY <1>3
  <2>3. t = [k \in 1..n - 1 |-> ch[k]]
    BY <2>1, <1>3, <1>5
  <2> QED
    BY <2>2, <2>3, <1>3
<1>7. es \in Seq(Comp) /\ Len(es) = n /\ DOMAIN es = 1..n /\ es[n] = e /\ \A k \in 1..n - 1 : es[k] = ch[k]
  <2>1. es = Append(t, e)
    BY <1>1, <1>5
  <2>2. /\ es \in Seq(Comp) /\ Len(es) = Len(t) + 1 /\ es[Len(t) + 1] = e
        /\ \A i \in 1..Len(t) : es[i] = t[i]
        /\ DOMAIN es = 1..Len(t) + 1
    BY <2>1, <1>6, AppendIs
  <2>3. Len(t) + 1 = n /\ Len(t) = n - 1
    BY <1>3, <1>6
  <2> QED
    BY <2>2, <2>3, <1>6
<1>8. fn \in Seq([Name -> 0..MaxDecl]) /\ Len(fn) = b.env /\ \A i \in 1..b.env : fn[i] = en[i]
  <2>1. Len(en) = b.env + 1 /\ Len(en) - 1 = b.env
    <3>1. Len(en) = b.env + 1
      BY <1>3
    <3> QED
      BY <3>1, <1>4
  <2>2. fn = SubSeq(en, 1, b.env)
    BY <2>1, <1>1 DEF Front
  <2>3. fn = [i \in 1..b.env |-> en[i]]
    BY <2>1, <2>2, <1>3, <1>4
  <2>4. \A i \in 1..b.env : en[i] \in [Name -> 0..MaxDecl]
    BY <2>1, <1>3, <1>4
  <2> QED
    BY <2>3, <2>4, <1>4
<1>9. naps[n] = N /\ \A k \in 1..n - 1 : naps[k] = maps[k]
  BY <1>3
<1> QED
  BY <1>4, <1>7, <1>8, <1>9 DEF Less

LEMMA LessIs ==
    ASSUME NEW ch, NEW wk, NEW ds, NEW en, NEW dc, NEW ctx, NEW maps, NEW n, NEW g, NEW c, NEW a,
           NEW b, NEW tw, NEW tc, NEW f, NEW d, NEW s, NEW e \in Comp, NEW hd, NEW es, NEW fn,
           Finish(ch, wk, ds, en, dc, ctx, maps, n, g, c, a, b, tw, tc, f, d, s, e, hd, es, fn),
           NEW N, NEW naps, naps = [k \in 1..n |-> IF k = n THEN N ELSE maps[k]]
    PROVE  Less(ch, en, b, n, e, N, es, fn, maps, naps)
<1>1. Drops(ch, en, n, e, es, fn)
  BY DEF Finish, Drops
<1>2. Around2(ch, wk, ds, en, dc, ctx, maps, n, g, c, a, b, tw, tc)
  BY FinishIs
<1> QED
  BY <1>1, <1>2, LessAt

LEMMA DoneIs ==
    ASSUME NEW ch, NEW wk, NEW ds, NEW en, NEW dc, NEW ctx, NEW maps, NEW n, NEW g, NEW c, NEW a,
           NEW b, NEW tw, NEW tc, NEW f, NEW d, NEW s, NEW e, NEW hd, NEW es, NEW fn,
           Finish(ch, wk, ds, en, dc, ctx, maps, n, g, c, a, b, tw, tc, f, d, s, e, hd, es, fn)
    PROVE  \E F, N, naps :
              Done(ch, wk, ds, en, dc, ctx, maps, n, g, c, a, b, tw, tc, f, d, s, e, hd, es, fn, F, N, naps)
<1>1. Around2(ch, wk, ds, en, dc, ctx, maps, n, g, c, a, b, tw, tc)
  BY FinishIs
<1>2. PICK F, N : /\ Compiled(ds, dc, g, f, hd, F)
                  /\ Enclosing(ds, dc, c, maps[n], Pending(wk, ctx, n), b, hd, e, N)
  BY FinishWorks
<1>3. e \in Comp
  BY <1>2 DEF Enclosing, Coder
<1>4. PICK naps : naps = [k \in 1..n |-> IF k = n THEN N ELSE maps[k]]
  OBVIOUS
<1>5. Less(ch, en, b, n, e, N, es, fn, maps, naps)
  BY <1>3, <1>4, LessIs
<1>6. Done(ch, wk, ds, en, dc, ctx, maps, n, g, c, a, b, tw, tc, f, d, s, e, hd, es, fn, F, N, naps)
  BY <1>1, <1>2, <1>5 DEF Done
<1> QED
  BY <1>6

\* What is left to do.
LEMMA DoneLeft ==
    ASSUME NEW ch, NEW wk, NEW ds, NEW en, NEW dc, NEW ctx, NEW maps, NEW n, NEW g, NEW c, NEW a,
           NEW b, NEW tw, NEW tc, NEW f, NEW d, NEW s, NEW e, NEW hd, NEW es, NEW fn, NEW F, NEW N, NEW naps,
           Done(ch, wk, ds, en, dc, ctx, maps, n, g, c, a, b, tw, tc, f, d, s, e, hd, es, fn, F, N, naps)
    PROVE  Listed(es, fn, naps, tw, tc) /\ Heads(es, fn, naps, tw, tc)
<1>1. /\ Around2(ch, wk, ds, en, dc, ctx, maps, n, g, c, a, b, tw, tc)
      /\ Enclosing(ds, dc, c, maps[n], Pending(wk, ctx, n), b, hd, e, N)
      /\ Less(ch, en, b, n, e, N, es, fn, maps, naps)
  BY DEF Done
<1>2. c = ch[n] /\ Types(ch, wk, ds, en, dc) /\ Good(ch, wk, ds, en, dc, ctx, maps)
  BY DEF Done, Finish
<1>3. /\ n \in Nat /\ n >= 1 /\ Len(ch) = n + 1 /\ ch \in Seq(Comp) /\ DOMAIN ch = 1..n + 1
      /\ c \in Comp /\ Sane(b) /\ b.level = n /\ b.seen = b.all /\ b.all = Len(c.locals)
      /\ Here(c, maps[n], b, Stack(c, Raise(b, -1))) /\ Named(ch, en, b)
      /\ tw[1].k = "define" /\ tc[1] = b /\ Listed(ch, en, maps, tw, tc)
  BY <1>1 DEF Around2
<1>4. Coder(c, maps[n], e, N) /\ N[Len(e.f.code)] = Stack(e, b)
  BY <1>1 DEF Enclosing
<1>5. /\ es \in Seq(Comp) /\ Len(es) = n /\ DOMAIN es = 1..n /\ es[n] = e /\ naps[n] = N
      /\ \A k \in 1..n - 1 : es[k] = ch[k] /\ naps[k] = maps[k]
      /\ Len(fn) = b.env /\ \A i \in 1..b.env : fn[i] = en[i]
      /\ b.env \in Nat /\ b.env >= 1
  BY <1>1 DEF Less
<1>6. /\ b.all \in Nat /\ b.seen \in Nat /\ b.depth \in Nat
  BY <1>3, Points
<1>7. Keeps(c, maps[n], e, N, b.all, b.depth)
  <2>1. b.all <= Len(c.locals)
    BY <1>3, <1>6
  <2> QED
    BY <2>1, <1>3, <1>4, <1>6, CoderKeeps
<1>8. UpTo(ch, en, maps, tw, tc, es, fn, naps, n)
  <2>1. n <= Len(ch) /\ tc[1].level <= n
    BY <1>3
  <2>2. \A k \in DOMAIN ch : Len(ch[k].locals) >= 1
    BY <1>2, GoodIs
  <2>3. \A k \in 1..n - 1 : k \in DOMAIN es /\ es[k] = ch[k] /\ naps[k] = maps[k]
    BY <1>3, <1>5
  <2>4. n \in DOMAIN es /\ Keeps(ch[n], maps[n], es[n], naps[n], tc[1].all, tc[1].depth)
    BY <1>2, <1>3, <1>5, <1>7
  <2>5. \A i \in 1..tc[1].env - 1 : fn[i] = en[i]
    BY <1>3, <1>5
  <2>6. tw[1].k # "parameters"
    BY <1>3
  <2> QED
    BY <2>1, <2>2, <2>3, <2>4, <2>5, <2>6, <1>3 DEF UpTo
<1>9. Listed(es, fn, naps, tw, tc)
  BY <1>3, <1>8, RestStaysTop
<1>10. Here(e, N, b, Stack(e, b))
  <2>1. e.locals = c.locals /\ e.scopeDepth = c.scopeDepth /\ e.f.born = c.f.born
    BY <1>4 DEF Coder, Onward
  <2> QED
    BY <2>1, <1>3, <1>4 DEF Here
<1>11. Named(es, fn, b)
  <2>1. SameNames(ch, es, n, b.seen)
    <3>1. e.locals = c.locals
      BY <1>4 DEF Coder
    <3>2. \A j \in 1..n : es[j].locals = ch[j].locals
      BY <3>1, <1>2, <1>3, <1>5
    <3> QED
      BY <3>2 DEF SameNames
  <2>2. fn[b.env] = en[b.env]
    BY <1>5
  <2>3. SameNames(ch, es, b.level, b.seen) /\ b.level \in Nat
    BY <2>1, <1>3
  <2> QED
    BY <2>2, <2>3, <1>3, NamedStays
<1>12. Heads(es, fn, naps, tw, tc)
  BY <1>3, <1>5, <1>10, <1>11 DEF Heads
<1> QED
  BY <1>9, <1>12

\* The code of the functions.
LEMMA DoneCoded ==
    ASSUME NEW ch, NEW wk, NEW ds, NEW en, NEW dc, NEW ctx, NEW maps, NEW n, NEW g, NEW c, NEW a,
           NEW b, NEW tw, NEW tc, NEW f, NEW d, NEW s, NEW e, NEW hd, NEW es, NEW fn, NEW F, NEW N, NEW naps,
           Done(ch, wk, ds, en, dc, ctx, maps, n, g, c, a, b, tw, tc, f, d, s, e, hd, es, fn, F, N, naps)
    PROVE  Coded(es, hd, dc, naps, tw, tc)
<1>1. /\ Around2(ch, wk, ds, en, dc, ctx, maps, n, g, c, a, b, tw, tc)
      /\ Enclosing(ds, dc, c, maps[n], Pending(wk, ctx, n), b, hd, e, N)
      /\ Less(ch, en, b, n, e, N, es, fn, maps, naps)
  BY DEF Done
<1>2. c = ch[n] /\ Types(ch, wk, ds, en, dc) /\ Good(ch, wk, ds, en, dc, ctx, maps)
  BY DEF Done, Finish
<1>3. /\ n \in Nat /\ n >= 1 /\ Len(ch) = n + 1 /\ ch \in Seq(Comp) /\ DOMAIN ch = 1..n + 1
      /\ c \in Comp /\ Locals(c, dc) /\ tc[1] = b /\ ds \in Seq(Function) /\ dc \in Nat
      /\ \A k : Pending(wk, ctx, k) = Pending(tw, tc, k)
  BY <1>1 DEF Around2
<1>4. /\ Sound(hd, e.f, N, Pending(wk, ctx, n), Late(c, b), dc) /\ Wider(ds, hd)
      /\ e.locals = c.locals /\ e.f.params = c.f.params
  BY <1>1 DEF Enclosing, Coder, Onward
<1>5. /\ Len(es) = n /\ DOMAIN es = 1..n /\ es[n] = e /\ naps[n] = N
      /\ \A k \in 1..n - 1 : es[k] = ch[k] /\ naps[k] = maps[k]
  BY <1>1 DEF Less
<1>6. Coded(ch, ds, dc, maps, wk, ctx)
  BY <1>2 DEF Good
<1>7. ASSUME NEW k \in 1..n
      PROVE  /\ Sound(hd, es[k].f, naps[k], Pending(tw, tc, k),
                      IF k = Len(es) THEN Late(es[k], tc[1]) ELSE Global, dc)
             /\ Locals(es[k], dc)
  <2>1. CASE k = n
    <3>1. Late(e, b) = Late(c, b)
      BY <1>4 DEF Late
    <3>2. Locals(e, dc)
      BY <1>3, <1>4 DEF Locals
    <3>3. Pending(tw, tc, n) = Pending(wk, ctx, n)
      BY <1>3
    <3>4. Sound(hd, e.f, N, Pending(tw, tc, n), Late(e, b), dc)
      BY <3>1, <3>3, <1>4
    <3> QED
      BY <3>2, <3>4, <2>1, <1>3, <1>5
  <2>2. CASE k # n
    <3>1. k \in 1..n - 1 /\ k \in DOMAIN ch /\ k # Len(ch) /\ k # Len(es)
      BY <2>2, <1>3, <1>5
    <3>2. Sound(ds, ch[k].f, maps[k], Pending(wk, ctx, k), Global, dc) /\ Locals(ch[k], dc)
      BY <3>1, <1>6 DEF Coded
    <3>3. ch[k].f \in Function
      BY <3>1, <1>3, CompIs
    <3>4. PICK h, M, P : h = ch[k].f /\ M = maps[k] /\ P = Pending(wk, ctx, k)
      OBVIOUS
    <3>5. Sound(hd, h, M, P, Global, dc)
      <4>1. Sound(ds, h, M, P, Global, dc) /\ h \in Function /\ dc <= dc
        BY <3>2, <3>3, <3>4, <1>3
      <4>2. DOMAIN ds \subseteq DOMAIN hd /\ \A i \in DOMAIN ds : hd[i] = ds[i]
        BY <1>4 DEF Wider
      <4> QED
        BY <4>1, <4>2, <1>3, Tables
    <3>6. Pending(tw, tc, k) = P
      BY <3>4, <1>3
    <3> QED
      BY <3>1, <3>2, <3>4, <3>5, <3>6, <1>5
  <2> QED
    BY <2>1, <2>2
<1> QED
  BY <1>5, <1>7 DEF Coded

LEMMA DoneTraces ==
    ASSUME NEW ch, NEW wk, NEW ds, NEW en, NEW dc, NEW ctx, NEW maps, NEW n, NEW g, NEW c, NEW a,
           NEW b, NEW tw, NEW tc, NEW f, NEW d, NEW s, NEW e, NEW hd, NEW es, NEW fn, NEW F, NEW N, NEW naps,
           Done(ch, wk, ds, en, dc, ctx, maps, n, g, c, a, b, tw, tc, f, d, s, e, hd, es, fn, F, N, naps)
    PROVE  Traces(ch, ds, es, hd)
<1>1. /\ Around2(ch, wk, ds, en, dc, ctx, maps, n, g, c, a, b, tw, tc)
      /\ Enclosing(ds, dc, c, maps[n], Pending(wk, ctx, n), b, hd, e, N)
      /\ Less(ch, en, b, n, e, N, es, fn, maps, naps)
      /\ Compiled(ds, dc, g, f, hd, F)
  BY DEF Done
<1>2. c = ch[n] /\ g = ch[n + 1] /\ Good(ch, wk, ds, en, dc, ctx, maps) /\ hd = Append(ds, f)
  BY DEF Done, Finish
<1>3. /\ n \in Nat /\ n >= 1 /\ DOMAIN ch = 1..n + 1 /\ ds \in Seq(Function) /\ Len(ch) = n + 1
  BY <1>1 DEF Around2
<1>4. Len(ds) \in Nat /\ DOMAIN ds = 1..Len(ds)
  BY <1>3, SeqIs
<1>5. /\ DOMAIN hd = 1..Len(ds) + 1 /\ hd[Len(ds) + 1] = f /\ \A i \in 1..Len(ds) : hd[i] = ds[i]
  BY <1>2, <1>3, <1>4
<1>6. DOMAIN es = 1..n /\ es[n] = e /\ \A k \in 1..n - 1 : es[k] = ch[k]
  BY <1>1 DEF Less
<1>7. Follows(g.f, f) /\ f.upvalues = g.f.upvalues
  BY <1>1 DEF Compiled
<1>8. Follows(c.f, e.f) /\ e.f.upvalues = c.f.upvalues
  <2>1. Onward(c.f, maps[n], e.f, N) /\ e.f.upvalues = c.f.upvalues
    BY <1>1 DEF Enclosing, Coder
  <2>2. n \in DOMAIN ch
    BY <1>3
  <2>3. Coded(ch, ds, dc, maps, wk, ctx)
    BY <1>2 DEF Good
  <2>4. \A m \in c.f.gone : m.at \in Starts(c.f)
    BY <2>2, <2>3, <1>2 DEF Coded, Sound, Dead
  <2> QED
    BY <2>1, <2>4 DEF Onward, Follows
<1>9. \A h : Follows(h, h)
  BY DEF Follows
<1>10. ASSUME NEW q \in Everyone(es, hd)
       PROVE  \E p \in Everyone(ch, ds) : Follows(p, q) /\ q.upvalues = p.upvalues
  <2>1. CASE \E i \in DOMAIN hd : q = hd[i]
    <3>1. PICK i \in 1..Len(ds) + 1 : q = hd[i]
      BY <2>1, <1>5
    <3>2. CASE i = Len(ds) + 1
      <4>1. q = f /\ g.f \in Everyone(ch, ds)
        BY <3>1, <3>2, <1>2, <1>3, <1>5 DEF Everyone
      <4> QED
        BY <4>1, <1>7
    <3>3. CASE i # Len(ds) + 1
      <4>1. i \in 1..Len(ds)
        BY <3>3, <1>4
      <4>2. q \in Everyone(ch, ds)
        BY <4>1, <3>1, <1>4, <1>5 DEF Everyone
      <4> QED
        BY <4>2, <1>9
    <3> QED
      BY <3>2, <3>3
  <2>2. CASE \E k \in DOMAIN es : q = es[k].f
    <3>1. PICK k \in 1..n : q = es[k].f
      BY <2>2, <1>6
    <3>2. CASE k = n
      <4>1. q = e.f /\ c.f \in Everyone(ch, ds)
        BY <3>1, <3>2, <1>2, <1>3, <1>6 DEF Everyone
      <4> QED
        BY <4>1, <1>8
    <3>3. CASE k # n
      <4>1. k \in 1..n - 1 /\ k \in DOMAIN ch
        BY <3>3, <1>3
      <4>2. q \in Everyone(ch, ds)
        BY <4>1, <3>1, <1>6 DEF Everyone
      <4> QED
        BY <4>2, <1>9
    <3> QED
      BY <3>2, <3>3
  <2> QED
    BY <2>1, <2>2 DEF Everyone
<1>11. ASSUME NEW p \in Everyone(ch, ds)
       PROVE  \E q \in Everyone(es, hd) : q.upvalues = p.upvalues
  <2>1. CASE \E i \in DOMAIN ds : p = ds[i]
    <3>1. PICK i \in 1..Len(ds) : p = ds[i]
      BY <2>1, <1>4
    <3>2. i \in DOMAIN hd /\ p = hd[i]
      BY <3>1, <1>4, <1>5
    <3> QED
      BY <3>2 DEF Everyone
  <2>2. CASE \E k \in DOMAIN ch : p = ch[k].f
    <3>1. PICK k \in 1..n + 1 : p = ch[k].f
      BY <2>2, <1>3
    <3>2. CASE k = n + 1
      <4>1. Len(ds) + 1 \in DOMAIN hd /\ hd[Len(ds) + 1] = f /\ f.upvalues = p.upvalues
        BY <3>1, <3>2, <1>2, <1>4, <1>5, <1>7
      <4> QED
        BY <4>1 DEF Everyone
    <3>3. CASE k = n
      <4>1. n \in DOMAIN es /\ es[n] = e /\ e.f.upvalues = p.upvalues
        BY <3>1, <3>3, <1>2, <1>3, <1>6, <1>8
      <4> QED
        BY <4>1 DEF Everyone
    <3>4. CASE k # n /\ k # n + 1
      <4>1. k \in 1..n - 1 /\ k \in DOMAIN es
        BY <3>4, <1>3, <1>6
      <4>2. es[k].f = p
        BY <4>1, <3>1, <1>6
      <4> QED
        BY <4>1, <4>2 DEF Everyone
    <3> QED
      BY <3>2, <3>3, <3>4
  <2> QED
    BY <2>1, <2>2 DEF Everyone
<1> QED
  BY <1>10, <1>11 DEF Traces

LEMMA TracesAkin ==
    ASSUME NEW ch, NEW ds, NEW es, NEW fs, Traces(ch, ds, es, fs)
    PROVE  Akin(ch, ds, es, fs)
  BY DEF Traces, Akin

LEMMA TracesClosed ==
    ASSUME NEW ch, NEW ds, NEW es, NEW fs, Traces(ch, ds, es, fs), Among(ch, es),
           \A p \in Everyone(ch, ds) : Closed(ch, ds, p), NEW q \in Everyone(es, fs)
    PROVE  Closed(es, fs, q)
<1>1. PICK p \in Everyone(ch, ds) : Follows(p, q)
  BY DEF Traces
<1>2. Closed(ch, ds, p) /\ Akin(ch, ds, es, fs)
  BY <1>1, TracesAkin
<1> QED
  BY <1>1, <1>2, ClosedStays

LEMMA DoneTied ==
    ASSUME NEW ch, NEW wk, NEW ds, NEW en, NEW dc, NEW ctx, NEW maps, NEW n, NEW g, NEW c, NEW a,
           NEW b, NEW tw, NEW tc, NEW f, NEW d, NEW s, NEW e, NEW hd, NEW es, NEW fn, NEW F, NEW N, NEW naps,
           Done(ch, wk, ds, en, dc, ctx, maps, n, g, c, a, b, tw, tc, f, d, s, e, hd, es, fn, F, N, naps)
    PROVE  Tied(es, hd, dc)
<1>1. /\ Around2(ch, wk, ds, en, dc, ctx, maps, n, g, c, a, b, tw, tc)
      /\ Enclosing(ds, dc, c, maps[n], Pending(wk, ctx, n), b, hd, e, N)
      /\ Less(ch, en, b, n, e, N, es, fn, maps, naps)
  BY DEF Done
<1>2. c = ch[n] /\ Good(ch, wk, ds, en, dc, ctx, maps)
  BY DEF Done, Finish
<1>3. /\ n \in Nat /\ n >= 1 /\ DOMAIN ch = 1..n + 1 /\ ch \in Seq(Comp)
  BY <1>1 DEF Around2
<1>4. es \in Seq(Comp) /\ Len(es) = n /\ DOMAIN es = 1..n /\ es[n] = e /\ \A k \in 1..n - 1 : es[k] = ch[k]
  BY <1>1 DEF Less
<1>5. Traces(ch, ds, es, hd)
  BY DoneTraces
<1>6. Akin(ch, ds, es, hd)
  BY <1>5, TracesAkin
<1>7. e.locals = c.locals /\ e.f.upvalues = c.f.upvalues
  BY <1>1 DEF Enclosing, Coder
<1>8. \A k \in 1..n : es[k].locals = ch[k].locals /\ es[k].f.upvalues = ch[k].f.upvalues
  BY <1>2, <1>3, <1>4, <1>7
<1>9. \A k \in 1..n : k \in DOMAIN ch /\ ch[k] \in Comp /\ Len(ch[k].locals) \in Nat
  BY <1>3, CompIs
<1>10. Among(ch, es)
  <2>1. DOMAIN es \subseteq DOMAIN ch
    BY <1>4, <1>9
  <2> QED
    BY <2>1, <1>4, <1>8, <1>9 DEF Among
<1>11. Tied(ch, ds, dc)
  BY <1>2 DEF Good
<1>12. Apart(es) /\ Linked(es) /\ Flagged(es, hd, dc)
  <2>1. \A k \in DOMAIN es : /\ es[k].f.upvalues = ch[k].f.upvalues
                             /\ k = Len(es) \/ DOMAIN es[k].locals = DOMAIN ch[k].locals
    BY <1>4, <1>8
  <2>2. Len(es) >= 1
    BY <1>3, <1>4
  <2> QED
    BY <2>1, <2>2, <1>3, <1>4, <1>6, <1>10, <1>11, TiesStay
<1>13. \A q \in Everyone(es, hd) : Closed(es, hd, q)
  <2>1. \A p \in Everyone(ch, ds) : Closed(ch, ds, p)
    BY <1>11 DEF Tied
  <2> QED
    BY <2>1, <1>5, <1>10, TracesClosed
<1> QED
  BY <1>12, <1>13 DEF Tied

\* A function ends.
LEMMA FinishStep ==
    ASSUME NEW ch, NEW wk, NEW ds, NEW en, NEW dc, NEW ctx, NEW maps, NEW n, NEW g, NEW c, NEW a,
           NEW b, NEW tw, NEW tc, NEW f, NEW d, NEW s, NEW e, NEW hd, NEW es, NEW fn,
           Finish(ch, wk, ds, en, dc, ctx, maps, n, g, c, a, b, tw, tc, f, d, s, e, hd, es, fn)
    PROVE  Valid(es, tw, hd, fn, dc) /\ \E F : Compiled(ds, dc, g, f, hd, F)
<1>1. PICK F, N, naps :
         Done(ch, wk, ds, en, dc, ctx, maps, n, g, c, a, b, tw, tc, f, d, s, e, hd, es, fn, F, N, naps)
  BY DoneIs
<1>2. /\ Around2(ch, wk, ds, en, dc, ctx, maps, n, g, c, a, b, tw, tc)
      /\ Enclosing(ds, dc, c, maps[n], Pending(wk, ctx, n), b, hd, e, N)
      /\ Less(ch, en, b, n, e, N, es, fn, maps, naps) /\ Compiled(ds, dc, g, f, hd, F)
      /\ Types(ch, wk, ds, en, dc) /\ c = ch[n]
  BY <1>1 DEF Done, Finish
<1>3. /\ n \in Nat /\ DOMAIN ch = 1..n + 1 /\ Limits(c) /\ tw \in Seq(Item) /\ tc \in Seq(Point)
  BY <1>2 DEF Around2
<1>4. /\ es \in Seq(Comp) /\ Len(es) = n /\ DOMAIN es = 1..n /\ es[n] = e
      /\ \A k \in 1..n - 1 : es[k] = ch[k]
      /\ naps = [k \in 1..n |-> IF k = n THEN N ELSE maps[k]]
      /\ fn \in Seq([Name -> 0..MaxDecl])
  BY <1>2 DEF Less
<1>5. Limits(e) /\ hd \in Seq(Function)
  <2>1. /\ e.locals = c.locals /\ e.scopeDepth = c.scopeDepth /\ e.f.upvalues = c.f.upvalues
        /\ hd \in Seq(Function)
    BY <1>2 DEF Enclosing, Coder
  <2> QED
    BY <2>1, <1>3 DEF Limits
<1>6. Types(es, tw, hd, fn, dc)
  <2>1. \A k \in DOMAIN es : Limits(es[k])
    <3>2. \A k \in DOMAIN ch : Limits(ch[k])
      BY <1>2 DEF Types
    <3>3. \A k \in 1..n - 1 : k \in DOMAIN ch
      BY <1>3
    <3>1. \A k \in 1..n - 1 : k \in DOMAIN ch /\ Limits(ch[k])
      BY <3>2, <3>3
    <3> QED
      BY <3>1, <1>3, <1>4, <1>5
  <2>2. dc \in 0..MaxDecl
    BY <1>2 DEF Types
  <2> QED
    BY <2>1, <2>2, <1>3, <1>4, <1>5 DEF Types
<1>7. DOMAIN naps = DOMAIN es
  BY <1>4
<1>8. Good(es, tw, hd, fn, dc, tc, naps)
  BY <1>1, <1>3, <1>7, DoneLeft, DoneCoded, DoneTied DEF Good
<1> QED
  BY <1>2, <1>6, <1>8 DEF Valid

-----------------------------------------------------------------------------
(* The end of the source.                                                  *)

LEMMA ScriptLast ==
    ASSUME NEW ch, NEW en, NEW maps, NEW wk, NEW ctx, Listed(ch, en, maps, wk, ctx),
           wk[1].k = "endScript"
    PROVE  Len(wk) = 1 /\ ctx[1].level = 1 /\ Settled(ctx[1]) /\ Pending(wk, ctx, 1) = {}
<1>1. PICK m \in Nat : m = Len(wk) /\ m >= 1
  <2>1. Len(wk) \in Nat /\ Len(wk) >= 1
    BY DEF Listed
  <2> QED
    BY <2>1
<1>2. /\ \A i \in 1..m - 1 : Link(ch, en, maps, wk[i], ctx[i], wk[i + 1], ctx[i + 1])
      /\ ctx[m].level = 1 /\ Settled(ctx[m])
  BY <1>1 DEF Listed
<1>3. m = 1
  <2> SUFFICES ASSUME m # 1 PROVE FALSE
    OBVIOUS
  <2>1. 1 \in 1..m - 1
    BY <1>1
  <2>2. Fits(wk[1], ctx[1], wk[1 + 1], ctx[1 + 1])
    BY <2>1, <1>2 DEF Link
  <2> QED
    BY <2>2 DEF Fits
<1>4. Holes(wk[1]) = {}
  BY DEF Holes
<1>5. \A j \in 1..Len(wk) : Holes(wk[j]) = {}
  BY <1>1, <1>3, <1>4
<1> QED
  BY <1>1, <1>2, <1>3, <1>5 DEF Pending

LEMMA OverAt ==
    ASSUME NEW ch, NEW wk, NEW ds, NEW en, NEW dc, NEW ctx, NEW maps, NEW g, NEW f, NEW hd,
           Over(ch, wk, ds, en, dc, ctx, maps, g, f, hd)
    PROVE  \E a : OverIs(ch, wk, ds, dc, ctx, maps, a, g)
<1>1. /\ Types(ch, wk, ds, en, dc) /\ Good(ch, wk, ds, en, dc, ctx, maps) /\ wk[1].k = "endScript"
      /\ g = ch[Len(ch)]
  BY DEF Over
<1>2. /\ ch \in Seq(Comp) /\ ds \in Seq(Function) /\ dc \in Nat /\ DOMAIN ch = 1..Len(ch)
      /\ ctx[1].level = Len(ch) /\ Len(ch) \in DOMAIN ch
      /\ \A k \in DOMAIN ch : ch[k] \in Comp
      /\ Listed(ch, en, maps, wk, ctx)
  BY <1>1, GoodIs
<1>3. ctx[1].level = 1 /\ Settled(ctx[1]) /\ Pending(wk, ctx, 1) = {}
  BY <1>1, <1>2, ScriptLast
<1>4. Len(ch) = 1 /\ DOMAIN ch = {1} /\ g = ch[1] /\ g \in Comp
  BY <1>1, <1>2, <1>3
<1>5. Tied(ch, ds, dc)
  BY <1>1 DEF Good
<1>6. OverIs(ch, wk, ds, dc, ctx, maps, ctx[1], g)
  BY <1>2, <1>3, <1>4, <1>5 DEF OverIs
<1> QED
  BY <1>6

LEMMA OverTraces ==
    ASSUME NEW ch, NEW wk, NEW ds, NEW en, NEW dc, NEW ctx, NEW maps, NEW g, NEW f, NEW hd, NEW a,
           OverIs(ch, wk, ds, dc, ctx, maps, a, g), NEW F, Compiled(ds, dc, g, f, hd, F),
           hd = Append(ds, f)
    PROVE  Traces(ch, ds, <<>>, hd)
<1>1. /\ DOMAIN ch = {1} /\ g = ch[1] /\ ds \in Seq(Function)
  BY DEF OverIs
<1>2. Len(ds) \in Nat /\ DOMAIN ds = 1..Len(ds)
  BY <1>1, SeqIs
<1>3. /\ DOMAIN hd = 1..Len(ds) + 1 /\ hd[Len(ds) + 1] = f /\ \A i \in 1..Len(ds) : hd[i] = ds[i]
  BY <1>1, <1>2
<1>4. Follows(g.f, f) /\ f.upvalues = g.f.upvalues
  BY DEF Compiled
<1>5. \A p : Follows(p, p)
  BY DEF Follows
<1>6. Everyone(<<>>, hd) = { hd[i] : i \in DOMAIN hd }
  BY DEF Everyone
<1>7. Everyone(ch, ds) = { ds[i] : i \in DOMAIN ds } \cup {g.f}
  <2>1. { ch[k].f : k \in DOMAIN ch } = {g.f}
    BY <1>1
  <2> QED
    BY <2>1 DEF Everyone
<1>8. ASSUME NEW q \in Everyone(<<>>, hd)
      PROVE  \E p \in Everyone(ch, ds) : Follows(p, q) /\ q.upvalues = p.upvalues
  <2>1. PICK i \in DOMAIN hd : q = hd[i]
    BY <1>6, <1>8
  <2>2. CASE i = Len(ds) + 1
    BY <2>1, <2>2, <1>3, <1>4, <1>7
  <2>3. CASE i # Len(ds) + 1
    <3>1. i \in DOMAIN ds /\ q = ds[i]
      BY <2>1, <2>3, <1>2, <1>3
    <3>2. q \in Everyone(ch, ds)
      BY <3>1, <1>7
    <3> QED
      BY <3>2, <1>5
  <2> QED
    BY <2>2, <2>3
<1>9. ASSUME NEW p \in Everyone(ch, ds)
      PROVE  \E q \in Everyone(<<>>, hd) : q.upvalues = p.upvalues
  <2>1. CASE p = g.f
    <3>1. Len(ds) + 1 \in DOMAIN hd
      BY <1>2, <1>3
    <3>2. f \in Everyone(<<>>, hd)
      BY <3>1, <1>3, <1>6
    <3> QED
      BY <3>2, <2>1, <1>4
  <2>2. CASE p # g.f
    <3>1. PICK i \in DOMAIN ds : p = ds[i]
      BY <2>2, <1>7, <1>9
    <3>2. i \in DOMAIN hd /\ hd[i] = p
      BY <3>1, <1>2, <1>3
    <3>3. p \in Everyone(<<>>, hd)
      BY <3>2, <1>6
    <3> QED
      BY <3>3
  <2> QED
    BY <2>1, <2>2
<1> QED
  BY <1>8, <1>9 DEF Traces

LEMMA OverStep ==
    ASSUME NEW ch, NEW wk, NEW ds, NEW en, NEW dc, NEW ctx, NEW maps, NEW g, NEW f, NEW hd,
           Over(ch, wk, ds, en, dc, ctx, maps, g, f, hd)
    PROVE  /\ \E F : Compiled(ds, dc, g, f, hd, F)
           /\ \A q \in Everyone(<<>>, hd) : Closed(<<>>, hd, q)
<1>1. PICK a : OverIs(ch, wk, ds, dc, ctx, maps, a, g)
  BY OverAt
<1>2. /\ Len(ch) = 1 /\ DOMAIN ch = {1} /\ g = ch[1] /\ g \in Comp /\ ch \in Seq(Comp)
      /\ ds \in Seq(Function) /\ dc \in Nat /\ a = ctx[1] /\ Settled(a)
      /\ Pending(wk, ctx, 1) = {} /\ Tied(ch, ds, dc)
  BY <1>1 DEF OverIs
<1>3. /\ Types(ch, wk, ds, en, dc) /\ Good(ch, wk, ds, en, dc, ctx, maps)
      /\ g = ch[Len(ch)] /\ f = EndCompiler(g) /\ hd = Append(ds, f)
  BY DEF Over
<1>4. ctx[1].vars = ctx[1].seen
  BY <1>2 DEF Settled
<1>5. Wrote(ds, dc, g, maps[Len(ch)], Pending(wk, ctx, Len(ch)), a.height, SlotsOf(g, a.vars), a.vars)
  BY <1>2, <1>3, <1>4, AtSettled
<1>6. Wrote(ds, dc, g, maps[1], {}, a.height, SlotsOf(g, a.vars), a.vars)
  BY <1>5, <1>2
<1>7. PICK F : Compiled(ds, dc, g, f, hd, F)
  BY <1>6, <1>2, <1>3, EndCompilerIs
<1>8. Traces(ch, ds, <<>>, hd)
  BY <1>1, <1>3, <1>7, OverTraces
<1>9. Among(ch, <<>>)
  BY DEF Among
<1>10. \A p \in Everyone(ch, ds) : Closed(ch, ds, p)
  BY <1>2 DEF Tied
<1> QED
  BY <1>7, <1>8, <1>9, <1>10, TracesClosed
=============================================================================
