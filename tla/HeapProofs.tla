----------------------------- MODULE HeapProofs -----------------------------
(***************************************************************************)
(* The heap of the VM, for any number of addresses and any sizes: what     *)
(* traceReferences marks, then that no collection frees what is used.      *)
(***************************************************************************)
EXTENDS Heap, FiniteSetsExt, SequenceTheorems, FiniteSetTheorems, WellFoundedInduction, TLAPS

-----------------------------------------------------------------------------
(* Numbers. *)

\* A set of numbers has a least one.
LEMMA Least ==
    ASSUME NEW T, T \subseteq Nat, T # {}
    PROVE  \E x \in T : \A y \in T : x <= y
<1> DEFINE R == { p \in Nat \X Nat : p[1] < p[2] }
<1>1. IsWellFoundedOn(R, Nat)
  BY NatLessThanWellFounded, Zenon DEF OpToRel
<1>2. PICK x \in T : \A y \in T : ~ (<<y, x>> \in R)
  BY <1>1, WFMin, Zenon
<1>3. \A y \in T : ~ (y < x)
  BY <1>2
<1> QED
  BY <1>3

\* A set that holds 0, and with a number the next, holds all.
LEMMA Induction ==
    ASSUME NEW S, 0 \in S, \A n \in Nat : n \in S => n + 1 \in S
    PROVE  \A n \in Nat : n \in S
<1> SUFFICES ASSUME NEW n \in Nat, n \notin S  PROVE FALSE
  OBVIOUS
<1> DEFINE T == Nat \ S
<1>1. PICK x \in T : \A y \in T : x <= y
  <2>1. n \in T /\ T \subseteq Nat
    OBVIOUS
  <2> QED
    BY <2>1, Least, Zenon
<1>2. x # 0 /\ x - 1 \in Nat /\ ~ (x <= x - 1) /\ (x - 1) + 1 = x
  BY <1>1
<1>3. x - 1 \in S
  BY <1>1, <1>2
<1> QED
  BY <1>1, <1>2, <1>3

\* f is defined by its value b at 0 and by what step makes of each value.
Iterates(n, b, step, f) ==
    f = [i \in 0..n |-> IF i = 0 THEN b ELSE step[<<i, f[i - 1]>>]]

\* There is such a function.
LEMMA Recursion ==
    ASSUME NEW X, NEW b \in X, NEW step \in [Nat \X X -> X], NEW n \in Nat
    PROVE  \E f \in [0..n -> X] : Iterates(n, b, step, f)
<1> DEFINE Good(m, f) == f[0] = b /\ \A i \in 1..m : f[i] = step[<<i, f[i - 1]>>]
           S == { m \in Nat : \E f \in [0..m -> X] : Good(m, f) }
<1>1. 0 \in S
  <2>1. [i \in 0..0 |-> b] \in [0..0 -> X] /\ Good(0, [i \in 0..0 |-> b])
    OBVIOUS
  <2> QED
    BY <2>1
<1>2. ASSUME NEW m \in Nat, m \in S  PROVE m + 1 \in S
  <2>1. PICK f \in [0..m -> X] : Good(m, f)
    BY <1>2
  <2> DEFINE g == [i \in 0..(m + 1) |-> IF i <= m THEN f[i] ELSE step[<<m + 1, f[m]>>]]
  <2>2. step[<<m + 1, f[m]>>] \in X
    BY <2>1
  <2>3. g \in [0..(m + 1) -> X]
    BY <2>1, <2>2
  <2>4. g[0] = b
    BY <2>1
  <2>5. ASSUME NEW i \in 1..(m + 1)  PROVE g[i] = step[<<i, g[i - 1]>>]
    <3>1. CASE i <= m
      BY <2>1, <3>1
    <3>2. CASE i = m + 1
      BY <2>1, <3>2
    <3> QED
      BY <3>1, <3>2
  <2>6. Good(m + 1, g)
    BY <2>4, <2>5
  <2> HIDE DEF g, Good
  <2>7. \E x \in [0..(m + 1) -> X] : Good(m + 1, x)
    BY <2>3, <2>6
  <2> QED
    BY <2>7
<1> HIDE DEF S
<1>3. n \in S
  BY <1>1, <1>2, Induction
<1>4. PICK f \in [0..n -> X] : Good(n, f)
  BY <1>3 DEF S
<1>5. f = [i \in 0..n |-> IF i = 0 THEN b ELSE step[<<i, f[i - 1]>>]]
  <2> DEFINE g == [i \in 0..n |-> IF i = 0 THEN b ELSE step[<<i, f[i - 1]>>]]
  <2>1. \A i \in 0..n : f[i] = g[i]
    BY <1>4
  <2>2. f = [i \in 0..n |-> f[i]]
    OBVIOUS
  <2> QED
    BY <2>1, <2>2
<1> QED
  BY <1>5 DEF Iterates

-----------------------------------------------------------------------------
(* traceReferences. *)

LEMMA AddressIs == IsFiniteSet(Address) /\ Cardinality(Address) = Addresses
                   /\ Address \subseteq Nat \ {0} /\ Nil \notin Address
<1>1. Addresses \in Nat
  BY HeapConstants
<1>2. Address = 1..Addresses /\ 1 \in Int /\ Addresses \in Int
  BY <1>1 DEF Address
<1>3. IsFiniteSet(1..Addresses) /\ Cardinality(1..Addresses) = Addresses
  BY <1>1, FS_Interval
<1> QED
  BY <1>1, <1>2, <1>3 DEF Nil

\* SetToSeq lists the members of a finite set once each.
LEMMA Listing ==
    ASSUME NEW S, IsFiniteSet(S)
    PROVE  /\ SetToSeq(S) \in Seq(S) /\ Len(SetToSeq(S)) = Cardinality(S)
           /\ \A x \in S : \E i \in 1..Cardinality(S) : SetToSeq(S)[i] = x
           /\ \A i, j \in 1..Cardinality(S) : SetToSeq(S)[i] = SetToSeq(S)[j] => i = j
<1> DEFINE n == Cardinality(S)
           s == SetToSeq(S)
<1>1. n \in Nat /\ ExistsBijection(1..n, S)
  BY FS_CardinalityType
<1>2. PICK f \in [1..n -> S] : IsInjective(f)
  BY <1>1 DEF ExistsBijection, Bijection, Injection
<1>3. s \in [1..n -> S] /\ IsInjective(s)
  BY <1>2 DEF SetToSeq
<1>4. \A i, j \in 1..n : s[i] = s[j] => i = j
  BY <1>3 DEF IsInjective
<1>5. s \in Seq(S) /\ Len(s) = n
  BY <1>1, <1>3
<1>6. \A x \in S : \E i \in 1..n : s[i] = x
  <2>1. IsFiniteSet(1..n) /\ Cardinality(1..n) = n
    BY <1>1, FS_Interval
  <2>2. s \in Injection(1..n, S)
    BY <1>3, <1>4 DEF Injection, IsInjective
  <2>3. s \in Surjection(1..n, S)
    BY <2>1, <2>2, FS_Injection
  <2> QED
    BY <2>3 DEF Surjection
<1> QED
  BY <1>4, <1>5, <1>6

LEMMA Fronts ==
    ASSUME NEW S, NEW s \in Seq(S), s # <<>>
    PROVE  /\ Len(s) \in Nat \ {0} /\ Last(s) = s[Len(s)] /\ Last(s) \in S
           /\ Front(s) \in Seq(S) /\ Len(Front(s)) = Len(s) - 1
           /\ \A k \in 1..(Len(s) - 1) : Front(s)[k] = s[k]
<1> DEFINE n == Len(s)
<1>1. n \in Nat \ {0}
  BY EmptySeq
<1>2. \A k \in 1..n : s[k] \in S
  BY ElementOfSeq
<1>3. 1 \in Int /\ n - 1 \in Int /\ \A k \in 1..(n - 1) : s[k] \in S
  BY <1>1, <1>2
<1>4. /\ SubSeq(s, 1, n - 1) \in Seq(S)
      /\ Len(SubSeq(s, 1, n - 1)) = IF 1 <= n - 1 THEN (n - 1) - 1 + 1 ELSE 0
      /\ \A k \in 1..((n - 1) - 1 + 1) : SubSeq(s, 1, n - 1)[k] = s[1 + k - 1]
  BY <1>3, SubSeqProperties
<1>5. Front(s) = SubSeq(s, 1, n - 1)
  BY DEF Front
<1>6. Last(s) = s[n] /\ n \in 1..n
  BY <1>1 DEF Last
<1> HIDE DEF n
<1>7. Len(Front(s)) = n - 1
  BY <1>1, <1>4, <1>5
<1>8. \A k \in 1..(n - 1) : Front(s)[k] = s[k]
  BY <1>1, <1>4, <1>5
<1> QED
  BY <1>1, <1>2, <1>4, <1>5, <1>6, <1>7, <1>8 DEF n

\* Objects D; gray objects are marked and on the gray stack once.
Stacked(D, t) ==
    /\ t = [gray |-> t.gray, marked |-> t.marked]
    /\ t.gray \in Seq(D) /\ t.marked \subseteq D
    /\ \A i \in 1..Len(t.gray) : t.gray[i] \in t.marked
    /\ \A i, j \in 1..Len(t.gray) : t.gray[i] = t.gray[j] => i = j

Black(t) == { a \in t.marked : \A i \in 1..Len(t.gray) : t.gray[i] # a }

\* markObject blackens nothing.
LEMMA Marks ==
    ASSUME NEW D, IsFiniteSet(D), NEW t, Stacked(D, t), NEW S \in SUBSET D
    PROVE  /\ Stacked(D, MarkObjects(S, t))
           /\ MarkObjects(S, t).marked = t.marked \cup S
           /\ Black(MarkObjects(S, t)) = Black(t)
<1> DEFINE new == S \ t.marked
           s == SetToSeq(new)
           g == t.gray
           u == MarkObjects(S, t)
<1>1. IsFiniteSet(new)
  BY FS_Subset
<1>2. /\ s \in Seq(new) /\ Len(s) = Cardinality(new)
      /\ \A x \in new : \E i \in 1..Len(s) : s[i] = x
      /\ \A i, j \in 1..Len(s) : s[i] = s[j] => i = j
  BY <1>1, Listing
<1> HIDE DEF s
<1>3. s \in Seq(D) /\ g \in Seq(D) /\ Len(s) \in Nat /\ Len(g) \in Nat
  <2>1. new \subseteq D
    OBVIOUS
  <2> HIDE DEF new
  <2>2. s \in Seq(D)
    BY <1>2, <2>1, SeqMonotonic
  <2>3. g \in Seq(D)
    BY DEF Stacked
  <2> HIDE DEF g
  <2> QED
    BY <2>2, <2>3, LenProperties
<1>4. u.gray = g \o s /\ u.marked = t.marked \cup S /\ u = [gray |-> u.gray, marked |-> u.marked]
  BY DEF MarkObjects, s
<1>5. /\ g \o s \in Seq(D) /\ Len(g \o s) = Len(g) + Len(s)
      /\ \A i \in 1..Len(g) : (g \o s)[i] = g[i]
      /\ \A i \in 1..Len(s) : (g \o s)[Len(g) + i] = s[i]
  BY <1>3, ConcatProperties
<1>6. \A i \in 1..Len(s) : s[i] \in new
  BY <1>2, ElementOfSeq
<1>7. /\ \A i \in 1..Len(g) : g[i] \in t.marked
      /\ \A i, j \in 1..Len(g) : g[i] = g[j] => i = j
      /\ t.marked \subseteq D
  BY DEF Stacked
<1> DEFINE z == g \o s
<1>8. \A i \in 1..Len(z) : i \in 1..Len(g) \/ \E k \in 1..Len(s) : i = Len(g) + k
  <2>1. \A i \in 1..Len(z) : i \in 1..Len(g) \/ (i - Len(g) \in 1..Len(s) /\ i = Len(g) + (i - Len(g)))
    BY <1>3, <1>5
  <2> QED
    BY <2>1
<1>9. \A i \in 1..Len(g) : i \in 1..Len(z) /\ z[i] = g[i]
  BY <1>3, <1>5
<1>10. \A i \in 1..Len(s) : Len(g) + i \in 1..Len(z) /\ z[Len(g) + i] = s[i]
  BY <1>3, <1>5
<1>11. z \in Seq(D) /\ u.gray = z
  BY <1>4, <1>5
<1> HIDE DEF z, u
<1>12. \A i \in 1..Len(z) : z[i] \in t.marked \cup S
  BY <1>6, <1>7, <1>8, <1>9, <1>10
<1>13. \A i, j \in 1..Len(z) : z[i] = z[j] => i = j
  <2> SUFFICES ASSUME NEW i \in 1..Len(z), NEW j \in 1..Len(z), z[i] = z[j]  PROVE i = j
    OBVIOUS
  <2>1. CASE i \in 1..Len(g) /\ j \in 1..Len(g)
    BY <1>7, <1>9, <2>1
  <2>2. CASE i \in 1..Len(g) /\ \E k \in 1..Len(s) : j = Len(g) + k
    BY <1>6, <1>7, <1>9, <1>10, <2>2
  <2>3. CASE j \in 1..Len(g) /\ \E k \in 1..Len(s) : i = Len(g) + k
    BY <1>6, <1>7, <1>9, <1>10, <2>3
  <2>4. ASSUME NEW k \in 1..Len(s), NEW l \in 1..Len(s), i = Len(g) + k, j = Len(g) + l
        PROVE  i = j
    <3>1. z[i] = s[k] /\ z[j] = s[l]
      BY <1>10, <2>4, Zenon
    <3>2. k = l
      BY <1>2, <3>1
    <3> QED
      BY <2>4, <3>2
  <2> QED
    BY <1>8, <2>1, <2>2, <2>3, <2>4
<1>14. Stacked(D, u)
  BY <1>4, <1>7, <1>11, <1>12, <1>13 DEF Stacked
<1>15. Black(u) \subseteq Black(t)
  <2> SUFFICES ASSUME NEW a \in Black(u)  PROVE a \in Black(t)
    OBVIOUS
  <2>1. a \in t.marked \cup S /\ \A i \in 1..Len(z) : z[i] # a
    BY <1>4, <1>11 DEF Black
  <2>2. a \notin new
    BY <1>2, <1>10, <2>1
  <2> QED
    BY <1>9, <2>1, <2>2 DEF Black
<1>16. Black(t) \subseteq Black(u)
  <2> SUFFICES ASSUME NEW a \in Black(t)  PROVE a \in Black(u)
    OBVIOUS
  <2>1. a \in t.marked /\ \A i \in 1..Len(g) : g[i] # a
    BY DEF Black
  <2>2. \A i \in 1..Len(z) : z[i] # a
    BY <1>6, <1>8, <1>9, <1>10, <2>1
  <2> QED
    BY <1>4, <1>11, <2>1, <2>2 DEF Black
<1> QED
  BY <1>4, <1>14, <1>15, <1>16 DEF u

\* S is closed: it has the roots and what its members refer to.
Closed(os, R, S) ==
    /\ S \subseteq DOMAIN os /\ R \subseteq S
    /\ \A a \in S : Blackened(os[a]) \cap DOMAIN os \subseteq S

\* traceReferences after i rounds.
Going(os, R, i, t) ==
    /\ Stacked(DOMAIN os, t) /\ R \subseteq t.marked
    /\ \A a \in Black(t) : Blackened(os[a]) \cap DOMAIN os \subseteq t.marked
    /\ \A S : Closed(os, R, S) => t.marked \subseteq S
    /\ t.gray = <<>> \/ Cardinality(Black(t)) >= i

LEMMA Starts ==
    ASSUME NEW os, IsFiniteSet(DOMAIN os), NEW R \in SUBSET DOMAIN os
    PROVE  Going(os, R, 0, MarkObjects(R, [gray |-> <<>>, marked |-> {}]))
<1> DEFINE t == [gray |-> <<>>, marked |-> {}]
           u == MarkObjects(R, t)
<1>1. Stacked(DOMAIN os, t) /\ Black(t) = {}
  BY DEF Stacked, Black
<1>2. Stacked(DOMAIN os, u) /\ u.marked = R /\ Black(u) = {}
  <2>1. t.marked \cup R = R
    OBVIOUS
  <2> HIDE DEF t
  <2> QED
    BY <1>1, <2>1, Marks
<1> HIDE DEF u
<1>3. Cardinality(Black(u)) >= 0
  BY <1>2, FS_EmptySet
<1>4. Going(os, R, 0, u)
  BY <1>2, <1>3 DEF Going, Closed
<1> QED
  BY <1>4 DEF u

LEMMA Round ==
    ASSUME NEW os, IsFiniteSet(DOMAIN os), NEW R \in SUBSET DOMAIN os,
           NEW i \in Nat, NEW t, Going(os, R, i, t)
    PROVE  Going(os, R, i + 1, TraceReferences(os, t))
<1>1. CASE t.gray = <<>>
  BY <1>1 DEF Going, TraceReferences
<1>2. CASE t.gray # <<>>
  <2> DEFINE D == DOMAIN os
             n == Len(t.gray)
             b == t.gray[n]
             p == [t EXCEPT !.gray = Front(@)]
             refs == Blackened(os[b]) \cap D
             u == MarkObjects(refs, p)
  <2>1. /\ t = [gray |-> t.gray, marked |-> t.marked]
        /\ t.gray \in Seq(D) /\ t.marked \subseteq D
        /\ \A k \in 1..n : t.gray[k] \in t.marked
        /\ \A k, l \in 1..n : t.gray[k] = t.gray[l] => k = l
    BY DEF Going, Stacked
  <2>2. n \in Nat \ {0} /\ b \in t.marked
    <3>1. n \in Nat \ {0}
      BY <1>2, <2>1, EmptySeq
    <3>2. n \in 1..n
      BY <3>1
    <3> QED
      BY <2>1, <3>1, <3>2
  <2>3. p = [gray |-> Front(t.gray), marked |-> t.marked]
    BY <2>1
  <2>4. /\ Front(t.gray) \in Seq(D) /\ Len(Front(t.gray)) = n - 1
        /\ \A k \in 1..(n - 1) : Front(t.gray)[k] = t.gray[k]
    BY <1>2, <2>1, Fronts
  <2> DEFINE g == Front(t.gray)
  <2>5. p.gray = g /\ p.marked = t.marked
    BY <2>3
  <2>6. Stacked(D, p)
    BY <2>1, <2>2, <2>3, <2>4, <2>5 DEF Stacked
  <2>7. Black(p) = Black(t) \cup {b}
    <3>1. \A k \in 1..n : k \in 1..(n - 1) \/ k = n
      BY <2>2
    <3>2. \A k \in 1..(n - 1) : k \in 1..n /\ k # n
      BY <2>2
    <3>3. n \in 1..n
      BY <2>2
    <3> QED
      BY <2>1, <2>2, <2>4, <2>5, <3>1, <3>2, <3>3 DEF Black
  <2>8. b \notin Black(t)
    BY <2>2 DEF Black
  <2>9. refs \in SUBSET D
    OBVIOUS
  <2>10. Stacked(D, u) /\ u.marked = t.marked \cup refs /\ Black(u) = Black(t) \cup {b}
    <3> HIDE DEF p
    <3> QED
      BY <2>5, <2>6, <2>7, <2>9, Marks
  <2>11. TraceReferences(os, t) = u
    BY <1>2 DEF TraceReferences, Last
  <2> HIDE DEF u
  <2>12. Cardinality(Black(u)) >= i + 1
    <3>1. Black(t) \in SUBSET D /\ IsFiniteSet(Black(t))
      BY <2>1, FS_Subset DEF Black
    <3>2. Cardinality(Black(u)) = Cardinality(Black(t)) + 1
      BY <2>8, <2>10, <3>1, FS_AddElement
    <3>3. Cardinality(Black(t)) >= i /\ Cardinality(Black(t)) \in Nat
      BY <1>2, <3>1, FS_CardinalityType DEF Going
    <3> QED
      BY <3>2, <3>3
  <2>13. \A a \in Black(u) : Blackened(os[a]) \cap D \subseteq u.marked
    BY <2>10 DEF Going
  <2>14. ASSUME NEW S, Closed(os, R, S)  PROVE u.marked \subseteq S
    <3>1. t.marked \subseteq S
      BY <2>14 DEF Going
    <3>2. refs \subseteq S
      BY <2>2, <2>14, <3>1 DEF Closed
    <3> QED
      BY <2>10, <3>1, <3>2
  <2>15. R \subseteq u.marked
    BY <2>10 DEF Going
  <2> QED
    BY <2>10, <2>11, <2>12, <2>13, <2>14, <2>15 DEF Going
<1> QED
  BY <1>1, <1>2

\* As many rounds as there are objects leave none gray.
LEMMA Ends ==
    ASSUME NEW os, IsFiniteSet(DOMAIN os), NEW R \in SUBSET DOMAIN os,
           NEW t, Going(os, R, Cardinality(DOMAIN os), t)
    PROVE  Closed(os, R, t.marked)
<1> DEFINE D == DOMAIN os
<1>1. t.gray = <<>>
  <2> SUFFICES ASSUME t.gray # <<>>  PROVE FALSE
    OBVIOUS
  <2>1. t.gray \in Seq(D) /\ \A i \in 1..Len(t.gray) : t.gray[i] \in t.marked
    BY DEF Going, Stacked
  <2>2. Len(t.gray) \in Nat \ {0}
    BY <2>1, EmptySeq
  <2>3. 1 \in 1..Len(t.gray)
    BY <2>2
  <2>4. t.gray[1] \in D /\ t.gray[1] \notin Black(t) /\ Black(t) \in SUBSET D
    BY <2>1, <2>3 DEF Going, Stacked, Black
  <2>5. /\ Cardinality(D \ {t.gray[1]}) = Cardinality(D) - 1
        /\ IsFiniteSet(D \ {t.gray[1]})
    BY <2>4, FS_RemoveElement
  <2>6. Black(t) \in SUBSET (D \ {t.gray[1]})
    BY <2>4
  <2>7. Cardinality(Black(t)) <= Cardinality(D) - 1
    BY <2>5, <2>6, FS_Subset
  <2>8. Cardinality(Black(t)) \in Nat /\ Cardinality(D) \in Nat
    BY <2>4, FS_Subset, FS_CardinalityType
  <2>9. Cardinality(Black(t)) >= Cardinality(D)
    BY DEF Going
  <2> QED
    BY <2>7, <2>8, <2>9
<1>2. Black(t) = t.marked
  BY <1>1 DEF Black
<1> QED
  BY <1>2 DEF Going, Closed, Stacked

\* What a collection marks is closed, and in every closed set.
LEMMA MarkedIs ==
    ASSUME NEW os, IsFiniteSet(DOMAIN os), NEW v, NEW cs
    PROVE  LET R == Roots(v, cs) \cap DOMAIN os
           IN  /\ Closed(os, R, Marked(os, v, cs))
               /\ \A S : Closed(os, R, S) => Marked(os, v, cs) \subseteq S
<1> DEFINE D == DOMAIN os
           R == Roots(v, cs) \cap D
           n == Cardinality(D)
           b == MarkObjects(R, [gray |-> <<>>, marked |-> {}])
           X == { t \in [gray : Seq(D), marked : SUBSET D] : \E i \in Nat : Going(os, R, i, t) }
           step == [p \in Nat \X X |-> TraceReferences(os, p[2])]
           Is(f) == f = [i \in 0..n |-> IF i = 0 THEN b ELSE TraceReferences(os, f[i - 1])]
           traced == CHOOSE f : Is(f)
<1>1. n \in Nat
  BY FS_CardinalityType
<1>2. Marked(os, v, cs) = traced[n].marked
  BY DEF Marked
<1>3. R \in SUBSET D
  OBVIOUS
<1> HIDE DEF R
<1>4. Going(os, R, 0, b)
  BY <1>3, Starts
<1> HIDE DEF b
<1>5. \A i, t : Going(os, R, i, t) => t \in [gray : Seq(D), marked : SUBSET D]
  BY DEF Going, Stacked
<1>6. b \in X
  BY <1>4, <1>5
<1>7. \A t \in X : TraceReferences(os, t) \in X
  <2> SUFFICES ASSUME NEW t \in X  PROVE TraceReferences(os, t) \in X
    OBVIOUS
  <2>1. PICK i \in Nat : Going(os, R, i, t)
    OBVIOUS
  <2>2. i + 1 \in Nat /\ Going(os, R, i + 1, TraceReferences(os, t))
    BY <1>3, <2>1, Round
  <2> QED
    BY <1>5, <2>2
<1> HIDE DEF X
<1>8. step \in [Nat \X X -> X]
  BY <1>7
<1> HIDE DEF step
<1>9. PICK f \in [0..n -> X] : Iterates(n, b, step, f)
  BY <1>1, <1>6, <1>8, Recursion
<1>10. Is(f)
  <2>1. \A i \in 1..n : i \in Nat /\ i - 1 \in 0..n
    BY <1>1
  <2>2. \A i \in 1..n : step[<<i, f[i - 1]>>] = TraceReferences(os, f[i - 1])
    BY <2>1 DEF step
  <2>3. f = [i \in 0..n |-> IF i = 0 THEN b ELSE step[<<i, f[i - 1]>>]]
    BY <1>9 DEF Iterates
  <2>4. \A i \in 0..n : (IF i = 0 THEN b ELSE step[<<i, f[i - 1]>>])
                          = (IF i = 0 THEN b ELSE TraceReferences(os, f[i - 1]))
    BY <1>1, <2>2
  <2> HIDE DEF traced
  <2> QED
    BY <2>3, <2>4
<1>11. Is(traced)
  BY <1>10, Zenon
<1> HIDE DEF traced
<1>12. traced[0] = b /\ \A i \in 1..n : traced[i] = TraceReferences(os, traced[i - 1])
  <2>1. \A i \in 0..n : traced[i] = IF i = 0 THEN b ELSE TraceReferences(os, traced[i - 1])
    BY <1>11, Zenon
  <2>2. 0 \in 0..n /\ \A i \in 1..n : i \in 0..n /\ i # 0
    BY <1>1
  <2> QED
    BY <2>1, <2>2, Zenon
<1> HIDE DEF Is
<1> DEFINE S == { i \in Nat : i <= n => Going(os, R, i, traced[i]) }
<1>13. 0 \in S
  BY <1>4, <1>12
<1>14. ASSUME NEW i \in Nat, i \in S  PROVE i + 1 \in S
  <2> SUFFICES ASSUME i + 1 <= n  PROVE Going(os, R, i + 1, traced[i + 1])
    OBVIOUS
  <2>1. Going(os, R, i, traced[i])
    BY <1>1, <1>14
  <2>2. i + 1 \in 1..n /\ (i + 1) - 1 = i
    BY <1>1
  <2>3. traced[i + 1] = TraceReferences(os, traced[i])
    BY <1>12, <2>2
  <2> QED
    BY <1>3, <2>1, <2>3, Round
<1> HIDE DEF S
<1>15. n \in S
  BY <1>1, <1>13, <1>14, Induction
<1>16. Going(os, R, n, traced[n])
  BY <1>1, <1>15 DEF S
<1>17. Closed(os, R, traced[n].marked)
  BY <1>3, <1>16, Ends
<1>18. \A U : Closed(os, R, U) => traced[n].marked \subseteq U
  BY <1>16 DEF Going
<1> QED
  BY <1>2, <1>17, <1>18 DEF R

-----------------------------------------------------------------------------
(* The invariant. *)

\* The objects of a type.
Of(os, type) == { a \in DOMAIN os : os[a].type = type }

Object ==
    [type : {"function"}, constants : Seq(Address), upvalueCount : Nat]
    \cup [type : {"closure"}, function : Address, upvalues : Seq(Value)]
    \cup [type : {"upvalue"}, location : 0..StackMax, closed : Value]

Typed(os) ==
    /\ DOMAIN os \subseteq Address
    /\ os = [a \in DOMAIN os |-> os[a]]
    /\ \A a \in DOMAIN os : os[a] \in Object

\* What an object refers to exists and has the type that it is taken for.
Refers(os, o) ==
    /\ o.type = "function" =>
           \A i \in 1..Len(o.constants) : o.constants[i] \in Of(os, "function")
    /\ o.type = "closure" =>
           /\ o.function \in Of(os, "function")
           /\ Len(o.upvalues) = os[o.function].upvalueCount
           /\ \A i \in 1..Len(o.upvalues) : o.upvalues[i] \in Of(os, "upvalue") \cup {Nil}
    /\ o.type = "upvalue" => o.closed \in Of(os, "closure") \cup {Nil}

Sane(os) == Typed(os) /\ \A a \in DOMAIN os : Refers(os, os[a])

Frame == [closure : Address, slots : 1..StackMax]

Machine == [stack : [1..StackMax -> Value], top : 0..StackMax, frames : Seq(Frame),
            open : Seq(Address), global : Value]

\* Each frame begins on the stack, and not below the one that called it.
Framed(v) ==
    /\ \A i \in 1..Len(v.frames) : v.frames[i].slots <= v.top
    /\ \A i, j \in 1..Len(v.frames) : i <= j => v.frames[i].slots <= v.frames[j].slots

Chain(cs) == cs \in Seq(Address) /\ Len(cs) <= Nesting

\* The roots exist and have their types.  A script has no upvalues.
Rooted(os, v, cs) ==
    /\ \A i \in 1..v.top : v.stack[i] \in Of(os, "closure") \cup {Nil}
    /\ v.global \in Of(os, "closure") \cup {Nil}
    /\ \A i \in 1..Len(v.frames) : v.frames[i].closure \in Of(os, "closure")
    /\ \A i \in 1..Len(v.open) : v.open[i] \in Of(os, "upvalue")
    /\ \A i \in 1..Len(cs) : cs[i] \in Of(os, "function")
    /\ cs # <<>> => os[cs[1]].upvalueCount = 0

Unfinished(os) == { a \in Of(os, "closure") : Nil \in ToSet(os[a].upvalues) }

\* The only closure without some of its upvalues is the one that OP_CLOSURE
\* has just put on the stack.
OneUnfinished(os, v) ==
    \A a \in Unfinished(os) : v.frames # <<>> /\ v.top > 0 /\ a = Peek(v)

Inv(os, v, cs, run, str) ==
    /\ Typed(os) /\ v \in Machine /\ Framed(v) /\ Chain(cs)
    /\ run \in BOOLEAN /\ str \in BOOLEAN
    /\ OneUnfinished(os, v)
    /\ str => v.frames # <<>> /\ Unfinished(os) = {}
    /\ ~ str => Sane(os) /\ Rooted(os, v, cs)

IInv == Inv(objects, vm, compilers, running, stray)

LEMMA ObjectIs ==
    ASSUME NEW o \in Object
    PROVE  \/ /\ o.type = "function" /\ o.constants \in Seq(Address) /\ o.upvalueCount \in Nat
              /\ o \in [type : {"function"}, constants : Seq(Address), upvalueCount : Nat]
           \/ /\ o.type = "closure" /\ o.function \in Address /\ o.upvalues \in Seq(Value)
              /\ o \in [type : {"closure"}, function : Address, upvalues : Seq(Value)]
           \/ /\ o.type = "upvalue" /\ o.location \in 0..StackMax /\ o.closed \in Value
              /\ o \in [type : {"upvalue"}, location : 0..StackMax, closed : Value]
<1>1. CASE o \in [type : {"function"}, constants : Seq(Address), upvalueCount : Nat]
  BY <1>1
<1>2. CASE o \in [type : {"closure"}, function : Address, upvalues : Seq(Value)]
  BY <1>2
<1>3. CASE o \in [type : {"upvalue"}, location : 0..StackMax, closed : Value]
  BY <1>3
<1> QED
  BY <1>1, <1>2, <1>3 DEF Object

\* The members of a sequence.
LEMMA Members ==
    ASSUME NEW S, NEW s \in Seq(S)
    PROVE  /\ ToSet(s) = { s[i] : i \in 1..Len(s) } /\ ToSet(s) \subseteq S
           /\ Len(s) \in Nat /\ \A i \in 1..Len(s) : s[i] \in S
<1>1. DOMAIN s = 1..Len(s) /\ Len(s) \in Nat /\ \A i \in 1..Len(s) : s[i] \in S
  BY LenProperties, ElementOfSeq
<1> QED
  BY <1>1 DEF ToSet

\* What blackenObject marks exists, in a sane heap.
LEMMA BlackenedIs ==
    ASSUME NEW o \in Object
    PROVE  /\ o.type = "function" => Blackened(o) = { o.constants[i] : i \in 1..Len(o.constants) }
           /\ o.type = "closure" =>
                Blackened(o) = ({o.function} \cup { o.upvalues[i] : i \in 1..Len(o.upvalues) }) \ {Nil}
           /\ o.type = "upvalue" => Blackened(o) = {o.closed} \ {Nil}
           /\ Blackened(o) = References(o)
<1>1. CASE o.type = "function"
  <2>1. o.constants \in Seq(Address)
    BY <1>1, ObjectIs
  <2>2. ToSet(o.constants) = { o.constants[i] : i \in 1..Len(o.constants) }
        /\ ToSet(o.constants) \subseteq Address
    BY <2>1, Members
  <2>3. Blackened(o) = ToSet(o.constants) \ {Nil} /\ References(o) = ToSet(o.constants) \ {Nil}
    BY <1>1 DEF Blackened, References
  <2> QED
    BY <1>1, <2>2, <2>3, AddressIs
<1>2. CASE o.type = "closure"
  <2>1. o.upvalues \in Seq(Value)
    BY <1>2, ObjectIs
  <2>2. ToSet(o.upvalues) = { o.upvalues[i] : i \in 1..Len(o.upvalues) }
    BY <2>1, Members
  <2>3. /\ Blackened(o) = ({o.function} \cup ToSet(o.upvalues)) \ {Nil}
        /\ References(o) = (ToSet(o.upvalues) \cup {o.function}) \ {Nil}
    BY <1>2 DEF Blackened, References
  <2> QED
    BY <1>2, <2>2, <2>3
<1>3. CASE o.type = "upvalue"
  BY <1>3 DEF Blackened, References
<1> QED
  BY <1>1, <1>2, <1>3, ObjectIs

LEMMA SaneBlackened ==
    ASSUME NEW os, Sane(os), NEW a \in DOMAIN os
    PROVE  Blackened(os[a]) \subseteq DOMAIN os
<1> DEFINE o == os[a]
<1>1. o \in Object /\ Refers(os, o)
  BY DEF Sane, Typed
<1> SUFFICES Blackened(o) \subseteq DOMAIN os
  OBVIOUS
<1> HIDE DEF o
<1>2. \A type : Of(os, type) \subseteq DOMAIN os
  BY DEF Of
<1>3. CASE o.type = "function"
  BY <1>1, <1>2, <1>3, BlackenedIs DEF Refers
<1>4. CASE o.type = "closure"
  BY <1>1, <1>2, <1>4, BlackenedIs DEF Refers
<1>5. CASE o.type = "upvalue"
  BY <1>1, <1>2, <1>5, BlackenedIs DEF Refers
<1> QED
  BY <1>1, <1>3, <1>4, <1>5, ObjectIs

\* What Refers and Rooted say depends on the objects of each type and on how
\* many upvalues each function has.
Extends(os, more) ==
    /\ \A type : Of(os, type) \subseteq Of(more, type)
    /\ \A a \in Of(os, "function") : more[a].upvalueCount = os[a].upvalueCount

LEMMA RefersOn ==
    ASSUME NEW os, NEW more, Extends(os, more), NEW o, Refers(os, o)
    PROVE  Refers(more, o)
<1>1. /\ Of(os, "function") \subseteq Of(more, "function")
      /\ Of(os, "closure") \subseteq Of(more, "closure")
      /\ Of(os, "upvalue") \subseteq Of(more, "upvalue")
  BY DEF Extends
<1>2. o.type = "function" =>
           \A i \in 1..Len(o.constants) : o.constants[i] \in Of(more, "function")
  BY <1>1 DEF Refers
<1>3. o.type = "closure" =>
           /\ o.function \in Of(more, "function")
           /\ Len(o.upvalues) = more[o.function].upvalueCount
           /\ \A i \in 1..Len(o.upvalues) : o.upvalues[i] \in Of(more, "upvalue") \cup {Nil}
  BY <1>1 DEF Refers, Extends
<1>4. o.type = "upvalue" => o.closed \in Of(more, "closure") \cup {Nil}
  BY <1>1 DEF Refers
<1> QED
  BY <1>2, <1>3, <1>4 DEF Refers

LEMMA RootedOn ==
    ASSUME NEW os, NEW more, Extends(os, more), NEW v, NEW cs \in Seq(Address),
           Rooted(os, v, cs)
    PROVE  Rooted(more, v, cs)
<1>1. /\ Of(os, "function") \subseteq Of(more, "function")
      /\ Of(os, "closure") \subseteq Of(more, "closure")
      /\ Of(os, "upvalue") \subseteq Of(more, "upvalue")
  BY DEF Extends
<1>2. cs # <<>> => more[cs[1]].upvalueCount = os[cs[1]].upvalueCount
  <2>1. cs # <<>> => 1 \in 1..Len(cs)
    BY EmptySeq
  <2> QED
    BY <2>1 DEF Rooted, Extends
<1> QED
  BY <1>1, <1>2 DEF Rooted

\* less is what a collection leaves of os.
Shrinks(os, less) ==
    /\ DOMAIN less \subseteq DOMAIN os
    /\ less = [a \in DOMAIN less |-> os[a]]
    /\ \A a \in DOMAIN less : Blackened(os[a]) \subseteq DOMAIN less

LEMMA SaneLess ==
    ASSUME NEW os, Sane(os), NEW less, Shrinks(os, less)
    PROVE  /\ Sane(less)
           /\ \A type : Of(less, type) = Of(os, type) \cap DOMAIN less
           /\ Unfinished(less) \subseteq Unfinished(os)
<1>1. \A a \in DOMAIN less : a \in DOMAIN os /\ less[a] = os[a] /\ os[a] \in Object
  BY DEF Shrinks, Sane, Typed
<1>2. \A type : Of(less, type) = Of(os, type) \cap DOMAIN less
  BY <1>1 DEF Of
<1>3. Typed(less)
  BY <1>1 DEF Shrinks, Sane, Typed
<1>4. ASSUME NEW a \in DOMAIN less  PROVE Refers(less, less[a])
  <2> DEFINE o == os[a]
  <2>1. less[a] = o /\ o \in Object /\ Refers(os, o) /\ Blackened(o) \subseteq DOMAIN less
    BY <1>1 DEF Sane, Shrinks
  <2> HIDE DEF o
  <2>2. /\ Of(less, "function") = Of(os, "function") \cap DOMAIN less
        /\ Of(less, "closure") = Of(os, "closure") \cap DOMAIN less
        /\ Of(less, "upvalue") = Of(os, "upvalue") \cap DOMAIN less
    BY <1>2
  <2>3. \A f \in Of(less, "function") : less[f] = os[f]
    BY <1>1 DEF Of
  <2>4. CASE o.type = "function"
    <3>1. \A i \in 1..Len(o.constants) : o.constants[i] \in DOMAIN less
      BY <2>1, <2>4, BlackenedIs
    <3> QED
      BY <2>1, <2>2, <2>4, <3>1 DEF Refers
  <2>5. CASE o.type = "closure"
    <3>1. \A i \in 1..Len(o.upvalues) : o.upvalues[i] \in DOMAIN less \cup {Nil}
      BY <2>1, <2>5, BlackenedIs
    <3>2. o.function # Nil
      BY <2>1, <2>5, ObjectIs, AddressIs
    <3>3. o.function \in DOMAIN less
      BY <2>1, <2>5, <3>2, BlackenedIs
    <3> QED
      BY <2>1, <2>2, <2>3, <2>5, <3>1, <3>3 DEF Refers
  <2>6. CASE o.type = "upvalue"
    <3>1. o.closed \in DOMAIN less \cup {Nil}
      BY <2>1, <2>6, BlackenedIs
    <3> QED
      BY <2>1, <2>2, <2>6, <3>1 DEF Refers
  <2> QED
    BY <2>1, <2>4, <2>5, <2>6, ObjectIs
<1>5. Unfinished(less) \subseteq Unfinished(os)
  BY <1>1, <1>2 DEF Unfinished, Of
<1> QED
  BY <1>2, <1>3, <1>4, <1>5 DEF Sane

\* The roots.
LEMMA RootsAre ==
    ASSUME NEW v \in Machine, NEW cs \in Seq(Address)
    PROVE  Roots(v, cs) = ({ v.stack[i] : i \in 1..v.top }
                           \cup { v.frames[i].closure : i \in 1..Len(v.frames) }
                           \cup { v.open[i] : i \in 1..Len(v.open) } \cup {v.global}
                           \cup { cs[i] : i \in 1..Len(cs) }) \ {Nil}
<1>1. v.frames \in Seq(Frame) /\ v.open \in Seq(Address)
  BY DEF Machine
<1>2. /\ ToSet(v.frames) = { v.frames[i] : i \in 1..Len(v.frames) }
      /\ ToSet(v.open) = { v.open[i] : i \in 1..Len(v.open) }
      /\ ToSet(cs) = { cs[i] : i \in 1..Len(cs) }
  BY <1>1, Members
<1>3. { f.closure : f \in ToSet(v.frames) } = { v.frames[i].closure : i \in 1..Len(v.frames) }
  BY <1>2
<1> QED
  BY <1>2, <1>3 DEF Roots

LEMMA RootsExist ==
    ASSUME NEW os, NEW v \in Machine, NEW cs \in Seq(Address), Rooted(os, v, cs)
    PROVE  Roots(v, cs) \subseteq DOMAIN os
<1>1. /\ Of(os, "function") \subseteq DOMAIN os
      /\ Of(os, "closure") \subseteq DOMAIN os
      /\ Of(os, "upvalue") \subseteq DOMAIN os
  BY DEF Of
<1> QED
  BY <1>1, RootsAre DEF Rooted

\* A collection that keeps the roots keeps their types.
LEMMA RootedLess ==
    ASSUME NEW os, Sane(os), NEW less, Shrinks(os, less),
           NEW v \in Machine, NEW cs \in Seq(Address), Rooted(os, v, cs),
           Roots(v, cs) \subseteq DOMAIN less
    PROVE  Rooted(less, v, cs)
<1>1. /\ Of(less, "function") = Of(os, "function") \cap DOMAIN less
      /\ Of(less, "closure") = Of(os, "closure") \cap DOMAIN less
      /\ Of(less, "upvalue") = Of(os, "upvalue") \cap DOMAIN less
  BY SaneLess
<1>2. \A type : Of(os, type) \subseteq DOMAIN os /\ Nil \notin DOMAIN os
  BY AddressIs DEF Of, Sane, Typed
<1>3. \A i \in 1..v.top : v.stack[i] \in DOMAIN less \cup {Nil}
  BY RootsAre
<1>4. v.global \in DOMAIN less \cup {Nil}
  BY RootsAre
<1>5. \A i \in 1..Len(v.frames) : v.frames[i].closure \in DOMAIN less
  <2>1. \A i \in 1..Len(v.frames) : v.frames[i].closure # Nil
    BY <1>2 DEF Rooted
  <2> QED
    BY <2>1, RootsAre
<1>6. \A i \in 1..Len(v.open) : v.open[i] \in DOMAIN less
  <2>1. \A i \in 1..Len(v.open) : v.open[i] # Nil
    BY <1>2 DEF Rooted
  <2> QED
    BY <2>1, RootsAre
<1>7. \A i \in 1..Len(cs) : cs[i] \in DOMAIN less
  <2>1. \A i \in 1..Len(cs) : cs[i] # Nil
    BY <1>2 DEF Rooted
  <2> QED
    BY <2>1, RootsAre
<1>8. cs # <<>> => less[cs[1]] = os[cs[1]]
  <2>1. cs # <<>> => 1 \in 1..Len(cs)
    BY EmptySeq
  <2> QED
    BY <1>7, <2>1 DEF Shrinks
<1> QED
  BY <1>1, <1>3, <1>4, <1>5, <1>6, <1>7, <1>8 DEF Rooted

LEMMA Reallocates ==
    ASSUME NEW os, Sane(os), NEW v, NEW cs, Roots(v, cs) \subseteq DOMAIN os,
           NEW less \in Reallocate(os, v, cs)
    PROVE  Shrinks(os, less) /\ Roots(v, cs) \subseteq DOMAIN less
<1>1. os = [a \in DOMAIN os |-> os[a]] /\ DOMAIN os \subseteq Address
  BY DEF Sane, Typed
<1>2. CASE less = os
  BY <1>1, <1>2, SaneBlackened DEF Shrinks
<1>3. CASE less = Collected(os, v, cs)
  <2> DEFINE R == Roots(v, cs) \cap DOMAIN os
             M == Marked(os, v, cs)
  <2>1. IsFiniteSet(DOMAIN os)
    BY <1>1, AddressIs, FS_Subset
  <2>2. Closed(os, R, M)
    BY <2>1, MarkedIs
  <2>3. less = [a \in M |-> os[a]] /\ DOMAIN less = M
    BY <1>3 DEF Collected
  <2>4. R = Roots(v, cs)
    OBVIOUS
  <2>5. \A a \in M : a \in DOMAIN os /\ Blackened(os[a]) \subseteq DOMAIN os
    BY <2>2, SaneBlackened DEF Closed
  <2> QED
    BY <2>2, <2>3, <2>4, <2>5 DEF Closed, Shrinks
<1> QED
  BY <1>2, <1>3 DEF Reallocate

\* allocateObject.
LEMMA Allocates ==
    ASSUME NEW os, Typed(os), Room(os), NEW o \in Object
    PROVE  LET a == NewAddress(os)
               more == Allocate(os, o)
           IN  /\ a \in Address /\ a \notin DOMAIN os
               /\ DOMAIN more = DOMAIN os \cup {a} /\ more[a] = o
               /\ \A b \in DOMAIN os : more[b] = os[b]
               /\ Typed(more) /\ Extends(os, more)
               /\ \A type : Of(more, type) \subseteq Of(os, type) \cup {a}
               /\ Unfinished(more) \subseteq Unfinished(os) \cup {a}
<1> DEFINE a == NewAddress(os)
           more == Allocate(os, o)
           free == Address \ DOMAIN os
<1>1. free # {} /\ free \subseteq Nat
  BY AddressIs DEF Room, Typed
<1>2. PICK x \in free : \A y \in free : x <= y
  BY <1>1, Least
<1>3. a \in Address /\ a \notin DOMAIN os
  <2>1. \E b \in free : \A y \in free : b <= y
    BY <1>2
  <2> QED
    BY <2>1 DEF NewAddress
<1>4. more = [b \in DOMAIN os \cup {a} |-> IF b \in DOMAIN os THEN os[b] ELSE o]
  BY DEF Allocate
<1> HIDE DEF a, more
<1>5. DOMAIN more = DOMAIN os \cup {a} /\ more[a] = o /\ \A b \in DOMAIN os : more[b] = os[b]
  BY <1>3, <1>4
<1>6. Typed(more)
  <2>1. more = [b \in DOMAIN more |-> more[b]]
    BY <1>4
  <2>2. \A b \in DOMAIN more : more[b] \in Object
    BY <1>5 DEF Typed
  <2>3. DOMAIN more \subseteq Address
    BY <1>3, <1>5 DEF Typed
  <2> QED
    BY <2>1, <2>2, <2>3 DEF Typed
<1>7. Extends(os, more)
  BY <1>5 DEF Extends, Of
<1>8. \A type : Of(more, type) \subseteq Of(os, type) \cup {a}
  BY <1>5 DEF Of
<1>9. Unfinished(more) \subseteq Unfinished(os) \cup {a}
  BY <1>5 DEF Unfinished, Of
<1> QED
  BY <1>3, <1>5, <1>6, <1>7, <1>8, <1>9 DEF a, more

LEMMA SaneMore ==
    ASSUME NEW os, Sane(os), Room(os), NEW o \in Object, Refers(os, o)
    PROVE  Sane(Allocate(os, o))
<1> DEFINE a == NewAddress(os)
           more == Allocate(os, o)
<1>1. /\ DOMAIN more = DOMAIN os \cup {a} /\ more[a] = o
      /\ \A b \in DOMAIN os : more[b] = os[b]
      /\ Typed(more) /\ Extends(os, more)
  BY Allocates DEF Sane
<1> HIDE DEF more, a
<1>2. \A b \in DOMAIN more : Refers(os, more[b])
  BY <1>1 DEF Sane
<1>3. \A b \in DOMAIN more : Refers(more, more[b])
  BY <1>1, <1>2, RefersOn
<1> QED
  BY <1>1, <1>3 DEF Sane, more

\* Objects that change keep their types.
LEMMA Updates ==
    ASSUME NEW os, Sane(os), NEW new, DOMAIN new = DOMAIN os,
           new = [a \in DOMAIN new |-> new[a]],
           \A a \in DOMAIN os :
               /\ new[a] \in Object /\ new[a].type = os[a].type /\ Refers(os, new[a])
               /\ os[a].type = "function" => new[a].upvalueCount = os[a].upvalueCount
    PROVE  /\ Extends(os, new) /\ Sane(new)
           /\ \A type : Of(new, type) = Of(os, type)
<1>1. \A type : Of(new, type) = Of(os, type)
  BY DEF Of
<1>2. Extends(os, new)
  BY <1>1 DEF Extends, Of
<1>3. Typed(new)
  BY DEF Sane, Typed
<1> QED
  BY <1>1, <1>2, <1>3, RefersOn DEF Sane

-----------------------------------------------------------------------------
(* The stack. *)

LEMMA Pushes ==
    ASSUME NEW v \in Machine, v.top < StackMax, NEW x \in Value
    PROVE  /\ Push(v, x) \in Machine /\ Push(v, x).top = v.top + 1
           /\ \A i \in 1..v.top : Push(v, x).stack[i] = v.stack[i]
           /\ Push(v, x).stack[v.top + 1] = x /\ Peek(Push(v, x)) = x
           /\ Push(v, x).frames = v.frames /\ Push(v, x).open = v.open
           /\ Push(v, x).global = v.global
<1> DEFINE st == [v.stack EXCEPT ![v.top + 1] = x]
<1>1. Push(v, x) = [stack |-> st, top |-> v.top + 1, frames |-> v.frames,
                    open |-> v.open, global |-> v.global]
  <2>1. Push(v, x) = [v EXCEPT !.stack = st, !.top = v.top + 1]
    BY DEF Push, Machine
  <2>2. v = [stack |-> v.stack, top |-> v.top, frames |-> v.frames,
             open |-> v.open, global |-> v.global]
    BY DEF Machine
  <2> HIDE DEF st
  <2> QED
    BY <2>1, <2>2
<1>2. v.top \in Nat /\ v.top + 1 \in 1..StackMax /\ StackMax \in Nat
      /\ v.stack \in [1..StackMax -> Value]
  BY HeapConstants DEF Machine
<1>3. /\ st \in [1..StackMax -> Value] /\ st[v.top + 1] = x
      /\ \A i \in 1..v.top : st[i] = v.stack[i]
  BY <1>2
<1> HIDE DEF st
<1>4. /\ Push(v, x).stack = st /\ Push(v, x).top = v.top + 1 /\ Push(v, x) \in Machine
      /\ Push(v, x).frames = v.frames /\ Push(v, x).open = v.open
      /\ Push(v, x).global = v.global
  BY <1>1, <1>2, <1>3 DEF Machine
<1> QED
  BY <1>2, <1>3, <1>4 DEF Peek

LEMMA Drops ==
    ASSUME NEW v \in Machine, NEW n \in Nat, n <= v.top
    PROVE  /\ Drop(v, n) \in Machine /\ Drop(v, n).top = v.top - n
           /\ Drop(v, n).stack = v.stack
           /\ Drop(v, n).frames = v.frames /\ Drop(v, n).open = v.open
           /\ Drop(v, n).global = v.global
<1>1. Drop(v, n) = [v EXCEPT !.top = v.top - n]
  BY DEF Drop, Machine
<1>2. v.top - n \in 0..StackMax
  BY HeapConstants DEF Machine
<1> QED
  BY <1>1, <1>2 DEF Machine

\* What Settled forgets is above the stack.
LEMMA Settles ==
    ASSUME NEW v \in Machine, NEW os
    PROVE  /\ Settled(v, os) \in Machine /\ Settled(v, os).top = v.top
           /\ \A i \in 1..v.top : Settled(v, os).stack[i] = v.stack[i]
           /\ Settled(v, os).frames = v.frames /\ Settled(v, os).open = v.open
           /\ Settled(v, os).global = v.global
<1> DEFINE kept == 1..v.top \cup { os[a].location : a \in { b \in DOMAIN os : os[b].type = "upvalue" } }
           st == [i \in 1..StackMax |-> IF i \in kept THEN v.stack[i] ELSE Nil]
<1>1. Settled(v, os) = [v EXCEPT !.stack = st]
  BY DEF Settled
<1>2. st \in [1..StackMax -> Value] /\ \A i \in 1..v.top : st[i] = v.stack[i]
  <2>1. Nil \in Value /\ v.stack \in [1..StackMax -> Value]
    BY DEF Value, Machine
  <2>2. \A i \in 1..v.top : i \in kept
    OBVIOUS
  <2>3. \A i \in 1..v.top : i \in 1..StackMax
    BY HeapConstants DEF Machine
  <2> HIDE DEF kept
  <2> QED
    BY <2>1, <2>2, <2>3
<1> HIDE DEF st
<1> QED
  BY <1>1, <1>2 DEF Machine

\* The state that an action leaves.
LEMMA Keeps ==
    ASSUME NEW os, NEW v, Inv(os, v, compilers', running', stray'), Keep(os, v)
    PROVE  IInv'
<1> DEFINE w == Settled(v, os)
<1>1. objects' = os /\ vm' = w
  BY DEF Keep
<1>2. /\ w \in Machine /\ w.top = v.top
      /\ \A i \in 1..v.top : w.stack[i] = v.stack[i]
      /\ w.frames = v.frames /\ w.open = v.open /\ w.global = v.global
  BY Settles DEF Inv
<1> HIDE DEF w
<1>3. v.top \in Nat
  BY DEF Inv, Machine
<1>4. Framed(w)
  BY <1>2 DEF Inv, Framed
<1>5. OneUnfinished(os, w)
  BY <1>2, <1>3 DEF Inv, OneUnfinished, Peek
<1>6. ~ stray' => Rooted(os, w, compilers')
  BY <1>2 DEF Inv, Rooted
<1>7. Inv(os, w, compilers', running', stray')
  BY <1>2, <1>4, <1>5, <1>6 DEF Inv
<1> QED
  BY <1>1, <1>7 DEF IInv

-----------------------------------------------------------------------------
(* Steps. *)

LEMMA MachineIs ==
    ASSUME NEW v \in Machine
    PROVE  /\ v = [stack |-> v.stack, top |-> v.top, frames |-> v.frames,
                   open |-> v.open, global |-> v.global]
           /\ v.stack \in [1..StackMax -> Value] /\ v.top \in 0..StackMax /\ v.top \in Nat
           /\ v.frames \in Seq(Frame) /\ v.open \in Seq(Address) /\ v.global \in Value
           /\ StackMax \in Nat
  BY HeapConstants DEF Machine

LEMMA OfIs ==
    ASSUME NEW os, Typed(os), NEW type
    PROVE  Of(os, type) \subseteq DOMAIN os /\ Of(os, type) \subseteq Address
           /\ Nil \notin Of(os, type)
  BY AddressIs DEF Of, Typed

\* What a collection with the roots of v and cs leaves.
LEMMA Collects ==
    ASSUME NEW os, Sane(os), NEW v \in Machine, NEW cs \in Seq(Address), Rooted(os, v, cs),
           NEW less \in Reallocate(os, v, cs)
    PROVE  /\ Sane(less) /\ Rooted(less, v, cs) /\ Shrinks(os, less)
           /\ Unfinished(less) \subseteq Unfinished(os)
           /\ Roots(v, cs) \subseteq DOMAIN less
           /\ \A a \in DOMAIN less : a \in DOMAIN os /\ less[a] = os[a]
<1>1. Shrinks(os, less) /\ Roots(v, cs) \subseteq DOMAIN less
  BY RootsExist, Reallocates
<1>2. Sane(less) /\ Unfinished(less) \subseteq Unfinished(os)
  BY <1>1, SaneLess
<1>3. Rooted(less, v, cs)
  BY <1>1, RootedLess
<1>4. \A a \in DOMAIN less : a \in DOMAIN os /\ less[a] = os[a]
  BY <1>1 DEF Shrinks
<1> QED
  BY <1>1, <1>2, <1>3, <1>4

\* The value that addConstant and interpret push is the function that was
\* compiled last, which makes no difference to the roots.
LEMMA RootsMove ==
    ASSUME NEW v \in Machine, v.top < StackMax, NEW cs \in Seq(Address), cs # <<>>
    PROVE  /\ Front(cs) \in Seq(Address) /\ Len(Front(cs)) = Len(cs) - 1
           /\ \A i \in 1..(Len(cs) - 1) : Front(cs)[i] = cs[i]
           /\ Last(cs) = cs[Len(cs)] /\ Len(cs) \in Nat \ {0}
           /\ Roots(Push(v, Last(cs)), Front(cs)) = Roots(v, cs)
<1> DEFINE n == Len(cs)
           x == Last(cs)
           w == Push(v, x)
           ds == Front(cs)
<1>1. n \in Nat \ {0} /\ x = cs[n] /\ x \in Address
  BY Fronts
<1>2. ds \in Seq(Address) /\ Len(ds) = n - 1 /\ \A i \in 1..(n - 1) : ds[i] = cs[i]
  BY Fronts
<1>3. x \in Value /\ x \in Address
  BY <1>1 DEF Value
<1>4. /\ w \in Machine /\ w.top = v.top + 1
      /\ \A i \in 1..v.top : w.stack[i] = v.stack[i]
      /\ w.stack[v.top + 1] = x
      /\ w.frames = v.frames /\ w.open = v.open /\ w.global = v.global
  BY <1>3, Pushes
<1>5. v.top \in Nat
  BY MachineIs
<1> HIDE DEF w, ds, x
<1>6. { w.stack[i] : i \in 1..w.top } = { v.stack[i] : i \in 1..v.top } \cup {x}
  <2>1. \A i \in 1..w.top : i \in 1..v.top \/ i = v.top + 1
    BY <1>4, <1>5
  <2>2. \A i \in 1..v.top : i \in 1..w.top
    BY <1>4, <1>5
  <2>3. v.top + 1 \in 1..w.top
    BY <1>4, <1>5
  <2> QED
    BY <1>4, <2>1, <2>2, <2>3
<1>7. { cs[i] : i \in 1..n } = { ds[i] : i \in 1..Len(ds) } \cup {x}
  <2>1. \A i \in 1..n : i \in 1..Len(ds) \/ i = n
    BY <1>1, <1>2
  <2>2. \A i \in 1..Len(ds) : i \in 1..n /\ ds[i] = cs[i]
    BY <1>1, <1>2
  <2>3. n \in 1..n
    BY <1>1
  <2> QED
    BY <1>1, <2>1, <2>2, <2>3
<1>8. Roots(w, ds) = Roots(v, cs)
  <2>1. Roots(w, ds) = ({ w.stack[i] : i \in 1..w.top }
                        \cup { w.frames[i].closure : i \in 1..Len(w.frames) }
                        \cup { w.open[i] : i \in 1..Len(w.open) } \cup {w.global}
                        \cup { ds[i] : i \in 1..Len(ds) }) \ {Nil}
    BY <1>2, <1>4, RootsAre
  <2>2. Roots(v, cs) = ({ v.stack[i] : i \in 1..v.top }
                        \cup { v.frames[i].closure : i \in 1..Len(v.frames) }
                        \cup { v.open[i] : i \in 1..Len(v.open) } \cup {v.global}
                        \cup { cs[i] : i \in 1..n }) \ {Nil}
    BY RootsAre
  <2>3. /\ { w.frames[i].closure : i \in 1..Len(w.frames) }
             = { v.frames[i].closure : i \in 1..Len(v.frames) }
        /\ { w.open[i] : i \in 1..Len(w.open) } = { v.open[i] : i \in 1..Len(v.open) }
        /\ w.global = v.global
    BY <1>4
  <2> QED
    BY <1>6, <1>7, <2>1, <2>2, <2>3, Zenon
<1> QED
  BY <1>1, <1>2, <1>8 DEF w, ds, x

LEMMA CollectsPushed ==
    ASSUME NEW os, Sane(os), NEW v \in Machine, v.top < StackMax,
           NEW cs \in Seq(Address), cs # <<>>, Rooted(os, v, cs),
           NEW less \in Reallocate(os, Push(v, Last(cs)), Front(cs))
    PROVE  /\ Sane(less) /\ Rooted(less, v, cs)
           /\ Unfinished(less) \subseteq Unfinished(os)
<1>1. Roots(Push(v, Last(cs)), Front(cs)) = Roots(v, cs)
  BY RootsMove
<1>2. Shrinks(os, less) /\ Roots(v, cs) \subseteq DOMAIN less
  BY <1>1, RootsExist, Reallocates
<1> QED
  BY <1>2, SaneLess, RootedLess

\* Between programs, and while the code that is followed runs.
LEMMA Calm ==
    ASSUME IInv, Compiling \/ Running
    PROVE  /\ ~ stray /\ Unfinished(objects) = {} /\ running
           /\ Sane(objects) /\ Typed(objects) /\ Rooted(objects, vm, compilers)
           /\ vm \in Machine /\ Framed(vm)
           /\ compilers \in Seq(Address) /\ Len(compilers) <= Nesting
<1>1. Unfinished(objects) = {}
  <2>1. CASE Compiling
    BY <2>1 DEF IInv, Inv, OneUnfinished, Compiling
  <2>2. CASE Running
    <3> SUFFICES ASSUME NEW a \in Unfinished(objects)  PROVE FALSE
      OBVIOUS
    <3>1. vm.top > 0 /\ a = Peek(vm)
      BY DEF IInv, Inv, OneUnfinished
    <3>2. a \in DOMAIN objects /\ objects[a].type = "closure" /\ Nil \in ToSet(objects[a].upvalues)
      BY DEF Unfinished, Of
    <3>3. a # Nil
      BY <3>2, AddressIs DEF IInv, Inv, Typed
    <3>4. Making(vm, objects)
      BY <3>1, <3>2, <3>3 DEF Making
    <3> QED
      BY <2>2, <3>4 DEF Running
  <2> QED
    BY <2>1, <2>2
<1>2. ~ stray
  BY DEF IInv, Inv, Compiling, Running
<1>3. running
  BY DEF Compiling, Running
<1> QED
  BY <1>1, <1>2, <1>3 DEF IInv, Inv, Chain

\* An action after which no stray slot was used.
LEMMA LeavesOne ==
    ASSUME IInv, ~ stray, UNCHANGED stray, NEW os, NEW v, Keep(os, v),
           Sane(os), v \in Machine, Framed(v), OneUnfinished(os, v),
           Chain(compilers'), Rooted(os, v, compilers')
    PROVE  IInv'
<1>1. running' = running /\ stray' = stray
  BY DEF Keep
<1>2. running' \in BOOLEAN /\ stray' \in BOOLEAN /\ ~ stray'
  <2>1. running \in BOOLEAN /\ stray \in BOOLEAN
    BY Zenon DEF IInv, Inv
  <2> QED
    BY <1>1, <2>1
<1>3. Typed(os)
  BY DEF Sane
<1>4. Inv(os, v, compilers', running', stray')
  BY <1>2, <1>3, Zenon DEF Inv
<1> QED
  BY <1>4, Keeps

LEMMA Leaves ==
    ASSUME IInv, ~ stray, UNCHANGED stray, NEW os, NEW v, Keep(os, v),
           Sane(os), v \in Machine, Framed(v), Unfinished(os) = {},
           Chain(compilers'), Rooted(os, v, compilers')
    PROVE  IInv'
<1>1. OneUnfinished(os, v)
  BY DEF OneUnfinished
<1> QED
  BY <1>1, LeavesOne

\* Before the first program, and after the last.
LEMMA EmptyHeap ==
    ASSUME NEW run \in BOOLEAN
    PROVE  Inv(<<>>, NewVM, <<>>, run, FALSE)
<1> DEFINE os == <<>>
           v == NewVM
<1>1. DOMAIN os = {} /\ os = [a \in DOMAIN os |-> os[a]]
  OBVIOUS
<1> HIDE DEF os
<1>2. Typed(os) /\ Sane(os) /\ \A type : Of(os, type) = {}
  BY <1>1 DEF Typed, Sane, Of
<1>3. /\ v \in Machine /\ v.top = 0 /\ v.frames = <<>> /\ v.open = <<>> /\ v.global = Nil
  <2>1. Nil \in Value /\ 0 \in 0..StackMax
    BY HeapConstants DEF Value
  <2>2. /\ v.stack \in [1..StackMax -> Value] /\ v.frames \in Seq(Frame)
        /\ v.open \in Seq(Address)
    BY <2>1, EmptySeq DEF NewVM
  <2> QED
    BY <2>1, <2>2 DEF NewVM, Machine
<1> HIDE DEF v
<1>4. Framed(v) /\ Rooted(os, v, <<>>)
  BY <1>3 DEF Framed, Rooted
<1>5. Chain(<<>>)
  BY HeapConstants, EmptySeq DEF Chain
<1>6. OneUnfinished(os, v)
  BY <1>2 DEF Unfinished, OneUnfinished
<1>7. Inv(os, v, <<>>, run, FALSE)
  BY <1>2, <1>3, <1>4, <1>5, <1>6, Zenon DEF Inv
<1> QED
  BY <1>7 DEF os, v

LEMMA InitInv == Init => IInv
  BY EmptyHeap DEF Init, IInv

\* A function or a closure without its upvalues.
LEMMA FunctionIs ==
    ASSUME NEW n \in Nat, NEW os
    PROVE  /\ Function(n) \in Object /\ Function(n).type = "function"
           /\ Function(n).upvalueCount = n /\ Refers(os, Function(n))
  BY EmptySeq DEF Function, Object, Refers

LEMMA ClosureIs ==
    ASSUME NEW os, Typed(os), NEW f \in Of(os, "function"), NEW n \in Nat, n = os[f].upvalueCount
    PROVE  /\ Closure(f, n) \in Object /\ Closure(f, n).type = "closure"
           /\ Refers(os, Closure(f, n))
           /\ n = 0 => Nil \notin ToSet(Closure(f, n).upvalues)
<1> DEFINE us == [i \in 1..n |-> Nil]
           o == Closure(f, n)
<1>1. us \in Seq(Value) /\ Len(us) = n /\ \A i \in 1..n : us[i] = Nil
  BY DEF Value
<1>2. o = [type |-> "closure", function |-> f, upvalues |-> us]
  BY DEF Closure
<1>3. f \in Address
  BY OfIs
<1> HIDE DEF us
<1>4. o \in Object
  BY <1>1, <1>2, <1>3 DEF Object
<1>5. o.type = "closure" /\ o.function = f /\ o.upvalues = us
  BY <1>2
<1>6. Refers(os, o)
  BY <1>1, <1>5 DEF Refers
<1>7. n = 0 => Nil \notin ToSet(us)
  <2>1. n = 0 => DOMAIN us = {}
    BY <1>1 DEF us
  <2> QED
    BY <2>1 DEF ToSet
<1> QED
  BY <1>4, <1>5, <1>6, <1>7

LEMMA InitCompilerStep ==
    ASSUME IInv, NEW n \in 0..Captures, InitCompiler(n)
    PROVE  IInv'
<1>1. /\ ~ stray /\ Unfinished(objects) = {} /\ running
      /\ Sane(objects) /\ Rooted(objects, vm, compilers) /\ vm \in Machine /\ Framed(vm)
      /\ compilers \in Seq(Address) /\ Len(compilers) < Nesting
      /\ compilers = <<>> => n = 0
  BY Calm DEF InitCompiler
<1>2. PICK before \in Reallocate(objects, vm, compilers) :
        /\ Room(before)
        /\ compilers' = Append(compilers, NewAddress(before))
        /\ \E after \in Reallocate(Allocate(before, Function(n)), vm, compilers') :
               Keep(after, vm)
  BY DEF InitCompiler
<1> DEFINE a == NewAddress(before)
           mid == Allocate(before, Function(n))
<1>3. PICK after \in Reallocate(mid, vm, compilers') : Keep(after, vm)
  BY <1>2
<1>4. Sane(before) /\ Rooted(before, vm, compilers) /\ Unfinished(before) = {}
  BY <1>1, Collects
<1>5. n \in Nat
  BY HeapConstants
<1>6. /\ Function(n) \in Object /\ Function(n).type = "function"
      /\ Function(n).upvalueCount = n /\ Refers(before, Function(n))
  BY <1>5, FunctionIs
<1>7. /\ a \in Address /\ a \in DOMAIN mid /\ mid[a] = Function(n)
      /\ Extends(before, mid) /\ Unfinished(mid) \subseteq {a}
  BY <1>2, <1>4, <1>6, Allocates DEF Sane
<1>8. Sane(mid)
  BY <1>2, <1>4, <1>6, SaneMore
<1>9. Rooted(mid, vm, compilers)
  BY <1>1, <1>4, <1>7, RootedOn
<1> HIDE DEF mid, a
<1>10. a \in Of(mid, "function") /\ mid[a].upvalueCount = n /\ Unfinished(mid) = {}
  BY <1>6, <1>7 DEF Of, Unfinished
<1>11. compilers' = Append(compilers, a)
  BY <1>2 DEF a
<1> DEFINE cs == Append(compilers, a)
<1>12. /\ cs \in Seq(Address) /\ Len(cs) = Len(compilers) + 1 /\ cs # <<>>
       /\ \A i \in 1..Len(compilers) : cs[i] = compilers[i]
       /\ cs[Len(compilers) + 1] = a
  BY <1>1, <1>7, AppendProperties
<1>13. Len(compilers) \in Nat /\ (compilers # <<>> => 1 \in 1..Len(compilers))
       /\ (compilers = <<>> => Len(compilers) = 0)
  BY <1>1, EmptySeq
<1>14. Rooted(mid, vm, cs)
  <2>1. \A i \in 1..Len(cs) : i \in 1..Len(compilers) \/ i = Len(compilers) + 1
    BY <1>12, <1>13
  <2> HIDE DEF cs
  <2>2. \A i \in 1..Len(cs) : cs[i] \in Of(mid, "function")
    BY <1>9, <1>10, <1>12, <2>1 DEF Rooted
  <2>3. CASE compilers = <<>>
    <3>1. cs[1] = a /\ n = 0
      BY <1>1, <1>12, <1>13, <2>3
    <3> QED
      BY <1>9, <1>10, <2>2, <3>1 DEF Rooted
  <2>4. CASE compilers # <<>>
    <3>1. cs[1] = compilers[1]
      BY <1>12, <1>13, <2>4
    <3> QED
      BY <1>9, <2>2, <2>4, <3>1 DEF Rooted
  <2> QED
    BY <2>3, <2>4
<1>15. Chain(cs)
  BY <1>1, <1>12, <1>13, HeapConstants DEF Chain
<1> HIDE DEF cs
<1>16. compilers' = cs
  BY <1>11 DEF cs
<1>17. Sane(after) /\ Rooted(after, vm, cs) /\ Unfinished(after) = {}
  BY <1>1, <1>3, <1>8, <1>10, <1>12, <1>14, <1>16, Collects
<1>18. UNCHANGED stray
  BY DEF InitCompiler
<1> QED
  BY <1>1, <1>3, <1>15, <1>16, <1>17, <1>18, Leaves

\* An object with another value in one of its fields.
LEMMA NewConstants ==
    ASSUME NEW o \in Object, o.type = "function", NEW x
    PROVE  [o EXCEPT !.constants = x]
             = [type |-> "function", constants |-> x, upvalueCount |-> o.upvalueCount]
<1>1. o \in [type : {"function"}, constants : Seq(Address), upvalueCount : Nat]
  BY ObjectIs
<1> QED
  BY <1>1

LEMMA NewUpvalues ==
    ASSUME NEW o \in Object, o.type = "closure", NEW i, NEW x
    PROVE  [o EXCEPT !.upvalues[i] = x]
             = [type |-> "closure", function |-> o.function,
                upvalues |-> [o.upvalues EXCEPT ![i] = x]]
<1>1. o \in [type : {"closure"}, function : Address, upvalues : Seq(Value)]
  BY ObjectIs
<1> QED
  BY <1>1

LEMMA NewClosed ==
    ASSUME NEW o \in Object, o.type = "upvalue", NEW x
    PROVE  /\ [o EXCEPT !.closed = x]
                = [type |-> "upvalue", location |-> o.location, closed |-> x]
           /\ [o EXCEPT !.closed = x, !.location = 0]
                = [type |-> "upvalue", location |-> 0, closed |-> x]
<1>1. o \in [type : {"upvalue"}, location : 0..StackMax, closed : Value]
  BY ObjectIs
<1> DEFINE p == [o EXCEPT !.closed = x]
<1>2. p = [type |-> "upvalue", location |-> o.location, closed |-> x]
  BY <1>1
<1>3. [o EXCEPT !.closed = x, !.location = 0] = [p EXCEPT !.location = 0]
  OBVIOUS
<1> HIDE DEF p
<1>4. [p EXCEPT !.location = 0] = [type |-> "upvalue", location |-> 0, closed |-> x]
  BY <1>2
<1> QED
  BY <1>2, <1>3, <1>4 DEF p

\* One object changes.
LEMMA Replaces ==
    ASSUME NEW os, Sane(os), NEW a \in DOMAIN os, NEW p \in Object,
           p.type = os[a].type, Refers(os, p),
           p.type = "function" => p.upvalueCount = os[a].upvalueCount,
           NEW new, new = [os EXCEPT ![a] = p]
    PROVE  /\ Sane(new) /\ Extends(os, new)
           /\ new[a] = p /\ \A b \in DOMAIN os : b # a => new[b] = os[b]
           /\ \A type : Of(new, type) = Of(os, type)
           /\ Unfinished(new) \subseteq Unfinished(os) \cup {a}
<1>1. /\ DOMAIN new = DOMAIN os /\ new = [b \in DOMAIN new |-> new[b]]
      /\ new[a] = p /\ \A b \in DOMAIN os : b # a => new[b] = os[b]
  BY DEF Sane, Typed
<1>2. \A b \in DOMAIN os :
          /\ new[b] \in Object /\ new[b].type = os[b].type /\ Refers(os, new[b])
          /\ os[b].type = "function" => new[b].upvalueCount = os[b].upvalueCount
  BY <1>1 DEF Sane, Typed
<1>3. Sane(new) /\ Extends(os, new) /\ \A type : Of(new, type) = Of(os, type)
  BY <1>1, <1>2, Updates
<1>4. Unfinished(new) \subseteq Unfinished(os) \cup {a}
  BY <1>1, <1>3 DEF Unfinished, Of
<1> QED
  BY <1>1, <1>3, <1>4

\* A function gets a constant.
LEMMA Constants ==
    ASSUME NEW os, Sane(os), NEW f \in Of(os, "function"), NEW g \in Of(os, "function")
    PROVE  LET new == [os EXCEPT ![f].constants = Append(@, g)]
           IN  /\ Sane(new) /\ Extends(os, new)
               /\ Unfinished(new) \subseteq Unfinished(os)
<1> DEFINE new == [os EXCEPT ![f].constants = Append(@, g)]
           o == os[f]
           p == [type |-> "function", constants |-> Append(o.constants, g),
                 upvalueCount |-> o.upvalueCount]
<1>1. f \in DOMAIN os /\ o.type = "function" /\ o \in Object /\ Refers(os, o) /\ g \in Address
  BY OfIs DEF Of, Sane, Typed
<1>2. o.constants \in Seq(Address) /\ o.upvalueCount \in Nat
  BY <1>1, ObjectIs
<1>3. new = [os EXCEPT ![f] = [o EXCEPT !.constants = Append(o.constants, g)]]
  OBVIOUS
<1>4. [o EXCEPT !.constants = Append(o.constants, g)] = p
  BY <1>1, NewConstants
<1>5. new = [os EXCEPT ![f] = p]
  BY <1>3, <1>4
<1>8. /\ Append(o.constants, g) \in Seq(Address)
      /\ Len(Append(o.constants, g)) = Len(o.constants) + 1
      /\ \A i \in 1..Len(o.constants) : Append(o.constants, g)[i] = o.constants[i]
      /\ Append(o.constants, g)[Len(o.constants) + 1] = g
      /\ Len(o.constants) \in Nat
  BY <1>1, <1>2, AppendProperties, LenProperties
<1> HIDE DEF new
<1> DEFINE cs == Append(o.constants, g)
<1>9. p \in Object /\ p.type = "function" /\ p.upvalueCount = o.upvalueCount /\ p.constants = cs
  BY <1>2, <1>8 DEF Object
<1>10. \A i \in 1..Len(o.constants) : o.constants[i] \in Of(os, "function")
  BY <1>1 DEF Refers
<1> HIDE DEF o
<1>11. \A i \in 1..Len(cs) : i \in 1..Len(o.constants) \/ i = Len(o.constants) + 1
  BY <1>8
<1> HIDE DEF cs
<1>12. \A i \in 1..Len(cs) : cs[i] \in Of(os, "function")
  BY <1>8, <1>10, <1>11 DEF cs
<1> HIDE DEF p
<1>13. /\ f \in DOMAIN os /\ p \in Object /\ new = [os EXCEPT ![f] = p]
       /\ Refers(os, p) /\ p.type = os[f].type /\ p.upvalueCount = os[f].upvalueCount
  BY <1>1, <1>5, <1>9, <1>12 DEF Refers, o
<1>14. Sane(new) /\ Extends(os, new) /\ Unfinished(new) \subseteq Unfinished(os) \cup {f}
  BY <1>13, Replaces
<1>15. f \notin Unfinished(new)
  BY <1>14 DEF Unfinished, Of, Extends
<1> QED
  BY <1>14, <1>15 DEF new

LEMMA EndFunctionStep ==
    ASSUME IInv, EndFunction
    PROVE  IInv'
<1>1. /\ ~ stray /\ Unfinished(objects) = {} /\ running /\ Sane(objects)
      /\ Rooted(objects, vm, compilers) /\ vm \in Machine /\ Framed(vm)
      /\ compilers \in Seq(Address) /\ Len(compilers) <= Nesting
  BY Calm DEF EndFunction
<1> DEFINE n == Len(compilers)
           cs == Front(compilers)
           f == Last(compilers)
           around == compilers[n - 1]
<1>2. n > 1 /\ vm.top < StackMax /\ compilers' = cs /\ UNCHANGED stray
  BY DEF EndFunction
<1>3. n \in Nat /\ compilers # <<>>
  BY <1>1, <1>2, LenProperties, EmptySeq
<1>4. PICK new \in AddConstant(around, f, cs) : Keep(new, vm)
  BY DEF EndFunction
<1>5. PICK os \in Reallocate(objects, Push(vm, f), cs) :
          new = [os EXCEPT ![around].constants = Append(@, f)]
  BY <1>4 DEF AddConstant
<1>6. Sane(os) /\ Rooted(os, vm, compilers) /\ Unfinished(os) = {}
  BY <1>1, <1>2, <1>3, <1>5, CollectsPushed
<1>7. /\ cs \in Seq(Address) /\ Len(cs) = n - 1 /\ f = compilers[n]
      /\ \A i \in 1..(n - 1) : cs[i] = compilers[i]
  BY <1>1, <1>3, Fronts
<1>8. f \in Of(os, "function") /\ around \in Of(os, "function")
  <2>1. n \in 1..n /\ n - 1 \in 1..n
    BY <1>2, <1>3
  <2> QED
    BY <1>6, <1>7, <2>1 DEF Rooted
<1> HIDE DEF f, around, cs
<1>9. Sane(new) /\ Extends(os, new) /\ Unfinished(new) = {}
  BY <1>5, <1>6, <1>8, Constants
<1>10. Rooted(new, vm, compilers)
  BY <1>1, <1>6, <1>9, RootedOn
<1>11. Rooted(new, vm, cs)
  <2>1. \A i \in 1..Len(cs) : i \in 1..n /\ cs[i] = compilers[i]
    BY <1>3, <1>7
  <2>2. 1 \in 1..(n - 1)
    BY <1>2, <1>3
  <2>3. cs[1] = compilers[1]
    BY <1>7, <2>2
  <2> QED
    BY <1>3, <1>10, <2>1, <2>3 DEF Rooted
<1>12. Chain(cs)
  BY <1>1, <1>3, <1>7, HeapConstants DEF Chain
<1> QED
  BY <1>1, <1>2, <1>4, <1>9, <1>11, <1>12, Leaves

LEMMA CompileErrorStep ==
    ASSUME IInv, CompileError
    PROVE  IInv'
<1>1. /\ ~ stray /\ Sane(objects) /\ Rooted(objects, vm, compilers)
  BY Calm DEF CompileError
<1>2. compilers' = <<>> /\ objects' = objects /\ vm' = vm /\ running' = running /\ stray' = stray
  BY DEF CompileError
<1>3. Rooted(objects, vm, <<>>)
  BY <1>1 DEF Rooted
<1>4. Chain(<<>>)
  BY EmptySeq, HeapConstants DEF Chain
<1>5. Inv(objects, vm, <<>>, running, stray)
  BY <1>1, <1>3, <1>4, Zenon DEF IInv, Inv
<1> QED
  BY <1>2, <1>5, Zenon DEF IInv

\* A closure on the stack, or nil.
LEMMA RootedPush ==
    ASSUME NEW os, NEW v \in Machine, v.top < StackMax, NEW cs, Rooted(os, v, cs), Framed(v),
           Typed(os), NEW x \in Of(os, "closure") \cup {Nil}
    PROVE  /\ Push(v, x) \in Machine /\ Rooted(os, Push(v, x), cs) /\ Framed(Push(v, x))
<1> DEFINE w == Push(v, x)
<1>1. x \in Value
  BY OfIs DEF Value
<1>2. /\ w \in Machine /\ w.top = v.top + 1
      /\ \A i \in 1..v.top : w.stack[i] = v.stack[i]
      /\ w.stack[v.top + 1] = x
      /\ w.frames = v.frames /\ w.open = v.open /\ w.global = v.global
  BY <1>1, Pushes
<1>3. v.top \in Nat /\ \A i \in 1..Len(v.frames) : v.frames[i].slots \in Nat
  <2>1. v.frames \in Seq(Frame) /\ v.top \in Nat
    BY MachineIs
  <2>2. \A i \in 1..Len(v.frames) : v.frames[i] \in Frame
    BY <2>1, ElementOfSeq
  <2> QED
    BY <2>1, <2>2 DEF Frame
<1> HIDE DEF w
<1>4. \A i \in 1..w.top : i \in 1..v.top \/ i = v.top + 1
  BY <1>2, <1>3
<1>5. Rooted(os, w, cs)
  BY <1>2, <1>4 DEF Rooted
<1>6. Framed(w)
  BY <1>2, <1>3 DEF Framed
<1> QED
  BY <1>2, <1>5, <1>6 DEF w

LEMMA InterpretStep ==
    ASSUME IInv, Interpret
    PROVE  IInv'
<1>1. /\ ~ stray /\ Unfinished(objects) = {} /\ running /\ Sane(objects)
      /\ Rooted(objects, vm, compilers) /\ vm \in Machine /\ Framed(vm)
      /\ compilers \in Seq(Address)
  BY Calm DEF Interpret
<1> DEFINE f == Last(compilers)
<1>2. Len(compilers) = 1 /\ vm.top < StackMax /\ compilers' = <<>> /\ UNCHANGED stray
      /\ vm.frames = <<>>
  BY DEF Interpret, Compiling
<1>3. compilers # <<>> /\ Front(compilers) = <<>> /\ f = compilers[1]
  <2>1. compilers # <<>>
    BY <1>1, <1>2, EmptySeq
  <2>2. Front(compilers) \in Seq(Address) /\ Len(Front(compilers)) = 0 /\ f = compilers[1]
    BY <1>1, <1>2, <2>1, Fronts
  <2> QED
    BY <2>1, <2>2, EmptySeq
<1>4. PICK os \in Reallocate(objects, Push(vm, f), <<>>) :
        /\ Room(os)
        /\ LET v == Push(vm, NewAddress(os))
           IN  Keep(Allocate(os, Closure(f, 0)),
                    [v EXCEPT !.frames = <<[closure |-> NewAddress(os), slots |-> v.top]>>])
  BY DEF Interpret
<1> DEFINE a == NewAddress(os)
           o == Closure(f, 0)
           more == Allocate(os, o)
           v == Push(vm, a)
           w == [v EXCEPT !.frames = <<[closure |-> a, slots |-> v.top]>>]
<1>5. Sane(os) /\ Rooted(os, vm, compilers) /\ Unfinished(os) = {}
  BY <1>1, <1>2, <1>3, <1>4, CollectsPushed
<1>6. f \in Of(os, "function") /\ os[f].upvalueCount = 0
  <2>1. 1 \in 1..Len(compilers)
    BY <1>2
  <2> QED
    BY <1>3, <1>5, <2>1 DEF Rooted
<1>7. o \in Object /\ o.type = "closure" /\ Refers(os, o) /\ Nil \notin ToSet(o.upvalues)
  BY <1>5, <1>6, ClosureIs DEF Sane
<1> HIDE DEF o, f
<1>8. /\ a \in Address /\ a \in DOMAIN more /\ more[a] = o
      /\ Extends(os, more) /\ Unfinished(more) \subseteq {a}
  BY <1>4, <1>5, <1>7, Allocates DEF Sane
<1>9. Sane(more)
  BY <1>4, <1>5, <1>7, SaneMore
<1>10. Keep(more, w)
  BY <1>4 DEF o, f
<1> HIDE DEF more, a
<1>11. a \in Of(more, "closure") /\ Unfinished(more) = {}
  BY <1>7, <1>8 DEF Of, Unfinished
<1>12. Rooted(more, vm, compilers)
  BY <1>1, <1>5, <1>8, RootedOn
<1>13. v \in Machine /\ Rooted(more, v, compilers)
  BY <1>1, <1>2, <1>9, <1>11, <1>12, RootedPush DEF Sane
<1>14. v.top = vm.top + 1 /\ v.top \in 1..StackMax
  <2>1. v.top = vm.top + 1
    BY <1>1, <1>2, <1>8, Pushes DEF Value
  <2> QED
    BY <1>1, <1>2, <2>1, MachineIs
<1> HIDE DEF v
<1> DEFINE fr == [closure |-> a, slots |-> v.top]
<1>15. /\ fr \in Frame /\ <<fr>> \in Seq(Frame) /\ Len(<<fr>>) = 1 /\ <<fr>>[1] = fr
       /\ fr.closure = a /\ fr.slots = v.top
  BY <1>8, <1>14 DEF Frame
<1> HIDE DEF fr
<1>16. w = [stack |-> v.stack, top |-> v.top, frames |-> <<fr>>, open |-> v.open,
            global |-> v.global]
  BY <1>13, MachineIs DEF fr
<1>17. w \in Machine
  BY <1>13, <1>15, <1>16, MachineIs DEF Machine
<1>18. /\ w.stack = v.stack /\ w.top = v.top /\ w.frames = <<fr>> /\ w.open = v.open
       /\ w.global = v.global
  BY <1>16
<1> HIDE DEF w
<1>19. Rooted(more, w, <<>>)
  BY <1>11, <1>13, <1>15, <1>18 DEF Rooted
<1>20. Framed(w)
  BY <1>14, <1>15, <1>18 DEF Framed
<1>21. Chain(<<>>)
  BY EmptySeq, HeapConstants DEF Chain
<1> QED
  BY <1>1, <1>2, <1>9, <1>10, <1>11, <1>17, <1>19, <1>20, <1>21, Leaves

\* What is on the stack and in the frames while a program runs.
LEMMA FrameIs ==
    ASSUME IInv, ~ stray, vm.frames # <<>>
    PROVE  /\ vm.top \in 1..StackMax /\ CurrentFrame \in Frame
           /\ Len(vm.frames) \in Nat \ {0} /\ CurrentFrame = vm.frames[Len(vm.frames)]
           /\ CurrentFrame.slots \in 1..vm.top
           /\ \A i \in 1..Len(vm.frames) : vm.frames[i] \in Frame
           /\ CurrentFrame.closure \in Of(objects, "closure")
           /\ Peek(vm) \in Of(objects, "closure") \cup {Nil} /\ Peek(vm) = vm.stack[vm.top]
           /\ \A i \in Locals : i \in 1..vm.top /\ vm.stack[i] \in Of(objects, "closure") \cup {Nil}
<1>1. Rooted(objects, vm, compilers) /\ vm \in Machine /\ Framed(vm)
  BY DEF IInv, Inv
<1>2. vm.frames \in Seq(Frame) /\ vm.frames # <<>> /\ vm.top \in 0..StackMax /\ StackMax \in Nat
  BY <1>1, MachineIs
<1>3. /\ Len(vm.frames) \in Nat \ {0} /\ CurrentFrame = vm.frames[Len(vm.frames)]
      /\ CurrentFrame \in Frame
  BY <1>2, Fronts DEF CurrentFrame
<1>4. \A i \in 1..Len(vm.frames) : vm.frames[i] \in Frame
  BY <1>2, ElementOfSeq
<1>5. Len(vm.frames) \in 1..Len(vm.frames)
  BY <1>3
<1>6. CurrentFrame.slots \in 1..StackMax /\ CurrentFrame.slots <= vm.top
  BY <1>1, <1>3, <1>5 DEF Framed, Frame
<1>7. vm.top \in 1..StackMax /\ CurrentFrame.slots \in 1..vm.top
  BY <1>2, <1>6
<1>8. CurrentFrame.closure \in Of(objects, "closure")
  BY <1>1, <1>3, <1>5 DEF Rooted
<1>9. Peek(vm) \in Of(objects, "closure") \cup {Nil} /\ Peek(vm) = vm.stack[vm.top]
  <2>1. vm.top \in 1..vm.top
    BY <1>7
  <2> QED
    BY <1>1, <2>1 DEF Rooted, Peek
<1>10. \A i \in Locals : i \in 1..vm.top
  BY <1>7 DEF Locals
<1> QED
  BY <1>1, <1>3, <1>4, <1>7, <1>8, <1>9, <1>10 DEF Rooted

LEMMA RunningIs ==
    ASSUME IInv, Running
    PROVE  /\ vm.top \in 1..StackMax /\ CurrentFrame \in Frame
           /\ Len(vm.frames) \in Nat \ {0} /\ CurrentFrame = vm.frames[Len(vm.frames)]
           /\ CurrentFrame.slots \in 1..vm.top
           /\ \A i \in 1..Len(vm.frames) : vm.frames[i] \in Frame
           /\ CurrentFrame.closure \in Of(objects, "closure")
           /\ Peek(vm) \in Of(objects, "closure") \cup {Nil} /\ Peek(vm) = vm.stack[vm.top]
           /\ \A i \in Locals : i \in 1..vm.top /\ vm.stack[i] \in Of(objects, "closure") \cup {Nil}
<1>1. ~ stray /\ vm.frames # <<>>
  BY DEF Running
<1> QED
  BY <1>1, FrameIs

\* An instruction that leaves v.
LEMMA InstructionStep ==
    ASSUME IInv, NEW v, Instruction(v), v \in Machine, Framed(v), Rooted(objects, v, compilers)
    PROVE  IInv'
<1>1. Running /\ Keep(objects, v) /\ compilers' = compilers /\ UNCHANGED stray
  BY DEF Instruction
<1>2. ~ stray /\ Unfinished(objects) = {} /\ Sane(objects) /\ Chain(compilers)
  BY <1>1, Calm DEF IInv, Inv
<1> QED
  BY <1>1, <1>2, Leaves

LEMMA RootedDrop ==
    ASSUME NEW os, NEW v \in Machine, NEW n \in Nat, NEW cs, Rooted(os, v, cs), Framed(v),
           n <= v.top, \A i \in 1..Len(v.frames) : v.frames[i].slots <= v.top - n
    PROVE  Drop(v, n) \in Machine /\ Rooted(os, Drop(v, n), cs) /\ Framed(Drop(v, n))
<1> DEFINE w == Drop(v, n)
<1>1. /\ w \in Machine /\ w.top = v.top - n /\ w.stack = v.stack
      /\ w.frames = v.frames /\ w.open = v.open /\ w.global = v.global
  BY Drops
<1>2. v.top \in Nat
  BY MachineIs
<1> HIDE DEF w
<1>3. \A i \in 1..w.top : i \in 1..v.top
  BY <1>1, <1>2
<1>4. Rooted(os, w, cs)
  BY <1>1, <1>3 DEF Rooted
<1>5. Framed(w)
  BY <1>1 DEF Framed
<1> QED
  BY <1>1, <1>4, <1>5 DEF w

LEMMA RootedSet ==
    ASSUME NEW os, NEW v \in Machine, NEW cs, Rooted(os, v, cs), Framed(v), Typed(os),
           NEW i \in 1..StackMax, NEW x \in Of(os, "closure") \cup {Nil}
    PROVE  LET w == [v EXCEPT !.stack[i] = x]
           IN  w \in Machine /\ Rooted(os, w, cs) /\ Framed(w)
<1> DEFINE w == [v EXCEPT !.stack[i] = x]
           st == [v.stack EXCEPT ![i] = x]
<1>1. x \in Value
  BY OfIs DEF Value
<1>2. w = [v EXCEPT !.stack = st]
  OBVIOUS
<1>3. /\ st \in [1..StackMax -> Value]
      /\ \A j \in 1..v.top : st[j] = v.stack[j] \/ st[j] = x
  BY <1>1, MachineIs
<1> HIDE DEF st
<1>4. w = [stack |-> st, top |-> v.top, frames |-> v.frames, open |-> v.open, global |-> v.global]
  <2>1. v = [stack |-> v.stack, top |-> v.top, frames |-> v.frames,
             open |-> v.open, global |-> v.global]
    BY MachineIs
  <2> HIDE DEF w
  <2> QED
    BY <1>2, <2>1
<1>5. /\ w.stack = st /\ w.top = v.top /\ w.frames = v.frames /\ w.open = v.open
      /\ w.global = v.global
  BY <1>4
<1>6. w \in Machine
  BY <1>3, <1>4, MachineIs DEF Machine
<1> HIDE DEF w
<1>7. Rooted(os, w, cs)
  BY <1>3, <1>5 DEF Rooted
<1>8. Framed(w)
  BY <1>5 DEF Framed
<1> QED
  BY <1>6, <1>7, <1>8 DEF w

\* The frames all begin below what an instruction may pop.
LEMMA AboveFrames ==
    ASSUME IInv, Running, vm.top > CurrentFrame.slots
    PROVE  \A i \in 1..Len(vm.frames) : vm.frames[i].slots <= vm.top - 1
<1> SUFFICES ASSUME NEW i \in 1..Len(vm.frames)  PROVE vm.frames[i].slots <= vm.top - 1
  OBVIOUS
<1>1. /\ vm.top \in 1..StackMax
      /\ CurrentFrame = vm.frames[Len(vm.frames)] /\ Len(vm.frames) \in Nat \ {0}
      /\ CurrentFrame.slots \in 1..vm.top /\ vm.frames[i] \in Frame
  BY RunningIs
<1>2. Len(vm.frames) \in 1..Len(vm.frames) /\ i <= Len(vm.frames)
  BY <1>1
<1>3. vm.frames[i].slots <= CurrentFrame.slots
  BY <1>1, <1>2 DEF IInv, Inv, Framed
<1>4. vm.frames[i].slots \in Nat
  BY <1>1 DEF Frame
<1> QED
  BY <1>1, <1>3, <1>4

LEMMA SimpleStep ==
    ASSUME IInv, Simple
    PROVE  IInv'
<1>1. Running
  BY DEF Simple, Instruction
<1>2. /\ Sane(objects) /\ Typed(objects) /\ Rooted(objects, vm, compilers)
      /\ vm \in Machine /\ Framed(vm)
  BY <1>1, Calm
<1>3. /\ vm.top \in 1..StackMax
      /\ CurrentFrame = vm.frames[Len(vm.frames)] /\ Len(vm.frames) \in Nat \ {0}
      /\ CurrentFrame.slots \in 1..vm.top
      /\ \A i \in 1..Len(vm.frames) : vm.frames[i] \in Frame
      /\ Peek(vm) \in Of(objects, "closure") \cup {Nil}
      /\ \A i \in Locals : i \in 1..vm.top /\ vm.stack[i] \in Of(objects, "closure") \cup {Nil}
  BY <1>1, RunningIs
<1>4. ASSUME Fits, NEW x \in Of(objects, "closure") \cup {Nil}, Instruction(Push(vm, x))
      PROVE  IInv'
  <2>1. Push(vm, x) \in Machine /\ Rooted(objects, Push(vm, x), compilers) /\ Framed(Push(vm, x))
    BY <1>2, <1>4, RootedPush DEF Fits
  <2> QED
    BY <1>4, <2>1, InstructionStep
<1>5. ASSUME vm.top > CurrentFrame.slots, Instruction(Drop(vm, 1))  PROVE IInv'
  <2>1. \A i \in 1..Len(vm.frames) : vm.frames[i].slots <= vm.top - 1
    BY <1>1, <1>5, AboveFrames
  <2>2. 1 \in Nat /\ 1 <= vm.top
    BY <1>3
  <2>3. Drop(vm, 1) \in Machine /\ Rooted(objects, Drop(vm, 1), compilers) /\ Framed(Drop(vm, 1))
    BY <1>2, <2>1, <2>2, RootedDrop
  <2> QED
    BY <1>5, <2>3, InstructionStep
<1>6. ASSUME NEW i \in Locals, Instruction([vm EXCEPT !.stack[i] = Peek(vm)])
      PROVE  IInv'
  <2> DEFINE v == [vm EXCEPT !.stack[i] = Peek(vm)]
  <2>1. i \in 1..StackMax
    <3>1. i \in 1..vm.top
      BY <1>3, <1>6
    <3> QED
      BY <1>2, <1>3, <3>1, MachineIs
  <2>2. v \in Machine /\ Rooted(objects, v, compilers) /\ Framed(v)
    BY <1>2, <1>3, <2>1, RootedSet
  <2> HIDE DEF v
  <2>3. Instruction(v)
    BY <1>6 DEF v
  <2> QED
    BY <2>2, <2>3, InstructionStep
<1>7. CASE Fits /\ Instruction(Push(vm, Nil))
  BY <1>4, <1>7
<1>8. CASE Running /\ vm.top > CurrentFrame.slots /\ Instruction(Drop(vm, 1))
  BY <1>5, <1>8
<1>9. CASE Running /\ Fits /\ \E i \in Locals : Instruction(Push(vm, vm.stack[i]))
  BY <1>3, <1>4, <1>9
<1>10. CASE Running /\ \E i \in Locals : Instruction([vm EXCEPT !.stack[i] = Peek(vm)])
  BY <1>6, <1>10
<1>11. CASE Fits /\ Instruction(Push(vm, vm.global))
  BY <1>2, <1>4, <1>11 DEF Rooted
<1> QED
  BY <1>7, <1>8, <1>9, <1>10, <1>11 DEF Simple

LEMMA DefineGlobalStep ==
    ASSUME IInv, DefineGlobal
    PROVE  IInv'
<1>1. Running /\ vm.top > CurrentFrame.slots /\ UNCHANGED <<compilers, stray>>
  BY DEF DefineGlobal
<1>2. /\ ~ stray /\ Unfinished(objects) = {} /\ Sane(objects)
      /\ Rooted(objects, vm, compilers) /\ vm \in Machine /\ Framed(vm)
      /\ compilers \in Seq(Address) /\ Chain(compilers)
  BY <1>1, Calm DEF IInv, Inv
<1> DEFINE v == [vm EXCEPT !.global = Peek(vm)]
<1>3. PICK os \in Reallocate(objects, vm, compilers) : Keep(os, Drop(v, 1))
  BY DEF DefineGlobal
<1>4. Sane(os) /\ Rooted(os, vm, compilers) /\ Unfinished(os) = {}
  BY <1>2, <1>3, Collects
<1>5. vm.top \in 1..StackMax /\ Peek(vm) = vm.stack[vm.top]
  BY <1>1, RunningIs
<1>6. Peek(vm) \in Of(os, "closure") \cup {Nil} /\ Peek(vm) \in Value
  <2>1. vm.top \in 1..vm.top
    BY <1>5
  <2> QED
    BY <1>4, <1>5, <2>1, OfIs DEF Rooted, Value, Sane
<1>7. v = [stack |-> vm.stack, top |-> vm.top, frames |-> vm.frames, open |-> vm.open,
           global |-> Peek(vm)]
  BY <1>2, MachineIs
<1> HIDE DEF v
<1>8. v.stack = vm.stack /\ v.top = vm.top /\ v.frames = vm.frames /\ v.open = vm.open
      /\ v.global = Peek(vm)
  BY <1>7
<1>9. v \in Machine
  BY <1>2, <1>6, <1>7, MachineIs DEF Machine
<1>10. Rooted(os, v, compilers) /\ Framed(v)
  BY <1>2, <1>4, <1>6, <1>8 DEF Rooted, Framed
<1>11. \A i \in 1..Len(v.frames) : v.frames[i].slots <= v.top - 1
  BY <1>1, <1>8, AboveFrames
<1>12. 1 \in Nat /\ 1 <= v.top
  BY <1>5, <1>8
<1>13. Drop(v, 1) \in Machine /\ Rooted(os, Drop(v, 1), compilers) /\ Framed(Drop(v, 1))
  BY <1>9, <1>10, <1>11, <1>12, RootedDrop
<1> QED
  BY <1>1, <1>2, <1>3, <1>4, <1>13, Leaves DEF v

LEMMA ElsewhereStep ==
    ASSUME IInv, Elsewhere
    PROVE  IInv'
<1> DEFINE os == Collected(objects, vm, compilers)
<1>1. (Compiling \/ Running) /\ Keep(os, vm) /\ UNCHANGED <<compilers, stray>>
  BY DEF Elsewhere
<1>2. /\ ~ stray /\ Unfinished(objects) = {} /\ Sane(objects)
      /\ Rooted(objects, vm, compilers) /\ vm \in Machine /\ Framed(vm)
      /\ compilers \in Seq(Address) /\ Chain(compilers)
  BY <1>1, Calm DEF IInv, Inv
<1>3. os \in Reallocate(objects, vm, compilers)
  BY DEF Reallocate
<1> HIDE DEF os
<1>4. Sane(os) /\ Rooted(os, vm, compilers) /\ Unfinished(os) = {}
  BY <1>2, <1>3, Collects
<1> QED
  BY <1>1, <1>2, <1>4, Leaves

\* The machine with other frames.
LEMMA WithFrames ==
    ASSUME NEW v \in Machine, NEW fs
    PROVE  [v EXCEPT !.frames = fs]
             = [stack |-> v.stack, top |-> v.top, frames |-> fs, open |-> v.open,
                global |-> v.global]
  BY MachineIs

LEMMA CallStep ==
    ASSUME IInv, Call
    PROVE  IInv'
<1> DEFINE fr == [closure |-> Peek(vm), slots |-> vm.top]
           fs == Append(vm.frames, fr)
           v == [vm EXCEPT !.frames = Append(@, fr)]
<1>1. Running /\ Type(Peek(vm)) = "closure" /\ Instruction(v)
  BY DEF Call
<1>2. /\ Typed(objects) /\ Rooted(objects, vm, compilers) /\ vm \in Machine /\ Framed(vm)
  BY <1>1, Calm
<1>3. /\ vm.top \in 1..StackMax /\ Len(vm.frames) \in Nat
      /\ \A i \in 1..Len(vm.frames) : vm.frames[i] \in Frame
      /\ Peek(vm) \in Of(objects, "closure") \cup {Nil}
  BY <1>1, RunningIs
<1>4. Peek(vm) \in Of(objects, "closure") /\ Peek(vm) \in Address
  <2>1. Nil \notin DOMAIN objects
    BY <1>2, AddressIs DEF Typed
  <2>2. Type(Nil) = "free"
    BY <2>1 DEF Type
  <2> QED
    BY <1>1, <1>2, <1>3, <2>2, OfIs
<1>5. fr \in Frame /\ fr.closure = Peek(vm) /\ fr.slots = vm.top
  BY <1>3, <1>4 DEF Frame
<1> HIDE DEF fr
<1>6. /\ fs \in Seq(Frame) /\ Len(fs) = Len(vm.frames) + 1
      /\ \A i \in 1..Len(vm.frames) : fs[i] = vm.frames[i]
      /\ fs[Len(vm.frames) + 1] = fr
  BY <1>2, <1>5, AppendProperties, MachineIs
<1>7. v = [stack |-> vm.stack, top |-> vm.top, frames |-> fs, open |-> vm.open,
           global |-> vm.global]
  <2>1. v = [vm EXCEPT !.frames = fs]
    OBVIOUS
  <2> HIDE DEF v, fs
  <2> QED
    BY <1>2, <2>1, WithFrames
<1> HIDE DEF fs, v
<1>8. v.stack = vm.stack /\ v.top = vm.top /\ v.frames = fs /\ v.open = vm.open
      /\ v.global = vm.global
  BY <1>7
<1>9. v \in Machine
  BY <1>2, <1>6, <1>7, MachineIs DEF Machine
<1>10. \A i \in 1..Len(fs) : i \in 1..Len(vm.frames) \/ i = Len(vm.frames) + 1
  BY <1>3, <1>6
<1>11. Rooted(objects, v, compilers)
  BY <1>2, <1>4, <1>5, <1>6, <1>8, <1>10 DEF Rooted
<1>12. Framed(v)
  <2>1. \A i \in 1..Len(fs) : fs[i].slots <= vm.top
    BY <1>2, <1>3, <1>5, <1>6, <1>10 DEF Framed
  <2>2. \A i, j \in 1..Len(fs) : i <= j => fs[i].slots <= fs[j].slots
    <3> SUFFICES ASSUME NEW i \in 1..Len(fs), NEW j \in 1..Len(fs), i <= j
                 PROVE  fs[i].slots <= fs[j].slots
      OBVIOUS
    <3>1. CASE j \in 1..Len(vm.frames)
      <4>1. i \in 1..Len(vm.frames)
        BY <1>3, <3>1
      <4> QED
        BY <1>2, <1>6, <3>1, <4>1 DEF Framed
    <3>2. CASE j = Len(vm.frames) + 1
      BY <1>5, <1>6, <2>1, <3>2
    <3> QED
      BY <1>10, <3>1, <3>2
  <2> QED
    BY <1>8, <2>1, <2>2 DEF Framed
<1> QED
  BY <1>1, <1>9, <1>11, <1>12, InstructionStep DEF v, fr

LEMMA ErrorStep ==
    ASSUME IInv, Error
    PROVE  IInv'
<1> DEFINE v == [vm EXCEPT !.top = 0, !.frames = <<>>, !.open = <<>>]
<1>1. Running /\ Instruction(v)
  BY DEF Error
<1>2. Rooted(objects, vm, compilers) /\ vm \in Machine
  BY <1>1, Calm
<1>3. v = [stack |-> vm.stack, top |-> 0, frames |-> <<>>, open |-> <<>>,
           global |-> vm.global]
  <2> DEFINE x == [stack |-> vm.stack, top |-> 0, frames |-> vm.frames, open |-> vm.open,
                   global |-> vm.global]
             y == [x EXCEPT !.frames = <<>>]
  <2>1. [vm EXCEPT !.top = 0] = x
    BY <1>2, MachineIs
  <2>2. v = [[[vm EXCEPT !.top = 0] EXCEPT !.frames = <<>>] EXCEPT !.open = <<>>]
    OBVIOUS
  <2>3. y = [stack |-> vm.stack, top |-> 0, frames |-> <<>>, open |-> vm.open,
             global |-> vm.global]
    OBVIOUS
  <2>4. v = [y EXCEPT !.open = <<>>]
    <3> HIDE DEF x, v
    <3> QED
      BY <2>1, <2>2
  <2> HIDE DEF y, v
  <2> QED
    BY <2>3, <2>4
<1> HIDE DEF v
<1>4. v.stack = vm.stack /\ v.top = 0 /\ v.frames = <<>> /\ v.open = <<>>
      /\ v.global = vm.global
  BY <1>3
<1>5. v \in Machine
  <2>1. <<>> \in Seq(Frame) /\ <<>> \in Seq(Address)
    BY EmptySeq
  <2> QED
    BY <1>2, <1>3, <2>1, MachineIs DEF Machine
<1>6. Rooted(objects, v, compilers) /\ Framed(v)
  BY <1>2, <1>4 DEF Rooted, Framed
<1> QED
  BY <1>1, <1>5, <1>6, InstructionStep

LEMMA ReturnStep ==
    ASSUME IInv, Return
    PROVE  IInv'
<1>1. Running /\ vm.top > CurrentFrame.slots
  BY DEF Return
<1>2. /\ Typed(objects) /\ Rooted(objects, vm, compilers) /\ vm \in Machine /\ Framed(vm)
  BY <1>1, Calm
<1> DEFINE n == Len(vm.frames)
           slots == CurrentFrame.slots
<1>3. /\ vm.top \in 1..StackMax /\ n \in Nat \ {0} /\ CurrentFrame = vm.frames[n]
      /\ slots \in 1..vm.top /\ \A i \in 1..n : vm.frames[i] \in Frame
      /\ Peek(vm) \in Of(objects, "closure") \cup {Nil}
      /\ StackMax \in Nat
  BY <1>1, <1>2, RunningIs, MachineIs
<1>4. CASE n = 1
  <2> DEFINE u == [vm EXCEPT !.frames = <<>>]
             v == Drop(u, 2)
  <2>1. Instruction(v)
    BY <1>4 DEF Return
  <2>2. u = [stack |-> vm.stack, top |-> vm.top, frames |-> <<>>, open |-> vm.open,
             global |-> vm.global]
    BY <1>2, MachineIs
  <2> HIDE DEF u
  <2>3. u.stack = vm.stack /\ u.top = vm.top /\ u.frames = <<>> /\ u.open = vm.open
        /\ u.global = vm.global
    BY <2>2
  <2>4. u \in Machine
    <3>1. <<>> \in Seq(Frame)
      BY EmptySeq
    <3> QED
      BY <1>2, <2>2, <3>1, MachineIs DEF Machine
  <2>5. Rooted(objects, u, compilers) /\ Framed(u) /\ Len(u.frames) = 0
    BY <1>2, <2>3 DEF Rooted, Framed
  <2>6. 2 \in Nat /\ 2 <= u.top
    BY <1>1, <1>3, <2>3
  <2>7. v \in Machine /\ Rooted(objects, v, compilers) /\ Framed(v)
    BY <2>4, <2>5, <2>6, RootedDrop
  <2> QED
    BY <2>1, <2>7, InstructionStep
<1>5. CASE n # 1
  <2> DEFINE u == [vm EXCEPT !.top = slots - 1]
             w == Push(u, Peek(vm))
             v == [w EXCEPT !.frames = Front(@)]
  <2>1. Instruction(v)
    BY <1>5 DEF Return
  <2>2. u = [stack |-> vm.stack, top |-> slots - 1, frames |-> vm.frames, open |-> vm.open,
             global |-> vm.global]
    BY <1>2, MachineIs
  <2> HIDE DEF u
  <2>3. u.stack = vm.stack /\ u.top = slots - 1 /\ u.frames = vm.frames /\ u.open = vm.open
        /\ u.global = vm.global
    BY <2>2
  <2>4. slots - 1 \in 0..StackMax /\ slots - 1 < StackMax /\ slots - 1 < vm.top
    BY <1>3
  <2>5. u \in Machine
    BY <1>2, <2>2, <2>4, MachineIs DEF Machine
  <2>6. Peek(vm) \in Value
    BY <1>2, <1>3, OfIs DEF Value
  <2>7. /\ w \in Machine /\ w.top = slots
        /\ \A i \in 1..(slots - 1) : w.stack[i] = vm.stack[i]
        /\ w.stack[slots] = Peek(vm)
        /\ w.frames = vm.frames /\ w.open = vm.open /\ w.global = vm.global
    BY <1>3, <2>3, <2>4, <2>5, <2>6, Pushes
  <2> HIDE DEF w
  <2> DEFINE fs == Front(vm.frames)
  <2>8. fs \in Seq(Frame) /\ Len(fs) = n - 1 /\ \A i \in 1..(n - 1) : fs[i] = vm.frames[i]
    <3>1. vm.frames \in Seq(Frame) /\ vm.frames # <<>>
      BY <1>1, <1>2, MachineIs DEF Running
    <3> QED
      BY <3>1, Fronts
  <2>9. v = [stack |-> w.stack, top |-> w.top, frames |-> fs, open |-> w.open,
             global |-> w.global]
    BY <2>7, MachineIs
  <2> HIDE DEF v, fs
  <2>10. v.stack = w.stack /\ v.top = slots /\ v.frames = fs /\ v.open = vm.open
         /\ v.global = vm.global
    BY <2>7, <2>9
  <2>11. v \in Machine
    BY <2>7, <2>8, <2>9, MachineIs DEF Machine
  <2>12. \A i \in 1..slots : i = slots \/ (i \in 1..(slots - 1) /\ i \in 1..vm.top)
    BY <1>3
  <2>13. \A i \in 1..(n - 1) : i \in 1..n /\ i <= n
    BY <1>3
  <2>14. Rooted(objects, v, compilers)
    BY <1>2, <1>3, <2>7, <2>8, <2>10, <2>12, <2>13 DEF Rooted
  <2>15. Framed(v)
    <3>1. n \in 1..n
      BY <1>3
    <3>2. \A i \in 1..(n - 1) : fs[i].slots <= slots
      BY <1>2, <1>3, <2>8, <2>13, <3>1 DEF Framed
    <3>3. \A i, j \in 1..(n - 1) : i <= j => fs[i].slots <= fs[j].slots
      BY <1>2, <2>8, <2>13 DEF Framed
    <3> QED
      BY <2>8, <2>10, <3>2, <3>3 DEF Framed
  <2> QED
    BY <2>1, <2>11, <2>14, <2>15, InstructionStep
<1> QED
  BY <1>4, <1>5

LEMMA OverreadStep ==
    ASSUME Overread
    PROVE  IInv'
<1>1. objects' = <<>> /\ vm' = NewVM /\ compilers' = <<>> /\ running' = FALSE /\ stray' = FALSE
  BY DEF Overread
<1> QED
  BY <1>1, EmptyHeap DEF IInv

\* The closure that runs and its upvalues.
LEMMA ClosureRuns ==
    ASSUME IInv, ~ stray, vm.frames # <<>>
    PROVE  /\ CurrentFrame.closure \in Of(objects, "closure") /\ CurrentClosure \in Object
           /\ CurrentClosure.type = "closure"
           /\ CurrentClosure.function \in Of(objects, "function")
           /\ CurrentClosure.upvalues \in Seq(Value)
           /\ ToSet(CurrentClosure.upvalues) \subseteq Of(objects, "upvalue") \cup {Nil}
<1> DEFINE a == CurrentFrame.closure
           o == objects[a]
<1>1. a \in Of(objects, "closure")
  BY FrameIs
<1>2. Sane(objects)
  BY DEF IInv, Inv
<1>3. o \in Object /\ o.type = "closure" /\ Refers(objects, o) /\ o = CurrentClosure
  BY <1>1, <1>2 DEF Sane, Typed, Of, CurrentClosure
<1> HIDE DEF o, a
<1>4. o.upvalues \in Seq(Value)
  BY <1>3, ObjectIs
<1>5. ToSet(o.upvalues) = { o.upvalues[i] : i \in 1..Len(o.upvalues) }
  BY <1>4, Members
<1>6. /\ o.function \in Of(objects, "function")
      /\ \A i \in 1..Len(o.upvalues) : o.upvalues[i] \in Of(objects, "upvalue") \cup {Nil}
  BY <1>3 DEF Refers
<1> QED
  BY <1>1, <1>3, <1>4, <1>5, <1>6 DEF a

LEMMA NewClosureStep ==
    ASSUME IInv, NewClosure
    PROVE  IInv'
<1>1. Running /\ vm.top < StackMax /\ UNCHANGED <<compilers, stray>> /\ vm.frames # <<>>
  BY DEF NewClosure, Fits, Running
<1>2. /\ ~ stray /\ Unfinished(objects) = {} /\ Sane(objects)
      /\ Rooted(objects, vm, compilers) /\ vm \in Machine /\ Framed(vm)
      /\ compilers \in Seq(Address) /\ Chain(compilers)
  BY <1>1, Calm DEF IInv, Inv
<1> DEFINE c == CurrentFrame.closure
           fn == CurrentClosure.function
<1>3. PICK f \in ToSet(objects[fn].constants), os \in Reallocate(objects, vm, compilers) :
        /\ Room(os)
        /\ Keep(Allocate(os, Closure(f, objects[f].upvalueCount)), Push(vm, NewAddress(os)))
  BY DEF NewClosure
<1> DEFINE a == NewAddress(os)
           o == Closure(f, objects[f].upvalueCount)
           more == Allocate(os, o)
           v == Push(vm, a)
<1>4. /\ Sane(os) /\ Rooted(os, vm, compilers) /\ Unfinished(os) = {} /\ Shrinks(objects, os)
      /\ Roots(vm, compilers) \subseteq DOMAIN os
      /\ \A b \in DOMAIN os : b \in DOMAIN objects /\ os[b] = objects[b]
  BY <1>2, <1>3, Collects
<1>5. /\ c \in Of(objects, "closure") /\ fn \in Of(objects, "function")
      /\ CurrentClosure = objects[c] /\ CurrentClosure \in Object
      /\ CurrentClosure.type = "closure"
  BY <1>1, <1>2, ClosureRuns DEF CurrentClosure
<1>6. c \in DOMAIN os
  <2>1. Len(vm.frames) \in 1..Len(vm.frames) /\ c = vm.frames[Len(vm.frames)].closure
    BY <1>1, RunningIs
  <2> QED
    BY <1>4, <2>1 DEF Rooted, Of
<1>7. fn \in DOMAIN os
  <2>1. fn \in Blackened(objects[c])
    BY <1>2, <1>5, BlackenedIs, OfIs DEF Sane
  <2> QED
    BY <1>4, <1>6, <2>1 DEF Shrinks
<1>8. objects[fn] \in Object /\ objects[fn].type = "function" /\ Refers(objects, objects[fn])
  BY <1>2, <1>5 DEF Sane, Typed, Of
<1> HIDE DEF fn, c
<1>9. f \in Of(objects, "function") /\ f \in Blackened(objects[fn])
  <2>1. objects[fn].constants \in Seq(Address)
    BY <1>8, ObjectIs
  <2>2. PICK i \in 1..Len(objects[fn].constants) : f = objects[fn].constants[i]
    BY <1>3, <2>1, Members
  <2> QED
    BY <1>8, <2>2, BlackenedIs DEF Refers
<1>10. f \in DOMAIN os
  BY <1>4, <1>7, <1>9 DEF Shrinks
<1>11. f \in Of(os, "function") /\ os[f] = objects[f] /\ objects[f].upvalueCount \in Nat
  <2>1. objects[f] \in Object /\ objects[f].type = "function"
    BY <1>2, <1>9 DEF Sane, Typed, Of
  <2> QED
    BY <1>4, <1>10, <2>1, ObjectIs DEF Of
<1>12. o \in Object /\ o.type = "closure" /\ Refers(os, o)
  BY <1>4, <1>11, ClosureIs DEF Sane
<1> HIDE DEF o
<1>13. /\ a \in Address /\ a \in DOMAIN more /\ more[a] = o
       /\ Extends(os, more) /\ Unfinished(more) \subseteq {a}
  <2>1. Typed(os) /\ Room(os)
    BY <1>3, <1>4 DEF Sane
  <2>2. /\ a \in Address /\ DOMAIN more = DOMAIN os \cup {a} /\ more[a] = o
        /\ Extends(os, more) /\ Unfinished(more) \subseteq Unfinished(os) \cup {a}
    BY <1>12, <2>1, Allocates
  <2> HIDE DEF a, more
  <2> QED
    BY <1>4, <2>2
<1>14. Sane(more)
  BY <1>3, <1>4, <1>12, SaneMore
<1>15. Keep(more, v)
  BY <1>3 DEF o
<1> HIDE DEF more, a
<1>16. a \in Of(more, "closure")
  BY <1>12, <1>13 DEF Of
<1>17. Rooted(more, vm, compilers)
  BY <1>2, <1>4, <1>13, RootedOn
<1>18. v \in Machine /\ Rooted(more, v, compilers) /\ Framed(v)
  BY <1>1, <1>2, <1>14, <1>16, <1>17, RootedPush DEF Sane
<1>19. Peek(v) = a /\ v.top = vm.top + 1 /\ v.frames = vm.frames
  BY <1>1, <1>2, <1>13, Pushes DEF Value
<1> HIDE DEF v
<1>20. OneUnfinished(more, v)
  <2>1. v.top > 0
    BY <1>2, <1>19, MachineIs
  <2> QED
    BY <1>1, <1>13, <1>19, <2>1 DEF OneUnfinished
<1> QED
  BY <1>1, <1>2, <1>14, <1>15, <1>18, <1>20, LeavesOne

-----------------------------------------------------------------------------
(* Upvalues. *)

\* The closure that is made gets an upvalue.
LEMMA SetsUpvalue ==
    ASSUME NEW os, Sane(os), Peek(vm) \in Unfinished(os), NEW u \in Of(os, "upvalue") \cup {Nil}
    PROVE  /\ Sane(SetUpvalueOf(os, u)) /\ Extends(os, SetUpvalueOf(os, u))
           /\ Unfinished(SetUpvalueOf(os, u)) \subseteq Unfinished(os)
<1> DEFINE a == Peek(vm)
           o == os[a]
           us == o.upvalues
           n == Len(us)
           Free(k) == us[k] = Nil /\ \A j \in 1..k - 1 : us[j] # Nil
<1>1. a \in DOMAIN os /\ o.type = "closure" /\ o \in Object /\ Refers(os, o) /\ Nil \in ToSet(us)
  BY DEF Unfinished, Of, Sane, Typed
<1>2. us \in Seq(Value) /\ n \in Nat /\ DOMAIN us = 1..n /\ o.function \in Address
  BY <1>1, ObjectIs, LenProperties
<1>3. \E k \in DOMAIN us : Free(k)
  <2> DEFINE T == { k \in 1..n : us[k] = Nil }
  <2>1. T # {} /\ T \subseteq Nat
    BY <1>1, <1>2, Members
  <2>2. PICK k \in T : \A j \in T : k <= j
    BY <2>1, Least
  <2>3. k \in 1..n /\ us[k] = Nil
    BY <2>2
  <2>4. \A j \in 1..k - 1 : us[j] # Nil
    <3> SUFFICES ASSUME NEW j \in 1..k - 1, us[j] = Nil  PROVE FALSE
      OBVIOUS
    <3>1. j \in 1..n /\ j < k
      BY <1>2, <2>3
    <3>2. j \in T
      BY <3>1
    <3> QED
      BY <2>2, <2>3, <3>1, <3>2
  <2> QED
    BY <1>2, <2>3, <2>4
<1> DEFINE i == CHOOSE k \in DOMAIN us : Free(k)
           vs == [us EXCEPT ![i] = u]
           p == [type |-> "closure", function |-> o.function, upvalues |-> vs]
<1>4. i \in 1..n
  BY <1>2, <1>3
<1>5. SetUpvalueOf(os, u) = [os EXCEPT ![a].upvalues[i] = u]
  BY DEF SetUpvalueOf
<1> HIDE DEF i
<1>6. SetUpvalueOf(os, u) = [os EXCEPT ![a] = [o EXCEPT !.upvalues[i] = u]]
  BY <1>5
<1>7. [o EXCEPT !.upvalues[i] = u] = p
  BY <1>1, NewUpvalues
<1>8. u \in Value
  BY OfIs DEF Sane, Value
<1>9. vs \in Seq(Value) /\ Len(vs) = n /\ \A j \in 1..n : vs[j] = us[j] \/ vs[j] = u
  BY <1>2, <1>4, <1>8, ExceptSeq
<1> HIDE DEF vs
<1>10. p \in Object /\ p.type = "closure" /\ p.function = o.function /\ p.upvalues = vs
  BY <1>2, <1>9 DEF Object
<1>11. Refers(os, p)
  BY <1>1, <1>9, <1>10 DEF Refers
<1> HIDE DEF p
<1> DEFINE new == SetUpvalueOf(os, u)
<1>12. new = [os EXCEPT ![a] = p]
  BY <1>6, <1>7
<1>13. p.type = o.type /\ p.type # "function"
  BY <1>1, <1>10
<1> HIDE DEF new
<1>14. Sane(new) /\ Extends(os, new) /\ Unfinished(new) \subseteq Unfinished(os) \cup {a}
  BY <1>1, <1>10, <1>11, <1>12, <1>13, Replaces
<1> QED
  BY <1>14 DEF new

\* Where the loops of captureUpvalue and closeUpvalues stop.
LEMMA AboveIs ==
    ASSUME IInv, ~ stray, NEW s \in Nat
    PROVE  /\ Above(s) \in 0..Len(vm.open)
           /\ \A i \in 1..Above(s) : objects[vm.open[i]].location > s
<1> DEFINE n == Len(vm.open)
           loc(i) == objects[vm.open[i]].location
           Stops(k) == /\ \A i \in 1..k : loc(i) > s
                       /\ k < n => loc(k + 1) <= s
           T == { k \in 0..n : k < n => loc(k + 1) <= s }
<1>1. n \in Nat
  BY LenProperties DEF IInv, Inv, Machine
<1>2. \A i \in 1..n : loc(i) \in Nat
  <2> SUFFICES ASSUME NEW i \in 1..n  PROVE loc(i) \in Nat
    OBVIOUS
  <2>1. vm.open[i] \in Of(objects, "upvalue") /\ Typed(objects)
    BY DEF IInv, Inv, Rooted
  <2>2. objects[vm.open[i]] \in Object /\ objects[vm.open[i]].type = "upvalue"
    BY <2>1 DEF Of, Typed
  <2> QED
    BY <2>2, ObjectIs
<1>3. T \subseteq Nat /\ n \in T
  BY <1>1
<1>4. PICK k \in T : \A j \in T : k <= j
  BY <1>3, Least, Zenon
<1>5. k \in 0..n /\ (k < n => loc(k + 1) <= s)
  OBVIOUS
<1>6. \A i \in 1..k : loc(i) > s
  <2> SUFFICES ASSUME NEW i \in 1..k, ~ loc(i) > s  PROVE FALSE
    OBVIOUS
  <2>1. i \in 1..n /\ i - 1 \in 0..n /\ i - 1 < n /\ (i - 1) + 1 = i /\ ~ k <= i - 1
    BY <1>1, <1>5
  <2>2. loc(i) <= s
    BY <1>2, <2>1
  <2>3. i - 1 \in T
    BY <2>1, <2>2
  <2> QED
    BY <1>4, <2>1, <2>3
<1>7. Stops(k)
  BY <1>5, <1>6
<1>8. Above(s) = CHOOSE x \in 0..n : Stops(x)
  BY DEF Above
<1> HIDE DEF Stops, T
<1>9. Above(s) \in 0..n /\ Stops(Above(s))
  BY <1>5, <1>7, <1>8
<1> QED
  BY <1>9 DEF Stops


\* The first objects of a list, and the others.
LEMMA Parts ==
    ASSUME NEW S, NEW s \in Seq(S), NEW n \in 0..Len(s)
    PROVE  /\ SubSeq(s, 1, n) \in Seq(S) /\ Len(SubSeq(s, 1, n)) = n
           /\ \A i \in 1..n : SubSeq(s, 1, n)[i] = s[i]
           /\ SubSeq(s, n + 1, Len(s)) \in Seq(S)
<1>1. Len(s) \in Nat /\ \A i \in 1..Len(s) : s[i] \in S
  BY LenProperties, ElementOfSeq
<1>2. 1 \in Int /\ n \in Int /\ n \in Nat /\ \A i \in 1..n : s[i] \in S
  BY <1>1
<1>3. n + 1 \in Int /\ Len(s) \in Int /\ \A i \in (n + 1)..Len(s) : s[i] \in S
  BY <1>1
<1>4. /\ SubSeq(s, 1, n) \in Seq(S)
      /\ Len(SubSeq(s, 1, n)) = IF 1 <= n THEN n - 1 + 1 ELSE 0
      /\ \A i \in 1..(n - 1 + 1) : SubSeq(s, 1, n)[i] = s[1 + i - 1]
  BY <1>2, SubSeqProperties
<1>5. SubSeq(s, n + 1, Len(s)) \in Seq(S)
  BY <1>3, SubSeqProperties
<1>6. n - 1 + 1 = n /\ \A i \in 1..n : 1 + i - 1 = i
  BY <1>2
<1>7. (IF 1 <= n THEN n - 1 + 1 ELSE 0) = n
  BY <1>2
<1> QED
  BY <1>4, <1>5, <1>6, <1>7

LEMMA Inserts ==
    ASSUME NEW S, NEW s \in Seq(S), NEW n \in 0..Len(s), NEW x \in S
    PROVE  InsertAt(s, n + 1, x) \in Seq(S)
<1>1. n \in Nat
  BY LenProperties
<1>2. (n + 1) - 1 = n
  BY <1>1
<1>3. InsertAt(s, n + 1, x) = SubSeq(s, 1, n) \o <<x>> \o SubSeq(s, n + 1, Len(s))
  BY <1>2 DEF InsertAt
<1>4. SubSeq(s, 1, n) \in Seq(S) /\ SubSeq(s, n + 1, Len(s)) \in Seq(S)
  BY Parts
<1>5. <<x>> \in Seq(S)
  OBVIOUS
<1>6. SubSeq(s, 1, n) \o <<x>> \in Seq(S)
  BY <1>4, <1>5, ConcatProperties
<1> QED
  BY <1>3, <1>4, <1>6, ConcatProperties

\* The machine with other open upvalues.
LEMMA WithOpen ==
    ASSUME NEW os, NEW v \in Machine, NEW cs, Rooted(os, v, cs), Framed(v), Typed(os),
           NEW us \in Seq(Of(os, "upvalue"))
    PROVE  LET w == [v EXCEPT !.open = us]
           IN  /\ w \in Machine /\ Rooted(os, w, cs) /\ Framed(w)
               /\ w.stack = v.stack /\ w.top = v.top /\ w.frames = v.frames
               /\ w.open = us /\ w.global = v.global
<1> DEFINE w == [v EXCEPT !.open = us]
<1>1. w = [stack |-> v.stack, top |-> v.top, frames |-> v.frames, open |-> us,
           global |-> v.global]
  BY MachineIs
<1> HIDE DEF w
<1>2. /\ w.stack = v.stack /\ w.top = v.top /\ w.frames = v.frames /\ w.open = us
      /\ w.global = v.global
  BY <1>1
<1>3. us \in Seq(Address)
  BY OfIs, SeqMonotonic
<1>4. w \in Machine
  BY <1>1, <1>3, MachineIs DEF Machine
<1>5. \A i \in 1..Len(us) : us[i] \in Of(os, "upvalue")
  BY ElementOfSeq
<1>6. Rooted(os, w, cs) /\ Framed(w)
  BY <1>2, <1>5 DEF Rooted, Framed
<1> QED
  BY <1>2, <1>4, <1>6 DEF w

\* A closure without some of its upvalues is on the stack.
LEMMA MakingIs ==
    ASSUME IInv, Making(vm, objects)
    PROVE  /\ Peek(vm) \in Unfinished(objects) /\ ~ stray /\ vm.frames # <<>>
           /\ Sane(objects) /\ Rooted(objects, vm, compilers) /\ vm \in Machine /\ Framed(vm)
           /\ compilers \in Seq(Address) /\ Chain(compilers) /\ vm.top > 0
           /\ Unfinished(objects) \subseteq {Peek(vm)}
<1>1. Peek(vm) \in Unfinished(objects) /\ vm.top > 0
  BY DEF Making, Unfinished, Of
<1>2. ~ stray /\ vm.frames # <<>> /\ Unfinished(objects) \subseteq {Peek(vm)}
  BY <1>1 DEF IInv, Inv, OneUnfinished
<1> QED
  BY <1>1, <1>2 DEF IInv, Inv, Chain

LEMMA SameElements ==
    ASSUME NEW S, NEW s \in Seq(S), NEW T, \A i \in 1..Len(s) : s[i] \in T
    PROVE  s \in Seq(T)
<1>1. s = [i \in 1..Len(s) |-> s[i]] /\ Len(s) \in Nat
  BY LenProperties
<1>2. s \in [1..Len(s) -> T]
  BY <1>1
<1> QED
  BY <1>1, <1>2, SeqDef

\* The next upvalue of the closure that is made is u, and os what there is.
LEMMA Captured ==
    ASSUME IInv, UNCHANGED <<compilers, stray>>, ~ stray, NEW os, Sane(os),
           NEW v \in Machine, Rooted(os, v, compilers), Framed(v), vm.frames # <<>>, vm.top > 0,
           v.stack = vm.stack, v.top = vm.top, v.frames = vm.frames,
           Peek(vm) \in Unfinished(os), Unfinished(os) \subseteq {Peek(vm)},
           NEW u \in Of(os, "upvalue") \cup {Nil}, Keep(SetUpvalueOf(os, u), v)
    PROVE  IInv'
<1> DEFINE new == SetUpvalueOf(os, u)
<1>1. Sane(new) /\ Extends(os, new) /\ Unfinished(new) \subseteq Unfinished(os)
  BY SetsUpvalue
<1>2. Keep(new, v)
  OBVIOUS
<1> HIDE DEF new
<1>3. Chain(compilers) /\ compilers \in Seq(Address)
  BY DEF IInv, Inv, Chain
<1>4. Rooted(new, v, compilers)
  BY <1>1, <1>3, RootedOn
<1>5. OneUnfinished(new, v)
  BY <1>1 DEF OneUnfinished, Peek
<1>6. Chain(compilers') /\ Rooted(new, v, compilers')
  BY <1>3, <1>4
<1> QED
  BY <1>1, <1>2, <1>5, <1>6, LeavesOne

LEMMA UpvalueIs ==
    ASSUME NEW slot \in 0..StackMax, NEW os
    PROVE  /\ Upvalue(slot) \in Object /\ Upvalue(slot).type = "upvalue"
           /\ Refers(os, Upvalue(slot))
<1>1. Nil \in Value
  BY DEF Value
<1> QED
  BY <1>1 DEF Upvalue, Object, Refers

LEMMA CaptureStep ==
    ASSUME IInv, NEW slot \in 1..StackMax, Capture(slot)
    PROVE  IInv'
<1>1. Making(vm, objects) /\ slot \in Locals /\ UNCHANGED <<compilers, stray>>
  BY DEF Capture
<1>2. /\ Peek(vm) \in Unfinished(objects) /\ ~ stray /\ vm.frames # <<>>
      /\ Sane(objects) /\ Rooted(objects, vm, compilers) /\ vm \in Machine /\ Framed(vm)
      /\ compilers \in Seq(Address) /\ vm.top > 0 /\ Unfinished(objects) \subseteq {Peek(vm)}
  BY <1>1, MakingIs
<1> DEFINE n == Above(slot)
           found == n < Len(vm.open) /\ objects[vm.open[n + 1]].location = slot
<1>3. \/ \E a \in ToSet(CurrentClosure.upvalues) : Keep(SetUpvalueOf(objects, a), vm)
      \/ found /\ Keep(SetUpvalueOf(objects, vm.open[n + 1]), vm)
      \/ /\ ~ found
         /\ \E os \in Reallocate(objects, vm, compilers) :
             LET u == NewAddress(os)
             IN  /\ Room(os)
                 /\ Keep(SetUpvalueOf(Allocate(os, Upvalue(slot)), u),
                         [vm EXCEPT !.open = InsertAt(@, n + 1, u)])
  BY DEF Capture
<1>4. n \in 0..Len(vm.open) /\ vm.open \in Seq(Address) /\ Len(vm.open) \in Nat
  <2>1. slot \in Nat
    OBVIOUS
  <2> QED
    BY <1>2, <2>1, AboveIs, MachineIs, LenProperties
<1> HIDE DEF n
<1>5. ASSUME NEW u \in Of(objects, "upvalue") \cup {Nil}, Keep(SetUpvalueOf(objects, u), vm)
      PROVE  IInv'
  BY <1>1, <1>2, <1>5, Captured
<1>6. CASE \E a \in ToSet(CurrentClosure.upvalues) : Keep(SetUpvalueOf(objects, a), vm)
  <2>1. ToSet(CurrentClosure.upvalues) \subseteq Of(objects, "upvalue") \cup {Nil}
    BY <1>2, ClosureRuns
  <2> QED
    BY <1>5, <1>6, <2>1
<1>7. CASE found /\ Keep(SetUpvalueOf(objects, vm.open[n + 1]), vm)
  <2>1. n + 1 \in 1..Len(vm.open)
    BY <1>4, <1>7
  <2>2. vm.open[n + 1] \in Of(objects, "upvalue")
    BY <1>2, <2>1 DEF Rooted
  <2> QED
    BY <1>5, <1>7, <2>2
<1>8. CASE \E os \in Reallocate(objects, vm, compilers) :
             LET u == NewAddress(os)
             IN  /\ Room(os)
                 /\ Keep(SetUpvalueOf(Allocate(os, Upvalue(slot)), u),
                         [vm EXCEPT !.open = InsertAt(@, n + 1, u)])
  <2>1. PICK os \in Reallocate(objects, vm, compilers) :
          /\ Room(os)
          /\ Keep(SetUpvalueOf(Allocate(os, Upvalue(slot)), NewAddress(os)),
                  [vm EXCEPT !.open = InsertAt(@, n + 1, NewAddress(os))])
    BY <1>8
  <2> DEFINE u == NewAddress(os)
             o == Upvalue(slot)
             more == Allocate(os, o)
             us == InsertAt(vm.open, n + 1, u)
             v == [vm EXCEPT !.open = us]
  <2>2. /\ Sane(os) /\ Rooted(os, vm, compilers) /\ Unfinished(os) \subseteq Unfinished(objects)
        /\ Roots(vm, compilers) \subseteq DOMAIN os
        /\ \A b \in DOMAIN os : b \in DOMAIN objects /\ os[b] = objects[b]
    BY <1>2, <2>1, Collects
  <2>3. slot \in 0..StackMax
    OBVIOUS
  <2>4. o \in Object /\ o.type = "upvalue" /\ Refers(os, o)
    BY <2>3, UpvalueIs
  <2>5. Keep(SetUpvalueOf(more, u), v)
    BY <2>1
  <2> HIDE DEF o
  <2>6. Typed(os) /\ Room(os)
    BY <2>1, <2>2 DEF Sane
  <2>7. /\ u \in Address /\ u \notin DOMAIN os /\ DOMAIN more = DOMAIN os \cup {u}
        /\ more[u] = o /\ \A b \in DOMAIN os : more[b] = os[b]
        /\ Extends(os, more) /\ Unfinished(more) \subseteq Unfinished(os) \cup {u}
    BY <2>4, <2>6, Allocates
  <2>8. Sane(more)
    BY <2>2, <2>4, <2>6, SaneMore
  <2> HIDE DEF more, u
  <2>9. u \in Of(more, "upvalue") /\ Unfinished(more) \subseteq {Peek(vm)}
    BY <1>2, <2>2, <2>4, <2>7 DEF Of, Unfinished
  <2>10. Peek(vm) \in Unfinished(more)
    <3>1. Peek(vm) \in DOMAIN objects /\ Peek(vm) # Nil
      BY <1>2, OfIs DEF Unfinished, Sane
    <3>2. vm.top \in 1..vm.top
      BY <1>2, MachineIs
    <3>3. Peek(vm) \in DOMAIN os
      BY <1>2, <2>2, <3>1, <3>2, RootsAre DEF Peek
    <3>4. Peek(vm) \in DOMAIN more /\ more[Peek(vm)] = objects[Peek(vm)]
      BY <2>2, <2>7, <3>3
    <3> QED
      BY <1>2, <3>4 DEF Unfinished, Of
  <2>11. Rooted(more, vm, compilers)
    BY <1>2, <2>2, <2>7, RootedOn
  <2>12. vm.open \in Seq(Of(more, "upvalue"))
    <3>1. \A i \in 1..Len(vm.open) : vm.open[i] \in Of(more, "upvalue")
      BY <2>11 DEF Rooted
    <3> QED
      BY <1>4, <3>1, SameElements
  <2>13. us \in Seq(Of(more, "upvalue"))
    BY <1>4, <2>9, <2>12, Inserts
  <2> HIDE DEF us
  <2>14. /\ v \in Machine /\ Rooted(more, v, compilers) /\ Framed(v)
         /\ v.stack = vm.stack /\ v.top = vm.top /\ v.frames = vm.frames
    BY <1>2, <2>8, <2>11, <2>13, WithOpen DEF Sane
  <2> HIDE DEF v
  <2> QED
    BY <1>1, <1>2, <2>5, <2>8, <2>9, <2>10, <2>14, Captured
<1> QED
  BY <1>3, <1>6, <1>7, <1>8

\* An action after which a stray slot was used.
LEMMA Strays ==
    ASSUME IInv, stray' = TRUE, UNCHANGED compilers, vm.frames # <<>>,
           NEW os, NEW v, Keep(os, v), Typed(os), v \in Machine, Framed(v),
           v.frames = vm.frames, Unfinished(os) = {}
    PROVE  IInv'
<1>1. running' = running
  BY DEF Keep
<1>2. running' \in BOOLEAN /\ stray' \in BOOLEAN /\ Chain(compilers')
  <2>1. running \in BOOLEAN /\ Chain(compilers)
    BY Zenon DEF IInv, Inv
  <2> QED
    BY <1>1, <2>1
<1>3. OneUnfinished(os, v)
  BY DEF OneUnfinished
<1>4. v.frames # <<>>
  OBVIOUS
<1>5. Inv(os, v, compilers', running', stray')
  BY <1>2, <1>3, <1>4, Zenon DEF Inv
<1> QED
  BY <1>5, Keeps

LEMMA CloseUpvalueStep ==
    ASSUME IInv, CloseUpvalue
    PROVE  IInv'
<1>1. Running /\ vm.top > CurrentFrame.slots /\ UNCHANGED compilers /\ vm.frames # <<>>
  BY DEF CloseUpvalue, Running
<1>2. /\ ~ stray /\ Unfinished(objects) = {} /\ Sane(objects) /\ Typed(objects)
      /\ Rooted(objects, vm, compilers) /\ vm \in Machine /\ Framed(vm)
      /\ compilers \in Seq(Address) /\ Chain(compilers)
  BY <1>1, Calm DEF IInv, Inv
<1>3. vm.top \in 1..StackMax /\ vm.open \in Seq(Address) /\ StackMax \in Nat
      /\ vm.stack \in [1..StackMax -> Value]
  BY <1>1, <1>2, RunningIs, MachineIs
<1> DEFINE n == Above(vm.top - 1)
           closing == ToSet(SubSeq(vm.open, 1, n))
           x(a) == vm.stack[objects[a].location]
           new == [a \in DOMAIN objects |->
                       IF a \in closing
                       THEN [objects[a] EXCEPT !.closed = x(a), !.location = 0]
                       ELSE objects[a]]
           us == SubSeq(vm.open, n + 1, Len(vm.open))
           v == [vm EXCEPT !.open = us]
<1>4. Keep(new, Drop(v, 1)) /\ stray' = \E a \in closing : objects[a].location > vm.top
  BY DEF CloseUpvalue
<1>5. n \in 0..Len(vm.open) /\ \A i \in 1..n : objects[vm.open[i]].location > vm.top - 1
  <2>1. vm.top - 1 \in Nat
    BY <1>3
  <2> QED
    BY <1>2, <2>1, AboveIs
<1> HIDE DEF n
<1>6. \A a \in closing : a \in Of(objects, "upvalue") /\ objects[a].location > vm.top - 1
  <2> DEFINE s == SubSeq(vm.open, 1, n)
  <2>1. s \in Seq(Address) /\ Len(s) = n /\ \A i \in 1..n : s[i] = vm.open[i]
    BY <1>3, <1>5, Parts
  <2> HIDE DEF s
  <2>2. ToSet(s) = { s[i] : i \in 1..n }
    BY <2>1, Members
  <2>3. closing = ToSet(s)
    BY DEF s
  <2>4. \A i \in 1..n : i \in 1..Len(vm.open)
    BY <1>3, <1>5, LenProperties
  <2> HIDE DEF closing
  <2> QED
    BY <1>2, <1>5, <2>1, <2>2, <2>3, <2>4 DEF Rooted
<1> HIDE DEF closing
<1>7. ASSUME NEW a \in closing
      PROVE  /\ objects[a].location \in vm.top..StackMax /\ x(a) \in Value
             /\ a \in DOMAIN objects /\ objects[a].type = "upvalue" /\ objects[a] \in Object
             /\ new[a] = [type |-> "upvalue", location |-> 0, closed |-> x(a)]
  <2>1. a \in DOMAIN objects /\ objects[a].type = "upvalue" /\ objects[a] \in Object
    BY <1>2, <1>6 DEF Of, Typed
  <2>2. objects[a].location \in 0..StackMax /\ objects[a].location > vm.top - 1
    BY <1>6, <2>1, ObjectIs
  <2>3. objects[a].location \in vm.top..StackMax /\ objects[a].location \in 1..StackMax
    BY <1>3, <2>2
  <2>4. x(a) \in Value
    BY <1>3, <2>3
  <2>5. [objects[a] EXCEPT !.closed = x(a), !.location = 0]
          = [type |-> "upvalue", location |-> 0, closed |-> x(a)]
    BY <2>1, NewClosed
  <2>6. new[a] = [objects[a] EXCEPT !.closed = x(a), !.location = 0]
    BY <2>1
  <2> QED
    BY <2>1, <2>3, <2>4, <2>5, <2>6
<1>8. /\ DOMAIN new = DOMAIN objects /\ new = [a \in DOMAIN new |-> new[a]]
      /\ \A a \in DOMAIN objects : a \notin closing => new[a] = objects[a]
  OBVIOUS
<1>9. Keep(new, Drop(v, 1))
  BY <1>4
<1> HIDE DEF new, x
<1>10. \A a \in closing : /\ new[a] \in Object /\ new[a].type = objects[a].type
                          /\ new[a].type = "upvalue" /\ new[a].closed = x(a)
  <2> SUFFICES ASSUME NEW a \in closing
               PROVE  /\ new[a] \in Object /\ new[a].type = objects[a].type
                      /\ new[a].type = "upvalue" /\ new[a].closed = x(a)
    OBVIOUS
  <2> DEFINE y == x(a)
  <2>1. 0 \in 0..StackMax
    BY <1>3
  <2>2. new[a] = [type |-> "upvalue", location |-> 0, closed |-> y] /\ y \in Value
        /\ objects[a].type = "upvalue"
    BY <1>7
  <2>3. y = x(a)
    OBVIOUS
  <2> HIDE DEF y
  <2> QED
    BY <2>1, <2>2, <2>3 DEF Object
<1>11. Typed(new) /\ \A type : Of(new, type) = Of(objects, type)
  BY <1>2, <1>8, <1>10 DEF Typed, Of
<1>12. Unfinished(new) = {}
  <2>1. \A a \in Of(new, "closure") : new[a] = objects[a] /\ a \in Of(objects, "closure")
    BY <1>8, <1>10, <1>11 DEF Of
  <2> QED
    BY <1>2, <2>1 DEF Unfinished
<1>13. us \in Seq(Of(objects, "upvalue"))
  <2>1. \A i \in 1..Len(vm.open) : vm.open[i] \in Of(objects, "upvalue")
    BY <1>2 DEF Rooted
  <2>2. vm.open \in Seq(Of(objects, "upvalue"))
    BY <1>3, <2>1, SameElements
  <2> QED
    BY <1>5, <2>2, Parts
<1> HIDE DEF us
<1>14. /\ v \in Machine /\ Rooted(objects, v, compilers) /\ Framed(v)
       /\ v.top = vm.top /\ v.frames = vm.frames
  BY <1>2, <1>13, WithOpen
<1> HIDE DEF v
<1> DEFINE w == Drop(v, 1)
<1>15. w \in Machine /\ Rooted(objects, w, compilers) /\ Framed(w)
  <2>1. \A i \in 1..Len(v.frames) : v.frames[i].slots <= v.top - 1
    BY <1>1, <1>14, AboveFrames
  <2>2. 1 \in Nat /\ 1 <= v.top
    BY <1>3, <1>14
  <2> QED
    BY <1>14, <2>1, <2>2, RootedDrop
<1>16. w.frames = vm.frames
  <2>1. 1 \in Nat /\ 1 <= v.top
    BY <1>3, <1>14
  <2> QED
    BY <1>14, <2>1, Drops
<1>17. Keep(new, w)
  BY <1>9
<1> HIDE DEF w
<1>18. CASE \E a \in closing : objects[a].location > vm.top
  <2>1. stray' = TRUE
    BY <1>4, <1>18
  <2> QED
    BY <1>1, <1>11, <1>12, <1>15, <1>16, <1>17, <2>1, Strays
<1>19. CASE ~ \E a \in closing : objects[a].location > vm.top
  <2>1. UNCHANGED stray
    <3>1. stray' = FALSE
      BY <1>4, <1>19
    <3>2. stray \in BOOLEAN
      BY Zenon DEF IInv, Inv
    <3> QED
      BY <1>2, <3>1, <3>2
  <2>2. \A a \in closing : x(a) \in Of(objects, "closure") \cup {Nil}
    <3> SUFFICES ASSUME NEW a \in closing  PROVE x(a) \in Of(objects, "closure") \cup {Nil}
      OBVIOUS
    <3> DEFINE slot == objects[a].location
    <3>1. slot \in vm.top..StackMax /\ ~ slot > vm.top
      BY <1>7, <1>19
    <3> HIDE DEF slot
    <3>2. slot = vm.top /\ vm.top \in 1..vm.top
      BY <1>3, <3>1
    <3> QED
      BY <1>2, <3>2 DEF x, slot, Rooted
  <2>3. \A a \in DOMAIN objects :
          /\ new[a] \in Object /\ new[a].type = objects[a].type /\ Refers(objects, new[a])
          /\ objects[a].type = "function" => new[a].upvalueCount = objects[a].upvalueCount
    <3>1. \A a \in closing : Refers(objects, new[a]) /\ objects[a].type # "function"
      BY <1>10, <2>2 DEF Refers
    <3>2. \A a \in DOMAIN objects : objects[a] \in Object /\ Refers(objects, objects[a])
      BY <1>2 DEF Sane, Typed
    <3> QED
      BY <1>8, <1>10, <3>1, <3>2
  <2>4. Sane(new) /\ Extends(objects, new)
    BY <1>2, <1>8, <2>3, Updates
  <2>5. Rooted(new, w, compilers) /\ compilers' = compilers
    BY <1>1, <1>2, <1>15, <2>4, RootedOn
  <2> QED
    BY <1>2, <1>12, <1>15, <1>17, <2>1, <2>4, <2>5, Leaves
<1> QED
  BY <1>18, <1>19

LEMMA UseUpvalueStep ==
    ASSUME IInv, UseUpvalue
    PROVE  IInv'
<1>1. Running /\ UNCHANGED compilers /\ vm.frames # <<>>
  BY DEF UseUpvalue, Running
<1>2. /\ ~ stray /\ Unfinished(objects) = {} /\ Sane(objects) /\ Typed(objects)
      /\ Rooted(objects, vm, compilers) /\ vm \in Machine /\ Framed(vm)
      /\ compilers \in Seq(Address) /\ Chain(compilers) /\ stray \in BOOLEAN
  <2>1. stray \in BOOLEAN /\ Chain(compilers)
    BY Zenon DEF IInv, Inv
  <2> QED
    BY <1>1, <2>1, Calm
<1>3. /\ vm.top \in 1..StackMax /\ StackMax \in Nat /\ vm.stack \in [1..StackMax -> Value]
      /\ Peek(vm) \in Of(objects, "closure") \cup {Nil}
  BY <1>1, <1>2, RunningIs, MachineIs
<1>4. PICK u \in ToSet(CurrentClosure.upvalues) :
        LET slot == objects[u].location
        IN  /\ \/ /\ Fits
                  /\ Keep(objects, Push(vm, IF slot = 0 THEN objects[u].closed
                                                        ELSE vm.stack[slot]))
               \/ IF slot = 0
                  THEN Keep([objects EXCEPT ![u].closed = Peek(vm)], vm)
                  ELSE Keep(objects, [vm EXCEPT !.stack[slot] = Peek(vm)])
            /\ stray' = (slot > vm.top)
  BY DEF UseUpvalue
<1> DEFINE slot == objects[u].location
           o == objects[u]
           x == IF slot = 0 THEN o.closed ELSE vm.stack[slot]
<1>5. u \in Of(objects, "upvalue")
  <2>1. /\ CurrentFrame.closure \in Of(objects, "closure")
        /\ ToSet(CurrentClosure.upvalues) \subseteq Of(objects, "upvalue") \cup {Nil}
    BY <1>1, <1>2, ClosureRuns
  <2>2. Nil \notin ToSet(CurrentClosure.upvalues)
    BY <1>2, <2>1 DEF Unfinished, CurrentClosure
  <2> QED
    BY <2>1, <2>2
<1>6. /\ u \in DOMAIN objects /\ o.type = "upvalue" /\ o \in Object /\ Refers(objects, o)
      /\ slot \in 0..StackMax /\ o.closed \in Value
      /\ o.closed \in Of(objects, "closure") \cup {Nil}
  <2>1. u \in DOMAIN objects /\ o.type = "upvalue" /\ o \in Object /\ Refers(objects, o)
    BY <1>2, <1>5 DEF Of, Sane, Typed
  <2> QED
    BY <2>1, ObjectIs DEF Refers
<1>7. \/ vm.top < StackMax /\ Keep(objects, Push(vm, x))
      \/ slot = 0 /\ Keep([objects EXCEPT ![u].closed = Peek(vm)], vm)
      \/ slot # 0 /\ Keep(objects, [vm EXCEPT !.stack[slot] = Peek(vm)])
  BY <1>4 DEF Fits
<1>8. stray' = (slot > vm.top)
  BY <1>4
<1>9. x \in Value /\ (~ slot > vm.top => x \in Of(objects, "closure") \cup {Nil})
  <2>1. CASE slot = 0
    BY <1>6, <2>1
  <2>2. CASE slot # 0
    <3>1. slot \in 1..StackMax /\ x = vm.stack[slot]
      BY <1>6, <2>2
    <3>2. ~ slot > vm.top => slot \in 1..vm.top
      BY <1>3, <3>1
    <3> HIDE DEF slot, x
    <3> QED
      BY <1>2, <1>3, <3>1, <3>2 DEF Rooted
  <2> QED
    BY <2>1, <2>2
<1> HIDE DEF slot, x
<1>10. \A i \in 1..Len(vm.frames) : vm.frames[i].slots \in Nat /\ vm.frames[i].slots <= vm.top
  <2>1. \A i \in 1..Len(vm.frames) : vm.frames[i] \in Frame
    BY <1>1, RunningIs
  <2> QED
    BY <1>2, <2>1 DEF Frame, Framed
<1>11. (slot > vm.top => stray' = TRUE) /\ (~ slot > vm.top => UNCHANGED stray)
  <2>1. CASE slot > vm.top
    BY <1>8, <2>1, Zenon
  <2>2. CASE ~ slot > vm.top
    <3>1. (slot > vm.top) = FALSE
      BY <2>2
    <3>2. stray' = FALSE
      BY <1>8, <3>1, Zenon
    <3>3. stray = FALSE
      BY <1>2, Zenon
    <3> QED
      BY <2>2, <3>2, <3>3
  <2> QED
    BY <2>1, <2>2
<1>12. ASSUME vm.top < StackMax, Keep(objects, Push(vm, x))  PROVE IInv'
  <2> DEFINE v == Push(vm, x)
  <2>1. CASE slot > vm.top
    <3>1. v \in Machine /\ v.top = vm.top + 1 /\ v.frames = vm.frames
      BY <1>2, <1>9, <1>12, Pushes
    <3>2. Keep(objects, v)
      BY <1>12
    <3> HIDE DEF v
    <3>3. Framed(v)
      BY <1>2, <1>3, <1>10, <3>1 DEF Framed
    <3> QED
      BY <1>1, <1>2, <1>11, <2>1, <3>1, <3>2, <3>3, Strays
  <2>2. CASE ~ slot > vm.top
    <3>1. v \in Machine /\ Rooted(objects, v, compilers) /\ Framed(v)
      BY <1>2, <1>9, <1>12, <2>2, RootedPush
    <3> QED
      BY <1>1, <1>2, <1>11, <1>12, <2>2, <3>1, Leaves
  <2> QED
    BY <2>1, <2>2
<1>13. ASSUME slot = 0, Keep([objects EXCEPT ![u].closed = Peek(vm)], vm)  PROVE IInv'
  <2> DEFINE new == [objects EXCEPT ![u].closed = Peek(vm)]
             p == [type |-> "upvalue", location |-> o.location, closed |-> Peek(vm)]
  <2>1. new = [objects EXCEPT ![u] = [o EXCEPT !.closed = Peek(vm)]]
    OBVIOUS
  <2>2. [o EXCEPT !.closed = Peek(vm)] = p
    BY <1>6, NewClosed
  <2>3. new = [objects EXCEPT ![u] = p]
    BY <2>1, <2>2
  <2>4. Keep(new, vm)
    BY <1>13
  <2>5. Peek(vm) \in Value /\ o.location \in 0..StackMax
    BY <1>2, <1>3, <1>6, OfIs DEF Value, slot
  <2>6. p \in Object /\ p.type = "upvalue" /\ p.closed = Peek(vm)
    BY <2>5 DEF Object
  <2> HIDE DEF new, p
  <2>7. Refers(objects, p) /\ p.type = objects[u].type /\ p.type # "function"
    BY <1>3, <1>6, <2>6 DEF Refers
  <2>8. Sane(new) /\ Extends(objects, new)
    BY <1>2, <1>6, <2>3, <2>6, <2>7, Replaces
  <2>9. Unfinished(new) \subseteq Unfinished(objects) \cup {u} /\ new[u] = p
    BY <1>2, <1>6, <2>3, <2>6, <2>7, Replaces
  <2>10. Unfinished(new) = {}
    BY <1>2, <2>6, <2>9 DEF Unfinished, Of
  <2>11. Rooted(new, vm, compilers)
    BY <1>2, <2>8, RootedOn
  <2>12. UNCHANGED stray
    BY <1>3, <1>11, <1>13
  <2> QED
    BY <1>1, <1>2, <2>4, <2>8, <2>10, <2>11, <2>12, Leaves
<1>14. ASSUME slot # 0, Keep(objects, [vm EXCEPT !.stack[slot] = Peek(vm)])  PROVE IInv'
  <2> DEFINE v == [vm EXCEPT !.stack[slot] = Peek(vm)]
  <2>1. slot \in 1..StackMax
    BY <1>3, <1>6, <1>14 DEF slot
  <2>2. v \in Machine /\ Rooted(objects, v, compilers) /\ Framed(v)
    BY <1>2, <1>3, <2>1, RootedSet
  <2>3. v.frames = vm.frames
    BY <1>2, MachineIs
  <2>4. Keep(objects, v)
    BY <1>14
  <2> HIDE DEF v
  <2>5. CASE slot > vm.top
    BY <1>1, <1>2, <1>11, <2>2, <2>3, <2>4, <2>5, Strays
  <2>6. CASE ~ slot > vm.top
    BY <1>1, <1>2, <1>11, <2>2, <2>4, <2>6, Leaves
  <2> QED
    BY <2>5, <2>6
<1> QED
  BY <1>7, <1>12, <1>13, <1>14

-----------------------------------------------------------------------------
(* The theorems. *)

LEMMA StepInv == IInv /\ [Next]_vars => IInv'
<1> SUFFICES ASSUME IInv, [Next]_vars  PROVE IInv'
  OBVIOUS
<1>1. CASE \E n \in 0..Captures : InitCompiler(n)
  BY <1>1, InitCompilerStep
<1>2. CASE EndFunction
  BY <1>2, EndFunctionStep
<1>3. CASE CompileError
  BY <1>3, CompileErrorStep
<1>4. CASE Interpret
  BY <1>4, InterpretStep
<1>5. CASE Simple
  BY <1>5, SimpleStep
<1>6. CASE DefineGlobal
  BY <1>6, DefineGlobalStep
<1>7. CASE NewClosure
  BY <1>7, NewClosureStep
<1>8. CASE \E i \in 1..StackMax : Capture(i)
  BY <1>8, CaptureStep
<1>9. CASE CloseUpvalue
  BY <1>9, CloseUpvalueStep
<1>10. CASE UseUpvalue
  BY <1>10, UseUpvalueStep
<1>11. CASE Call
  BY <1>11, CallStep
<1>12. CASE Return
  BY <1>12, ReturnStep
<1>13. CASE Error
  BY <1>13, ErrorStep
<1>14. CASE Elsewhere
  BY <1>14, ElsewhereStep
<1>15. CASE Overread
  BY <1>15, OverreadStep
<1>16. CASE UNCHANGED vars
  BY <1>16, Zenon DEF vars, IInv
<1> QED
  BY <1>1, <1>2, <1>3, <1>4, <1>5, <1>6, <1>7, <1>8, <1>9, <1>10, <1>11, <1>12, <1>13,
     <1>14, <1>15, <1>16 DEF Next

LEMMA TypesAre ==
    ASSUME IInv, NEW type, NEW S \in SUBSET (Of(objects, type) \cup {Nil})
    PROVE  Types(S) \subseteq {type}
<1>1. \A a \in S \ {Nil} : Type(a) = type
  BY DEF Type, Of
<1> QED
  BY <1>1 DEF Types

LEMMA InvTypeOK == IInv => TypeOK
<1> SUFFICES ASSUME IInv  PROVE TypeOK
  OBVIOUS
<1>1. /\ Typed(objects) /\ vm \in Machine /\ Framed(vm) /\ Chain(compilers)
      /\ running \in BOOLEAN /\ stray \in BOOLEAN
  BY Zenon DEF IInv, Inv
<1>2. \A a \in DOMAIN objects :
          a \in Address /\ objects[a].type \in {"function", "closure", "upvalue"}
  BY <1>1, ObjectIs DEF Typed
<1>3. /\ vm.stack \in [1..StackMax -> Value] /\ vm.top \in 0..StackMax /\ vm.global \in Value
      /\ vm.frames \in Seq(Frame) /\ vm.top \in Nat
  BY <1>1, MachineIs
<1>4. \A f \in ToSet(vm.frames) : f.slots \in 1..vm.top
  <2>1. ToSet(vm.frames) = { vm.frames[i] : i \in 1..Len(vm.frames) }
        /\ \A i \in 1..Len(vm.frames) : vm.frames[i] \in Frame
    BY <1>3, Members
  <2>2. \A i \in 1..Len(vm.frames) : vm.frames[i].slots \in 1..vm.top
    BY <1>1, <1>3, <2>1 DEF Framed, Frame
  <2> QED
    BY <2>1, <2>2
<1>5. Len(compilers) <= Nesting
  BY <1>1 DEF Chain
<1>6. {running, stray} \subseteq BOOLEAN
  BY <1>1, Zenon
<1> QED
  BY <1>2, <1>3, <1>4, <1>5, <1>6 DEF TypeOK

LEMMA InvNoDangling == IInv => NoDangling
<1> SUFFICES ASSUME IInv, ~ stray
             PROVE  /\ Roots(vm, compilers) \subseteq DOMAIN objects
                    /\ Types({ f.closure : f \in ToSet(vm.frames) }) \subseteq {"closure"}
                    /\ Types(ToSet(vm.open)) \subseteq {"upvalue"}
                    /\ Types(ToSet(compilers)) \subseteq {"function"}
                    /\ \A a \in DOMAIN objects :
                        LET o == objects[a]
                        IN  CASE o.type = "function" ->
                                   Types(ToSet(o.constants)) \subseteq {"function"}
                              [] o.type = "closure" ->
                                   /\ Type(o.function) = "function"
                                   /\ Len(o.upvalues) = objects[o.function].upvalueCount
                                   /\ Types(ToSet(o.upvalues)) \subseteq {"upvalue"}
                              [] o.type = "upvalue" -> Types({o.closed}) \subseteq {"closure"}
  BY InvTypeOK, Zenon DEF NoDangling
<1>1. /\ Sane(objects) /\ Rooted(objects, vm, compilers) /\ vm \in Machine
      /\ compilers \in Seq(Address)
  BY DEF IInv, Inv, Chain
<1>2. Roots(vm, compilers) \subseteq DOMAIN objects
  BY <1>1, RootsExist
<1>3. vm.frames \in Seq(Frame) /\ vm.open \in Seq(Address)
  BY <1>1, MachineIs
<1>4. /\ { f.closure : f \in ToSet(vm.frames) } \subseteq Of(objects, "closure")
      /\ ToSet(vm.open) \subseteq Of(objects, "upvalue")
      /\ ToSet(compilers) \subseteq Of(objects, "function")
  <2>1. /\ ToSet(vm.frames) = { vm.frames[i] : i \in 1..Len(vm.frames) }
        /\ ToSet(vm.open) = { vm.open[i] : i \in 1..Len(vm.open) }
        /\ ToSet(compilers) = { compilers[i] : i \in 1..Len(compilers) }
    BY <1>1, <1>3, Members
  <2> QED
    BY <1>1, <2>1 DEF Rooted
<1>5. /\ Types({ f.closure : f \in ToSet(vm.frames) }) \subseteq {"closure"}
      /\ Types(ToSet(vm.open)) \subseteq {"upvalue"}
      /\ Types(ToSet(compilers)) \subseteq {"function"}
  BY <1>4, TypesAre
<1>6. ASSUME NEW a \in DOMAIN objects
      PROVE  LET o == objects[a]
             IN  CASE o.type = "function" ->
                        Types(ToSet(o.constants)) \subseteq {"function"}
                   [] o.type = "closure" ->
                        /\ Type(o.function) = "function"
                        /\ Len(o.upvalues) = objects[o.function].upvalueCount
                        /\ Types(ToSet(o.upvalues)) \subseteq {"upvalue"}
                   [] o.type = "upvalue" -> Types({o.closed}) \subseteq {"closure"}
  <2> DEFINE o == objects[a]
  <2>1. o \in Object /\ Refers(objects, o)
    BY <1>1 DEF Sane, Typed
  <2> HIDE DEF o
  <2>2. CASE o.type = "function"
    <3>1. ToSet(o.constants) = { o.constants[i] : i \in 1..Len(o.constants) }
      BY <2>1, <2>2, ObjectIs, Members
    <3>2. ToSet(o.constants) \subseteq Of(objects, "function")
      BY <2>1, <2>2, <3>1 DEF Refers
    <3>3. Types(ToSet(o.constants)) \subseteq {"function"}
      BY <3>2, TypesAre
    <3> QED
      BY <2>2, <3>3 DEF o
  <2>3. CASE o.type = "closure"
    <3>1. ToSet(o.upvalues) = { o.upvalues[i] : i \in 1..Len(o.upvalues) }
      BY <2>1, <2>3, ObjectIs, Members
    <3>2. ToSet(o.upvalues) \subseteq Of(objects, "upvalue") \cup {Nil}
      BY <2>1, <2>3, <3>1 DEF Refers
    <3>3. Types(ToSet(o.upvalues)) \subseteq {"upvalue"}
      BY <3>2, TypesAre
    <3>4. Type(o.function) = "function" /\ Len(o.upvalues) = objects[o.function].upvalueCount
      BY <2>1, <2>3 DEF Refers, Type, Of
    <3> QED
      BY <2>3, <3>3, <3>4 DEF o
  <2>4. CASE o.type = "upvalue"
    <3>1. {o.closed} \subseteq Of(objects, "closure") \cup {Nil}
      BY <2>1, <2>4 DEF Refers
    <3>2. Types({o.closed}) \subseteq {"closure"}
      BY <3>1, TypesAre
    <3> QED
      BY <2>4, <3>2 DEF o
  <2> QED
    BY <2>1, <2>2, <2>3, <2>4, ObjectIs
<1> QED
  BY <1>2, <1>5, <1>6

\* What is left of sane objects is the smallest set with the roots and with
\* what its members refer to.
LEMMA InvCollectsGarbage == IInv => CollectsGarbage
<1> SUFFICES ASSUME IInv, ~ stray
             PROVE  DOMAIN Collected(objects, vm, compilers) =
                      { a \in DOMAIN objects :
                          \A S \in SUBSET DOMAIN objects :
                              /\ Roots(vm, compilers) \subseteq S
                              /\ \A b \in S : References(objects[b]) \subseteq S
                              => a \in S }
  BY DEF CollectsGarbage
<1> DEFINE D == DOMAIN objects
           R == Roots(vm, compilers)
           M == Marked(objects, vm, compilers)
           Has(S) == R \subseteq S /\ \A b \in S : References(objects[b]) \subseteq S
<1>1. /\ Sane(objects) /\ Rooted(objects, vm, compilers) /\ vm \in Machine
      /\ compilers \in Seq(Address)
  BY DEF IInv, Inv, Chain
<1>2. R \subseteq D
  BY <1>1, RootsExist
<1>3. IsFiniteSet(D)
  BY <1>1, AddressIs, FS_Subset DEF Sane, Typed
<1>4. R \cap D = R
  BY <1>2
<1>5. Closed(objects, R, M) /\ \A S : Closed(objects, R, S) => M \subseteq S
  BY <1>3, <1>4, MarkedIs
<1>6. \A a \in D : Blackened(objects[a]) = References(objects[a])
                   /\ Blackened(objects[a]) \cap D = References(objects[a])
  <2>1. \A a \in D : Blackened(objects[a]) = References(objects[a])
    BY <1>1, BlackenedIs DEF Sane, Typed
  <2>2. \A a \in D : Blackened(objects[a]) \subseteq D
    BY <1>1, SaneBlackened
  <2> QED
    BY <2>1, <2>2
<1>7. \A S \in SUBSET D : Closed(objects, R, S) <=> Has(S)
  BY <1>6 DEF Closed
<1>8. DOMAIN Collected(objects, vm, compilers) = M
  BY DEF Collected
<1> HIDE DEF M, R
<1>9. M \in SUBSET D
  BY <1>5 DEF Closed
<1> HIDE DEF Has
<1>10. M = { a \in D : \A S \in SUBSET D : Has(S) => a \in S }
  BY <1>5, <1>7, <1>9
<1> QED
  BY <1>8, <1>10 DEF Has, R

\* No collection frees what the program still gets to, and what is followed
\* has the type it is taken for, until the program uses a stray slot: the
\* function that initCompiler has just allocated, the one that addConstant and
\* interpret push and the closure that OP_CLOSURE fills are all roots, or held
\* by one, when the next object is allocated.
THEOREM NothingDangles == Spec => []NoDangling
<1>1. Init => IInv
  BY InitInv
<1>2. IInv /\ [Next]_vars => IInv'
  BY StepInv
<1>3. IInv => NoDangling
  BY InvNoDangling
<1> QED
  BY <1>1, <1>2, <1>3, PTL DEF Spec

\* markRoots and traceReferences mark just what can be reached, and sweep
\* keeps just that, whenever reallocate collects and whatever refers to what.
THEOREM JustGarbage == Spec => []CollectsGarbage
<1>1. Init => IInv
  BY InitInv
<1>2. IInv /\ [Next]_vars => IInv'
  BY StepInv
<1>3. IInv => CollectsGarbage
  BY InvCollectsGarbage
<1> QED
  BY <1>1, <1>2, <1>3, PTL DEF Spec
=============================================================================
