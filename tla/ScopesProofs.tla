---------------------------- MODULE ScopesProofs ----------------------------
(***************************************************************************)
(* The scopes of the tree-walker.  First Resolver: what the walk records   *)
(* of a name, and what it refuses, is right for every program, every hash  *)
(* and every depth.  Then Environments, for any environments: the types,   *)
(* the match of returns to calls and the current environment; and for the  *)
(* programs that call only what is in scope: no environment is used or     *)
(* freed after it was freed, because the environments on the C stack are   *)
(* woven into one chain of enclosing ones.                                 *)
(*                                                                         *)
(* The invariant of Resolver ties each scope's table to the variables that *)
(* the program has there.  hashtable_has looks at one container only; what *)
(* makes it answer for a whole scope is that no growth of a table and no   *)
(* repeated scope_set ever displaces a name that need not be (AtHome).     *)
(* What hashtable_get answers in a scope is 0 for one name at most: the    *)
(* variable whose initializer the walk is in.                              *)
(***************************************************************************)
EXTENDS Resolver, Environments, SequenceTheorems, WellFoundedInduction, TLAPS

-----------------------------------------------------------------------------
(* Numbers. *)

\* A set of numbers has a least one.
LEMMA Least ==
    ASSUME NEW T, T \subseteq Nat, T # {}
    PROVE  \E x \in T : \A y \in T : x <= y
<1> DEFINE R == { p \in Nat \X Nat : p[1] < p[2] }
<1>1. IsWellFoundedOn(R, Nat)
  BY NatLessThanWellFounded, Zenon DEF OpToRel
<1>2. PICK x \in T : \A y \in T : ~ (<<y, x>> \in R)
  BY <1>1, WFMin, Zenon
<1>3. \A y \in T : ~ (y < x)
  BY <1>2
<1> QED
  BY <1>3

\* What Min returns.
LEMMA MinLeast ==
    ASSUME NEW T, T \subseteq Nat, T # {}
    PROVE  Min(T) \in T /\ \A y \in T : Min(T) <= y
<1>1. \E x \in T : \A y \in T : x <= y
  BY Least
<1> QED
  BY <1>1, Zenon DEF Min

\* What Max returns, of numbers up to n.
LEMMA MaxGreatest ==
    ASSUME NEW n \in Nat, NEW T, T \subseteq 0..n, T # {}
    PROVE  Max(T) \in T /\ \A y \in T : y <= Max(T)
<1> DEFINE S == { n - x : x \in T }
<1>0. \A x \in T : x \in 0..n /\ n - x \in Nat
  OBVIOUS
<1>1. S \subseteq Nat /\ S # {}
  <2>1. PICK x \in T : TRUE
    OBVIOUS
  <2>2. n - x \in S
    BY <2>1
  <2> QED
    BY <1>0, <2>2
<1>2. PICK z \in S : \A y \in S : z <= y
  BY <1>1, Least, Zenon
<1>3. PICK x \in T : z = n - x
  BY <1>2
<1>4. \A y \in T : x >= y
  <2> SUFFICES ASSUME NEW y \in T  PROVE x >= y
    OBVIOUS
  <2>1. n - y \in S
    OBVIOUS
  <2>2. n - x <= n - y
    BY <1>2, <1>3, <2>1
  <2> QED
    BY <1>0, <2>2
<1>5. \A x1 \in T : (\A y \in T : x1 >= y) =>
                     Max(T) \in T /\ \A y \in T : Max(T) >= y
  BY Zenon DEF Max
<1>6. Max(T) \in T /\ \A y \in T : Max(T) >= y
  BY <1>4, <1>5
<1> HIDE DEF S
<1>7. \A y \in T : y \in Nat
  BY <1>0
<1> QED
  BY <1>6, <1>7

\* A set that holds 0, and with a number the next, holds all.
LEMMA Induction ==
    ASSUME NEW S, 0 \in S, \A n \in Nat : n \in S => n + 1 \in S
    PROVE  \A n \in Nat : n \in S
<1> SUFFICES ASSUME NEW n \in Nat, n \notin S  PROVE FALSE
  OBVIOUS
<1> DEFINE T == Nat \ S
<1>1. PICK x \in T : \A y \in T : x <= y
  <2>1. n \in T /\ T \subseteq Nat
    OBVIOUS
  <2> QED
    BY <2>1, Least, Zenon
<1>2. x # 0 /\ x - 1 \in Nat /\ ~ (x <= x - 1) /\ (x - 1) + 1 = x
  BY <1>1
<1>3. x - 1 \in S
  BY <1>1, <1>2
<1> QED
  BY <1>1, <1>2, <1>3

-----------------------------------------------------------------------------
(* The resolver. *)

\* What HashTableProofs says of the tables of the scopes.
Facts == INSTANCE HashTableProofs WITH
    Key <- Name, Item <- {0, 1}, NoItem <- -1, NoKey <- NoName,
    table <- <<>>, filled <- 0, answer <- -1, crashed <- FALSE

LEMMA FactsConstants == Facts!HashTableConstants
  BY ResolverConstants DEF Facts!HashTableConstants

-----------------------------------------------------------------------------
(* The operators that Resolver takes from HashTable are those that the facts
   are about. *)

LEMMA SameSteps ==
    /\ \A t, k, n : Tables!At(t, k, n) = Facts!At(t, k, n)
    /\ \A t, k : Tables!Has(t, k) = Facts!Has(t, k)
    /\ \A t, k, hits : Tables!First(t, k, hits) = Facts!First(t, k, hits)
    /\ \A t, keys : Tables!With(t, keys) = Facts!With(t, keys)
    /\ \A t : Tables!Gone(t) = Facts!Gone(t)
    /\ Tables!Container = Facts!Container
  BY DEF Tables!At, Facts!At, Tables!Has, Facts!Has, Tables!First, Facts!First,
         Tables!Steps, Facts!Steps, Tables!Min, Facts!Min, Tables!With, Facts!With,
         Tables!Gone, Facts!Gone, Tables!Container, Facts!Container

LEMMA SameFind == \A t, k : Tables!Find(t, k) = Facts!Find(t, k)
  BY SameSteps DEF Tables!Find, Facts!Find

LEMMA SameFindAndSet ==
    \A t, k, item : Tables!FindAndSet(t, k, item) = Facts!FindAndSet(t, k, item)
  BY SameSteps DEF Tables!FindAndSet, Facts!FindAndSet, Tables!Unused, Facts!Unused

LEMMA SameBlank == \A n : Tables!Blank(n) = Facts!Blank(n)
  BY DEF Tables!Blank, Facts!Blank, Tables!Unused, Facts!Unused

LEMMA SameResize ==
    ASSUME NEW t, NEW n
    PROVE  Tables!Resize(t, n) = Facts!Resize(t, n)
<1> DEFINE P(m) == m = [i \in 0..Len(t) |-> IF i = 0 THEN Tables!Blank(n)
                          ELSE IF i \in Tables!Kept(t)
                               THEN Tables!FindAndSet(m[i - 1], t[i].key, t[i].item)
                               ELSE m[i - 1]]
           Q(m) == m = [i \in 0..Len(t) |-> IF i = 0 THEN Facts!Blank(n)
                          ELSE IF i \in Facts!Kept(t)
                               THEN Facts!FindAndSet(m[i - 1], t[i].key, t[i].item)
                               ELSE m[i - 1]]
<1>1. Tables!Kept(t) = Facts!Kept(t)
  BY DEF Tables!Kept, Facts!Kept
<1>2. \A m : P(m) <=> Q(m)
  BY <1>1, SameBlank, SameFindAndSet
<1>3. Tables!Resize(t, n) = (CHOOSE m : P(m))[Len(t)]
  BY DEF Tables!Resize
<1>4. Facts!Resize(t, n) = (CHOOSE m : Q(m))[Len(t)]
  BY DEF Facts!Resize
<1> HIDE DEF P, Q
<1>5. (CHOOSE m : P(m)) = (CHOOSE m : Q(m))
  BY <1>2, Zenon
<1> QED
  BY <1>3, <1>4, <1>5

LEMMA SameCount == \A S : Tables!Cardinality(S) = Facts!Cardinality(S)
  BY DEF Tables!Cardinality, Facts!Cardinality

LEMMA SameAfter ==
    ASSUME NEW t, NEW n, NEW k, NEW item
    PROVE  Tables!After(t, n, k, item) = Facts!After(t, n, k, item)
<1>1. Tables!Kept(t) = Facts!Kept(t)
  BY DEF Tables!Kept, Facts!Kept
<1>2. Tables!FindAndSet(t, k, item) = Facts!FindAndSet(t, k, item)
  BY SameFindAndSet
<1>3. Tables!FindAndSet(Tables!Resize(t, 2 * Len(t)), k, item)
        = Facts!FindAndSet(Facts!Resize(t, 2 * Len(t)), k, item)
  BY SameFindAndSet, SameResize
<1> QED
  BY <1>1, <1>2, <1>3, SameCount DEF Tables!After, Facts!After

-----------------------------------------------------------------------------
(* Scopes. *)

Scope == [table : Seq(Facts!Container), filled : Nat]

\* A scope that no name of it was displaced in answers for all of them.
ScopeOK(s) ==
    /\ Facts!Sound(s.table) /\ Facts!Counts(s.table, s.filled)
    /\ Facts!Spread(s.table, Facts!KeysOf(s.table)) => Facts!AtHome(s.table)

\* The scopes s hold the variables lex, and the one whose initializer is being
\* resolved is declared and not defined.
Good(s, lex, open) ==
    /\ s \in Seq(Scope)
    /\ \A i \in 1..Len(s) : ScopeOK(s[i])
    /\ lex = [i \in 1..Len(s) |-> Facts!KeysOf(s[i].table)]
    /\ \A i \in 1..Len(s) : \A n \in Name :
           Facts!Content(s[i].table, n) = 0 <=> i = Len(s) /\ n = open

\* The variable whose initializer the walk is in.
Open(w) == IF w # <<>> /\ Last(w).kind = "initializer" THEN Last(w).name ELSE NoName

WorkOK(w) ==
    /\ w \in Seq(Work)
    /\ \A i \in 1..Len(w) :
           w[i].kind = "initializer" => i = Len(w) /\ w[i].name \in Name

\* The names of a scope.
LEMMA NamesAre ==
    ASSUME NEW s, Facts!Sound(s.table)
    PROVE  Names(s) = Facts!KeysOf(s.table) /\ Names(s) \subseteq Name
<1>1. DOMAIN s.table = 1..Len(s.table)
      /\ \A i \in 1..Len(s.table) : s.table[i].key \in Name \cup {NoName}
  <2>1. s.table \in Seq(Facts!Container)
    BY DEF Facts!Sound
  <2> QED
    BY <2>1, FactsConstants, Facts!Cells
<1> QED
  BY <1>1 DEF Names, Facts!KeysOf, Facts!Occ

\* What hashtable_has answers: never too much, and enough where no name was
\* displaced.
LEMMA HasIs ==
    ASSUME Facts!Hashes, NEW s, ScopeOK(s), NEW n \in Name
    PROVE  /\ ScopeContains(s, n) => n \in Facts!KeysOf(s.table)
           /\ Facts!Spread(s.table, Facts!KeysOf(s.table)) =>
                (ScopeContains(s, n) <=> n \in Facts!KeysOf(s.table))
<1> DEFINE t == s.table
<1>1. Facts!Sound(t) /\ (Facts!Spread(t, Facts!KeysOf(t)) => Facts!AtHome(t))
  BY DEF ScopeOK
<1> HIDE DEF t
<1>2. Len(t) \in Nat /\ Len(t) >= 1
  BY <1>1, FactsConstants, Facts!Cells DEF Facts!Sound
<1>3. Facts!At(t, n, 0) \in 1..Len(t)
  BY <1>2, FactsConstants, Facts!Probes
<1>4. ScopeContains(s, n) <=> t[Facts!At(t, n, 0)].key = n
  BY SameSteps DEF ScopeContains, Facts!Has, t
<1>5. n # NoName
  BY ResolverConstants
<1>6. ASSUME t[Facts!At(t, n, 0)].key = n  PROVE n \in Facts!KeysOf(t)
  BY <1>3, <1>5, <1>6 DEF Facts!KeysOf, Facts!Occ
<1>7. ASSUME Facts!AtHome(t), n \in Facts!KeysOf(t)  PROVE t[Facts!At(t, n, 0)].key = n
  <2>1. PICK i \in Facts!Occ(t) : n = t[i].key
    BY <1>7 DEF Facts!KeysOf
  <2> QED
    BY <1>7, <2>1 DEF Facts!AtHome
<1> QED
  BY <1>1, <1>4, <1>6, <1>7 DEF t

-----------------------------------------------------------------------------
(* What the walk does to the scopes. *)

\* lex with name in the last scope.
With1(lex, name) == [lex EXCEPT ![Len(lex)] = @ \cup {name}]

LEMMA GoodTypes ==
    ASSUME NEW s, NEW lex, NEW open, Good(s, lex, open)
    PROVE  /\ Len(s) \in Nat /\ DOMAIN s = 1..Len(s)
           /\ s \in Seq(Scope) /\ s \in [1..Len(s) -> Scope]
           /\ lex \in Seq(SUBSET Name) /\ Len(lex) = Len(s) /\ DOMAIN lex = 1..Len(s)
           /\ \A i \in 1..Len(s) : lex[i] = Facts!KeysOf(s[i].table)
           /\ (s = <<>> <=> Len(s) = 0) /\ (lex = <<>> <=> Len(s) = 0)
<1>1. s \in Seq(Scope) /\ lex = [i \in 1..Len(s) |-> Facts!KeysOf(s[i].table)]
      /\ \A i \in 1..Len(s) : ScopeOK(s[i])
  BY DEF Good
<1>2. Len(s) \in Nat /\ DOMAIN s = 1..Len(s) /\ s \in [1..Len(s) -> Scope]
      /\ (s = <<>> <=> Len(s) = 0)
  BY <1>1, LenProperties, EmptySeq
<1>3. \A i \in 1..Len(s) : Facts!KeysOf(s[i].table) \in SUBSET Name
  <2> SUFFICES ASSUME NEW i \in 1..Len(s)  PROVE Facts!KeysOf(s[i].table) \in SUBSET Name
    OBVIOUS
  <2>1. Facts!Sound(s[i].table)
    BY <1>1 DEF ScopeOK
  <2> QED
    BY <2>1, NamesAre
<1>4. lex \in [1..Len(s) -> SUBSET Name]
  BY <1>1, <1>3
<1>5. lex \in Seq(SUBSET Name)
  BY <1>2, <1>4, IsASeq
<1>6. Len(lex) = Len(s) /\ DOMAIN lex = 1..Len(s)
  BY <1>2, <1>4, <1>5, LenProperties
<1>7. lex = <<>> <=> Len(s) = 0
  BY <1>5, <1>6, EmptySeq
<1> QED
  BY <1>1, <1>2, <1>5, <1>6, <1>7

\* scope_set: the name is a variable of the scope from then on, and declared or
\* defined as set says; it displaces no name unless it has to.
LEMMA GoodSet ==
    ASSUME Facts!Hashes, NEW s, NEW lex, NEW open, Good(s, lex, open), s # <<>>,
           NEW name \in Name, open \in {NoName, name}, NEW set \in {0, 1}
    PROVE  Good(ScopeSet(s, name, set), With1(lex, name), IF set = 0 THEN name ELSE NoName)
<1> DEFINE L == Len(s)
           r == Tables!After(s[L].table, s[L].filled, name, set)
           u == r.table
           m == r.filled
           z == ScopeSet(s, name, set)
<1>1. /\ L \in Nat /\ L >= 1 /\ L \in 1..L /\ s \in [1..L -> Scope]
      /\ lex \in Seq(SUBSET Name) /\ Len(lex) = L /\ DOMAIN lex = 1..L
      /\ \A i \in 1..L : lex[i] = Facts!KeysOf(s[i].table)
  BY GoodTypes
<1>2. /\ \A i \in 1..L : ScopeOK(s[i])
      /\ \A i \in 1..L : \A n \in Name :
           Facts!Content(s[i].table, n) = 0 <=> i = L /\ n = open
  BY DEF Good
<1>3. r = Facts!After(s[L].table, s[L].filled, name, set)
  BY SameAfter
<1>4. r = [table |-> u, filled |-> m]
  BY <1>3 DEF Facts!After
<1> HIDE DEF r
<1>5. Facts!After(s[L].table, s[L].filled, name, set) = [table |-> u, filled |-> m]
  BY <1>3, <1>4
<1>6. /\ Facts!Sound(s[L].table) /\ Facts!Counts(s[L].table, s[L].filled)
      /\ Facts!Spread(s[L].table, Facts!KeysOf(s[L].table)) => Facts!AtHome(s[L].table)
  BY <1>1, <1>2 DEF ScopeOK
<1> HIDE DEF u, m
<1>7. /\ Facts!Sound(u) /\ Facts!Counts(u, m)
      /\ Facts!Content(u, name) = set
      /\ \A x \in Name : x # name => Facts!Content(u, x) = Facts!Content(s[L].table, x)
      /\ Facts!KeysOf(u) = Facts!KeysOf(s[L].table) \cup {name}
      /\ (Facts!Spread(s[L].table, Facts!KeysOf(s[L].table)) => Facts!AtHome(s[L].table)) =>
           (Facts!Spread(u, Facts!KeysOf(u)) => Facts!AtHome(u))
  BY <1>5, <1>6, FactsConstants, Facts!Sets
<1>8. ScopeOK([table |-> u, filled |-> m]) /\ [table |-> u, filled |-> m] \in Scope
  <2>1. u \in Seq(Facts!Container) /\ m \in Nat
    <3>1. u \in Seq(Facts!Container)
      BY <1>7 DEF Facts!Sound
    <3>2. Len(u) \in Nat
      BY <3>1, LenProperties
    <3> QED
      BY <1>7, <3>1, <3>2 DEF Facts!Counts
  <2> QED
    BY <1>6, <1>7, <2>1 DEF ScopeOK, Scope
<1>9. z = [s EXCEPT ![L] = [table |-> u, filled |-> m]]
  BY <1>4 DEF ScopeSet, r, u, m
<1> HIDE DEF z
<1>10. z \in [1..L -> Scope] /\ z[L] = [table |-> u, filled |-> m]
       /\ \A i \in 1..L : i # L => z[i] = s[i]
  BY <1>1, <1>8, <1>9
<1>11. z \in Seq(Scope) /\ Len(z) = L
  BY <1>1, <1>10, IsASeq, LenProperties
<1>12. \A i \in 1..L : ScopeOK(z[i])
  BY <1>2, <1>8, <1>10
<1>13. With1(lex, name) = [i \in 1..L |-> Facts!KeysOf(z[i].table)]
  <2>1. lex \in [1..L -> SUBSET Name]
    BY <1>1, LenProperties
  <2>2. With1(lex, name) = [i \in 1..L |-> IF i = L THEN lex[L] \cup {name} ELSE lex[i]]
    BY <1>1, <2>1 DEF With1
  <2>3. \A i \in 1..L : Facts!KeysOf(z[i].table) = IF i = L THEN lex[L] \cup {name} ELSE lex[i]
    <3> SUFFICES ASSUME NEW i \in 1..L
                 PROVE  Facts!KeysOf(z[i].table) = IF i = L THEN lex[L] \cup {name} ELSE lex[i]
      OBVIOUS
    <3>1. CASE i = L
      <4>1. z[i].table = u
        BY <1>10, <3>1
      <4> QED
        BY <1>1, <1>7, <3>1, <4>1
    <3>2. CASE i # L
      BY <1>1, <1>10, <3>2
    <3> QED
      BY <3>1, <3>2
  <2> QED
    BY <2>2, <2>3
<1>14. ASSUME NEW i \in 1..L, NEW n \in Name
       PROVE  Facts!Content(z[i].table, n) = 0
                <=> i = L /\ n = (IF set = 0 THEN name ELSE NoName)
  <2>0. n # NoName
    BY ResolverConstants
  <2>1. CASE i # L
    <3>1. z[i] = s[i]
      BY <1>10, <2>1
    <3> QED
      BY <1>2, <2>1, <3>1
  <2>2. CASE i = L /\ n # name
    <3>1. Facts!Content(z[i].table, n) = Facts!Content(s[L].table, n)
      BY <1>7, <1>10, <2>2
    <3>2. Facts!Content(s[L].table, n) = 0 <=> n = open
      BY <1>1, <1>2
    <3> QED
      BY <2>0, <2>2, <3>1, <3>2
  <2>3. CASE i = L /\ n = name
    <3>1. Facts!Content(z[i].table, n) = set
      BY <1>7, <1>10, <2>3
    <3> QED
      BY <2>0, <2>3, <3>1
  <2> QED
    BY <2>1, <2>2, <2>3
<1> QED
  BY <1>11, <1>12, <1>13, <1>14 DEF Good, z

\* scope_begin.
LEMMA GoodBegin ==
    ASSUME Facts!Hashes, NEW s, NEW lex, Good(s, lex, NoName)
    PROVE  Good(Append(s, MakeScope), Append(lex, {}), NoName)
<1> DEFINE L == Len(s)
           t == Tables!Blank(1)
           z == Append(s, MakeScope)
<1>1. /\ L \in Nat /\ s \in [1..L -> Scope] /\ s \in Seq(Scope)
      /\ lex \in Seq(SUBSET Name) /\ Len(lex) = L
      /\ \A i \in 1..L : lex[i] = Facts!KeysOf(s[i].table)
  BY GoodTypes
<1>2. /\ \A i \in 1..L : ScopeOK(s[i])
      /\ \A i \in 1..L : \A n \in Name :
           Facts!Content(s[i].table, n) = 0 <=> i = L /\ n = NoName
  BY DEF Good
<1>3. t = Facts!Blank(1)
  BY SameBlank
<1>4. /\ Facts!Sound(t) /\ Len(t) = 1 /\ Facts!Occ(t) = {} /\ Facts!KeysOf(t) = {}
      /\ Facts!AtHome(t) /\ Facts!Cardinality(Facts!Occ(t)) = 0
  <2>1. 1 \in Nat /\ 1 >= 1
    OBVIOUS
  <2> HIDE DEF t
  <2> QED
    BY <1>3, <2>1, FactsConstants, Facts!BlankIs, Zenon
<1>5. MakeScope = [table |-> t, filled |-> 0]
  BY DEF MakeScope
<1> HIDE DEF t
<1>6. MakeScope.table = t /\ MakeScope.filled = 0
  BY <1>5
<1>7. ScopeOK(MakeScope) /\ MakeScope \in Scope
  <2>1. Facts!Counts(t, 0)
    BY <1>4 DEF Facts!Counts
  <2>2. t \in Seq(Facts!Container)
    BY <1>4 DEF Facts!Sound
  <2> QED
    BY <1>4, <1>5, <1>6, <2>1, <2>2 DEF ScopeOK, Scope
<1>8. ASSUME NEW n \in Name  PROVE Facts!Content(MakeScope.table, n) # 0
  <2>1. \A i \in 1..Len(t) : t[i].key # n
    BY <1>4, ResolverConstants DEF Facts!Occ
  <2>2. Facts!Content(t, n) = -1
    BY <1>4, <2>1, FactsConstants, Facts!ContentIs
  <2> QED
    BY <1>6, <2>2
<1>9. /\ z \in Seq(Scope) /\ Len(z) = L + 1 /\ z[L + 1] = MakeScope
      /\ \A i \in 1..L : z[i] = s[i]
  BY <1>1, <1>7, AppendProperties
<1>10. /\ Append(lex, {}) \in Seq(SUBSET Name) /\ Len(Append(lex, {})) = L + 1
       /\ Append(lex, {})[L + 1] = {} /\ \A i \in 1..L : Append(lex, {})[i] = lex[i]
  BY <1>1, AppendProperties
<1> DEFINE y == Append(lex, {})
<1> HIDE DEF z, y
<1>11. y = [i \in 1..Len(z) |-> Facts!KeysOf(z[i].table)]
  <2>1. y \in [1..(L + 1) -> SUBSET Name]
    BY <1>10, LenProperties DEF y
  <2>2. ASSUME NEW i \in 1..(L + 1)  PROVE y[i] = Facts!KeysOf(z[i].table)
    <3>1. CASE i = L + 1
      BY <1>4, <1>6, <1>9, <1>10, <3>1 DEF y
    <3>2. CASE i # L + 1
      <4>1. i \in 1..L
        BY <1>1, <3>2
      <4> QED
        BY <1>1, <1>9, <1>10, <4>1 DEF y
    <3> QED
      BY <3>1, <3>2
  <2> QED
    BY <1>9, <2>1, <2>2
<1>12. \A i \in 1..Len(z) : ScopeOK(z[i])
  BY <1>1, <1>2, <1>7, <1>9
<1>13. ASSUME NEW i \in 1..Len(z), NEW n \in Name
       PROVE  Facts!Content(z[i].table, n) = 0 <=> i = Len(z) /\ n = NoName
  <2>0. n # NoName
    BY ResolverConstants
  <2>1. CASE i = L + 1
    BY <1>8, <1>9, <2>0, <2>1
  <2>2. CASE i # L + 1
    <3>1. i \in 1..L /\ z[i] = s[i]
      BY <1>1, <1>9, <2>2
    <3> QED
      BY <1>2, <2>0, <3>1
  <2> QED
    BY <2>1, <2>2
<1> QED
  BY <1>9, <1>11, <1>12, <1>13 DEF Good, z, y

\* scope_end.
LEMMA GoodEnd ==
    ASSUME NEW s, NEW lex, Good(s, lex, NoName)
    PROVE  Good(Front(s), Front(lex), NoName)
<1> DEFINE L == Len(s)
           M == IF L = 0 THEN 0 ELSE L - 1
           z == Front(s)
           y == Front(lex)
<1>1. /\ L \in Nat /\ s \in [1..L -> Scope] /\ s \in Seq(Scope)
      /\ lex \in Seq(SUBSET Name) /\ Len(lex) = L
      /\ \A i \in 1..L : lex[i] = Facts!KeysOf(s[i].table)
  BY GoodTypes
<1>2. /\ \A i \in 1..L : ScopeOK(s[i])
      /\ \A i \in 1..L : \A n \in Name :
           Facts!Content(s[i].table, n) = 0 <=> i = L /\ n = NoName
  BY DEF Good
<1>3. M \in Nat /\ 1..M \subseteq 1..L /\ 1..(L - 1) = 1..M
  BY <1>1
<1>4. z \in Seq(Scope) /\ Len(z) = M /\ \A i \in 1..M : z[i] = s[i]
  <2>1. z = SubSeq(s, 1, L - 1)
    BY DEF Front
  <2>2. \A i \in 1..(L - 1) : s[i] \in Scope
    BY <1>1
  <2> HIDE DEF z
  <2> QED
    BY <1>1, <2>1, <2>2, SubSeqProperties
<1>5. y \in Seq(SUBSET Name) /\ Len(y) = M /\ \A i \in 1..M : y[i] = lex[i]
  <2>1. y = SubSeq(lex, 1, L - 1)
    BY <1>1 DEF Front
  <2>2. \A i \in 1..(L - 1) : lex[i] \in SUBSET Name
    BY <1>1, ElementOfSeq
  <2> HIDE DEF y
  <2> QED
    BY <1>1, <2>1, <2>2, SubSeqProperties
<1> HIDE DEF y, z, M
<1>6. y = [i \in 1..Len(z) |-> Facts!KeysOf(z[i].table)]
  <2>1. y \in [1..M -> SUBSET Name]
    BY <1>5, LenProperties
  <2>2. \A i \in 1..M : y[i] = Facts!KeysOf(z[i].table)
    BY <1>1, <1>3, <1>4, <1>5
  <2> QED
    BY <1>4, <2>1, <2>2
<1>7. \A i \in 1..Len(z) : ScopeOK(z[i])
  BY <1>2, <1>3, <1>4
<1>8. ASSUME NEW i \in 1..Len(z), NEW n \in Name
      PROVE  Facts!Content(z[i].table, n) = 0 <=> i = Len(z) /\ n = NoName
  <2>1. n # NoName /\ i \in 1..L /\ z[i] = s[i]
    BY <1>3, <1>4, ResolverConstants
  <2> QED
    BY <1>2, <2>1
<1> QED
  BY <1>4, <1>6, <1>7, <1>8 DEF Good, z, y

\* declare and define, one after the other.
LEMMA GoodBoth ==
    ASSUME Facts!Hashes, NEW s, NEW lex, Good(s, lex, NoName), NEW name \in Name, s # <<>>
    PROVE  Good(ScopeSet(ScopeSet(s, name, 0), name, 1), With1(lex, name), NoName)
<1> DEFINE z == ScopeSet(s, name, 0)
           y == With1(lex, name)
<1>1. Good(z, y, name)
  BY GoodSet
<1>2. Len(lex) = Len(s) /\ Len(s) \in Nat /\ Len(s) # 0 /\ lex \in Seq(SUBSET Name)
  BY GoodTypes
<1> HIDE DEF z
<1>3. y \in Seq(SUBSET Name) /\ Len(y) = Len(z) /\ Len(z) \in Nat /\ DOMAIN y = 1..Len(z)
  BY <1>1, GoodTypes
<1>4. DOMAIN lex = 1..Len(s) /\ lex \in [1..Len(s) -> SUBSET Name]
  BY <1>2, LenProperties
<1>5. y \in [1..Len(s) -> SUBSET Name] /\ y[Len(s)] = lex[Len(s)] \cup {name}
      /\ DOMAIN y = 1..Len(s)
  BY <1>2, <1>4 DEF With1
<1>6. Len(y) = Len(s)
  BY <1>2, <1>3, <1>5
<1> HIDE DEF y
<1>7. With1(y, name) = y
  BY <1>2, <1>5, <1>6 DEF With1
<1>8. z # <<>>
  BY <1>1, <1>2, <1>3, <1>6, GoodTypes
<1>9. Good(ScopeSet(z, name, 1), With1(y, name), NoName)
  BY <1>1, <1>8, GoodSet
<1> QED
  BY <1>7, <1>9 DEF z, y

\* Outside all scopes nothing is entered.
LEMMA GoodNone ==
    ASSUME NEW e, e = <<>>, NEW name, NEW set
    PROVE  ScopeSet(e, name, set) = e /\ With1(e, name) = e
<1>1. e \in [1..0 -> {0}]
  <2>1. e \in Seq({0}) /\ Len(e) = 0
    BY EmptySeq
  <2> QED
    BY <2>1, LenProperties
<1>2. \A f : f \in [1..0 -> {0}] => f = e
  <2> SUFFICES ASSUME NEW f \in [1..0 -> {0}]  PROVE f = e
    OBVIOUS
  <2>1. f \in Seq({0}) /\ Len(f) = 0
    BY IsASeq, LenProperties
  <2> QED
    BY <2>1, EmptySeq
<1>3. \A j, r : [e EXCEPT ![j] = r] \in [1..0 -> {0}]
  <2> SUFFICES ASSUME NEW j, NEW r  PROVE [e EXCEPT ![j] = r] \in [1..0 -> {0}]
    OBVIOUS
  <2>1. \A i \in 1..0 : FALSE
    OBVIOUS
  <2> QED
    BY <1>1, <2>1
<1> QED
  BY <1>2, <1>3 DEF ScopeSet, With1

-----------------------------------------------------------------------------
(* What the walk is in. *)

\* A visit that is no initializer's begins.
LEMMA WorkEnter ==
    ASSUME NEW w, WorkOK(w), Open(w) = NoName,
           NEW e \in Work, e.kind = "initializer" => e.name \in Name
    PROVE  /\ WorkOK(Append(w, e))
           /\ Open(Append(w, e)) = IF e.kind = "initializer" THEN e.name ELSE NoName
<1> DEFINE v == Append(w, e)
<1>1. w \in Seq(Work) /\ Len(w) \in Nat
  BY LenProperties DEF WorkOK
<1>2. v \in Seq(Work) /\ v # <<>> /\ Len(v) = Len(w) + 1 /\ v[Len(w) + 1] = e
      /\ \A i \in 1..Len(w) : v[i] = w[i]
  BY <1>1, AppendProperties
<1> HIDE DEF v
<1>3. \A i \in 1..Len(w) : w[i].kind # "initializer"
  <2> SUFFICES ASSUME NEW i \in 1..Len(w), w[i].kind = "initializer"  PROVE FALSE
    OBVIOUS
  <2>1. i = Len(w) /\ w[i].name \in Name /\ w # <<>>
    BY <1>1, EmptySeq DEF WorkOK
  <2> QED
    BY <2>1, ResolverConstants DEF Open, Last
<1>4. WorkOK(v)
  BY <1>1, <1>2, <1>3 DEF WorkOK
<1>5. Open(v) = IF e.kind = "initializer" THEN e.name ELSE NoName
  BY <1>2 DEF Open, Last
<1> QED
  BY <1>4, <1>5 DEF v

\* A visit ends; the one around it is no initializer's.
LEMMA WorkEnd ==
    ASSUME NEW w, WorkOK(w)
    PROVE  WorkOK(Front(w)) /\ Open(Front(w)) = NoName
<1> DEFINE v == Front(w)
           M == IF Len(w) = 0 THEN 0 ELSE Len(w) - 1
<1>1. w \in Seq(Work) /\ Len(w) \in Nat /\ \A i \in 1..Len(w) : w[i] \in Work
  BY LenProperties, ElementOfSeq DEF WorkOK
<1>2. M \in Nat /\ 1..(Len(w) - 1) = 1..M /\ \A i \in 1..M : i \in 1..Len(w) /\ i # Len(w)
  BY <1>1
<1>3. v \in Seq(Work) /\ Len(v) = M /\ \A i \in 1..M : v[i] = w[i]
  <2>1. v = SubSeq(w, 1, Len(w) - 1)
    BY DEF Front
  <2>2. \A i \in 1..(Len(w) - 1) : w[i] \in Work
    BY <1>1
  <2> HIDE DEF v
  <2> QED
    BY <1>1, <2>1, <2>2, SubSeqProperties
<1> HIDE DEF v, M
<1>4. \A i \in 1..M : v[i].kind # "initializer"
  BY <1>2, <1>3 DEF WorkOK
<1>5. WorkOK(v)
  BY <1>3, <1>4 DEF WorkOK
<1>6. v = <<>> \/ Len(v) \in 1..M
  BY <1>2, <1>3, EmptySeq
<1>7. Open(v) = NoName
  BY <1>4, <1>6 DEF Open, Last
<1> QED
  BY <1>5, <1>7 DEF v

LEMMA InOpen ==
    /\ \A kinds : In(kinds) /\ "initializer" \notin kinds => Open(work) = NoName
    /\ Statement => Open(work) = NoName
    /\ In({"initializer"}) => Open(work) = Last(work).name
  BY DEF In, Open, Statement

-----------------------------------------------------------------------------
(* Look-ups. *)

LookupOK(name, distance) ==
    LET having == { i \in DOMAIN lexical : name \in lexical[i] }
    IN  /\ distance # -1 => Len(lexical) - distance \in having
        /\ (\A i \in DOMAIN lexical : (\A j \in having : i >= j) => Apart(i)) =>
            distance = IF having = {} THEN -1 ELSE Hop(Max(having))

\* resolve_local finds a scope that has the name, and the innermost one when no
\* name of the scopes on the way was displaced.
LEMMA Looks ==
    ASSUME Facts!Hashes, NEW open, Good(scopes, lexical, open), NEW name \in Name,
           NEW d, d = ResolveLocal(name)
    PROVE  LookupOK(name, d) /\ d \in Nat \cup {-1}
<1> DEFINE L == Len(scopes)
           having == { i \in DOMAIN lexical : name \in lexical[i] }
           found == { j \in DOMAIN scopes : ScopeContains(scopes[j], name) }
           hits == { Hop(i) : i \in found }
<1>1. /\ L \in Nat /\ DOMAIN scopes = 1..L /\ DOMAIN lexical = 1..L /\ Len(lexical) = L
      /\ \A i \in 1..L : lexical[i] = Facts!KeysOf(scopes[i].table)
      /\ \A i \in 1..L : ScopeOK(scopes[i])
  BY GoodTypes DEF Good
<1>2. d = IF hits = {} THEN -1 ELSE Min(hits)
  BY DEF ResolveLocal
<1>3. found \subseteq having /\ having \subseteq 1..L
  BY <1>1, HasIs
<1>4. ASSUME NEW i \in having, Apart(i)  PROVE i \in found
  <2>1. i \in 1..L /\ name \in Facts!KeysOf(scopes[i].table) /\ ScopeOK(scopes[i])
    BY <1>1
  <2>2. Facts!Spread(scopes[i].table, Facts!KeysOf(scopes[i].table))
    BY <1>1, <1>4, <2>1, SameSteps DEF Apart, Facts!Spread
  <2> QED
    BY <1>1, <2>1, <2>2, HasIs
<1> HIDE DEF having, found
<1>5. \A i \in found : i \in 1..L /\ Hop(i) = L - i /\ Hop(i) \in Nat /\ Hop(i) \in hits
  <2> SUFFICES ASSUME NEW i \in found
               PROVE  i \in 1..L /\ Hop(i) = L - i /\ Hop(i) \in Nat /\ Hop(i) \in hits
    OBVIOUS
  <2>1. i \in 1..L
    BY <1>3
  <2>2. Hop(i) = L - i
    BY DEF Hop
  <2> QED
    BY <1>1, <2>1, <2>2
<1>6. \A h \in hits : \E i \in found : h = Hop(i)
  OBVIOUS
<1> HIDE DEF hits
<1>7. hits \subseteq Nat
  BY <1>5, <1>6
<1>8. CASE hits = {}
  <2>1. d = -1 /\ found = {}
    BY <1>2, <1>5, <1>8
  <2>2. ASSUME \A i \in 1..L : (\A j \in having : i >= j) => Apart(i), having # {}
        PROVE  FALSE
    <3>1. having \subseteq 0..L
      BY <1>1, <1>3
    <3>2. Max(having) \in having /\ \A j \in having : j <= Max(having)
      BY <1>1, <2>2, <3>1, MaxGreatest
    <3>3. \A j \in having : Max(having) >= j
      BY <1>3, <3>2
    <3>4. Apart(Max(having))
      BY <1>3, <2>2, <3>2, <3>3
    <3> QED
      BY <1>4, <2>1, <3>2, <3>4
  <2> QED
    BY <1>1, <2>1, <2>2 DEF LookupOK, having
<1>9. CASE hits # {}
  <2>1. d \in hits /\ \A h \in hits : d <= h
    BY <1>2, <1>7, <1>9, MinLeast
  <2>2. PICK i \in found : d = Hop(i)
    BY <1>6, <2>1
  <2>3. d \in Nat /\ L - d = i /\ i \in having
    BY <1>1, <1>3, <1>5, <2>2
  <2>4. having # {}
    BY <2>3
  <2> DEFINE g == Max(having)
  <2>5. g \in having /\ (\A j \in having : j <= g) /\ g \in 1..L
    <3>1. having \subseteq 0..L
      BY <1>1, <1>3
    <3> QED
      BY <1>1, <1>3, <2>4, <3>1, MaxGreatest
  <2> HIDE DEF g
  <2>6. ASSUME \A x \in 1..L : (\A j \in having : x >= j) => Apart(x)
        PROVE  d = Hop(g)
    <3>1. \A j \in having : g >= j
      BY <1>3, <2>5
    <3>2. g \in found
      BY <1>4, <2>5, <2>6, <3>1
    <3>3. Hop(g) = L - g /\ d <= L - g
      BY <1>5, <2>1, <3>2
    <3>4. i <= g /\ d = L - i /\ i \in 1..L
      BY <1>3, <1>5, <2>2, <2>3, <2>5
    <3> QED
      BY <1>1, <2>5, <3>3, <3>4
  <2> QED
    BY <1>1, <2>3, <2>4, <2>6 DEF LookupOK, having, g
<1> QED
  BY <1>8, <1>9

-----------------------------------------------------------------------------
(* The inductive invariant. *)

IInv ==
    /\ Facts!Hashes
    /\ Good(scopes, lexical, Open(work))
    /\ WorkOK(work)
    /\ failed \in Messages /\ latest \in Latest
    /\ ResolvesLexically
    /\ RefusesOwnInitializer

LEMMA InvImplies == IInv => TypeOK
<1> SUFFICES ASSUME IInv  PROVE TypeOK
  OBVIOUS
<1>1. /\ DOMAIN scopes = 1..Len(scopes)
      /\ lexical = [i \in 1..Len(scopes) |-> Facts!KeysOf(scopes[i].table)]
      /\ \A i \in 1..Len(scopes) : ScopeOK(scopes[i])
  BY GoodTypes DEF IInv, Good
<1>2. \A i \in 1..Len(scopes) :
        /\ scopes[i].table \in Seq(Tables!Container)
        /\ scopes[i].filled \in 0..Len(scopes[i].table)
  BY <1>1, SameSteps DEF ScopeOK, Facts!Sound, Facts!Counts
<1>3. lexical = [i \in 1..Len(scopes) |-> Names(scopes[i])]
  <2>1. \A i \in 1..Len(scopes) : Names(scopes[i]) = Facts!KeysOf(scopes[i].table)
    BY <1>1, NamesAre DEF ScopeOK
  <2> QED
    BY <1>1, <2>1
<1> QED
  BY <1>1, <1>2, <1>3 DEF IInv, TypeOK, Facts!Hashes, WorkOK

\* What is good of the next scopes is good of them when their turn comes.
LEMMA GoodNext ==
    ASSUME UNCHANGED hash, Good(scopes', lexical', Open(work'))
    PROVE  Good(scopes, lexical, Open(work))'
  BY DEF Good, ScopeOK, Open, Facts!Sound, Facts!Counts, Facts!Spread, Facts!AtHome,
         Facts!KeysOf, Facts!Content, Facts!With, Facts!Occ, Facts!Reached,
         Facts!NeverUsed, Facts!Steps, Facts!At

\* A step that looks nothing up claims nothing of look-ups.
LEMMA Quiet ==
    ASSUME failed' # "own initializer", latest'.kind \notin Lookups
    PROVE  ResolvesLexically' /\ RefusesOwnInitializer'
  BY DEF ResolvesLexically, RefusesOwnInitializer, Lookups

LEMMA LookupNext ==
    ASSUME UNCHANGED <<hash, scopes, lexical>>, LookupOK(latest'.name, latest'.distance)
    PROVE  ResolvesLexically'
  BY DEF ResolvesLexically, LookupOK, Apart, Hop, Tables!At

\* The parts of Nothing and of what replaces it.
LEMMA Said ==
    /\ Nothing \in Latest /\ Nothing.kind = "none"
    /\ \A name \in Name :
         LET l == [Nothing EXCEPT !.kind = "declare", !.name = name]
         IN  l \in Latest /\ l.kind = "declare" /\ l.name = name
  BY DEF Nothing, Latest

\* What a look-up leaves in latest.
LookedUp(kind, name, d) == [Nothing EXCEPT !.kind = kind, !.name = name, !.distance = d]

LEMMA InitInv == Init => IInv
<1> SUFFICES ASSUME Init  PROVE IInv
  OBVIOUS
<1>1. Facts!Hashes /\ failed \in Messages /\ latest \in Latest
  BY Said DEF Init, Facts!Hashes, Messages
<1>2. WorkOK(work) /\ Open(work) = NoName
  BY EmptySeq DEF Init, WorkOK, Open
<1>3. Good(scopes, lexical, NoName)
  <2>1. scopes \in Seq(Scope) /\ Len(scopes) = 0 /\ lexical \in Seq({0}) /\ Len(lexical) = 0
    BY EmptySeq DEF Init
  <2> DEFINE f == [i \in 1..0 |-> Facts!KeysOf(scopes[i].table)]
  <2>2. f \in [1..0 -> {0}] /\ \A i \in 1..0 : FALSE
    OBVIOUS
  <2> HIDE DEF f
  <2>3. f \in Seq({0}) /\ Len(f) = 0
    BY <2>2, IsASeq, LenProperties
  <2>4. f = lexical
    BY <2>3, EmptySeq DEF Init
  <2> QED
    BY <2>1, <2>2, <2>4 DEF Good, f
<1>4. ResolvesLexically /\ RefusesOwnInitializer
  BY Said DEF Init, ResolvesLexically, RefusesOwnInitializer, Lookups
<1> QED
  BY <1>1, <1>2, <1>3, <1>4 DEF IInv

\* A step that keeps the scopes good and looks nothing up.
LEMMA StepInv ==
    ASSUME IInv, UNCHANGED hash, Good(scopes', lexical', Open(work')), WorkOK(work'),
           failed' \in Messages, failed' # "own initializer",
           latest' \in Latest, latest'.kind \notin Lookups
    PROVE  IInv'
<1>1. Facts!Hashes' /\ WorkOK(work)'
  BY DEF IInv, Facts!Hashes, WorkOK
<1> QED
  BY <1>1, GoodNext, Quiet DEF IInv, Messages, Latest

-----------------------------------------------------------------------------
(* One lemma for each action. *)

\* What RefusesDuplicates says of a step.
Warned ==
    latest'.kind = "declare" =>
        LET again == lexical # <<>> /\ latest'.name \in Last(lexical)
            refused == failed' = "already a variable"
        IN  /\ refused => again
            /\ again /\ Apart(Len(lexical)) => refused

LEMMA Untold ==
    ASSUME latest'.kind # "declare"
    PROVE  Warned
  BY DEF Warned

\* declare refuses a variable of the scope only, and every one of them where
\* no name was displaced.
LEMMA Declares ==
    ASSUME IInv, failed = "none", NEW name \in Name, NEW after, Declare(name, after)
    PROVE  /\ UNCHANGED hash /\ latest' \in Latest /\ latest'.kind = "declare"
           /\ Warned
           /\ \/ failed' = "already a variable" /\ UNCHANGED <<scopes, work, lexical>>
              \/ failed' = "none" /\ scopes' = after
<1>1. UNCHANGED hash /\ latest' \in Latest /\ latest'.kind = "declare" /\ latest'.name = name
  BY Said DEF Declare
<1>2. \/ /\ failed' = "already a variable" /\ UNCHANGED <<scopes, work, lexical>>
         /\ scopes # <<>> /\ ScopeContains(Last(scopes), name)
      \/ /\ failed' = "none" /\ scopes' = after
         /\ ~ (scopes # <<>> /\ ScopeContains(Last(scopes), name))
  BY DEF Declare, Known
<1>3. /\ Len(scopes) \in Nat /\ Len(lexical) = Len(scopes)
      /\ \A i \in 1..Len(scopes) : lexical[i] = Facts!KeysOf(scopes[i].table) /\ ScopeOK(scopes[i])
      /\ (scopes = <<>> <=> Len(scopes) = 0) /\ (lexical = <<>> <=> Len(scopes) = 0)
  BY GoodTypes DEF IInv, Good
<1>4. ASSUME scopes # <<>>
      PROVE  /\ ScopeContains(Last(scopes), name) => name \in Last(lexical)
             /\ Apart(Len(lexical)) =>
                  (ScopeContains(Last(scopes), name) <=> name \in Last(lexical))
  <2> DEFINE L == Len(scopes)
  <2>1. L \in 1..L /\ Last(scopes) = scopes[L] /\ Last(lexical) = lexical[L]
    BY <1>3, <1>4 DEF Last
  <2>2. ScopeOK(scopes[L]) /\ lexical[L] = Facts!KeysOf(scopes[L].table)
    BY <1>3, <2>1
  <2>3. Apart(L) => Facts!Spread(scopes[L].table, Facts!KeysOf(scopes[L].table))
    BY <2>2, SameSteps DEF Apart, Facts!Spread
  <2>4. Facts!Hashes
    BY DEF IInv
  <2> HIDE DEF L
  <2>5. /\ ScopeContains(scopes[L], name) => name \in lexical[L]
        /\ Apart(L) => (ScopeContains(scopes[L], name) <=> name \in lexical[L])
    BY <2>2, <2>3, <2>4, HasIs
  <2> QED
    BY <1>3, <2>1, <2>5 DEF L
<1>5. Warned
  BY <1>1, <1>2, <1>3, <1>4 DEF Warned
<1> QED
  BY <1>1, <1>2, <1>5

\* A refused variable leaves everything as it was.
LEMMA Refused ==
    ASSUME IInv, failed' = "already a variable", UNCHANGED <<hash, scopes, work, lexical>>,
           latest' \in Latest, latest'.kind = "declare"
    PROVE  IInv'
<1>1. Good(scopes', lexical', Open(work')) /\ WorkOK(work')
  BY DEF IInv
<1> QED
  BY <1>1, StepInv DEF Messages, Lookups

\* The visit of what follows begins or goes on, and what is open is nothing.
LEMMA GoodOutside ==
    ASSUME NEW s, NEW lex, NEW open, Good(s, lex, open), s = <<>>, NEW other
    PROVE  Good(s, lex, other)
<1>1. Len(s) = 0
  BY GoodTypes
<1> QED
  BY <1>1 DEF Good

LEMMA BlockStep == IInv /\ Block => IInv' /\ Warned
<1> SUFFICES ASSUME IInv, Block  PROVE IInv' /\ Warned
  OBVIOUS
<1> DEFINE e == [kind |-> "block", name |-> NoName]
<1>1. Open(work) = NoName /\ Facts!Hashes /\ Good(scopes, lexical, NoName) /\ WorkOK(work)
  BY InOpen DEF Block, IInv
<1>2. e \in Work /\ e.kind # "initializer"
  BY DEF Work
<1>3. work' = Append(work, e) /\ scopes' = Append(scopes, MakeScope)
      /\ lexical' = Append(lexical, {}) /\ latest' = Nothing /\ UNCHANGED <<hash, failed>>
      /\ failed = "none"
  BY DEF Block, Enter, Statement
<1> HIDE DEF e
<1>4. WorkOK(work') /\ Open(work') = NoName
  BY <1>1, <1>2, <1>3, WorkEnter
<1>5. Good(scopes', lexical', Open(work'))
  BY <1>1, <1>3, <1>4, GoodBegin
<1> QED
  BY <1>3, <1>4, <1>5, Said, Untold, StepInv DEF Messages, Lookups

LEMMA EndScopeStep == IInv /\ EndScope => IInv' /\ Warned
<1> SUFFICES ASSUME IInv, EndScope  PROVE IInv' /\ Warned
  OBVIOUS
<1>1. Open(work) = NoName /\ Good(scopes, lexical, NoName) /\ WorkOK(work)
  BY InOpen DEF EndScope, IInv
<1>2. work' = Front(work) /\ scopes' = Front(scopes) /\ lexical' = Front(lexical)
      /\ latest' = Nothing /\ UNCHANGED <<hash, failed>> /\ failed = "none"
  BY DEF EndScope, ScopeEnd
<1>3. WorkOK(work') /\ Open(work') = NoName
  BY <1>1, <1>2, WorkEnd
<1>4. Good(scopes', lexical', Open(work'))
  BY <1>1, <1>2, <1>3, GoodEnd
<1> QED
  BY <1>2, <1>3, <1>4, Said, Untold, StepInv DEF Messages, Lookups

LEMMA BodyStep == IInv /\ Body => IInv' /\ Warned
<1> SUFFICES ASSUME IInv, Body  PROVE IInv' /\ Warned
  OBVIOUS
<1> DEFINE e == [kind |-> "function", name |-> NoName]
<1>1. Open(work) = NoName /\ Good(scopes, lexical, NoName) /\ WorkOK(work)
  BY InOpen DEF Body, IInv
<1>2. e \in Work /\ e.kind # "initializer"
  BY DEF Work
<1>3. work' = Append(Front(work), e) /\ UNCHANGED <<hash, scopes, failed, lexical>>
      /\ latest' = Nothing /\ failed = "none"
  BY DEF Body
<1> HIDE DEF e
<1>4. WorkOK(Front(work)) /\ Open(Front(work)) = NoName
  BY <1>1, WorkEnd
<1>5. WorkOK(work') /\ Open(work') = NoName
  BY <1>2, <1>3, <1>4, WorkEnter
<1>6. Good(scopes', lexical', Open(work'))
  BY <1>1, <1>3, <1>5
<1> QED
  BY <1>3, <1>5, <1>6, Said, Untold, StepInv DEF Messages, Lookups

LEMMA FunctionStep ==
    ASSUME IInv, NEW name \in Name, Function(name)
    PROVE  IInv' /\ Warned
<1> DEFINE e == [kind |-> "parameters", name |-> NoName]
           around == IF scopes = <<>> THEN scopes ELSE DeclareAndDefine(name)
           within == IF lexical = <<>> THEN lexical ELSE Lexically(name)
<1>1. /\ Open(work) = NoName /\ Facts!Hashes /\ Good(scopes, lexical, NoName)
      /\ WorkOK(work) /\ failed = "none"
  BY InOpen DEF Function, IInv, Statement
<1>2. Declare(name, Append(around, MakeScope))
  BY DEF Function
<1> HIDE DEF around
<1>3. /\ UNCHANGED hash /\ latest' \in Latest /\ latest'.kind = "declare" /\ Warned
      /\ \/ failed' = "already a variable" /\ UNCHANGED <<scopes, work, lexical>>
         \/ failed' = "none" /\ scopes' = Append(around, MakeScope)
  BY <1>1, <1>2, Declares
<1>4. CASE failed' = "already a variable"
  BY <1>3, <1>4, Refused
<1>5. CASE failed' = "none"
  <2>1. work' = Append(work, e) /\ lexical' = Append(within, {})
    BY <1>5 DEF Function, Enter
  <2>2. e \in Work /\ e.kind # "initializer"
    BY DEF Work
  <2> HIDE DEF e
  <2>3. WorkOK(work') /\ Open(work') = NoName
    BY <1>1, <2>1, <2>2, WorkEnter
  <2>4. Good(around, within, NoName)
    <3>1. scopes = <<>> <=> lexical = <<>>
      BY <1>1, GoodTypes
    <3>2. CASE scopes = <<>>
      <4>1. around = scopes /\ within = lexical
        BY <3>1, <3>2 DEF around
      <4> QED
        BY <1>1, <4>1
    <3>3. CASE scopes # <<>>
      <4>1. /\ around = ScopeSet(ScopeSet(scopes, name, 0), name, 1)
            /\ within = With1(lexical, name)
        BY <3>1, <3>3 DEF around, DeclareAndDefine, Lexically, With1
      <4> QED
        BY <1>1, <3>3, <4>1, GoodBoth
    <3> QED
      BY <3>2, <3>3
  <2> HIDE DEF within
  <2>5. scopes' = Append(around, MakeScope)
    BY <1>3, <1>5
  <2>6. Good(scopes', lexical', Open(work'))
    BY <1>1, <2>1, <2>3, <2>4, <2>5, GoodBegin
  <2> QED
    BY <1>3, <1>5, <2>3, <2>6, StepInv DEF Messages, Lookups
<1> QED
  BY <1>3, <1>4, <1>5

LEMMA ParameterStep ==
    ASSUME IInv, NEW name \in Name, Parameter(name)
    PROVE  IInv' /\ Warned
<1>1. /\ Open(work) = NoName /\ Facts!Hashes /\ Good(scopes, lexical, NoName)
      /\ WorkOK(work) /\ failed = "none" /\ Declare(name, DeclareAndDefine(name))
  BY InOpen DEF Parameter, IInv
<1>2. /\ UNCHANGED hash /\ latest' \in Latest /\ latest'.kind = "declare" /\ Warned
      /\ \/ failed' = "already a variable" /\ UNCHANGED <<scopes, work, lexical>>
         \/ failed' = "none" /\ scopes' = DeclareAndDefine(name)
  BY <1>1, Declares
<1>3. CASE failed' = "already a variable"
  BY <1>2, <1>3, Refused
<1>4. CASE failed' = "none"
  <2>1. /\ scopes' = ScopeSet(ScopeSet(scopes, name, 0), name, 1)
        /\ lexical' = With1(lexical, name) /\ UNCHANGED work
    BY <1>2, <1>4 DEF Parameter, DeclareAndDefine, Lexically, With1
  <2>2. Good(scopes', lexical', NoName)
    <3>1. CASE scopes = <<>>
      <4>1. lexical = <<>>
        BY <1>1, <3>1, GoodTypes
      <4>2. scopes' = scopes /\ lexical' = lexical
        BY <2>1, <3>1, <4>1, GoodNone
      <4> QED
        BY <1>1, <4>2
    <3>2. CASE scopes # <<>>
      BY <1>1, <2>1, <3>2, GoodBoth
    <3> QED
      BY <3>1, <3>2
  <2>3. WorkOK(work') /\ Open(work') = NoName
    BY <1>1, <2>1
  <2> QED
    BY <1>2, <1>4, <2>2, <2>3, StepInv DEF Messages, Lookups
<1> QED
  BY <1>2, <1>3, <1>4

LEMMA VariableStep ==
    ASSUME IInv, NEW name \in Name, Variable(name)
    PROVE  IInv' /\ Warned
<1> DEFINE e == [kind |-> "initializer", name |-> name]
           after == IF scopes = <<>> THEN scopes ELSE ScopeSet(scopes, name, 0)
<1>1. /\ Open(work) = NoName /\ Facts!Hashes /\ Good(scopes, lexical, NoName)
      /\ WorkOK(work) /\ failed = "none" /\ Declare(name, after)
  BY InOpen DEF Variable, IInv, Statement
<1> HIDE DEF after
<1>2. /\ UNCHANGED hash /\ latest' \in Latest /\ latest'.kind = "declare" /\ Warned
      /\ \/ failed' = "already a variable" /\ UNCHANGED <<scopes, work, lexical>>
         \/ failed' = "none" /\ scopes' = after
  BY <1>1, Declares
<1>3. CASE failed' = "already a variable"
  BY <1>2, <1>3, Refused
<1>4. CASE failed' = "none"
  <2>1. /\ work' = Append(work, e)
        /\ lexical' = IF lexical = <<>> THEN lexical ELSE With1(lexical, name)
        /\ scopes' = IF scopes = <<>> THEN scopes ELSE ScopeSet(scopes, name, 0)
    BY <1>2, <1>4 DEF Variable, Enter, Lexically, With1, after
  <2>2. e \in Work /\ e.kind = "initializer" /\ e.name = name
    BY DEF Work
  <2> HIDE DEF e
  <2>3. WorkOK(work') /\ Open(work') = name
    BY <1>1, <2>1, <2>2, WorkEnter
  <2>4. Good(scopes', lexical', name)
    <3>1. scopes = <<>> <=> lexical = <<>>
      BY <1>1, GoodTypes
    <3>2. CASE scopes = <<>>
      <4>1. scopes' = scopes /\ lexical' = lexical
        BY <2>1, <3>1, <3>2
      <4>2. Good(scopes, lexical, name)
        BY <1>1, <3>2, GoodOutside
      <4> QED
        BY <4>1, <4>2
    <3>3. CASE scopes # <<>>
      <4>1. scopes' = ScopeSet(scopes, name, 0) /\ lexical' = With1(lexical, name)
        BY <2>1, <3>1, <3>3
      <4>2. Good(ScopeSet(scopes, name, 0), With1(lexical, name),
                 IF 0 = 0 THEN name ELSE NoName)
        BY <1>1, <3>3, GoodSet
      <4> QED
        BY <4>1, <4>2
    <3> QED
      BY <3>2, <3>3
  <2> QED
    BY <1>2, <1>4, <2>3, <2>4, StepInv DEF Messages, Lookups
<1> QED
  BY <1>2, <1>3, <1>4

LEMMA EndVariableStep == IInv /\ EndVariable => IInv' /\ Warned
<1> SUFFICES ASSUME IInv, EndVariable  PROVE IInv' /\ Warned
  OBVIOUS
<1> DEFINE name == Last(work).name
<1>1. /\ Facts!Hashes /\ Good(scopes, lexical, name) /\ WorkOK(work) /\ failed = "none"
      /\ In({"initializer"})
  BY InOpen DEF EndVariable, IInv
<1>2. name \in Name
  <2>1. Len(work) \in Nat /\ Len(work) # 0
    BY <1>1, LenProperties, EmptySeq DEF WorkOK, In
  <2>2. Len(work) \in 1..Len(work)
    BY <2>1
  <2> QED
    BY <1>1, <2>2 DEF WorkOK, In, Last
<1>3. /\ work' = Front(work) /\ latest' = Nothing /\ UNCHANGED <<hash, failed, lexical>>
      /\ scopes' = IF scopes = <<>> THEN scopes ELSE ScopeSet(scopes, name, 1)
  BY DEF EndVariable, Define
<1> HIDE DEF name
<1>4. WorkOK(work') /\ Open(work') = NoName
  BY <1>1, <1>3, WorkEnd
<1>5. Good(scopes', lexical', NoName)
  <2>1. CASE scopes = <<>>
    BY <1>1, <1>3, <2>1, GoodOutside
  <2>2. CASE scopes # <<>>
    <3> DEFINE L == Len(scopes)
    <3>1. /\ L \in 1..L /\ Len(lexical) = L /\ lexical \in Seq(SUBSET Name)
          /\ DOMAIN lexical = 1..L /\ lexical[L] = Facts!KeysOf(scopes[L].table)
      BY <1>1, <2>2, GoodTypes
    <3>2. Facts!Sound(scopes[L].table) /\ Facts!Content(scopes[L].table, name) = 0
      BY <1>1, <1>2, <3>1 DEF Good, ScopeOK
    <3>3. name \in Facts!KeysOf(scopes[L].table)
      <4>1. PICK i \in 1..Len(scopes[L].table) : scopes[L].table[i].key = name
        <5>1. -1 # 0
          OBVIOUS
        <5> QED
          BY <1>2, <3>2, <5>1, FactsConstants, Facts!ContentIs
      <4>2. name # NoName
        BY <1>2, ResolverConstants
      <4> QED
        BY <4>1, <4>2 DEF Facts!KeysOf, Facts!Occ
    <3>4. With1(lexical, name) = lexical
      <4>1. lexical[L] \cup {name} = lexical[L]
        BY <3>1, <3>3
      <4>2. lexical \in [1..L -> SUBSET Name]
        BY <3>1, LenProperties
      <4> QED
        BY <3>1, <4>1, <4>2 DEF With1
    <3>5. Good(ScopeSet(scopes, name, 1), With1(lexical, name), IF 1 = 0 THEN name ELSE NoName)
      BY <1>1, <1>2, <2>2, GoodSet
    <3> QED
      BY <1>3, <2>2, <3>4, <3>5
  <2> QED
    BY <2>1, <2>2
<1> QED
  BY <1>1, <1>3, <1>4, <1>5, Said, Untold, StepInv DEF Messages, Lookups

\* What is asked of a step that looks a name up.
LEMMA LookupInv ==
    ASSUME IInv, NEW name \in Name, NEW kind \in {"read", "assign"},
           latest' = LookedUp(kind, name, ResolveLocal(name)),
           UNCHANGED <<hash, scopes, work, lexical>>, failed' \in Messages,
           failed' = "own initializer" <=>
               kind = "read" /\ scopes # <<>> /\ Open(work) = name
    PROVE  IInv' /\ Warned
<1> DEFINE d == ResolveLocal(name)
<1>1. /\ Facts!Hashes /\ Good(scopes, lexical, Open(work)) /\ WorkOK(work)
      /\ Good(scopes', lexical', Open(work'))
  BY DEF IInv
<1>2. LookupOK(name, d) /\ d \in Nat \cup {-1}
  BY <1>1, Looks
<1>3. latest' \in Latest /\ latest'.kind = kind /\ latest'.name = name /\ latest'.distance = d
  <2> HIDE DEF d
  <2>1. latest' = LookedUp(kind, name, d)
    BY DEF d
  <2>2. d \in Nat \cup {-1}
    BY <1>2
  <2> QED
    BY <2>1, <2>2 DEF LookedUp, Nothing, Latest
<1> HIDE DEF d
<1>4. ResolvesLexically'
  BY <1>2, <1>3, LookupNext
<1>5. Good(scopes, lexical, Open(work))'
  BY <1>1, GoodNext
<1>6. Open(work) = name <=> In({"initializer"}) /\ Last(work).name = name
  BY ResolverConstants DEF Open, In
<1>7. RefusesOwnInitializer'
  BY <1>3, <1>6 DEF RefusesOwnInitializer, In
<1>8. Facts!Hashes' /\ WorkOK(work)'
  BY <1>1 DEF Facts!Hashes, WorkOK
<1> QED
  BY <1>3, <1>4, <1>5, <1>7, <1>8, Untold DEF IInv, Messages, Latest

LEMMA ReadStep ==
    ASSUME IInv, NEW name \in Name, Read(name)
    PROVE  IInv' /\ Warned
<1>1. failed = "none" /\ UNCHANGED <<hash, scopes, work, lexical>>
  BY DEF Read, Expression
<1>2. failed' = "own initializer" <=> scopes # <<>> /\ ScopeGet(name) = 0
  BY <1>1 DEF Read
<1>3. ASSUME scopes # <<>>  PROVE ScopeGet(name) = 0 <=> Open(work) = name
  <2> DEFINE L == Len(scopes)
  <2>1. Good(scopes, lexical, Open(work)) /\ Facts!Hashes
    BY DEF IInv
  <2>2. L \in 1..L
    BY <1>3, <2>1, GoodTypes
  <2>3. /\ Facts!Sound(scopes[L].table)
        /\ Facts!Content(scopes[L].table, name) = 0 <=> name = Open(work)
    BY <2>1, <2>2 DEF Good, ScopeOK
  <2>4. ScopeGet(name) = Facts!Find(scopes[L].table, name)
    BY SameFind DEF ScopeGet, Last
  <2>5. Facts!Find(scopes[L].table, name) = Facts!Content(scopes[L].table, name)
    BY <2>1, <2>3, FactsConstants, Facts!Found
  <2> QED
    BY <2>3, <2>4, <2>5
<1>4. failed' \in Messages
  BY <1>1 DEF Read, Messages
<1> QED
  BY <1>1, <1>2, <1>3, <1>4, LookupInv DEF Read, LookedUp

LEMMA AssignStep ==
    ASSUME IInv, NEW name \in Name, Assign(name)
    PROVE  IInv' /\ Warned
<1>1. failed = "none" /\ failed' = "none" /\ failed' \in Messages
  BY DEF Assign, Expression, Messages
<1> QED
  BY <1>1, LookupInv DEF Assign, LookedUp

LEMMA NextInv ==
    ASSUME IInv, [Next]_vars
    PROVE  IInv' /\ [Warned]_vars
<1>1. ASSUME UNCHANGED vars  PROVE IInv'
  <2>1. Good(scopes', lexical', Open(work'))
    BY <1>1 DEF IInv, vars
  <2>2. Good(scopes, lexical, Open(work))'
    BY <1>1, <2>1, GoodNext DEF vars
  <2> QED
    BY <1>1, <2>2 DEF IInv, vars, Facts!Hashes, WorkOK, ResolvesLexically,
         RefusesOwnInitializer, Apart, Hop, In, Tables!At
<1>2. ASSUME NEW name \in Name, Function(name)  PROVE IInv' /\ Warned
  BY <1>2, FunctionStep
<1>3. ASSUME NEW name \in Name, Parameter(name)  PROVE IInv' /\ Warned
  BY <1>3, ParameterStep
<1>4. ASSUME NEW name \in Name, Variable(name)  PROVE IInv' /\ Warned
  BY <1>4, VariableStep
<1>5. ASSUME NEW name \in Name, Read(name)  PROVE IInv' /\ Warned
  BY <1>5, ReadStep
<1>6. ASSUME NEW name \in Name, Assign(name)  PROVE IInv' /\ Warned
  BY <1>6, AssignStep
<1>7. CASE Block
  BY <1>7, BlockStep
<1>8. CASE EndScope
  BY <1>8, EndScopeStep
<1>9. CASE Body
  BY <1>9, BodyStep
<1>10. CASE EndVariable
  BY <1>10, EndVariableStep
<1> QED
  BY <1>1, <1>2, <1>3, <1>4, <1>5, <1>6, <1>7, <1>8, <1>9, <1>10 DEF Next

LEMMA Invariant == Spec => []IInv
<1>1. IInv /\ [Next]_vars => IInv'
  BY NextInv
<1> QED
  BY InitInv, <1>1, PTL DEF Spec

-----------------------------------------------------------------------------
(* The theorems. *)

\* Every scope is a table whose names are the scope's variables.
THEOREM TypeCorrect == Spec => []TypeOK
<1>1. IInv => TypeOK
  BY InvImplies
<1> QED
  BY Invariant, <1>1, PTL

\* A distance that resolve_local records is that of a scope that has the
\* variable, and of the nearest one unless names have collided, for every
\* program and every hash.
THEOREM ResolvesAlways == Spec => []ResolvesLexically
<1>1. IInv => ResolvesLexically
  BY DEF IInv
<1> QED
  BY Invariant, <1>1, PTL

\* The programs that read a local variable in its own initializer are refused,
\* and no others are refused for it.
THEOREM OwnInitializer == Spec => []RefusesOwnInitializer
<1>1. IInv => RefusesOwnInitializer
  BY DEF IInv
<1> QED
  BY Invariant, <1>1, PTL

\* A second variable of a name in a scope is refused unless names have
\* collided, and a first one never is.
THEOREM Duplicates == Spec => RefusesDuplicates
<1>1. IInv /\ [Next]_vars => [Warned]_vars
  BY NextInv
<1>2. Spec => [][Warned]_vars
  BY Invariant, <1>1, PTL DEF Spec
<1> QED
  BY <1>2 DEF RefusesDuplicates, Warned

-----------------------------------------------------------------------------
(* Environments, calls and returns. *)

\* Everything on the C stack was made.
Grounded ==
    /\ Global \in made
    /\ \A i \in 1..Len(stack) : stack[i].scope \in made

\* An activation goes back to the scope of the one below it.
Links ==
    \A i \in 1..Len(stack) :
        stack[i].previous = IF i = 1 THEN Global ELSE stack[i - 1].scope

\* What a ReturnEnv saved is what its call saved.
Saved ==
    \A i \in 1..Len(returns) :
        returns[i].ret \in 1..Len(stack) =>
            returns[i].original = stack[returns[i].ret].previous

EnvInv ==
    /\ EnvTypeOK
    /\ Grounded
    /\ running => Links /\ Saved /\ ReturnsMatch /\ EnvFollows

-----------------------------------------------------------------------------
(* Lemmas: sequences. *)

\* What Front and Last are on a sequence that is not empty.
LEMMA FrontLast ==
    ASSUME NEW S, NEW s \in Seq(S), s # <<>>
    PROVE  /\ Len(s) \in Nat \ {0}
           /\ Front(s) \in Seq(S)
           /\ Len(Front(s)) = Len(s) - 1
           /\ \A i \in 1..(Len(s) - 1) : Front(s)[i] = s[i]
           /\ Last(s) = s[Len(s)] /\ Last(s) \in S
PROOF
  <1>1. Len(s) \in Nat \ {0}
    BY EmptySeq
  <1>2. Front(s) = [i \in 1..(Len(s) - 1) |-> s[i]]
    BY DEF Front
  <1>3. \A i \in 1..(Len(s) - 1) : s[i] \in S
    BY <1>1, ElementOfSeq
  <1>4. Front(s) \in Seq(S)
    BY <1>1, <1>2, <1>3, IsASeq
  <1> QED  BY <1>1, <1>2, <1>4, ElementOfSeq DEF Last

-----------------------------------------------------------------------------
(* One lemma per action. *)

LEMMA EnvInitInv == EnvInit => EnvInv
PROOF
  BY EnvironmentsConstants DEF EnvInit, EnvInv, EnvTypeOK, Grounded, Links, Saved,
     ReturnsMatch, EnvFollows, Activation, ReturnEnv, Undefined

\* Touch changes at most the fate of the program.
LEMMA TouchType ==
    ASSUME EnvTypeOK, NEW t, Touch(t)
    PROVE  live' = live /\ running' \in BOOLEAN /\ undefined' \subseteq Undefined
PROOF
  BY DEF EnvTypeOK, Touch, Crash, fate, Undefined

\* A loop that destroys makes nothing and keeps the types.
LEMMA DestroyType ==
    ASSUME EnvTypeOK, NEW e, NEW c, Destroy(e, c)
    PROVE  live' \subseteq live /\ running' \in BOOLEAN /\ undefined' \subseteq Undefined
PROOF
  BY DEF EnvTypeOK, Destroy, Crash, fate, Undefined

\* An access, wherever it goes.
LEMMA TouchInv ==
    ASSUME EnvInv, running, NEW t, Touch(t), UNCHANGED <<control, made, enclosing, careful>>,
           functions' \subseteq made
    PROVE  EnvInv'
PROOF
  <1>1. live' = live /\ running' \in BOOLEAN /\ undefined' \subseteq Undefined
    BY TouchType DEF EnvInv
  <1>2. EnvTypeOK'
    BY <1>1 DEF EnvInv, EnvTypeOK, control, Activation, ReturnEnv
  <1>3. Grounded'
    BY DEF EnvInv, Grounded, control
  <1>4. (Links /\ Saved /\ ReturnsMatch /\ EnvFollows)'
    BY DEF EnvInv, Links, Saved, ReturnsMatch, EnvFollows, control
  <1> QED  BY <1>2, <1>3, <1>4 DEF EnvInv

\* A block enters an environment of its own.
LEMMA BlockInv ==
    ASSUME EnvInv, running, NEW e \in Env, ExecuteBlock(e)
    PROVE  EnvInv'
PROOF
  <1> DEFINE a == [scope |-> e, previous |-> env, closure |-> None]
  <1>1. /\ stack' = Append(stack, a) /\ returns' = returns
        /\ made' = made \cup {e} /\ env' = e
    BY DEF ExecuteBlock, NewEnv
  <1>2. a \in Activation /\ stack \in Seq(Activation)
    BY DEF EnvInv, EnvTypeOK, Activation
  <1>3. /\ stack' \in Seq(Activation) /\ Len(stack') = Len(stack) + 1
        /\ Len(stack) \in Nat
        /\ \A i \in 1..Len(stack) : stack'[i] = stack[i]
        /\ stack'[Len(stack) + 1] = a
    BY <1>1, <1>2, AppendProperties
  <1>4. EnvTypeOK'
    BY <1>1, <1>3 DEF EnvInv, EnvTypeOK, ExecuteBlock, NewEnv, Activation, ReturnEnv
  <1>5. Grounded'
    BY <1>1, <1>3 DEF EnvInv, Grounded
  <1>6. env = IF Len(stack) = 0 THEN Global ELSE stack[Len(stack)].scope
    BY <1>2, EmptySeq DEF EnvInv, EnvFollows, Last
  <1>7. Links'
    BY <1>3, <1>6 DEF EnvInv, Links
  <1>8. Saved'
    <2> SUFFICES ASSUME NEW i \in 1..Len(returns')
                 PROVE  (returns[i].ret \in 1..Len(stack) =>
                            returns[i].original = stack[returns[i].ret].previous)'
      BY DEF Saved
    <2>1. returns[i].ret \in { j \in 1..Len(stack) : stack[j].closure # None }
      BY <1>1 DEF EnvInv, ReturnsMatch
    <2> QED  BY <2>1, <1>1, <1>3 DEF EnvInv, Saved
  <1>9. ReturnsMatch'
    <2>1. { j \in 1..Len(stack) : stack[j].closure # None }'
            = { j \in 1..Len(stack) : stack[j].closure # None }
      BY <1>3
    <2> QED  BY <2>1, <1>1 DEF EnvInv, ReturnsMatch
  <1>10. EnvFollows'
    BY <1>1, <1>3 DEF EnvFollows, Last
  <1> QED  BY <1>4, <1>5, <1>7, <1>8, <1>9, <1>10 DEF EnvInv

\* A call enters an environment of its own and saves what it comes back to.
LEMMA CallInv ==
    ASSUME EnvInv, running, NEW c \in Env, NEW e \in Env, Call(c, e)
    PROVE  EnvInv'
PROOF
  <1> DEFINE a == [scope |-> e, previous |-> env, closure |-> c]
             r == [ret |-> Len(stack) + 1, original |-> env, before |-> made]
  <1>1. /\ stack' = Append(stack, a) /\ returns' = Append(returns, r)
        /\ made' = made \cup {e} /\ env' = e
    BY DEF Call, NewEnv
  <1>2. /\ a \in Activation /\ stack \in Seq(Activation)
        /\ r \in ReturnEnv /\ returns \in Seq(ReturnEnv)
    BY LenProperties DEF EnvInv, EnvTypeOK, Activation, ReturnEnv
  <1>3. /\ stack' \in Seq(Activation) /\ Len(stack') = Len(stack) + 1
        /\ Len(stack) \in Nat
        /\ \A i \in 1..Len(stack) : stack'[i] = stack[i]
        /\ stack'[Len(stack) + 1] = a
    BY <1>1, <1>2, AppendProperties
  <1>4. /\ returns' \in Seq(ReturnEnv) /\ Len(returns') = Len(returns) + 1
        /\ Len(returns) \in Nat
        /\ \A i \in 1..Len(returns) : returns'[i] = returns[i]
        /\ returns'[Len(returns) + 1] = r
    BY <1>1, <1>2, AppendProperties
  <1>5. EnvTypeOK'
    <2>1. careful' \in BOOLEAN
      BY DEF Call
    <2> QED  BY <2>1, <1>1, <1>3, <1>4 DEF EnvInv, EnvTypeOK, Call, NewEnv
  <1>6. Grounded'
    BY <1>1, <1>3 DEF EnvInv, Grounded
  <1>7. env = IF Len(stack) = 0 THEN Global ELSE stack[Len(stack)].scope
    BY <1>2, EmptySeq DEF EnvInv, EnvFollows, Last
  <1>8. Links'
    BY <1>3, <1>7 DEF EnvInv, Links
  <1>9. \A i \in 1..Len(returns) :
           returns[i].ret \in { j \in 1..Len(stack) : stack[j].closure # None }
    BY DEF EnvInv, ReturnsMatch
  <1>10. Saved'
    <2> SUFFICES ASSUME NEW i \in 1..(Len(returns) + 1)
                 PROVE  returns'[i].original = stack'[returns'[i].ret].previous
      BY <1>4 DEF Saved
    <2>1. CASE i \in 1..Len(returns)
      BY <2>1, <1>3, <1>4, <1>9 DEF EnvInv, Saved
    <2>2. CASE i = Len(returns) + 1
      BY <2>2, <1>3, <1>4
    <2> QED  BY <2>1, <2>2, <1>4
  <1>11. ReturnsMatch'
    <2> DEFINE calls == { j \in 1..Len(stack) : stack[j].closure # None }
               rets  == { returns[i].ret : i \in 1..Len(returns) }
    <2>1. calls' = calls \cup {Len(stack) + 1}
      <3>1. c # None
        BY EnvironmentsConstants
      <3> QED  BY <3>1, <1>3
    <2>2. rets' = rets \cup {Len(stack) + 1}
      BY <1>4
    <2>3. rets = calls
      BY DEF EnvInv, ReturnsMatch
    <2>4. \A i, j \in 1..(Len(returns) + 1) :
             i < j => returns'[i].ret < returns'[j].ret
      <3> SUFFICES ASSUME NEW i \in 1..(Len(returns) + 1), NEW j \in 1..(Len(returns) + 1), i < j
                   PROVE  returns'[i].ret < returns'[j].ret
        OBVIOUS
      <3>1. i \in 1..Len(returns)
        BY <1>4
      <3>2. CASE j \in 1..Len(returns)
        BY <3>1, <3>2, <1>4 DEF EnvInv, ReturnsMatch
      <3>3. CASE j = Len(returns) + 1
        BY <3>1, <3>3, <1>3, <1>4, <1>9
      <3> QED  BY <3>2, <3>3, <1>4
    <2> QED  BY <2>1, <2>2, <2>3, <2>4, <1>4 DEF ReturnsMatch
  <1>12. EnvFollows'
    BY <1>1, <1>3 DEF EnvFollows, Last
  <1> QED  BY <1>5, <1>6, <1>8, <1>10, <1>11, <1>12 DEF EnvInv

\* The C stack unwound below height h, with env what the activation at h goes
\* back to.
LEMMA StackCut ==
    ASSUME EnvInv, running, NEW h \in 1..Len(stack),
           stack' \in Seq(Activation), Len(stack') = h - 1,
           \A i \in 1..(h - 1) : stack'[i] = stack[i],
           env' = stack[h].previous
    PROVE  /\ env' \in made
           /\ \A i \in 1..Len(stack') : stack'[i].scope \in made
           /\ Links' /\ EnvFollows'
PROOF
  <1>1. Len(stack) \in Nat /\ h \in Nat
    BY LenProperties DEF EnvInv, EnvTypeOK
  <1>2. env' = IF h = 1 THEN Global ELSE stack[h - 1].scope
    BY DEF EnvInv, Links
  <1>3. env' \in made
    BY <1>1, <1>2 DEF EnvInv, Grounded
  <1>4. \A i \in 1..Len(stack') : stack'[i].scope \in made
    BY <1>1 DEF EnvInv, Grounded
  <1>5. Links'
    BY <1>1 DEF EnvInv, Links
  <1>6. EnvFollows'
    BY <1>1, <1>2, EmptySeq DEF EnvFollows, Last
  <1> QED  BY <1>3, <1>4, <1>5, <1>6

\* The newest ReturnEnv taken off together with its call and what is above.
LEMMA ReturnsCut ==
    ASSUME EnvInv, running, returns # <<>>, returns' = Front(returns),
           Len(stack') = Last(returns).ret - 1,
           \A i \in 1..Len(stack') : stack'[i] = stack[i]
    PROVE  Saved' /\ ReturnsMatch' /\ returns' \in Seq(ReturnEnv)
PROOF
  <1> DEFINE n == Len(returns)
             h == Last(returns).ret
             calls == { j \in 1..Len(stack) : stack[j].closure # None }
  <1>1. /\ n \in Nat \ {0} /\ returns' \in Seq(ReturnEnv) /\ Len(returns') = n - 1
        /\ \A i \in 1..(n - 1) : returns'[i] = returns[i]
        /\ h = returns[n].ret
    BY FrontLast DEF EnvInv, EnvTypeOK
  <1>2. Len(stack) \in Nat
    BY LenProperties DEF EnvInv, EnvTypeOK
  <1>3. calls = { returns[i].ret : i \in 1..n }
    BY DEF EnvInv, ReturnsMatch
  <1>4. \A i \in 1..n : returns[i].ret \in 1..Len(stack)
    BY <1>3
  <1>5. h \in 1..Len(stack)
    BY <1>1, <1>4
  <1>6. \A i \in 1..(n - 1) : returns[i].ret < h
    BY <1>1 DEF EnvInv, ReturnsMatch
  <1>7. Saved'
    <2> SUFFICES ASSUME NEW i \in 1..(n - 1)
                 PROVE  returns[i].original = stack'[returns[i].ret].previous
      BY <1>1 DEF Saved
    <2>1. returns[i].ret \in 1..Len(stack) /\ returns[i].ret < h
      BY <1>1, <1>4, <1>6
    <2>2. returns[i].ret \in 1..Len(stack')
      BY <2>1, <1>2, <1>5
    <2>3. returns[i].original = stack[returns[i].ret].previous
      BY <2>1, <1>1 DEF EnvInv, Saved
    <2> QED  BY <2>2, <2>3
  <1>8. ReturnsMatch'
    <2>1. calls' = { j \in calls : j < h }
      BY <1>2, <1>5
    <2>2. { j \in calls : j < h } = { returns[i].ret : i \in 1..(n - 1) }
      BY <1>1, <1>3, <1>6
    <2>3. { returns[i].ret : i \in 1..(n - 1) } = { returns[i].ret : i \in 1..n }'
      BY <1>1
    <2>4. \A i, j \in 1..(n - 1) : i < j => returns'[i].ret < returns'[j].ret
      BY <1>1 DEF EnvInv, ReturnsMatch
    <2> QED  BY <2>1, <2>2, <2>3, <2>4, <1>1 DEF ReturnsMatch
  <1> QED  BY <1>1, <1>7, <1>8

\* The newest ReturnEnv leads to a running function and to its caller.
LEMMA NewestReturn ==
    ASSUME EnvInv, running, returns # <<>>
    PROVE  /\ Last(returns).ret \in 1..Len(stack)
           /\ Last(returns).original = stack[Last(returns).ret].previous
PROOF
  <1>1. Len(returns) \in Nat \ {0} /\ Last(returns) = returns[Len(returns)]
    BY FrontLast DEF EnvInv, EnvTypeOK
  <1>2. Last(returns).ret \in { j \in 1..Len(stack) : stack[j].closure # None }
    BY <1>1 DEF EnvInv, ReturnsMatch
  <1> QED  BY <1>1, <1>2 DEF EnvInv, Saved

\* The end of a block.
LEMMA EndBlockInv ==
    ASSUME EnvInv, running, EndBlock
    PROVE  EnvInv'
PROOF
  <1> DEFINE n == Len(stack)
  <1>1. /\ n \in Nat \ {0} /\ stack' \in Seq(Activation) /\ Len(stack') = n - 1
        /\ \A i \in 1..(n - 1) : stack'[i] = stack[i]
        /\ env' = stack[n].previous /\ stack[n].closure = None
    BY FrontLast DEF EnvInv, EnvTypeOK, EndBlock
  <1>2. returns' = returns /\ made' = made
    BY DEF EndBlock
  <1>3. /\ env' \in made
        /\ \A i \in 1..Len(stack') : stack'[i].scope \in made
        /\ Links' /\ EnvFollows'
    BY <1>1, StackCut
  <1>4. EnvTypeOK'
    <2>1. live' \subseteq live /\ running' \in BOOLEAN /\ undefined' \subseteq Undefined
      BY DEF EndBlock, Crash, EnvInv, EnvTypeOK, Undefined
    <2> QED  BY <2>1, <1>1, <1>2, <1>3 DEF EnvInv, EnvTypeOK, EndBlock, Activation, ReturnEnv
  <1>5. Grounded'
    BY <1>2, <1>3 DEF EnvInv, Grounded
  <1>6. { j \in 1..Len(stack) : stack[j].closure # None }'
          = { j \in 1..Len(stack) : stack[j].closure # None }
    BY <1>1
  <1>7. ReturnsMatch'
    BY <1>2, <1>6 DEF EnvInv, ReturnsMatch
  <1>8. Saved'
    BY <1>1, <1>2 DEF EnvInv, Saved
  <1> QED  BY <1>3, <1>4, <1>5, <1>7, <1>8 DEF EnvInv

\* A call that ends, with the C stack unwound below it.
LEMMA LeaveInv ==
    ASSUME EnvInv, running, returns # <<>>, NEW e, Leave(e, stack[Last(returns).ret]),
           stack' \in Seq(Activation), Len(stack') = Last(returns).ret - 1,
           \A i \in 1..Len(stack') : stack'[i] = stack[i],
           careful' \in BOOLEAN, UNCHANGED <<made, enclosing, functions>>
    PROVE  EnvInv'
PROOF
  <1> DEFINE h == Last(returns).ret
  <1>1. h \in 1..Len(stack) /\ Last(returns).original = stack[h].previous
    BY NewestReturn
  <1>2. returns' = Front(returns) /\ env' = stack[h].previous
    BY <1>1 DEF Leave
  <1>3. /\ env' \in made
        /\ \A i \in 1..Len(stack') : stack'[i].scope \in made
        /\ Links' /\ EnvFollows'
    BY <1>1, <1>2, StackCut
  <1>4. Saved' /\ ReturnsMatch' /\ returns' \in Seq(ReturnEnv)
    BY <1>2, ReturnsCut
  <1>5. live' \subseteq live /\ running' \in BOOLEAN /\ undefined' \subseteq Undefined
    BY DestroyType DEF Leave, EnvInv
  <1>6. EnvTypeOK'
    BY <1>3, <1>4, <1>5 DEF EnvInv, EnvTypeOK, Activation, ReturnEnv
  <1>7. Grounded'
    BY <1>3 DEF EnvInv, Grounded
  <1> QED  BY <1>3, <1>4, <1>6, <1>7 DEF EnvInv

LEMMA ReturnInv ==
    ASSUME EnvInv, running, Return
    PROVE  EnvInv'
PROOF
  <1> DEFINE h == Last(returns).ret
  <1>1. /\ returns # <<>> /\ Leave(env, stack[h]) /\ stack' = SubSeq(stack, 1, h - 1)
        /\ UNCHANGED <<made, enclosing, functions, careful>>
    BY DEF Return
  <1>2. h \in 1..Len(stack) /\ stack \in Seq(Activation) /\ Len(stack) \in Nat
    BY <1>1, NewestReturn, LenProperties DEF EnvInv, EnvTypeOK
  <1>3. /\ stack' \in Seq(Activation) /\ Len(stack') = h - 1
        /\ \A i \in 1..Len(stack') : stack'[i] = stack[i]
    BY <1>1, <1>2, SubSeqProperties
  <1>4. careful' \in BOOLEAN
    BY <1>1 DEF EnvInv, EnvTypeOK
  <1> QED  BY <1>1, <1>3, <1>4, LeaveInv

LEMMA FallOffInv ==
    ASSUME EnvInv, running, FallOff
    PROVE  EnvInv'
PROOF
  <1> DEFINE n == Len(stack)
  <1>1. /\ n \in Nat \ {0} /\ stack' \in Seq(Activation) /\ Len(stack') = n - 1
        /\ \A i \in 1..(n - 1) : stack'[i] = stack[i]
        /\ Last(stack) = stack[n] /\ stack[n].closure # None
    BY FrontLast DEF EnvInv, EnvTypeOK, FallOff
  \* The innermost activation is a call, so the newest ReturnEnv is its own.
  <1>2. returns # <<>> /\ Last(returns).ret = n
    <2> DEFINE m == Len(returns)
    <2>1. PICK i \in 1..m : returns[i].ret = n
      BY <1>1 DEF EnvInv, ReturnsMatch
    <2>2. m \in Nat
      BY LenProperties DEF EnvInv, EnvTypeOK
    <2>3. returns # <<>>
      BY <2>1, <2>2, EmptySeq
    <2>4. Last(returns) = returns[m] /\ m \in 1..m
      <3>1. returns \in Seq(ReturnEnv)
        BY DEF EnvInv, EnvTypeOK
      <3>2. Last(returns) = returns[m] /\ m \in Nat \ {0}
        BY <2>3, <3>1, FrontLast
      <3> QED  BY <3>2
    <2>5. returns[m].ret \in 1..n
      BY <2>4 DEF EnvInv, ReturnsMatch
    <2>6. ~ i < m
      BY <2>1, <2>4, <2>5, <1>1 DEF EnvInv, ReturnsMatch
    <2> QED  BY <2>1, <2>2, <2>3, <2>4, <2>6
  <1>3. /\ Leave(Last(stack).previous, stack[Last(returns).ret])
        /\ UNCHANGED <<made, enclosing, functions>>
    BY <1>1, <1>2 DEF FallOff
  <1>4. careful' \in BOOLEAN
    BY DEF FallOff
  <1> QED  BY <1>1, <1>2, <1>3, <1>4, LeaveInv

\* A return outside of any function ends the program.
LEMMA ReturnNowhereInv ==
    ASSUME EnvInv, running, ReturnNowhere
    PROVE  EnvInv'
PROOF
  BY DEF ReturnNowhere, Crash, control, EnvInv, EnvTypeOK, Grounded, Activation,
     ReturnEnv, Undefined

-----------------------------------------------------------------------------
(* Invariance and the theorems. *)

LEMMA EnvStepInv == EnvInv /\ [EnvNext]_envVars => EnvInv'
PROOF
  <1> SUFFICES ASSUME EnvInv, [EnvNext]_envVars PROVE EnvInv'
    OBVIOUS
  <1>1. CASE UNCHANGED envVars
    BY <1>1 DEF envVars, control, fate, EnvInv, EnvTypeOK, Grounded, Links, Saved,
       ReturnsMatch, EnvFollows, Activation, ReturnEnv
  <1>2. CASE EnvNext
    <2> USE <1>2 DEF EnvNext
    <2>1. ASSUME NEW e \in Env, ExecuteBlock(e) PROVE EnvInv'
      BY <2>1, BlockInv
    <2>2. CASE EndBlock
      BY <2>2, EndBlockInv
    <2>3. CASE DeclareFunction
      <3>1. env \in made
        BY DEF EnvInv, EnvTypeOK
      <3>2. functions' \subseteq made
        BY <2>3, <3>1 DEF DeclareFunction, EnvInv, EnvTypeOK
      <3> QED  BY <2>3, <3>2, TouchInv DEF DeclareFunction
    <2>4. ASSUME NEW d \in 0..Cardinality(Env), Use(d) PROVE EnvInv'
      <3>1. functions' \subseteq made
        BY <2>4 DEF Use, EnvInv, EnvTypeOK
      <3> QED  BY <2>4, <3>1, TouchInv DEF Use
    <2>5. CASE UseGlobal
      <3>1. functions' \subseteq made
        BY <2>5 DEF UseGlobal, EnvInv, EnvTypeOK
      <3> QED  BY <2>5, <3>1, TouchInv DEF UseGlobal
    <2>6. ASSUME NEW c \in Env, NEW e \in Env, Call(c, e) PROVE EnvInv'
      BY <2>6, CallInv
    <2>7. CASE FallOff
      BY <2>7, FallOffInv
    <2>8. CASE Return
      BY <2>8, ReturnInv
    <2>9. CASE ReturnNowhere
      BY <2>9, ReturnNowhereInv
    <2> QED  BY <2>1, <2>2, <2>3, <2>4, <2>5, <2>6, <2>7, <2>8, <2>9 DEF Step
  <1> QED  BY <1>1, <1>2

LEMMA Invariance == EnvSpec => []EnvInv
PROOF
  BY EnvInitInv, EnvStepInv, PTL DEF EnvSpec

\* The variables of Environments keep their types; the current environment and
\* every closure were made.
THEOREM EnvironmentTypes == EnvSpec => []EnvTypeOK
PROOF
  <1>1. EnvInv => EnvTypeOK
    BY DEF EnvInv
  <1> QED  BY <1>1, Invariance, PTL

\* However deep the blocks and calls, a return unwinds to the call it belongs
\* to: the list of return.c is the running functions in order.
THEOREM ReturnsMatchCalls == EnvSpec => []ReturnsMatch
PROOF
  <1>1. EnvInv => ReturnsMatch
    BY DEF EnvInv, ReturnsMatch
  <1> QED  BY <1>1, Invariance, PTL

\* The current environment is that of the innermost block or function that
\* runs, whatever loops of function_call have destroyed.
THEOREM EnvFollowsScopes == EnvSpec => []EnvFollows
PROOF
  <1>1. EnvInv => EnvFollows
    BY DEF EnvInv, EnvFollows
  <1> QED  BY <1>1, Invariance, PTL

-----------------------------------------------------------------------------
(* Careful programs: the chain of environments.  The scopes of the C stack *)
(* are numbered from the outside in, 0 is the global one.                  *)

At(st, i) == IF i = 0 THEN Global ELSE st[i].scope

\* The running scopes up to the height i.
Upto(st, i) == { At(st, j) : j \in 0..i }

\* The running scopes exist, none is entered twice, and each is enclosed in
\* one below it: the one it returns to, or the closure of its function.
Nested(st, en, lv) ==
    /\ en[Global] = None
    /\ Upto(st, Len(st)) \subseteq lv
    /\ \A i, j \in 0..Len(st) : At(st, i) = At(st, j) => i = j
    /\ \A i \in 1..Len(st) :
          IF st[i].closure = None
          THEN en[At(st, i)] = At(st, i - 1)
          ELSE en[At(st, i)] = st[i].closure /\ st[i].closure \in Upto(st, i - 1)

\* What runs in a call was made after it began.
Newer(st, rt, md) ==
    \A i \in 1..Len(rt) :
        /\ rt[i].before \subseteq md
        /\ \A j \in 1..Len(st) : j >= rt[i].ret => st[j].scope \notin rt[i].before

\* C is the chain that each environment begins.
Solves(C, en) ==
    C = [x \in Env |-> IF en[x] = None THEN <<x>> ELSE <<x>> \o C[en[x]]]

Woven ==
    /\ \E C : Solves(C, enclosing)
    /\ \A x \in Env : enclosing[x] \in made \cup {None}
    /\ careful =>
        /\ undefined \subseteq {"read"}
        /\ running => Nested(stack, enclosing, live) /\ Newer(stack, returns, made)

CarefulInv == EnvInv /\ Woven

\* A new environment in one that was made begins a chain too.
LEMMA NewChain ==
    ASSUME NEW en \in [Env -> Env \cup {None}], NEW md \in SUBSET Env,
           \A x \in Env : en[x] \in md \cup {None},
           \E C : Solves(C, en), NEW e \in Env \ md, NEW around \in md
    PROVE  \E C : Solves(C, [en EXCEPT ![e] = around])
<1> DEFINE eg == [en EXCEPT ![e] = around]
<1>1. PICK C : Solves(C, en)
  OBVIOUS
<1> DEFINE D == [x \in Env |-> IF x = e THEN <<e>> \o C[around] ELSE C[x]]
<1>2. eg[e] = around /\ (\A x \in Env : x # e => eg[x] = en[x]) /\ around # e /\ around # None
      /\ around \in Env
  BY EnvironmentsConstants
<1> HIDE DEF eg
<1>3. ASSUME NEW x \in Env
      PROVE  D[x] = IF eg[x] = None THEN <<x>> ELSE <<x>> \o D[eg[x]]
  <2>1. CASE x = e
    BY <1>2, <2>1
  <2>2. CASE x # e
    <3>1. C[x] = IF en[x] = None THEN <<x>> ELSE <<x>> \o C[en[x]]
      BY <1>1 DEF Solves
    <3>2. en[x] # None => en[x] # e /\ en[x] \in Env
      OBVIOUS
    <3> QED
      BY <1>2, <2>2, <3>1, <3>2
  <2> QED
    BY <2>1, <2>2
<1>4. D = [x \in Env |-> D[x]]
  OBVIOUS
<1> HIDE DEF D
<1>5. D = [x \in Env |-> IF eg[x] = None THEN <<x>> ELSE <<x>> \o D[eg[x]]]
  BY <1>3, <1>4
<1>6. Solves(D, eg)
  BY <1>5 DEF Solves
<1> QED
  BY <1>6 DEF eg

\* Chain does what it says.
LEMMA ChainIs ==
    ASSUME EnvTypeOK, \E C : Solves(C, enclosing), NEW x \in Env
    PROVE  Chain(x) = IF enclosing[x] = None THEN <<x>> ELSE <<x>> \o Chain(enclosing[x])
<1> DEFINE Is(f) == f = [y \in Env |-> IF enclosing[y] = None THEN <<y>>
                                       ELSE <<y>> \o f[enclosing[y]]]
           C == CHOOSE f : Is(f)
<1>1. \A y : Chain(y) = C[y]
  BY DEF Chain
<1>2. \E f : Is(f)
  BY DEF Solves
<1>3. Is(C)
  BY <1>2, Zenon
<1> HIDE DEF C
<1>4. C[x] = IF enclosing[x] = None THEN <<x>> ELSE <<x>> \o C[enclosing[x]]
  BY <1>3
<1> QED
  BY <1>1, <1>4

LEMMA SetOfChain ==
    ASSUME NEW x \in Env, NEW s \in Seq(Env)
    PROVE  <<x>> \o s \in Seq(Env) /\ ToSet(<<x>> \o s) = {x} \cup ToSet(s)
           /\ <<x>> \in Seq(Env) /\ ToSet(<<x>>) = {x}
<1>1. <<x>> \in Seq(Env) /\ Len(<<x>>) = 1 /\ <<x>>[1] = x
  OBVIOUS
<1>2. /\ <<x>> \o s \in Seq(Env) /\ Len(<<x>> \o s) = 1 + Len(s) /\ Len(s) \in Nat
      /\ \A i \in 1..(1 + Len(s)) : (<<x>> \o s)[i] = IF i <= 1 THEN <<x>>[i] ELSE s[i - 1]
  BY <1>1, ConcatProperties, LenProperties
<1> DEFINE t == <<x>> \o s
<1> HIDE DEF t
<1>3. ToSet(t) = { t[i] : i \in 1..(1 + Len(s)) } /\ ToSet(s) = { s[i] : i \in 1..Len(s) }
  <2>1. DOMAIN t = 1..(1 + Len(s)) /\ DOMAIN s = 1..Len(s)
    BY <1>2, LenProperties DEF t
  <2> QED
    BY <2>1 DEF ToSet
<1>4. t[1] = x /\ \A i \in 1..Len(s) : i + 1 \in 1..(1 + Len(s)) /\ t[i + 1] = s[i]
  BY <1>1, <1>2 DEF t
<1>5. \A i \in 1..(1 + Len(s)) : i = 1 \/ (i - 1 \in 1..Len(s) /\ t[i] = s[i - 1])
  BY <1>2 DEF t
<1>6. ToSet(t) = {x} \cup ToSet(s)
  <2> HIDE DEF t
  <2>1. \A y \in ToSet(t) : y \in {x} \cup ToSet(s)
    BY <1>3, <1>5, <1>4
  <2>2. x \in ToSet(t)
    BY <1>2, <1>3, <1>4
  <2>3. \A y \in ToSet(s) : y \in ToSet(t)
    BY <1>3, <1>4
  <2> QED
    BY <2>1, <2>2, <2>3
<1>7. ToSet(<<x>>) = {x}
  BY <1>1 DEF ToSet
<1> QED
  BY <1>1, <1>2, <1>6, <1>7 DEF t

\* The scope i of the C stack is enclosed in the scope j and those around it.
LEMMA Enclosed ==
    ASSUME EnvTypeOK, \E C : Solves(C, enclosing), NEW x \in Env, NEW y \in Env,
           enclosing[x] = y, Chain(y) \in Seq(Env)
    PROVE  Chain(x) \in Seq(Env) /\ Around(x) = {x} \cup Around(y)
<1>1. Chain(x) = <<x>> \o Chain(y)
  BY ChainIs, EnvironmentsConstants
<1> QED
  BY <1>1, SetOfChain DEF Around

\* What the chain of a running scope passes are running scopes below it.
LEMMA ChainBelow ==
    ASSUME EnvTypeOK, \E C : Solves(C, enclosing), Nested(stack, enclosing, live)
    PROVE  \A i \in 0..Len(stack) :
             /\ At(stack, i) \in Env /\ Chain(At(stack, i)) \in Seq(Env)
             /\ At(stack, i) \in Around(At(stack, i))
             /\ Around(At(stack, i)) \subseteq Upto(stack, i)
<1> DEFINE n == Len(stack)
           S == At(stack, 0)
           P(i) == /\ At(stack, i) \in Env /\ Chain(At(stack, i)) \in Seq(Env)
                   /\ At(stack, i) \in Around(At(stack, i))
                   /\ Around(At(stack, i)) \subseteq Upto(stack, i)
           T == { m \in Nat : \A i \in 0..m : i <= n => P(i) }
<1>1. n \in Nat /\ \A i \in 1..n : stack[i] \in Activation
  BY LenProperties, ElementOfSeq DEF EnvTypeOK
<1>2. \A i \in 0..n : At(stack, i) \in Env
  BY <1>1, EnvironmentsConstants DEF At, Activation
<1>3. P(0)
  <2>1. At(stack, 0) = Global /\ enclosing[Global] = None
    BY DEF At, Nested
  <2>2. Chain(Global) = <<Global>>
    BY <2>1, ChainIs, EnvironmentsConstants
  <2>3. Chain(Global) \in Seq(Env) /\ Around(Global) = {Global}
    BY <2>2, EmptySeq, SetOfChain, EnvironmentsConstants DEF Around
  <2>4. Global \in Upto(stack, 0)
    BY <2>1 DEF Upto
  <2> QED
    BY <1>2, <2>1, <2>3, <2>4, EnvironmentsConstants
<1>4. 0 \in T
  BY <1>3
<1>5. ASSUME NEW m \in Nat, m \in T  PROVE m + 1 \in T
  <2> SUFFICES ASSUME m + 1 <= n  PROVE P(m + 1)
    BY <1>5
  <2>1. PICK j \in 0..m : enclosing[At(stack, m + 1)] = At(stack, j)
    <3>1. m + 1 \in 1..n /\ (m + 1) - 1 = m
      BY <1>1
    <3>2. IF stack[m + 1].closure = None
          THEN enclosing[At(stack, m + 1)] = At(stack, m)
          ELSE enclosing[At(stack, m + 1)] = stack[m + 1].closure
               /\ stack[m + 1].closure \in Upto(stack, m)
      BY <3>1 DEF Nested
    <3> QED
      BY <3>2 DEF Upto
  <2>2. P(j)
    BY <1>1, <1>5
  <2>3. At(stack, m + 1) \in Env
    BY <1>1, <1>2
  <2>4. /\ Chain(At(stack, m + 1)) \in Seq(Env)
        /\ Around(At(stack, m + 1)) = {At(stack, m + 1)} \cup Around(At(stack, j))
    BY <2>1, <2>2, <2>3, Enclosed
  <2>5. Upto(stack, j) \subseteq Upto(stack, m + 1) /\ At(stack, m + 1) \in Upto(stack, m + 1)
    BY DEF Upto
  <2> QED
    BY <2>2, <2>3, <2>4, <2>5
<1> HIDE DEF T, P
<1>6. \A m \in Nat : m \in T
  BY <1>4, <1>5, Induction
<1>7. \A i \in 0..n : P(i)
  BY <1>1, <1>6 DEF T
<1> QED
  BY <1>7 DEF P

\* A call with h on the C stack, above which blocks only run.
LEMMA CallChain ==
    ASSUME EnvTypeOK, Links, \E C : Solves(C, enclosing), Nested(stack, enclosing, live),
           NEW h \in 1..Len(stack), NEW c, c = stack[h].closure, c # None,
           \A i \in 1..Len(stack) : i > h => stack[i].closure = None
    PROVE  /\ c \in Upto(stack, h - 1)
           /\ \A i \in h..Len(stack) :
                 /\ c \in Around(At(stack, i))
                 /\ Around(At(stack, i)) \subseteq { At(stack, j) : j \in h..i } \cup Around(c)
<1> DEFINE n == Len(stack)
           P(i) == /\ c \in Around(At(stack, i))
                   /\ Around(At(stack, i)) \subseteq { At(stack, j) : j \in h..i } \cup Around(c)
           T == { m \in Nat : h + m <= n => P(h + m) }
<1>1. n \in Nat /\ h \in Nat /\ h >= 1
  BY LenProperties DEF EnvTypeOK
<1>2. \A i \in 0..n : /\ At(stack, i) \in Env /\ Chain(At(stack, i)) \in Seq(Env)
                      /\ At(stack, i) \in Around(At(stack, i))
  BY ChainBelow
<1>3. enclosing[At(stack, h)] = c /\ c \in Upto(stack, h - 1)
  BY DEF Nested
<1>4. c \in Env /\ Chain(c) \in Seq(Env) /\ c \in Around(c)
  <2>1. PICK k \in 0..(h - 1) : c = At(stack, k)
    BY <1>3 DEF Upto
  <2> QED
    BY <1>1, <1>2, <2>1
<1>5. 0 \in T
  <2>1. Around(At(stack, h)) = {At(stack, h)} \cup Around(c)
    BY <1>1, <1>2, <1>3, <1>4, Enclosed
  <2>2. P(h)
    BY <1>1, <1>4, <2>1
  <2> HIDE DEF P
  <2> QED
    BY <1>1, <2>2
<1>6. ASSUME NEW m \in Nat, m \in T  PROVE m + 1 \in T
  <2> SUFFICES ASSUME h + (m + 1) <= n  PROVE P(h + (m + 1))
    OBVIOUS
  <2> DEFINE i == h + m
  <2>1. i \in 1..n /\ i + 1 \in 1..n /\ h + (m + 1) = i + 1 /\ i >= h /\ (i + 1) - 1 = i /\ i + 1 > h
    BY <1>1
  <2>2. P(i)
    BY <1>6, <2>1
  <2> HIDE DEF i
  <2>3. stack[i + 1].closure = None
    BY <2>1
  <2>4. enclosing[At(stack, i + 1)] = At(stack, i)
    <3>1. \A j \in 1..n : stack[j].closure = None => enclosing[At(stack, j)] = At(stack, j - 1)
      BY DEF Nested
    <3> QED
      BY <2>1, <2>3, <3>1
  <2>5. Around(At(stack, i + 1)) = {At(stack, i + 1)} \cup Around(At(stack, i))
    <3>1. i \in 0..n /\ i + 1 \in 0..n
      BY <1>1, <2>1
    <3>2. At(stack, i) \in Env /\ At(stack, i + 1) \in Env /\ Chain(At(stack, i)) \in Seq(Env)
      BY <1>2, <3>1
    <3> DEFINE x == At(stack, i + 1)
               y == At(stack, i)
    <3>3. enclosing[x] = y /\ x \in Env /\ y \in Env /\ Chain(y) \in Seq(Env)
      BY <2>4, <3>2
    <3> HIDE DEF x, y
    <3>4. Around(x) = {x} \cup Around(y)
      BY <3>3, Enclosed
    <3> QED
      BY <3>4 DEF x, y
  <2>6. /\ \A x \in { At(stack, j) : j \in h..i } : x \in { At(stack, j) : j \in h..(i + 1) }
        /\ At(stack, i + 1) \in { At(stack, j) : j \in h..(i + 1) }
    BY <1>1, <2>1
  <2>7. P(i + 1)
    BY <2>2, <2>5, <2>6
  <2> QED
    BY <2>1, <2>7
<1> HIDE DEF T, P
<1>7. \A m \in Nat : m \in T
  BY <1>5, <1>6, Induction
<1>8. ASSUME NEW i \in h..n  PROVE P(i)
  <2>1. i - h \in Nat /\ h + (i - h) = i /\ i <= n
    BY <1>1
  <2> QED
    BY <1>7, <2>1 DEF T
<1> QED
  BY <1>3, <1>8 DEF P

\* The newest ReturnEnv is that of the innermost call.
LEMMA InnermostCall ==
    ASSUME EnvInv, running, returns # <<>>
    PROVE  LET h == Last(returns).ret
           IN  /\ h \in 1..Len(stack) /\ stack[h].closure # None
               /\ \A i \in 1..Len(stack) : i > h => stack[i].closure = None
<1> DEFINE h == Last(returns).ret
           m == Len(returns)
           n == Len(stack)
           calls == { i \in 1..n : stack[i].closure # None }
<1>1. m \in Nat \ {0} /\ Last(returns) = returns[m]
  BY FrontLast DEF EnvInv, EnvTypeOK
<1>2. /\ { returns[i].ret : i \in 1..m } = calls
      /\ \A i, j \in 1..m : i < j => returns[i].ret < returns[j].ret
  BY DEF EnvInv, ReturnsMatch
<1>3. h \in calls
  BY <1>1, <1>2
<1>4. ASSUME NEW i \in 1..n, i > h, stack[i].closure # None  PROVE FALSE
  <2>1. PICK k \in 1..m : returns[k].ret = i
    BY <1>2, <1>4
  <2>2. n \in Nat
    BY LenProperties DEF EnvInv, EnvTypeOK
  <2>3. k = m \/ k < m
    BY <1>1
  <2>4. k = m => i = h
    BY <1>1, <2>1
  <2>5. k < m => i < h
    BY <1>1, <1>2, <2>1
  <2> HIDE DEF h
  <2> QED
    BY <1>3, <1>4, <2>2, <2>3, <2>4, <2>5
<1> QED
  BY <1>3, <1>4

\* The environment that runs is the top of the C stack.
LEMMA EnvIsTop ==
    ASSUME EnvInv, running
    PROVE  env = At(stack, Len(stack)) /\ Len(stack) \in Nat
           /\ \A i \in 1..Len(stack) : stack[i].previous = At(stack, i - 1)
<1>1. stack \in Seq(Activation) /\ Len(stack) \in Nat
  BY LenProperties DEF EnvInv, EnvTypeOK
<1>2. env = At(stack, Len(stack))
  BY <1>1, EmptySeq DEF EnvInv, EnvFollows, At, Last
<1>3. ASSUME NEW i \in 1..Len(stack)  PROVE stack[i].previous = At(stack, i - 1)
  <2>1. stack[i].previous = IF i = 1 THEN Global ELSE stack[i - 1].scope
    BY DEF EnvInv, Links
  <2>2. i = 1 <=> i - 1 = 0
    BY <1>1
  <2> QED
    BY <2>1, <2>2 DEF At
<1> QED
  BY <1>1, <1>2, <1>3

\* What a return destroys is what runs in its call.
LEMMA ReturnDestroys ==
    ASSUME EnvInv, running, \E C : Solves(C, enclosing), Nested(stack, enclosing, live),
           returns # <<>>, NEW h, h = Last(returns).ret, NEW c, c = stack[h].closure
    PROVE  /\ c \in Around(env) /\ Between(env, c) \subseteq live
           /\ Between(env, c) \subseteq { At(stack, i) : i \in h..Len(stack) }
           /\ Between(env, c) \cap Upto(stack, h - 1) = {}
<1> DEFINE n == Len(stack)
<1>1. /\ h \in 1..n /\ c # None /\ \A i \in 1..n : i > h => stack[i].closure = None
      /\ n \in Nat /\ env = At(stack, n)
  BY InnermostCall, EnvIsTop
<1>2. /\ c \in Upto(stack, h - 1) /\ c \in Around(env)
      /\ Around(env) \subseteq { At(stack, i) : i \in h..n } \cup Around(c)
  BY <1>1, CallChain DEF EnvInv
<1>3. PICK k \in 0..(h - 1) : c = At(stack, k)
  BY <1>2 DEF Upto
<1>4. \A i \in 0..n : Around(At(stack, i)) \subseteq Upto(stack, i)
  BY ChainBelow DEF EnvInv
<1>5. /\ Upto(stack, n) \subseteq live
      /\ \A i, j \in 0..n : At(stack, i) = At(stack, j) => i = j
  BY DEF Nested
<1>6. ASSUME NEW x \in Around(c), c \in Around(x)  PROVE x = c
  <2>1. PICK l \in 0..k : x = At(stack, l)
    BY <1>1, <1>3, <1>4, <1>6 DEF Upto
  <2>2. PICK q \in 0..l : c = At(stack, q)
    BY <1>1, <1>4, <1>6, <2>1 DEF Upto
  <2>3. k = q
    <3>1. k \in 0..n /\ q \in 0..n /\ At(stack, k) = At(stack, q)
      BY <1>1, <1>3, <2>1, <2>2
    <3> QED
      BY <1>5, <3>1
  <2>4. k = l
    BY <1>1, <2>1, <2>2, <2>3
  <2> QED
    BY <1>3, <2>1, <2>4
<1>7. Between(env, c) \subseteq { At(stack, i) : i \in h..n }
  BY <1>2, <1>6 DEF Between
<1>8. Between(env, c) \subseteq live
  BY <1>1, <1>4, <1>5 DEF Between
<1>9. ASSUME NEW x \in Between(env, c), x \in Upto(stack, h - 1)  PROVE FALSE
  <2>1. PICK i \in h..n : x = At(stack, i)
    BY <1>7, <1>9
  <2>2. PICK j \in 0..(h - 1) : x = At(stack, j)
    BY <1>9 DEF Upto
  <2>3. i \in 0..n /\ j \in 0..n /\ At(stack, i) = At(stack, j)
    BY <1>1, <2>1, <2>2
  <2>4. i = j
    BY <1>5, <2>3
  <2> QED
    BY <1>1, <2>4
<1> QED
  BY <1>2, <1>7, <1>8, <1>9

-----------------------------------------------------------------------------
(* Every step keeps careful programs careful. *)

LEMMA NestedCut ==
    ASSUME NEW st, NEW su, Len(st) \in Nat, Len(su) \in 0..Len(st),
           \A i \in 1..Len(su) : su[i] = st[i],
           NEW en, NEW lv, Nested(st, en, lv), NEW lw, Upto(st, Len(su)) \subseteq lw
    PROVE  Nested(su, en, lw)
<1> DEFINE m == Len(su)
<1>1. m \in Nat /\ m <= Len(st)
  OBVIOUS
<1>2. \A i \in 0..m : At(su, i) = At(st, i) /\ i \in 0..Len(st)
  BY <1>1 DEF At
<1>3. \A i \in 0..m : Upto(su, i) = Upto(st, i)
  BY <1>1, <1>2 DEF Upto
<1>4. \A i \in 1..m : i \in 0..m /\ i - 1 \in 0..m /\ i \in 1..Len(st)
  BY <1>1
<1>5. Upto(su, m) \subseteq lw
  BY <1>1, <1>3
<1>6. \A i \in 1..m :
          IF su[i].closure = None
          THEN en[At(su, i)] = At(su, i - 1)
          ELSE en[At(su, i)] = su[i].closure /\ su[i].closure \in Upto(su, i - 1)
  BY <1>2, <1>3, <1>4 DEF Nested
<1>7. \A i, j \in 0..m : At(su, i) = At(su, j) => i = j
  BY <1>2 DEF Nested
<1> QED
  BY <1>5, <1>6, <1>7 DEF Nested

LEMMA NewerCut ==
    ASSUME NEW st, NEW su, Len(st) \in Nat, Len(su) \in 0..Len(st),
           \A i \in 1..Len(su) : su[i] = st[i],
           NEW rt, NEW ru, Len(rt) \in Nat, Len(ru) \in 0..Len(rt),
           \A i \in 1..Len(ru) : ru[i] = rt[i],
           NEW md, Newer(st, rt, md)
    PROVE  Newer(su, ru, md)
<1>1. \A i \in 1..Len(ru) : i \in 1..Len(rt)
  OBVIOUS
<1>2. \A j \in 1..Len(su) : j \in 1..Len(st)
  OBVIOUS
<1> QED
  BY <1>1, <1>2 DEF Newer

LEMMA NestedPush ==
    ASSUME NEW st \in Seq(Activation), NEW a \in Activation, NEW su, su = Append(st, a),
           NEW en \in [Env -> Env \cup {None}], NEW lv, NEW md, lv \subseteq md,
           Nested(st, en, lv), a.scope \notin md, NEW around,
           IF a.closure = None THEN around = At(st, Len(st))
           ELSE around = a.closure /\ a.closure \in Upto(st, Len(st))
    PROVE  Nested(su, [en EXCEPT ![a.scope] = around], lv \cup {a.scope})
<1> DEFINE n == Len(st)
           e == a.scope
           eg == [en EXCEPT ![e] = around]
<1>1. /\ n \in Nat /\ Len(su) = n + 1 /\ su[n + 1] = a
      /\ \A i \in 1..n : su[i] = st[i]
  BY AppendProperties, LenProperties
<1>2. e \in Env
  BY DEF Activation
<1>3. eg[e] = around /\ \A x : x # e => eg[x] = en[x]
  BY <1>2
<1> HIDE DEF eg
<1>4. (\A i \in 0..n : At(su, i) = At(st, i)) /\ At(su, n + 1) = e
  BY <1>1 DEF At
<1>5. (\A i \in 0..n : Upto(su, i) = Upto(st, i)) /\ Upto(su, n + 1) = Upto(st, n) \cup {e}
  <2>1. \A i \in 0..n : Upto(su, i) = Upto(st, i)
    BY <1>1, <1>4 DEF Upto
  <2>2. Upto(su, n + 1) = Upto(su, n) \cup {At(su, n + 1)}
    BY <1>1 DEF Upto
  <2> QED
    BY <1>1, <1>4, <2>1, <2>2
<1>6. Upto(st, n) \subseteq lv /\ e \notin Upto(st, n) /\ Global \in Upto(st, n)
      /\ \A i \in 0..n : At(st, i) \in Upto(st, n)
  BY <1>1 DEF Nested, Upto, At
<1>7. eg[Global] = None
  BY <1>3, <1>6 DEF Nested
<1>8. Upto(su, n + 1) \subseteq lv \cup {e}
  BY <1>5, <1>6
<1>9. \A i, j \in 0..(n + 1) : At(su, i) = At(su, j) => i = j
  <2>1. \A i \in 0..(n + 1) : i \in 0..n \/ i = n + 1
    BY <1>1
  <2>2. \A i \in 0..n : At(su, i) # e /\ At(su, i) = At(st, i)
    BY <1>4, <1>6
  <2> QED
    BY <1>4, <2>1, <2>2 DEF Nested
<1>10. ASSUME NEW i \in 1..(n + 1)
       PROVE  IF su[i].closure = None
              THEN eg[At(su, i)] = At(su, i - 1)
              ELSE eg[At(su, i)] = su[i].closure /\ su[i].closure \in Upto(su, i - 1)
  <2>1. CASE i = n + 1
    <3>1. i - 1 = n /\ n \in 0..n
      BY <1>1, <2>1
    <3> QED
      BY <1>1, <1>3, <1>4, <1>5, <2>1, <3>1
  <2>2. CASE i # n + 1
    <3>1. i \in 1..n /\ i \in 0..n /\ i - 1 \in 0..n
      BY <1>1, <2>2
    <3>2. At(su, i) # e
      BY <1>4, <1>6, <3>1
    <3> QED
      BY <1>1, <1>3, <1>4, <1>5, <3>1, <3>2 DEF Nested
  <2> QED
    BY <2>1, <2>2
<1> QED
  BY <1>1, <1>7, <1>8, <1>9, <1>10 DEF Nested, eg

LEMMA NewerPush ==
    ASSUME NEW st \in Seq(Activation), NEW a \in Activation, NEW su, su = Append(st, a),
           NEW rt \in Seq(ReturnEnv), NEW md, Newer(st, rt, md), a.scope \notin md,
           NEW ru, NEW r \in ReturnEnv, ru = rt \/ (ru = Append(rt, r) /\ r.before = md
                                                    /\ r.ret = Len(st) + 1)
    PROVE  Newer(su, ru, md \cup {a.scope})
<1> DEFINE n == Len(st)
           m == Len(rt)
<1>1. /\ n \in Nat /\ Len(su) = n + 1 /\ su[n + 1] = a
      /\ \A i \in 1..n : su[i] = st[i]
  BY AppendProperties, LenProperties
<1>2. /\ m \in Nat /\ \A i \in 1..m : ru[i] = rt[i]
      /\ Len(ru) = m \/ (Len(ru) = m + 1 /\ ru[m + 1] = r /\ r.before = md /\ r.ret = n + 1)
  BY AppendProperties, LenProperties
<1>3. ASSUME NEW i \in 1..m
      PROVE  /\ ru[i].before \subseteq md
             /\ \A j \in 1..(n + 1) : j >= ru[i].ret => su[j].scope \notin ru[i].before
  <2>1. ru[i].before \subseteq md /\ ru[i] = rt[i]
    BY <1>2 DEF Newer
  <2>2. \A j \in 1..n : j >= ru[i].ret => su[j].scope \notin ru[i].before
    BY <1>1, <2>1 DEF Newer
  <2>3. su[n + 1].scope \notin ru[i].before
    BY <1>1, <2>1
  <2> QED
    BY <1>1, <2>1, <2>2, <2>3
<1>4. ASSUME Len(ru) = m + 1, ru[m + 1] = r, r.before = md, r.ret = n + 1
      PROVE  /\ ru[m + 1].before \subseteq md
             /\ \A j \in 1..(n + 1) : j >= ru[m + 1].ret => su[j].scope \notin ru[m + 1].before
  <2>1. \A j \in 1..(n + 1) : j >= n + 1 => j = n + 1
    BY <1>1
  <2> QED
    BY <1>1, <1>4, <2>1
<1>5. \A i \in 1..Len(ru) : i \in 1..m \/ (i = m + 1 /\ Len(ru) = m + 1)
  BY <1>2
<1>6. \A i \in 1..Len(ru) :
         /\ ru[i].before \subseteq md
         /\ \A j \in 1..(n + 1) : j >= ru[i].ret => su[j].scope \notin ru[i].before
  BY <1>2, <1>3, <1>4, <1>5
<1> QED
  BY <1>1, <1>6 DEF Newer

\* Nothing new is enclosed.
LEMMA WovenStay ==
    ASSUME Woven, UNCHANGED <<enclosing, made>>,
           careful' => /\ undefined' \subseteq {"read"}
                       /\ running' => /\ Nested(stack', enclosing, live')
                                      /\ Newer(stack', returns', made)
    PROVE  Woven'
  BY DEF Woven

\* An access to what exists.
LEMMA TouchWoven ==
    ASSUME EnvInv, Woven, running, NEW t, Touch(t), careful => t \subseteq live,
           UNCHANGED <<control, made, enclosing, careful>>
    PROVE  Woven'
<1>1. careful => live' = live /\ undefined' = undefined
  BY DEF Touch, fate
<1>2. stack' = stack /\ returns' = returns
  BY DEF control
<1> QED
  BY <1>1, <1>2, WovenStay DEF Woven

\* A step that makes an environment.
LEMMA PushWoven ==
    ASSUME EnvInv, Woven, running, NEW a \in Activation, NEW around \in made,
           NewEnv(a.scope, around), stack' = Append(stack, a), NEW r \in ReturnEnv,
           returns' = returns \/ (returns' = Append(returns, r) /\ r.before = made
                                  /\ r.ret = Len(stack) + 1),
           UNCHANGED <<running, undefined>>,
           careful' => /\ careful
                       /\ IF a.closure = None THEN around = env
                          ELSE around = a.closure /\ a.closure \in Around(env)
    PROVE  Woven'
<1>1. /\ a.scope \in Env \ made /\ made' = made \cup {a.scope} /\ live' = live \cup {a.scope}
      /\ enclosing' = [enclosing EXCEPT ![a.scope] = around]
  BY DEF NewEnv, Activation
<1>2. /\ enclosing \in [Env -> Env \cup {None}] /\ made \subseteq Env /\ live \subseteq made
      /\ stack \in Seq(Activation) /\ returns \in Seq(ReturnEnv)
      /\ \A x \in Env : enclosing[x] \in made \cup {None}
  BY DEF EnvInv, EnvTypeOK, Woven
<1>3. \E C : Solves(C, enclosing')
  BY <1>1, <1>2, NewChain DEF Woven
<1>4. \A x \in Env : enclosing'[x] \in made' \cup {None}
  BY <1>1, <1>2
<1>5. ASSUME careful'
      PROVE  undefined' \subseteq {"read"} /\ Nested(stack', enclosing', live')
             /\ Newer(stack', returns', made')
  <2>1. /\ careful /\ undefined \subseteq {"read"} /\ Nested(stack, enclosing, live)
        /\ Newer(stack, returns, made)
    BY <1>5 DEF Woven
  <2>2. Newer(stack', returns', made')
    BY <1>1, <1>2, <2>1, NewerPush
  <2>3. IF a.closure = None THEN around = At(stack, Len(stack))
        ELSE around = a.closure /\ a.closure \in Upto(stack, Len(stack))
    <3>1. env = At(stack, Len(stack)) /\ Len(stack) \in Nat
      BY EnvIsTop
    <3>2. Around(env) \subseteq Upto(stack, Len(stack))
      BY <2>1, <3>1, ChainBelow DEF EnvInv, Woven
    <3> QED
      BY <1>5, <3>1, <3>2
  <2>4. Nested(stack', [enclosing EXCEPT ![a.scope] = around], live \cup {a.scope})
    BY <1>1, <1>2, <2>1, <2>3, NestedPush
  <2> QED
    BY <1>1, <2>1, <2>2, <2>4
<1> QED
  BY <1>3, <1>4, <1>5 DEF Woven

LEMMA BlockWoven ==
    ASSUME EnvInv, Woven, running, NEW e \in Env, ExecuteBlock(e)
    PROVE  Woven'
<1> DEFINE a == [scope |-> e, previous |-> env, closure |-> None]
           r == [ret |-> 0, original |-> env, before |-> made]
<1>1. env \in made /\ made \subseteq Env
  BY DEF EnvInv, EnvTypeOK
<1>2. a \in Activation /\ r \in ReturnEnv /\ a.scope = e /\ a.closure = None
  BY <1>1 DEF Activation, ReturnEnv
<1>3. NewEnv(a.scope, env) /\ stack' = Append(stack, a) /\ returns' = returns
      /\ UNCHANGED <<running, undefined>> /\ careful' = careful
  BY DEF ExecuteBlock
<1> HIDE DEF a, r
<1> QED
  BY <1>1, <1>2, <1>3, PushWoven

LEMMA CallWoven ==
    ASSUME EnvInv, Woven, running, NEW c \in Env, NEW e \in Env, Call(c, e)
    PROVE  Woven'
<1> DEFINE a == [scope |-> e, previous |-> env, closure |-> c]
           r == [ret |-> Len(stack) + 1, original |-> env, before |-> made]
<1>1. env \in made /\ made \subseteq Env /\ c \in made /\ Len(stack) \in Nat
  BY LenProperties DEF EnvInv, EnvTypeOK, Call
<1>2. /\ a \in Activation /\ r \in ReturnEnv /\ a.scope = e /\ a.closure = c
      /\ r.before = made /\ r.ret = Len(stack) + 1
  BY <1>1 DEF Activation, ReturnEnv
<1>3. NewEnv(a.scope, c) /\ stack' = Append(stack, a) /\ returns' = Append(returns, r)
      /\ UNCHANGED <<running, undefined>> /\ careful' = (careful /\ c \in Around(env))
  BY DEF Call
<1> HIDE DEF a, r
<1>4. a.closure # None
  BY <1>2, EnvironmentsConstants
<1> QED
  BY <1>1, <1>2, <1>3, <1>4, PushWoven

LEMMA EndBlockWoven ==
    ASSUME EnvInv, Woven, running, EndBlock
    PROVE  Woven'
<1> DEFINE n == Len(stack)
<1>1. /\ n \in Nat \ {0} /\ Len(stack') = n - 1
      /\ \A i \in 1..(n - 1) : stack'[i] = stack[i]
      /\ Last(stack) = stack[n]
  BY FrontLast DEF EnvInv, EnvTypeOK, EndBlock
<1>2. Len(returns) \in Nat
  BY LenProperties DEF EnvInv, EnvTypeOK
<1>3. /\ UNCHANGED <<returns, enclosing, made, careful>>
      /\ \/ live' = live \ {stack[n].scope} /\ UNCHANGED <<running, undefined>>
         \/ stack[n].scope \notin live
  BY <1>1 DEF EndBlock
<1>4. ASSUME careful'
      PROVE  /\ undefined' \subseteq {"read"}
             /\ Nested(stack', enclosing, live') /\ Newer(stack', returns', made)
  <2>1. /\ undefined \subseteq {"read"} /\ Nested(stack, enclosing, live)
        /\ Newer(stack, returns, made)
    BY <1>3, <1>4 DEF Woven
  <2>2. /\ Upto(stack, n) \subseteq live
        /\ \A i, j \in 0..n : At(stack, i) = At(stack, j) => i = j
        /\ At(stack, n) = stack[n].scope
    BY <1>1, <2>1 DEF Nested, At
  <2>3. stack[n].scope \in live
    BY <1>1, <2>2 DEF Upto
  <2>4. live' = live \ {At(stack, n)} /\ undefined' = undefined
    BY <1>3, <2>2, <2>3
  <2>5. Upto(stack, n - 1) \subseteq live'
    <3>1. ASSUME NEW i \in 0..(n - 1)  PROVE At(stack, i) \in live'
      <4>1. i \in 0..n /\ n \in 0..n /\ i # n
        BY <1>1
      <4> QED
        BY <2>2, <2>4, <4>1 DEF Upto
    <3> QED
      BY <3>1 DEF Upto
  <2>6. Nested(stack', enclosing, live')
    BY <1>1, <2>1, <2>5, NestedCut
  <2>7. Newer(stack', returns', made)
    <3>1. returns' = returns /\ Len(returns) \in 0..Len(returns)
      BY <1>2, <1>3
    <3> QED
      BY <1>1, <1>2, <2>1, <3>1, NewerCut
  <2> QED
    BY <2>1, <2>4, <2>6, <2>7
<1> QED
  BY <1>3, <1>4, WovenStay

\* The end of a call.
LEMMA LeaveWoven ==
    ASSUME EnvInv, Woven, running, returns # <<>>, returns' = Front(returns),
           NEW h \in 1..Len(stack), Len(stack') = h - 1,
           \A i \in 1..Len(stack') : stack'[i] = stack[i],
           UNCHANGED <<made, enclosing>>,
           careful' => /\ careful /\ undefined' \subseteq undefined \cup {"read"}
                       /\ running' => Upto(stack, h - 1) \cap (live \ live') = {}
    PROVE  Woven'
<1>1. /\ Len(returns) \in Nat /\ Len(returns') \in 0..Len(returns)
      /\ \A i \in 1..Len(returns') : returns'[i] = returns[i]
  BY FrontLast DEF EnvInv, EnvTypeOK
<1>2. Len(stack) \in Nat /\ Len(stack') \in 0..Len(stack) /\ Len(stack') = h - 1
  BY LenProperties DEF EnvInv, EnvTypeOK
<1>3. ASSUME careful'
      PROVE  /\ undefined' \subseteq {"read"}
             /\ running' => Nested(stack', enclosing, live') /\ Newer(stack', returns', made)
  <2>1. /\ undefined \subseteq {"read"} /\ Nested(stack, enclosing, live)
        /\ Newer(stack, returns, made)
    BY <1>3 DEF Woven
  <2>2. Newer(stack', returns', made)
    BY <1>1, <1>2, <2>1, NewerCut
  <2>3. ASSUME running'  PROVE Nested(stack', enclosing, live')
    <3>1. Upto(stack, h - 1) \subseteq Upto(stack, Len(stack))
      BY <1>2 DEF Upto
    <3>2. Upto(stack, h - 1) \subseteq live'
      BY <1>3, <2>1, <2>3, <3>1 DEF Nested
    <3> QED
      BY <1>2, <2>1, <3>2, NestedCut
  <2> QED
    BY <1>3, <2>1, <2>2, <2>3
<1> QED
  BY <1>3, WovenStay

\* What a return leaves and destroys.
LEMMA ReturnWoven ==
    ASSUME EnvInv, Woven, running, Return
    PROVE  Woven' /\ (careful' => Spared)
<1> DEFINE h == Last(returns).ret
           c == stack[h].closure
           n == Len(stack)
<1>1. /\ returns # <<>> /\ returns' = Front(returns) /\ Destroy(env, c)
      /\ stack' = SubSeq(stack, 1, h - 1)
      /\ UNCHANGED <<made, enclosing, functions, careful>>
  BY DEF Return, Leave
<1>2. h \in 1..n /\ stack \in Seq(Activation) /\ n \in Nat
  BY <1>1, NewestReturn, LenProperties DEF EnvInv, EnvTypeOK
<1>3. Len(stack') = h - 1 /\ \A i \in 1..Len(stack') : stack'[i] = stack[i]
  BY <1>1, <1>2, SubSeqProperties
<1>4. ASSUME careful
      PROVE  /\ undefined' \subseteq undefined \cup {"read"}
             /\ live \ live' \subseteq { At(stack, i) : i \in h..n }
             /\ Upto(stack, h - 1) \cap (live \ live') = {}
  <2>1. Nested(stack, enclosing, live)
    BY <1>4 DEF Woven
  <2>2. /\ c \in Around(env) /\ Between(env, c) \subseteq live
        /\ Between(env, c) \subseteq { At(stack, i) : i \in h..n }
        /\ Between(env, c) \cap Upto(stack, h - 1) = {}
    BY <1>1, <2>1, ReturnDestroys DEF Woven
  <2>3. /\ undefined' \subseteq undefined \cup {"read"}
        /\ live' = live \/ live' = live \ Between(env, c)
    BY <1>1, <2>2 DEF Destroy, Crash, fate
  <2> QED
    BY <2>2, <2>3
<1>5. Woven'
  <2> HIDE DEF h, c
  <2> QED
    BY <1>1, <1>2, <1>3, <1>4, LeaveWoven
<1>6. ASSUME careful'  PROVE Spared
  <2>1. careful /\ Newer(stack, returns, made)
    BY <1>1, <1>6 DEF Woven
  <2>2. Len(returns) \in Nat \ {0} /\ Last(returns) = returns[Len(returns)]
    BY <1>1, FrontLast DEF EnvInv, EnvTypeOK
  <2>3. \A j \in 1..n : j >= h => stack[j].scope \notin Last(returns).before
    BY <2>1, <2>2 DEF Newer
  <2>4. \A j \in h..n : j \in 1..n /\ j >= h /\ At(stack, j) = stack[j].scope
    BY <1>2 DEF At
  <2>5. \A x \in live \ live' : x \notin Last(returns).before
    <3> HIDE DEF h
    <3> QED
      BY <1>4, <2>1, <2>3, <2>4
  <2> QED
    BY <2>5 DEF Spared
<1> QED
  BY <1>5, <1>6

LEMMA FallOffWoven ==
    ASSUME EnvInv, Woven, running, FallOff
    PROVE  Woven' /\ (careful' => Spared)
<1> DEFINE n == Len(stack)
<1>1. /\ n \in Nat \ {0} /\ Len(stack') = n - 1
      /\ \A i \in 1..(n - 1) : stack'[i] = stack[i]
      /\ Last(stack) = stack[n] /\ stack[n].closure # None
  BY FrontLast DEF EnvInv, EnvTypeOK, FallOff
<1>2. returns # <<>>
  <2>1. PICK i \in 1..Len(returns) : returns[i].ret = n
    BY <1>1 DEF EnvInv, ReturnsMatch
  <2> QED
    BY <2>1, EmptySeq
<1>3. /\ returns' = Front(returns) /\ UNCHANGED <<made, enclosing>>
      /\ careful' => careful /\ UNCHANGED fate
  BY DEF FallOff, Leave, Destroy
<1>4. careful' => live' = live /\ undefined' = undefined
  BY <1>3 DEF fate
<1>5. Woven'
  <2>1. n \in 1..n
    BY <1>1
  <2> QED
    BY <1>1, <1>2, <1>3, <1>4, <2>1, LeaveWoven
<1> QED
  BY <1>4, <1>5 DEF Spared

\* One step.
LEMMA CarefulStep ==
    ASSUME EnvInv, Woven, [EnvNext]_envVars
    PROVE  Woven' /\ (careful' => Spared)
<1>1. CASE UNCHANGED envVars
  BY <1>1 DEF envVars, control, fate, Woven, Spared
<1>2. CASE EnvNext
  <2> USE <1>2 DEF EnvNext
  <2>0. returns' = returns => Spared
    <3>1. Len(returns) \in Nat
      BY LenProperties DEF EnvInv, EnvTypeOK
    <3> QED
      BY <3>1 DEF Spared
  <2>a. ASSUME careful  PROVE Around(env) \subseteq live /\ Global \in live /\ env \in live
    <3>1. env = At(stack, Len(stack)) /\ Len(stack) \in Nat
      BY EnvIsTop
    <3>2. Nested(stack, enclosing, live)
      BY <2>a DEF Woven
    <3>3. Around(env) \subseteq Upto(stack, Len(stack)) /\ env \in Around(env)
      BY <3>1, <3>2, ChainBelow DEF EnvInv, Woven
    <3>4. Global \in Upto(stack, Len(stack))
      BY <3>1 DEF Upto, At
    <3> QED
      BY <3>2, <3>3, <3>4 DEF Nested
  <2>1. ASSUME NEW e \in Env, ExecuteBlock(e)  PROVE Woven' /\ Spared
    BY <2>0, <2>1, BlockWoven DEF ExecuteBlock
  <2>2. CASE EndBlock
    BY <2>0, <2>2, EndBlockWoven DEF EndBlock
  <2>3. CASE DeclareFunction
    BY <2>0, <2>a, <2>3, TouchWoven DEF DeclareFunction, control
  <2>4. ASSUME NEW d \in 0..Cardinality(Env), Use(d)  PROVE Woven' /\ Spared
    <3>1. ToSet(SubSeq(Chain(env), 1, d + 1)) \subseteq Around(env) \/ ~ careful
      <4> SUFFICES ASSUME careful  PROVE ToSet(SubSeq(Chain(env), 1, d + 1)) \subseteq Around(env)
        OBVIOUS
      <4>1. env = At(stack, Len(stack)) /\ Len(stack) \in Nat
        BY EnvIsTop
      <4>2. Chain(env) \in Seq(Env)
        BY <4>1, ChainBelow DEF EnvInv, Woven
      <4>3. d < Len(Chain(env)) /\ d \in Nat
        BY <2>4 DEF Use
      <4> DEFINE s == Chain(env)
      <4> HIDE DEF s
      <4>4. s \in Seq(Env) /\ Len(s) \in Nat /\ d + 1 \in 1..Len(s)
        BY <4>2, <4>3, LenProperties DEF s
      <4>5. /\ SubSeq(s, 1, d + 1) \in Seq(Env) /\ Len(SubSeq(s, 1, d + 1)) = d + 1
            /\ \A i \in 1..(d + 1) : SubSeq(s, 1, d + 1)[i] = s[i]
        BY <4>3, <4>4, SubSeqProperties
      <4>6. DOMAIN SubSeq(s, 1, d + 1) = 1..(d + 1) /\ DOMAIN s = 1..Len(s)
        BY <4>4, <4>5, LenProperties
      <4>7. ToSet(SubSeq(s, 1, d + 1)) \subseteq ToSet(s)
        BY <4>3, <4>4, <4>5, <4>6 DEF ToSet
      <4> QED
        BY <4>7 DEF s, Around
    <3>2. Touch(ToSet(SubSeq(Chain(env), 1, d + 1))) /\ UNCHANGED <<control, made, enclosing, careful>>
      BY <2>4 DEF Use
    <3>3. Woven'
      BY <2>a, <3>1, <3>2, TouchWoven
    <3> QED
      BY <2>0, <3>2, <3>3 DEF control
  <2>5. CASE UseGlobal
    BY <2>0, <2>a, <2>5, TouchWoven DEF UseGlobal, control
  <2>6. ASSUME NEW c \in Env, NEW e \in Env, Call(c, e)  PROVE Woven' /\ Spared
    <3>1. Len(returns') = Len(returns) + 1 /\ Len(returns) \in Nat
      <4> DEFINE r == [ret |-> Len(stack) + 1, original |-> env, before |-> made]
      <4>1. returns \in Seq(ReturnEnv) /\ r \in ReturnEnv /\ returns' = Append(returns, r)
        BY <2>6, LenProperties DEF EnvInv, EnvTypeOK, Call, ReturnEnv
      <4> HIDE DEF r
      <4> QED
        BY <4>1, AppendProperties, LenProperties
    <3> QED
      BY <2>6, <3>1, CallWoven DEF Spared
  <2>7. CASE FallOff
    BY <2>7, FallOffWoven
  <2>8. CASE Return
    BY <2>8, ReturnWoven
  <2>9. CASE ReturnNowhere
    <3>1. UNCHANGED <<enclosing, made>> /\ ~ careful' /\ returns' = returns
      BY <2>9 DEF ReturnNowhere, control
    <3> QED
      BY <2>0, <3>1, WovenStay
  <2> QED
    BY <2>1, <2>2, <2>3, <2>4, <2>5, <2>6, <2>7, <2>8, <2>9 DEF Step
<1> QED
  BY <1>1, <1>2

LEMMA CarefulInvariance == EnvSpec => []CarefulInv
<1>1. EnvInit => CarefulInv
  <2> SUFFICES ASSUME EnvInit  PROVE Woven
    BY EnvInitInv DEF CarefulInv
  <2>1. \A x \in Env : enclosing[x] = None
    BY DEF EnvInit
  <2>2. Solves([x \in Env |-> <<x>>], enclosing)
    BY <2>1 DEF Solves
  <2>3. Len(stack) = 0 /\ Len(returns) = 0
    BY EmptySeq DEF EnvInit
  <2>4. Nested(stack, enclosing, live)
    <3>1. Upto(stack, 0) = {Global} /\ At(stack, 0) = Global
      BY DEF Upto, At
    <3> QED
      BY <2>1, <2>3, <3>1, EnvironmentsConstants DEF EnvInit, Nested
  <2>5. Newer(stack, returns, made)
    BY <2>3 DEF Newer
  <2> QED
    BY <2>1, <2>2, <2>4, <2>5 DEF EnvInit, Woven
<1>2. CarefulInv /\ [EnvNext]_envVars => CarefulInv'
  BY EnvStepInv, CarefulStep DEF CarefulInv
<1> QED
  BY <1>1, <1>2, PTL DEF EnvSpec

\* A program that calls functions only where their names are visible, and those
\* without return statement only in the environment that declares them, never
\* uses a freed environment: function_call and execute_block free nothing that
\* is still to be used.
THEOREM CarefulIsSafe == EnvSpec => []CarefulSafe
<1>1. CarefulInv => CarefulSafe
  <2> SUFFICES ASSUME CarefulInv, careful  PROVE CarefulSafe
    BY DEF CarefulSafe
  <2>1. undefined \subseteq {"read"}
    BY DEF CarefulInv, Woven
  <2>2. ASSUME running
        PROVE  /\ Around(env) \subseteq live
               /\ \A i \in 1..Len(stack) : Around(stack[i].previous) \subseteq live
    <3> DEFINE n == Len(stack)
    <3>1. /\ env = At(stack, n) /\ n \in Nat
          /\ \A i \in 1..n : stack[i].previous = At(stack, i - 1)
      BY <2>2, EnvIsTop DEF CarefulInv
    <3>2. Nested(stack, enclosing, live)
      BY <2>2 DEF CarefulInv, Woven
    <3>3. \A i \in 0..n : Around(At(stack, i)) \subseteq Upto(stack, i)
      BY <3>2, ChainBelow DEF CarefulInv, EnvInv, Woven
    <3>4. \A i \in 0..n : Upto(stack, i) \subseteq live
      BY <3>1, <3>2 DEF Nested, Upto
    <3>5. \A i \in 1..n : i - 1 \in 0..n
      BY <3>1
    <3> QED
      BY <3>1, <3>3, <3>4, <3>5
  <2> QED
    BY <2>1, <2>2 DEF CarefulSafe
<1> QED
  BY <1>1, CarefulInvariance, PTL

\* The end of a call destroys what the call made and nothing older, in such a
\* program: the comment in loxfunction.c says so of every one.
THEOREM CallsSpareTheOlder == EnvSpec => CarefulSpares
<1>1. CarefulInv /\ [EnvNext]_envVars => [careful' => Spared]_envVars
  BY CarefulStep DEF CarefulInv
<1> QED
  BY <1>1, CarefulInvariance, PTL DEF EnvSpec, CarefulSpares
=============================================================================
