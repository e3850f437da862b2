--------------------------- MODULE VariablesProofs ---------------------------
(***************************************************************************)
(* The variables of the VM.  First globals: the tables of the VM and its   *)
(* strings, for any addresses, texts, hash function and MinCapacity: what  *)
(* each operation of table.c does to sound entries, then the inductive     *)
(* invariant of module Globals.  Then locals that closures capture: the    *)
(* inductive invariant of module Upvalues, for every stack, every set of   *)
(* closures and every number of upvalues.                                  *)
(*                                                                         *)
(* Entries are Sound when every key is reached by its probe before an      *)
(* empty entry and no key occurs twice.  A table is OK when, besides, its  *)
(* count is that of the entries in use, tombstones included, and at most   *)
(* three quarters of them: that leaves an empty entry for every probe.     *)
(*                                                                         *)
(* As long as no error made the VM forget its open upvalues, an upvalue    *)
(* that points into the stack is in the list (Listed), and the list has    *)
(* one upvalue at most for a slot because it is sorted.  A value that a    *)
(* slot gets is therefore seen by the one upvalue that stands for the      *)
(* variable in it, and by no other.                                        *)
(***************************************************************************)
EXTENDS Globals, Upvalues, Integers, SequenceTheorems, FiniteSetTheorems,
        WellFoundedInduction, TLAPS

-----------------------------------------------------------------------------
(* Numbers. *)

\* A set of numbers has a least one.
LEMMA Least ==
    ASSUME NEW T, T \subseteq Nat, T # {}
    PROVE  \E x \in T : \A y \in T : x <= y
<1> DEFINE R == { p \in Nat \X Nat : p[1] < p[2] }
<1>1. IsWellFoundedOn(R, Nat)
  BY NatLessThanWellFounded, Zenon DEF OpToRel
<1>2. PICK x \in T : \A y \in T : ~ (<<y, x>> \in R)
  BY <1>1, WFMin, Zenon
<1>3. \A y \in T : ~ (y < x)
  BY <1>2
<1> QED
  BY <1>3

\* What Min returns.
LEMMA MinLeast ==
    ASSUME NEW T, T \subseteq Nat, T # {}
    PROVE  Min(T) \in T /\ \A y \in T : Min(T) <= y
<1>1. \E x \in T : \A y \in T : x <= y
  BY Least
<1> QED
  BY <1>1, Zenon DEF Min

\* A set that holds 0, and with a number the next, holds all.
LEMMA Induction ==
    ASSUME NEW S, 0 \in S, \A n \in Nat : n \in S => n + 1 \in S
    PROVE  \A n \in Nat : n \in S
<1> SUFFICES ASSUME NEW n \in Nat, n \notin S  PROVE FALSE
  OBVIOUS
<1> DEFINE T == Nat \ S
<1>1. PICK x \in T : \A y \in T : x <= y
  <2>1. n \in T /\ T \subseteq Nat
    OBVIOUS
  <2> QED
    BY <2>1, Least, Zenon
<1>2. x # 0 /\ x - 1 \in Nat /\ ~ (x <= x - 1) /\ (x - 1) + 1 = x
  BY <1>1
<1>3. x - 1 \in S
  BY <1>1, <1>2
<1> QED
  BY <1>1, <1>2, <1>3

\* f is defined by its value b at 0 and by what step makes of each value.
Iterates(n, b, step, f) ==
    f = [i \in 0..n |-> IF i = 0 THEN b ELSE step[<<i, f[i - 1]>>]]

\* There is such a function.
LEMMA Recursion ==
    ASSUME NEW X, NEW b \in X, NEW step \in [Nat \X X -> X], NEW n \in Nat
    PROVE  \E f \in [0..n -> X] : Iterates(n, b, step, f)
<1> DEFINE Good(m, f) == f[0] = b /\ \A i \in 1..m : f[i] = step[<<i, f[i - 1]>>]
           S == { m \in Nat : \E f \in [0..m -> X] : Good(m, f) }
<1>1. 0 \in S
  <2>1. [i \in 0..0 |-> b] \in [0..0 -> X] /\ Good(0, [i \in 0..0 |-> b])
    OBVIOUS
  <2> QED
    BY <2>1
<1>2. ASSUME NEW m \in Nat, m \in S  PROVE m + 1 \in S
  <2>1. PICK f \in [0..m -> X] : Good(m, f)
    BY <1>2
  <2> DEFINE g == [i \in 0..(m + 1) |-> IF i <= m THEN f[i] ELSE step[<<m + 1, f[m]>>]]
  <2>2. step[<<m + 1, f[m]>>] \in X
    BY <2>1
  <2>3. g \in [0..(m + 1) -> X]
    BY <2>1, <2>2
  <2>4. g[0] = b
    BY <2>1
  <2>5. ASSUME NEW i \in 1..(m + 1)  PROVE g[i] = step[<<i, g[i - 1]>>]
    <3>1. CASE i <= m
      BY <2>1, <3>1
    <3>2. CASE i = m + 1
      BY <2>1, <3>2
    <3> QED
      BY <3>1, <3>2
  <2>6. Good(m + 1, g)
    BY <2>4, <2>5
  <2> HIDE DEF g, Good
  <2>7. \E x \in [0..(m + 1) -> X] : Good(m + 1, x)
    BY <2>3, <2>6
  <2> QED
    BY <2>7
<1> HIDE DEF S
<1>3. n \in S
  BY <1>1, <1>2, Induction
<1>4. PICK f \in [0..n -> X] : Good(n, f)
  BY <1>3 DEF S
<1>5. f = [i \in 0..n |-> IF i = 0 THEN b ELSE step[<<i, f[i - 1]>>]]
  <2> DEFINE g == [i \in 0..n |-> IF i = 0 THEN b ELSE step[<<i, f[i - 1]>>]]
  <2>1. \A i \in 0..n : f[i] = g[i]
    BY <1>4
  <2>2. f = [i \in 0..n |-> f[i]]
    OBVIOUS
  <2> QED
    BY <2>1, <2>2
<1> QED
  BY <1>5 DEF Iterates

\* Dividing h by n leaves a remainder.
LEMMA Division ==
    ASSUME NEW n \in Nat \ {0}, NEW h \in Nat
    PROVE  \E q \in Nat : \E r \in 0..(n - 1) : h = n * q + r
<1> DEFINE S == { m \in Nat : \E q \in Nat : \E r \in 0..(n - 1) : m = n * q + r }
<1>1. 0 \in S
  <2>1. 0 = n * 0 + 0 /\ 0 \in 0..(n - 1)
    OBVIOUS
  <2> QED
    BY <2>1
<1>2. ASSUME NEW m \in Nat, m \in S  PROVE m + 1 \in S
  <2>1. PICK q \in Nat, r \in 0..(n - 1) : m = n * q + r
    BY <1>2
  <2>2. CASE r + 1 < n
    <3>1. r + 1 \in 0..(n - 1) /\ m + 1 = n * q + (r + 1)
      BY <2>1, <2>2
    <3> QED
      BY <3>1
  <2>3. CASE r + 1 = n
    <3>1. n * (q + 1) = n * q + n
      OBVIOUS
    <3>2. n * q \in Nat
      OBVIOUS
    <3>3. q + 1 \in Nat /\ 0 \in 0..(n - 1) /\ m + 1 = n * (q + 1) + 0
      BY <2>1, <2>3, <3>1, <3>2
    <3>4. \E p \in Nat : \E s \in 0..(n - 1) : m + 1 = n * p + s
      BY <3>3, Zenon
    <3> QED
      BY <3>4
  <2> QED
    BY <2>1, <2>2, <2>3
<1> HIDE DEF S
<1>3. h \in S
  BY <1>1, <1>2, Induction
<1> QED
  BY <1>3 DEF S

\* The remainder of a sum.
LEMMA Remainder ==
    ASSUME NEW n \in Nat \ {0}, NEW q \in Nat, NEW r \in 0..(n - 1)
    PROVE  (n * q + r) % n = r
  OBVIOUS

\* The steps of a probe that starts from the hash h.
LEMMA Circle ==
    ASSUME NEW n \in Nat \ {0}, NEW h \in Nat
    PROVE  \E r \in 0..(n - 1) : \A m \in 0..(n - 1) :
               (h + m) % n = IF r + m < n THEN r + m ELSE r + m - n
<1>1. PICK q \in Nat, r \in 0..(n - 1) : h = n * q + r
  BY Division
<1> SUFFICES ASSUME NEW m \in 0..(n - 1)
             PROVE  (h + m) % n = IF r + m < n THEN r + m ELSE r + m - n
  OBVIOUS
<1>2. n * q \in Nat /\ n * (q + 1) \in Nat /\ n * (q + 1) = n * q + n
  OBVIOUS
<1>3. CASE r + m < n
  <2>1. h + m = n * q + (r + m) /\ r + m \in 0..(n - 1)
    BY <1>1, <1>2, <1>3
  <2>2. (n * q + (r + m)) % n = r + m
    BY <2>1, Remainder
  <2> QED
    BY <1>3, <2>1, <2>2
<1>4. CASE ~ (r + m < n)
  <2>1. h + m = n * (q + 1) + (r + m - n) /\ r + m - n \in 0..(n - 1) /\ q + 1 \in Nat
    BY <1>1, <1>2, <1>4
  <2>2. (n * (q + 1) + (r + m - n)) % n = r + m - n
    BY <2>1, Remainder
  <2> QED
    BY <1>4, <2>1, <2>2
<1> QED
  BY <1>3, <1>4

\* A probe stays in the table, and comes to every entry once.
LEMMA Around ==
    ASSUME NEW n \in Nat \ {0}, NEW h \in Nat
    PROVE  /\ \A m \in 0..(n - 1) : ((h + m) % n) + 1 \in 1..n
           /\ \A i \in 1..n : \E m \in 0..(n - 1) : ((h + m) % n) + 1 = i
           /\ \A m, k \in 0..(n - 1) :
                  ((h + m) % n) + 1 = ((h + k) % n) + 1 => m = k
<1>1. PICK r \in 0..(n - 1) : \A m \in 0..(n - 1) :
          (h + m) % n = IF r + m < n THEN r + m ELSE r + m - n
  BY Circle
<1>2. \A m \in 0..(n - 1) : ((h + m) % n) + 1 \in 1..n
  BY <1>1
<1>3. ASSUME NEW i \in 1..n  PROVE \E m \in 0..(n - 1) : ((h + m) % n) + 1 = i
  <2> DEFINE m == IF r < i THEN i - 1 - r ELSE i - 1 - r + n
  <2>1. m \in 0..(n - 1) /\ (IF r + m < n THEN r + m ELSE r + m - n) = i - 1
    OBVIOUS
  <2> HIDE DEF m
  <2>2. (h + m) % n = IF r + m < n THEN r + m ELSE r + m - n
    BY <1>1, <2>1, Zenon
  <2>3. ((h + m) % n) + 1 = i
    BY <2>1, <2>2
  <2> QED
    BY <2>1, <2>3
<1>4. \A m, k \in 0..(n - 1) : ((h + m) % n) + 1 = ((h + k) % n) + 1 => m = k
  BY <1>1
<1> QED
  BY <1>2, <1>3, <1>4

-----------------------------------------------------------------------------
(* Entries es of a table whose keys hash by h and whose values are in V. *)

Keyed(es) == { i \in 1..Len(es) : es[i].key # Null }
Filled(es) == { i \in 1..Len(es) : es[i] # EmptyEntry }

\* The probe for k gets to the entry i without passing an empty one.
Reached(es, h, k, i) ==
    \E m \in 0..(Len(es) - 1) :
        /\ Probe(h[k], m, Len(es)) = i
        /\ \A n \in 0..(Len(es) - 1) : n < m => es[Probe(h[k], n, Len(es))] # EmptyEntry

\* No key has two entries, and a probe for one comes to its entry.
Sound(es, h, V) ==
    /\ es \in Seq(Entries(Obj, V))
    /\ \A i \in Keyed(es) : h[es[i].key] \in Nat /\ Reached(es, h, es[i].key, i)
    /\ \A i, j \in Keyed(es) : es[i].key = es[j].key => i = j

Roomy(es) == \E i \in 1..Len(es) : es[i] = EmptyEntry

Has(es, k) == \E i \in 1..Len(es) : es[i].key = k
Holds(es, k, v) == \E i \in 1..Len(es) : es[i].key = k /\ es[i].value = v

\* Where the key k is or can be put.
Spot(es, h, k, i) ==
    /\ i \in 1..Len(es) /\ es[i].key \in {Null, k}
    /\ \A j \in 1..Len(es) : es[j].key = k => j = i
    /\ Reached(es, h, k, i)

LEMMA EntryIs ==
    /\ EmptyEntry.key = Null /\ EmptyEntry.value = Nil /\ Tombstone.key = Null
    /\ EmptyEntry # Tombstone
    /\ \A k, v : [key |-> k, value |-> v].key = k /\ [key |-> k, value |-> v].value = v
    /\ \A k, v : k # Null => [key |-> k, value |-> v] # EmptyEntry
    /\ \A V : EmptyEntry \in Entries(Obj, V) /\ Tombstone \in Entries(Obj, V)
    /\ \A V : \A k \in Obj, v \in V : [key |-> k, value |-> v] \in Entries(Obj, V)
    /\ \A V : \A e \in Entries(Obj, V) :
          /\ e.key \in Obj \cup {Null}
          /\ e.key = Null => e = EmptyEntry \/ e = Tombstone
          /\ e.key # Null => e.value \in V /\ e = [key |-> e.key, value |-> e.value]
    /\ Null \notin Obj
<1>1. EmptyEntry.key = Null /\ EmptyEntry.value = Nil /\ Tombstone.key = Null
      /\ Tombstone.value = Deleted
  BY DEF EmptyEntry, Tombstone
<1>2. EmptyEntry # Tombstone
  BY <1>1, TableConstants
<1>3. ASSUME NEW V, NEW e \in Entries(Obj, V)
      PROVE  /\ e.key \in Obj \cup {Null}
             /\ e.key = Null => e = EmptyEntry \/ e = Tombstone
             /\ e.key # Null => e.value \in V /\ e = [key |-> e.key, value |-> e.value]
  <2>1. CASE e = EmptyEntry \/ e = Tombstone
    BY <1>1, <2>1
  <2>2. CASE e \in [key : Obj, value : V]
    BY <2>2, GlobalsConstants
  <2> QED
    BY <2>1, <2>2 DEF Entries
<1>4. \A V : \A k \in Obj, v \in V : [key |-> k, value |-> v] \in Entries(Obj, V)
  BY DEF Entries
<1>5. \A V : EmptyEntry \in Entries(Obj, V) /\ Tombstone \in Entries(Obj, V)
  BY DEF Entries
<1>6. \A k, v : k # Null => [key |-> k, value |-> v] # EmptyEntry
  BY DEF EmptyEntry
<1> QED
  BY <1>1, <1>2, <1>3, <1>4, <1>5, <1>6, GlobalsConstants

\* Entries as a function.
LEMMA Cells ==
    ASSUME NEW V, NEW es \in Seq(Entries(Obj, V))
    PROVE  /\ Len(es) \in Nat /\ DOMAIN es = 1..Len(es)
           /\ es \in [1..Len(es) -> Entries(Obj, V)]
           /\ \A i \in 1..Len(es) : es[i] \in Entries(Obj, V) /\ es[i].key \in Obj \cup {Null}
<1>1. Len(es) \in Nat /\ DOMAIN es = 1..Len(es) /\ es \in [1..Len(es) -> Entries(Obj, V)]
  BY LenProperties
<1> QED
  BY <1>1, EntryIs

\* The steps of a probe.
LEMMA Probes ==
    ASSUME NEW h \in Nat, NEW n \in Nat, n >= 1
    PROVE  /\ \A m \in 0..(n - 1) : Probe(h, m, n) \in 1..n
           /\ \A i \in 1..n : \E m \in 0..(n - 1) : Probe(h, m, n) = i
           /\ \A m, k \in 0..(n - 1) : Probe(h, m, n) = Probe(h, k, n) => m = k
<1>1. n \in Nat \ {0}
  OBVIOUS
<1> QED
  BY <1>1, Around DEF Probe

\* What findEntry finds, in entries that have an empty one.
LEMMA Finds ==
    ASSUME NEW h, NEW V, NEW es, Sound(es, h, V), Roomy(es),
           NEW k \in Obj, h[k] \in Nat, NEW i, i = FindEntry(es, h, k)
    PROVE  Spot(es, h, k, i)
<1> DEFINE n == Len(es)
           At(m) == Probe(h[k], m, n)
           stops == { m \in 0..(n - 1) : es[At(m)] = EmptyEntry \/ es[At(m)].key = k }
           stop == Min(stops)
           passed == { m \in 0..stop : es[At(m)] = Tombstone }
<1>1. /\ n \in Nat /\ n >= 1
      /\ \A j \in 1..n : es[j] \in Entries(Obj, V) /\ es[j].key \in Obj \cup {Null}
  <2>1. es \in Seq(Entries(Obj, V))
    BY DEF Sound
  <2> QED
    BY <2>1, Cells DEF Roomy
<1>2. /\ \A m \in 0..(n - 1) : At(m) \in 1..n
      /\ \A j \in 1..n : \E m \in 0..(n - 1) : At(m) = j
      /\ \A m, l \in 0..(n - 1) : At(m) = At(l) => m = l
  BY <1>1, Probes
<1>3. i = IF es[At(stop)] = EmptyEntry /\ passed # {} THEN At(Min(passed)) ELSE At(stop)
  BY DEF FindEntry
<1>4. stop \in stops /\ \A m \in stops : stop <= m
  <2>1. PICK j \in 1..n : es[j] = EmptyEntry
    BY DEF Roomy
  <2>2. PICK m \in 0..(n - 1) : At(m) = j
    BY <1>2
  <2>3. m \in stops
    BY <2>1, <2>2
  <2>4. stops \subseteq Nat
    BY <1>1
  <2> HIDE DEF stops
  <2> QED
    BY <2>3, <2>4, MinLeast
<1> HIDE DEF stop
<1>5. stop \in 0..(n - 1) /\ (es[At(stop)] = EmptyEntry \/ es[At(stop)].key = k)
      /\ \A m \in 0..(n - 1) : m < stop => es[At(m)] # EmptyEntry /\ es[At(m)].key # k
  BY <1>1, <1>4
<1>6. k # Null /\ EmptyEntry.key = Null /\ Tombstone.key = Null /\ EmptyEntry # Tombstone
  BY EntryIs
<1> HIDE DEF stops, At
<1>7. CASE es[At(stop)].key = k
  <2>1. i = At(stop)
    BY <1>3, <1>6, <1>7
  <2>2. Reached(es, h, k, i)
    BY <1>5, <2>1 DEF Reached, At
  <2>3. \A j \in 1..n : es[j].key = k => j = i
    BY <1>2, <1>5, <1>6, <1>7, <2>1 DEF Sound, Keyed
  <2> QED
    BY <1>2, <1>5, <1>7, <2>1, <2>2, <2>3 DEF Spot
<1>8. CASE es[At(stop)] = EmptyEntry
  <2>1. ASSUME NEW j \in 1..n, es[j].key = k  PROVE FALSE
    <3>1. Reached(es, h, k, j)
      BY <1>6, <2>1 DEF Sound, Keyed
    <3>2. PICK m \in 0..(n - 1) : At(m) = j /\ \A l \in 0..(n - 1) : l < m => es[At(l)] # EmptyEntry
      BY <3>1 DEF Reached, At
    <3>3. ~ (stop < m) /\ ~ (m < stop)
      BY <1>5, <1>8, <2>1, <3>2
    <3>4. m = stop
      BY <1>1, <1>5, <3>3
    <3> QED
      BY <1>6, <1>8, <2>1, <3>2, <3>4
  <2>2. CASE passed = {}
    <3>1. i = At(stop)
      BY <1>3, <2>2
    <3>2. Reached(es, h, k, i)
      BY <1>5, <3>1 DEF Reached, At
    <3> QED
      BY <1>2, <1>5, <1>6, <1>8, <2>1, <3>1, <3>2 DEF Spot
  <2>3. CASE passed # {}
    <3> DEFINE first == Min(passed)
    <3>1. first \in passed
      <4>1. passed \subseteq Nat
        BY <1>5
      <4> QED
        BY <2>3, <4>1, MinLeast
    <3>2. i = At(first)
      BY <1>3, <1>8, <2>3
    <3> HIDE DEF first
    <3>3. first \in 0..(n - 1) /\ first <= stop /\ es[At(first)] = Tombstone
      BY <1>1, <1>5, <3>1
    <3>4. \A m \in 0..(n - 1) : m < first => es[At(m)] # EmptyEntry
      BY <1>1, <1>5, <3>3
    <3>5. Reached(es, h, k, i)
      BY <3>2, <3>3, <3>4 DEF Reached, At
    <3>6. i \in 1..n /\ es[i].key = Null
      BY <1>2, <1>6, <3>2, <3>3
    <3> QED
      BY <2>1, <3>5, <3>6 DEF Spot
  <2> QED
    BY <2>2, <2>3
<1> QED
  BY <1>5, <1>7, <1>8

-----------------------------------------------------------------------------
(* One entry changes. *)

\* What the entries us hold is what es do, k with v in the place of what they
\* held of k.
Gains(es, us, k, v) ==
    \A x, y : x # Null => (Holds(us, x, y) <=> IF x = k THEN y = v ELSE Holds(es, x, y))

Written(es, i, k, v) == [es EXCEPT ![i] = [key |-> k, value |-> v]]

\* An entry for k is written where findEntry says.
LEMMA Writes ==
    ASSUME NEW h, NEW V, NEW es, Sound(es, h, V), NEW k \in Obj, h[k] \in Nat,
           NEW i, Spot(es, h, k, i), NEW v \in V,
           NEW us, us = Written(es, i, k, v)
    PROVE  /\ Sound(us, h, V) /\ Len(us) = Len(es) /\ Gains(es, us, k, v)
           /\ Filled(us) = Filled(es) \cup {i} /\ Keyed(us) = Keyed(es) \cup {i}
<1> DEFINE n == Len(es)
           new == [key |-> k, value |-> v]
<1>1. /\ n \in Nat /\ es \in [1..n -> Entries(Obj, V)]
      /\ \A j \in 1..n : es[j] \in Entries(Obj, V) /\ es[j].key \in Obj \cup {Null}
      /\ \A j \in Keyed(es) : h[es[j].key] \in Nat /\ Reached(es, h, es[j].key, j)
      /\ \A j, l \in Keyed(es) : es[j].key = es[l].key => j = l
  BY Cells DEF Sound
<1>2. /\ i \in 1..n /\ es[i].key \in {Null, k} /\ Reached(es, h, k, i)
      /\ \A j \in 1..n : es[j].key = k => j = i
  BY DEF Spot
<1>3. new \in Entries(Obj, V) /\ new.key = k /\ new.value = v /\ k # Null
      /\ new # EmptyEntry
  BY EntryIs
<1> HIDE DEF new
<1>4. /\ us \in [1..n -> Entries(Obj, V)] /\ us[i] = new
      /\ \A j \in 1..n : j # i => us[j] = es[j]
  <2>1. us = [es EXCEPT ![i] = new]
    BY DEF new, Written
  <2> QED
    BY <1>1, <1>2, <1>3, <2>1
<1>5. us \in Seq(Entries(Obj, V)) /\ Len(us) = n
  BY <1>1, <1>4, IsASeq, LenProperties
<1>6. \A j \in 1..n : us[j] = EmptyEntry => es[j] = EmptyEntry
  BY <1>3, <1>4
<1>7. ASSUME NEW x, h[x] \in Nat, NEW j, Reached(es, h, x, j)  PROVE Reached(us, h, x, j)
  <2>1. PICK m \in 0..(n - 1) :
          /\ Probe(h[x], m, n) = j
          /\ \A l \in 0..(n - 1) : l < m => es[Probe(h[x], l, n)] # EmptyEntry
    BY <1>7 DEF Reached
  <2>2. \A l \in 0..(n - 1) : l < m => us[Probe(h[x], l, n)] # EmptyEntry
    <3>1. \A l \in 0..(n - 1) : Probe(h[x], l, n) \in 1..n
      <4>1. n >= 1
        BY <1>1, <1>2
      <4> QED
        BY <1>1, <1>7, <4>1, Probes
    <3> QED
      BY <1>6, <2>1, <3>1
  <2> QED
    BY <1>5, <2>1, <2>2 DEF Reached
<1>8. Keyed(us) = Keyed(es) \cup {i}
  BY <1>2, <1>3, <1>4, <1>5 DEF Keyed
<1>9. Filled(us) = Filled(es) \cup {i}
  BY <1>2, <1>3, <1>4, <1>5 DEF Filled
<1>10. ASSUME NEW j \in Keyed(us)
       PROVE  h[us[j].key] \in Nat /\ Reached(us, h, us[j].key, j)
  <2>1. CASE j = i
    BY <1>2, <1>3, <1>4, <1>7, <2>1
  <2>2. CASE j # i
    <3>1. j \in Keyed(es) /\ us[j] = es[j]
      BY <1>4, <1>8, <2>2 DEF Keyed
    <3> QED
      BY <1>1, <1>7, <3>1
  <2> QED
    BY <2>1, <2>2
<1>11. ASSUME NEW j \in Keyed(us), NEW l \in Keyed(us), us[j].key = us[l].key  PROVE j = l
  <2>1. \A x \in Keyed(us) : x # i => x \in Keyed(es) /\ us[x] = es[x] /\ x \in 1..n
    BY <1>4, <1>8 DEF Keyed
  <2>2. \A x \in Keyed(us) : us[x].key = k => x = i
    BY <1>2, <2>1
  <2> QED
    BY <1>1, <1>3, <1>4, <1>11, <2>1, <2>2
<1>12. Sound(us, h, V)
  BY <1>5, <1>10, <1>11 DEF Sound
<1>13. ASSUME NEW x, NEW y, x # Null
       PROVE  Holds(us, x, y) <=> IF x = k THEN y = v ELSE Holds(es, x, y)
  <2>1. CASE x = k
    BY <1>2, <1>3, <1>4, <1>5, <2>1 DEF Holds
  <2>2. CASE x # k
    BY <1>2, <1>3, <1>4, <1>5, <1>13, <2>2 DEF Holds
  <2> QED
    BY <2>1, <2>2
<1> QED
  BY <1>5, <1>8, <1>9, <1>12, <1>13 DEF Gains

\* Putting k with v into entries that have an empty one.
LEMMA Puts ==
    ASSUME NEW h, NEW V, NEW es, Sound(es, h, V), Roomy(es), NEW k \in Obj, h[k] \in Nat,
           NEW i, i = FindEntry(es, h, k), NEW v \in V,
           NEW us, us = Written(es, i, k, v)
    PROVE  /\ Spot(es, h, k, i)
           /\ Sound(us, h, V) /\ Len(us) = Len(es) /\ Gains(es, us, k, v)
           /\ Filled(us) = Filled(es) \cup {i} /\ Keyed(us) = Keyed(es) \cup {i}
<1>1. Spot(es, h, k, i)
  BY Finds
<1> QED
  BY <1>1, Writes

\* The entry i is deleted.
Unlinked(es, i) == [es EXCEPT ![i] = Tombstone]

LEMMA Unlinks ==
    ASSUME NEW h, NEW V, NEW es, Sound(es, h, V), NEW i \in Keyed(es),
           NEW us, us = Unlinked(es, i)
    PROVE  /\ Sound(us, h, V) /\ Len(us) = Len(es) /\ Filled(us) = Filled(es)
           /\ us[i] = Tombstone /\ \A j \in 1..Len(es) : j # i => us[j] = es[j]
           /\ \A x, y : x # Null =>
                (Holds(us, x, y) <=> Holds(es, x, y) /\ x # es[i].key)
<1> DEFINE n == Len(es)
<1>1. /\ n \in Nat /\ es \in [1..n -> Entries(Obj, V)] /\ i \in 1..n
      /\ \A j \in 1..n : es[j] \in Entries(Obj, V)
      /\ \A j \in Keyed(es) : h[es[j].key] \in Nat /\ Reached(es, h, es[j].key, j)
      /\ \A j, l \in Keyed(es) : es[j].key = es[l].key => j = l
  BY Cells DEF Sound, Keyed
<1>2. Tombstone \in Entries(Obj, V) /\ Tombstone.key = Null /\ Tombstone # EmptyEntry
      /\ es[i].key # Null /\ es[i] # EmptyEntry
  BY EntryIs DEF Keyed
<1>3. /\ us \in [1..n -> Entries(Obj, V)] /\ us[i] = Tombstone
      /\ \A j \in 1..n : j # i => us[j] = es[j]
  BY <1>1, <1>2 DEF Unlinked
<1>4. us \in Seq(Entries(Obj, V)) /\ Len(us) = n
  BY <1>1, <1>3, IsASeq, LenProperties
<1>5. Filled(us) = Filled(es)
  BY <1>1, <1>2, <1>3, <1>4 DEF Filled
<1>6. Keyed(us) = Keyed(es) \ {i}
  BY <1>1, <1>2, <1>3, <1>4 DEF Keyed
<1>7. ASSUME NEW j \in Keyed(us)
      PROVE  h[us[j].key] \in Nat /\ Reached(us, h, us[j].key, j)
  <2>1. j \in Keyed(es) /\ us[j] = es[j] /\ j \in 1..n
    BY <1>3, <1>6 DEF Keyed
  <2> DEFINE x == es[j].key
  <2>2. h[x] \in Nat /\ Reached(es, h, x, j)
    BY <1>1, <2>1
  <2> HIDE DEF x
  <2>3. PICK m \in 0..(n - 1) :
          /\ Probe(h[x], m, n) = j
          /\ \A l \in 0..(n - 1) : l < m => es[Probe(h[x], l, n)] # EmptyEntry
    BY <2>2 DEF Reached
  <2>4. \A l \in 0..(n - 1) : Probe(h[x], l, n) \in 1..n
    <3>1. n >= 1
      BY <1>1
    <3> QED
      BY <1>1, <2>2, <3>1, Probes
  <2>5. \A l \in 0..(n - 1) : l < m => us[Probe(h[x], l, n)] # EmptyEntry
    BY <1>2, <1>3, <2>3, <2>4
  <2> QED
    BY <1>4, <2>1, <2>2, <2>3, <2>5 DEF Reached, x
<1>8. ASSUME NEW j \in Keyed(us), NEW l \in Keyed(us), us[j].key = us[l].key  PROVE j = l
  <2>1. \A x \in Keyed(us) : x \in Keyed(es) /\ us[x] = es[x]
    BY <1>3, <1>6 DEF Keyed
  <2> QED
    BY <1>1, <1>8, <2>1
<1>9. Sound(us, h, V)
  BY <1>4, <1>7, <1>8 DEF Sound
<1>10. ASSUME NEW x, NEW y, x # Null
       PROVE  Holds(us, x, y) <=> Holds(es, x, y) /\ x # es[i].key
  <2>1. ASSUME NEW j \in 1..n, us[j].key = x
        PROVE  us[j] = es[j] /\ x # es[i].key
    <3>1. j # i
      BY <1>2, <1>3, <1>10, <2>1
    <3>2. us[j] = es[j] /\ j \in Keyed(es)
      BY <1>3, <1>10, <2>1, <3>1 DEF Keyed
    <3> QED
      BY <1>1, <2>1, <3>1, <3>2
  <2>2. ASSUME NEW j \in 1..n, es[j].key = x, x # es[i].key  PROVE us[j] = es[j]
    BY <1>3, <2>2
  <2> QED
    BY <1>4, <2>1, <2>2 DEF Holds
<1> QED
  BY <1>3, <1>4, <1>5, <1>9, <1>10

\* New entries.
LEMMA BlankIs ==
    ASSUME NEW h, NEW V, NEW n \in Nat, NEW es, es = Blank(n)
    PROVE  /\ Sound(es, h, V) /\ Len(es) = n /\ es \in [1..n -> Entries(Obj, V)]
           /\ Filled(es) = {} /\ Keyed(es) = {}
           /\ \A x, y : x # Null => ~ Holds(es, x, y)
<1> DEFINE f == [i \in 1..n |-> EmptyEntry]
           E == Entries(Obj, V)
<1>1. EmptyEntry \in E /\ EmptyEntry.key = Null
  BY EntryIs
<1> HIDE DEF E
<1>2. f \in [1..n -> E] /\ f \in Seq(E) /\ Len(f) = n
  BY <1>1, IsASeq, LenProperties
<1>3. es = f
  <2>1. es = SubSeq(f, 1, n)
    BY DEF Blank
  <2>2. \A i \in 1..n : f[i] \in E
    BY <1>1
  <2> HIDE DEF f
  <2>3. es \in Seq(E) /\ Len(es) = n /\ \A i \in 1..n : es[i] = f[i]
    BY <1>2, <2>1, <2>2, SubSeqProperties
  <2>4. es \in [1..n -> E]
    BY <2>3, LenProperties
  <2> QED
    BY <1>2, <2>3, <2>4
<1>4. \A i \in 1..n : es[i] = EmptyEntry
  BY <1>3
<1> HIDE DEF f
<1>5. es \in Seq(E) /\ Len(es) = n /\ es \in [1..n -> E]
  BY <1>2, <1>3
<1>6. Filled(es) = {} /\ Keyed(es) = {} /\ \A x, y : x # Null => ~ Holds(es, x, y)
  BY <1>1, <1>4, <1>5 DEF Filled, Keyed, Holds
<1>7. Sound(es, h, V)
  BY <1>5, <1>6 DEF Sound, E
<1> QED
  BY <1>5, <1>6, <1>7 DEF E

-----------------------------------------------------------------------------
(* Counts and growth. *)

LEMMA Counting ==
    ASSUME NEW h, NEW V, NEW es, Sound(es, h, V)
    PROVE  /\ Len(es) \in Nat
           /\ IsFiniteSet(Filled(es)) /\ Cardinality(Filled(es)) \in Nat
           /\ IsFiniteSet(Keyed(es)) /\ Cardinality(Keyed(es)) \in Nat
           /\ Cardinality(Keyed(es)) <= Cardinality(Filled(es))
           /\ Keyed(es) \subseteq Filled(es) /\ Filled(es) \subseteq 1..Len(es)
<1>1. Len(es) \in Nat
  BY Cells DEF Sound
<1>2. Keyed(es) \in SUBSET Filled(es) /\ Filled(es) \in SUBSET (1..Len(es))
  BY EntryIs DEF Keyed, Filled
<1>3. IsFiniteSet(1..Len(es))
  BY <1>1, FS_Interval
<1>4. IsFiniteSet(Filled(es)) /\ Cardinality(Filled(es)) \in Nat
  BY <1>2, <1>3, FS_Subset, FS_CardinalityType
<1>5. /\ IsFiniteSet(Keyed(es)) /\ Cardinality(Keyed(es)) \in Nat
      /\ Cardinality(Keyed(es)) <= Cardinality(Filled(es))
  BY <1>2, <1>4, FS_Subset, FS_CardinalityType
<1> QED
  BY <1>1, <1>2, <1>4, <1>5

\* Entries that are not all in use have an empty one.
LEMMA Room ==
    ASSUME NEW h, NEW V, NEW es, Sound(es, h, V), Cardinality(Filled(es)) < Len(es)
    PROVE  Roomy(es)
<1>1. Len(es) \in Nat
  BY Counting
<1>2. Cardinality(1..Len(es)) = Len(es)
  BY <1>1, FS_Interval
<1>3. Filled(es) # 1..Len(es)
  BY <1>1, <1>2
<1> QED
  BY <1>3 DEF Filled, Roomy

\* The keys of es that i turns of adjustCapacity have moved.
Passed(es, i) == Keyed(es) \cap (1..i)

\* The new entries us hold what the entries P of es do.
Carries(es, P, us) ==
    \A x, y : x # Null =>
        (Holds(us, x, y) <=> \E j \in P : es[j].key = x /\ es[j].value = y)

\* The new table u of n entries when the entries P of es have been moved.
Moved(es, h, V, n, P, u) ==
    /\ u \in [entries : [1..n -> Entries(Obj, V)], count : Nat]
    /\ Sound(u.entries, h, V) /\ Len(u.entries) = n
    /\ Filled(u.entries) = Keyed(u.entries)
    /\ u.count = Cardinality(Filled(u.entries)) /\ u.count = Cardinality(P)
    /\ Carries(es, P, u.entries)

LEMMA Turn ==
    ASSUME NEW h, NEW V, NEW es, Sound(es, h, V), NEW n \in Nat, Cardinality(Keyed(es)) < n,
           NEW i \in Nat, i + 1 \in Keyed(es), NEW u, Moved(es, h, V, n, Passed(es, i), u),
           NEW us, us = Put(u.entries, h, es[i + 1])
    PROVE  Moved(es, h, V, n, Passed(es, i + 1), [entries |-> us, count |-> u.count + 1])
<1> DEFINE k == es[i + 1].key
           v == es[i + 1].value
           slot == FindEntry(u.entries, h, k)
           P == Passed(es, i)
<1>1. /\ Len(es) \in Nat /\ i + 1 \in 1..Len(es)
      /\ k \in Obj /\ k # Null /\ v \in V /\ es[i + 1] = [key |-> k, value |-> v]
      /\ h[k] \in Nat
      /\ \A j, l \in Keyed(es) : es[j].key = es[l].key => j = l
  <2>1. es \in Seq(Entries(Obj, V)) /\ i + 1 \in 1..Len(es) /\ k # Null
    BY DEF Sound, Keyed
  <2>2. es[i + 1] \in Entries(Obj, V)
    BY <2>1, Cells
  <2>3. Len(es) \in Nat /\ k \in Obj /\ v \in V /\ es[i + 1] = [key |-> k, value |-> v]
    BY <2>1, <2>2, Cells, EntryIs
  <2> QED
    BY <2>1, <2>3 DEF Sound
<1>2. /\ Sound(u.entries, h, V) /\ Len(u.entries) = n
      /\ Filled(u.entries) = Keyed(u.entries) /\ u.count \in Nat
      /\ u.count = Cardinality(Filled(u.entries)) /\ u.count = Cardinality(P)
      /\ \A x, y : x # Null =>
           (Holds(u.entries, x, y) <=> \E j \in P : es[j].key = x /\ es[j].value = y)
  BY DEF Moved, Carries
<1>3. Passed(es, i + 1) = P \cup {i + 1} /\ i + 1 \notin P
  BY <1>1 DEF Passed
<1>4. /\ Cardinality(Passed(es, i + 1)) = Cardinality(P) + 1
      /\ Cardinality(Passed(es, i + 1)) <= Cardinality(Keyed(es))
      /\ Cardinality(Passed(es, i + 1)) \in Nat
  <2>1. IsFiniteSet(Keyed(es))
    BY Counting
  <2>2. P \in SUBSET Keyed(es) /\ Passed(es, i + 1) \in SUBSET Keyed(es)
    BY DEF Passed
  <2>3. IsFiniteSet(P) /\ IsFiniteSet(Passed(es, i + 1))
    BY <2>1, <2>2, FS_Subset
  <2> HIDE DEF P
  <2> QED
    BY <1>3, <2>1, <2>2, <2>3, FS_AddElement, FS_Subset, FS_CardinalityType
<1>5. Roomy(u.entries)
  <2>1. Cardinality(Keyed(es)) \in Nat
    BY Counting
  <2>2. Cardinality(Filled(u.entries)) < Len(u.entries)
    <3> HIDE DEF P
    <3> QED
      BY <1>2, <1>4, <2>1
  <2> QED
    BY <1>2, <2>2, Room
<1> HIDE DEF k, v
<1>6. us = Put(u.entries, h, [key |-> k, value |-> v])
  BY <1>1 DEF k, v
<1>7. slot = FindEntry(u.entries, h, k) /\ us = Written(u.entries, slot, k, v)
  BY <1>6 DEF Put, Written
<1> HIDE DEF slot
<1>8. /\ Spot(u.entries, h, k, slot)
      /\ Sound(us, h, V) /\ Len(us) = n /\ Gains(u.entries, us, k, v)
      /\ Filled(us) = Filled(u.entries) \cup {slot} /\ Keyed(us) = Keyed(u.entries) \cup {slot}
  BY <1>1, <1>2, <1>5, <1>7, Puts
<1>9. slot \notin Filled(u.entries)
  <2> SUFFICES ASSUME slot \in Keyed(u.entries)  PROVE FALSE
    BY <1>2
  <2>1. u.entries[slot].key = k /\ slot \in 1..Len(u.entries)
    BY <1>8 DEF Spot, Keyed
  <2>2. Holds(u.entries, k, u.entries[slot].value)
    BY <2>1 DEF Holds
  <2>3. PICK j \in P : es[j].key = k
    BY <1>1, <1>2, <2>2
  <2>4. j = i + 1
    BY <1>1, <2>3 DEF Passed, k
  <2> QED
    BY <1>3, <2>3, <2>4
<1>10. Cardinality(Filled(us)) = u.count + 1
  <2> DEFINE F == Filled(u.entries)
  <2>1. IsFiniteSet(F) /\ slot \notin F /\ Filled(us) = F \cup {slot} /\ u.count = Cardinality(F)
    BY <1>2, <1>8, <1>9, Counting
  <2> HIDE DEF F
  <2> QED
    BY <2>1, FS_AddElement
<1>11. us \in [1..n -> Entries(Obj, V)] /\ Len(us) = n
  <2>1. Len(us) = n /\ us \in Seq(Entries(Obj, V))
    BY <1>8 DEF Sound
  <2> QED
    BY <2>1, Cells
<1>12. ASSUME NEW x, NEW y, x # Null
       PROVE  Holds(us, x, y)
                <=> \E j \in Passed(es, i + 1) : es[j].key = x /\ es[j].value = y
  <2>1. Holds(us, x, y) <=> IF x = k THEN y = v ELSE Holds(u.entries, x, y)
    BY <1>8, <1>12 DEF Gains
  <2>2. CASE x = k
    <3>1. \A j \in Passed(es, i + 1) : es[j].key = x => j = i + 1
      BY <1>1, <2>2 DEF Passed, k
    <3>2. i + 1 \in Passed(es, i + 1) /\ es[i + 1].key = x /\ es[i + 1].value = v
      BY <1>3, <2>2 DEF k, v
    <3> QED
      BY <2>1, <2>2, <3>1, <3>2
  <2>3. CASE x # k
    <3>1. Holds(us, x, y) <=> \E j \in P : es[j].key = x /\ es[j].value = y
      BY <1>2, <1>12, <2>1, <2>3
    <3>2. es[i + 1].key # x
      BY <2>3 DEF k
    <3> QED
      BY <1>3, <3>1, <3>2
  <2> QED
    BY <2>2, <2>3
<1> DEFINE w == [entries |-> us, count |-> u.count + 1]
<1>13. w.entries = us /\ w.count = u.count + 1
       /\ w \in [entries : [1..n -> Entries(Obj, V)], count : Nat]
  BY <1>2, <1>11
<1> HIDE DEF w, P
<1>14. Filled(us) = Keyed(us)
  BY <1>2, <1>8
<1>15. w.count = Cardinality(Filled(us)) /\ w.count = Cardinality(Passed(es, i + 1))
  BY <1>2, <1>4, <1>10, <1>13
<1>16. Carries(es, Passed(es, i + 1), us)
  BY <1>12 DEF Carries
<1>17. Moved(es, h, V, n, Passed(es, i + 1), w)
  BY <1>8, <1>11, <1>13, <1>14, <1>15, <1>16 DEF Moved
<1> QED
  BY <1>17 DEF w

\* A table whose count is that of the entries in use, tombstones included.
TableOK(t, h, V) ==
    /\ t \in [entries : Seq(Entries(Obj, V)), count : Nat]
    /\ Sound(t.entries, h, V)
    /\ t.count = Cardinality(Filled(t.entries))
    /\ 4 * t.count <= 3 * Capacity(t)
    /\ Capacity(t) = 0 \/ Capacity(t) >= MinCapacity

\* adjustCapacity moves every key with its value and counts them.
LEMMA Adjusts ==
    ASSUME NEW h, NEW V, NEW t, Sound(t.entries, h, V),
           NEW n \in Nat, Cardinality(Keyed(t.entries)) < n,
           NEW u, u = AdjustCapacity(t, h, n)
    PROVE  Moved(t.entries, h, V, n, Keyed(t.entries), u)
<1> DEFINE es == t.entries
           L == Capacity(t)
           X == [entries : [1..n -> Entries(Obj, V)], count : Nat]
           b == [entries |-> Blank(n), count |-> 0]
           next(i, x) == IF es[i].key = Null THEN x
                         ELSE [entries |-> Put(x.entries, h, es[i]), count |-> x.count + 1]
           step == [p \in Nat \X X |-> IF p[1] \in 1..L THEN next(p[1], p[2]) ELSE p[2]]
           Is(f) == f = [i \in 0..L |-> IF i = 0 THEN b ELSE next(i, f[i - 1])]
           moved == CHOOSE f : Is(f)
<1>1. L \in Nat /\ L = Len(es) /\ \A i \in 1..L : es[i] \in Entries(Obj, V)
  BY Cells DEF Sound, Capacity
<1>2. u = moved[L]
  BY DEF AdjustCapacity
<1>3. Moved(es, h, V, n, Passed(es, 0), b)
  <2> DEFINE bs == Blank(n)
  <2>1. /\ Sound(bs, h, V) /\ Len(bs) = n /\ bs \in [1..n -> Entries(Obj, V)]
        /\ Filled(bs) = {} /\ Keyed(bs) = {} /\ \A x, y : x # Null => ~ Holds(bs, x, y)
    BY BlankIs
  <2>2. Passed(es, 0) = {} /\ Cardinality({}) = 0
    BY FS_EmptySet DEF Passed
  <2> HIDE DEF bs
  <2>3. b.entries = bs /\ b.count = 0 /\ b \in [entries : [1..n -> Entries(Obj, V)], count : Nat]
    BY <2>1 DEF bs
  <2> HIDE DEF b
  <2> QED
    BY <2>1, <2>2, <2>3 DEF Moved, Carries
<1> HIDE DEF b
<1>4. ASSUME NEW i \in 1..L, NEW x \in X  PROVE next(i, x) \in X
  <2>1. Put(x.entries, h, es[i]) \in [1..n -> Entries(Obj, V)]
    BY <1>1 DEF Put
  <2> QED
    BY <2>1
<1>5. b \in X
  BY <1>3 DEF Moved
<1> HIDE DEF next, X
<1>6. step \in [Nat \X X -> X]
  BY <1>4
<1> HIDE DEF step
<1>7. PICK f \in [0..L -> X] : Iterates(L, b, step, f)
  BY <1>1, <1>5, <1>6, Recursion
<1>8. Is(f)
  <2>1. \A i \in 1..L : i \in Nat /\ i - 1 \in 0..L
    BY <1>1
  <2>2. \A i \in 1..L : step[<<i, f[i - 1]>>] = next(i, f[i - 1])
    BY <2>1 DEF step
  <2>3. f = [i \in 0..L |-> IF i = 0 THEN b ELSE step[<<i, f[i - 1]>>]]
    BY <1>7 DEF Iterates
  <2>4. \A i \in 0..L : (IF i = 0 THEN b ELSE step[<<i, f[i - 1]>>])
                          = (IF i = 0 THEN b ELSE next(i, f[i - 1]))
    BY <1>1, <2>2
  <2> HIDE DEF moved
  <2> QED
    BY <2>3, <2>4
<1>9. Is(moved)
  BY <1>8, Zenon
<1> HIDE DEF moved
<1>10. moved[0] = b /\ \A i \in 1..L : moved[i] = next(i, moved[i - 1])
  <2>1. \A i \in 0..L : moved[i] = IF i = 0 THEN b ELSE next(i, moved[i - 1])
    BY <1>9, Zenon
  <2>2. 0 \in 0..L /\ \A i \in 1..L : i \in 0..L /\ i # 0
    BY <1>1
  <2> QED
    BY <2>1, <2>2, Zenon
<1> HIDE DEF Is
<1> DEFINE S == { i \in Nat : i <= L => Moved(es, h, V, n, Passed(es, i), moved[i]) }
<1>11. 0 \in S
  BY <1>3, <1>10
<1>12. ASSUME NEW i \in Nat, i \in S  PROVE i + 1 \in S
  <2> SUFFICES ASSUME i + 1 <= L  PROVE Moved(es, h, V, n, Passed(es, i + 1), moved[i + 1])
    OBVIOUS
  <2> DEFINE x == moved[i]
  <2>1. Moved(es, h, V, n, Passed(es, i), x)
    BY <1>1, <1>12
  <2>2. i + 1 \in 1..L /\ (i + 1) - 1 = i
    BY <1>1
  <2>3. moved[i + 1] = next(i + 1, x)
    BY <1>10, <2>2
  <2> HIDE DEF x, es, L
  <2>4. CASE es[i + 1].key = Null
    <3>1. moved[i + 1] = x
      BY <2>3, <2>4 DEF next
    <3>2. Passed(es, i + 1) = Passed(es, i)
      BY <2>4 DEF Passed, Keyed
    <3> QED
      BY <2>1, <3>1, <3>2
  <2>5. CASE es[i + 1].key # Null
    <3>1. moved[i + 1] = [entries |-> Put(x.entries, h, es[i + 1]), count |-> x.count + 1]
      BY <2>3, <2>5 DEF next
    <3>2. i + 1 \in Keyed(es)
      BY <1>1, <2>2, <2>5 DEF Keyed
    <3>3. Sound(es, h, V) /\ Cardinality(Keyed(es)) < n
      BY DEF es
    <3> QED
      BY <2>1, <3>1, <3>2, <3>3, Turn
  <2> QED
    BY <2>4, <2>5
<1> HIDE DEF S
<1>13. L \in S
  BY <1>1, <1>11, <1>12, Induction
<1>14. Passed(es, L) = Keyed(es)
  BY <1>1 DEF Passed, Keyed
<1> QED
  BY <1>1, <1>2, <1>13, <1>14 DEF S

-----------------------------------------------------------------------------
(* The operations of a table. *)

LEMMA TableIs ==
    ASSUME NEW h, NEW V, NEW t, TableOK(t, h, V)
    PROVE  /\ Capacity(t) = Len(t.entries) /\ Capacity(t) \in Nat /\ t.count \in Nat
           /\ Cardinality(Keyed(t.entries)) <= t.count
           /\ Capacity(t) # 0 => Roomy(t.entries)
           /\ t.count = 0 => Keyed(t.entries) = {}
           /\ t.count # 0 => Capacity(t) # 0
<1>1. /\ Sound(t.entries, h, V) /\ t.count = Cardinality(Filled(t.entries)) /\ t.count \in Nat
      /\ 4 * t.count <= 3 * Capacity(t) /\ Capacity(t) = Len(t.entries)
  BY DEF TableOK, Capacity
<1>2. /\ Len(t.entries) \in Nat /\ Cardinality(Keyed(t.entries)) <= Cardinality(Filled(t.entries))
      /\ IsFiniteSet(Filled(t.entries)) /\ Keyed(t.entries) \subseteq Filled(t.entries)
  BY <1>1, Counting
<1>3. ASSUME Capacity(t) # 0  PROVE Roomy(t.entries)
  <2>1. Cardinality(Filled(t.entries)) < Len(t.entries)
    BY <1>1, <1>2, <1>3
  <2> QED
    BY <1>1, <2>1, Room
<1>4. ASSUME t.count = 0  PROVE Keyed(t.entries) = {}
  <2>1. Filled(t.entries) = {}
    BY <1>1, <1>2, <1>4, FS_EmptySet
  <2> QED
    BY <1>2, <2>1
<1> QED
  BY <1>1, <1>2, <1>3, <1>4

\* The entries us hold what es do.
Keeps(es, us) == \A x, y : x # Null => (Holds(us, x, y) <=> Holds(es, x, y))

\* A table that tableSet has made room in can take one more entry.
LEMMA MakesRoom ==
    ASSUME NEW h, NEW V, NEW t, TableOK(t, h, V), NEW u, u = MakeRoom(t, h)
    PROVE  /\ TableOK(u, h, V) /\ Capacity(u) # 0
           /\ 4 * (u.count + 1) <= 3 * Capacity(u)
           /\ Keeps(t.entries, u.entries)
<1>1. /\ Capacity(t) \in Nat /\ t.count \in Nat /\ Cardinality(Keyed(t.entries)) <= t.count
      /\ Sound(t.entries, h, V) /\ 4 * t.count <= 3 * Capacity(t)
      /\ Capacity(t) = 0 \/ Capacity(t) >= MinCapacity
  BY TableIs DEF TableOK
<1>2. CASE ~ Full(t)
  <2>1. u = t
    BY <1>2 DEF MakeRoom
  <2>2. 4 * (t.count + 1) <= 3 * Capacity(t) /\ Capacity(t) # 0
    BY <1>1, <1>2 DEF Full
  <2> QED
    BY <2>1, <2>2 DEF Keeps
<1>3. CASE Full(t)
  <2> DEFINE n == GrowCapacity(Capacity(t))
             c == Cardinality(Keyed(t.entries))
             es == t.entries
  <2>1. u = AdjustCapacity(t, h, n)
    BY <1>3 DEF MakeRoom
  <2>2. c \in Nat
    BY <1>1, Counting
  <2>3. n \in Nat /\ c < n /\ 4 * (c + 1) <= 3 * n /\ n >= MinCapacity /\ n # 0
    <3> HIDE DEF c
    <3>1. CASE Capacity(t) = 0
      <4>1. n = MinCapacity /\ c = 0
        BY <1>1, <2>2, <3>1, TableConstants DEF GrowCapacity, c
      <4> QED
        BY <4>1, TableConstants
    <3>2. CASE Capacity(t) >= MinCapacity
      <4>1. n = Capacity(t) * 2 /\ c <= t.count
        BY <1>1, <3>2, TableConstants DEF GrowCapacity, c
      <4> HIDE DEF n
      <4> QED
        BY <1>1, <2>2, <3>2, <4>1, TableConstants
    <3> QED
      BY <1>1, <3>1, <3>2
  <2> HIDE DEF n
  <2>4. Moved(es, h, V, n, Keyed(es), u)
    BY <1>1, <2>1, <2>3, Adjusts
  <2>5. /\ Sound(u.entries, h, V) /\ Capacity(u) = n /\ u.count = c
        /\ u.count = Cardinality(Filled(u.entries))
        /\ u \in [entries : [1..n -> Entries(Obj, V)], count : Nat]
        /\ Carries(es, Keyed(es), u.entries)
    BY <2>4 DEF Moved, Capacity
  <2> HIDE DEF c
  <2>6. TableOK(u, h, V)
    <3>1. u \in [entries : Seq(Entries(Obj, V)), count : Nat]
      BY <2>5 DEF Sound
    <3>2. 4 * u.count <= 3 * Capacity(u)
      BY <2>2, <2>3, <2>5
    <3> QED
      BY <2>3, <2>5, <3>1, <3>2 DEF TableOK
  <2>7. Keeps(es, u.entries)
    BY <2>5 DEF Keeps, Carries, Holds, Keyed
  <2> QED
    BY <2>3, <2>5, <2>6, <2>7
<1> QED
  BY <1>2, <1>3

\* tableSet.
LEMMA Sets ==
    ASSUME NEW h, NEW V, NEW t, TableOK(t, h, V), NEW k \in Obj, h[k] \in Nat,
           NEW v \in V, NEW w, w = TableSet(t, h, k, v)
    PROVE  TableOK(w, h, V) /\ Gains(t.entries, w.entries, k, v)
<1> DEFINE u == MakeRoom(t, h)
           es == u.entries
           i == FindEntry(es, h, k)
           us == Put(es, h, [key |-> k, value |-> v])
           m == IF es[i] = EmptyEntry THEN u.count + 1 ELSE u.count
<1>1. /\ TableOK(u, h, V) /\ Capacity(u) # 0
      /\ 4 * (u.count + 1) <= 3 * Capacity(u) /\ Keeps(t.entries, es)
  BY MakesRoom
<1>2. w = [entries |-> us, count |-> m]
  BY DEF TableSet
<1> HIDE DEF u
<1>3. /\ Sound(es, h, V) /\ Roomy(es) /\ u.count \in Nat /\ Capacity(u) = Len(es)
      /\ Capacity(u) \in Nat /\ u.count = Cardinality(Filled(es)) /\ Capacity(u) >= MinCapacity
  BY <1>1, TableIs DEF TableOK
<1> HIDE DEF es
<1>4. i = FindEntry(es, h, k) /\ us = Written(es, i, k, v)
  BY DEF Put, Written
<1> HIDE DEF i, us, m
<1>5. Sound(es, h, V) /\ Roomy(es)
  BY <1>3
<1>6. /\ Spot(es, h, k, i)
      /\ Sound(us, h, V) /\ Len(us) = Len(es) /\ Gains(es, us, k, v)
      /\ Filled(us) = Filled(es) \cup {i}
  BY <1>4, <1>5, Puts
<1>7. m = Cardinality(Filled(us)) /\ m \in Nat /\ m <= u.count + 1
  <2> DEFINE F == Filled(es)
  <2>1. IsFiniteSet(F) /\ (i \in F <=> es[i] # EmptyEntry)
    BY <1>3, <1>6, Counting DEF Filled, Spot
  <2>2. u.count = Cardinality(F) /\ Filled(us) = F \cup {i}
    BY <1>3, <1>6
  <2> HIDE DEF F
  <2>3. CASE i \in F
    <3>1. F \cup {i} = F
      BY <2>3
    <3>2. m = u.count
      BY <2>1, <2>3 DEF m
    <3>3. Cardinality(Filled(us)) = u.count
      BY <2>2, <3>1
    <3> QED
      BY <1>3, <3>2, <3>3
  <2>4. CASE i \notin F
    <3>1. Cardinality(F \cup {i}) = Cardinality(F) + 1
      BY <2>1, <2>4, FS_AddElement
    <3>2. m = u.count + 1
      BY <2>1, <2>4 DEF m
    <3> QED
      BY <1>3, <2>2, <3>1, <3>2
  <2> QED
    BY <2>3, <2>4
<1>8. w.entries = us /\ w.count = m /\ w \in [entries : Seq(Entries(Obj, V)), count : Nat]
  BY <1>2, <1>6, <1>7 DEF Sound
<1>9. Capacity(w) = Capacity(u)
  BY <1>3, <1>6, <1>8 DEF Capacity
<1>10. 4 * w.count <= 3 * Capacity(w)
  BY <1>1, <1>3, <1>7, <1>8, <1>9
<1>11. TableOK(w, h, V)
  BY <1>3, <1>6, <1>7, <1>8, <1>9, <1>10 DEF TableOK
<1>12. Gains(t.entries, us, k, v)
  BY <1>1, <1>6 DEF Gains, Keeps
<1> QED
  BY <1>8, <1>11, <1>12

\* What tableGet answers.
LEMMA Knows ==
    ASSUME NEW h, NEW V, NEW t, TableOK(t, h, V), NEW k \in Obj, h[k] \in Nat
    PROVE  /\ TableHas(t, h, k) <=> Has(t.entries, k)
           /\ \A i \in 1..Capacity(t) : t.entries[i].key = k =>
                 t.count # 0 /\ FindEntry(t.entries, h, k) = i
<1> DEFINE es == t.entries
           i == FindEntry(es, h, k)
<1>1. k # Null
  BY EntryIs
<1>2. CASE t.count = 0
  <2>1. Keyed(es) = {} /\ Capacity(t) = Len(es)
    BY <1>2, TableIs
  <2> QED
    BY <1>1, <1>2, <2>1 DEF TableHas, Has, Keyed
<1>3. CASE t.count # 0
  <2>1. Sound(es, h, V) /\ Roomy(es) /\ Capacity(t) = Len(es)
    BY <1>3, TableIs DEF TableOK
  <2>2. Spot(es, h, k, i)
    BY <2>1, Finds
  <2>3. TableHas(t, h, k) <=> es[i].key # Null
    BY <1>3 DEF TableHas
  <2> HIDE DEF i, es
  <2>4. (es[i].key # Null <=> Has(es, k)) /\ \A j \in 1..Len(es) : es[j].key = k => i = j
    BY <1>1, <2>2 DEF Spot, Has
  <2> QED
    BY <1>3, <2>1, <2>3, <2>4 DEF i, es
<1> QED
  BY <1>2, <1>3

\* tableDelete.
LEMMA Deletes ==
    ASSUME NEW h, NEW V, NEW t, TableOK(t, h, V), NEW k \in Obj, h[k] \in Nat,
           NEW u, u = TableDelete(t, h, k)
    PROVE  /\ TableOK(u, h, V) /\ Capacity(u) = Capacity(t)
           /\ \A i \in 1..Capacity(t) : t.entries[i].key # k => u.entries[i] = t.entries[i]
           /\ \A i \in 1..Capacity(t) : t.entries[i].key = k => u.entries[i] = Tombstone
           /\ \A x, y : x # Null => (Holds(u.entries, x, y) <=> Holds(t.entries, x, y) /\ x # k)
<1> DEFINE es == t.entries
           i == FindEntry(es, h, k)
<1>0. k # Null /\ Capacity(t) = Len(es)
  BY EntryIs DEF Capacity
<1>1. CASE ~ Has(es, k)
  <2>1. u = t
    BY <1>1, Knows DEF TableDelete
  <2> QED
    BY <1>0, <1>1, <2>1 DEF Has, Holds
<1>2. CASE Has(es, k)
  <2>1. PICK j \in 1..Len(es) : es[j].key = k
    BY <1>2 DEF Has
  <2>2. i = j
    BY <1>0, <2>1, Knows
  <2>3. u = [t EXCEPT !.entries[i] = Tombstone]
    BY <1>2, Knows DEF TableDelete
  <2>4. t \in [entries : Seq(Entries(Obj, V)), count : Nat]
    BY DEF TableOK
  <2>5. u.entries = Unlinked(es, i) /\ u.count = t.count /\ DOMAIN u = {"entries", "count"}
        /\ u = [entries |-> u.entries, count |-> u.count]
    <3> HIDE DEF i
    <3>1. u = [entries |-> [es EXCEPT ![i] = Tombstone], count |-> t.count]
      BY <2>3, <2>4
    <3> QED
      BY <3>1 DEF Unlinked
  <2> DEFINE us == u.entries
  <2> HIDE DEF us, i
  <2>6. i \in Keyed(es) /\ Sound(es, h, V) /\ t.count = Cardinality(Filled(es))
        /\ 4 * t.count <= 3 * Capacity(t) /\ (Capacity(t) = 0 \/ Capacity(t) >= MinCapacity)
        /\ t.count \in Nat /\ es[i].key = k
    BY <1>0, <2>1, <2>2, TableIs DEF Keyed, TableOK
  <2>7. us = Unlinked(es, i)
    BY <2>5 DEF us
  <2>8. /\ Sound(us, h, V) /\ Len(us) = Len(es) /\ Filled(us) = Filled(es)
        /\ us[i] = Tombstone /\ \A l \in 1..Len(es) : l # i => us[l] = es[l]
        /\ \A x, y : x # Null => (Holds(us, x, y) <=> Holds(es, x, y) /\ x # k)
    BY <2>6, <2>7, Unlinks
  <2>9. Capacity(u) = Capacity(t)
    BY <2>8 DEF Capacity, us
  <2>10. TableOK(u, h, V)
    <3>1. u \in [entries : Seq(Entries(Obj, V)), count : Nat]
      BY <2>5, <2>6, <2>8 DEF Sound, us
    <3> QED
      BY <2>5, <2>6, <2>8, <2>9, <3>1 DEF TableOK, us
  <2>11. \A l \in 1..Len(es) : es[l].key = k => l = i
    BY <1>0, <2>6 DEF Sound, Keyed
  <2> QED
    BY <1>0, <2>6, <2>8, <2>9, <2>10, <2>11 DEF us
<1> QED
  BY <1>1, <1>2

\* Only the hashes of its keys matter to a table.
LEMMA Rehashed ==
    ASSUME NEW h, NEW V, NEW t, TableOK(t, h, V), NEW g,
           \A i \in Keyed(t.entries) : g[t.entries[i].key] = h[t.entries[i].key]
    PROVE  TableOK(t, g, V)
<1>1. Sound(t.entries, g, V)
  BY DEF TableOK, Sound, Reached
<1> QED
  BY <1>1 DEF TableOK

LEMMA KeysAre ==
    ASSUME NEW t
    PROVE  /\ \A k : k \in TableKeys(t) <=> k # Null /\ Has(t.entries, k)
           /\ \A k : Has(t.entries, k) <=> \E v : Holds(t.entries, k, v)
           /\ \A k : k \in TableKeys(t) <=> \E i \in Keyed(t.entries) : t.entries[i].key = k
  BY DEF TableKeys, Capacity, Has, Holds, Keyed

\* No key is held twice.
LEMMA OneValue ==
    ASSUME NEW h, NEW V, NEW t, TableOK(t, h, V), NEW k, k # Null,
           NEW v, Holds(t.entries, k, v), NEW w, Holds(t.entries, k, w)
    PROVE  v = w /\ v \in V /\ k \in Obj /\ h[k] \in Nat
<1> DEFINE es == t.entries
<1>1. es \in Seq(Entries(Obj, V)) /\ \A i, j \in Keyed(es) : es[i].key = es[j].key => i = j
  BY DEF TableOK, Sound
<1>2. PICK i \in 1..Len(es) : es[i].key = k /\ es[i].value = v
  BY DEF Holds
<1>3. PICK j \in 1..Len(es) : es[j].key = k /\ es[j].value = w
  BY DEF Holds
<1>4. i = j /\ i \in Keyed(es)
  BY <1>1, <1>2, <1>3 DEF Keyed
<1>5. es[i] \in Entries(Obj, V)
  BY <1>1, <1>2, Cells
<1> HIDE DEF es
<1>6. es[i].value \in V /\ es[i].key \in Obj
  BY <1>2, <1>5, EntryIs
<1>7. h[es[i].key] \in Nat
  BY <1>4 DEF TableOK, Sound, es
<1> QED
  BY <1>2, <1>3, <1>4, <1>6, <1>7

\* tableFindString finds the key with the characters text, if there is one.
LEMMA FindsString ==
    ASSUME NEW h, NEW V, NEW t, TableOK(t, h, V), NEW c, NEW text, NEW g \in Nat,
           \A k \in TableKeys(t) : c[k] = text => h[k] = g,
           NEW r, r = TableFindString(t, c, text, g)
    PROVE  /\ \A k \in TableKeys(t) :
                 c[k] = text /\ (\A x \in TableKeys(t) : c[x] = text => x = k) => r = k
           /\ (\A k \in TableKeys(t) : c[k] # text) => r = Null
<1> DEFINE es == t.entries
           n == Capacity(t)
           At(m) == Probe(g, m, n)
           hit(m) == es[At(m)].key # Null /\ c[es[At(m)].key] = text
           stops == { m \in 0..(n - 1) : es[At(m)] = EmptyEntry \/ hit(m) }
           stop == Min(stops)
<1>1. CASE t.count = 0
  <2>1. r = Null
    BY <1>1 DEF TableFindString
  <2>2. TableKeys(t) = {}
    BY <1>1, TableIs, KeysAre
  <2> QED
    BY <2>1, <2>2
<1>2. CASE t.count # 0
  <2>1. r = es[At(stop)].key
    BY <1>2 DEF TableFindString
  <2>2. Sound(es, h, V) /\ Roomy(es) /\ n = Len(es) /\ n \in Nat /\ n >= 1
    <3>1. Sound(es, h, V)
      BY DEF TableOK
    <3>2. n = Len(es) /\ n \in Nat /\ n # 0 /\ Roomy(es)
      BY <1>2, TableIs
    <3> QED
      BY <3>1, <3>2
  <2>3. /\ \A m \in 0..(n - 1) : At(m) \in 1..n
        /\ \A j \in 1..n : \E m \in 0..(n - 1) : At(m) = j
        /\ \A m, l \in 0..(n - 1) : At(m) = At(l) => m = l
    BY <2>2, Probes
  <2>4. stop \in stops /\ \A m \in stops : stop <= m
    <3>1. PICK j \in 1..n : es[j] = EmptyEntry
      BY <2>2 DEF Roomy
    <3>2. PICK m \in 0..(n - 1) : At(m) = j
      BY <2>3
    <3>3. m \in stops
      BY <3>1, <3>2
    <3>4. stops \subseteq Nat
      BY <2>2
    <3> HIDE DEF stops
    <3> QED
      BY <3>3, <3>4, MinLeast
  <2> HIDE DEF stop
  <2>5. stop \in 0..(n - 1) /\ (es[At(stop)] = EmptyEntry \/ hit(stop))
        /\ \A m \in 0..(n - 1) : m < stop => ~ hit(m)
    BY <2>2, <2>4
  <2>6. \A m \in 0..(n - 1) : hit(m) => es[At(m)].key \in TableKeys(t)
    BY <2>2, <2>3, KeysAre DEF Has
  <2>7. EmptyEntry.key = Null
    BY EntryIs
  <2> HIDE DEF stops
  <2>8. ASSUME NEW k \in TableKeys(t), c[k] = text,
               \A x \in TableKeys(t) : c[x] = text => x = k
        PROVE  r = k
    <3>1. PICK i \in Keyed(es) : es[i].key = k
      BY KeysAre
    <3>2. Reached(es, h, k, i) /\ h[k] = g /\ k # Null
      BY <2>2, <2>8, <3>1 DEF Sound, Keyed
    <3>3. PICK m \in 0..(n - 1) : At(m) = i /\ \A l \in 0..(n - 1) : l < m => es[At(l)] # EmptyEntry
      BY <2>2, <3>2 DEF Reached
    <3>4. hit(m)
      BY <2>8, <3>1, <3>2, <3>3
    <3>5. CASE hit(stop)
      BY <2>1, <2>5, <2>6, <2>8, <3>5
    <3>6. CASE es[At(stop)] = EmptyEntry
      <4>1. ~ (stop < m) /\ ~ (m < stop)
        BY <2>5, <3>3, <3>4, <3>6
      <4>2. m = stop
        BY <2>2, <2>5, <4>1
      <4> QED
        BY <2>7, <3>4, <3>6, <4>2
    <3> QED
      BY <2>5, <3>5, <3>6
  <2>9. ASSUME \A k \in TableKeys(t) : c[k] # text  PROVE r = Null
    <3>1. ~ hit(stop)
      BY <2>5, <2>6, <2>9
    <3> HIDE DEF hit
    <3> QED
      BY <2>1, <2>5, <2>7, <3>1
  <2> QED
    BY <2>8, <2>9
<1> QED
  BY <1>1, <1>2

\* What i turns of tableRemoveWhite leave of t.
Whitened(t, h, V, marked, i, u) ==
    /\ TableOK(u, h, V) /\ Capacity(u) = Capacity(t)
    /\ \A j \in 1..i : u.entries[j].key \in marked \cup {Null}
    /\ \A x, y : x # Null /\ Holds(u.entries, x, y) => Holds(t.entries, x, y)
    /\ \A x, y : x # Null /\ x \in marked /\ Holds(t.entries, x, y) => Holds(u.entries, x, y)

LEMMA WhiteTurn ==
    ASSUME NEW h, NEW V, NEW t, NEW marked, NEW i \in Nat, NEW u,
           Whitened(t, h, V, marked, i, u), i + 1 <= Capacity(t),
           NEW k, k = u.entries[i + 1].key, NEW w,
           w = IF k # Null /\ k \notin marked THEN TableDelete(u, h, k) ELSE u
    PROVE  Whitened(t, h, V, marked, i + 1, w)
<1>1. /\ TableOK(u, h, V) /\ Capacity(u) = Capacity(t)
      /\ \A j \in 1..i : u.entries[j].key \in marked \cup {Null}
      /\ \A x, y : x # Null /\ Holds(u.entries, x, y) => Holds(t.entries, x, y)
      /\ \A x, y : x # Null /\ x \in marked /\ Holds(t.entries, x, y) => Holds(u.entries, x, y)
  BY DEF Whitened
<1>2. Capacity(u) \in Nat /\ Capacity(u) = Len(u.entries)
  BY <1>1, TableIs
<1>3. \A j \in 1..(i + 1) : j \in 1..i \/ j = i + 1
  OBVIOUS
<1>4. CASE ~ (k # Null /\ k \notin marked)
  <2>1. \A j \in 1..(i + 1) : u.entries[j].key \in marked \cup {Null}
    BY <1>1, <1>3, <1>4
  <2> QED
    BY <1>1, <1>4, <2>1 DEF Whitened
<1>5. CASE k # Null /\ k \notin marked
  <2>1. i + 1 \in 1..Capacity(u) /\ Holds(u.entries, k, u.entries[i + 1].value)
    BY <1>1, <1>2 DEF Holds
  <2>2. k \in Obj /\ h[k] \in Nat
    <3> DEFINE es == u.entries
    <3>1. Sound(es, h, V) /\ i + 1 \in Keyed(es) /\ k = es[i + 1].key /\ es \in Seq(Entries(Obj, V))
      BY <1>1, <1>2, <1>5, <2>1 DEF TableOK, Sound, Keyed
    <3> HIDE DEF es
    <3>2. k \in Obj \cup {Null}
      BY <1>2, <2>1, <3>1, Cells DEF Keyed
    <3> QED
      BY <1>5, <3>1, <3>2 DEF Sound
  <2>3. w = TableDelete(u, h, k)
    BY <1>5
  <2>4. /\ TableOK(w, h, V) /\ Capacity(w) = Capacity(u)
        /\ \A j \in 1..Capacity(u) : u.entries[j].key # k => w.entries[j] = u.entries[j]
        /\ \A j \in 1..Capacity(u) : u.entries[j].key = k => w.entries[j] = Tombstone
        /\ \A x, y : x # Null => (Holds(w.entries, x, y) <=> Holds(u.entries, x, y) /\ x # k)
    BY <1>1, <2>2, <2>3, Deletes
  <2>5. Tombstone.key = Null
    BY EntryIs
  <2>6. \A j \in 1..(i + 1) : w.entries[j].key \in marked \cup {Null}
    <3>1. \A j \in 1..(i + 1) : j \in 1..Capacity(u)
      BY <1>1, <1>2
    <3> QED
      BY <1>1, <1>3, <2>4, <2>5, <3>1
  <2>7. \A x, y : x # Null /\ Holds(w.entries, x, y) => Holds(t.entries, x, y)
    BY <1>1, <2>4
  <2>8. \A x, y : x # Null /\ x \in marked /\ Holds(t.entries, x, y) => Holds(w.entries, x, y)
    BY <1>1, <1>5, <2>4
  <2> QED
    BY <1>1, <2>4, <2>6, <2>7, <2>8 DEF Whitened
<1> QED
  BY <1>4, <1>5

\* tableRemoveWhite leaves the marked keys, with their values.
LEMMA RemovesWhite ==
    ASSUME NEW h, NEW V, NEW t, TableOK(t, h, V), NEW marked,
           NEW u, u = TableRemoveWhite(t, h, marked)
    PROVE  /\ TableOK(u, h, V) /\ Capacity(u) = Capacity(t)
           /\ \A x, y : x # Null =>
                (Holds(u.entries, x, y) <=> Holds(t.entries, x, y) /\ x \in marked)
<1> DEFINE L == Capacity(t)
           E == Entries(Obj, V)
           X == [entries : [1..L -> E], count : Nat]
           next(i, x) == IF x.entries[i].key # Null /\ x.entries[i].key \notin marked
                         THEN TableDelete(x, h, x.entries[i].key) ELSE x
           step == [p \in Nat \X X |-> next(p[1], p[2])]
           Is(f) == f = [i \in 0..L |-> IF i = 0 THEN t ELSE next(i, f[i - 1])]
           left == CHOOSE f : Is(f)
<1>1. L \in Nat /\ L = Len(t.entries)
  BY TableIs
<1>2. u = left[L]
  BY DEF TableRemoveWhite
<1>3. t \in X
  <2>1. t \in [entries : Seq(E), count : Nat]
    BY DEF TableOK
  <2>2. t.entries \in [1..L -> E]
    BY <1>1, <2>1, LenProperties
  <2> QED
    BY <2>1, <2>2
<1>4. ASSUME NEW i, NEW x \in X  PROVE next(i, x) \in X
  <2>1. Tombstone \in E
    BY EntryIs
  <2> HIDE DEF E
  <2>2. \A j : [x EXCEPT !.entries[j] = Tombstone] \in X
    BY <2>1
  <2> QED
    BY <2>2 DEF TableDelete
<1> HIDE DEF next, X
<1>5. step \in [Nat \X X -> X]
  BY <1>4
<1> HIDE DEF step
<1>6. PICK f \in [0..L -> X] : Iterates(L, t, step, f)
  BY <1>1, <1>3, <1>5, Recursion
<1>7. Is(f)
  <2>1. \A i \in 1..L : i \in Nat /\ f[i - 1] \in X
    BY <1>1
  <2>2. \A i \in 1..L : step[<<i, f[i - 1]>>] = next(i, f[i - 1])
    BY <2>1 DEF step
  <2>3. f = [i \in 0..L |-> IF i = 0 THEN t ELSE step[<<i, f[i - 1]>>]]
    BY <1>6 DEF Iterates
  <2>4. \A i \in 0..L : (IF i = 0 THEN t ELSE step[<<i, f[i - 1]>>])
                          = (IF i = 0 THEN t ELSE next(i, f[i - 1]))
    BY <1>1, <2>2
  <2> HIDE DEF left
  <2> QED
    BY <2>3, <2>4
<1>8. Is(left)
  BY <1>7, Zenon
<1> HIDE DEF left
<1>9. left[0] = t /\ \A i \in 1..L : left[i] = next(i, left[i - 1])
  <2>1. \A i \in 0..L : left[i] = IF i = 0 THEN t ELSE next(i, left[i - 1])
    BY <1>8, Zenon
  <2>2. 0 \in 0..L /\ \A i \in 1..L : i \in 0..L /\ i # 0
    BY <1>1
  <2> QED
    BY <2>1, <2>2, Zenon
<1> HIDE DEF Is
<1> DEFINE S == { i \in Nat : i <= L => Whitened(t, h, V, marked, i, left[i]) }
<1>10. 0 \in S
  <2>1. Whitened(t, h, V, marked, 0, t)
    BY DEF Whitened
  <2> QED
    BY <1>9, <2>1
<1>11. ASSUME NEW i \in Nat, i \in S  PROVE i + 1 \in S
  <2> SUFFICES ASSUME i + 1 <= L  PROVE Whitened(t, h, V, marked, i + 1, left[i + 1])
    OBVIOUS
  <2> DEFINE x == left[i]
  <2>1. Whitened(t, h, V, marked, i, x)
    BY <1>1, <1>11
  <2>2. i + 1 \in 1..L /\ (i + 1) - 1 = i
    BY <1>1
  <2>3. left[i + 1] = next(i + 1, x)
    BY <1>9, <2>2
  <2> HIDE DEF x
  <2> QED
    BY <2>1, <2>3, WhiteTurn DEF next
<1> HIDE DEF S
<1>12. L \in S
  BY <1>1, <1>10, <1>11, Induction
<1>13. Whitened(t, h, V, marked, L, u)
  BY <1>1, <1>2, <1>12 DEF S
<1>14. TableOK(u, h, V) /\ Capacity(u) = L /\ Len(u.entries) = L
  BY <1>13 DEF Whitened, Capacity
<1>15. \A x, y : x # Null /\ Holds(u.entries, x, y) => x \in marked
  BY <1>13, <1>14 DEF Whitened, Holds
<1> QED
  BY <1>13, <1>14, <1>15 DEF Whitened

-----------------------------------------------------------------------------
(* The inductive invariant. *)

LiveIn(c) == { o \in Obj : c[o] # None }
HashOf(hs, c) == [o \in LiveIn(c) |-> hs[c[o]]]

\* No two strings have the same characters.
Distinct(c) == \A o, x \in Obj : c[o] # None /\ c[o] = c[x] => o = x

\* What the globals name is allocated.
Rooted(c, gl) ==
    \A k, v : k # Null /\ Holds(gl.entries, k, v) =>
        k \in LiveIn(c) /\ (v \in Obj => v \in LiveIn(c))

\* The strings in vm.strings are those that are allocated but the one being
\* made, which none of them equals.
Registered(c, st, mk) ==
    /\ TableKeys(st) = LiveIn(c) \ {mk.obj}
    /\ mk # Idle =>
        /\ \A o \in TableKeys(st) : c[o] # mk.text
        /\ mk.obj # None => c[mk.obj] = mk.text

Making == [text : Text, obj : Obj \cup {None}] \cup {Idle}

Fine(hs, c, st, gl, hd, mk) ==
    /\ hs \in [Text -> 0..(HashBound - 1)] /\ c \in [Obj -> Text \cup {None}]
    /\ mk \in Making
    /\ TableOK(st, HashOf(hs, c), {Nil}) /\ TableOK(gl, HashOf(hs, c), Values)
    /\ Distinct(c) /\ Registered(c, st, mk) /\ Rooted(c, gl)
    /\ hd \subseteq LiveIn(c)

IInv ==
    /\ Fine(hash, chars, strings, globals, held, making)
    /\ answer \in Text \cup Plain \cup {Undefined}

LEMMA KeyHashIs == KeyHash = HashOf(hash, chars)
  BY DEF KeyHash, HashOf, LiveIn

\* The hash of a string that is allocated.
LEMMA Hashed ==
    ASSUME NEW hs \in [Text -> 0..(HashBound - 1)], NEW c \in [Obj -> Text \cup {None}]
    PROVE  /\ \A o \in LiveIn(c) : /\ HashOf(hs, c)[o] = hs[c[o]] /\ HashOf(hs, c)[o] \in Nat
                                    /\ c[o] \in Text /\ o \in Obj
           /\ \A text \in Text : hs[text] \in Nat
           /\ None \notin Text /\ None \notin Obj /\ None \notin LiveIn(c)
<1>1. None \notin Text /\ None \notin Obj /\ HashBound \in Nat
  BY GlobalsConstants
<1>2. \A text \in Text : hs[text] \in Nat
  BY <1>1
<1>3. \A o \in LiveIn(c) : o \in Obj /\ c[o] \in Text
  BY DEF LiveIn
<1>4. \A o \in LiveIn(c) : HashOf(hs, c)[o] = hs[c[o]]
  BY DEF HashOf
<1> QED
  BY <1>1, <1>2, <1>3, <1>4

LEMMA MakingIs ==
    ASSUME NEW mk \in Making
    PROVE  /\ Idle \in Making /\ Idle.obj = None /\ Idle.text = None
           /\ mk.obj \in Obj \cup {None}
           /\ mk # Idle => mk.text \in Text /\ mk = [text |-> mk.text, obj |-> mk.obj]
           /\ mk.obj # None => mk # Idle
           /\ \A text \in Text, o \in Obj \cup {None} :
                 /\ [text |-> text, obj |-> o] \in Making
                 /\ [text |-> text, obj |-> o] # Idle
                 /\ [text |-> text, obj |-> o].text = text /\ [text |-> text, obj |-> o].obj = o
  BY GlobalsConstants DEF Making, Idle

\* A collection marks what is allocated only.
MarkedIn(gl, hd, mk) ==
    hd \cup ({mk.obj} \ {None}) \cup TableKeys(gl)
       \cup ({ gl.entries[i].value : i \in 1..Capacity(gl) } \cap Obj)

LEMMA MarkedIs ==
    ASSUME NEW hs, NEW c, NEW st, NEW gl, NEW hd, NEW mk, Fine(hs, c, st, gl, hd, mk)
    PROVE  /\ MarkedIn(gl, hd, mk) \subseteq LiveIn(c)
           /\ hd \subseteq MarkedIn(gl, hd, mk)
           /\ mk.obj # None => mk.obj \in MarkedIn(gl, hd, mk)
           /\ \A k, v : k # Null /\ Holds(gl.entries, k, v) =>
                 k \in MarkedIn(gl, hd, mk) /\ (v \in Obj => v \in MarkedIn(gl, hd, mk))
<1>1. /\ hd \subseteq LiveIn(c) /\ Rooted(c, gl) /\ mk \in Making
      /\ mk # Idle /\ mk.obj # None => c[mk.obj] = mk.text
      /\ TableOK(gl, HashOf(hs, c), Values)
  BY DEF Fine, Registered
<1>2. mk.obj # None => mk.obj \in LiveIn(c)
  BY <1>1, MakingIs, GlobalsConstants DEF LiveIn
<1>3. TableKeys(gl) \subseteq LiveIn(c)
  BY <1>1, KeysAre DEF Rooted
<1>4. ASSUME NEW i \in 1..Capacity(gl), gl.entries[i].value \in Obj
      PROVE  gl.entries[i].value \in LiveIn(c)
  <2> DEFINE e == gl.entries[i]
  <2>1. gl.entries \in Seq(Entries(Obj, Values)) /\ Capacity(gl) = Len(gl.entries)
    BY <1>1 DEF TableOK, Sound, Capacity
  <2>2. e \in Entries(Obj, Values)
    BY <2>1, Cells
  <2>3. CASE e.key = Null
    <3>1. e = EmptyEntry \/ e = Tombstone
      BY <2>2, <2>3, EntryIs
    <3>2. EmptyEntry.value = Nil /\ Tombstone.value = Deleted
      BY DEF EmptyEntry, Tombstone
    <3> QED
      BY <1>4, <3>1, <3>2, GlobalsConstants
  <2>4. CASE e.key # Null
    <3>1. Holds(gl.entries, e.key, e.value)
      BY <2>1 DEF Holds
    <3> QED
      BY <1>1, <1>4, <2>4, <3>1 DEF Rooted
  <2> QED
    BY <2>3, <2>4
<1>5. MarkedIn(gl, hd, mk) \subseteq LiveIn(c)
  BY <1>1, <1>2, <1>3, <1>4 DEF MarkedIn
<1>6. ASSUME NEW k, NEW v, k # Null, Holds(gl.entries, k, v)
      PROVE  k \in MarkedIn(gl, hd, mk) /\ (v \in Obj => v \in MarkedIn(gl, hd, mk))
  <2>1. PICK i \in 1..Capacity(gl) : gl.entries[i].key = k /\ gl.entries[i].value = v
    BY <1>6 DEF Holds, Capacity
  <2>2. k \in TableKeys(gl)
    BY <1>6, KeysAre
  <2> QED
    BY <2>1, <2>2 DEF MarkedIn
<1> QED
  BY <1>5, <1>6 DEF MarkedIn

LEMMA InvImplies == IInv => TypeOK /\ Interned /\ Findable /\ NoDangling /\ ProbesEnd
<1> SUFFICES ASSUME IInv  PROVE TypeOK /\ Interned /\ Findable /\ NoDangling /\ ProbesEnd
  OBVIOUS
<1> DEFINE h == HashOf(hash, chars)
<1>1. /\ hash \in [Text -> 0..(HashBound - 1)] /\ chars \in [Obj -> Text \cup {None}]
      /\ making \in Making /\ TableOK(strings, h, {Nil}) /\ TableOK(globals, h, Values)
      /\ Distinct(chars) /\ Registered(chars, strings, making) /\ Rooted(chars, globals)
      /\ held \subseteq LiveIn(chars) /\ answer \in Text \cup Plain \cup {Undefined}
  BY DEF IInv, Fine
<1> HIDE DEF h
<1>2. TypeOK
  <2>1. strings \in [entries : Seq(Entries(Obj, {Nil})), count : Nat]
        /\ globals \in [entries : Seq(Entries(Obj, Values)), count : Nat]
    BY <1>1 DEF TableOK
  <2> QED
    BY <1>1, <2>1 DEF TypeOK, LiveIn, Making
<1>3. Interned
  BY <1>1 DEF Interned, Distinct
<1>4. Findable
  <2> SUFFICES ASSUME NEW o \in Obj, chars[o] # None, making.obj # o
               PROVE  TableFindString(strings, chars, chars[o], hash[chars[o]]) = o
    BY DEF Findable
  <2>1. o \in LiveIn(chars) /\ o \in TableKeys(strings) /\ TableKeys(strings) \subseteq LiveIn(chars)
    BY <1>1 DEF Registered, LiveIn
  <2>2. /\ \A x \in LiveIn(chars) : h[x] = hash[chars[x]] /\ x \in Obj /\ chars[x] # None
        /\ hash[chars[o]] \in Nat
    BY <1>1, <2>1, Hashed DEF h
  <2> DEFINE text == chars[o]
  <2>3. \A k \in TableKeys(strings) : chars[k] = text => h[k] = hash[text] /\ k = o
    BY <1>1, <2>1, <2>2 DEF Distinct
  <2> HIDE DEF text
  <2>4. hash[text] \in Nat /\ chars[o] = text
    BY <2>2 DEF text
  <2>5. \A k \in TableKeys(strings) :
            chars[k] = text /\ (\A x \in TableKeys(strings) : chars[x] = text => x = k) =>
                TableFindString(strings, chars, text, hash[text]) = k
    BY <1>1, <2>3, <2>4, FindsString
  <2> QED
    BY <2>1, <2>3, <2>4, <2>5
<1>5. NoDangling
  <2>1. TableKeys(strings) \subseteq LiveIn(chars)
    BY <1>1 DEF Registered
  <2>2. Marked \subseteq LiveIn(chars)
    <3>1. Marked = MarkedIn(globals, held, making)
      BY DEF Marked, MarkedIn
    <3> QED
      BY <3>1, MarkedIs DEF IInv
  <2> QED
    BY <1>1, <2>1, <2>2 DEF NoDangling, LiveIn
<1>6. ProbesEnd
  <2>1. ASSUME NEW V, NEW t, TableOK(t, h, V), t.entries # <<>>
        PROVE  EmptyEntry \in Range(t.entries)
    <3>1. t.entries \in Seq(Entries(Obj, V)) /\ Len(t.entries) # 0
      BY <2>1, EmptySeq DEF TableOK, Sound
    <3>2. Roomy(t.entries) /\ DOMAIN t.entries = 1..Len(t.entries)
      BY <2>1, <3>1, TableIs, Cells
    <3> QED
      BY <3>2 DEF Roomy, Range
  <2> QED
    BY <1>1, <2>1 DEF ProbesEnd
<1> QED
  BY <1>2, <1>3, <1>4, <1>5, <1>6

-----------------------------------------------------------------------------
(* The scope that the globals implement. *)

ShownIn(c, v) == IF v \in Obj THEN c[v] ELSE v

ScopeOf(c, gl) ==
    [ text \in Text |->
        LET at == { i \in 1..Capacity(gl) :
                        gl.entries[i].key # Null /\ c[gl.entries[i].key] = text }
        IN  IF at = {} THEN Undefined
            ELSE ShownIn(c, gl.entries[CHOOSE i \in at : TRUE].value) ]

LEMMA ScopeIsOf == scope = ScopeOf(chars, globals)
  BY DEF scope, ScopeOf, Shown, ShownIn

\* Globals whose names differ by their characters.
Labelled(c, gl) == \A k, x \in TableKeys(gl) : c[k] = c[x] => k = x

LEMMA ScopeIs ==
    ASSUME NEW h, NEW V, NEW gl, TableOK(gl, h, V), NEW c, Labelled(c, gl), NEW text \in Text
    PROVE  /\ \A k, v : k # Null /\ Holds(gl.entries, k, v) /\ c[k] = text =>
                 ScopeOf(c, gl)[text] = ShownIn(c, v)
           /\ (\A k \in TableKeys(gl) : c[k] # text) => ScopeOf(c, gl)[text] = Undefined
<1> DEFINE es == gl.entries
           at == { i \in 1..Capacity(gl) : es[i].key # Null /\ c[es[i].key] = text }
<1>1. ScopeOf(c, gl)[text] = IF at = {} THEN Undefined
                             ELSE ShownIn(c, es[CHOOSE i \in at : TRUE].value)
  BY DEF ScopeOf
<1>2. Capacity(gl) = Len(es)
  BY DEF Capacity
<1>3. \A i \in at : es[i].key \in TableKeys(gl) /\ Holds(es, es[i].key, es[i].value)
                    /\ es[i].key # Null /\ c[es[i].key] = text
  BY <1>2, KeysAre DEF Has, Holds
<1>4. ASSUME NEW k, NEW v, k # Null, Holds(es, k, v), c[k] = text
      PROVE  ScopeOf(c, gl)[text] = ShownIn(c, v)
  <2> DEFINE i == CHOOSE j \in at : TRUE
  <2>1. at # {}
    BY <1>2, <1>4 DEF Holds
  <2>2. i \in at
    BY <2>1
  <2>3. ScopeOf(c, gl)[text] = ShownIn(c, es[i].value)
    BY <1>1, <2>1
  <2> HIDE DEF i, at, es
  <2>4. k \in TableKeys(gl)
    BY <1>4, KeysAre DEF es
  <2>5. es[i].key = k /\ Holds(es, k, es[i].value)
    BY <1>3, <1>4, <2>2, <2>4 DEF Labelled
  <2> DEFINE w == es[i].value
  <2>6. Holds(gl.entries, k, v) /\ Holds(gl.entries, k, w) /\ k # Null
    BY <1>4, <2>5 DEF es
  <2> HIDE DEF w
  <2>7. v = w
    BY <2>6, OneValue, Zenon
  <2> QED
    BY <2>3, <2>7 DEF w
<1>5. ASSUME \A k \in TableKeys(gl) : c[k] # text  PROVE at = {}
  BY <1>3, <1>5
<1> QED
  BY <1>1, <1>4, <1>5

\* Renaming and rehashing that leave the globals what they were.
LEMMA ScopeKept ==
    ASSUME NEW h, NEW V, NEW gl, TableOK(gl, h, V), NEW c, Labelled(c, gl),
           NEW g, NEW ge, TableOK(ge, g, V), NEW d, Keeps(gl.entries, ge.entries),
           \A k \in TableKeys(gl) : d[k] = c[k],
           \A k, v : k # Null /\ Holds(gl.entries, k, v) => ShownIn(d, v) = ShownIn(c, v)
    PROVE  ScopeOf(d, ge) = ScopeOf(c, gl)
<1>1. \A k : k \in TableKeys(ge) <=> k \in TableKeys(gl)
  BY KeysAre DEF Keeps
<1>2. Labelled(d, ge)
  BY <1>1 DEF Labelled
<1>3. ASSUME NEW text \in Text  PROVE ScopeOf(d, ge)[text] = ScopeOf(c, gl)[text]
  <2>1. CASE \A k \in TableKeys(gl) : c[k] # text
    <3>1. \A k \in TableKeys(ge) : d[k] # text
      BY <1>1, <2>1
    <3>2. ScopeOf(d, ge)[text] = Undefined
      BY <1>2, <3>1, ScopeIs
    <3>3. ScopeOf(c, gl)[text] = Undefined
      BY <2>1, ScopeIs
    <3> QED
      BY <3>2, <3>3
  <2>2. CASE \E k \in TableKeys(gl) : c[k] = text
    <3>1. PICK k \in TableKeys(gl) : c[k] = text
      BY <2>2
    <3>2. k # Null /\ \E v : Holds(gl.entries, k, v)
      BY KeysAre
    <3>3. PICK v : Holds(gl.entries, k, v)
      BY <3>2
    <3>4. Holds(ge.entries, k, v) /\ d[k] = text
      BY <3>1, <3>2, <3>3 DEF Keeps
    <3>5. ScopeOf(d, ge)[text] = ShownIn(d, v)
      BY <1>2, <3>2, <3>4, ScopeIs
    <3>6. ScopeOf(c, gl)[text] = ShownIn(c, v)
      BY <3>1, <3>2, <3>3, ScopeIs
    <3> QED
      BY <3>2, <3>3, <3>5, <3>6
  <2> QED
    BY <2>1, <2>2
<1>4. DOMAIN ScopeOf(d, ge) = Text /\ DOMAIN ScopeOf(c, gl) = Text
      /\ ScopeOf(d, ge) = [text \in Text |-> ScopeOf(d, ge)[text]]
      /\ ScopeOf(c, gl) = [text \in Text |-> ScopeOf(c, gl)[text]]
  BY DEF ScopeOf
<1> QED
  BY <1>3, <1>4

\* One global changes.
LEMMA ScopeSet ==
    ASSUME NEW h, NEW V, NEW gl, TableOK(gl, h, V), NEW c,
           NEW ge, TableOK(ge, h, V), NEW k \in Obj, c[k] \in Text, NEW v,
           Gains(gl.entries, ge.entries, k, v), Labelled(c, gl),
           \A x \in TableKeys(gl) : c[x] = c[k] => x = k
    PROVE  ScopeOf(c, ge) = [ScopeOf(c, gl) EXCEPT ![c[k]] = ShownIn(c, v)]
<1>0. k # Null
  BY EntryIs
<1>1. \A x : x \in TableKeys(ge) <=> x \in TableKeys(gl) \/ x = k
  BY <1>0, KeysAre DEF Gains
<1>2. Labelled(c, ge)
  BY <1>1 DEF Labelled
<1>3. ScopeOf(c, ge)[c[k]] = ShownIn(c, v)
  <2>1. Holds(ge.entries, k, v)
    BY <1>0 DEF Gains
  <2> QED
    BY <1>0, <1>2, <2>1, ScopeIs
<1>4. ASSUME NEW text \in Text, text # c[k]  PROVE ScopeOf(c, ge)[text] = ScopeOf(c, gl)[text]
  <2>1. CASE \A x \in TableKeys(gl) : c[x] # text
    <3>1. \A x \in TableKeys(ge) : c[x] # text
      BY <1>1, <1>4, <2>1
    <3>2. ScopeOf(c, ge)[text] = Undefined
      BY <1>2, <3>1, ScopeIs
    <3>3. ScopeOf(c, gl)[text] = Undefined
      BY <2>1, ScopeIs
    <3> QED
      BY <3>2, <3>3
  <2>2. CASE \E x \in TableKeys(gl) : c[x] = text
    <3>1. PICK x \in TableKeys(gl) : c[x] = text
      BY <2>2
    <3>2. x # Null /\ x # k /\ \E y : Holds(gl.entries, x, y)
      BY <1>4, <3>1, KeysAre
    <3>3. PICK y : Holds(gl.entries, x, y)
      BY <3>2
    <3>4. Holds(ge.entries, x, y)
      BY <3>2, <3>3 DEF Gains
    <3>5. ScopeOf(c, ge)[text] = ShownIn(c, y)
      BY <1>2, <3>1, <3>2, <3>4, ScopeIs
    <3>6. ScopeOf(c, gl)[text] = ShownIn(c, y)
      BY <3>1, <3>2, <3>3, ScopeIs
    <3> QED
      BY <3>5, <3>6
  <2> QED
    BY <2>1, <2>2
<1>5. DOMAIN ScopeOf(c, ge) = Text /\ DOMAIN ScopeOf(c, gl) = Text
      /\ ScopeOf(c, ge) = [text \in Text |-> ScopeOf(c, ge)[text]]
      /\ ScopeOf(c, gl) = [text \in Text |-> ScopeOf(c, gl)[text]]
  BY DEF ScopeOf
<1> DEFINE r == [ScopeOf(c, gl) EXCEPT ![c[k]] = ShownIn(c, v)]
<1>6. r = [text \in Text |-> IF text = c[k] THEN ShownIn(c, v) ELSE ScopeOf(c, gl)[text]]
  BY <1>5
<1> HIDE DEF r
<1>7. \A text \in Text : ScopeOf(c, ge)[text]
                         = IF text = c[k] THEN ShownIn(c, v) ELSE ScopeOf(c, gl)[text]
  BY <1>3, <1>4
<1>8. ScopeOf(c, ge) = r
  BY <1>5, <1>6, <1>7
<1> QED
  BY <1>8 DEF r

LEMMA FineNames ==
    ASSUME NEW hs, NEW c, NEW st, NEW gl, NEW hd, NEW mk, Fine(hs, c, st, gl, hd, mk)
    PROVE  /\ TableKeys(gl) \subseteq LiveIn(c) /\ TableKeys(st) \subseteq LiveIn(c)
           /\ \A o, x \in LiveIn(c) : c[o] = c[x] => o = x
           /\ \A o \in LiveIn(c) : /\ o \in Obj /\ c[o] \in Text /\ o # Null
                                   /\ HashOf(hs, c)[o] = hs[c[o]] /\ HashOf(hs, c)[o] \in Nat
           /\ Labelled(c, gl)
<1>1. /\ Distinct(c) /\ Registered(c, st, mk) /\ Rooted(c, gl)
      /\ hs \in [Text -> 0..(HashBound - 1)] /\ c \in [Obj -> Text \cup {None}]
  BY DEF Fine
<1>2. TableKeys(gl) \subseteq LiveIn(c) /\ TableKeys(st) \subseteq LiveIn(c)
  BY <1>1, KeysAre DEF Rooted, Registered
<1>3. \A o, x \in LiveIn(c) : c[o] = c[x] => o = x
  BY <1>1 DEF Distinct, LiveIn
<1>4. \A o \in LiveIn(c) : /\ o \in Obj /\ c[o] \in Text /\ o # Null
                           /\ HashOf(hs, c)[o] = hs[c[o]] /\ HashOf(hs, c)[o] \in Nat
  BY <1>1, Hashed, EntryIs
<1> QED
  BY <1>2, <1>3, <1>4 DEF Labelled

LEMMA ScopeIsOfNext == (scope = ScopeOf(chars, globals))'
  BY ScopeIsOf, PTL

\* What a value shows, and that it is no answer of a failure.
LEMMA Shows ==
    ASSUME NEW c \in [Obj -> Text \cup {None}], NEW v \in Values, v \in Obj => v \in LiveIn(c)
    PROVE  ShownIn(c, v) \in Text \cup Plain /\ ShownIn(c, v) # Undefined
<1>1. ShownIn(c, v) \in Text \cup Plain
  BY DEF ShownIn, Values, LiveIn
<1> QED
  BY <1>1, GlobalsConstants

\* What tableSet makes of the globals.
LEMMA Stores ==
    ASSUME NEW hs, NEW c, NEW st, NEW gl, NEW hd, NEW mk, Fine(hs, c, st, gl, hd, mk),
           NEW k \in hd, NEW v \in Plain \cup hd,
           NEW ge, ge = TableSet(gl, HashOf(hs, c), k, v)
    PROVE  /\ Fine(hs, c, st, ge, hd, mk)
           /\ ScopeOf(c, ge) = [ScopeOf(c, gl) EXCEPT ![c[k]] = ShownIn(c, v)]
           /\ ShownIn(c, v) \in Text \cup Plain
           /\ TableOK(ge, HashOf(hs, c), Values) /\ Gains(gl.entries, ge.entries, k, v)
<1> DEFINE h == HashOf(hs, c)
<1>1. /\ TableOK(gl, h, Values) /\ hd \subseteq LiveIn(c) /\ Rooted(c, gl)
      /\ c \in [Obj -> Text \cup {None}]
  BY DEF Fine
<1>2. /\ k \in LiveIn(c) /\ k \in Obj /\ k # Null /\ h[k] \in Nat /\ c[k] \in Text
      /\ \A x \in TableKeys(gl) : c[x] = c[k] => x = k
      /\ Labelled(c, gl)
  BY <1>1, FineNames
<1>3. v \in Values /\ (v \in Obj => v \in LiveIn(c))
  <2>1. v \in Plain => v \notin Obj
    BY GlobalsConstants
  <2>2. v \in hd => v \in Obj
    BY <1>1 DEF LiveIn
  <2> QED
    BY <1>1, <2>1, <2>2 DEF Values
<1>4. ShownIn(c, v) \in Text \cup Plain
  BY <1>1, <1>3, Shows
<1>5. ge = TableSet(gl, h, k, v)
  OBVIOUS
<1> HIDE DEF h
<1>6. TableOK(ge, h, Values) /\ Gains(gl.entries, ge.entries, k, v)
  BY <1>1, <1>2, <1>3, <1>5, Sets
<1>7. Rooted(c, ge)
  BY <1>1, <1>2, <1>3, <1>6 DEF Rooted, Gains
<1>8. Fine(hs, c, st, ge, hd, mk)
  BY <1>6, <1>7 DEF Fine, h
<1>9. ScopeOf(c, ge) = [ScopeOf(c, gl) EXCEPT ![c[k]] = ShownIn(c, v)]
  BY <1>1, <1>2, <1>6, ScopeSet
<1> QED
  BY <1>4, <1>6, <1>8, <1>9 DEF h

-----------------------------------------------------------------------------
(* Every step keeps the invariant, and is a step of the scope or leaves it. *)

Steady == scope' = scope /\ answer' = answer

LEMMA InitInv == Init => IInv /\ Scope!Init
<1> SUFFICES ASSUME Init  PROVE IInv /\ Scope!Init
  OBVIOUS
<1> DEFINE h == HashOf(hash, chars)
<1>1. ASSUME NEW V  PROVE TableOK(InitTable, h, V) /\ TableKeys(InitTable) = {}
                          /\ Capacity(InitTable) = 0
  <2>1. InitTable.entries = <<>> /\ InitTable.count = 0
        /\ InitTable \in [entries : Seq(Entries(Obj, V)), count : Nat]
    BY EmptySeq DEF InitTable
  <2>2. Len(InitTable.entries) = 0 /\ Capacity(InitTable) = 0
    BY <2>1, EmptySeq DEF Capacity
  <2>3. Keyed(InitTable.entries) = {} /\ Filled(InitTable.entries) = {}
    BY <2>2 DEF Keyed, Filled
  <2>4. Sound(InitTable.entries, h, V)
    BY <2>1, <2>3 DEF Sound
  <2>5. TableKeys(InitTable) = {}
    BY <2>3, KeysAre
  <2>6. Cardinality(Filled(InitTable.entries)) = 0
    BY <2>3, FS_EmptySet, Zenon
  <2> HIDE DEF h
  <2>7. TableOK(InitTable, h, V)
    BY <2>1, <2>2, <2>4, <2>6 DEF TableOK
  <2> QED
    BY <2>2, <2>5, <2>7
<1>2. /\ hash \in [Text -> 0..(HashBound - 1)] /\ chars \in [Obj -> Text \cup {None}]
      /\ \A o \in Obj : chars[o] = None
      /\ strings = InitTable /\ globals = InitTable /\ held = {} /\ making = Idle
      /\ answer = Undefined
  BY DEF Init
<1>3. LiveIn(chars) = {}
  BY <1>2 DEF LiveIn
<1> HIDE DEF h
<1>4. IInv
  <2>1. Rooted(chars, globals)
    <3>1. \A k : ~ Has(globals.entries, k) \/ k = Null
      BY <1>1, <1>2, KeysAre
    <3> QED
      BY <3>1, KeysAre DEF Rooted
  <2>2. Registered(chars, strings, making)
    BY <1>1, <1>2, <1>3 DEF Registered
  <2>3. Distinct(chars)
    BY <1>2 DEF Distinct
  <2>4. making \in Making
    BY <1>2 DEF Making
  <2> QED
    BY <1>1, <1>2, <2>1, <2>2, <2>3, <2>4 DEF IInv, Fine, h
<1>5. Scope!Init
  <2>1. \A text \in Text : scope[text] = Undefined
    BY <1>1, <1>2 DEF scope
  <2>2. scope = [text \in Text |-> scope[text]]
    BY DEF scope
  <2>3. scope = [text \in Text |-> Undefined]
    BY <2>1, <2>2
  <2> QED
    BY <1>2, <2>3 DEF Scope!Init
<1> QED
  BY <1>4, <1>5

LEMMA InternStep ==
    ASSUME IInv, NEW text \in Text, Intern(text)
    PROVE  IInv' /\ Steady
<1> DEFINE h == HashOf(hash, chars)
           found == TableFindString(strings, chars, text, hash[text])
<1>1. Fine(hash, chars, strings, globals, held, making)
      /\ answer \in Text \cup Plain \cup {Undefined}
  BY DEF IInv
<1>2. /\ hash' = hash /\ chars' = chars /\ strings' = strings /\ globals' = globals
      /\ answer' = answer /\ making = Idle
      /\ IF found # Null
         THEN held' = held \cup {found} /\ making' = making
         ELSE making' = [text |-> text, obj |-> None] /\ held' = held
  BY DEF Intern
<1>3. /\ hash \in [Text -> 0..(HashBound - 1)] /\ chars \in [Obj -> Text \cup {None}]
      /\ making \in Making /\ TableOK(strings, h, {Nil}) /\ TableOK(globals, h, Values)
      /\ Distinct(chars) /\ Registered(chars, strings, making) /\ Rooted(chars, globals)
      /\ held \subseteq LiveIn(chars)
  BY <1>1 DEF Fine
<1>4. TableKeys(strings) = LiveIn(chars)
  <2>1. None \notin LiveIn(chars) /\ Idle.obj = None
    BY <1>3, Hashed, MakingIs
  <2> QED
    BY <1>2, <1>3, <2>1 DEF Registered
<1>5. /\ \A k \in TableKeys(strings) : chars[k] = text => h[k] = hash[text]
      /\ \A k, x \in TableKeys(strings) : chars[k] = chars[x] => x = k
      /\ hash[text] \in Nat /\ \A k \in TableKeys(strings) : k # Null
  BY <1>1, <1>3, <1>4, Hashed, FineNames
<1> HIDE DEF h
<1>6. /\ \A k \in TableKeys(strings) :
            chars[k] = text /\ (\A x \in TableKeys(strings) : chars[x] = text => x = k) => found = k
      /\ (\A k \in TableKeys(strings) : chars[k] # text) => found = Null
  BY <1>3, <1>5, FindsString
<1> HIDE DEF found
<1>7. Fine(hash, chars, strings, globals, held', making')
  <2>1. CASE found # Null
    <3>1. found \in LiveIn(chars)
      BY <1>4, <1>5, <1>6, <2>1
    <3> QED
      BY <1>1, <1>2, <2>1, <3>1 DEF Fine
  <2>2. CASE found = Null
    <3>1. \A k \in TableKeys(strings) : chars[k] # text
      BY <1>5, <1>6, <2>2
    <3>2. making' \in Making /\ making'.obj = None /\ making'.text = text
      BY <1>2, <2>2, MakingIs, <1>3
    <3>3. Registered(chars, strings, making')
      BY <1>3, <1>4, <3>1, <3>2, Hashed DEF Registered
    <3> QED
      BY <1>1, <1>2, <2>2, <3>2, <3>3 DEF Fine
  <2> QED
    BY <2>1, <2>2
<1>8. IInv'
  BY <1>1, <1>2, <1>7 DEF IInv
<1> QED
  BY <1>2, <1>8, ScopeIsOf, ScopeIsOfNext DEF Steady

LEMMA AllocateStep ==
    ASSUME IInv, NEW o \in Obj, AllocateString(o)
    PROVE  IInv' /\ Steady
<1> DEFINE h == HashOf(hash, chars)
           d == [chars EXCEPT ![o] = making.text]
           g == HashOf(hash, d)
           mk == [making EXCEPT !.obj = o]
<1>1. Fine(hash, chars, strings, globals, held, making)
      /\ answer \in Text \cup Plain \cup {Undefined}
  BY DEF IInv
<1>2. /\ hash' = hash /\ chars' = d /\ strings' = strings /\ globals' = globals
      /\ answer' = answer /\ held' = held /\ making' = mk
      /\ making # Idle /\ making.obj = None /\ chars[o] = None
  BY DEF AllocateString
<1>3. /\ hash \in [Text -> 0..(HashBound - 1)] /\ chars \in [Obj -> Text \cup {None}]
      /\ making \in Making /\ TableOK(strings, h, {Nil}) /\ TableOK(globals, h, Values)
      /\ Distinct(chars) /\ Registered(chars, strings, making) /\ Rooted(chars, globals)
      /\ held \subseteq LiveIn(chars)
  BY <1>1 DEF Fine
<1>4. /\ making.text \in Text /\ mk \in Making /\ mk # Idle /\ mk.obj = o /\ mk.text = making.text
      /\ o # None /\ None \notin Text
  <2>1. making.text \in Text /\ making = [text |-> making.text, obj |-> making.obj]
    BY <1>2, <1>3, MakingIs
  <2>2. mk = [text |-> making.text, obj |-> o]
    BY <2>1
  <2> QED
    BY <1>3, <2>1, <2>2, MakingIs, GlobalsConstants
<1> HIDE DEF mk
<1> DEFINE text == making.text
<1>5. /\ d \in [Obj -> Text \cup {None}] /\ d[o] = text
      /\ \A x \in Obj : x # o => d[x] = chars[x]
  BY <1>3, <1>4
<1> HIDE DEF d
<1>6. LiveIn(d) = LiveIn(chars) \cup {o} /\ o \notin LiveIn(chars)
      /\ \A x \in LiveIn(chars) : d[x] = chars[x] /\ x \in Obj
  BY <1>2, <1>4, <1>5 DEF LiveIn
<1>7. TableKeys(strings) = LiveIn(chars) /\ \A x \in LiveIn(chars) : chars[x] # text
  <2>1. None \notin LiveIn(chars)
    BY <1>3, Hashed
  <2> QED
    BY <1>2, <1>3, <2>1 DEF Registered
<1>8. TableKeys(globals) \subseteq LiveIn(chars) /\ Labelled(chars, globals)
      /\ \A x \in LiveIn(chars) : h[x] = hash[chars[x]]
  BY <1>1, FineNames
<1>9. \A x \in LiveIn(chars) : g[x] = h[x]
  <2>1. \A x \in LiveIn(d) : g[x] = hash[d[x]]
    BY <1>3, <1>5, Hashed
  <2> QED
    BY <1>6, <1>8, <2>1
<1> HIDE DEF g, h
<1>10. TableOK(strings, g, {Nil})
  <2>1. \A i \in Keyed(strings.entries) : strings.entries[i].key \in LiveIn(chars)
    BY <1>7, KeysAre
  <2> QED
    BY <1>3, <1>9, <2>1, Rehashed
<1>11. TableOK(globals, g, Values)
  <2>1. \A i \in Keyed(globals.entries) : globals.entries[i].key \in LiveIn(chars)
    BY <1>8, KeysAre
  <2> QED
    BY <1>3, <1>9, <2>1, Rehashed
<1>12. Distinct(d)
  <2>1. \A x, y \in LiveIn(chars) : chars[x] = chars[y] => x = y
    BY <1>1, FineNames
  <2>2. \A x, y \in LiveIn(d) : d[x] = d[y] => x = y
    BY <1>5, <1>6, <1>7, <2>1
  <2> QED
    BY <2>2 DEF Distinct, LiveIn
<1>13. Registered(d, strings, mk)
  BY <1>4, <1>5, <1>6, <1>7 DEF Registered
<1>14. Rooted(d, globals)
  BY <1>3, <1>6 DEF Rooted
<1>15. Fine(hash, d, strings, globals, held, mk)
  BY <1>3, <1>4, <1>5, <1>6, <1>10, <1>11, <1>12, <1>13, <1>14 DEF Fine, g
<1>16. IInv'
  BY <1>1, <1>2, <1>15 DEF IInv
<1>17. ScopeOf(d, globals) = ScopeOf(chars, globals)
  <2>1. \A k, v : k # Null /\ Holds(globals.entries, k, v) => ShownIn(d, v) = ShownIn(chars, v)
    BY <1>3, <1>6 DEF Rooted, ShownIn
  <2>2. \A k \in TableKeys(globals) : d[k] = chars[k]
    BY <1>6, <1>8
  <2>3. Keeps(globals.entries, globals.entries)
    BY DEF Keeps
  <2> QED
    BY <1>3, <1>8, <2>1, <2>2, <2>3, ScopeKept
<1> QED
  BY <1>2, <1>16, <1>17, ScopeIsOf, ScopeIsOfNext DEF Steady

LEMMA InsertStep ==
    ASSUME IInv, InsertString
    PROVE  IInv' /\ Steady
<1> DEFINE h == HashOf(hash, chars)
           o == making.obj
           st == TableSet(strings, h, o, Nil)
<1>1. Fine(hash, chars, strings, globals, held, making)
      /\ answer \in Text \cup Plain \cup {Undefined}
  BY DEF IInv
<1>2. /\ hash' = hash /\ chars' = chars /\ strings' = st /\ globals' = globals
      /\ answer' = answer /\ held' = held \cup {o} /\ making' = Idle /\ o # None
  BY KeyHashIs DEF InsertString
<1>3. /\ hash \in [Text -> 0..(HashBound - 1)] /\ chars \in [Obj -> Text \cup {None}]
      /\ making \in Making /\ TableOK(strings, h, {Nil}) /\ TableOK(globals, h, Values)
      /\ Distinct(chars) /\ Registered(chars, strings, making) /\ Rooted(chars, globals)
      /\ held \subseteq LiveIn(chars)
  BY <1>1 DEF Fine
<1>4. o \in LiveIn(chars) /\ o # Null /\ o \in Obj /\ h[o] \in Nat /\ None \notin LiveIn(chars)
  <2>1. o \in LiveIn(chars)
    BY <1>1, <1>2, MarkedIs
  <2> QED
    BY <1>1, <1>3, <2>1, FineNames, Hashed
<1> HIDE DEF h
<1>5. TableOK(st, h, {Nil}) /\ Gains(strings.entries, st.entries, o, Nil)
  BY <1>3, <1>4, Sets
<1> HIDE DEF st
<1>6. TableKeys(st) = TableKeys(strings) \cup {o}
  <2>1. \A k : k \in TableKeys(st) <=> k \in TableKeys(strings) \/ k = o
    BY <1>4, <1>5, KeysAre DEF Gains
  <2> QED
    BY <2>1
<1>7. Registered(chars, st, Idle)
  <2>1. TableKeys(st) = LiveIn(chars) /\ Idle.obj = None
    BY <1>3, <1>4, <1>6, MakingIs DEF Registered
  <2> QED
    BY <1>4, <2>1 DEF Registered
<1>8. Fine(hash, chars, st, globals, held \cup {o}, Idle)
  BY <1>3, <1>4, <1>5, <1>7, MakingIs DEF Fine, h
<1>9. IInv'
  BY <1>1, <1>2, <1>8 DEF IInv
<1> QED
  BY <1>2, <1>9, ScopeIsOf, ScopeIsOfNext DEF Steady

LEMMA DropStep ==
    ASSUME IInv, NEW o \in Obj, Drop(o)
    PROVE  IInv' /\ Steady
<1>1. /\ hash' = hash /\ chars' = chars /\ strings' = strings /\ globals' = globals
      /\ answer' = answer /\ held' \subseteq held /\ making' = making
  BY DEF Drop
<1>2. IInv'
  BY <1>1 DEF IInv, Fine
<1> QED
  BY <1>1, <1>2, ScopeIsOf, ScopeIsOfNext DEF Steady

LEMMA CollectStep ==
    ASSUME IInv, Collect
    PROVE  IInv' /\ Steady
<1> DEFINE h == HashOf(hash, chars)
           M == MarkedIn(globals, held, making)
           st == TableRemoveWhite(strings, h, M)
           d == [o \in Obj |-> IF o \in M THEN chars[o] ELSE None]
           g == HashOf(hash, d)
<1>1. Fine(hash, chars, strings, globals, held, making)
      /\ answer \in Text \cup Plain \cup {Undefined}
  BY DEF IInv
<1>2. /\ hash' = hash /\ chars' = d /\ strings' = st /\ globals' = globals
      /\ answer' = answer /\ held' = held /\ making' = making
  <2>1. Marked = M
    BY DEF Marked, MarkedIn
  <2> HIDE DEF M
  <2> QED
    BY <2>1, KeyHashIs DEF Collect
<1>3. /\ hash \in [Text -> 0..(HashBound - 1)] /\ chars \in [Obj -> Text \cup {None}]
      /\ making \in Making /\ TableOK(strings, h, {Nil}) /\ TableOK(globals, h, Values)
      /\ Distinct(chars) /\ Registered(chars, strings, making) /\ Rooted(chars, globals)
      /\ held \subseteq LiveIn(chars)
  BY <1>1 DEF Fine
<1>4. /\ M \subseteq LiveIn(chars) /\ held \subseteq M
      /\ making.obj # None => making.obj \in M
      /\ \A k, v : k # Null /\ Holds(globals.entries, k, v) => k \in M /\ (v \in Obj => v \in M)
  BY <1>1, MarkedIs
<1> HIDE DEF M
<1>5. /\ d \in [Obj -> Text \cup {None}] /\ LiveIn(d) = M
      /\ \A x \in M : d[x] = chars[x] /\ x \in Obj
  BY <1>3, <1>4 DEF LiveIn
<1> HIDE DEF d
<1>6. \A x \in M : g[x] = h[x]
  <2>1. \A x \in LiveIn(d) : g[x] = hash[d[x]]
    BY <1>3, <1>5, Hashed
  <2>2. \A x \in LiveIn(chars) : h[x] = hash[chars[x]]
    BY <1>3, Hashed
  <2> QED
    BY <1>4, <1>5, <2>1, <2>2
<1> HIDE DEF g, h
<1>7. /\ TableOK(st, h, {Nil})
      /\ \A x, y : x # Null => (Holds(st.entries, x, y) <=> Holds(strings.entries, x, y) /\ x \in M)
  BY <1>3, RemovesWhite
<1> HIDE DEF st
<1>8. TableKeys(st) = TableKeys(strings) \cap M
  <2>1. \A k : k \in TableKeys(st) <=> k \in TableKeys(strings) /\ k \in M
    BY <1>7, KeysAre
  <2> QED
    BY <2>1
<1>9. TableOK(st, g, {Nil})
  <2>1. \A i \in Keyed(st.entries) : st.entries[i].key \in M
    BY <1>8, KeysAre
  <2> QED
    BY <1>6, <1>7, <2>1, Rehashed
<1>10. \A k \in TableKeys(globals) : k \in M
  BY <1>4, KeysAre
<1>11. TableOK(globals, g, Values)
  <2>1. \A i \in Keyed(globals.entries) : globals.entries[i].key \in M
    BY <1>10, KeysAre
  <2> QED
    BY <1>3, <1>6, <2>1, Rehashed
<1>12. Distinct(d)
  <2>1. \A x, y \in LiveIn(chars) : chars[x] = chars[y] => x = y
    BY <1>1, FineNames
  <2>2. \A x, y \in LiveIn(d) : d[x] = d[y] => x = y
    BY <1>4, <1>5, <2>1
  <2> QED
    BY <2>2 DEF Distinct, LiveIn
<1>13. Registered(d, st, making)
  <2>1. TableKeys(st) = M \ {making.obj}
    BY <1>3, <1>4, <1>8 DEF Registered
  <2> QED
    BY <1>3, <1>4, <1>5, <1>8, <2>1 DEF Registered
<1>14. Rooted(d, globals)
  BY <1>4, <1>5 DEF Rooted
<1>15. Fine(hash, d, st, globals, held, making)
  BY <1>3, <1>4, <1>5, <1>9, <1>11, <1>12, <1>13, <1>14 DEF Fine, g
<1>16. IInv'
  BY <1>1, <1>2, <1>15 DEF IInv
<1>17. ScopeOf(d, globals) = ScopeOf(chars, globals)
  <2>1. \A k, v : k # Null /\ Holds(globals.entries, k, v) => ShownIn(d, v) = ShownIn(chars, v)
    BY <1>4, <1>5 DEF ShownIn
  <2>2. \A k \in TableKeys(globals) : d[k] = chars[k]
    BY <1>5, <1>10
  <2>3. Keeps(globals.entries, globals.entries) /\ Labelled(chars, globals)
    BY <1>1, FineNames DEF Keeps
  <2> QED
    BY <1>3, <1>11, <2>1, <2>2, <2>3, ScopeKept
<1> QED
  BY <1>2, <1>16, <1>17, ScopeIsOf, ScopeIsOfNext DEF Steady

LEMMA DefineStep ==
    ASSUME IInv, NEW name \in held, NEW v \in Plain \cup held, DefineGlobal(name, v)
    PROVE  IInv' /\ Scope!Define(chars[name], Shown(v))
<1> DEFINE h == HashOf(hash, chars)
           gl == TableSet(globals, h, name, v)
<1>1. Fine(hash, chars, strings, globals, held, making)
      /\ answer \in Text \cup Plain \cup {Undefined}
  BY DEF IInv
<1>2. /\ hash' = hash /\ chars' = chars /\ strings' = strings /\ globals' = gl
      /\ answer' = ShownIn(chars, v) /\ held' = held /\ making' = making
  BY KeyHashIs DEF DefineGlobal, Shown, ShownIn
<1> HIDE DEF h, gl
<1>3. gl = TableSet(globals, h, name, v)
  BY DEF gl
<1>4. /\ Fine(hash, chars, strings, gl, held, making)
      /\ ScopeOf(chars, gl) = [ScopeOf(chars, globals) EXCEPT ![chars[name]] = ShownIn(chars, v)]
      /\ ShownIn(chars, v) \in Text \cup Plain
  BY <1>1, <1>3, Stores DEF h
<1>5. IInv'
  BY <1>2, <1>4 DEF IInv
<1> QED
  BY <1>2, <1>4, <1>5, ScopeIsOf, ScopeIsOfNext DEF Scope!Define, Shown, ShownIn

LEMMA SetStep ==
    ASSUME IInv, NEW name \in held, NEW v \in Plain \cup held, SetGlobal(name, v)
    PROVE  IInv' /\ Scope!Assign(chars[name], Shown(v))
<1> DEFINE h == HashOf(hash, chars)
           room == MakeRoom(globals, h)
           set == TableSet(globals, h, name, v)
           gone == TableDelete(set, h, name)
<1>1. Fine(hash, chars, strings, globals, held, making)
      /\ answer \in Text \cup Plain \cup {Undefined}
  BY DEF IInv
<1>2. /\ hash' = hash /\ chars' = chars /\ strings' = strings
      /\ held' = held /\ making' = making
      /\ TableHas(room, h, name) => globals' = set /\ answer' = ShownIn(chars, v)
      /\ ~ TableHas(room, h, name) => globals' = gone /\ answer' = Undefined
  BY KeyHashIs DEF SetGlobal, Shown, ShownIn
<1>3. /\ TableOK(globals, h, Values) /\ held \subseteq LiveIn(chars)
      /\ hash \in [Text -> 0..(HashBound - 1)] /\ chars \in [Obj -> Text \cup {None}]
      /\ Rooted(chars, globals)
  BY <1>1 DEF Fine
<1>4. /\ name \in LiveIn(chars) /\ name \in Obj /\ name # Null /\ h[name] \in Nat
      /\ chars[name] \in Text
      /\ \A x \in TableKeys(globals) : chars[x] = chars[name] => x = name
      /\ Labelled(chars, globals)
  BY <1>1, <1>3, FineNames
<1>5. /\ Fine(hash, chars, strings, set, held, making)
      /\ ScopeOf(chars, set) = [ScopeOf(chars, globals) EXCEPT ![chars[name]] = ShownIn(chars, v)]
      /\ ShownIn(chars, v) \in Text \cup Plain
      /\ TableOK(set, h, Values) /\ Gains(globals.entries, set.entries, name, v)
  BY <1>1, Stores
<1> HIDE DEF h, set
<1>6. TableHas(room, h, name) <=> Has(globals.entries, name)
  <2>1. TableOK(room, h, Values) /\ Keeps(globals.entries, room.entries)
    BY <1>3, MakesRoom
  <2> HIDE DEF room
  <2>2. TableHas(room, h, name) <=> Has(room.entries, name)
    BY <1>4, <2>1, Knows
  <2> QED
    BY <1>4, <2>1, <2>2, KeysAre DEF Keeps
<1> HIDE DEF room
<1>7. CASE TableHas(room, h, name)
  <2>1. IInv'
    BY <1>2, <1>5, <1>7 DEF IInv
  <2>2. PICK w : Holds(globals.entries, name, w)
    BY <1>6, <1>7, KeysAre
  <2>3. w \in Values /\ (w \in Obj => w \in LiveIn(chars))
    BY <1>3, <1>4, <2>2, OneValue DEF Rooted
  <2>4. ScopeOf(chars, globals)[chars[name]] # Undefined
    <3>1. ScopeOf(chars, globals)[chars[name]] = ShownIn(chars, w)
      BY <1>3, <1>4, <2>2, ScopeIs
    <3> QED
      BY <1>3, <2>3, <3>1, Shows
  <2> QED
    BY <1>2, <1>5, <1>7, <2>1, <2>4, ScopeIsOf, ScopeIsOfNext
    DEF Scope!Define, Scope!Assign, Shown, ShownIn
<1>8. CASE ~ TableHas(room, h, name)
  <2>1. /\ TableOK(gone, h, Values)
        /\ \A x, y : x # Null =>
             (Holds(gone.entries, x, y) <=> Holds(set.entries, x, y) /\ x # name)
    BY <1>4, <1>5, Deletes
  <2> HIDE DEF gone
  <2>2. \A y : ~ Holds(globals.entries, name, y)
    BY <1>6, <1>8, KeysAre
  <2>3. Keeps(globals.entries, gone.entries)
    BY <1>5, <2>1, <2>2 DEF Keeps, Gains
  <2>4. Rooted(chars, gone)
    BY <1>3, <2>3 DEF Keeps, Rooted
  <2>5. IInv'
    BY <1>1, <1>2, <1>8, <2>1, <2>4 DEF IInv, Fine, h
  <2>6. ScopeOf(chars, gone) = ScopeOf(chars, globals)
    BY <1>3, <1>4, <2>1, <2>3, ScopeKept
  <2>7. ScopeOf(chars, globals)[chars[name]] = Undefined
    <3>1. \A x \in TableKeys(globals) : chars[x] # chars[name]
      BY <1>4, <2>2, KeysAre
    <3> QED
      BY <1>3, <1>4, <3>1, ScopeIs
  <2> QED
    BY <1>2, <1>8, <2>5, <2>6, <2>7, ScopeIsOf, ScopeIsOfNext DEF Scope!Assign
<1> QED
  BY <1>7, <1>8

LEMMA GetStep ==
    ASSUME IInv, NEW name \in held, GetGlobal(name)
    PROVE  IInv' /\ Scope!Lookup(chars[name])
<1> DEFINE h == HashOf(hash, chars)
           v == TableGet(globals, h, name)
<1>1. Fine(hash, chars, strings, globals, held, making)
      /\ answer \in Text \cup Plain \cup {Undefined}
  BY DEF IInv
<1>2. /\ hash' = hash /\ chars' = chars /\ strings' = strings /\ globals' = globals
      /\ making' = making
      /\ TableHas(globals, h, name) =>
            answer' = ShownIn(chars, v) /\ held' = held \cup ({v} \cap Obj)
      /\ ~ TableHas(globals, h, name) => answer' = Undefined /\ held' = held
  BY KeyHashIs DEF GetGlobal, Shown, ShownIn
<1>3. /\ TableOK(globals, h, Values) /\ held \subseteq LiveIn(chars)
      /\ hash \in [Text -> 0..(HashBound - 1)] /\ chars \in [Obj -> Text \cup {None}]
      /\ Rooted(chars, globals)
  BY <1>1 DEF Fine
<1>4. /\ name \in LiveIn(chars) /\ name \in Obj /\ name # Null /\ h[name] \in Nat
      /\ chars[name] \in Text
      /\ \A x \in TableKeys(globals) : chars[x] = chars[name] => x = name
      /\ Labelled(chars, globals)
  BY <1>1, <1>3, FineNames
<1> HIDE DEF h
<1>5. /\ TableHas(globals, h, name) <=> Has(globals.entries, name)
      /\ \A i \in 1..Capacity(globals) : globals.entries[i].key = name =>
            FindEntry(globals.entries, h, name) = i
  BY <1>3, <1>4, Knows
<1>6. CASE TableHas(globals, h, name)
  <2>1. PICK i \in 1..Capacity(globals) : globals.entries[i].key = name
    BY <1>5, <1>6 DEF Has, Capacity
  <2>2. v = globals.entries[i].value
    BY <1>5, <2>1 DEF TableGet
  <2> HIDE DEF v
  <2>3. Holds(globals.entries, name, v)
    BY <2>1, <2>2 DEF Holds, Capacity
  <2>4. v \in Values /\ (v \in Obj => v \in LiveIn(chars))
    BY <1>3, <1>4, <2>3, OneValue DEF Rooted
  <2>5. answer' \in Text \cup Plain
    BY <1>2, <1>3, <1>6, <2>4, Shows
  <2>6. held' \subseteq LiveIn(chars)
    BY <1>2, <1>3, <1>6, <2>4
  <2>7. IInv'
    BY <1>1, <1>2, <2>5, <2>6 DEF IInv, Fine
  <2>8. ScopeOf(chars, globals)[chars[name]] = ShownIn(chars, v)
    BY <1>3, <1>4, <2>3, ScopeIs
  <2> QED
    BY <1>2, <1>6, <2>7, <2>8, ScopeIsOf, ScopeIsOfNext DEF Scope!Lookup
<1>7. CASE ~ TableHas(globals, h, name)
  <2>1. IInv'
    BY <1>1, <1>2, <1>7 DEF IInv
  <2>2. ScopeOf(chars, globals)[chars[name]] = Undefined
    <3>1. \A x \in TableKeys(globals) : chars[x] # chars[name]
      BY <1>4, <1>5, <1>7, KeysAre
    <3> QED
      BY <1>3, <1>4, <3>1, ScopeIs
  <2> QED
    BY <1>2, <1>7, <2>1, <2>2, ScopeIsOf, ScopeIsOfNext DEF Scope!Lookup
<1> QED
  BY <1>6, <1>7

\* One step: the invariant, and what the scope sees of it.
LEMMA NextInv == IInv /\ [Next]_vars => IInv' /\ [Scope!Next]_Scope!vars
<1> SUFFICES ASSUME IInv, [Next]_vars  PROVE IInv' /\ [Scope!Next]_Scope!vars
  OBVIOUS
<1>1. Steady => [Scope!Next]_Scope!vars
  BY DEF Steady, Scope!vars
<1>2. \A name \in held : name \in Obj /\ chars[name] \in Text
  BY FineNames DEF IInv, Fine
<1>3. \A v \in Plain \cup held : Shown(v) \in Text \cup Plain
  BY <1>2, GlobalsConstants DEF Shown
<1>4. ASSUME NEW text \in Text, Intern(text)  PROVE IInv' /\ [Scope!Next]_Scope!vars
  BY <1>1, <1>4, InternStep
<1>5. ASSUME NEW o \in Obj, AllocateString(o)  PROVE IInv' /\ [Scope!Next]_Scope!vars
  BY <1>1, <1>5, AllocateStep
<1>6. CASE InsertString
  BY <1>1, <1>6, InsertStep
<1>7. ASSUME NEW o \in Obj, Drop(o)  PROVE IInv' /\ [Scope!Next]_Scope!vars
  BY <1>1, <1>7, DropStep
<1>8. CASE Collect
  BY <1>1, <1>8, CollectStep
<1>9. ASSUME NEW name \in held, NEW v \in Plain \cup held, DefineGlobal(name, v)
      PROVE  IInv' /\ [Scope!Next]_Scope!vars
  <2>1. IInv' /\ Scope!Define(chars[name], Shown(v))
    BY <1>9, DefineStep
  <2> QED
    BY <1>2, <1>3, <2>1 DEF Scope!Next
<1>10. ASSUME NEW name \in held, NEW v \in Plain \cup held, SetGlobal(name, v)
       PROVE  IInv' /\ [Scope!Next]_Scope!vars
  <2>1. IInv' /\ Scope!Assign(chars[name], Shown(v))
    BY <1>10, SetStep
  <2> QED
    BY <1>2, <1>3, <2>1 DEF Scope!Next
<1>11. ASSUME NEW name \in held, GetGlobal(name)
       PROVE  IInv' /\ [Scope!Next]_Scope!vars
  <2>1. IInv' /\ Scope!Lookup(chars[name])
    BY <1>11, GetStep
  <2> QED
    BY <1>2, <2>1 DEF Scope!Next
<1>12. CASE UNCHANGED vars
  <2>1. /\ hash' = hash /\ chars' = chars /\ strings' = strings /\ globals' = globals
        /\ held' = held /\ making' = making /\ answer' = answer
    BY <1>12 DEF vars
  <2>2. IInv'
    BY <2>1 DEF IInv
  <2> QED
    BY <1>1, <2>1, <2>2, ScopeIsOf, ScopeIsOfNext DEF Steady
<1> QED
  BY <1>4, <1>5, <1>6, <1>7, <1>8, <1>9, <1>10, <1>11, <1>12 DEF Next

LEMMA Invariant == Spec => []IInv
<1>1. Init => IInv
  BY InitInv
<1>2. IInv /\ [Next]_vars => IInv'
  BY NextInv
<1> QED
  BY <1>1, <1>2, PTL DEF Spec

-----------------------------------------------------------------------------
(* Theorems. *)

\* Both tables hold well-formed entries, and every operation yields a value,
\* the text of a string, or nothing.
THEOREM TypeCorrect == Spec => []TypeOK
  BY Invariant, InvImplies, PTL

\* vm.strings interns: two live strings never have the same characters, so
\* comparing addresses (valuesEqual, findEntry) compares strings.
THEOREM Interning == Spec => []Interned
  BY Invariant, InvImplies, PTL

\* tableFindString finds every live string after any sequence of insertions,
\* growths and collections.
THEOREM FindsAll == Spec => []Findable
  BY Invariant, InvImplies, PTL

\* Sweeping after markRoots and tableRemoveWhite leaves no freed string in
\* vm.strings, in vm.globals, on the stack or in the hand of allocateString.
THEOREM NothingDangles == Spec => []NoDangling
  BY Invariant, InvImplies, PTL

\* The for (;;) of findEntry and of tableFindString ends: a table that has
\* entries has an empty one.
THEOREM ProbesEndAlways == Spec => []ProbesEnd
  BY Invariant, InvImplies, PTL

\* OP_DEFINE_GLOBAL, OP_SET_GLOBAL and OP_GET_GLOBAL implement a map from
\* names to values, whatever the tables and the collector do in between.
THEOREM ScopeIsKept == Spec => KeepsScope
<1>1. Init => Scope!Init
  BY InitInv
<1>2. IInv /\ [Next]_vars => [Scope!Next]_Scope!vars
  BY NextInv
<1> QED
  BY <1>1, <1>2, Invariant, PTL DEF Spec, KeepsScope, Scope!Spec

-----------------------------------------------------------------------------
(* Locals that closures capture. *)

\* There is a frame and something on the stack.  Slot 1 belongs to the script
\* itself and is no variable; what is above the top belongs to nobody.
Places ==
    /\ frames # <<>> /\ top >= 1
    /\ \A i \in 1..Len(open) : loc[open[i]] >= 2
    /\ \A s \in Slot : owner[s] # Nothing => s <= top

\* A closure that is called, or that OP_CLOSURE is at work on, was made.
Filling ==
    /\ filling # Nothing => upvalues[filling] # Nothing
    /\ \A i \in 1..Len(frames) :
           frames[i].closure # Nothing => upvalues[frames[i].closure] # Nothing

\* An upvalue that points into the stack is in vm.openUpvalues.
Listed == ~ lost => \A u \in Up : loc[u] # 0 => u \in ToSet(open)

UVInv ==
    UVTypeOK /\ Places /\ Filling /\ Listed /\ OpenSorted /\ OneUpvalue /\ Shares

-----------------------------------------------------------------------------
(* The list. *)

\* The loops of captureUpvalue and closeUpvalues stop, and where: at the first
\* upvalue that is not above s.
LEMMA AboveStops ==
    ASSUME open \in Seq(Up), NEW s
    PROVE  /\ Above(s) \in 0..Len(open)
           /\ \A i \in 1..Above(s) : loc[open[i]] > s
           /\ Above(s) < Len(open) => ~ loc[open[Above(s) + 1]] > s
<1> DEFINE T == { k \in 0..Len(open) : k < Len(open) => ~ loc[open[k + 1]] > s }
           Stop(k) == /\ \A i \in 1..k : loc[open[i]] > s
                      /\ k < Len(open) => ~ loc[open[k + 1]] > s
<1>1. Len(open) \in Nat /\ Len(open) \in T /\ T \subseteq Nat
  BY LenProperties
<1>2. PICK k \in T : \A j \in T : k <= j
  BY <1>1, Least, Zenon
<1>3. ASSUME NEW i \in 1..k  PROVE loc[open[i]] > s
  <2>1. i - 1 \in 0..Len(open) /\ i - 1 < Len(open) /\ ~ (k <= i - 1) /\ (i - 1) + 1 = i
    BY <1>1
  <2>2. i - 1 \notin T
    BY <1>2, <2>1
  <2> QED
    BY <2>1, <2>2
<1>4. \E n \in 0..Len(open) : Stop(n)
  BY <1>2, <1>3
<1>5. Above(s) = CHOOSE n \in 0..Len(open) : Stop(n)
  BY Zenon DEF Above
<1> HIDE DEF Stop
<1>6. Above(s) \in 0..Len(open) /\ Stop(Above(s))
  BY <1>4, <1>5, Zenon
<1> QED
  BY <1>6 DEF Stop

\* All that comes behind is not above s either: stopping there is right.
LEMMA AboveSplits ==
    ASSUME UVTypeOK, OpenSorted, NEW s \in Nat
    PROVE  \A i \in 1..Len(open) : IF i <= Above(s) THEN loc[open[i]] > s
                                   ELSE loc[open[i]] <= s
<1>1. open \in Seq(Up) /\ loc \in [Up -> 0..StackMax] /\ StackMax \in Nat /\ Len(open) \in Nat
  BY UpvaluesConstants, LenProperties DEF UVTypeOK
<1>2. /\ Above(s) \in 0..Len(open)
      /\ \A i \in 1..Above(s) : loc[open[i]] > s
      /\ Above(s) < Len(open) => ~ loc[open[Above(s) + 1]] > s
  BY <1>1, AboveStops
<1> SUFFICES ASSUME NEW i \in 1..Len(open)
             PROVE  IF i <= Above(s) THEN loc[open[i]] > s ELSE loc[open[i]] <= s
  OBVIOUS
<1>3. CASE i <= Above(s)
  BY <1>2, <1>3
<1>4. CASE ~ (i <= Above(s))
  <2> DEFINE k == Above(s) + 1
  <2>1. k \in 1..Len(open) /\ k <= i /\ ~ loc[open[k]] > s
    BY <1>1, <1>2, <1>4
  <2>2. loc[open[k]] \in Nat /\ loc[open[i]] \in Nat
    BY <1>1, <2>1, ElementOfSeq
  <2>3. k = i \/ loc[open[k]] > loc[open[i]]
    BY <2>1 DEF OpenSorted
  <2> QED
    BY <1>4, <2>1, <2>2, <2>3
<1> QED
  BY <1>3, <1>4

\* A slot has one upvalue in the list at most.
LEMMA OneEach ==
    ASSUME UVTypeOK, OpenSorted, NEW x \in ToSet(open), NEW y \in ToSet(open), loc[x] = loc[y]
    PROVE  x = y
<1>1. open \in Seq(Up) /\ loc \in [Up -> 0..StackMax] /\ StackMax \in Nat /\ Len(open) \in Nat
      /\ DOMAIN open = 1..Len(open)
  BY UpvaluesConstants, LenProperties DEF UVTypeOK
<1>2. PICK i \in 1..Len(open), j \in 1..Len(open) : x = open[i] /\ y = open[j]
  BY <1>1 DEF ToSet
<1>3. loc[x] \in Nat
  BY <1>1, <1>2, ElementOfSeq
<1>4. ~ i < j /\ ~ j < i
  BY <1>2, <1>3 DEF OpenSorted
<1> QED
  BY <1>2, <1>4

-----------------------------------------------------------------------------
(* What the invariant says of a state. *)

\* The sets the variables are functions on.
LEMMA Shapes ==
    ASSUME UVTypeOK
    PROVE  /\ StackMax \in Nat \ {0} /\ FramesMax \in Nat \ {0} /\ CountMax \in Nat
           /\ Nothing \notin Up /\ Nothing \notin Closure /\ Nothing \notin Seq(Up)
           /\ Len(open) \in Nat /\ DOMAIN open = 1..Len(open)
           /\ \A i \in 1..Len(open) : open[i] \in Up
           /\ ToSet(open) = { open[i] : i \in 1..Len(open) }
           /\ ToSet(open) \subseteq Up
           /\ Len(frames) \in Nat
           /\ \A i \in 1..Len(frames) :
                  frames[i] \in [base : Slot, closure : Closure \cup {Nothing}]
           /\ \A u \in Up : loc[u] \in 0..StackMax
<1>1. open \in Seq(Up) /\ frames \in Seq([base : Slot, closure : Closure \cup {Nothing}])
  BY DEF UVTypeOK
<1>2. Len(open) \in Nat /\ DOMAIN open = 1..Len(open) /\ Len(frames) \in Nat
  BY <1>1, LenProperties
<1>3. \A i \in 1..Len(open) : open[i] \in Up
  BY <1>1, ElementOfSeq
<1>4. \A i \in 1..Len(frames) : frames[i] \in [base : Slot, closure : Closure \cup {Nothing}]
  BY <1>1, ElementOfSeq
<1> QED
  BY <1>2, <1>3, <1>4, UpvaluesConstants DEF ToSet, UVTypeOK

\* The frame that runs is one of vm.frames.
LEMMA Running ==
    ASSUME UVTypeOK, Places
    PROVE  /\ Len(frames) \in 1..FramesMax
           /\ Frame = frames[Len(frames)]
           /\ Frame.base \in Slot /\ Frame.closure \in Closure \cup {Nothing}
<1>1. frames \in Seq([base : Slot, closure : Closure \cup {Nothing}]) /\ Len(frames) <= FramesMax
  BY DEF UVTypeOK
<1>2. Len(frames) \in Nat \ {0}
  BY <1>1, EmptySeq DEF Places
<1> QED
  BY <1>1, <1>2, Shapes DEF Frame, Last

\* What an upvalue that is open and not stale, or a captured variable, has
\* to do with the stack.
LEMMA Owned ==
    ASSUME UVInv, ~ lost
    PROVE  /\ \A u \in Up : loc[u] # 0 => u \in ToSet(open) /\ loc[u] \in 2..StackMax
           /\ \A u \in Up \ stale : loc[u] # 0 =>
                  loc[u] \in 2..top /\ loc[u] \in Slot /\ owner[loc[u]] = u
           /\ \A s \in Slot : owner[s] # Nothing =>
                  /\ s <= top /\ owner[s] \in ToSet(open) /\ owner[s] \in Up
                  /\ loc[owner[s]] = s
<1>1. ASSUME NEW u \in Up, loc[u] # 0
      PROVE  u \in ToSet(open) /\ loc[u] \in 2..StackMax /\ loc[u] \in Slot
  <2>1. u \in ToSet(open)
    BY <1>1 DEF UVInv, Listed
  <2>2. PICK i \in 1..Len(open) : u = open[i]
    BY <2>1, Shapes DEF UVInv
  <2> QED
    BY <2>1, <2>2, Shapes DEF UVInv, Places, Slot
<1>2. \A u \in ToSet(open) \ stale : loc[u] <= top /\ owner[loc[u]] = u
  BY DEF UVInv, OneUpvalue
<1>3. top \in 0..StackMax
  BY DEF UVInv, UVTypeOK
<1> QED
  BY <1>1, <1>2, <1>3, Shapes DEF UVInv, OneUpvalue, Places

-----------------------------------------------------------------------------
LEMMA UVInitInv == UVInit => UVInv
<1> SUFFICES ASSUME UVInit  PROVE UVInv
  OBVIOUS
<1>1. Len(<<Script>>) = 1 /\ <<Script>>[1] = Script /\ Script.closure = Nothing
      /\ <<Script>> # <<>> /\ Script \in [base : Slot, closure : Closure \cup {Nothing}]
  BY UpvaluesConstants DEF Script, Slot
<1>2. <<>> \in Seq(Up) /\ Len(<<>>) = 0 /\ ToSet(<<>>) = {}
  BY EmptySeq DEF ToSet
<1>3. UVTypeOK
  <2>1. mem \in [Slot -> Val] /\ closed \in [Up -> Val] /\ truth \in [Up -> Val]
    BY DEF UVInit
  <2>2. top \in 0..StackMax /\ loc \in [Up -> 0..StackMax]
    BY UpvaluesConstants DEF UVInit
  <2>3. frames \in Seq([base : Slot, closure : Closure \cup {Nothing}]) /\ Len(frames) <= FramesMax
    BY <1>1, UpvaluesConstants DEF UVInit
  <2>4. /\ upvalues \in [Closure -> Seq(Up) \cup {Nothing}] /\ filling \in Closure \cup {Nothing}
        /\ owner \in [Slot -> Up \cup {Nothing}] /\ stale \subseteq Up /\ lost \in BOOLEAN
    BY DEF UVInit
  <2> QED
    BY <1>2, <2>1, <2>2, <2>3, <2>4 DEF UVTypeOK, UVInit
<1>4. Places /\ Filling
  BY <1>1, <1>2 DEF UVInit, Places, Filling
<1>5. Listed /\ OpenSorted
  BY <1>2 DEF UVInit, Listed, OpenSorted
<1>6. OneUpvalue
  BY <1>2 DEF UVInit, OneUpvalue
<1>7. Shares
  <2>1. Used = {}
    BY <1>2 DEF UVInit, Used, Made
  <2> QED
    BY <2>1 DEF Shares
<1> QED
  BY <1>3, <1>4, <1>5, <1>6, <1>7 DEF UVInv

-----------------------------------------------------------------------------
(* Steps that leave the list alone. *)

\* The elements of a sequence belong to what it is a sequence of.
LEMMA InSeq == ASSUME NEW S, NEW s \in Seq(S)
               PROVE  ToSet(s) = { s[i] : i \in 1..Len(s) } /\ ToSet(s) \subseteq S
<1>1. DOMAIN s = 1..Len(s) /\ \A i \in 1..Len(s) : s[i] \in S
  BY LenProperties, ElementOfSeq
<1> QED
  BY <1>1 DEF ToSet

LEMMA UsedUp == ASSUME UVTypeOK  PROVE Used \subseteq Up
<1>1. \A f \in Made : ToSet(upvalues[f]) \subseteq Up
  BY InSeq DEF UVTypeOK, Made
<1> QED
  BY <1>1, Shapes DEF Used

\* Variables stay where they are.
LEMMA ListKept ==
    ASSUME UVInv, UNCHANGED <<open, loc, owner, stale, lost>>,
           \A s \in Slot : owner[s] # Nothing => s <= top'
    PROVE  /\ Listed' /\ OpenSorted' /\ OneUpvalue'
           /\ \A i \in 1..Len(open') : loc'[open'[i]] >= 2
           /\ \A s \in Slot : owner'[s] # Nothing => s <= top'
<1>1. Listed' /\ OpenSorted' /\ \A i \in 1..Len(open') : loc'[open'[i]] >= 2
  BY DEF UVInv, Listed, OpenSorted, Places
<1>2. OneUpvalue'
  <2> SUFFICES ASSUME ~ lost  PROVE OneUpvalue'
    BY DEF OneUpvalue
  <2>1. ASSUME NEW u \in ToSet(open) \ stale
        PROVE  loc[u] <= top' /\ owner[loc[u]] = u
    <3>1. u \in Up /\ loc[u] # 0
      BY <2>1, Shapes DEF UVInv, Places
    <3>2. loc[u] \in Slot /\ owner[loc[u]] = u
      BY <2>1, <3>1, Owned
    <3> QED
      BY <3>1, <3>2, UpvaluesConstants
  <2>2. \A s \in Slot : owner[s] # Nothing => owner[s] \in ToSet(open) /\ loc[owner[s]] = s
    BY Owned
  <2> QED
    BY <2>1, <2>2 DEF OneUpvalue
<1> QED
  BY <1>1, <1>2

\* What no variable that is shared stands for may be written.
LEMMA SharesKept ==
    ASSUME UVInv, UNCHANGED <<loc, closed, truth, stale, lost>>, Used' \subseteq Used,
           \A s \in 2..top : mem'[s] = mem[s]
    PROVE  Shares'
<1> SUFFICES ASSUME ~ lost, NEW u \in Used' \ stale
             PROVE  Deref(u)' = truth'[u]
  BY DEF Shares
<1>1. u \in Up \ stale /\ Deref(u) = truth[u]
  BY UsedUp DEF Shares, UVInv
<1>2. CASE loc[u] = 0
  BY <1>1, <1>2 DEF Deref
<1>3. CASE loc[u] # 0
  BY <1>1, <1>3, Owned DEF Deref
<1> QED
  BY <1>2, <1>3

LEMMA PushInv == ASSUME UVInv, NEW v \in Val, Push(v)  PROVE UVInv'
<1>1. top \in 1..StackMax /\ top' = top + 1 /\ top' \in 1..StackMax /\ top + 1 \in Slot
  BY UpvaluesConstants DEF UVInv, UVTypeOK, Places, Push, Slot
<1>2. UVTypeOK'
  BY <1>1 DEF UVInv, UVTypeOK, Push, history
<1>3. Listed' /\ OpenSorted' /\ OneUpvalue' /\ Places'
  <2>1. UNCHANGED <<open, loc, owner, stale, lost, frames>>
    BY DEF Push, history
  <2>2. \A s \in Slot : owner[s] # Nothing => s <= top'
    BY <1>1, UpvaluesConstants DEF UVInv, Places, Slot
  <2> QED
    BY <1>1, <2>1, <2>2, ListKept DEF UVInv, Places
<1>4. Filling'
  BY DEF UVInv, Filling, Push
<1>5. Shares'
  <2>1. \A s \in 2..top : mem'[s] = mem[s]
    BY <1>1 DEF Push, UVInv, UVTypeOK, Slot
  <2>2. Used' = Used
    BY DEF Push, Used, Made
  <2> QED
    BY <2>1, <2>2, SharesKept DEF Push, history
<1> QED
  BY <1>2, <1>3, <1>4, <1>5 DEF UVInv

LEMMA PopInv == ASSUME UVInv, Pop  PROVE UVInv'
<1>1. top \in 2..StackMax /\ top' = top - 1 /\ top' \in 1..StackMax /\ top \in Slot
  BY UpvaluesConstants, Running DEF UVInv, UVTypeOK, Pop, Slot
<1>2. UVTypeOK'
  BY <1>1 DEF UVInv, UVTypeOK, Pop, history
<1>3. Listed' /\ OpenSorted' /\ OneUpvalue' /\ Places'
  <2>1. UNCHANGED <<open, loc, owner, stale, lost, frames>>
    BY DEF Pop, history
  <2>2. \A s \in Slot : owner[s] # Nothing => s <= top'
    BY <1>1, UpvaluesConstants DEF UVInv, Places, Slot, Pop
  <2> QED
    BY <1>1, <2>1, <2>2, ListKept DEF UVInv, Places
<1>4. Filling'
  BY DEF UVInv, Filling, Pop
<1>5. Shares'
  BY SharesKept DEF Pop, history, Used, Made
<1> QED
  BY <1>2, <1>3, <1>4, <1>5 DEF UVInv

LEMMA SetLocalInv == ASSUME UVInv, NEW s \in Slot, SetLocal(s)  PROVE UVInv'
<1>1. top \in 2..StackMax /\ s \in 2..top /\ mem[top] \in Val
  BY UpvaluesConstants, Running DEF UVInv, UVTypeOK, SetLocal, Slot, Local
<1>2. UVTypeOK'
  BY <1>1 DEF UVInv, UVTypeOK, SetLocal
<1>3. Listed' /\ OpenSorted' /\ OneUpvalue' /\ Places'
  BY ListKept DEF UVInv, Places, SetLocal
<1>4. Filling'
  BY DEF UVInv, Filling, SetLocal
<1>5. Shares'
  <2> SUFFICES ASSUME ~ lost, NEW u \in Used \ stale
               PROVE  Deref(u)' = truth'[u]
    BY DEF Shares, SetLocal, Used, Made
  <2>1. u \in Up \ stale /\ Deref(u) = truth[u]
    BY UsedUp DEF Shares, UVInv
  <2>2. mem \in [Slot -> Val] /\ truth \in [Up -> Val]
    BY DEF UVInv, UVTypeOK
  <2>3. CASE owner[s] = u
    BY <1>1, <2>1, <2>2, <2>3, Owned, UpvaluesConstants DEF SetLocal, Deref
  <2>4. CASE owner[s] # u
    <3>1. truth'[u] = truth[u] /\ loc[u] # s
      BY <1>1, <2>1, <2>2, <2>4, Owned DEF SetLocal
    <3> QED
      BY <1>1, <2>1, <2>2, <3>1, Owned DEF SetLocal, Deref
  <2> QED
    BY <2>3, <2>4
<1> QED
  BY <1>2, <1>3, <1>4, <1>5 DEF UVInv

LEMMA SetUpvalueInv == ASSUME UVInv, NEW u \in Up, SetUpvalue(u)  PROVE UVInv'
<1>1. top \in Slot /\ mem[top] \in Val
  BY UpvaluesConstants DEF UVInv, UVTypeOK, Places, Slot
<1>2. UVTypeOK'
  BY <1>1 DEF UVInv, UVTypeOK, SetUpvalue
<1>3. Listed' /\ OpenSorted' /\ OneUpvalue' /\ Places'
  BY ListKept DEF UVInv, Places, SetUpvalue
<1>4. Filling'
  BY DEF UVInv, Filling, SetUpvalue
<1>5. Shares'
  <2> SUFFICES ASSUME ~ lost, NEW x \in Used \ stale
               PROVE  Deref(x)' = truth'[x]
    BY DEF Shares, SetUpvalue, Used, Made
  <2>1. x \in Up /\ Deref(x) = truth[x]
    BY UsedUp DEF Shares, UVInv
  <2>2. /\ mem \in [Slot -> Val] /\ truth \in [Up -> Val] /\ closed \in [Up -> Val]
        /\ loc[u] # 0 => loc[u] \in Slot
    BY Owned, UpvaluesConstants DEF UVInv, UVTypeOK, Slot
  <2>3. CASE x = u
    BY <2>2, <2>3 DEF SetUpvalue, Deref
  <2>4. CASE x # u
    <3>1. loc[x] # 0 => loc[x] # loc[u]
      BY <2>1, <2>4, Owned, OneEach DEF UVInv
    <3> QED
      BY <2>1, <2>2, <2>4, <3>1, Owned, UpvaluesConstants DEF SetUpvalue, Deref
  <2> QED
    BY <2>3, <2>4
<1> QED
  BY <1>2, <1>3, <1>4, <1>5 DEF UVInv

LEMMA NewClosureInv == ASSUME UVInv, NEW f \in Closure, NewClosure(f)  PROVE UVInv'
<1>1. top \in 1..StackMax /\ top' = top + 1 /\ top' \in 1..StackMax /\ top + 1 \in Slot
  BY UpvaluesConstants DEF UVInv, UVTypeOK, Places, NewClosure, Slot
<1>2. <<>> \in Seq(Up) /\ ToSet(<<>>) = {}
  BY EmptySeq DEF ToSet
<1>3. UVTypeOK'
  BY <1>1, <1>2 DEF UVInv, UVTypeOK, NewClosure, history
<1>4. Listed' /\ OpenSorted' /\ OneUpvalue' /\ Places'
  <2>1. UNCHANGED <<open, loc, owner, stale, lost, frames>>
    BY DEF NewClosure, history
  <2>2. \A s \in Slot : owner[s] # Nothing => s <= top'
    BY <1>1, UpvaluesConstants DEF UVInv, Places, Slot
  <2> QED
    BY <1>1, <2>1, <2>2, ListKept DEF UVInv, Places
<1>5. \A c \in Closure : upvalues'[c] = IF c = f THEN <<>> ELSE upvalues[c]
  BY DEF UVInv, UVTypeOK, NewClosure
<1>6. Filling'
  <2>1. \A i \in 1..Len(frames) : frames[i].closure \in Closure \cup {Nothing}
    BY Shapes DEF UVInv
  <2> QED
    BY <1>2, <1>5, <2>1, Shapes DEF UVInv, Filling, NewClosure
<1>7. Shares'
  <2>1. \A s \in 2..top : mem'[s] = mem[s]
    BY <1>1 DEF NewClosure, UVInv, UVTypeOK, Slot
  <2>2. Used' \subseteq Used
    BY <1>2, <1>5 DEF NewClosure, Used, Made
  <2> QED
    BY <2>1, <2>2, SharesKept DEF NewClosure, history
<1> QED
  BY <1>3, <1>4, <1>6, <1>7 DEF UVInv

\* One upvalue more in the closure that OP_CLOSURE is at work on.
LEMMA UpvalueAdded ==
    ASSUME UVInv, NEW u \in Up, AddUpvalue(u)
    PROVE  /\ upvalues' \in [Closure -> Seq(Up) \cup {Nothing}]
           /\ Made' = Made
           /\ \A f \in Made : ToSet(upvalues'[f]) \subseteq ToSet(upvalues[f]) \cup {u}
           /\ Filling'
<1>1. filling \in Closure /\ upvalues[filling] \in Seq(Up)
  BY DEF UVInv, UVTypeOK, Filling, AddUpvalue
<1> DEFINE longer == Append(upvalues[filling], u)
<1>2. /\ longer \in Seq(Up)
      /\ Len(longer) = Len(upvalues[filling]) + 1
      /\ \A i \in 1..Len(upvalues[filling]) : longer[i] = upvalues[filling][i]
      /\ longer[Len(upvalues[filling]) + 1] = u
  BY <1>1, AppendProperties
<1>3. ToSet(longer) \subseteq ToSet(upvalues[filling]) \cup {u}
  <2>1. Len(upvalues[filling]) \in Nat
    BY <1>1, LenProperties
  <2>2. ToSet(longer) = { longer[i] : i \in 1..Len(longer) }
    BY <1>2, InSeq
  <2>3. ToSet(upvalues[filling]) = { upvalues[filling][i] : i \in 1..Len(upvalues[filling]) }
    BY <1>1, InSeq
  <2> QED
    BY <1>2, <2>1, <2>2, <2>3
<1>4. \A f \in Closure : upvalues'[f] = IF f = filling THEN longer ELSE upvalues[f]
  BY DEF UVInv, UVTypeOK, AddUpvalue
<1>5. longer # Nothing /\ upvalues[filling] # Nothing
  BY <1>1, <1>2, Shapes DEF UVInv
<1>6. upvalues' \in [Closure -> Seq(Up) \cup {Nothing}]
  BY <1>1, <1>2 DEF UVInv, UVTypeOK, AddUpvalue
<1>7. Made' = Made
  BY <1>4, <1>5 DEF Made
<1>8. Filling'
  <2>1. \A i \in 1..Len(frames) : frames[i].closure \in Closure \cup {Nothing}
    BY Shapes DEF UVInv
  <2> QED
    BY <1>1, <1>4, <1>5, <2>1 DEF UVInv, Filling, AddUpvalue
<1>9. \A f \in Made : ToSet(upvalues'[f]) \subseteq ToSet(upvalues[f]) \cup {u}
  <2> SUFFICES ASSUME NEW f \in Made
               PROVE  ToSet(upvalues'[f]) \subseteq ToSet(upvalues[f]) \cup {u}
    OBVIOUS
  <2>1. upvalues'[f] = IF f = filling THEN longer ELSE upvalues[f]
    BY <1>4 DEF Made
  <2> QED
    BY <1>3, <2>1
<1> QED
  BY <1>6, <1>7, <1>8, <1>9

LEMMA CopyUpvalueInv == ASSUME UVInv, NEW u \in Up, CopyUpvalue(u)  PROVE UVInv'
<1>1. /\ upvalues' \in [Closure -> Seq(Up) \cup {Nothing}]
      /\ Made' = Made
      /\ \A f \in Made : ToSet(upvalues'[f]) \subseteq ToSet(upvalues[f]) \cup {u}
      /\ Filling'
  BY UpvalueAdded DEF CopyUpvalue
<1>2. UVTypeOK'
  BY <1>1 DEF UVInv, UVTypeOK, CopyUpvalue, AddUpvalue, history
<1>3. Listed' /\ OpenSorted' /\ OneUpvalue' /\ Places'
  BY ListKept DEF UVInv, Places, CopyUpvalue, AddUpvalue, history
<1>4. Shares'
  <2>1. u \in Used
    <3>1. Frame.closure \in Made /\ u \in ToSet(upvalues[Frame.closure])
      BY Running DEF UVInv, Filling, CopyUpvalue, Named, Made
    <3> QED
      BY <3>1 DEF Used
  <2>2. Used' \subseteq Used
    BY <1>1, <2>1 DEF Used, CopyUpvalue
  <2> QED
    BY <2>2, SharesKept DEF CopyUpvalue, AddUpvalue, history
<1> QED
  BY <1>1, <1>2, <1>3, <1>4 DEF UVInv

LEMMA EndClosureInv == ASSUME UVInv, EndClosure  PROVE UVInv'
<1>1. UVTypeOK' /\ Filling'
  BY Shapes DEF UVInv, UVTypeOK, Filling, EndClosure, history
<1>2. Listed' /\ OpenSorted' /\ OneUpvalue' /\ Places'
  BY ListKept DEF UVInv, Places, EndClosure, history
<1>3. Shares'
  BY SharesKept DEF EndClosure, history, Used, Made
<1> QED
  BY <1>1, <1>2, <1>3 DEF UVInv

LEMMA CallInv ==
    ASSUME UVInv, NEW f \in Closure, NEW args \in 0..StackMax, Call(f, args)
    PROVE  UVInv'
<1> DEFINE R == [base : Slot, closure : Closure \cup {Nothing}]
           new == [base |-> top - args, closure |-> f]
<1>1. top - args \in Slot
  BY UpvaluesConstants, Running DEF UVInv, UVTypeOK, Call, Slot
<1>2. new \in R /\ frames \in Seq(R)
  BY <1>1 DEF UVInv, UVTypeOK
<1> HIDE DEF R, new
<1>3. /\ frames' = Append(frames, new) /\ frames' \in Seq(R) /\ frames' # <<>>
      /\ Len(frames') = Len(frames) + 1
      /\ \A i \in 1..Len(frames) : frames'[i] = frames[i]
      /\ frames'[Len(frames) + 1] = new
  BY <1>2, AppendProperties DEF Call, new
<1>4. UVTypeOK'
  <2>1. Len(frames') <= FramesMax
    BY <1>3, UpvaluesConstants, Shapes DEF UVInv, Call
  <2> QED
    BY <1>3, <2>1 DEF UVInv, UVTypeOK, Call, history, R
<1>5. Listed' /\ OpenSorted' /\ OneUpvalue' /\ Places'
  BY <1>3, ListKept DEF UVInv, Places, Call, history
<1>6. Filling'
  <2>1. Len(frames) \in Nat
    BY Shapes DEF UVInv
  <2> QED
    BY <1>3, <2>1 DEF UVInv, Filling, Call, new
<1>7. Shares'
  BY SharesKept DEF Call, history, Used, Made
<1> QED
  BY <1>4, <1>5, <1>6, <1>7 DEF UVInv

LEMMA NextLineInv == ASSUME UVInv, NextLine  PROVE UVInv'
<1>1. UVTypeOK' /\ Filling'
  BY DEF UVInv, UVTypeOK, Filling, NextLine, history
<1>2. Listed' /\ OpenSorted' /\ OneUpvalue' /\ Places'
  BY ListKept DEF UVInv, Places, NextLine, history
<1>3. Shares'
  <2>1. \A s \in 2..top : mem'[s] = mem[s]
    BY DEF NextLine
  <2> QED
    BY <2>1, SharesKept DEF NextLine, history, Used, Made
<1> QED
  BY <1>1, <1>2, <1>3 DEF UVInv

LEMMA ErrorInv == ASSUME UVInv, Error  PROVE UVInv'
<1>1. Len(<<Script>>) = 1 /\ <<Script>>[1] = Script /\ Script.closure = Nothing
      /\ <<Script>> # <<>> /\ Script \in [base : Slot, closure : Closure \cup {Nothing}]
  BY UpvaluesConstants DEF Script, Slot
<1>2. <<>> \in Seq(Up) /\ Len(<<>>) = 0 /\ ToSet(<<>>) = {}
  BY EmptySeq DEF ToSet
<1>3. UVTypeOK'
  <2>1. mem' \in [Slot -> Val] /\ top' \in 0..StackMax
    <3>1. PICK v \in Val : mem' = [mem EXCEPT ![1] = v]
      BY DEF Error
    <3>2. mem \in [Slot -> Val] /\ 1 \in 0..StackMax /\ top' = 1
      BY UpvaluesConstants DEF UVInv, UVTypeOK, Error
    <3> QED
      BY <3>1, <3>2
  <2>2. frames' \in Seq([base : Slot, closure : Closure \cup {Nothing}]) /\ Len(frames') <= FramesMax
    BY <1>1, UpvaluesConstants DEF Error
  <2>3. open' \in Seq(Up) /\ owner' \in [Slot -> Up \cup {Nothing}]
    BY <1>2 DEF Error
  <2>4. lost' \in BOOLEAN
    BY DEF UVInv, UVTypeOK, Error
  <2> QED
    BY <2>1, <2>2, <2>3, <2>4 DEF UVInv, UVTypeOK, Error
<1>4. Places' /\ Filling' /\ OpenSorted'
  BY <1>1, <1>2 DEF UVInv, Filling, Error, Places, OpenSorted
<1>5. \A u \in Up : ~ lost' => loc[u] = 0
  <2> SUFFICES ASSUME NEW u \in Up, ~ lost', loc[u] # 0  PROVE FALSE
    OBVIOUS
  <2>1. ~ lost /\ open = <<>>
    BY DEF Error
  <2> QED
    BY <1>2, <2>1 DEF UVInv, Listed
<1>6. Listed' /\ OneUpvalue'
  BY <1>2, <1>5 DEF Listed, OneUpvalue, Error
<1>7. Shares'
  <2> SUFFICES ASSUME ~ lost', NEW u \in Used' \ stale
               PROVE  Deref(u)' = truth'[u]
    BY DEF Shares, Error
  <2>1. u \in Used
    BY <1>2 DEF Used, Made, Error
  <2>2. u \in Up /\ Deref(u) = truth[u]
    BY <2>1, UsedUp DEF UVInv, Shares, Error
  <2> QED
    BY <1>5, <2>2 DEF Deref, Error
<1> QED
  BY <1>3, <1>4, <1>6, <1>7 DEF UVInv

-----------------------------------------------------------------------------
(* OP_RETURN: the slots of the frame and what they own. *)

\* closeUpvalues(s) takes the upvalues of the slots from s on.
LEMMA ClosingAbove ==
    ASSUME UVInv, NEW s \in Slot
    PROVE  \A u \in ToSet(open) : u \in Closing(s) <=> loc[u] >= s
<1>1. s - 1 \in Nat /\ s \in Nat
  BY UpvaluesConstants DEF UVInv, Slot
<1>2. /\ Above(s - 1) \in 0..Len(open) /\ Len(open) \in Nat
      /\ \A i \in 1..Len(open) : IF i <= Above(s - 1) THEN loc[open[i]] > s - 1
                                 ELSE loc[open[i]] <= s - 1
  BY <1>1, AboveSplits, AboveStops, Shapes DEF UVInv, UVTypeOK
<1> SUFFICES ASSUME NEW u \in ToSet(open)
             PROVE  u \in Closing(s) <=> loc[u] >= s
  OBVIOUS
<1>3. PICK i \in 1..Len(open) : u = open[i]
  BY Shapes DEF UVInv
<1>4. loc[u] \in Nat
  BY Shapes DEF UVInv
<1>5. ASSUME u \in Closing(s)  PROVE loc[u] >= s
  <2>1. PICK j \in 1..Above(s - 1) : u = open[j]
    BY <1>5 DEF Closing
  <2>2. loc[open[j]] > s - 1
    BY <1>2, <2>1
  <2> QED
    BY <1>1, <1>4, <2>1, <2>2
<1>6. ASSUME loc[u] >= s  PROVE u \in Closing(s)
  <2>1. i <= Above(s - 1)
    BY <1>1, <1>2, <1>3, <1>4, <1>6
  <2> QED
    BY <1>3, <2>1, <1>2 DEF Closing
<1> QED
  BY <1>5, <1>6

LEMMA ReturnInv == ASSUME UVInv, Return  PROVE UVInv'
<1> DEFINE R == [base : Slot, closure : Closure \cup {Nothing}]
           b == Frame.base
<1>1. /\ b \in Slot /\ top \in Slot /\ b \in 1..StackMax
      /\ Len(frames) \in Nat /\ Len(frames) > 1 /\ Len(frames) <= FramesMax
  BY UpvaluesConstants, Running DEF UVInv, UVTypeOK, Return, Slot
<1>2. frames \in Seq(R) /\ \A i \in 1..Len(frames) : frames[i] \in R
  BY Shapes DEF UVInv, UVTypeOK
<1> HIDE DEF R
<1>3. /\ frames' \in Seq(R)
      /\ Len(frames') = Len(frames) - 1
      /\ \A i \in 1..Len(frames) - 1 : frames'[i] = frames[i]
  <2>1. /\ SubSeq(frames, 1, Len(frames) - 1) \in Seq(R)
        /\ Len(SubSeq(frames, 1, Len(frames) - 1)) = Len(frames) - 1
        /\ \A i \in 1..Len(frames) - 1 :
               SubSeq(frames, 1, Len(frames) - 1)[i] = frames[i]
    BY <1>1, <1>2, SubSeqProperties
  <2> QED
    BY <2>1 DEF Return, Front
<1>4. frames' # <<>>
  BY <1>1, <1>3, EmptySeq
<1>5. \A u \in ToSet(open) : u \in Closing(b) <=> loc[u] >= b
  BY <1>1, ClosingAbove
<1>6. Closing(b) \subseteq Up
  <2>1. Above(b - 1) \in 0..Len(open)
    BY AboveStops DEF UVInv, UVTypeOK
  <2> QED
    BY <2>1, Shapes DEF Closing, UVInv
<1> HIDE DEF b
<1>7. /\ mem' = [mem EXCEPT ![b] = mem[top]] /\ top' = b
      /\ owner' = [s \in Slot |-> IF s >= b THEN Nothing ELSE owner[s]]
      /\ stale' = stale \cup Closing(b)
      /\ UNCHANGED <<open, loc, closed, upvalues, filling, truth, lost>>
  BY DEF Return, b
<1>8. UVTypeOK'
  <2>1. mem' \in [Slot -> Val] /\ top' \in 0..StackMax
    BY <1>1, <1>7 DEF UVInv, UVTypeOK
  <2>2. frames' \in Seq(R) /\ Len(frames') <= FramesMax
    BY <1>1, <1>3, UpvaluesConstants
  <2>3. owner' \in [Slot -> Up \cup {Nothing}] /\ stale' \subseteq Up
    BY <1>6, <1>7 DEF UVInv, UVTypeOK
  <2> QED
    BY <1>7, <2>1, <2>2, <2>3 DEF UVInv, UVTypeOK, R
<1>9. Places'
  <2>1. \A s \in Slot : owner'[s] # Nothing => s <= top'
    BY <1>1, <1>7, UpvaluesConstants DEF Slot
  <2> QED
    BY <1>1, <1>4, <1>7, <2>1 DEF UVInv, Places
<1>10. Filling'
  BY <1>1, <1>3, <1>7 DEF UVInv, Filling
<1>11. Listed' /\ OpenSorted'
  BY <1>7 DEF UVInv, Listed, OpenSorted
<1>12. OneUpvalue'
  <2> SUFFICES ASSUME ~ lost  PROVE OneUpvalue'
    BY <1>7 DEF OneUpvalue
  <2>1. ASSUME NEW u \in ToSet(open) \ stale'
        PROVE  loc[u] <= b /\ owner'[loc[u]] = u
    <3>1. u \in ToSet(open) \ stale /\ u \in Up /\ ~ loc[u] >= b
      BY <1>5, <1>7, <2>1, Shapes DEF UVInv
    <3>2. loc[u] \in Slot /\ owner[loc[u]] = u
      <4>1. loc[u] # 0
        BY <3>1, Shapes DEF UVInv, Places
      <4> QED
        BY <3>1, <4>1, Owned
    <3> QED
      BY <1>1, <1>7, <3>1, <3>2, UpvaluesConstants DEF Slot
  <2>2. ASSUME NEW s \in Slot, owner'[s] # Nothing
        PROVE  owner'[s] \in ToSet(open) /\ loc[owner'[s]] = s
    BY <1>7, <2>2, Owned
  <2> QED
    BY <1>7, <2>1, <2>2 DEF OneUpvalue
<1>13. Shares'
  <2> SUFFICES ASSUME ~ lost, NEW u \in Used \ stale'
               PROVE  Deref(u)' = truth[u]
    BY <1>7 DEF Shares, Used, Made
  <2>1. u \in Up \ stale /\ Deref(u) = truth[u]
    BY <1>7, UsedUp DEF Shares, UVInv
  <2>2. loc[u] # 0 => loc[u] # b
    BY <1>1, <1>5, <1>7, <2>1, Owned, UpvaluesConstants DEF Slot
  <2>3. loc[u] # 0 => mem'[loc[u]] = mem[loc[u]]
    BY <1>7, <2>1, <2>2, Owned DEF UVInv, UVTypeOK
  <2> QED
    BY <1>7, <2>1, <2>3 DEF Deref
<1> QED
  BY <1>8, <1>9, <1>10, <1>11, <1>12, <1>13 DEF UVInv

-----------------------------------------------------------------------------
(* OP_CLOSE_UPVALUE *)

\* What closeUpvalues leaves in the list.
Rest(s) == SubSeq(open, Above(s - 1) + 1, Len(open))

\* It is in the order it had and has no upvalue of a slot from s on.
LEMMA Closed ==
    ASSUME UVInv, NEW s \in Slot
    PROVE  /\ Rest(s) \in Seq(Up) /\ Len(Rest(s)) = Len(open) - Above(s - 1)
           /\ Above(s - 1) \in 0..Len(open)
           /\ \A i \in 1..Len(Rest(s)) :
                  /\ Rest(s)[i] = open[Above(s - 1) + i] /\ Above(s - 1) + i \in 1..Len(open)
                  /\ Rest(s)[i] \notin Closing(s) /\ loc[Rest(s)[i]] < s
           /\ \A u \in Up : u \in ToSet(Rest(s)) <=> u \in ToSet(open) /\ u \notin Closing(s)
<1> DEFINE k == Above(s - 1)
<1>1. /\ k \in 0..Len(open) /\ Len(open) \in Nat /\ open \in Seq(Up)
      /\ \A i \in 1..Len(open) : open[i] \in Up /\ loc[open[i]] \in Nat
  BY AboveStops, Shapes DEF UVInv, UVTypeOK
<1> HIDE DEF k
<1>2. /\ Rest(s) \in Seq(Up) /\ Len(Rest(s)) = Len(open) - k
      /\ \A i \in 1..Len(open) - k : Rest(s)[i] = open[k + i]
  <2>1. /\ SubSeq(open, k + 1, Len(open)) \in Seq(Up)
        /\ Len(SubSeq(open, k + 1, Len(open))) =
               IF k + 1 <= Len(open) THEN Len(open) - (k + 1) + 1 ELSE 0
        /\ \A i \in 1..Len(open) - (k + 1) + 1 :
               SubSeq(open, k + 1, Len(open))[i] = open[(k + 1) + i - 1]
    BY <1>1, SubSeqProperties
  <2> QED
    BY <1>1, <2>1 DEF k, Rest
<1>3. \A i \in 1..Len(open) : IF i <= k THEN loc[open[i]] > s - 1 ELSE loc[open[i]] <= s - 1
  <2>1. s - 1 \in Nat
    BY UpvaluesConstants DEF Slot
  <2> QED
    BY <2>1, AboveSplits DEF UVInv, k
<1>4. \A u \in ToSet(open) : u \in Closing(s) <=> loc[u] >= s
  BY ClosingAbove
<1>5. ASSUME NEW i \in 1..Len(Rest(s))
      PROVE  /\ Rest(s)[i] = open[k + i] /\ k + i \in 1..Len(open)
             /\ Rest(s)[i] \notin Closing(s) /\ loc[Rest(s)[i]] < s
  <2>1. Rest(s)[i] = open[k + i] /\ k + i \in 1..Len(open) /\ ~ (k + i <= k)
    BY <1>1, <1>2, <1>5
  <2>2. loc[Rest(s)[i]] < s /\ ~ loc[Rest(s)[i]] >= s
    <3>1. loc[Rest(s)[i]] <= s - 1 /\ loc[Rest(s)[i]] \in Nat
      BY <1>1, <1>3, <2>1
    <3>2. s \in Nat
      BY UpvaluesConstants DEF Slot
    <3> QED
      BY <3>1, <3>2
  <2>3. Rest(s)[i] \in ToSet(open)
    BY <2>1, Shapes DEF UVInv
  <2> QED
    BY <1>4, <2>1, <2>2, <2>3
<1>6. ASSUME NEW u \in Up
      PROVE  u \in ToSet(Rest(s)) <=> u \in ToSet(open) /\ u \notin Closing(s)
  <2>1. ToSet(Rest(s)) = { Rest(s)[i] : i \in 1..Len(Rest(s)) }
    <3>1. Rest(s) \in Seq(Up)
      BY <1>2
    <3> QED
      BY <3>1, InSeq
  <2>2. ASSUME u \in ToSet(Rest(s))  PROVE u \in ToSet(open) /\ u \notin Closing(s)
    <3>1. PICK i \in 1..Len(Rest(s)) : u = Rest(s)[i]
      BY <2>1, <2>2
    <3>2. u = open[k + i] /\ k + i \in 1..Len(open) /\ u \notin Closing(s)
      BY <1>5, <3>1
    <3> QED
      BY <3>2, Shapes DEF UVInv
  <2>3. ASSUME u \in ToSet(open), u \notin Closing(s)  PROVE u \in ToSet(Rest(s))
    <3>1. PICK j \in 1..Len(open) : u = open[j]
      BY <2>3, Shapes DEF UVInv
    <3>2. ~ (j <= k)
      BY <1>1, <2>3, <3>1 DEF Closing, k
    <3>3. j - k \in 1..Len(Rest(s)) /\ k + (j - k) = j
      BY <1>1, <1>2, <3>1, <3>2
    <3> QED
      BY <1>5, <2>1, <3>1, <3>3
  <2> QED
    BY <2>2, <2>3
<1> QED
  BY <1>1, <1>2, <1>5, <1>6 DEF k

LEMMA CloseUpvalueInv == ASSUME UVInv, CloseUpvalue  PROVE UVInv'
<1> DEFINE k == Above(top - 1)
<1>1. top \in Slot /\ top \in 2..StackMax /\ top' = top - 1 /\ top' \in 1..StackMax
  BY UpvaluesConstants, Running DEF UVInv, UVTypeOK, CloseUpvalue, Slot
<1>2. /\ open' \in Seq(Up) /\ Len(open') = Len(open) - k /\ k \in 0..Len(open)
      /\ \A i \in 1..Len(open') :
             /\ open'[i] = open[k + i] /\ k + i \in 1..Len(open)
             /\ open'[i] \notin Closing(top) /\ loc[open'[i]] < top
      /\ \A u \in Up : u \in ToSet(open') <=> u \in ToSet(open) /\ u \notin Closing(top)
  BY <1>1, Closed DEF CloseUpvalue, Rest
<1>3. ToSet(open') = { open'[i] : i \in 1..Len(open') } /\ ToSet(open') \subseteq Up
  BY <1>2, InSeq
<1>4. Closing(top) \subseteq ToSet(open)
  <2>1. 1..k \subseteq 1..Len(open)
    BY <1>2, Shapes DEF UVInv
  <2>2. ToSet(open) = { open[i] : i \in 1..Len(open) }
    BY Shapes DEF UVInv
  <2> QED
    BY <2>1, <2>2 DEF Closing
<1>5. /\ loc' = [u \in Up |-> IF u \in Closing(top) THEN 0 ELSE loc[u]]
      /\ closed' = [u \in Up |-> IF u \in Closing(top) THEN Deref(u) ELSE closed[u]]
      /\ owner' = [owner EXCEPT ![top] = Nothing]
      /\ UNCHANGED <<mem, frames, upvalues, filling, truth, stale, lost>>
  BY DEF CloseUpvalue
<1>6. \A i \in 1..Len(open') : loc'[open'[i]] = loc[open[k + i]]
  BY <1>2, <1>5, Shapes DEF UVInv
<1>7. \A u \in ToSet(open) : u \in Closing(top) <=> loc[u] >= top
  BY <1>1, ClosingAbove
<1> HIDE DEF k
<1>8. UVTypeOK'
  <2>1. \A u \in Up : Deref(u) \in Val
    BY Shapes DEF Deref, UVInv, UVTypeOK, Slot
  <2>2. loc' \in [Up -> 0..StackMax] /\ closed' \in [Up -> Val]
    BY <1>5, <2>1, Shapes DEF UVInv, UVTypeOK
  <2>3. owner' \in [Slot -> Up \cup {Nothing}]
    BY <1>5 DEF UVInv, UVTypeOK
  <2> QED
    BY <1>1, <1>2, <1>5, <2>2, <2>3 DEF UVInv, UVTypeOK
<1>9. Places'
  <2>1. ASSUME NEW s \in Slot, owner'[s] # Nothing  PROVE s <= top'
    <3>1. s # top /\ owner'[s] = owner[s]
      BY <1>1, <1>5, <2>1 DEF UVInv, UVTypeOK
    <3>2. s <= top /\ s \in Nat
      BY <2>1, <3>1, UpvaluesConstants DEF UVInv, Places, Slot
    <3> QED
      BY <1>1, <3>1, <3>2
  <2>2. \A i \in 1..Len(open') : loc'[open'[i]] >= 2
    BY <1>2, <1>6 DEF UVInv, Places
  <2> QED
    BY <1>1, <1>5, <2>1, <2>2 DEF UVInv, Places
<1>10. Filling'
  BY <1>5 DEF UVInv, Filling
<1>11. Listed'
  BY <1>2, <1>5 DEF UVInv, Listed
<1>12. OpenSorted'
  <2> SUFFICES ASSUME NEW i \in 1..Len(open'), NEW j \in 1..Len(open'), i < j
               PROVE  loc'[open'[i]] > loc'[open'[j]]
    BY DEF OpenSorted
  <2>1. k + i \in 1..Len(open) /\ k + j \in 1..Len(open) /\ k + i < k + j
    BY <1>2, Shapes DEF UVInv
  <2> QED
    BY <1>6, <2>1 DEF UVInv, OpenSorted
<1>13. OneUpvalue'
  <2> SUFFICES ASSUME ~ lost  PROVE OneUpvalue'
    BY <1>5 DEF OneUpvalue
  <2>1. ASSUME NEW u \in ToSet(open') \ stale
        PROVE  loc'[u] <= top' /\ owner'[loc'[u]] = u
    <3>1. u \in Up /\ u \in ToSet(open) \ stale /\ loc'[u] = loc[u] /\ ~ loc[u] >= top
      BY <1>2, <1>3, <1>5, <1>7, <2>1
    <3>2. loc[u] \in Slot /\ owner[loc[u]] = u
      <4>1. loc[u] # 0
        BY <3>1, Shapes DEF UVInv, Places
      <4> QED
        BY <3>1, <4>1, Owned
    <3> QED
      BY <1>1, <1>5, <3>1, <3>2, UpvaluesConstants DEF Slot, UVInv, UVTypeOK
  <2>2. ASSUME NEW s \in Slot, owner'[s] # Nothing
        PROVE  owner'[s] \in ToSet(open') /\ loc'[owner'[s]] = s
    <3>1. s # top /\ owner'[s] = owner[s]
      BY <1>1, <1>5, <2>2 DEF UVInv, UVTypeOK
    <3>2. owner[s] \in ToSet(open) /\ owner[s] \in Up /\ loc[owner[s]] = s /\ ~ s >= top
      BY <1>1, <2>2, <3>1, Owned, UpvaluesConstants DEF Slot
    <3> QED
      BY <1>2, <1>5, <1>7, <3>1, <3>2
  <2> QED
    BY <1>5, <2>1, <2>2 DEF OneUpvalue
<1>14. Shares'
  <2> SUFFICES ASSUME ~ lost, NEW u \in Used' \ stale
               PROVE  Deref(u)' = truth[u]
    BY <1>5 DEF Shares
  <2>1. u \in Used
    BY <1>2, <1>3, <1>5 DEF Used, Made
  <2>2. u \in Up /\ Deref(u) = truth[u]
    BY <1>5, <2>1, UsedUp DEF Shares, UVInv
  <2> QED
    BY <1>5, <2>2 DEF Deref
<1> QED
  BY <1>8, <1>9, <1>10, <1>11, <1>12, <1>13, <1>14 DEF UVInv

-----------------------------------------------------------------------------
(* captureUpvalue *)

\* The list after a new upvalue was linked in.
LEMMA Inserted ==
    ASSUME UVTypeOK, NEW s, NEW u \in Up
    PROVE  /\ CaptureAfter(s, u) \in Seq(Up)
           /\ Len(CaptureAfter(s, u)) = Len(open) + 1
           /\ Above(s) \in 0..Len(open)
           /\ \A i \in 1..Len(open) + 1 :
                  CaptureAfter(s, u)[i] =
                      IF i <= Above(s) THEN open[i]
                      ELSE IF i = Above(s) + 1 THEN u ELSE open[i - 1]
           /\ ToSet(CaptureAfter(s, u)) = ToSet(open) \cup {u}
<1> DEFINE k == Above(s)
           front == SubSeq(open, 1, k)
           back == SubSeq(open, k + 1, Len(open))
           first == front \o <<u>>
           new == CaptureAfter(s, u)
<1>1. /\ k \in 0..Len(open) /\ Len(open) \in Nat /\ k \in Nat /\ open \in Seq(Up)
      /\ \A i \in 1..Len(open) : open[i] \in Up
  BY AboveStops, Shapes DEF UVTypeOK
<1>2. new = front \o <<u>> \o back
  <2>1. (k + 1) - 1 = k
    BY <1>1
  <2> QED
    BY <2>1 DEF CaptureAfter, InsertAt
<1> HIDE DEF k, new
<1>3. /\ front \in Seq(Up) /\ Len(front) = k
      /\ \A i \in 1..k : front[i] = open[i]
  <2>1. /\ front \in Seq(Up) /\ Len(front) = IF 1 <= k THEN k - 1 + 1 ELSE 0
        /\ \A i \in 1..k - 1 + 1 : front[i] = open[1 + i - 1]
    BY <1>1, SubSeqProperties
  <2> HIDE DEF front
  <2> QED
    BY <1>1, <2>1
<1>4. /\ back \in Seq(Up) /\ Len(back) = Len(open) - k
      /\ \A i \in 1..Len(open) - k : back[i] = open[k + i]
  <2>1. /\ back \in Seq(Up)
        /\ Len(back) = IF k + 1 <= Len(open) THEN Len(open) - (k + 1) + 1 ELSE 0
        /\ \A i \in 1..Len(open) - (k + 1) + 1 : back[i] = open[(k + 1) + i - 1]
    BY <1>1, SubSeqProperties
  <2> HIDE DEF back
  <2> QED
    BY <1>1, <2>1
<1> HIDE DEF front, back
<1>5. <<u>> \in Seq(Up) /\ Len(<<u>>) = 1 /\ <<u>>[1] = u
  OBVIOUS
<1>6. /\ first \in Seq(Up) /\ Len(first) = k + 1
      /\ \A i \in 1..k : first[i] = open[i]
      /\ first[k + 1] = u
  <2> DEFINE one == <<u>>
  <2>1. one \in Seq(Up) /\ Len(one) = 1 /\ one[1] = u
    BY <1>5
  <2> HIDE DEF one
  <2>2. /\ front \o one \in Seq(Up) /\ Len(front \o one) = k + 1
        /\ \A i \in 1..k + 1 : (front \o one)[i] = IF i <= k THEN front[i] ELSE one[i - k]
    <3>1. /\ front \o one \in Seq(Up) /\ Len(front \o one) = Len(front) + Len(one)
          /\ \A i \in 1..Len(front) + Len(one) :
                 (front \o one)[i] = IF i <= Len(front) THEN front[i] ELSE one[i - Len(front)]
      BY <1>3, <2>1, ConcatProperties
    <3> QED
      BY <1>3, <2>1, <3>1
  <2>3. (front \o one)[k + 1] = one[1]
    <3>1. k + 1 \in 1..k + 1 /\ ~ (k + 1 <= k) /\ (k + 1) - k = 1
      BY <1>1
    <3> QED
      BY <2>2, <3>1
  <2>4. \A i \in 1..k : (front \o one)[i] = open[i]
    BY <1>1, <1>3, <2>2
  <2> QED
    BY <2>1, <2>2, <2>3, <2>4 DEF one
<1> HIDE DEF first
<1>7. /\ new \in Seq(Up) /\ Len(new) = (k + 1) + (Len(open) - k)
      /\ \A i \in 1..(k + 1) + (Len(open) - k) :
             new[i] = IF i <= k + 1 THEN first[i] ELSE back[i - (k + 1)]
  <2>1. /\ first \o back \in Seq(Up) /\ Len(first \o back) = Len(first) + Len(back)
        /\ \A i \in 1..Len(first) + Len(back) :
               (first \o back)[i] = IF i <= Len(first) THEN first[i] ELSE back[i - Len(first)]
    BY <1>4, <1>6, ConcatProperties
  <2>2. new = first \o back
    BY <1>2 DEF first
  <2> QED
    BY <1>4, <1>6, <2>1, <2>2
<1>8. Len(new) = Len(open) + 1
  BY <1>1, <1>7
<1>9. ASSUME NEW i \in 1..Len(open) + 1
      PROVE  new[i] = IF i <= k THEN open[i] ELSE IF i = k + 1 THEN u ELSE open[i - 1]
  <2>1. CASE i <= k
    <3>1. new[i] = first[i] /\ i \in 1..k
      BY <1>1, <1>7, <2>1
    <3> QED
      BY <1>6, <2>1, <3>1
  <2>2. CASE i = k + 1
    <3>1. new[i] = first[k + 1] /\ ~ (i <= k)
      BY <1>1, <1>7, <2>2
    <3> QED
      BY <1>6, <2>2, <3>1
  <2>3. CASE i > k + 1
    <3>1. new[i] = back[i - (k + 1)] /\ i - (k + 1) \in 1..Len(open) - k
          /\ k + (i - (k + 1)) = i - 1 /\ ~ (i <= k) /\ i # k + 1
      BY <1>1, <1>7, <2>3
    <3> QED
      BY <1>4, <3>1
  <2> QED
    BY <1>1, <2>1, <2>2, <2>3
<1>10. ToSet(new) = ToSet(open) \cup {u}
  <2>1. /\ ToSet(new) = { new[i] : i \in 1..Len(open) + 1 }
        /\ ToSet(open) = { open[i] : i \in 1..Len(open) }
    BY <1>1, <1>7, <1>8, InSeq
  <2>2. ASSUME NEW i \in 1..Len(open) + 1  PROVE new[i] \in ToSet(open) \cup {u}
    <3>1. CASE i <= k
      BY <1>1, <1>9, <2>1, <3>1
    <3>2. CASE i = k + 1
      BY <1>1, <1>9, <3>2
    <3>3. CASE ~ (i <= k) /\ i # k + 1
      <4>1. i - 1 \in 1..Len(open) /\ new[i] = open[i - 1]
        BY <1>1, <1>9, <3>3
      <4> QED
        BY <2>1, <4>1
    <3> QED
      BY <3>1, <3>2, <3>3
  <2>3. u \in ToSet(new)
    <3>1. k + 1 \in 1..Len(open) + 1 /\ ~ (k + 1 <= k)
      BY <1>1
    <3>2. new[k + 1] = u
      BY <1>9, <3>1
    <3> QED
      BY <2>1, <3>1, <3>2
  <2>4. ASSUME NEW i \in 1..Len(open)  PROVE open[i] \in ToSet(new)
    <3>1. CASE i <= k
      <4>1. i \in 1..Len(open) + 1 /\ new[i] = open[i]
        BY <1>1, <1>9, <3>1
      <4> QED
        BY <2>1, <4>1
    <3>2. CASE ~ (i <= k)
      <4>1. i + 1 \in 1..Len(open) + 1 /\ ~ (i + 1 <= k) /\ i + 1 # k + 1 /\ (i + 1) - 1 = i
        BY <1>1, <3>2
      <4>2. new[i + 1] = open[i]
        BY <1>9, <4>1
      <4> QED
        BY <2>1, <4>1, <4>2
    <3> QED
      BY <3>1, <3>2
  <2> QED
    BY <2>1, <2>2, <2>3, <2>4
<1> QED
  BY <1>1, <1>7, <1>8, <1>9, <1>10 DEF k, new

\* captureUpvalue misses no upvalue of the slot, though it stops early.
LEMMA FoundRight ==
    ASSUME UVInv, NEW s \in Slot
    PROVE  /\ Found(s) # Nothing => Found(s) \in ToSet(open) /\ loc[Found(s)] = s
           /\ Found(s) = Nothing =>
                  \A i \in 1..Len(open) : IF i <= Above(s) THEN loc[open[i]] > s
                                          ELSE loc[open[i]] < s
<1> DEFINE k == Above(s) + 1
<1>1. /\ s \in Nat /\ Above(s) \in 0..Len(open) /\ Len(open) \in Nat
      /\ \A i \in 1..Len(open) : open[i] \in Up /\ loc[open[i]] \in Nat /\ open[i] # Nothing
      /\ \A i \in 1..Len(open) : IF i <= Above(s) THEN loc[open[i]] > s
                                 ELSE loc[open[i]] <= s
  <2>1. s \in Nat
    BY UpvaluesConstants DEF Slot
  <2>2. Above(s) \in 0..Len(open)
    BY AboveStops DEF UVInv, UVTypeOK
  <2>3. \A i \in 1..Len(open) : IF i <= Above(s) THEN loc[open[i]] > s ELSE loc[open[i]] <= s
    BY <2>1, AboveSplits DEF UVInv
  <2>4. /\ Len(open) \in Nat
        /\ \A i \in 1..Len(open) : open[i] \in Up /\ loc[open[i]] \in Nat /\ open[i] # Nothing
    BY Shapes DEF UVInv
  <2> QED
    BY <2>1, <2>2, <2>3, <2>4
<1>2. Found(s) = IF k <= Len(open) /\ loc[open[k]] = s THEN open[k] ELSE Nothing
  BY DEF Found
<1>3. ASSUME Found(s) # Nothing  PROVE Found(s) \in ToSet(open) /\ loc[Found(s)] = s
  <2>1. k \in 1..Len(open) /\ loc[open[k]] = s /\ Found(s) = open[k]
    BY <1>1, <1>2, <1>3
  <2> QED
    BY <2>1, Shapes DEF UVInv
<1>4. ASSUME Found(s) = Nothing, NEW i \in 1..Len(open)
      PROVE  IF i <= Above(s) THEN loc[open[i]] > s ELSE loc[open[i]] < s
  <2>1. CASE i <= Above(s)
    BY <1>1, <2>1
  <2>2. CASE ~ (i <= Above(s))
    <3>1. k \in 1..Len(open) /\ k <= i /\ ~ (k <= Above(s))
      BY <1>1, <2>2
    <3>2. loc[open[k]] # s
      BY <1>1, <1>2, <1>4, <3>1
    <3>3. loc[open[k]] < s
      BY <1>1, <3>1, <3>2
    <3>4. k = i \/ loc[open[k]] > loc[open[i]]
      BY <3>1 DEF UVInv, OpenSorted
    <3> QED
      BY <1>1, <2>2, <3>1, <3>3, <3>4
  <2> QED
    BY <2>1, <2>2
<1> QED
  BY <1>3, <1>4

\* A function captures slots of its own frame.
LEMMA Capturable ==
    ASSUME UVInv, NEW s \in Slot, s \in Local
    PROVE  /\ s \in 2..top /\ top \in 1..StackMax /\ s \in 1..StackMax /\ s # 0
           /\ mem[s] \in Val
<1>1. StackMax \in Nat /\ Frame.base \in 1..StackMax
  BY UpvaluesConstants, Running DEF UVInv, Slot
<1>2. top \in 1..StackMax /\ mem \in [Slot -> Val]
  BY <1>1 DEF UVInv, UVTypeOK, Places
<1>3. s \in 2..top
  BY <1>1, <1>2 DEF Local
<1> QED
  BY <1>1, <1>2, <1>3

\* A variable that no closure had captured.
LEMMA CaptureNewInv ==
    ASSUME UVInv, NEW s \in Slot, NEW u \in Up, CaptureLocal(s, u), Found(s) = Nothing
    PROVE  UVInv'
<1> DEFINE k == Above(s)
<1>1. /\ upvalues' \in [Closure -> Seq(Up) \cup {Nothing}]
      /\ Made' = Made
      /\ \A f \in Made : ToSet(upvalues'[f]) \subseteq ToSet(upvalues[f]) \cup {u}
      /\ Filling'
  BY UpvalueAdded DEF CaptureLocal
<1>2. /\ s \in 2..top /\ top \in 1..StackMax /\ s \in 1..StackMax /\ s # 0
      /\ mem[s] \in Val
  BY Capturable DEF CaptureLocal
<1>3. /\ u \notin Used /\ open' = CaptureAfter(s, u)
      /\ loc' = [loc EXCEPT ![u] = s] /\ owner' = [owner EXCEPT ![s] = u]
      /\ truth' = [truth EXCEPT ![u] = mem[s]]
      /\ UNCHANGED <<mem, top, frames, closed, filling, stale, lost>>
  BY DEF CaptureLocal, AddUpvalue
<1>4. /\ open' \in Seq(Up) /\ Len(open') = Len(open) + 1
      /\ k \in 0..Len(open) /\ Len(open) \in Nat
      /\ \A i \in 1..Len(open) + 1 :
             open'[i] = IF i <= k THEN open[i] ELSE IF i = k + 1 THEN u ELSE open[i - 1]
      /\ ToSet(open') = ToSet(open) \cup {u}
  BY <1>3, Inserted, Shapes DEF UVInv
<1>5. \A i \in 1..Len(open) : IF i <= k THEN loc[open[i]] > s ELSE loc[open[i]] < s
  BY FoundRight
<1>6. \A x \in ToSet(open) : x \in Up /\ x # u /\ loc[x] # s /\ loc'[x] = loc[x]
  <2> SUFFICES ASSUME NEW x \in ToSet(open)
               PROVE  x \in Up /\ x # u /\ loc[x] # s /\ loc'[x] = loc[x]
    OBVIOUS
  <2>1. x \in Up /\ x # u
    BY <1>3, Shapes DEF UVInv, Used
  <2>2. PICK i \in 1..Len(open) : x = open[i]
    BY Shapes DEF UVInv
  <2>3. loc[x] # s
    BY <1>2, <1>5, <2>1, <2>2, Shapes DEF UVInv
  <2> QED
    BY <1>3, <2>1, <2>3 DEF UVInv, UVTypeOK
<1>7. loc'[u] = s /\ owner'[s] = u /\ u # Nothing
  BY <1>3, Shapes DEF UVInv, UVTypeOK
<1> HIDE DEF k
<1>8. UVTypeOK'
  <2>1. loc' \in [Up -> 0..StackMax] /\ owner' \in [Slot -> Up \cup {Nothing}]
        /\ truth' \in [Up -> Val]
    BY <1>2, <1>3 DEF UVInv, UVTypeOK
  <2> QED
    BY <1>1, <1>3, <1>4, <2>1 DEF UVInv, UVTypeOK
<1>9. \A i \in 1..Len(open') :
          loc'[open'[i]] = IF i <= k THEN loc[open[i]]
                           ELSE IF i = k + 1 THEN s ELSE loc[open[i - 1]]
  <2> SUFFICES ASSUME NEW i \in 1..Len(open')
               PROVE  loc'[open'[i]] = IF i <= k THEN loc[open[i]]
                                       ELSE IF i = k + 1 THEN s ELSE loc[open[i - 1]]
    OBVIOUS
  <2>1. \A j \in 1..Len(open) : loc'[open[j]] = loc[open[j]]
    BY <1>6, Shapes DEF UVInv
  <2>2. CASE i <= k
    BY <1>4, <2>1, <2>2
  <2>3. CASE i = k + 1
    BY <1>4, <1>7, <2>3
  <2>4. CASE ~ (i <= k) /\ i # k + 1
    <3>1. i - 1 \in 1..Len(open)
      BY <1>4, <2>4
    <3> QED
      BY <1>4, <2>1, <2>4, <3>1
  <2> QED
    BY <2>2, <2>3, <2>4
<1>10. Places'
  <2>1. \A i \in 1..Len(open') : loc'[open'[i]] >= 2
    <3> SUFFICES ASSUME NEW i \in 1..Len(open')  PROVE loc'[open'[i]] >= 2
      OBVIOUS
    <3>1. i <= k => i \in 1..Len(open)
      BY <1>4
    <3>2. ~ (i <= k) /\ i # k + 1 => i - 1 \in 1..Len(open)
      BY <1>4
    <3> QED
      BY <1>2, <1>9, <3>1, <3>2 DEF UVInv, Places
  <2>2. \A t \in Slot : owner'[t] # Nothing => t <= top
    BY <1>2, <1>3 DEF UVInv, Places, UVTypeOK
  <2> QED
    BY <1>3, <2>1, <2>2 DEF UVInv, Places
<1>11. Listed'
  BY <1>3, <1>4 DEF UVInv, Listed, UVTypeOK
<1>12. OpenSorted'
  <2> SUFFICES ASSUME NEW i \in 1..Len(open'), NEW j \in 1..Len(open'), i < j
               PROVE  loc'[open'[i]] > loc'[open'[j]]
    BY DEF OpenSorted
  <2>1. \A m, n \in 1..Len(open) : m < n => loc[open[m]] > loc[open[n]]
    BY DEF UVInv, OpenSorted
  <2>2. CASE j <= k
    <3>1. i \in 1..Len(open) /\ j \in 1..Len(open) /\ i <= k
      BY <1>4, <2>2
    <3> QED
      BY <1>9, <2>1, <2>2, <3>1
  <2>3. CASE j = k + 1
    <3>1. i <= k /\ i \in 1..Len(open) /\ ~ (j <= k)
      BY <1>4, <2>3
    <3> QED
      BY <1>5, <1>9, <2>3, <3>1
  <2>4. CASE j > k + 1
    <3>1. j - 1 \in 1..Len(open) /\ ~ (j <= k) /\ j # k + 1 /\ ~ (j - 1 <= k)
      BY <1>4, <2>4
    <3>2. loc'[open'[j]] = loc[open[j - 1]] /\ loc[open[j - 1]] < s
      BY <1>5, <1>9, <3>1
    <3>3. CASE i <= k
      <4>1. i \in 1..Len(open) /\ i < j - 1 /\ loc'[open'[i]] = loc[open[i]]
        BY <1>4, <1>9, <2>4, <3>3
      <4> QED
        BY <2>1, <3>1, <3>2, <4>1
    <3>4. CASE i = k + 1
      <4>1. loc'[open'[i]] = s /\ loc[open[j - 1]] \in Nat
        BY <1>4, <1>9, <3>1, <3>4, Shapes DEF UVInv
      <4> QED
        BY <1>2, <3>2, <4>1
    <3>5. CASE i > k + 1
      <4>1. i - 1 \in 1..Len(open) /\ i - 1 < j - 1 /\ loc'[open'[i]] = loc[open[i - 1]]
        BY <1>4, <1>9, <3>5
      <4> QED
        BY <2>1, <3>1, <3>2, <4>1
    <3> QED
      BY <1>4, <3>3, <3>4, <3>5
  <2> QED
    BY <1>4, <2>2, <2>3, <2>4
<1>13. OneUpvalue'
  <2> SUFFICES ASSUME ~ lost  PROVE OneUpvalue'
    BY <1>3 DEF OneUpvalue
  <2>1. ASSUME NEW x \in ToSet(open') \ stale
        PROVE  loc'[x] <= top /\ owner'[loc'[x]] = x
    <3>1. CASE x = u
      BY <1>2, <1>7, <3>1
    <3>2. CASE x # u
      <4>1. x \in ToSet(open) \ stale /\ loc'[x] = loc[x] /\ loc[x] # s /\ x \in Up
        BY <1>4, <1>6, <2>1, <3>2
      <4>2. loc[x] <= top /\ owner[loc[x]] = x
        BY <4>1 DEF UVInv, OneUpvalue
      <4>3. loc[x] \in Slot
        <5>1. loc[x] # 0
          BY <4>1, Shapes DEF UVInv, Places
        <5> QED
          BY <4>1, <5>1, Owned
      <4> QED
        BY <1>3, <4>1, <4>2, <4>3 DEF UVInv, UVTypeOK
    <3> QED
      BY <3>1, <3>2
  <2>2. ASSUME NEW t \in Slot, owner'[t] # Nothing
        PROVE  owner'[t] \in ToSet(open') /\ loc'[owner'[t]] = t
    <3>1. CASE t = s
      BY <1>4, <1>7, <3>1
    <3>2. CASE t # s
      <4>1. owner'[t] = owner[t]
        BY <1>3, <3>2 DEF UVInv, UVTypeOK
      <4>2. owner[t] \in ToSet(open) /\ loc[owner[t]] = t
        BY <2>2, <4>1, Owned
      <4> QED
        BY <1>4, <1>6, <4>1, <4>2
    <3> QED
      BY <3>1, <3>2
  <2> QED
    BY <1>3, <2>1, <2>2 DEF OneUpvalue
<1>14. Shares'
  <2> SUFFICES ASSUME ~ lost, NEW x \in Used' \ stale
               PROVE  Deref(x)' = truth'[x]
    BY <1>3 DEF Shares
  <2>1. CASE x = u
    BY <1>2, <1>3, <1>7, <2>1 DEF Deref, UVInv, UVTypeOK
  <2>2. CASE x # u
    <3>1. x \in Used
      BY <1>1, <1>4, <2>2 DEF Used
    <3>2. x \in Up /\ Deref(x) = truth[x]
      BY <1>3, <3>1, UsedUp DEF Shares, UVInv
    <3>3. loc'[x] = loc[x] /\ truth'[x] = truth[x]
      BY <1>3, <2>2, <3>2 DEF UVInv, UVTypeOK
    <3> QED
      BY <1>3, <3>2, <3>3 DEF Deref
  <2> QED
    BY <2>1, <2>2
<1> QED
  BY <1>1, <1>8, <1>10, <1>11, <1>12, <1>13, <1>14 DEF UVInv

\* A variable that another closure has captured before.
LEMMA CaptureFoundInv ==
    ASSUME UVInv, NEW s \in Slot, NEW u \in Up, CaptureLocal(s, u), Found(s) # Nothing
    PROVE  UVInv'
<1>1. /\ upvalues' \in [Closure -> Seq(Up) \cup {Nothing}]
      /\ Made' = Made
      /\ \A f \in Made : ToSet(upvalues'[f]) \subseteq ToSet(upvalues[f]) \cup {u}
      /\ Filling'
  BY UpvalueAdded DEF CaptureLocal
<1>2. /\ s \in 2..top /\ top \in 1..StackMax /\ s \in 1..StackMax /\ s # 0
      /\ mem[s] \in Val
  BY Capturable DEF CaptureLocal
<1>3. /\ u = Found(s) /\ owner' = [owner EXCEPT ![s] = u]
      /\ truth' = [truth EXCEPT ![u] = mem[s]]
      /\ UNCHANGED <<mem, top, frames, open, loc, closed, filling, stale, lost>>
  BY DEF CaptureLocal, AddUpvalue
<1>4. u \in ToSet(open) /\ loc[u] = s
  BY <1>3, FoundRight
<1>5. UVTypeOK'
  <2>1. owner' \in [Slot -> Up \cup {Nothing}] /\ truth' \in [Up -> Val]
    BY <1>2, <1>3 DEF UVInv, UVTypeOK
  <2> QED
    BY <1>1, <1>3, <2>1 DEF UVInv, UVTypeOK
<1>6. Places' /\ Listed' /\ OpenSorted'
  <2>1. \A t \in Slot : owner'[t] # Nothing => t <= top
    BY <1>2, <1>3 DEF UVInv, Places, UVTypeOK
  <2> QED
    BY <1>3, <2>1 DEF UVInv, Places, Listed, OpenSorted
<1>7. OneUpvalue'
  <2> SUFFICES ASSUME ~ lost  PROVE OneUpvalue'
    BY <1>3 DEF OneUpvalue
  <2>1. owner'[s] = u
    BY <1>3 DEF UVInv, UVTypeOK
  <2>2. ASSUME NEW x \in ToSet(open) \ stale
        PROVE  loc[x] <= top /\ owner'[loc[x]] = x
    <3>1. CASE x = u
      BY <1>2, <1>4, <2>1, <3>1
    <3>2. CASE x # u
      <4>1. loc[x] # s
        BY <1>4, <2>2, <3>2, OneEach DEF UVInv
      <4>2. loc[x] <= top /\ owner[loc[x]] = x
        BY <2>2 DEF UVInv, OneUpvalue
      <4>3. loc[x] \in Slot
        <5>1. loc[x] # 0 /\ x \in Up
          BY <2>2, Shapes DEF UVInv, Places
        <5> QED
          BY <2>2, <5>1, Owned
      <4> QED
        BY <1>3, <4>1, <4>2, <4>3 DEF UVInv, UVTypeOK
    <3> QED
      BY <3>1, <3>2
  <2>3. ASSUME NEW t \in Slot, owner'[t] # Nothing
        PROVE  owner'[t] \in ToSet(open) /\ loc[owner'[t]] = t
    <3>1. CASE t = s
      BY <1>4, <2>1, <3>1
    <3>2. CASE t # s
      <4>1. owner'[t] = owner[t]
        BY <1>3, <3>2 DEF UVInv, UVTypeOK
      <4> QED
        BY <2>3, <4>1, Owned
    <3> QED
      BY <3>1, <3>2
  <2> QED
    BY <1>3, <2>2, <2>3 DEF OneUpvalue
<1>8. Shares'
  <2> SUFFICES ASSUME ~ lost, NEW x \in Used' \ stale
               PROVE  Deref(x)' = truth'[x]
    BY <1>3 DEF Shares
  <2>1. CASE x = u
    BY <1>2, <1>3, <1>4, <2>1 DEF Deref, UVInv, UVTypeOK
  <2>2. CASE x # u
    <3>1. x \in Used
      BY <1>1, <1>3, <2>2 DEF Used
    <3>2. x \in Up /\ Deref(x) = truth[x]
      BY <1>3, <3>1, UsedUp DEF Shares, UVInv
    <3>3. truth'[x] = truth[x]
      BY <1>3, <2>2, <3>2 DEF UVInv, UVTypeOK
    <3> QED
      BY <1>3, <3>2, <3>3 DEF Deref
  <2> QED
    BY <2>1, <2>2
<1> QED
  BY <1>1, <1>5, <1>6, <1>7, <1>8 DEF UVInv

LEMMA CaptureLocalInv ==
    ASSUME UVInv, NEW s \in Slot, NEW u \in Up, CaptureLocal(s, u)  PROVE UVInv'
  BY CaptureNewInv, CaptureFoundInv

-----------------------------------------------------------------------------
(* The theorems. *)

LEMMA GetUpvalueInv == ASSUME UVInv, NEW u \in Up, GetUpvalue(u)  PROVE UVInv'
<1>1. Deref(u) \in Val
  BY Shapes DEF Deref, UVInv, UVTypeOK, Slot
<1> QED
  BY <1>1, PushInv DEF GetUpvalue

LEMMA UVStutterInv == ASSUME UVInv, UNCHANGED uvVars  PROVE UVInv'
<1>1. UVTypeOK' /\ Places' /\ Filling' /\ Listed' /\ OpenSorted' /\ OneUpvalue'
  BY DEF UVInv, UVTypeOK, Places, Filling, Listed, OpenSorted, OneUpvalue, uvVars, machine, history
<1>2. Shares'
  BY DEF UVInv, Shares, Deref, Used, Made, uvVars, machine, history
<1> QED
  BY <1>1, <1>2 DEF UVInv

LEMMA UVStepInv == UVInv /\ [UVNext]_uvVars => UVInv'
<1> SUFFICES ASSUME UVInv, [UVNext]_uvVars  PROVE UVInv'
  OBVIOUS
<1>1. CASE UNCHANGED uvVars
  BY <1>1, UVStutterInv
<1>2. ASSUME NEW v \in Val, Push(v)  PROVE UVInv'
  BY <1>2, PushInv
<1>3. CASE Pop
  BY <1>3, PopInv
<1>4. ASSUME NEW s \in Slot, SetLocal(s)  PROVE UVInv'
  BY <1>4, SetLocalInv
<1>5. ASSUME NEW u \in Up, GetUpvalue(u) \/ SetUpvalue(u) \/ CopyUpvalue(u)  PROVE UVInv'
  BY <1>5, GetUpvalueInv, SetUpvalueInv, CopyUpvalueInv
<1>6. ASSUME NEW f \in Closure, NewClosure(f)  PROVE UVInv'
  BY <1>6, NewClosureInv
<1>7. ASSUME NEW s \in Slot, NEW u \in Up, CaptureLocal(s, u)  PROVE UVInv'
  BY <1>7, CaptureLocalInv
<1>8. CASE EndClosure \/ CloseUpvalue \/ Return \/ NextLine \/ Error
  BY <1>8, EndClosureInv, CloseUpvalueInv, ReturnInv, NextLineInv, ErrorInv
<1>9. ASSUME NEW f \in Closure, NEW args \in 0..StackMax, Call(f, args)  PROVE UVInv'
  BY <1>9, CallInv
<1> QED
  BY <1>1, <1>2, <1>3, <1>4, <1>5, <1>6, <1>7, <1>8, <1>9 DEF UVNext

THEOREM UVInvariance == UVSpec => []UVInv
<1>1. UVInit => UVInv
  BY UVInitInv
<1>2. UVInv /\ [UVNext]_uvVars => UVInv'
  BY UVStepInv
<1> QED
  BY <1>1, <1>2, PTL DEF UVSpec

\* The stack, the frames and the list of open upvalues keep their types: an
\* upvalue never points outside the stack and a frame never begins outside it.
THEOREM UVTypeCorrect == UVSpec => []UVTypeOK
  BY UVInvariance, PTL DEF UVInv

\* vm.openUpvalues stays sorted, whatever OP_RETURN and runtimeError leave in it.
THEOREM StaysSorted == UVSpec => []OpenSorted
  BY UVInvariance, PTL DEF UVInv

\* A variable has one upvalue, in the list as long as it is on the stack.
THEOREM OneForEach == UVSpec => []OneUpvalue
  BY UVInvariance, PTL DEF UVInv

\* Closures share the variables they captured, with each other and with the
\* function that declares them, before and after OP_CLOSE_UPVALUE.
THEOREM ClosuresShare == UVSpec => []Shares
  BY UVInvariance, PTL DEF UVInv
=============================================================================
