-------------------------- MODULE HashTableProofs --------------------------
(***************************************************************************)
(* Proofs about HashTable, for every set of keys, every hash function and  *)
(* every size.                                                             *)
(*                                                                         *)
(* The argument: a table is sound when no key is in it twice and the probe *)
(* for a key comes to it before any container that was never used          *)
(* (Sound).  hashtable_find_and_set and hashtable_delete keep that because *)
(* they never make a container look as if it had not been used.  The count *)
(* may be too high but not too low (Counts), so whoever finds it below the *)
(* size finds a free container.  The lemmas are about any sound table, so  *)
(* that ScopesProofs can use them for the tables of the resolver.          *)
(***************************************************************************)
EXTENDS HashTable, FiniteSetsExt, FiniteSetTheorems, SequenceTheorems,
        WellFoundedInduction, TLAPS

-----------------------------------------------------------------------------
(* Numbers. *)

\* A set of numbers has a least one.
LEMMA Least ==
    ASSUME NEW T, T \subseteq Nat, T # {}
    PROVE  \E x \in T : \A y \in T : x <= y
<1> DEFINE R == { p \in Nat \X Nat : p[1] < p[2] }
<1>1. IsWellFoundedOn(R, Nat)
  BY NatLessThanWellFounded, Zenon DEF OpToRel
<1>2. PICK x \in T : \A y \in T : ~ (<<y, x>> \in R)
  BY <1>1, WFMin, Zenon
<1>3. \A y \in T : ~ (y < x)
  BY <1>2
<1> QED
  BY <1>3

\* What Min returns.
LEMMA MinLeast ==
    ASSUME NEW T, T \subseteq Nat, T # {}
    PROVE  Min(T) \in T /\ \A y \in T : Min(T) <= y
<1>1. \E x \in T : \A y \in T : x <= y
  BY Least
<1> QED
  BY <1>1, Zenon DEF Min

\* A set that holds 0, and with a number the next, holds all.
LEMMA Induction ==
    ASSUME NEW S, 0 \in S, \A n \in Nat : n \in S => n + 1 \in S
    PROVE  \A n \in Nat : n \in S
<1> SUFFICES ASSUME NEW n \in Nat, n \notin S  PROVE FALSE
  OBVIOUS
<1> DEFINE T == Nat \ S
<1>1. PICK x \in T : \A y \in T : x <= y
  <2>1. n \in T /\ T \subseteq Nat
    OBVIOUS
  <2> QED
    BY <2>1, Least, Zenon
<1>2. x # 0 /\ x - 1 \in Nat /\ ~ (x <= x - 1) /\ (x - 1) + 1 = x
  BY <1>1
<1>3. x - 1 \in S
  BY <1>1, <1>2
<1> QED
  BY <1>1, <1>2, <1>3

\* f is defined by its value b at 0 and by what step makes of each value.
Iterates(n, b, step, f) ==
    f = [i \in 0..n |-> IF i = 0 THEN b ELSE step[<<i, f[i - 1]>>]]

\* There is such a function.
LEMMA Recursion ==
    ASSUME NEW X, NEW b \in X, NEW step \in [Nat \X X -> X], NEW n \in Nat
    PROVE  \E f \in [0..n -> X] : Iterates(n, b, step, f)
<1> DEFINE Good(m, f) == f[0] = b /\ \A i \in 1..m : f[i] = step[<<i, f[i - 1]>>]
           S == { m \in Nat : \E f \in [0..m -> X] : Good(m, f) }
<1>1. 0 \in S
  <2>1. [i \in 0..0 |-> b] \in [0..0 -> X] /\ Good(0, [i \in 0..0 |-> b])
    OBVIOUS
  <2> QED
    BY <2>1
<1>2. ASSUME NEW m \in Nat, m \in S  PROVE m + 1 \in S
  <2>1. PICK f \in [0..m -> X] : Good(m, f)
    BY <1>2
  <2> DEFINE g == [i \in 0..(m + 1) |-> IF i <= m THEN f[i] ELSE step[<<m + 1, f[m]>>]]
  <2>2. step[<<m + 1, f[m]>>] \in X
    BY <2>1
  <2>3. g \in [0..(m + 1) -> X]
    BY <2>1, <2>2
  <2>4. g[0] = b
    BY <2>1
  <2>5. ASSUME NEW i \in 1..(m + 1)  PROVE g[i] = step[<<i, g[i - 1]>>]
    <3>1. CASE i <= m
      BY <2>1, <3>1
    <3>2. CASE i = m + 1
      BY <2>1, <3>2
    <3> QED
      BY <3>1, <3>2
  <2>6. Good(m + 1, g)
    BY <2>4, <2>5
  <2> HIDE DEF g, Good
  <2>7. \E x \in [0..(m + 1) -> X] : Good(m + 1, x)
    BY <2>3, <2>6
  <2> QED
    BY <2>7
<1> HIDE DEF S
<1>3. n \in S
  BY <1>1, <1>2, Induction
<1>4. PICK f \in [0..n -> X] : Good(n, f)
  BY <1>3 DEF S
<1>5. f = [i \in 0..n |-> IF i = 0 THEN b ELSE step[<<i, f[i - 1]>>]]
  <2> DEFINE g == [i \in 0..n |-> IF i = 0 THEN b ELSE step[<<i, f[i - 1]>>]]
  <2>1. \A i \in 0..n : f[i] = g[i]
    BY <1>4
  <2>2. f = [i \in 0..n |-> f[i]]
    OBVIOUS
  <2> QED
    BY <2>1, <2>2
<1> QED
  BY <1>5 DEF Iterates

\* Dividing h by n leaves a remainder.
LEMMA Division ==
    ASSUME NEW n \in Nat \ {0}, NEW h \in Nat
    PROVE  \E q \in Nat : \E r \in 0..(n - 1) : h = n * q + r
<1> DEFINE S == { m \in Nat : \E q \in Nat : \E r \in 0..(n - 1) : m = n * q + r }
<1>1. 0 \in S
  <2>1. 0 = n * 0 + 0 /\ 0 \in 0..(n - 1)
    OBVIOUS
  <2> QED
    BY <2>1
<1>2. ASSUME NEW m \in Nat, m \in S  PROVE m + 1 \in S
  <2>1. PICK q \in Nat, r \in 0..(n - 1) : m = n * q + r
    BY <1>2
  <2>2. CASE r + 1 < n
    <3>1. r + 1 \in 0..(n - 1) /\ m + 1 = n * q + (r + 1)
      BY <2>1, <2>2
    <3> QED
      BY <3>1
  <2>3. CASE r + 1 = n
    <3>1. n * (q + 1) = n * q + n
      OBVIOUS
    <3>2. n * q \in Nat
      OBVIOUS
    <3>3. q + 1 \in Nat /\ 0 \in 0..(n - 1) /\ m + 1 = n * (q + 1) + 0
      BY <2>1, <2>3, <3>1, <3>2
    <3>4. \E p \in Nat : \E s \in 0..(n - 1) : m + 1 = n * p + s
      BY <3>3, Zenon
    <3> QED
      BY <3>4
  <2> QED
    BY <2>1, <2>2, <2>3
<1> HIDE DEF S
<1>3. h \in S
  BY <1>1, <1>2, Induction
<1> QED
  BY <1>3 DEF S

\* The remainder of a sum.
LEMMA Remainder ==
    ASSUME NEW n \in Nat \ {0}, NEW q \in Nat, NEW r \in 0..(n - 1)
    PROVE  (n * q + r) % n = r
  OBVIOUS

\* The steps of a probe that starts from the hash h.
LEMMA Circle ==
    ASSUME NEW n \in Nat \ {0}, NEW h \in Nat
    PROVE  \E r \in 0..(n - 1) : \A m \in 0..(n - 1) :
               (h + m) % n = IF r + m < n THEN r + m ELSE r + m - n
<1>1. PICK q \in Nat, r \in 0..(n - 1) : h = n * q + r
  BY Division
<1> SUFFICES ASSUME NEW m \in 0..(n - 1)
             PROVE  (h + m) % n = IF r + m < n THEN r + m ELSE r + m - n
  OBVIOUS
<1>2. n * q \in Nat /\ n * (q + 1) \in Nat /\ n * (q + 1) = n * q + n
  OBVIOUS
<1>3. CASE r + m < n
  <2>1. h + m = n * q + (r + m) /\ r + m \in 0..(n - 1)
    BY <1>1, <1>2, <1>3
  <2>2. (n * q + (r + m)) % n = r + m
    BY <2>1, Remainder
  <2> QED
    BY <1>3, <2>1, <2>2
<1>4. CASE ~ (r + m < n)
  <2>1. h + m = n * (q + 1) + (r + m - n) /\ r + m - n \in 0..(n - 1) /\ q + 1 \in Nat
    BY <1>1, <1>2, <1>4
  <2>2. (n * (q + 1) + (r + m - n)) % n = r + m - n
    BY <2>1, Remainder
  <2> QED
    BY <1>4, <2>1, <2>2
<1> QED
  BY <1>3, <1>4

\* A probe stays in the table, and comes to every entry once.
LEMMA Around ==
    ASSUME NEW n \in Nat \ {0}, NEW h \in Nat
    PROVE  /\ \A m \in 0..(n - 1) : ((h + m) % n) + 1 \in 1..n
           /\ \A i \in 1..n : \E m \in 0..(n - 1) : ((h + m) % n) + 1 = i
           /\ \A m, k \in 0..(n - 1) :
                  ((h + m) % n) + 1 = ((h + k) % n) + 1 => m = k
<1>1. PICK r \in 0..(n - 1) : \A m \in 0..(n - 1) :
          (h + m) % n = IF r + m < n THEN r + m ELSE r + m - n
  BY Circle
<1>2. \A m \in 0..(n - 1) : ((h + m) % n) + 1 \in 1..n
  BY <1>1
<1>3. ASSUME NEW i \in 1..n  PROVE \E m \in 0..(n - 1) : ((h + m) % n) + 1 = i
  <2> DEFINE m == IF r < i THEN i - 1 - r ELSE i - 1 - r + n
  <2>1. m \in 0..(n - 1) /\ (IF r + m < n THEN r + m ELSE r + m - n) = i - 1
    OBVIOUS
  <2> HIDE DEF m
  <2>2. (h + m) % n = IF r + m < n THEN r + m ELSE r + m - n
    BY <1>1, <2>1, Zenon
  <2>3. ((h + m) % n) + 1 = i
    BY <2>1, <2>2
  <2> QED
    BY <2>1, <2>3
<1>4. \A m, k \in 0..(n - 1) : ((h + m) % n) + 1 = ((h + k) % n) + 1 => m = k
  BY <1>1
<1> QED
  BY <1>2, <1>3, <1>4

-----------------------------------------------------------------------------

\* The containers that hold a key, and those at which a probe may stop.
Occ(t) == { i \in 1..Len(t) : t[i].key # NoKey }
NeverUsed(t) == { i \in 1..Len(t) : t[i].key = NoKey /\ ~ t[i].deleted }

\* A probe for k comes to container i before any that was never used.
Reached(t, k, i) ==
    \E n \in Steps(t) : At(t, k, n) = i
                     /\ \A m \in Steps(t) : m < n => At(t, k, m) \notin NeverUsed(t)

\* What every operation leaves of a table.
Sound(t) ==
    /\ t \in Seq(Container) /\ Len(t) >= 1
    /\ \A i \in 1..Len(t) : t[i].deleted => t[i].key = NoKey
    /\ \A i, j \in Occ(t) : t[i].key = t[j].key => i = j
    /\ \A i \in Occ(t) : Reached(t, t[i].key, i)

Hashes == hash \in [Key -> 0..(HashBound - 1)]

\* The item of k in t, NoItem where there is none.
Content(t, k) ==
    LET at == With(t, {k})
    IN  IF at = {} THEN NoItem ELSE t[CHOOSE i \in at : TRUE].item

\* The keys of a table.
KeysOf(t) == { t[i].key : i \in Occ(t) }

\* Every key is where its probe starts, and what makes that possible: no two
\* of keys start at one container of t.
AtHome(t) == \A i \in Occ(t) : At(t, t[i].key, 0) = i
Spread(t, keys) == \A x, y \in keys : At(t, x, 0) = At(t, y, 0) => x = y

\* What hashtable_find_and_set makes of t where it uses the container slot:
\* the first on the way of k that is free or its own.  No other container is
\* left with k.
Puts(t, k, item, slot) ==
    /\ slot = First(t, k, With(t, {NoKey, k}))
    /\ t[slot].key \in {NoKey, k}
    /\ \E n \in Steps(t) :
          /\ At(t, k, n) = slot
          /\ \A m \in Steps(t) : m < n => t[At(t, k, m)].key \notin {NoKey, k}
    /\ FindAndSet(t, k, item)
         = [i \in 1..Len(t) |->
              IF i = slot THEN [key |-> k, item |-> item, deleted |-> FALSE]
              ELSE IF t[i].key = k THEN [Unused EXCEPT !.deleted = TRUE]
              ELSE t[i]]

\* The table u differs from t by the item of k, which is in the container slot.
Differ(t, u, k, item, slot) ==
    /\ slot = First(t, k, With(t, {NoKey, k}))
    /\ t[slot].key \in {NoKey, k}
    /\ u[slot].key = k /\ u[slot].item = item
    /\ \A i \in 1..Len(t) : i # slot =>
          IF t[i].key = k THEN u[i].key = NoKey ELSE u[i] = t[i]

-----------------------------------------------------------------------------
(* Probes. *)

\* A probe stays in the table and comes to every container once.
LEMMA Probes ==
    ASSUME Hashes, NEW t, Len(t) \in Nat, Len(t) >= 1, NEW k \in Key
    PROVE  /\ \A m \in Steps(t) : At(t, k, m) \in 1..Len(t)
           /\ \A i \in 1..Len(t) : \E m \in Steps(t) : At(t, k, m) = i
           /\ \A m, n \in Steps(t) : At(t, k, m) = At(t, k, n) => m = n
           /\ 0 \in Steps(t)
<1>1. hash[k] \in Nat /\ Len(t) \in Nat \ {0}
  BY HashTableConstants DEF Hashes
<1>2. 0 \in Steps(t)
  BY DEF Steps
<1> QED
  BY <1>1, <1>2, Around DEF At, Steps

\* Where a probe that looks for hits stops.
LEMMA FirstHit ==
    ASSUME Hashes, NEW t, Len(t) \in Nat, Len(t) >= 1, NEW k \in Key, NEW hits
    PROVE  /\ First(t, k, hits) \in 1..Len(t)
           /\ hits \cap (1..Len(t)) # {} =>
                \E n \in Steps(t) :
                    /\ At(t, k, n) = First(t, k, hits) /\ At(t, k, n) \in hits
                    /\ \A m \in Steps(t) : m < n => At(t, k, m) \notin hits
           /\ hits \cap (1..Len(t)) = {} => First(t, k, hits) = At(t, k, 0)
<1> DEFINE steps == { n \in Steps(t) : At(t, k, n) \in hits }
<1>1. /\ \A m \in Steps(t) : At(t, k, m) \in 1..Len(t)
      /\ \A i \in 1..Len(t) : \E m \in Steps(t) : At(t, k, m) = i
      /\ 0 \in Steps(t)
  BY Probes
<1>2. First(t, k, hits) = At(t, k, IF steps = {} THEN 0 ELSE Min(steps))
  BY DEF First
<1>3. steps \subseteq Nat /\ steps \subseteq Steps(t)
  BY DEF Steps
<1>4. CASE steps = {}
  <2>1. hits \cap (1..Len(t)) = {}
    BY <1>1, <1>4
  <2> QED
    BY <1>1, <1>2, <1>4, <2>1
<1>5. CASE steps # {}
  <2> DEFINE n == Min(steps)
  <2>1. n \in steps /\ \A m \in steps : n <= m
    BY <1>3, <1>5, MinLeast, Zenon
  <2>2. First(t, k, hits) = At(t, k, n)
    BY <1>2, <1>5
  <2> HIDE DEF n
  <2>3. n \in Steps(t) /\ At(t, k, n) \in hits
    BY <2>1
  <2>4. \A m \in Steps(t) : m < n => At(t, k, m) \notin hits
    BY <2>1 DEF Steps
  <2> QED
    BY <1>1, <2>2, <2>3, <2>4
<1> QED
  BY <1>4, <1>5

-----------------------------------------------------------------------------
(* Tables as functions. *)

\* A table is a function from its places to containers.
LEMMA Cells ==
    ASSUME NEW t \in Seq(Container)
    PROVE  /\ Len(t) \in Nat /\ DOMAIN t = 1..Len(t)
           /\ t \in [1..Len(t) -> Container]
           /\ \A i \in 1..Len(t) :
                 /\ t[i].key \in Key \cup {NoKey} /\ t[i].item \in Item \cup {NoItem}
                 /\ t[i].deleted \in BOOLEAN
<1>1. Len(t) \in Nat /\ DOMAIN t = 1..Len(t) /\ t \in [1..Len(t) -> Container]
  BY LenProperties
<1>2. \A i \in 1..Len(t) : t[i] \in Container
  BY <1>1
<1> QED
  BY <1>1, <1>2 DEF Container

\* The other way round.
LEMMA Made ==
    ASSUME NEW n \in Nat, NEW f \in [1..n -> Container]
    PROVE  f \in Seq(Container) /\ Len(f) = n
  BY IsASeq, LenProperties

\* The parts of Unused, and a container of k.
LEMMA Fresh ==
    ASSUME NEW k \in Key, NEW item \in Item \cup {NoItem}
    PROVE  /\ Unused \in Container /\ [Unused EXCEPT !.deleted = TRUE] \in Container
           /\ [key |-> k, item |-> item, deleted |-> FALSE] \in Container
           /\ Unused.key = NoKey /\ Unused.deleted = FALSE
           /\ [Unused EXCEPT !.deleted = TRUE].key = NoKey
           /\ [Unused EXCEPT !.deleted = TRUE].deleted = TRUE
           /\ k # NoKey
  BY HashTableConstants DEF Unused, Container

\* Setting a container is setting a container, whatever table it is.
LEMMA SetsOne ==
    ASSUME Hashes, NEW t \in Seq(Container), Len(t) >= 1,
           NEW k \in Key, NEW item \in Item \cup {NoItem}
    PROVE  FindAndSet(t, k, item) \in [1..Len(t) -> Container]
<1> DEFINE slot == First(t, k, With(t, {NoKey, k}))
           old == First(t, k, With(t, {k}))
           neverUsed == t[slot].key = NoKey /\ slot \notin Gone(t)
           cleared == IF ~ neverUsed /\ t[old].key = k
                      THEN [t EXCEPT ![old] = [Unused EXCEPT !.deleted = TRUE]]
                      ELSE t
<1>1. t \in [1..Len(t) -> Container]
  BY Cells
<1>2. [Unused EXCEPT !.deleted = TRUE] \in Container
      /\ [key |-> k, item |-> item, deleted |-> FALSE] \in Container
  BY Fresh
<1>3. cleared \in [1..Len(t) -> Container]
  BY <1>1, <1>2
<1>4. FindAndSet(t, k, item)
        = [cleared EXCEPT ![slot] = [key |-> k, item |-> item, deleted |-> FALSE]]
  BY DEF FindAndSet
<1> HIDE DEF cleared, slot
<1> QED
  BY <1>2, <1>3, <1>4

\* hashtable_find_and_set on a sound table that has room.
LEMMA Stored ==
    ASSUME Hashes, NEW t, Sound(t), NEW k \in Key, NEW item \in Item \cup {NoItem},
           With(t, {NoKey, k}) # {}
    PROVE  \E slot \in 1..Len(t) : Puts(t, k, item, slot)
<1> DEFINE slot == First(t, k, With(t, {NoKey, k}))
           old == First(t, k, With(t, {k}))
           neverUsed == t[slot].key = NoKey /\ slot \notin Gone(t)
           gone == [Unused EXCEPT !.deleted = TRUE]
           new == [key |-> k, item |-> item, deleted |-> FALSE]
           cleared == IF ~ neverUsed /\ t[old].key = k THEN [t EXCEPT ![old] = gone] ELSE t
<1>1. t \in Seq(Container) /\ Len(t) \in Nat /\ Len(t) >= 1 /\ t \in [1..Len(t) -> Container]
  BY Cells DEF Sound
<1>2. k # NoKey
  BY HashTableConstants
<1>3. With(t, {NoKey, k}) \cap (1..Len(t)) # {}
  BY DEF With
<1>4. /\ slot \in 1..Len(t)
      /\ \E n \in Steps(t) :
           /\ At(t, k, n) = slot /\ At(t, k, n) \in With(t, {NoKey, k})
           /\ \A m \in Steps(t) : m < n => At(t, k, m) \notin With(t, {NoKey, k})
  BY <1>1, <1>3, FirstHit
<1>5. \A m \in Steps(t) : At(t, k, m) \in 1..Len(t)
  BY <1>1, Probes
<1> HIDE DEF slot, old
<1>6. PICK n \in Steps(t) :
        /\ At(t, k, n) = slot
        /\ \A m \in Steps(t) : m < n => t[At(t, k, m)].key \notin {NoKey, k}
  BY <1>4, <1>5 DEF With
<1>7. t[slot].key \in {NoKey, k}
  BY <1>4 DEF With
<1>8. ASSUME NEW i \in 1..Len(t), t[i].key = k  PROVE i = old /\ t[old].key = k /\ ~ neverUsed
  <2>1. i \in With(t, {k}) \cap (1..Len(t))
    BY <1>8 DEF With
  <2>2. old \in 1..Len(t) /\ old \in With(t, {k})
    BY <1>1, <2>1, FirstHit DEF old
  <2>3. t[old].key = k
    BY <2>2 DEF With
  <2>4. i = old
    BY <1>2, <1>8, <2>2, <2>3 DEF Sound, Occ
  <2>5. PICK x \in Steps(t) : At(t, k, x) = i
                   /\ \A m \in Steps(t) : m < x => At(t, k, m) \notin NeverUsed(t)
    BY <1>2, <1>8 DEF Sound, Occ, Reached
  <2>6. ASSUME neverUsed  PROVE FALSE
    <3>1. slot \in NeverUsed(t)
      BY <1>4, <2>6 DEF NeverUsed, Gone
    <3>2. ~ (n < x)
      BY <1>6, <2>5, <3>1
    <3>3. ~ (x < n)
      BY <1>6, <1>8, <2>5
    <3>4. x = n
      BY <3>2, <3>3 DEF Steps
    <3> QED
      BY <1>2, <1>6, <1>8, <2>5, <2>6, <3>4
  <2> QED
    BY <2>3, <2>4, <2>6
<1>9. FindAndSet(t, k, item) = [cleared EXCEPT ![slot] = new]
  BY DEF FindAndSet, slot, old
<1>10. cleared = [i \in 1..Len(t) |-> IF t[i].key = k THEN gone ELSE t[i]]
  <2>1. CASE ~ neverUsed /\ t[old].key = k
    <3>1. cleared = [t EXCEPT ![old] = gone]
      BY <2>1
    <3>2. \A i \in 1..Len(t) : t[i].key = k <=> i = old
      BY <1>8, <2>1
    <3> HIDE DEF cleared, gone
    <3> QED
      BY <1>1, <3>1, <3>2
  <2>2. CASE ~ (~ neverUsed /\ t[old].key = k)
    <3>1. cleared = t
      BY <2>2
    <3>2. \A i \in 1..Len(t) : t[i].key # k
      BY <1>8, <2>2
    <3> HIDE DEF cleared, gone
    <3> QED
      BY <1>1, <3>1, <3>2
  <2> QED
    BY <2>1, <2>2
<1>11. FindAndSet(t, k, item)
        = [i \in 1..Len(t) |-> IF i = slot THEN new
                               ELSE IF t[i].key = k THEN gone ELSE t[i]]
  <2> HIDE DEF cleared, gone, new
  <2> QED
    BY <1>4, <1>9, <1>10
<1>12. slot = First(t, k, With(t, {NoKey, k}))
  BY DEF slot
<1> QED
  BY <1>4, <1>6, <1>7, <1>11, <1>12, Zenon DEF Puts

-----------------------------------------------------------------------------
(* What a table holds. *)

\* Content is the item of the container that holds k.
LEMMA ContentIs ==
    ASSUME NEW t, Sound(t), NEW k \in Key
    PROVE  /\ \A i \in 1..Len(t) : t[i].key = k => Content(t, k) = t[i].item
           /\ (\A i \in 1..Len(t) : t[i].key # k) => Content(t, k) = NoItem
<1>1. k # NoKey
  BY HashTableConstants
<1>2. ASSUME NEW i \in 1..Len(t), t[i].key = k  PROVE Content(t, k) = t[i].item
  <2>1. i \in With(t, {k})
    BY <1>2 DEF With
  <2>2. \A j \in With(t, {k}) : j = i
    BY <1>1, <1>2 DEF With, Sound, Occ
  <2> DEFINE j == CHOOSE x \in With(t, {k}) : TRUE
  <2>3. j = i
    BY <2>1, <2>2, Zenon
  <2>4. Content(t, k) = t[j].item
    BY <2>1 DEF Content
  <2> QED
    BY <2>3, <2>4, Zenon
<1>3. ASSUME \A i \in 1..Len(t) : t[i].key # k  PROVE Content(t, k) = NoItem
  <2>1. With(t, {k}) = {}
    BY <1>3 DEF With
  <2> QED
    BY <2>1 DEF Content
<1> QED
  BY <1>2, <1>3

\* hashtable_get returns what the table holds, wherever the key was put.
LEMMA Found ==
    ASSUME Hashes, NEW t, Sound(t), NEW k \in Key
    PROVE  Find(t, k) = Content(t, k)
<1> DEFINE hits == With(t, {NoKey, k}) \ Gone(t)
           at == First(t, k, hits)
<1>1. t \in Seq(Container) /\ Len(t) \in Nat /\ Len(t) >= 1
  BY Cells DEF Sound
<1>2. k # NoKey
  BY HashTableConstants
<1>3. Find(t, k) = IF t[at].key = k THEN t[at].item ELSE NoItem
  BY DEF Find
<1>4. at \in 1..Len(t)
  BY <1>1, FirstHit
<1>5. CASE t[at].key = k
  BY <1>3, <1>4, <1>5, ContentIs
<1>6. CASE t[at].key # k
  <2>1. ASSUME NEW i \in 1..Len(t), t[i].key = k  PROVE FALSE
    <3>1. i \in hits /\ i \in Occ(t)
      BY <1>2, <2>1 DEF With, Gone, Sound, Occ
    <3>2. hits \cap (1..Len(t)) # {}
      BY <3>1
    <3>3. PICK n \in Steps(t) :
            /\ At(t, k, n) = at /\ At(t, k, n) \in hits
            /\ \A m \in Steps(t) : m < n => At(t, k, m) \notin hits
      BY <1>1, <3>2, FirstHit
    <3>4. PICK x \in Steps(t) : At(t, k, x) = i
                 /\ \A m \in Steps(t) : m < x => At(t, k, m) \notin NeverUsed(t)
      BY <2>1, <3>1 DEF Sound, Reached
    <3> HIDE DEF at
    <3>5. at \in NeverUsed(t)
      BY <1>4, <1>6, <3>3 DEF With, Gone, NeverUsed
    <3>6. ~ (n < x)
      BY <3>3, <3>4, <3>5
    <3>7. ~ (x < n)
      BY <3>1, <3>3, <3>4
    <3>8. x = n
      BY <3>6, <3>7 DEF Steps
    <3> QED
      BY <1>6, <2>1, <3>3, <3>4, <3>8
  <2>2. Content(t, k) = NoItem
    BY <2>1, ContentIs
  <2> QED
    BY <1>3, <1>6, <2>2
<1> QED
  BY <1>5, <1>6

-----------------------------------------------------------------------------
(* hashtable_find_and_set. *)

\* No key is lost, moved out of the reach of its probe, or put in twice.
LEMMA StoresSound ==
    ASSUME Hashes, NEW t, Sound(t), NEW k \in Key, NEW item \in Item \cup {NoItem},
           With(t, {NoKey, k}) # {}, NEW u, u = FindAndSet(t, k, item)
    PROVE  /\ Sound(u) /\ Len(u) = Len(t)
           /\ \E slot \in 1..Len(t) : Differ(t, u, k, item, slot)
<1> DEFINE gone == [Unused EXCEPT !.deleted = TRUE]
           new == [key |-> k, item |-> item, deleted |-> FALSE]
<1>1. t \in Seq(Container) /\ Len(t) \in Nat /\ Len(t) >= 1 /\ t \in [1..Len(t) -> Container]
  BY Cells DEF Sound
<1>0. PICK slot \in 1..Len(t) : Puts(t, k, item, slot)
  BY Stored
<1>2. /\ slot = First(t, k, With(t, {NoKey, k}))
      /\ t[slot].key \in {NoKey, k}
      /\ \E n \in Steps(t) :
           /\ At(t, k, n) = slot
           /\ \A m \in Steps(t) : m < n => t[At(t, k, m)].key \notin {NoKey, k}
      /\ u = [i \in 1..Len(t) |-> IF i = slot THEN new
                                  ELSE IF t[i].key = k THEN gone ELSE t[i]]
  BY <1>0 DEF Puts
<1>3. gone \in Container /\ new \in Container
      /\ gone.key = NoKey /\ gone.deleted = TRUE /\ k # NoKey
  BY Fresh
<1>4. new.key = k /\ new.item = item /\ new.deleted = FALSE
  OBVIOUS
<1> HIDE DEF gone, new
<1>5. /\ u \in [1..Len(t) -> Container]
      /\ u[slot] = new
      /\ \A i \in 1..Len(t) : i # slot => u[i] = IF t[i].key = k THEN gone ELSE t[i]
  BY <1>1, <1>2, <1>3
<1>6. u \in Seq(Container) /\ Len(u) = Len(t)
  BY <1>1, <1>5, Made
<1>7. Steps(u) = Steps(t) /\ \A x, n : At(u, x, n) = At(t, x, n)
  BY <1>6 DEF Steps, At
<1>8. \A i \in 1..Len(u) : u[i].deleted => u[i].key = NoKey
  BY <1>3, <1>4, <1>5, <1>6 DEF Sound
<1>9. \A i, j \in Occ(u) : u[i].key = u[j].key => i = j
  BY <1>3, <1>4, <1>5, <1>6 DEF Sound, Occ
<1>10. ASSUME NEW j \in NeverUsed(u)  PROVE j \in NeverUsed(t) /\ j # slot
  <2>1. j \in 1..Len(t) /\ j # slot /\ u[j].key = NoKey /\ ~ u[j].deleted
    BY <1>3, <1>4, <1>5, <1>6 DEF NeverUsed
  <2>2. u[j] = t[j]
    BY <1>3, <1>5, <2>1
  <2> QED
    BY <2>1, <2>2 DEF NeverUsed
<1>11. ASSUME NEW i \in Occ(u)  PROVE Reached(u, u[i].key, i)
  <2>1. CASE i = slot
    <3>1. PICK n \in Steps(t) :
             /\ At(t, k, n) = slot
             /\ \A m \in Steps(t) : m < n => t[At(t, k, m)].key \notin {NoKey, k}
      BY <1>2
    <3>2. \A m \in Steps(u) : m < n => At(u, k, m) \notin NeverUsed(u)
      BY <1>7, <1>10, <3>1 DEF NeverUsed
    <3>3. u[i].key = k
      BY <1>4, <1>5, <2>1
    <3> QED
      BY <1>7, <2>1, <3>1, <3>2, <3>3 DEF Reached
  <2>2. CASE i # slot
    <3>1. i \in 1..Len(t) /\ u[i] = t[i] /\ i \in Occ(t)
      BY <1>3, <1>5, <1>6, <2>2 DEF Occ
    <3>2. PICK n \in Steps(t) : At(t, t[i].key, n) = i
             /\ \A m \in Steps(t) : m < n => At(t, t[i].key, m) \notin NeverUsed(t)
      BY <3>1 DEF Sound, Reached
    <3>3. \A m \in Steps(u) : m < n => At(u, t[i].key, m) \notin NeverUsed(u)
      BY <1>7, <1>10, <3>2
    <3> QED
      BY <1>7, <3>1, <3>2, <3>3 DEF Reached
  <2> QED
    BY <2>1, <2>2
<1>12. Len(u) >= 1
  BY <1>1, <1>6
<1>13. Sound(u)
  BY <1>6, <1>8, <1>9, <1>11, <1>12, Zenon DEF Sound
<1> QED
  BY <1>2, <1>3, <1>4, <1>5, <1>6, <1>13 DEF Differ

\* Only the item of k changes, and one container more is in use at most.
LEMMA Stores ==
    ASSUME Hashes, NEW t, Sound(t), NEW k \in Key, NEW item \in Item \cup {NoItem},
           With(t, {NoKey, k}) # {}, NEW u, u = FindAndSet(t, k, item)
    PROVE  /\ Content(u, k) = item
           /\ \A x \in Key : x # k => Content(u, x) = Content(t, x)
           /\ IsFiniteSet(Occ(t)) /\ Cardinality(Occ(u)) <= Cardinality(Occ(t)) + 1
<1>0. PICK slot \in 1..Len(t) : Differ(t, u, k, item, slot)
  BY StoresSound
<1>1. /\ u[slot].key = k /\ u[slot].item = item
      /\ t[slot].key \in {NoKey, k}
      /\ \A i \in 1..Len(t) : i # slot =>
            IF t[i].key = k THEN u[i].key = NoKey ELSE u[i] = t[i]
  BY <1>0 DEF Differ
<1>2. Sound(u) /\ Len(u) = Len(t) /\ Len(t) \in Nat
  <2>1. Sound(u) /\ Len(u) = Len(t)
    BY StoresSound
  <2> QED
    BY <2>1, Cells DEF Sound
<1>3. k # NoKey /\ NoKey \notin Key
  BY HashTableConstants
<1>4. Content(u, k) = item
  BY <1>1, <1>2, ContentIs
<1>5. ASSUME NEW x \in Key, x # k  PROVE Content(u, x) = Content(t, x)
  <2>1. \A i \in 1..Len(t) : u[i].key = x => u[i] = t[i]
    BY <1>1, <1>3, <1>5
  <2>2. \A i \in 1..Len(t) : t[i].key = x => u[i] = t[i]
    BY <1>1, <1>3, <1>5
  <2>3. CASE \E i \in 1..Len(t) : t[i].key = x
    BY <1>2, <2>2, <2>3, ContentIs
  <2>4. CASE ~ \E i \in 1..Len(t) : t[i].key = x
    <3>1. \A i \in 1..Len(t) : u[i].key # x /\ t[i].key # x
      BY <2>1, <2>4
    <3> QED
      BY <1>2, <3>1, ContentIs
  <2> QED
    BY <2>3, <2>4
<1>6. Occ(u) \subseteq Occ(t) \cup {slot}
  BY <1>1, <1>2 DEF Occ
<1>7. IsFiniteSet(Occ(t)) /\ Cardinality(Occ(t)) \in Nat
  <2>1. IsFiniteSet(1..Len(t)) /\ Occ(t) \in SUBSET (1..Len(t))
    BY <1>2, FS_Interval DEF Occ
  <2> QED
    BY <2>1, FS_Subset, FS_CardinalityType
<1>8. /\ IsFiniteSet(Occ(t) \cup {slot})
      /\ Cardinality(Occ(t) \cup {slot}) <= Cardinality(Occ(t)) + 1
  BY <1>7, FS_AddElement
<1>9. Cardinality(Occ(u)) <= Cardinality(Occ(t) \cup {slot})
      /\ Cardinality(Occ(u)) \in Nat /\ Cardinality(Occ(t) \cup {slot}) \in Nat
  BY <1>6, <1>8, FS_Subset, FS_CardinalityType
<1> QED
  BY <1>4, <1>5, <1>7, <1>8, <1>9

\* The table has one key more, and it is at home if it can be.
LEMMA StoresKey ==
    ASSUME Hashes, NEW t, Sound(t), NEW k \in Key, NEW item \in Item \cup {NoItem},
           With(t, {NoKey, k}) # {}, NEW u, u = FindAndSet(t, k, item)
    PROVE  /\ KeysOf(u) = KeysOf(t) \cup {k}
           /\ AtHome(t) /\ Spread(t, KeysOf(t) \cup {k}) => AtHome(u)
<1>0. PICK slot \in 1..Len(t) : Differ(t, u, k, item, slot)
  BY StoresSound
<1>1. /\ slot = First(t, k, With(t, {NoKey, k}))
      /\ u[slot].key = k /\ t[slot].key \in {NoKey, k}
      /\ \A i \in 1..Len(t) : i # slot =>
            IF t[i].key = k THEN u[i].key = NoKey ELSE u[i] = t[i]
  BY <1>0 DEF Differ
<1>2. Len(u) = Len(t) /\ Len(t) \in Nat /\ Len(t) >= 1
  <2>1. Len(u) = Len(t)
    BY StoresSound
  <2> QED
    BY <2>1, Cells DEF Sound
<1>3. k # NoKey
  BY HashTableConstants
<1>4. KeysOf(u) = KeysOf(t) \cup {k}
  <2>1. ASSUME NEW x \in KeysOf(u)  PROVE x \in KeysOf(t) \cup {k}
    <3>1. PICK i \in Occ(u) : x = u[i].key
      BY DEF KeysOf
    <3>2. i = slot \/ (u[i] = t[i] /\ i \in Occ(t))
      BY <1>1, <1>2, <3>1 DEF Occ
    <3> QED
      BY <1>1, <3>1, <3>2 DEF KeysOf
  <2>2. ASSUME NEW x \in KeysOf(t), x # k  PROVE x \in KeysOf(u)
    <3>1. PICK i \in Occ(t) : x = t[i].key
      BY DEF KeysOf
    <3>2. i \in 1..Len(t) /\ i # slot /\ x # NoKey
      BY <1>1, <2>2, <3>1 DEF Occ
    <3>3. u[i] = t[i] /\ i \in Occ(u)
      BY <1>1, <1>2, <2>2, <3>1, <3>2 DEF Occ
    <3> QED
      BY <3>1, <3>3 DEF KeysOf
  <2>3. k \in KeysOf(u)
    BY <1>1, <1>2, <1>3 DEF KeysOf, Occ
  <2> QED
    BY <2>1, <2>2, <2>3
<1>5. ASSUME AtHome(t), Spread(t, KeysOf(t) \cup {k})  PROVE AtHome(u)
  <2>1. \A x : At(u, x, 0) = At(t, x, 0)
    BY <1>2 DEF At
  <2>2. At(t, k, 0) \in 1..Len(t) /\ 0 \in Steps(t)
    BY <1>2, Probes
  <2>3. t[At(t, k, 0)].key \in {NoKey, k}
    <3> SUFFICES ASSUME t[At(t, k, 0)].key # NoKey  PROVE t[At(t, k, 0)].key = k
      OBVIOUS
    <3>1. At(t, k, 0) \in Occ(t)
      BY <2>2 DEF Occ
    <3> QED
      BY <1>5, <3>1 DEF AtHome, Spread, KeysOf
  <2>4. slot = At(t, k, 0)
    <3> DEFINE hits == With(t, {NoKey, k})
    <3>1. At(t, k, 0) \in hits /\ hits \cap (1..Len(t)) # {}
      BY <2>2, <2>3 DEF With
    <3> HIDE DEF hits
    <3>2. PICK n \in Steps(t) : /\ At(t, k, n) = First(t, k, hits)
                               /\ \A m \in Steps(t) : m < n => At(t, k, m) \notin hits
      BY <1>2, <3>1, FirstHit
    <3>3. n = 0
      BY <2>2, <3>1, <3>2 DEF Steps
    <3> QED
      BY <1>1, <3>2, <3>3 DEF hits
  <2>5. ASSUME NEW i \in Occ(u)  PROVE At(u, u[i].key, 0) = i
    <3>1. CASE i = slot
      BY <1>1, <2>1, <2>4, <3>1
    <3>2. CASE i # slot
      <4>1. u[i] = t[i] /\ i \in Occ(t)
        BY <1>1, <1>2, <3>2 DEF Occ
      <4> QED
        BY <1>5, <2>1, <4>1 DEF AtHome
    <3> QED
      BY <3>1, <3>2
  <2> QED
    BY <2>5 DEF AtHome
<1> QED
  BY <1>4, <1>5

-----------------------------------------------------------------------------
(* expand_hashtable and shrink_hashtable. *)

\* The containers in use are finitely many.
LEMMA Counted ==
    ASSUME NEW t, Sound(t)
    PROVE  /\ IsFiniteSet(Occ(t)) /\ Cardinality(Occ(t)) \in Nat
           /\ Cardinality(Occ(t)) <= Len(t) /\ Occ(t) \subseteq 1..Len(t)
           /\ Kept(t) = Occ(t)
<1>1. Len(t) \in Nat
  BY Cells DEF Sound
<1>2. IsFiniteSet(1..Len(t)) /\ Occ(t) \in SUBSET (1..Len(t)) /\ Cardinality(1..Len(t)) = Len(t)
  BY <1>1, FS_Interval DEF Occ
<1>3. IsFiniteSet(Occ(t)) /\ Cardinality(Occ(t)) <= Len(t)
  BY <1>2, FS_Subset
<1>4. Kept(t) = Occ(t)
  BY DEF Kept, Occ, Sound
<1> QED
  BY <1>2, <1>3, <1>4, FS_CardinalityType

\* A table with fewer keys than containers has room.
LEMMA HasRoom ==
    ASSUME NEW t, Sound(t), Cardinality(Occ(t)) < Len(t), NEW k
    PROVE  With(t, {NoKey, k}) # {}
<1>1. Len(t) \in Nat
  BY Cells DEF Sound
<1>2. Cardinality(1..Len(t)) = Len(t)
  BY <1>1, FS_Interval
<1>3. Occ(t) # 1..Len(t)
  BY <1>1, <1>2
<1> QED
  BY <1>3 DEF Occ, With

\* initialize_containers.
LEMMA BlankIs ==
    ASSUME NEW n \in Nat, n >= 1, NEW t, t = Blank(n)
    PROVE  /\ Sound(t) /\ Len(t) = n /\ t \in [1..n -> Container]
           /\ Occ(t) = {} /\ KeysOf(t) = {} /\ AtHome(t) /\ Cardinality(Occ(t)) = 0
<1> DEFINE f == [i \in 1..n |-> Unused]
<1>1. Unused \in Container /\ Unused.key = NoKey /\ Unused.deleted = FALSE
  BY DEF Unused, Container
<1>2. f \in [1..n -> Container] /\ f \in Seq(Container) /\ Len(f) = n
  BY <1>1, Made
<1>3. t = f
  <2>1. t = SubSeq(f, 1, n)
    BY DEF Blank
  <2>2. \A i \in 1..n : f[i] = Unused
    OBVIOUS
  <2> HIDE DEF f
  <2>3. t \in Seq(Container) /\ Len(t) = n /\ \A i \in 1..n : t[i] = f[i]
    BY <1>2, <2>1, SubSeqProperties
  <2>4. t \in [1..n -> Container]
    BY <2>3, Cells
  <2> QED
    BY <1>2, <2>3, <2>4
<1>4. \A i \in 1..n : t[i] = Unused
  BY <1>3
<1> HIDE DEF f
<1>5. t \in Seq(Container) /\ Len(t) = n /\ t \in [1..n -> Container]
  BY <1>2, <1>3
<1>6. Occ(t) = {}
  BY <1>1, <1>4, <1>5 DEF Occ
<1>7. Sound(t)
  BY <1>1, <1>4, <1>5, <1>6 DEF Sound
<1> QED
  BY <1>5, <1>6, <1>7, FS_EmptySet DEF KeysOf, AtHome

\* The containers of t that i turns of the loop have moved.
Passed(t, i) == Kept(t) \cap (1..i)

\* What the new table u of n containers is after those turns.
Moved(t, n, i, u) ==
    /\ Sound(u) /\ Len(u) = n /\ u \in [1..n -> Container]
    /\ Cardinality(Occ(u)) <= Cardinality(Passed(t, i))
    /\ \A j \in Passed(t, i) : Content(u, t[j].key) = t[j].item
    /\ KeysOf(u) = { t[j].key : j \in Passed(t, i) }
    /\ Spread(u, KeysOf(t)) => AtHome(u)

\* One turn.
LEMMA Turn ==
    ASSUME Hashes, NEW t, Sound(t), NEW n \in Nat, n >= 1, Cardinality(Kept(t)) <= n,
           NEW i \in Nat, i + 1 <= Len(t), NEW u, Moved(t, n, i, u),
           NEW v, v = IF i + 1 \in Kept(t) THEN FindAndSet(u, t[i + 1].key, t[i + 1].item) ELSE u
    PROVE  Moved(t, n, i + 1, v)
<1>1. /\ Len(t) \in Nat /\ IsFiniteSet(Kept(t)) /\ Kept(t) = Occ(t)
      /\ Kept(t) \subseteq 1..Len(t) /\ Cardinality(Kept(t)) \in Nat
  BY Counted, Cells DEF Sound
<1>2. IsFiniteSet(Passed(t, i)) /\ Cardinality(Passed(t, i)) \in Nat
  <2>1. Passed(t, i) \in SUBSET Kept(t)
    BY DEF Passed
  <2> QED
    BY <1>1, <2>1, FS_Subset, FS_CardinalityType
<1>3. CASE i + 1 \notin Kept(t)
  <2>1. Passed(t, i + 1) = Passed(t, i)
    BY <1>1, <1>3 DEF Passed
  <2> QED
    BY <1>3, <2>1 DEF Moved
<1>4. CASE i + 1 \in Kept(t)
  <2> DEFINE k == t[i + 1].key
             item == t[i + 1].item
             P == Passed(t, i)
  <2>1. k \in Key /\ item \in Item \cup {NoItem} /\ i + 1 \in Occ(t)
    BY <1>1, <1>4, Cells DEF Sound, Occ
  <2>2. Passed(t, i + 1) = P \cup {i + 1} /\ i + 1 \notin P
    BY <1>1, <1>4 DEF Passed
  <2>3. /\ IsFiniteSet(P \cup {i + 1}) /\ Cardinality(P \cup {i + 1}) = Cardinality(P) + 1
    BY <1>2, <2>2, FS_AddElement
  <2>4. Cardinality(P \cup {i + 1}) <= Cardinality(Kept(t))
    <3>1. P \cup {i + 1} \in SUBSET Kept(t)
      BY <1>4 DEF Passed
    <3> QED
      BY <1>1, <3>1, FS_Subset
  <2>5. /\ Sound(u) /\ Len(u) = n
        /\ Cardinality(Occ(u)) <= Cardinality(P)
        /\ \A j \in P : Content(u, t[j].key) = t[j].item
        /\ KeysOf(u) = { t[j].key : j \in P }
        /\ Spread(u, KeysOf(t)) => AtHome(u)
    BY DEF Moved
  <2>6. Cardinality(Occ(u)) \in Nat
    BY <2>5, Counted
  <2>7. With(u, {NoKey, k}) # {}
    <3>1. Cardinality(Occ(u)) < Len(u)
      BY <1>1, <1>2, <2>3, <2>4, <2>5, <2>6
    <3> QED
      BY <2>5, <3>1, HasRoom
  <2> HIDE DEF k, item
  <2>8. v = FindAndSet(u, k, item)
    BY <1>4 DEF k, item
  <2>9. Sound(v) /\ Len(v) = n
    BY <2>1, <2>5, <2>7, <2>8, StoresSound
  <2>10. v \in [1..n -> Container]
    BY <2>9, Cells DEF Sound
  <2>11. Content(v, k) = item /\ (\A x \in Key : x # k => Content(v, x) = Content(u, x))
         /\ Cardinality(Occ(v)) <= Cardinality(Occ(u)) + 1
    BY <2>1, <2>5, <2>7, <2>8, Stores
  <2>12. Cardinality(Occ(v)) <= Cardinality(Passed(t, i + 1))
    <3>1. Cardinality(Occ(v)) \in Nat
      BY <2>9, Counted
    <3>2. Cardinality(Passed(t, i + 1)) = Cardinality(P) + 1
      BY <2>2, <2>3
    <3> HIDE DEF P
    <3>3. Cardinality(P) \in Nat
      BY <1>2 DEF P
    <3> QED
      BY <2>5, <2>6, <2>11, <3>1, <3>2, <3>3
  <2>13. ASSUME NEW j \in Passed(t, i + 1)  PROVE Content(v, t[j].key) = t[j].item
    <3>1. CASE j = i + 1
      BY <2>11, <3>1 DEF k, item
    <3>2. CASE j # i + 1
      <4>1. j \in P /\ j \in Occ(t)
        BY <1>1, <2>2, <3>2 DEF Passed
      <4>2. t[j].key # k
        BY <2>1, <3>2, <4>1 DEF Sound, k
      <4>3. t[j].key \in Key
        BY <4>1, Cells DEF Sound, Occ
      <4> QED
        BY <2>5, <2>11, <4>1, <4>2, <4>3
    <3> QED
      BY <3>1, <3>2
  <2>14. /\ KeysOf(v) = KeysOf(u) \cup {k}
         /\ AtHome(u) /\ Spread(u, KeysOf(u) \cup {k}) => AtHome(v)
    BY <2>1, <2>5, <2>7, <2>8, StoresKey
  <2>15. KeysOf(v) = { t[j].key : j \in Passed(t, i + 1) }
    BY <2>2, <2>5, <2>14 DEF k
  <2>16. ASSUME Spread(v, KeysOf(t))  PROVE AtHome(v)
    <3>1. Spread(u, KeysOf(t))
      BY <2>5, <2>9, <2>16 DEF Spread, At
    <3>2. KeysOf(u) \cup {k} \subseteq KeysOf(t)
      BY <1>1, <2>1, <2>5 DEF KeysOf, Passed, k
    <3>3. Spread(u, KeysOf(u) \cup {k})
      BY <3>1, <3>2 DEF Spread
    <3> QED
      BY <2>5, <2>14, <3>1, <3>3
  <2> QED
    BY <2>9, <2>10, <2>12, <2>13, <2>15, <2>16 DEF Moved
<1> QED
  BY <1>3, <1>4

\* A change of size keeps every key and its item, and what had to be cleared
\* on the way is gone: no more containers are in use than there are keys.
LEMMA Resizes ==
    ASSUME Hashes, NEW t, Sound(t), NEW n \in Nat, n >= 1, Cardinality(Kept(t)) <= n,
           NEW u, u = Resize(t, n)
    PROVE  /\ Sound(u) /\ Len(u) = n
           /\ Cardinality(Occ(u)) <= Cardinality(Kept(t))
           /\ \A k \in Key : Content(u, k) = Content(t, k)
           /\ KeysOf(u) = KeysOf(t)
           /\ Spread(u, KeysOf(t)) => AtHome(u)
<1> DEFINE X == [1..n -> Container]
           b == Blank(n)
           step == [p \in Nat \X X |->
                       IF p[1] \in Kept(t) THEN FindAndSet(p[2], t[p[1]].key, t[p[1]].item)
                       ELSE p[2]]
           L == Len(t)
           Is(f) == f = [i \in 0..L |-> IF i = 0 THEN b
                            ELSE IF i \in Kept(t)
                                 THEN FindAndSet(f[i - 1], t[i].key, t[i].item)
                                 ELSE f[i - 1]]
           moved == CHOOSE f : Is(f)
<1>1. /\ L \in Nat /\ Kept(t) = Occ(t) /\ Kept(t) \subseteq 1..L
  BY Counted, Cells DEF Sound
<1>2. b \in X /\ Sound(b) /\ Len(b) = n /\ KeysOf(b) = {} /\ AtHome(b) /\ Cardinality(Occ(b)) = 0
  BY BlankIs
<1>3. step \in [Nat \X X -> X]
  <2> SUFFICES ASSUME NEW i \in Nat, NEW x \in X, i \in Kept(t)
               PROVE  FindAndSet(x, t[i].key, t[i].item) \in X
    OBVIOUS
  <2>1. x \in Seq(Container) /\ Len(x) = n
    BY Made
  <2>2. t[i].key \in Key /\ t[i].item \in Item \cup {NoItem}
    BY <1>1, Cells DEF Sound, Occ
  <2> QED
    BY <2>1, <2>2, SetsOne
<1>4. u = moved[L]
  BY DEF Resize
<1> HIDE DEF b
<1> HIDE DEF X, step
<1>5. PICK f \in [0..L -> X] : Iterates(L, b, step, f)
  BY <1>1, <1>2, <1>3, Recursion
<1>6. Is(f)
  <2>1. \A i \in 1..L : f[i - 1] \in X
    BY <1>1
  <2>2. \A i \in 1..L : step[<<i, f[i - 1]>>]
                  = IF i \in Kept(t) THEN FindAndSet(f[i - 1], t[i].key, t[i].item)
                    ELSE f[i - 1]
    BY <1>1, <2>1 DEF step
  <2>3. f = [i \in 0..L |-> IF i = 0 THEN b ELSE step[<<i, f[i - 1]>>]]
    BY <1>5 DEF Iterates
  <2>4. \A i \in 0..L :
          (IF i = 0 THEN b ELSE step[<<i, f[i - 1]>>])
            = (IF i = 0 THEN b
               ELSE IF i \in Kept(t) THEN FindAndSet(f[i - 1], t[i].key, t[i].item)
               ELSE f[i - 1])
    BY <1>1, <2>2
  <2> HIDE DEF moved
  <2> QED
    BY <2>3, <2>4
<1>7. Is(moved)
  BY <1>6, Zenon
<1> HIDE DEF moved
<1>8. moved[0] = b
  BY <1>1, <1>7
<1>9. \A i \in 1..L : moved[i] = IF i \in Kept(t)
                                THEN FindAndSet(moved[i - 1], t[i].key, t[i].item)
                                ELSE moved[i - 1]
  <2> SUFFICES ASSUME NEW i \in 1..L
               PROVE  moved[i] = IF i \in Kept(t)
                                 THEN FindAndSet(moved[i - 1], t[i].key, t[i].item)
                                 ELSE moved[i - 1]
    OBVIOUS
  <2>1. i \in 0..L /\ i # 0
    BY <1>1
  <2> QED
    BY <1>7, <2>1, Zenon
<1> HIDE DEF Is
<1> DEFINE S == { i \in Nat : i <= L => Moved(t, n, i, moved[i]) }
<1>10. 0 \in S
  <2>1. Passed(t, 0) = {}
    BY DEF Passed
  <2>2. Moved(t, n, 0, b)
    BY <1>2, <2>1, FS_EmptySet DEF Moved, X
  <2> QED
    BY <1>8, <2>2
<1>11. ASSUME NEW i \in Nat, i \in S  PROVE i + 1 \in S
  <2> SUFFICES ASSUME i + 1 <= L  PROVE Moved(t, n, i + 1, moved[i + 1])
    OBVIOUS
  <2>1. Moved(t, n, i, moved[i])
    BY <1>1, <1>11
  <2>2. i + 1 \in 1..L /\ (i + 1) - 1 = i
    BY <1>1
  <2>3. moved[i + 1] = IF i + 1 \in Kept(t)
                       THEN FindAndSet(moved[i], t[i + 1].key, t[i + 1].item) ELSE moved[i]
    BY <1>9, <2>2
  <2> QED
    BY <2>1, <2>3, Turn
<1> HIDE DEF S
<1>12. L \in S
  BY <1>1, <1>10, <1>11, Induction
<1>13. Moved(t, n, L, u)
  BY <1>1, <1>4, <1>12 DEF S
<1>14. Passed(t, L) = Occ(t)
  BY <1>1 DEF Passed
<1>15. /\ Sound(u) /\ Len(u) = n
       /\ Cardinality(Occ(u)) <= Cardinality(Kept(t))
       /\ \A j \in Occ(t) : Content(u, t[j].key) = t[j].item
       /\ KeysOf(u) = KeysOf(t)
       /\ Spread(u, KeysOf(t)) => AtHome(u)
  BY <1>1, <1>13, <1>14 DEF Moved, KeysOf
<1>16. ASSUME NEW k \in Key  PROVE Content(u, k) = Content(t, k)
  <2>0. k # NoKey
    BY HashTableConstants
  <2>1. CASE \E j \in 1..L : t[j].key = k
    <3>1. PICK j \in 1..L : t[j].key = k
      BY <2>1
    <3>2. j \in Occ(t)
      BY <2>0, <3>1 DEF Occ
    <3> QED
      BY <1>15, <3>1, <3>2, ContentIs
  <2>2. CASE ~ \E j \in 1..L : t[j].key = k
    <3>1. k \notin KeysOf(u)
      BY <1>15, <2>2 DEF KeysOf, Occ
    <3>2. \A j \in 1..Len(u) : u[j].key # k
      BY <2>0, <3>1 DEF KeysOf, Occ
    <3> QED
      BY <1>15, <2>2, <3>2, ContentIs
  <2> QED
    BY <2>1, <2>2
<1> QED
  BY <1>15, <1>16

-----------------------------------------------------------------------------
(* The operations. *)

\* The count that comes with a sound table.
Counts(t, n) == n \in 0..Len(t) /\ Cardinality(Occ(t)) <= n

\* hashtable_set, whether it expands the table first or not.
LEMMA Sets ==
    ASSUME Hashes, NEW t, Sound(t), NEW n, Counts(t, n), NEW k \in Key,
           NEW item \in Item \cup {NoItem}, NEW u, NEW m,
           After(t, n, k, item) = [table |-> u, filled |-> m]
    PROVE  /\ Sound(u) /\ Counts(u, m)
           /\ Content(u, k) = item
           /\ \A x \in Key : x # k => Content(u, x) = Content(t, x)
           /\ KeysOf(u) = KeysOf(t) \cup {k}
           /\ (Spread(t, KeysOf(t)) => AtHome(t)) =>
                (Spread(u, KeysOf(u)) => AtHome(u))
<1>1. /\ Len(t) \in Nat /\ Len(t) >= 1 /\ n \in 0..Len(t)
      /\ Cardinality(Occ(t)) \in Nat /\ Cardinality(Occ(t)) <= n /\ Kept(t) = Occ(t)
  BY Cells, Counted DEF Sound, Counts
<1>2. ASSUME NEW v, Sound(v), Len(v) \in Nat, NEW c \in Nat, Cardinality(Occ(v)) <= c,
             c < Len(v), u = FindAndSet(v, k, item), m = c + 1,
             KeysOf(v) = KeysOf(t),
             \A x \in Key : Content(v, x) = Content(t, x),
             (Spread(t, KeysOf(t)) => AtHome(t)) => (Spread(v, KeysOf(v)) => AtHome(v))
      PROVE  /\ Sound(u) /\ Counts(u, m)
             /\ Content(u, k) = item
             /\ \A x \in Key : x # k => Content(u, x) = Content(t, x)
             /\ KeysOf(u) = KeysOf(t) \cup {k}
             /\ (Spread(t, KeysOf(t)) => AtHome(t)) =>
                  (Spread(u, KeysOf(u)) => AtHome(u))
  <2>1. Cardinality(Occ(v)) \in Nat
    BY <1>2, Counted
  <2>2. With(v, {NoKey, k}) # {}
    <3>1. Cardinality(Occ(v)) < Len(v)
      BY <1>2, <2>1
    <3> QED
      BY <1>2, <3>1, HasRoom
  <2>3. Sound(u) /\ Len(u) = Len(v)
    BY <1>2, <2>2, StoresSound
  <2>4. /\ Content(u, k) = item
        /\ \A x \in Key : x # k => Content(u, x) = Content(v, x)
        /\ Cardinality(Occ(u)) <= Cardinality(Occ(v)) + 1
    BY <1>2, <2>2, Stores
  <2>5. /\ KeysOf(u) = KeysOf(v) \cup {k}
        /\ AtHome(v) /\ Spread(v, KeysOf(v) \cup {k}) => AtHome(u)
    BY <1>2, <2>2, StoresKey
  <2>6. Cardinality(Occ(u)) \in Nat
    BY <2>3, Counted
  <2>7. Counts(u, m)
    BY <1>2, <2>1, <2>3, <2>4, <2>6 DEF Counts
  <2>8. ASSUME Spread(t, KeysOf(t)) => AtHome(t), Spread(u, KeysOf(u))  PROVE AtHome(u)
    <3>1. Spread(v, KeysOf(v) \cup {k})
      BY <2>3, <2>5, <2>8 DEF Spread, At
    <3>2. Spread(v, KeysOf(v))
      BY <3>1 DEF Spread
    <3> QED
      BY <1>2, <2>5, <2>8, <3>1, <3>2
  <2> QED
    BY <1>2, <2>3, <2>4, <2>5, <2>7, <2>8
<1>3. CASE n = Len(t)
  <2> DEFINE v == Resize(t, 2 * Len(t))
             c == Cardinality(Kept(t))
  <2>1. 2 * Len(t) \in Nat /\ 2 * Len(t) >= 1 /\ c <= 2 * Len(t) /\ c < 2 * Len(t) /\ c \in Nat
    BY <1>1
  <2>2. /\ Sound(v) /\ Len(v) = 2 * Len(t)
        /\ Cardinality(Occ(v)) <= c
        /\ \A x \in Key : Content(v, x) = Content(t, x)
        /\ KeysOf(v) = KeysOf(t)
        /\ Spread(v, KeysOf(t)) => AtHome(v)
    BY <2>1, Resizes
  <2>3. After(t, n, k, item) = [table |-> FindAndSet(v, k, item), filled |-> c + 1]
    BY <1>3 DEF After
  <2>4. u = FindAndSet(v, k, item) /\ m = c + 1
    BY <2>3
  <2> HIDE DEF v, c
  <2> QED
    BY <1>2, <2>1, <2>2, <2>4
<1>4. CASE n # Len(t)
  <2>1. After(t, n, k, item) = [table |-> FindAndSet(t, k, item), filled |-> n + 1]
    BY <1>4 DEF After
  <2>2. u = FindAndSet(t, k, item) /\ m = n + 1
    BY <2>1
  <2>3. n \in Nat /\ n < Len(t)
    BY <1>1, <1>4
  <2> QED
    BY <1>1, <1>2, <2>2, <2>3
<1> QED
  BY <1>3, <1>4

Cleared(t, i) == [t EXCEPT ![i] = [Unused EXCEPT !.deleted = TRUE]]

\* hashtable_delete before it shrinks the table: k is gone, and nothing else.
LEMMA Clears ==
    ASSUME Hashes, NEW t, Sound(t), NEW i \in 1..Len(t), t[i].key \in Key,
           NEW u, u = Cleared(t, i)
    PROVE  /\ Sound(u) /\ Len(u) = Len(t)
           /\ Content(u, t[i].key) = NoItem
           /\ \A x \in Key : x # t[i].key => Content(u, x) = Content(t, x)
           /\ Cardinality(Occ(u)) = Cardinality(Occ(t)) - 1
<1> DEFINE gone == [Unused EXCEPT !.deleted = TRUE]
<1>1. t \in Seq(Container) /\ Len(t) \in Nat /\ Len(t) >= 1 /\ t \in [1..Len(t) -> Container]
  BY Cells DEF Sound
<1>2. gone \in Container /\ gone.key = NoKey /\ gone.deleted = TRUE
  BY DEF Unused, Container
<1>3. NoKey \notin Key
  BY HashTableConstants
<1> HIDE DEF gone
<1>4. /\ u \in [1..Len(t) -> Container] /\ u[i] = gone
      /\ \A j \in 1..Len(t) : j # i => u[j] = t[j]
  BY <1>1, <1>2 DEF gone, Cleared
<1>5. u \in Seq(Container) /\ Len(u) = Len(t)
  BY <1>1, <1>4, Made
<1>6. Occ(u) = Occ(t) \ {i} /\ i \in Occ(t)
  BY <1>2, <1>3, <1>4, <1>5 DEF Occ
<1>7. NeverUsed(u) \subseteq NeverUsed(t)
  BY <1>2, <1>4, <1>5 DEF NeverUsed
<1>8. Steps(u) = Steps(t) /\ \A x, n : At(u, x, n) = At(t, x, n)
  BY <1>5 DEF Steps, At
<1>9. ASSUME NEW j \in Occ(u)  PROVE Reached(u, u[j].key, j)
  <2>1. j \in Occ(t) /\ u[j] = t[j]
    BY <1>4, <1>6 DEF Occ
  <2>2. PICK n \in Steps(t) : At(t, t[j].key, n) = j
           /\ \A m \in Steps(t) : m < n => At(t, t[j].key, m) \notin NeverUsed(t)
    BY <2>1 DEF Sound, Reached
  <2>3. \A m \in Steps(u) : m < n => At(u, t[j].key, m) \notin NeverUsed(u)
    BY <1>7, <1>8, <2>2
  <2> QED
    BY <1>8, <2>1, <2>2, <2>3 DEF Reached
<1>10. \A j \in 1..Len(u) : u[j].deleted => u[j].key = NoKey
  BY <1>2, <1>4, <1>5 DEF Sound
<1>11. \A x, y \in Occ(u) : u[x].key = u[y].key => x = y
  BY <1>4, <1>6 DEF Sound, Occ
<1>12. Len(u) >= 1
  BY <1>1, <1>5
<1>13. Sound(u)
  BY <1>5, <1>9, <1>10, <1>11, <1>12, Zenon DEF Sound
<1>14. Content(u, t[i].key) = NoItem
  <2>1. ASSUME NEW j \in 1..Len(u)  PROVE u[j].key # t[i].key
    <3>1. CASE j = i
      BY <1>2, <1>3, <1>4, <3>1
    <3>2. CASE j # i
      <4>1. u[j] = t[j]
        BY <1>4, <1>5, <3>2
      <4>2. t[j].key = t[i].key => j \in Occ(t)
        BY <1>3, <1>5 DEF Occ
      <4> QED
        BY <1>6, <3>2, <4>1, <4>2 DEF Sound
    <3> QED
      BY <3>1, <3>2
  <2> QED
    BY <1>13, <2>1, ContentIs
<1>15. ASSUME NEW x \in Key, x # t[i].key  PROVE Content(u, x) = Content(t, x)
  <2>1. \A j \in 1..Len(t) : u[j].key = x <=> t[j].key = x
    BY <1>2, <1>3, <1>4, <1>15
  <2>2. CASE \E j \in 1..Len(t) : t[j].key = x
    <3>1. PICK j \in 1..Len(t) : t[j].key = x
      BY <2>2
    <3>2. u[j] = t[j]
      BY <1>4, <1>15, <3>1
    <3> QED
      BY <1>5, <1>13, <3>1, <3>2, ContentIs
  <2>3. CASE ~ \E j \in 1..Len(t) : t[j].key = x
    BY <1>5, <1>13, <2>1, <2>3, ContentIs
  <2> QED
    BY <2>2, <2>3
<1>16. Cardinality(Occ(u)) = Cardinality(Occ(t)) - 1
  <2>1. IsFiniteSet(Occ(t))
    BY Counted
  <2> QED
    BY <1>6, <2>1, FS_RemoveElement
<1> QED
  BY <1>5, <1>13, <1>14, <1>15, <1>16

-----------------------------------------------------------------------------
(* The invariant. *)

IInv ==
    /\ Hashes /\ Sound(table) /\ Counts(table, filled)
    /\ answer \in Item \cup {NoItem} /\ crashed \in BOOLEAN

LEMMA InvImplies == IInv => TypeOK /\ RoomLeft
  BY DEF IInv, Hashes, Sound, Counts, TypeOK, RoomLeft, Occupied, Occ

\* The map that KeepsMap speaks of is what the table holds.
LEMMA MapIs == map = [k \in Key |-> Content(table, k)]
<1>1. ASSUME NEW k \in Key
      PROVE  { i \in Occupied : table[i].key = k } = With(table, {k})
  BY HashTableConstants DEF Occupied, With
<1> DEFINE At1(k) == { i \in Occupied : table[i].key = k }
           Of(at) == IF at = {} THEN NoItem ELSE table[CHOOSE i \in at : TRUE].item
<1>2. map = [k \in Key |-> Of(At1(k))]
  BY DEF map
<1>3. \A k \in Key : Content(table, k) = Of(With(table, {k}))
  BY DEF Content
<1>4. \A k \in Key : At1(k) = With(table, {k})
  BY <1>1
<1> HIDE DEF At1, Of
<1>5. \A k \in Key : Of(At1(k)) = Content(table, k)
  BY <1>3, <1>4
<1> QED
  BY <1>2, <1>5

LEMMA MapNext == (map = [k \in Key |-> Content(table, k)])'
  BY MapIs, PTL

\* The new table maps every key but k to what the old one did.
LEMMA MapChanges ==
    ASSUME NEW k \in Key, NEW item, Content(table', k) = item,
           \A x \in Key : x # k => Content(table', x) = Content(table, x)
    PROVE  map' = [map EXCEPT ![k] = item]
<1>1. map' = [x \in Key |-> Content(table', x)]
  BY MapNext DEF Content, With
<1> QED
  BY <1>1, MapIs

LEMMA InitInv == Init => IInv
<1> SUFFICES ASSUME Init  PROVE IInv
  OBVIOUS
<1>1. PICK d \in BOOLEAN : table = <<[Unused EXCEPT !.deleted = d]>>
  BY DEF Init
<1> DEFINE c == [Unused EXCEPT !.deleted = d]
<1>2. c \in Container /\ c.key = NoKey
  BY DEF Unused, Container
<1> HIDE DEF c
<1>3. table \in Seq(Container) /\ Len(table) = 1 /\ table[1] = c
  BY <1>1, <1>2 DEF c
<1>4. Occ(table) = {}
  BY <1>2, <1>3 DEF Occ
<1>5. Sound(table)
  BY <1>2, <1>3, <1>4 DEF Sound
<1>6. Counts(table, filled)
  <2>1. Cardinality(Occ(table)) = 0 /\ filled = 0
    BY <1>4, FS_EmptySet DEF Init
  <2> QED
    BY <1>3, <2>1 DEF Counts
<1> QED
  BY <1>5, <1>6 DEF IInv, Init, Hashes

\* A step of hashtable_set.
LEMMA SetStep ==
    ASSUME IInv, NEW k \in Key, NEW item \in Item \cup {NoItem}, Set(k, item)
    PROVE  IInv' /\ map' = [map EXCEPT ![k] = item]
<1>1. /\ After(table, filled, k, item) = [table |-> table', filled |-> filled']
      /\ UNCHANGED <<hash, answer, crashed>>
  BY DEF Set, After
<1>2. Hashes /\ Sound(table) /\ Counts(table, filled)
  BY DEF IInv
<1>3. /\ Sound(table') /\ Counts(table', filled')
      /\ Content(table', k) = item
      /\ \A x \in Key : x # k => Content(table', x) = Content(table, x)
  BY <1>1, <1>2, Sets
<1>4. map' = [map EXCEPT ![k] = item]
  BY <1>3, MapChanges
<1>5. Sound(table)' /\ Counts(table, filled)'
  BY <1>1, <1>3 DEF Sound, Counts, Occ, Reached, NeverUsed, Steps, At
<1> QED
  BY <1>1, <1>4, <1>5 DEF IInv, Hashes

\* A step of hashtable_delete.
LEMMA DeleteStep ==
    ASSUME IInv, NEW k \in Key, Delete(k)
    PROVE  IInv' /\ (map' = [map EXCEPT ![k] = NoItem] \/ UNCHANGED <<table, filled>>)
                 /\ UNCHANGED answer
<1> DEFINE at == First(table, k, With(table, {NoKey, k}))
<1>1. Hashes /\ Sound(table) /\ Counts(table, filled) /\ UNCHANGED <<hash, answer>>
  BY DEF IInv, Delete
<1>2. k # NoKey /\ NoKey \notin Key
  BY HashTableConstants
<1>3. Len(table) \in Nat /\ Len(table) >= 1 /\ table \in Seq(Container)
  BY <1>1, Cells DEF Sound
<1>4. at \in 1..Len(table)
  BY <1>1, <1>3, FirstHit
<1>5. CASE table[at].key = k
  <2> DEFINE left == Cleared(table, at)
             less == filled - 1
             shrinks == less <= Len(table) \div 4 /\ Len(table) > 1
  <2>1. /\ table' = IF shrinks THEN Resize(left, Len(table) \div 2) ELSE left
        /\ filled' = IF shrinks THEN Cardinality(Kept(left)) ELSE less
        /\ crashed' = crashed
    BY <1>2, <1>5 DEF Delete, Cleared
  <2>2. /\ Sound(left) /\ Len(left) = Len(table)
        /\ Content(left, k) = NoItem
        /\ \A x \in Key : x # k => Content(left, x) = Content(table, x)
        /\ Cardinality(Occ(left)) = Cardinality(Occ(table)) - 1
    <3>1. left = Cleared(table, at) /\ table[at].key \in Key
      BY <1>5
    <3> HIDE DEF left, at
    <3> QED
      BY <1>1, <1>4, <1>5, <3>1, Clears
  <2> HIDE DEF left, at
  <2>3. /\ Cardinality(Occ(left)) \in Nat /\ Kept(left) = Occ(left)
        /\ Cardinality(Occ(left)) <= less /\ less \in 0..Len(table)
    <3>1. Cardinality(Occ(left)) \in Nat /\ Kept(left) = Occ(left)
          /\ Cardinality(Occ(table)) \in Nat
      BY <1>1, <2>2, Counted
    <3> QED
      BY <1>1, <1>3, <2>2, <3>1 DEF Counts
  <2>4. /\ Sound(table') /\ Counts(table', filled')
        /\ Content(table', k) = NoItem
        /\ \A x \in Key : x # k => Content(table', x) = Content(table, x)
    <3>1. CASE shrinks
      <4> DEFINE n == Len(table) \div 2
                 c == Cardinality(Kept(left))
      <4>1. n \in Nat /\ n >= 1 /\ c \in Nat /\ c <= n
        BY <1>3, <2>3, <3>1
      <4>2. table' = Resize(left, n) /\ filled' = c
        BY <2>1, <3>1
      <4> HIDE DEF n, shrinks
      <4>3. /\ Sound(table') /\ Len(table') = n
            /\ Cardinality(Occ(table')) <= c
            /\ \A x \in Key : Content(table', x) = Content(left, x)
        BY <1>1, <2>2, <4>1, <4>2, Resizes
      <4>4. Counts(table', filled')
        BY <4>1, <4>2, <4>3 DEF Counts
      <4> QED
        BY <2>2, <4>3, <4>4
    <3>2. CASE ~ shrinks
      <4>1. table' = left /\ filled' = less
        BY <2>1, <3>2
      <4>2. Counts(table', filled')
        BY <2>2, <2>3, <4>1 DEF Counts
      <4> QED
        BY <2>2, <4>1, <4>2
    <3> QED
      BY <3>1, <3>2
  <2>5. map' = [map EXCEPT ![k] = NoItem]
    BY <2>4, MapChanges
  <2>6. Sound(table)' /\ Counts(table, filled)'
    BY <1>1, <2>4 DEF Sound, Counts, Occ, Reached, NeverUsed, Steps, At
  <2> QED
    BY <1>1, <2>1, <2>5, <2>6 DEF IInv, Hashes
<1>6. CASE table[at].key # k
  <2>1. UNCHANGED <<table, filled>> /\ crashed' \in BOOLEAN
    BY <1>6 DEF Delete, IInv
  <2>2. Sound(table)' /\ Counts(table, filled)'
    BY <1>1, <2>1 DEF Sound, Counts, Occ, Reached, NeverUsed, Steps, At
  <2> QED
    BY <1>1, <2>1, <2>2 DEF IInv, Hashes
<1> QED
  BY <1>5, <1>6

\* Steps that leave the table alone.
LEMMA Unmoved ==
    ASSUME IInv, UNCHANGED <<hash, table, filled>>
    PROVE  Hashes' /\ Sound(table)' /\ Counts(table, filled)' /\ map' = map
<1>1. Hashes /\ Sound(table) /\ Counts(table, filled)
  BY DEF IInv
<1> QED
  BY <1>1 DEF Hashes, Sound, Counts, Occ, Reached, NeverUsed, Steps, At, map, Occupied

\* A step of hashtable_get.
LEMMA GetStep ==
    ASSUME IInv, NEW k \in Key, Get(k)
    PROVE  IInv' /\ answer' = map[k] /\ map' = map
<1>1. Hashes /\ Sound(table) /\ UNCHANGED <<hash, table, filled, crashed>>
      /\ answer' = Find(table, k)
  BY DEF IInv, Get
<1>2. answer' = map[k]
  BY <1>1, Found, MapIs
<1>3. answer' \in Item \cup {NoItem}
  <2>1. Find(table, k) \in Item \cup {NoItem}
    <3>1. table \in Seq(Container) /\ Len(table) \in Nat /\ Len(table) >= 1
      BY <1>1, Cells DEF Sound
    <3>2. First(table, k, With(table, {NoKey, k}) \ Gone(table)) \in 1..Len(table)
      BY <1>1, <3>1, FirstHit
    <3> QED
      BY <3>1, <3>2, Cells DEF Find
  <2> QED
    BY <1>1, <2>1
<1>4. Hashes' /\ Sound(table)' /\ Counts(table, filled)' /\ map' = map
  BY <1>1, Unmoved
<1> QED
  BY <1>1, <1>2, <1>3, <1>4 DEF IInv

\* Every step keeps the invariant and is one of the map, or none.
LEMMA NextInv ==
    ASSUME IInv, [Next]_vars
    PROVE  IInv' /\ [Map!Next]_<<map, answer>>
<1>1. ASSUME NEW k \in Key, NEW item \in Item \cup {NoItem}, Set(k, item)
      PROVE  IInv' /\ [Map!Next]_<<map, answer>>
  <2>1. IInv' /\ map' = [map EXCEPT ![k] = item]
    BY <1>1, SetStep
  <2>2. answer' = answer
    BY <1>1 DEF Set
  <2> QED
    BY <2>1, <2>2 DEF Map!Next, Map!Put
<1>2. ASSUME NEW k \in Key, Get(k)  PROVE IInv' /\ [Map!Next]_<<map, answer>>
  <2>1. IInv' /\ answer' = map[k] /\ map' = map
    BY <1>2, GetStep
  <2> QED
    BY <2>1 DEF Map!Next, Map!Look
<1>3. ASSUME NEW k \in Key, Delete(k)  PROVE IInv' /\ [Map!Next]_<<map, answer>>
  <2>1. /\ IInv' /\ answer' = answer
        /\ map' = [map EXCEPT ![k] = NoItem] \/ UNCHANGED <<table, filled>>
    BY <1>3, DeleteStep
  <2>2. CASE map' = [map EXCEPT ![k] = NoItem]
    BY <2>1, <2>2 DEF Map!Next, Map!Put
  <2>3. CASE UNCHANGED <<table, filled>>
    <3>1. map' = map
      BY <2>3 DEF map, Occupied
    <3> QED
      BY <2>1, <3>1
  <2> QED
    BY <2>1, <2>2, <2>3
<1>4. ASSUME UNCHANGED vars  PROVE IInv' /\ [Map!Next]_<<map, answer>>
  <2>1. UNCHANGED <<hash, table, filled, answer, crashed>>
    BY <1>4 DEF vars
  <2>2. Hashes' /\ Sound(table)' /\ Counts(table, filled)' /\ map' = map
    BY <2>1, Unmoved
  <2> QED
    BY <2>1, <2>2 DEF IInv
<1> QED
  BY <1>1, <1>2, <1>3, <1>4 DEF Next

LEMMA Invariant == Spec => []IInv
<1>1. IInv /\ [Next]_vars => IInv'
  BY NextInv
<1> QED
  BY InitInv, <1>1, PTL DEF Spec

-----------------------------------------------------------------------------
(* The theorems. *)

\* The table, its count and what it answers have their types: the count that
\* hashtable_set and hashtable_delete keep never exceeds the size.
THEOREM TypeCorrect == Spec => []TypeOK
<1>1. IInv => TypeOK
  BY InvImplies
<1> QED
  BY Invariant, <1>1, PTL

\* The assertions of hashtable_find_and_set never fail: as long as the count
\* is below the size there is a free container.
THEOREM RoomAlways == Spec => []RoomLeft
<1>1. IInv => RoomLeft
  BY InvImplies
<1> QED
  BY Invariant, <1>1, PTL

\* The table is a map from keys to items, for every number of keys, every
\* hash function and every order of calls: hashtable_set, hashtable_get and
\* hashtable_delete do to their key what KeyMap says, and no probe, tombstone
\* or change of size loses or revives another one.
THEOREM MapKept == Spec => KeepsMap
<1>1. Init => Map!Init
  <2> SUFFICES ASSUME Init  PROVE Map!Init
    OBVIOUS
  <2>1. PICK d \in BOOLEAN : table = <<[Unused EXCEPT !.deleted = d]>>
    BY DEF Init
  <2>2. Len(table) = 1 /\ table[1].key = NoKey
    BY <2>1 DEF Unused
  <2>3. Occupied = {}
    BY <2>2 DEF Occupied
  <2>4. map = [k \in Key |-> NoItem]
    BY <2>3 DEF map
  <2> QED
    BY <2>4 DEF Init, Map!Init
<1>2. IInv /\ [Next]_vars => [Map!Next]_<<map, answer>>
  BY NextInv
<1> QED
  BY Invariant, <1>1, <1>2, PTL DEF Spec, KeepsMap, Map!Spec
=============================================================================
