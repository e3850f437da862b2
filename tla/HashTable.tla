----------------------------- MODULE HashTable -----------------------------
(***************************************************************************)
(* The hash table under the environments, the scopes of the resolver and   *)
(* the distances of the tree-walking interpreter                           *)
(* (src/treewalk/hashtable/hash_table.c): linear probing, doubled when     *)
(* full, halved when a deletion leaves it a quarter full.                  *)
(*                                                                         *)
(* Nothing in src/treewalk calls hashtable_delete; it is modelled as the   *)
(* header offers it.                                                       *)
(***************************************************************************)
EXTENDS Naturals, Sequences, FiniteSets, SequencesExt

CONSTANTS
    Key,
    Item,
    NoItem,     \* a NULL item
    NoKey,      \* a NULL key
    HashBound,  \* hashes are taken from 0..HashBound - 1
    MaxSize     \* bounds the size to which hashtable_set expands

ASSUME HashTableConstants ==
    /\ NoKey \notin Key /\ NoItem \notin Item
    /\ HashBound \in Nat \ {0} /\ MaxSize \in Nat \ {0}

VARIABLES
    hash,       \* hash(key), any function of the characters
    table,      \* the containers
    filled,
    answer,     \* what the latest hashtable_get returned
    crashed     \* hashtable_delete followed a NULL key

vars == <<hash, table, filled, answer, crashed>>

Container == [key : Key \cup {NoKey}, item : Item \cup {NoItem}, deleted : BOOLEAN]

Unused == [key |-> NoKey, item |-> NoItem, deleted |-> FALSE]

TypeOK ==
    /\ hash \in [Key -> 0..(HashBound - 1)]
    /\ table \in Seq(Container)
    /\ filled \in 0..Len(table)
    /\ answer \in Item \cup {NoItem}
    /\ crashed \in BOOLEAN

\* hashtable_new leaves `deleted` of its only container uninitialised.
Init ==
    /\ hash \in [Key -> 0..(HashBound - 1)]
    /\ \E d \in BOOLEAN : table = <<[Unused EXCEPT !.deleted = d]>>
    /\ filled = 0
    /\ answer = NoItem
    /\ crashed = FALSE

-----------------------------------------------------------------------------
(* Probing: a probe of t for k visits At(t, k, 0), At(t, k, 1), ... *)

At(t, k, n) == ((hash[k] + n) % Len(t)) + 1

Steps(t) == 0..(Len(t) - 1)

\* The containers that hold one of keys, and the deleted ones.
With(t, keys) == { i \in 1..Len(t) : t[i].key \in keys }
Gone(t) == { i \in 1..Len(t) : t[i].deleted }

\* The first of the containers hits that the probe for k comes to; after the
\* full circle it is back at its home.
First(t, k, hits) ==
    LET steps == { n \in Steps(t) : At(t, k, n) \in hits }
    IN  At(t, k, IF steps = {} THEN 0 ELSE Min(steps))

\* FindAndSet that reuses a deleted container without looking further.
FindAndSetEarly(t, k, item) ==
    [t EXCEPT ![First(t, k, With(t, {NoKey, k}))] =
                    [key |-> k, item |-> item, deleted |-> FALSE]]

\* hashtable_find_and_set: the first container on the way that is free or
\* holds k is used.  Unless that one was never used, an entry of k further
\* on is destroyed.
FindAndSet(t, k, item) ==
    LET slot == First(t, k, With(t, {NoKey, k}))
        old == First(t, k, With(t, {k}))
        neverUsed == t[slot].key = NoKey /\ slot \notin Gone(t)
        cleared == IF ~ neverUsed /\ t[old].key = k
                   THEN [t EXCEPT ![old] = [Unused EXCEPT !.deleted = TRUE]]
                   ELSE t
    IN  [cleared EXCEPT ![slot] = [key |-> k, item |-> item, deleted |-> FALSE]]

\* The containers that a change of size puts into the new table.
Kept(t) == { i \in 1..Len(t) : ~ t[i].deleted /\ t[i].key # NoKey }

\* initialize_containers; SubSeq makes it a tuple once and for all.
Blank(n) == SubSeq([i \in 1..n |-> Unused], 1, n)

\* expand_hashtable and shrink_hashtable: moved[i] is the new table after i
\* turns of their loop.
Resize(t, n) ==
    LET moved[i \in 0..Len(t)] ==
            IF i = 0 THEN Blank(n)
            ELSE IF i \in Kept(t)
                 THEN FindAndSet(moved[i - 1], t[i].key, t[i].item)
                 ELSE moved[i - 1]
    IN  moved[Len(t)]

-----------------------------------------------------------------------------
Full == filled = Len(table)

\* Set that expands one entry too late.
SetCrowded(k, item) ==
    /\ table' = FindAndSet(IF filled > Len(table)
                           THEN Resize(table, 2 * Len(table)) ELSE table, k, item)
    /\ filled' = filled + 1
    /\ UNCHANGED <<hash, answer, crashed>>

\* Set that counts the entries of the new table and forgets its own.
SetUncounted(k, item) ==
    /\ Full => 2 * Len(table) <= MaxSize
    /\ table' = FindAndSet(IF Full THEN Resize(table, 2 * Len(table)) ELSE table,
                           k, item)
    /\ filled' = IF Full THEN Cardinality(Kept(table)) ELSE filled + 1
    /\ UNCHANGED <<hash, answer, crashed>>

\* hashtable_set on a table t that counts n.  A key that was there already is
\* counted again; only a change of size corrects the count.
After(t, n, k, item) ==
    IF n = Len(t)
    THEN [table |-> FindAndSet(Resize(t, 2 * Len(t)), k, item),
          filled |-> Cardinality(Kept(t)) + 1]
    ELSE [table |-> FindAndSet(t, k, item), filled |-> n + 1]

Set(k, item) ==
    /\ Full => 2 * Len(table) <= MaxSize
    /\ LET s == After(table, filled, k, item)
       IN  table' = s.table /\ filled' = s.filled
    /\ UNCHANGED <<hash, answer, crashed>>

\* What hashtable_get returns: it skips the deleted containers.
Find(t, k) ==
    LET c == t[First(t, k, With(t, {NoKey, k}) \ Gone(t))]
    IN  IF c.key = k THEN c.item ELSE NoItem

Get(k) ==
    /\ answer' = Find(table, k)
    /\ UNCHANGED <<hash, table, filled, crashed>>

\* What hashtable_has returns: the index that moves is not the one it tests.
Has(t, k) == t[At(t, k, 0)].key = k

\* hashtable_delete compares the key of every container it passes, one that
\* holds none included.
Delete(k) ==
    LET at == First(table, k, With(table, {NoKey, k}))
    IN  /\ CASE table[at].key = NoKey ->
                  crashed' = TRUE /\ UNCHANGED <<table, filled>>
             [] table[at].key = k ->
                  LET left == [table EXCEPT ![at] = [Unused EXCEPT !.deleted = TRUE]]
                      shrinks == filled - 1 <= Len(table) \div 4 /\ Len(table) > 1
                  IN  /\ table' = IF shrinks THEN Resize(left, Len(table) \div 2)
                                             ELSE left
                      /\ filled' = IF shrinks THEN Cardinality(Kept(left)) ELSE filled - 1
                      /\ UNCHANGED crashed
             [] OTHER -> UNCHANGED <<table, filled, crashed>>
        /\ UNCHANGED <<hash, answer>>

Next ==
    \/ /\ ~ crashed
       /\ \E k \in Key :
             \/ \E item \in Item \cup {NoItem} : Set(k, item)
             \/ Get(k)
             \/ Delete(k)
    \/ crashed /\ UNCHANGED vars

Spec == Init /\ [][Next]_vars

-----------------------------------------------------------------------------
(* Properties. *)

Occupied == { i \in 1..Len(table) : table[i].key # NoKey }

\* Both assertions of hashtable_find_and_set hold whenever it is called: the
\* count, wrong as it is after an overwrite, never falls behind the keys the
\* table holds, so a table that is not full by its count has a free slot.
RoomLeft == Cardinality(Occupied) <= filled

map ==
    [ k \in Key |->
        LET at == { i \in Occupied : table[i].key = k }
        IN  IF at = {} THEN NoItem ELSE table[CHOOSE i \in at : TRUE].item ]

Map == INSTANCE KeyMap

\* The table is a map from keys to items: hashtable_get finds every key
\* wherever deletions, overwrites and changes of size have moved it, and a
\* growth or a shrinkage in the middle of hashtable_set or hashtable_delete
\* changes no other key.
KeepsMap == Map!Spec
=============================================================================
