------------------------------- MODULE Table -------------------------------
(***************************************************************************)
(* The hash table of the bytecode VM (src/vm/table.c): open addressing     *)
(* with linear probing, tombstones, growth at three quarters.              *)
(*                                                                         *)
(* A table is [entries |-> <<e1, ..., eN>>, count |-> n]; its capacity is  *)
(* the number of entries.  Keys are ObjString pointers; h[k] is the hash   *)
(* stored in key k.                                                        *)
(***************************************************************************)
EXTENDS Naturals, Sequences, SequencesExt

CONSTANTS
    Null,           \* the key of an entry that holds none
    Nil,            \* NIL_VAL
    Deleted,        \* the BOOL_VAL(true) a deletion leaves behind
    MinCapacity     \* GROW_CAPACITY(0), 8 in the code

ASSUME TableConstants ==
    /\ Nil # Deleted
    /\ MinCapacity \in Nat /\ MinCapacity >= 2

EmptyEntry == [key |-> Null, value |-> Nil]
Tombstone == [key |-> Null, value |-> Deleted]

InitTable == [entries |-> <<>>, count |-> 0]

Capacity(t) == Len(t.entries)

\* The k-th entry visited when probing n entries from a hash.
Probe(hash, k, n) == ((hash + k) % n) + 1

\* Index of the entry of key, or of the one to put it in: the first
\* tombstone passed on the way to an empty entry, else that entry.
FindEntry(entries, h, key) ==
    LET n == Len(entries)
        At(k) == Probe(h[key], k, n)
        stop == Min({ k \in 0..(n - 1) : \/ entries[At(k)] = EmptyEntry
                                         \/ entries[At(k)].key = key })
        passed == { k \in 0..stop : entries[At(k)] = Tombstone }
    IN  IF entries[At(stop)] = EmptyEntry /\ passed # {}
        THEN At(Min(passed))
        ELSE At(stop)

GrowCapacity(n) == IF n < MinCapacity THEN MinCapacity ELSE n * 2

\* SubSeq makes it a tuple once and for all.
Blank(n) == SubSeq([i \in 1..n |-> EmptyEntry], 1, n)

\* The entry that findEntry finds for the key of e becomes e.
Put(entries, h, e) == [entries EXCEPT ![FindEntry(entries, h, e.key)] = e]

\* Every key is put into n new entries, the tombstones are left behind;
\* moved[i] is the new table after i turns of the loop.
AdjustCapacity(t, h, n) ==
    LET moved[i \in 0..Capacity(t)] ==
            IF i = 0 THEN [entries |-> Blank(n), count |-> 0]
            ELSE LET u == moved[i - 1]
                 IN  IF t.entries[i].key = Null THEN u
                     ELSE [entries |-> Put(u.entries, h, t.entries[i]),
                           count |-> u.count + 1]
    IN  moved[Capacity(t)]

\* Full that lets every entry be used before it grows the table.
FullBefore(t) == t.count >= Capacity(t)

\* count + 1 > capacity * TABLE_MAX_LOAD, with 0.75 for TABLE_MAX_LOAD.
Full(t) == 4 * (t.count + 1) > 3 * Capacity(t)

MakeRoom(t, h) ==
    IF Full(t) THEN AdjustCapacity(t, h, GrowCapacity(Capacity(t))) ELSE t

TableSet(t, h, key, value) ==
    LET u == MakeRoom(t, h)
        isEmpty == u.entries[FindEntry(u.entries, h, key)] = EmptyEntry
    IN  [ entries |-> Put(u.entries, h, [key |-> key, value |-> value]),
          count |-> IF isEmpty THEN u.count + 1 ELSE u.count ]

\* tableGet answers true; what tableSet negates when it returns isNewKey.
TableHas(t, h, key) ==
    t.count # 0 /\ t.entries[FindEntry(t.entries, h, key)].key # Null

TableGet(t, h, key) == t.entries[FindEntry(t.entries, h, key)].value

\* TableDelete that makes the entry empty instead of a tombstone.
TableErase(t, h, key) ==
    IF TableHas(t, h, key)
    THEN [t EXCEPT !.entries[FindEntry(t.entries, h, key)] = EmptyEntry]
    ELSE t

\* TableDelete that leaves the value behind.
TableUnkey(t, h, key) ==
    IF TableHas(t, h, key)
    THEN [t EXCEPT !.entries[FindEntry(t.entries, h, key)].key = Null]
    ELSE t

TableDelete(t, h, key) ==
    IF TableHas(t, h, key)
    THEN [t EXCEPT !.entries[FindEntry(t.entries, h, key)] = Tombstone]
    ELSE t

\* TableFindString that stops at a tombstone.
TableFindStringShort(t, chars, text, hash) ==
    LET n == Capacity(t)
        Entry(k) == t.entries[Probe(hash, k, n)]
        Match(e) == e.key # Null /\ chars[e.key] = text
        stop == Min({ k \in 0..(n - 1) : Entry(k).key = Null \/ Match(Entry(k)) })
    IN  IF t.count = 0 THEN Null ELSE Entry(stop).key

\* The key whose characters are text, or Null.  Two keys are compared by
\* their characters here, by their address everywhere else.
TableFindString(t, chars, text, hash) ==
    LET n == Capacity(t)
        Entry(k) == t.entries[Probe(hash, k, n)]
        Match(e) == e.key # Null /\ chars[e.key] = text
        stop == Min({ k \in 0..(n - 1) : Entry(k) = EmptyEntry \/ Match(Entry(k)) })
    IN  IF t.count = 0 THEN Null ELSE Entry(stop).key

TableKeys(t) == { t.entries[i].key : i \in 1..Capacity(t) } \ {Null}

\* left[i] is what i turns of the loop leave.
TableRemoveWhite(t, h, marked) ==
    LET left[i \in 0..Capacity(t)] ==
            IF i = 0 THEN t
            ELSE LET u == left[i - 1]
                     key == u.entries[i].key
                 IN  IF key # Null /\ key \notin marked THEN TableDelete(u, h, key) ELSE u
    IN  left[Capacity(t)]
=============================================================================
