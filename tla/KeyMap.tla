------------------------------- MODULE KeyMap -------------------------------
(***************************************************************************)
(* What hashtable_set, hashtable_get and hashtable_delete promise to the   *)
(* tree-walking interpreter: one item per key.  hashtable_get answers NULL *)
(* for an absent key and for the NULL item of `var x;` alike, so the two   *)
(* are one value here.                                                     *)
(***************************************************************************)
CONSTANTS
    Key,
    Item,
    NoItem      \* NULL

VARIABLES
    map,        \* the item of each key
    answer      \* what the latest hashtable_get returned

Init ==
    /\ map = [k \in Key |-> NoItem]
    /\ answer = NoItem

Put(k, i) ==
    /\ map' = [map EXCEPT ![k] = i]
    /\ UNCHANGED answer

Look(k) ==
    /\ answer' = map[k]
    /\ UNCHANGED map

Next ==
    \E k \in Key :
        \/ \E i \in Item \cup {NoItem} : Put(k, i)
        \/ Look(k)

Spec == Init /\ [][Next]_<<map, answer>>
=============================================================================
