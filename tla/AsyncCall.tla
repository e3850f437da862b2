----------------------------- MODULE AsyncCall -----------------------------
(***************************************************************************)
(* What `async f(x)` and `await` promise to the Lox program: a call is     *)
(* started once, it comes to one outcome that never changes, and awaiting  *)
(* its handle waits for that outcome and hands it over.  Processes, pipes, *)
(* wait statuses and descriptors do not appear.                            *)
(*                                                                         *)
(* The promise covers the FIRST await of a handle, in a program none of    *)
(* whose forks failed; outside of that the C code hands over what AnyOf    *)
(* allows, and nothing here says which.                                    *)
(***************************************************************************)
CONSTANTS
    Call,       \* the async calls the program may make
    Value,      \* results that can cross a pipe: nil, booleans, numbers, strings
    Opaque,     \* results that cannot: functions, closures, process handles
    None,       \* nothing delivered yet
    Failed,     \* the nil an await yields when the callee did not exit with 0
    Undefined   \* a value built from uninitialised memory

VARIABLES
    outcome,    \* what became of each call
    got         \* what the latest await of each call delivered

vars == <<outcome, got>>

Resolved == Value \cup Opaque \cup {Failed}

Init ==
    /\ outcome = [c \in Call |-> "idle"]
    /\ got = [c \in Call |-> None]

Start(c) ==
    /\ outcome[c] = "idle"
    /\ \E o \in {"pending", "unforked"} : outcome' = [outcome EXCEPT ![c] = o]
    /\ UNCHANGED got

Resolve(c, o) ==
    /\ outcome[c] = "pending"
    /\ outcome' = [outcome EXCEPT ![c] = o]
    /\ UNCHANGED got

\* The result of a call as its first await hands it over.
Expected(o) == IF o \in Opaque THEN Undefined ELSE o

AnyOf(o) == {Failed, Undefined} \cup ({o} \cap Value)

Collect(c, o) ==
    /\ outcome[c] \notin {"idle", "pending"}
    /\ \/ got[c] = None /\ outcome[c] # "unforked" /\ o = Expected(outcome[c])
       \/ got[c] # None /\ o \in AnyOf(outcome[c])
       \/ (\E u \in Call : outcome[u] = "unforked") /\ o \in AnyOf(outcome[c])
    /\ got' = [got EXCEPT ![c] = o]
    /\ UNCHANGED outcome

Next ==
    \E c \in Call :
        \/ Start(c)
        \/ \E o \in Resolved : Resolve(c, o)
        \/ \E o \in Value \cup {Failed, Undefined} : Collect(c, o)

Spec == Init /\ [][Next]_vars
=============================================================================
