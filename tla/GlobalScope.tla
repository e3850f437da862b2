---------------------------- MODULE GlobalScope ----------------------------
(***************************************************************************)
(* What the global variables promise to the Lox program: one value per     *)
(* name, defined, assigned and looked up.  Hashing, interning and garbage  *)
(* collection do not appear.                                               *)
(***************************************************************************)
CONSTANTS
    Name,       \* variable names
    Content,    \* values, strings by their characters
    Undefined   \* no such variable

VARIABLES
    scope,      \* the value of each name
    answer      \* what the latest operation yielded

vars == <<scope, answer>>

Init ==
    /\ scope = [n \in Name |-> Undefined]
    /\ answer = Undefined

Define(n, v) ==
    /\ answer' = v
    /\ scope' = [scope EXCEPT ![n] = v]

\* Assigning to a name that is not defined is an error and defines nothing.
Assign(n, v) ==
    \/ answer' = Undefined /\ scope[n] = Undefined /\ UNCHANGED scope
    \/ Define(n, v) /\ scope[n] # Undefined

Lookup(n) ==
    /\ answer' = scope[n]
    /\ UNCHANGED scope

Next ==
    \E n \in Name :
        \/ \E v \in Content : Define(n, v) \/ Assign(n, v)
        \/ Lookup(n)

Spec == Init /\ [][Next]_vars
=============================================================================
