------------------------------ MODULE Globals ------------------------------
(***************************************************************************)
(* Interned strings and global variables of the bytecode VM: vm.strings,   *)
(* vm.globals (src/vm/object.c, src/vm/vm.c) and what a garbage collection *)
(* does to both (src/vm/memory.c), over the tables of module Table.        *)
(*                                                                         *)
(* The strings are the only heap objects here: closures, functions and     *)
(* upvalues are not, so a collection marks what the roots name and has     *)
(* nothing to trace.  Obj are the addresses malloc may hand out; a freed   *)
(* address is handed out again.                                            *)
(***************************************************************************)
EXTENDS Table, FiniteSets

CONSTANTS
    Obj,        \* addresses of ObjString
    Text,       \* character sequences
    HashBound,  \* hashes are taken from 0..HashBound - 1
    Plain,      \* values that are no objects: Nil, numbers, booleans
    Undefined,  \* no value
    None

ASSUME GlobalsConstants ==
    /\ Null \notin Obj /\ None \notin Text \cup Obj
    /\ (Plain \cup {Nil, Deleted, Undefined}) \cap (Text \cup Obj) = {}
    /\ Undefined \notin Plain \cup {Nil}
    /\ HashBound \in Nat \ {0}

VARIABLES
    hash,       \* hashString, any function of the characters
    chars,      \* the characters of each allocated ObjString, None when free
    strings,    \* vm.strings
    globals,    \* vm.globals
    held,       \* strings on the stack or in the constants of a function
    making,     \* copyString or takeString past its failed lookup
    answer      \* what the latest global access yielded, a string by its text

vars == <<hash, chars, strings, globals, held, making, answer>>

Idle == [text |-> None, obj |-> None]

Values == Plain \cup Obj

Entries(keys, values) ==
    [key : keys, value : values] \cup {EmptyEntry, Tombstone}

TypeOK ==
    /\ hash \in [Text -> 0..(HashBound - 1)]
    /\ chars \in [Obj -> Text \cup {None}]
    /\ strings.count \in Nat /\ strings.entries \in Seq(Entries(Obj, {Nil}))
    /\ globals.count \in Nat /\ globals.entries \in Seq(Entries(Obj, Values))
    /\ held \in SUBSET Obj
    /\ making \in [text : Text, obj : Obj \cup {None}] \cup {Idle}
    /\ answer \in Text \cup Plain \cup {Undefined}

\* ObjString.hash of every allocated string.
KeyHash == [o \in { x \in Obj : chars[x] # None } |-> hash[chars[o]]]

Init ==
    /\ hash \in [Text -> 0..(HashBound - 1)]
    /\ chars = [o \in Obj |-> None]
    /\ strings = InitTable
    /\ globals = InitTable
    /\ held = {}
    /\ making = Idle
    /\ answer = Undefined

-----------------------------------------------------------------------------
(* copyString and takeString *)

Intern(text) ==
    LET found == TableFindString(strings, chars, text, hash[text])
    IN  /\ making = Idle
        /\ IF found # Null
           THEN held' = held \cup {found} /\ UNCHANGED making
           ELSE making' = [text |-> text, obj |-> None] /\ UNCHANGED held
        /\ UNCHANGED <<hash, chars, strings, globals, answer>>

\* allocateString: allocateObject, and the push that makes the new string a
\* root before the table may allocate.
AllocateString(o) ==
    /\ making # Idle /\ making.obj = None
    /\ chars[o] = None
    /\ chars' = [chars EXCEPT ![o] = making.text]
    /\ making' = [making EXCEPT !.obj = o]
    /\ UNCHANGED <<hash, strings, globals, held, answer>>

\* allocateString: tableSet and pop; the caller roots what it is given.
InsertString ==
    /\ making.obj # None
    /\ strings' = TableSet(strings, KeyHash, making.obj, Nil)
    /\ held' = held \cup {making.obj}
    /\ making' = Idle
    /\ UNCHANGED <<hash, chars, globals, answer>>

\* The program has no more use for a string it held.
Drop(o) ==
    /\ making = Idle
    /\ o \in held
    /\ held' = held \ {o}
    /\ UNCHANGED <<hash, chars, strings, globals, making, answer>>

-----------------------------------------------------------------------------
(* collectGarbage *)

\* Marked without the values of the globals.
MarkedKeys == held \cup ({making.obj} \ {None}) \cup TableKeys(globals)

\* Roots: markTable marks the keys and the values of the globals; vm.strings
\* is no root.
Marked ==
    held \cup ({making.obj} \ {None}) \cup TableKeys(globals)
         \cup ({ globals.entries[i].value : i \in 1..Capacity(globals) } \cap Obj)

\* Whether the step the VM is at allocates, so that reallocate may collect.
Allocating == making.obj # None => Full(strings)

\* reallocate collects when it hands out memory: between the steps of
\* copyString, and inside tableSet when the table grows.  tableRemoveWhite
\* unlinks the strings that sweep is about to free.
Collect ==
    /\ Allocating
    /\ strings' = TableRemoveWhite(strings, KeyHash, Marked)
    /\ chars' = [o \in Obj |-> IF o \in Marked THEN chars[o] ELSE None]
    /\ UNCHANGED <<hash, globals, held, making, answer>>

-----------------------------------------------------------------------------
(* OP_DEFINE_GLOBAL, OP_SET_GLOBAL, OP_GET_GLOBAL: the name is a constant of
   the running function, the value is on the stack. *)

Shown(v) == IF v \in Obj THEN chars[v] ELSE v

DefineGlobal(name, v) ==
    /\ making = Idle
    /\ globals' = TableSet(globals, KeyHash, name, v)
    /\ answer' = Shown(v)
    /\ UNCHANGED <<hash, chars, strings, held, making>>

\* SetGlobal that leaves a new name defined.
SetGlobalDefines(name, v) ==
    /\ making = Idle
    /\ LET isNew == ~ TableHas(MakeRoom(globals, KeyHash), KeyHash, name)
       IN  /\ globals' = TableSet(globals, KeyHash, name, v)
           /\ answer' = IF isNew THEN Undefined ELSE Shown(v)
    /\ UNCHANGED <<hash, chars, strings, held, making>>

\* A name that turns out to be new is deleted again.
SetGlobal(name, v) ==
    /\ making = Idle
    /\ LET isNew == ~ TableHas(MakeRoom(globals, KeyHash), KeyHash, name)
           set == TableSet(globals, KeyHash, name, v)
       IN  /\ globals' = IF isNew THEN TableDelete(set, KeyHash, name) ELSE set
           /\ answer' = IF isNew THEN Undefined ELSE Shown(v)
    /\ UNCHANGED <<hash, chars, strings, held, making>>

GetGlobal(name) ==
    /\ making = Idle
    /\ IF TableHas(globals, KeyHash, name)
       THEN LET v == TableGet(globals, KeyHash, name)
            IN  /\ answer' = Shown(v)
                /\ held' = held \cup ({v} \cap Obj)
       ELSE answer' = Undefined /\ UNCHANGED held
    /\ UNCHANGED <<hash, chars, strings, globals, making>>

-----------------------------------------------------------------------------
Next ==
    \/ \E text \in Text : Intern(text)
    \/ \E o \in Obj : AllocateString(o)
    \/ InsertString
    \/ \E o \in Obj : Drop(o)
    \/ Collect
    \/ \E name \in held :
          \/ \E v \in Plain \cup held : DefineGlobal(name, v)
          \/ \E v \in Plain \cup held : SetGlobal(name, v)
          \/ GetGlobal(name)

Spec == Init /\ [][Next]_vars

-----------------------------------------------------------------------------
(* Properties. *)

\* Two different strings never have the same characters, whatever was freed
\* and made again: valuesEqual and both tables compare strings by address.
Interned ==
    \A o, x \in Obj : chars[o] # None /\ chars[o] = chars[x] => o = x

\* Every allocated string is found under its characters, except the one
\* being made: a collection or a growth of vm.strings loses none.
Findable ==
    \A o \in Obj : chars[o] # None /\ making.obj # o =>
        TableFindString(strings, chars, chars[o], hash[chars[o]]) = o

\* No table and no root names memory that was freed.
NoDangling ==
    \A o \in held \cup TableKeys(strings) \cup Marked : chars[o] # None

\* A probe of a table ends: deletions and the keys that reuse their
\* tombstones never use up the last empty entry.
ProbesEnd ==
    \A t \in {strings, globals} :
        t.entries # <<>> => EmptyEntry \in Range(t.entries)

scope ==
    [ text \in Text |->
        LET at == { i \in 1..Capacity(globals) :
                        /\ globals.entries[i].key # Null
                        /\ chars[globals.entries[i].key] = text }
        IN  IF at = {} THEN Undefined
            ELSE Shown(globals.entries[CHOOSE i \in at : TRUE].value) ]

Scope == INSTANCE GlobalScope WITH
    Name <- Text, Content <- Text \cup Plain

\* Names and values survive growth, deletion and collection: the global
\* variables are a map from names to values.
KeepsScope == Scope!Spec
=============================================================================
