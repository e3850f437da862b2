-------------------------------- MODULE Heap --------------------------------
(***************************************************************************)
(* Functions, closures and upvalues on the heap of the bytecode VM         *)
(* (src/vm: memory.c, object.c, chunk.c, compiler.c and vm.c): when they   *)
(* are allocated, what points to them, and what a collection frees.        *)
(*                                                                         *)
(* Any allocation may collect first.  What the C code holds in its own     *)
(* variables at that time is no root.  Strings are the subject of module   *)
(* Globals; the other values are one value, Nil, which also stands for a   *)
(* NULL pointer.  What the instructions compute is left out.               *)
(*                                                                         *)
(* stray is history: the program has used a slot that was gone from the    *)
(* stack through an upvalue that OP_RETURN did not close.                  *)
(***************************************************************************)
EXTENDS Naturals, Sequences, FiniteSets, SequencesExt

CONSTANTS
    Addresses,  \* objects that the heap has room for
    StackMax,   \* values
    FramesMax,  \* calls
    Nesting,    \* functions compiled at a time
    Captures    \* upvalues of a function

ASSUME HeapConstants ==
    /\ Addresses \in Nat /\ StackMax \in Nat \ {0} /\ FramesMax \in Nat \ {0}
    /\ Nesting \in Nat /\ Captures \in Nat

VARIABLES
    objects,    \* what there is at the addresses in use
    vm,         \* struct VM: stack, stackTop, frames, openUpvalues, globals
    compilers,  \* the functions of the Compiler structures, `current` last
    running,    \* FALSE when undefined behaviour ended the program
    stray

vars == <<objects, vm, compilers, running, stray>>

Nil == 0
Address == 1..Addresses
Value == Address \cup {Nil}

Function(n) == [type |-> "function", constants |-> <<>>, upvalueCount |-> n]
Closure(f, n) ==
    [type |-> "closure", function |-> f, upvalues |-> [i \in 1..n |-> Nil]]
Upvalue(slot) == [type |-> "upvalue", location |-> slot, closed |-> Nil]

Type(a) == IF a \in DOMAIN objects THEN objects[a].type ELSE "free"

TypeOK ==
    /\ \A a \in DOMAIN objects :
           a \in Address /\ objects[a].type \in {"function", "closure", "upvalue"}
    /\ vm.stack \in [1..StackMax -> Value] /\ vm.top \in 0..StackMax
    /\ vm.global \in Value
    /\ \A f \in ToSet(vm.frames) : f.slots \in 1..vm.top
    /\ Len(compilers) <= Nesting /\ {running, stray} \subseteq BOOLEAN

NewVM == [stack |-> [i \in 1..StackMax |-> Nil], top |-> 0, frames |-> <<>>,
          open |-> <<>>, global |-> Nil]

Init ==
    /\ objects = <<>> /\ vm = NewVM /\ compilers = <<>>
    /\ running = TRUE /\ stray = FALSE

-----------------------------------------------------------------------------
(* The collector. *)

\* markRoots
Roots(v, cs) ==
    ({ v.stack[i] : i \in 1..v.top } \cup { f.closure : f \in ToSet(v.frames) }
     \cup ToSet(v.open) \cup {v.global} \cup ToSet(cs)) \ {Nil}

\* Blackened that forgets the upvalues of a closure.
BlackenedFunction(o) ==
    (CASE o.type = "upvalue" -> {o.closed}
       [] o.type = "closure" -> {o.function}
       [] o.type = "function" -> ToSet(o.constants)) \ {Nil}

\* What blackenObject marks.
Blackened(o) ==
    (CASE o.type = "upvalue" -> {o.closed}
       [] o.type = "closure" -> {o.function} \cup ToSet(o.upvalues)
       [] o.type = "function" -> ToSet(o.constants)) \ {Nil}

\* markObject of all in S: what is not marked yet turns gray.
MarkObjects(S, t) ==
    LET new == S \ t.marked
    IN  [gray |-> t.gray \o SetToSeq(new), marked |-> t.marked \cup new]

\* A round of the loop of traceReferences: the last gray object is blackened.
TraceReferences(os, t) ==
    IF t.gray = <<>> THEN t
    ELSE MarkObjects(Blackened(os[Last(t.gray)]) \cap DOMAIN os, [t EXCEPT !.gray = Front(@)])

\* What is marked when it ends: each object is gray once at most, so there are
\* no more rounds than objects.
Marked(os, v, cs) ==
    LET n == Cardinality(DOMAIN os)
        t[i \in 0..n] ==
            IF i = 0
            THEN MarkObjects(Roots(v, cs) \cap DOMAIN os, [gray |-> <<>>, marked |-> {}])
            ELSE TraceReferences(os, t[i - 1])
    IN  t[n].marked

\* collectGarbage: markRoots, traceReferences and sweep.
Collected(os, v, cs) == [a \in Marked(os, v, cs) |-> os[a]]

\* What reallocate, when something is to grow, leaves of the objects.
Reallocate(os, v, cs) == {os, Collected(os, v, cs)}

\* allocateObject puts an object anywhere.
Room(os) == DOMAIN os # Address
NewAddress(os) == CHOOSE a \in Address \ DOMAIN os : \A b \in Address \ DOMAIN os : a <= b
Allocate(os, o) == [a \in DOMAIN os \cup {NewAddress(os)} |->
                       IF a \in DOMAIN os THEN os[a] ELSE o]

-----------------------------------------------------------------------------
(* The stack.  Slots above it keep their values; those that no upvalue     *)
(* refers to are forgotten here.                                           *)

Settled(v, os) ==
    LET kept == 1..v.top \cup { os[a].location : a \in { b \in DOMAIN os : os[b].type = "upvalue" } }
    IN  [v EXCEPT !.stack = [i \in 1..StackMax |-> IF i \in kept THEN v.stack[i] ELSE Nil]]

Push(v, value) == [v EXCEPT !.stack[v.top + 1] = value, !.top = @ + 1]
Drop(v, n) == [v EXCEPT !.top = @ - n]
Peek(v) == v.stack[v.top]

Keep(os, v) == objects' = os /\ vm' = Settled(v, os) /\ UNCHANGED running

-----------------------------------------------------------------------------
(* Compiling, between two programs that run. *)

Compiling == running /\ vm.frames = <<>>

\* initCompiler: the function is allocated before the Compiler structure is
\* `current`, its name and its bytes after that.  It gets its upvalues while
\* its body is compiled, which allocates nothing; n says how many.
InitCompiler(n) ==
    /\ Compiling /\ Len(compilers) < Nesting
    /\ compilers = <<>> => n = 0
    /\ \E before \in Reallocate(objects, vm, compilers) :
        /\ Room(before)
        /\ compilers' = Append(compilers, NewAddress(before))
        /\ \E after \in Reallocate(Allocate(before, Function(n)), vm, compilers') :
               Keep(after, vm)
    /\ UNCHANGED stray

\* addConstant that does not push the value.
AddConstantUnpushed(f, value, cs) ==
    { [os EXCEPT ![f].constants = Append(@, value)] : os \in Reallocate(objects, vm, cs) }

\* What addConstant leaves of the objects: the value is on the stack while
\* the array may grow.
AddConstant(f, value, cs) ==
    { [os EXCEPT ![f].constants = Append(@, value)] :
          os \in Reallocate(objects, Push(vm, value), cs) }

\* The end of a function: endCompiler, and its OP_CLOSURE in the one around.
EndFunction ==
    /\ Compiling /\ Len(compilers) > 1 /\ vm.top < StackMax
    /\ LET around == compilers[Len(compilers) - 1]
       IN  /\ Len(objects[around].constants) < Nesting
           /\ \E os \in AddConstant(around, Last(compilers), Front(compilers)) : Keep(os, vm)
    /\ compilers' = Front(compilers)
    /\ UNCHANGED stray

\* A program with an error.
CompileError ==
    /\ Compiling /\ Len(compilers) = 1
    /\ compilers' = <<>>
    /\ UNCHANGED <<objects, vm, running, stray>>

\* interpret after compile: the closure of the script is called.
Interpret ==
    /\ Compiling /\ Len(compilers) = 1 /\ vm.top < StackMax
    /\ compilers' = <<>>
    /\ LET f == Last(compilers)
       IN  \E os \in Reallocate(objects, Push(vm, f), <<>>) :
               /\ Room(os)
               /\ LET v == Push(vm, NewAddress(os))
                  IN  Keep(Allocate(os, Closure(f, 0)),
                           [v EXCEPT !.frames = <<[closure |-> NewAddress(os), slots |-> v.top]>>])
    /\ UNCHANGED stray

-----------------------------------------------------------------------------
(* Running. *)

CurrentFrame == Last(vm.frames)
CurrentClosure == objects[CurrentFrame.closure]

\* OP_CLOSURE has made the closure and not all of its upvalues.
Making(v, os) ==
    v.top > 0 /\ Peek(v) # Nil /\ Peek(v) \in DOMAIN os
    /\ os[Peek(v)].type = "closure" /\ Nil \in ToSet(os[Peek(v)].upvalues)

\* Code that comes after a stray access is not followed.
Running == running /\ ~ stray /\ vm.frames # <<>> /\ ~ Making(vm, objects)

Fits == vm.top < StackMax

\* What an instruction does that neither allocates nor is about upvalues.
Instruction(v) == Running /\ Keep(objects, v) /\ UNCHANGED <<compilers, stray>>

\* OP_NIL and others, OP_POP, OP_GET_LOCAL, OP_SET_LOCAL, OP_GET_GLOBAL.
Locals == CurrentFrame.slots + 1..vm.top

Simple ==
    \/ Fits /\ Instruction(Push(vm, Nil))
    \/ Running /\ vm.top > CurrentFrame.slots /\ Instruction(Drop(vm, 1))
    \/ Running /\ Fits /\ \E i \in Locals : Instruction(Push(vm, vm.stack[i]))
    \/ Running /\ \E i \in Locals : Instruction([vm EXCEPT !.stack[i] = Peek(vm)])
    \/ Fits /\ Instruction(Push(vm, vm.global))

\* OP_DEFINE_GLOBAL; the table may grow.
DefineGlobal ==
    /\ Running /\ vm.top > CurrentFrame.slots
    /\ \E os \in Reallocate(objects, vm, compilers) :
           Keep(os, Drop([vm EXCEPT !.global = Peek(vm)], 1))
    /\ UNCHANGED <<compilers, stray>>

\* newClosure: the array of upvalues and the object.
NewClosure ==
    /\ Running /\ Fits
    /\ \E f \in ToSet(objects[CurrentClosure.function].constants),
          os \in Reallocate(objects, vm, compilers) :
           /\ Room(os)
           /\ Keep(Allocate(os, Closure(f, objects[f].upvalueCount)), Push(vm, NewAddress(os)))
    /\ UNCHANGED <<compilers, stray>>

\* The next upvalue of the closure that is made, in objects os, is u.
SetUpvalueOf(os, u) ==
    LET i == CHOOSE k \in DOMAIN os[Peek(vm)].upvalues :
                 /\ os[Peek(vm)].upvalues[k] = Nil
                 /\ \A j \in 1..k - 1 : os[Peek(vm)].upvalues[j] # Nil
    IN  [os EXCEPT ![Peek(vm)].upvalues[i] = u]

\* How many upvalues at the head of the list belong to slots above s: where
\* the loops of captureUpvalue and of closeUpvalues stop.
Above(s) ==
    CHOOSE k \in 0..Len(vm.open) :
        /\ \A i \in 1..k : objects[vm.open[i]].location > s
        /\ k < Len(vm.open) => objects[vm.open[k + 1]].location <= s

\* The next upvalue is one of the closure that runs, or that of a slot:
\* captureUpvalue finds it open, or puts a new one in its place in the list.
Capture(slot) ==
    /\ running /\ Making(vm, objects)
    /\ slot \in Locals
    /\ LET n == Above(slot)
           found == n < Len(vm.open) /\ objects[vm.open[n + 1]].location = slot
       IN  \/ \E a \in ToSet(CurrentClosure.upvalues) : Keep(SetUpvalueOf(objects, a), vm)
           \/ found /\ Keep(SetUpvalueOf(objects, vm.open[n + 1]), vm)
           \/ /\ ~ found
              /\ \E os \in Reallocate(objects, vm, compilers) :
                  LET u == NewAddress(os)
                  IN  /\ Room(os)
                      /\ Keep(SetUpvalueOf(Allocate(os, Upvalue(slot)), u),
                              [vm EXCEPT !.open = InsertAt(@, n + 1, u)])
    /\ UNCHANGED <<compilers, stray>>

\* OP_CLOSE_UPVALUE: closeUpvalues from the top slot on, and pop.
CloseUpvalue ==
    /\ Running /\ vm.top > CurrentFrame.slots
    /\ LET n == Above(vm.top - 1)
           closing == ToSet(SubSeq(vm.open, 1, n))
       IN  /\ Keep([a \in DOMAIN objects |->
                        IF a \in closing
                        THEN [objects[a] EXCEPT !.closed = vm.stack[objects[a].location],
                                                !.location = 0]
                        ELSE objects[a]],
                   Drop([vm EXCEPT !.open = SubSeq(@, n + 1, Len(@))], 1))
           /\ stray' = \E a \in closing : objects[a].location > vm.top
    /\ UNCHANGED compilers

\* OP_GET_UPVALUE and OP_SET_UPVALUE.
UseUpvalue ==
    /\ Running
    /\ \E u \in ToSet(CurrentClosure.upvalues) :
        LET slot == objects[u].location
        IN  /\ \/ /\ Fits
                  /\ Keep(objects, Push(vm, IF slot = 0 THEN objects[u].closed
                                                        ELSE vm.stack[slot]))
               \/ IF slot = 0
                  THEN Keep([objects EXCEPT ![u].closed = Peek(vm)], vm)
                  ELSE Keep(objects, [vm EXCEPT !.stack[slot] = Peek(vm)])
            /\ stray' = (slot > vm.top)
    /\ UNCHANGED compilers

\* OP_CALL of the closure on the top, without arguments.
Call ==
    /\ Running /\ Len(vm.frames) < FramesMax
    /\ Type(Peek(vm)) = "closure"
    /\ Instruction([vm EXCEPT !.frames = Append(@, [closure |-> Peek(vm), slots |-> vm.top])])

\* The allocations of what is left out: bytes of a chunk, strings.
Elsewhere ==
    /\ (Compiling /\ compilers # <<>>) \/ Running
    /\ Keep(Collected(objects, vm, compilers), vm)
    /\ UNCHANGED <<compilers, stray>>

\* OP_RETURN; upvalues of the slots that go stay open.
Return ==
    /\ Running /\ vm.top > CurrentFrame.slots
    /\ Instruction(IF Len(vm.frames) = 1
                   THEN Drop([vm EXCEPT !.frames = <<>>], 2)
                   ELSE [Push([vm EXCEPT !.top = CurrentFrame.slots - 1], Peek(vm))
                            EXCEPT !.frames = Front(@)])

\* runtimeError: resetStack forgets the open upvalues.
Error ==
    /\ Running
    /\ Instruction([vm EXCEPT !.top = 0, !.frames = <<>>, !.open = <<>>])

\* blackenObject reads a closure as a function, beyond its end: the NULL or
\* wild pointers it finds there may end the program, and its memory with it.
Overread ==
    /\ running
    /\ \E a \in Marked(objects, vm, compilers) : Type(a) = "closure"
    /\ running' = FALSE
    /\ objects' = <<>> /\ vm' = NewVM /\ compilers' = <<>> /\ stray' = FALSE

Next ==
    \/ \E n \in 0..Captures : InitCompiler(n)
    \/ EndFunction \/ CompileError \/ Interpret
    \/ Simple \/ DefineGlobal \/ NewClosure \/ \E i \in 1..StackMax : Capture(i)
    \/ CloseUpvalue \/ UseUpvalue \/ Call \/ Return \/ Error
    \/ Elsewhere \/ Overread

Spec == Init /\ [][Next]_vars

-----------------------------------------------------------------------------
(* Properties. *)

\* The addresses that an object holds.
References(o) ==
    (CASE o.type = "function" -> ToSet(o.constants)
       [] o.type = "closure" -> ToSet(o.upvalues) \cup {o.function}
       [] o.type = "upvalue" -> {o.closed}) \ {Nil}

Types(as) == { Type(a) : a \in as \ {Nil} }

\* No collection, at whichever allocation it comes, frees an object that the
\* program still gets to: neither the function that is just compiled, nor the
\* closure whose upvalues are being made, nor a captured variable.  Nor is
\* another object put there: what is followed has the type it is taken for.
\* Programs that used a stray slot are the exception.
NoDangling ==
    /\ TypeOK
    /\ ~ stray =>
        /\ Roots(vm, compilers) \subseteq DOMAIN objects
        /\ Types({ f.closure : f \in ToSet(vm.frames) }) \subseteq {"closure"}
        /\ Types(ToSet(vm.open)) \subseteq {"upvalue"}
        /\ Types(ToSet(compilers)) \subseteq {"function"}
        /\ \A a \in DOMAIN objects :
            LET o == objects[a]
            IN  CASE o.type = "function" -> Types(ToSet(o.constants)) \subseteq {"function"}
                  [] o.type = "closure" ->
                       /\ Type(o.function) = "function"
                       /\ Len(o.upvalues) = objects[o.function].upvalueCount
                       /\ Types(ToSet(o.upvalues)) \subseteq {"upvalue"}
                  [] o.type = "upvalue" -> Types({o.closed}) \subseteq {"closure"}

\* A collection keeps just what can be reached from the roots: the objects in
\* every set that has the roots and what its members refer to.
CollectsGarbage ==
    running /\ ~ stray =>
        DOMAIN Collected(objects, vm, compilers) =
            { a \in DOMAIN objects :
                \A S \in SUBSET DOMAIN objects :
                    /\ Roots(vm, compilers) \subseteq S
                    /\ \A b \in S : References(objects[b]) \subseteq S
                    => a \in S }
=============================================================================
