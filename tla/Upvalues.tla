------------------------------ MODULE Upvalues ------------------------------
(***************************************************************************)
(* The value stack, the call frames and the upvalues of the bytecode VM    *)
(* (src/vm/vm.c): how a closure keeps a variable that lives on the stack,  *)
(* and keeps it after the variable has left.                               *)
(*                                                                         *)
(* A stack slot is a position; positions above `top` keep what was there.  *)
(* Which closure a slot holds is not told: a call may call any closure     *)
(* that was made, as one kept in a global variable.  Expressions are       *)
(* abstracted to the values they push.  There is no garbage collection     *)
(* here: no upvalue is freed.                                              *)
(*                                                                         *)
(* owner, truth, stale and lost are history.  The first two are a program  *)
(* in which every captured variable is a cell of its own, the others tell  *)
(* where the stack leaves it: OP_RETURN closes no upvalue.                 *)
(***************************************************************************)
EXTENDS Naturals, Sequences, FiniteSets, SequencesExt

CONSTANTS
    Val,        \* values
    Closure,    \* closures that may be made
    Up,         \* upvalues that may be made
    Nothing,
    StackMax,   \* positions the program uses, STACK_MAX is not reached
    FramesMax,  \* FRAMES_MAX
    CountMax    \* ObjFunction.upvalueCount is at most this

ASSUME UpvaluesConstants ==
    /\ Nothing \notin Up \cup Closure \cup Seq(Up)
    /\ StackMax \in Nat \ {0} /\ FramesMax \in Nat \ {0} /\ CountMax \in Nat

VARIABLES
    mem,        \* vm.stack
    top,        \* vm.stackTop: the number of values on the stack
    frames,     \* vm.frames: the slot a frame begins at and its closure
    open,       \* vm.openUpvalues, from its head on
    loc,        \* ObjUpvalue.location: a position, or 0 for its own `closed`
    closed,     \* ObjUpvalue.closed
    upvalues,   \* ObjClosure.upvalues, Nothing for a closure not made yet
    filling,    \* the closure OP_CLOSURE is at work on, or Nothing
    owner,      \* the upvalue that stands for the variable in each slot
    truth,      \* the value of the variable each upvalue stands for
    stale,      \* the upvalues whose slot went away while they were open
    lost        \* open upvalues were forgotten by resetStack

machine == <<mem, top, frames, open, loc, closed, upvalues, filling>>
history == <<owner, truth, stale, lost>>
uvVars == <<machine, history>>

Slot == 1..StackMax
Script == [base |-> 1, closure |-> Nothing]

UVTypeOK ==
    /\ mem \in [Slot -> Val]
    /\ top \in 0..StackMax
    /\ frames \in Seq([base : Slot, closure : Closure \cup {Nothing}])
    /\ Len(frames) <= FramesMax
    /\ open \in Seq(Up)
    /\ loc \in [Up -> 0..StackMax]
    /\ closed \in [Up -> Val]
    /\ upvalues \in [Closure -> Seq(Up) \cup {Nothing}]
    /\ filling \in Closure \cup {Nothing}
    /\ owner \in [Slot -> Up \cup {Nothing}]
    /\ truth \in [Up -> Val]
    /\ stale \subseteq Up /\ lost \in BOOLEAN

Made == { f \in Closure : upvalues[f] # Nothing }

\* Upvalues that exist: newUpvalue takes any other.
Used == ToSet(open) \cup UNION { ToSet(upvalues[f]) : f \in Made }

\* interpret: a script's closure on an empty stack.
UVInit ==
    /\ \E v \in Val : mem = [s \in Slot |-> v]
    /\ top = 1
    /\ frames = <<Script>>
    /\ open = <<>>
    /\ loc = [u \in Up |-> 0]
    /\ \E v \in Val : closed = [u \in Up |-> v]
    /\ upvalues = [f \in Closure |-> Nothing] /\ filling = Nothing
    /\ owner = [s \in Slot |-> Nothing]
    /\ truth = closed
    /\ stale = {} /\ lost = FALSE

Frame == Last(frames)
Local == (Frame.base + 1)..top      \* the slots of the running function

Deref(u) == IF loc[u] = 0 THEN closed[u] ELSE mem[loc[u]]

-----------------------------------------------------------------------------
(* push, pop, OP_GET_LOCAL, OP_SET_LOCAL *)

Push(v) ==
    /\ filling = Nothing
    /\ top < StackMax
    /\ mem' = [mem EXCEPT ![top + 1] = v]
    /\ top' = top + 1
    /\ UNCHANGED <<frames, open, loc, closed, upvalues, filling, history>>

\* OP_POP ends no variable that a closure captures (endScope).
Pop ==
    /\ filling = Nothing
    /\ top > Frame.base /\ owner[top] = Nothing
    /\ top' = top - 1
    /\ UNCHANGED <<mem, frames, open, loc, closed, upvalues, filling, history>>

SetLocal(s) ==
    /\ filling = Nothing
    /\ s \in Local
    /\ mem' = [mem EXCEPT ![s] = mem[top]]
    /\ truth' = IF owner[s] = Nothing THEN truth
                ELSE [truth EXCEPT ![owner[s]] = mem[top]]
    /\ UNCHANGED <<top, frames, open, loc, closed, upvalues, filling>>
    /\ UNCHANGED <<owner, stale, lost>>

-----------------------------------------------------------------------------
(* OP_GET_UPVALUE, OP_SET_UPVALUE *)

\* The upvalues the instructions of the running function may name.
Named == IF Frame.closure = Nothing THEN {} ELSE ToSet(upvalues[Frame.closure])

GetUpvalue(u) == u \in Named /\ Push(Deref(u))

SetUpvalue(u) ==
    /\ filling = Nothing
    /\ u \in Named
    /\ IF loc[u] = 0
       THEN closed' = [closed EXCEPT ![u] = mem[top]] /\ UNCHANGED mem
       ELSE mem' = [mem EXCEPT ![loc[u]] = mem[top]] /\ UNCHANGED closed
    /\ truth' = [truth EXCEPT ![u] = mem[top]]
    /\ UNCHANGED <<top, frames, open, loc, upvalues, filling>>
    /\ UNCHANGED <<owner, stale, lost>>

-----------------------------------------------------------------------------
(* OP_CLOSURE: newClosure, then one captureUpvalue or copy per upvalue.    *)

\* How many upvalues at the head of the list belong to slots above s: where
\* the loops of captureUpvalue and of closeUpvalues(s + 1) stop.
Above(s) ==
    CHOOSE k \in 0..Len(open) :
        /\ \A i \in 1..k : loc[open[i]] > s
        /\ k < Len(open) => ~ loc[open[k + 1]] > s

\* captureUpvalue that puts a new upvalue at the head of the list.
CaptureAtHead(s, u) == <<u>> \o open

\* The list that captureUpvalue leaves when it makes upvalue u for slot s.
CaptureAfter(s, u) == InsertAt(open, Above(s) + 1, u)

\* captureUpvalue that makes a new upvalue every time.
FoundNever(s) == Nothing

\* The upvalue of slot s that captureUpvalue finds.
Found(s) ==
    LET k == Above(s) + 1
    IN  IF k <= Len(open) /\ loc[open[k]] = s THEN open[k] ELSE Nothing

NewClosure(f) ==
    /\ filling = Nothing
    /\ upvalues[f] = Nothing
    /\ top < StackMax
    /\ filling' = f
    /\ upvalues' = [upvalues EXCEPT ![f] = <<>>]
    /\ top' = top + 1
    /\ \E v \in Val : mem' = [mem EXCEPT ![top + 1] = v]
    /\ UNCHANGED <<frames, open, loc, closed, history>>

AddUpvalue(u) ==
    /\ filling # Nothing
    /\ Len(upvalues[filling]) < CountMax
    /\ upvalues' = [upvalues EXCEPT ![filling] = Append(@, u)]
    /\ UNCHANGED <<mem, top, frames, closed, filling>>

\* isLocal: the variable in slot s, the new function's own name included.
CaptureLocal(s, u) ==
    /\ AddUpvalue(u)
    /\ s \in Local
    /\ IF Found(s) = Nothing
       THEN /\ u \in Up \ Used
            /\ open' = CaptureAfter(s, u)
            /\ loc' = [loc EXCEPT ![u] = s]
       ELSE u = Found(s) /\ UNCHANGED <<open, loc>>
    /\ owner' = [owner EXCEPT ![s] = u]
    /\ truth' = [truth EXCEPT ![u] = mem[s]]
    /\ UNCHANGED <<stale, lost>>

\* An upvalue of the running function.
CopyUpvalue(u) ==
    /\ AddUpvalue(u)
    /\ u \in Named
    /\ UNCHANGED <<open, loc, history>>

EndClosure ==
    /\ filling # Nothing
    /\ filling' = Nothing
    /\ UNCHANGED <<mem, top, frames, open, loc, closed, upvalues, history>>

-----------------------------------------------------------------------------
(* OP_CLOSE_UPVALUE: closeUpvalues *)

\* The open upvalues that closeUpvalues(s) takes off the head of the list.
Closing(s) == { open[i] : i \in 1..Above(s - 1) }

\* CloseUpvalue that does not copy the value.
CloseWithoutValue ==
    /\ filling = Nothing
    /\ top > Frame.base
    /\ open' = SubSeq(open, Above(top - 1) + 1, Len(open))
    /\ loc' = [u \in Up |-> IF u \in Closing(top) THEN 0 ELSE loc[u]]
    /\ top' = top - 1
    /\ owner' = [owner EXCEPT ![top] = Nothing]
    /\ UNCHANGED <<mem, frames, closed, upvalues, filling, truth, stale, lost>>

\* The end of the scope of a variable that some closure in it captures,
\* whether or not that closure was ever made.
CloseUpvalue ==
    /\ filling = Nothing
    /\ top > Frame.base
    /\ open' = SubSeq(open, Above(top - 1) + 1, Len(open))
    /\ closed' = [u \in Up |-> IF u \in Closing(top) THEN Deref(u) ELSE closed[u]]
    /\ loc' = [u \in Up |-> IF u \in Closing(top) THEN 0 ELSE loc[u]]
    /\ top' = top - 1
    /\ owner' = [owner EXCEPT ![top] = Nothing]
    /\ UNCHANGED <<mem, frames, upvalues, filling, truth, stale, lost>>

-----------------------------------------------------------------------------
(* OP_CALL, OP_RETURN, runtimeError *)

\* Call that begins the frame at the first argument.
CallAbove(f, args) ==
    /\ filling = Nothing
    /\ upvalues[f] # Nothing
    /\ top - args > Frame.base
    /\ Len(frames) < FramesMax
    /\ frames' = Append(frames, [base |-> top - args + 1, closure |-> f])
    /\ UNCHANGED <<mem, top, open, loc, closed, upvalues, filling, history>>

Call(f, args) ==
    /\ filling = Nothing
    /\ upvalues[f] # Nothing
    /\ top - args > Frame.base
    /\ Len(frames) < FramesMax
    /\ frames' = Append(frames, [base |-> top - args, closure |-> f])
    /\ UNCHANGED <<mem, top, open, loc, closed, upvalues, filling, history>>

\* The slots of the frame go away with their result put in the first; their
\* open upvalues stay in the list.
Return ==
    /\ filling = Nothing
    /\ Len(frames) > 1
    /\ top > Frame.base
    /\ frames' = Front(frames)
    /\ mem' = [mem EXCEPT ![Frame.base] = mem[top]]
    /\ top' = Frame.base
    /\ owner' = [s \in Slot |-> IF s >= Frame.base THEN Nothing ELSE owner[s]]
    /\ stale' = stale \cup Closing(Frame.base)
    /\ UNCHANGED <<open, loc, closed, upvalues, filling, truth, lost>>

\* The script returns; the REPL interprets the next line.  resetStack is not
\* called.
NextLine ==
    /\ filling = Nothing
    /\ Len(frames) = 1
    /\ top = 1
    /\ \E v \in Val : mem' = [mem EXCEPT ![1] = v]
    /\ UNCHANGED <<top, frames, open, loc, closed, upvalues, filling, history>>

\* runtimeError, a refused call and the overflow of the frames among them,
\* then the next line: resetStack forgets the open upvalues.
Error ==
    /\ filling = Nothing
    /\ top' = 1
    /\ frames' = <<Script>>
    /\ open' = <<>>
    /\ \E v \in Val : mem' = [mem EXCEPT ![1] = v]
    /\ owner' = [s \in Slot |-> Nothing]
    /\ lost' = (lost \/ open # <<>>)
    /\ UNCHANGED <<loc, closed, upvalues, filling, truth, stale>>

UVNext ==
    \/ \E v \in Val : Push(v)
    \/ Pop
    \/ \E s \in Slot : SetLocal(s)
    \/ \E u \in Up : GetUpvalue(u)
    \/ \E u \in Up : SetUpvalue(u)
    \/ \E f \in Closure : NewClosure(f)
    \/ \E s \in Slot, u \in Up : CaptureLocal(s, u)
    \/ \E u \in Up : CopyUpvalue(u)
    \/ EndClosure
    \/ CloseUpvalue
    \/ \E f \in Closure, args \in 0..StackMax : Call(f, args)
    \/ Return
    \/ NextLine
    \/ Error

UVSpec == UVInit /\ [][UVNext]_uvVars

-----------------------------------------------------------------------------
(* Properties. *)

\* vm.openUpvalues goes strictly down the stack, also when it holds upvalues
\* of slots that are gone: the search of captureUpvalue, which stops early,
\* misses no upvalue and closeUpvalues, which takes from the head, closes all.
OpenSorted ==
    \A i, j \in 1..Len(open) : i < j => loc[open[i]] > loc[open[j]]

\* Every closure sees the variable it captured, by its name or through any
\* closure, before or after the scope of the variable ended with
\* OP_CLOSE_UPVALUE.  Not so a variable of a function that returned
\* (OP_RETURN closes none), nor after an error with open upvalues: those
\* then write to whatever is in the slot.
Shares ==
    ~ lost => \A u \in Used \ stale : Deref(u) = truth[u]

\* A captured variable has one upvalue, in the list as long as the variable is
\* on the stack: captureUpvalue never makes a second one.
OneUpvalue ==
    ~ lost =>
        /\ \A u \in ToSet(open) \ stale : loc[u] <= top /\ owner[loc[u]] = u
        /\ \A s \in Slot : owner[s] # Nothing =>
               owner[s] \in ToSet(open) /\ loc[owner[s]] = s
=============================================================================
