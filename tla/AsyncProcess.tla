---------------------------- MODULE AsyncProcess ----------------------------
(***************************************************************************)
(* `async` and `await` of the bytecode VM (src/vm/vm.c), running a script  *)
(* file.  An async call forks the interpreter; the child runs the callee   *)
(* alone and writes its result into a pipe; the parent's await collects    *)
(* the child with waitpid and then reads the pipe.                         *)
(*                                                                         *)
(* An async call and the process that serves it share one identity: a      *)
(* member of Proc other than Root.  The same name stands for the handle    *)
(* (ObjProcess) and for the pipe.  What a Lox function computes is         *)
(* abstracted to the calls it makes and the way it ends.                   *)
(*                                                                         *)
(* Not modelled: process ids being reused, pipe() failing, signals from    *)
(* outside, and the REPL (a child of the REPL goes on reading commands).   *)
(***************************************************************************)
EXTENDS Naturals, Sequences, SequencesExt

CONSTANTS
    Proc,       \* processes that may come to exist; bounds the forks
    Root,       \* the one started by the shell
    Value,      \* results serializeValue accepts
    Opaque,     \* results it answers with NULL
    BodyLen,    \* size of a serialised value; a size_t has size 1
    PipeCap,    \* what a pipe holds before write() blocks
    None,
    Failed,     \* NIL_VAL because the wait status is not 0
    Undefined   \* read from memory nobody initialised

ASSUME ConstantsOK ==
    /\ Root \in Proc
    /\ None \notin Proc \cup Value \cup Opaque \cup {Failed, Undefined}
    /\ Value \cap Opaque = {}
    /\ {Failed, Undefined} \cap (Value \cup Opaque) = {}
    /\ Failed # Undefined
    /\ BodyLen \in [Value -> Nat]
    /\ PipeCap \in Nat \ {0}

VARIABLES
    pc,         \* where a process is, see Control
    ppid,       \* ObjProcess.ppid: the process that made the call
    handles,    \* pipe read ends a process holds open (they are never closed)
    writeEnds,  \* pipe write ends a process holds open
    pipeReturn, \* vm.pipeReturn, or None for -1
    pipe,       \* bytes in each pipe, as the parts written
    result,     \* the value OP_RETURN popped at frameCount = 0
    reset,      \* runtimeError cleared the frames of a process that runs on
    awaiting,   \* the handle OP_AWAIT popped
    status,     \* how a process ended
    got         \* what the latest await of a handle pushed

vars == <<pc, ppid, handles, writeEnds, pipeReturn, pipe, result, reset,
          awaiting, status, got>>

fds == <<ppid, handles, writeEnds, pipeReturn>>

Control ==
    { "unborn",                 \* not forked yet
      "nofork",                 \* fork failed: a handle with childPid = -1
      "run",                    \* in run(), at a step of the Lox program
      "lost",                   \* in run() with frame = &vm.frames[-1]
      "sendSize", "sendBody",   \* in writeChildResult
      "wait",                   \* in waitpid
      "readSize", "readBody",   \* in processChildReturn, after waitpid
      "zombie",                 \* ended
      "reaped" }                \* ended and collected by waitpid

Message == [part : {"size", "body"}, val : Value]

TypeOK ==
    /\ pc \in [Proc -> Control]
    /\ ppid \in [Proc -> Proc \cup {None}]
    /\ handles \in [Proc -> SUBSET Proc]
    /\ writeEnds \in [Proc -> SUBSET Proc]
    /\ pipeReturn \in [Proc -> Proc \cup {None}]
    /\ pipe \in [Proc -> Seq(Message)]
    /\ result \in [Proc -> Value \cup Opaque \cup {None}]
    /\ reset \in [Proc -> BOOLEAN]
    /\ awaiting \in [Proc -> Proc \cup {None}]
    /\ status \in [Proc -> {"alive", "ok", "error", "killed"}]
    /\ got \in [Proc -> Value \cup {None, Failed, Undefined}]

Init ==
    /\ pc = [p \in Proc |-> IF p = Root THEN "run" ELSE "unborn"]
    /\ ppid = [p \in Proc |-> None]
    /\ handles = [p \in Proc |-> {}]
    /\ writeEnds = [p \in Proc |-> {}]
    /\ pipeReturn = [p \in Proc |-> None]
    /\ pipe = [p \in Proc |-> <<>>]
    /\ result = [p \in Proc |-> None]
    /\ reset = [p \in Proc |-> FALSE]
    /\ awaiting = [p \in Proc |-> None]
    /\ status = [p \in Proc |-> "alive"]
    /\ got = [p \in Proc |-> None]

-----------------------------------------------------------------------------
(* The kernel's part: exit, pipe ends, room in a pipe. *)

Live(p) == pc[p] \notin {"unborn", "nofork", "zombie", "reaped"}

\* Process p ends; its descriptors are closed with it (see Live below).
Exit(p, how) ==
    /\ pc' = [pc EXCEPT ![p] = "zombie"]
    /\ status' = [status EXCEPT ![p] = how]

HasReader(h) == \E q \in Proc : Live(q) /\ h \in handles[q]
HasWriter(h) == \E q \in Proc : Live(q) /\ h \in writeEnds[q]

Weight(m) == IF m.part = "size" THEN 1 ELSE BodyLen[m.val]

Load(h) == FoldSeq(LAMBDA m, sum : Weight(m) + sum, 0, pipe[h])

\* write() of one part: it blocks until there is room and kills the writer
\* (SIGPIPE) when no read end is left.  A message is read only after its
\* writer has ended, so a part that does not fit at once never fits.
Write(p, part, next) ==
    LET h == pipeReturn[p]
        m == [part |-> part, val |-> result[p]]
    IN  IF HasReader(h)
        THEN /\ Load(h) + Weight(m) <= PipeCap
             /\ pipe' = [pipe EXCEPT ![h] = Append(@, m)]
             /\ next
        ELSE /\ Exit(p, "killed")
             /\ UNCHANGED pipe

-----------------------------------------------------------------------------
(* async: spawnAsyncProcess *)

\* Spawn with a child that keeps the result descriptor it inherits.
SpawnKeepsDescriptor(p, c, callOk) ==
    /\ pc[p] = "run"
    /\ pc[c] = "unborn"
    /\ pc' = [pc EXCEPT ![c] = IF callOk THEN "run" ELSE "lost"]
    /\ ppid' = [ppid EXCEPT ![c] = p]
    /\ pipeReturn' = [pipeReturn EXCEPT ![c] =
                          IF pipeReturn[p] = None THEN c ELSE pipeReturn[p]]
    /\ handles' = [handles EXCEPT ![c] = handles[p],
                                  ![p] = handles[p] \cup {c}]
    /\ writeEnds' = [writeEnds EXCEPT ![c] = writeEnds[p] \cup {c}]
    /\ UNCHANGED <<pipe, result, reset, awaiting, status, got>>

\* fork() succeeded.  The child inherits every descriptor but its own read
\* end, and starts the call with an empty frame stack; when callValue
\* refuses the call nobody looks at its answer and run() continues with a
\* frame pointer below the array.
Spawn(p, c, callOk) ==
    /\ pc[p] = "run"
    /\ pc[c] = "unborn"
    /\ pc' = [pc EXCEPT ![c] = IF callOk THEN "run" ELSE "lost"]
    /\ ppid' = [ppid EXCEPT ![c] = p]
    /\ pipeReturn' = [pipeReturn EXCEPT ![c] = c]
    /\ handles' = [handles EXCEPT ![c] = handles[p],
                                  ![p] = handles[p] \cup {c}]
    /\ writeEnds' = [writeEnds EXCEPT ![c] = writeEnds[p] \cup {c}]
    /\ UNCHANGED <<pipe, result, reset, awaiting, status, got>>

\* fork() returned -1, which the parent branch takes for a process id.
SpawnFails(p, c) ==
    /\ pc[p] = "run"
    /\ pc[c] = "unborn"
    /\ pc' = [pc EXCEPT ![c] = "nofork"]
    /\ ppid' = [ppid EXCEPT ![c] = p]
    /\ handles' = [handles EXCEPT ![p] = @ \cup {c}]
    /\ UNCHANGED <<writeEnds, pipeReturn, pipe, result, reset, awaiting,
                   status, got>>

-----------------------------------------------------------------------------
(* await: OP_AWAIT and processChildReturn *)

\* MayAwait without the check that the call was made by p itself.
MayAwaitAny(p, x) == x # None

\* Whether the guards at the top of processChildReturn let p await x; a
\* value that is no process handle is None.
MayAwait(p, x) == x # None /\ ppid[x] = p

\* runtimeError clears the stacks and the await yields nil, but OP_AWAIT
\* does not stop run(): the frame goes on executing.
AwaitRejected(p) ==
    /\ pc[p] = "run"
    /\ \E x \in handles[p] \cup {None} : ~ MayAwait(p, x)
    /\ reset' = [reset EXCEPT ![p] = TRUE]
    /\ UNCHANGED <<pc, fds, pipe, result, awaiting, status, got>>

AwaitStart(p, h) ==
    /\ pc[p] = "run"
    /\ h \in handles[p]
    /\ MayAwait(p, h)
    /\ pc' = [pc EXCEPT ![p] = "wait"]
    /\ awaiting' = [awaiting EXCEPT ![p] = h]
    /\ UNCHANGED <<fds, pipe, result, reset, status, got>>

\* The children waitpid(childPid) may collect: the callee, or any child at
\* all when the handle comes from a failed fork and childPid is -1.
Awaited(p) ==
    { c \in Proc : /\ ppid[c] = p
                   /\ pc[c] \notin {"nofork", "reaped"}
                   /\ c = awaiting[p] \/ pc[awaiting[p]] = "nofork" }

\* The await of p yields o and run() goes on.
Deliver(p, o) ==
    /\ got' = [got EXCEPT ![awaiting[p]] = o]
    /\ awaiting' = [awaiting EXCEPT ![p] = None]

\* Reap that reads the pipe whatever the wait status.
ReapIgnoresStatus(p, c) ==
    /\ pc[p] = "wait"
    /\ c \in Awaited(p)
    /\ pc[c] = "zombie"
    /\ pc' = [pc EXCEPT ![p] = "readSize", ![c] = "reaped"]
    /\ UNCHANGED <<fds, pipe, result, reset, awaiting, status, got>>

\* waitpid returns child c: nil unless its wait status is 0.
Reap(p, c) ==
    /\ pc[p] = "wait"
    /\ c \in Awaited(p)
    /\ pc[c] = "zombie"
    /\ IF status[c] = "ok"
       THEN /\ pc' = [pc EXCEPT ![p] = "readSize", ![c] = "reaped"]
            /\ UNCHANGED <<awaiting, got>>
       ELSE /\ pc' = [pc EXCEPT ![p] = "run", ![c] = "reaped"]
            /\ Deliver(p, Failed)
    /\ UNCHANGED <<fds, pipe, result, reset, status>>

\* waitpid fails with ECHILD: childReturnCode is read uninitialised.
NoChild(p) ==
    /\ pc[p] = "wait"
    /\ Awaited(p) = {}
    /\ \/ /\ pc' = [pc EXCEPT ![p] = "readSize"]
          /\ UNCHANGED <<awaiting, got>>
       \/ /\ pc' = [pc EXCEPT ![p] = "run"]
          /\ Deliver(p, Failed)
    /\ UNCHANGED <<fds, pipe, result, reset, status>>

ReadSize(p) ==
    /\ pc[p] = "readSize"
    /\ pipe[awaiting[p]] # <<>>
    /\ pipe' = [pipe EXCEPT ![awaiting[p]] = Tail(@)]
    /\ pc' = [pc EXCEPT ![p] = "readBody"]
    /\ UNCHANGED <<fds, result, reset, awaiting, status, got>>

ReadBody(p) ==
    /\ pc[p] = "readBody"
    /\ pipe[awaiting[p]] # <<>>
    /\ pipe' = [pipe EXCEPT ![awaiting[p]] = Tail(@)]
    /\ pc' = [pc EXCEPT ![p] = "run"]
    /\ Deliver(p, Head(pipe[awaiting[p]]).val)
    /\ UNCHANGED <<fds, result, reset, status>>

\* read() returns 0: what it was to fill stays uninitialised.  A wild
\* totalSize or string length crashes the process, a wild type tag ends in
\* "unknown child return value", anything else is taken for a result.
ReadGarbage(p) ==
    /\ pc[p] \in {"readSize", "readBody"}
    /\ pipe[awaiting[p]] = <<>>
    /\ ~ HasWriter(awaiting[p])
    /\ \/ Exit(p, "killed") /\ UNCHANGED <<awaiting, got, reset>>
       \/ /\ pc' = [pc EXCEPT ![p] = "run"]
          /\ Deliver(p, Undefined)
          /\ \E r \in {reset[p], TRUE} : reset' = [reset EXCEPT ![p] = r]
          /\ UNCHANGED status
    /\ UNCHANGED <<fds, pipe, result>>

-----------------------------------------------------------------------------
(* The end of a process: OP_RETURN at frameCount = 0, an error, a crash *)

\* Outside an async call there is nobody to report to.
ReturnScript(p) ==
    /\ pc[p] = "run"
    /\ pipeReturn[p] = None
    /\ Exit(p, "ok")
    /\ UNCHANGED <<fds, pipe, result, reset, awaiting, got>>

ReturnValue(p, v) ==
    /\ pc[p] = "run"
    /\ pipeReturn[p] # None
    /\ result' = [result EXCEPT ![p] = v]
    /\ pc' = [pc EXCEPT ![p] = "sendSize"]
    /\ UNCHANGED <<fds, pipe, reset, awaiting, status, got>>

\* ReturnOpaque with a serializeValue that never answers NULL.
ReturnUnchecked(p, o) ==
    /\ pc[p] = "run"
    /\ pipeReturn[p] # None
    /\ result' = [result EXCEPT ![p] = o]
    /\ pc' = [pc EXCEPT ![p] = "sendSize"]
    /\ UNCHANGED <<fds, pipe, reset, awaiting, status, got>>

\* writeChildResult reports the error and returns; run() answers
\* INTERPRET_OK all the same and the process exits with 0.
ReturnOpaque(p, o) ==
    /\ pc[p] = "run"
    /\ pipeReturn[p] # None
    /\ result' = [result EXCEPT ![p] = o]
    /\ reset' = [reset EXCEPT ![p] = TRUE]
    /\ Exit(p, "ok")
    /\ UNCHANGED <<fds, pipe, awaiting, got>>

\* SendSize that ends the process before the body is written.
SendSizeOnly(p) ==
    /\ pc[p] = "sendSize"
    /\ Write(p, "size", Exit(p, "ok"))
    /\ UNCHANGED <<fds, result, reset, awaiting, got>>

SendSize(p) ==
    /\ pc[p] = "sendSize"
    /\ Write(p, "size", /\ pc' = [pc EXCEPT ![p] = "sendBody"]
                        /\ UNCHANGED status)
    /\ UNCHANGED <<fds, result, reset, awaiting, got>>

\* SendBody without its write.
SendNoBody(p) ==
    /\ pc[p] = "sendBody"
    /\ Exit(p, "ok")
    /\ UNCHANGED <<fds, pipe, result, reset, awaiting, got>>

SendBody(p) ==
    /\ pc[p] = "sendBody"
    /\ Write(p, "body", Exit(p, "ok"))
    /\ UNCHANGED <<fds, result, reset, awaiting, got>>

\* A runtime error that run() does answer with INTERPRET_RUNTIME_ERROR.
RuntimeError(p) ==
    /\ pc[p] = "run"
    /\ Exit(p, "error")
    /\ reset' = [reset EXCEPT ![p] = TRUE]
    /\ UNCHANGED <<fds, pipe, result, awaiting, got>>

\* A frame that is not there: at once in a lost child, at the return of the
\* frame that was running when its frames were cleared.
Crash(p) ==
    /\ pc[p] = "lost" \/ (pc[p] = "run" /\ reset[p])
    /\ Exit(p, "killed")
    /\ UNCHANGED <<fds, pipe, result, reset, awaiting, got>>

-----------------------------------------------------------------------------
\* What the process or the kernel does next whatever the Lox program is.
Advance(p) ==
    \/ SendSize(p) \/ SendBody(p)
    \/ \E c \in Proc : Reap(p, c)
    \/ NoChild(p) \/ ReadSize(p) \/ ReadBody(p) \/ ReadGarbage(p)
    \/ pc[p] = "lost" /\ Crash(p)

\* What the Lox program decides.
Program(p) ==
    \/ \E c \in Proc, callOk \in BOOLEAN : Spawn(p, c, callOk)
    \/ \E c \in Proc : SpawnFails(p, c)
    \/ AwaitRejected(p)
    \/ \E h \in Proc : AwaitStart(p, h)
    \/ ReturnScript(p)
    \/ \E v \in Value : ReturnValue(p, v)
    \/ \E o \in Opaque : ReturnOpaque(p, o)
    \/ RuntimeError(p)
    \/ pc[p] = "run" /\ Crash(p)

Finished == (\A p \in Proc : ~ Live(p)) /\ UNCHANGED vars

Next == (\E p \in Proc : Advance(p) \/ Program(p)) \/ Finished

Spec == Init /\ [][Next]_vars

\* The kernel schedules every process that can take its next step; no Lox
\* program need ever return or await.
FairSpec == Spec /\ \A p \in Proc : WF_vars(Advance(p))

-----------------------------------------------------------------------------
(* Properties. *)

\* A value an await delivers is the one the awaited call returned, never the
\* result of another call that shares its descriptors, and never a value
\* where the call returned none (processChildReturn, writeChildResult).
AwaitFaithful == \A h \in Proc : got[h] \in Value => got[h] = result[h]

\* What writeChildResult writes for a result, and its two parts.
SizePart(v) == [part |-> "size", val |-> v]
BodyPart(v) == [part |-> "body", val |-> v]
Whole(v) == <<SizePart(v), BodyPart(v)>>

\* The message of a call that ended well stays whole in its pipe until its
\* first await reads it, and between the two reads of that await the body
\* is there: both writes of writeChildResult come before the exit, waitpid
\* before both reads, and no other process takes a part of it.
ResultAwaits ==
    \A h \in Proc :
        status[h] = "ok" /\ result[h] \in Value /\ got[h] = None =>
            pipe[h] = IF \E p \in Proc : pc[p] = "readBody" /\ awaiting[p] = h
                      THEN <<BodyPart(result[h])>>
                      ELSE Whole(result[h])

\* Only one process at a time is between waitpid and the end of its reads
\* on one handle, although every later child inherits the descriptor: the
\* ppid check of processChildReturn.
ExclusiveReader ==
    \A p, q \in Proc :
        Live(p) /\ Live(q) /\ awaiting[p] # None /\ awaiting[p] = awaiting[q]
        => p = q

\* Without a failed fork every call has its outcome delivered at most once
\* with its value: AsyncCall, what the Lox program was promised.
outcome ==
    [c \in Proc \ {Root} |->
        CASE pc[c] = "unborn" -> "idle"
          [] pc[c] = "nofork" -> "unforked"
          [] OTHER -> IF result[c] # None THEN result[c]
                      ELSE IF status[c] = "alive" THEN "pending" ELSE Failed]

\* These words are no results.
ASSUME OutcomesApart ==
    {"idle", "unforked", "pending"} \cap (Value \cup Opaque \cup {Failed}) = {}

delivered == [c \in Proc \ {Root} |-> got[c]]

Promise == INSTANCE AsyncCall WITH
    Call <- Proc \ {Root}, outcome <- outcome, got <- delivered

\* Every step of the processes is a step, or no step, of the promise:
\* spawnAsyncProcess and processChildReturn implement AsyncCall.
KeepsPromise == Promise!Spec

\* A parent whose callee has returned gets an answer: its first await ends
\* without any help from the Lox program (waitpid, then two reads that find
\* their data), with the result or with the nil of a callee that was killed.
AwaitCompletes ==
    \A p, h \in Proc :
        (pc[p] = "wait" /\ awaiting[p] = h /\ result[h] \in Value /\ got[h] = None)
        ~> (pc[p] = "run" /\ got[h] \in Value \cup {Failed})

-----------------------------------------------------------------------------
(* What README.md says of await and the code does not keep: "wait for the  *)
(* asynchronous process to complete and retrieve it's return value".       *)

\* Every await of a call that returned a value delivers that value: a second
\* await of the handle does not (failed forks left aside).
EveryAwaitRetrieves ==
    (\A u \in Proc : pc[u] # "nofork") =>
        \A h \in Proc : got[h] \in {Failed, Undefined} => result[h] \notin Value

\* The first await of a call takes uninitialised memory for the result only
\* when the callee returned what no pipe carries: the callee then ends with 0
\* and has written nothing (failed forks left aside).
FirstAwaitDefined ==
    [][ (\A u \in Proc : pc[u] # "nofork") =>
          \A h \in Proc : got[h] = None /\ got'[h] = Undefined => result[h] \in Opaque ]_vars

=============================================================================
