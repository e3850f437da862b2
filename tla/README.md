# Formal models of the two Lox interpreters

This directory holds TLA+ models of the C code under `src/`, the TLC
configurations that check them, and TLAPS proofs about them. `src/` contains two
independent interpreters of the language Lox:

* `src/vm`, the bytecode virtual machine `clox`, extended with `async` and
  `await` (operating-system processes and pipes);
* `src/treewalk`, a tree-walking interpreter.

Each action below is one C function, one instruction of `run()`, or the part of
one between two system calls. File and line of every definition are in
`PROJECT.json` (`map`).

## Inventory

### The bytecode virtual machine (`src/vm`)

| component | state | operations | what makes it correct |
|---|---|---|---|
| async processes (`vm.c` 143-237, 483-496, `object.c` 52-60, `value.c` 34-81, `main.c` 55-65) | one process per async call: `vm.pipeReturn`, frames, pipe descriptors, `ObjProcess` handles; in the kernel: pipes, wait statuses | `spawnAsyncProcess`, `processChildReturn`, `writeChildResult`, `OP_RETURN` at the last frame, `runtimeError` | an await waits for *its* call, delivers its value or the nil of a failure, and returns |
| hash table (`table.c`) | entries, count | `tableSet`, `tableGet`, `tableDelete`, `tableFindString`, `tableRemoveWhite`, `adjustCapacity` | probes end, no key is lost or found twice |
| strings and globals (`object.c` 84-138, `vm.c` 364-390) | `vm.strings`, `vm.globals`, the stack | `copyString`, `takeString`, `allocateString`, `OP_DEFINE/GET/SET_GLOBAL` | equal strings are one object; globals are a map |
| garbage collector (`memory.c`) | mark bits, grey stack, `vm.objects` | `markRoots`, `traceReferences`, `sweep`, `reallocate` | what is reachable survives, the rest is freed once |
| frames, stack and upvalues (`vm.c` 87-141, 239-272, 391-482, 498-534) | `vm.stack`, `vm.frames`, `vm.openUpvalues` | `call`, `captureUpvalue`, `closeUpvalues`, `OP_RETURN`, `OP_CALL` | closures share the variable they capture |
| compiler (`compiler.c`) | `Compiler` chain, locals, upvalues, the parser's tokens and panic mode | declarations, statements, precedence climbing, `synchronize`, `resolveLocal`, `resolveUpvalue`, jumps | a name resolves to its declaration; a jump lands where it should; every path leaves the stack as it found it; a program has the tree its precedences give it |
| scanner (`scanner.c`), chunk (`chunk.c`), values (`value.c`), debug (`debug.c`), REPL (`main.c`) | text position, byte arrays | `scanToken`, `writeChunk`, `addConstant`, `printValue` | |

### The tree-walking interpreter (`src/treewalk`)

| component | state | operations | what makes it correct |
|---|---|---|---|
| hash table (`hashtable/hash_table.c`) | containers, `filled` | `hashtable_set`, `_get`, `_has`, `_delete`, expand, shrink | a map; room for every insertion |
| environments (`environment.c`) | chain of `struct Environment` | `env_define`, `env_get(_at)`, `env_assign(_at)`, `new_env`, `destroy_env` | lexical scoping; no environment in use is freed |
| calls and returns (`loxfunction.c`, `return.c`, `interpreter.c` 397-486) | `env`, stack of `ReturnEnv` | `function_call`, `visit_return_stmt` (longjmp), `visit_block_stmt` | a return frees what the call made and no more |
| resolver (`resolver.c`) | stack of scopes | `resolve_*`, `declare`, `define`, `resolve_local` | the distance it records leads to the declaration |
| parser (`parser.c`) | position in the tokens | recursive descent, `parse`, `consume_token` | the tree is that of the grammar; it comes to an end |
| scanner (`scanner.c`), expression evaluation (`interpreter.c` 80-380), driver (`lox.c`, `error.c`) | text, values | scanning, evaluation | |

### How they interact

`main.c` compiles a file and calls `run()`. An async call forks: the child
inherits a copy of the whole VM and of every descriptor, runs the callee with an
empty frame stack and, when that frame returns, writes two parts (size, body) to
its pipe and lets `runFile` exit. The parent keeps an `ObjProcess`; `await` is
`waitpid` followed by two blocking reads. Nothing else is shared between
processes, so concurrency in this repository is exactly: processes, pipes, wait
statuses, inherited descriptors.

Inside one process everything is sequential, but any allocation may collect
(`reallocate`), so the collector interleaves with every operation that
allocates, the compiler's included: the strings table is weak, and interning,
table growth and collections meet in the middle of `copyString` and `tableSet`;
a function, closure or upvalue that only a C variable holds is not a root.

The compiler parses and emits in one pass: what a name means and where a jump
goes is decided from `locals`, `scopeDepth` and byte counts while the text goes by,
and shows only when the VM runs the bytes.

In the tree-walker every variable access goes through the hash table, the
resolver's scopes are such tables too, and control flow crosses C frames by
`longjmp`.

### Where it is hard

Concurrency and failure: results larger than a pipe, failed forks, callees that
crash, second awaits, handles inherited by later children, processes that go on
after `runtimeError` has cleared their frames. Long sequences: tombstones and
growth in both tables, weak references after a collection, reuse of freed
addresses, upvalues that outlive their slots. Depth: nested scopes, functions
and jumps in the compiler, operators of nine precedences, parsers that go on
after an error. Every hazard with its line is in `PROJECT.json` (`hazards`).

## Modules

| module | models | state and actions |
|---|---|---|
| `AsyncCall` | the promise of `async`/`await` | `outcome`, `got`; `Start`, `Resolve`, `Collect` |
| `AsyncProcess` | `async`/`await` as processes | one action per step between system calls, see below |
| `AsyncProcessProofs` | proofs about `AsyncProcess`, among them that it implements `AsyncCall` | |
| `Table` | `vm/table.c` as pure operators | `TableSet`, `TableGet`, `TableDelete`, `TableFindString`, `TableRemoveWhite` |
| `GlobalScope` | the promise of the global variables | a map from names to values |
| `Globals` | interning, globals and collections over `Table` | `Intern`, `AllocateString`, `InsertString`, `Drop`, `Collect`, `DefineGlobal`, `SetGlobal`, `GetGlobal` |
| `KeyMap` | the promise of `hash_table.c` | a map from keys to items |
| `HashTable` | `treewalk/hashtable/hash_table.c` | `Set`, `Get`, `Delete` (with expand and shrink inside) |
| `HashTableProofs` | proofs about `HashTable`, cited by `ScopesProofs` too | |
| `Heap` | functions, closures, upvalues and the collector (`vm/memory.c`, `object.c`, `chunk.c`) | `InitCompiler`, `EndFunction`, `CompileError`, `Interpret`, `Simple`, `DefineGlobal`, `NewClosure`, `Capture`, `CloseUpvalue`, `UseUpvalue`, `Call`, `Return`, `Error`, `Elsewhere` |
| `HeapProofs` | proofs about `Heap` | |
| `Compiler` | code generation of `vm/compiler.c` | one action per production, or part of one between two calls |
| `CompilerInvariant` | the inductive invariant of `Compiler`: frames, points, and the operators the proofs talk of | |
| `CompilerFrames`, `CompilerScopes`, `CompilerProofs` | proofs about `Compiler`, each module extends the one before | |
| `Syntax` | the derivations of a program; the state of a parser | operators |
| `VMParser`, `TreeParser` | the parsers of `vm/compiler.c` and `treewalk/parser.c` | one operator per C function |
| `Parsers` | both parsers on one program | `Write`, `End`, `ParseBoth` |
| `Resolver` | `treewalk/resolver.c` over the tables of `HashTable` | `Block`, `EndScope`, `Function`, `Parameter`, `Body`, `Variable`, `EndVariable`, `Read`, `Assign` |
| `Upvalues` | the stack, frames and upvalues of `vm/vm.c` | `Push`, `Pop`, `SetLocal`, `Get/SetUpvalue`, `NewClosure`, `CaptureLocal`, `CopyUpvalue`, `CloseUpvalue`, `Call`, `Return`, `Error` |
| `VariablesProofs` | proofs about `Table`, `Globals` and `Upvalues` | |
| `Environments` | environments, calls and returns of `treewalk` | `ExecuteBlock`, `EndBlock`, `DeclareFunction`, `Use`, `Call`, `FallOff`, `Return` |
| `ScopesProofs` | proofs about `Resolver` and `Environments` | |
| `MC...` | small instances for TLC | |

### AsyncProcess

An async call, its process, its handle and its pipe share one name, a member of
`Proc` other than `Root`. `pc[p]` says where a process is: in `run()` (`run`),
in `writeChildResult` (`sendSize`, `sendBody`), in `processChildReturn` (`wait`,
`readSize`, `readBody`), ended (`zombie`, `reaped`), in `run()` with a frame
pointer below the array (`lost`). What a Lox function computes is abstracted to
the calls it makes and how it ends: `Program` is every choice the Lox program
has, `Advance` every step that follows from the C code or the kernel.

| code | action |
|---|---|
| `spawnAsyncProcess`, child and parent branch | `Spawn` (`callOk` is the ignored answer of `callValue`), `SpawnFails` (fork returns -1 and the parent branch is taken) |
| `OP_AWAIT`, guards of `processChildReturn` | `AwaitStart`, `AwaitRejected` |
| `waitpid` | `Reap`, `NoChild` (ECHILD: the wait status stays uninitialised) |
| the two `read`s | `ReadSize`, `ReadBody`, `ReadGarbage` (end of file: what they were to fill stays uninitialised) |
| `OP_RETURN` at `frameCount == 0` | `ReturnScript`, `ReturnValue`, `ReturnOpaque` |
| the two `write`s | `SendSize`, `SendBody` (block without room, die of SIGPIPE without reader) |
| `runtimeError`, frames below the array | `RuntimeError`, `Crash`, and `reset` in the actions that call it and go on |

Uninitialised memory is a choice: the process dies of it, or takes it for a
result (`Undefined`).

### Table and Globals

A table is a record of entries and count; a key is an `ObjString` address and
the hash is that of its characters, any function of them (`hash` is a variable
that `Init` chooses and nothing changes, so TLC tries every assignment of
hashes). `Obj` is the set of addresses: a freed one is handed out again. `Collect`
may come wherever the code allocates: between the steps of `copyString`
(`making`) and, once a string has been allocated, inside `tableSet` only when
the table grows. `held` are the strings on the stack or in constants. Heap objects
other than strings are left out here: `Heap` has those.

### Heap

`objects` maps the addresses in use to functions (with the functions among their
constants), closures and upvalues; `vm` is the stack, frames, open upvalues and one
global, `compilers` the functions of the `Compiler` structures. Each action is an
instruction of `run()`, or a part of the compiler between two functions, that
allocates, and `Reallocate` gives both outcomes of every allocation in it, with and
without a collection (`DEBUG_STRESS_GC` would give the second always). What is not on
the stack at that moment (`push` and `pop` around `writeValueArray` in
`addConstant` and in `interpret`) is lost if nothing else marks it.

`traceReferences` is a function of the number of rounds its loop has made, for as
many rounds as there are objects; that these are enough, for an object is gray once
at most, is part of what is proved.

`blackenObject` has no `break` after the case of a closure and goes on to read the
closure as a function, past its end. What it finds there is undefined; the model
lets the program end (`Overread`) at any time at which a collection would mark a
closure, and follows those that go on, in which nothing else was marked.
An upvalue that `OP_RETURN` left open names a slot that may be above the stack:
`stray` says that the program used one, and what comes after is not followed.

### Compiler

No program is given: every action takes the production that the source has next,
so TLC compiles all programs of a grammar. `work` is the C stack of compiler
functions that still have something to do (`ifStatement` after the condition, with
the offset of its jump, ...), `chain` the `Compiler` structures. The functions that
are done are in `done`; the properties run over their bytes, by what each
instruction takes from the stack and puts there (`Takes`, `Puts`), on every path
(`Reached`).

Ghost state says what the program means, independently of slots and bytes: each
declaration has a number, `envs` is the lexical environment, `born`, `gone` and `land`
mark where a variable begins and ends and where a jump is to land.

`Base` is 256 and `Count` is `UINT8_COUNT` in the code. An error of the compiler (a
local declared twice in a scope, too many locals, constants or upvalues, a jump too
long) sets `error` and stops the model; parse errors are the subject of `VMParser`.

### Syntax, VMParser, TreeParser and Parsers

`Syntax` defines the trees of a sequence of tokens the declarative way: all ways
to split it into an operator and operands of the right precedence, a condition
and branches, declarations. `VMParser` and `TreeParser` are the two parsers, one
operator per C function, from the state of the parser to the next with the tree
of what was parsed. `Parsers` writes programs token by token and compares.

What the dialects differ in is a parameter of the grammar. It is what the code
does: the tree-walker takes an equality, and so no `and`, `or` or assignment, in
parentheses, after `print` and as an initial value, and reads `var a = ;` as
`var a;`; the VM takes no declaration as the branch of an `if` or the body of a
loop. `for` is a statement of the VM only, with the semicolons that `forStatement`
consumes (`ForLoops`).

### Resolver

The walk over the tree is any order of visits a tree can cause. A scope is the
table of `HashTable` with the operators `After` and `Has`, so that what
`hashtable_has` misses is missed here. `lexical` are the variables the program has in each
open scope.

### HashTable

The containers with their `deleted` flags and the count `filled` as the code
keeps it, an overwritten key counted again included. `hashtable_delete` has no
caller in `src/treewalk`; it is modelled as its header offers it, with `crashed`
for the NULL key it may compare. `hashtable_has` looks at the home container
alone (`Has`); it is the resolver's view of a scope.

### Upvalues

`vm.stack` is `mem` with `top`; a frame is the slot it begins at and its closure;
`vm.openUpvalues` is the sequence `open`, and `loc` the slot an upvalue points to,
0 when it points to its own `closed`. `Above` is the place where the loops of
`captureUpvalue` and `closeUpvalues` stop, so what they do to an unsorted list is
in the model. `OP_CLOSURE` is `NewClosure`, one `CaptureLocal` or `CopyUpvalue` per
upvalue, `EndClosure` (`filling` is the closure at work). The names that every
module has carry a prefix here (`UVSpec`, `UVTypeOK`), so that `VariablesProofs` can
extend both `Globals` and `Upvalues`.

`owner` and `truth` are what a program would have in which every captured
variable is a cell of its own. `OP_RETURN` closes no upvalue: those it leaves
behind are in `stale`, they stay in the list and name slots that are used again,
and `resetStack` forgets even those that are not (`lost`). `Shares` and `OneUpvalue`
are stated for the rest; `OpenSorted` holds for all.

### Environments

`env`, the environments that exist (`live`) with their `enclosing`, the C stack of
block and function executions (`stack`, each with the `previous` of
`execute_block`), and the `ReturnEnv` list (`returns`; a `jmp_buf` is a height of the
C stack). A function value is its closure; any function value may be called
anywhere, as values can be assigned and passed. Variables are not told apart: an
access touches the environments from the current one to the one the resolver's
distance names. Touching a freed environment, `env->enclosing` read after the
free included, finds what was there or ends the program; `destroy_env` of NULL or
of a freed environment ends it.

`FallOff` is `function_call` after a body without return statement (`env` is the
caller's again when the loop starts), `Return` after `longjmp` (`env` is where the
return statement stood). `careful` tells the programs the interpreter can run:
calls only where the function's name is visible, and calls of a function without
return statement only in the environment that declares it. Names that `Resolver` has
too carry a prefix (`EnvSpec`, `EnvTypeOK`): `ScopesProofs` extends both.

## Runs

| run | checks | shows |
|---|---|---|
| `async_safety` | `TypeOK`, `AwaitFaithful`, `ResultAwaits`, `ExclusiveReader`, `FirstAwaitDefined` | three calls, nested or side by side: no await delivers another call's value, no message is torn, no two processes read one pipe at once, and a first await reads uninitialised memory only if the result was one that no pipe carries |
| `async_promise` | `KeepsPromise`, `AwaitCompletes` | two calls with short and long values implement `AsyncCall`; the first await of a call that returned ends |
| `async_large_result` | violates `AwaitCompletes` | with a result that does not fit in a pipe, parent and child wait for each other for ever |
| `async_second_await` | violates `EveryAwaitRetrieves` | awaiting a handle twice reads uninitialised memory |
| `globals` | `TypeOK`, `Interned`, `Findable`, `NoDangling`, `ProbesEnd`, `KeepsScope` | tables, interning and collections stay consistent; the globals implement the map `GlobalScope` |
| `heap` | `NoDangling`, `CollectsGarbage` | a collection at any allocation of compiler and VM frees nothing that is still used, and all the rest |
| `compiler` | `TypeOK`, `JumpsLand`, `Balanced`, `Resolves`, `ClosesCaptured` | in all programs of four small grammars jumps land, stack heights agree on all paths, names mean what lexical scoping says, and captured variables, and only those, are closed at the end of their scope |
| `parsers` | `VMParses`, `VMEnds`, `StuckAtStray`, `TreeParses` | on all sequences of up to six tokens both parsers build the one tree of the grammar or fail in the ways that are named; the VM's always ends, and crashes only where `async` or `await` takes the place of an infix operator |
| `resolver` | `TypeOK`, `ResolvesLexically`, `RefusesOwnInitializer`, `RefusesDuplicates` | distances and errors are those of lexical scoping, but for names that a collision displaced |
| `hash_table` | `TypeOK`, `RoomLeft`, `KeepsMap` | the table implements a map, its assertions hold |
| `upvalues` | `UVTypeOK`, `OpenSorted`, `Shares`, `OneUpvalue` | closures share captured variables, before and after `OP_CLOSE_UPVALUE`, and the open list stays sorted |
| `environments` | `EnvTypeOK`, `ReturnsMatch`, `EnvFollows`, `CarefulSafe`, `CarefulSpares` | a return reaches its own call from any depth, `env` follows the program, and careful programs never use or free a freed environment |

### Bounds

* `async_safety`: the root and three callees, which gives chains, siblings and a
  grandchild that inherits its uncle's descriptors; one value, because values
  differ only in length and that matters to `Load` alone. The callees are
  interchangeable (`SYMMETRY`).
* `async_promise`: root and two callees, two values of length 1 and 3 and a pipe
  of 4, where the longest message (1 + 3) just fits. `async_large_result` is the
  same instance with a pipe of 3. No symmetry: it has a liveness property.
* `globals`: three characters sequences and three addresses, every assignment
  of two hash values to them, initial capacity 2 instead of 8. The table then
  grows at the second and the fourth key, and tombstones, growth, collection and
  reuse of an address all meet. Capacity is bounded because the number of keys is.
* `hash_table`: three keys, hashes below 4, `MaxSize = 8` containers. `MaxSize`
  bounds `hashtable_set`, which doubles for every overwrite.
* `upvalues`: two closures of up to two upvalues, two upvalues, two values, four
  stack positions and two frames: a function captures its own variables and its
  caller's, in either order, returns, and its slots are used again.
* `environments`: the global environment and five more, made once each: a function
  that calls itself from inside a block, and a return over two blocks, fit.
* `heap`: five addresses, three stack slots, two frames, one function inside the
  script, with one upvalue. A script, its closure, an inner function, its closure
  and upvalue are then alive at once, addresses are reused after every
  collection, and a second program is compiled while the global still holds a
  closure of the first. An upvalue handed on from closure to closure needs three
  functions and does not occur; `compiler` and `upvalues` have it.
* `compiler`: `Base` 5 instead of 256, so that both bytes of an offset matter and
  the limits are met; four locals, constants and upvalues instead of 256; two
  identifiers, which may shadow each other; four declarations and three open
  functions, enough for a variable handed through a function that does not use
  it. Each grammar has the productions that meet in one kind of mistake (names,
  jumps, `for`, functions) and a length, `maxCode`, after which nothing new begins.
* `resolver`: three names with all hashes below 3 in tables that begin at the
  code's capacity, three scopes: names collide, wrap and are displaced.
* `parsers`: thirteen selections of tokens, up to six after a fixed beginning:
  operators of neighbouring precedences in every order, unary operators,
  assignments to what is no variable, calls with missing arguments, `async` and
  `await` behind operands, operators, commas and `=`, functions, the clauses of
  `for`, dangling `else`, and every ill-formed sequence of the same tokens.

### Fairness

`FairSpec` is weak fairness of `Advance(p)` for each process `p`: the kernel
schedules a process that can run, a `read`, `write` or `waitpid` that can return
does. Nothing is assumed of the Lox program: no function need return and no
handle need be awaited. `AwaitCompletes` therefore only speaks of an await whose
callee has already returned.

## Proofs

`AsyncProcessProofs` proves for any set of processes, any values and any pipe
capacity:

* `TypeCorrect`: `Spec => []TypeOK`;
* `AwaitsFaithfully`: `Spec => []AwaitFaithful`;
* `ResultsAwait`: `Spec => []ResultAwaits`;
* `ReadsExclusively`: `Spec => []ExclusiveReader`.

Assumed is `ConstantsOK` of `AsyncProcess` only; TLC evaluates its assumptions in
every `async` run.

The properties are not inductive: that a value read is the callee's depends on
what is in the pipe, which depends on how far the writer has come and on who may
read. The strengthening `IInv` states that in named parts. `Owned`: a process
writes to the pipe of its own call only, and only the process that made a call
is in an await of its handle. `Unsent`: a process that has not returned has
written nothing and no value was delivered for it. `Sending`: between the two
writes the pipe holds exactly the size part of its own result. `Reading`: who
reads a pipe reads after the callee was reaped or was never forked, so writer
and reader never overlap. `Carried`: all that is in a pipe came from the callee's
result. `StepInv` shows `IInv /\ [Next]_vars => IInv'` from one lemma per action;
`Invariance` is the temporal step. `ExclusiveReader` follows from `Owned` alone.

Its second part goes on from there and proves

* `ImplementsPromise`: `Spec => KeepsPromise`, the refinement of `AsyncCall`;
* `FirstAwaitsDefined`: `Spec => FirstAwaitDefined`.

What is in a pipe does not say what an await delivers that reads nothing. That
depends on how the callee ended, who collected it and whether its parent is still
there, and `History` states it: `Genesis` and `Forked` (who has a parent, and that
the parent keeps the read end for ever), `Ended` (a process that exits with 0 has
returned something; one that died while it wrote its result has outlived its
parent, because only then no reader is left), `Collected` (a call is collected by
an await of its own handle, unless a fork failed and `waitpid` took any child) and
`Reads` (a first await that reads has seen the callee exit with 0). `HistoryHolds`
proves `IInv /\ History` inductive. Under it each action is a step of the promise of
one call or of none: `Spawn` starts it, a return or an end without one resolves
it, every delivery collects it; all others leave `outcome` and `delivered` as they
are. Besides `ConstantsOK` it needs `OutcomesApart`:
the labels of `AsyncCall` are not values of the program.

`ScopesProofs` proves, for any set of environments and so for any depth,
`EnvironmentTypes` (`EnvTypeOK`), `ReturnsMatchCalls` (`ReturnsMatch`) and
`EnvFollowsScopes` (`EnvFollows`), from `EnvironmentsConstants`. None is inductive
alone: that `env` is right after a call needs what its `ReturnEnv` saved to be what
the C stack saved (`Saved`), which needs the list to match the calls
(`ReturnsMatch`), and that to be the scope below (`Links`). `StackCut` and
`ReturnsCut` say what unwinding leaves, once for all the ways a call or block ends.

The same module proves `CarefulIsSafe` (`CarefulSafe`) and `CallsSpareTheOlder`
(`CarefulSpares`). They rest on the shape of what is on the C stack while a program
is careful (`Nested`): every scope there exists and is there once, a block is
enclosed in the scope below it and a function in some scope below it. So each chain
of enclosing environments that a step follows runs through the stack downwards,
and the loops of `function_call`, which follow one and destroy, meet only what
exists. `Newer` adds that what a call finds when it begins is no scope of the calls
above it: hence it destroys nothing older. The chain is a function defined by
recursion on `enclosing`; that there is one at all (`Solves`) is
not a fact about every `enclosing`, but part of the invariant (`Woven`), renewed by
each environment that is made.

`HashTableProofs` proves, for any keys, items, hash function and sizes,
`TypeCorrect` (`TypeOK`), `RoomAlways` (`RoomLeft`) and `MapKept` (`KeepsMap`, the
refinement of `KeyMap`), from `HashTableConstants`. A table is `Sound` when every
key it holds is reached by the key's own probe before a container that was never
used, and is in it once. `hashtable_find_and_set` and `hashtable_delete` keep that,
because a deleted container is flagged and so never looks unused; expand and
shrink build a sound table one key at a time. `Counts` says that `filled` may be too
high (an overwritten key counts again) but never too low, so a count below the
size leaves a container for the next key; that is the assertion of
`hashtable_find_and_set`.

`ScopesProofs` applies these lemmas to the tables of the scopes and proves, for
any names, hash function, depth and program, `TypeCorrect` (`TypeOK`),
`ResolvesAlways` (`ResolvesLexically`), `OwnInitializer` (`RefusesOwnInitializer`)
and `Duplicates` (`RefusesDuplicates`), from `ResolverConstants`. `Good` is the
invariant: the table of a scope holds the names of the variables the program has
there, each marked as defined but the one whose initializer the walk is in. What
makes `hashtable_has` answer for a whole scope, though it looks at one container, is
`AtHome`: while no two names of a scope share a home container each name is in its
own, also after the table has grown and after a name was set again.

`VariablesProofs` proves, for any addresses, texts, hash function and initial
capacity, `TypeCorrect` (`TypeOK`), `Interning` (`Interned`), `FindsAll` (`Findable`),
`NothingDangles` (`NoDangling`), `ProbesEndAlways` (`ProbesEnd`) and `ScopeIsKept`
(`KeepsScope`, the refinement of `GlobalScope`), from `GlobalsConstants`. Its first
part is about the operators of `Table` and any table that is `TableOK`: entries
`Sound` as above, with tombstones for the flags, and `count` the number of entries in
use, tombstones included, at most three quarters of them. Since capacities are never 0
when something is in use, an entry is left that ends every probe, also in
`tableFindString`, which compares characters and not addresses. The second part is
the invariant of `Globals`, `Fine`: no two strings have the same characters
(`Distinct`); the strings in `vm.strings` are those allocated, except the one that
`allocateString` is still putting there (`Registered`); names and values of globals
are allocated (`Rooted`). Each needs the others: that `copyString` makes no second
string needs the first to be registered and found, that a collection may take a
string out of `vm.strings` needs that no probe of the rest runs over its entry, and
that a freed address handed out again is nobody's key needs that nothing dangles.
The proof found what `GlobalsConstants` has to say of the tombstone: `TRUE`, its
value, is no string.

`HeapProofs` proves, for any number of addresses, any stack, nesting and number of
calls, `NothingDangles` (`NoDangling`) and `JustGarbage` (`CollectsGarbage`), from
`HeapConstants`. Its first part is `traceReferences` on any objects whatever: gray
objects are marked and on the gray stack once (`Stacked`), what a black one refers to
is marked, nothing is marked that is not in every closed set (`Going`), and each
round makes one object black, so that none is gray in the end (`Ends`). Hence
`MarkedIs`: what is marked is the least closed set. The second part is the
invariant, `Inv`. While no stray slot was used, what an object refers to exists and
has the type it is taken for, and a closure has as many upvalues as its function
says (`Sane`); the roots exist and have their types, and a script has no upvalues,
which is why `interpret` need not make any (`Rooted`); frames begin on the stack, each
not below its caller (`Framed`), so `OP_POP` and `OP_RETURN` take no more than is
there. `OneUnfinished` says that a closure whose upvalues are still being made is on
the top of the stack, so nothing runs it and a collection in between does not free
it. `Collects` and `CollectsPushed` then show once, for all the allocations, what a
collection leaves: `RootsMove` is the reason why `addConstant` may take a function
from the compilers to the stack. After a stray access only types are kept.

The last part of `VariablesProofs` proves, for any stack, frames, closures and upvalues,
`UVTypeCorrect` (`UVTypeOK`), `StaysSorted` (`OpenSorted`), `OneForEach` (`OneUpvalue`) and
`ClosuresShare` (`Shares`), from `UpvaluesConstants`. They hold each other up: that a
value written to a slot is seen by the right upvalue and no other needs that the
list has one upvalue for the slot (`OpenSorted`), that a variable's upvalue is in
it (`OneUpvalue`), and that an upvalue that points into the stack is in it at all
(`Listed`). `Places` adds that slot 1 is no variable and nobody owns what is above the
top, `Filling` that what is called or at work was made. `AboveStops` and `AboveSplits`
are about the loops of `captureUpvalue` and `closeUpvalues`: they stop, and in a sorted
list all that is behind belongs to slots that are not above.

`CompilerFrames`, `CompilerScopes` and `CompilerProofs` prove, for every program of any grammar, any
number of names, locals, functions and declarations and any `Base`, `TypeCorrect`
(`TypeOK`), `JumpsLandCorrect` (`JumpsLand`), `BalancedCorrect` (`Balanced`),
`ResolvesCorrect` (`Resolves`) and `ClosesCapturedCorrect` (`ClosesCaptured`), from
`CompilerConstants`. All five follow from one invariant, `IInv` (`Invariant`), because
none can be shown alone: where a variable is depends on how high the stack is at each
instruction, that on where the jumps go, and all on what the functions of the
compiler that have not returned yet are still going to emit.

The properties speak of the bytes of finished programs; the invariant must speak of
a program of which some is bytes and the rest is `work`. It says that there are two
witnesses, and `CompilerInvariant` defines what fits together:

* a *point* for each item of `work` (`Listed`): how many values are on the VM's stack when
  the item begins, how many of them are variables, in which function, scope and
  environment. `Link` says what each item does to the point: an expression adds one
  value, a statement none, `endScope` takes the variables its scope declares, a jump
  that an item still holds is open and flows to where the item will land it;
* a *frame* for each place of a chunk where an instruction begins (`Typed`): how high the
  stack is there and which variable each slot holds. `Runs` says that an instruction is
  whole, finds what it takes, and leads from its frame to the frames where the VM may
  go on (`Flow`); the jumps that are open are exempt, and are those that the points hold.

The frame at the end of the code of the function that is compiled is the one the first
point says; that is where the two halves meet. Besides: what is born and gone is in the
frames (`Vars`, `Dead`), operands mean what the ghost declarations say (`MeantAt`), the
locals of each compiler are the variables of the lexical environment, slot by slot
(`Named`), and what the functions that are open and those that are done know of each
other's variables agrees (`Tied`): an upvalue is a local or an upvalue of the function
around it (`Linked`), a local is marked captured just when some function has an upvalue
for it (`Flagged`), and what is gone was closed just then (`Closed`). A function that is
done is `Whole`: it has frames in which no jump is open.

`CompilerFrames` shows what the elementary operations do to frames and points: one more
instruction (`EmittedCode`, `EmitOne`), a patched jump, a loop, and each step of
`Continue`; `CompilerScopes` what is left when a local is declared, marked initialized or
taken off the stack and when a function begins or ends. `CompilerProofs` shows what
`resolveLocal`, `addUpvalue` and `resolveUpvalue` find, has one lemma for each action, and
then the temporal theorem. Its last part leaves the compiler: `Reached` of a finished
function is closed under the VM's steps, shown by counting (`ReachedClosed`: a set that
grows in every round outgrows the places there are), and each position reached has the
height its frame says (`ReachedKnown`). The properties are then read off the frames.

Frames and points are sets of functions over all places, so TLC cannot enumerate them;
what `IInv` says of whole programs TLC checks as the five properties.

Induction is used in two forms that are derived from the library's facts about
well-founded relations, in each module that needs them (`Numbers`): over a
set of numbers (`Induction`), and for functions defined by recursion on a number
(`Recursion`). A loop of the code that a proof follows is therefore a
recursive function in `Table`, `HashTable`, `Heap`, `Environments` and `Compiler`, and a lemma about it
names the set for which it is shown.

Model-checked only: `AwaitCompletes`, because liveness is out of the prover's
reach, and the parsers (`VMParses`, `VMEnds`, `StuckAtStray`, `TreeParses`), which with
`Syntax` are recursive over programs. The two runs that expect a violation state what
the code does not do.

## Disagreements between the code and its documentation

The two runs marked *violates* above. README.md 93-95 promises that `await` waits for
the call to complete and retrieves its return value: it does not when the result
outgrows the pipe, or when the handle was awaited before.

What the models show besides, as exceptions the properties make:

* async: a callee that returns a function, a closure or a handle exits with 0 and
  writes nothing, its parent reads an empty pipe (`FirstAwaitDefined`). After a
  refused await, `runtimeError` has cleared the frames but `run()` goes on; the
  return of the next function it calls is then taken for the result of the
  async call (`reset`).
* upvalues: `OP_RETURN` closes none, so a closure that outlives the call reads
  and writes reused stack (`stale`, `stray`); `resetStack` forgets the list (`lost`).
* memory: `blackenObject` reads every marked closure as a function (`Overread`).
* compiler: `emitLoop` writes the high byte with `&&` instead of `&`
  (`compiler.c` 152), so a loop of 512 bytes or more jumps into its own body
  (`LoopsFit`); a local named in its own initializer is compiled to a slot not
  in use yet, though its depth is -1 (`Itself`).
* parser of the VM: `async` and `await` have a precedence and no infix function;
  behind an operand (`a await b`), or a token that was refused as one
  (`- + await a`, `f(, await g)`) or a misplaced `=` (`a + b = await c`), the
  compiler calls NULL (`VMEnds`). `forStatement` consumes a semicolon more after the
  initializer and after the condition, and a parenthesis more before the
  increment, so `for (;;)` as in C is a syntax error; what it accepts is
  `for (;; a;;) b) c` (`ForLoops`).
* parser of the tree-walker: an operand, condition or argument that is missing
  is no error; the tree has a NULL in its place, on which the resolver crashes.
  But where NULL has a meaning of its own the program is accepted: `var a = ;` is
  run as `var a;` (`empty`), although it is no program of Lox.
  `f(,a)` and `f(a,,b)` lose arguments (`Skips`), `f(a,)`, a parameter list that ends
  with a comma and an assignment without left side follow NULL. A token that
  begins no statement is never taken: `parse` reports it for ever (`StuckAtStray`).
* resolver and `env_get`: `hashtable_has` looks at the home container alone, so
  names displaced by a collision are not found: not declared twice, not
  resolved, or "Undefined Variable" at run time (`Apart`).
* hash table: an overwritten key is counted again in `filled`, so a variable
  assigned n times doubles its table although containers are free.
* environments: the loop at the end of `function_call` destroys the caller's
  environments instead of the callee's when the body has no return statement
  (`loxfunction.c` 59-65); the environment of such a call is never destroyed.

## Not modelled

* Async calls made at the prompt: the child goes on reading commands from the
  input it shares with its parent; what it reads depends on buffers of the C
  library. Process ids that are reused, `pipe()` failing, signals from outside,
  allocation failure.
* The scanners, arithmetic, comparison and printing in both interpreters: pure
  functions of their operands, without state that outlives a call. The literal
  and operator tokens are kept by class in the models of the parsers.
* The limit of 255 arguments and parameters, and the messages of both parsers.
* The values in the tree-walker's environments, and so `env_get_at` of a variable
  declared without a value (`environment.c` 56).
* Overflow of the value stack (`push` does not check): the models bound the stack
  in the guards.
* Line numbers, the disassembler, the drivers and the REPL's input.

Reasons by component are in `PROJECT.json` (`components`).

## Plan

The modules of the first plan (`Heap`, scopes, code, expressions) are done. Left:

1. `AsyncRepl`: async calls made from the REPL.
2. Values in `Environments`, with the uninitialised variable.
3. Process ids in `AsyncProcess`, taken from a finite set and reused.
