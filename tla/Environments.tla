---------------------------- MODULE Environments ----------------------------
(***************************************************************************)
(* Environments, calls and returns of the tree-walking interpreter         *)
(* (src/treewalk: interpreter.c, loxfunction.c, return.c, environment.c):  *)
(* which environment is current, which exist, and what a call frees.       *)
(*                                                                         *)
(* Variables and values are abstracted to the environments they touch.  An *)
(* environment is never freed and made again under one name: what matters  *)
(* is that a freed one is used at all.  A read of freed memory may find    *)
(* what was there or end the program; freeing twice ends it.               *)
(*                                                                         *)
(* undefined, careful and Return.before are history.                       *)
(***************************************************************************)
EXTENDS Naturals, Sequences, FiniteSets, SequencesExt

CONSTANTS
    Env,        \* environments the program may make
    Global,     \* the one interpret() makes
    None

ASSUME EnvironmentsConstants == Global \in Env /\ None \notin Env

VARIABLES
    live,       \* environments made and not destroyed
    made,       \* environments made
    enclosing,  \* Environment.enclosing
    env,        \* the current environment
    stack,      \* the C stack: executions of a block or of a function
    returns,    \* the ReturnEnv list of return.c, `curr` last
    functions,  \* the closures of the function values made
    running,    \* FALSE when undefined behaviour ended the program
    undefined,  \* the kinds of undefined behaviour met
    careful     \* whether the program kept to what the interpreter can do

control == <<env, stack, returns>>
fate == <<live, running, undefined>>
envVars == <<control, fate, made, enclosing, functions, careful>>

\* An activation of execute_block: the environment it runs in, the one it goes
\* back to, and the closure of the function, None for a block.
Activation == [scope : Env, previous : Env, closure : Env \cup {None}]

\* struct ReturnEnv: the height of the C stack longjmp goes back to, the
\* environment of the caller, and what was made before.
ReturnEnv == [ret : Nat, original : Env, before : SUBSET Env]

Undefined == {"read", "destroy", "use", "return"}

EnvTypeOK ==
    /\ live \subseteq made /\ made \subseteq Env
    /\ enclosing \in [Env -> Env \cup {None}]
    /\ env \in made
    /\ stack \in Seq(Activation)
    /\ returns \in Seq(ReturnEnv)
    /\ functions \subseteq made
    /\ running \in BOOLEAN /\ careful \in BOOLEAN
    /\ undefined \subseteq Undefined

EnvInit ==
    /\ live = {Global} /\ made = {Global}
    /\ enclosing = [e \in Env |-> None]
    /\ env = Global
    /\ stack = <<>> /\ returns = <<>> /\ functions = {}
    /\ running = TRUE /\ undefined = {} /\ careful = TRUE

\* An environment and those around it, from the inside out.
Chain(e) ==
    LET C[x \in Env] ==
            IF enclosing[x] = None THEN <<x>> ELSE <<x>> \o C[enclosing[x]]
    IN  C[e]

Around(e) == ToSet(Chain(e))

-----------------------------------------------------------------------------
(* Undefined behaviour. *)

Crash(kind) ==
    /\ running' = FALSE
    /\ undefined' = undefined \cup {kind}
    /\ UNCHANGED live

\* The environments of t are read.
Touch(t) ==
    \/ t \subseteq live /\ UNCHANGED fate
    \/ /\ ~ t \subseteq live
       /\ \/ Crash("use")
          \/ undefined' = undefined \cup {"use"} /\ UNCHANGED <<live, running>>

\* BetweenUpTo: the closure itself is destroyed too.
BetweenUpTo(e, c) == IF e = c THEN {} ELSE { x \in Around(e) : c \in Around(x) }

\* What the loop of function_call destroys when it starts at e and comes to c.
Between(e, c) == { x \in Around(e) : x # c /\ c \in Around(x) }

\* while (env != callee->closure) { destroy_env(env); env = env->enclosing; }
Destroy(e, c) ==
    IF e = c
    THEN UNCHANGED fate
    ELSE \/ /\ c \in Around(e) /\ Between(e, c) \subseteq live
            /\ live' = live \ Between(e, c)
            /\ undefined' = undefined \cup {"read"}
            /\ UNCHANGED running
         \/ /\ c \in Around(e) /\ Between(e, c) \subseteq live
            /\ Crash("read")
         \/ /\ ~ (c \in Around(e) /\ Between(e, c) \subseteq live)
            /\ Crash("destroy")

-----------------------------------------------------------------------------
(* interpreter.c *)

NewEnv(e, around) ==
    /\ e \notin made
    /\ made' = made \cup {e}
    /\ live' = live \cup {e}
    /\ enclosing' = [enclosing EXCEPT ![e] = around]
    /\ env' = e

\* visit_block_stmt, execute_block
ExecuteBlock(e) ==
    /\ NewEnv(e, env)
    /\ stack' = Append(stack, [scope |-> e, previous |-> env, closure |-> None])
    /\ UNCHANGED <<returns, functions, running, undefined, careful>>

\* The end of a block: env = previous; destroy_env(e).
EndBlock ==
    /\ stack # <<>> /\ Last(stack).closure = None
    /\ env' = Last(stack).previous
    /\ stack' = Front(stack)
    /\ \/ /\ Last(stack).scope \in live
          /\ live' = live \ {Last(stack).scope}
          /\ UNCHANGED <<running, undefined>>
       \/ Last(stack).scope \notin live /\ Crash("destroy")
    /\ UNCHANGED <<returns, made, enclosing, functions, careful>>

\* visit_function_stmt
DeclareFunction ==
    /\ Touch({env})
    /\ functions' = functions \cup {env}
    /\ UNCHANGED <<control, made, enclosing, careful>>

\* look_up_variable, visit_assignment: a variable found d environments out.
Use(d) ==
    /\ d < Len(Chain(env))
    /\ Touch(ToSet(SubSeq(Chain(env), 1, d + 1)))
    /\ UNCHANGED <<control, made, enclosing, functions, careful>>

\* env_get(global, name)
UseGlobal ==
    /\ Touch({Global})
    /\ UNCHANGED <<control, made, enclosing, functions, careful>>

-----------------------------------------------------------------------------
(* function_call *)

\* Call that encloses the new environment in the caller's.
CallInCaller(c, e) ==
    /\ c \in functions
    /\ NewEnv(e, env)
    /\ stack' = Append(stack, [scope |-> e, previous |-> env, closure |-> c])
    /\ returns' = Append(returns,
           [ret |-> Len(stack) + 1, original |-> env, before |-> made])
    /\ careful' = (careful /\ c \in Around(env))
    /\ UNCHANGED <<functions, running, undefined>>

Call(c, e) ==
    /\ c \in functions
    /\ NewEnv(e, c)
    /\ stack' = Append(stack, [scope |-> e, previous |-> env, closure |-> c])
    /\ returns' = Append(returns,
           [ret |-> Len(stack) + 1, original |-> env, before |-> made])
    /\ careful' = (careful /\ c \in Around(env))
    /\ UNCHANGED <<functions, running, undefined>>

\* LeaveUnheeded: env is what the first read of a freed `enclosing` gives.
LeaveUnheeded(e, frame) ==
    /\ Destroy(e, frame.closure)
    /\ env' = enclosing[frame.closure]
    /\ returns' = Front(returns)

\* LeaveUnset: env stays where the loop ended.
LeaveUnset(e, frame) ==
    /\ Destroy(e, frame.closure)
    /\ env' = frame.closure
    /\ returns' = Front(returns)

\* The end of function_call, after its body ended with env = e.
Leave(e, frame) ==
    /\ Destroy(e, frame.closure)
    /\ env' = Last(returns).original
    /\ returns' = Front(returns)

\* FallOff without pop_return_env.
FallOffUnpopped ==
    /\ stack # <<>> /\ Last(stack).closure # None
    /\ Destroy(Last(stack).previous, Last(stack).closure)
    /\ env' = Last(returns).original
    /\ stack' = Front(stack)
    /\ careful' = (careful /\ Last(stack).previous = Last(stack).closure)
    /\ UNCHANGED <<returns, made, enclosing, functions>>

\* The body ends without a return statement: execute_block has set env back.
FallOff ==
    /\ stack # <<>> /\ Last(stack).closure # None
    /\ Leave(Last(stack).previous, Last(stack))
    /\ stack' = Front(stack)
    /\ careful' = (careful /\ Last(stack).previous = Last(stack).closure)
    /\ UNCHANGED <<made, enclosing, functions>>

\* visit_return_stmt: longjmp to the newest ReturnEnv.
Return ==
    /\ returns # <<>>
    /\ LET height == Last(returns).ret
       IN  Leave(env, stack[height]) /\ stack' = SubSeq(stack, 1, height - 1)
    /\ UNCHANGED <<made, enclosing, functions, careful>>

\* A return outside of any function: get_return_env() is NULL.
ReturnNowhere ==
    /\ returns = <<>>
    /\ Crash("return")
    /\ careful' = FALSE
    /\ UNCHANGED <<control, made, enclosing, functions>>

Step ==
    \/ \E e \in Env : ExecuteBlock(e)
    \/ EndBlock
    \/ DeclareFunction
    \/ \E d \in 0..Cardinality(Env) : Use(d)
    \/ UseGlobal
    \/ \E c, e \in Env : Call(c, e)
    \/ FallOff
    \/ Return
    \/ ReturnNowhere

EnvNext == running /\ Step

EnvSpec == EnvInit /\ [][EnvNext]_envVars

-----------------------------------------------------------------------------
(* Properties. *)

\* The list of ReturnEnv is the running functions in order: a return, however
\* deep in blocks and after however many calls that ended either way, unwinds
\* to the call it belongs to (push_return_env, pop_return_env, longjmp).
ReturnsMatch ==
    running =>
        LET calls == { i \in 1..Len(stack) : stack[i].closure # None }
        IN  /\ { returns[i].ret : i \in 1..Len(returns) } = calls
            /\ \A i, j \in 1..Len(returns) :
                   i < j => returns[i].ret < returns[j].ret

\* After blocks, calls and returns the current environment is that of the
\* innermost block or function that runs, the global one outside of all.
EnvFollows ==
    running => env = IF stack = <<>> THEN Global ELSE Last(stack).scope

\* A program is careful as long as it calls a function only where its name can
\* be seen, and one without a return statement only in the environment that
\* declares it.  Such a program, returns from nested blocks and recursion
\* included, uses no freed environment and frees none twice; all that is
\* undefined is that the loop of function_call reads `enclosing` after the free.
CarefulSafe ==
    careful =>
        /\ undefined \subseteq {"read"}
        /\ running => Around(env) \subseteq live
        /\ running => \A i \in 1..Len(stack) : Around(stack[i].previous) \subseteq live

\* The end of a call destroys no environment older than the call.
Spared == returns # <<>> /\ Len(returns') < Len(returns) =>
              Last(returns).before \cap (live \ live') = {}

\* "Destroy all environments that were created by this" (loxfunction.c 59):
\* what the end of a call destroys is not older than the call, in a careful
\* program.
CarefulSpares == [][careful' => Spared]_envVars
=============================================================================
