---------------------------- MODULE ScriptSandbox ----------------------------
(***************************************************************************)
(* src/document/scripting.rs: executions of document scripts, each on its  *)
(* own thread, against one engine.  They share start_time, which every     *)
(* execution resets, and ast_cache.  What a script computes is left open:  *)
(* after every operation it may go on, call db_get_value, fail or finish.  *)
(***************************************************************************)
EXTENDS Naturals

CONSTANTS
  Executions,   \* threads that call execute_script
  Scripts,      \* texts executed and names compiled under: keys of the cache
  Sources,      \* sources given to compile_and_cache
  Compiling,    \* texts that compile
  MaxOps,       \* set_max_operations: 5000
  Limit,        \* 500 ms
  MaxNow,       \* bound of the models: the clock stops there
  None

ASSUME SandboxAssumption ==
  /\ Compiling \subseteq Scripts \cup Sources
  /\ None \notin Scripts \cup Sources
  /\ {MaxOps, Limit, MaxNow} \subseteq Nat

VARIABLES
  now,          \* the clock
  start_time,   \* shared by all executions
  ast_cache,    \* ast_cache[k]: the source whose AST is cached under k
  run,          \* run[p]: the execution on thread p
  overtaken     \* history: compile_and_cache has stored under the script of
                \* p since p missed the cache

vars == <<now, start_time, ast_cache, run, overtaken>>

Ended == {"idle", "ok", "error", "panic", "operations", "timeout"}
Active == {"lookup", "compile", "run", "progress", "db"}

\* begun is history: the time p called execute_script.
Init ==
  /\ now = 0
  /\ start_time = 0
  /\ ast_cache = [k \in Scripts |-> None]
  /\ run = [p \in Executions |->
       [pc |-> "idle", script |-> None, ops |-> 0, seen |-> 0, begun |-> 0]]
  /\ overtaken = [p \in Executions |-> FALSE]

At(p, pc) == run[p].pc = pc

Becomes(p, pc, script, ops, seen, begun) ==
  run' = [run EXCEPT ![p] =
    [pc |-> pc, script |-> script, ops |-> ops, seen |-> seen, begun |-> begun]]

\* Into, or on with, the script itself; and what is left when it has ended.
Proceed(p, pc) == Becomes(p, pc, None, run[p].ops, 0, run[p].begun)
End(p, how) == Becomes(p, how, None, 0, 0, run[p].begun)

-----------------------------------------------------------------------------
\* Mutant of Reset: start_time is that of the sandbox.
ResetNever == UNCHANGED start_time

Reset == start_time' = now

Begin(p) ==
  /\ run[p].pc \in Ended
  /\ \E s \in Scripts : Becomes(p, "lookup", s, 0, 0, now)
  /\ Reset
  /\ UNCHANGED <<now, ast_cache, overtaken>>

\* Mutant of Cached: the cache is not consulted.
CachedNever(s) == FALSE

Cached(s) == ast_cache[s] # None

Lookup(p) ==
  /\ At(p, "lookup")
  /\ IF Cached(run[p].script) THEN Proceed(p, "run")
     ELSE Becomes(p, "compile", run[p].script, 0, 0, run[p].begun)
  /\ UNCHANGED <<now, start_time, ast_cache, overtaken>>

\* Compiles, and caches what the script compiles to under its text.
CompileScript(p) ==
  /\ At(p, "compile")
  /\ LET s == run[p].script IN
     IF s \in Compiling
     THEN Proceed(p, "run") /\ ast_cache' = [ast_cache EXCEPT ![s] = s]
     ELSE End(p, "error") /\ UNCHANGED ast_cache
  /\ overtaken' = [overtaken EXCEPT ![p] = FALSE]
  /\ UNCHANGED <<now, start_time>>

\* compile_and_cache, called on any thread.
CompileAndCache(name, source) ==
  /\ source \in Compiling
  /\ ast_cache' = [ast_cache EXCEPT ![name] = source]
  /\ overtaken' = [p \in Executions |->
       overtaken[p] \/ (At(p, "compile") /\ run[p].script = name)]
  /\ UNCHANGED <<now, start_time, run>>

\* Mutant of Counted: operations are not.
NotCounted(ops) == ops

Counted(ops) == ops + 1
TooMany(ops) == ops > MaxOps

\* The engine counts every operation, then calls on_progress, which copies
\* start_time under its lock ...
Operation(p) ==
  /\ At(p, "run")
  /\ LET ops == Counted(run[p].ops) IN
     IF TooMany(ops) THEN End(p, "operations")
     ELSE Becomes(p, "progress", None, ops, start_time, run[p].begun)
  /\ UNCHANGED <<now, start_time, ast_cache, overtaken>>

\* Mutant of Overdue: no time limit.
OverdueNever(p) == FALSE

Overdue(p) == now - run[p].seen > Limit

\* ... and then looks at the clock.  An operation may be a call of db_get_value.
Progress(p) ==
  /\ At(p, "progress")
  /\ IF Overdue(p) THEN End(p, "timeout") ELSE Proceed(p, "run") \/ Proceed(p, "db")
  /\ UNCHANGED <<now, start_time, ast_cache, overtaken>>

\* The answer to get_list, or ""; block_in_place panics on a runtime that has
\* one thread only.
DbGetValue(p) ==
  /\ At(p, "db")
  /\ Proceed(p, "run") \/ End(p, "panic")
  /\ UNCHANGED <<now, start_time, ast_cache, overtaken>>

\* The script returns or throws; then doc is an object, or it is an error.
Finish(p) ==
  /\ At(p, "run")
  /\ End(p, "ok") \/ End(p, "error")
  /\ UNCHANGED <<now, start_time, ast_cache, overtaken>>

Tick ==
  /\ now < MaxNow
  /\ now' = now + 1
  /\ UNCHANGED <<start_time, ast_cache, run, overtaken>>

Step(p) ==
  \/ Lookup(p) \/ CompileScript(p) \/ Operation(p) \/ Progress(p)
  \/ DbGetValue(p) \/ Finish(p)

Next ==
  \/ \E p \in Executions : Begin(p) \/ Step(p)
  \/ \E name \in Scripts, source \in Sources : CompileAndCache(name, source)
  \/ Tick

Spec == Init /\ [][Next]_vars

\* Threads run, and the database answers.
FairSpec == Spec /\ \A p \in Executions : WF_vars(Step(p))

-----------------------------------------------------------------------------
Run == [pc : Ended \cup Active, script : Scripts \cup {None}, ops : 0..MaxOps,
        seen : Nat, begun : Nat]

TypeOK ==
  /\ now \in Nat
  /\ start_time \in Nat
  /\ ast_cache \in [Scripts -> Compiling \cup {None}]
  /\ run \in [Executions -> Run]
  /\ overtaken \in [Executions -> BOOLEAN]

(***************************************************************************)
(* Sharing start_time never costs an execution its time: one that is       *)
(* stopped for exceeding 500 ms has run longer than that, whenever the     *)
(* other executions began (lines 25-35 and 143-146).                       *)
(***************************************************************************)
NoEarlyTimeout ==
  \A p \in Executions : At(p, "timeout") => now - run[p].begun > Limit

(***************************************************************************)
(* "Enforces timeouts" (ARCHITECTURE.md:22) holds for an execution that no *)
(* other one overlaps: an operation is let through later than 500 ms after *)
(* its start only if another execution began in the meantime.              *)
(***************************************************************************)
OverrunsOnlyShared ==
  [][\A p \in Executions :
       At(p, "progress") /\ run'[p].pc \in {"run", "db"} /\ now - run[p].begun > Limit
         => \E q \in Executions \ {p} : run[q].begun > run[p].begun]_vars

(***************************************************************************)
(* What compile_and_cache has stored under a name stays until it stores    *)
(* there again, but for an execution of a script with the text of the name *)
(* that had missed the cache before: its own AST takes the place of the    *)
(* newer one (lines 155-162).                                              *)
(***************************************************************************)
ReplacedOnlyInRace ==
  [][\A k \in Scripts :
       ast_cache[k] # None /\ ast_cache'[k] # ast_cache[k]
         => \/ \E s \in Sources : CompileAndCache(k, s)
            \/ \E p \in Executions : run[p].script = k /\ overtaken[p]]_vars

(***************************************************************************)
(* Every execution ends, also one of an endless loop whose timeout others  *)
(* keep resetting: the number of operations is limited (line 19).          *)
(***************************************************************************)
ExecutionEnds ==
  \A p \in Executions : run[p].pc \in Active ~> run[p].pc \in Ended
=============================================================================
