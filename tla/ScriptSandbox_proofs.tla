------------------------- MODULE ScriptSandbox_proofs -------------------------
(* Timeouts and cache of the sandbox, for any executions and limits. *)
EXTENDS ScriptSandbox, TLAPS

\* An execution that runs began before the last reset of start_time, and
\* looks at a copy that is not older than itself.
Clock ==
  /\ start_time <= now
  /\ \A p \in Executions :
       /\ run[p].begun <= now
       /\ run[p].pc \in Active => run[p].begun <= start_time
       /\ run[p].pc = "progress" =>
            run[p].begun <= run[p].seen /\ run[p].seen <= start_time
  /\ NoEarlyTimeout

\* A start_time is the beginning of some execution, or older than the latest.
Resets ==
  /\ start_time = 0 \/ \E q \in Executions : run[q].begun >= start_time
  /\ \A p \in Executions :
       run[p].seen = 0 \/ \E q \in Executions : run[q].begun >= run[p].seen

\* What an execution is about to replace is what it puts there, or newer.
Caching ==
  \A p \in Executions :
    run[p].pc = "compile" /\ ast_cache[run[p].script] # None =>
      overtaken[p] \/ ast_cache[run[p].script] = run[p].script

\* An execution knows its script until it runs.
Scripted ==
  \A p \in Executions :
    run[p].pc \in {"lookup", "compile"} => run[p].script \in Scripts

IInv == TypeOK /\ Clock /\ Resets /\ Scripted /\ Caching

LEMMA InitIInv == Init => IInv
  BY SandboxAssumption
  DEF Init, IInv, TypeOK, Run, Ended, Active, Clock, Resets, Caching, Scripted,
      NoEarlyTimeout, At

USE SandboxAssumption

\* What a step of execution p does to the variables it does not own.
LEMMA OthersKept ==
  ASSUME TypeOK, NEW p \in Executions, Begin(p) \/ Step(p)
  PROVE  /\ now' = now
         /\ \A q \in Executions \ {p} : run'[q] = run[q]
  BY DEF TypeOK, Begin, Step, Lookup, CompileScript, Operation, Progress, DbGetValue,
         Finish, Becomes, Proceed, End

LEMMA TypeStep == TypeOK /\ Scripted /\ [Next]_vars => TypeOK' /\ Scripted'
<1> SUFFICES ASSUME TypeOK, Scripted, [Next]_vars PROVE TypeOK' /\ Scripted'
  OBVIOUS
<1> USE DEF TypeOK, Scripted, Run, Ended, Active
<1>1. CASE \E p \in Executions : Begin(p)
  BY <1>1 DEF Begin, Becomes, Reset
<1>2. ASSUME NEW p \in Executions, Lookup(p) PROVE TypeOK' /\ Scripted'
  BY <1>2 DEF Lookup, Becomes, Proceed, At
<1>3. ASSUME NEW p \in Executions, CompileScript(p) PROVE TypeOK' /\ Scripted'
  BY <1>3 DEF CompileScript, Becomes, Proceed, End, At
<1>4. ASSUME NEW p \in Executions, Operation(p) PROVE TypeOK' /\ Scripted'
  BY <1>4 DEF Operation, Counted, TooMany, End, Becomes, At
<1>5. ASSUME NEW p \in Executions, Progress(p) PROVE TypeOK' /\ Scripted'
  BY <1>5 DEF Progress, Becomes, Proceed, End, At
<1>6. ASSUME NEW p \in Executions, DbGetValue(p) PROVE TypeOK' /\ Scripted'
  BY <1>6 DEF DbGetValue, Becomes, Proceed, End, At
<1>7. ASSUME NEW p \in Executions, Finish(p) PROVE TypeOK' /\ Scripted'
  BY <1>7 DEF Finish, End, Becomes, At
<1>8. ASSUME NEW k \in Scripts, NEW s \in Sources, CompileAndCache(k, s)
      PROVE  TypeOK' /\ Scripted'
  BY <1>8 DEF CompileAndCache, At
<1>9. CASE Tick
  BY <1>9 DEF Tick
<1>10. CASE UNCHANGED vars
  BY <1>10 DEF vars
<1> QED
  BY <1>1, <1>2, <1>3, <1>4, <1>5, <1>6, <1>7, <1>8, <1>9, <1>10 DEF Next, Step

LEMMA ClockStep == TypeOK /\ Clock /\ [Next]_vars => Clock'
<1> SUFFICES ASSUME TypeOK, Clock, [Next]_vars PROVE Clock'
  OBVIOUS
<1> USE DEF TypeOK, Run, Active, Ended, Clock, NoEarlyTimeout, At
<1>1. CASE \E p \in Executions : Begin(p)
  BY <1>1 DEF Begin, Becomes, Reset
<1>2. ASSUME NEW p \in Executions, Lookup(p) PROVE Clock'
  BY <1>2 DEF Lookup, Becomes, Proceed
<1>3. ASSUME NEW p \in Executions, CompileScript(p) PROVE Clock'
  BY <1>3 DEF CompileScript, Becomes, Proceed, End
<1>4. ASSUME NEW p \in Executions, Operation(p) PROVE Clock'
  BY <1>4 DEF Operation, End, Becomes
<1>5. ASSUME NEW p \in Executions, Progress(p) PROVE Clock'
  BY <1>5 DEF Progress, Overdue, Becomes, Proceed, End
<1>6. ASSUME NEW p \in Executions, DbGetValue(p) PROVE Clock'
  BY <1>6 DEF DbGetValue, Becomes, Proceed, End
<1>7. ASSUME NEW p \in Executions, Finish(p) PROVE Clock'
  BY <1>7 DEF Finish, End, Becomes
<1>8. ASSUME NEW k \in Scripts, NEW s \in Sources, CompileAndCache(k, s) PROVE Clock'
  BY <1>8 DEF CompileAndCache
<1>9. CASE Tick
  BY <1>9 DEF Tick
<1>10. CASE UNCHANGED vars
  BY <1>10 DEF vars
<1> QED
  BY <1>1, <1>2, <1>3, <1>4, <1>5, <1>6, <1>7, <1>8, <1>9, <1>10 DEF Next, Step

LEMMA ResetsStep == TypeOK /\ Clock /\ Resets /\ [Next]_vars => Resets'
<1> SUFFICES ASSUME TypeOK, Clock, Resets, [Next]_vars PROVE Resets'
  OBVIOUS
\* No execution forgets when it began; one that begins again begins later.
<1>1. \A q \in Executions :
        /\ run[q].begun \in Nat /\ run'[q].begun \in Nat
        /\ run'[q].begun >= run[q].begun
  <2>1. ASSUME NEW p \in Executions, Begin(p) \/ Step(p), NEW q \in Executions
        PROVE  run[q].begun \in Nat /\ run'[q].begun \in Nat
               /\ run'[q].begun >= run[q].begun
    BY <2>1 DEF TypeOK, Run, Clock, Begin, Step, Lookup, CompileScript, Operation,
                Progress, DbGetValue, Finish, Becomes, Proceed, End
  <2>2. CASE \E k \in Scripts, s \in Sources : CompileAndCache(k, s)
    BY <2>2 DEF CompileAndCache, TypeOK, Run
  <2>3. CASE Tick \/ UNCHANGED vars
    BY <2>3 DEF Tick, vars, TypeOK, Run
  <2> QED
    BY <2>1, <2>2, <2>3 DEF Next
\* start_time only becomes the beginning of an execution, a copy start_time.
<1>2. start_time' = start_time \/ \E q \in Executions : run'[q].begun = start_time'
  BY DEF Next, Begin, Becomes, Reset, Step, Lookup, CompileScript, Operation, Progress,
         DbGetValue, Finish, CompileAndCache, Tick, vars, TypeOK, Run
<1>3. \A p \in Executions : run'[p].seen \in {0, run[p].seen, start_time}
  <2>1. ASSUME NEW p \in Executions, Begin(p) \/ Step(p), NEW q \in Executions
        PROVE  run'[q].seen \in {0, run[q].seen, start_time}
    BY <2>1 DEF TypeOK, Run, Begin, Step, Lookup, CompileScript, Operation,
                Progress, DbGetValue, Finish, Becomes, Proceed, End
  <2>2. CASE \E k \in Scripts, s \in Sources : CompileAndCache(k, s)
    BY <2>2 DEF CompileAndCache, TypeOK, Run
  <2>3. CASE Tick \/ UNCHANGED vars
    BY <2>3 DEF Tick, vars, TypeOK, Run
  <2> QED
    BY <2>1, <2>2, <2>3 DEF Next
<1>4. start_time \in Nat /\ \A p \in Executions : run[p].seen \in Nat
  BY DEF TypeOK, Run
<1>5. ASSUME NEW n \in Nat, \E q \in Executions : run[q].begun >= n
      PROVE  \E q \in Executions : run'[q].begun >= n
  BY <1>1, <1>5
<1>6. start_time' = 0 \/ \E q \in Executions : run'[q].begun >= start_time'
  BY <1>1, <1>2, <1>4, <1>5 DEF Resets
<1>7. ASSUME NEW p \in Executions
      PROVE  run'[p].seen = 0 \/ \E q \in Executions : run'[q].begun >= run'[p].seen
  BY <1>3, <1>4, <1>5 DEF Resets
<1> QED
  BY <1>6, <1>7 DEF Resets

LEMMA CachingStep == TypeOK /\ Scripted /\ Caching /\ [Next]_vars => Caching'
<1> SUFFICES ASSUME TypeOK, Scripted, Caching, [Next]_vars PROVE Caching'
  OBVIOUS
<1> USE DEF TypeOK, Scripted, Run, Caching
<1>1. CASE \E p \in Executions : Begin(p)
  BY <1>1 DEF Begin, Becomes
<1>2. ASSUME NEW p \in Executions, Lookup(p) PROVE Caching'
  BY <1>2 DEF Lookup, Cached, Becomes, Proceed
<1>3. ASSUME NEW p \in Executions, CompileScript(p) PROVE Caching'
  BY <1>3 DEF CompileScript, Becomes, Proceed, End, At
<1>4. ASSUME NEW p \in Executions, Operation(p) PROVE Caching'
  BY <1>4 DEF Operation, End, Becomes
<1>5. ASSUME NEW p \in Executions, Progress(p) PROVE Caching'
  BY <1>5 DEF Progress, Becomes, Proceed, End
<1>6. ASSUME NEW p \in Executions, DbGetValue(p) PROVE Caching'
  BY <1>6 DEF DbGetValue, Becomes, Proceed, End
<1>7. ASSUME NEW p \in Executions, Finish(p) PROVE Caching'
  BY <1>7 DEF Finish, End, Becomes
<1>8. ASSUME NEW k \in Scripts, NEW s \in Sources, CompileAndCache(k, s) PROVE Caching'
  BY <1>8 DEF CompileAndCache, At
<1>9. CASE Tick
  BY <1>9 DEF Tick
<1>10. CASE UNCHANGED vars
  BY <1>10 DEF vars
<1> QED
  BY <1>1, <1>2, <1>3, <1>4, <1>5, <1>6, <1>7, <1>8, <1>9, <1>10 DEF Next, Step

LEMMA Invariance == Spec => []IInv
<1>1. IInv /\ [Next]_vars => IInv'
  BY TypeStep, ClockStep, ResetsStep, CachingStep DEF IInv
<1> QED
  BY <1>1, InitIInv, PTL DEF Spec

(***************************************************************************)
(* Every variable keeps its type; operations are counted up to the limit.  *)
(***************************************************************************)
THEOREM TypeCorrect == Spec => []TypeOK
  BY Invariance, PTL DEF IInv

(***************************************************************************)
(* Whatever other executions do to the shared start_time, an execution is  *)
(* only stopped for its time after it has had all of it.                   *)
(***************************************************************************)
THEOREM TimeoutsAreDue == Spec => []NoEarlyTimeout
  BY Invariance, PTL DEF IInv, Clock

(***************************************************************************)
(* An execution overruns its time only where another one began after it.   *)
(***************************************************************************)
THEOREM OverrunsAreShared == Spec => OverrunsOnlyShared
<1> DEFINE Late(p) == At(p, "progress") /\ run'[p].pc \in {"run", "db"}
                      /\ now - run[p].begun > Limit
           Shared == \A p \in Executions :
             Late(p) => \E q \in Executions \ {p} : run[q].begun > run[p].begun
<1>1. IInv /\ [Next]_vars => [Shared]_vars
  <2> SUFFICES ASSUME IInv, Next, NEW p \in Executions, Late(p)
               PROVE  \E q \in Executions \ {p} : run[q].begun > run[p].begun
    OBVIOUS
  <2>1. Progress(p)
    <3>1. ASSUME NEW q \in Executions, q # p, Begin(q) \/ Step(q) PROVE FALSE
      BY <3>1, OthersKept DEF At, IInv
    <3>2. ASSUME Begin(p) PROVE FALSE
      BY <3>2 DEF Begin, At, Ended
    <3>3. ASSUME NEW k \in Scripts, NEW s \in Sources, CompileAndCache(k, s) PROVE FALSE
      BY <3>3 DEF CompileAndCache, At
    <3>4. ASSUME Tick PROVE FALSE
      BY <3>4 DEF Tick, At
    <3> QED
      BY <3>1, <3>2, <3>3, <3>4
      DEF Next, Step, Lookup, CompileScript, Operation, DbGetValue, Finish, At
  <2>2. now - run[p].seen <= Limit
    <3>1. run[p] \in Run /\ now \in Nat
      BY DEF IInv, TypeOK
    <3>2. ~Overdue(p)
      BY <2>1 DEF Progress, End, Becomes, IInv, TypeOK
    <3> QED
      BY <3>1, <3>2 DEF Overdue, Run
  <2>3. run[p].seen > run[p].begun
    BY <2>2 DEF IInv, TypeOK, Run
  <2> QED
    BY <2>3 DEF IInv, Resets, TypeOK, Run
<1>2. [][Shared]_vars <=> OverrunsOnlyShared
  BY PTL DEF OverrunsOnlyShared
<1> QED
  BY <1>1, <1>2, Invariance, PTL DEF Spec

(***************************************************************************)
(* Only an execution that missed the cache before replaces what            *)
(* compile_and_cache has stored.                                           *)
(***************************************************************************)
THEOREM ReplacedInRace == Spec => ReplacedOnlyInRace
<1> DEFINE Race == \A k \in Scripts :
             ast_cache[k] # None /\ ast_cache'[k] # ast_cache[k]
               => \/ \E s \in Sources : CompileAndCache(k, s)
                  \/ \E p \in Executions : run[p].script = k /\ overtaken[p]
<1>1. IInv /\ [Next]_vars => [Race]_vars
  <2> SUFFICES ASSUME IInv, Next, NEW k \in Scripts, ast_cache[k] # None,
                      ast_cache'[k] # ast_cache[k],
                      ~ \E s \in Sources : CompileAndCache(k, s)
               PROVE  \E p \in Executions : run[p].script = k /\ overtaken[p]
    OBVIOUS
  <2>1. ~ \E name \in Scripts, s \in Sources : CompileAndCache(name, s)
    BY DEF CompileAndCache, IInv, TypeOK
  <2>2. PICK p \in Executions : CompileScript(p)
    BY <2>1 DEF Next, Begin, Step, Lookup, Operation, Progress, DbGetValue, Finish, Tick
  <2>3. run[p].script = k /\ At(p, "compile") /\ ast_cache'[k] = k
    BY <2>2 DEF CompileScript, IInv, TypeOK
  <2> QED
    BY <2>3 DEF IInv, Caching, At
<1>2. [][Race]_vars <=> ReplacedOnlyInRace
  BY PTL DEF ReplacedOnlyInRace
<1> QED
  BY <1>1, <1>2, Invariance, PTL DEF Spec
=============================================================================
