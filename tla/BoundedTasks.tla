------------------------------ MODULE BoundedTasks ------------------------------
(***************************************************************************)
(* The bounded task pool (internal/app/concurrency.go), on which links,    *)
(* attachments and search queries are fetched: workers take the indices of *)
(* the tasks from one atomic counter while the context may be cancelled,   *)
(* and the caller reads the results when all of them have returned.        *)
(***************************************************************************)
EXTENDS Integers

CONSTANTS
    TaskCount, \* tasks to run
    Limit      \* workers at once, no limit if 0 or negative

ASSUME TaskAssumption == TaskCount \in Nat /\ Limit \in Int

VARIABLES
    taken,     \* currentTaskIndex: how often it was added to
    worker,    \* per worker: "claiming", "holding", "running" or "done"
    index,     \* per worker: the index it took last
    results,   \* per task: "none", "value", "error" or "cancelled"
    cancelled, \* the context's
    returned   \* waitGroup.Wait returned

poolVars == <<taken, worker, index, results, cancelled, returned>>

WorkerCount == IF Limit <= 0 \/ Limit > TaskCount THEN TaskCount ELSE Limit
Workers == 1 .. WorkerCount
Tasks == 0 .. TaskCount - 1

PoolInit ==
    /\ taken = 0
    /\ worker = [w \in Workers |-> "claiming"]
    /\ index = [w \in Workers |-> 0]
    /\ results = [i \in Tasks |-> "none"]
    /\ cancelled \in BOOLEAN
    /\ returned = FALSE

\* index := currentTaskIndex.Add(1) - 1, one atomic step; a worker that finds no
\* task left returns.
Claim(w) ==
    /\ worker[w] = "claiming"
    /\ taken' = taken + 1
    /\ index' = [index EXCEPT ![w] = taken]
    /\ worker' = [worker EXCEPT ![w] = IF taken < TaskCount THEN "holding" ELSE "done"]
    /\ UNCHANGED <<results, cancelled, returned>>

\* Mutant: the first worker that finds the context cancelled returns.
CheckContext_Return(w) ==
    /\ worker[w] = "holding"
    /\ worker' = [worker EXCEPT ![w] = IF cancelled THEN "done" ELSE "running"]
    /\ results' = IF cancelled THEN [results EXCEPT ![index[w]] = "cancelled"] ELSE results
    /\ UNCHANGED <<taken, index, cancelled, returned>>

\* ctx.Err: a task that was not started gets the error, and the next one is taken.
CheckContext(w) ==
    /\ worker[w] = "holding"
    /\ worker' = [worker EXCEPT ![w] = IF cancelled THEN "claiming" ELSE "running"]
    /\ results' = IF cancelled THEN [results EXCEPT ![index[w]] = "cancelled"] ELSE results
    /\ UNCHANGED <<taken, index, cancelled, returned>>

Run(w) ==
    /\ worker[w] = "running"
    /\ \E r \in {"value", "error"} : results' = [results EXCEPT ![index[w]] = r]
    /\ worker' = [worker EXCEPT ![w] = "claiming"]
    /\ UNCHANGED <<taken, index, cancelled, returned>>

Cancel ==
    /\ ~cancelled
    /\ cancelled' = TRUE
    /\ UNCHANGED <<taken, worker, index, results, returned>>

\* waitGroup.Wait.
Return ==
    /\ ~returned /\ \A w \in Workers : worker[w] = "done"
    /\ returned' = TRUE
    /\ UNCHANGED <<taken, worker, index, results, cancelled>>

PoolNext == (\E w \in Workers : Claim(w) \/ CheckContext(w) \/ Run(w)) \/ Cancel \/ Return

PoolSpec == PoolInit /\ [][PoolNext]_poolVars

-----------------------------------------------------------------------------
(* Properties.                                                             *)

Busy(w) == worker[w] \in {"holding", "running"}

\* No two workers have the same task, none is run that has a result, and the
\* caller finds a result for every task, cancelled or not (concurrency.go:33-62).
EachTaskOnce ==
    /\ \A v, w \in Workers : Busy(v) /\ Busy(w) /\ index[v] = index[w] => v = w
    /\ \A w \in Workers : Busy(w) => results[index[w]] = "none"
    /\ returned => \A i \in Tasks : results[i] # "none"
=============================================================================
