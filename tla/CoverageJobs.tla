------------------------------ MODULE CoverageJobs ------------------------------
(***************************************************************************)
(* Preparation of the quality summaries                                     *)
(* (apps/server/src/jobs/analysis-coverage-job-manager.ts): a Map of tasks, *)
(* a queue and one task that runs; failed tasks stay until someone retries  *)
(* them or needs their place.                                               *)
(***************************************************************************)
EXTENDS Naturals, Sequences, FiniteSets, SequencesExt

CONSTANTS
    SourceKey,            \* keys of inspections
    MaxScopes, MaxTasks   \* the 16 and the 32 of ensure()

ASSUME ScopeAssumption ==
    MaxScopes \in Nat \ {0} /\ MaxTasks \in Nat /\ MaxScopes + 1 < MaxTasks /\ 0 \notin SourceKey

VARIABLES
    tasks,       \* the Map: [key, state] in order of insertion
    scopes,      \* queue, by key
    preparing,   \* the task of `active`, or 0
    prepared,    \* "no", or how the preparation has ended: "done" or "thrown"
    coverageEnds \* the signal: "open", "aborted" or "closed"

coverageVars == <<tasks, scopes, preparing, prepared, coverageEnds>>

CoverageInit ==
    /\ tasks = <<>> /\ scopes = <<>> /\ preparing = 0 /\ prepared = "no"
    /\ coverageEnds = "open"

TaskState(k) == IF \E i \in 1 .. Len(tasks) : tasks[i].key = k
                THEN (CHOOSE t \in {tasks[i] : i \in 1 .. Len(tasks)} : t.key = k).state ELSE "none"
Deleted(ts, k) ==
    LET at == {i \in 1 .. Len(ts) : ts[i].key = k}
    IN IF at = {} THEN ts ELSE RemoveAt(ts, CHOOSE i \in at : TRUE)

\* Map.set(): the place of a key that is there is kept.
WithTask(ts, k) ==
    IF \E i \in 1 .. Len(ts) : ts[i].key = k
    THEN [i \in 1 .. Len(ts) |-> IF ts[i].key = k THEN [key |-> k, state |-> "preparing"] ELSE ts[i]]
    ELSE Append(ts, [key |-> k, state |-> "preparing"])

\* The first failed task makes room when there are too many.
Room(ts) ==
    LET failed == {i \in 1 .. Len(ts) : ts[i].state = "failed"}
    IN IF Len(ts) < MaxTasks \/ failed = {} THEN ts
       ELSE Deleted(ts, ts[CHOOSE i \in failed : \A n \in failed : i <= n].key)

\* pump(), of the queue q.
PumpScopes(q) ==
    IF preparing # 0 \/ coverageEnds # "open" \/ q = <<>>
    THEN scopes' = q /\ UNCHANGED <<preparing, prepared>>
    ELSE scopes' = Tail(q) /\ preparing' = Head(q) /\ prepared' = "no"

\* A task of its own for a new key, or for a failed one that is asked for again.
Ensure(k) ==
    /\ coverageEnds = "open"
    /\ \E retry \in BOOLEAN : TaskState(k) = "none" \/ (TaskState(k) = "failed" /\ retry)
    /\ Len(scopes) < MaxScopes
    /\ tasks' = WithTask(Room(tasks), k)
    /\ PumpScopes(Append(scopes, k))
    /\ UNCHANGED coverageEnds

\* prepare() ends: the computation pool answers every request.
Prepares ==
    /\ preparing # 0 /\ prepared = "no"
    /\ prepared' \in {"done", "thrown"}
    /\ UNCHANGED <<tasks, scopes, preparing, coverageEnds>>

\* then() or catch(), and finally(), which calls pump().
Prepared ==
    /\ preparing # 0 /\ prepared # "no"
    /\ tasks' = IF prepared = "done" THEN Deleted(tasks, preparing)
                ELSE [i \in 1 .. Len(tasks) |-> IF tasks[i].key = preparing
                                                THEN [tasks[i] EXCEPT !.state = "failed"] ELSE tasks[i]]
    /\ IF scopes = <<>> \/ coverageEnds # "open"
       THEN preparing' = 0 /\ prepared' = "no" /\ UNCHANGED scopes
       ELSE preparing' = Head(scopes) /\ prepared' = "no" /\ scopes' = Tail(scopes)
    /\ UNCHANGED coverageEnds

\* close() up to its await, and the rest of it.
CoverageCloses ==
    /\ coverageEnds = "open"
    /\ coverageEnds' = "aborted" /\ scopes' = <<>>
    /\ UNCHANGED <<tasks, preparing, prepared>>

CoverageClosed ==
    /\ coverageEnds = "aborted" /\ preparing = 0
    /\ coverageEnds' = "closed" /\ tasks' = <<>>
    /\ UNCHANGED <<scopes, preparing, prepared>>

CoverageNext ==
    \/ Prepares \/ Prepared \/ CoverageCloses \/ CoverageClosed
    \/ \E k \in SourceKey : Ensure(k)

\* prepare() ends, and so do the turns after it.
CoverageFairness == WF_coverageVars(Prepares) /\ WF_coverageVars(Prepared) /\ WF_coverageVars(CoverageClosed)

CoverageSpec == CoverageInit /\ [][CoverageNext]_coverageVars /\ CoverageFairness

-----------------------------------------------------------------------------
\* A task that is being prepared runs or has one place in the queue, a failed
\* one has neither, and however many fail there are never too many tasks.
TasksArePlaced ==
    /\ Len(tasks) <= MaxTasks /\ Len(scopes) <= MaxScopes
    /\ \A i, n \in 1 .. Len(scopes) : scopes[i] = scopes[n] => i = n
    /\ coverageEnds = "open" => \A k \in SourceKey :
          TaskState(k) = "preparing" <=> preparing = k \/ \E i \in 1 .. Len(scopes) : scopes[i] = k
    /\ \A i \in 1 .. Len(scopes) : preparing # 0 /\ scopes[i] # preparing
    /\ coverageEnds = "closed" => preparing = 0 /\ tasks = <<>>

\* What is being prepared ends, and so does close().
TasksEnd ==
    /\ \A k \in SourceKey : TaskState(k) = "preparing" ~> TaskState(k) # "preparing"
    /\ coverageEnds = "aborted" ~> coverageEnds = "closed"

=============================================================================
