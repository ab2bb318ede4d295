------------------------------ MODULE ImportJobs ------------------------------
(***************************************************************************)
(* The import job manager (apps/server/src/jobs/import-job-manager.ts) and  *)
(* its history on disk (packages/persistence/src/import-workspace.ts).     *)
(* Jobs, cancellations and retries of the follow-up interleave at every    *)
(* await; the process may die and be started again.  The database is       *)
(* RevisionChain, and a game's file in staging is one variable.            *)
(***************************************************************************)
EXTENDS Naturals, Sequences, FiniteSets

CONSTANTS
    Game, Document,
    Ledger,          \* the game of a document, and what it was made from
    Job,             \* job IDs, 1 .. n
    RequestKey,      \* idempotency keys
    MaxConcurrent,   \* maxConcurrentJobs
    MaxTroubles,     \* bound of crashes, failures and lost answers together
    MaxEdits,        \* bound of edits in staging
    None

Base == [d \in Document |-> Ledger[d].base]

Terminal == {"cancelled", "succeeded", "failed"}

\* A job as it is kept in memory and on disk; its key is an idempotency key, or one that
\* a batch makes of its own.
JobRecord ==
    [game : Game, key : RequestKey \X (Game \cup {None}),
     expected : Document \cup {None}, target : Document \cup {None},
     status : Terminal \cup {"queued", "running"}, revision : Nat,
     followUp : {"none", "pending", "failed", "done"}]

ASSUME JobAssumption == Job = 1 .. Cardinality(Job)
ASSUME LedgerAssumption ==
    Ledger \in [Document -> [game : Game,
                    base : [revision : Nat \ {0}, document : Document] \cup {None}]]
ASSUME LimitAssumption == MaxConcurrent \in Nat \ {0}
ASSUME NoneAssumption ==
    None \notin Document \cup [revision : Nat, document : Document] \cup JobRecord
ASSUME BoundAssumption == {MaxTroubles, MaxEdits} \subseteq Nat

VARIABLES
    current, revisions,  \* the database: RevisionChain
    staging,             \* the document of a game in staging, or None
    announced,           \* documents onSucceeded has been called with
    selection, picking,  \* confirmed documents; games being confirmed
    files, intents,      \* on disk: imports/jobs, and the jobs of imports/batches
    mode,                \* "open", "restoring", "refused" or "down"
    jobs, queue, closed, \* memory: jobs, pendingJobIds, closed
    creating,            \* jobs that create or createReadyBatch is saving
    closing,             \* how far close() is
    todo,                \* jobs restore() has not looked at
    pc, saving, gate,    \* tasks: step, record being written, withGameOperation
    crashes, faults, lost, edits   \* how much of the bounds is used

database == <<current, revisions>>
selecting == <<selection, picking>>
disk == <<files, intents>>
tasks == <<pc, saving, gate>>
bounds == <<crashes, faults, lost, edits>>
MayTrouble == crashes + faults + lost < MaxTroubles
manager == <<mode, closed, creating, closing, todo>>
vars == <<database, staging, announced, selecting, disk, manager, jobs, queue, tasks, bounds>>

Chain == INSTANCE RevisionChain

Task == {"run", "reconcile", "cancel", "close", "restore"}
Actor == Job \X Task
Saves == {"saveRunning", "saveTarget", "saveImported", "save"}
Idle(a) == pc[a] = "idle"

Sealed(d) == [revision |-> IF Base[d] = None THEN 1 ELSE Base[d].revision + 1,
              document |-> d]

Registered == {j \in Job : jobs[j] # None}

\* A job that createSelection and createReadyBatch leave its game to.
Active(j) == jobs[j].status \notin Terminal \/ jobs[j].followUp = "pending"
ActiveGames == {jobs[j].game : j \in {k \in Registered : Active(k)}}

\* A job's key, and that of a job a batch makes of its own key.
KeyOf(k) == <<k, None>>
BatchKeyOf(k, g) == <<k, g>>

\* The idempotency map.
Named(k) == \E j \in Registered : jobs[j].key = k

-----------------------------------------------------------------------------
(* Starting jobs *)

\* Mutant: a cancelled job is started all the same.
Known(js, j) == js[j] # None

Waits(js, j) == js[j] # None /\ js[j].status = "queued"

\* schedule(), on what the step before it has left: jobs are taken from the queue until
\* it is empty or no execution is free, and those that still wait are started.
Schedule(js, q, p, s) ==
    LET free == MaxConcurrent - Cardinality({j \in Job : p[<<j, "run">>] # "idle"})
        Started(n) == {q[i] : i \in {k \in 1 .. n : Waits(js, q[k])}}
    IN \E n \in 0 .. Len(q) :
        /\ IF closed' THEN n = 0
           ELSE /\ n = Len(q) \/ Cardinality(Started(n)) = free
                /\ \A m \in 0 .. n - 1 : Cardinality(Started(m)) < free
        /\ queue' = SubSeq(q, n + 1, Len(q))
        /\ jobs' = [j \in Job |->
              IF j \in Started(n) THEN [js[j] EXCEPT !.status = "running"] ELSE js[j]]
        /\ pc' = [a \in Actor |->
              IF a[2] = "run" /\ a[1] \in Started(n) THEN "saveRunning" ELSE p[a]]
        /\ saving' = [a \in Actor |->
              IF a[2] = "run" /\ a[1] \in Started(n) THEN jobs'[a[1]] ELSE s[a]]

\* The process ends, and its memory with it.
Forget(m) ==
    /\ mode' = m /\ closed' = FALSE /\ creating' = None /\ closing' = "no" /\ todo' = {}
    /\ picking' = {} /\ jobs' = [j \in Job |-> None] /\ queue' = <<>>
    /\ pc' = [a \in Actor |-> "idle"] /\ saving' = [a \in Actor |-> None]
    /\ gate' = [g \in Game |-> <<>>]

\* A task changes its job and begins to write the record.
Record(a, job, step) ==
    /\ jobs' = [jobs EXCEPT ![a[1]] = job]
    /\ saving' = [saving EXCEPT ![a] = job]
    /\ pc' = [pc EXCEPT ![a] = step]

Goto(a, step) == pc' = [pc EXCEPT ![a] = step] /\ UNCHANGED saving

GateOf(a) == jobs[a[1]].game

IsHead(a) == gate[GateOf(a)] # <<>> /\ Head(gate[GateOf(a)]) = a
Enter(a) == gate' = [gate EXCEPT ![GateOf(a)] = Append(@, a)]
Leave(a) == gate' = IF IsHead(a) THEN [gate EXCEPT ![GateOf(a)] = Tail(@)] ELSE gate

-----------------------------------------------------------------------------
(* Requests *)

\* createSelection: the games, then their documents.  One selection is
\* enough: it never changes once it is confirmed.
SelectGames ==
    /\ mode = "open" /\ ~closed /\ picking = {} /\ selection = {}
    /\ picking' = {g \in Game \ ActiveGames : staging[g] # None}
    /\ UNCHANGED <<database, staging, announced, selection, disk, manager, jobs, queue,
                   tasks, bounds>>

ReadTargets ==
    /\ mode = "open" /\ picking # {} /\ picking' = {}
    /\ selection' = IF \E g \in picking : staging[g] = None THEN selection
                    ELSE {staging[g] : g \in picking}
    /\ UNCHANGED <<database, staging, announced, disk, manager, jobs, queue, tasks, bounds>>

NewJob(game, key, expected, target) ==
    [game |-> game, key |-> key, expected |-> expected, target |-> target,
     status |-> "queued", revision |-> 0, followUp |-> "none"]

Unused == {j \in Job : jobs[j] = None /\ files[j] = None /\ intents[j] = None}

\* The creation at the head of creationTail.
Prepare(new) ==
    /\ mode = "open" /\ ~closed /\ creating = None
    /\ creating' = new
    /\ UNCHANGED <<database, staging, announced, selecting, disk, mode, closed, closing,
                   todo, jobs, queue, tasks, bounds>>

Create(key) ==
    /\ ~Named(KeyOf(key))
    /\ \E j \in Unused, g \in Game, expected \in Document \cup {None} :
        /\ \A i \in Unused : j <= i
        /\ expected # None => Ledger[expected].game = g
        /\ Prepare([batch |-> FALSE,
                    jobs |-> [i \in {j} |-> NewJob(g, KeyOf(key), expected, None)]])

BatchOf(key, target) ==
    [batch |-> TRUE,
     jobs |-> [i \in DOMAIN target |->
        NewJob(Ledger[target[i]].game, BatchKeyOf(key, Ledger[target[i]].game), None, target[i])]]

\* Job IDs are given in the order of the targets; so is the queue.
CreateReadyBatch(key) ==
    LET targets == {d \in selection : Ledger[d].game \notin ActiveGames} IN
    /\ targets # {} /\ \A g \in Game : ~Named(BatchKeyOf(key, g))
    /\ Cardinality(Unused) >= Cardinality(targets)
    /\ \E ids \in SUBSET Unused :
        /\ Cardinality(ids) = Cardinality(targets)
        /\ \A i \in ids, j \in Unused \ ids : i < j
        /\ \E target \in [ids -> targets] :
            /\ \A d \in targets : \E i \in ids : target[i] = d
            /\ \A i, j \in ids : target[i] = target[j] => i = j
            /\ Prepare(BatchOf(key, target))

Ascending(ids) == LET In(j) == j \in ids IN SelectSeq([j \in Job |-> j], In)

\* The record or the batch is on disk: register, and schedule.
Register ==
    /\ creating # None /\ creating' = None
    /\ LET new == creating.jobs
           Added(f) == [j \in Job |-> IF j \in DOMAIN new THEN new[j] ELSE f[j]]
       IN /\ IF creating.batch
             THEN intents' = Added(intents) /\ UNCHANGED files
             ELSE files' = Added(files) /\ UNCHANGED intents
          /\ UNCHANGED closed
          /\ Schedule(Added(jobs), queue \o Ascending(DOMAIN new), pc, saving)
    /\ UNCHANGED <<database, staging, announced, selecting, mode, closing, todo, gate, bounds>>

\* The process dies after the record is on disk: see Crash.  A failed write
\* rejects the request.
CreateFails ==
    /\ creating # None /\ MayTrouble
    /\ creating' = None /\ faults' = faults + 1
    /\ UNCHANGED <<database, staging, announced, selecting, disk, mode, closed, closing,
                   todo, jobs, queue, tasks, crashes, lost, edits>>

\* Mutant: the record of a cancelled job is not written.
CancellingInMemory(task, j) ==
    /\ j \in Registered /\ jobs[j].status = "queued"
    /\ jobs' = [jobs EXCEPT ![j].status = "cancelled"]
    /\ UNCHANGED <<database, staging, announced, selecting, disk, manager, queue, tasks, bounds>>

\* cancel() and, for the jobs of a batch, cancelBatch().
Cancelling(task, j) ==
    /\ j \in Registered /\ jobs[j].status = "queued"
    /\ Record(<<j, task>>, [jobs[j] EXCEPT !.status = "cancelled"], "save")
    /\ UNCHANGED <<database, staging, announced, selecting, disk, manager, queue, gate, bounds>>

Cancel(j) == mode = "open" /\ Cancelling("cancel", j)

Reconcile(j) ==
    LET a == <<j, "reconcile">> IN
    /\ mode = "open" /\ j \in Registered /\ Idle(a)
    /\ jobs[j].status = "succeeded" /\ jobs[j].followUp \in {"pending", "failed"}
    /\ Enter(a) /\ Goto(a, "gate")
    /\ UNCHANGED <<database, staging, announced, selecting, disk, manager, jobs, queue, bounds>>

-----------------------------------------------------------------------------
(* run() *)

\* The catch of run: notReady is an ImportSourceNotReadyError.
Caught(a, notReady) ==
    LET job == jobs[a[1]] IN
    /\ Leave(a)
    /\ Record(a, [job EXCEPT
           !.status = IF job.revision # 0 THEN "succeeded"
                      ELSE IF notReady /\ job.target # None THEN "cancelled" ELSE "failed",
           !.followUp = IF @ = "pending" THEN "failed" ELSE @], "save")
    /\ UNCHANGED <<queue>>

\* Mutant: a batch imports what staging holds by now.
Expected(job, d) == d # None /\ job.expected \in {None, d}

\* Staging still holds what was asked for.
IsTarget(job, d) ==
    d # None /\ job.expected \in {None, d} /\ job.target \in {None, d}

Check(j) ==
    LET a == <<j, "run">>
        d == staging[jobs[j].game]
    IN
    /\ pc[a] = "gate" /\ IsHead(a)
    /\ \/ ~IsTarget(jobs[j], d) /\ Caught(a, TRUE)
       \/ /\ IsTarget(jobs[j], d)
          /\ Record(a, [jobs[j] EXCEPT !.target = d], "saveTarget")
          /\ UNCHANGED <<queue, gate>>
    /\ UNCHANGED <<database, staging, announced, selecting, disk, manager, bounds>>

Imported(job) == [job EXCEPT !.status = "succeeded", !.followUp = "pending",
                             !.revision = Sealed(job.target).revision]

\* importRevision appends or refuses; it may fail, with or without a COMMIT.
Import(j) ==
    LET a == <<j, "run">>
        job == jobs[j]
    IN
    /\ pc[a] = "import"
    /\ \/ /\ Chain!Append(job.game, job.target)
          /\ \/ Record(a, Imported(job), "saveImported") /\ UNCHANGED <<queue, gate, lost>>
             \/ MayTrouble /\ lost' = lost + 1 /\ Caught(a, FALSE)
       \/ /\ ~Chain!IsNext(job.game, job.target)
          /\ Caught(a, FALSE) /\ UNCHANGED <<database, lost>>
    /\ UNCHANGED <<staging, announced, selecting, disk, manager, crashes, faults, edits>>

\* followUpUnlocked: removeImportedStaging, then onSucceeded.
FollowedUp(a, result) ==
    /\ Leave(a)
    /\ Record(a, [jobs[a[1]] EXCEPT !.followUp = result], "save")

MayFollowUp(a) ==
    \/ a[2] = "run" /\ pc[a] = "remove"
    \/ a[2] = "reconcile" /\ pc[a] = "gate" /\ IsHead(a)
    \/ a[2] = "restore" /\ pc[a] = "remove"

RemoveImported(a) ==
    LET g == jobs[a[1]].game
        target == jobs[a[1]].target
    IN
    /\ MayFollowUp(a)
    /\ \/ /\ staging[g] \in {None, target}
          /\ staging' = [staging EXCEPT ![g] = None]
          /\ Goto(a, "announce") /\ UNCHANGED <<jobs, gate>>
       \/ /\ staging[g] \notin {None, target}
          /\ FollowedUp(a, "failed") /\ UNCHANGED staging
    /\ UNCHANGED <<database, announced, selecting, disk, manager, queue, bounds>>

Announce(a) ==
    /\ pc[a] = "announce"
    /\ announced' = announced \cup {jobs[a[1]].target}
    /\ FollowedUp(a, "done")
    /\ UNCHANGED <<database, staging, selecting, disk, manager, queue, bounds>>

-----------------------------------------------------------------------------
(* Writing a record *)

\* What follows a record's write.
AfterSave(a) ==
    CASE pc[a] = "saveRunning" -> "gate"
      [] pc[a] = "saveTarget" -> "import"
      [] pc[a] = "saveImported" -> "remove"
      [] OTHER -> "idle"

Saved(a) ==
    LET p == [pc EXCEPT ![a] = AfterSave(a)]
        s == [saving EXCEPT ![a] = None]
    IN
    /\ pc[a] \in Saves
    /\ files' = [files EXCEPT ![a[1]] = saving[a]]
    /\ UNCHANGED closed
    /\ IF pc[a] = "saveRunning" THEN Enter(a) ELSE UNCHANGED gate
    /\ IF a[2] = "run" /\ pc[a] = "save" THEN Schedule(jobs, queue, p, s)
       ELSE pc' = p /\ saving' = s /\ UNCHANGED <<jobs, queue>>
    /\ UNCHANGED <<database, staging, announced, selecting, intents, mode, creating,
                   closing, todo, bounds>>

\* The catch of schedule: history cannot be written, nothing more is started.
Broken(a) ==
    LET Ended(job) == [job EXCEPT
            !.status = IF job.revision = 0 THEN "failed" ELSE "succeeded",
            !.followUp = IF @ = "pending" THEN "failed" ELSE @]
        Halted(j) == IF jobs[j] # None /\ jobs[j].status = "queued"
                     THEN [jobs[j] EXCEPT !.status = "cancelled"] ELSE jobs[j]
    IN
    /\ closed' = TRUE
    /\ jobs' = [j \in Job |-> IF j = a[1] THEN Ended(jobs[j]) ELSE Halted(j)]
    /\ pc' = [pc EXCEPT ![a] = "idle"] /\ saving' = [saving EXCEPT ![a] = None]
    /\ UNCHANGED <<queue, gate, mode, closing, picking, creating, todo>>

SaveFails(a) ==
    /\ pc[a] \in Saves /\ MayTrouble /\ faults' = faults + 1
    /\ \/ a[2] = "run" /\ pc[a] # "save" /\ Caught(a, FALSE) /\ UNCHANGED <<manager, picking>>
       \/ a[2] = "run" /\ pc[a] = "save" /\ Broken(a)
       \/ a[2] = "restore" /\ Forget("refused")
       \/ /\ a[2] \in {"reconcile", "cancel", "close"}
          /\ pc' = [pc EXCEPT ![a] = "idle"] /\ saving' = [saving EXCEPT ![a] = None]
          /\ closing' = IF a[2] = "close" THEN "failed" ELSE closing
          /\ UNCHANGED <<jobs, queue, gate, mode, closed, picking, creating, todo>>
    /\ UNCHANGED <<database, staging, announced, selection, disk, crashes, lost, edits>>

\* A read of the workspace, the database or onSucceeded fails.
TaskFails(a) ==
    /\ MayTrouble /\ faults' = faults + 1
    /\ \/ /\ a[2] = "run"
          /\ pc[a] = "import" \/ (pc[a] = "gate" /\ IsHead(a))
          /\ Caught(a, FALSE)
       \/ /\ MayFollowUp(a) \/ pc[a] = "announce"
          /\ FollowedUp(a, "failed") /\ UNCHANGED queue
    /\ UNCHANGED <<database, staging, announced, selecting, disk, manager,
                   crashes, lost, edits>>

-----------------------------------------------------------------------------
(* close(), crashes and restore() *)

Close ==
    /\ mode = "open" /\ closing = "no"
    /\ closed' = TRUE /\ closing' = "cancelling"
    /\ UNCHANGED <<database, staging, announced, selecting, disk, mode, creating, todo,
                   jobs, queue, tasks, bounds>>

\* Mutant: close cancels the jobs of batches only.
CloseCancelBatches(j) ==
    /\ closing = "cancelling" /\ creating = None /\ intents[j] # None
    /\ \A i \in Job : Idle(<<i, "close">>)
    /\ Cancelling("close", j)

\* One job after the other, once creationTail has settled.
CloseCancel(j) ==
    /\ closing = "cancelling" /\ creating = None
    /\ \A i \in Job : Idle(<<i, "close">>)
    /\ Cancelling("close", j)

\* Every execution has settled.
Closed ==
    /\ closing = "cancelling" /\ creating = None
    /\ \A j \in Job : Idle(<<j, "close">>) /\ Idle(<<j, "run">>)
    /\ \A j \in Registered : jobs[j].status # "queued"
    /\ closing' = "done"
    /\ UNCHANGED <<database, staging, announced, selecting, disk, mode, closed, creating,
                   todo, jobs, queue, tasks, bounds>>

Exit ==
    /\ closing \in {"done", "failed"}
    /\ Forget("down")
    /\ UNCHANGED <<database, staging, announced, selection, disk, bounds>>

\* A record being created may have reached the disk.
Crash ==
    /\ mode \in {"open", "restoring"} /\ MayTrouble
    /\ crashes' = crashes + 1
    /\ Forget("down")
    /\ \/ UNCHANGED disk
       \/ /\ creating # None
          /\ LET Added(f) == [j \in Job |-> IF j \in DOMAIN creating.jobs
                                            THEN creating.jobs[j] ELSE f[j]] IN
             IF creating.batch THEN intents' = Added(intents) /\ UNCHANGED files
             ELSE files' = Added(files) /\ UNCHANGED intents
    /\ UNCHANGED <<database, staging, announced, selection, faults, lost, edits>>

\* The record of a job supersedes that of its batch.
OnDisk(j) == IF files[j] # None THEN files[j] ELSE intents[j]

Restart ==
    /\ mode \in {"down", "refused"}
    /\ mode' = "restoring"
    /\ jobs' = [j \in Job |-> OnDisk(j)]
    /\ todo' = {j \in Job : /\ OnDisk(j) # None
                            /\ \/ OnDisk(j).status \notin Terminal
                               \/ OnDisk(j).followUp \in {"pending", "failed"}}
    /\ UNCHANGED <<database, staging, announced, selecting, disk, closed, creating, closing,
                   queue, tasks, bounds>>

\* revisions() has nothing to return for a game that is not in the database.
HasRevisions(job) == job.target = None \/ revisions[job.game] # {}

Committed(job) == job.target # None /\ Sealed(job.target) \in revisions[job.game]

RestoreJob(j) ==
    LET a == <<j, "restore">>
        job == jobs[j]
    IN
    /\ mode = "restoring" /\ j \in todo /\ \A i \in Job : Idle(<<i, "restore">>)
    /\ \/ ~HasRevisions(job) /\ Forget("refused")
       \/ /\ HasRevisions(job)
          /\ todo' = todo \ {j}
          /\ IF Committed(job)
             THEN jobs' = [jobs EXCEPT ![j] = Imported(job)] /\ Goto(a, "remove")
             ELSE Record(a, [job EXCEPT !.status = "cancelled"], "save")
          /\ UNCHANGED <<mode, closed, creating, closing, picking, queue, gate>>
    /\ UNCHANGED <<database, staging, announced, selection, disk, bounds>>

Restored ==
    /\ mode = "restoring" /\ todo = {} /\ \A j \in Job : Idle(<<j, "restore">>)
    /\ mode' = "open"
    /\ UNCHANGED <<database, staging, announced, selecting, disk, closed, creating, closing,
                   todo, jobs, queue, tasks, bounds>>

\* A correction or a collection makes another document current.
Edit(g) ==
    /\ mode = "open" /\ edits < MaxEdits /\ edits' = edits + 1
    /\ \E d \in Document :
        /\ Ledger[d].game = g /\ d # staging[g]
        /\ staging' = [staging EXCEPT ![g] = d]
    /\ UNCHANGED <<database, announced, selecting, disk, manager, jobs, queue, tasks,
                   crashes, faults, lost>>

-----------------------------------------------------------------------------

Init ==
    /\ Chain!Init /\ \A g \in Game : \A r \in revisions[g] :
           Ledger[r.document].game = g /\ Base[r.document] = None
    /\ staging \in [Game -> Document \cup {None}]
    /\ \A g \in Game : staging[g] # None =>
           Ledger[staging[g]].game = g /\ Chain!IsNext(g, staging[g])
    /\ announced = UNION {{r.document : r \in revisions[g]} : g \in Game}
    /\ selection = {} /\ picking = {}
    /\ files = [j \in Job |-> None] /\ intents = [j \in Job |-> None]
    /\ mode = "open" /\ jobs = [j \in Job |-> None] /\ queue = <<>>
    /\ closed = FALSE /\ creating = None /\ closing = "no" /\ todo = {}
    /\ pc = [a \in Actor |-> "idle"] /\ saving = [a \in Actor |-> None]
    /\ gate = [g \in Game |-> <<>>]
    /\ crashes = 0 /\ faults = 0 /\ lost = 0 /\ edits = 0

Work(j) == Check(j) \/ Import(j) \/ RestoreJob(j) \/ CloseCancel(j)
Step(a) == RemoveImported(a) \/ Announce(a) \/ Saved(a)

Progress ==
    \/ Register \/ Restored \/ Closed
    \/ \E j \in Job : Work(j)
    \/ \E a \in Actor : Step(a)

Next ==
    \/ SelectGames \/ ReadTargets \/ \E k \in RequestKey : Create(k) \/ CreateReadyBatch(k)
    \/ \E j \in Job : Cancel(j) \/ Reconcile(j)
    \/ Progress
    \/ CreateFails \/ \E a \in Actor : SaveFails(a) \/ TaskFails(a)
    \/ Close \/ Exit \/ Crash \/ Restart
    \/ \E g \in Game : Edit(g)

Spec == Init /\ [][Next]_vars

FairSpec == /\ Spec /\ WF_vars(Register) /\ WF_vars(Restored) /\ WF_vars(Closed)
            /\ \A j \in Job : WF_vars(Work(j))
            /\ \A a \in Actor : WF_vars(Step(a))

-----------------------------------------------------------------------------
(* Properties *)

\* Every record there is of a job: in memory, being written, or on disk.
Records(j) == ({jobs[j], files[j], intents[j]} \cup {saving[<<j, t>>] : t \in Task}) \ {None}

\* A job that says it succeeded names a revision that is sealed, with the
\* document it read (run, restore).
SuccessIsSealed ==
    \A j \in Job : \A r \in Records(j) :
        r.status = "succeeded" =>
            /\ r.revision = Sealed(r.target).revision
            /\ Sealed(r.target) \in revisions[r.game]

\* What is imported is what was asked for: the document whose hash the request
\* named, or the one that was current when the selection was confirmed.
TargetHonoured ==
    \A j \in Registered :
        LET job == jobs[j] IN
        job.status = "succeeded" =>
            /\ job.expected \in {None, job.target}
            /\ intents[j] # None => job.target = intents[j].target

\* A success is what was asked for, and is sealed.
SuccessIsTrue == SuccessIsSealed /\ TargetHonoured

\* However often a request is repeated, and whenever the process dies, one key
\* makes one job (create, createReadyBatch, restore).
KeyNamesOneJob ==
    \A i, j \in Job : \A r \in Records(i), s \in Records(j) : r.key = s.key => i = j

\* A revision sealed by a job is reported by a job, now or after a restart,
\* unless the answer to COMMIT was lost.
SealedIsReported ==
    lost = 0 => \A g \in Game : \A r \in revisions[g] :
        \/ r.document \in announced
        \/ \E j \in Job : OnDisk(j) # None /\ OnDisk(j).target = r.document
                          /\ OnDisk(j).status \notin {"cancelled", "failed"}

\* Neither a failed follow-up nor a failed write takes a success back.
SuccessStays ==
    [][\A j \in Registered :
          jobs[j].status = "succeeded" =>
              \/ jobs'[j] = None
              \/ jobs'[j].status = "succeeded" /\ jobs'[j].revision = jobs[j].revision]_vars

\* A job that was cancelled before it ran never runs, not after a restart.
CancelledStays ==
    [][\A j \in Registered :
          jobs[j].status = "cancelled" /\ Idle(<<j, "run">>) =>
              jobs'[j] = None \/ jobs'[j].status = "cancelled"]_vars

\* How a job ended is never taken back.
EndsStay == SuccessStays /\ CancelledStays

\* Once nothing is being written, history on disk tells how a job ended as
\* memory does.
HistoryAgrees ==
    faults = 0 => \A j \in Registered :
        (\A t \in Task : Idle(<<j, t>>)) /\ j \notin todo =>
            /\ OnDisk(j).status = jobs[j].status
            /\ OnDisk(j).target = jobs[j].target /\ OnDisk(j).revision = jobs[j].revision

\* What is known of the jobs, whenever the process dies: one per key, none that
\* sealed a revision is missing, and history is what memory was.
JobsAreRecorded == KeyNamesOneJob /\ SealedIsReported /\ HistoryAgrees

\* What a crash has left is reconciled with the database, and the server
\* starts if nothing fails.
RestartSucceeds == faults = 0 => mode # "refused"

\* Every job ends, unless the process does, and close() returns.
JobsEnd ==
    /\ \A j \in Job :
           jobs[j] # None /\ jobs[j].status \notin Terminal ~>
               jobs[j] = None \/ jobs[j].status \in Terminal
    /\ closing = "cancelling" ~> closing # "cancelling"

=============================================================================
