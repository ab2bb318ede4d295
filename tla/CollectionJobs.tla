----------------------------- MODULE CollectionJobs -----------------------------
(***************************************************************************)
(* The collection jobs (apps/server/src/jobs/collection-job-manager.ts) and *)
(* what they leave on disk: the history of a job, its targets, its results  *)
(* and its journal.  Requests, jobs, cancellations and close() interleave   *)
(* at every write, anything a job awaits may fail, and the process may end  *)
(* between any two steps.                                                   *)
(***************************************************************************)
EXTENDS Naturals, Sequences, FiniteSets, SequencesExt

CONSTANTS
    CollectionJob,        \* the requests; a request that makes a job gives it its name
    CollectionKey,        \* per request its idempotency key
    CollectionScope,      \* per request "selection", "game_ids" or "date_range"
    Target,               \* per request the number of its games, which have the names 1, 2, ...
    MaxConcurrentJobs,
    MaxCollectionCrashes  \* bound of the restarts

ASSUME CollectionAssumption ==
    /\ CollectionScope \in [CollectionJob -> {"selection", "game_ids", "date_range"}]
    /\ Target \in [CollectionJob -> Nat \ {0}]
    /\ MaxConcurrentJobs \in Nat \ {0} /\ MaxCollectionCrashes \in Nat

VARIABLES
    histories,      \* on disk: per job [status, sequence, completed]
    targets,        \* on disk: the jobs whose targets are saved
    results,        \* on disk: per job and game the outcome
    journals,       \* on disk: the jobs that have a journal
    jobs,           \* this.jobs, in the order of the map
    snapshots,      \* per job [status, sequence, completed]
    writes,         \* job.persistence: per job the records that are yet to be written
    collecting,     \* per job where its run, its creation or its cancellation is
    aborts,         \* jobs whose signal is aborted
    closeWaits,     \* the executions close() waits for
    manager,        \* "up", "closing", "cancelling", "waiting", "closed", "down" or "restoring"
    toldEvents,     \* per job the last event that was pushed to a client
    collectionCrashes

collectionDisk == <<histories, targets, results, journals>>
collectionVars == <<collectionDisk, jobs, snapshots, writes, collecting, aborts, closeWaits,
                    manager, toldEvents, collectionCrashes>>

Unknown == [status |-> "none", sequence |-> 0, completed |-> 0]
JobEnded == {"succeeded", "failed", "cancelled"}
Games(j) == 1 .. Target[j]
Done(j) == {g \in Games(j) : results[j][g] \in {"collected", "skipped"}}
Missing(j) == {g \in Games(j) : results[j][g] = "none"}
Creating == {j \in CollectionJob : collecting[j] \in {"selecting", "creating"}}
NoExecution == {"none", "answered", "selecting", "creating", "cancelling"}

\* What a job awaits last is on disk: its records are written one after the other.
Told(j) == \A i \in DOMAIN writes[j] : writes[j][i].of = "cancel"

CollectionInit ==
    /\ histories = [j \in CollectionJob |-> Unknown]
    /\ targets = {} /\ journals = {}
    /\ results = [j \in CollectionJob |-> [g \in Games(j) |-> "none"]]
    /\ jobs = <<>> /\ snapshots = histories
    /\ writes = [j \in CollectionJob |-> <<>>]
    /\ collecting = [j \in CollectionJob |-> "none"]
    /\ aborts = {} /\ closeWaits = {} /\ manager = "up"
    /\ toldEvents = [j \in CollectionJob |-> 0] /\ collectionCrashes = 0

-----------------------------------------------------------------------------
(* emit() *)

\* The snapshot s of j becomes a record with the next number.
Emitted(j, s, by) ==
    LET numbered == [s EXCEPT !.sequence = @ + 1]
    IN  /\ snapshots' = [snapshots EXCEPT ![j] = numbered]
        /\ writes' = [writes EXCEPT ![j] = Append(@, [record |-> numbered, of |-> by])]

\* saveHistory() has written the first of them, and the event is told.
Tells(j) == [toldEvents EXCEPT ![j] = Head(writes[j]).record.sequence]

Persist(j) ==
    /\ writes[j] # <<>>
    /\ histories' = [histories EXCEPT ![j] = Head(writes[j]).record]
    /\ toldEvents' = Tells(j)
    /\ writes' = [writes EXCEPT ![j] = Tail(@)]
    /\ UNCHANGED <<targets, results, journals, jobs, snapshots, collecting, aborts, closeWaits, manager, collectionCrashes>>

Moves(j, stage) == collecting' = [collecting EXCEPT ![j] = stage]

-----------------------------------------------------------------------------
(* create() *)

MayCreate == Creating = {}

\* createSerial(): a key that has a job names that job.
CreateJob(j) ==
    /\ manager = "up" /\ MayCreate /\ collecting[j] = "none" /\ histories[j] = Unknown
    /\ IF \E i \in 1 .. Len(jobs) : CollectionKey[jobs[i]] = CollectionKey[j]
       THEN Moves(j, "answered") /\ UNCHANGED <<snapshots, writes>>
       ELSE IF CollectionScope[j] = "selection"
       THEN Moves(j, "selecting") /\ UNCHANGED <<snapshots, writes>>
       ELSE Moves(j, "creating") /\ Emitted(j, [Unknown EXCEPT !.status = "queued"], "job")
    /\ UNCHANGED <<collectionDisk, jobs, aborts, closeWaits, manager, toldEvents, collectionCrashes>>

CreateSelects(j) ==
    /\ collecting[j] = "selecting"
    /\ targets' = targets \cup {j}
    /\ Moves(j, "creating") /\ Emitted(j, [Unknown EXCEPT !.status = "queued"], "job")
    /\ UNCHANGED <<histories, results, journals, jobs, aborts, closeWaits, manager, toldEvents, collectionCrashes>>

CreateEnds(j) ==
    /\ collecting[j] = "creating" /\ Told(j)
    /\ jobs' = Append(jobs, j)
    /\ Moves(j, "none")
    /\ UNCHANGED <<collectionDisk, snapshots, writes, aborts, closeWaits, manager, toldEvents, collectionCrashes>>

\* The targets or the first record are not written: no job.
CreateRejects(j) ==
    /\ collecting[j] \in {"selecting", "creating"} /\ histories[j] = Unknown
    /\ snapshots' = [snapshots EXCEPT ![j] = Unknown]
    /\ writes' = [writes EXCEPT ![j] = <<>>]
    /\ Moves(j, "answered")
    /\ UNCHANGED <<collectionDisk, jobs, aborts, closeWaits, manager, toldEvents, collectionCrashes>>

-----------------------------------------------------------------------------
(* pump() and run() *)

InExecution(j) == collecting[j] \in {"journal", "started", "next", "collect", "save", "count", "interrupt", "ending"}
Waits(i) == snapshots[jobs[i]].status = "queued"

\* The first job that is queued takes a free slot.
PumpJob(j) ==
    /\ manager = "up"
    /\ Cardinality({i \in CollectionJob : InExecution(i)}) < MaxConcurrentJobs
    /\ \E i \in 1 .. Len(jobs) : jobs[i] = j /\ Waits(i) /\ \A k \in 1 .. i - 1 : ~ Waits(k)
    /\ snapshots' = [snapshots EXCEPT ![j].status = "running"]
    /\ Moves(j, "journal")
    /\ UNCHANGED <<collectionDisk, jobs, writes, aborts, closeWaits, manager, toldEvents, collectionCrashes>>

JournalJob(j) ==
    /\ collecting[j] = "journal"
    /\ journals' = journals \cup {j}
    /\ Moves(j, "started") /\ Emitted(j, snapshots[j], "job")
    /\ UNCHANGED <<histories, targets, results, jobs, aborts, closeWaits, manager, toldEvents, collectionCrashes>>

\* targets(): a selection has its own, the others are made and saved now.
TargetJob(j) ==
    /\ collecting[j] = "started" /\ Told(j)
    /\ targets' = targets \cup {j}
    /\ Moves(j, "next") /\ Emitted(j, snapshots[j], "job")
    /\ UNCHANGED <<histories, results, journals, jobs, aborts, closeWaits, manager, toldEvents, collectionCrashes>>

\* The catch of run().
Caught(j) ==
    /\ snapshots' = [snapshots EXCEPT ![j].status = IF j \in aborts THEN "cancelled" ELSE "failed"]
    /\ Moves(j, "interrupt")
    /\ UNCHANGED writes

\* The head of the loop.
NextGame(j) ==
    /\ collecting[j] = "next" /\ Told(j)
    /\ IF Missing(j) = {} THEN Moves(j, "ending") /\ Emitted(j, [snapshots[j] EXCEPT !.status = "succeeded"], "job")
       ELSE IF j \in aborts THEN Caught(j)
       ELSE Moves(j, "collect") /\ Emitted(j, snapshots[j], "job")
    /\ UNCHANGED <<collectionDisk, jobs, aborts, closeWaits, manager, toldEvents, collectionCrashes>>

NextMissing(j) == CHOOSE g \in Missing(j) : \A h \in Missing(j) : g <= h

\* collectOne() and saveResult(): the game is collected or skipped.
CollectGame(j) ==
    /\ collecting[j] = "collect" /\ Told(j)
    /\ \E outcome \in {"collected", "skipped"} :
          results' = [results EXCEPT ![j][NextMissing(j)] = outcome]
    /\ snapshots' = [snapshots EXCEPT ![j].completed = @ + 1]
    /\ Moves(j, "count")
    /\ UNCHANGED <<histories, targets, journals, jobs, writes, aborts, closeWaits, manager, toldEvents, collectionCrashes>>

\* The journal of the job is written, then the event.
CountGame(j) ==
    /\ collecting[j] = "count"
    /\ Moves(j, "next") /\ Emitted(j, snapshots[j], "job")
    /\ UNCHANGED <<collectionDisk, jobs, aborts, closeWaits, manager, toldEvents, collectionCrashes>>

\* What the job awaits fails, or its signal is seen.
JobThrows(j) ==
    /\ collecting[j] \in {"journal", "started", "collect", "count"} /\ Told(j)
    /\ Caught(j)
    /\ UNCHANGED <<collectionDisk, jobs, aborts, closeWaits, manager, toldEvents, collectionCrashes>>

\* interruptRemaining(): the games of the job that have no result.
ToInterrupt(j) == IF j \in targets \/ CollectionScope[j] = "game_ids" THEN Missing(j) ELSE {}

InterruptGame(j) ==
    /\ collecting[j] \in {"interrupt", "interruptQueued"} /\ ToInterrupt(j) # {}
    /\ results' = [results EXCEPT ![j][CHOOSE g \in ToInterrupt(j) : TRUE] = "interrupted"]
    /\ UNCHANGED <<histories, targets, journals, jobs, snapshots, writes, collecting, aborts, closeWaits,
                   manager, toldEvents, collectionCrashes>>

\* The last event of a job that did not succeed.
InterruptEnds(j) ==
    /\ collecting[j] \in {"interrupt", "interruptQueued"} /\ ToInterrupt(j) = {}
    /\ Emitted(j, IF collecting[j] = "interrupt" THEN snapshots[j]
                  ELSE [snapshots[j] EXCEPT !.status = "cancelled"], "job")
    /\ Moves(j, "ending")
    /\ UNCHANGED <<collectionDisk, jobs, aborts, closeWaits, manager, toldEvents, collectionCrashes>>

\* The finally of run(): the journal of a job goes when its history has its end.
JobEnds(j) ==
    /\ collecting[j] = "ending" /\ Told(j)
    /\ journals' = IF histories[j].status = snapshots[j].status THEN journals \ {j} ELSE journals
    /\ Moves(j, "none")
    /\ UNCHANGED <<histories, targets, results, jobs, snapshots, writes, aborts, closeWaits, manager, toldEvents, collectionCrashes>>

-----------------------------------------------------------------------------
(* cancel() and close() *)

\* cancel() of the jobs c: a queued job is ended by finishQueuedCancellation(), a
\* running one by its signal; the others have ended or are being cancelled.
Cancels(c) ==
    LET open == {j \in c : snapshots[j].status \in {"queued", "running"}}
        queued == {j \in open : snapshots[j].status = "queued"}
        marked == [j \in CollectionJob |->
                      [snapshots[j] EXCEPT !.status = "cancelling", !.sequence = @ + 1]]
    IN  /\ snapshots' = [j \in CollectionJob |-> IF j \in open THEN marked[j] ELSE snapshots[j]]
        /\ writes' = [j \in CollectionJob |->
              IF j \in open THEN Append(writes[j], [record |-> marked[j],
                                                    of |-> IF j \in queued THEN "job" ELSE "cancel"])
              ELSE writes[j]]
        /\ collecting' = [j \in CollectionJob |-> IF j \in queued THEN "cancelling" ELSE collecting[j]]
        /\ aborts' = aborts \cup (open \ queued)

CancelJob(j) ==
    /\ manager = "up" /\ \E i \in 1 .. Len(jobs) : jobs[i] = j
    /\ snapshots[j].status \in {"queued", "running"}
    /\ Cancels({j})
    /\ UNCHANGED <<collectionDisk, jobs, closeWaits, manager, toldEvents, collectionCrashes>>

EndQueuedJob(j) ==
    /\ collecting[j] = "cancelling" /\ Told(j)
    /\ Moves(j, "interruptQueued")
    /\ UNCHANGED <<collectionDisk, jobs, snapshots, writes, aborts, closeWaits, manager, toldEvents, collectionCrashes>>

\* close() waits for the creation, and cancels every job.
CloseCollection ==
    /\ manager = "up"
    /\ manager' = "closing"
    /\ UNCHANGED <<collectionDisk, jobs, snapshots, writes, collecting, aborts, closeWaits, toldEvents, collectionCrashes>>

CloseCancels ==
    /\ manager = "closing" /\ Creating = {}
    /\ Cancels({jobs[i] : i \in 1 .. Len(jobs)})
    /\ manager' = "cancelling"
    /\ UNCHANGED <<collectionDisk, jobs, closeWaits, toldEvents, collectionCrashes>>

\* A job whose cancellation is in flight has no execution yet.
CloseLooks ==
    /\ manager = "cancelling" /\ \A j \in CollectionJob : writes[j] = <<>>
    /\ closeWaits' = {j \in CollectionJob : collecting[j] \notin NoExecution}
    /\ manager' = "waiting"
    /\ UNCHANGED <<collectionDisk, jobs, snapshots, writes, collecting, aborts, toldEvents, collectionCrashes>>

CollectionClosed ==
    /\ manager = "waiting"
    /\ \A j \in closeWaits : collecting[j] \in NoExecution
    /\ \A j \in CollectionJob : writes[j] = <<>>
    /\ manager' = "closed"
    /\ UNCHANGED <<collectionDisk, jobs, snapshots, writes, collecting, aborts, closeWaits, toldEvents, collectionCrashes>>

-----------------------------------------------------------------------------
(* The process *)

\* A crash, the exit after close(), or the rejection of a run whose last event
\* cannot be written, which nobody handles.
CollectionCrashes ==
    /\ manager # "down" /\ collectionCrashes < MaxCollectionCrashes
    /\ manager' = "down" /\ collectionCrashes' = collectionCrashes + 1
    /\ jobs' = <<>> /\ snapshots' = [j \in CollectionJob |-> Unknown]
    /\ writes' = [j \in CollectionJob |-> <<>>]
    /\ collecting' = [j \in CollectionJob |-> "none"]
    /\ aborts' = {} /\ closeWaits' = {}
    /\ UNCHANGED <<collectionDisk, toldEvents>>

\* recoverInterruptedCollectionJobs() removes every journal; the history of a job,
\* which is older than its journal, is what restoreInterrupted() goes by.
RestoreBegins ==
    /\ manager = "down"
    /\ manager' = "restoring"
    /\ journals' = {}
    /\ jobs' = SetToSeq({j \in CollectionJob : histories[j] # Unknown})
    /\ snapshots' = histories
    /\ UNCHANGED <<histories, targets, results, writes, collecting, aborts, closeWaits, toldEvents, collectionCrashes>>

Unfinished(i) == snapshots[jobs[i]].status \notin JobEnded

\* What is done is counted from the results.
CountOfResults(j) == Cardinality(Done(j))

\* The first job that has not ended fails.
RestoreJob(j) ==
    /\ manager = "restoring" /\ \A i \in CollectionJob : collecting[i] = "none"
    /\ \E i \in 1 .. Len(jobs) : jobs[i] = j /\ Unfinished(i) /\ \A k \in 1 .. i - 1 : ~ Unfinished(k)
    /\ snapshots' = [snapshots EXCEPT ![j].status = "failed", ![j].completed = CountOfResults(j)]
    /\ Moves(j, "interrupt")
    /\ UNCHANGED <<collectionDisk, jobs, writes, aborts, closeWaits, manager, toldEvents, collectionCrashes>>

Restored ==
    /\ manager = "restoring"
    /\ \A i \in 1 .. Len(jobs) : ~ Unfinished(i)
    /\ \A j \in CollectionJob : collecting[j] = "none"
    /\ manager' = "up"
    /\ UNCHANGED <<collectionDisk, jobs, snapshots, writes, collecting, aborts, closeWaits, toldEvents, collectionCrashes>>

-----------------------------------------------------------------------------
\* What the server does for a job by itself.
JobStep(j) ==
    \/ Persist(j) \/ CreateSelects(j) \/ CreateEnds(j) \/ PumpJob(j) \/ JournalJob(j) \/ TargetJob(j)
    \/ NextGame(j) \/ CollectGame(j) \/ CountGame(j) \/ InterruptGame(j) \/ InterruptEnds(j)
    \/ JobEnds(j) \/ EndQueuedJob(j) \/ RestoreJob(j)

CollectionNext ==
    \/ \E j \in CollectionJob :
          JobStep(j) \/ CreateJob(j) \/ CreateRejects(j) \/ JobThrows(j) \/ CancelJob(j)
    \/ CloseCollection \/ CloseCancels \/ CloseLooks \/ CollectionClosed
    \/ CollectionCrashes \/ RestoreBegins \/ Restored

\* Promises settle, and a process that ended is started again; nobody has to make,
\* cancel or close anything.
CollectionFairness ==
    /\ \A j \in CollectionJob : WF_collectionVars(JobStep(j))
    /\ WF_collectionVars(CloseCancels \/ CloseLooks \/ CollectionClosed \/ RestoreBegins \/ Restored)

CollectionSpec == CollectionInit /\ [][CollectionNext]_collectionVars /\ CollectionFairness

-----------------------------------------------------------------------------
(* Properties *)

\* A job that has ended on disk has a result for every game it was for, and counts
\* those it dealt with, also when it was cancelled, failed or died in between.
EndIsComplete(j) ==
    histories[j].status \in JobEnded =>
        /\ histories[j].completed = Cardinality(Done(j))
        /\ j \in targets => Missing(j) = {}

\* No number of an event that a client has seen is given to another event after a
\* restart, for it is on disk: "Last-Event-ID" finds its place again.
EventsAreOnDisk(j) == toldEvents[j] <= histories[j].sequence

\* A job at rest is on disk as it is in memory, and has no journal.
RestIsOnDisk(j) ==
    manager = "up" /\ j \in Range(jobs) /\ collecting[j] = "none" =>
        /\ writes[j] = <<>> => histories[j] = snapshots[j]
        /\ j \notin journals

\* However often a request is sent, its key has one job.
KeyHasOneJob ==
    \A i, j \in CollectionJob :
        i # j /\ CollectionKey[i] = CollectionKey[j] => Unknown \in {histories[i], histories[j]}

CollectionIsTold ==
    /\ KeyHasOneJob
    /\ \A j \in CollectionJob : EndIsComplete(j) /\ EventsAreOnDisk(j) /\ RestIsOnDisk(j)

\* Every job that is made ends, and so does close(), unless the process is left to die.
CollectionEnds ==
    /\ \A j \in CollectionJob : histories[j] # Unknown ~> histories[j].status \in JobEnded \/ manager = "closed"
    /\ manager = "closing" ~> manager \in {"closed", "down", "up", "restoring"}

=============================================================================
