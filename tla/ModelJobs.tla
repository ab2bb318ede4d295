------------------------------- MODULE ModelJobs -------------------------------
(***************************************************************************)
(* The refresh of analysis models                                           *)
(* (apps/server/src/jobs/analysis-model-job-manager.ts, its runner          *)
(* model-training-runner.ts, analysis-model-service.ts and the journal      *)
(* analysis-model-job-workspace.ts): one job trains the models one after    *)
(* the other while it is cancelled, its progress is written, a write fails, *)
(* the sources change and the process dies.                                 *)
(***************************************************************************)
EXTENDS Naturals, FiniteSets

CONSTANTS
    ModelJob,       \* jobs, 1 .. n in the order of their creation
    ModelKind,      \* MODEL_ORDER, 1 .. n; the last is trained on the one before
    MaxSources,     \* bound of the changes of the sources
    MaxLostWrites,  \* bound of the writes of the journal that fail
    MaxModelCrashes \* bound of the restarts

ASSUME ModelAssumption ==
    /\ {MaxSources, MaxLostWrites, MaxModelCrashes} \subseteq Nat
    /\ IsFiniteSet(ModelJob) /\ IsFiniteSet(ModelKind)
    /\ ModelJob = 1 .. Cardinality(ModelJob)
    /\ ModelKind = 1 .. Cardinality(ModelKind)

VARIABLES
    journal,     \* per job the state on disk
    latest,      \* this.latest: [id, state]
    current,     \* the job object of run(): [id, state]
    stage,       \* where create(), run() or start() is
    step,        \* the index of run()'s loop
    fitting,     \* the commit of the phase "fitting" is in flight
    force,       \* the job trains models that are current, too
    aborted,     \* the signal of the job
    modelEnds,   \* the process: "down", "open", "closing" or "closed"
    sources,     \* the version of the sources
    trained,     \* what the model that is being trained was trained from: [source, base]
    since,       \* the sources when the job was created: of the properties alone
    published,   \* per kind the model on disk: [source, base]
    lostEnd,   \* jobs whose last write failed
    lostWrites, modelCrashes

modelVars == <<journal, latest, current, stage, step, fitting, force, aborted, modelEnds, sources,
               trained, since, published, lostEnd, lostWrites, modelCrashes>>
modelData == <<sources, trained, since, published>>

NoJob == [id |-> 0, state |-> "none"]
Untrained == [source |-> 0, base |-> 0]
LastKind == Cardinality(ModelKind)
HashOf(k) == published[k].source   \* a model is addressed by what it was trained from
Ended == {"succeeded", "failed", "cancelled"}
Created == {j \in ModelJob : journal[j] # "none"}

ModelInit ==
    /\ journal = [j \in ModelJob |-> "none"]
    /\ latest = NoJob /\ current = NoJob
    /\ stage = "idle" /\ step = 0 /\ fitting = FALSE /\ force = FALSE /\ aborted = FALSE
    /\ modelEnds = "open"
    /\ sources = 1 /\ trained = Untrained /\ since = 0
    /\ published = [k \in ModelKind |-> Untrained]
    /\ lostEnd = {} /\ lostWrites = 0 /\ modelCrashes = 0

-----------------------------------------------------------------------------
(* commit() *)

\* The write of the job object that the stage `at` awaits is there.
Written(at) ==
    /\ stage = at /\ modelEnds # "down"
    /\ journal' = [journal EXCEPT ![current.id] = current.state]
    /\ latest' = current

WriteFails(at) ==
    /\ stage = at /\ modelEnds # "down" /\ lostWrites < MaxLostWrites
    /\ lostWrites' = lostWrites + 1

-----------------------------------------------------------------------------
(* create(), cancel() and close() *)

\* The creation of a job is the only operation that awaits while it has the
\* barrier and changes state; cancel() and close() come before it or after it.
Create(j) ==
    /\ modelEnds = "open" /\ stage = "idle"
    /\ j \notin Created /\ \A i \in ModelJob : i < j => i \in Created \cup lostEnd
    /\ j \notin lostEnd
    /\ current' = [id |-> j, state |-> "running"]
    /\ force' \in BOOLEAN /\ aborted' = FALSE /\ step' = 1
    /\ stage' = "creating" /\ since' = sources
    /\ UNCHANGED <<journal, latest, fitting, modelEnds, sources, trained, published, lostEnd, lostWrites, modelCrashes>>

CreateWritten ==
    /\ Written("creating")
    /\ stage' = "step"
    /\ UNCHANGED <<current, step, fitting, force, aborted, modelEnds, modelData,
                   lostEnd, lostWrites, modelCrashes>>

CreateFails ==
    /\ WriteFails("creating")
    /\ stage' = "idle" /\ current' = NoJob
    /\ lostEnd' = lostEnd \cup {current.id}
    /\ UNCHANGED <<journal, latest, step, fitting, force, aborted, modelEnds, modelData, modelCrashes>>

Cancel ==
    /\ modelEnds = "open" /\ stage \notin {"idle", "creating"} /\ ~ aborted
    /\ aborted' = TRUE
    /\ UNCHANGED <<journal, latest, current, stage, step, fitting, force, modelEnds, modelData,
                   lostEnd, lostWrites, modelCrashes>>

ModelCloses ==
    /\ modelEnds = "open"
    /\ modelEnds' = "closing"
    /\ UNCHANGED <<journal, latest, current, stage, step, fitting, force, aborted, modelData,
                   lostEnd, lostWrites, modelCrashes>>

CloseAborts ==
    /\ modelEnds = "closing" /\ stage \notin {"idle", "creating"} /\ ~ aborted
    /\ aborted' = TRUE
    /\ UNCHANGED <<journal, latest, current, stage, step, fitting, force, modelEnds, modelData,
                   lostEnd, lostWrites, modelCrashes>>

ModelClosed ==
    /\ modelEnds = "closing" /\ stage = "idle"
    /\ modelEnds' = "closed"
    /\ UNCHANGED <<journal, latest, current, stage, step, fitting, force, aborted, modelData,
                   lostEnd, lostWrites, modelCrashes>>

-----------------------------------------------------------------------------
(* run() *)

\* The catch of run(), which begins the last commit.
Throws ==
    /\ current' = [current EXCEPT !.state = IF aborted THEN "cancelled" ELSE "failed"]
    /\ stage' = "ending"

\* status(): a model is current when its sources are and the model it was
\* trained on is the one that is published.
IsCurrent(k) ==
    /\ published[k].source = sources
    /\ k = LastKind /\ k > 1 => published[k].base = HashOf(k - 1)

\* A turn of the loop, with the status of the step's model read again: it is
\* skipped or trained, and either is written; or the loop is over.
StepBegins ==
    /\ stage = "step" /\ modelEnds # "down"
    /\ IF step > LastKind
       THEN current' = [current EXCEPT !.state = "succeeded"] /\ stage' = "ending"
       ELSE \/ ~ aborted /\ UNCHANGED current
               /\ stage' = IF ~ force /\ IsCurrent(step) THEN "stepped" ELSE "starting"
            \/ Throws
    /\ UNCHANGED <<journal, latest, step, fitting, force, aborted, modelEnds, modelData,
                   lostEnd, lostWrites, modelCrashes>>

\* The step is written as running, then the worker starts.
TrainingBegins ==
    /\ Written("starting")
    /\ IF aborted THEN Throws /\ UNCHANGED trained
       ELSE /\ stage' = "training" /\ UNCHANGED current
            /\ trained' = [source |-> sources,
                           base |-> IF step = LastKind /\ step > 1 THEN HashOf(step - 1) ELSE 0]
    /\ UNCHANGED <<step, fitting, force, aborted, modelEnds, sources, since, published,
                   lostEnd, lostWrites, modelCrashes>>

\* The worker's message that it fits: progress is written while it goes on.
Fits ==
    /\ stage = "training" /\ ~ fitting /\ ~ aborted /\ modelEnds # "down"
    /\ fitting' = TRUE
    /\ UNCHANGED <<journal, latest, current, stage, step, force, aborted, modelEnds, modelData,
                   lostEnd, lostWrites, modelCrashes>>

FitsWritten ==
    /\ fitting /\ modelEnds # "down"
    /\ journal' = [journal EXCEPT ![current.id] = "running"]
    /\ latest' = current
    /\ fitting' = FALSE
    /\ UNCHANGED <<current, stage, step, force, aborted, modelEnds, modelData,
                   lostEnd, lostWrites, modelCrashes>>

\* ... and refuses the training when it fails.
FitsFails ==
    /\ fitting /\ WriteFails(stage)
    /\ fitting' = FALSE
    /\ stage' = IF stage = "training" THEN "stopping" ELSE stage
    /\ UNCHANGED <<journal, latest, current, step, force, aborted, modelEnds, modelData,
                   lostEnd, modelCrashes>>

\* The result of the worker, after the phases that are being written.
Trained ==
    /\ stage = "training" /\ ~ fitting /\ ~ aborted /\ modelEnds # "down"
    /\ stage' = "checking"
    /\ UNCHANGED <<journal, latest, current, step, fitting, force, aborted, modelEnds, modelData,
                   lostEnd, lostWrites, modelCrashes>>

\* The abort, the timeout, the worker's error or its end: runModelTraining
\* waits for the worker's termination and the writes of its phases.
TrainingFails ==
    /\ stage = "training" /\ modelEnds # "down"
    /\ stage' = "stopping"
    /\ UNCHANGED <<journal, latest, current, step, fitting, force, aborted, modelEnds, modelData,
                   lostEnd, lostWrites, modelCrashes>>

\* Mutant: the writes of the phases are not awaited.
StopsAtOnce ==
    /\ stage = "stopping" /\ modelEnds # "down"
    /\ Throws
    /\ UNCHANGED <<journal, latest, step, fitting, force, aborted, modelEnds, modelData,
                   lostEnd, lostWrites, modelCrashes>>

TrainingStopped ==
    /\ stage = "stopping" /\ ~ fitting /\ modelEnds # "down"
    /\ Throws
    /\ UNCHANGED <<journal, latest, step, fitting, force, aborted, modelEnds, modelData,
                   lostEnd, lostWrites, modelCrashes>>

CheckWritten ==
    /\ Written("checking")
    /\ stage' = "sources"
    /\ UNCHANGED <<current, step, fitting, force, aborted, modelEnds, modelData,
                   lostEnd, lostWrites, modelCrashes>>

\* What the model was trained from is still there.
UnchangedSince ==
    /\ trained.source = sources
    /\ step = LastKind /\ step > 1 => trained.base = HashOf(step - 1)

SourcesRead ==
    /\ stage = "sources" /\ modelEnds # "down"
    /\ IF UnchangedSince /\ ~ aborted
       THEN stage' = "publishing" /\ UNCHANGED current
       ELSE Throws
    /\ UNCHANGED <<journal, latest, step, fitting, force, aborted, modelEnds, modelData,
                   lostEnd, lostWrites, modelCrashes>>

PublishWritten ==
    /\ Written("publishing")
    /\ stage' = "saving"
    /\ UNCHANGED <<current, step, fitting, force, aborted, modelEnds, modelData,
                   lostEnd, lostWrites, modelCrashes>>

\* save() of a model looks at the signal, too; it may fail by itself.
Saves ==
    /\ stage = "saving" /\ modelEnds # "down"
    /\ \/ /\ ~ aborted
          /\ published' = [published EXCEPT ![step] = trained]
          /\ stage' = "stepped" /\ UNCHANGED current
       \/ Throws /\ UNCHANGED published
    /\ UNCHANGED <<journal, latest, step, fitting, force, aborted, modelEnds, sources, trained, since,
                   lostEnd, lostWrites, modelCrashes>>

StepWritten ==
    /\ Written("stepped")
    /\ stage' = "step" /\ step' = step + 1 /\ trained' = Untrained
    /\ UNCHANGED <<current, fitting, force, aborted, modelEnds, sources, since, published,
                   lostEnd, lostWrites, modelCrashes>>

\* A commit of the loop fails.
StepFails ==
    /\ \E at \in {"starting", "checking", "publishing", "stepped"} : WriteFails(at)
    /\ Throws
    /\ UNCHANGED <<journal, latest, step, fitting, force, aborted, modelEnds, modelData,
                   lostEnd, modelCrashes>>

\* The last commit, and what is left of the job when it fails.
RunEnds ==
    /\ \/ Written("ending") /\ UNCHANGED <<lostWrites, lostEnd>>
       \/ /\ WriteFails("ending")
          /\ latest' = [current EXCEPT !.state = "failed"]
          /\ lostEnd' = lostEnd \cup {current.id}
          /\ UNCHANGED journal
    /\ stage' = "idle" /\ current' = NoJob /\ trained' = Untrained /\ step' = 0
    /\ force' = FALSE /\ aborted' = FALSE
    /\ UNCHANGED <<fitting, modelEnds, sources, since, published, modelCrashes>>

-----------------------------------------------------------------------------
(* The world outside *)

SourcesChange ==
    /\ sources <= MaxSources
    /\ sources' = sources + 1
    /\ UNCHANGED <<journal, latest, current, stage, step, fitting, force, aborted, modelEnds,
                   trained, since, published, lostEnd, lostWrites, modelCrashes>>

\* The process dies, with or without what it was writing.
Crash ==
    /\ modelEnds # "down" /\ modelCrashes < MaxModelCrashes
    /\ modelCrashes' = modelCrashes + 1
    /\ modelEnds' = "down"
    /\ latest' = NoJob /\ current' = NoJob /\ stage' = "idle" /\ step' = 0 /\ fitting' = FALSE
    /\ force' = FALSE /\ aborted' = FALSE /\ trained' = Untrained
    /\ UNCHANGED <<journal, sources, since, published, lostEnd, lostWrites>>

Newest == CHOOSE j \in Created : \A i \in Created : i <= j

\* start(): the newest job is failed when it was running.
Restart ==
    /\ modelEnds = "down"
    /\ modelEnds' = "open"
    /\ LET found == IF Created = {} THEN NoJob
                    ELSE [id |-> Newest, state |-> journal[Newest]]
           job == IF found.state = "running" THEN [found EXCEPT !.state = "failed"] ELSE found
       IN /\ latest' = job
          /\ journal' = [j \in ModelJob |-> IF j = job.id THEN job.state ELSE journal[j]]
    /\ UNCHANGED <<current, stage, step, fitting, force, aborted, modelData, lostEnd,
                   lostWrites, modelCrashes>>

Commits == FitsWritten \/ CreateWritten \/ TrainingBegins \/ CheckWritten \/ PublishWritten
           \/ StepWritten \/ RunEnds
Turns == StepBegins \/ TrainingStopped \/ SourcesRead \/ Saves \/ CloseAborts \/ ModelClosed
ModelNext ==
    \/ Commits \/ Turns \/ CreateFails \/ StepFails \/ FitsFails
    \/ Cancel \/ ModelCloses \/ Fits \/ Trained \/ TrainingFails
    \/ SourcesChange \/ Crash \/ Restart
    \/ \E j \in ModelJob : Create(j)

\* Writes and turns end; a training ends, at the latest by its timeout.
ModelFairness == WF_modelVars(Commits) /\ WF_modelVars(Turns) /\ WF_modelVars(TrainingFails)

ModelSpec == ModelInit /\ [][ModelNext]_modelVars /\ ModelFairness

-----------------------------------------------------------------------------
\* Whoever reads a job that has ended reads its end: no progress that was still
\* being written comes after it, in memory or on disk; only a job whose last
\* write failed differs, and is reported as failed.
EndsAreKept ==
    modelEnds # "down" /\ stage = "idle" =>
        /\ latest.state \in Ended \cup {"none"}
        /\ latest.id # 0 =>
              \/ journal[latest.id] = latest.state
              \/ latest.id \in lostEnd /\ latest.state = "failed"
        /\ ~ fitting
        /\ \A j \in ModelJob : journal[j] = "running" => j \in lostEnd

\* A job that succeeds leaves every model trained from sources no older than
\* the job, and the last one on the model that is published before it.
SuccessIsCurrent ==
    stage = "ending" /\ current.state = "succeeded" =>
        \A k \in ModelKind :
            /\ published[k].source >= since
            /\ k = LastKind /\ k > 1 => published[k].base = HashOf(k - 1)

\* What a job tells of its end and of its models is true.
ModelJobsAreTold == EndsAreKept /\ SuccessIsCurrent

\* A job that was accepted ends, and so does close().
ModelJobsEnd ==
    /\ stage # "idle" ~> stage = "idle"
    /\ modelEnds = "closing" ~> modelEnds \in {"closed", "down"}

=============================================================================
