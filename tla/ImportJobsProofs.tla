-------------------------- MODULE ImportJobsProofs --------------------------
(***************************************************************************)
(* Theorems about ImportJobs, for any number of jobs, requests, documents, *)
(* edits, crashes and failures.                                            *)
(*                                                                         *)
(* Most of the invariant is about one job and the tasks at work on it, and *)
(* most steps change one job: so there is a lemma for each way in which a  *)
(* job goes on, and each action is one of them for every job.              *)
(***************************************************************************)
EXTENDS ImportJobs, TLAPS

Steps == Saves \cup {"idle", "gate", "import", "remove", "announce"}
StepsOf(t) == CASE t = "run" -> Steps
                [] t = "reconcile" -> {"idle", "gate", "announce", "save"}
                [] t = "restore" -> {"idle", "remove", "announce", "save"}
                [] OTHER -> {"idle", "save"}

TypeInv ==
    /\ revisions \in [Game -> SUBSET [revision : Nat, document : Document]]
    /\ current \in [Game -> Nat]
    /\ staging \in [Game -> Document \cup {None}]
    /\ selection \in SUBSET Document /\ picking \in SUBSET Game
    /\ jobs \in [Job -> JobRecord \cup {None}]
    /\ files \in [Job -> JobRecord \cup {None}] /\ intents \in [Job -> JobRecord \cup {None}]
    /\ saving \in [Actor -> JobRecord \cup {None}] /\ pc \in [Actor -> Steps]
    /\ todo \in SUBSET Job /\ faults \in Nat /\ lost \in Nat

\* A success has a revision, that is sealed with the job's document; nothing follows up on
\* anything else; and the document is what was asked for.
True(r) ==
    /\ r.status = "succeeded" <=> r.revision # 0
    /\ r.followUp # "none" => r.revision # 0
    /\ r.revision # 0 => /\ r.target \in Document /\ r.revision = Sealed(r.target).revision
                         /\ Sealed(r.target) \in revisions[r.game]
    /\ r.target # None => r.expected \in {None, r.target}

RecordsOf(j) == \A r \in Records(j) :
    /\ True(r)
    /\ intents[j] # None => r.target = intents[j].target /\ r.target # None
    /\ \A s \in Records(j) : r.key = s.key /\ r.game = s.game

Same(r, s) == r.status = s.status /\ r.target = s.target /\ r.revision = s.revision

\* Who works on a job: nobody but its run until it has ended, and what is being written
\* says how the job stands.
TasksOf(j) ==
    /\ \A t \in Task :
        /\ pc[<<j, t>>] \in StepsOf(t)
        /\ pc[<<j, t>>] \in Saves <=> saving[<<j, t>>] # None
        /\ saving[<<j, t>>] # None => Same(saving[<<j, t>>], jobs[j])
        /\ ~Idle(<<j, t>>) => jobs[j] # None
        /\ jobs[j] # None /\ jobs[j].status = "queued" => Idle(<<j, t>>)
        /\ jobs[j] # None /\ jobs[j].status = "running" /\ t # "run" => Idle(<<j, t>>)
    /\ pc[<<j, "run">>] \in {"saveRunning", "gate", "saveTarget", "import"} => jobs[j].status = "running"
    /\ pc[<<j, "run">>] \in {"saveTarget", "import"} => jobs[j].target # None
    /\ pc[<<j, "run">>] = "import" => files[j] # None /\ Same(files[j], jobs[j])
    /\ pc[<<j, "run">>] \in {"saveImported", "remove", "announce"} => jobs[j].revision # 0
    /\ \A t \in {"cancel", "close"} : ~Idle(<<j, t>>) => Idle(<<j, "run">>) /\ jobs[j].status = "cancelled"
    /\ ~Idle(<<j, "reconcile">>) => jobs[j].revision # 0
    /\ pc[<<j, "restore">>] \in {"remove", "announce"} => jobs[j].revision # 0

\* What is on disk is in memory once the process is up, and what restore() has to look at is as
\* it was found.
RestoreOf(j) ==
    /\ mode # "open" => \A t \in Task \ {"restore"} : Idle(<<j, t>>)
    /\ mode # "restoring" => j \notin todo /\ Idle(<<j, "restore">>)
    /\ mode \in {"refused", "down"} => jobs[j] = None
    /\ mode \in {"open", "restoring"} /\ OnDisk(j) # None => jobs[j] # None
    /\ jobs[j] # None => OnDisk(j) # None
    /\ j \in todo =>
        /\ jobs[j] # None /\ jobs[j] = OnDisk(j) /\ Idle(<<j, "restore">>)
        /\ jobs[j].status \notin Terminal \/ jobs[j].followUp \in {"pending", "failed"}
    /\ mode = "restoring" /\ j \notin todo /\ jobs[j] # None =>
        jobs[j].status \in Terminal /\ (jobs[j].status = "succeeded" \/ jobs[j].followUp = "none")

\* With nothing being written, what is on disk says how the job ended.
HistoryOf(j) ==
    /\ faults = 0 /\ jobs[j] # None /\ j \notin todo
    /\ pc[<<j, "restore">>] \notin {"remove", "announce"}
    /\ \A t \in Task : pc[<<j, t>>] \notin Saves
    => Same(OnDisk(j), jobs[j])

JobInv(j) == RecordsOf(j) /\ TasksOf(j) /\ RestoreOf(j) /\ HistoryOf(j)

\* The job that sealed a document has it on disk, and so it will be found.
Witness(j, g, d) ==
    /\ OnDisk(j) # None /\ OnDisk(j).target = d /\ OnDisk(j).game = g
    /\ OnDisk(j).status \notin {"cancelled", "failed"} /\ Sealed(d) \in revisions[g]
    /\ jobs[j] # None /\ j \notin todo => jobs[j].revision # 0 /\ jobs[j].target = d

Reported == lost = 0 => \A g \in Game : \A r \in revisions[g] :
    r.document \in announced \/ \E j \in Job : Witness(j, g, r.document)

\* The jobs that are being created are new, and each of them has a key of its own.
CreatedAreNew == creating # None =>
    /\ DOMAIN creating.jobs \subseteq Job
    /\ \A j \in DOMAIN creating.jobs :
        LET r == creating.jobs[j] IN
        /\ r \in JobRecord /\ r.status = "queued" /\ True(r) /\ Records(j) = {}
        /\ creating.batch => r.target # None
        /\ \A i \in Job : \A s \in Records(i) : s.key # r.key
        /\ \A i \in DOMAIN creating.jobs : creating.jobs[i].key = r.key => i = j

\* A selection names one document of a game.
Selected ==
    /\ \A g \in Game : staging[g] # None => Ledger[staging[g]].game = g
    /\ \A d, e \in selection : Ledger[d].game = Ledger[e].game => d = e

Modes ==
    /\ mode \in {"open", "restoring", "refused", "down"}
    /\ mode # "open" => creating = None /\ closing = "no"

IInv ==
    /\ TypeInv /\ Modes /\ Selected /\ CreatedAreNew
    /\ \A j \in Job : JobInv(j)
    /\ KeyNamesOneJob /\ Reported

-----------------------------------------------------------------------------
(* One job *)

\* How a job ended is not taken back.
Ends(j) ==
    /\ jobs[j] # None /\ jobs[j].status = "succeeded" =>
          \/ jobs'[j] = None
          \/ jobs'[j].status = "succeeded" /\ jobs'[j].revision = jobs[j].revision
    /\ jobs[j] # None /\ jobs[j].status = "cancelled" /\ Idle(<<j, "run">>) =>
          jobs'[j] = None \/ jobs'[j].status = "cancelled"

\* What a step may do to a job.
JobStep(j) ==
    /\ JobInv(j)'
    /\ \A s \in Records(j)' : \E r \in Records(j) : s.key = r.key
    /\ \A g \in Game, d \in Document : Witness(j, g, d) => Witness(j, g, d)'
    /\ Ends(j)

\* Nothing is taken back from the database.
Growing == \A g \in Game : revisions[g] \subseteq revisions'[g]

FilesStay(j) == files'[j] = files[j] /\ intents'[j] = intents[j]
TaskStays(a) == pc'[a] = pc[a] /\ saving'[a] = saving[a]
Around(j) ==
    /\ mode' = mode /\ (j \in todo' <=> j \in todo) /\ (faults' = 0 => faults = 0)
    /\ Growing

LEMMA TrueStays ==
    ASSUME NEW r \in JobRecord, True(r), Growing PROVE True(r)'
BY DEF True, Growing, JobRecord

LEMMA RecordsTyped ==
    ASSUME TypeInv, NEW j \in Job
    PROVE  Records(j) \subseteq JobRecord /\ (jobs[j] # None => jobs[j] \in Records(j))
<1>1. Records(j) \subseteq JobRecord
    BY DEF Records, TypeInv, Actor
<1>2. jobs[j] # None => jobs[j] \in Records(j)
    BY DEF Records
<1> QED BY <1>1, <1>2

\* A job that a step does not touch.
LEMMA UntouchedStep ==
    ASSUME TypeInv, NEW j \in Job, JobInv(j), FilesStay(j), jobs'[j] = jobs[j],
           \A t \in Task : TaskStays(<<j, t>>), Around(j)
    PROVE  JobStep(j)
<1>1. Records(j)' = Records(j)
    BY DEF Records, FilesStay, TaskStays
<1>2. Records(j) \subseteq JobRecord
    BY DEF Records, TypeInv, Actor
<1>3. RecordsOf(j)'
    BY <1>1, <1>2, TrueStays DEF JobInv, RecordsOf, FilesStay, Around
<1>4. TasksOf(j)'
    BY DEF JobInv, TasksOf, FilesStay, TaskStays, Idle, Task
<1>5. RestoreOf(j)' /\ HistoryOf(j)'
    BY DEF JobInv, RestoreOf, HistoryOf, FilesStay, TaskStays, Idle, OnDisk, Around, Task
<1>6. \A g \in Game, d \in Document : Witness(j, g, d) => Witness(j, g, d)'
    BY DEF Witness, OnDisk, FilesStay, Around, Growing
<1> QED BY <1>1, <1>3, <1>4, <1>5, <1>6 DEF JobStep, Ends, JobInv

\* A job that a task has changed, with the record that it begins to write.
Following(j, t, job, step) ==
    /\ job \in JobRecord /\ step \in Saves \cap StepsOf(t)
    /\ jobs[j] # None /\ job.key = jobs[j].key /\ job.game = jobs[j].game /\ True(job)'
    /\ intents[j] # None => job.target = intents[j].target /\ job.target # None
    /\ jobs[j].revision # 0 => job.revision = jobs[j].revision /\ job.target = jobs[j].target
    /\ job.status # "queued"
    /\ job.status = "running" => t = "run" /\ jobs[j].status \in {"queued", "running"}
    /\ step = "saveRunning" => job.status = "running"
    /\ step = "saveTarget" => job.status = "running" /\ job.target # None
    /\ step = "saveImported" => job.revision # 0
    /\ t \notin {"run", "restore"} => jobs[j].status # "running"
    /\ t \in {"cancel", "close"} => Idle(<<j, "run">>) /\ job.status = "cancelled"
    /\ t = "run" => jobs[j].status # "cancelled" /\ Idle(<<j, "cancel">>) /\ Idle(<<j, "close">>)
    /\ t = "reconcile" => job.revision # 0
    /\ mode = IF t = "restore" THEN "restoring" ELSE "open"
    /\ t = "restore" => job.status \in Terminal /\ (job.status = "succeeded" \/ job.followUp = "none")
    /\ \A u \in Task \ {t} : saving[<<j, u>>] # None => Same(job, jobs[j])
    /\ \A g \in Game, d \in Document : Witness(j, g, d) => job.revision # 0 /\ job.target = d
    /\ jobs[j].status = "cancelled" => job.status = "cancelled"

LEMMA RecordedStep ==
    ASSUME TypeInv, NEW j \in Job, NEW t \in Task, JobInv(j), NEW job, NEW step, Following(j, t, job, step),
           jobs'[j] = job, saving'[<<j, t>>] = job, pc'[<<j, t>>] = step,
           \A u \in Task \ {t} : TaskStays(<<j, u>>), FilesStay(j), mode' = mode, j \notin todo', Growing
    PROVE  JobStep(j)
<1>0. /\ job \in JobRecord /\ job # None /\ jobs[j] \in JobRecord /\ jobs[j] \in Records(j)
      /\ Records(j) \subseteq JobRecord /\ step # "idle"
    <2>1. Records(j) \subseteq JobRecord
        BY RecordsTyped
    <2>2. job \in JobRecord /\ jobs[j] # None /\ step # "idle"
        BY DEF Following, Saves
    <2> QED BY <2>1, <2>2, NoneAssumption DEF TypeInv, Records
<1>1. Records(j)' \subseteq Records(j) \cup {job}
    BY DEF Records, FilesStay, TaskStays
<1>2. RecordsOf(j)'
    <2>1. \A r \in Records(j) : True(r)'
        BY <1>0, TrueStays DEF JobInv, RecordsOf
    <2> QED BY <1>0, <1>1, <2>1 DEF JobInv, RecordsOf, Following, FilesStay
<1>3. TasksOf(j)'
    <2>1. \A u \in Task :
            /\ pc'[<<j, u>>] \in StepsOf(u)
            /\ pc'[<<j, u>>] \in Saves <=> saving'[<<j, u>>] # None
            /\ saving'[<<j, u>>] # None => Same(saving'[<<j, u>>], jobs'[j])
            /\ (~Idle(<<j, u>>))' => jobs'[j] # None
            /\ jobs'[j] # None /\ jobs'[j].status = "queued" => Idle(<<j, u>>)'
            /\ jobs'[j] # None /\ jobs'[j].status = "running" /\ u # "run" => Idle(<<j, u>>)'
        BY <1>0 DEF JobInv, TasksOf, Following, TaskStays, Idle, Same
    <2>2. CASE t = "run"
        <3>1. \A u \in {"reconcile", "cancel", "close", "restore"} : TaskStays(<<j, u>>)
            BY <2>2 DEF Task
        <3>2. Idle(<<j, "cancel">>)' /\ Idle(<<j, "close">>)' /\ Idle(<<j, "restore">>)'
            BY <2>2, <3>1 DEF Following, JobInv, RestoreOf, Idle, TaskStays
        <3>3. ~Idle(<<j, "reconcile">>)' => job.revision # 0
            BY <3>1 DEF Following, JobInv, TasksOf, Idle, TaskStays
        <3> QED BY <1>0, <2>1, <2>2, <3>2, <3>3 DEF TasksOf, Following, Saves, Idle
    <2>3. CASE t # "run"
        <3>1. TaskStays(<<j, "run">>) /\ pc[<<j, "run">>] \notin {"saveRunning", "gate", "saveTarget", "import"}
            BY <2>3 DEF Following, JobInv, TasksOf, RestoreOf, Idle, Task
        <3>2. pc'[<<j, "run">>] \in {"saveImported", "remove", "announce"} => job.revision # 0
            BY <3>1 DEF Following, JobInv, TasksOf, TaskStays
        <3>3. \A u \in {"cancel", "close"} : ~Idle(<<j, u>>)' => Idle(<<j, "run">>)' /\ job.status = "cancelled"
            <4>1. \A u \in {"cancel", "close"} \ {t} : ~Idle(<<j, u>>)' => Idle(<<j, "run">>)' /\ job.status = "cancelled"
                BY <2>3, <3>1 DEF Following, JobInv, TasksOf, TaskStays, Idle, Task
            <4> QED BY <4>1, <3>1 DEF Following, TaskStays, Idle
        <3>4. ~Idle(<<j, "reconcile">>)' => job.revision # 0
            BY DEF Following, JobInv, TasksOf, Idle, TaskStays, Task
        <3>5. pc'[<<j, "restore">>] \in {"remove", "announce"} => job.revision # 0
            <4>1. CASE t = "restore"
                BY <4>1 DEF Following, Saves
            <4>2. CASE t # "restore"
                BY <4>2 DEF Following, JobInv, TasksOf, TaskStays, Task
            <4> QED BY <4>1, <4>2
        <3> QED BY <1>0, <2>1, <3>1, <3>2, <3>3, <3>4, <3>5 DEF TasksOf, TaskStays
    <2> QED BY <2>2, <2>3
<1>4. RestoreOf(j)' /\ HistoryOf(j)'
    BY <1>0 DEF JobInv, RestoreOf, HistoryOf, Following, FilesStay, TaskStays, Idle, OnDisk, Task
<1>5. \A g \in Game, d \in Document : Witness(j, g, d) => Witness(j, g, d)'
    BY DEF Following, Witness, OnDisk, FilesStay, Growing
<1>6. \A s \in Records(j)' : \E r \in Records(j) : s.key = r.key
    BY <1>0, <1>1 DEF Following
<1>7. True(jobs[j]) /\ (job.status = "succeeded" <=> job.revision # 0)
    BY <1>0 DEF JobInv, RecordsOf, Following, True
<1> QED BY <1>2, <1>3, <1>4, <1>5, <1>6, <1>7 DEF JobStep, Ends, JobInv, Following, True

\* A task of a job whose revision is sealed goes on, and writes nothing.
LEMMA GoneOnStep ==
    ASSUME TypeInv, NEW j \in Job, NEW t \in {"run", "reconcile", "restore"}, JobInv(j),
           NEW step \in {"gate", "announce"},
           jobs[j] # None, jobs[j].revision # 0, pc[<<j, t>>] \notin Saves,
           IF t = "reconcile" THEN mode = "open"
           ELSE pc[<<j, t>>] = "remove" /\ step = "announce",
           pc'[<<j, t>>] = step, saving'[<<j, t>>] = saving[<<j, t>>],
           \A u \in Task \ {t} : TaskStays(<<j, u>>),
           jobs'[j] = jobs[j], FilesStay(j), Around(j)
    PROVE  JobStep(j)
<1>1. Records(j)' = Records(j)
    <2>1. \A u \in Task : saving'[<<j, u>>] = saving[<<j, u>>]
        BY DEF TaskStays
    <2> QED BY <2>1 DEF Records, FilesStay
<1>2. Records(j) \subseteq JobRecord /\ jobs[j] \in Records(j)
    BY DEF Records, TypeInv, Actor
<1>3. RecordsOf(j)'
    BY <1>1, <1>2, TrueStays DEF JobInv, RecordsOf, FilesStay, Around
<1>4. jobs[j].status = "succeeded"
    BY <1>2 DEF JobInv, RecordsOf, True
<1>5. TasksOf(j)'
    <2>1. \A u \in {"cancel", "close"} : Idle(<<j, u>>) /\ TaskStays(<<j, u>>)
        BY <1>4 DEF JobInv, TasksOf, Task
    <2>2. \A u \in Task : pc'[<<j, u>>] \in StepsOf(u)
        BY DEF JobInv, TasksOf, TaskStays, StepsOf, Steps, Saves
    <2>3. \A u \in Task : /\ pc'[<<j, u>>] \in Saves <=> pc[<<j, u>>] \in Saves
                          /\ saving'[<<j, u>>] = saving[<<j, u>>]
        BY DEF TaskStays, Saves
    <2>4. \A u \in Task :
            /\ pc'[<<j, u>>] \in Saves <=> saving'[<<j, u>>] # None
            /\ saving'[<<j, u>>] # None => Same(saving'[<<j, u>>], jobs'[j])
        BY <2>3 DEF JobInv, TasksOf
    <2>5. pc'[<<j, "run">>] \notin {"saveRunning", "gate", "saveTarget", "import"}
        BY <1>4 DEF JobInv, TasksOf, TaskStays, Task
    <2> QED BY <1>4, <2>1, <2>2, <2>4, <2>5 DEF TasksOf, Idle, TaskStays, Task
<1>6. RestoreOf(j)'
    BY <1>4 DEF JobInv, RestoreOf, Around, FilesStay, TaskStays, Idle, OnDisk, Task
<1>7. HistoryOf(j)'
    <2>1. \A u \in Task : pc'[<<j, u>>] \in Saves <=> pc[<<j, u>>] \in Saves
        BY DEF TaskStays, Saves
    <2>2. pc[<<j, "restore">>] \in {"remove", "announce"} => pc'[<<j, "restore">>] \in {"remove", "announce"}
        BY DEF TaskStays, Task
    <2> QED BY <2>1, <2>2 DEF JobInv, HistoryOf, Around, FilesStay, OnDisk
<1>8. \A g \in Game, d \in Document : Witness(j, g, d) => Witness(j, g, d)'
    BY DEF Witness, OnDisk, FilesStay, Around, Growing
<1> QED BY <1>1, <1>3, <1>4, <1>5, <1>6, <1>7, <1>8 DEF JobStep, Ends, JobInv

\* The record of a job is written.
LEMMA SavedStep ==
    ASSUME TypeInv, NEW j \in Job, NEW t \in Task, JobInv(j), pc[<<j, t>>] \in Saves,
           files'[j] = saving[<<j, t>>], intents'[j] = intents[j],
           pc'[<<j, t>>] = AfterSave(<<j, t>>), saving'[<<j, t>>] = None,
           \A u \in Task \ {t} : TaskStays(<<j, u>>),
           jobs'[j] = jobs[j], Around(j)
    PROVE  JobStep(j)
<1>1. /\ saving[<<j, t>>] \in JobRecord /\ saving[<<j, t>>] # None
      /\ saving[<<j, t>>] \in Records(j)
    BY DEF TypeInv, JobInv, TasksOf, Actor, Records
<1>2. Records(j)' \subseteq Records(j)
    <2>1. \A u \in Task : saving'[<<j, u>>] \in {None, saving[<<j, u>>]}
        BY DEF TaskStays
    <2> QED BY <1>1, <2>1 DEF Records
<1>3. Records(j) \subseteq JobRecord
    BY DEF Records, TypeInv, Actor
<1>4. RecordsOf(j)'
    <2>1. \A r \in Records(j)' : True(r)'
        BY <1>2, <1>3, TrueStays DEF JobInv, RecordsOf, Around
    <2> QED BY <1>2, <2>1 DEF JobInv, RecordsOf
<1>5. /\ jobs[j] # None /\ ~Idle(<<j, t>>) /\ Same(saving[<<j, t>>], jobs[j])
      /\ jobs[j] \in Records(j) /\ j \notin todo
    <2>1. jobs[j] # None /\ ~Idle(<<j, t>>) /\ Same(saving[<<j, t>>], jobs[j])
        BY <1>1 DEF JobInv, TasksOf, Idle, Saves
    <2>2. j \notin todo
        BY <2>1 DEF JobInv, RestoreOf
    <2> QED BY <2>1, <2>2 DEF Records
<1>6. TasksOf(j)'
    <2>1. AfterSave(<<j, t>>) \in StepsOf(t) \ Saves
        BY DEF AfterSave, JobInv, TasksOf, StepsOf, Steps, Saves, Task
    <2>2. \A u \in Task :
            /\ pc'[<<j, u>>] \in StepsOf(u)
            /\ pc'[<<j, u>>] \in Saves <=> saving'[<<j, u>>] # None
            /\ saving'[<<j, u>>] # None => Same(saving'[<<j, u>>], jobs'[j])
            /\ (~Idle(<<j, u>>))' => ~Idle(<<j, u>>)
        BY <1>5, <2>1 DEF JobInv, TasksOf, TaskStays, Idle
    <2>3. CASE t = "run"
        <3>1. \A u \in {"reconcile", "cancel", "close", "restore"} : TaskStays(<<j, u>>)
            BY <2>3 DEF Task
        <3>2. Idle(<<j, "cancel">>)' /\ Idle(<<j, "close">>)'
            BY <1>5, <2>3, <3>1 DEF JobInv, TasksOf, Idle, TaskStays
        <3>3. pc'[<<j, "run">>] \in {"saveRunning", "gate", "saveTarget", "import"} => jobs[j].status = "running"
            BY <2>3 DEF AfterSave, JobInv, TasksOf, Saves
        <3>4. pc'[<<j, "run">>] \in {"saveTarget", "import"} => jobs[j].target # None
            BY <2>3 DEF AfterSave, JobInv, TasksOf, Saves
        <3>5. pc'[<<j, "run">>] \in {"saveImported", "remove", "announce"} => jobs[j].revision # 0
            BY <2>3 DEF AfterSave, JobInv, TasksOf, Saves
        <3> QED BY <1>1, <1>5, <2>2, <2>3, <3>1, <3>2, <3>3, <3>4, <3>5
                DEF TasksOf, JobInv, TaskStays, Idle
    <2>4. CASE t # "run"
        <3>1. TaskStays(<<j, "run">>) /\ pc[<<j, "run">>] # "import" /\ pc'[<<j, t>>] = "idle"
            BY <1>5, <2>4 DEF JobInv, TasksOf, Task, AfterSave, StepsOf, Saves
        <3>2. \A u \in {"cancel", "close"} : ~Idle(<<j, u>>)' => Idle(<<j, "run">>)' /\ jobs'[j].status = "cancelled"
            BY <2>2, <3>1 DEF JobInv, TasksOf, TaskStays, Idle, Task
        <3>3. ~Idle(<<j, "reconcile">>)' => jobs'[j].revision # 0
            BY <2>2 DEF JobInv, TasksOf, Task
        <3>4. pc'[<<j, "restore">>] \in {"remove", "announce"} => jobs'[j].revision # 0
            BY <3>1 DEF JobInv, TasksOf, TaskStays, Task
        <3> QED BY <2>2, <3>1, <3>2, <3>3, <3>4 DEF TasksOf, JobInv, TaskStays, Idle
    <2> QED BY <2>3, <2>4
<1>7. RestoreOf(j)'
    <2>1. \A u \in Task : ~Idle(<<j, u>>)' => ~Idle(<<j, u>>)
        BY <1>5 DEF TaskStays, Idle
    <2> QED BY <1>1, <1>5, <2>1 DEF JobInv, RestoreOf, Around, OnDisk, Task
<1>8. HistoryOf(j)'
    BY <1>1, <1>5 DEF HistoryOf, OnDisk, Same
<1>9. \A g \in Game, d \in Document : Witness(j, g, d) => Witness(j, g, d)'
    <2> SUFFICES ASSUME NEW g \in Game, NEW d \in Document, Witness(j, g, d) PROVE Witness(j, g, d)'
        OBVIOUS
    <2>1. jobs[j].revision # 0 /\ jobs[j].target = d /\ jobs[j].status = "succeeded"
        BY <1>5 DEF Witness, JobInv, RecordsOf, True
    <2>2. OnDisk(j) \in Records(j) /\ OnDisk(j).game = g
        BY DEF Witness, OnDisk, Records
    <2>3. saving[<<j, t>>].game = g /\ saving[<<j, t>>].status = "succeeded" /\ saving[<<j, t>>].target = d
        BY <1>1, <1>5, <2>1, <2>2 DEF JobInv, RecordsOf, Same
    <2> QED BY <1>1, <1>5, <2>1, <2>3 DEF Witness, OnDisk, Around, Growing
<1> QED BY <1>2, <1>4, <1>6, <1>7, <1>8, <1>9 DEF JobStep, Ends, JobInv

\* A write has failed: whoever was writing has stopped, and the job may have ended in memory.
LEMMA AsideStep ==
    ASSUME TypeInv, NEW j \in Job, JobInv(j), NEW job \in JobRecord,
           jobs[j] # None, jobs'[j] = job, mode = "open", mode' = mode, faults' # 0,
           job.key = jobs[j].key, job.game = jobs[j].game, job.target = jobs[j].target,
           job.revision = jobs[j].revision, True(job)',
           job.status = jobs[j].status \/ \A t \in Task : pc'[<<j, t>>] = "idle",
           job.status = jobs[j].status \/ job.status \in Terminal,
           jobs[j].status = "cancelled" /\ Idle(<<j, "run">>) => job.status = "cancelled",
           \A t \in Task : \/ TaskStays(<<j, t>>)
                           \/ pc'[<<j, t>>] = "idle" /\ saving'[<<j, t>>] = None,
           FilesStay(j), j \notin todo', Growing
    PROVE  JobStep(j)
<1>1. Records(j)' \subseteq Records(j) \cup {job}
    <2>1. \A u \in Task : saving'[<<j, u>>] \in {None, saving[<<j, u>>]}
        BY DEF TaskStays
    <2> QED BY <2>1 DEF Records, FilesStay
<1>2. Records(j) \subseteq JobRecord /\ jobs[j] \in Records(j) /\ job # None
    BY RecordsTyped, NoneAssumption
<1>3. RecordsOf(j)'
    <2>1. \A r \in Records(j)' : True(r)'
        BY <1>1, <1>2, TrueStays DEF JobInv, RecordsOf
    <2> QED BY <1>1, <1>2, <2>1 DEF JobInv, RecordsOf, FilesStay
<1>4. TasksOf(j)'
    <2>1. CASE \A t \in Task : pc'[<<j, t>>] = "idle"
        <3>1. \A t \in Task : saving'[<<j, t>>] = None
            BY <2>1 DEF JobInv, TasksOf, TaskStays, Saves
        <3> QED BY <2>1, <3>1 DEF TasksOf, Idle, StepsOf, Steps, Saves, Task
    <2>2. CASE job.status = jobs[j].status
        <3>1. \A t \in Task :
                /\ pc'[<<j, t>>] \in StepsOf(t)
                /\ pc'[<<j, t>>] \in Saves <=> saving'[<<j, t>>] # None
                /\ saving'[<<j, t>>] # None => Same(saving'[<<j, t>>], jobs'[j])
                /\ pc'[<<j, t>>] \in {"idle", pc[<<j, t>>]}
            BY <2>2 DEF JobInv, TasksOf, TaskStays, StepsOf, Steps, Saves, Same, Task
        <3> QED BY <1>2, <2>2, <3>1 DEF JobInv, TasksOf, Idle, FilesStay, Same, Task
    <2> QED BY <2>1, <2>2
<1>5. RestoreOf(j)'
    BY <1>2 DEF JobInv, RestoreOf, FilesStay, TaskStays, Idle, OnDisk, Task
<1>6. HistoryOf(j)'
    BY DEF HistoryOf
<1>7. \A g \in Game, d \in Document : Witness(j, g, d) => Witness(j, g, d)'
    BY DEF JobInv, RestoreOf, Witness, OnDisk, FilesStay, Growing
<1>8. \A s \in Records(j)' : \E r \in Records(j) : s.key = r.key
    BY <1>1, <1>2
<1>9. True(jobs[j]) /\ (job.status = "succeeded" <=> job.revision # 0)
    BY <1>2 DEF JobInv, RecordsOf, True
<1> QED BY <1>3, <1>4, <1>5, <1>6, <1>7, <1>8, <1>9 DEF JobStep, Ends, JobInv, True

\* A new job, which may be started at once: r is its record on disk.
LEMMA NewStep ==
    ASSUME TypeInv, NEW j \in Job, JobInv(j), Records(j) = {}, NEW r \in JobRecord, True(r)',
           r.status = "queued",
           \/ files'[j] = r /\ intents'[j] = intents[j]
           \/ files'[j] = files[j] /\ intents'[j] = r /\ r.target # None,
           \/ jobs'[j] = r /\ \A t \in Task : TaskStays(<<j, t>>)
           \/ /\ jobs'[j] = [r EXCEPT !.status = "running"]
              /\ pc'[<<j, "run">>] = "saveRunning" /\ saving'[<<j, "run">>] = jobs'[j]
              /\ \A t \in Task \ {"run"} : TaskStays(<<j, t>>),
           mode = "open", mode' = mode, j \notin todo'
    PROVE  JobInv(j)' /\ \A s \in Records(j)' : s.key = r.key
<1> DEFINE started == [r EXCEPT !.status = "running"]
<1>1. /\ started \in JobRecord /\ started.status = "running" /\ Same(started, started) /\ Same(r, r)
      /\ started.key = r.key /\ started.game = r.game /\ started.target = r.target
      /\ started.revision = r.revision /\ started.followUp = r.followUp
      /\ started.expected = r.expected /\ r # None /\ started # None
    BY NoneAssumption DEF JobRecord, Same
<1>2. True(started)'
    BY <1>1 DEF True
<1>3. /\ jobs[j] = None /\ files[j] = None /\ intents[j] = None
      /\ \A t \in Task : saving[<<j, t>>] = None /\ pc[<<j, t>>] = "idle"
    BY DEF Records, JobInv, TasksOf, Idle, Task
<1>4. Records(j)' \subseteq {r, started} /\ (intents'[j] # None => intents'[j] = r /\ r.target # None)
    <2>1. jobs'[j] \in {r, started} /\ files'[j] \in {None, r} /\ (intents'[j] # None => intents'[j] = r /\ r.target # None)
        BY <1>3
    <2>2. \A t \in Task : saving'[<<j, t>>] \in {None, started}
        BY <1>3 DEF TaskStays
    <2> QED BY <2>1, <2>2 DEF Records
<1>5. RecordsOf(j)'
    BY <1>1, <1>2, <1>4 DEF RecordsOf
<1>6. TasksOf(j)'
    <2>1. \A t \in Task \ {"run"} : pc'[<<j, t>>] = "idle" /\ saving'[<<j, t>>] = None
        BY <1>3 DEF TaskStays
    <2>2. \/ pc'[<<j, "run">>] = "idle" /\ saving'[<<j, "run">>] = None /\ jobs'[j] = r
          \/ pc'[<<j, "run">>] = "saveRunning" /\ saving'[<<j, "run">>] = started /\ jobs'[j] = started
        BY <1>3 DEF TaskStays, Task
    <2> QED BY <1>1, <2>1, <2>2 DEF TasksOf, Idle, StepsOf, Steps, Saves, Task
<1>7. RestoreOf(j)'
    <2>1. jobs'[j] # None /\ OnDisk(j)' # None /\ Idle(<<j, "restore">>)'
        BY <1>1, <1>3 DEF OnDisk, TaskStays, Task, Idle
    <2> QED BY <2>1 DEF RestoreOf
<1>8. HistoryOf(j)'
    <2>1. OnDisk(j)' = r
        BY <1>1, <1>3 DEF OnDisk
    <2> QED BY <1>1, <2>1 DEF HistoryOf, Saves, Task
<1> QED BY <1>1, <1>4, <1>5, <1>6, <1>7, <1>8 DEF JobInv

\* The process ends: a job is what is on disk.
LEMMA ForgottenStep ==
    ASSUME TypeInv, NEW j \in Job, JobInv(j), jobs'[j] = None,
           \A t \in Task : pc'[<<j, t>>] = "idle" /\ saving'[<<j, t>>] = None,
           mode' \in {"down", "refused"}, j \notin todo', FilesStay(j), Growing
    PROVE  JobStep(j)
<1>1. Records(j)' \subseteq Records(j) /\ Records(j) \subseteq JobRecord
    BY DEF Records, FilesStay, TypeInv, Actor
<1>2. RecordsOf(j)'
    BY <1>1, TrueStays DEF JobInv, RecordsOf, FilesStay
<1>3. TasksOf(j)'
    BY DEF TasksOf, Idle, StepsOf, Steps, Saves, Task
<1>4. RestoreOf(j)' /\ HistoryOf(j)'
    BY DEF RestoreOf, HistoryOf, Idle, Task
<1>5. \A g \in Game, d \in Document : Witness(j, g, d) => Witness(j, g, d)'
    BY DEF Witness, OnDisk, FilesStay, Growing
<1> QED BY <1>1, <1>2, <1>3, <1>4, <1>5 DEF JobStep, Ends, JobInv

\* The process ends as the record of a new job has reached the disk.
LEMMA LeftStep ==
    ASSUME TypeInv, NEW j \in Job, JobInv(j), Records(j) = {}, NEW r \in JobRecord, True(r)',
           \/ files'[j] = r /\ intents'[j] = intents[j]
           \/ files'[j] = files[j] /\ intents'[j] = r /\ r.target # None,
           jobs'[j] = None, \A t \in Task : pc'[<<j, t>>] = "idle" /\ saving'[<<j, t>>] = None,
           mode' = "down", j \notin todo'
    PROVE  JobInv(j)' /\ \A s \in Records(j)' : s.key = r.key
<1>1. files[j] = None /\ intents[j] = None
    BY DEF Records
<1>2. Records(j)' \subseteq {r} /\ (intents'[j] # None => intents'[j] = r /\ r.target # None)
    BY <1>1 DEF Records
<1>3. RecordsOf(j)'
    BY <1>2 DEF RecordsOf
<1>4. TasksOf(j)'
    BY DEF TasksOf, Idle, StepsOf, Steps, Saves, Task
<1>5. RestoreOf(j)' /\ HistoryOf(j)'
    BY DEF RestoreOf, HistoryOf, Idle, Task
<1> QED BY <1>2, <1>3, <1>4, <1>5 DEF JobInv

\* The server is started: a job is read from the disk.
LEMMA ReadStep ==
    ASSUME TypeInv, NEW j \in Job, JobInv(j), mode \in {"down", "refused"}, mode' = "restoring",
           jobs'[j] = OnDisk(j), FilesStay(j), \A t \in Task : TaskStays(<<j, t>>), Growing,
           j \in todo' <=> /\ OnDisk(j) # None
                           /\ \/ OnDisk(j).status \notin Terminal
                              \/ OnDisk(j).followUp \in {"pending", "failed"}
    PROVE  JobStep(j)
<1>1. /\ jobs[j] = None
      /\ \A t \in Task : pc[<<j, t>>] = "idle" /\ saving[<<j, t>>] = None
    BY DEF JobInv, RestoreOf, TasksOf, Idle, Task, Saves
<1>2. Records(j)' \subseteq Records(j) /\ Records(j) \subseteq JobRecord /\ OnDisk(j)' = OnDisk(j)
    BY <1>1 DEF Records, FilesStay, TaskStays, OnDisk, TypeInv, Actor
<1>3. OnDisk(j) # None => OnDisk(j) \in JobRecord /\ True(OnDisk(j))
    BY <1>2 DEF Records, OnDisk, JobInv, RecordsOf
<1>4. RecordsOf(j)'
    BY <1>2, TrueStays DEF JobInv, RecordsOf, FilesStay
<1>5. TasksOf(j)'
    BY <1>1 DEF TasksOf, TaskStays, Idle, StepsOf, Steps, Saves, Task
<1>6. RestoreOf(j)'
    <2>1. OnDisk(j) # None /\ j \notin todo' =>
            OnDisk(j).status \in Terminal /\ (OnDisk(j).status = "succeeded" \/ OnDisk(j).followUp = "none")
        BY <1>3 DEF True, JobRecord
    <2> QED BY <1>1, <1>2, <2>1 DEF RestoreOf, TaskStays, Idle, Task
<1>7. HistoryOf(j)'
    BY <1>2 DEF HistoryOf, Same
<1>8. \A g \in Game, d \in Document : Witness(j, g, d) => Witness(j, g, d)'
    <2> SUFFICES ASSUME NEW g \in Game, NEW d \in Document, Witness(j, g, d) PROVE Witness(j, g, d)'
        OBVIOUS
    <2>1. j \notin todo' => OnDisk(j).revision # 0
        BY <1>3 DEF Witness, True, Terminal
    <2> QED BY <1>2, <2>1 DEF Witness, Growing
<1> QED BY <1>1, <1>2, <1>4, <1>5, <1>6, <1>7, <1>8 DEF JobStep, Ends, JobInv

\* restore() has looked at every job.
LEMMA OpenedStep ==
    ASSUME TypeInv, NEW j \in Job, JobInv(j), mode = "restoring", mode' = "open", j \notin todo,
           Idle(<<j, "restore">>), jobs'[j] = jobs[j], FilesStay(j), todo' = todo, faults' = faults,
           \A t \in Task : TaskStays(<<j, t>>), Growing
    PROVE  JobStep(j)
<1>1. Records(j)' = Records(j)
    BY DEF Records, FilesStay, TaskStays
<1>2. Records(j) \subseteq JobRecord
    BY DEF Records, TypeInv, Actor
<1>3. RecordsOf(j)'
    BY <1>1, <1>2, TrueStays DEF JobInv, RecordsOf, FilesStay
<1>4. TasksOf(j)'
    BY DEF JobInv, TasksOf, FilesStay, TaskStays, Idle, Task
<1>5. RestoreOf(j)' /\ HistoryOf(j)'
    BY DEF JobInv, RestoreOf, HistoryOf, FilesStay, TaskStays, Idle, OnDisk, Task
<1>6. \A g \in Game, d \in Document : Witness(j, g, d) => Witness(j, g, d)'
    BY DEF Witness, OnDisk, FilesStay, Growing
<1> QED BY <1>1, <1>3, <1>4, <1>5, <1>6 DEF JobStep, Ends, JobInv

\* restore() finds a job's revision in the database.
LEMMA CommittedStep ==
    ASSUME TypeInv, NEW j \in Job, JobInv(j), mode = "restoring", mode' = mode, j \in todo, j \notin todo',
           Committed(jobs[j]), jobs'[j] = Imported(jobs[j]),
           pc'[<<j, "restore">>] = "remove", saving'[<<j, "restore">>] = saving[<<j, "restore">>],
           \A t \in Task \ {"restore"} : TaskStays(<<j, t>>), FilesStay(j), Growing
    PROVE  JobStep(j)
<1>0. PICK job : job = Imported(jobs[j])
    OBVIOUS
<1>1. /\ Records(j) \subseteq JobRecord /\ jobs[j] \in Records(j) /\ jobs[j] \in JobRecord
      /\ jobs[j] # None /\ True(jobs[j]) /\ jobs[j].target \in Document
    BY RecordsTyped, NoneAssumption DEF JobInv, RestoreOf, RecordsOf, Committed, JobRecord
<1>2. Sealed(jobs[j].target).revision \in Nat \ {0}
    BY <1>1, LedgerAssumption DEF Sealed, Base
<1>3. /\ job \in JobRecord /\ job # None /\ job.status = "succeeded" /\ job.revision # 0 /\ job.followUp = "pending"
      /\ job.key = jobs[j].key /\ job.game = jobs[j].game /\ job.target = jobs[j].target
      /\ job.expected = jobs[j].expected /\ job.revision = Sealed(job.target).revision
    BY <1>0, <1>1, <1>2, NoneAssumption DEF Imported, JobRecord, Terminal
<1>4. True(job)'
    <2>1. Sealed(job.target) \in revisions[job.game] /\ job.game \in Game
        BY <1>1, <1>3 DEF Committed, JobRecord
    <2>2. job.target # None => job.expected \in {None, job.target}
        BY <1>1, <1>3 DEF True
    <2> QED BY <1>1, <1>3, <2>1, <2>2 DEF True, Growing
<1>5. \A t \in Task : saving'[<<j, t>>] = saving[<<j, t>>] /\ saving[<<j, t>>] = None
    BY DEF JobInv, RestoreOf, TasksOf, TaskStays, Idle, Saves, Task
<1>6. Records(j)' \subseteq Records(j) \cup {job}
    BY <1>0, <1>5 DEF Records, FilesStay
<1>7. RecordsOf(j)'
    <2>1. \A r \in Records(j)' : True(r)'
        BY <1>1, <1>4, <1>6, TrueStays DEF JobInv, RecordsOf
    <2> QED BY <1>1, <1>3, <1>6, <2>1 DEF JobInv, RecordsOf, FilesStay
<1>8. \A t \in Task \ {"restore"} : pc'[<<j, t>>] = "idle"
    BY DEF JobInv, RestoreOf, TaskStays, Idle
<1>9. TasksOf(j)'
    BY <1>0, <1>3, <1>5, <1>8 DEF TasksOf, Idle, StepsOf, Steps, Saves, Task
<1>10. RestoreOf(j)' /\ HistoryOf(j)'
    BY <1>0, <1>3, <1>8 DEF JobInv, RestoreOf, HistoryOf, FilesStay, OnDisk, Idle, Terminal, Task
<1>11. \A g \in Game, d \in Document : Witness(j, g, d) => Witness(j, g, d)'
    BY <1>0, <1>3 DEF JobInv, RestoreOf, Witness, OnDisk, FilesStay, Growing
<1>12. jobs[j].status = "succeeded" => job.revision = jobs[j].revision
    BY <1>1, <1>3 DEF True
<1>13. jobs[j].status # "cancelled"
    BY <1>1 DEF JobInv, RestoreOf, True, Terminal
<1> QED BY <1>0, <1>1, <1>3, <1>6, <1>7, <1>9, <1>10, <1>11, <1>12, <1>13 DEF JobStep, Ends, JobInv

-----------------------------------------------------------------------------
(* All of them *)

JobTypes(js, p, s) ==
    /\ js \in [Job -> JobRecord \cup {None}]
    /\ p \in [Actor -> Steps] /\ s \in [Actor -> JobRecord \cup {None}]

\* schedule() leaves a job as it was, or starts it.
Left(js, p, s, j) ==
    jobs'[j] = js[j] /\ \A t \in Task : pc'[<<j, t>>] = p[<<j, t>>] /\ saving'[<<j, t>>] = s[<<j, t>>]

StartedFrom(js, p, s, j) ==
    /\ js[j] # None /\ js[j].status = "queued" /\ jobs'[j] = [js[j] EXCEPT !.status = "running"]
    /\ pc'[<<j, "run">>] = "saveRunning" /\ saving'[<<j, "run">>] = jobs'[j]
    /\ \A t \in Task \ {"run"} : pc'[<<j, t>>] = p[<<j, t>>] /\ saving'[<<j, t>>] = s[<<j, t>>]

LEMMA StatusTyped ==
    ASSUME NEW r \in JobRecord, NEW status \in Terminal \cup {"queued", "running"}
    PROVE  /\ [r EXCEPT !.status = status] \in JobRecord
           /\ [r EXCEPT !.status = status].status = status
           /\ [r EXCEPT !.status = status].key = r.key /\ [r EXCEPT !.status = status].game = r.game
           /\ [r EXCEPT !.status = status].target = r.target
           /\ [r EXCEPT !.status = status].expected = r.expected
           /\ [r EXCEPT !.status = status].revision = r.revision
           /\ [r EXCEPT !.status = status].followUp = r.followUp
BY DEF JobRecord

LEMMA Scheduled ==
    ASSUME NEW js, NEW q, NEW p, NEW s, JobTypes(js, p, s), Schedule(js, q, p, s)
    PROVE  /\ JobTypes(jobs, pc, saving)'
           /\ \A j \in Job : Left(js, p, s, j) \/ StartedFrom(js, p, s, j)
<1> DEFINE Started(n) == {q[i] : i \in {k \in 1 .. n : Waits(js, q[k])}}
<1>1. PICK n \in 0 .. Len(q) :
        /\ jobs' = [j \in Job |->
              IF j \in Started(n) THEN [js[j] EXCEPT !.status = "running"] ELSE js[j]]
        /\ pc' = [a \in Actor |->
              IF a[2] = "run" /\ a[1] \in Started(n) THEN "saveRunning" ELSE p[a]]
        /\ saving' = [a \in Actor |->
              IF a[2] = "run" /\ a[1] \in Started(n) THEN jobs'[a[1]] ELSE s[a]]
    BY DEF Schedule
<1>2. \A j \in Job : j \in Started(n) => js[j] # None /\ js[j].status = "queued"
    BY DEF Waits
<1>3. \A j \in Job : j \in Started(n) => [js[j] EXCEPT !.status = "running"] \in JobRecord
    BY <1>2, StatusTyped DEF JobTypes
<1> HIDE DEF Started
<1>4. \A j \in Job, t \in Task : <<j, t>> \in Actor /\ <<j, t>>[1] = j /\ <<j, t>>[2] = t
    BY DEF Actor
<1>5. \A a \in Actor : a[1] \in Job
    BY DEF Actor
<1>6. jobs' \in [Job -> JobRecord \cup {None}]
    BY <1>1, <1>3 DEF JobTypes
<1>7. saving' \in [Actor -> JobRecord \cup {None}] /\ pc' \in [Actor -> Steps]
    BY <1>1, <1>5, <1>6 DEF JobTypes, Steps, Saves
<1>8. ASSUME NEW j \in Job PROVE Left(js, p, s, j) \/ StartedFrom(js, p, s, j)
    <2>1. CASE j \notin Started(n)
        BY <1>1, <1>4, <2>1 DEF Left
    <2>2. CASE j \in Started(n)
        BY <1>1, <1>2, <1>4, <2>2 DEF StartedFrom, Task
    <2> QED BY <2>1, <2>2
<1> QED BY <1>6, <1>7, <1>8 DEF JobTypes

\* What most steps leave alone, outside the jobs.
Apart ==
    /\ UNCHANGED database /\ announced \subseteq announced'
    /\ creating' \in {creating, None}
    /\ faults' \in Nat /\ lost' \in Nat /\ (lost' = 0 => lost = 0)

Requested ==
    /\ staging \in [Game -> Document \cup {None}]
    /\ selection \in SUBSET Document /\ picking \in SUBSET Game
    /\ Selected

DiskTypes ==
    files \in [Job -> JobRecord \cup {None}] /\ intents \in [Job -> JobRecord \cup {None}]

LEMMA NewOnesStay ==
    ASSUME IInv, \A j \in Job : JobStep(j), Growing, creating' \in {creating, None}
    PROVE  CreatedAreNew' /\ KeyNamesOneJob'
<1>1. \A j \in Job : \A s \in Records(j)' : \E r \in Records(j) : s.key = r.key
    BY DEF JobStep, Ends
<1>2. KeyNamesOneJob'
    BY <1>1 DEF IInv, KeyNamesOneJob
<1>3. CreatedAreNew'
    <2> SUFFICES ASSUME creating # None, creating' = creating PROVE CreatedAreNew'
        BY DEF CreatedAreNew
    <2>1. \A j \in DOMAIN creating.jobs : True(creating.jobs[j])'
        BY TrueStays DEF IInv, CreatedAreNew, True, Growing, JobRecord
    <2>2. \A j \in DOMAIN creating.jobs : Records(j)' = {}
        BY <1>1 DEF IInv, CreatedAreNew
    <2> QED BY <1>1, <2>1, <2>2 DEF IInv, CreatedAreNew
<1> QED BY <1>2, <1>3

LEMMA Grown ==
    ASSUME IInv, \A j \in Job : JobStep(j), JobTypes(jobs, pc, saving)', Growing,
           revisions' \in [Game -> SUBSET [revision : Nat, document : Document]],
           current' \in [Game -> Nat], creating' \in {creating, None}, faults' \in Nat, lost' \in Nat,
           Requested', DiskTypes', Modes', todo' \in SUBSET Job, Reported'
    PROVE  IInv'
<1>1. TypeInv'
    BY DEF TypeInv, JobTypes, Requested, DiskTypes
<1>2. CreatedAreNew' /\ KeyNamesOneJob'
    BY NewOnesStay
<1> QED BY <1>1, <1>2 DEF IInv, JobStep, Requested

LEMMA Whole ==
    ASSUME IInv, \A j \in Job : JobStep(j), JobTypes(jobs, pc, saving)', Apart,
           Requested', DiskTypes', Modes', todo' \in SUBSET Job
    PROVE  IInv'
<1>1. Growing
    BY DEF Apart, Growing, database
<1>2. /\ revisions' \in [Game -> SUBSET [revision : Nat, document : Document]]
      /\ current' \in [Game -> Nat]
    BY DEF IInv, TypeInv, Apart, database
<1>3. Reported'
    <2> SUFFICES ASSUME lost' = 0, NEW g \in Game, NEW r \in revisions[g]
                 PROVE  r.document \in announced' \/ \E j \in Job : Witness(j, g, r.document)'
        BY DEF Reported, Apart, database
    <2>1. r.document \in announced \/ \E j \in Job : Witness(j, g, r.document)
        BY DEF IInv, Reported, Apart
    <2>2. r.document \in Document
        BY DEF IInv, TypeInv
    <2> QED BY <2>1, <2>2 DEF JobStep, Apart
<1> QED BY <1>1, <1>2, <1>3, Grown DEF Apart

\* A step that has to do with no job.
LEMMA Quiet ==
    ASSUME IInv, UNCHANGED <<disk, mode, todo, jobs, pc, saving>>, Growing, faults' = 0 => faults = 0
    PROVE  /\ \A j \in Job : JobStep(j)
           /\ JobTypes(jobs, pc, saving)' /\ DiskTypes' /\ todo' \in SUBSET Job
<1>1. ASSUME NEW j \in Job PROVE JobStep(j)
    <2>1. FilesStay(j) /\ Around(j) /\ jobs'[j] = jobs[j] /\ \A t \in Task : TaskStays(<<j, t>>)
        BY DEF FilesStay, disk, Around, TaskStays
    <2> QED BY <2>1, UntouchedStep DEF IInv
<1>2. JobTypes(jobs, pc, saving)' /\ DiskTypes' /\ todo' \in SUBSET Job
    BY DEF IInv, TypeInv, JobTypes, DiskTypes, disk
<1> QED BY <1>1, <1>2

\* A step of one task of a job.
LEMMA Alone ==
    ASSUME IInv, NEW j \in Job, NEW t \in Task, NEW job \in JobRecord \cup {None},
           NEW s \in JobRecord \cup {None}, NEW step \in Steps,
           jobs' = [jobs EXCEPT ![j] = job], saving' = [saving EXCEPT ![<<j, t>>] = s],
           pc' = [pc EXCEPT ![<<j, t>>] = step],
           mode' = mode, todo' \in {todo, todo \ {j}}, Growing, faults' = 0 => faults = 0,
           \A i \in Job \ {j} : FilesStay(i)
    PROVE  /\ \A i \in Job \ {j} : JobStep(i)
           /\ jobs'[j] = job /\ saving'[<<j, t>>] = s /\ pc'[<<j, t>>] = step
           /\ \A u \in Task \ {t} : TaskStays(<<j, u>>)
           /\ JobTypes(jobs, pc, saving)' /\ todo' \in SUBSET Job
<1>1. \A i \in Job, u \in Task : <<i, u>> \in Actor
    BY DEF Actor
<1>2. /\ jobs \in [Job -> JobRecord \cup {None}] /\ saving \in [Actor -> JobRecord \cup {None}]
      /\ pc \in [Actor -> Steps] /\ todo \in SUBSET Job
    BY DEF IInv, TypeInv
<1>3. ASSUME NEW i \in Job \ {j} PROVE JobStep(i)
    <2>1. jobs'[i] = jobs[i] /\ Around(i) /\ \A u \in Task : TaskStays(<<i, u>>)
        BY <1>1, <1>2 DEF Around, TaskStays
    <2> QED BY <2>1, UntouchedStep DEF IInv
<1>4. \A u \in Task \ {t} : TaskStays(<<j, u>>)
    BY <1>1, <1>2 DEF TaskStays
<1>5. JobTypes(jobs, pc, saving)' /\ todo' \in SUBSET Job
    BY <1>1, <1>2 DEF JobTypes
<1> QED BY <1>1, <1>2, <1>3, <1>4, <1>5

\* A task changes its job and begins to write it.
LEMMA Recorded ==
    ASSUME IInv, NEW j \in Job, NEW t \in Task, NEW job, NEW step,
           Following(j, t, job, step), Record(<<j, t>>, job, step),
           UNCHANGED <<disk, mode>>, todo' \in {todo, todo \ {j}}, j \notin todo', Growing,
           faults' = 0 => faults = 0
    PROVE  /\ \A i \in Job : JobStep(i)
           /\ JobTypes(jobs, pc, saving)' /\ DiskTypes' /\ todo' \in SUBSET Job
<1>1. job \in JobRecord /\ step \in Steps /\ \A i \in Job : FilesStay(i)
    BY DEF Following, Steps, FilesStay, disk
<1>2. /\ \A i \in Job \ {j} : JobStep(i)
      /\ jobs'[j] = job /\ saving'[<<j, t>>] = job /\ pc'[<<j, t>>] = step
      /\ \A u \in Task \ {t} : TaskStays(<<j, u>>)
      /\ JobTypes(jobs, pc, saving)' /\ todo' \in SUBSET Job
    BY <1>1, Alone DEF Record
<1>3. JobStep(j)
    BY <1>1, <1>2, RecordedStep DEF IInv
<1> QED BY <1>2, <1>3 DEF IInv, TypeInv, DiskTypes, disk

\* A task goes on, and writes nothing.
LEMMA GoneOn ==
    ASSUME IInv, NEW j \in Job, NEW t \in {"run", "reconcile", "restore"},
           NEW step \in {"gate", "announce"},
           jobs[j] # None, jobs[j].revision # 0, pc[<<j, t>>] \notin Saves,
           IF t = "reconcile" THEN mode = "open"
           ELSE pc[<<j, t>>] = "remove" /\ step = "announce",
           Goto(<<j, t>>, step), jobs' = jobs, UNCHANGED disk, mode' = mode, todo' = todo,
           faults' = faults, Growing
    PROVE  /\ \A i \in Job : JobStep(i)
           /\ JobTypes(jobs, pc, saving)' /\ DiskTypes' /\ todo' \in SUBSET Job
<1>1. /\ pc \in [Actor -> Steps] /\ pc' = [pc EXCEPT ![<<j, t>>] = step] /\ saving' = saving
      /\ step \in Steps /\ t \in Task
    BY DEF IInv, TypeInv, Goto, Steps, Task
<1>2. \A i \in Job : FilesStay(i) /\ Around(i)
    BY DEF FilesStay, disk, Around
<1>3. \A i \in Job, u \in Task : <<i, u>> \in Actor
    BY DEF Actor
<1>4. ASSUME NEW i \in Job \ {j} PROVE JobStep(i)
    <2>1. \A u \in Task : TaskStays(<<i, u>>)
        BY <1>1, <1>3 DEF TaskStays
    <2> QED BY <1>2, <2>1, UntouchedStep DEF IInv
<1>5. JobStep(j)
    <2>1. pc'[<<j, t>>] = step /\ \A u \in Task \ {t} : TaskStays(<<j, u>>)
        BY <1>1, <1>3 DEF TaskStays
    <2> QED BY <1>1, <1>2, <2>1, GoneOnStep DEF IInv
<1>6. JobTypes(jobs, pc, saving)' /\ DiskTypes' /\ todo' \in SUBSET Job
    BY <1>1 DEF IInv, TypeInv, JobTypes, DiskTypes, disk
<1> QED BY <1>4, <1>5, <1>6

-----------------------------------------------------------------------------
(* Requests *)

LEMMA SelectGamesStep ==
    ASSUME IInv, SelectGames PROVE IInv' /\ \A j \in Job : JobStep(j)
<1>1. /\ \A j \in Job : JobStep(j)
      /\ JobTypes(jobs, pc, saving)' /\ DiskTypes' /\ todo' \in SUBSET Job
    BY Quiet DEF SelectGames, disk, manager, tasks, bounds, Growing, database
<1>2. Requested' /\ Apart /\ Modes'
    BY DEF IInv, TypeInv, SelectGames, Requested, Selected, Apart, Modes, manager, bounds
<1> QED BY <1>1, <1>2, Whole

LEMMA ReadTargetsStep ==
    ASSUME IInv, ReadTargets PROVE IInv' /\ \A j \in Job : JobStep(j)
<1>1. /\ \A j \in Job : JobStep(j)
      /\ JobTypes(jobs, pc, saving)' /\ DiskTypes' /\ todo' \in SUBSET Job
    BY Quiet DEF ReadTargets, disk, manager, tasks, bounds, Growing, database
<1>2. Apart /\ Modes'
    BY DEF IInv, TypeInv, ReadTargets, Apart, Modes, manager, bounds
<1>3. Requested'
    <2>1. CASE \E g \in picking : staging[g] = None
        BY <2>1 DEF IInv, TypeInv, ReadTargets, Requested, Selected
    <2>2. CASE \A g \in picking : staging[g] # None
        <3>1. /\ selection' = {staging[g] : g \in picking} /\ staging' = staging /\ picking' = {}
              /\ picking \in SUBSET Game /\ staging \in [Game -> Document \cup {None}]
              /\ \A g \in picking : Ledger[staging[g]].game = g
            BY <2>2 DEF IInv, TypeInv, ReadTargets, Selected
        <3> QED BY <2>2, <3>1 DEF IInv, Requested, Selected
    <2> QED BY <2>1, <2>2
<1> QED BY <1>1, <1>2, <1>3, Whole

LEMMA CreateFailsStep ==
    ASSUME IInv, CreateFails PROVE IInv' /\ \A j \in Job : JobStep(j)
<1>1. faults' = faults + 1 /\ faults' \in Nat \ {0}
    BY DEF IInv, TypeInv, CreateFails
<1>2. /\ \A j \in Job : JobStep(j)
      /\ JobTypes(jobs, pc, saving)' /\ DiskTypes' /\ todo' \in SUBSET Job
    BY <1>1, Quiet DEF CreateFails, disk, tasks, Growing, database
<1>3. Requested' /\ Apart /\ Modes'
    BY <1>1 DEF IInv, TypeInv, CreateFails, Requested, Selected, selecting, Apart, Modes
<1> QED BY <1>2, <1>3, Whole

LEMMA CloseStep ==
    ASSUME IInv, Close \/ Closed PROVE IInv' /\ \A j \in Job : JobStep(j)
<1>1. /\ \A j \in Job : JobStep(j)
      /\ JobTypes(jobs, pc, saving)' /\ DiskTypes' /\ todo' \in SUBSET Job
    BY Quiet DEF Close, Closed, disk, tasks, bounds, Growing, database
<1>2. Requested' /\ Apart /\ Modes'
    BY DEF IInv, TypeInv, Close, Closed, Requested, Selected, selecting, Apart, Modes, bounds
<1> QED BY <1>1, <1>2, Whole

LEMMA EditStep ==
    ASSUME IInv, NEW g \in Game, Edit(g) PROVE IInv' /\ \A j \in Job : JobStep(j)
<1>1. /\ \A j \in Job : JobStep(j)
      /\ JobTypes(jobs, pc, saving)' /\ DiskTypes' /\ todo' \in SUBSET Job
    BY Quiet DEF Edit, disk, manager, tasks, Growing, database
<1>2. Apart /\ Modes'
    BY DEF IInv, TypeInv, Edit, Apart, Modes, manager
<1>3. Requested'
    <2>1. PICK d \in Document : Ledger[d].game = g /\ staging' = [staging EXCEPT ![g] = d]
        BY DEF Edit
    <2> QED BY <2>1 DEF IInv, TypeInv, Edit, Requested, Selected, selecting
<1> QED BY <1>1, <1>2, <1>3, Whole

\* What a key is free for.
LEMMA KeysInUse ==
    ASSUME IInv, mode = "open", NEW k, ~Named(k), NEW j \in Job, NEW s \in Records(j)
    PROVE  s.key # k
<1>1. jobs[j] # None
    <2>1. CASE OnDisk(j) # None
        BY <2>1 DEF IInv, JobInv, RestoreOf
    <2>2. CASE OnDisk(j) = None
        <3>1. files[j] = None /\ intents[j] = None
            BY <2>2 DEF OnDisk
        <3>2. CASE jobs[j] = None
            <4>1. PICK t \in Task : saving[<<j, t>>] # None
                BY <3>1, <3>2 DEF Records
            <4> QED BY <4>1 DEF IInv, JobInv, TasksOf, Idle, Saves
        <3> QED BY <3>2
    <2> QED BY <2>1, <2>2
<1>2. jobs[j] \in Records(j)
    BY <1>1 DEF Records
<1> QED BY <1>1, <1>2 DEF IInv, JobInv, RecordsOf, Named, Registered

LEMMA UnusedIsNew ==
    ASSUME IInv, NEW j \in Unused PROVE Records(j) = {}
<1>1. j \in Job /\ jobs[j] = None /\ files[j] = None /\ intents[j] = None
    BY DEF Unused
<1>2. JobInv(j)
    BY <1>1 DEF IInv
<1>3. ASSUME NEW t \in Task PROVE saving[<<j, t>>] = None
    BY <1>1, <1>2 DEF JobInv, TasksOf, Idle, Saves
<1> QED BY <1>1, <1>3 DEF Records

LEMMA NewJobTyped ==
    ASSUME NEW g \in Game, NEW key \in RequestKey \X (Game \cup {None}),
           NEW expected \in Document \cup {None}, NEW target \in Document \cup {None},
           target # None => expected = None, NEW r, r = NewJob(g, key, expected, target)
    PROVE  r \in JobRecord /\ r.status = "queued" /\ r.key = key /\ r.target = target /\ True(r)
BY DEF NewJob, JobRecord, True

\* A request has been accepted.
LEMMA Prepared ==
    ASSUME IInv, NEW new, Prepare(new),
           DOMAIN new.jobs \subseteq Unused,
           \A i \in DOMAIN new.jobs :
               /\ new.jobs[i] \in JobRecord /\ new.jobs[i].status = "queued" /\ True(new.jobs[i])
               /\ ~Named(new.jobs[i].key) /\ (new.batch => new.jobs[i].target # None)
               /\ \A j \in DOMAIN new.jobs : new.jobs[j].key = new.jobs[i].key => i = j
    PROVE  IInv' /\ \A j \in Job : JobStep(j)
<1>1. /\ \A j \in Job : JobStep(j)
      /\ JobTypes(jobs, pc, saving)' /\ DiskTypes' /\ todo' \in SUBSET Job
    BY Quiet DEF Prepare, disk, tasks, bounds, Growing, database
<1>2. TypeInv' /\ Modes' /\ Selected'
    BY <1>1 DEF IInv, TypeInv, Prepare, JobTypes, DiskTypes, Selected, selecting, Modes, bounds, database
<1>3. \A j \in Job : Records(j)' = Records(j)
    BY DEF Prepare, Records, disk, tasks
<1>4. KeyNamesOneJob'
    BY <1>3 DEF IInv, KeyNamesOneJob
<1>5. CreatedAreNew'
    <2>1. creating' = new /\ mode = "open" /\ revisions' = revisions
        BY DEF Prepare, database
    <2>2. ASSUME NEW i \in DOMAIN new.jobs
          PROVE  /\ i \in Job /\ Records(i)' = {} /\ True(new.jobs[i])'
                 /\ \A j \in Job : \A s \in Records(j)' : s.key # new.jobs[i].key
        <3>1. i \in Unused /\ i \in Job
            BY DEF Unused
        <3>2. Records(i)' = {}
            BY <1>3, <3>1, UnusedIsNew
        <3>3. \A j \in Job : \A s \in Records(j)' : s.key # new.jobs[i].key
            BY <1>3, <2>1, KeysInUse
        <3>4. True(new.jobs[i])'
            BY <2>1, TrueStays DEF Growing
        <3> QED BY <3>1, <3>2, <3>3, <3>4
    <2> QED BY <2>1, <2>2 DEF CreatedAreNew
<1>6. Reported'
    <2>1. /\ lost' = lost /\ revisions' = revisions /\ announced' = announced
        BY DEF Prepare, bounds, database
    <2>2. \A j \in Job, g \in Game, d \in Document : Witness(j, g, d) => Witness(j, g, d)'
        BY <1>1 DEF JobStep, Ends
    <2> QED BY <2>1, <2>2 DEF IInv, TypeInv, Reported
<1> QED BY <1>1, <1>2, <1>4, <1>5, <1>6 DEF IInv, JobStep

LEMMA CreateStep ==
    ASSUME IInv, NEW key \in RequestKey, Create(key) PROVE IInv' /\ \A j \in Job : JobStep(j)
<1>1. PICK j \in Unused, g \in Game, expected \in Document \cup {None} :
        Prepare([batch |-> FALSE, jobs |-> [i \in {j} |-> NewJob(g, KeyOf(key), expected, None)]])
    BY DEF Create
<1>2. PICK r : r = NewJob(g, KeyOf(key), expected, None)
    OBVIOUS
<1>3. r \in JobRecord /\ r.status = "queued" /\ r.key = KeyOf(key) /\ True(r)
    BY <1>2, NewJobTyped DEF KeyOf
<1>4. ~Named(r.key)
    BY <1>3 DEF Create
<1>5. PICK new : new = [batch |-> FALSE, jobs |-> [i \in {j} |-> r]]
    OBVIOUS
<1>6. Prepare(new) /\ DOMAIN new.jobs = {j} /\ new.jobs[j] = r /\ ~new.batch
    BY <1>1, <1>2, <1>5
<1> QED BY <1>3, <1>4, <1>6, Prepared

LEMMA CreateReadyBatchStep ==
    ASSUME IInv, NEW key \in RequestKey, CreateReadyBatch(key)
    PROVE  IInv' /\ \A j \in Job : JobStep(j)
<1> DEFINE targets == {d \in selection : Ledger[d].game \notin ActiveGames}
           GameOf(d) == Ledger[d].game
<1>0. PICK ids \in SUBSET Unused : \E target \in [ids -> targets] :
        /\ \A i, j \in ids : target[i] = target[j] => i = j
        /\ Prepare(BatchOf(key, target))
    BY DEF CreateReadyBatch
<1>1. PICK target \in [ids -> targets] :
        /\ \A i, j \in ids : target[i] = target[j] => i = j
        /\ Prepare(BatchOf(key, target))
    BY <1>0
<1>2. \A g \in Game : ~Named(BatchKeyOf(key, g))
    BY DEF CreateReadyBatch
<1>3. PICK rs : rs = BatchOf(key, target).jobs
    OBVIOUS
<1>4. \A i \in ids : target[i] \in selection /\ target[i] \in Document /\ GameOf(target[i]) \in Game
    BY LedgerAssumption DEF IInv, TypeInv
<1>5. ASSUME NEW i \in ids
      PROVE  /\ rs[i] \in JobRecord /\ rs[i].status = "queued" /\ True(rs[i])
             /\ rs[i].key = BatchKeyOf(key, GameOf(target[i])) /\ rs[i].target # None
    <2>1. rs[i] = NewJob(GameOf(target[i]), BatchKeyOf(key, GameOf(target[i])), None, target[i])
        BY <1>3 DEF BatchOf
    <2>2. BatchKeyOf(key, GameOf(target[i])) \in RequestKey \X (Game \cup {None})
        BY <1>4 DEF BatchKeyOf
    <2> HIDE DEF GameOf
    <2> QED BY <1>4, <2>1, <2>2, NewJobTyped, NoneAssumption
<1>6. \A i, j \in ids : rs[i].key = rs[j].key => i = j
    <2>1. \A i, j \in ids : rs[i].key = rs[j].key => GameOf(target[i]) = GameOf(target[j])
        BY <1>5 DEF BatchKeyOf
    <2> QED BY <1>1, <1>4, <2>1 DEF IInv, Selected
<1>7. PICK new : new = BatchOf(key, target)
    OBVIOUS
<1>8. Prepare(new) /\ new.jobs = rs /\ DOMAIN rs = ids
    BY <1>1, <1>3, <1>7 DEF BatchOf
<1> HIDE DEF GameOf
<1> QED BY <1>2, <1>4, <1>5, <1>6, <1>8, Prepared

LEMMA CancellingStep ==
    ASSUME IInv, NEW t \in {"cancel", "close"}, NEW j \in Job, mode = "open", Cancelling(t, j)
    PROVE  IInv' /\ \A i \in Job : JobStep(i)
<1>1. PICK job : job = [jobs[j] EXCEPT !.status = "cancelled"]
    OBVIOUS
<1>2. /\ jobs[j] # None /\ jobs[j].status = "queued" /\ Record(<<j, t>>, job, "save")
      /\ jobs[j] \in JobRecord /\ jobs[j] \in Records(j)
    BY <1>1, RecordsTyped DEF Cancelling, Registered, IInv, TypeInv
<1>3. /\ job \in JobRecord /\ job.status = "cancelled" /\ job.key = jobs[j].key
      /\ job.game = jobs[j].game /\ job.target = jobs[j].target /\ job.expected = jobs[j].expected
      /\ job.revision = jobs[j].revision /\ job.followUp = jobs[j].followUp
    BY <1>1, <1>2, StatusTyped DEF Terminal
<1>4. Growing /\ UNCHANGED <<disk, mode, todo>>
    BY DEF Cancelling, manager, Growing, database
<1>5. True(jobs[j]) /\ jobs[j].revision = 0
    BY <1>2 DEF IInv, JobInv, RecordsOf, True
<1>6. True(job)'
    BY <1>3, <1>5 DEF True
<1>0. JobInv(j)
    BY DEF IInv
<1>7. ASSUME NEW u \in Task PROVE Idle(<<j, u>>) /\ saving[<<j, u>>] = None
    BY <1>0, <1>2 DEF JobInv, TasksOf, Idle, Saves
<1>8. Following(j, t, job, "save")
    <2>1. j \notin todo
        BY DEF IInv, JobInv, RestoreOf
    <2>2. \A g \in Game, d \in Document : ~Witness(j, g, d)
        BY <1>2, <1>5, <2>1 DEF Witness
    <2>3. intents[j] # None => job.target = intents[j].target /\ job.target # None
        BY <1>2, <1>3 DEF IInv, JobInv, RecordsOf
    <2>4. t \in Task /\ t # "run" /\ t # "restore" /\ t # "reconcile" /\ "save" \in Saves \cap StepsOf(t)
        BY DEF Task, Saves, StepsOf
    <2>5. Idle(<<j, "run">>)
        BY <1>7 DEF Task
    <2> QED BY <1>2, <1>3, <1>5, <1>6, <1>7, <2>2, <2>3, <2>4, <2>5 DEF Following
<1>9. j \notin todo' /\ t \in Task
    BY <1>4 DEF IInv, JobInv, RestoreOf, Task
<1>10. /\ \A i \in Job : JobStep(i)
       /\ JobTypes(jobs, pc, saving)' /\ DiskTypes' /\ todo' \in SUBSET Job
    BY <1>2, <1>4, <1>8, <1>9, Recorded DEF Cancelling, bounds
<1>11. Requested' /\ Apart /\ Modes'
    BY DEF IInv, TypeInv, Cancelling, Requested, Selected, selecting, Apart, Modes, manager, bounds
<1> QED BY <1>10, <1>11, Whole

LEMMA ReconcileStep ==
    ASSUME IInv, NEW j \in Job, Reconcile(j) PROVE IInv' /\ \A i \in Job : JobStep(i)
<1>1. /\ mode = "open" /\ jobs[j] # None /\ pc[<<j, "reconcile">>] = "idle"
      /\ jobs[j].status = "succeeded" /\ Goto(<<j, "reconcile">>, "gate")
    BY DEF Reconcile, Registered, Idle
<1>2. /\ Growing /\ UNCHANGED disk /\ mode' = mode /\ todo' = todo /\ jobs' = jobs
      /\ faults' = faults
    BY DEF Reconcile, manager, bounds, Growing, database
<1>3. jobs[j].revision # 0
    BY <1>1, RecordsTyped DEF IInv, JobInv, RecordsOf, True
<1>4. /\ \A i \in Job : JobStep(i)
      /\ JobTypes(jobs, pc, saving)' /\ DiskTypes' /\ todo' \in SUBSET Job
    BY <1>1, <1>2, <1>3, GoneOn DEF Saves
<1>5. Requested' /\ Apart /\ Modes'
    BY DEF IInv, TypeInv, Reconcile, Requested, Selected, selecting, Apart, Modes, manager, bounds
<1> QED BY <1>4, <1>5, Whole

-----------------------------------------------------------------------------
(* run() and the follow-up *)

\* Where a run may be caught, and where a follow-up is.
RunSteps == {"saveRunning", "gate", "saveTarget", "import", "saveImported"}

\* A run has failed.
LEMMA CaughtStep ==
    ASSUME IInv, NEW j \in Job, NEW notReady \in BOOLEAN, pc[<<j, "run">>] \in RunSteps,
           Caught(<<j, "run">>, notReady), Growing, UNCHANGED disk, mode' = mode, todo' = todo,
           faults' = 0 => faults = 0
    PROVE  /\ \A i \in Job : JobStep(i)
           /\ JobTypes(jobs, pc, saving)' /\ DiskTypes' /\ todo' \in SUBSET Job
<1>0. JobInv(j) /\ "run" \in Task
    BY DEF IInv, Task
<1>1. PICK status : status = IF jobs[j].revision # 0 THEN "succeeded"
                             ELSE IF notReady /\ jobs[j].target # None THEN "cancelled" ELSE "failed"
    OBVIOUS
<1>2. PICK followUp : followUp = IF jobs[j].followUp = "pending" THEN "failed" ELSE jobs[j].followUp
    OBVIOUS
<1>3. PICK job : job = [jobs[j] EXCEPT !.status = status, !.followUp = followUp]
    OBVIOUS
<1>4. Record(<<j, "run">>, job, "save")
    BY <1>1, <1>2, <1>3 DEF Caught
<1>5. /\ jobs[j] # None /\ jobs[j] \in JobRecord /\ jobs[j] \in Records(j) /\ True(jobs[j])
      /\ mode = "open" /\ j \notin todo
    BY <1>0, RecordsTyped
       DEF JobInv, RecordsOf, TasksOf, RestoreOf, Idle, RunSteps, Task, IInv, TypeInv
<1>6. /\ status \in Terminal /\ (status = "succeeded" <=> jobs[j].revision # 0)
      /\ status # "running" /\ status # "queued"
    BY <1>1 DEF Terminal
<1>7. /\ job \in JobRecord /\ job.status = status /\ job.key = jobs[j].key /\ job.game = jobs[j].game
      /\ job.target = jobs[j].target /\ job.expected = jobs[j].expected
      /\ job.revision = jobs[j].revision /\ job.followUp = followUp
    BY <1>2, <1>3, <1>5, <1>6 DEF JobRecord
<1>8. True(job)'
    <2>1. followUp # "none" => jobs[j].revision # 0
        BY <1>2, <1>5 DEF True
    <2> QED BY <1>5, <1>6, <1>7, <2>1 DEF True, Growing, JobRecord
<1>9. jobs[j].status = "running" \/ jobs[j].status = "succeeded"
    BY <1>0, <1>5 DEF JobInv, TasksOf, RunSteps, True
<1>10. Idle(<<j, "cancel">>) /\ Idle(<<j, "close">>)
    BY <1>0, <1>9 DEF JobInv, TasksOf
<1>11. \A u \in Task \ {"run"} : saving[<<j, u>>] # None => Same(job, jobs[j])
    <2>1. CASE jobs[j].status = "running"
        BY <1>0, <1>5, <2>1 DEF JobInv, TasksOf, Idle, Saves
    <2>2. CASE jobs[j].status = "succeeded"
        BY <1>5, <1>6, <1>7, <2>2 DEF Same, True
    <2> QED BY <1>9, <2>1, <2>2
<1>12. \A g \in Game, d \in Document : Witness(j, g, d) => job.revision # 0 /\ job.target = d
    BY <1>5, <1>7 DEF Witness
<1>13. Following(j, "run", job, "save")
    <2>1. "save" \in Saves \cap StepsOf("run")
        BY DEF Saves, StepsOf, Steps
    <2>2. intents[j] # None => job.target = intents[j].target /\ job.target # None
        BY <1>0, <1>5, <1>7 DEF JobInv, RecordsOf
    <2> QED BY <1>5, <1>6, <1>7, <1>8, <1>9, <1>10, <1>11, <1>12, <2>1, <2>2 DEF Following
<1> QED BY <1>0, <1>4, <1>5, <1>13, Recorded

\* A follow-up has ended.
LEMMA FollowedUpStep ==
    ASSUME IInv, NEW j \in Job, NEW t \in {"run", "reconcile", "restore"},
           NEW result \in {"done", "failed"}, MayFollowUp(<<j, t>>) \/ pc[<<j, t>>] = "announce",
           FollowedUp(<<j, t>>, result), Growing, UNCHANGED disk, mode' = mode, todo' = todo,
           faults' = 0 => faults = 0
    PROVE  /\ \A i \in Job : JobStep(i)
           /\ JobTypes(jobs, pc, saving)' /\ DiskTypes' /\ todo' \in SUBSET Job
<1>0. JobInv(j) /\ t \in Task
    BY DEF IInv, Task
<1>1. PICK job : job = [jobs[j] EXCEPT !.followUp = result]
    OBVIOUS
<1>2. Record(<<j, t>>, job, "save")
    BY <1>1 DEF FollowedUp
<1>3. /\ jobs[j] # None /\ jobs[j] \in JobRecord /\ jobs[j] \in Records(j) /\ True(jobs[j])
      /\ ~Idle(<<j, t>>) /\ jobs[j].revision # 0
    BY <1>0, RecordsTyped
       DEF JobInv, RecordsOf, TasksOf, RestoreOf, Idle, MayFollowUp, Task, IInv, TypeInv
<1>4. mode = (IF t = "restore" THEN "restoring" ELSE "open") /\ j \notin todo
    BY <1>0, <1>3 DEF JobInv, RestoreOf
<1>5. /\ job \in JobRecord /\ job.status = jobs[j].status /\ job.key = jobs[j].key
      /\ job.game = jobs[j].game /\ job.target = jobs[j].target /\ job.expected = jobs[j].expected
      /\ job.revision = jobs[j].revision /\ job.status = "succeeded"
    BY <1>1, <1>3 DEF JobRecord, True
<1>6. True(job)'
    BY <1>3, <1>5 DEF True, Growing, JobRecord
<1>7. Idle(<<j, "cancel">>) /\ Idle(<<j, "close">>)
    BY <1>0, <1>5 DEF JobInv, TasksOf
<1>8. Following(j, t, job, "save")
    <2>1. "save" \in Saves \cap StepsOf(t)
        BY DEF Saves, StepsOf, Steps
    <2>2. intents[j] # None => job.target = intents[j].target /\ job.target # None
        BY <1>0, <1>3, <1>5 DEF JobInv, RecordsOf
    <2>3. \A g \in Game, d \in Document : Witness(j, g, d) => job.revision # 0 /\ job.target = d
        BY <1>3, <1>4, <1>5 DEF Witness
    <2>4. job.status \in Terminal /\ Same(job, jobs[j])
        BY <1>5 DEF Terminal, Same
    <2> QED BY <1>3, <1>4, <1>5, <1>6, <1>7, <2>1, <2>2, <2>3, <2>4 DEF Following
<1> QED BY <1>0, <1>2, <1>4, <1>8, Recorded

LEMMA CheckStep ==
    ASSUME IInv, NEW j \in Job, Check(j) PROVE IInv' /\ \A i \in Job : JobStep(i)
<1>0. /\ JobInv(j) /\ "run" \in Task /\ pc[<<j, "run">>] = "gate" /\ Growing /\ UNCHANGED disk
      /\ mode' = mode /\ todo' = todo /\ faults' = faults
    BY DEF IInv, Task, Check, manager, bounds, Growing, database
<1>1. /\ \A i \in Job : JobStep(i)
      /\ JobTypes(jobs, pc, saving)' /\ DiskTypes' /\ todo' \in SUBSET Job
    <2>1. CASE Caught(<<j, "run">>, TRUE)
        BY <1>0, <2>1, CaughtStep DEF RunSteps
    <2>2. CASE /\ IsTarget(jobs[j], staging[jobs[j].game])
               /\ Record(<<j, "run">>, [jobs[j] EXCEPT !.target = staging[jobs[j].game]], "saveTarget")
        <3>1. PICK d : d = staging[jobs[j].game]
            OBVIOUS
        <3>2. PICK job : job = [jobs[j] EXCEPT !.target = d]
            OBVIOUS
        <3>3. /\ jobs[j] # None /\ jobs[j] \in JobRecord /\ jobs[j] \in Records(j) /\ True(jobs[j])
              /\ mode = "open" /\ j \notin todo /\ jobs[j].status = "running"
            BY <1>0, RecordsTyped
               DEF JobInv, RecordsOf, TasksOf, RestoreOf, Idle, Task, IInv, TypeInv
        <3>4. d \in Document /\ d # None /\ jobs[j].expected \in {None, d} /\ jobs[j].target \in {None, d}
            BY <2>2, <3>1, <3>3 DEF IsTarget, IInv, TypeInv, JobRecord
        <3>5. /\ job \in JobRecord /\ job.status = "running" /\ job.key = jobs[j].key
              /\ job.game = jobs[j].game /\ job.target = d /\ job.expected = jobs[j].expected
              /\ job.revision = jobs[j].revision /\ job.followUp = jobs[j].followUp
            BY <3>2, <3>3, <3>4 DEF JobRecord
        <3>6. jobs[j].revision = 0 /\ True(job)'
            BY <3>3, <3>4, <3>5 DEF True
        <3>7. \A u \in Task \ {"run"} : Idle(<<j, u>>) /\ saving[<<j, u>>] = None
            BY <1>0, <3>3 DEF JobInv, TasksOf, Idle, Saves
        <3>8. intents[j] # None => job.target = intents[j].target /\ job.target # None
            BY <1>0, <3>3, <3>4, <3>5 DEF JobInv, RecordsOf
        <3>9. Following(j, "run", job, "saveTarget")
            <4>1. "saveTarget" \in Saves \cap StepsOf("run")
                BY DEF Saves, StepsOf, Steps
            <4>2. \A g \in Game, e \in Document : ~Witness(j, g, e)
                BY <3>3, <3>6 DEF Witness
            <4>3. Idle(<<j, "cancel">>) /\ Idle(<<j, "close">>)
                BY <3>7 DEF Task
            <4> QED BY <3>3, <3>4, <3>5, <3>6, <3>7, <3>8, <4>1, <4>2, <4>3 DEF Following
        <3> QED BY <1>0, <2>2, <3>1, <3>2, <3>3, <3>9, Recorded
    <2> QED BY <2>1, <2>2 DEF Check
<1>2. Requested' /\ Apart /\ Modes'
    BY DEF IInv, TypeInv, Check, Requested, Selected, selecting, Apart, Modes, manager, bounds
<1> QED BY <1>1, <1>2, Whole

\* What importRevision appends is the revision that a job reports.
LEMMA AppendedIsSealed ==
    ASSUME IInv, NEW g \in Game, NEW d \in Document, Chain!Append(g, d)
    PROVE  /\ revisions' = [revisions EXCEPT ![g] = @ \cup {Sealed(d)}]
           /\ Sealed(d) \in [revision : Nat, document : Document]
           /\ current' \in [Game -> Nat]
<1>1. /\ revisions \in [Game -> SUBSET [revision : Nat, document : Document]]
      /\ current \in [Game -> Nat]
    BY DEF IInv, TypeInv
<1>2. current[g] + 1 = Sealed(d).revision
    <2>1. CASE current[g] = 0 /\ Base[d] = None
        BY <2>1 DEF Sealed
    <2>2. CASE Base[d] \in revisions[g] /\ Base[d].revision = current[g]
        <3>1. Base[d] # None
            BY <1>1, <2>2, LedgerAssumption, NoneAssumption DEF Base
        <3> QED BY <2>2, <3>1 DEF Sealed
    <2> QED BY <2>1, <2>2 DEF Chain!Append, Chain!IsNext
<1>3. Chain!Sealed(current[g] + 1, d) = Sealed(d)
    BY <1>2 DEF Chain!Sealed, Sealed
<1>4. current[g] + 1 \in Nat
    BY <1>1
<1> QED BY <1>1, <1>2, <1>3, <1>4 DEF Chain!Append, Sealed

LEMMA ImportStep ==
    ASSUME IInv, NEW j \in Job, Import(j) PROVE IInv' /\ \A i \in Job : JobStep(i)
<1>a. PICK g : g = jobs[j].game
    OBVIOUS
<1>b. PICK d : d = jobs[j].target
    OBVIOUS
<1>1. /\ JobInv(j) /\ "run" \in Task /\ pc[<<j, "run">>] = "import" /\ UNCHANGED disk
      /\ mode' = mode /\ todo' = todo /\ faults' = faults
    BY DEF IInv, Task, Import, manager
<1>2. /\ jobs[j] # None /\ jobs[j] \in JobRecord /\ jobs[j] \in Records(j) /\ True(jobs[j])
      /\ mode = "open" /\ j \notin todo /\ jobs[j].status = "running" /\ d # None
      /\ g \in Game /\ d \in Document
    <2>1. jobs[j] # None /\ jobs[j].status = "running" /\ d # None
        BY <1>1, <1>b DEF JobInv, TasksOf, Idle
    <2>2. jobs[j] \in JobRecord /\ jobs[j] \in Records(j)
        BY <2>1, RecordsTyped DEF IInv, TypeInv
    <2>3. True(jobs[j])
        BY <1>1, <2>2 DEF JobInv, RecordsOf
    <2>4. mode = "open" /\ j \notin todo
        BY <1>1 DEF JobInv, RestoreOf, Idle
    <2> QED BY <1>a, <1>b, <2>1, <2>2, <2>3, <2>4, NoneAssumption DEF JobRecord
<1>3. Requested' /\ Modes' /\ creating' \in {creating, None} /\ faults' \in Nat /\ announced' = announced
    BY DEF IInv, TypeInv, Import, Requested, Selected, selecting, Modes, manager
<1>4. CASE Chain!Append(g, d) /\ Record(<<j, "run">>, Imported(jobs[j]), "saveImported") /\ lost' = lost
    <2>1. PICK job : job = Imported(jobs[j])
        OBVIOUS
    <2>2. /\ revisions' = [revisions EXCEPT ![g] = @ \cup {Sealed(d)}]
          /\ Sealed(d) \in [revision : Nat, document : Document]
          /\ current' \in [Game -> Nat]
        BY <1>2, <1>4, AppendedIsSealed
    <2>3. revisions \in [Game -> SUBSET [revision : Nat, document : Document]] /\ lost \in Nat
        BY DEF IInv, TypeInv
    <2>4. /\ Growing /\ Sealed(d) \in revisions'[g] /\ revisions'[g] = revisions[g] \cup {Sealed(d)}
          /\ \A h \in Game \ {g} : revisions'[h] = revisions[h]
          /\ revisions' \in [Game -> SUBSET [revision : Nat, document : Document]]
        BY <1>2, <2>2, <2>3 DEF Growing
    <2>5. Sealed(d).revision \in Nat \ {0} /\ Sealed(d).document = d
        BY <1>2, LedgerAssumption DEF Sealed, Base
    <2>6. /\ job \in JobRecord /\ job.status = "succeeded" /\ job.key = jobs[j].key
          /\ job.game = g /\ job.target = d /\ job.expected = jobs[j].expected
          /\ job.revision = Sealed(d).revision /\ job.revision # 0
        BY <1>a, <1>b, <1>2, <2>1, <2>5 DEF Imported, JobRecord, Terminal
    <2>7. jobs[j].revision = 0 /\ True(job)'
        BY <1>a, <1>b, <1>2, <2>4, <2>6 DEF True
    <2>8. \A u \in Task \ {"run"} : Idle(<<j, u>>) /\ saving[<<j, u>>] = None
        BY <1>1, <1>2 DEF JobInv, TasksOf, Idle, Saves
    <2>9. intents[j] # None => job.target = intents[j].target /\ job.target # None
        BY <1>b, <1>1, <1>2, <2>6 DEF JobInv, RecordsOf
    <2>10. Following(j, "run", job, "saveImported")
        <3>1. "saveImported" \in Saves \cap StepsOf("run")
            BY DEF Saves, StepsOf, Steps
        <3>2. \A h \in Game, e \in Document : ~Witness(j, h, e)
            BY <1>2, <2>7 DEF Witness
        <3>3. Idle(<<j, "cancel">>) /\ Idle(<<j, "close">>)
            BY <2>8 DEF Task
        <3> QED BY <1>a, <1>b, <1>2, <2>6, <2>7, <2>8, <2>9, <3>1, <3>2, <3>3 DEF Following
    <2>11. /\ \A i \in Job : JobStep(i)
           /\ JobTypes(jobs, pc, saving)' /\ DiskTypes' /\ todo' \in SUBSET Job
        BY <1>1, <1>2, <1>4, <2>1, <2>4, <2>10, Recorded
    <2>12. Witness(j, g, d)'
        <3>1. files[j] # None /\ Same(files[j], jobs[j]) /\ files[j] \in Records(j)
            BY <1>1 DEF JobInv, TasksOf, Records
        <3>2. files[j].game = g
            BY <1>a, <1>1, <1>2, <3>1 DEF JobInv, RecordsOf
        <3>3. OnDisk(j)' = files[j] /\ jobs'[j] = job
            <4>1. jobs \in [Job -> JobRecord \cup {None}]
                BY DEF IInv, TypeInv
            <4> QED BY <1>1, <1>4, <2>1, <3>1, <4>1 DEF OnDisk, disk, Record
        <3>4. /\ OnDisk(j)' # None /\ OnDisk(j)'.target = d /\ OnDisk(j)'.game = g
              /\ OnDisk(j)'.status = "running" /\ jobs'[j].revision # 0 /\ jobs'[j].target = d
            BY <1>a, <1>b, <1>2, <2>6, <3>1, <3>2, <3>3 DEF Same
        <3> QED BY <2>4, <3>4 DEF Witness
    <2>13. Reported'
        <3> SUFFICES ASSUME lost' = 0, NEW h \in Game, NEW r \in revisions'[h]
                     PROVE  r.document \in announced' \/ \E i \in Job : Witness(i, h, r.document)'
            BY DEF Reported
        <3>1. CASE r \in revisions[h]
            <4>1. r.document \in announced \/ \E i \in Job : Witness(i, h, r.document)
                BY <1>4, <3>1 DEF IInv, Reported
            <4>2. r.document \in Document
                BY <2>3, <3>1
            <4> QED BY <1>3, <2>11, <4>1, <4>2 DEF JobStep
        <3>2. CASE r \notin revisions[h]
            <4>1. h = g /\ r.document = d
                BY <2>4, <2>5, <3>2
            <4> QED BY <2>12, <4>1
        <3> QED BY <3>1, <3>2
    <2> QED BY <1>3, <1>4, <2>2, <2>3, <2>4, <2>11, <2>13, Grown
<1>5. CASE /\ Caught(<<j, "run">>, FALSE) /\ Growing
           /\ (Chain!Append(g, d) /\ lost' = lost + 1) \/ UNCHANGED <<database, lost>>
    <2>1. /\ \A i \in Job : JobStep(i)
          /\ JobTypes(jobs, pc, saving)' /\ DiskTypes' /\ todo' \in SUBSET Job
        BY <1>1, <1>5, CaughtStep DEF RunSteps
    <2>2. CASE Chain!Append(g, d) /\ lost' = lost + 1
        <3>1. /\ revisions' = [revisions EXCEPT ![g] = @ \cup {Sealed(d)}]
              /\ Sealed(d) \in [revision : Nat, document : Document]
              /\ current' \in [Game -> Nat]
            BY <1>2, <2>2, AppendedIsSealed
        <3>2. revisions \in [Game -> SUBSET [revision : Nat, document : Document]] /\ lost \in Nat
            BY DEF IInv, TypeInv
        <3>3. revisions' \in [Game -> SUBSET [revision : Nat, document : Document]]
            BY <1>2, <3>1, <3>2
        <3>4. lost' \in Nat /\ Reported'
            BY <2>2, <3>2 DEF Reported
        <3> QED BY <1>3, <1>5, <2>1, <3>1, <3>3, <3>4, Grown
    <2>3. CASE UNCHANGED <<database, lost>>
        <3>1. Apart
            BY <1>3, <2>3 DEF IInv, TypeInv, Apart
        <3> QED BY <1>3, <2>1, <3>1, Whole
    <2> QED BY <1>5, <2>2, <2>3
<1>6. Chain!Append(g, d) \/ UNCHANGED database => Growing
    <2>1. CASE Chain!Append(g, d)
        <3>1. revisions' = [revisions EXCEPT ![g] = @ \cup {Sealed(d)}]
            BY <1>2, <2>1, AppendedIsSealed
        <3> QED BY <1>2, <3>1 DEF IInv, TypeInv, Growing
    <2>2. CASE UNCHANGED database
        BY <2>2 DEF Growing, database
    <2> QED BY <2>1, <2>2
<1> QED BY <1>a, <1>b, <1>4, <1>5, <1>6 DEF Import

LEMMA RemoveImportedStep ==
    ASSUME IInv, NEW j \in Job, NEW t \in Task, RemoveImported(<<j, t>>)
    PROVE  IInv' /\ \A i \in Job : JobStep(i)
<1>1. /\ t \in {"run", "reconcile", "restore"} /\ MayFollowUp(<<j, t>>) /\ Growing /\ UNCHANGED disk
      /\ mode' = mode /\ todo' = todo /\ faults' = faults
    BY DEF RemoveImported, MayFollowUp, manager, bounds, Growing, database
<1>2. /\ JobInv(j) /\ ~Idle(<<j, t>>) /\ jobs[j] # None /\ jobs[j].revision # 0
      /\ pc[<<j, t>>] \notin Saves
    BY <1>1 DEF IInv, JobInv, TasksOf, MayFollowUp, Idle, Saves
<1>3. /\ \A i \in Job : JobStep(i)
      /\ JobTypes(jobs, pc, saving)' /\ DiskTypes' /\ todo' \in SUBSET Job
    <2>1. CASE FollowedUp(<<j, t>>, "failed")
        BY <1>1, <2>1, FollowedUpStep
    <2>2. CASE Goto(<<j, t>>, "announce") /\ jobs' = jobs
        <3>1. IF t = "reconcile" THEN mode = "open" ELSE pc[<<j, t>>] = "remove"
            BY <1>1, <1>2 DEF MayFollowUp, JobInv, RestoreOf, Task
        <3> QED BY <1>1, <1>2, <2>2, <3>1, GoneOn
    <2> QED BY <2>1, <2>2 DEF RemoveImported
<1>4. jobs[j].game \in Game
    BY <1>2 DEF IInv, TypeInv, JobRecord
<1>5. Requested'
    BY <1>4 DEF IInv, TypeInv, RemoveImported, Requested, Selected, selecting
<1>6. Apart /\ Modes'
    BY DEF IInv, TypeInv, RemoveImported, Apart, Modes, manager, bounds
<1> QED BY <1>3, <1>5, <1>6, Whole

LEMMA AnnounceStep ==
    ASSUME IInv, NEW j \in Job, NEW t \in Task, Announce(<<j, t>>)
    PROVE  IInv' /\ \A i \in Job : JobStep(i)
<1>1. /\ pc[<<j, t>>] = "announce" /\ FollowedUp(<<j, t>>, "done") /\ Growing /\ UNCHANGED disk
      /\ mode' = mode /\ todo' = todo /\ faults' = faults
    BY DEF Announce, manager, bounds, Growing, database
<1>2. t \in {"run", "reconcile", "restore"}
    BY <1>1 DEF IInv, JobInv, TasksOf, StepsOf, Task
<1>3. /\ \A i \in Job : JobStep(i)
      /\ JobTypes(jobs, pc, saving)' /\ DiskTypes' /\ todo' \in SUBSET Job
    BY <1>1, <1>2, FollowedUpStep
<1>4. Requested' /\ Apart /\ Modes'
    BY DEF IInv, TypeInv, Announce, Requested, Selected, selecting, Apart, Modes, manager, bounds
<1> QED BY <1>3, <1>4, Whole

LEMMA TaskFailsStep ==
    ASSUME IInv, NEW j \in Job, NEW t \in Task, TaskFails(<<j, t>>)
    PROVE  IInv' /\ \A i \in Job : JobStep(i)
<1>1. /\ Growing /\ UNCHANGED disk /\ mode' = mode /\ todo' = todo
      /\ faults' = faults + 1 /\ faults' \in Nat \ {0}
    BY DEF TaskFails, manager, Growing, database, IInv, TypeInv
<1>2. /\ \A i \in Job : JobStep(i)
      /\ JobTypes(jobs, pc, saving)' /\ DiskTypes' /\ todo' \in SUBSET Job
    <2>1. CASE t = "run" /\ pc[<<j, "run">>] \in {"import", "gate"} /\ Caught(<<j, "run">>, FALSE)
        BY <1>1, <2>1, CaughtStep DEF RunSteps
    <2>2. CASE (MayFollowUp(<<j, t>>) \/ pc[<<j, t>>] = "announce") /\ FollowedUp(<<j, t>>, "failed")
        <3>1. t \in {"run", "reconcile", "restore"}
            BY <2>2 DEF MayFollowUp, IInv, JobInv, TasksOf, StepsOf, Task
        <3> QED BY <1>1, <2>2, <3>1, FollowedUpStep
    <2> QED BY <2>1, <2>2 DEF TaskFails
<1>3. Requested' /\ Apart /\ Modes'
    BY <1>1 DEF IInv, TypeInv, TaskFails, Requested, Selected, selecting, Apart, Modes, manager
<1> QED BY <1>2, <1>3, Whole

-----------------------------------------------------------------------------
(* Writing a record, and starting jobs *)

LEMMA StartStep ==
    ASSUME IInv, NEW j \in Job, NEW js, NEW p, NEW s, StartedFrom(js, p, s, j), js[j] = jobs[j],
           \A t \in Task : p[<<j, t>>] = pc[<<j, t>>] /\ s[<<j, t>>] = saving[<<j, t>>],
           mode = "open", mode' = mode, todo' = todo, FilesStay(j), Growing
    PROVE  JobStep(j)
<1>0. JobInv(j) /\ TypeInv /\ "run" \in Task
    BY DEF IInv, Task
<1>1. PICK job : job = [jobs[j] EXCEPT !.status = "running"]
    OBVIOUS
<1>2. /\ jobs[j] # None /\ jobs[j].status = "queued" /\ jobs[j] \in JobRecord
      /\ jobs[j] \in Records(j) /\ True(jobs[j])
    BY <1>0, RecordsTyped DEF StartedFrom, TypeInv, JobInv, RecordsOf
<1>3. /\ job \in JobRecord /\ job.status = "running" /\ job.key = jobs[j].key
      /\ job.game = jobs[j].game /\ job.target = jobs[j].target /\ job.expected = jobs[j].expected
      /\ job.revision = jobs[j].revision /\ job.followUp = jobs[j].followUp
    BY <1>1, <1>2, StatusTyped
<1>4. jobs[j].revision = 0 /\ True(job)' /\ j \notin todo
    BY <1>0, <1>2, <1>3 DEF True, JobInv, RestoreOf
<1>5. \A u \in Task : Idle(<<j, u>>) /\ saving[<<j, u>>] = None
    BY <1>0, <1>2 DEF JobInv, TasksOf, Idle, Saves
<1>6. Following(j, "run", job, "saveRunning")
    <2>1. "saveRunning" \in Saves \cap StepsOf("run")
        BY DEF Saves, StepsOf, Steps
    <2>2. \A g \in Game, d \in Document : ~Witness(j, g, d)
        BY <1>2, <1>4 DEF Witness
    <2>3. intents[j] # None => job.target = intents[j].target /\ job.target # None
        BY <1>0, <1>2, <1>3 DEF JobInv, RecordsOf
    <2>4. Idle(<<j, "cancel">>) /\ Idle(<<j, "close">>)
        BY <1>5 DEF Task
    <2> QED BY <1>2, <1>3, <1>4, <1>5, <2>1, <2>2, <2>3, <2>4 DEF Following
<1>7. /\ jobs'[j] = job /\ saving'[<<j, "run">>] = job /\ pc'[<<j, "run">>] = "saveRunning"
      /\ \A u \in Task \ {"run"} : TaskStays(<<j, u>>)
    BY <1>1 DEF StartedFrom, TaskStays
<1> QED BY <1>0, <1>4, <1>6, <1>7, RecordedStep

LEMMA SavedActionStep ==
    ASSUME IInv, NEW j \in Job, NEW t \in Task, Saved(<<j, t>>)
    PROVE  IInv' /\ \A i \in Job : JobStep(i)
<1> DEFINE a == <<j, t>>
<1>1. /\ pc[a] \in Saves /\ files' = [files EXCEPT ![j] = saving[a]] /\ intents' = intents
      /\ mode' = mode /\ todo' = todo /\ faults' = faults /\ Growing /\ a \in Actor
    BY DEF Saved, bounds, Growing, database, Actor
<1>2. /\ JobInv(j) /\ jobs[j] # None /\ jobs[j].status # "queued"
      /\ saving[a] \in JobRecord \cup {None} /\ AfterSave(a) \in Steps
    BY <1>1 DEF IInv, JobInv, TasksOf, Idle, Saves, TypeInv, AfterSave, Steps
<1>3. PICK p : p = [pc EXCEPT ![a] = AfterSave(a)]
    OBVIOUS
<1>4. PICK s : s = [saving EXCEPT ![a] = None]
    OBVIOUS
<1>5. /\ JobTypes(jobs, p, s) /\ DiskTypes' /\ p[a] = AfterSave(a) /\ s[a] = None
      /\ \A i \in Job, u \in Task : <<i, u>> # a => p[<<i, u>>] = pc[<<i, u>>] /\ s[<<i, u>>] = saving[<<i, u>>]
      /\ files'[j] = saving[a] /\ \A i \in Job \ {j} : FilesStay(i)
    BY <1>1, <1>2, <1>3, <1>4 DEF IInv, TypeInv, JobTypes, DiskTypes, FilesStay, Actor
<1>6. /\ JobTypes(jobs, pc, saving)'
      /\ \A i \in Job : Left(jobs, p, s, i) \/ (StartedFrom(jobs, p, s, i) /\ t = "run" /\ pc[a] = "save")
    <2>1. CASE t = "run" /\ pc[a] = "save"
        <3>1. Schedule(jobs, queue, p, s)
            BY <1>3, <1>4, <2>1 DEF Saved
        <3> QED BY <1>5, <2>1, <3>1, Scheduled
    <2>2. CASE ~(t = "run" /\ pc[a] = "save")
        <3>1. jobs' = jobs /\ pc' = p /\ saving' = s
            BY <1>3, <1>4, <2>2 DEF Saved
        <3> QED BY <1>5, <3>1 DEF JobTypes, Left
    <2> QED BY <2>1, <2>2
<1>7. JobStep(j)
    <2>1. Left(jobs, p, s, j)
        BY <1>2, <1>6 DEF StartedFrom
    <2>2. /\ pc'[a] = AfterSave(a) /\ saving'[a] = None /\ jobs'[j] = jobs[j]
          /\ \A u \in Task \ {t} : TaskStays(<<j, u>>)
        BY <1>5, <2>1 DEF Left, TaskStays
    <2>3. Around(j)
        BY <1>1 DEF Around
    <2> QED BY <1>1, <1>2, <1>5, <2>2, <2>3, SavedStep DEF IInv
<1>8. ASSUME NEW i \in Job \ {j} PROVE JobStep(i)
    <2>1. \A u \in Task : p[<<i, u>>] = pc[<<i, u>>] /\ s[<<i, u>>] = saving[<<i, u>>]
        BY <1>5
    <2>2. CASE Left(jobs, p, s, i)
        <3>1. jobs'[i] = jobs[i] /\ Around(i) /\ \A u \in Task : TaskStays(<<i, u>>)
            BY <1>1, <2>1, <2>2 DEF Left, Around, TaskStays
        <3> QED BY <1>5, <3>1, UntouchedStep DEF IInv
    <2>3. CASE StartedFrom(jobs, p, s, i) /\ t = "run" /\ pc[a] = "save"
        <3>1. mode = "open"
            BY <1>2, <2>3 DEF JobInv, RestoreOf, Idle, Task
        <3> QED BY <1>1, <1>5, <2>1, <2>3, <3>1, StartStep
    <2> QED BY <1>6, <2>2, <2>3
<1>9. Requested' /\ Apart /\ Modes' /\ todo' \in SUBSET Job
    BY DEF IInv, TypeInv, Saved, Requested, Selected, selecting, Apart, Modes, bounds
<1> QED BY <1>5, <1>6, <1>7, <1>8, <1>9, Whole

-----------------------------------------------------------------------------
(* Failing writes, and the process *)

\* The memory of the process is lost.
LEMMA Forgotten ==
    ASSUME IInv, NEW m \in {"down", "refused"}, Forget(m), UNCHANGED disk, Growing
    PROVE  /\ \A j \in Job : JobStep(j)
           /\ JobTypes(jobs, pc, saving)' /\ DiskTypes' /\ todo' \in SUBSET Job
           /\ picking' \in SUBSET Game /\ creating' = None /\ Modes'
<1>1. /\ jobs' = [j \in Job |-> None] /\ pc' = [a \in Actor |-> "idle"]
      /\ saving' = [a \in Actor |-> None] /\ todo' = {} /\ mode' = m
    BY DEF Forget
<1>2. \A j \in Job, t \in Task : <<j, t>> \in Actor
    BY DEF Actor
<1>3. ASSUME NEW j \in Job PROVE JobStep(j)
    <2>1. /\ jobs'[j] = None /\ j \notin todo' /\ mode' \in {"down", "refused"} /\ FilesStay(j)
          /\ \A t \in Task : pc'[<<j, t>>] = "idle" /\ saving'[<<j, t>>] = None
        BY <1>1, <1>2 DEF FilesStay, disk
    <2> QED BY <2>1, ForgottenStep DEF IInv
<1>4. JobTypes(jobs, pc, saving)' /\ DiskTypes' /\ todo' \in SUBSET Job
    BY <1>1 DEF JobTypes, Steps, DiskTypes, disk, IInv, TypeInv
<1>5. picking' \in SUBSET Game /\ creating' = None /\ Modes'
    BY DEF Forget, Modes
<1> QED BY <1>3, <1>4, <1>5

LEMMA BrokenStep ==
    ASSUME IInv, NEW j \in Job, pc[<<j, "run">>] = "save", Broken(<<j, "run">>), faults' # 0,
           UNCHANGED disk, Growing
    PROVE  /\ \A i \in Job : JobStep(i)
           /\ JobTypes(jobs, pc, saving)' /\ DiskTypes' /\ todo' \in SUBSET Job
<1> DEFINE a == <<j, "run">>
           Ended(r) == [r EXCEPT !.status = IF r.revision = 0 THEN "failed" ELSE "succeeded",
                                 !.followUp = IF @ = "pending" THEN "failed" ELSE @]
           Halted(i) == IF jobs[i] # None /\ jobs[i].status = "queued"
                        THEN [jobs[i] EXCEPT !.status = "cancelled"] ELSE jobs[i]
<1>1. /\ jobs' = [i \in Job |-> IF i = j THEN Ended(jobs[j]) ELSE Halted(i)]
      /\ pc' = [pc EXCEPT ![a] = "idle"] /\ saving' = [saving EXCEPT ![a] = None]
      /\ mode' = mode /\ todo' = todo /\ a \in Actor
    BY DEF Broken, Actor, Task
<1>2. /\ pc \in [Actor -> Steps] /\ saving \in [Actor -> JobRecord \cup {None}]
      /\ jobs \in [Job -> JobRecord \cup {None}]
      /\ \A i \in Job : JobInv(i) /\ FilesStay(i) /\ \A u \in Task : <<i, u>> \in Actor
    BY DEF IInv, TypeInv, Actor, FilesStay, disk
<1>3. /\ mode = "open" /\ jobs[j] # None /\ "run" \in Task /\ ~Idle(a)
      /\ \A i \in Job : i \notin todo'
    BY <1>1, <1>2 DEF JobInv, RestoreOf, TasksOf, Idle, Task
<1>4. jobs[j] \in Records(j) /\ jobs[j] \in JobRecord /\ True(jobs[j])
    BY <1>2, <1>3, RecordsTyped DEF JobInv, RecordsOf, IInv
<1>5. PICK job : job = Ended(jobs[j])
    OBVIOUS
<1>6. /\ job \in JobRecord /\ job.key = jobs[j].key /\ job.game = jobs[j].game
      /\ job.target = jobs[j].target /\ job.expected = jobs[j].expected
      /\ job.revision = jobs[j].revision
      /\ job.status = (IF jobs[j].revision = 0 THEN "failed" ELSE "succeeded")
      /\ (job.followUp # "none" => jobs[j].followUp # "none")
    BY <1>4, <1>5 DEF JobRecord, Terminal
<1>7. JobStep(j)
    <2>1. True(job)'
        BY <1>4, <1>6 DEF True, Growing, JobRecord
    <2>2. job.status = jobs[j].status \/ \A t \in Task : pc'[<<j, t>>] = "idle"
        <3>1. CASE jobs[j].revision # 0
            BY <1>4, <1>6, <3>1 DEF True
        <3>2. CASE jobs[j].revision = 0
            <4>1. pc'[a] = "idle" /\ \A t \in Task \ {"run"} : pc'[<<j, t>>] = pc[<<j, t>>]
                BY <1>1, <1>2
            <4>2. ASSUME NEW t \in Task \ {"run"} PROVE pc[<<j, t>>] = "idle"
                BY <1>2, <1>3, <3>2 DEF JobInv, TasksOf, RestoreOf, Idle, Task
            <4> QED BY <4>1, <4>2
        <3> QED BY <3>1, <3>2
    <2>3. jobs'[j] = job /\ job.status \in Terminal
        BY <1>1, <1>2, <1>5, <1>6 DEF Terminal
    <2>4. \A t \in Task : TaskStays(<<j, t>>) \/ (pc'[<<j, t>>] = "idle" /\ saving'[<<j, t>>] = None)
        BY <1>1, <1>2 DEF TaskStays
    <2> HIDE DEF a, Ended, Halted
    <2>5. ~Idle(<<j, "run">>)
        BY <1>3 DEF a
    <2> QED BY <1>1, <1>2, <1>3, <1>6, <2>1, <2>2, <2>3, <2>4, <2>5, AsideStep DEF IInv
<1>8. ASSUME NEW i \in Job \ {j} PROVE JobStep(i) /\ jobs'[i] \in JobRecord \cup {None}
    <2>1. jobs'[i] = Halted(i) /\ \A t \in Task : TaskStays(<<i, t>>)
        BY <1>1, <1>2 DEF TaskStays
    <2>2. CASE jobs[i] # None /\ jobs[i].status = "queued"
        <3>1. PICK r : r = [jobs[i] EXCEPT !.status = "cancelled"]
            OBVIOUS
        <3>2. jobs[i] \in Records(i) /\ jobs[i] \in JobRecord /\ True(jobs[i])
            BY <1>2, <2>2, RecordsTyped DEF JobInv, RecordsOf, IInv
        <3>3. /\ r \in JobRecord /\ r.key = jobs[i].key /\ r.game = jobs[i].game
              /\ r.target = jobs[i].target /\ r.expected = jobs[i].expected
              /\ r.revision = jobs[i].revision /\ r.status = "cancelled" /\ r.followUp = jobs[i].followUp
            BY <3>1, <3>2, StatusTyped DEF Terminal
        <3>4. True(r)'
            BY <2>2, <3>2, <3>3 DEF True, Growing, JobRecord
        <3>5. \A t \in Task : pc'[<<i, t>>] = "idle"
            BY <1>2, <2>1, <2>2 DEF JobInv, TasksOf, Idle, TaskStays
        <3>6. jobs'[i] = r /\ r.status \in Terminal
            BY <2>1, <2>2, <3>1, <3>3 DEF Terminal
        <3> QED BY <1>1, <1>2, <1>3, <2>1, <2>2, <3>3, <3>4, <3>5, <3>6, AsideStep DEF IInv
    <2>3. CASE ~(jobs[i] # None /\ jobs[i].status = "queued")
        <3>1. jobs'[i] = jobs[i] /\ Around(i)
            BY <1>1, <2>1, <2>3 DEF Around
        <3> QED BY <1>2, <2>1, <3>1, UntouchedStep DEF IInv
    <2> QED BY <2>2, <2>3
<1>9. JobTypes(jobs, pc, saving)' /\ DiskTypes' /\ todo' \in SUBSET Job
    <2>1. jobs' \in [Job -> JobRecord \cup {None}]
        <3>1. jobs'[j] \in JobRecord
            BY <1>1, <1>5, <1>6
        <3> QED BY <1>1, <1>8, <3>1
    <2>2. pc' \in [Actor -> Steps] /\ saving' \in [Actor -> JobRecord \cup {None}]
        BY <1>1, <1>2 DEF Steps
    <2> QED BY <1>1, <2>1, <2>2 DEF JobTypes, DiskTypes, disk, IInv, TypeInv
<1> QED BY <1>7, <1>8, <1>9

\* A request or close() gives up on its record, and the job stays as it is.
LEMMA DroppedStep ==
    ASSUME IInv, NEW j \in Job, NEW t \in {"reconcile", "cancel", "close"}, pc[<<j, t>>] \in Saves,
           pc' = [pc EXCEPT ![<<j, t>>] = "idle"], saving' = [saving EXCEPT ![<<j, t>>] = None],
           jobs' = jobs, mode' = mode, todo' = todo, faults' # 0, UNCHANGED disk, Growing
    PROVE  /\ \A i \in Job : JobStep(i)
           /\ JobTypes(jobs, pc, saving)' /\ DiskTypes' /\ todo' \in SUBSET Job
<1>1. /\ pc \in [Actor -> Steps] /\ saving \in [Actor -> JobRecord \cup {None}]
      /\ jobs \in [Job -> JobRecord \cup {None}] /\ t \in Task
      /\ \A i \in Job : JobInv(i) /\ FilesStay(i) /\ \A u \in Task : <<i, u>> \in Actor
    BY DEF IInv, TypeInv, Actor, FilesStay, disk, Task
<1>2. mode = "open" /\ jobs[j] # None /\ \A i \in Job : i \notin todo'
    BY <1>1 DEF JobInv, RestoreOf, TasksOf, Idle, Saves, Task
<1>3. jobs[j] \in JobRecord /\ True(jobs[j])'
    BY <1>1, <1>2, RecordsTyped, TrueStays DEF JobInv, RecordsOf, IInv, True, Growing, JobRecord
<1>4. JobStep(j)
    <2>1. PICK job : job = jobs[j]
        OBVIOUS
    <2>2. \A u \in Task : TaskStays(<<j, u>>) \/ (pc'[<<j, u>>] = "idle" /\ saving'[<<j, u>>] = None)
        BY <1>1 DEF TaskStays
    <2>3. True(job)'
        BY <1>1, <1>2, <2>1, RecordsTyped, TrueStays DEF JobInv, RecordsOf, IInv
    <2> QED BY <1>1, <1>2, <1>3, <2>1, <2>2, <2>3, AsideStep DEF IInv
<1>5. ASSUME NEW i \in Job \ {j} PROVE JobStep(i)
    <2>1. jobs'[i] = jobs[i] /\ Around(i) /\ \A u \in Task : TaskStays(<<i, u>>)
        BY <1>1 DEF Around, TaskStays
    <2> QED BY <1>1, <2>1, UntouchedStep DEF IInv
<1>6. JobTypes(jobs, pc, saving)' /\ DiskTypes' /\ todo' \in SUBSET Job
    BY <1>1 DEF JobTypes, DiskTypes, disk, Steps, IInv, TypeInv
<1> QED BY <1>4, <1>5, <1>6

LEMMA SaveFailsStep ==
    ASSUME IInv, NEW j \in Job, NEW t \in Task, SaveFails(<<j, t>>)
    PROVE  IInv' /\ \A i \in Job : JobStep(i)
<1>1. /\ pc[<<j, t>>] \in Saves /\ Growing /\ UNCHANGED disk /\ UNCHANGED database
      /\ faults' = faults + 1 /\ faults' \in Nat \ {0} /\ lost' = lost /\ lost \in Nat
      /\ announced' = announced /\ staging' = staging /\ selection' = selection
    BY DEF SaveFails, Growing, database, IInv, TypeInv
<1>2. /\ \A i \in Job : JobStep(i)
      /\ JobTypes(jobs, pc, saving)' /\ DiskTypes' /\ todo' \in SUBSET Job
      /\ picking' \in SUBSET Game /\ creating' \in {creating, None} /\ Modes'
    <2>1. CASE /\ t = "run" /\ pc[<<j, t>>] # "save" /\ Caught(<<j, t>>, FALSE)
               /\ UNCHANGED <<manager, picking>>
        <3>1. mode' = mode /\ todo' = todo /\ pc[<<j, "run">>] \in RunSteps
            BY <1>1, <2>1 DEF manager, RunSteps, Saves
        <3>2. picking' \in SUBSET Game /\ creating' \in {creating, None} /\ Modes'
            BY <2>1 DEF manager, Modes, IInv, TypeInv
        <3> QED BY <1>1, <2>1, <3>1, <3>2, CaughtStep
    <2>2. CASE t = "run" /\ pc[<<j, t>>] = "save" /\ Broken(<<j, t>>)
        <3>1. picking' \in SUBSET Game /\ creating' \in {creating, None} /\ Modes'
            BY <2>2 DEF Broken, Modes, IInv, TypeInv
        <3> QED BY <1>1, <2>2, <3>1, BrokenStep
    <2>3. CASE t = "restore" /\ Forget("refused")
        BY <1>1, <2>3, Forgotten
    <2>4. CASE /\ t \in {"reconcile", "cancel", "close"}
               /\ pc' = [pc EXCEPT ![<<j, t>>] = "idle"] /\ saving' = [saving EXCEPT ![<<j, t>>] = None]
               /\ closing' = (IF t = "close" THEN "failed" ELSE closing)
               /\ UNCHANGED <<jobs, queue, gate, mode, closed, picking, creating, todo>>
        <3>1. mode = "open"
            BY <1>1, <2>4 DEF IInv, JobInv, RestoreOf, Idle, Saves, Task
        <3>2. picking' \in SUBSET Game /\ creating' \in {creating, None} /\ Modes'
            BY <2>4, <3>1 DEF Modes, IInv, TypeInv
        <3> QED BY <1>1, <2>4, <3>2, DroppedStep
    <2> QED BY <2>1, <2>2, <2>3, <2>4 DEF SaveFails
<1>3. Requested' /\ Apart
    BY <1>1, <1>2 DEF IInv, TypeInv, Requested, Selected, Apart
<1> QED BY <1>2, <1>3, Whole

LEMMA ExitStep ==
    ASSUME IInv, Exit PROVE IInv' /\ \A j \in Job : JobStep(j)
<1>1. Forget("down") /\ UNCHANGED disk /\ Growing
    BY DEF Exit, Growing, database
<1>2. /\ \A j \in Job : JobStep(j)
      /\ JobTypes(jobs, pc, saving)' /\ DiskTypes' /\ todo' \in SUBSET Job
      /\ picking' \in SUBSET Game /\ creating' = None /\ Modes'
    BY <1>1, Forgotten
<1>3. Requested' /\ Apart
    BY <1>2 DEF IInv, TypeInv, Exit, Requested, Selected, Apart, bounds
<1> QED BY <1>2, <1>3, Whole

LEMMA RestoredStep ==
    ASSUME IInv, Restored PROVE IInv' /\ \A j \in Job : JobStep(j)
<1>1. ASSUME NEW j \in Job PROVE JobStep(j)
    <2>1. /\ mode = "restoring" /\ mode' = "open" /\ j \notin todo /\ Idle(<<j, "restore">>)
          /\ jobs'[j] = jobs[j] /\ FilesStay(j) /\ todo' = todo /\ faults' = faults
          /\ (\A t \in Task : TaskStays(<<j, t>>)) /\ Growing
        BY DEF Restored, FilesStay, disk, TaskStays, tasks, Growing, database, bounds
    <2> QED BY <2>1, OpenedStep DEF IInv
<1>2. JobTypes(jobs, pc, saving)' /\ DiskTypes' /\ todo' \in SUBSET Job
    BY DEF Restored, JobTypes, DiskTypes, disk, tasks, IInv, TypeInv
<1>3. Requested' /\ Apart /\ Modes'
    BY DEF IInv, TypeInv, Restored, Requested, Selected, selecting, Apart, Modes, bounds
<1> QED BY <1>1, <1>2, <1>3, Whole

LEMMA RestartStep ==
    ASSUME IInv, Restart PROVE IInv' /\ \A j \in Job : JobStep(j)
<1>1. ASSUME NEW j \in Job PROVE JobStep(j)
    <2>1. /\ mode \in {"down", "refused"} /\ mode' = "restoring"
          /\ jobs'[j] = OnDisk(j) /\ FilesStay(j) /\ (\A t \in Task : TaskStays(<<j, t>>)) /\ Growing
          /\ j \in todo' <=> /\ OnDisk(j) # None
                             /\ \/ OnDisk(j).status \notin Terminal
                                \/ OnDisk(j).followUp \in {"pending", "failed"}
        BY DEF Restart, FilesStay, disk, TaskStays, tasks, Growing, database
    <2> QED BY <2>1, ReadStep DEF IInv
<1>2. JobTypes(jobs, pc, saving)' /\ DiskTypes' /\ todo' \in SUBSET Job
    BY DEF Restart, OnDisk, JobTypes, DiskTypes, disk, tasks, IInv, TypeInv
<1>3. Requested' /\ Apart /\ Modes'
    BY DEF IInv, TypeInv, Restart, Requested, Selected, selecting, Apart, Modes, bounds
<1> QED BY <1>1, <1>2, <1>3, Whole

LEMMA RestoreJobStep ==
    ASSUME IInv, NEW j \in Job, RestoreJob(j) PROVE IInv' /\ \A i \in Job : JobStep(i)
<1>1. /\ JobInv(j) /\ "restore" \in Task /\ mode = "restoring" /\ j \in todo /\ UNCHANGED disk
      /\ Growing /\ faults' = faults
    BY DEF IInv, Task, RestoreJob, Growing, database, bounds
<1>2. CASE Forget("refused")
    <2>1. /\ \A i \in Job : JobStep(i)
          /\ JobTypes(jobs, pc, saving)' /\ DiskTypes' /\ todo' \in SUBSET Job
          /\ picking' \in SUBSET Game /\ creating' = None /\ Modes'
        BY <1>1, <1>2, Forgotten
    <2>2. Requested' /\ Apart
        BY <2>1 DEF IInv, TypeInv, RestoreJob, Requested, Selected, Apart, bounds
    <2> QED BY <2>1, <2>2, Whole
<1>3. CASE /\ todo' = todo \ {j}
           /\ UNCHANGED <<mode, closed, creating, closing, picking, queue, gate>>
    <2>1. Requested' /\ Apart /\ Modes'
        BY <1>3 DEF IInv, TypeInv, RestoreJob, Requested, Selected, Apart, Modes, bounds
    <2>2. mode' = mode /\ j \notin todo' /\ todo' = todo \ {j} /\ \A i \in Job : FilesStay(i)
        BY <1>1, <1>3 DEF FilesStay, disk
    <2>3. /\ jobs[j] # None /\ jobs[j] = OnDisk(j) /\ jobs[j] \in JobRecord /\ jobs[j] \in Records(j)
          /\ True(jobs[j])
        <3>1. jobs[j] # None /\ jobs[j] = OnDisk(j)
            BY <1>1 DEF JobInv, RestoreOf
        <3>2. jobs[j] \in JobRecord /\ jobs[j] \in Records(j)
            BY <3>1, RecordsTyped DEF IInv, TypeInv
        <3> QED BY <1>1, <3>1, <3>2 DEF JobInv, RecordsOf
    <2>4. CASE Committed(jobs[j]) /\ jobs' = [jobs EXCEPT ![j] = Imported(jobs[j])]
               /\ Goto(<<j, "restore">>, "remove")
        <3>1. PICK job : job = Imported(jobs[j])
            OBVIOUS
        <3>2. job \in JobRecord
            <4>1. jobs[j].target \in Document
                BY <2>3, <2>4 DEF Committed, JobRecord
            <4>2. Sealed(jobs[j].target).revision \in Nat
                BY <4>1, LedgerAssumption DEF Sealed, Base
            <4> QED BY <2>3, <3>1, <4>2 DEF Imported, JobRecord, Terminal
        <3>3. PICK s : s = saving[<<j, "restore">>]
            OBVIOUS
        <3>4. s \in JobRecord \cup {None} /\ saving' = [saving EXCEPT ![<<j, "restore">>] = s]
            BY <1>1, <2>4, <3>3 DEF Goto, IInv, TypeInv, Actor
        <3>5. pc' = [pc EXCEPT ![<<j, "restore">>] = "remove"] /\ "remove" \in Steps
            BY <2>4 DEF Goto, Steps
        <3>6. /\ \A i \in Job \ {j} : JobStep(i)
              /\ jobs'[j] = job /\ saving'[<<j, "restore">>] = s /\ pc'[<<j, "restore">>] = "remove"
              /\ \A u \in Task \ {"restore"} : TaskStays(<<j, u>>)
              /\ JobTypes(jobs, pc, saving)' /\ todo' \in SUBSET Job
            BY <1>1, <2>2, <2>4, <3>1, <3>2, <3>4, <3>5, Alone
        <3>7. JobStep(j)
            BY <1>1, <2>2, <2>4, <3>1, <3>3, <3>6, CommittedStep DEF IInv
        <3>8. DiskTypes'
            BY <1>1 DEF DiskTypes, disk, IInv, TypeInv
        <3> QED BY <2>1, <3>6, <3>7, <3>8, Whole
    <2>5. CASE ~Committed(jobs[j])
               /\ Record(<<j, "restore">>, [jobs[j] EXCEPT !.status = "cancelled"], "save")
        <3>1. PICK job : job = [jobs[j] EXCEPT !.status = "cancelled"]
            OBVIOUS
        <3>2. /\ job \in JobRecord /\ job.status = "cancelled" /\ job.key = jobs[j].key
              /\ job.game = jobs[j].game /\ job.target = jobs[j].target /\ job.expected = jobs[j].expected
              /\ job.revision = jobs[j].revision /\ job.followUp = jobs[j].followUp
            BY <2>3, <3>1, StatusTyped DEF Terminal
        <3>3. jobs[j].revision = 0
            BY <2>3, <2>5, NoneAssumption DEF True, Committed
        <3>4. True(job)' /\ job.followUp = "none"
            BY <2>3, <3>2, <3>3 DEF True
        <3>5. \A u \in Task : Idle(<<j, u>>) /\ saving[<<j, u>>] = None
            BY <1>1 DEF JobInv, RestoreOf, TasksOf, Idle, Saves, Task
        <3>6. \A g \in Game, d \in Document : ~Witness(j, g, d)
            BY <2>3, <2>5, NoneAssumption DEF Witness, Committed
        <3>7. Following(j, "restore", job, "save")
            <4>1. "save" \in Saves \cap StepsOf("restore")
                BY DEF Saves, StepsOf
            <4>2. intents[j] # None => job.target = intents[j].target /\ job.target # None
                BY <1>1, <2>3, <3>2 DEF JobInv, RecordsOf
            <4> QED BY <1>1, <2>3, <3>2, <3>3, <3>4, <3>5, <3>6, <4>1, <4>2 DEF Following, Terminal
        <3>8. /\ \A i \in Job : JobStep(i)
              /\ JobTypes(jobs, pc, saving)' /\ DiskTypes' /\ todo' \in SUBSET Job
            BY <1>1, <2>2, <2>5, <3>1, <3>7, Recorded
        <3> QED BY <2>1, <3>8, Whole
    <2> QED BY <1>1, <1>3, <2>4, <2>5 DEF RestoreJob, Forget
<1> QED BY <1>2, <1>3 DEF RestoreJob

-----------------------------------------------------------------------------
(* New jobs *)

LEMMA Arrived ==
    ASSUME IInv, creating # None, creating' = None, UNCHANGED database, announced' = announced,
           lost' = lost, faults' \in Nat,
           \A j \in Job \ DOMAIN creating.jobs : JobStep(j),
           \A j \in DOMAIN creating.jobs :
               JobInv(j)' /\ \A s \in Records(j)' : s.key = creating.jobs[j].key,
           JobTypes(jobs, pc, saving)', DiskTypes', Requested', Modes', todo' \in SUBSET Job
    PROVE  IInv' /\ \A j \in Job : Ends(j)
<1> DEFINE new == DOMAIN creating.jobs
<1>1. /\ new \subseteq Job
      /\ \A j \in new : Records(j) = {} /\ jobs[j] = None /\ OnDisk(j) = None
    <2>1. new \subseteq Job /\ \A j \in new : Records(j) = {}
        BY DEF IInv, CreatedAreNew
    <2>2. ASSUME NEW j \in new PROVE jobs[j] = None /\ OnDisk(j) = None
        <3>1. Records(j) = {}
            BY <2>1
        <3> QED BY <3>1 DEF Records, OnDisk
    <2> QED BY <2>1, <2>2
<1>2. KeyNamesOneJob'
    <2> SUFFICES ASSUME NEW i \in Job, NEW j \in Job, NEW r \in Records(i)', NEW s \in Records(j)',
                        r.key = s.key
                 PROVE  i = j
        BY DEF KeyNamesOneJob
    <2>1. ASSUME NEW k \in Job, k \notin new, NEW t \in Records(k)'
          PROVE  \E u \in Records(k) : t.key = u.key
        BY <2>1 DEF JobStep
    <2>2. CASE i \in new /\ j \in new
        BY <2>2 DEF IInv, CreatedAreNew
    <2>3. CASE i \in new /\ j \notin new
        BY <2>1, <2>3 DEF IInv, CreatedAreNew
    <2>4. CASE i \notin new /\ j \in new
        BY <2>1, <2>4 DEF IInv, CreatedAreNew
    <2>5. CASE i \notin new /\ j \notin new
        BY <2>1, <2>5 DEF IInv, KeyNamesOneJob
    <2> QED BY <2>2, <2>3, <2>4, <2>5
<1>3. Reported'
    <2> SUFFICES ASSUME lost' = 0, NEW g \in Game, NEW r \in revisions[g]
                 PROVE  r.document \in announced' \/ \E j \in Job : Witness(j, g, r.document)'
        BY DEF Reported, database
    <2>1. r.document \in announced \/ \E j \in Job : Witness(j, g, r.document)
        BY DEF IInv, Reported
    <2>2. r.document \in Document
        BY DEF IInv, TypeInv
    <2>3. \A j \in Job : Witness(j, g, r.document) => j \notin new
        BY <1>1 DEF Witness
    <2> QED BY <2>1, <2>2, <2>3 DEF JobStep
<1>4. \A j \in Job : JobInv(j)' /\ Ends(j)
    BY <1>1 DEF JobStep, Ends
<1>5. TypeInv' /\ CreatedAreNew'
    BY DEF IInv, TypeInv, JobTypes, DiskTypes, Requested, CreatedAreNew, database
<1> QED BY <1>2, <1>3, <1>4, <1>5 DEF IInv, Requested

LEMMA RegisterStep ==
    ASSUME IInv, Register PROVE IInv' /\ \A j \in Job : Ends(j)
<1> DEFINE Added(f) == [j \in Job |-> IF j \in DOMAIN creating.jobs THEN creating.jobs[j] ELSE f[j]]
<1>1. /\ creating # None /\ creating' = None /\ mode = "open" /\ mode' = mode /\ todo' = todo
      /\ UNCHANGED database /\ announced' = announced /\ lost' = lost /\ faults' = faults
      /\ Growing
    BY DEF Register, bounds, database, Growing, IInv, Modes
<1>2. \/ intents' = Added(intents) /\ files' = files /\ creating.batch
      \/ files' = Added(files) /\ intents' = intents
    BY DEF Register
<1>3. PICK q : Schedule(Added(jobs), q, pc, saving)
    BY DEF Register
<1>4. PICK js : js = Added(jobs)
    OBVIOUS
<1>5. /\ \A j \in DOMAIN creating.jobs :
            /\ j \in Job /\ creating.jobs[j] \in JobRecord /\ creating.jobs[j].status = "queued"
            /\ True(creating.jobs[j]) /\ Records(j) = {}
            /\ (creating.batch => creating.jobs[j].target # None)
      /\ \A j \in Job : JobInv(j)
    BY <1>1 DEF IInv, CreatedAreNew
<1>6. JobTypes(js, pc, saving)
    BY <1>4, <1>5 DEF JobTypes, IInv, TypeInv
<1>7. /\ JobTypes(jobs, pc, saving)'
      /\ \A j \in Job : Left(js, pc, saving, j) \/ StartedFrom(js, pc, saving, j)
    BY <1>3, <1>4, <1>6, Scheduled
<1>8. ASSUME NEW j \in Job \ DOMAIN creating.jobs PROVE JobStep(j)
    <2>1. js[j] = jobs[j] /\ FilesStay(j)
        BY <1>2, <1>4 DEF FilesStay
    <2>2. CASE Left(js, pc, saving, j)
        <3>1. jobs'[j] = jobs[j] /\ Around(j) /\ \A u \in Task : TaskStays(<<j, u>>)
            BY <1>1, <2>1, <2>2 DEF Left, Around, TaskStays
        <3> QED BY <1>5, <2>1, <3>1, UntouchedStep DEF IInv
    <2>3. CASE StartedFrom(js, pc, saving, j)
        BY <1>1, <2>1, <2>3, StartStep
    <2> QED BY <1>7, <2>2, <2>3
<1>9. ASSUME NEW j \in DOMAIN creating.jobs
      PROVE  JobInv(j)' /\ \A s \in Records(j)' : s.key = creating.jobs[j].key
    <2>1. PICK r : r = creating.jobs[j]
        OBVIOUS
    <2>2. /\ j \in Job /\ r \in JobRecord /\ True(r) /\ r.status = "queued" /\ Records(j) = {}
          /\ js[j] = r /\ j \notin todo'
        BY <1>1, <1>4, <1>5, <2>1 DEF JobInv, RestoreOf
    <2>3. True(r)'
        BY <1>1, <2>2, TrueStays
    <2>4. \/ files'[j] = r /\ intents'[j] = intents[j]
          \/ files'[j] = files[j] /\ intents'[j] = r /\ r.target # None
        BY <1>2, <1>5, <2>1, <2>2
    <2>5. \/ jobs'[j] = r /\ \A t \in Task : TaskStays(<<j, t>>)
          \/ /\ jobs'[j] = [r EXCEPT !.status = "running"]
             /\ pc'[<<j, "run">>] = "saveRunning" /\ saving'[<<j, "run">>] = jobs'[j]
             /\ \A t \in Task \ {"run"} : TaskStays(<<j, t>>)
        BY <1>7, <2>2 DEF Left, StartedFrom, TaskStays
    <2> QED BY <1>1, <1>5, <2>1, <2>2, <2>3, <2>4, <2>5, NewStep DEF IInv
<1>10. DiskTypes' /\ todo' \in SUBSET Job /\ faults' \in Nat
    BY <1>1, <1>2, <1>5 DEF DiskTypes, IInv, TypeInv
<1>11. Requested' /\ Modes'
    BY DEF IInv, TypeInv, Register, Requested, Selected, selecting, Modes
<1> QED BY <1>1, <1>7, <1>8, <1>9, <1>10, <1>11, Arrived

LEMMA CrashStep ==
    ASSUME IInv, Crash PROVE IInv' /\ \A j \in Job : Ends(j)
<1>1. /\ Forget("down") /\ UNCHANGED database /\ announced' = announced /\ lost' = lost
      /\ faults' = faults /\ Growing
    BY DEF Crash, Growing, database
<1>2. Requested' /\ Modes' /\ creating' = None /\ todo' = {}
    BY DEF IInv, TypeInv, Crash, Forget, Requested, Selected, Modes
<1>3. CASE UNCHANGED disk
    <2>1. /\ \A j \in Job : JobStep(j)
          /\ JobTypes(jobs, pc, saving)' /\ DiskTypes' /\ todo' \in SUBSET Job
        BY <1>1, <1>3, Forgotten
    <2>2. Apart
        BY <1>1, <1>2 DEF Apart, IInv, TypeInv
    <2> QED BY <1>2, <2>1, <2>2, Whole DEF JobStep
<1>4. CASE creating # None /\ ~UNCHANGED disk
    <2> DEFINE Added(f) == [j \in Job |-> IF j \in DOMAIN creating.jobs THEN creating.jobs[j] ELSE f[j]]
    <2>1. \/ intents' = Added(intents) /\ files' = files /\ creating.batch
          \/ files' = Added(files) /\ intents' = intents
        BY <1>4 DEF Crash
    <2>2. /\ \A j \in DOMAIN creating.jobs :
                /\ j \in Job /\ creating.jobs[j] \in JobRecord /\ True(creating.jobs[j])
                /\ Records(j) = {} /\ (creating.batch => creating.jobs[j].target # None)
          /\ \A j \in Job : JobInv(j)
        BY <1>4 DEF IInv, CreatedAreNew
    <2>3. \A j \in Job :
            /\ jobs'[j] = None /\ j \notin todo' /\ mode' = "down"
            /\ \A t \in Task : pc'[<<j, t>>] = "idle" /\ saving'[<<j, t>>] = None
        BY <1>1 DEF Forget, Actor
    <2>4. ASSUME NEW j \in Job \ DOMAIN creating.jobs PROVE JobStep(j)
        <3>1. FilesStay(j)
            BY <2>1 DEF FilesStay
        <3> QED BY <1>1, <2>2, <2>3, <3>1, ForgottenStep DEF IInv
    <2>5. ASSUME NEW j \in DOMAIN creating.jobs
          PROVE  JobInv(j)' /\ \A s \in Records(j)' : s.key = creating.jobs[j].key
        <3>1. PICK r : r = creating.jobs[j]
            OBVIOUS
        <3>2. j \in Job /\ r \in JobRecord /\ True(r) /\ Records(j) = {}
            BY <2>2, <3>1
        <3>3. True(r)'
            BY <1>1, <3>2, TrueStays
        <3>4. \/ files'[j] = r /\ intents'[j] = intents[j]
              \/ files'[j] = files[j] /\ intents'[j] = r /\ r.target # None
            BY <2>1, <2>2, <3>1, <3>2
        <3> QED BY <2>2, <2>3, <3>1, <3>2, <3>3, <3>4, LeftStep DEF IInv
    <2>6. DiskTypes'
        BY <2>1, <2>2 DEF DiskTypes, IInv, TypeInv
    <2>7. JobTypes(jobs, pc, saving)' /\ faults' \in Nat
        BY <1>1 DEF Forget, JobTypes, Steps, IInv, TypeInv
    <2> QED BY <1>1, <1>2, <1>4, <2>4, <2>5, <2>6, <2>7, Arrived
<1> QED BY <1>3, <1>4 DEF Crash

-----------------------------------------------------------------------------
(* The theorems *)

LEMMA Initially == Init => IInv
<1> SUFFICES ASSUME Init PROVE IInv
    OBVIOUS
<1>1. \A j \in Job : /\ jobs[j] = None /\ files[j] = None /\ intents[j] = None
                     /\ \A t \in Task : pc[<<j, t>>] = "idle" /\ saving[<<j, t>>] = None
    BY DEF Init, Actor
<1>2. \A j \in Job : Records(j) = {}
    BY <1>1 DEF Records
<1>3. /\ revisions \in [Game -> SUBSET [revision : Nat, document : Document]]
      /\ current \in [Game -> Nat]
    <2>1. revisions \in [Game -> SUBSET {Chain!Sealed(1, d) : d \in Document}]
        BY DEF Init, Chain!Init
    <2>2. {Chain!Sealed(1, d) : d \in Document} \subseteq [revision : Nat, document : Document]
        BY DEF Chain!Sealed
    <2>3. current \in [Game -> Nat]
        BY DEF Init, Chain!Init
    <2> QED BY <2>1, <2>2, <2>3
<1>4. TypeInv
    BY <1>3 DEF Init, TypeInv, Steps
<1>5. ASSUME NEW j \in Job PROVE JobInv(j)
    <2>1. RecordsOf(j) /\ HistoryOf(j)
        BY <1>1, <1>2 DEF RecordsOf, HistoryOf
    <2>2. TasksOf(j)
        BY <1>1 DEF TasksOf, Idle, StepsOf, Steps, Saves, Task
    <2>3. RestoreOf(j)
        BY <1>1 DEF Init, RestoreOf, OnDisk, Idle, Task
    <2> QED BY <2>1, <2>2, <2>3 DEF JobInv
<1>6. Modes /\ Selected /\ CreatedAreNew /\ KeyNamesOneJob
    BY <1>2 DEF Init, Modes, Selected, CreatedAreNew, KeyNamesOneJob
<1>7. Reported
    BY DEF Init, Reported
<1> QED BY <1>4, <1>5, <1>6, <1>7 DEF IInv

LEMMA NextStep ==
    ASSUME IInv, Next PROVE IInv' /\ \A j \in Job : Ends(j)
<1>1. CASE SelectGames \/ ReadTargets \/ CreateFails \/ Close \/ Closed \/ \E g \in Game : Edit(g)
    BY <1>1, SelectGamesStep, ReadTargetsStep, CreateFailsStep, CloseStep, EditStep DEF JobStep
<1>2. CASE \E k \in RequestKey : Create(k) \/ CreateReadyBatch(k)
    BY <1>2, CreateStep, CreateReadyBatchStep DEF JobStep
<1>3. CASE \E j \in Job : Cancel(j) \/ CloseCancel(j)
    <2>1. PICK j \in Job : Cancel(j) \/ CloseCancel(j)
        BY <1>3
    <2>2. mode = "open" /\ (Cancelling("cancel", j) \/ Cancelling("close", j))
        BY <2>1 DEF Cancel, CloseCancel, IInv, Modes
    <2> QED BY <2>2, CancellingStep DEF JobStep
<1>4. CASE \E j \in Job : Reconcile(j) \/ Check(j) \/ Import(j) \/ RestoreJob(j)
    BY <1>4, ReconcileStep, CheckStep, ImportStep, RestoreJobStep DEF JobStep
<1>5. CASE \E a \in Actor : RemoveImported(a) \/ Announce(a) \/ Saved(a) \/ SaveFails(a) \/ TaskFails(a)
    <2>1. PICK j \in Job, t \in Task : \/ RemoveImported(<<j, t>>) \/ Announce(<<j, t>>)
                                       \/ Saved(<<j, t>>) \/ SaveFails(<<j, t>>) \/ TaskFails(<<j, t>>)
        BY <1>5 DEF Actor
    <2> QED BY <2>1, RemoveImportedStep, AnnounceStep, SavedActionStep, SaveFailsStep, TaskFailsStep
            DEF JobStep
<1>6. CASE Register \/ Crash
    BY <1>6, RegisterStep, CrashStep
<1>7. CASE Restored \/ Exit \/ Restart
    BY <1>7, RestoredStep, ExitStep, RestartStep DEF JobStep
<1> QED BY <1>1, <1>2, <1>3, <1>4, <1>5, <1>6, <1>7 DEF Next, Progress, Work, Step

LEMMA StutterStep ==
    ASSUME IInv, UNCHANGED vars PROVE IInv' /\ \A j \in Job : Ends(j)
<1>1. /\ \A j \in Job : JobStep(j)
      /\ JobTypes(jobs, pc, saving)' /\ DiskTypes' /\ todo' \in SUBSET Job
    BY Quiet DEF vars, database, disk, manager, tasks, bounds, Growing
<1>2. Requested' /\ Apart /\ Modes'
    BY DEF vars, database, selecting, manager, bounds, IInv, TypeInv, Requested, Selected, Apart, Modes
<1> QED BY <1>1, <1>2, Whole DEF JobStep

LEMMA Invariance == Spec => []IInv
<1>1. IInv /\ [Next]_vars => IInv'
    BY NextStep, StutterStep
<1> QED BY Initially, <1>1, PTL DEF Spec

\* A job that says it succeeded names a revision that is sealed with the document that it read,
\* and that is the document asked for (run, restore): in memory, on disk, and in what is still
\* being written.
THEOREM SuccessHolds == Spec => []SuccessIsTrue
<1>1. IInv => SuccessIsTrue
    <2> SUFFICES ASSUME IInv PROVE SuccessIsTrue
        OBVIOUS
    <2>1. SuccessIsSealed
        BY DEF IInv, JobInv, RecordsOf, True, SuccessIsSealed
    <2>2. TargetHonoured
        <3> SUFFICES ASSUME NEW j \in Registered, jobs[j].status = "succeeded"
                     PROVE  /\ jobs[j].expected \in {None, jobs[j].target}
                            /\ intents[j] # None => jobs[j].target = intents[j].target
            BY DEF TargetHonoured
        <3>1. j \in Job /\ jobs[j] \in Records(j)
            BY RecordsTyped DEF Registered, IInv
        <3>2. jobs[j].target # None
            BY <3>1, NoneAssumption DEF IInv, JobInv, RecordsOf, True
        <3> QED BY <3>1, <3>2 DEF IInv, JobInv, RecordsOf, True
    <2> QED BY <2>1, <2>2 DEF SuccessIsTrue
<1> QED BY Invariance, <1>1, PTL

\* One key makes one job however often the request is repeated; a revision that a job sealed
\* is reported by a job, now or after a restart, unless the answer to COMMIT was lost; and
\* with no write failed, history on disk says how a job ended as memory does.
THEOREM JobsStayRecorded == Spec => []JobsAreRecorded
<1>1. IInv => JobsAreRecorded
    <2> SUFFICES ASSUME IInv PROVE JobsAreRecorded
        OBVIOUS
    <2>1. SealedIsReported
        BY DEF IInv, Reported, SealedIsReported, Witness
    <2>2. HistoryAgrees
        <3> SUFFICES ASSUME faults = 0, NEW j \in Registered, \A t \in Task : Idle(<<j, t>>), j \notin todo
                     PROVE  Same(OnDisk(j), jobs[j])
            BY DEF HistoryAgrees, Same
        <3>1. j \in Job /\ jobs[j] # None
            BY DEF Registered
        <3> QED BY <3>1 DEF IInv, JobInv, HistoryOf, Idle, Saves, Task
    <2> QED BY <2>1, <2>2 DEF JobsAreRecorded, IInv
<1> QED BY Invariance, <1>1, PTL

\* How a job ended is never taken back: not by a follow-up or a write that fails, nor by a
\* restart, and a job that was cancelled before it ran never runs.
THEOREM EndsHold == Spec => EndsStay
<1>1. IInv /\ [Next]_vars =>
        [\A j \in Registered :
            jobs[j].status = "succeeded" =>
                \/ jobs'[j] = None
                \/ jobs'[j].status = "succeeded" /\ jobs'[j].revision = jobs[j].revision]_vars
    BY NextStep DEF Ends, Registered
<1>2. IInv /\ [Next]_vars =>
        [\A j \in Registered :
            jobs[j].status = "cancelled" /\ Idle(<<j, "run">>) =>
                jobs'[j] = None \/ jobs'[j].status = "cancelled"]_vars
    BY NextStep DEF Ends, Registered
<1> QED BY Invariance, <1>1, <1>2, PTL DEF Spec, EndsStay, SuccessStays, CancelledStays

=============================================================================
