------------------------- MODULE RecordCorrectionJobs -------------------------
(***************************************************************************)
(* The jobs that collect the record corrections of seasons                  *)
(* (apps/server/src/jobs/record-correction-job-manager.ts) and their rows   *)
(* (packages/persistence/src/record-correction-jobs.ts): jobs are created,  *)
(* launched, cancelled and closed while their queries are in flight, fail,  *)
(* and are resumed after a restart.                                         *)
(***************************************************************************)
EXTENDS Naturals, FiniteSets

CONSTANTS
    NoticeJob,        \* the requests, each with a job id of its own
    NoticeSeason,     \* the seasons
    SeasonsOf,        \* per request its seasons
    KeyOf,            \* per request its idempotency key
    MaxNoticeCrashes  \* bound of the restarts

ASSUME NoticeJobAssumption ==
    /\ NoticeSeason \subseteq Nat /\ IsFiniteSet(NoticeSeason)
    /\ SeasonsOf \in [NoticeJob -> (SUBSET NoticeSeason) \ {{}}]
    /\ MaxNoticeCrashes \in Nat

VARIABLES
    runRows,      \* collection_runs: per job its status
    seasonRows,   \* collection_run_seasons: per job and season its status
    unassessed,   \* seasons with imported notices that are not assessed yet
    runStage,     \* per job where create() or run() is
    active,       \* per job the seasons it holds in activeSeasons
    left,         \* per job the seasons its loop has yet to do
    changes,      \* per job the negation of allNoChange
    stopped,      \* jobs whose signal is aborted
    cancelling,   \* per job where cancel() is: "no", "asked" or "marked"
    noticeServer, \* "up", "closing", "closed", "down", or "refused": start() has thrown
    noticeCrashes

noticeRows == <<runRows, seasonRows, unassessed>>
noticeLocals == <<runStage, active, left, changes, stopped, cancelling>>
noticeVars == <<noticeRows, noticeLocals, noticeServer, noticeCrashes>>

Running == {"starting", "step", "collecting", "assessing", "ending", "catching", "failing", "cancelled"}
RunEnded == {"succeeded", "no_change", "failed", "cancelled"}
SeasonEnded == {"succeeded", "no_change", "failed"}
Executing == {j \in NoticeJob : runStage[j] \in Running}
ActiveSeasons == UNION {active[j] : j \in NoticeJob}
Next1(j) == CHOOSE s \in left[j] : \A t \in left[j] : s <= t

NoticeJobsInit ==
    /\ runRows = [j \in NoticeJob |-> "none"]
    /\ seasonRows = [j \in NoticeJob |-> [s \in SeasonsOf[j] |-> "none"]]
    /\ unassessed = {}
    /\ runStage = [j \in NoticeJob |-> "none"]
    /\ active = [j \in NoticeJob |-> {}] /\ left = active
    /\ changes = [j \in NoticeJob |-> FALSE]
    /\ stopped = {} /\ cancelling = [j \in NoticeJob |-> "no"]
    /\ noticeServer = "up" /\ noticeCrashes = 0

-----------------------------------------------------------------------------
(* create() *)

\* The seasons are looked at before createJob() is awaited.
CreateRun(j) ==
    /\ noticeServer = "up" /\ runStage[j] = "none" /\ runRows[j] = "none"
    /\ SeasonsOf[j] \cap ActiveSeasons = {}
    /\ runStage' = [runStage EXCEPT ![j] = "creating"]
    /\ UNCHANGED <<noticeRows, active, left, changes, stopped, cancelling, noticeServer, noticeCrashes>>

\* createJob(): a key that has a run names that run.
InsertRun(j) ==
    /\ runStage[j] = "creating"
    /\ IF \E i \in NoticeJob : KeyOf[i] = KeyOf[j] /\ runRows[i] # "none"
       THEN runStage' = [runStage EXCEPT ![j] = "answered"] /\ UNCHANGED noticeRows
       ELSE /\ runStage' = [runStage EXCEPT ![j] = "created"]
            /\ runRows' = [runRows EXCEPT ![j] = "queued"]
            /\ seasonRows' = [seasonRows EXCEPT ![j] = [s \in SeasonsOf[j] |-> "queued"]]
            /\ UNCHANGED unassessed
    /\ UNCHANGED <<active, left, changes, stopped, cancelling, noticeServer, noticeCrashes>>

\* launch() looks again, and throws when another create() was faster: the row
\* stays "queued".
LaunchRun(j) ==
    /\ runStage[j] = "created"
    /\ IF SeasonsOf[j] \cap ActiveSeasons # {}
       THEN runStage' = [runStage EXCEPT ![j] = "none"] /\ UNCHANGED <<active, left, changes>>
       ELSE /\ runStage' = [runStage EXCEPT ![j] = "starting"]
            /\ active' = [active EXCEPT ![j] = SeasonsOf[j]]
            /\ left' = [left EXCEPT ![j] = SeasonsOf[j]]
            /\ changes' = [changes EXCEPT ![j] = FALSE]
    /\ UNCHANGED <<noticeRows, stopped, cancelling, noticeServer, noticeCrashes>>

-----------------------------------------------------------------------------
(* run() *)

\* setJobRunning(), whatever the row says.
StartRun(j) ==
    /\ runStage[j] = "starting"
    /\ runRows' = [runRows EXCEPT ![j] = "running"]
    /\ runStage' = [runStage EXCEPT ![j] = "step"]
    /\ UNCHANGED <<seasonRows, unassessed, active, left, changes, stopped, cancelling, noticeServer, noticeCrashes>>

\* The head of the loop: the signal is looked at, then the season is marked.
NextSeason(j) ==
    /\ runStage[j] = "step"
    /\ IF left[j] = {} THEN runStage' = [runStage EXCEPT ![j] = "ending"] /\ UNCHANGED seasonRows
       ELSE IF j \in stopped THEN runStage' = [runStage EXCEPT ![j] = "catching"] /\ UNCHANGED seasonRows
       ELSE /\ runStage' = [runStage EXCEPT ![j] = "collecting"]
            /\ seasonRows' = [seasonRows EXCEPT ![j][Next1(j)] = "running"]
    /\ UNCHANGED <<runRows, unassessed, active, left, changes, stopped, cancelling, noticeServer, noticeCrashes>>

\* collect() and importSeason(): the season has changed, or not.
ImportRun(j) ==
    /\ runStage[j] = "collecting"
    /\ \E changed \in BOOLEAN :
          LET s == Next1(j)
          IN  /\ seasonRows' = [seasonRows EXCEPT ![j][s] = IF changed THEN "succeeded" ELSE "no_change"]
              /\ changes' = [changes EXCEPT ![j] = @ \/ changed]
              /\ unassessed' = IF changed THEN unassessed \cup {s} ELSE unassessed
              /\ IF s \in unassessed'
                 THEN runStage' = [runStage EXCEPT ![j] = "assessing"] /\ UNCHANGED left
                 ELSE runStage' = [runStage EXCEPT ![j] = "step"] /\ left' = [left EXCEPT ![j] = @ \ {s}]
    /\ UNCHANGED <<runRows, active, stopped, cancelling, noticeServer, noticeCrashes>>

\* assessSeason()
AssessRun(j) ==
    /\ runStage[j] = "assessing"
    /\ unassessed' = unassessed \ {Next1(j)}
    /\ left' = [left EXCEPT ![j] = @ \ {Next1(j)}]
    /\ runStage' = [runStage EXCEPT ![j] = "step"]
    /\ UNCHANGED <<runRows, seasonRows, active, changes, stopped, cancelling, noticeServer, noticeCrashes>>

\* The finally of launch().
Released(j) ==
    /\ runStage' = [runStage EXCEPT ![j] = "none"]
    /\ active' = [active EXCEPT ![j] = {}]
    /\ stopped' = stopped \ {j}

EndRun(j) ==
    /\ runStage[j] = "ending"
    /\ runRows' = [runRows EXCEPT ![j] = IF changes[j] THEN "succeeded" ELSE "no_change"]
    /\ Released(j)
    /\ UNCHANGED <<seasonRows, unassessed, left, changes, cancelling, noticeServer, noticeCrashes>>

\* Anything in the try throws.
ThrowRun(j) ==
    /\ runStage[j] \in {"collecting", "assessing", "ending"}
    /\ runStage' = [runStage EXCEPT ![j] = "catching"]
    /\ UNCHANGED <<noticeRows, active, left, changes, stopped, cancelling, noticeServer, noticeCrashes>>

\* job.seasons[job.completedSeasons]: as many seasons come before it as have ended.
CurrentSeasons(j) ==
    {s \in SeasonsOf[j] : Cardinality({t \in SeasonsOf[j] : t < s})
                            = Cardinality({t \in SeasonsOf[j] : seasonRows[j][t] \in SeasonEnded})}

\* The catch: markSeasonFailed(), then finishJob().
CatchRun(j) ==
    /\ runStage[j] = "catching"
    /\ seasonRows' = [seasonRows EXCEPT ![j] =
                         [s \in SeasonsOf[j] |-> IF s \in CurrentSeasons(j) THEN "failed" ELSE @[s]]]
    /\ runStage' = [runStage EXCEPT ![j] = IF j \in stopped THEN "cancelled" ELSE "failing"]
    /\ UNCHANGED <<runRows, unassessed, active, left, changes, stopped, cancelling, noticeServer, noticeCrashes>>

FailRun(j) ==
    /\ runStage[j] \in {"failing", "cancelled"}
    /\ runRows' = [runRows EXCEPT ![j] = IF runStage[j] = "failing" THEN "failed" ELSE "cancelled"]
    /\ Released(j)
    /\ UNCHANGED <<seasonRows, unassessed, left, changes, cancelling, noticeServer, noticeCrashes>>

-----------------------------------------------------------------------------
(* cancel() and close() *)

MayBeCancelled(status) == status \in {"queued", "running"}

\* cancel() asks for a job that runs, marks its row, which may have ended by then,
\* and aborts the signal.
CancelRun(j) ==
    /\ noticeServer = "up" /\ cancelling[j] = "no" /\ j \in Executing \ stopped
    /\ cancelling' = [cancelling EXCEPT ![j] = "asked"]
    /\ UNCHANGED <<noticeRows, runStage, active, left, changes, stopped, noticeServer, noticeCrashes>>

MarkCancelled(j) ==
    /\ noticeServer \in {"up", "closing"} /\ cancelling[j] = "asked"
    /\ runRows' = [runRows EXCEPT ![j] = IF MayBeCancelled(@) THEN "cancelling" ELSE @]
    /\ cancelling' = [cancelling EXCEPT ![j] = "marked"]
    /\ UNCHANGED <<seasonRows, unassessed, runStage, active, left, changes, stopped, noticeServer, noticeCrashes>>

AbortRun(j) ==
    /\ noticeServer \in {"up", "closing"} /\ cancelling[j] = "marked"
    /\ stopped' = IF j \in Executing THEN stopped \cup {j} ELSE stopped
    /\ cancelling' = [cancelling EXCEPT ![j] = "no"]
    /\ UNCHANGED <<noticeRows, runStage, active, left, changes, noticeServer, noticeCrashes>>

CloseRuns ==
    /\ noticeServer = "up"
    /\ noticeServer' = "closing"
    /\ stopped' = stopped \cup Executing
    /\ UNCHANGED <<noticeRows, runStage, active, left, changes, cancelling, noticeCrashes>>

\* close() waits for the jobs it has aborted; one that create() launches after
\* that runs on.
RunsClosed ==
    /\ noticeServer = "closing" /\ Executing \cap stopped = {}
    /\ noticeServer' = "closed"
    /\ UNCHANGED <<noticeRows, noticeLocals, noticeCrashes>>

-----------------------------------------------------------------------------
(* The process *)

\* A crash, the exit after close(), or a rejection nobody handles: of
\* setJobRunning() or of a query in the catch.
CrashRuns ==
    /\ noticeServer \notin {"down", "refused"} /\ noticeCrashes < MaxNoticeCrashes
    /\ noticeServer' = "down" /\ noticeCrashes' = noticeCrashes + 1
    /\ runStage' = [j \in NoticeJob |-> "none"]
    /\ active' = [j \in NoticeJob |-> {}] /\ left' = active'
    /\ changes' = [j \in NoticeJob |-> FALSE]
    /\ stopped' = {} /\ cancelling' = [j \in NoticeJob |-> "no"]
    /\ UNCHANGED noticeRows

\* resumableJobs(): of the interrupted runs those with seasons left are launched,
\* the others end as if nothing had failed; what was being cancelled is cancelled.
Interrupted == {j \in NoticeJob : runRows[j] \in {"queued", "running"}}
SeasonsLeft(j) == {s \in SeasonsOf[j] : seasonRows[j][s] \in {"queued", "running"}}
Resumed == {j \in Interrupted : SeasonsLeft(j) # {}}
HasImported(j) == \E s \in SeasonsOf[j] : seasonRows[j][s] = "succeeded"

\* Mutant: what was imported before the restart is forgotten.
HadChangesForgotten(j) == FALSE

HadChanges(j) == HasImported(j)

RestartRuns ==
    /\ noticeServer = "down"
    /\ runRows' = [j \in NoticeJob |->
          CASE j \in Interrupted \ Resumed   -> IF HasImported(j) THEN "succeeded" ELSE "no_change"
            [] runRows[j] = "cancelling"     -> "cancelled"
            [] OTHER                         -> runRows[j]]
    /\ seasonRows' = [j \in NoticeJob |-> [s \in SeasonsOf[j] |->
          IF j \in Interrupted /\ seasonRows[j][s] = "running" THEN "queued" ELSE seasonRows[j][s]]]
    /\ IF \E i, j \in Resumed : i # j /\ SeasonsLeft(i) \cap SeasonsLeft(j) # {}
       THEN noticeServer' = "refused" /\ UNCHANGED <<runStage, active, left, changes>>
       ELSE /\ noticeServer' = "up"
            /\ runStage' = [j \in NoticeJob |-> IF j \in Resumed THEN "starting" ELSE "none"]
            /\ active' = [j \in NoticeJob |-> IF j \in Resumed THEN SeasonsLeft(j) ELSE {}]
            /\ left' = active'
            /\ changes' = [j \in NoticeJob |-> j \in Resumed /\ HadChanges(j)]
    /\ UNCHANGED <<unassessed, stopped, cancelling, noticeCrashes>>

-----------------------------------------------------------------------------
NoticeJobsNext ==
    \/ \E j \in NoticeJob :
          \/ CreateRun(j) \/ InsertRun(j) \/ LaunchRun(j) \/ StartRun(j) \/ NextSeason(j)
          \/ ImportRun(j) \/ AssessRun(j) \/ EndRun(j) \/ ThrowRun(j) \/ CatchRun(j) \/ FailRun(j)
          \/ CancelRun(j) \/ MarkCancelled(j) \/ AbortRun(j)
    \/ CloseRuns \/ RunsClosed \/ CrashRuns \/ RestartRuns

NoticeJobsSpec == NoticeJobsInit /\ [][NoticeJobsNext]_noticeVars

-----------------------------------------------------------------------------
(* Properties *)

\* Two jobs never collect one season at once, for their imports would take turns.
SeasonsAreApart == \A i, j \in NoticeJob : i # j => active[i] \cap active[j] = {}

\* A job that ends without an error has every season imported, and "no_change"
\* says that none of them was new, also when it was interrupted in between.
EndIsTold(j) ==
    LET ends == {seasonRows[j][s] : s \in SeasonsOf[j]}
    IN  /\ runRows[j] = "no_change" /\ "failed" \notin ends => ends = {"no_change"}
        /\ runRows[j] = "succeeded" /\ "failed" \notin ends =>
              "succeeded" \in ends /\ ends \subseteq {"succeeded", "no_change"}

NoticeJobsAreTold == SeasonsAreApart /\ \A j \in NoticeJob : EndIsTold(j)

\* A row that has ended keeps its status, whatever is cancelled or resumed late.
EndedRunsStay ==
    [][\A j \in NoticeJob : runRows[j] \in RunEnded => runRows'[j] = runRows[j]]_noticeVars

=============================================================================
