------------------------------- MODULE MCServices -------------------------------
\* Instances of the caches, the job managers and the record corrections of the
\* server, of the game compiler, of the corrections of a ledger and of the migration
\* of a workspace.  They share no state, so one run checks them side by side: `part`
\* says which of them moves.
EXTENDS BoundedReadCache, WorkspaceCatalog, CollectionResults, CollectionHistories,
        CollectionJobs, RecordCorrectionJobs, RecordCorrectionCases,
        GameCompiler, LedgerCorrections, WorkspaceMigration

VARIABLE part

MCJobOf == [s \in Save |-> IF s = 3 THEN 2 ELSE 1]
MCGameOf == [s \in Save |-> s]
MCRecordedAs == [s \in Record |-> IF s = 2 THEN 2 ELSE 1]

\* The third request is the first one again, with another scope.
MCKey == [j \in CollectionJob |-> IF j = 2 THEN 2 ELSE 1]
MCScope == [j \in CollectionJob |-> CASE j = 1 -> "game_ids" [] j = 2 -> "selection" [] OTHER -> "date_range"]
MCTarget == [j \in CollectionJob |-> IF j = 1 THEN 2 ELSE 1]

\* The second request is for the season of the first one and another.
MCSeasonsOf == [j \in NoticeJob |-> IF j = 2 THEN {21, 22} ELSE {21}]
MCKeyOf == [j \in NoticeJob |-> IF j = 2 THEN 2 ELSE 1]

MCHitters == [s \in Side |-> IF s = "away" THEN 1 .. 5 ELSE 11 .. 15]
MCPitchers == [s \in Side |-> IF s = "away" THEN {6, 7} ELSE {16, 17}]

\* Two files with one document, and a third; the runs select the second.
MCAuthority == <<"quarantine", "staging", "source_failure">>
MCDocument == <<"first", "first", "failure">>
MCFindings == <<"few", "many", "none">>
MCResolution == [r \in Run |-> 2]

\* A pitch of the first of two plate appearances, and its flight, which was sent twice.
MCCollected ==
    {[order |-> <<"first_batter", "second_batter", "throw">>,
      kind |-> [row \in Row |->
                  CASE row \in {"first_batter", "second_batter"} -> "batter_start"
                    [] row = "throw" -> "pitch" [] OTHER -> "none"],
      tracking |-> [c \in Tracking |->
                      [resolution |-> IF c = "flight" THEN LinkedTo("throw") ELSE DuplicateOf("flight"),
                       plateAppearance |-> "first_batter"]]]}

allVars == <<cacheVars, catalogVars, resultVars, historyVars, collectionVars, noticeVars,
             caseVars, gameVars, ledgerVars, migrationVars>>

MCInit ==
    /\ part \in {"cache", "catalog", "results", "histories", "collection", "notices", "cases",
                "game", "corrections", "migration"}
    /\ CacheInit /\ CatalogInit /\ ResultsInit /\ HistoriesInit
    /\ CollectionInit /\ NoticeJobsInit /\ CasesInit
    /\ GameInit /\ LedgerInit /\ MigrationInit
    /\ part # "migration" => legacy = {} /\ manifest = Absent

\* One part takes a step, the others keep what they have.
MCNext ==
    /\ UNCHANGED part
    /\ IF part = "cache" THEN CacheNext ELSE UNCHANGED cacheVars
    /\ IF part = "catalog" THEN CatalogNext ELSE UNCHANGED catalogVars
    /\ IF part = "results" THEN ResultsNext ELSE UNCHANGED resultVars
    /\ IF part = "histories" THEN HistoriesNext ELSE UNCHANGED historyVars
    /\ IF part = "collection" THEN CollectionNext ELSE UNCHANGED collectionVars
    /\ IF part = "notices" THEN NoticeJobsNext ELSE UNCHANGED noticeVars
    /\ IF part = "cases" THEN CasesNext ELSE UNCHANGED caseVars
    /\ IF part = "game" THEN GameNext ELSE UNCHANGED gameVars
    /\ IF part = "corrections" THEN LedgerNext ELSE UNCHANGED ledgerVars
    /\ IF part = "migration" THEN MigrationNext ELSE UNCHANGED migrationVars

MCSpec == MCInit /\ [][MCNext]_<<part, allVars>>

-----------------------------------------------------------------------------
\* What is said of a part is evaluated where it moves: elsewhere it is as it began.

\* The read cache keeps its bounds; the index of the games and what the collection
\* workspace keeps in memory show what is on disk.
CachesHold ==
    /\ part = "cache" => CacheIsBounded
    /\ part = "catalog" => CatalogIsCurrent
    /\ part = "results" => ResultsShowDisk
    /\ part = "histories" => HistoriesShowDisk

\* What a collection and a run of record corrections report is what they did.
JobsAreTold ==
    /\ part = "collection" => CollectionIsTold
    /\ part = "notices" => NoticeJobsAreTold

\* How a run ended and what a reviewer decided are not taken back.
EndsStand == EndedRunsStay /\ DecisionsStand

\* What the compiler makes of a ledger is accounted for.
GameIsKept ==
    part = "game" => RunnersAreKept /\ RunsAreCharged /\ StrikeoutsAreOwed /\ OrderDecidesNothing

=============================================================================
