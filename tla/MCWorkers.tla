------------------------------- MODULE MCWorkers -------------------------------
\* Instances of the pools and job queues of the server that share no state, so
\* one run checks them side by side: `part` says which of them moves.
EXTENDS ComputationPool, PitchClusteringWorkers, CoverageJobs, ModelJobs, CollectionJobs,
    CollectionDiscoveries, HttpTransport, WriterLock

VARIABLE part

MCChunks == [r \in Request |-> IF r = 1 THEN 2 ELSE 1]

\* The last process has the identifier of the first one.
MCPid(p) == IF p = 23 THEN 21 ELSE p

\* One collection of two games that are chosen.
MCKey == [j \in CollectionJob |-> j]
MCScope == [j \in CollectionJob |-> "selection"]
MCTarget == [j \in CollectionJob |-> 2]

MCInit ==
    /\ part \in {"pool", "fit", "coverage", "models", "collection", "discoveries", "http", "lock"}
    /\ PoolInit /\ FitInit /\ CoverageInit /\ ModelInit /\ CollectionInit
    /\ DiscoveryInit /\ HttpInit /\ LockInit
    /\ part # "discoveries" => keyOf = AllDiscoveries(FirstDiscovery)

\* One part takes a step, the others keep what they have.
MCNext ==
    /\ UNCHANGED part
    /\ IF part = "pool" THEN PoolNext ELSE UNCHANGED poolVars
    /\ IF part = "fit" THEN FitNext ELSE UNCHANGED fitVars
    /\ IF part = "coverage" THEN CoverageNext ELSE UNCHANGED coverageVars
    /\ IF part = "models" THEN ModelNext ELSE UNCHANGED modelVars
    /\ IF part = "collection" THEN CollectionNext ELSE UNCHANGED collectionVars
    /\ IF part = "discoveries" THEN DiscoveryNext ELSE UNCHANGED discoveryVars
    /\ IF part = "http" THEN HttpNext ELSE UNCHANGED httpVars
    /\ IF part = "lock" THEN LockNext ELSE UNCHANGED lockVars

\* A part that does not move has none of its fair actions enabled.
MCVars ==
    <<part, poolVars, fitVars, coverageVars, modelVars, collectionVars, discoveryVars, httpVars, lockVars>>
MCSpec ==
    /\ MCInit /\ [][MCNext]_MCVars
    /\ PoolFairness /\ FitFairness /\ CoverageFairness /\ ModelFairness
    /\ CollectionFairness /\ DiscoveryFairness /\ HttpFairness

\* Requests of the pool, calls of the clustering and tasks of the coverage are in one
\* place until they are answered, within their limits; one discovery explores at a time,
\* and one process writes.
CallsArePlaced ==
    PoolKeepsRequests /\ FitKeepsCalls /\ TasksArePlaced /\ DiscoveriesHold /\ WritersAreApart

\* Every request, call, task, job and discovery ends, and so does every close().
AllEnd ==
    /\ PoolAnswers /\ FitAnswers /\ TasksEnd /\ ModelJobsEnd /\ CollectionEnds
    /\ DiscoveriesEnd /\ RequestsEnd

=============================================================================
