CONSTANTS
    Request = {1, 2, 3}
    Chunks <- MCChunks
    Worker = {11, 12}
    Concurrency = 2
    MaxQueued = 1
    MaxStops = 1
    Idle = 0
    Fit = {1, 2, 3}
    MaxActive = 2
    MaxWaiting = 1
    SourceKey = {1, 2, 3, 4, 5}
    MaxScopes = 2
    MaxTasks = 4
    ModelJob = {1, 2}
    ModelKind = {1, 2}
    MaxSources = 1
    MaxLostWrites = 1
    MaxModelCrashes = 1
    CollectionJob = {1}
    CollectionKey <- MCKey
    CollectionScope <- MCScope
    Target <- MCTarget
    MaxConcurrentJobs = 1
    MaxCollectionCrashes = 1
    Discovery = {1, 2}
    MaxFailedSaves = 1
    MaxDiscoveryCrashes = 1
    HttpRequest = {1, 2}
    MaxAttempts = 2
    RequestInterval = 2
    RequestTimeout = 1
    BaseBackoff = 1
    Process = {21, 22, 23}
    Pid <- MCPid
    NoLock = NoLock
SPECIFICATION MCSpec
INVARIANTS CallsArePlaced ModelJobsAreTold
PROPERTIES AllEnd DiscoveriesStand StartsAreSpaced
CHECK_DEADLOCK FALSE
