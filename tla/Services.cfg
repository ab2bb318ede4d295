CONSTANTS
    Key = {1, 2, 3}
    Load = {1, 2, 3}
    Size = {1, 2, 3}
    MaxBytes = 2
    MaxEntries = 2
    MaxAge = 1
    MaxTime = 1
    MaxClears = 1
    CatalogGame = {1, 2}
    CatalogCall = {1}
    BatchSize = 1
    MaxTransitions = 2
    KeptJob = {1, 2}
    Save = {1, 2, 3}
    Ask = {1}
    JobOf <- MCJobOf
    GameOf <- MCGameOf
    NoRows = NoRows
    MaxCachedJobs = 2
    MaxCachedRows = 2
    RecordedJob = {1, 2}
    Record = {1, 2}
    List = {1}
    RecordedAs <- MCRecordedAs
    NoHistories = NoHistories
    CollectionJob = {1, 2, 3}
    CollectionKey <- MCKey
    CollectionScope <- MCScope
    Target <- MCTarget
    MaxConcurrentJobs = 1
    MaxCollectionCrashes = 1
    NoticeJob = {1, 2}
    NoticeSeason = {21, 22}
    SeasonsOf <- MCSeasonsOf
    KeyOf <- MCKeyOf
    MaxNoticeCrashes = 1
    Assessor = {1}
    MaxContents = 2
    MaxSources = 2
    MaxRevisions = 2
    MaxVersions = 3
    Nobody = Nobody
    Hitters <- MCHitters
    Pitchers <- MCPitchers
    MaxHalves = 2
    MaxPitches = 4
    MaxChanges = 1
    MaxPlays = 3
    MaxRows = 2
    Row = {"first_batter", "second_batter", "throw", "added"}
    Tracking = {"flight", "resent"}
    Collected <- MCCollected
    Undefined = Undefined
    MaxCommands = 3
    Run = {"first_run", "second_run"}
    Path = {1, 2, 3}
    LegacyAuthority <- MCAuthority
    LegacyDocument <- MCDocument
    LegacyFindings <- MCFindings
    Resolution <- MCResolution
    Absent = Absent
    MaxServerSaves = 1
    MaxServerStarts = 2
SPECIFICATION MCSpec
INVARIANTS CachesHold JobsAreTold CasesAreSound  LinksStandOnPitches MigrationIsSound
PROPERTIES EndsStand  ContextsFollow MigrationLosesNothing
CHECK_DEADLOCK FALSE
