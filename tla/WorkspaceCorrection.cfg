CONSTANTS
    d1 = d1
    d2 = d2
    d3 = d3
    f1 = f1
    Operation = {o1, o2}
    Startup = startup
    Document = {d1, d2, d3}
    Failure = {}
    Blocking <- MCBlocking
    WithFindings <- MCWithFindings
    DocumentHash <- MCDocumentHash
    Kinds = {"correct", "restore"}
    JournalId = {j1, j2}
    MaxConcurrentJobs = 1
    MaxGeneration = 9
    MaxStarts = 3
    MaxCrashes = 2
    MaxFaults = 0
    None = None
SPECIFICATION FairSpec
INVARIANTS CorrectionCrashRecovers
PROPERTIES JournaledCorrectionSurvives WorkEnds
CHECK_DEADLOCK FALSE
