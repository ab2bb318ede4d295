CONSTANTS
    d1 = d1
    d2 = d2
    d3 = d3
    f1 = f1
    Operation = {o1, o2}
    Startup = startup
    Document = {d1, d2}
    Failure = {f1}
    Blocking <- MCBlocking
    WithFindings <- MCWithFindings
    DocumentHash <- MCDocumentHash
    Kinds = {"collect", "fail", "import", "reopen", "ensure", "correct", "restore"}
    JournalId = {j1, j2, j3}
    MaxConcurrentJobs = 1
    MaxGeneration = 5
    MaxStarts = 3
    MaxCrashes = 1
    MaxFaults = 1
    None = None
SPECIFICATION Spec
INVARIANTS CurrentResolves SupersededRestorable LedgerHasOriginal
PROPERTIES LedgerSpec SaveReplacesItsToken
SYMMETRY MCSymmetry
CHECK_DEADLOCK FALSE
