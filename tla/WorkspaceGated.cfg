CONSTANTS
    d1 = d1
    d2 = d2
    d3 = d3
    f1 = f1
    Operation = {o1, o2}
    Startup = startup
    Document = {d1, d2, d3}
    Failure = {f1}
    Blocking = {d3}
    WithFindings <- MCWithFindings
    DocumentHash <- MCDocumentHash
    Kinds = {"collect", "fail", "import"}
    JournalId = {j1, j2}
    MaxConcurrentJobs = 2
    MaxGeneration = 5
    MaxStarts = 4
    MaxCrashes = 2
    MaxFaults = 0
    None = None
SPECIFICATION Spec
INVARIANTS WorkspaceReopens OriginalComplete
PROPERTIES OriginalWrittenOnce ImportRemovesItsLedger
SYMMETRY MCSymmetry
CHECK_DEADLOCK FALSE
