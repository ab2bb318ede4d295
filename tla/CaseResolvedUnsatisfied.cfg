CONSTANTS
    Assessor = {1}
    MaxContents = 2
    MaxSources = 2
    MaxRevisions = 2
    MaxVersions = 4
SPECIFICATION CasesSpec
INVARIANTS ResolvedIsSatisfied
CHECK_DEADLOCK FALSE
