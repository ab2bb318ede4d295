CONSTANTS
    d1 = d1
    d2 = d2
    Client = {c1, c2}
    Session = {s1, s2}
    Document = {d1, d2}
    Blocking = {d2}
    Limit = 1
    MaxVersion = 3
    MaxWrites = 1
    None = None
SPECIFICATION Spec
INVARIANTS HistoryIsConnected RoomAndBaseHold MutexIsPassedOn
PROPERTIES StaleChangesNothing EditsAreKept
SYMMETRY MCSymmetry
CHECK_DEADLOCK FALSE
