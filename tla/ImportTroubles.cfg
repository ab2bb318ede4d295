CONSTANTS
    g1 = g1
    g2 = g2
    first = first
    second = second
    third = third
    rival = rival
    other = other
    Game = {g1, g2}
    Document = {first, second, other}
    Ledger <- MCLedger
    Job = {1, 2}
    RequestKey = {k1}
    MaxConcurrent = 1
    MaxTroubles = 1
    MaxEdits = 1
    None = None
SPECIFICATION Spec
INVARIANTS SuccessIsTrue JobsAreRecorded
PROPERTIES EndsStay
CHECK_DEADLOCK FALSE
