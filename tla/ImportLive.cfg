CONSTANTS
    g1 = g1
    g2 = g2
    first = first
    second = second
    third = third
    rival = rival
    other = other
    Game = {g1, g2}
    Document = {first, second, other}
    Ledger <- MCLedger
    Job = {1, 2}
    RequestKey = {k1}
    MaxConcurrent = 2
    MaxTroubles = 0
    MaxEdits = 1
    None = None
SPECIFICATION FairSpec
PROPERTIES JobsEnd
CHECK_DEADLOCK FALSE
