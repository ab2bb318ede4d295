CONSTANTS
    g1 = g1
    g2 = g2
    b1 = b1
    b2 = b2
    b3 = b3
    t1 = t1
    t2 = t2
    first = first
    other = other
    second = second
    rival = rival
    return = return
    rematch = rematch
    Client = {c1, c2}
    Game = {g1, g2}
    Document = {first, other, second, rival, return, rematch}
    Bundle = {b1, b2, b3}
    Season = season
    Team = {t1, t2}
    Player = {1, 2, 3}
    Ledger <- MCLedger
    MaxImports = 3
    MaxLost = 1
    None = None
    Failed = Failed
SPECIFICATION FairSpec
INVARIANTS AnsweredIsSealed CatalogIsShared
PROPERTIES ChainSpec ImportsEnd
CHECK_DEADLOCK FALSE
