SPECIFICATION FairSpec
CONSTANTS
    Elem = {d}
    Default = d
    Unwritten = Unwritten
    Capacity = 2
    W = 2
    MASK = TRUE
    Reader = {r1, r2}
INVARIANTS SharesKeepCells
PROPERTIES SealReachesMask
CHECK_DEADLOCK FALSE
