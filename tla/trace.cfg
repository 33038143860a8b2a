SPECIFICATION FairSpec
CONSTANTS
    Ids = {i1, i2}
    Hours = {1, 2, 3}
    Bad = bad
    None = none
    Absent = absent
    LongWinded = {i1}
    MaxAnomalies = 1
    MaxEdits = 1
CHECK_DEADLOCK FALSE
INVARIANTS
    TypeOK
    NoFalseDangling
    ChainIsAncestry
    CutIsExplained
PROPERTIES
    CaptureEnds
