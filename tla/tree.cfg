SPECIFICATION Spec
CONSTANTS
    r = r
    d = d
    f = f
    g = g
    Paths <- Paths4
    Root = r
    Parent <- Parent4
    Above <- Above4
    Order <- Order4
    Contents = {c1, c2, torn}
    Torn = torn
    Targets = {t1, t2, broken}
    Broken = broken
    Dir = dir
    None = none
    Faults = {"write", "tar", "insert", "discard", "remove", "clear", "extract", "consume", "mark"}
    MaxEdits = 2
SYMMETRY Symmetry
CHECK_DEADLOCK FALSE
INVARIANTS
    TypeOK
    FilesCovered
    RestoredIsWhole
PROPERTIES
    RollbackIsExact
    ForeignSurvives
    KeepsRecord
