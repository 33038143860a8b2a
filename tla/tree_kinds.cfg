SPECIFICATION Spec
CONSTANTS
    r = r
    d = d
    f = f
    g = g
    Paths <- Paths4
    Root = r
    Parent <- Parent4
    Above <- Above4
    Order <- Order4
    Contents = {torn}
    Torn = torn
    Targets = {t1, t2, broken}
    Broken = broken
    Dir = dir
    None = none
    Faults = {}
    MaxEdits = 1
SYMMETRY Symmetry
CHECK_DEADLOCK FALSE
INVARIANTS
    TreeCovered
