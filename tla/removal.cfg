SPECIFICATION Spec
CONSTANTS
    Procs = {p1, p2}
    Paths = {a, b}
    Uuids = {u1, u2}
    Inodes = {i1, i2, i3}
    Contents = {c1, c2, torn}
    Torn = torn
    None = none
    Linkable = {a}
    SameDevice = {a}
    Faults = {"discard", "remove"}
    Edits = {"write", "create", "unlink", "rename"}
    MaxEdits = 2
    Shut = {"stat", "rehash", "unlink"}
SYMMETRY Symmetry
CHECK_DEADLOCK FALSE
INVARIANTS
    TypeOK
    RemovalCovered
