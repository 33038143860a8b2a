SPECIFICATION Spec
CONSTANTS
    Procs = {p1}
    Paths = {a, b}
    Uuids = {u1}
    Inodes = {i1, i2, i3}
    Contents = {c1, c2, torn}
    Torn = torn
    None = none
    Linkable = {a}
    SameDevice = {a}
    Faults = {}
    Edits = {"write"}
    MaxEdits = 1
    Shut = {"rehash", "unlink"}
SYMMETRY Symmetry
CHECK_DEADLOCK FALSE
INVARIANTS
    RemovalCovered
