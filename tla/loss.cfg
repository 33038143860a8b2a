SPECIFICATION Spec
CONSTANTS
    Procs = {p1, p2}
    Paths = {a, b}
    Uuids = {u1, u2}
    Inodes = {i1, i2, i3}
    Contents = {c1, c2, torn}
    Torn = torn
    None = none
    Linkable = {a}
    SameDevice = {a}
    Faults = {"crash", "copy", "discard", "unlink", "clear", "rename", "consume", "mark"}
    Edits = {"write"}
    MaxEdits = 1
    Shut = {"stat", "rehash", "unlink", "discard", "move", "consume"}
SYMMETRY Symmetry
CHECK_DEADLOCK FALSE
INVARIANTS
    RestoredWasGivenBack
PROPERTIES
    LossIsAskedFor
    FailedRestoreKeepsEntry
    KeepsRecords
