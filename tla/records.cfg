SPECIFICATION FairSpec
CONSTANTS
    Procs = {p1, p2}
    Paths = {a, b}
    Uuids = {u1}
    Inodes = {i1, i2, i3}
    Contents = {c1, c2, torn}
    Torn = torn
    None = none
    Linkable = {a}
    SameDevice = {a}
    Faults = {"insert"}
    Edits = {"write"}
    MaxEdits = 1
    Shut = {}
CHECK_DEADLOCK FALSE
INVARIANTS
    NoOrphanEntry
    PurgedIsGone
    GoneIsHonest
PROPERTIES
    KeepsRecords
    CommandsEnd
    EntriesAreSettled
