SPECIFICATION Spec
CONSTANTS
    Ids = {1, 2}
    Paths = {a}
    Sizes = {1, 4}
    Zones = {"home", "west"}
    OffsetIn <- Clocks
    Half = 4
    Counts = {2, 5}
    Ticks <- ShortUnits
    Bytes <- ShortSuffixes
    MaxNow = 5
    None = none
CHECK_DEADLOCK FALSE
INVARIANTS
    TypeOK
    StampsOrderInstants
    AgeIsKeptTo
    SizeIsKeptTo
