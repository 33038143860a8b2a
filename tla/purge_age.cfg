SPECIFICATION Spec
CONSTANTS
    Ids = {1, 2}
    Paths = {a}
    Sizes = {1}
    Zones = {"east"}
    OffsetIn <- Clocks
    Half = 4
    Counts = {2}
    Ticks <- ShortUnits
    Bytes <- ShortSuffixes
    MaxNow = 5
    None = none
CHECK_DEADLOCK FALSE
INVARIANTS
    YoungerIsSpared
