SPECIFICATION FairSpec
CONSTANTS
    Procs = {p1, p2}
    Uuids = {u1, u2}
    Ladder <- Ladder3
    MaxAttempts = 3
    None = none
INVARIANTS
    TypeOK
    VersionKeepsItsWord
    OpenedIsMigrated
    InsertTellsTheTruth
PROPERTIES
    OperationsEnd
