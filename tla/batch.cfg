SPECIFICATION Spec
CONSTANTS
    a = a
    d = d
    f = f
    Paths = {a, d, f}
    Inside <- InsideD
    Batches <- Batches4
    Faults = {"start", "abs", "plan", "execute", "insert", "remove"}
    MaxEdits = 1
CHECK_DEADLOCK FALSE
INVARIANTS
    TypeOK
    ExitIsFirstFailure
    EveryPathIsAnswered
    TakenIsRecorded
    PreviewTouchesNothing
PROPERTIES
    AbortStops
