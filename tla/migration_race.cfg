SPECIFICATION Spec
CONSTANTS
    Procs = {p1, p2}
    Uuids = {u1}
    Ladder <- Ladder3
    MaxAttempts = 2
    None = none
INVARIANTS
    RacingMigrationsSucceed
