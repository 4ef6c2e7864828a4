SPECIFICATION PartsSpec
CONSTANTS
    w1 = w1
    w2 = w2
    r1 = r1
    r2 = r2
    None = None
    Runs = {1, 2}
    Slots = {1, 2}
    Kept = {2}
    Workers = {w1, w2}
    CommitBytes = 1
    PendingCap = 1
    TransientBytes = 1
    TransientCap = 1
    Casts <- MCCasts
INVARIANTS ReadyAndCounted ExitDrains
PROPERTIES CommitsDrain RequestsAnswered
CHECK_DEADLOCK FALSE
