SPECIFICATION PartsSpec
CONSTANTS
    Entries = {e1, e2}
    Threads = {t1, t2}
    Requests = {r1, r2, r3}
    NPages = 2
    Cap = 2
    TotalCap = 3
    Wrap = 16
    MaxOps = 3
    MaxFaults = 1
    MaxExtras = 1
    MaxReleases = 1
    None = None
INVARIANTS OnlyAskedWritten StageSound ClaimsSound
  
SYMMETRY Symmetric
CHECK_DEADLOCK FALSE
