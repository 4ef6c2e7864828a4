SPECIFICATION PartsSpec
CONSTANTS
    e1 = e1
    e2 = e2
    g1 = g1
    Entries = {e1, e2}
    Threads <- TwoProcesses
    EntryOf <- MCEntryOf
    Pages = {p1}
    Gens = {g1, g2}
    Inodes = {i1, i2}
    None = None
    Torn = Torn
    MaxOpens = 2
    MaxFaults = 0
    MaxCrashes = 1
    MaxUnlinks = 1
    MaxPunches = 0
    MaxMarks = 0
INVARIANTS ServedOrigin OwnGeneration SidecarHolds
PROPERTY CommitsApply
SYMMETRY Symmetric
CHECK_DEADLOCK FALSE
