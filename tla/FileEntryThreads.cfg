SPECIFICATION Spec
CONSTANTS
    e1 = e1
    Entries = {e1}
    Threads <- TwoThreads
    EntryOf <- MCEntryOf
    Pages = {p1, p2}
    Gens = {g1}
    Inodes = {i1}
    None = None
    Torn = Torn
    MaxOpens = 1
    MaxFaults = 0
    MaxCrashes = 0
    MaxUnlinks = 0
    MaxPunches = 0
    MaxMarks = 0
INVARIANT SidecarWhole
CHECK_DEADLOCK FALSE
