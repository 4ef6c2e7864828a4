SPECIFICATION PartsSpec
CONSTANTS
    Parts = {"store", "layouts"}
    h1 = h1
    h2 = h2
    h3 = h3
    j1 = j1
    j2 = j2
    c1 = c1
    c2 = c2
    Procs = {p1, p2}
    Slots = {1, 2}
    Inodes = {n1, n2}
    None = None
    MaxUnits = 7
    MaxCommits = 3
    MaxTorn = 1
    MaxDrops = 1
INVARIANTS CommittedStays CommitsSeen LayoutsAgree ViewsHold
SYMMETRY Symmetric
CHECK_DEADLOCK FALSE
