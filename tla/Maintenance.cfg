SPECIFICATION PartsSpec
CONSTANTS
    Parts = {"passes", "recompress", "publishing", "settings"}
    a = a
    b = b
    c = c
    a1 = a1
    a2 = a2
    b1 = b1
    c1 = c1
    p1 = p1
    p2 = p2
    u1 = u1
    u2 = u2
    v1 = v1
    e1 = e1
    e2 = e2
    q1 = q1
    q2 = q2
    q3 = q3
    i1 = i1
    i2 = i2
    i3 = i3
    i4 = i4
    i5 = i5
    Keys = {k1, k2}
    Procs = {a, b, c}
    Threads = {a1, a2, b1, c1}
    Tools = {c1}
    ProcOf <- MCProcOf
    Casts = {{a1, a2}, {a1, c1}, {a2, c1}, {b1}}
    Objects = {o1, o2}
    Config <- MCConfig
    Cleanups <- MCCleanups
    DiskSize = 4
    None = None
    MaxAge = 1
    MaxWrites = 1
    MaxMarks = 1
INVARIANTS EntriesShared TargetReached    
PROPERTY SparedSurvive
SYMMETRY Symmetric
CHECK_DEADLOCK FALSE
