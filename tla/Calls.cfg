SPECIFICATION PartsSpec
CONSTANTS
    s1 = s1
    h1 = h1
    h2 = h2
    t1 = t1
    t2 = t2
    a = a
    c1 = c1
    c2 = c2
    a1 = a1
    None = None
    Shards = {s1}
    ShardOf <- MCShardOf
    ThreadsOf <- MCThreadsOf
    Baskets <- MCBaskets
    Fills <- MCFills
    ParseTries = 2
    BarrenFills = 2
    Depth = 1
    RamCap = 2
    GateMinIssued = 1
    MaxElems = 1
    Casts <- MCCasts
INVARIANTS DestroyedIsForgotten BreakerBalance 
PROPERTIES OpenFileKept CallsReturn
CHECK_DEADLOCK FALSE
