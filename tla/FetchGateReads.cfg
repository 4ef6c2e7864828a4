SPECIFICATION FairSpec
CONSTANTS
    r1 = r1
    v1 = v1
    f1 = f1
    f2 = f2
    p1 = p1
    p2 = p2
    h1 = h1
    h2 = h2
    Reads = {r1}
    VReads = {v1}
    Fills = {f1, f2}
    Pages = {p1, p2}
    Handles = {h1, h2}
    Want <- MCWant
    HandleOf <- MCHandleOf
    MaxParks = 2
    MaxDrops = 1
INVARIANTS   CloseKeepsFetched
 
CHECK_DEADLOCK FALSE
