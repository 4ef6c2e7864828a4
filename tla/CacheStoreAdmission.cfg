SPECIFICATION FairSpec
CONSTANTS
    a = a
    a1 = a1
    Keys = {k1, k2, k3}
    Procs = {a}
    Threads = {a1}
    Tools = {}
    ProcOf <- MCProcOf
    Casts = {{a1}}
    Objects = {o1}
    Config <- MCConfig
    Cleanups = {}
    DiskSize = 4
    None = None
    MaxAge = 1
    MaxWrites = 1
    MaxMarks = 1
PROPERTY AdmissionReopens
CHECK_DEADLOCK FALSE
