SPECIFICATION FairSpec
CONSTANTS
    Requests = {r1, r2}
    Slots = {1, 2}
    Want <- AllWanted
    Original = {}
    MaxFails = 2
    MaxDrops = 0
    MaxApplies = 0
PROPERTY RequestsAnswered
CHECK_DEADLOCK FALSE
