SPECIFICATION MCSpec
CONSTANTS
    j1 = j1 j2 = j2 j3 = j3 d1 = d1
    p1 = p1 p2 = p2 User = User
    Jobs = {j1, j2, j3}
    Direct = {d1}
    NoOne = NoOne
    Pages = 2
    QueueSize = 2
    MaxHistory = 1
    Faults = {"refused", "slow", "disk", "memory", "database", "crash"}
    MaxFaults = 1
    MaxToggles = 1
    Polls = {p1, p2}
    MaxClicks = 2
    MaxDrops = 2
INVARIANT JobsCorrect
PROPERTIES EveryJobFinishes Reconnects
CHECK_DEADLOCK FALSE
