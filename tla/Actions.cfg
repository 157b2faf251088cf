SPECIFICATION FairSpec
CONSTANTS
    a1 = a1 e1 = e1 e2 = e2
    Actions = {a1}
    Runs = {e1, e2}
    ActionOf <- OneAction
    Forced = {}
    PolicyOf <- NetworkOr5xx
    Retries = 1
    Cooldown = 1
    OldRows <- OldResults
    BatchSize = 2
    Retention = 0
    MaxTime = 2
    MaxEdits = 2
    MaxFaults = 1
INVARIANTS StatsAreExact CallsCorrect
PROPERTY EveryRunReturns
CHECK_DEADLOCK FALSE
