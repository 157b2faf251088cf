SPECIFICATION FairSpec
CONSTANTS
    c1 = c1 c2 = c2 c3 = c3 s1 = s1 s2 = s2
    NoConn = NoConn
    MaxScans = 2
    OutboxCap = 1
    Conns = {c1, c2}
    Slots = {s1}
    MaxOtherScans = 0
    Faults <- AllFaults
    MaxFaults = 1
INVARIANT NeverForgotten
PROPERTY EventuallyDelivered
