SPECIFICATION MCSpec
CONSTANTS
    c1 = c1 f1 = f1 f2 = f2 n1 = n1 n2 = n2 b1 = b1 b2 = b2 q1 = q1 q2 = q2
    k1 = k1 k2 = k2 v1 = v1 v2 = v2 low = low wrong = wrong
    Codes = {c1}
    Foods = {f1, f2}
    MaxWrites = 3
    MaxStarts = 2
    Names = {n1, n2}
    Browsers = {b1, b2}
    Slots = {q1, q2}
    MaxRequests = 5
    Keys = {k1, k2}
    Raws = {v1, v2, low, wrong}
    Values = {v1, v2}
    Clamp <- MCClamp
    Bad = bad
    MaxForms = 3
    d1 = d1 d2 = d2 g1 = g1 g2 = g2
    Bars = {d1, d2}
    Goals = {g1, g2}
    Retention = 0
    PurgeBatch = 1
    MaxOld = 2
    MaxScans = 1
    MaxRemovals = 1
    MaxFaults = 2
    MaxTime = 1
SYMMETRY Alike
INVARIANTS DatabaseCorrect AccountsCorrect SettingsCorrect ScanStatsCorrect
PROPERTIES RestartsKeep RightsCurrent
CHECK_DEADLOCK FALSE
