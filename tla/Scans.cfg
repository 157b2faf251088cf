SPECIFICATION MCSpec
CONSTANTS
    s1 = s1 s2 = s2 c1 = c1 c2 = c2 f1 = f1 f2 = f2 r1 = r1 r2 = r2
    v1 = v1 v2 = v2
    Scans = {s1, s2}
    QueueCap = 2
    Clicks = {"read", "dismiss", "read_all", "dismiss_read", "link", "unlink"}
    MaxClicks = 1
    MaxTroubles = 1
    Codes = {c1, c2}
    Numeric = {c1}
    Foods = {f1, f2}
    Requests = {r1, r2}
    MaxEdits = 2
    Slots = {r1, r2}
    Interval = 3
    Slack = 1
    Life = 1
    OnlineFor = 9
    Throttle = 1
    Configs = {v1, v2}
    MaxScans = 1
    MaxMisses = 1
    MaxStops = 1
    MaxPlugs = 1
    MaxSaves = 1
    one = one two = two long = long k1 = k1 k2 = k2 a = a capA = capA b = b
    Labels = {one, two, long} KeysOf <- MCKeys DraftsOf <- MCDrafts
    Normal <- MCNormal Shifted <- MCShifted KeySettings <- MCSettings
    MaxLength = 3
    Cap = 2
    MaxLabels = 2
    MaxLosses = 2
    MaxRefreshes = 1
SYMMETRY Alike
INVARIANTS FeedKept NoneStuck LiveFeed LinksCorrect ScannerCorrect
PROPERTY ScansObeyLinks
CHECK_DEADLOCK FALSE
