SPECIFICATION MCSpec
CONSTANTS
    l1 = l1 l2 = l2 r1 = r1 r2 = r2 fa = fa p1 = p1 p2 = p2
    t1 = t1 t2 = t2 t3 = t3 units = units labels = labels
    Lists = {l1, l2}
    Names <- MCNames
    KeyOf <- MCKeyOf
    Rows = {r1, r2}
    RowOf <- MCRowOf
    MaxEntries = 2
    Orders <- MCOrders
    Aliases <- MCAliases
    Slots = {p1, p2}
    MaxRequests = 3
    MaxCrossing = 2
    MaxChanges = 1
    Goods = {fa}
    Threads = {t1, t2}
    MaxQuantity = 2
    MaxAsks = 2
    MaxMoves = 1
    MaxFailures = 1
    CatalogNames = {units, labels}
    Readers = {t1, t2, t3}
    MaxReads = 3
    MaxEdits = 1
SYMMETRY Alike
INVARIANTS PrintsCorrect DashboardCorrect CacheCorrect CatalogsAdvance
PROPERTIES OrderKept
CHECK_DEADLOCK FALSE
