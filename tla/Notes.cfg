SPECIFICATION MCSpec
CONSTANTS
    r1 = r1 r2 = r2 q1 = q1
    t1 = t1 t2 = t2 t3 = t3 t4 = t4
    l1 = l1 l2 = l2 l3 = l3
    Routes = {r1, r2}
    Inline = {q1}
    Targets = {t1, t2, t3, t4}
    Lists = {l1, l2, l3}
    Kids <- RecipeKids
    Unroutable = {r2}
    Workers <- OneEach
    Pending <- QueueOfOne
    c1 = c1 c2 = c2 n1 = n1 n2 = n2
    Parts = {"notes"}
    Codes = {c1}
    Requests = {n1, n2}
    CodeOf <- OneCode
    MaxAttempts = 2
    Edits = {"food", "unlink", "pause", "buy"}
    MaxEdits = 2
    Faults = {"refused", "ambiguous", "no_id", "crash"}
    MaxFaults = 3
INVARIANT NoneForgotten
CHECK_DEADLOCK FALSE
