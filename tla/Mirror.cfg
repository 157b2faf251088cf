SPECIFICATION Spec
CONSTANTS
    f1 = f1
    f2 = f2
    n1 = n1
    n2 = n2
    u1 = u1
    u2 = u2
    c1 = c1
    s1 = s1
    s2 = s2
    r1 = r1
    r2 = r2
    Foods = {f1}
    Names = {n1, n2}
    Units = {u1}
    Codes = {c1}
    Syncs = {s1, s2}
    Requests = {r1}
    MaxOutside = 1
INVARIANT TargetsCorrect
PROPERTIES WritesMirror MirrorSettles
