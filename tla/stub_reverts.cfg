\* A directory stub, a pull killed after clone_root, a push.
SPECIFICATION Spec
SYMMETRY MCSymmetry
CONSTANTS
    f = f
    d = d
    v = v
    w = w
    Absent = Absent
    Broken = Broken
    Paths = {f, d}
    Dirs = {d}
    Contents = {v, w}
    Torn = FALSE
    MaxEdits = 2
    MaxKills = 1
    MaxLosses = 0
INVARIANT RevertsNothing
CHECK_DEADLOCK FALSE
