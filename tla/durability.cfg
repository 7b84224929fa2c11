\* A file and a directory, two contents, one kill and one power loss.
SPECIFICATION Spec
SYMMETRY MCSymmetry
CONSTANTS
    f = f
    d = d
    v = v
    w = w
    Absent = Absent
    Broken = Broken
    Paths = {f, d}
    Dirs = {d}
    Contents = {v, w}
    Torn = FALSE
    MaxEdits = 2
    MaxKills = 1
    MaxLosses = 1
INVARIANTS SealsAreStored RootsReadable PushesOnlyEdits
CHECK_DEADLOCK FALSE
