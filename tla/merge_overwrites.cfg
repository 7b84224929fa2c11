CONSTANTS
    Clones = {a, b}
    Paths = {p}
    Hunks = {h, i}
    Vals = {v, w}
    LineMerge = {p}
    Absent = Absent
    NoMerge = NoMerge
    NoHelpers = NoHelpers
    Seed <- MCSeed
    Old = v
    MaxEdits = 3
    MaxCrashes = 0
SYMMETRY MCSymmetry
SPECIFICATION Spec
PROPERTIES MergeKeepsEdits
CHECK_DEADLOCK FALSE
