CONSTANTS
    Clones = {a, b}
    Paths = {p, q}
    Hunks = {h, i}
    Vals = {v, w}
    LineMerge = {p}
    Absent = Absent
    NoMerge = NoMerge
    NoHelpers = NoHelpers
    Seed <- MCSeed
    Old = v
    MaxEdits = 2
    MaxCrashes = 1
SYMMETRY MCSymmetry
SPECIFICATION Spec
INVARIANTS TypeOK
PROPERTIES NoLostUpdate PushOnlyEdits PullKeepsEdits ResolutionRecorded
CHECK_DEADLOCK FALSE
