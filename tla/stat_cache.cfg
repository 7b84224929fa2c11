CONSTANTS
    Paths = {1, 2}
    Contents = {c, d}
    None = None
    Pending = Pending
    Granularity = 1
    Racy = 1
    Sample = 1
    PushScopes = {{1}, {1, 2}}
    ListScopes = {{2}}
    MaxTime = 1
    MaxEdits = 1
    MaxPushes = 2
    MaxLists = 1
    MaxLosses = 1
SYMMETRY MCSymmetry
SPECIFICATION Spec
INVARIANTS ReadHitIsTrue SealsHonest RetrySucceeds
CHECK_DEADLOCK FALSE
