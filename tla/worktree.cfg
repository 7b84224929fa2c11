CONSTANTS
    P = P
    Names = {n1}
    Content = {a, b}
    Big = {b}
    None = None
    MaxEdits = 2
    MaxPublishes = 1
SPECIFICATION Spec
INVARIANTS CleanTreeIsSynced RestoreIsExact
PROPERTIES EditsSurvive StubsAreInvisible
CHECK_DEADLOCK FALSE
CONSTRAINT NothingLost
