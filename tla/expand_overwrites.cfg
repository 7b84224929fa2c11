CONSTANTS
    P = P
    Names = {n1}
    Content = {a, b}
    Big = {b}
    None = None
    MaxEdits = 1
    MaxPublishes = 1
SPECIFICATION Spec
INVARIANT RealFileWins
CHECK_DEADLOCK FALSE
CONSTRAINT NothingLost
