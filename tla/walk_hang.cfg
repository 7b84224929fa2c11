CONSTANTS
    Workers = {w1, w2}
    NoThread = NoThread
    NoItem = NoItem
    tree = tree
    dir = dir
    blob = blob
    Nodes <- MCNodes
    Roots <- MCRoots
    Children <- MCChildren
    MayFail <- MCNone
    MayPrune <- MCNone
    Loops = {"child_worker_loop"}
    MaxSpurious = 0
SPECIFICATION FairSpec
PROPERTIES Terminates
CHECK_DEADLOCK FALSE
