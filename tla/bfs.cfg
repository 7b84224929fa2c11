CONSTANTS
    Workers = {w1, w2, w3}
    NoThread = NoThread
    NoItem = NoItem
    tree = tree
    dir = dir
    blob = blob
    Nodes <- MCNodes
    Roots <- MCRoots
    Children <- MCChildren
    MayFail <- MCDir
    MayPrune <- MCDir
    Loops = {"worker_loop", "child_worker_loop"}
    MaxSpurious = 1
SPECIFICATION FairSpec
INVARIANTS ExactlyOnce OutstandingCounts ExitMeansComplete
PROPERTIES WorkFinishes TerminatesUnlessFailed
CHECK_DEADLOCK FALSE
