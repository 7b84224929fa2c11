CONSTANTS
    Clients = {c1, c2}
    ra = ra
    rb = rb
    x = x
    y = y
    NoRoot = NoRoot
    Hashes <- MCHashes
    Roots <- MCRoots
    Children <- MCChildren
    Kind <- MCKind
    Prefix <- MCPrefix
    Prefixes <- MCPrefixes
    PackTarget = 2
    SmallPack = 2
    ShardLimit = 0
    MaxDeltas = 2
    MaxCommits = 4
SYMMETRY MCSymmetry
SPECIFICATION Spec
INVARIANTS TypeOK ReachableResolvable PublishedStaysResolvable BloomCoversIndex
CHECK_DEADLOCK FALSE
