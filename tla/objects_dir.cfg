CONSTANTS
    Actors = {a, b}
    Processes = {p, q}
    Objects = {x, y, z}
    Threshold = 1
    NoActor = NoActor
    NoObject = NoObject
    MaxFailures = 1
SPECIFICATION MCSpec
INVARIANTS TypeOK NothingVanishes FoundUnlessMoved
PROPERTIES WriteReturns
