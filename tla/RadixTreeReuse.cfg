SPECIFICATION TreeSpec
CONSTANTS
    p1 = p1
    W = 2
    Networks <- HostNets
    Workers <- Worker
    MaxNodes = 7
    MaxOps = 5
CHECK_DEADLOCK FALSE
INVARIANT SearchFindsListed
