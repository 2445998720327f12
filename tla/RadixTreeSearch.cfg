SPECIFICATION TreeSpec
CONSTANTS
    p1 = p1
    W = 2
    Networks <- CanonicalNets
    Workers <- Worker
    MaxNodes = 7
    MaxOps = 5
CHECK_DEADLOCK FALSE
INVARIANT TreeTypeOK
 
 
