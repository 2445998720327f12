SPECIFICATION Spec
CONSTANTS
    p1 = p1
    p2 = p2
    l1 = l1
    l2 = l2
    r1 = r1
    r2 = r2
    a1 = a1
    Default = Default
    NoLimiter = NoLimiter
    Paths <- TwoPaths
    Limits <- TwoLimits
    Requests <- TwoRequests
    Handlers <- OneHandler
    MaxLog = 3
    MaxRestarts = 1
SYMMETRY Symmetry
INVARIANT TypeOK
INVARIANT LoggedLimitInForce
INVARIANT LimitersReproduce
