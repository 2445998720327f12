SPECIFICATION Spec
CONSTANTS
    a = a
    m1 = m1
    m2 = m2
    Items <- MCItems
    Methods <- MCMethods
    Typed <- MCTyped
    Earlier = {}
    RoundedDown <- MCRoundedDown
    Second = 1000000000
    Millisecond = 1000000
    HugeSpeed = 2147483647
    MaxRequests <- MCMaxRequests
    None = None
INVARIANT
    TimeoutInMilliseconds
CHECK_DEADLOCK FALSE
