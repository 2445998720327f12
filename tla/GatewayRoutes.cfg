SPECIFICATION Spec
CONSTANTS
    h = h
    Handlers <- MCHandlers
    Watch = Watch
    Fsm = Fsm
    Requests = {r}
    Patterns <- MCPatterns
    Paths <- MCPaths
    MaxProxies = 2
    MaxMaps = 2
    Nil = Nil
INVARIANTS
    TypeOK
    
    LongestCalmPattern
    SignalHasReceiver
    
CHECK_DEADLOCK FALSE
