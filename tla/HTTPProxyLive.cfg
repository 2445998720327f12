SPECIFICATION FairSpec
CONSTANTS
    h1 = h1
    h2 = h2
    p1 = p1
    p2 = p2
    Hosts <- TwoHosts
    InitHosts <- TwoHosts
    Callers <- OneCaller
    Ops = {"removeHost", "removeProxy"}
    MaxCalls = 2
PROPERTY RotationFollowsBackend
 
