SPECIFICATION Spec
CONSTANTS
    h1 = h1
    h2 = h2
    p1 = p1
    p2 = p2
    Hosts <- TwoHosts
    InitHosts <- OneHost
    Callers <- TwoCallers
    Ops = {"addHost", "removeHost", "removeProxy", "changeLb"}
    MaxCalls = 2
SYMMETRY CallerSymmetry
INVARIANT TypeOK
INVARIANT Monitored
INVARIANT SignalHasReceiver
INVARIANT RotationHasProxy
INVARIANT RotationTracksAlive
