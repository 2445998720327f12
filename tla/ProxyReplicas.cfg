SPECIFICATION Spec
CONSTANTS
    n1 = n1
    n2 = n2
    c1 = c1
    p1 = p1
    x = x
    y = y
    Nodes <- TwoNodes
    ConfLeaders = {}
    Patterns <- OnePattern
    Hosts <- TwoHosts
    Passes <- TwoPasses
    Conf <- FirstConf
    Clients <- OneClient
    Asked <- EachKind
    MaxReqs = 2
    MaxTerms = 2
    MaxCrashes = 1
    MaxSnaps = 1
    MaxEvents = 3
CHECK_DEADLOCK FALSE
INVARIANT TypeOK
INVARIANT PatternsAgree
INVARIANT HostsAgree
 
