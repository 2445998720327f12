SPECIFICATION Spec
CONSTANTS
    h1 = h1
    h2 = h2
    h3 = h3
    c1 = c1
    c2 = c2
    NoHost = NoHost
    Hosts <- ThreeHosts
    InitHosts <- ThreeListed
    Clients <- TwoClients
    IdxLimit = 8
INVARIANT TypeOK
INVARIANT EachInTurn
INVARIANT RemovedStaysOut
PROPERTY ImplementsBalancer
