SPECIFICATION Spec
CONSTANTS
    h1 = h1
    h2 = h2
    h3 = h3
    NoHost = NoHost
    Hosts <- ThreeHosts
    Replicas = 2
    Positions <- Around
    Clients = {3}
    MaxCopies = 2
    MaxRepeated = 1
SYMMETRY MCSymmetry
INVARIANT TypeOK
INVARIANT RoutesToMember
 
PROPERTY ImplementsBalancer
PROPERTY OnlyAffectedClientsMove
