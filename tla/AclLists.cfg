SPECIFICATION FairSpec
CONSTANTS
    n1 = n1
    n2 = n2
    k1 = k1
    c1 = c1
    c2 = c2
    Nodes <- TwoNodes
    ConfLeaders <- FirstNode
    Nets <- OneNet
    Clients <- TwoClients
    Patterns = {0, 1, 2}
    MaxReqs = 2
    MaxTerms = 2
    MaxCrashes = 1
CHECK_DEADLOCK FALSE
INVARIANT TypeOK
 
INVARIANT FollowersRefuseWrites
 
