CONSTANTS
    n1 = n1
    n2 = n2
    n3 = n3
    n4 = n4
    Node = {n1, n2, n3, n4}
    Weight <- MCWeight4
    LeaderOf <- MCLeaderOf
    MaxHeight = 3
    SlowHeights <- MCSlowBoth
    Genesis = Genesis
    None = None
    FetchFails = {n4}
SPECIFICATION Spec
INVARIANT TypeOK
PROPERTY ImplementsCommitChain
CHECK_DEADLOCK FALSE
