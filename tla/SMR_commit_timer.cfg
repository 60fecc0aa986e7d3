CONSTANTS
    n1 = n1
    n2 = n2
    n3 = n3
    n4 = n4
    Node = {n1, n2, n3}
    Weight <- MCWeight
    LeaderOf <- MCLeaderOf
    Genesis = Genesis
    None = None
    FetchFails = {}
    MaxHeight = 1
    SlowHeights <- MCSlowAll
SPECIFICATION FairSpec
PROPERTY CommitEndsHeight
CHECK_DEADLOCK FALSE
