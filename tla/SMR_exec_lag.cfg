CONSTANTS
    n1 = n1
    n2 = n2
    n3 = n3
    n4 = n4
    Node = {n1, n2, n3, n4}
    Weight <- MCWeight4
    LeaderOf <- MCLeaderOf
    Genesis = Genesis
    None = None
    FetchFails = {}
    MaxHeight = 3
    SlowHeights <- MCSlowNone
SPECIFICATION Spec
INVARIANT NoStrandedProposal
CHECK_DEADLOCK FALSE
