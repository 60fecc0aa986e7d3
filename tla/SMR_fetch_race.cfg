CONSTANTS
    n1 = n1
    n2 = n2
    n3 = n3
    n4 = n4
    Node = {n1, n2, n3}
    Weight <- MCWeight
    LeaderOf <- MCLeaderOf
    Genesis = Genesis
    None = None
    FetchFails = {}
    MaxHeight = 1
    SlowHeights <- MCSlowNone
SPECIFICATION Spec
INVARIANT NoStrandedQC
CHECK_DEADLOCK FALSE
