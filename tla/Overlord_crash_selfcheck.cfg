SPECIFICATION Spec
CONSTANTS
    n1 = n1
    n2 = n2
    n3 = n3
    b1 = b1
    b2 = b2
    Node = {n1, n2, n3}
    Hash <- MCHash
    Weight <- MCWeightSkewed
    Proposer <- MCProposer
    Empty = Empty
    None = None
    MaxHeight = 1
    MaxRound = 0
    QueueBound = 1
    Timeouts <- MCTimeouts
    Crashable = {n1, n2, n3}
    MaxCrashes = 1
SYMMETRY BlockSymmetry
CONSTRAINT InFlightBound
CHECK_DEADLOCK FALSE
INVARIANT SelfCheckHolds
