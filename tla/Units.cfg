CONSTANTS
    n1 = n1  n2 = n2  n3 = n3  n4 = n4
    Node = {n1, n2, n3, n4}
    Hash = {h1, h2}
    Weight <- SmallWeight
    OverflowChecks = TRUE
    NoQC = NoQC
    Panic = Panic
    SMNode = {s1}
    SMHash = {b1, b2}
    Empty = Empty
    None = None
    MaxHeight = 2
    MaxRound = 2
    QueueBound = 2
SPECIFICATION UnitSpec
INVARIANTS
    SMTypeOK
    SelfCheckHolds
    LockMatchesProposal
