CONSTANTS
    n1 = n1  n2 = n2  n3 = n3  n4 = n4
    Node = {n1, n2, n3, n4}
    Hash = {h1, h2}
    Weight <- LargeWeight
    OverflowChecks = FALSE
    NoQC = NoQC
    Panic = Panic
SPECIFICATION Spec
INVARIANT
    CountingAgreesWithMajority
