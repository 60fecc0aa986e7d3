--------------------------- MODULE MC_VoteCounting ---------------------------
(* Instances of VoteCounting for TLC: four authorities and two hashes.     *)
EXTENDS VoteCounting

CONSTANTS n1, n2, n3, n4

\* Small weights, one of them heavy, total 6: a pair {n4, x} carries exactly
\* two thirds, so the strict threshold matters.
SmallWeight == (n1 :> 1) @@ (n2 :> 1) @@ (n3 :> 1) @@ (n4 :> 3)

\* Weights a u8 holds, whose sums do not: total 302, quorum {n3, n4} = 300.
LargeWeight == (n1 :> 1) @@ (n2 :> 1) @@ (n3 :> 100) @@ (n4 :> 200)
==============================================================================
