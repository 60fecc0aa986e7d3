------------------------------- MODULE MC_SMR -------------------------------
(* SMR instances for TLC.  Three validators of weights 1, 2 and 3: a      *)
(* quorum (more than two thirds of 6) needs n2 and n3.  Four validators   *)
(* of weights 1, 1, 3 and 3: a quorum (more than two thirds of 8) needs   *)
(* n3 and n4, so a height still commits when the leaders of the heights   *)
(* before it, n1 and n2, stay behind.                                      *)
EXTENDS SMR, Sequences, TLC

CONSTANTS n1, n2, n3, n4

MCWeight == [n \in Node |-> CASE n = n1 -> 1 [] n = n2 -> 2 [] n = n3 -> 3]
MCWeight4 == [n \in Node |-> IF n \in {n1, n2} THEN 1 ELSE 3]

\* get_leader(h, 0) walks the authority list round-robin: n1, n2, n3 (, n4).
NodeOrder == SelectSeq(<<n1, n2, n3, n4>>, LAMBDA x : x \in Node)
MCLeaderOf == [h \in 1..MaxHeight + 1 |-> NodeOrder[((h - 1) % Len(NodeOrder)) + 1]]

\* Both outcomes of `elapsed >= interval` at every commit.
MCSlowBoth == {FALSE, TRUE}
\* Every height takes longer than the interval.
MCSlowAll == {TRUE}
\* Every height finishes within the interval.
MCSlowNone == {FALSE}
====
