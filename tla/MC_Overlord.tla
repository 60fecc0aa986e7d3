---------------------------- MODULE MC_Overlord ----------------------------
(* Three honest nodes with a round-robin proposer, for TLC.               *)
EXTENDS Overlord, TLC

CONSTANTS n1, n2, n3, b1, b2

\* The authority list, in the order get_proposer walks it: height 1 is
\* proposed by n2 in round 0 and by n1 in round 1.
NodeOrder == <<n3, n2, n1>>

\* Round-robin proposer over the authority list.
MCProposer(h, r) == NodeOrder[((h + r) % Len(NodeOrder)) + 1]

MCWeight == [n \in Node |-> 1]

\* Weights under which n3 and any one other node form a quorum (3 of 4):
\* two quorums meet in n3 only.
MCWeightSkewed == [n \in Node |-> IF n = n3 THEN 2 ELSE 1]

\* Two candidate blocks per height; a block hash names its height.
MCHash == (1..MaxHeight) \X {b1, b2}

\* The precommit timeouts of every node, and the prevote timeout of n1, the
\* proposer of round 1, which may so enter round 1 without a lock.
MCTimeouts == {<<n1, Prevote>>} \cup (Node \X {Precommit})

\* Every timeout of n3, which may so leave round 0 after a restart, and the
\* prevote and precommit timeouts of n1.
MCTimeoutsCrash == {<<n1, Prevote>>, <<n1, Precommit>>} \cup ({n3} \X {Propose, Prevote, Precommit})

\* Bound: at most MaxInFlight messages in flight, and at most one SMREvent
\* waiting for State, in every state explored.
MaxInFlight == 4
InFlightBound ==
    /\ Cardinality(msgs) <= MaxInFlight
    /\ \A n \in Node : Len(smEvents[n]) <= 1

\* At most 2 consensus messages in flight (besides the RichStatus of the
\* start), and at most one SMREvent waiting for State.
InFlightBound2 ==
    /\ Cardinality({m \in msgs : m.kind /= "RichStatus"}) <= 2
    /\ \A n \in Node : Len(smEvents[n]) <= 1

\* InFlightBound2, where a crash is explored only once some node has
\* committed.  It narrows the search for a restarted node that contradicts
\* a commit; it leaves out crashes before any commit, so it serves only a
\* run that looks for a violation.
CrashAfterCommitBound ==
    /\ InFlightBound2
    /\ crashes > 0 => \E n \in Node : commits[n] /= {}

\* The two blocks of a height are interchangeable.
BlockSymmetry == Permutations({b1, b2})
=============================================================================
