---------------------------- MODULE VoteCounting ----------------------------
(***************************************************************************)
(* The leader's vote counting of src/state/process.rs.                    *)
(*                                                                         *)
(* handle_signed_vote (process.rs:816-938) inserts a signed vote into the  *)
(* vote collector, unless a QC for the vote's (height, round, type) is     *)
(* already stored, and then calls counting_vote (process.rs:1163-1187).   *)
(* counting_vote walks the vote map (a HashMap, so in an order the program *)
(* does not fix) and, for each block hash, adds the vote weights of its    *)
(* voters into an accumulator declared `0u8`.  The first hash whose        *)
(* accumulated weight times 3 exceeds twice the total weight is returned   *)
(* and becomes a QC.                                                       *)
(*                                                                         *)
(* The accumulator is 8 bits wide.  A debug build (overflow checks on)     *)
(* panics when it overflows; a release build wraps modulo 256.  Which one  *)
(* runs is the constant OverflowChecks.                                    *)
(***************************************************************************)
EXTENDS Integers, FiniteSets, SequencesExt

CONSTANTS
    Node,            \* the authority list
    Hash,            \* block hashes voters may sign
    Weight,          \* Weight[n]: the vote weight of n, a u8
    OverflowChecks,  \* TRUE for a build with overflow checks (debug)
    NoQC,            \* counting_vote returned None
    Panic            \* the State task panicked on `acc += weight`

ASSUME /\ Weight \in [Node -> 0..255]
       /\ OverflowChecks \in BOOLEAN
       /\ {NoQC, Panic} \cap Hash = {}

VARIABLES
    votes,  \* the vote map of the current (height, round, type): <<voter, hash>>
    qc      \* the hash a QC was generated for, NoQC, or Panic

vars == <<votes, qc>>

AccModulus == 2^8   \* `let mut acc = 0u8`

\* get_vote_weight_sum(true): the total vote weight, kept in a u64.
TotalWeight == MapThenSumSet(LAMBDA n : Weight[n], Node)

VotersOf(vs, h) == {n \in Node : <<n, h>> \in vs}

VotedHashes(vs) == {p[2] : p \in vs}

\* The exact sum of the weights of the voters for h.
WeightFor(vs, h) == MapThenSumSet(LAMBDA n : Weight[n], VotersOf(vs, h))

\* Mutant: a threshold test that also accepts exactly two thirds.
AboveThresholdOrEqual(acc) == acc * 3 >= TotalWeight * 2

\* The comparison of counting_vote: `u64::from(acc) * 3 > threshold`, where
\* threshold is twice the total weight.
AboveThreshold(acc) == acc * 3 > TotalWeight * 2

(***************************************************************************)
(* One run of the `for (hash, set) in vote_map.iter()` loop of            *)
(* counting_vote, visiting the hashes in the order `order`.                *)
(***************************************************************************)
RECURSIVE CountWalk(_, _)
CountWalk(vs, order) ==
    IF order = <<>> THEN NoQC
    ELSE LET h   == Head(order)
             sum == WeightFor(vs, h)
         IN  IF sum >= AccModulus /\ OverflowChecks THEN Panic
             ELSE IF AboveThreshold(sum % AccModulus) THEN h
             ELSE CountWalk(vs, Tail(order))

\* Every result counting_vote can return, over the iteration orders.
CountingVote(vs) == {CountWalk(vs, order) : order \in SetToSeqs(VotedHashes(vs))}

\* The threshold the spec states: beyond_majority(w) <=> 3 * w > 2 * total.
BeyondMajority(w) == 3 * w > 2 * TotalWeight

\* What counting ought to return: a hash beyond majority, or None.
ReferenceCount(vs) ==
    LET beyond == {h \in VotedHashes(vs) : BeyondMajority(WeightFor(vs, h))}
    IN  IF beyond = {} THEN {NoQC} ELSE beyond

Init ==
    /\ votes = {}
    /\ qc = NoQC

(***************************************************************************)
(* handle_signed_vote for a vote of the leader's current height and round *)
(* by `voter` for `h`: return if the QC exists, else insert and count.     *)
(* A vote may be delivered again; insert_vote is idempotent.               *)
(***************************************************************************)
HandleSignedVote(voter, h) ==
    \/ /\ qc /= NoQC
       /\ UNCHANGED vars
    \/ /\ qc = NoQC
       /\ votes' = votes \cup {<<voter, h>>}
       /\ qc' \in CountingVote(votes')

Next == \E n \in Node, h \in Hash : HandleSignedVote(n, h)

Spec == Init /\ [][Next]_vars

TypeOK ==
    /\ votes \subseteq Node \X Hash
    /\ qc \in Hash \cup {NoQC, Panic}

(***************************************************************************)
(* The leader forms a QC exactly when the voters of some hash carry more  *)
(* than two thirds of the total weight, and only for such a hash: the      *)
(* result of counting_vote agrees with beyond_majority over the votes it   *)
(* counted, whatever the order of the vote map and the size of the sums.   *)
(***************************************************************************)
CountingAgreesWithMajority == qc \in ReferenceCount(votes)

=============================================================================
