------------------------------ MODULE Overlord ------------------------------
(***************************************************************************)
(* The Overlord consensus engine of src/state/process.rs and              *)
(* src/smr/state_machine.rs: per node, a State task and a state machine   *)
(* joined by a trigger channel and an event channel, and a network       *)
(* between the State tasks of the nodes.                                   *)
(*                                                                         *)
(* The State task (process.rs) runs a select loop over three channels     *)
(* (process.rs:118-134): network messages (handle_msg), SMREvents from its *)
(* state machine (handle_event) and the results of the block checks it    *)
(* spawned (handle_resp).  Each handler runs to completion before the next *)
(* is taken, so a handler is one step; a handler that fails on `?` keeps   *)
(* the changes made before the failing call.                               *)
(*                                                                         *)
(* The network is a set of messages in flight, each addressed to one node *)
(* and removed on delivery: messages are delivered in any order.  All     *)
(* nodes are honest; the vote weights are the constant Weight.             *)
(*                                                                         *)
(* The collectors of process.rs (ProposalCollector, VoteCollector) and    *)
(* AuthorityManage are not part of this repository; they are modelled as  *)
(* sets: a vote collector holds each signed vote once and a QC per        *)
(* (type, height, round), set_qc replacing the previous one.              *)
(***************************************************************************)
EXTENDS StateMachine, FiniteSets

CONSTANTS
    Proposer(_, _),  \* AuthorityManage::get_proposer(height, round)
    Weight,          \* the vote weight of each node
    Crashable,       \* the nodes that may crash and restart
    MaxCrashes       \* bound: the number of crashes in a behaviour

VARIABLES
    height,         \* State.height
    round,          \* State.round
    isLeader,       \* State.is_leader
    leaderAddress,  \* State.leader_address (None is Address::default())
    proposals,      \* State.proposals: the signed proposals kept
    votes,          \* the signed votes of State.votes
    qcs,            \* the QCs of State.votes
    hashWithBlock,  \* the hashes of State.hash_with_block
    isFull,         \* the hashes State.is_full_transcation maps to true
    lastCommitQC,   \* State.last_commit_qc
    wal,            \* the WalInfo last saved by the node
    verifyResp,     \* block checks spawned by check_block, not yet answered
    commits,        \* the blocks the node passed to Consensus::commit: <<h, hash>>
    msgs,           \* messages in flight
    signed,         \* history: every proposal and vote each node has signed
    down,           \* the nodes whose process is stopped by a crash
    crashes         \* the number of crashes so far

stateVars == <<height, round, isLeader, leaderAddress, proposals, votes, qcs,
               hashWithBlock, isFull, lastCommitQC, wal, verifyResp, commits, msgs>>
faultVars == <<down, crashes>>
vars == <<smVars, smEvents, stateVars, signed, faultVars>>

FUTURE_HEIGHT_GAP == 5
FUTURE_ROUND_GAP  == 10

(* u64 arithmetic on heights: `self.height - 1` at height 0 wraps to      *)
(* u64::MAX, which compares above every height of the model.               *)
U64Max == 2^30
Pred(h) == IF h = 0 THEN U64Max ELSE h - 1

VC == INSTANCE VoteCounting WITH votes <- {}, qc <- None, NoQC <- None,
                                 Panic <- "panic", OverflowChecks <- TRUE

ASSUME VC!TotalWeight < VC!AccModulus

\* VoteType into TriggerType and into Step.
TriggerOf(vt) == IF vt = "Prevote" THEN "PrevoteQC" ELSE "PrecommitQC"
StepOf(vt)    == IF vt = "Prevote" THEN Prevote ELSE Precommit

QC(vt, h, r, b) == [vtype |-> vt, height |-> h, round |-> r, hash |-> b]

\* VoteCollector::get_qc_by_id: the QC of (type, height, round), if any.
QCsById(n, vt, h, r) ==
    {q \in qcs[n] : q.vtype = vt /\ q.height = h /\ q.round = r}
QCById(n, vt, h, r) == CHOOSE q \in QCsById(n, vt, h, r) : TRUE

\* VoteCollector::get_qc_by_hash: a QC of (type, height) for the hash.
QCsByHash(n, vt, h, b) ==
    {q \in qcs[n] : q.vtype = vt /\ q.height = h /\ q.hash = b}

\* VoteCollector::set_qc: q replaces the QC of its (type, height, round) in Q.
SetQCIn(Q, q) ==
    {x \in Q : x.vtype /= q.vtype \/ x.height /= q.height \/ x.round /= q.round} \cup {q}

SetQC(n, q) == qcs' = [qcs EXCEPT ![n] = SetQCIn(@, q)]

\* counting_vote over the votes of (type, height, round).
Counting(vs, vt, h, r) ==
    VC!CountingVote({<<x.voter, x.hash>> : x \in {y \in vs : y.vtype = vt /\ y.height = h
                                                              /\ y.round = r}})

Msg(kind, body, to) == [kind |-> kind, body |-> body, to |-> to]

\* broadcast_to_other: one message to every other node.
Broadcast(n, kind, body) == {Msg(kind, body, d) : d \in Node \ {n}}

\* retransmit_qc: the last commit QC to the sender of a message of height - 1.
RetransmitQC(n, to, net) ==
    msgs' = IF lastCommitQC[n] = None THEN net
            ELSE net \cup {Msg("AggregatedVote", lastCommitQC[n], to)}

\* The WalLock of a lock round, with the QCs Q the collector holds: the
\* prevote QC of that round and its block; ok is FALSE where the code fails
\* on a missing QC or block.
WalLockOf(n, lr, Q) ==
    LET ps == {x \in Q : x.vtype = "Prevote" /\ x.height = height[n] /\ x.round = lr} IN
    IF lr = None THEN [ok |-> TRUE, lock |-> None]
    ELSE IF ps = {} THEN [ok |-> FALSE, lock |-> None]
    ELSE LET q == CHOOSE x \in ps : TRUE IN
         IF q.hash \notin hashWithBlock[n] THEN [ok |-> FALSE, lock |-> None]
         ELSE [ok |-> TRUE, lock |-> [round |-> lr, qc |-> q]]

WalInfo(h, r, step, lock) == [height |-> h, round |-> r, step |-> step, lock |-> lock]

\* check_block: a spawned task asks Consensus::check_block about the block
\* of the node's current height and, when the check passes, sends
\* VerifyResp{height, block_hash, is_pass: true} on resp_tx
\* (check_current_block).  The adapter's check is taken to pass; a failed
\* check sends nothing.
CheckBlock(n, b) ==
    verifyResp' = [verifyResp EXCEPT ![n] = @ \cup {[height |-> height[n], hash |-> b]}]

\* What sign_proposal or sign_vote signs: kind "Proposal", "Prevote" or
\* "Precommit", with height, round and block hash.
Signed(kind, h, r, b) == [kind |-> kind, height |-> h, round |-> r, hash |-> b]

(***************************************************************************)
(* filter_signed_proposal (process.rs:1741-1776): "drop", "cache" or      *)
(* "pass", for the State's height and the round r.                        *)
(***************************************************************************)
FilterSignedProposal(n, r, sp) ==
    LET h == sp.height  pr == sp.round  H == height[n] IN
    IF \/ h < Pred(H) \/ (h = H /\ pr < r) \/ H + FUTURE_HEIGHT_GAP < h
       \/ (h = H /\ r + FUTURE_ROUND_GAP < pr) \/ (h > H /\ pr > FUTURE_ROUND_GAP)
    THEN "drop"
    ELSE IF (h = H /\ pr /= r) \/ h > H THEN "cache"
    ELSE "pass"

(***************************************************************************)
(* handle_signed_proposal (process.rs:543-650), with the State's round r. *)
(* A proposal that passes is kept, its block stored, the state machine    *)
(* triggered and the block check spawned.  net is the network the handler *)
(* sends on.                                                               *)
(***************************************************************************)
HandleSignedProposal(n, sp, r, net, evq) ==
    LET f == FilterSignedProposal(n, r, sp) IN
    IF f = "drop" \/ (f = "pass" /\ sp.proposer /= Proposer(sp.height, sp.round))
    THEN msgs' = net /\ UNCHANGED <<proposals, hashWithBlock, verifyResp>> /\ NoTrigger(n, evq)
    ELSE IF f = "cache"
    THEN /\ proposals' = [proposals EXCEPT ![n] = @ \cup {sp}]
         /\ msgs' = net
         /\ UNCHANGED <<hashWithBlock, verifyResp>> /\ NoTrigger(n, evq)
    ELSE IF sp.height = Pred(height[n])
    THEN /\ RetransmitQC(n, sp.proposer, net)
         /\ UNCHANGED <<proposals, hashWithBlock, verifyResp>> /\ NoTrigger(n, evq)
    ELSE /\ hashWithBlock' = [hashWithBlock EXCEPT ![n] = @ \cup {sp.hash}]
         /\ proposals' = [proposals EXCEPT ![n] = @ \cup {sp}]
         /\ SendTrigger(n, evq, Trigger("Proposal", "State", sp.hash, sp.lockRound, height[n]))
         /\ CheckBlock(n, sp.hash)
         /\ msgs' = net

\* Mutant: an empty-hash check that never holds.
IsEmptyHashNever(b) == FALSE

\* `hash.is_empty()`: a timeout's vote event, or a signed vote, with no block.
IsEmptyHash(b) == b = Empty

(***************************************************************************)
(* handle_signed_vote (process.rs:816-938).  An empty vote is dropped;    *)
(* only the leader of the current (height, round) counts votes; a vote of *)
(* height - 1 is answered with the last commit QC.  A QC formed is stored *)
(* and broadcast, and the state machine triggered once the block was      *)
(* checked.                                                                *)
(***************************************************************************)
HandleSignedVote(n, v, net, evq) ==
    LET H == height[n] IN
    IF \/ IsEmptyHash(v.hash)
       \/ v.height /= Pred(H) /\ (~isLeader[n] \/ v.height /= H \/ v.round /= round[n])
    THEN msgs' = net /\ UNCHANGED <<votes, qcs>> /\ NoTrigger(n, evq)
    ELSE IF v.height = Pred(H)
    THEN RetransmitQC(n, v.voter, net) /\ UNCHANGED <<votes, qcs>> /\ NoTrigger(n, evq)
    ELSE IF QCsById(n, v.vtype, v.height, v.round) /= {}
    THEN msgs' = net /\ UNCHANGED <<votes, qcs>> /\ NoTrigger(n, evq)
    ELSE /\ votes' = [votes EXCEPT ![n] = @ \cup {v}]
         /\ \E b \in Counting(votes'[n], v.vtype, H, round[n]) :
               IF b = None THEN msgs' = net /\ UNCHANGED qcs /\ NoTrigger(n, evq)
               ELSE LET q == QC(v.vtype, H, round[n], b) IN
                    /\ SetQC(n, q)
                    /\ msgs' = net \cup Broadcast(n, "AggregatedVote", q)
                    /\ IF b \in isFull[n]
                       THEN SendTrigger(n, evq, Trigger(TriggerOf(v.vtype), "State", b, v.round, H))
                       ELSE NoTrigger(n, evq)

(***************************************************************************)
(* handle_aggregated_vote (process.rs:954-1055).  A QC of a lower height  *)
(* is dropped, one of a near higher height kept, a prevote QC of a lower  *)
(* round dropped; precommit QCs of lower rounds are not.                  *)
(***************************************************************************)
\* Mutant: handle_aggregated_vote also ignores a prevote QC of its own round.
StalePrevoteQCOrEqual(n, q) == q.vtype = "Prevote" /\ q.round <= round[n]

\* handle_aggregated_vote ignores a prevote QC of a round below the State's.
StalePrevoteQC(n, q) == q.vtype = "Prevote" /\ q.round < round[n]

HandleAggregatedVote(n, q, evq) ==
    LET H == height[n] IN
    IF q.height < H THEN UNCHANGED qcs /\ NoTrigger(n, evq)
    ELSE IF q.height > H
    THEN /\ IF H + FUTURE_HEIGHT_GAP > q.height /\ q.round < FUTURE_ROUND_GAP
            THEN SetQC(n, q) ELSE UNCHANGED qcs
         /\ NoTrigger(n, evq)
    ELSE IF StalePrevoteQC(n, q) THEN UNCHANGED qcs /\ NoTrigger(n, evq)
    ELSE /\ SetQC(n, q)
         /\ IF q.hash \in isFull[n]
            THEN SendTrigger(n, evq, Trigger(TriggerOf(q.vtype), "State", q.hash, q.round, H))
            ELSE NoTrigger(n, evq)

(***************************************************************************)
(* handle_resp (process.rs:288-340): the answer of a block check of the   *)
(* current height marks the block full and triggers the state machine     *)
(* with a precommit QC of that hash, or else with a prevote QC of the     *)
(* hash returned by get_qc_by_hash if it is of the current round.         *)
(***************************************************************************)
\* Mutant: handle_resp triggering with a prevote QC of any round.
RespPrevoteAnyRound(n, q) == TRUE

\* handle_resp passes a prevote QC only when it is of the State's round.
RespPrevoteRound(n, q) == q.round = round[n]

HandleResp(n, c, evq) ==
    LET H == height[n]
        pc == QCsByHash(n, "Precommit", H, c.hash)
        pv == QCsByHash(n, "Prevote", H, c.hash)
    IN
    /\ verifyResp' = [verifyResp EXCEPT ![n] = @ \ {c}]
    /\ IF c.height /= H THEN UNCHANGED isFull /\ NoTrigger(n, evq)
       ELSE /\ isFull' = [isFull EXCEPT ![n] = @ \cup {c.hash}]
            /\ IF pc /= {}
               THEN SendTrigger(n, evq, Trigger("PrecommitQC", "State", c.hash, round[n], H))
               ELSE IF pv = {} THEN NoTrigger(n, evq)
               ELSE \E q \in pv :
                      IF RespPrevoteRound(n, q)
                      THEN SendTrigger(n, evq, Trigger("PrevoteQC", "State", c.hash, round[n], H))
                      ELSE NoTrigger(n, evq)

(***************************************************************************)
(* goto_new_height (process.rs:351-403): enter height nh at round 0, drop *)
(* what is below nh - 1, forget the blocks and start the state machine on *)
(* the new height.  The re-checks of kept messages accept all of them.    *)
(***************************************************************************)
GotoNewHeight(n, nh, evq) ==
    /\ height' = [height EXCEPT ![n] = nh]
    /\ round' = [round EXCEPT ![n] = INIT_ROUND]
    /\ proposals' = [proposals EXCEPT ![n] = {p \in @ : p.height >= nh - 1}]
    /\ votes' = [votes EXCEPT ![n] = {v \in @ : v.height >= nh - 1}]
    /\ qcs' = [qcs EXCEPT ![n] = {q \in @ : q.height >= nh - 1}]
    /\ hashWithBlock' = [hashWithBlock EXCEPT ![n] = {}]
    /\ SendTrigger(n, evq, Trigger("NewHeight", "State", Empty, None, nh))

(***************************************************************************)
(* The RichStatus message of the consensus adapter that starts the first  *)
(* height (handle_msg, process.rs:183).                                    *)
(***************************************************************************)
HandleRichStatus(n, st, net) ==
    /\ GotoNewHeight(n, st.height, smEvents[n])
    /\ msgs' = net
    /\ UNCHANGED <<isLeader, leaderAddress, isFull, lastCommitQC, wal, verifyResp, commits>>

(***************************************************************************)
(* handle_msg (process.rs:137-196): deliver one message in flight.        *)
(***************************************************************************)
DeliverMsg(m) ==
    LET n == m.to IN
    /\ m \in msgs
    /\ ~down[n]
    /\ UNCHANGED <<signed, faultVars>>
    /\ CASE m.kind = "RichStatus" ->
              HandleRichStatus(n, m.body, msgs \ {m})
         [] m.kind = "SignedProposal" ->
              /\ HandleSignedProposal(n, m.body, round[n], msgs \ {m}, smEvents[n])
              /\ UNCHANGED <<height, round, isLeader, leaderAddress, votes, qcs, isFull,
                             lastCommitQC, wal, commits>>
         [] m.kind = "SignedVote" ->
              /\ HandleSignedVote(n, m.body, msgs \ {m}, smEvents[n])
              /\ UNCHANGED <<height, round, isLeader, leaderAddress, proposals, hashWithBlock,
                             isFull, lastCommitQC, wal, verifyResp, commits>>
         [] m.kind = "AggregatedVote" ->
              /\ HandleAggregatedVote(n, m.body, smEvents[n])
              /\ msgs' = msgs \ {m}
              /\ UNCHANGED <<height, round, isLeader, leaderAddress, proposals, votes,
                             hashWithBlock, isFull, lastCommitQC, wal, verifyResp, commits>>

(***************************************************************************)
(* The leader's proposal of handle_new_round (process.rs:492-538): store  *)
(* the block, broadcast the signed proposal with its PoLC, trigger the    *)
(* state machine and spawn the block check.                               *)
(***************************************************************************)
ProposeBlock(n, b, lr, r, evq) ==
    LET polcHash == IF lr = None THEN None ELSE QCById(n, "Prevote", height[n], lr).hash
        sp == [height |-> height[n], round |-> r, hash |-> b, lockRound |-> lr,
               lockHash |-> polcHash, proposer |-> n]
    IN
    /\ hashWithBlock' = [hashWithBlock EXCEPT ![n] = @ \cup {b}]
    /\ msgs' = msgs \cup Broadcast(n, "SignedProposal", sp)
    /\ SendTrigger(n, evq, Trigger("Proposal", "State", b, lr, height[n]))
    /\ CheckBlock(n, b)
    /\ signed' = [signed EXCEPT ![n] = @ \cup {Signed("Proposal", height[n], r, b)}]
    /\ UNCHANGED proposals

\* Consensus::get_block: a new block of the height.
BlocksAt(h) == {b \in Hash : b[1] = h}

(***************************************************************************)
(* handle_new_round (process.rs:409-539).  The round is set and the WAL   *)
(* saved with the lock's prevote QC; a node that is not the proposer       *)
(* handles the proposal it kept for the round, the proposer proposes a    *)
(* new block, or its locked block with the lock's QC as PoLC.             *)
\* is_proposer (process.rs:1299-1312): a node that is not the proposer of
\* round r at height h takes the proposer as its leader_address.
LeaderAfter(n, h, r) == IF Proposer(h, r) = n THEN leaderAddress[n] ELSE Proposer(h, r)

(***************************************************************************)
HandleNewRound(n, e, evq) ==
    LET r == e.round  lr == e.lockRound  wl == WalLockOf(n, lr, qcs[n])
        kept == {sp \in proposals[n] : sp.height = height[n] /\ sp.round = r}
    IN
    /\ round' = [round EXCEPT ![n] = r]
    /\ IF ~wl.ok
       THEN /\ isLeader' = [isLeader EXCEPT ![n] = FALSE]
            /\ UNCHANGED <<leaderAddress, wal, proposals, hashWithBlock, verifyResp, msgs, signed>>
            /\ NoTrigger(n, evq)
       ELSE /\ wal' = [wal EXCEPT ![n] = WalInfo(height[n], r, Propose, wl.lock)]
            /\ IF Proposer(height[n], r) /= n
               THEN /\ isLeader' = [isLeader EXCEPT ![n] = FALSE]
                    /\ leaderAddress' = [leaderAddress EXCEPT ![n] = LeaderAfter(n, height[n], r)]
                    /\ UNCHANGED signed
                    /\ IF kept = {}
                       THEN UNCHANGED <<proposals, hashWithBlock, verifyResp, msgs>> /\ NoTrigger(n, evq)
                       ELSE \E sp \in kept : HandleSignedProposal(n, sp, r, msgs, evq)
               ELSE /\ isLeader' = [isLeader EXCEPT ![n] = TRUE]
                    /\ UNCHANGED leaderAddress
                    /\ IF lr = None
                       THEN \E b \in BlocksAt(height[n]) : ProposeBlock(n, b, None, r, evq)
                       ELSE IF e.lockProposal \notin hashWithBlock[n]
                       THEN /\ UNCHANGED <<proposals, hashWithBlock, verifyResp, msgs, signed>>
                            /\ NoTrigger(n, evq)
                       ELSE ProposeBlock(n, e.lockProposal, lr, r, evq)
    /\ UNCHANGED <<height, votes, qcs, isFull, lastCommitQC, commits>>

(***************************************************************************)
(* save_wal_before_vote (process.rs:1575-1602): the WalInfo to save, or   *)
(* ok FALSE when the prevote QC of the lock round or its block is missing. *)
(***************************************************************************)
WalBeforeVote(n, step, lr, Q) ==
    LET wl == WalLockOf(n, lr, Q) IN
    [ok |-> wl.ok, wal |-> WalInfo(height[n], round[n], step, wl.lock)]

\* Save the WAL before a vote and trigger the state machine with the QC q
\* when its block is full, as both branches of vote_process do; Q is what
\* the collector holds when the WAL is saved.
SaveAndTrigger(n, vt, lr, q, Q, evq) ==
    IF q.hash \notin isFull[n]
    THEN LET w == WalBeforeVote(n, StepOf(vt), lr, Q) IN
         /\ wal' = [wal EXCEPT ![n] = IF w.ok THEN w.wal ELSE @]
         /\ NoTrigger(n, evq)
    ELSE LET w == WalBeforeVote(n, StepOf(vt), round[n], Q) IN
         IF ~w.ok THEN UNCHANGED wal /\ NoTrigger(n, evq)
         ELSE /\ wal' = [wal EXCEPT ![n] = w.wal]
              /\ SendTrigger(n, evq, Trigger(TriggerOf(q.vtype), "State", q.hash, round[n], height[n]))

(***************************************************************************)
(* vote_process (process.rs:1063-1161), on the votes vs and network net   *)
(* left by handle_vote_event.  A non-leader that holds the QC of its      *)
(* round uses it; the leader counts the votes and forms the QC.           *)
(***************************************************************************)
VoteProcess(n, vt, lr, vs, net, evq) ==
    LET H == height[n]  R == round[n] IN
    /\ votes' = [votes EXCEPT ![n] = vs]
    /\ IF ~isLeader[n]
       THEN /\ msgs' = net
            /\ UNCHANGED qcs
            /\ IF QCsById(n, vt, H, R) = {} THEN UNCHANGED wal /\ NoTrigger(n, evq)
               ELSE SaveAndTrigger(n, vt, lr, QCById(n, vt, H, R), qcs[n], evq)
       ELSE \E b \in Counting(vs, vt, H, R) :
              IF b = None THEN msgs' = net /\ UNCHANGED <<qcs, wal>> /\ NoTrigger(n, evq)
              ELSE LET q == QC(vt, H, R, b) IN
                   /\ SetQC(n, q)
                   /\ msgs' = net \cup Broadcast(n, "AggregatedVote", q)
                   /\ SaveAndTrigger(n, vt, lr, q, SetQCIn(qcs[n], q), evq)

(***************************************************************************)
(* handle_vote_event (process.rs:652-721).  An empty hash saves the WAL   *)
(* for the next step and sends no vote; otherwise the node signs the vote *)
(* for its own (height, round), keeps it if it leads the round or sends   *)
(* it to the leader, and runs vote_process.                               *)
(***************************************************************************)
HandleVoteEvent(n, e, vt, evq) ==
    IF IsEmptyHash(e.hash)
    THEN LET w == WalBeforeVote(n, IF vt = "Prevote" THEN Precommit ELSE Propose,
                                   e.lockRound, qcs[n])
         IN  /\ wal' = [wal EXCEPT ![n] = IF w.ok THEN w.wal ELSE @]
             /\ UNCHANGED <<votes, qcs, msgs, signed>> /\ NoTrigger(n, evq)
    ELSE LET sv == [vtype |-> vt, height |-> height[n], round |-> round[n],
                    hash |-> e.hash, voter |-> n]
         IN  /\ signed' = [signed EXCEPT ![n] = @ \cup {Signed(vt, height[n], round[n], e.hash)}]
             /\ IF isLeader[n]
                THEN VoteProcess(n, vt, e.lockRound, votes[n] \cup {sv}, msgs, evq)
                ELSE VoteProcess(n, vt, e.lockRound, votes[n],
                                 IF leaderAddress[n] \in Node
                                 THEN msgs \cup {Msg("SignedVote", sv, leaderAddress[n])}
                                 ELSE msgs, evq)

(***************************************************************************)
(* handle_commit (process.rs:723-807): with the block and a precommit QC  *)
(* of its hash, record the QC as the last commit QC, save the WAL at the  *)
(* commit step, commit the block and go to the next height.               *)
(***************************************************************************)
HandleCommit(n, e, evq) ==
    LET H == height[n]  pcs == QCsByHash(n, "Precommit", H, e.hash) IN
    IF e.hash \notin hashWithBlock[n] \/ pcs = {}
    THEN UNCHANGED stateVars /\ NoTrigger(n, evq)
    ELSE \E q \in pcs :
         /\ lastCommitQC' = [lastCommitQC EXCEPT ![n] = q]
         /\ wal' = [wal EXCEPT ![n] =
                      WalInfo(H, round[n], Commit, [round |-> round[n], qc |-> q])]
         /\ commits' = [commits EXCEPT ![n] = @ \cup {<<H, e.hash>>}]
         /\ GotoNewHeight(n, H + 1, evq)
         /\ UNCHANGED <<isLeader, leaderAddress, isFull, verifyResp, msgs>>

(***************************************************************************)
(* handle_event (process.rs:199-286): take the next SMREvent.             *)
(***************************************************************************)
HandleEvent(n) ==
    /\ ~down[n]
    /\ smEvents[n] /= <<>>
    /\ UNCHANGED faultVars
    /\ LET e == Head(smEvents[n])  evq == Tail(smEvents[n]) IN
       CASE e.type = "NewRoundInfo" -> HandleNewRound(n, e, evq)
         [] e.type = "PrevoteVote" ->
              /\ HandleVoteEvent(n, e, "Prevote", evq)
              /\ UNCHANGED <<height, round, isLeader, leaderAddress, proposals,
                             hashWithBlock, isFull, lastCommitQC, verifyResp, commits>>
         [] e.type = "PrecommitVote" ->
              /\ HandleVoteEvent(n, e, "Precommit", evq)
              /\ UNCHANGED <<height, round, isLeader, leaderAddress, proposals,
                             hashWithBlock, isFull, lastCommitQC, verifyResp, commits>>
         [] e.type = "Commit" -> HandleCommit(n, e, evq) /\ UNCHANGED signed

\* handle_resp, on the select loop.
ReceiveResp(n) ==
    /\ ~down[n]
    /\ \E c \in verifyResp[n] : HandleResp(n, c, smEvents[n])
    /\ UNCHANGED <<height, round, isLeader, leaderAddress, proposals,
                   votes, qcs, hashWithBlock, lastCommitQC, wal, commits, msgs,
                   signed, faultVars>>

\* A timeout of the state machine's current step expires.
Timeout(n) == ~down[n] /\ TimerExpires(n) /\ UNCHANGED <<stateVars, signed, faultVars>>

------------------------------------------------------------------------------
(***************************************************************************)
(* Crash and restart.  A crash stops the node's process: State and its    *)
(* state machine lose what they hold, as State::new (process.rs:79-116)   *)
(* and StateMachine::new leave them, and so do the block checks in        *)
(* progress and the messages queued for the node.  The WAL, the blocks    *)
(* passed to Consensus::commit and the adapter's RichStatus survive.      *)
(***************************************************************************)
Crash(n) ==
    /\ n \in Crashable /\ ~down[n] /\ crashes < MaxCrashes
    /\ down' = [down EXCEPT ![n] = TRUE]
    /\ crashes' = crashes + 1
    /\ SMReset(n)
    /\ height' = [height EXCEPT ![n] = INIT_HEIGHT]
    /\ round' = [round EXCEPT ![n] = INIT_ROUND]
    /\ isLeader' = [isLeader EXCEPT ![n] = FALSE]
    /\ leaderAddress' = [leaderAddress EXCEPT ![n] = None]
    /\ proposals' = [proposals EXCEPT ![n] = {}]
    /\ votes' = [votes EXCEPT ![n] = {}]
    /\ qcs' = [qcs EXCEPT ![n] = {}]
    /\ hashWithBlock' = [hashWithBlock EXCEPT ![n] = {}]
    /\ isFull' = [isFull EXCEPT ![n] = {}]
    /\ lastCommitQC' = [lastCommitQC EXCEPT ![n] = None]
    /\ verifyResp' = [verifyResp EXCEPT ![n] = {}]
    /\ msgs' = {m \in msgs : m.to /= n \/ m.kind = "RichStatus"}
    /\ UNCHANGED <<wal, commits, signed>>

\* Mutant: to_lock taking the WAL's round as the lock round.
ToSMRBaseWalRound(w) ==
    [height |-> w.height, round |-> w.round, step |-> w.step,
     lock |-> IF w.lock = None THEN None ELSE [round |-> w.round, hash |-> w.lock.qc.hash]]

\* WalInfo::to_smr_base and WalLock::to_lock (wal_type.rs:20-33, 54-59).
ToSMRBase(w) ==
    [height |-> w.height, round |-> w.round, step |-> w.step,
     lock |-> IF w.lock = None THEN None ELSE [round |-> w.lock.round, hash |-> w.lock.qc.hash]]

(***************************************************************************)
(* start_with_wal at the propose step with a lock: the state machine is   *)
(* restored, and a leader broadcasts the locked block again with its PoLC *)
(* and triggers the machine with it.                                      *)
(***************************************************************************)
RestartPropose(n, w, lead) ==
    LET q == w.lock.qc
        sp == [height |-> w.height, round |-> w.round, hash |-> q.hash,
               lockRound |-> w.lock.round, lockHash |-> q.hash, proposer |-> n]
    IN
    /\ qcs' = [qcs EXCEPT ![n] = {q}]
    /\ UNCHANGED votes
    /\ IF lead
       THEN /\ HandleWalThenProposal(n, ToSMRBase(w), <<>>)
            /\ msgs' = msgs \cup Broadcast(n, "SignedProposal", sp)
            /\ signed' = [signed EXCEPT ![n] = @ \cup {Signed("Proposal", w.height, w.round, q.hash)}]
       ELSE HandleWal(n, ToSMRBase(w), <<>>) /\ UNCHANGED <<msgs, signed>>

(***************************************************************************)
(* start_with_wal at the prevote or precommit step with a lock: the node  *)
(* signs the lock's QC as a prevote of its round (qc.to_vote()), restores *)
(* the machine, and sends the vote to the leader, or, leading, handles it *)
(* as handle_signed_vote does on a collector that holds the lock's QC     *)
(* only.  No block is checked yet, so no QC formed triggers the machine.  *)
(***************************************************************************)
RestartVote(n, w, lead) ==
    LET q == w.lock.qc
        sv == [vtype |-> "Prevote", height |-> w.height, round |-> w.round,
               hash |-> q.hash, voter |-> n]
    IN
    /\ signed' = [signed EXCEPT ![n] = @ \cup {Signed("Prevote", w.height, w.round, q.hash)}]
    /\ HandleWal(n, ToSMRBase(w), <<>>)
    /\ IF ~lead
       THEN /\ msgs' = msgs \cup {Msg("SignedVote", sv, Proposer(w.height, w.round))}
            /\ qcs' = [qcs EXCEPT ![n] = {q}]
            /\ UNCHANGED votes
       ELSE IF q.vtype = "Prevote" /\ q.round = w.round
       THEN qcs' = [qcs EXCEPT ![n] = {q}] /\ UNCHANGED <<votes, msgs>>
       ELSE /\ votes' = [votes EXCEPT ![n] = {sv}]
            /\ \E b \in Counting({sv}, "Prevote", w.height, w.round) :
                  IF b = None THEN qcs' = [qcs EXCEPT ![n] = {q}] /\ UNCHANGED msgs
                  ELSE LET nq == QC("Prevote", w.height, w.round, b) IN
                       /\ qcs' = [qcs EXCEPT ![n] = {q, nq}]
                       /\ msgs' = msgs \cup Broadcast(n, "AggregatedVote", nq)

(***************************************************************************)
(* start_with_wal at the commit step: handle_commit on the restored QC    *)
(* and block commits the block again, saves the same WAL and goes to the  *)
(* next height on a new state machine.                                    *)
(***************************************************************************)
RestartCommit(n, w) ==
    LET q == w.lock.qc  h == w.height IN
    /\ lastCommitQC' = [lastCommitQC EXCEPT ![n] = q]
    /\ wal' = [wal EXCEPT ![n] = WalInfo(h, w.round, Commit, [round |-> w.round, qc |-> q])]
    /\ commits' = [commits EXCEPT ![n] = @ \cup {<<h, q.hash>>}]
    /\ height' = [height EXCEPT ![n] = h + 1]
    /\ round' = [round EXCEPT ![n] = INIT_ROUND]
    /\ qcs' = [qcs EXCEPT ![n] = {q}]
    /\ SendTrigger(n, <<>>, Trigger("NewHeight", "State", Empty, None, h + 1))
    /\ UNCHANGED <<proposals, votes, hashWithBlock, isFull, verifyResp, msgs, signed>>

\* Mutant: start_with_wal restoring the height but not the round.
RestoreHeightOnly(n, w) ==
    /\ height' = [height EXCEPT ![n] = w.height]
    /\ round' = [round EXCEPT ![n] = INIT_ROUND]

\* start_with_wal: `self.height = wal_info.height; self.round = wal_info.round`.
RestoreHeightRound(n, w) ==
    /\ height' = [height EXCEPT ![n] = w.height]
    /\ round' = [round EXCEPT ![n] = w.round]

(***************************************************************************)
(* start_with_wal (process.rs:1604-1702), run before the select loop of a *)
(* restarted node, on the WAL load_wal reads.  With no WAL the node waits *)
(* for a RichStatus.  Otherwise State takes height and round from the WAL *)
(* and the lock's QC and block, and continues by the saved step.  A WAL   *)
(* of the commit step without a lock, or whose QC is not a precommit QC,  *)
(* fails and ends the process: the node stays down.                       *)
(***************************************************************************)
StartWithWal(n) ==
    LET w == wal[n] IN
    /\ down[n]
    /\ down' = [down EXCEPT ![n] = FALSE]
    /\ UNCHANGED crashes
    /\ IF w = None THEN UNCHANGED <<smVars, smEvents, stateVars, signed>>
       ELSE LET lead == Proposer(w.height, w.round) = n IN
            /\ isLeader' = [isLeader EXCEPT ![n] = lead]
            /\ leaderAddress' = [leaderAddress EXCEPT ![n] = LeaderAfter(n, w.height, w.round)]
            /\ IF w.step = Commit
               THEN /\ w.lock /= None /\ w.lock.qc.vtype = "Precommit"
                    /\ RestartCommit(n, w)
               ELSE /\ RestoreHeightRound(n, w)
                    /\ UNCHANGED <<proposals, isFull, lastCommitQC, verifyResp, commits, wal>>
                    /\ IF w.lock = None
                       THEN /\ HandleWal(n, ToSMRBase(w), <<>>)
                            /\ UNCHANGED <<votes, qcs, hashWithBlock, msgs, signed>>
                       ELSE /\ hashWithBlock' = [hashWithBlock EXCEPT ![n] = {w.lock.qc.hash}]
                            /\ IF w.step = Propose THEN RestartPropose(n, w, lead)
                               ELSE RestartVote(n, w, lead)

------------------------------------------------------------------------------
(***************************************************************************)
(* Every node starts with State and state machine at INIT_HEIGHT; the     *)
(* adapter's RichStatus for height 1 is on its way to each.               *)
(***************************************************************************)
Init ==
    /\ SMInit
    /\ height = [n \in Node |-> INIT_HEIGHT]
    /\ round = [n \in Node |-> INIT_ROUND]
    /\ isLeader = [n \in Node |-> FALSE]
    /\ leaderAddress = [n \in Node |-> None]
    /\ proposals = [n \in Node |-> {}]
    /\ votes = [n \in Node |-> {}]
    /\ qcs = [n \in Node |-> {}]
    /\ hashWithBlock = [n \in Node |-> {}]
    /\ isFull = [n \in Node |-> {}]
    /\ lastCommitQC = [n \in Node |-> None]
    /\ wal = [n \in Node |-> None]
    /\ verifyResp = [n \in Node |-> {}]
    /\ commits = [n \in Node |-> {}]
    /\ msgs = {Msg("RichStatus", [height |-> 1], n) : n \in Node}
    /\ signed = [n \in Node |-> {}]
    /\ down = [n \in Node |-> FALSE]
    /\ crashes = 0

Next ==
    \/ \E n \in Node :
          \/ Timeout(n)
          \/ HandleEvent(n)
          \/ ReceiveResp(n)
          \/ Crash(n)
          \/ StartWithWal(n)
    \/ \E m \in msgs : DeliverMsg(m)

Spec == Init /\ [][Next]_vars

(***************************************************************************)
(* Fairness.  The select loop of run (process.rs:118-134) polls its three *)
(* channels in random order, so a channel that stays ready is served: a   *)
(* node keeps taking its SMREvents, its block-check answers and its       *)
(* network messages.  The timer fires for the step it was armed in, and a *)
(* crashed node is restarted.                                              *)
(***************************************************************************)
Fairness ==
    \A n \in Node :
        /\ WF_vars(HandleEvent(n))
        /\ WF_vars(ReceiveResp(n))
        /\ WF_vars(\E m \in msgs : m.to = n /\ DeliverMsg(m))
        /\ WF_vars(Timeout(n))
        /\ WF_vars(StartWithWal(n))

FairSpec == Spec /\ Fairness

\* The state without the WAL, which only StartWithWal reads back: a view for
\* the runs where no node crashes.
NoWalView == <<smVars, smEvents, height, round, isLeader, leaderAddress, proposals,
               votes, qcs, hashWithBlock, isFull, lastCommitQC, verifyResp, commits, msgs,
               signed, faultVars>>

\* The state without the ghost history signed, which no action reads: two
\* states that differ only in it have the same successors, so this VIEW is
\* sound for every property that does not mention signed.
GhostFreeView == <<smVars, smEvents, stateVars, faultVars>>

------------------------------------------------------------------------------
\* Every QC a node holds or that is in flight.
AllQCs == UNION {qcs[n] : n \in Node}
          \cup {m.body : m \in {x \in msgs : x.kind = "AggregatedVote"}}

Rounds0 == 0..MaxRound
QCType == [vtype : {"Prevote", "Precommit"}, height : 1..MaxHeight, round : Rounds0, hash : Hash]
VoteType == [vtype : {"Prevote", "Precommit"}, height : 1..MaxHeight, round : Rounds0,
             hash : Hash, voter : Node]

TypeOK ==
    /\ SMTypeOK
    /\ height \in [Node -> 0..MaxHeight + 1]
    /\ round \in [Node -> Rounds0]
    /\ isLeader \in [Node -> BOOLEAN]
    /\ leaderAddress \in [Node -> Node \cup {None}]
    /\ votes \in [Node -> SUBSET VoteType]
    /\ qcs \in [Node -> SUBSET QCType]
    /\ hashWithBlock \in [Node -> SUBSET Hash]
    /\ isFull \in [Node -> SUBSET Hash]
    /\ lastCommitQC \in [Node -> QCType \cup {None}]
    /\ commits \in [Node -> SUBSET ((1..MaxHeight) \X Hash)]
    /\ down \in [Node -> BOOLEAN]
    /\ crashes \in 0..MaxCrashes

(***************************************************************************)
(* Agreement: no two nodes pass different blocks of the same height to    *)
(* Consensus::commit (handle_commit), and no node commits two blocks of a *)
(* height.                                                                 *)
(***************************************************************************)
Agreement ==
    \A n1, n2 \in Node : \A c1 \in commits[n1], c2 \in commits[n2] :
        c1[1] = c2[1] => c1[2] = c2[2]

(***************************************************************************)
(* No node signs two different blocks as the same kind of message for the *)
(* same height and round: handle_new_round signs one proposal per round,  *)
(* and handle_vote_event signs the one vote the state machine throws per  *)
(* step, with the State's own height and round.  Another vote signed for  *)
(* a round the node has voted in is a double vote that other nodes cannot *)
(* tell from a byzantine one.                                              *)
(***************************************************************************)
NoEquivocation ==
    \A n \in Node : \A x, y \in signed[n] :
        x.kind = y.kind /\ x.height = y.height /\ x.round = y.round => x.hash = y.hash

(***************************************************************************)
(* Once a leader has formed a precommit QC for a block in a round, every  *)
(* prevote QC of that height in the same or a later round is for the same *)
(* block: the locks of the precommitting quorum (handle_prevote, and the  *)
(* PoLC of handle_new_round and handle_proposal) keep any other block     *)
(* from gathering a polka.  This is the step of the safety argument that   *)
(* the precommit and the proposal paths of the code must jointly keep.    *)
(***************************************************************************)
PolkaAfterPrecommitQC ==
    \A pc, pv \in AllQCs :
        /\ pc.vtype = "Precommit" /\ pv.vtype = "Prevote"
        /\ pv.height = pc.height /\ pv.round >= pc.round
        => pv.hash = pc.hash

(***************************************************************************)
(* No WAL save goes back to an earlier height, or to an earlier round of  *)
(* the same height, so a restart never restores a state older than one    *)
(* the node has saved: handle_new_round, vote_process, handle_vote_event  *)
(* and handle_commit save the State's height and round, which             *)
(* start_with_wal restores, while the state machine's handlers may lower  *)
(* their own round (handle_prevote, check_polc).                          *)
(***************************************************************************)
WalNeverBackwards ==
    [][\A n \in Node :
          wal[n] /= None /\ wal'[n] /= wal[n] =>
              \/ wal'[n].height > wal[n].height
              \/ wal'[n].height = wal[n].height /\ wal'[n].round >= wal[n].round]_vars

(***************************************************************************)
(* Every node eventually commits a block of the first height: a round     *)
(* whose proposal reaches every node ends with the leader's precommit QC  *)
(* at every node and a commit (handle_aggregated_vote, handle_resp,       *)
(* handle_precommit, handle_commit), whatever the order of QCs, votes and *)
(* block checks.                                                           *)
(***************************************************************************)
EveryNodeCommits == <>(\A n \in Node : commits[n] /= {})

\* No proposal is in flight to a node that has not started its first height.
StartedBeforeProposal ==
    [](\A m \in msgs : m.kind = "SignedProposal" => height[m.to] > INIT_HEIGHT)

(***************************************************************************)
(* Liveness of a round without timeouts, when every node has started      *)
(* before the leader's proposal reaches it.                                *)
(***************************************************************************)
CommitWhenStarted == StartedBeforeProposal => EveryNodeCommits

(***************************************************************************)
(* A state machine's lock, outside the commit step, is backed by a prevote *)
(* QC of the lock's round and hash that its State holds: the round the    *)
(* State passes with a PrevoteQC trigger (handle_signed_vote,             *)
(* handle_aggregated_vote, handle_resp, vote_process) is the QC's round.  *)
(***************************************************************************)
LockJustified ==
    \A n \in Node :
        smLock[n] /= None /\ smStep[n] /= Commit =>
            QC("Prevote", smHeight[n], smLock[n].round, smLock[n].hash) \in qcs[n]

=============================================================================
