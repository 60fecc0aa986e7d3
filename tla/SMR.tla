--------------------------------- MODULE SMR ---------------------------------
(***************************************************************************)
(* The newer driver of src/smr.rs: one SMR task per node that selects     *)
(* over four channels (SMR::run, smr.rs:119-145): network messages, the   *)
(* results of block execution, the results of full-block fetches and     *)
(* timeouts.  Each handler runs whole in one step, and a handler that     *)
(* fails on `?` keeps what it changed before the failing call.            *)
(*                                                                         *)
(* StateInfo, Cabinet, AuthManage and ProposePrepare are used by smr.rs   *)
(* but their source is not in src/; their operations are modelled from    *)
(* spec.md (sections 4.2-4.4).  Nothing in smr.rs sends a SignedChoke,    *)
(* and handle_timeout does nothing, so no reachable step changes the      *)
(* round: every height runs in round 0, and the round is left out.        *)
(*                                                                         *)
(* A node's whole state is one record, so that a handler is an operator   *)
(* from a record to a record plus the messages it sends, and the calls    *)
(* one handler makes to another (a QC aggregated and fed back, a commit   *)
(* that starts the next height and its round) compose as in the code.    *)
(***************************************************************************)
EXTENDS Naturals, FiniteSets, FiniteSetsExt

CONSTANTS
    Node,            \* the validators
    Weight,          \* Weight[n]: the vote weight of n
    LeaderOf,        \* LeaderOf[h]: AuthManage::get_leader(h, INIT_ROUND)
    MaxHeight,       \* the last height the model starts
    SlowHeights,     \* the outcomes of `elapsed >= interval` a height may have
    FetchFails,      \* the nodes whose full-block fetches may fail
    Genesis,         \* the hash of the block of height 0
    None

ASSUME /\ Weight \in [Node -> Nat \ {0}]
       /\ MaxHeight \in Nat \ {0}
       /\ LeaderOf \in [1..MaxHeight + 1 -> Node]
       /\ SlowHeights \subseteq BOOLEAN /\ SlowHeights /= {}
       /\ FetchFails \subseteq Node

VARIABLES
    st,       \* st[n]: the state of the SMR task of node n (a record)
    msgs,     \* messages in flight: [kind, body, to]
    sent,     \* history: every signed vote any node has sent
    booted    \* TRUE once the first round has been started

vars == <<st, msgs, sent, booted>>

HEIGHT_WINDOW == 5   \* smr.rs:40

\* Step (crate::state::Step), ordered as spec.md section 3 lists it.
Propose == 0
PreVote == 1
PreCommit == 2
Brake == 3
Commit == 4

(***************************************************************************)
(* A block is identified by its content, as its hash is: its height, the  *)
(* exec height it was built on and the hash of its parent (create_block,  *)
(* smr.rs:468-485).                                                       *)
(***************************************************************************)
Block(h, e, pre) == [height |-> h, execH |-> e, pre |-> pre]

\* StateInfo::save_wal: the StateInfo part of a node's state.
Snapshot(s) == [height |-> s.height, step |-> s.step, lock |-> s.lock,
                block |-> s.block, pcQC |-> s.pcQC]

SaveWal(s) == [s EXCEPT !.wal = Snapshot(s)]

\* What a handler returns: the node's new state and the messages it sent.
Res(s, out) == [s |-> s, out |-> out]

Msg(kind, body, to) == [kind |-> kind, body |-> body, to |-> to]

\* EventAgent::transmit to one validator, which may be the node itself.
Transmit(kind, body, to) == {Msg(kind, body, to)}

\* EventAgent::broadcast hands the message to Adapter::broadcast, which
\* reaches every validator but the sender (the repository's adapter and
\* network, tests/common/network.rs:31-45).  The driver feeds back only the
\* QCs it aggregates; the leader's proposal never reaches the leader.
Broadcast(n, kind, body) == {Msg(kind, body, d) : d \in Node \ {n}}

Vote(kind, b, voter) == [vtype |-> kind, block |-> b, voter |-> voter]
QC(kind, b) == [vtype |-> kind, block |-> b]
QCKind(kind) == IF kind = "PreVote" THEN "PreVoteQC" ELSE "PreCommitQC"

(***************************************************************************)
(* filter_msg (smr.rs:514-536) for a message of height h, in round 0 at   *)
(* both ends: "old" and "high" are dropped, "buffer" is inserted into the *)
(* Cabinet and dropped, "ok" goes on.                                     *)
(***************************************************************************)
FilterOutcome(s, h) ==
    IF h < s.height THEN "old"
    ELSE IF h > s.height + HEIGHT_WINDOW THEN "high"
    ELSE IF h > s.height THEN "buffer"
    ELSE "ok"

\* AuthCell::beyond_majority: 3 * w > 2 * total.
TotalWeight == MapThenSumSet(LAMBDA n : Weight[n], Node)
BeyondMajority(w) == 3 * w > 2 * TotalWeight

\* The cumulative weight Cabinet keeps for a (kind, block).
VoteWeight(votes, kind, b) ==
    MapThenSumSet(LAMBDA v : Weight[v.voter],
                  {v \in votes : v.vtype = kind /\ v.block = b})

------------------------------------------------------------------------------
(***************************************************************************)
(* The transitions of StateInfo (spec.md section 4.3).  Each holds only   *)
(* in the step the table names; otherwise it fails and the handler stops. *)
(***************************************************************************)
SIProposal(s, b) == [s EXCEPT !.block = b, !.step = PreVote]
SIPreVoteQC(s, b) == [s EXCEPT !.lock = b, !.block = b, !.step = PreCommit]
SIPreCommitQC(s, b) == [s EXCEPT !.pcQC = b, !.step = Commit]
SINextHeight(s) ==
    [s EXCEPT !.height = @ + 1, !.step = Propose, !.lock = None,
              !.block = None, !.pcQC = None]

\* check_proposal (smr.rs:436-451): the block extends ProposePrepare's
\* pre_hash.  Heights and hashes agree by construction, and proofs verify.
CheckProposal(s, b) == b.pre = s.preHash

\* check_block (smr.rs:453-466): the block is built on an exec height the
\* node has reached; Adapter::check_block passes.
CheckBlock(s, b) == s.execHeight >= b.execH

(***************************************************************************)
(* request_full_block (smr.rs:686-706) spawns a fetch unless the hash is  *)
(* in fetch_set; nothing inserts into fetch_set, so every request spawns  *)
(* one.  A request for a block already being fetched adds nothing the     *)
(* model can tell apart, as a second copy of a full block is idempotent.  *)
(***************************************************************************)
RequestFullBlock(s, b) == [s EXCEPT !.fetching = @ \cup {b}]

(***************************************************************************)
(* handle_signed_proposal (smr.rs:207-231): filter, check_proposal        *)
(* (pre_hash), Cabinet insert, check_block (exec height), request the     *)
(* full block, the StateInfo transition, save the WAL, and transmit a     *)
(* prevote to the proposer.  The proposal carries no lock in round 0.     *)
(***************************************************************************)
HandleSignedProposal(n, s, b) ==
    LET f == FilterOutcome(s, b.height)
        s1 == [s EXCEPT !.props = @ \cup {b}]
        s2 == RequestFullBlock(s1, b)
    IN
    IF f = "buffer" THEN Res(s1, {})
    ELSE IF f /= "ok" \/ ~CheckProposal(s, b) \/ b \in s.props THEN Res(s, {})
    ELSE IF ~CheckBlock(s1, b) THEN Res(s1, {})
    ELSE IF s2.step /= Propose THEN Res(s2, {})
    ELSE Res(SaveWal(SIProposal(s2, b)),
             Transmit("SignedPreVote", Vote("PreVote", b, n), LeaderOf[b.height]))

\* create_signed_proposal (smr.rs:487-512): a locked leader proposes its
\* locked block again; otherwise create_block builds one on the exec height
\* and pre_hash of ProposePrepare.
CreateSignedProposal(s) ==
    IF s.lock /= None THEN s.block ELSE Block(s.height, s.execHeight, s.preHash)

(***************************************************************************)
(* new_round (smr.rs:420-434): the leader creates a block on its exec    *)
(* height and pre_hash and broadcasts it (create_signed_proposal with no  *)
(* lock); any other node handles a proposal of its height it buffered.   *)
(* A height above MaxHeight is entered but not started.                   *)
(***************************************************************************)
NewRound(n, s) ==
    LET h == s.height
        ps == {p \in s.props : p.height = h}
    IN
    IF h > MaxHeight THEN Res(s, {})
    ELSE IF LeaderOf[h] = n
    THEN Res(s, Broadcast(n, "SignedProposal", CreateSignedProposal(s)))
    ELSE IF ps = {} THEN Res(s, {})
    ELSE LET p == CHOOSE x \in ps : TRUE IN
         HandleSignedProposal(n, [s EXCEPT !.props = @ \ {p}], p)

\* next_height (smr.rs:413-418).
NextHeight(n, s) == NewRound(n, SaveWal(SINextHeight(s)))

\* Mutant: ProposePrepare keeps the pre_hash it had before the commit.
PrepareHandleCommitStale(s, hash) == s
\* ProposePrepare::handle_commit (spec.md section 4.4): the next block is
\* built on the committed hash.
PrepareHandleCommit(s, hash) == [s EXCEPT !.preHash = hash]

\* save_and_exec_block (smr.rs:708-712): the block is handed to the
\* Adapter to be saved (committed) and queued for execution.
SaveAndExecBlock(s, h, b) == [s EXCEPT !.execQ = @ \cup {h}, !.committed = @ \cup {b}]

\* Cabinet::handle_commit (spec.md section 3): drop what is below the next
\* height.
CabinetHandleCommit(s, nh) ==
    [s EXCEPT !.props = {x \in @ : x.height >= nh},
              !.votes = {v \in @ : v.block.height >= nh},
              !.qcs = {q \in @ : q.block.height >= nh},
              !.full = {x \in @ : x.height >= nh}]

\* compute_timeout for the Commit stage (smr.rs:747-750):
\* `cost.checked_sub(interval)` is Some exactly when the height took at
\* least the interval.
CommitTimeoutSome(slow) == slow

\* set_timeout (smr.rs:714-724): arm a timer and return TRUE when
\* compute_timeout gives Some, FALSE otherwise.
SetCommitTimeout(slow) == CommitTimeoutSome(slow)

\* Mutant: the Cabinet is purged below the committed height, not the next.
HandleCommitPurgeCurrent(n, s, slow) ==
    LET h == s.height
        s1 == CabinetHandleCommit(
                PrepareHandleCommit(SaveAndExecBlock(s, h, s.pcQC), s.pcQC), h)
    IN
    IF LeaderOf[h + 1] /= n /\ SetCommitTimeout(slow) THEN Res(s1, {})
    ELSE NextHeight(n, s1)

(***************************************************************************)
(* handle_commit (smr.rs:372-411): send the block to execution, advance   *)
(* ProposePrepare's pre_hash, purge the Cabinet below the next height.   *)
(* A node that does not lead the next height arms the Commit timer and    *)
(* returns when compute_timeout gives Some, that is when the height took  *)
(* at least the interval (`cost.checked_sub(interval)`): slow.            *)
(***************************************************************************)
HandleCommit(n, s, slow) ==
    LET h == s.height
        nh == h + 1
        s1 == CabinetHandleCommit(
                PrepareHandleCommit(SaveAndExecBlock(s, h, s.pcQC), s.pcQC), nh)
    IN
    IF LeaderOf[nh] /= n /\ SetCommitTimeout(slow) THEN Res(s1, {})
    ELSE NextHeight(n, s1)

\* The first part of handle_pre_vote_qc and handle_pre_commit_qc: filter,
\* Cabinet insert (a QC already stored is a duplicate and dropped).
QCInsert(s, q) ==
    LET f == FilterOutcome(s, q.block.height) IN
    IF f = "buffer" THEN [ok |-> FALSE, s |-> [s EXCEPT !.qcs = @ \cup {q}]]
    ELSE IF f /= "ok" \/ q \in s.qcs THEN [ok |-> FALSE, s |-> s]
    ELSE [ok |-> TRUE, s |-> [s EXCEPT !.qcs = @ \cup {q}]]

(***************************************************************************)
(* handle_pre_vote_qc (smr.rs:310-336): with the full block, lock it,     *)
(* save the WAL and transmit a precommit to the leader.                   *)
(***************************************************************************)
HandlePreVoteQC(n, s, q) ==
    LET r == QCInsert(s, q)  b == q.block IN
    IF ~r.ok \/ b \notin r.s.full \/ r.s.step /= PreVote THEN Res(r.s, {})
    ELSE Res(SaveWal(SIPreVoteQC(r.s, b)),
             Transmit("SignedPreCommit", Vote("PreCommit", b, n), LeaderOf[b.height]))

\* handle_pre_commit_qc (smr.rs:338-359): with the full block, save the
\* WAL and commit.
HandlePreCommitQC(n, s, q, slow) ==
    LET r == QCInsert(s, q)  b == q.block IN
    IF ~r.ok \/ b \notin r.s.full \/ r.s.step /= PreCommit THEN Res(r.s, {})
    ELSE HandleCommit(n, SaveWal(SIPreCommitQC(r.s, b)), slow)

(***************************************************************************)
(* handle_signed_pre_vote and handle_signed_pre_commit (smr.rs:233-283):  *)
(* filter, Cabinet insert; when the insert takes the (kind, block) beyond *)
(* majority, aggregate a QC, broadcast it and feed it back.  A vote of a  *)
(* higher height is inserted while buffering, and its weight counts.      *)
(***************************************************************************)
HandleSignedVote(n, s, v, slow) ==
    LET f == FilterOutcome(s, v.block.height)
        s1 == [s EXCEPT !.votes = @ \cup {v}]
        crossed == /\ ~BeyondMajority(VoteWeight(s.votes, v.vtype, v.block))
                   /\ BeyondMajority(VoteWeight(s1.votes, v.vtype, v.block))
        q == QC(v.vtype, v.block)
        r == IF v.vtype = "PreVote" THEN HandlePreVoteQC(n, s1, q)
             ELSE HandlePreCommitQC(n, s1, q, slow)
    IN
    IF f = "buffer" THEN Res(s1, {})
    ELSE IF f /= "ok" \/ v \in s.votes \/ ~crossed THEN Res(IF f = "ok" THEN s1 ELSE s, {})
    ELSE Res(r.s, Broadcast(n, QCKind(v.vtype), q) \cup r.out)

------------------------------------------------------------------------------
\* handle_msg (smr.rs:147-175): dispatch on the message kind.
Handle(n, s, m, slow) ==
    CASE m.kind = "SignedProposal" -> HandleSignedProposal(n, s, m.body)
      [] m.kind \in {"SignedPreVote", "SignedPreCommit"} -> HandleSignedVote(n, s, m.body, slow)
      [] m.kind = "PreVoteQC" -> HandlePreVoteQC(n, s, m.body)
      [] m.kind = "PreCommitQC" -> HandlePreCommitQC(n, s, m.body, slow)

VoteKinds == {"SignedPreVote", "SignedPreCommit"}

\* The from_net branch of SMR::run: a message reaches its node, in any order.
Deliver(m) ==
    /\ m \in msgs
    /\ \E slow \in SlowHeights :
          LET r == Handle(m.to, st[m.to], m, slow) IN
          /\ st' = [st EXCEPT ![m.to] = r.s]
          /\ msgs' = (msgs \ {m}) \cup r.out
          /\ sent' = sent \cup {x.body : x \in {y \in r.out : y.kind \in VoteKinds}}
    /\ UNCHANGED booted

(***************************************************************************)
(* The from_fetch branch: handle_fetch (smr.rs:181-194).  A fetch of an   *)
(* older height fails the height check; otherwise the full block goes     *)
(* into the Cabinet.  Nothing re-handles a QC that waited for the block.  *)
(***************************************************************************)
HandleFetch(n, b) ==
    /\ b \in st[n].fetching
    /\ st' = [st EXCEPT ![n].fetching = @ \ {b},
                        ![n].full = IF b.height < st[n].height THEN @ ELSE @ \cup {b}]
    /\ UNCHANGED <<msgs, sent, booted>>

(***************************************************************************)
(* A failed fetch: EventAgent::handle_fetch (smr.rs:671-684) takes the    *)
(* hash out of fetch_set and returns net_fetch, which SMR::run logs.       *)
(* Nothing requests the block again.                                       *)
(***************************************************************************)
HandleFetchError(n, b) ==
    /\ n \in FetchFails
    /\ b \in st[n].fetching
    /\ st' = [st EXCEPT ![n].fetching = @ \ {b}]
    /\ UNCHANGED <<msgs, sent, booted>>

(***************************************************************************)
(* The from_exec branch: handle_exec_result (smr.rs:177-179).  The        *)
(* executor takes its requests from an unbounded channel in order, so the *)
(* result of the lowest requested height arrives first, and exec_height   *)
(* becomes that height.                                                   *)
(***************************************************************************)
HandleExecResult(n) ==
    /\ st[n].execQ /= {}
    /\ LET h == Min(st[n].execQ) IN
       st' = [st EXCEPT ![n].execQ = @ \ {h}, ![n].execHeight = h]
    /\ UNCHANGED <<msgs, sent, booted>>

(***************************************************************************)
(* SMR::new and SMR::run start no round: new_round is reached only from   *)
(* handle_choke_qc and next_height.  Bootstrap is the start spec.md       *)
(* (section 8, scenario 1) describes: the leader of the first height      *)
(* runs new_round, once.                                                  *)
(***************************************************************************)
Bootstrap ==
    /\ ~booted
    /\ LET l == LeaderOf[1]  r == NewRound(l, st[l]) IN
       /\ st' = [st EXCEPT ![l] = r.s]
       /\ msgs' = msgs \cup r.out
    /\ booted' = TRUE
    /\ UNCHANGED sent

\* SMR::new on an empty WAL: recover_state_by_adapter and
\* recover_propose_prepare_and_config with the genesis block (height 0) as
\* the latest, an empty Cabinet.  StateInfo::from_height is taken to start
\* consensus at the height after the latest block.
InitState ==
    [height |-> 1, step |-> Propose, lock |-> None, block |-> None, pcQC |-> None,
     wal |-> [height |-> 1, step |-> Propose, lock |-> None, block |-> None, pcQC |-> None],
     props |-> {}, votes |-> {}, qcs |-> {}, full |-> {}, fetching |-> {},
     execQ |-> {}, execHeight |-> 0, preHash |-> Genesis, committed |-> {}]

Init ==
    /\ st = [n \in Node |-> InitState]
    /\ msgs = {}
    /\ sent = {}
    /\ booted = FALSE

Next ==
    \/ Bootstrap
    \/ \E m \in msgs : Deliver(m)
    \/ \E n \in Node : \/ \E b \in st[n].fetching : HandleFetch(n, b) \/ HandleFetchError(n, b)
                       \/ HandleExecResult(n)

Spec == Init /\ [][Next]_vars

------------------------------------------------------------------------------
\* The blocks of each height, and every message the nodes can send.
BlocksAt[h \in 1..MaxHeight] ==
    IF h = 1 THEN {Block(1, 0, Genesis)}
    ELSE {Block(h, e, p) : e \in 0..h - 1, p \in BlocksAt[h - 1]}
Blocks == UNION {BlocksAt[h] : h \in 1..MaxHeight}
Votes == {Vote(k, b, v) : k \in {"PreVote", "PreCommit"}, b \in Blocks, v \in Node}
QCs == {QC(k, b) : k \in {"PreVote", "PreCommit"}, b \in Blocks}
MsgSpace ==
    {Msg("SignedProposal", b, d) : b \in Blocks, d \in Node}
    \cup {Msg(IF v.vtype = "PreVote" THEN "SignedPreVote" ELSE "SignedPreCommit", v, d) :
           v \in Votes, d \in Node}
    \cup {Msg(QCKind(q.vtype), q, d) : q \in QCs, d \in Node}

(***************************************************************************)
(* Fairness.  The select loop of SMR::run polls all four channels, the    *)
(* channels are unbounded, and the network is reliable: every message in  *)
(* flight is eventually handled, every fetch eventually ends (in success, *)
(* or in failure at a node of FetchFails), every execution result is      *)
(* eventually handled, and the first round is started.                    *)
(***************************************************************************)
Fairness ==
    /\ WF_vars(Bootstrap)
    /\ \A m \in MsgSpace : WF_vars(Deliver(m))
    /\ \A n \in Node : /\ WF_vars(HandleExecResult(n))
                     /\ \A b \in Blocks : WF_vars(HandleFetch(n, b) \/ HandleFetchError(n, b))

FairSpec == Spec /\ Fairness

------------------------------------------------------------------------------
\* StateInfo's part of a node's state, or the WAL: the blocks it holds are
\* of its height.
StateSnapOK(w) ==
    /\ w.height \in 1..MaxHeight + 1
    /\ w.step \in {Propose, PreVote, PreCommit, Commit}
    /\ \A f \in {"lock", "block", "pcQC"} :
         w[f] = None \/ (w[f] \in Blocks /\ w[f].height = w.height)

\* The type of a node's state.  Cabinet holds nothing below the node's
\* height (spec.md section 3: entries of a height are purged on the move to
\* the next).
TypeOK ==
    /\ msgs \subseteq MsgSpace
    /\ sent \subseteq Votes
    /\ booted \in BOOLEAN
    /\ \A n \in Node :
         LET s == st[n] IN
         /\ StateSnapOK(Snapshot(s)) /\ StateSnapOK(s.wal)
         /\ s.props \subseteq Blocks /\ s.full \subseteq Blocks /\ s.fetching \subseteq Blocks
         /\ s.votes \subseteq Votes /\ s.qcs \subseteq QCs
         /\ \A x \in s.props \cup s.full : x.height >= s.height
         /\ \A x \in s.votes \cup s.qcs : x.block.height >= s.height
         /\ s.execQ \subseteq 1..MaxHeight /\ s.execHeight \in 0..MaxHeight
         /\ s.committed \subseteq Blocks

(***************************************************************************)
(* The SMR driver implements CommitChain: the blocks passed to             *)
(* save_and_exec_block form one chain, committed by every node in height  *)
(* order.  The refinement mapping reads the chain off the nodes' commits  *)
(* and a node's log off its commits, ordered by height.  It               *)
(* relies on handle_commit committing the StateInfo's precommit QC, on     *)
(* check_proposal comparing with the pre_hash that ProposePrepare moved   *)
(* at the last commit, and on quorums of one height meeting.              *)
(***************************************************************************)
CommittedAt(h) == {b \in UNION {st[n].committed : n \in Node} : b.height = h}

Chain == INSTANCE CommitChain WITH
    NoBlock <- None,
    chain <- [h \in 1..MaxHeight |->
                IF CommittedAt(h) = {} THEN None ELSE CHOOSE b \in CommittedAt(h) : TRUE],
    log <- [n \in Node |-> [i \in 1..Cardinality(st[n].committed) |->
                CHOOSE b \in st[n].committed : b.height = i]]

ImplementsCommitChain == Chain!Spec

------------------------------------------------------------------------------
\* Liveness, under Fairness.
(***************************************************************************)
(* A node that reached Commit at height h eventually moves to a higher    *)
(* height (spec.md section 4.5: the next height starts after              *)
(* max(0, interval - elapsed)).  handle_commit returns when set_timeout   *)
(* arms the Commit timer, and handle_timeout ignores NextHeightTimeout.   *)
(***************************************************************************)
CommitEndsHeight ==
    \A n \in Node : \A h \in 1..MaxHeight :
        (st[n].height = h /\ st[n].step = Commit) ~> st[n].height > h

(***************************************************************************)
(* No node holds a proposal of its height, in Propose, on an exec height  *)
(* it has reached, without having prevoted for it.  Such a proposal is    *)
(* stranded: check_block dropped it after Cabinet::insert kept it, and no *)
(* handler reads a stored proposal of the current round again             *)
(* (handle_exec_result only updates ProposePrepare; new_round runs at the *)
(* next height).  Stated as a state invariant because the state is final  *)
(* for the proposal: nothing can make the node prevote for it.            *)
(***************************************************************************)
NoStrandedProposal ==
    \A n \in Node : \A b \in st[n].props :
        ~(/\ b.height = st[n].height /\ st[n].step = Propose
          /\ st[n].execHeight >= b.execH
          /\ Vote("PreVote", b, n) \notin sent)

(***************************************************************************)
(* No node holds, at the step that waits for it, a QC of its height whose *)
(* full block it already has.  spec.md:149 says a fetch result completes  *)
(* the deferred transition when a QC for the hash is present, but         *)
(* handle_fetch (smr.rs:181-194) only stores the block, and the QC, once *)
(* in the Cabinet, is a duplicate to every later delivery.  The same      *)
(* state arises from a QC that filter_msg buffered while the node was a   *)
(* height below, and from a precommit QC that came before the prevote QC. *)
(* Nothing reads such a QC again, so the state is final for it.           *)
(***************************************************************************)
NoStrandedQC ==
    LET waitsFor == [s \in {PreVote, PreCommit} |->
                        IF s = PreVote THEN "PreVote" ELSE "PreCommit"]
    IN \A n \in Node : \A q \in st[n].qcs :
        ~(/\ st[n].step \in {PreVote, PreCommit}
          /\ q.vtype = waitsFor[st[n].step]
          /\ q.block.height = st[n].height
          /\ q.block \in st[n].full)

====
