# TLA+ models of Overlord

These are TLA+ models of the Overlord BFT consensus engine in `src/`, checked with TLC.
Each module is translated from the Rust source. The `map` of `PROJECT.json` names the lines
behind every definition.

## The system

The older engine that `src/` still carries has two tasks per node. They are joined by two
unbounded channels.

* **State** (`src/state/process.rs`) is a task that selects over three inputs (`run`, lines 118-134):
  * network messages (`handle_msg`: SignedProposal, SignedVote, AggregatedVote, RichStatus);
  * events from the state machine (`handle_event`: NewRoundInfo, PrevoteVote, PrecommitVote,
    Commit);
  * answers to the block checks it spawned (`handle_resp`).

  State holds the height and round, the leader flag, the proposals, votes and QCs it collected,
  the blocks and which blocks are checked ("full"), and the last commit QC. It also saves a WAL.
  In each round the leader counts votes (`counting_vote`), forms a QC, broadcasts it, and
  triggers its state machine.
* **SMR state machine** (`src/smr/state_machine.rs`) owns height, round, step, block hash and
  lock. It reacts to triggers (NewHeight, Proposal, PrevoteQC, PrecommitQC, from State or from
  the timer) by applying the PoLC rules, and it throws events back. `check()` is its self check.
* The **collectors, AuthorityManage and the timer** are used by `process.rs`, but their source
  is not in this repository. They are modelled from their use (see "Not modelled").
* `src/smr.rs` is a newer, unfinished driver, not wired to the code above. One `SMR` task per
  node selects over four channels: network messages, execution results, full-block fetches and
  timeouts. It uses StateInfo (the step machine), Cabinet (the message store), AuthManage and
  ProposePrepare (the exec pipeline), whose source is not in this repository.

## Modules

| module | models | state | actions |
|---|---|---|---|
| `VoteCounting` | `counting_vote` and the counting half of `handle_signed_vote` | the vote map of one (height, round, type); the QC result | `HandleSignedVote` |
| `StateMachine` | `state_machine.rs`, one replica per node | `smHeight smRound smStep smBlockHash smLock`, the event channel `smEvents` | `HandleNewHeight`, `HandleProposal`, `HandlePrevote`, `HandlePrecommit` (dispatch `SMHandleTrigger` = `poll_next`), `TimerExpires` |
| `Overlord` | `process.rs` composed with `StateMachine` and a network | the `State` fields per node, `wal`, pending block checks `verifyResp`, committed blocks `commits`, messages in flight `msgs`, the ghost history `signed` of what each node signed, `down`/`crashes` | `DeliverMsg` (`handle_msg`), `HandleEvent` (`handle_event`), `ReceiveResp` (`handle_resp`), `Timeout`, `Crash`, `StartWithWal` (`start_with_wal`) |
| `SMR` | `smr.rs` | one record `st[n]` per node: StateInfo's height, step, lock, block and precommit QC, the saved `wal`, Cabinet's proposals, votes, QCs and full blocks, pending fetches `fetching`, the exec queue `execQ`, ProposePrepare's `execHeight` and `preHash`, commits; messages in flight `msgs`; the history `sent` of signed votes | `Deliver` (`handle_msg`), `HandleFetch`, `HandleFetchError` (the error arm of `EventAgent::handle_fetch`), `HandleExecResult`, `Bootstrap` |
| `CommitChain` | what the commits promise the application behind `save_and_exec_block` (abstract) | the decided `chain`, each node's sequence of commits `log` | `CommitNext` |
| `MC_VoteCounting`, `MC_Overlord`, `MC_SMR` | TLC instances | weights, proposer order, block values, bounds | |
| `MC_Units` | `VoteCounting` and `StateMachine` side by side, for one run | both modules' variables; they share none | `UnitNext`: a step of either |

Helpers named after the code's private functions keep one idea each and are mapped to those
functions:
* in `StateMachine`: `SMGotoNewHeight` (`goto_new_height`), `NextRound` (`goto_next_round`),
  `PolcFork` and `CheckPolc` (`check_polc`);
* in `Overlord`: `CheckBlock` (`check_block`), `LeaderAfter` (`is_proposer`).

`CheckBlock` records the `VerifyResp` that the spawned check sends when
`Consensus::check_block` passes. A failed check sends nothing. In the safety runs that outcome
is already covered, because no answer is ever forced to arrive. The liveness run assumes the
adapter's check passes.

Each handler is one step of the model. It runs whole, including its WAL save and its
broadcast. A handler that fails on `?` keeps the changes made before the failing call, as the
code does. For example, `HandleNewRound` sets the round before `WalLockOf` can fail.

`VoteCounting` walks the vote map recursively (`CountWalk`), over every order `SetToSeqs`
gives, with the 8-bit accumulator of the code. `CountingVote` is the set of results the
program can return. `ReferenceCount` is the spec's `beyond_majority`. `Overlord` uses
`VoteCounting` through `INSTANCE` for the leader's counting.

### Synchronous triggers

In the code, State writes a trigger to the state machine's channel and the machine handles it
later. In the model, the machine handles it in the same step (`SendTrigger`). That is sound for
the properties here, for three reasons:
* the machine reads its channel in FIFO order and reacts to nothing else;
* State observes the machine only through its events, and the events still queue (`smEvents`)
  for `HandleEvent` to take in order;
* a timer trigger that fires for a step the machine has already left is ignored by the step
  guards of the handlers (`smStep > ...`).

A delayed trigger therefore only delays events that State may leave unread anyway. This cuts
the state space by a factor of about 40.

### The SMR driver

In `SMR` each handler of `smr.rs` is an operator from a node's record to a new record plus the
messages it sends (`Res`). The handlers call one another as the code does:
* `HandleSignedVote` aggregates a QC when the insert crosses the threshold, broadcasts it and
  feeds it to `HandlePreVoteQC` or `HandlePreCommitQC`;
* `HandlePreCommitQC` runs `HandleCommit`, which runs `NextHeight` and then `NewRound`;
* `NewRound` proposes as leader, or runs `HandleSignedProposal` on a buffered proposal.

`Broadcast` sends to every validator but the sender, as the repository's adapter and test
network do (tests/common/network.rs:31-45); a node's own QCs reach it only through the direct
call in `HandleSignedVote`. `Deliver(m)` applies the whole chain to `st[m.to]` in one step. A handler that fails on `?`
keeps what it changed before the failure. For example, `HandleSignedProposal` keeps the
Cabinet insert when `check_block` fails.

Some parts of `smr.rs` cannot be reached, so they are left out:
* nothing sends a `SignedChoke`;
* `handle_timeout` does nothing;
* so every height runs in round 0.

The Commit timer of `compute_timeout` is the choice `slow` from `SlowHeights`. A non-leader of
the next height that was `slow` returns and waits for the timer.

The code starts no round on its own. `Bootstrap` is the start that spec scenario 1 describes:
the first leader runs `new_round`, once. The executor answers in
request order (`HandleExecResult` takes the lowest queued height).

A proposal passes `CheckProposal` (its parent is ProposePrepare's `pre_hash`) and
`CheckBlock` (its exec height is reached) before `RequestFullBlock` adds it to `fetching`. A
fetch ends in `HandleFetch`, which stores the block, or, for a node in `FetchFails`, in
`HandleFetchError`, which only forgets the request, as the error arm of
`EventAgent::handle_fetch` does. Nothing requests the block again.

StateInfo's transitions, Cabinet's insert and `beyond_majority` are modelled from spec.md
sections 4.2-4.4. Those definitions are marked spec_modelled in the map.

### The abstract commit chain, and the refinement

`CommitChain` says what a consensus engine promises the application: one chain. A node commits
its heights in order. The first commit of a height decides it, and the block must extend the
block decided one height below (`Genesis` at height 1). Every later commit of that height must
be the decided block.

`SMR` implements it. `SMR.tla` instantiates it as `Chain` with a refinement mapping:
* `chain[h]` is a block of height h in the union of the nodes' `committed`, if there is one;
* `log[n]` is node n's `committed`, ordered by height.
`ImplementsCommitChain == Chain!Spec` is a property of `smr_safety`. A commit step of the
code must be a `CommitNext` of the abstract spec. So a node commits its heights in order, a
block committed at a decided height is the decided block (two nodes disagreeing make the
commit step of the second one fail), and the block that decides a height extends the block
decided below it. The last is the job of `PrepareHandleCommit`, which moves `pre_hash` to the
committed block before the next proposal is built; the mutant that leaves `pre_hash` as it
was breaks the refinement in a few seconds.

### Crash and restart

`Crash(n)` stops a node in `Crashable`, at most `MaxCrashes` times in all. Its State and state
machine return to what `State::new` and `StateMachine::new` give (`SMReset`). It loses its
pending block checks and the messages queued for it. What survives: the WAL, the blocks it
passed to `Consensus::commit`, and the RichStatus the adapter resends. A crashed node takes no
step until `StartWithWal(n)` runs `start_with_wal` on its WAL:
* no WAL: the node waits for a RichStatus;
* no lock: height and round are restored, and the state machine gets the WAL through
  `handle_wal` (`HandleWal`). `set_timer_after_wal` throws the event of the restored step;
* a lock at Propose (`RestartPropose`): a leader re-broadcasts the locked block and triggers
  the machine with it (`HandleWalThenProposal`);
* a lock at Prevote or Precommit (`RestartVote`): the node signs the lock's QC as a prevote
  of the current round (`qc.to_vote()`) and sends it, or counts it if it leads;
* Commit (`RestartCommit`): `handle_commit` runs again on the lock's QC.

`ToSMRBase` is `to_smr_base` and `to_lock`. A start that fails ends the process, and the node
stays down. The crash runs use no VIEW, because the WAL is read back.

### Fairness

`FairSpec` adds weak fairness on every branch of the `run` select loop
(process.rs:118-134) for every node: a message delivered to it, its next state machine event,
a block-check answer, a timer, and the restart. `futures::select!` polls every ready branch,
and the channels are unbounded, so a branch that stays enabled is taken eventually. Timers are
weakly fair too, but the liveness run lets no timer expire (`Timeouts = {}`), which models a
round that is fast enough.

## Runs

| run | cfg | expect | properties | what it shows |
|---|---|---|---|---|
| `vote_counting_overflow` | `VoteCounting_overflow.cfg` | violation | `CountingAgreesWithMajority` | With weights 1,1,100,200, the quorum {100, 200} sums to 300. A release build wraps that to 44 and misses the QC (finding below). |
| `units` | `Units.cfg` | pass | `SMTypeOK`, `SelfCheckHolds`, `LockMatchesProposal` | 369k states, about 30 s; the product of the two unit models, with vote counting run at small weights and checked only by `vote_counting_overflow`. State machine: one machine, fed any State trigger of heights 1-2, rounds 0-2 and two blocks, with every timeout, never reaches a state its own `check()` rejects, and its lock always agrees with its proposal outside Commit, although `check()` tests that only at height 0. |
| `overlord_safety` | `Overlord_safety.cfg` | pass | `TypeOK`, `Agreement`, `PolkaAfterPrecommitQC`, `LockJustified` | 1.65M states, about 2 minutes: three honest nodes, skewed weights, one height, rounds 0-1. No two nodes commit different blocks. No prevote QC of a later round goes against a precommit QC. Every lock is backed by a prevote QC the node holds. |
| `overlord_crash` | `Overlord_crash.cfg` | pass | `LockJustified`, `WalNeverBackwards` | 1.57M states, about 2.5 minutes: n1 crashes once, at any point of rounds 0-1, and restarts from its WAL. The locks it restores are backed by QCs, and no WAL save moves it back in height or round. |
| `crash_equivocation` | `Overlord_crash_equivocation.cfg` | violation | `NoEquivocation` | A leader that crashes after its proposal signs a second proposal of another block for the same round. |
| `crash_selfcheck` | `Overlord_crash_selfcheck.cfg` | violation | `SelfCheckHolds` | `handle_wal` restores a Prevote-step WAL of round 0 with a lock, a state `check()` rejects. |
| `crash_agreement` | `Overlord_crash_agreement.cfg` | violation | `Agreement` | 678k states, 40 s, with crashes explored only after some commit (`CrashAfterCommitBound`): n3 locks through `handle_aggregated_vote`, precommits, crashes before any WAL save of the lock, restarts unlocked, and helps commit another block in round 1. |
| `smr_safety` | `SMR_safety.cfg` | pass | `TypeOK`, `ImplementsCommitChain` | 51k states, about 60 s: four SMR nodes of weights 1, 1, 3, 3 over three heights, any order of messages, fetches and execution results, both outcomes of the Commit timer, and n4's fetches may fail. The commits implement `CommitChain`. |
| `smr_commit_timer` | `SMR_commit_timer.cfg` | violation | `CommitEndsHeight` | A non-leader whose height was slow waits for a Commit timer that `handle_timeout` ignores, and never leaves the height. |
| `smr_exec_lag` | `SMR_exec_lag.cfg` | violation | `NoStrandedProposal` | At height 3 follower n4, which has not executed height 1, drops the leader's proposal in `check_block`. It never prevotes for it, not even after executing. |
| `smr_fetch_race` | `SMR_fetch_race.cfg` | violation | `NoStrandedQC` | Follower n2 receives the prevote QC of height 1 before its full-block fetch returns. `handle_fetch` stores the block and stops, so n2 stays in PreVote holding both. |
| `overlord_liveness` | `Overlord_liveness.cfg` | pass | `CommitWhenStarted` | 40k states, under `FairSpec`, round 0, no timer expiring: if every node had its RichStatus before a proposal reached it, every node commits. |

Properties:
* `Agreement`: the commits of each height agree across nodes.
* `PolkaAfterPrecommitQC`: once a precommit QC for B exists in round r, every prevote QC of
  round r or later at that height is for B. This is the step of the safety argument that the
  PoLC rules of `handle_proposal`, `handle_prevote` and `handle_new_round` must keep together.
* `LockJustified`: the round State passes with a PrevoteQC trigger is the round of a prevote
  QC it holds. `handle_resp` passes `self.round` and guards it with `qc.round == self.round`.
* `SelfCheckHolds` and `LockMatchesProposal`: the state machine's own consistency, under any
  trigger order.
* `WalNeverBackwards` (action property): a WAL save never replaces a WAL by one of a lower
  height, or of the same height and a lower round. A restart must resume where the node was.
* `NoEquivocation`: a node never signs two proposals, or two votes of one type, for different
  blocks in the same height and round. `signed` is a ghost history, and it survives crashes.
* `CommitWhenStarted` (liveness): `StartedBeforeProposal => <>(every node has committed)`.
* `SMR` properties:
  * `ImplementsCommitChain` (temporal): the refinement described above.
  * `TypeOK`: types the record, and requires that StateInfo's blocks are of its height and
    that the Cabinet holds nothing below it.
  * `CommitEndsHeight` (liveness under `FairSpec`): a node at Commit of height h eventually
    reaches a higher height.
  * `NoStrandedProposal`: no node holds a proposal of its height, on an exec height it has
    reached, without prevoting for it. It is a state invariant because such a proposal is
    never handled again.
  * `NoStrandedQC`: no node holds, at the step that waits for it, a QC of its height whose full
    block it has. Such a QC is never read again: `handle_fetch` does not replay it, and any
    re-delivery is a duplicate. The same state follows from a QC that `filter_msg` buffered a
    height early.

Every property of a passing run has a mutant in `PROJECT.json`. Each mutant replaces a
definition with a plausible bug, and TLC finds the property violated:

| mutant | plausible bug | property violated |
|---|---|---|
| `ProposalPolcIgnoreLock` | a locked node adopts a proposal without a higher PoLC | `Agreement` (about 60 s), `PolkaAfterPrecommitQC` |
| `RespPrevoteAnyRound` | `handle_resp` drops its round check | `LockJustified` |
| `IsEmptyHashNever` | the empty-hash check is dropped | `TypeOK` (a vote for no block) |
| `UpdatePolcStaleHash` | `update_polc` locks the old block hash | `SMTypeOK` |
| `PrevoteTimeoutHashKept` | a prevote timeout without a lock keeps the block hash | `SelfCheckHolds` |
| `ProposalPolcKeepLock` | a higher PoLC adopts the hash but keeps the lock | `LockMatchesProposal` |
| `ToSMRBaseWalRound` | `to_lock` takes the WAL's round as the lock round | `LockJustified` (crash run) |
| `RestoreHeightOnly` | `start_with_wal` restores the height but not the round | `WalNeverBackwards` |
| `StalePrevoteQCOrEqual` | `handle_aggregated_vote` also drops a prevote QC of its own round | `CommitWhenStarted` |
| `HandleCommitPurgeCurrent` | `handle_commit` purges the Cabinet below the committed height instead of the next | `TypeOK` (SMR: the Cabinet keeps messages of a finished height) |
| `PrepareHandleCommitStale` | `handle_commit` leaves ProposePrepare's `pre_hash` as it was | `ImplementsCommitChain` (a block built on the previous parent) |

## Bounds, and why they are enough

`MC_Overlord` and `Overlord_safety.cfg` set these bounds:
* **Nodes.** Three nodes with weights n1=1, n2=1, n3=2. The quorum is more than 8/3, so 3 of
  the total 4. Any quorum is n3 plus one other node, and two quorums can meet in n3 alone. So
  one node's lock is all that keeps a second block from a quorum: exactly the case the PoLC
  rules exist for. With equal weights, every quorum is all three nodes, and no lock bug can be
  observed.
* **Proposers.** Round-robin over `<<n3, n2, n1>>`, so n2 proposes round 0 and n1 proposes
  round 1.
* **Heights and rounds.** `MaxHeight = 1`, `MaxRound = 1`. Two rounds are the least that lets a
  lock taken in round 0 meet a new proposal in round 1.
* **Blocks.** Two blocks per height, symmetric (`BlockSymmetry`).
* **Timeouts** (`MCTimeouts`). Every node's precommit timeout may expire, and so may the
  prevote timeout of n1, the round-1 proposer. That lets n1 enter round 1 unlocked and propose
  a new block while n3 holds a lock. Further prevote timeouts add nothing to that scenario and
  put the run out of reach.
* **Message and queue caps** (`InFlightBound`). At most 4 messages in flight, and at most one
  SMREvent waiting. These cap how far the nodes run ahead of delivery; each round's
  broadcasts (2 messages) and votes still fit.
* **VIEW.** `NoWalView` leaves out the WAL, which nothing reads back without a restart.

All three mutants of the Overlord run are found under these bounds. For example, the
`Agreement` counterexample runs as follows:
1. In round 0, n2 and n3 precommit block B, and n2 commits it.
2. n1's prevote and precommit timeouts take it unlocked into round 1.
3. n1 proposes block C in round 1, and n3 abandons its lock on B.

The model stops where the bounds stop it: a new height above `MaxHeight` is not started and
no precommit timeout fires in the last round. Those stops are final states of the bounded
model, not deadlocks of the code, so the Overlord runs set `CHECK_DEADLOCK FALSE`. `units`
checks deadlock.

The crash runs have their own bounds, to fit the time limit. `overlord_crash` lets only n1
crash, once, with at most 2 non-RichStatus messages in flight (`InFlightBound2`): with every
node crashable, the run takes 9 minutes. `crash_agreement` lets n3, the heavy node, crash.
It needs n3's propose, prevote and precommit timeouts (`MCTimeoutsCrash`), so that the
restarted n3 can reach round 1. The other two crash violations need only round 0.

The liveness run uses no SYMMETRY, CONSTRAINT or VIEW: a constraint cuts behaviours, so they
would seem to stutter, and symmetry is unsound for liveness checking. It is kept small by
round 0 and no timer. The round-0 case is the interesting one: a commit then needs every
proposal, vote, QC and block-check answer to reach its handler.

`MC_SMR` has two node sets. Three nodes of weights 1, 2, 3 (`MCWeight`) serve the one-height
runs: a quorum needs more than 4 of 6, so n2 and n3 together. Four nodes of weights 1, 1, 3, 3
(`MCWeight4`) serve the three-height runs. Leaders are round-robin, n1, n2, n3 (, n4). Because
broadcast skips the sender, a height's leader never handles its own proposal and stays at that
height (see "Observed while modelling"). With three nodes, the leaders of heights 1 and 2 are
then two of three and height 3 cannot commit. With four, n3 and n4 weigh 6 of 8, a quorum, so
heights 2 and 3 are reached while n1 and n2 stay behind.

`smr_safety` runs three heights, so a commit is followed by a new height: `next_height`, the
leader's proposal on the new `pre_hash`, and votes buffered from the next height. Both
outcomes of the Commit timer are allowed (`MCSlowBoth`); a slow height stops a non-leader,
which `smr_commit_timer` shows. n4's fetches may fail (`FetchFails = {n4}`), so safety is
checked with failed fetches. No constraint is needed, and the run ends when every
node has stopped. Nodes stop in three ways:
* after the last height;
* as the leader of a height, which never sees its own proposal;
* waiting forever, on a fetch race, a failed fetch or a Commit timer.
So the SMR runs set `CHECK_DEADLOCK FALSE`.

`smr_commit_timer` uses one height (`MaxHeight = 1`). That is enough for a slow commit: height
1 leads to height 2, even though height 2 is not started. Its fairness is weak fairness on every message, fetch, execution result and the bootstrap.
The select loop polls all four unbounded channels, and the network here is reliable. At two
heights, the liveness check with that many fairness conditions does not finish in time.
`smr_fetch_race` needs one height. `smr_exec_lag` needs three heights and the four nodes: only the leader of height 3 can propose on an exec height
(1) that a follower may not have reached. The leader of height 2 proposes inside
`handle_commit`, before any execution result can arrive.

## Findings

* **code_bug, process.rs:1178.** `counting_vote` adds the voters' weights into a `0u8`. The
  weights are u8 and the total is a u64, but a quorum weighing 256 or more wraps in release
  builds, so no QC is formed. A debug build panics in the State task.
* **code_bug, process.rs:1040 (`crash_agreement`).** `handle_aggregated_vote` triggers the
  state machine with a prevote QC and saves no WAL. `handle_vote_event` then sends the
  precommit before `vote_process` saves. A crash in between loses the lock. The restarted node
  prevotes another block in round 1, and two nodes commit different blocks. spec.md:171 says
  every sent vote is preceded by the WAL save that justifies it.
* **code_bug, process.rs:1617 (`crash_equivocation`).** A leader restarted at Propose without
  a lock runs `handle_new_round` again and signs a second proposal for the same round.
* **spec_code_divergence, state_machine.rs:484 (`crash_selfcheck`).** `check()` says there is
  no lock before Precommit in round 0. `vote_process` saves exactly such a WAL, and
  `handle_wal` restores it.
* **code_bug, smr.rs:749 (`smr_commit_timer`).** `compute_timeout` for Commit returns
  `cost.checked_sub(interval)`. That is Some when the height was slow, not when it was fast.
  `handle_commit` then returns and waits for a timer that `handle_timeout` ignores. spec.md:137
  gives `max(0, interval - elapsed)`.
* **spec_code_divergence, smr.rs:455 (`smr_exec_lag`).** A block-exec-ahead proposal is
  dropped after the Cabinet keeps it, and it is never retried. spec.md:199 says the node
  recovers locally.
* **spec_code_divergence, smr.rs:191 (`smr_fetch_race`).** `handle_fetch` stores the full
  block and does not complete a transition waiting on it (`// Todo`). spec.md:149 says it
  does. A follower that got the prevote QC before the block stays in PreVote.
* spec.md:227 says a restarted node re-emits its pre-commit. The code re-emits a prevote of
  the lock's block at the current round (`qc.to_vote()`), and the model follows the code.

Observed while modelling, and recorded as hazards in `PROJECT.json`:
* `self.height - 1` (process.rs:1747) wraps at height 0. A node that has not had its first
  RichStatus drops proposals of height 1, and a debug build panics. spec.md:155 says higher
  heights are buffered. With no timer firing, such a node never commits, so
  `CommitWhenStarted` assumes a RichStatus first.
* `new_round` (smr.rs:427) broadcasts the leader's proposal, and the adapter's broadcast skips
  the sender (tests/common/network.rs:31-45), so `handle_signed_proposal` never runs on the
  leader. The leader never prevotes, never stores the full block, ignores the QCs it aggregates
  and never commits its height. spec.md scenario 1 has every validator prevote and commit. A
  height still commits when the others form a quorum, as in the four-node runs.
* Nothing in `SMR::new` or `SMR::run` (smr.rs:119) starts the first round. spec.md:222 says
  the first leader proposes. The model supplies that start as `Bootstrap`.
* `SMR::new` (smr.rs:84) recovers the block of the WAL's current height through the adapter
  and unwraps it. That block is committed only if the node stopped at the Commit step, so a
  node restarted in the middle of a height panics. spec.md:227 says it rejoins.
* A QC of the next height is buffered in the Cabinet by `filter_msg` (smr.rs:532) and never
  replayed when the node gets there. `NoStrandedQC` covers that state too.
* A failed fetch (smr.rs:676) is never retried; the node then waits on a QC for a block it
  will not get.
* `check()` tests lock/proposal consistency only at height 0. `LockMatchesProposal` shows it
  holds at every height anyway.
* `handle_aggregated_vote` keeps precommit QCs of lower rounds, so `check_polc` may lower the
  lock round and the round.
* `handle_prevote` lowers the round to the QC's round, so a node can re-enter a round.

## Not modelled, and why

* **WAL encoding.** `load_wal` decodes what `save_wal` wrote; the model keeps the record.
  A failing WAL write is not modelled.
* **Parts of `src/smr.rs`.** Chokes (`handle_signed_choke`, `handle_choke_qc`) and the Brake
  step are left out, because no reachable code sends a choke and `handle_timeout` does
  nothing. Also left out:
  * WAL loading in `SMR::new` and the adapter recovery functions
    (`recover_state_by_adapter`, `recover_propose_prepare_and_config`). A restart is not
    modelled for SMR. `SMR::new` unwraps `get_block_with_proof` for the WAL's stage height,
    which is the height still being decided. Unless the WAL rests at the Commit step, that
    block is not committed, and the restart panics (smr.rs:84). A restart that panics is a node
    that stops. The SMR model never forces a node to take a step, so crash-stop adds no
    behaviour to any safety property the runs check. The failure to rejoin is listed as a
    crash_recovery hazard;
  * the per-height `TimeConfig`;
  * `fetch_set`, which is never inserted into, so deduplication never happens.
* **Collectors, AuthorityManage and the timer.** Their source is not in `src/`, so they are
  modelled from their use:
  * a vote collector is a set of votes plus a set of QCs, with `set_qc` replacing the QC of a
    (type, height, round);
  * the proposer is the constant `Proposer`;
  * a timeout is a Timer trigger for the current step, allowed by `Timeouts`.
  These definitions are marked spec_modelled in the map.
* **Signatures, hashing, encoding, logging and tracing.** Verification always passes, and all
  nodes are honest.
* **Network loss and duplication.** Messages are delivered once, in any order.
* **Liveness through timeouts.** Progress across rounds needs unbounded rounds and the timer's
  back-off. Only the round-0 case is checked.
* **Double commit after restart.** A restart at the Commit step calls `Consensus::commit`
  again. `commits` is a set, so the repeat cannot be seen.
