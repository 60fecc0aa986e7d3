---------------------------- MODULE StateMachine ----------------------------
(***************************************************************************)
(* The state machine replica of src/smr/state_machine.rs, one per node.   *)
(*                                                                         *)
(* The state machine owns (height, round, step, block_hash, lock).  It     *)
(* reads SMRTriggers from an unbounded channel, written by the node's      *)
(* State task (source State) and by its timer (source Timer), and throws   *)
(* SMREvents on an unbounded channel read by the State task.  Each trigger *)
(* is handled whole by one poll_next (state_machine.rs:36-70); a handler   *)
(* that returns an error leaves the state as it was.                      *)
(*                                                                         *)
(* A trigger is handled in the step that sends it.  The machine reads its *)
(* channel in order and nothing but its events is observed by State, so   *)
(* handling a trigger later only delays events State may anyway leave     *)
(* unread; a timeout that expires for a step the machine has left by the  *)
(* time it is read is ignored by the step guards of the handlers.  The    *)
(* handlers take the event queue evq the step leaves before they throw.   *)
(*                                                                         *)
(* The module declares the per-node variables and one action per handler.  *)
(* Its own specification, SMSpec, feeds any trigger of the small domain    *)
(* to a state machine, to check what the machine guarantees by itself.     *)
(* Overlord.tla composes it with the State tasks and the network.          *)
(***************************************************************************)
EXTENDS Integers, Sequences

CONSTANTS
    Node,        \* the authority list
    Hash,        \* non-empty block hashes
    Empty,       \* Hash::new(), the empty hash
    None,        \* Option::None
    MaxHeight,   \* bound: no height above MaxHeight is started
    MaxRound,    \* bound: no round above MaxRound is started
    QueueBound,  \* bound on the length of the trigger and event channels
    Timeouts     \* bound: the pairs <<node, step>> whose timeouts may expire

ASSUME /\ Empty \notin Hash /\ None \notin Hash
       /\ MaxHeight \in Nat /\ MaxRound \in Nat /\ QueueBound \in Nat \ {0}
       /\ Timeouts \subseteq Node \X {0, 1, 2}

\* Step and its Ord, as `impl Into<u8> for Step` (smr_types.rs:56-65).
Propose   == 0
Prevote   == 1
Precommit == 2
Commit    == 3
Steps == {Propose, Prevote, Precommit, Commit}

INIT_HEIGHT == 0
INIT_ROUND  == 0

VARIABLES
    smHeight,     \* StateMachine.height
    smRound,      \* StateMachine.round
    smStep,       \* StateMachine.step
    smBlockHash,  \* StateMachine.block_hash
    smLock,       \* StateMachine.lock: None or [round, hash]
    smEvents      \* the SMREvent channel from the state machine to State

smVars == <<smHeight, smRound, smStep, smBlockHash, smLock>>

(* An SMRTrigger: type, source, hash, round (a round or None), height.    *)
TriggerTypes == {"Proposal", "PrevoteQC", "PrecommitQC", "NewHeight"}
Trigger(type, source, hash, round, height) ==
    [type |-> type, source |-> source, hash |-> hash, round |-> round, height |-> height]

(* An SMREvent.  Fields an event kind does not carry are None.            *)
Event(type, height, round, hash, lockRound, lockProposal) ==
    [type |-> type, height |-> height, round |-> round, hash |-> hash,
     lockRound |-> lockRound, lockProposal |-> lockProposal]

LockRound(l) == IF l = None THEN None ELSE l.round
LockHash(l)  == IF l = None THEN None ELSE l.hash

\* throw_event: send the event on the channel to State.
ThrowEvent(n, e, evq) == smEvents' = [smEvents EXCEPT ![n] = Append(evq, e)]

(***************************************************************************)
(* check(): the self check run before each proposal, QC and new height    *)
(* (state_machine.rs:472-500).                                            *)
(***************************************************************************)
SelfCheckOf(h, r, step, bh, lock) ==
    /\ ~(h = 0 /\ lock /= None /\ lock.hash /= bh)
    /\ ~(step < Precommit /\ r = 0 /\ lock /= None)
    /\ ~(step = Precommit /\ ((bh = Empty) /= (lock = None)))

SelfCheck(n) == SelfCheckOf(smHeight[n], smRound[n], smStep[n], smBlockHash[n], smLock[n])

\* The state a handler that returns early leaves.
SMError(n, evq) == UNCHANGED smVars /\ smEvents' = [smEvents EXCEPT ![n] = evq]

\* goto_new_height (state_machine.rs:383-391): the height, round 0 at the
\* Propose step, no block hash and no lock.
SMGotoNewHeight(n, h) ==
    /\ smHeight' = [smHeight EXCEPT ![n] = h]
    /\ smRound' = [smRound EXCEPT ![n] = INIT_ROUND]
    /\ smStep' = [smStep EXCEPT ![n] = Propose]
    /\ smBlockHash' = [smBlockHash EXCEPT ![n] = Empty]
    /\ smLock' = [smLock EXCEPT ![n] = None]

(***************************************************************************)
(* handle_new_height (state_machine.rs:105-134).                          *)
(***************************************************************************)
HandleNewHeight(n, t, evq) ==
    IF t.source /= "State" \/ t.height <= smHeight[n] \/ ~SelfCheck(n)
    THEN SMError(n, evq)
    ELSE /\ SMGotoNewHeight(n, t.height)
         /\ ThrowEvent(n, Event("NewRoundInfo", t.height, INIT_ROUND, None, None, None), evq)

\* Mutant: a proposal with a higher lock round adopts its hash but keeps the lock.
ProposalPolcKeepLock(n, hash, lockRound) ==
    LET lock == smLock[n] IN
    CASE lockRound /= None /\ lock /= None /\ lockRound > lock.round ->
             [fork |-> FALSE, lock |-> lock, hash |-> hash]
      [] lockRound /= None /\ lock /= None /\ lockRound = lock.round
                           /\ hash /= smBlockHash[n] ->
             [fork |-> TRUE, lock |-> lock, hash |-> smBlockHash[n]]
      [] lock = None ->
             [fork |-> FALSE, lock |-> None, hash |-> hash]
      [] OTHER ->
             [fork |-> FALSE, lock |-> lock, hash |-> smBlockHash[n]]

\* Mutant: a locked node adopts a proposal whose PoLC is not above its lock.
ProposalPolcIgnoreLock(n, hash, lockRound) ==
    LET lock == smLock[n] IN
    CASE lockRound /= None /\ lock /= None /\ lockRound > lock.round ->
             [fork |-> FALSE, lock |-> None, hash |-> hash]
      [] lockRound /= None /\ lock /= None /\ lockRound = lock.round
                           /\ hash /= smBlockHash[n] ->
             [fork |-> TRUE, lock |-> lock, hash |-> smBlockHash[n]]
      [] OTHER ->
             [fork |-> FALSE, lock |-> lock, hash |-> hash]

(***************************************************************************)
(* The PoLC update of handle_proposal (state_machine.rs:183-198): the new *)
(* [lock, hash], fork FALSE; or fork TRUE when the proposal's lock round   *)
(* equals the own lock round with another hash.                            *)
(***************************************************************************)
ProposalPolc(n, hash, lockRound) ==
    LET lock == smLock[n] IN
    CASE lockRound /= None /\ lock /= None /\ lockRound > lock.round ->
             [fork |-> FALSE, lock |-> None, hash |-> hash]
      [] lockRound /= None /\ lock /= None /\ lockRound = lock.round
                           /\ hash /= smBlockHash[n] ->
             [fork |-> TRUE, lock |-> lock, hash |-> smBlockHash[n]]
      [] lock = None ->
             [fork |-> FALSE, lock |-> None, hash |-> hash]
      [] OTHER ->
             [fork |-> FALSE, lock |-> lock, hash |-> smBlockHash[n]]

(***************************************************************************)
(* handle_proposal (state_machine.rs:140-215).                            *)
(***************************************************************************)
HandleProposal(n, t, evq) ==
    IF smHeight[n] /= t.height \/ smStep[n] > Propose THEN SMError(n, evq)
    ELSE IF t.source = "Timer"
    THEN /\ ThrowEvent(n, Event("PrevoteVote", smHeight[n], smRound[n], Empty,
                                LockRound(smLock[n]), None), evq)
         /\ smStep' = [smStep EXCEPT ![n] = Prevote]
         /\ UNCHANGED <<smHeight, smRound, smBlockHash, smLock>>
    ELSE IF t.hash = Empty \/ ~SelfCheck(n) THEN SMError(n, evq)
    ELSE LET p == ProposalPolc(n, t.hash, t.round) IN
         IF p.fork THEN SMError(n, evq)
         ELSE /\ smLock' = [smLock EXCEPT ![n] = p.lock]
              /\ smBlockHash' = [smBlockHash EXCEPT ![n] = p.hash]
              /\ ThrowEvent(n, Event("PrevoteVote", smHeight[n], smRound[n], p.hash,
                                     LockRound(p.lock), None), evq)
              /\ smStep' = [smStep EXCEPT ![n] = Prevote]
              /\ UNCHANGED <<smHeight, smRound>>

\* Mutant: a prevote timeout that keeps the block hash without a lock.
PrevoteTimeoutHashKept(n) == smBlockHash[n]

\* The block hash after a prevote timeout: cleared unless there is a lock.
PrevoteTimeoutHash(n) == IF smLock[n] = None THEN Empty ELSE smBlockHash[n]

\* Mutant: update_polc locking the block hash held before the QC.
UpdatePolcStaleHash(n, t) == [round |-> t.round, hash |-> smBlockHash[n]]

\* update_polc (state_machine.rs:444-453) for a non-empty QC hash: the lock.
UpdatePolc(n, t) == [round |-> t.round, hash |-> t.hash]

(***************************************************************************)
(* handle_prevote (state_machine.rs:221-296) with update_polc (444-453).  *)
(* A prevote QC of a round above the lock, or with no lock, becomes the   *)
(* lock and the block; the round is lowered to the QC's round.            *)
(***************************************************************************)
HandlePrevote(n, t, evq) ==
    IF t.round = None \/ smHeight[n] /= t.height \/ smStep[n] > Prevote THEN SMError(n, evq)
    ELSE IF t.source = "Timer"
    THEN /\ smBlockHash' = [smBlockHash EXCEPT ![n] = PrevoteTimeoutHash(n)]
         /\ ThrowEvent(n, Event("PrecommitVote", smHeight[n], smRound[n], Empty,
                                LockRound(smLock[n]), None), evq)
         /\ smStep' = [smStep EXCEPT ![n] = Precommit]
         /\ UNCHANGED <<smHeight, smRound, smLock>>
    ELSE IF t.hash = Empty \/ ~SelfCheck(n) THEN SMError(n, evq)
    ELSE LET update == smLock[n] = None \/ t.round > smLock[n].round
             lock   == IF update THEN UpdatePolc(n, t) ELSE smLock[n]
             hash   == IF update THEN t.hash ELSE smBlockHash[n]
             round  == IF smRound[n] > t.round THEN t.round ELSE smRound[n]
         IN  /\ smLock' = [smLock EXCEPT ![n] = lock]
             /\ smBlockHash' = [smBlockHash EXCEPT ![n] = hash]
             /\ smRound' = [smRound EXCEPT ![n] = round]
             /\ ThrowEvent(n, Event("PrecommitVote", smHeight[n], round, hash,
                                    lock.round, None), evq)
             /\ smStep' = [smStep EXCEPT ![n] = Precommit]
             /\ UNCHANGED smHeight

\* goto_next_round (state_machine.rs:394-398), and the round of the
\* NewRoundInfo thrown before it: one above the current round.
NextRound(n) == smRound[n] + 1

\* check_polc (state_machine.rs:367-380): a lock on another hash is a fork.
PolcFork(n, hash) == smLock[n] /= None /\ smLock[n].hash /= hash

\* check_polc otherwise: the lock, new or kept, takes the QC's hash and
\* round, and so does the state machine's round.
CheckPolc(n, hash, round) ==
    /\ smLock' = [smLock EXCEPT ![n] = [round |-> round, hash |-> hash]]
    /\ smRound' = [smRound EXCEPT ![n] = round]

(***************************************************************************)
(* handle_precommit (state_machine.rs:302-350) with check_polc (367-380)  *)
(* and goto_next_round (394-398).  A timeout starts the next round with   *)
(* the lock kept; a precommit QC for the locked hash, or with no lock,    *)
(* sets the lock to the QC's round and commits.                           *)
(***************************************************************************)
HandlePrecommit(n, t, evq) ==
    IF t.round = None \/ smHeight[n] /= t.height \/ smStep[n] > Precommit THEN SMError(n, evq)
    ELSE IF t.source = "Timer"
    THEN /\ ThrowEvent(n, Event("NewRoundInfo", smHeight[n], NextRound(n), None,
                                LockRound(smLock[n]), LockHash(smLock[n])), evq)
         /\ smRound' = [smRound EXCEPT ![n] = NextRound(n)]
         /\ smStep' = [smStep EXCEPT ![n] = Propose]
         /\ UNCHANGED <<smHeight, smBlockHash, smLock>>
    ELSE IF t.hash = Empty \/ ~SelfCheck(n) THEN SMError(n, evq)
    ELSE IF PolcFork(n, t.hash) THEN SMError(n, evq)
    ELSE /\ CheckPolc(n, t.hash, t.round)
         /\ ThrowEvent(n, Event("Commit", None, None, t.hash, None, None), evq)
         /\ smStep' = [smStep EXCEPT ![n] = Commit]
         /\ UNCHANGED <<smHeight, smBlockHash>>

(***************************************************************************)
(* poll_next (state_machine.rs:36-70): dispatch a trigger.  A new height  *)
(* above MaxHeight is not started (the model's bound).                     *)
(***************************************************************************)
SMHandleTrigger(n, t, evq) ==
    CASE t.type = "NewHeight" /\ t.height > MaxHeight -> SMError(n, evq)
      [] t.type = "NewHeight"   -> HandleNewHeight(n, t, evq)
      [] t.type = "Proposal"    -> HandleProposal(n, t, evq)
      [] t.type = "PrevoteQC"   -> HandlePrevote(n, t, evq)
      [] t.type = "PrecommitQC" -> HandlePrecommit(n, t, evq)

(***************************************************************************)
(* set_timer_after_wal (state_machine.rs:400-431): the event the machine  *)
(* throws for the step it was restored to.  The commit step has no event   *)
(* (unreachable!()); start_with_wal never restores it.                      *)
(***************************************************************************)
SetTimerAfterWal(info) ==
    LET lr == LockRound(info.lock) IN
    CASE info.step = Propose ->
             Event("NewRoundInfo", info.height, info.round, None, lr, LockHash(info.lock))
      [] info.step = Prevote -> Event("PrevoteVote", info.height, info.round, Empty, lr, None)
      [] info.step = Precommit -> Event("PrecommitVote", info.height, info.round, Empty, lr, None)

(***************************************************************************)
(* handle_wal (state_machine.rs:92-101): a WalInfo trigger restores       *)
(* height, round, step and lock from the SMRBase info; a lock's hash       *)
(* becomes the block hash (set_proposal).  No self check is run.           *)
(***************************************************************************)
HandleWal(n, info, evq) ==
    /\ smHeight' = [smHeight EXCEPT ![n] = info.height]
    /\ smRound' = [smRound EXCEPT ![n] = info.round]
    /\ smStep' = [smStep EXCEPT ![n] = info.step]
    /\ smBlockHash' = [smBlockHash EXCEPT ![n] = IF info.lock = None THEN @ ELSE info.lock.hash]
    /\ smLock' = [smLock EXCEPT ![n] = info.lock]
    /\ ThrowEvent(n, SetTimerAfterWal(info), evq)

(***************************************************************************)
(* A WalInfo trigger of the propose step with a lock, followed by the      *)
(* Proposal trigger of the locked block with the lock round, as a leader's *)
(* start_with_wal sends them.  handle_proposal runs on the restored state: *)
(* its self check rejects a lock at round 0; otherwise ProposalPolc of the *)
(* lock's own round and hash keeps lock and hash, and the machine prevotes. *)
(***************************************************************************)
HandleWalThenProposal(n, info, evq) ==
    LET l == info.lock IN
    IF ~SelfCheckOf(info.height, info.round, Propose, l.hash, l) THEN HandleWal(n, info, evq)
    ELSE /\ smHeight' = [smHeight EXCEPT ![n] = info.height]
         /\ smRound' = [smRound EXCEPT ![n] = info.round]
         /\ smStep' = [smStep EXCEPT ![n] = Prevote]
         /\ smBlockHash' = [smBlockHash EXCEPT ![n] = l.hash]
         /\ smLock' = [smLock EXCEPT ![n] = l]
         /\ smEvents' = [smEvents EXCEPT ![n] =
               evq \o <<SetTimerAfterWal(info),
                        Event("PrevoteVote", info.height, info.round, l.hash, l.round, None)>>]

\* SMRHandler::trigger: the state machine handles the trigger.
SendTrigger(n, evq, t) == SMHandleTrigger(n, t, evq)

\* A step that sends no trigger, leaving the event queue evq.
NoTrigger(n, evq) == SMError(n, evq)

(***************************************************************************)
(* The timer.  It arms a timeout on each SMREvent and, on expiry, sends a *)
(* Timer trigger for the step it was armed in.  The timer's source is not  *)
(* part of this repository; a timeout is modelled as able to expire at any *)
(* moment for the state machine's current step, the round staying within   *)
(* MaxRound.  A configuration lets only the timeouts of the pairs        *)
(* <<node, step>> in Timeouts expire.                                      *)
(***************************************************************************)
TimerType == [s \in {Propose, Prevote, Precommit} |->
                 CASE s = Propose -> "Proposal"
                   [] s = Prevote -> "PrevoteQC"
                   [] s = Precommit -> "PrecommitQC"]

TimerExpires(n) ==
    /\ <<n, smStep[n]>> \in Timeouts
    /\ smHeight[n] > INIT_HEIGHT
    /\ smStep[n] = Precommit => smRound[n] < MaxRound
    /\ SendTrigger(n, smEvents[n],
                   Trigger(TimerType[smStep[n]], "Timer", Empty, smRound[n], smHeight[n]))

------------------------------------------------------------------------------
(***************************************************************************)
(* The state machine on its own: any trigger of the small domain may be   *)
(* sent by State, any timeout may expire, and the events are consumed.    *)
(***************************************************************************)
\* Every timeout of every node may expire.
AllTimeouts == Node \X {Propose, Prevote, Precommit}

\* StateMachine::new (state_machine.rs:75-90) for node n, on a restart: the
\* machine and both of its channels are new.
SMReset(n) ==
    /\ smHeight' = [smHeight EXCEPT ![n] = INIT_HEIGHT]
    /\ smRound' = [smRound EXCEPT ![n] = INIT_ROUND]
    /\ smStep' = [smStep EXCEPT ![n] = Commit]
    /\ smBlockHash' = [smBlockHash EXCEPT ![n] = Empty]
    /\ smLock' = [smLock EXCEPT ![n] = None]
    /\ smEvents' = [smEvents EXCEPT ![n] = <<>>]

SMInit ==
    /\ smHeight = [n \in Node |-> INIT_HEIGHT]
    /\ smRound = [n \in Node |-> INIT_ROUND]
    /\ smStep = [n \in Node |-> Commit]
    /\ smBlockHash = [n \in Node |-> Empty]
    /\ smLock = [n \in Node |-> None]
    /\ smEvents = [n \in Node |-> <<>>]

Rounds == 0..MaxRound
Heights == 1..MaxHeight

StateTriggers ==
    {Trigger("NewHeight", "State", Empty, None, h) : h \in Heights}
    \cup {Trigger("Proposal", "State", b, lr, h) : b \in Hash, lr \in Rounds \cup {None}, h \in Heights}
    \cup {Trigger(ty, "State", b, r, h) : ty \in {"PrevoteQC", "PrecommitQC"},
                                          b \in Hash, r \in Rounds, h \in Heights}

EnvTrigger(n) ==
    /\ Len(smEvents[n]) < QueueBound
    /\ \E t \in StateTriggers : SendTrigger(n, smEvents[n], t)

EnvTimer(n) ==
    /\ Len(smEvents[n]) < QueueBound
    /\ TimerExpires(n)

EnvTakeEvent(n) ==
    /\ smEvents[n] /= <<>>
    /\ smEvents' = [smEvents EXCEPT ![n] = Tail(@)]
    /\ UNCHANGED smVars

SMNext ==
    \E n \in Node :
        \/ EnvTrigger(n)
        \/ EnvTimer(n)
        \/ EnvTakeEvent(n)

SMSpec == SMInit /\ [][SMNext]_<<smVars, smEvents>>

------------------------------------------------------------------------------
SMTypeOK ==
    /\ smHeight \in [Node -> 0..MaxHeight]
    /\ smRound \in [Node -> Rounds]
    /\ smStep \in [Node -> Steps]
    /\ smBlockHash \in [Node -> Hash \cup {Empty}]
    /\ smLock \in [Node -> {None} \cup [round : Rounds, hash : Hash]]

(***************************************************************************)
(* Whatever triggers arrive and in whatever order, the state machine      *)
(* never reaches a state its own self check (check(), state_machine.rs:   *)
(* 472-500) rejects: no trigger sequence locks it out of the proposal, QC  *)
(* and new-height handlers.                                                *)
(***************************************************************************)
SelfCheckHolds == \A n \in Node : SelfCheck(n)

(***************************************************************************)
(* Outside the commit step a lock and the proposal hash agree, as the     *)
(* comment of check() states ("As long as there is a lock, the lock and   *)
(* proposal hash must be consistent"); the code checks it at height 0     *)
(* only.                                                                   *)
(***************************************************************************)
LockMatchesProposal ==
    \A n \in Node : smLock[n] /= None /\ smStep[n] /= Commit => smBlockHash[n] = smLock[n].hash

=============================================================================
