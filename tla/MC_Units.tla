------------------------------ MODULE MC_Units ------------------------------
(***************************************************************************)
(* The two pure components of the State task of src/state, checked side   *)
(* by side in one run: the state machine of state_machine.rs, driven by   *)
(* any trigger and timer (StateMachine), and the leader's vote counting   *)
(* of process.rs in a debug build with small weights (VoteCounting).  The *)
(* two share no variable, so every step is a step of one of them, and    *)
(* each property below is about one of them alone.                        *)
(***************************************************************************)
EXTENDS MC_VoteCounting

CONSTANTS
    SMNode,      \* the nodes of the state machine
    SMHash,      \* the non-empty block hashes it sees
    Empty, None, MaxHeight, MaxRound, QueueBound

VARIABLES smHeight, smRound, smStep, smBlockHash, smLock, smEvents

smAll == <<smHeight, smRound, smStep, smBlockHash, smLock, smEvents>>

\* Every timeout of every state-machine node may expire.
SM == INSTANCE StateMachine WITH
        Node <- SMNode, Hash <- SMHash,
        Timeouts <- SMNode \X {0, 1, 2}

UnitInit == Init /\ SM!SMInit

UnitNext ==
    \/ Next /\ UNCHANGED smAll
    \/ SM!SMNext /\ UNCHANGED vars

UnitSpec == UnitInit /\ [][UnitNext]_<<vars, smAll>>

\* The properties of StateMachine, each stated there with its comment.
SMTypeOK == SM!SMTypeOK
SelfCheckHolds == SM!SelfCheckHolds
LockMatchesProposal == SM!LockMatchesProposal
=============================================================================
