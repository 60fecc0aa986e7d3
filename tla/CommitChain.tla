----------------------------- MODULE CommitChain -----------------------------
(***************************************************************************)
(* What a consensus engine of this repository promises the application   *)
(* behind Adapter::save_and_exec_block (smr.rs:708-712): the nodes commit *)
(* one chain.  A node commits the heights one after the other, each block *)
(* is the child of the block decided at the height below (the genesis     *)
(* block at height 1), and a height once decided is decided for every     *)
(* node.  The first commit of a height decides it.                        *)
(*                                                                         *)
(* A block is a record with at least the fields `height` and `pre` (the   *)
(* block it extends).                                                     *)
(***************************************************************************)
EXTENDS Naturals, Sequences

CONSTANTS
    Node,        \* the validators
    Blocks,      \* the blocks that can be proposed
    Genesis,     \* the block below height 1
    NoBlock,     \* no block decided yet
    MaxHeight    \* the last height

VARIABLES
    chain,       \* chain[h]: the block decided at height h, or NoBlock
    log          \* log[n]: the blocks node n has committed, in height order

vars == <<chain, log>>

Init ==
    /\ chain = [h \in 1..MaxHeight |-> NoBlock]
    /\ log = [n \in Node |-> <<>>]

\* The block a block of height h must extend.
ParentAt(h) == IF h = 1 THEN Genesis ELSE chain[h - 1]

\* Node n commits its next height: the decided block, or, if the height is
\* still open, any child of the block below.
CommitNext(n) ==
    LET h == Len(log[n]) + 1 IN
    /\ h <= MaxHeight
    /\ \E b \in Blocks :
          /\ b.height = h
          /\ \/ chain[h] = b
             \/ chain[h] = NoBlock /\ b.pre = ParentAt(h)
          /\ chain' = [chain EXCEPT ![h] = b]
          /\ log' = [log EXCEPT ![n] = Append(@, b)]

Next == \E n \in Node : CommitNext(n)

Spec == Init /\ [][Next]_vars

=============================================================================
