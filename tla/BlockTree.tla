------------------------------ MODULE BlockTree ------------------------------
(***************************************************************************)
(* The blocks that can ever reach the node, as a constant tree, and the    *)
(* pure functions of blockchain/ on headers: the link check, the ancestry  *)
(* the block store answers from, and chain selection.                      *)
(*                                                                         *)
(* A header is what the code reads of it: its parent hash, chain length    *)
(* and date.  Nothing is assumed about the links: headers that do not      *)
(* follow from their parent exist, and pre_verify_link has to refuse them. *)
(***************************************************************************)
EXTENDS Naturals

CONSTANTS
    Blocks,        \* block hashes
    Block0,        \* the genesis block
    Parent,        \* header.block_parent_hash()
    ChainLength,   \* header.chain_length()
    BlockDate      \* header.block_date(), as the time the block becomes due

ASSUME BlockTreeAssumption ==
    /\ Block0 \in Blocks
    /\ Parent \in [Blocks \ {Block0} -> Blocks]
    /\ ChainLength \in [Blocks -> Nat]
    /\ BlockDate \in [Blocks -> Nat]

(* pre_verify_link: the date increases and the chain length is the next.   *)
Linked(b) ==
    /\ b # Block0
    /\ BlockDate[Parent[b]] < BlockDate[b]
    /\ ChainLength[b] = ChainLength[Parent[b]] + 1

(* A set of blocks that holds the parent of each of its blocks.            *)
Connected(S) == \A b \in S : b # Block0 => Parent[b] \in S

(* The ancestors of each block, itself included: the least connected set   *)
(* that holds it.                                                          *)
Chain == [b \in Blocks |->
            {a \in Blocks : \A S \in SUBSET Blocks :
                               b \in S /\ Connected(S) => a \in S}]

(* BlockStore::get_tips_ids *)
Leaves(S) == {b \in S : \A c \in S \ {Block0} : Parent[c] # b}

(* BlockStore::prune_branch: the blocks that only branch b holds.          *)
OnlyOnBranch(S, b) == {a \in S : \A d \in S : a \in Chain[d] => d \in Chain[b]}

(* chain_selection::compare_against = PreferCandidate.  The rollback test  *)
(* of the code always answers true.                                        *)
InFuture(b, now) == BlockDate[b] > now

PreferCandidate(current, candidate, now) ==
    /\ ~InFuture(candidate, now)
    /\ ChainLength[current] < ChainLength[candidate]

(* The results max_by can give over the branches in reprocess_tip: the     *)
(* comparison is no order when some branch lies in the future, and a       *)
(* future branch wins when the store lists it first and no present one is  *)
(* longer.                                                                 *)
BestBranches(S, now) ==
    {b \in S : \A c \in S : ~InFuture(c, now) => ChainLength[c] <= ChainLength[b]}
=============================================================================
