--------------------------- MODULE BlockTreeProofs ---------------------------
(***************************************************************************)
(* What the other proofs use of the ancestry the block store answers from. *)
(*                                                                         *)
(* Ancestry is the least connected set that holds a block, so what follows *)
(* needs no induction over chains: a bound on an ancestor is shown by      *)
(* naming a connected set that has it.                                     *)
(***************************************************************************)
EXTENDS BlockTree, TLAPS

(* A block is its own ancestor (is_ancestor answers Some(0)). *)
LEMMA ChainSelf == \A b \in Blocks : b \in Chain[b] /\ Chain[b] \subseteq Blocks
  BY DEF Chain

(* The ancestors of a block have their parents among them. *)
LEMMA ChainConnected == \A b \in Blocks : Connected(Chain[b])
<1> SUFFICES ASSUME NEW b \in Blocks, NEW a \in Chain[b], a # Block0
             PROVE  Parent[a] \in Chain[b]
  BY DEF Connected
<1>1. a \in Blocks /\ Parent[a] \in Blocks
  BY ChainSelf, BlockTreeAssumption
<1>2. ASSUME NEW S \in SUBSET Blocks, b \in S, Connected(S)
      PROVE  Parent[a] \in S
  <2>1. a \in S
    BY <1>2 DEF Chain
  <2> QED
    BY <2>1, <1>2 DEF Connected
<1> QED
  BY <1>1, <1>2 DEF Chain

(* A connected store has all ancestors of a block that it has. *)
LEMMA ChainMinimal ==
  ASSUME NEW S \in SUBSET Blocks, Connected(S), NEW b \in S
  PROVE  Chain[b] \subseteq S
  BY DEF Chain

(* The ancestors of the parent are ancestors of the block. *)
LEMMA ChainParent ==
  ASSUME NEW b \in Blocks, b # Block0
  PROVE  Parent[b] \in Blocks /\ Chain[Parent[b]] \subseteq Chain[b]
<1>1. Parent[b] \in Blocks
  BY BlockTreeAssumption
<1>2. Parent[b] \in Chain[b] /\ Chain[b] \in SUBSET Blocks /\ Connected(Chain[b])
  BY ChainSelf, ChainConnected DEF Connected
<1> QED
  BY <1>1, <1>2, ChainMinimal

(* Along checked links an ancestor is no longer than its descendant. *)
LEMMA AncestorNoLonger ==
  ASSUME NEW S \in SUBSET Blocks, Connected(S),
         \A x \in S \ {Block0} : Linked(x),
         NEW b \in S, NEW a \in Chain[b]
  PROVE  ChainLength[a] <= ChainLength[b]
<1> DEFINE T == {x \in S : ChainLength[x] <= ChainLength[b]}
<1>1. b \in T
  BY BlockTreeAssumption
<1>2. Connected(T)
  <2> SUFFICES ASSUME NEW x \in T, x # Block0
               PROVE  Parent[x] \in T
    BY DEF Connected
  <2>1. x \in S /\ Parent[x] \in S /\ Linked(x)
    BY DEF Connected
  <2>2. ChainLength[x] = ChainLength[Parent[x]] + 1
    BY <2>1 DEF Linked
  <2>3. ChainLength[x] \in Nat /\ ChainLength[Parent[x]] \in Nat /\ ChainLength[b] \in Nat
    BY <2>1, BlockTreeAssumption
  <2> QED
    BY <2>1, <2>2, <2>3
<1>3. T \in SUBSET Blocks
  OBVIOUS
<1> HIDE DEF T
<1>4. a \in T
  BY <1>1, <1>2, <1>3, ChainMinimal
<1> QED
  BY <1>4 DEF T

(* A block adds itself, and nothing else, to the ancestors of its parent. *)
LEMMA ChainStep ==
  ASSUME NEW b \in Blocks, b # Block0, NEW a \in Chain[b], a # b
  PROVE  a \in Chain[Parent[b]]
<1> DEFINE T == {b} \cup Chain[Parent[b]]
<1>1. Parent[b] \in Blocks /\ Chain[Parent[b]] \subseteq Blocks
        /\ Parent[b] \in Chain[Parent[b]] /\ Connected(Chain[Parent[b]])
  BY BlockTreeAssumption, ChainSelf, ChainConnected
<1>2. T \in SUBSET Blocks /\ Connected(T) /\ b \in T
  BY <1>1 DEF Connected
<1> HIDE DEF T
<1>3. a \in T
  BY <1>2, ChainMinimal
<1> QED
  BY <1>3 DEF T

(* A branch that starts at or next to a connected store leaves it once:    *)
(* either its end is in the store or one of its blocks is the first that   *)
(* is not.                                                                 *)
LEMMA BranchLeavesStore ==
  ASSUME NEW S \in SUBSET Blocks, Connected(S),
         NEW last \in Blocks, last \notin S,
         NEW first \in Chain[last],
         first # Block0, first \in S \/ Parent[first] \in S,
         Block0 \in S
  PROVE  \E b \in Chain[last] : /\ first \in Chain[b]
                                /\ b # Block0 /\ b \notin S /\ Parent[b] \in S
<1> SUFFICES ASSUME \A b \in Chain[last] : 
                      first \in Chain[b] /\ b # Block0 /\ b \notin S => Parent[b] \notin S
             PROVE  FALSE
  OBVIOUS
<1> DEFINE T == {x \in Chain[last] : x \notin S /\ first \in Chain[x]}
<1>1. Chain[last] \subseteq Blocks /\ last \in Chain[last] /\ Connected(Chain[last])
  BY ChainSelf, ChainConnected
<1>2. T \in SUBSET Blocks /\ last \in T
  BY <1>1
<1>3. Connected(T)
  <2> SUFFICES ASSUME NEW x \in T, x # Block0 PROVE Parent[x] \in T
    BY DEF Connected
  <2>1. x \in Blocks /\ x \in Chain[last] /\ x \notin S /\ first \in Chain[x]
    BY <1>1
  <2>2. Parent[x] \in Chain[last]
    BY <1>1, <2>1 DEF Connected
  <2>3. Parent[x] \notin S
    BY <2>1
  <2>4. first # x
    BY <2>1, <2>3
  <2>5. first \in Chain[Parent[x]]
    BY <2>1, <2>4, ChainStep
  <2> QED
    BY <2>2, <2>3, <2>5
<1> HIDE DEF T
<1>4. first \in T
  BY <1>2, <1>3, ChainMinimal
<1>5. first \notin S /\ first \in Chain[first] /\ Parent[first] \notin S
  BY <1>4 DEF T
<1> QED
  BY <1>5
=============================================================================
