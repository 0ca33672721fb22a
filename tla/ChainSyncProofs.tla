--------------------------- MODULE ChainSyncProofs ---------------------------
(***************************************************************************)
(* Proofs about ChainSync, for every tree of blocks with checked links,    *)
(* every set of peers and stores, epoch length, chunk size and number of   *)
(* tasks underway.                                                         *)
(***************************************************************************)
EXTENDS ChainSync, BlockTreeProofs, TLAPS

(* A block that is stored or whose parent is. *)
Reachable(b) == b \in stored \/ (b # Block0 /\ Parent[b] \in stored)

(* What is stored is a tree, and the tip and all candidates are in it. *)
StoreInv ==
    /\ Block0 \in stored
    /\ Connected(stored)
    /\ tip \in stored
    /\ candidates \subseteq stored

(* What each request, stream and task knows of the store, although the     *)
(* store was read when it was made: blocks are only added.                 *)
RequestInv ==
    /\ \A r \in pulls : r.from \subseteq stored
    /\ \A f \in fetches : Reachable(f.block)
    /\ \A h \in headers : Reachable(h.next) /\ h.next # Block0 /\ h.next \in Chain[h.last]
    /\ \A m \in batches : Reachable(m.next)
    /\ \A s \in streams : Reachable(s.next)
    /\ \A s \in streams : s.candidate \in stored \cup {NoBlock}

(* Each of these facts is there for a step that needs it: the checkpoints  *)
(* of a pull come from the tip, so they are stored (StoreInv); the header  *)
(* stream starts next to one of them; a batch starts where its stream      *)
(* leaves the store, a block stream where its batch does.                  *)
IInv ==
    /\ TypeOK
    /\ StoreInv
    /\ RequestInv
    /\ BatchesBounded

LEMMA InitIInv == Init => IInv
  BY BlockTreeAssumption DEF Init, IInv, TypeOK, StoreInv, RequestInv, BatchesBounded, Connected

(* What was reachable stays so when the store grows. *)
LEMMA ReachableGrows ==
  ASSUME NEW b \in Blocks, Reachable(b), stored \subseteq stored'
  PROVE  Reachable(b)'
  BY DEF Reachable

(* The checkpoints of a block that is stored are stored. *)
LEMMA CheckpointsStored ==
  ASSUME IInv
  PROVE  CheckpointsFrom(tip) \subseteq stored /\ CheckpointsFrom(tip) \in SUBSET Blocks
<1>1. stored \in SUBSET Blocks /\ Connected(stored) /\ tip \in stored
  BY DEF IInv, TypeOK, StoreInv
<1>2. Chain[tip] \subseteq stored
  BY <1>1, ChainMinimal
<1> QED
  BY <1>1, <1>2 DEF CheckpointsFrom

LEMMA AnnouncedBlockInv ==
  ASSUME IInv, NEW p \in Peers, NEW b \in Blocks, AnnouncedBlock(p, b)
  PROVE  IInv'
<1>1. UNCHANGED <<stored, tip, pulls, headers, batches, streams, candidates>>
  BY DEF AnnouncedBlock
<1>2. \/ ParentStored(b) /\ fetches' = fetches \cup {[block |-> b, peer |-> p]}
           /\ UNCHANGED announced
      \/ announced' = announced \cup {[block |-> b, peer |-> p]} /\ UNCHANGED fetches
  BY DEF AnnouncedBlock
<1>3. [block |-> b, peer |-> p] \in Announcement
  BY DEF Announcement
<1>4. TypeOK'
  BY <1>1, <1>2, <1>3 DEF IInv, TypeOK
<1>5. RequestInv'
  BY <1>1, <1>2 DEF IInv, RequestInv, Reachable, ParentStored
<1> QED
  BY <1>1, <1>4, <1>5 DEF IInv, StoreInv, BatchesBounded

LEMMA SchedulePullInv ==
  ASSUME IInv, NEW a \in announced, SchedulePull(a)
  PROVE  IInv'
<1> DEFINE r0 == [to |-> a.block, peer |-> a.peer, from |-> CheckpointsFrom(tip)]
<1>1. UNCHANGED <<stored, tip, fetches, headers, batches, streams, candidates>>
  BY DEF SchedulePull
<1>2. pulls' \subseteq pulls \cup {r0} /\ announced' \subseteq announced
  BY DEF SchedulePull
<1>3. r0 \in Pull /\ r0.from \subseteq stored
  <2>1. a \in Announcement
    BY DEF IInv, TypeOK
  <2> QED
    BY <2>1, CheckpointsStored DEF Announcement, Pull
<1> HIDE DEF r0
<1>4. TypeOK'
  BY <1>1, <1>2, <1>3 DEF IInv, TypeOK
<1>5. RequestInv'
  BY <1>1, <1>2, <1>3 DEF IInv, RequestInv, Reachable
<1> QED
  BY <1>1, <1>4, <1>5 DEF IInv, StoreInv, BatchesBounded

(* The peer answers from the closest checkpoint, which is stored. *)
LEMMA PullInv ==
  ASSUME IInv, NEW r \in pulls, AnswerPull(r) \/ LosePull(r)
  PROVE  IInv'
<1>1. UNCHANGED <<stored, tip, announced, fetches, batches, streams, candidates>>
        /\ pulls' \subseteq pulls
  BY DEF AnswerPull, LosePull
<1>2. \A h \in headers' :
        h \in headers \/ (h \in Stretch /\ HeaderRange(r.from, r.to, h))
  BY DEF AnswerPull, LosePull
<1>3. r \in Pull /\ r.from \subseteq stored
  BY DEF IInv, TypeOK, RequestInv
<1>4. \A h \in headers' : /\ h \in Stretch
                          /\ Reachable(h.next) /\ h.next # Block0 /\ h.next \in Chain[h.last]
  BY <1>2, <1>3 DEF IInv, TypeOK, RequestInv, HeaderRange, Reachable
<1>5. TypeOK'
  BY <1>1, <1>4 DEF IInv, TypeOK
<1>6. RequestInv'
  BY <1>1, <1>4 DEF IInv, RequestInv, Reachable
<1> QED
  BY <1>1, <1>5, <1>6 DEF IInv, StoreInv, BatchesBounded

LEMMA BatchInv ==
  ASSUME IInv, NEW m \in batches,
         (\E p \in Peers : AnswerBatch(p, m)) \/ LoseBatch(m)
  PROVE  IInv'
<1>1. UNCHANGED <<stored, tip, announced, pulls, fetches, headers, candidates>>
        /\ batches' \subseteq batches
  BY DEF AnswerBatch, LoseBatch
<1>2. \A x \in streams' : \/ x \in streams
                          \/ /\ x \in BlockStream
                             /\ x.next = m.next /\ x.candidate = NoBlock
  <2>1. CASE LoseBatch(m)
    BY <2>1 DEF LoseBatch
  <2>2. CASE \E p \in Peers : AnswerBatch(p, m)
    <3>1. PICK s \in Stretch :
            /\ s.next = m.next
            /\ streams' = streams \cup {[next |-> s.next, last |-> s.last, candidate |-> NoBlock]}
      BY <2>2 DEF AnswerBatch, Served
    <3>2. s.next \in Blocks /\ s.last \in Blocks
      BY DEF Stretch
    <3> QED
      BY <3>1, <3>2 DEF BlockStream
  <2> QED
    BY <2>1, <2>2
<1>3. Reachable(m.next)
  BY DEF IInv, RequestInv
<1>4. TypeOK'
  BY <1>1, <1>2 DEF IInv, TypeOK
<1>5. RequestInv'
  BY <1>1, <1>2, <1>3 DEF IInv, RequestInv, Reachable
<1> QED
  BY <1>1, <1>4, <1>5 DEF IInv, StoreInv, BatchesBounded

LEMMA FetchInv ==
  ASSUME IInv, NEW f \in fetches, AnswerFetch(f) \/ LoseFetch(f)
  PROVE  IInv'
<1>1. UNCHANGED <<stored, tip, announced, pulls, headers, batches, candidates>>
        /\ fetches' \subseteq fetches
  BY DEF AnswerFetch, LoseFetch
<1>2. f.block \in Blocks /\ Reachable(f.block)
  BY DEF IInv, TypeOK, RequestInv, Announcement
<1>3. \A x \in streams' : \/ x \in streams
                          \/ /\ x \in BlockStream
                             /\ x.next = f.block /\ x.candidate = NoBlock
  BY <1>2 DEF AnswerFetch, LoseFetch, BlockStream
<1>4. TypeOK'
  BY <1>1, <1>3 DEF IInv, TypeOK
<1>5. RequestInv'
  BY <1>1, <1>2, <1>3 DEF IInv, RequestInv, Reachable
<1> QED
  BY <1>1, <1>4, <1>5 DEF IInv, StoreInv, BatchesBounded

(* A batch starts at the landing block and holds no more than a chunk. *)
LEMMA HeadersInv ==
  ASSUME IInv, NEW h \in headers, LandHeaders(h) \/ EndHeaders(h)
  PROVE  IInv'
<1>1. UNCHANGED <<stored, tip, announced, fetches, streams, candidates>>
        /\ headers' \subseteq headers /\ pulls' \subseteq pulls
  BY DEF LandHeaders, EndHeaders
<1>2. \A m \in batches' : \/ m \in batches
                          \/ /\ m \in Stretch /\ Landing(h, m.next) /\ Batch(h, m.next, m)
  BY DEF LandHeaders, EndHeaders
<1>3. \A m \in batches' : m \in Stretch /\ Reachable(m.next)
  BY <1>2 DEF IInv, TypeOK, RequestInv, Landing, ParentStored, Reachable
<1>4. BatchesBounded'
  <2> SUFFICES ASSUME NEW m \in batches'
               PROVE  /\ m.next \in Chain[m.last]
                      /\ ChainLength[m.last] < ChainLength[m.next] + ChunkBlocks
    BY DEF BatchesBounded
  <2>1. CASE m \in batches
    BY <2>1 DEF IInv, BatchesBounded
  <2>2. CASE m \notin batches
    <3>1. Batch(h, m.next, m) /\ m.next \in Blocks /\ m.last \in Blocks
      BY <1>2, <2>2 DEF Stretch
    <3>2. ChainLength[m.next] \in Nat /\ ChainLength[m.last] \in Nat /\ ChunkBlocks \in Nat
      BY <3>1, BlockTreeAssumption, SizeAssumption
    <3> QED
      BY <3>1, <3>2 DEF Batch
  <2> QED
    BY <2>1, <2>2
<1>5. TypeOK'
  BY <1>1, <1>3 DEF IInv, TypeOK
<1>6. RequestInv'
  BY <1>1, <1>3 DEF IInv, RequestInv, Reachable
<1> QED
  BY <1>1, <1>4, <1>5, <1>6 DEF IInv, StoreInv

(* The store grows by a block whose parent it has. *)
LEMMA StreamInv ==
  ASSUME IInv, NEW s \in streams, ApplyBlock(s) \/ StopAtBlock(s)
  PROVE  IInv'
<1>1. UNCHANGED <<tip, announced, pulls, headers, batches>> /\ fetches' \subseteq fetches
  BY DEF ApplyBlock, StopAtBlock, DeclareCompleted
<1>2. s \in BlockStream /\ s.next \in Blocks /\ s.last \in Blocks
  BY DEF IInv, TypeOK, BlockStream
<1>3. /\ stored \subseteq stored' /\ stored' \subseteq Blocks
      /\ Connected(stored')
  BY <1>2 DEF ApplyBlock, StopAtBlock, ParentStored, IInv, TypeOK, StoreInv, Connected
<1>4. candidates' \subseteq stored'
  <2>1. CASE ApplyBlock(s)
    BY <2>1, <1>3 DEF ApplyBlock, IInv, StoreInv
  <2>2. CASE StopAtBlock(s)
    BY <2>2, <1>3 DEF StopAtBlock, IInv, StoreInv, RequestInv
  <2> QED
    BY <2>1, <2>2
<1>5. \A x \in streams' : \/ x \in streams
                          \/ /\ x \in BlockStream
                             /\ Reachable(x.next)'
                             /\ x.candidate \in stored'
  <2>1. CASE StopAtBlock(s)
    BY <2>1 DEF StopAtBlock
  <2>2. CASE ApplyBlock(s)
    <3> SUFFICES ASSUME NEW c \in Chain[s.last], Follows(c, s.next)
                 PROVE  LET x == [s EXCEPT !.next = c, !.candidate = s.next]
                        IN  x \in BlockStream /\ Reachable(x.next)' /\ x.candidate \in stored'
      BY <2>2 DEF ApplyBlock
    <3>1. c \in Blocks
      BY <1>2, ChainSelf
    <3>2. s.next \in stored'
      BY <2>2 DEF ApplyBlock
    <3>3. Reachable(c)'
      BY <3>2 DEF Follows, Reachable
    <3> QED
      BY <1>2, <3>1, <3>2, <3>3 DEF BlockStream
  <2> QED
    BY <2>1, <2>2
<1>6. TypeOK'
  BY <1>1, <1>3, <1>4, <1>5 DEF IInv, TypeOK
<1>7. StoreInv'
  BY <1>1, <1>3, <1>4 DEF IInv, StoreInv
<1>8. RequestInv'
  BY <1>1, <1>3, <1>5 DEF IInv, RequestInv, Reachable
<1> QED
  BY <1>1, <1>6, <1>7, <1>8 DEF IInv, BatchesBounded

LEMMA TipUpdaterInv ==
  ASSUME IInv, TipUpdater
  PROVE  IInv'
<1>1. UNCHANGED <<stored, announced, pulls, fetches, headers, batches, streams>>
  BY DEF TipUpdater, UpdateTip, DropCandidate, ReprocessTip
<1>2. candidates' \subseteq stored /\ tip' \in stored
  BY DEF TipUpdater, UpdateTip, DropCandidate, ReprocessTip, IInv, StoreInv
<1>3. TypeOK'
  BY <1>1, <1>2 DEF IInv, TypeOK
<1> QED
  BY <1>1, <1>2, <1>3 DEF IInv, StoreInv, RequestInv, Reachable, BatchesBounded

LEMMA NextIInv == IInv /\ [Next]_vars => IInv'
<1> SUFFICES ASSUME IInv, [Next]_vars PROVE IInv'
  OBVIOUS
<1>1. CASE UNCHANGED vars
  BY <1>1 DEF vars, IInv, TypeOK, StoreInv, RequestInv, Reachable, BatchesBounded
<1>2. CASE Next
  BY <1>2, AnnouncedBlockInv, SchedulePullInv, PullInv, BatchInv, FetchInv, HeadersInv,
     StreamInv, TipUpdaterInv DEF Next, Network, Headers, BlockTasks
<1> QED
  BY <1>1, <1>2

LEMMA Inductive == Spec => []IInv
<1>1. Init => IInv
  BY InitIInv
<1>2. IInv /\ [Next]_vars => IInv'
  BY NextIInv
<1> QED
  BY <1>1, <1>2, PTL DEF Spec

----------------------------------------------------------------------------

(* The variables keep their types: no task, request or message of the      *)
(* synchronisation is ever malformed.                                      *)
THEOREM TypesHold == Spec => []TypeOK
<1>1. IInv => TypeOK
  BY DEF IInv
<1> QED
  BY <1>1, Inductive, PTL

(* Whatever is stored and whichever tip it is between a pull request and   *)
(* its answer, process_chain_headers can land the headers: it never        *)
(* answers MissingParentBlock to an honest peer.                           *)
THEOREM HeadersAlwaysLand == Spec => []HeadersLand
<1>1. IInv => HeadersLand
  <2> SUFFICES ASSUME IInv, NEW h \in headers, h.last \notin stored
               PROVE  \E b \in Chain[h.last] : Landing(h, b)
    BY DEF HeadersLand, Present
  <2>1. /\ stored \in SUBSET Blocks /\ Connected(stored) /\ Block0 \in stored
        /\ h.last \in Blocks
    BY DEF IInv, TypeOK, StoreInv, Stretch
  <2>2. /\ h.next \in Chain[h.last] /\ h.next # Block0
        /\ h.next \in stored \/ Parent[h.next] \in stored
    BY DEF IInv, RequestInv, Reachable
  <2>3. \E b \in Chain[h.last] : /\ h.next \in Chain[b]
                                 /\ b # Block0 /\ b \notin stored /\ Parent[b] \in stored
    BY <2>1, <2>2, BranchLeavesStore
  <2> QED
    BY <2>3 DEF Landing, ParentStored
<1> QED
  BY <1>1, Inductive, PTL

(* No interleaving of block streams makes process_network_block meet a     *)
(* block whose parent is missing.                                          *)
THEOREM BlocksAlwaysLand == Spec => []BlocksLand
<1>1. IInv => BlocksLand
  BY DEF IInv, RequestInv, Reachable, BlocksLand, MissingParent
<1> QED
  BY <1>1, Inductive, PTL

(* advance_branch never asks for more than chunk_sizes::BLOCKS blocks.     *)
THEOREM BatchesAreBounded == Spec => []BatchesBounded
<1>1. IInv => BatchesBounded
  BY DEF IInv
<1> QED
  BY <1>1, Inductive, PTL
=============================================================================
