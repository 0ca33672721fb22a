------------------------------ MODULE ChainSync ------------------------------
(***************************************************************************)
(* How the node catches up with its peers: blockchain/process.rs,          *)
(* candidate.rs and checkpoints.rs, with the answers of client.rs and of   *)
(* the block store on the peer's side.                                     *)
(*                                                                         *)
(* A peer announces a block.  If only the parent is known the block is     *)
(* fetched; if not even that, the headers between the closest checkpoint   *)
(* and the announced block are pulled, the part of the stream that is not  *)
(* stored yet becomes a batch of at most ChunkBlocks hashes, the batch is  *)
(* solicited from any peer, and the blocks are applied as they arrive.     *)
(* Each announcement, header stream and block stream is a task of its own: *)
(* they interleave at every await, and a request, an answer or the rest of *)
(* a stream may be lost.  Peers serve what is in their store.              *)
(*                                                                         *)
(* A stream, or a batch, is the stretch of one branch from a block to a    *)
(* descendant, both included.  Ref cache and block store hold the same     *)
(* blocks here: eviction and garbage collection are in Blockchain.         *)
(***************************************************************************)
EXTENDS BlockTree, FiniteSets

CONSTANTS
    Peers,           \* node ids
    PeerStore,       \* the blocks each peer has
    SlotsPerEpoch,   \* slots of one epoch, for the dates of BlockTree
    ChunkBlocks,     \* chunk_sizes::BLOCKS
    MaxTasks,        \* bound: tasks, requests and messages underway
    NoBlock          \* no candidate yet

ASSUME PeerAssumption ==
    /\ PeerStore \in [Peers -> SUBSET Blocks]
    /\ \A p \in Peers : Block0 \in PeerStore[p] /\ Connected(PeerStore[p])

ASSUME LinkedAssumption == \A b \in Blocks \ {Block0} : Linked(b)

ASSUME SizeAssumption ==
    /\ SlotsPerEpoch \in Nat \ {0}
    /\ ChunkBlocks \in Nat \ {0, 1}
    /\ NoBlock \notin Blocks

VARIABLES
    stored,       \* blocks that are applied and stored
    tip,          \* the tip
    announced,    \* announcement tasks that found no parent and wait for the tip
    pulls,        \* pull_headers_scheduler: requests not launched yet
    fetches,      \* get_next_block_scheduler: requests not launched yet
    headers,      \* header streams being read
    batches,      \* GetBlocks messages to the network task
    streams,      \* block streams being read
    candidates    \* tip_update_mbox

vars == <<stored, tip, announced, pulls, fetches, headers, batches, streams, candidates>>

Announcement == [block : Blocks, peer : Peers]
Pull == [to : Blocks, peer : Peers, from : SUBSET Blocks]
Stretch == [next : Blocks, last : Blocks]
BlockStream == [next : Blocks, last : Blocks, candidate : Blocks \cup {NoBlock}]

TypeOK ==
    /\ stored \in SUBSET Blocks
    /\ tip \in Blocks
    /\ announced \in SUBSET Announcement
    /\ pulls \in SUBSET Pull
    /\ fetches \in SUBSET Announcement
    /\ headers \in SUBSET Stretch
    /\ batches \in SUBSET Stretch
    /\ streams \in SUBSET BlockStream
    /\ candidates \in SUBSET Blocks

Init ==
    /\ stored = {Block0}
    /\ tip = Block0
    /\ announced = {}
    /\ pulls = {}
    /\ fetches = {}
    /\ headers = {}
    /\ batches = {}
    /\ streams = {}
    /\ candidates = {}

----------------------------------------------------------------------------
(* Checkpoints *)

Epoch(b) == BlockDate[b] \div SlotsPerEpoch

(* Ref::last_ref_previous_epoch: the parent of the first block of the      *)
(* epoch on the branch; none in the epoch of block0.                       *)
LastRefPreviousEpoch(b) ==
    {a \in Chain[b] : \E c \in Chain[b] \ {Block0} :
        Parent[c] = a /\ Epoch(a) < Epoch(c) /\ Epoch(c) = Epoch(b)}

(* Up to n steps of it.                                                    *)
Back[n \in Nat] ==
    [b \in Blocks |->
        IF n = 0 \/ LastRefPreviousEpoch(b) = {} THEN b
        ELSE Back[n - 1][CHOOSE a \in LastRefPreviousEpoch(b) : TRUE]]

(* The loop of new_from: what it pushes, with ignore_prev = k.             *)
Pushed[k \in Nat] ==
    [b \in Blocks |->
        IF LastRefPreviousEpoch(b) = {} THEN {}
        ELSE {Back[k + 1][b]} \cup Pushed[k + 1][Back[k + 1][b]]]

(* The first step is not counted when it leads to the parent.              *)
EpochCheckpoints(t) ==
    IF \E a \in LastRefPreviousEpoch(t) : Parent[t] = a
    THEN Pushed[0][Parent[t]]
    ELSE Pushed[0][t]

(* Variant: the list ends where the walk over the epochs ends. *)
CheckpointsNoBlock0(t) ==
    {a \in Chain[t] : \/ a = t
                      \/ t # Block0 /\ a = Parent[t]
                      \/ a \in EpochCheckpoints(t)}

(* Checkpoints::new_from, as a set.  The parent hash of block0 is no block.*)
CheckpointsFrom(t) ==
    {a \in Chain[t] : \/ a = t
                      \/ t # Block0 /\ a = Parent[t]
                      \/ a \in EpochCheckpoints(t)
                      \/ a = Block0}

----------------------------------------------------------------------------
(* Blockchain::pre_check_header: pre_verify_link holds for these blocks.   *)

Present(b) == b \in stored
ParentStored(b) == b # Block0 /\ b \notin stored /\ Parent[b] \in stored
MissingParent(b) == b # Block0 /\ b \notin stored /\ Parent[b] \notin stored

Underway ==
    Cardinality(announced) + Cardinality(pulls) + Cardinality(fetches)
      + Cardinality(headers) + Cardinality(batches) + Cardinality(streams)
      + Cardinality(candidates)

(* process_block_announcement, up to the read of the tip.  A block that is *)
(* present is a step that changes nothing.                                 *)
AnnouncedBlock(p, b) ==
    /\ Underway < MaxTasks
    /\ b \in PeerStore[p]
    /\ \/ /\ ParentStored(b)
          /\ fetches' = fetches \cup {[block |-> b, peer |-> p]}
          /\ UNCHANGED announced
       \/ /\ MissingParent(b)
          /\ announced' = announced \cup {[block |-> b, peer |-> p]}
          /\ UNCHANGED fetches
    /\ UNCHANGED <<stored, tip, pulls, headers, batches, streams, candidates>>

(* ... and from there: a request that is queued gets the new checkpoints.  *)
SchedulePull(a) ==
    /\ a \in announced
    /\ announced' = announced \ {a}
    /\ pulls' = {r \in pulls : r.to # a.block \/ r.peer # a.peer}
                  \cup {[to |-> a.block, peer |-> a.peer, from |-> CheckpointsFrom(tip)]}
    /\ UNCHANGED <<stored, tip, fetches, headers, batches, streams, candidates>>

----------------------------------------------------------------------------
(* The peer's side of the requests *)

(* Storage::find_closest_ancestor; checkpoints that the peer does not have *)
(* are ignored.                                                            *)
ClosestAncestor(from, to, a) ==
    /\ a \in from
    /\ a \in Chain[to]
    /\ \A c \in from : c \in Chain[to] => c \in Chain[a]

(* Variant: the range is one block too short at its start. *)
RangeTooShort(from, to, h) ==
    \E a \in from : /\ ClosestAncestor(from, to, a)
                    /\ h.next # Block0 /\ Parent[h.next] # Block0
                    /\ Parent[Parent[h.next]] = a
                    /\ h.next \in Chain[h.last]
                    /\ h.last \in Chain[to]

(* send_range_from_storage: the blocks after the closest checkpoint, up to *)
(* the end unless the stream is cut.                                       *)
HeaderRange(from, to, h) ==
    \E a \in from : /\ ClosestAncestor(from, to, a)
                    /\ h.next # Block0 /\ Parent[h.next] = a
                    /\ h.next \in Chain[h.last]
                    /\ h.last \in Chain[to]

(* The request is launched, reaches the peer and is answered.              *)
AnswerPull(r) ==
    /\ r \in pulls
    /\ pulls' = pulls \ {r}
    /\ \E h \in Stretch : HeaderRange(r.from, r.to, h) /\ headers' = headers \cup {h}
    /\ UNCHANGED <<stored, tip, announced, fetches, batches, streams, candidates>>

(* No connection to the peer, or no answer.                                *)
LosePull(r) ==
    /\ r \in pulls
    /\ pulls' = pulls \ {r}
    /\ UNCHANGED <<stored, tip, announced, fetches, headers, batches, streams, candidates>>

(* handle_get_blocks stops at the first block the peer does not have.      *)
Served(p, m, s) ==
    /\ s.next = m.next
    /\ s.next \in PeerStore[p]
    /\ s.next \in Chain[s.last]
    /\ s.last \in Chain[m.last]
    /\ s.last \in PeerStore[p]

(* solicit_blocks_any: whichever peer the network task picks.              *)
AnswerBatch(p, m) ==
    /\ m \in batches
    /\ batches' = batches \ {m}
    /\ \E s \in Stretch :
          /\ Served(p, m, s)
          /\ streams' = streams \cup {[next |-> s.next, last |-> s.last, candidate |-> NoBlock]}
    /\ UNCHANGED <<stored, tip, announced, pulls, fetches, headers, candidates>>

LoseBatch(m) ==
    /\ m \in batches
    /\ batches' = batches \ {m}
    /\ UNCHANGED <<stored, tip, announced, pulls, fetches, headers, streams, candidates>>

(* GetNextBlock: the block that was announced, from the peer that did.     *)
AnswerFetch(f) ==
    /\ f \in fetches
    /\ fetches' = fetches \ {f}
    /\ streams' = streams \cup {[next |-> f.block, last |-> f.block, candidate |-> NoBlock]}
    /\ UNCHANGED <<stored, tip, announced, pulls, headers, batches, candidates>>

LoseFetch(f) ==
    /\ f \in fetches
    /\ fetches' = fetches \ {f}
    /\ UNCHANGED <<stored, tip, announced, pulls, headers, batches, streams, candidates>>

----------------------------------------------------------------------------
(* process_chain_headers *)

(* Variant: the first header that is not present is taken. *)
LandAnywhere(h, b) ==
    /\ b \in Chain[h.last]
    /\ h.next \in Chain[b]
    /\ ~Present(b)

(* skip_present_blocks: the first header of the stream that is not present *)
(* while its parent is.  Blocks are only added, so that what was present   *)
(* when the task looked at it still is.                                    *)
Landing(h, b) ==
    /\ b \in Chain[h.last]
    /\ h.next \in Chain[b]
    /\ ParentStored(b)

(* poll_done: headers are taken until the stream ends or the batch holds   *)
(* ChunkBlocks hashes; what is left of the stream is dropped.              *)
Batch(h, b, m) ==
    /\ m.next = b
    /\ b \in Chain[m.last]
    /\ m.last \in Chain[h.last]
    /\ \/ m.last = h.last /\ ChainLength[m.last] < ChainLength[b] + ChunkBlocks
       \/ ChainLength[m.last] + 1 = ChainLength[b] + ChunkBlocks

(* land_header_chain, then the whole of the advance: it reads no state of  *)
(* the node.  Each hash of the batch is declared completed.                *)
LandHeaders(h) ==
    /\ h \in headers
    /\ \E m \in Stretch :
          /\ Landing(h, m.next)
          /\ Batch(h, m.next, m)
          /\ batches' = batches \cup {m}
          /\ pulls' = {r \in pulls : ~(r.to \in Chain[m.last] /\ m.next \in Chain[r.to])}
    /\ headers' = headers \ {h}
    /\ UNCHANGED <<stored, tip, announced, fetches, streams, candidates>>

(* The task ends without a request: every header was present, or the       *)
(* parent of the next one is missing (MissingParentBlock).                 *)
EndHeaders(h) ==
    /\ h \in headers
    /\ \A b \in Chain[h.last] : ~Landing(h, b)
    /\ headers' = headers \ {h}
    /\ UNCHANGED <<stored, tip, announced, pulls, fetches, batches, streams, candidates>>

----------------------------------------------------------------------------
(* process_network_blocks *)

Follows(c, b) == c # Block0 /\ Parent[c] = b

DeclareCompleted(b) == fetches' = {f \in fetches : f.block # b}

(* process_network_block, for a block that is new.                         *)
ApplyBlock(s) ==
    /\ s \in streams
    /\ ParentStored(s.next)
    /\ DeclareCompleted(s.next)
    /\ stored' = stored \cup {s.next}
    /\ \/ /\ s.next = s.last
          /\ streams' = streams \ {s}
          /\ candidates' = candidates \cup {s.next}
       \/ \E c \in Chain[s.last] :
             /\ Follows(c, s.next)
             /\ streams' = (streams \ {s}) \cup {[s EXCEPT !.next = c, !.candidate = s.next]}
             /\ UNCHANGED candidates
    /\ UNCHANGED <<tip, announced, pulls, headers, batches>>

(* Variant: the candidate is sent also when no block was applied. *)
StopSendsAlways(s) ==
    /\ s \in streams
    /\ ~ParentStored(s.next)
    /\ DeclareCompleted(s.next)
    /\ streams' = streams \ {s}
    /\ candidates' = candidates \cup {s.candidate}
    /\ UNCHANGED <<stored, tip, announced, pulls, headers, batches>>

(* Already present, or the parent is missing: either way the rest of the   *)
(* stream is dropped, and what was applied last goes to the tip updater.   *)
StopAtBlock(s) ==
    /\ s \in streams
    /\ ~ParentStored(s.next)
    /\ DeclareCompleted(s.next)
    /\ streams' = streams \ {s}
    /\ candidates' = candidates \cup ({s.candidate} \ {NoBlock})
    /\ UNCHANGED <<stored, tip, announced, pulls, headers, batches>>

----------------------------------------------------------------------------
(* TipUpdater: process_new_ref, a full mailbox, and reprocess_tip *)

UpdateTip(c) ==
    /\ c \in candidates
    /\ candidates' = candidates \ {c}
    /\ tip' = IF PreferCandidate(tip, c, BlockDate[c]) THEN c ELSE tip
    /\ UNCHANGED <<stored, announced, pulls, fetches, headers, batches, streams>>

DropCandidate(c) ==
    /\ c \in candidates
    /\ candidates' = candidates \ {c}
    /\ UNCHANGED <<stored, tip, announced, pulls, fetches, headers, batches, streams>>

ReprocessTip ==
    /\ Underway < MaxTasks
    /\ \E c \in stored :
          /\ \A d \in stored : ChainLength[d] <= ChainLength[c]
          /\ c # tip
          /\ candidates' = candidates \cup {c}
    /\ UNCHANGED <<stored, tip, announced, pulls, fetches, headers, batches, streams>>

----------------------------------------------------------------------------

Network ==
    \/ \E r \in pulls : AnswerPull(r) \/ LosePull(r)
    \/ \E m \in batches : (\E p \in Peers : AnswerBatch(p, m)) \/ LoseBatch(m)
    \/ \E f \in fetches : AnswerFetch(f) \/ LoseFetch(f)

Headers == \E h \in headers : LandHeaders(h) \/ EndHeaders(h)

BlockTasks == \E s \in streams : ApplyBlock(s) \/ StopAtBlock(s)

TipUpdater == (\E c \in candidates : UpdateTip(c) \/ DropCandidate(c)) \/ ReprocessTip

Next ==
    \/ \E p \in Peers, b \in Blocks : AnnouncedBlock(p, b)
    \/ \E a \in announced : SchedulePull(a)
    \/ Network
    \/ Headers
    \/ BlockTasks
    \/ TipUpdater

Spec == Init /\ [][Next]_vars

(* The scheduling the liveness property needs.  A task of the node that    *)
(* can move moves; requests may be lost, but not every one of those that   *)
(* could be answered in full; a peer keeps announcing its newest block,    *)
(* and the tip is reprocessed again and again.  A stream that can land is  *)
(* a task of its own and stays so, hence the strong fairness.              *)
FairSpec ==
    /\ Spec
    /\ \A p \in Peers : SF_vars(\E b \in Leaves(PeerStore[p]) : AnnouncedBlock(p, b))
    /\ \A p \in Peers : WF_vars(\E a \in announced : a.peer = p /\ SchedulePull(a))
    /\ WF_vars(\E r \in pulls : AnswerPull(r) \/ LosePull(r))
    /\ SF_vars(\E r \in pulls : AnswerPull(r) /\ \E h \in headers' : h.last = r.to)
    /\ WF_vars(Headers)
    /\ SF_vars(\E h \in headers : LandHeaders(h))
    /\ WF_vars(\E m \in batches : (\E p \in Peers : AnswerBatch(p, m)) \/ LoseBatch(m))
    /\ SF_vars(\E m \in batches, p \in Peers : m.last \in PeerStore[p] /\ AnswerBatch(p, m))
    /\ WF_vars(\E f \in fetches : AnswerFetch(f) \/ LoseFetch(f))
    /\ SF_vars(\E f \in fetches : AnswerFetch(f))
    /\ WF_vars(BlockTasks)
    /\ WF_vars(\E c \in candidates : UpdateTip(c) \/ DropCandidate(c))
    /\ SF_vars(\E c \in candidates : UpdateTip(c))
    /\ SF_vars(ReprocessTip)

----------------------------------------------------------------------------
(* Properties *)

(* A header stream that an honest peer sends always meets the stored       *)
(* chain, whatever is stored and whichever tip it is between the request   *)
(* and the answer: as long as its last block is not stored one of its      *)
(* headers can be landed on, so that process_chain_headers never answers   *)
(* MissingParentBlock and ends without a request only if none is needed.   *)
HeadersLand ==
    \A h \in headers : Present(h.last) \/ \E b \in Chain[h.last] : Landing(h, b)

(* The blocks of a batch can be applied in the order they are asked for:   *)
(* no interleaving of the block streams makes process_network_block answer *)
(* MissingParentBlock.                                                     *)
BlocksLand ==
    /\ \A m \in batches : ~MissingParent(m.next)
    /\ \A s \in streams : ~MissingParent(s.next)

(* A GetBlocks message asks for at most chunk_sizes::BLOCKS blocks, all of *)
(* one branch.                                                             *)
BatchesBounded ==
    \A m \in batches : /\ m.next \in Chain[m.last]
                       /\ ChainLength[m.last] < ChainLength[m.next] + ChunkBlocks

(* The node catches up with every peer, however far it is behind and       *)
(* whatever fork it is on, although requests and streams get lost and a    *)
(* batch covers only a part of what is missing.                            *)
CatchesUp ==
    \A p \in Peers : <>(\A b \in PeerStore[p] : ChainLength[b] <= ChainLength[tip])
=============================================================================
