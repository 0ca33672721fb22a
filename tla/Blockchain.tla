----------------------------- MODULE Blockchain -----------------------------
(***************************************************************************)
(* The block storage, the cache of block references and the tip of a node: *)
(* blockchain/{chain,process,tip,storage,bootstrap}.rs and                 *)
(* start_up/mod.rs.                                                        *)
(*                                                                         *)
(* The actors are the block tasks that `handle_input` spawns (any number   *)
(* of Tasks run at once), the tip updater, the periodic reprocessing of    *)
(* the branches, the garbage collector, and a process that can stop at any *)
(* point.  Each action runs from one point where others can interleave (an *)
(* await, a write to the store) to the next.                               *)
(***************************************************************************)
EXTENDS BlockTree, FiniteSets, Sequences

CONSTANTS
    None,                  \* no block
    Valid,                 \* blocks whose proof and contents verify
    LeaderBlocks,          \* blocks this node's leaders create
    Tasks,                 \* slots for concurrently running block tasks
    TipUpdateQueueSize,    \* TIP_UPDATE_QUEUE_SIZE
    CacheCapacity,         \* capacity of the RefCache
    EpochStabilityDepth,   \* settings().epoch_stability_depth
    StartTime, EndTime     \* bounds of the clock

ASSUME NoneAssumption == None \notin Blocks
ASSUME LeaderAssumption ==
    /\ LeaderBlocks \subseteq Blocks \ {Block0}
    /\ \A b \in LeaderBlocks : Linked(b)
ASSUME QueueAssumption == TipUpdateQueueSize \in Nat
ASSUME DepthAssumption == EpochStabilityDepth \in Nat \ {0}
ASSUME TimeAssumption == StartTime \in Nat /\ EndTime \in Nat

VARIABLES
    stored,          \* blocks in the BlockStore
    head,            \* the tag HEAD, None before it is first written
    built,           \* blocks the leaders have created so far
    now,             \* the clock
    phase,           \* "down", "genesis", "bootstrap", "running"
    refs,            \* blocks in the RefCache
    tip,             \* the block of the shared Tip
    bootstrapped,    \* maybe_parent_tip of bootstrap_from_stream
    tipQueue,        \* refs sent to the tip updater
    internalQueue,   \* refs sent by reprocess_tip
    task,            \* the block tasks
    updater,         \* where process_new_ref is, and its candidate
    gc               \* the garbage collector's threshold and remaining tips

disk == <<stored, head>>
memory == <<phase, refs, tip, bootstrapped, tipQueue, internalQueue, task,
            updater, gc>>
vars == <<disk, built, now, memory>>

MaybeBlock == Blocks \cup {None}
Phases == {"down", "genesis", "bootstrap", "running"}
TaskPCs == {"idle", "next", "apply", "insert", "finish"}
UpdaterPCs == {"idle", "append", "notify", "switch", "switchtag", "publish"}
TaskState == [pc : TaskPCs, kind : {"network", "leader"}, block : MaybeBlock,
              new : BOOLEAN, candidate : MaybeBlock]
Idle == [pc |-> "idle", kind |-> "network", block |-> None, new |-> FALSE,
         candidate |-> None]
UpdaterIdle == [pc |-> "idle", candidate |-> None]
GcIdle == [active |-> FALSE, threshold |-> 0, tips |-> {}]

TypeOK ==
    /\ stored \in SUBSET Blocks
    /\ head \in MaybeBlock
    /\ built \in SUBSET LeaderBlocks
    /\ now \in Nat
    /\ phase \in Phases
    /\ refs \in SUBSET Blocks
    /\ tip \in MaybeBlock
    /\ bootstrapped \in MaybeBlock
    /\ tipQueue \in Seq(Blocks)
    /\ internalQueue \in Seq(Blocks)
    /\ task \in [Tasks -> TaskState]
    /\ updater \in [pc : UpdaterPCs, candidate : MaybeBlock]
    /\ gc \in [active : BOOLEAN, threshold : Nat, tips : SUBSET Blocks]

Init ==
    /\ stored = {}
    /\ head = None
    /\ built = {}
    /\ now = StartTime
    /\ phase = "down"
    /\ refs = {}
    /\ tip = None
    /\ bootstrapped = None
    /\ tipQueue = <<>>
    /\ internalQueue = <<>>
    /\ task = [t \in Tasks |-> Idle]
    /\ updater = UpdaterIdle
    /\ gc = GcIdle

----------------------------------------------------------------------------
(* The RefCache is an LRU: at capacity an insertion drops one other entry. *)

RefInserted(b) ==
    \/ /\ b \in refs \/ Cardinality(refs) < CacheCapacity
       /\ refs' = refs \cup {b}
    \/ /\ b \notin refs /\ Cardinality(refs) >= CacheCapacity
       /\ \E victim \in refs : refs' = (refs \ {victim}) \cup {b}

----------------------------------------------------------------------------
(* Starting: load_blockchain *)

(* load_from_block0 up to put_block. *)
LoadFromBlock0 ==
    /\ phase = "down"
    /\ Block0 \notin stored
    /\ refs' = {Block0}
    /\ stored' = stored \cup {Block0}
    /\ phase' = "genesis"
    /\ UNCHANGED <<head, built, now, tip, bootstrapped, tipQueue,
                   internalQueue, task, updater, gc>>

(* load_from_block0 from put_tag on. *)
TagBlock0 ==
    /\ phase = "genesis"
    /\ head' = Block0
    /\ tip' = Block0
    /\ phase' = "bootstrap"
    /\ UNCHANGED <<stored, built, now, refs, bootstrapped, tipQueue,
                   internalQueue, task, updater, gc>>

(* What load_from_storage needs to succeed: the tag, and every block       *)
(* from block0 to the tagged one.                                          *)
Loadable == head # None /\ Chain[head] \subseteq stored

(* The blocks up to HEAD are applied in order; the cache keeps the last    *)
(* of them.                                                                *)
LoadFromStorage ==
    /\ phase = "down"
    /\ Block0 \in stored
    /\ Loadable
    /\ refs' = {b \in Chain[head] :
                  ChainLength[head] - ChainLength[b] < CacheCapacity}
    /\ tip' = head
    /\ phase' = "bootstrap"
    /\ UNCHANGED <<stored, head, built, now, bootstrapped, tipQueue,
                   internalQueue, task, updater, gc>>

(* The process stops, in whatever state it is. *)
Stop ==
    /\ phase # "down"
    /\ phase' = "down"
    /\ refs' = {}
    /\ tip' = None
    /\ bootstrapped' = None
    /\ tipQueue' = <<>>
    /\ internalQueue' = <<>>
    /\ task' = [t \in Tasks |-> Idle]
    /\ updater' = UpdaterIdle
    /\ gc' = GcIdle
    /\ UNCHANGED <<disk, built, now>>

(* load_from_storage returns an error and the process ends. *)
LoadFails ==
    /\ phase = "down"
    /\ Block0 \in stored
    /\ ~Loadable
    /\ UNCHANGED vars

----------------------------------------------------------------------------
(* Checking and storing one block *)

(* load_header_parent: the parent's reference must be cached. *)
ParentCached(b) == b # Block0 /\ Parent[b] \in refs

(* BlockStore::put_block refuses a block whose parent it does not have. *)
CanPut(b) == b \in stored \/ Parent[b] \in stored

----------------------------------------------------------------------------
(* The tip updater *)

(* process_new_ref up to the choice between extending and switching. *)
ProcessNewRef(candidate) ==
    updater' = IF PreferCandidate(tip, candidate, now) /\ candidate \in stored
               THEN [pc |-> IF Parent[candidate] = tip THEN "append" ELSE "switch",
                     candidate |-> candidate]
               ELSE UpdaterIdle

(* TipUpdater::run takes the next reference of either queue. *)
TakeNewRef ==
    /\ updater.pc = "idle"
    /\ tipQueue # <<>>
    /\ ProcessNewRef(Head(tipQueue))
    /\ tipQueue' = Tail(tipQueue)
    /\ UNCHANGED <<disk, built, now, phase, refs, tip, bootstrapped,
                   internalQueue, task, gc>>

(* Variant: the internal queue is drained, its references are ignored. *)
TakeReprocessedIgnored ==
    /\ updater.pc = "idle"
    /\ internalQueue # <<>>
    /\ internalQueue' = Tail(internalQueue)
    /\ UNCHANGED <<disk, built, now, phase, refs, tip, bootstrapped,
                   tipQueue, task, updater, gc>>

TakeReprocessed ==
    /\ updater.pc = "idle"
    /\ internalQueue # <<>>
    /\ ProcessNewRef(Head(internalQueue))
    /\ internalQueue' = Tail(internalQueue)
    /\ UNCHANGED <<disk, built, now, phase, refs, tip, bootstrapped,
                   tipQueue, task, gc>>

UpdaterStep(from, to) ==
    /\ updater.pc = from
    /\ updater' = IF to = "idle" THEN UpdaterIdle ELSE [updater EXCEPT !.pc = to]
    /\ UNCHANGED <<stored, built, now, phase, refs, bootstrapped, tipQueue,
                   internalQueue, task, gc>>

PutTag == head' = updater.candidate /\ UNCHANGED tip

UpdateRef == tip' = updater.candidate /\ UNCHANGED head

(* Variant: put_tag is forgotten. *)
AppendWithoutTag == UpdaterStep("append", "notify") /\ UNCHANGED <<head, tip>>

(* update_current_branch_tip: the tag is written, the fragment pool is     *)
(* told of the block, the tip is replaced.                                 *)
AppendTag == UpdaterStep("append", "notify") /\ PutTag

AppendUpdate == UpdaterStep("notify", "idle") /\ UpdateRef

(* try_request_fragment_removal finds the queue of the pool full: the      *)
(* error ends process_new_ref with the tag already written.                *)
AppendNotifyFails ==
    /\ phase = "running"
    /\ UpdaterStep("notify", "idle")
    /\ UNCHANGED <<head, tip>>

(* switch_tip_branch: the pool is told of the fork and of the blocks of    *)
(* the branch, the tag is written, the tip is replaced.                    *)
SwitchNotify == UpdaterStep("switch", "switchtag") /\ UNCHANGED <<head, tip>>

SwitchNotifyFails ==
    /\ phase = "running"
    /\ UpdaterStep("switch", "idle")
    /\ UNCHANGED <<head, tip>>

(* Variant: the tip is replaced before the tag is written. *)
SwitchTipFirst == UpdaterStep("switchtag", "publish") /\ UpdateRef

SwitchTag == UpdaterStep("switchtag", "publish") /\ PutTag

SwitchUpdate == UpdaterStep("publish", "idle") /\ UpdateRef

Updater ==
    \/ TakeNewRef \/ TakeReprocessed
    \/ AppendTag \/ AppendUpdate \/ AppendNotifyFails
    \/ SwitchNotify \/ SwitchNotifyFails \/ SwitchTag \/ SwitchUpdate

(* reprocess_tip: the best branch that is both a tip of the store and in   *)
(* the cache goes to the internal queue, which holds one reference.        *)
Reprocess ==
    /\ phase = "running"
    /\ internalQueue = <<>>
    /\ \E b \in BestBranches(Leaves(stored) \cap refs, now) :
          /\ b # tip
          /\ internalQueue' = <<b>>
    /\ UNCHANGED <<disk, built, now, phase, refs, tip, bootstrapped, tipQueue,
                   task, updater, gc>>

----------------------------------------------------------------------------
(* Bootstrap: blocks of a trusted peer's stream, nothing else is running   *)

(* handle_bootstrap_block.  A block that fails any check ends the stream.  *)
BootstrapBlock(b) ==
    /\ phase = "bootstrap"
    /\ updater.pc = "idle"
    /\ b \in LeaderBlocks => b \in stored
    /\ ParentCached(b) /\ Linked(b) /\ b \in Valid /\ CanPut(b)
    /\ stored' = stored \cup {b}
    /\ RefInserted(b)
    /\ bootstrapped' = b
    /\ UNCHANGED <<head, built, now, phase, tip, tipQueue, internalQueue,
                   task, updater, gc>>

(* The end of the stream, an error in it or a cancellation: what was       *)
(* applied last becomes a candidate for the tip.                           *)
BootstrapStreamEnds ==
    /\ phase = "bootstrap"
    /\ bootstrapped # None
    /\ ProcessNewRef(bootstrapped)
    /\ bootstrapped' = None
    /\ UNCHANGED <<disk, built, now, phase, refs, tip, tipQueue, internalQueue,
                   task, gc>>

StartServices ==
    /\ phase = "bootstrap"
    /\ bootstrapped = None
    /\ updater.pc = "idle"
    /\ phase' = "running"
    /\ UNCHANGED <<disk, built, now, refs, tip, bootstrapped, tipQueue,
                   internalQueue, task, updater, gc>>

----------------------------------------------------------------------------
(* Block tasks *)

TaskStep(t, from, state) ==
    /\ task[t].pc = from
    /\ task' = [task EXCEPT ![t] = state]
    /\ UNCHANGED <<head, now, phase, tip, bootstrapped, internalQueue,
                   updater, gc>>

(* BlockMsg::NetworkBlocks *)
StartNetworkBlocks(t) ==
    /\ phase = "running"
    /\ TaskStep(t, "idle", [Idle EXCEPT !.pc = "next"])
    /\ UNCHANGED <<stored, built, refs, tipQueue>>

(* BlockMsg::LeadershipBlock: a block built on what was the tip.  It       *)
(* passes no header check.                                                 *)
StartLeadershipBlock(t, b) ==
    /\ phase = "running"
    /\ b \in LeaderBlocks \ built
    /\ Parent[b] = tip
    /\ built' = built \cup {b}
    /\ TaskStep(t, "idle", [Idle EXCEPT !.pc = "apply", !.kind = "leader",
                                        !.block = b])
    /\ UNCHANGED <<stored, refs, tipQueue>>

(* Variant: pre_verify_link is skipped. *)
NextBlockUnverified(t, b) ==
    /\ b \in LeaderBlocks => b \in stored
    /\ TaskStep(t, "next",
         IF b \notin refs /\ ParentCached(b)
         THEN [task[t] EXCEPT !.pc = "apply", !.block = b]
         ELSE [task[t] EXCEPT !.pc = "finish"])
    /\ UNCHANGED <<stored, built, refs, tipQueue>>

(* pre_check_header on the next block of the stream.  A peer can only have *)
(* a leader's block after this node stored it.                             *)
NextBlock(t, b) ==
    /\ b \in LeaderBlocks => b \in stored
    /\ TaskStep(t, "next",
         IF b \notin refs /\ ParentCached(b) /\ Linked(b)
         THEN [task[t] EXCEPT !.pc = "apply", !.block = b]
         ELSE [task[t] EXCEPT !.pc = "finish"])
    /\ UNCHANGED <<stored, built, refs, tipQueue>>

EndOfStream(t) ==
    /\ TaskStep(t, "next", [task[t] EXCEPT !.pc = "finish"])
    /\ UNCHANGED <<stored, built, refs, tipQueue>>

(* post_check_header, apply_block_dry_run, apply_block_check_rewards and   *)
(* put_block.                                                              *)
ApplyBlock(t) ==
    LET b == task[t].block
        ok == b \in Valid /\ CanPut(b)
    IN /\ TaskStep(t, "apply",
            IF ok THEN [task[t] EXCEPT !.pc = "insert", !.new = b \notin stored]
                  ELSE [task[t] EXCEPT !.pc = "finish"])
       /\ stored' = IF ok THEN stored \cup {b} ELSE stored
       /\ UNCHANGED <<built, refs, tipQueue>>

(* create_and_store_reference.  A network task goes on with the stream     *)
(* after a new block and gives up after one the store already had.         *)
InsertRef(t) ==
    LET s == task[t]
    IN /\ TaskStep(t, "insert",
            [s EXCEPT !.pc = IF s.kind = "network" /\ s.new THEN "next" ELSE "finish",
                      !.candidate = IF s.new THEN s.block ELSE @])
       /\ RefInserted(s.block)
       /\ UNCHANGED <<stored, built, tipQueue>>

(* process_and_propagate_new_ref: a full queue loses the reference. *)
FinishTask(t) ==
    /\ TaskStep(t, "finish", Idle)
    /\ tipQueue' = IF task[t].candidate # None /\ Len(tipQueue) < TipUpdateQueueSize
                   THEN Append(tipQueue, task[t].candidate)
                   ELSE tipQueue
    /\ UNCHANGED <<stored, built, refs>>

(* timeout_spawn_fallible drops a task that waits: for its stream, or for  *)
(* the lock of a cache after the block was stored.                         *)
TaskTimeout(t) ==
    /\ task[t].pc \in {"next", "insert"}
    /\ TaskStep(t, task[t].pc, Idle)
    /\ UNCHANGED <<stored, built, refs, tipQueue>>

BlockTask(t) ==
    \/ StartNetworkBlocks(t)
    \/ \E b \in Blocks : StartLeadershipBlock(t, b) \/ NextBlock(t, b)
    \/ EndOfStream(t) \/ ApplyBlock(t) \/ InsertRef(t) \/ FinishTask(t)
    \/ TaskTimeout(t)

----------------------------------------------------------------------------
(* The garbage collector *)

(* Variant: the stability depth is not subtracted. *)
GcStartWithoutDepth ==
    /\ phase = "running"
    /\ ~gc.active
    /\ tip \in stored
    /\ gc' = [active |-> TRUE, tips |-> Leaves(stored),
              threshold |-> ChainLength[tip]]
    /\ UNCHANGED <<disk, built, now, phase, refs, tip, bootstrapped, tipQueue,
                   internalQueue, task, updater>>

(* Storage::gc up to its loop, with the tip as it is now. *)
GcStart ==
    /\ phase = "running"
    /\ ~gc.active
    /\ tip \in stored
    /\ ChainLength[tip] >= EpochStabilityDepth
    /\ gc' = [active |-> TRUE, tips |-> Leaves(stored),
              threshold |-> ChainLength[tip] - EpochStabilityDepth]
    /\ UNCHANGED <<disk, built, now, phase, refs, tip, bootstrapped, tipQueue,
                   internalQueue, task, updater>>

(* One turn of the loop.  A tip that has grown or gone in the meantime     *)
(* makes the store return an error, which ends the collection.             *)
GcPrune ==
    /\ gc.active
    /\ \E b \in gc.tips :
         \/ /\ b \in stored /\ ChainLength[b] > gc.threshold
            /\ gc' = [gc EXCEPT !.tips = @ \ {b}]
            /\ UNCHANGED stored
         \/ /\ b \in Leaves(stored) /\ ChainLength[b] <= gc.threshold
            /\ stored' = stored \ OnlyOnBranch(stored, b)
            /\ gc' = [gc EXCEPT !.tips = @ \ {b}]
         \/ /\ b \notin stored \/ (b \notin Leaves(stored) /\ ChainLength[b] <= gc.threshold)
            /\ gc' = GcIdle
            /\ UNCHANGED stored
    /\ UNCHANGED <<head, built, now, phase, refs, tip, bootstrapped, tipQueue,
                   internalQueue, task, updater>>

(* The loop is over; flushing to the permanent store moves no block out. *)
GcEnd ==
    /\ gc.active
    /\ gc.tips = {}
    /\ gc' = GcIdle
    /\ UNCHANGED <<disk, built, now, phase, refs, tip, bootstrapped, tipQueue,
                   internalQueue, task, updater>>

----------------------------------------------------------------------------
Tick ==
    /\ now < EndTime
    /\ now' = now + 1
    /\ UNCHANGED <<disk, built, memory>>

Next ==
    \/ LoadFromBlock0 \/ TagBlock0 \/ LoadFromStorage \/ LoadFails \/ Stop
    \/ \E b \in Blocks : BootstrapBlock(b)
    \/ BootstrapStreamEnds \/ StartServices
    \/ Updater \/ Reprocess
    \/ \E t \in Tasks : BlockTask(t)
    \/ GcStart \/ GcPrune \/ GcEnd
    \/ Tick

Spec == Init /\ [][Next]_vars

(* Queues are served, time passes, periodic work recurs, and the pool's    *)
(* queue is not full every time it is tried: its task drains it.  The two  *)
(* queues of the updater are merged by a fair select.  Block tasks, the    *)
(* collector and stops owe nothing.                                        *)
Fairness ==
    /\ WF_vars(TakeNewRef) /\ SF_vars(TakeReprocessed)
    /\ WF_vars(AppendTag) /\ SF_vars(AppendUpdate)
    /\ WF_vars(AppendUpdate \/ AppendNotifyFails)
    /\ SF_vars(SwitchNotify) /\ WF_vars(SwitchNotify \/ SwitchNotifyFails)
    /\ WF_vars(SwitchTag) /\ WF_vars(SwitchUpdate)
    /\ WF_vars(Reprocess) /\ WF_vars(Tick)

FairSpec == Spec /\ Fairness

----------------------------------------------------------------------------
(* Properties *)

(* The store is a tree of checked links rooted in block0, whatever the     *)
(* interleaving of block tasks, bootstrap, garbage collection and stops.   *)
StoreConnected ==
    /\ Connected(stored)
    /\ \A b \in stored \ {Block0} : Linked(b)

(* HEAD can be loaded after a stop at any point: every block from block0   *)
(* to HEAD is in the store.  The collector works from a tip it read        *)
(* earlier and prunes while the updater moves HEAD.                        *)
HeadLoadable == head # None => Chain[head] \subseteq stored

(* The tip the other components see has all its ancestors in the store,    *)
(* and is HEAD or the parent of HEAD whenever the updater is at rest.      *)
TipFollowsHead ==
    tip # None =>
        /\ Chain[tip] \subseteq stored
        /\ updater.pc = "idle" => head = tip \/ (head # Block0 /\ Parent[head] = tip)

(* A branch is not forgotten when its reference is lost on the way to the  *)
(* updater (a full queue, an error of the pool's queue, a date still in    *)
(* the future): as long as its tip stays cached and a tip of the store,    *)
(* the node ends up on a chain at least as long.                           *)
Pending(b) ==
    /\ phase = "running"
    /\ b \in Leaves(stored) \cap refs
    /\ ChainLength[tip] < ChainLength[b]

TipCatchesUp == \A b \in Blocks : Pending(b) ~> ~Pending(b)

(* Neither HEAD, across stops and restarts, nor the tip while the process  *)
(* runs ever moves to a shorter chain.                                     *)
NeverShorter ==
    [][ /\ head # None => ChainLength[head'] >= ChainLength[head]
        /\ (tip # None /\ tip' # None) => ChainLength[tip'] >= ChainLength[tip] ]_vars

(* HEAD and the tip implement the register DurableTip.  *)
Register == INSTANCE DurableTip WITH durable <- head, visible <- tip

(* The updater writes HEAD before it shows the tip on both of its paths,   *)
(* and a restart shows HEAD: the rest of the node never sees a tip that a  *)
(* stop could take back.                                                   *)
ImplementsDurableTip == Register!Spec
=============================================================================
