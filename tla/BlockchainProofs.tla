-------------------------- MODULE BlockchainProofs --------------------------
(***************************************************************************)
(* Proofs about Blockchain, for every tree of blocks, number of tasks,     *)
(* queue size, cache capacity and stability depth other than 0.            *)
(***************************************************************************)
EXTENDS Blockchain, BlockTreeProofs, TLAPS

----------------------------------------------------------------------------
(* The inductive invariant *)

(* Every block of the store descends from block0 through the store. *)
Rooted == \A b \in stored : Block0 \in Chain[b]

(* What each phase of the start has behind it. *)
PhaseInv ==
    /\ tip # None <=> phase \in {"bootstrap", "running"}
    /\ tip # None => tip \in stored /\ head # None
    /\ head # None => head \in stored
    /\ phase = "genesis" => head = None /\ Block0 \in stored
    /\ phase # "running" =>
         /\ tipQueue = <<>> /\ internalQueue = <<>>
         /\ \A t \in Tasks : task[t].pc = "idle"
         /\ ~gc.active
    /\ bootstrapped # None => phase = "bootstrap" /\ updater.pc = "idle"

HeadIsTipOrChild == head = tip \/ (head # Block0 /\ Parent[head] = tip)

(* What the tip updater knows at each of its awaits. *)
UpdaterInv ==
    LET c == updater.candidate IN
    /\ tip = None => updater.pc = "idle"
    /\ (tip # None /\ updater.pc = "idle") => HeadIsTipOrChild
    /\ updater.pc # "idle" =>
         c \in stored /\ c # Block0 /\ ChainLength[tip] < ChainLength[c]
    /\ updater.pc \in {"append", "switch", "switchtag"} => HeadIsTipOrChild
    /\ updater.pc \in {"append", "notify"} => Parent[c] = tip
    /\ updater.pc \in {"notify", "publish"} => head = c

(* The collector's threshold stays below the tip, which it read earlier. *)
GcInv == gc.active => gc.threshold < ChainLength[tip]

(* A block on its way to the store has a checked link. *)
TaskInv ==
    \A t \in Tasks :
        task[t].pc \in {"apply", "insert"} =>
            task[t].block \in Blocks /\ Linked(task[t].block)

IInv == TypeOK /\ StoreConnected /\ Rooted /\ PhaseInv /\ UpdaterInv /\ GcInv /\ TaskInv

----------------------------------------------------------------------------
(* Steps of the store *)

(* put_block of a block with a checked link keeps the store a rooted tree. *)
LEMMA PutKeepsTree ==
  ASSUME TypeOK, StoreConnected, Rooted,
         NEW b \in Blocks, Linked(b), CanPut(b), stored' = stored \cup {b}
  PROVE  StoreConnected' /\ Rooted'
<1>1. b # Block0 /\ Parent[b] \in stored
  BY DEF Linked, CanPut, StoreConnected, Connected
<1>2. Connected(stored')
  BY <1>1 DEF Connected, StoreConnected
<1>3. \A x \in stored' \ {Block0} : Linked(x)
  BY DEF StoreConnected
<1>4. Block0 \in Chain[b]
  BY <1>1, ChainParent DEF Rooted
<1> QED
  BY <1>2, <1>3, <1>4 DEF StoreConnected, Rooted

(* prune_branch removes no block longer than the branch, and leaves a tree *)
(* behind.                                                                 *)
LEMMA PruneKeepsTree ==
  ASSUME TypeOK, StoreConnected, Rooted, NEW b \in stored,
         stored' = stored \ OnlyOnBranch(stored, b)
  PROVE  /\ StoreConnected' /\ Rooted'
         /\ \A x \in stored : ChainLength[x] > ChainLength[b] => x \in stored'
<1>1. stored \in SUBSET Blocks /\ stored' \in SUBSET Blocks
  BY DEF TypeOK
<1>2. Connected(stored')
  <2> SUFFICES ASSUME NEW x \in stored', x # Block0
               PROVE  Parent[x] \in stored'
    BY DEF Connected
  <2>1. x \in stored /\ Parent[x] \in stored
    BY DEF StoreConnected, Connected
  <2>2. PICK d \in stored : x \in Chain[d] /\ d \notin Chain[b]
    BY DEF OnlyOnBranch
  <2>3. Parent[x] \in Chain[d]
    BY <1>1, <2>2, ChainConnected DEF Connected
  <2> QED
    BY <2>1, <2>2, <2>3 DEF OnlyOnBranch
<1>3. ASSUME NEW x \in stored, ChainLength[x] > ChainLength[b]
      PROVE  x \in stored'
  <2>1. x \notin Chain[b]
    <3>1. ASSUME x \in Chain[b]
          PROVE  ChainLength[x] <= ChainLength[b]
      BY <1>1, <3>1, AncestorNoLonger DEF StoreConnected
    <3>2. ChainLength[x] \in Nat /\ ChainLength[b] \in Nat
      BY <1>1, BlockTreeAssumption
    <3> QED
      BY <1>3, <3>1, <3>2
  <2>2. x \in Chain[x]
    BY <1>1, ChainSelf
  <2> QED
    BY <2>1, <2>2 DEF OnlyOnBranch
<1> QED
  BY <1>1, <1>2, <1>3 DEF StoreConnected, Rooted

(* Block0 is the shortest block of the store, and HEAD is at most one      *)
(* block ahead of the tip.                                                 *)
LEMMA Lengths ==
  ASSUME IInv
  PROVE  /\ \A b \in stored : ChainLength[Block0] <= ChainLength[b]
         /\ \A b \in Blocks : ChainLength[b] \in Nat
         /\ (tip # None /\ HeadIsTipOrChild) =>
               /\ ChainLength[tip] <= ChainLength[head]
               /\ ChainLength[head] <= ChainLength[tip] + 1
<1>1. \A b \in Blocks : ChainLength[b] \in Nat
  BY BlockTreeAssumption
<1>2. ASSUME NEW b \in stored
      PROVE  ChainLength[Block0] <= ChainLength[b]
  BY AncestorNoLonger DEF IInv, TypeOK, StoreConnected, Rooted
<1>3. ASSUME tip # None, HeadIsTipOrChild
      PROVE  /\ ChainLength[tip] <= ChainLength[head]
             /\ ChainLength[head] <= ChainLength[tip] + 1
  <2>1. tip \in Blocks /\ head \in stored /\ head \in Blocks
    BY <1>3 DEF IInv, TypeOK, PhaseInv
  <2>2. head # tip => ChainLength[head] = ChainLength[tip] + 1
    BY <1>3, <2>1 DEF IInv, StoreConnected, Linked, HeadIsTipOrChild
  <2> QED
    BY <1>1, <2>1, <2>2
<1> QED
  BY <1>1, <1>2, <1>3

----------------------------------------------------------------------------
(* The invariant holds initially and is kept by each action *)

LEMMA InitIInv == Init => IInv
<1> SUFFICES ASSUME Init PROVE IInv
  OBVIOUS
<1>1. TypeOK
  BY TimeAssumption DEF Init, TypeOK, MaybeBlock, Phases, TaskState, TaskPCs, Idle,
     UpdaterIdle, UpdaterPCs, GcIdle
<1>2. StoreConnected /\ Rooted
  BY DEF Init, StoreConnected, Connected, Rooted
<1>3. PhaseInv /\ UpdaterInv /\ GcInv /\ TaskInv
  BY DEF Init, PhaseInv, UpdaterInv, GcInv, TaskInv, Idle, UpdaterIdle, GcIdle
<1> QED
  BY <1>1, <1>2, <1>3 DEF IInv

(* Steps that start and stop the process. *)
LEMMA StartSteps ==
  ASSUME IInv, LoadFromBlock0 \/ TagBlock0 \/ LoadFromStorage \/ LoadFails \/ Stop
               \/ StartServices
  PROVE  IInv'
<1> USE DEF IInv
<1>1. CASE LoadFromBlock0
  <2>1. stored = {}
    BY <1>1, ChainMinimal DEF LoadFromBlock0, Rooted, TypeOK, StoreConnected
  <2>2. TypeOK'
    BY <1>1, BlockTreeAssumption DEF LoadFromBlock0, TypeOK, Phases
  <2>3. StoreConnected' /\ Rooted'
    BY <1>1, <2>1, ChainSelf, BlockTreeAssumption
    DEF LoadFromBlock0, StoreConnected, Rooted, Connected
  <2>4. PhaseInv'
    BY <1>1, <2>1 DEF LoadFromBlock0, PhaseInv, TypeOK, MaybeBlock
  <2>5. UpdaterInv' /\ GcInv' /\ TaskInv'
    BY <1>1, <2>1 DEF LoadFromBlock0, PhaseInv, UpdaterInv, HeadIsTipOrChild, GcInv, TaskInv
  <2> QED
    BY <2>2, <2>3, <2>4, <2>5
<1>2. CASE TagBlock0
  <2>2. TypeOK'
    BY <1>2, BlockTreeAssumption DEF TagBlock0, TypeOK, Phases, MaybeBlock
  <2>3. StoreConnected' /\ Rooted'
    BY <1>2 DEF TagBlock0, StoreConnected, Rooted
  <2>4. PhaseInv'
    BY <1>2, NoneAssumption, BlockTreeAssumption DEF TagBlock0, PhaseInv
  <2>5. UpdaterInv' /\ GcInv' /\ TaskInv'
    BY <1>2 DEF TagBlock0, PhaseInv, UpdaterInv, HeadIsTipOrChild, GcInv, TaskInv
  <2> QED
    BY <2>2, <2>3, <2>4, <2>5
<1>3. CASE LoadFromStorage
  <2>1. head \in Blocks
    BY <1>3 DEF LoadFromStorage, Loadable, TypeOK, MaybeBlock
  <2>2. TypeOK'
    BY <1>3, <2>1, ChainSelf DEF LoadFromStorage, TypeOK, Phases, MaybeBlock
  <2>3. StoreConnected' /\ Rooted'
    BY <1>3 DEF LoadFromStorage, StoreConnected, Rooted
  <2>4. PhaseInv'
    BY <1>3, <2>1, NoneAssumption DEF LoadFromStorage, PhaseInv
  <2>5. UpdaterInv' /\ GcInv' /\ TaskInv'
    BY <1>3 DEF LoadFromStorage, PhaseInv, UpdaterInv, HeadIsTipOrChild, GcInv, TaskInv
  <2> QED
    BY <2>2, <2>3, <2>4, <2>5
<1>4. CASE LoadFails
  BY <1>4 DEF LoadFails, vars, disk, memory, TypeOK, StoreConnected, Rooted, PhaseInv,
     UpdaterInv, HeadIsTipOrChild, GcInv, TaskInv
<1>5. CASE Stop
  <2>2. TypeOK'
    BY <1>5 DEF Stop, disk, TypeOK, Phases, MaybeBlock, TaskState, TaskPCs, Idle, UpdaterIdle,
       UpdaterPCs, GcIdle
  <2>3. StoreConnected' /\ Rooted'
    BY <1>5 DEF Stop, disk, StoreConnected, Rooted
  <2>4. PhaseInv'
    BY <1>5 DEF Stop, disk, PhaseInv, Idle, GcIdle, UpdaterIdle
  <2>5. UpdaterInv' /\ GcInv' /\ TaskInv'
    BY <1>5 DEF Stop, disk, UpdaterInv, HeadIsTipOrChild, GcInv, TaskInv, Idle, GcIdle, UpdaterIdle
  <2> QED
    BY <2>2, <2>3, <2>4, <2>5
<1>6. CASE StartServices
  <2>2. TypeOK'
    BY <1>6 DEF StartServices, disk, TypeOK, Phases
  <2>3. StoreConnected' /\ Rooted'
    BY <1>6 DEF StartServices, disk, StoreConnected, Rooted
  <2>4. PhaseInv'
    BY <1>6 DEF StartServices, disk, PhaseInv
  <2>5. UpdaterInv' /\ GcInv' /\ TaskInv'
    BY <1>6 DEF StartServices, disk, UpdaterInv, HeadIsTipOrChild, GcInv, TaskInv
  <2> QED
    BY <2>2, <2>3, <2>4, <2>5
<1> QED
  BY <1>1, <1>2, <1>3, <1>4, <1>5, <1>6

(* process_new_ref starts only with a stored candidate longer than the tip. *)
LEMMA ProcessNewRefInv ==
  ASSUME IInv, NEW c \in Blocks, ProcessNewRef(c), tip # None, updater.pc = "idle",
         UNCHANGED <<stored, head, tip>>
  PROVE  /\ updater' \in [pc : UpdaterPCs, candidate : MaybeBlock]
         /\ UpdaterInv'
<1>1. updater' \in [pc : UpdaterPCs, candidate : MaybeBlock]
  BY DEF ProcessNewRef, UpdaterIdle, UpdaterPCs, MaybeBlock
<1>2. CASE PreferCandidate(tip, c, now) /\ c \in stored
  <2>1. ChainLength[tip] < ChainLength[c]
    BY <1>2 DEF PreferCandidate
  <2>2. tip \in stored /\ tip \in Blocks /\ Block0 \in Blocks
    BY BlockTreeAssumption DEF IInv, PhaseInv, TypeOK
  <2>3. c # Block0
    BY <2>1, <2>2, Lengths
  <2> QED
    BY <1>1, <1>2, <2>1, <2>3 DEF IInv, UpdaterInv, ProcessNewRef, HeadIsTipOrChild
<1>3. CASE ~(PreferCandidate(tip, c, now) /\ c \in stored)
  BY <1>1, <1>3 DEF IInv, UpdaterInv, ProcessNewRef, HeadIsTipOrChild, UpdaterIdle
<1> QED
  BY <1>1, <1>2, <1>3

(* Steps that hand a reference to the updater, or to its internal queue. *)
LEMMA TakeSteps ==
  ASSUME IInv, TakeNewRef \/ TakeReprocessed \/ BootstrapStreamEnds \/ Reprocess \/ Tick
  PROVE  IInv'
<1> USE DEF IInv
<1>1. CASE TakeNewRef
  <2>1. Head(tipQueue) \in Blocks /\ Tail(tipQueue) \in Seq(Blocks) /\ phase = "running"
    BY <1>1 DEF TakeNewRef, TypeOK, PhaseInv
  <2>2. UpdaterInv' /\ updater' \in [pc : UpdaterPCs, candidate : MaybeBlock]
    BY <1>1, <2>1, ProcessNewRefInv DEF TakeNewRef, disk, PhaseInv
  <2>3. TypeOK'
    BY <1>1, <2>1, <2>2 DEF TakeNewRef, disk, TypeOK
  <2>4. StoreConnected' /\ Rooted' /\ GcInv' /\ TaskInv'
    BY <1>1 DEF TakeNewRef, disk, StoreConnected, Rooted, GcInv, TaskInv
  <2>5. PhaseInv'
    BY <1>1, <2>1 DEF TakeNewRef, disk, PhaseInv
  <2> QED
    BY <2>2, <2>3, <2>4, <2>5
<1>2. CASE TakeReprocessed
  <2>1. Head(internalQueue) \in Blocks /\ Tail(internalQueue) \in Seq(Blocks) /\ phase = "running"
    BY <1>2 DEF TakeReprocessed, TypeOK, PhaseInv
  <2>2. UpdaterInv' /\ updater' \in [pc : UpdaterPCs, candidate : MaybeBlock]
    BY <1>2, <2>1, ProcessNewRefInv DEF TakeReprocessed, disk, PhaseInv
  <2>3. TypeOK'
    BY <1>2, <2>1, <2>2 DEF TakeReprocessed, disk, TypeOK
  <2>4. StoreConnected' /\ Rooted' /\ GcInv' /\ TaskInv'
    BY <1>2 DEF TakeReprocessed, disk, StoreConnected, Rooted, GcInv, TaskInv
  <2>5. PhaseInv'
    BY <1>2, <2>1 DEF TakeReprocessed, disk, PhaseInv
  <2> QED
    BY <2>2, <2>3, <2>4, <2>5
<1>3. CASE BootstrapStreamEnds
  <2>1. bootstrapped \in Blocks /\ updater.pc = "idle" /\ tip # None
    BY <1>3 DEF BootstrapStreamEnds, TypeOK, MaybeBlock, PhaseInv
  <2>2. UpdaterInv' /\ updater' \in [pc : UpdaterPCs, candidate : MaybeBlock]
    BY <1>3, <2>1, ProcessNewRefInv DEF BootstrapStreamEnds, disk
  <2>3. TypeOK'
    BY <1>3, <2>2 DEF BootstrapStreamEnds, disk, TypeOK, MaybeBlock
  <2>4. StoreConnected' /\ Rooted' /\ GcInv' /\ TaskInv'
    BY <1>3 DEF BootstrapStreamEnds, disk, StoreConnected, Rooted, GcInv, TaskInv
  <2>5. PhaseInv'
    BY <1>3 DEF BootstrapStreamEnds, disk, PhaseInv
  <2> QED
    BY <2>2, <2>3, <2>4, <2>5
<1>4. CASE Reprocess
  <2>1. internalQueue' \in Seq(Blocks)
    BY <1>4 DEF Reprocess, BestBranches, TypeOK
  <2>2. TypeOK'
    BY <1>4, <2>1 DEF Reprocess, disk, TypeOK
  <2>3. StoreConnected' /\ Rooted' /\ GcInv' /\ TaskInv'
    BY <1>4 DEF Reprocess, disk, StoreConnected, Rooted, GcInv, TaskInv
  <2>4. PhaseInv' /\ UpdaterInv'
    BY <1>4 DEF Reprocess, disk, PhaseInv, UpdaterInv, HeadIsTipOrChild
  <2> QED
    BY <2>2, <2>3, <2>4
<1>5. CASE Tick
  BY <1>5 DEF Tick, disk, memory, TypeOK, StoreConnected, Rooted, PhaseInv,
     UpdaterInv, HeadIsTipOrChild, GcInv, TaskInv
<1> QED
  BY <1>1, <1>2, <1>3, <1>4, <1>5

(* Steps of process_new_ref between its awaits. *)
LEMMA UpdaterSteps ==
  ASSUME IInv, AppendTag \/ AppendUpdate \/ AppendNotifyFails \/ SwitchNotify
               \/ SwitchNotifyFails \/ SwitchTag \/ SwitchUpdate
  PROVE  IInv'
<1> USE DEF IInv
<1> DEFINE c == updater.candidate
<1>1. /\ updater.pc # "idle" /\ tip # None /\ tip \in Blocks /\ tip \in stored
      /\ c \in stored /\ c \in Blocks /\ c # None /\ c # Block0
      /\ ChainLength[tip] < ChainLength[c]
      /\ bootstrapped = None
  BY NoneAssumption DEF AppendTag, AppendUpdate, AppendNotifyFails, SwitchNotify, SwitchNotifyFails,
     SwitchTag, SwitchUpdate, UpdaterStep, UpdaterInv, PhaseInv, TypeOK, MaybeBlock
<1>2. /\ StoreConnected' /\ Rooted' /\ TaskInv'
  BY DEF AppendTag, AppendUpdate, AppendNotifyFails, SwitchNotify, SwitchNotifyFails,
     SwitchTag, SwitchUpdate, UpdaterStep, StoreConnected, Rooted, TaskInv
<1>3. TypeOK'
  BY <1>1 DEF AppendTag, AppendUpdate, AppendNotifyFails, SwitchNotify, SwitchNotifyFails,
     SwitchTag, SwitchUpdate, UpdaterStep, PutTag, UpdateRef, TypeOK, MaybeBlock, UpdaterPCs,
     UpdaterIdle
<1>4. PhaseInv'
  BY <1>1 DEF AppendTag, AppendUpdate, AppendNotifyFails, SwitchNotify, SwitchNotifyFails,
     SwitchTag, SwitchUpdate, UpdaterStep, PutTag, UpdateRef, PhaseInv
<1>5. GcInv'
  <2>1. ChainLength[tip] \in Nat /\ ChainLength[c] \in Nat /\ gc.threshold \in Nat
    BY <1>1, Lengths DEF TypeOK
  <2>2. gc' = gc /\ (tip' = tip \/ tip' = c)
    BY DEF AppendTag, AppendUpdate, AppendNotifyFails, SwitchNotify, SwitchNotifyFails,
       SwitchTag, SwitchUpdate, UpdaterStep, PutTag, UpdateRef
  <2> QED
    BY <1>1, <2>1, <2>2 DEF GcInv
<1>6. UpdaterInv'
  <2>1. CASE AppendTag
    BY <1>1, <2>1 DEF AppendTag, UpdaterStep, PutTag, UpdaterInv, TypeOK
  <2>2. CASE AppendUpdate
    BY <1>1, <2>2 DEF AppendUpdate, UpdaterStep, UpdateRef, UpdaterInv, UpdaterIdle, HeadIsTipOrChild
  <2>3. CASE AppendNotifyFails
    BY <1>1, <2>3 DEF AppendNotifyFails, UpdaterStep, UpdaterInv, UpdaterIdle, HeadIsTipOrChild
  <2>4. CASE SwitchNotify
    BY <1>1, <2>4 DEF SwitchNotify, UpdaterStep, UpdaterInv, TypeOK, HeadIsTipOrChild
  <2>5. CASE SwitchNotifyFails
    BY <1>1, <2>5 DEF SwitchNotifyFails, UpdaterStep, UpdaterInv, UpdaterIdle, HeadIsTipOrChild
  <2>6. CASE SwitchTag
    BY <1>1, <2>6 DEF SwitchTag, UpdaterStep, PutTag, UpdaterInv, TypeOK
  <2>7. CASE SwitchUpdate
    BY <1>1, <2>7 DEF SwitchUpdate, UpdaterStep, UpdateRef, UpdaterInv, UpdaterIdle, HeadIsTipOrChild
  <2> QED
    BY <2>1, <2>2, <2>3, <2>4, <2>5, <2>6, <2>7
<1> QED
  BY <1>2, <1>3, <1>4, <1>5, <1>6

(* An insertion into the reference cache inserts a block. *)
LEMMA RefInsertedType ==
  ASSUME refs \in SUBSET Blocks, NEW b \in Blocks, RefInserted(b)
  PROVE  refs' \in SUBSET Blocks
  BY DEF RefInserted

(* A block of the bootstrap stream. *)
LEMMA BootstrapStep ==
  ASSUME IInv, NEW b \in Blocks, BootstrapBlock(b)
  PROVE  IInv'
<1> USE DEF IInv
<1>1. StoreConnected' /\ Rooted'
  BY PutKeepsTree DEF BootstrapBlock
<1>2. TypeOK'
  BY RefInsertedType DEF BootstrapBlock, TypeOK, MaybeBlock
<1>3. PhaseInv'
  BY DEF BootstrapBlock, PhaseInv
<1>4. UpdaterInv' /\ GcInv' /\ TaskInv'
  BY DEF BootstrapBlock, UpdaterInv, HeadIsTipOrChild, GcInv, TaskInv
<1> QED
  BY <1>1, <1>2, <1>3, <1>4

(* Steps of a block task. *)
LEMMA TaskSteps ==
  ASSUME IInv, NEW t \in Tasks, BlockTask(t)
  PROVE  IInv'
<1> USE DEF IInv
<1>1. task[t] \in TaskState
  BY DEF TypeOK
<1>2. ASSUME NEW from, NEW state \in TaskState, TaskStep(t, from, state),
             state.pc \in {"apply", "insert"} => state.block \in Blocks /\ Linked(state.block),
             stored \subseteq stored', StoreConnected', Rooted', phase = "running",
             tipQueue' \in Seq(Blocks), stored' \in SUBSET Blocks,
             built' \in SUBSET LeaderBlocks, refs' \in SUBSET Blocks
      PROVE  IInv'
  <2>1. TypeOK'
    BY <1>2 DEF TaskStep, TypeOK
  <2>2. PhaseInv'
    BY <1>2 DEF TaskStep, PhaseInv
  <2>3. UpdaterInv' /\ GcInv'
    BY <1>2 DEF TaskStep, UpdaterInv, HeadIsTipOrChild, GcInv
  <2>4. TaskInv'
    BY <1>2 DEF TaskStep, TaskInv, TypeOK
  <2> QED
    BY <1>2, <2>1, <2>2, <2>3, <2>4
<1>3. /\ stored \in SUBSET Blocks /\ built \in SUBSET LeaderBlocks /\ refs \in SUBSET Blocks
      /\ tipQueue \in Seq(Blocks)
  BY DEF TypeOK
<1>4. task[t].pc # "idle" => phase = "running"
  BY DEF PhaseInv
<1>5. stored' = stored => StoreConnected' /\ Rooted'
  BY DEF StoreConnected, Rooted
<1>6. CASE StartNetworkBlocks(t)
  <2>1. [Idle EXCEPT !.pc = "next"] \in TaskState
    BY DEF Idle, TaskState, TaskPCs, MaybeBlock
  <2> QED
    BY <1>2, <1>3, <1>5, <1>6, <2>1 DEF StartNetworkBlocks, Idle
<1>7. CASE \E b \in Blocks : StartLeadershipBlock(t, b)
  <2> PICK b \in Blocks : StartLeadershipBlock(t, b)
    BY <1>7
  <2> DEFINE state == [Idle EXCEPT !.pc = "apply", !.kind = "leader", !.block = b]
  <2>1. state \in TaskState /\ state.block = b
    BY DEF Idle, TaskState, TaskPCs, MaybeBlock
  <2>2. b \in LeaderBlocks /\ Linked(b)
    BY LeaderAssumption DEF StartLeadershipBlock
  <2> QED
    BY <1>2, <1>3, <1>5, <2>1, <2>2 DEF StartLeadershipBlock
<1>8. CASE \E b \in Blocks : NextBlock(t, b)
  <2> PICK b \in Blocks : NextBlock(t, b)
    BY <1>8
  <2> DEFINE state == IF b \notin refs /\ ParentCached(b) /\ Linked(b)
                      THEN [task[t] EXCEPT !.pc = "apply", !.block = b]
                      ELSE [task[t] EXCEPT !.pc = "finish"]
  <2>1. state \in TaskState
    BY <1>1 DEF TaskState, TaskPCs, MaybeBlock
  <2>2. state.pc \in {"apply", "insert"} => state.block = b /\ Linked(b)
    BY <1>1 DEF TaskState
  <2>3. TaskStep(t, "next", state) /\ UNCHANGED <<stored, built, refs, tipQueue>>
    BY DEF NextBlock
  <2>4. phase = "running"
    BY <1>4, <2>3 DEF TaskStep
  <2> HIDE DEF state
  <2> QED
    BY <1>2, <1>3, <1>5, <2>1, <2>2, <2>3, <2>4
<1>9. CASE EndOfStream(t)
  <2>1. [task[t] EXCEPT !.pc = "finish"] \in TaskState /\ [task[t] EXCEPT !.pc = "finish"].pc = "finish"
    BY <1>1 DEF TaskState, TaskPCs
  <2> QED
    BY <1>2, <1>3, <1>4, <1>5, <1>9, <2>1 DEF EndOfStream, TaskStep
<1>10. CASE ApplyBlock(t)
  <2> DEFINE b == task[t].block
             ok == b \in Valid /\ CanPut(b)
             state == IF ok THEN [task[t] EXCEPT !.pc = "insert", !.new = b \notin stored]
                            ELSE [task[t] EXCEPT !.pc = "finish"]
  <2>1. TaskStep(t, "apply", state) /\ stored' = (IF ok THEN stored \cup {b} ELSE stored)
        /\ UNCHANGED <<built, refs, tipQueue>>
    BY <1>10 DEF ApplyBlock
  <2>2. b \in Blocks /\ Linked(b) /\ phase = "running"
    BY <1>4, <2>1 DEF TaskStep, TaskInv
  <2>3. state \in TaskState /\ state.block = b
    BY <1>1 DEF TaskState, TaskPCs
  <2>4. StoreConnected' /\ Rooted' /\ stored' \in SUBSET Blocks /\ stored \subseteq stored'
    <3>1. CASE ok
      BY <1>3, <2>1, <2>2, <3>1, PutKeepsTree
    <3>2. CASE ~ok
      BY <1>3, <1>5, <2>1, <3>2
    <3> QED
      BY <3>1, <3>2
  <2> HIDE DEF state, ok
  <2> QED
    BY <1>2, <1>3, <2>1, <2>2, <2>3, <2>4
<1>11. CASE InsertRef(t)
  <2> DEFINE s == task[t]
             state == [s EXCEPT !.pc = IF s.kind = "network" /\ s.new THEN "next" ELSE "finish",
                                !.candidate = IF s.new THEN s.block ELSE @]
  <2>1. /\ TaskStep(t, "insert", state) /\ RefInserted(s.block)
        /\ UNCHANGED <<stored, built, tipQueue>>
    BY <1>11 DEF InsertRef
  <2>2. s.block \in Blocks /\ phase = "running"
    BY <1>4, <2>1 DEF TaskStep, TaskInv
  <2>3. state \in TaskState /\ state.pc \in {"next", "finish"}
    BY <1>1 DEF TaskState, TaskPCs
  <2>4. refs' \in SUBSET Blocks
    BY <1>3, <2>1, <2>2, RefInsertedType
  <2> HIDE DEF state
  <2> QED
    BY <1>2, <1>3, <1>5, <2>1, <2>2, <2>3, <2>4
<1>12. CASE FinishTask(t)
  <2>1. tipQueue' \in Seq(Blocks)
    <3> DEFINE c == task[t].candidate
    <3>1. c \in Blocks \cup {None}
      BY <1>1 DEF TaskState, MaybeBlock
    <3>2. c # None => Append(tipQueue, c) \in Seq(Blocks)
      BY <1>3, <3>1
    <3>3. tipQueue' = tipQueue \/ (c # None /\ tipQueue' = Append(tipQueue, c))
      BY <1>12 DEF FinishTask
    <3> QED
      BY <1>3, <3>2, <3>3
  <2>2. Idle \in TaskState /\ Idle.pc = "idle"
    BY DEF Idle, TaskState, TaskPCs, MaybeBlock
  <2> QED
    BY <1>2, <1>3, <1>4, <1>5, <1>12, <2>1, <2>2 DEF FinishTask, TaskStep
<1>13. CASE TaskTimeout(t)
  <2>1. Idle \in TaskState /\ Idle.pc = "idle"
    BY DEF Idle, TaskState, TaskPCs, MaybeBlock
  <2> QED
    BY <1>2, <1>3, <1>4, <1>5, <1>13, <2>1 DEF TaskTimeout
<1> QED
  BY <1>6, <1>7, <1>8, <1>9, <1>10, <1>11, <1>12, <1>13 DEF BlockTask

(* Steps of the garbage collector. *)
LEMMA GcSteps ==
  ASSUME IInv, GcStart \/ GcPrune \/ GcEnd
  PROVE  IInv'
<1> USE DEF IInv
<1>1. CASE GcStart
  <2>1. tip \in Blocks /\ ChainLength[tip] \in Nat
    BY <1>1, Lengths DEF GcStart, TypeOK
  <2>2. /\ ChainLength[tip] - EpochStabilityDepth \in Nat
        /\ ChainLength[tip] - EpochStabilityDepth < ChainLength[tip]
    BY <1>1, <2>1, DepthAssumption DEF GcStart
  <2>3. TypeOK'
    BY <1>1, <2>2 DEF GcStart, disk, TypeOK, Leaves
  <2>4. StoreConnected' /\ Rooted' /\ TaskInv' /\ UpdaterInv'
    BY <1>1 DEF GcStart, disk, StoreConnected, Rooted, TaskInv, UpdaterInv, HeadIsTipOrChild
  <2>5. PhaseInv' /\ GcInv'
    BY <1>1, <2>2 DEF GcStart, disk, PhaseInv, GcInv
  <2> QED
    BY <2>3, <2>4, <2>5
<1>2. CASE GcEnd
  <2>1. TypeOK'
    BY <1>2 DEF GcEnd, GcIdle, disk, TypeOK
  <2>2. StoreConnected' /\ Rooted' /\ TaskInv' /\ UpdaterInv'
    BY <1>2 DEF GcEnd, disk, StoreConnected, Rooted, TaskInv, UpdaterInv, HeadIsTipOrChild
  <2>3. PhaseInv' /\ GcInv'
    BY <1>2 DEF GcEnd, GcIdle, disk, PhaseInv, GcInv
  <2> QED
    BY <2>1, <2>2, <2>3
<1>3. CASE GcPrune
  <2> PICK b \in gc.tips :
         \/ /\ b \in stored /\ ChainLength[b] > gc.threshold
            /\ gc' = [gc EXCEPT !.tips = @ \ {b}]
            /\ UNCHANGED stored
         \/ /\ b \in Leaves(stored) /\ ChainLength[b] <= gc.threshold
            /\ stored' = stored \ OnlyOnBranch(stored, b)
            /\ gc' = [gc EXCEPT !.tips = @ \ {b}]
         \/ /\ b \notin stored \/ (b \notin Leaves(stored) /\ ChainLength[b] <= gc.threshold)
            /\ gc' = GcIdle
            /\ UNCHANGED stored
    BY <1>3 DEF GcPrune
  <2>1. /\ gc.active
        /\ UNCHANGED <<head, built, now, phase, refs, tip, bootstrapped, tipQueue,
                       internalQueue, task, updater>>
    BY <1>3 DEF GcPrune
  <2>2. b \in Blocks /\ phase = "running" /\ tip # None /\ tip \in stored /\ tip \in Blocks
        /\ head # None /\ head \in stored /\ head \in Blocks
    BY <2>1 DEF TypeOK, PhaseInv
  <2>3. TypeOK'
    <3>1. stored' \in SUBSET Blocks
      BY DEF TypeOK
    <3>2. gc' \in [active : BOOLEAN, threshold : Nat, tips : SUBSET Blocks]
      <4>1. CASE gc' = GcIdle
        BY <4>1 DEF GcIdle
      <4>2. CASE gc' = [gc EXCEPT !.tips = @ \ {b}]
        BY <4>2 DEF TypeOK
      <4> QED
        BY <4>1, <4>2
    <3> QED
      BY <2>1, <3>1, <3>2 DEF TypeOK
  <2>4. /\ StoreConnected' /\ Rooted'
        /\ \A x \in stored : ChainLength[x] > gc.threshold => x \in stored'
    <3>1. CASE stored' = stored
      BY <3>1 DEF StoreConnected, Rooted
    <3>2. CASE /\ b \in Leaves(stored) /\ ChainLength[b] <= gc.threshold
               /\ stored' = stored \ OnlyOnBranch(stored, b)
      <4>1. b \in stored
        BY <3>2 DEF Leaves
      <4>2. /\ StoreConnected' /\ Rooted'
            /\ \A x \in stored : ChainLength[x] > ChainLength[b] => x \in stored'
        BY <3>2, <4>1, PruneKeepsTree
      <4>3. \A x \in stored : ChainLength[x] > gc.threshold => ChainLength[x] > ChainLength[b]
        BY <2>2, <3>2, Lengths DEF TypeOK
      <4> QED
        BY <4>2, <4>3
    <3> QED
      BY <3>1, <3>2
  <2>5. gc.threshold < ChainLength[tip] /\ gc.threshold \in Nat /\ ChainLength[tip] \in Nat
    BY <2>1, <2>2, Lengths DEF GcInv, TypeOK
  <2>6. tip \in stored'
    BY <2>2, <2>4, <2>5
  <2>7. updater.pc # "idle" => updater.candidate \in stored'
    <3> SUFFICES ASSUME updater.pc # "idle" PROVE updater.candidate \in stored'
      OBVIOUS
    <3>1. updater.candidate \in stored /\ ChainLength[tip] < ChainLength[updater.candidate]
      BY DEF UpdaterInv
    <3>2. ChainLength[updater.candidate] \in Nat
      BY <3>1, Lengths DEF TypeOK
    <3> QED
      BY <2>4, <2>5, <3>1, <3>2
  <2>8. head \in stored'
    <3>1. CASE HeadIsTipOrChild
      <4>1. ChainLength[head] > gc.threshold
        BY <2>2, <2>5, <3>1, Lengths
      <4> QED
        BY <2>2, <2>4, <4>1
    <3>2. CASE ~HeadIsTipOrChild
      BY <2>2, <2>7, <3>2 DEF UpdaterInv, TypeOK, UpdaterPCs
    <3> QED
      BY <3>1, <3>2
  <2>9. PhaseInv'
    BY <2>1, <2>2, <2>6, <2>8 DEF PhaseInv
  <2>10. UpdaterInv'
    BY <2>1, <2>7 DEF UpdaterInv, HeadIsTipOrChild
  <2>11. GcInv'
    <3>1. CASE gc' = GcIdle
      BY <3>1 DEF GcInv, GcIdle
    <3>2. CASE gc' = [gc EXCEPT !.tips = @ \ {b}]
      BY <2>1, <2>5, <3>2 DEF GcInv, TypeOK
    <3> QED
      BY <3>1, <3>2
  <2>12. TaskInv'
    BY <2>1 DEF TaskInv
  <2> QED
    BY <2>3, <2>4, <2>9, <2>10, <2>11, <2>12
<1> QED
  BY <1>1, <1>2, <1>3

LEMMA NextIInv == IInv /\ [Next]_vars => IInv'
<1> SUFFICES ASSUME IInv, [Next]_vars PROVE IInv'
  OBVIOUS
<1>1. CASE UNCHANGED vars
  BY <1>1 DEF IInv, vars, disk, memory, TypeOK, StoreConnected, Rooted, PhaseInv,
     UpdaterInv, HeadIsTipOrChild, GcInv, TaskInv
<1>2. CASE Next
  BY <1>2, StartSteps, TakeSteps, UpdaterSteps, BootstrapStep, TaskSteps, GcSteps
  DEF Next, Updater
<1> QED
  BY <1>1, <1>2

LEMMA Inductive == Spec => []IInv
  BY InitIInv, NextIInv, PTL DEF Spec

----------------------------------------------------------------------------
(* Results *)

(* The store is a tree of checked links after any interleaving of block    *)
(* tasks, bootstrap, collection and stops.                                 *)
THEOREM StoreIsTree == Spec => []StoreConnected
<1>1. IInv => StoreConnected
  BY DEF IInv
<1> QED
  BY <1>1, Inductive, PTL

(* load_from_storage finds every block up to HEAD, wherever the process    *)
(* was stopped.                                                            *)
THEOREM HeadCanBeLoaded == Spec => []HeadLoadable
<1>1. IInv => HeadLoadable
  BY ChainMinimal DEF IInv, TypeOK, PhaseInv, StoreConnected, HeadLoadable
<1> QED
  BY <1>1, Inductive, PTL

(* The tip never dangles and is at most one block behind HEAD. *)
THEOREM TipIsHeadOrParent == Spec => []TipFollowsHead
<1>1. IInv => TipFollowsHead
  BY ChainMinimal DEF IInv, TypeOK, PhaseInv, UpdaterInv, HeadIsTipOrChild, StoreConnected,
     TipFollowsHead
<1> QED
  BY <1>1, Inductive, PTL

(* The fields of the state keep their types. *)
THEOREM TypesHold == Spec => []TypeOK
<1>1. IInv => TypeOK
  BY DEF IInv
<1> QED
  BY <1>1, Inductive, PTL

(* Every step leaves HEAD and the tip alone or is a step of DurableTip. *)
LEMMA RegisterStep ==
  ASSUME IInv, [Next]_vars
  PROVE  [Register!Next]_(Register!dvars)
<1> USE DEF Register!dvars, Register!Next
<1>1. CASE LoadFromBlock0 \/ LoadFails \/ StartServices \/ TakeNewRef \/ TakeReprocessed
           \/ BootstrapStreamEnds \/ Reprocess \/ Tick \/ GcStart \/ GcPrune \/ GcEnd
           \/ UNCHANGED vars
  BY <1>1 DEF LoadFromBlock0, LoadFails, StartServices, TakeNewRef, TakeReprocessed,
     BootstrapStreamEnds, Reprocess, Tick, GcStart, GcPrune, GcEnd, vars, disk, memory
<1>2. CASE (\E b \in Blocks : BootstrapBlock(b)) \/ (\E t \in Tasks : BlockTask(t))
  BY <1>2 DEF BootstrapBlock, BlockTask, StartNetworkBlocks, StartLeadershipBlock, NextBlock,
     EndOfStream, ApplyBlock, InsertRef, FinishTask, TaskTimeout, TaskStep
<1>3. CASE TagBlock0
  BY <1>3 DEF TagBlock0, IInv, PhaseInv, Register!Create
<1>4. CASE LoadFromStorage
  BY <1>4 DEF LoadFromStorage, Loadable, IInv, PhaseInv, Register!Recover
<1>5. CASE Stop
  BY <1>5 DEF Stop, disk, Register!Lose
<1>6. CASE AppendNotifyFails \/ SwitchNotify \/ SwitchNotifyFails
  BY <1>6 DEF AppendNotifyFails, SwitchNotify, SwitchNotifyFails
<1>7. CASE AppendUpdate \/ SwitchUpdate
  BY <1>7 DEF AppendUpdate, SwitchUpdate, UpdaterStep, UpdateRef, IInv, UpdaterInv,
     Register!Publish
<1>8. CASE AppendTag \/ SwitchTag
  <2> DEFINE c == updater.candidate
  <2>1. /\ head' = c /\ tip' = tip /\ tip # None /\ HeadIsTipOrChild
        /\ c \in stored /\ ChainLength[tip] < ChainLength[c]
    BY <1>8 DEF AppendTag, SwitchTag, UpdaterStep, PutTag, IInv, UpdaterInv
  <2>2. c \in Blocks /\ tip \in Blocks /\ head \in Blocks
    BY <2>1 DEF IInv, TypeOK, PhaseInv
  <2>3. /\ ChainLength[c] \in Nat /\ ChainLength[tip] \in Nat /\ ChainLength[head] \in Nat
        /\ ChainLength[head] <= ChainLength[tip] + 1
    BY <2>1, <2>2, Lengths
  <2>4. ChainLength[c] >= ChainLength[head] /\ ChainLength[c] > ChainLength[tip]
    BY <2>1, <2>3
  <2> QED
    BY <2>1, <2>2, <2>3, <2>4 DEF Register!Persist
<1> QED
  BY <1>1, <1>2, <1>3, <1>4, <1>5, <1>6, <1>7, <1>8 DEF Next, Updater

(* HEAD and the tip implement the abstract register: nothing is shown that *)
(* a stop could take back.                                                 *)
THEOREM TipIsDurable == Spec => ImplementsDurableTip
<1>1. Init => Register!Init
  BY DEF Init, Register!Init
<1>2. IInv /\ [Next]_vars => [Register!Next]_(Register!dvars)
  BY RegisterStep
<1> QED
  BY <1>1, <1>2, Inductive, PTL DEF Spec, ImplementsDurableTip, Register!Spec

(* Neither HEAD nor the tip moves to a shorter chain. *)
THEOREM ChainNeverShrinks == Spec => NeverShorter
<1> DEFINE Longer == /\ head # None => ChainLength[head'] >= ChainLength[head]
                     /\ (tip # None /\ tip' # None) => ChainLength[tip'] >= ChainLength[tip]
<1>1. ASSUME IInv, [Next]_vars, IInv'
      PROVE  [Longer]_vars
  <2> SUFFICES ASSUME Next PROVE Longer
    BY <1>1 DEF vars
  <2>1. head # None => head \in Blocks /\ ChainLength[head] \in Nat
    BY <1>1, Lengths DEF IInv, TypeOK, MaybeBlock
  <2>2. tip # None => tip \in Blocks /\ ChainLength[tip] \in Nat /\ head \in Blocks
    BY <1>1, Lengths DEF IInv, TypeOK, MaybeBlock, PhaseInv
  <2>3. [Register!Next]_(Register!dvars)
    BY <1>1, RegisterStep
  <2>4. CASE UNCHANGED <<head, tip>>
    BY <2>1, <2>2, <2>4
  <2>5. CASE Register!Create \/ Register!Persist \/ Register!Lose \/ Register!Recover
    <3>1. tip # None => head # None
      BY <1>1 DEF IInv, PhaseInv
    <3> QED
      BY <2>1, <2>2, <2>5, <3>1
      DEF Register!Create, Register!Persist, Register!Lose, Register!Recover
  <2>6. CASE Register!Publish /\ tip' # tip
    <3>1. AppendUpdate \/ SwitchUpdate \/ TagBlock0 \/ LoadFromStorage \/ Stop
      BY <2>6 DEF Next, Updater, LoadFromBlock0, LoadFails, StartServices, TakeNewRef,
         TakeReprocessed, BootstrapStreamEnds, Reprocess, Tick, GcStart, GcPrune, GcEnd, vars,
         disk, memory, BootstrapBlock, BlockTask, StartNetworkBlocks, StartLeadershipBlock,
         NextBlock, EndOfStream, ApplyBlock, InsertRef, FinishTask, TaskTimeout, TaskStep,
         AppendNotifyFails, SwitchNotify, SwitchNotifyFails, AppendTag, SwitchTag, PutTag
    <3>2. CASE AppendUpdate \/ SwitchUpdate
      <4>1. tip' = updater.candidate /\ head' = head /\ updater.candidate \in stored
            /\ ChainLength[tip] < ChainLength[updater.candidate]
        BY <1>1, <3>2 DEF AppendUpdate, SwitchUpdate, UpdaterStep, UpdateRef, IInv, UpdaterInv
      <4>2. ChainLength[updater.candidate] \in Nat
        BY <1>1, <4>1, Lengths DEF IInv, TypeOK
      <4> QED
        BY <2>1, <2>2, <4>1, <4>2
    <3>3. CASE TagBlock0 \/ LoadFromStorage \/ Stop
      BY <1>1, <2>1, <2>2, <3>3 DEF TagBlock0, LoadFromStorage, Stop, disk, IInv, PhaseInv
    <3> QED
      BY <3>1, <3>2, <3>3
  <2> QED
    BY <2>3, <2>4, <2>5, <2>6 DEF Register!Next, Register!dvars, Register!Publish
<1> QED
  BY <1>1, Inductive, PTL DEF Spec, NeverShorter
=============================================================================
