---------------------------- MODULE FragmentPool ----------------------------
(***************************************************************************)
(* The fragment pool and its logs: fragment/{pool,logs,selection,process}  *)
(* and FragmentLog of jormungandr-lib.                                     *)
(*                                                                         *)
(* One task owns the pool and handles one message at a time; `job` is the  *)
(* message in progress.  Loops over fragments take one step per turn.  The *)
(* messages are arbitrary here; Mempool connects the pool to the tip       *)
(* updater and the leader that really send them.                           *)
(***************************************************************************)
EXTENDS BlockTree, Sequences, FiniteSetsExt

CONSTANTS
    Fragments,             \* fragment ids
    Size,                  \* serialized_size
    Expiring,              \* fragments that carry an expiry date
    ValidUntil,            \* get_transaction_expiry_date
    WellFormed,            \* is_fragment_valid
    MaxValidity,           \* how far ahead an expiry date may lie
    BlockFragments,        \* contents of the blocks of other nodes
    Requests,              \* what clients send: [fragments, failFast]
    PoolMaxEntries, LogsMaxEntries, BlockContentMaxSize,
    NoDate, None,
    MaxDate                \* bound of the clock

ASSUME FragmentAssumption ==
    /\ Expiring \subseteq Fragments
    /\ Size \in [Fragments -> Nat \ {0}]
    /\ ValidUntil \in [Fragments -> Nat]
    /\ BlockFragments \in [Blocks -> Seq(Fragments)]
    /\ \A r \in Requests : r.fragments \in Seq(Fragments) /\ r.failFast \in BOOLEAN
    /\ None \notin Fragments
    /\ NoDate \notin Nat
ASSUME StatusAssumption == {"none", "pending", "rejected"} \cap Blocks = {}
ASSUME LimitAssumption ==
    /\ PoolMaxEntries \in Nat /\ LogsMaxEntries \in Nat
    /\ BlockContentMaxSize \in Nat

VARIABLES
    index,          \* keys of Pool.entries
    list,           \* Pool.entries as a list, the oldest first
    timeoutQueue,   \* Pool.timeout_queue
    totalSize,      \* Pool.total_size_bytes
    status,         \* the status each fragment is logged with: "none" if it is
                    \* not in the log, the block if it is InABlock
    date,           \* the date logged with it
    lru,            \* the log's entries, most recently used first
    job,            \* the message the pool is handling
    now             \* the current slot

pool == <<index, list, timeoutQueue, totalSize>>
logs == <<status, date, lru>>
poolVars == <<pool, logs, job>>
vars == <<poolVars, now>>

Idle == [op |-> "idle"]
FilterJob == [op : {"filter"}, rest : Seq(Fragments), ok : Seq(Fragments),
              rejected : SUBSET Fragments, failFast : BOOLEAN, date : Nat]
InsertJob == [op : {"insert"}, rest : Seq(Fragments), room : Nat,
              accepted : Seq(Fragments), rejected : SUBSET Fragments]
ReplyJob == [op : {"reply"}, accepted : Seq(Fragments),
             rejected : SUBSET Fragments]
RemoveJob == [op : {"remove"}, rest : Seq(Fragments), block : Blocks]
ExpireJob == [op : {"expire"}, todo : SUBSET Fragments, date : Nat]
SelectJob == [op : {"select"}, current : Fragments \cup {None}, space : 0..BlockContentMaxSize,
              contents : Seq(Fragments), returned : Seq(Fragments), soft : BOOLEAN, date : Nat]

TypeOK ==
    /\ index \in SUBSET Fragments
    /\ list \in Seq(Fragments)
    /\ timeoutQueue \in SUBSET Expiring
    /\ totalSize \in Nat
    /\ status \in [Fragments -> {"none", "pending", "rejected"} \cup Blocks]
    /\ date \in [Fragments -> Nat \cup {NoDate}]
    /\ lru \in Seq(Fragments)
    /\ job \in {Idle} \cup FilterJob \cup InsertJob \cup ReplyJob \cup RemoveJob
               \cup ExpireJob \cup SelectJob
    /\ now \in Nat

Init ==
    /\ index = {}
    /\ list = <<>>
    /\ timeoutQueue = {}
    /\ totalSize = 0
    /\ status = [f \in Fragments |-> "none"]
    /\ date = [f \in Fragments |-> NoDate]
    /\ lru = <<>>
    /\ job = Idle
    /\ now = 0

----------------------------------------------------------------------------
(* internal::Pool: the index, the list, the expiry queue and the size go   *)
(* together.                                                               *)

SizeOf(S) == MapThenSumSet(LAMBDA f : Size[f], S)

Without(s, S) == SelectSeq(s, LAMBDA f : f \notin S)

Push(S, newList) ==
    /\ index' = index \cup S
    /\ list' = newList
    /\ timeoutQueue' = timeoutQueue \cup (S \cap Expiring)
    /\ totalSize' = totalSize + SizeOf(S)

RemoveAll(S) ==
    /\ index' = index \ S
    /\ list' = Without(list, S)
    /\ timeoutQueue' = timeoutQueue \ (S \cap index)
    /\ totalSize' = totalSize - SizeOf(S \cap index)

----------------------------------------------------------------------------
(* Logs: an LRU cache of at least PoolMaxEntries entries *)

LogCapacity == IF LogsMaxEntries < PoolMaxEntries THEN PoolMaxEntries ELSE LogsMaxEntries

Logged(f) == status[f] # "none"
Decided(f) == status[f] \notin {"none", "pending"}
InABlock(f) == status[f] \in Blocks

(* LruCache::put of a fragment that is not logged: at capacity the least   *)
(* recently used entry goes.                                               *)
PutLog(f, st, d) ==
    LET full == Len(lru) >= LogCapacity
        victim == IF full THEN {lru[Len(lru)]} ELSE {}
    IN /\ status' = [g \in Fragments |-> IF g = f THEN st
                                         ELSE IF g \in victim THEN "none" ELSE status[g]]
       /\ date' = [g \in Fragments |-> IF g = f THEN d
                                       ELSE IF g \in victim THEN NoDate ELSE date[g]]
       /\ lru' = <<f>> \o (IF full THEN SubSeq(lru, 1, Len(lru) - 1) ELSE lru)

(* Logs::insert_pending *)
InsertPending(f) ==
    IF Logged(f) THEN UNCHANGED logs ELSE PutLog(f, "pending", NoDate)

(* Logs::modify: looking an entry up makes it the most recent, also when   *)
(* FragmentLog::modify refuses to take it out of its block.                *)
Modify(f, st, d) ==
    LET refused == InABlock(f) /\ st \notin Blocks
    IN IF Logged(f)
       THEN /\ status' = IF refused THEN status ELSE [status EXCEPT ![f] = st]
            /\ date' = IF refused THEN date ELSE [date EXCEPT ![f] = d]
            /\ lru' = <<f>> \o Without(lru, {f})
       ELSE PutLog(f, st, d)

(* The entries remove_logs_after_date collects: it walks from the most     *)
(* recent one and stops at the first decided one that is not after d.      *)
DecidedAfter(d) ==
    {lru[i] : i \in {k \in 1..Len(lru) :
        /\ Decided(lru[k])
        /\ \A j \in 1..k : Decided(lru[j]) => date[lru[j]] > d}}

----------------------------------------------------------------------------
(* SendTransactions: insert_and_propagate_all *)

(* get_current_block_date: the slot after the current one. *)
CurrentBlockDate == now + 1

StartRequest(r) ==
    /\ job = Idle
    /\ job' = [op |-> "filter", rest |-> r.fragments, ok |-> <<>>, rejected |-> {},
               failFast |-> r.failFast, date |-> CurrentBlockDate]
    /\ UNCHANGED <<pool, logs, now>>

(* get_transaction_expiry_date: an Option<BlockDate>. *)
ExpiryDates(f) == IF f \in Expiring THEN {ValidUntil[f]} ELSE {}

IsFragmentValid(f) == f \in WellFormed

(* Variant: the log is not consulted. *)
AcceptableAgain(f) ==
    \A d \in ExpiryDates(f) : d \in job.date .. (job.date + MaxValidity)

(* filter_fragment *)
Acceptable(f) ==
    /\ ~Logged(f)
    /\ \A d \in ExpiryDates(f) : d \in job.date .. (job.date + MaxValidity)

(* One turn of the filtering loop.  With fail_fast an invalid fragment     *)
(* rejects all that follow it.                                             *)
FilterFragment ==
    /\ job.op = "filter" /\ job.rest # <<>>
    /\ LET f == Head(job.rest)
           rest == Tail(job.rest)
       IN \/ /\ Acceptable(f) /\ IsFragmentValid(f)
             /\ job' = [job EXCEPT !.rest = rest, !.ok = Append(@, f)]
          \/ /\ Acceptable(f) /\ ~IsFragmentValid(f) /\ job.failFast
             /\ job' = [job EXCEPT !.rest = <<>>, !.rejected = @ \cup {f} \cup Range(rest)]
          \/ /\ ~Acceptable(f) \/ (~IsFragmentValid(f) /\ ~job.failFast)
             /\ job' = [job EXCEPT !.rest = rest, !.rejected = @ \cup {f}]
    /\ UNCHANGED <<pool, logs, now>>

(* Variant: the room is not reduced by what the pool already holds. *)
StartInsertNoCount ==
    /\ job.op = "filter" /\ job.rest = <<>>
    /\ job' = [op |-> "insert", rest |-> job.ok, room |-> PoolMaxEntries,
               accepted |-> <<>>, rejected |-> job.rejected]
    /\ UNCHANGED <<pool, logs, now>>

(* internal::Pool::insert_all computes its room once. *)
StartInsert ==
    /\ job.op = "filter" /\ job.rest = <<>>
    /\ job' = [op |-> "insert", rest |-> job.ok, room |-> PoolMaxEntries - Cardinality(index),
               accepted |-> <<>>, rejected |-> job.rejected]
    /\ UNCHANGED <<pool, logs, now>>

(* One turn of insert_all and of insert_all_pending.  A fragment the pool  *)
(* already has is dropped without an answer.                               *)
InsertFragment ==
    /\ job.op = "insert" /\ job.rest # <<>> /\ job.room > 0
    /\ LET f == Head(job.rest)
       IN \/ /\ f \in index
             /\ job' = [job EXCEPT !.rest = Tail(@)]
             /\ UNCHANGED <<pool, logs>>
          \/ /\ f \notin index
             /\ Push({f}, Append(list, f))
             /\ InsertPending(f)
             /\ job' = [job EXCEPT !.rest = Tail(@), !.room = @ - 1,
                                   !.accepted = Append(@, f)]
    /\ UNCHANGED now

(* What did not fit is rejected. *)
EndInsert ==
    /\ job.op = "insert" /\ (job.rest = <<>> \/ job.room = 0)
    /\ job' = [op |-> "reply", accepted |-> job.accepted,
               rejected |-> job.rejected \cup Range(job.rest)]
    /\ UNCHANGED <<pool, logs, now>>

(* The accepted fragments go to the network, the summary to the client.    *)
Reply ==
    /\ job.op = "reply"
    /\ job' = Idle
    /\ UNCHANGED <<pool, logs, now>>

----------------------------------------------------------------------------
(* RemoveTransactions: remove_added_to_block, then remove_expired_txs *)

RemoveTransactions(ids, b) ==
    /\ job = Idle
    /\ RemoveAll(Range(ids))
    /\ job' = [op |-> "remove", rest |-> ids, block |-> b]
    /\ UNCHANGED <<logs, now>>

LogRemoved ==
    /\ job.op = "remove" /\ job.rest # <<>>
    /\ Modify(Head(job.rest), job.block, BlockDate[job.block])
    /\ job' = [job EXCEPT !.rest = Tail(@)]
    /\ UNCHANGED <<pool, now>>

(* Variant: the expired fragments stay in the list. *)
RemoveExpiredFromQueue ==
    /\ job.op = "remove" /\ job.rest = <<>>
    /\ LET expired == {f \in timeoutQueue : ValidUntil[f] < CurrentBlockDate}
       IN /\ timeoutQueue' = timeoutQueue \ expired
          /\ job' = [op |-> "expire", todo |-> expired, date |-> CurrentBlockDate]
    /\ UNCHANGED <<index, list, totalSize, logs, now>>

RemoveExpired ==
    /\ job.op = "remove" /\ job.rest = <<>>
    /\ LET expired == {f \in timeoutQueue : ValidUntil[f] < CurrentBlockDate}
       IN /\ index' = index \ expired
          /\ list' = Without(list, expired)
          /\ timeoutQueue' = timeoutQueue \ expired
          /\ totalSize' = totalSize - SizeOf(expired \cap index)
          /\ job' = [op |-> "expire", todo |-> expired, date |-> CurrentBlockDate]
    /\ UNCHANGED <<logs, now>>

(* TimeoutQueueItem: the order of the queue; the ids break ties anyhow. *)
ExpiresFirst(f, g) == ValidUntil[f] <= ValidUntil[g]

(* The expired ones are logged in the order of the queue. *)
LogExpired ==
    /\ job.op = "expire"
    /\ \E f \in job.todo :
         /\ \A g \in job.todo : ExpiresFirst(f, g)
         /\ Modify(f, "rejected", job.date)
         /\ job' = [job EXCEPT !.todo = @ \ {f}]
    /\ UNCHANGED <<pool, now>>

EndExpire ==
    /\ job.op = "expire" /\ job.todo = {}
    /\ job' = Idle
    /\ UNCHANGED <<pool, logs, now>>

----------------------------------------------------------------------------
(* BranchSwitch: prune_after_ledger_branch *)

(* Variant: the pruned entries keep their place in the order. *)
BranchSwitchKeepsOrder(d) ==
    /\ job = Idle
    /\ LET gone == DecidedAfter(d)
       IN /\ status' = [f \in Fragments |-> IF f \in gone THEN "none" ELSE status[f]]
          /\ date' = [f \in Fragments |-> IF f \in gone THEN NoDate ELSE date[f]]
    /\ UNCHANGED <<pool, job, now, lru>>

BranchSwitch(d) ==
    /\ job = Idle
    /\ LET gone == DecidedAfter(d)
       IN /\ status' = [f \in Fragments |-> IF f \in gone THEN "none" ELSE status[f]]
          /\ date' = [f \in Fragments |-> IF f \in gone THEN NoDate ELSE date[f]]
          /\ lru' = Without(lru, gone)
    /\ UNCHANGED <<pool, job, now>>

----------------------------------------------------------------------------
(* SelectTransactions: OldestFirst::select *)

StartSelect(d) ==
    /\ job = Idle
    /\ job' = [op |-> "select", current |-> None, space |-> BlockContentMaxSize,
               contents |-> <<>>, returned |-> <<>>, soft |-> FALSE, date |-> d]
    /\ UNCHANGED <<pool, logs, now>>

(* The leader's soft deadline, the end of the slot. *)
SoftDeadline ==
    /\ job.op = "select" /\ ~job.soft
    /\ job' = [job EXCEPT !.soft = TRUE]
    /\ UNCHANGED <<pool, logs, now>>

(* remove_oldest; pop_back unwraps the entry of the index. *)
TakeOldest ==
    /\ job.op = "select" /\ job.current = None /\ job.space > 0
    /\ list # <<>> /\ Head(list) \in index
    /\ RemoveAll({Head(list)})
    /\ job' = [job EXCEPT !.current = Head(list)]
    /\ UNCHANGED <<logs, now>>

(* The cases of try_apply_fragment.  The test for "only one fragment in    *)
(* progress" compares with the space left after the fragment in progress,  *)
(* which is less than the maximum for every fragment: the soft deadline    *)
(* always aborts and the hard one is never waited for.                     *)
Fits(f) == Size[f] <= job.space

ApplySucceeds ==
    /\ job.op = "select" /\ job.current # None /\ Fits(job.current)
    /\ job' = [job EXCEPT !.current = None, !.contents = Append(@, job.current),
                          !.space = @ - Size[job.current]]
    /\ UNCHANGED <<pool, logs, now>>

RejectFragment ==
    /\ job.op = "select" /\ job.current # None
    /\ Size[job.current] > BlockContentMaxSize \/ Fits(job.current)
    /\ Modify(job.current, "rejected", job.date)
    /\ job' = [job EXCEPT !.current = None]
    /\ UNCHANGED <<pool, now>>

(* Variant: the fragment goes back to the pool within the loop. *)
ReturnAtOnce ==
    /\ job.op = "select" /\ job.current # None
    /\ Size[job.current] <= BlockContentMaxSize
    /\ ~Fits(job.current) \/ job.soft
    /\ Push({job.current}, <<job.current>> \o list)
    /\ job' = [job EXCEPT !.current = None]
    /\ UNCHANGED <<logs, now>>

(* Variant: the fragment is not kept for return_to_pool. *)
ReturnForgotten ==
    /\ job.op = "select" /\ job.current # None
    /\ Size[job.current] <= BlockContentMaxSize
    /\ ~Fits(job.current) \/ job.soft
    /\ job' = [job EXCEPT !.current = None]
    /\ UNCHANGED <<pool, logs, now>>

ReturnFragment ==
    /\ job.op = "select" /\ job.current # None
    /\ Size[job.current] <= BlockContentMaxSize
    /\ \/ ~Fits(job.current)
       \/ Fits(job.current) /\ job.soft
          /\ job.space - Size[job.current] < BlockContentMaxSize
    /\ job' = [job EXCEPT !.current = None, !.returned = Append(@, job.current)]
    /\ UNCHANGED <<pool, logs, now>>

(* Variant: the returned fragments are pushed back without `reverse`. *)
EndSelectUnreversed ==
    /\ job.op = "select" /\ job.current = None
    /\ list = <<>> \/ job.space = 0
    /\ LET s == job.returned
       IN Push(Range(s), [i \in DOMAIN s |-> s[Len(s) + 1 - i]] \o list)
    /\ job' = Idle
    /\ UNCHANGED <<logs, now>>

(* The loop is over: return_to_pool puts the returned fragments back as    *)
(* the oldest, in their order.                                             *)
EndSelect ==
    /\ job.op = "select" /\ job.current = None
    /\ list = <<>> \/ job.space = 0
    /\ Push(Range(job.returned), job.returned \o list)
    /\ job' = Idle
    /\ UNCHANGED <<logs, now>>

----------------------------------------------------------------------------
PoolStep ==
    \/ FilterFragment \/ StartInsert \/ InsertFragment \/ EndInsert \/ Reply
    \/ LogRemoved \/ RemoveExpired \/ LogExpired \/ EndExpire
    \/ TakeOldest \/ ApplySucceeds \/ RejectFragment \/ ReturnFragment \/ EndSelect

Tick == now < MaxDate /\ now' = now + 1 /\ UNCHANGED poolVars

Next ==
    \/ \E r \in Requests : StartRequest(r)
    \/ \E b \in Blocks : RemoveTransactions(BlockFragments[b], b) \/ BranchSwitch(BlockDate[b])
    \/ StartSelect(CurrentBlockDate) \/ SoftDeadline
    \/ PoolStep \/ Tick

Spec == Init /\ [][Next]_vars

(* The task runs whenever it has something to do. *)
FairSpec == Spec /\ WF_vars(PoolStep)

----------------------------------------------------------------------------
(* Properties *)

(* Fragments that a selection has taken out and not decided. *)
InHand == IF job.op = "select"
          THEN Range(job.returned) \cup ({job.current} \ {None})
          ELSE {}

(* The order in which selection will see the fragments of the pool. *)
Queue == IF job.op = "select"
         THEN job.returned \o (IF job.current = None THEN <<>> ELSE <<job.current>>) \o list
         ELSE list

(* The four structures of the pool agree: pop_back may unwrap the entry of *)
(* the key at the tail, push_front and push_back never meet a key twice,   *)
(* the expiry queue has exactly the fragments that can expire, and         *)
(* total_size_bytes never underflows.                                      *)
PoolAgrees ==
    /\ Range(list) = index
    /\ Len(list) = Cardinality(index)
    /\ timeoutQueue = index \cap Expiring
    /\ totalSize = SizeOf(index)
    /\ index \cap InHand = {}

(* The pool never holds more than pool_max_entries, counting what a        *)
(* selection will return: insert_all subtracts without a check.            *)
PoolBounded == Cardinality(index \cup InHand) <= PoolMaxEntries

(* The log's map and its order agree, within the capacity: the walk of     *)
(* remove_logs_after_date sees every entry once.                           *)
LogsAgree ==
    /\ Range(lru) = {f \in Fragments : Logged(f)}
    /\ Len(lru) = Cardinality(Range(lru))
    /\ Len(lru) <= LogCapacity

(* "date is always present for non pending statuses": the unwrap of        *)
(* remove_logs_after_date does not panic.                                  *)
DatePresent == \A f \in Fragments : Decided(f) => date[f] # NoDate

(* No fragment waits in the pool, or goes back to it after a selection,    *)
(* that the log gives as rejected or as part of a block: nothing is        *)
(* offered to a block twice on this node's account.                        *)
PooledIsUndecided == \A f \in index \cup InHand : ~Decided(f)

(* The fragments keep their order from arrival to selection, across        *)
(* selections that return some of them ("No reordering for the fragments   *)
(* submitted to the mempool in a batch").                                  *)
Before(q, f, g) == \E i, j \in 1..Len(q) : i < j /\ q[i] = f /\ q[j] = g

NoReordering ==
    [][\A f, g \in Fragments :
          Before(Queue, f, g) => ~Before(Queue', g, f)]_vars

(* Every message is handled to its end, whatever the deadlines and limits. *)
JobEnds == (job # Idle) ~> (job = Idle)
=============================================================================
