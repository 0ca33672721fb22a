------------------------------- MODULE Mempool -------------------------------
(***************************************************************************)
(* The fragment pool at work: the tip updater (blockchain/tip.rs), the     *)
(* leader (leadership/process.rs) and the clients talk to the pool through *)
(* one bounded mailbox.                                                    *)
(*                                                                         *)
(* The updater only ever uses try_send: a full mailbox aborts the update,  *)
(* also half way through the notifications of a switch.  The leader reads  *)
(* the tip, sends its request and waits for the contents; the block it     *)
(* builds then competes with those of the network like any other.          *)
(***************************************************************************)
EXTENDS FragmentPool

CONSTANTS
    OwnBlocks,     \* the blocks this node may build, on fixed parents
    MailboxSize    \* FRAGMENT_TASK_QUEUE_LEN

ASSUME OwnAssumption == OwnBlocks \subseteq Blocks \ {Block0}

VARIABLES
    mailbox,    \* the messages to the pool
    tip,        \* Tip
    offered,    \* the blocks that are stored and can become the tip
    body,       \* the contents of the blocks
    updater,    \* process_new_ref: the candidate and what it still has to send
    leader,     \* the block the leader is at, how far it is
    switched,   \* an update of the tip went through switch_tip_branch
    handed      \* the fragments that selections have handed to the leader

nodeVars == <<tip, offered, body, updater, leader, switched, handed>>
mempoolVars == <<vars, mailbox, nodeVars>>

Resting == [candidate |-> None, out |-> <<>>]
Waiting == [block |-> None, at |-> "waiting"]

MempoolTypeOK ==
    /\ TypeOK
    /\ Len(mailbox) <= MailboxSize
    /\ tip \in offered /\ offered \in SUBSET Blocks
    /\ \A b \in offered \ {Block0} : Parent[b] \in offered
    /\ body \in [Blocks -> Seq(Fragments)]
    /\ updater.candidate \in offered \cup {None}
    /\ leader.block \in OwnBlocks \cup {None}
    /\ leader.at \in {"waiting", "awake", "selecting", "failed"}
    /\ switched \in BOOLEAN
    /\ handed \in SUBSET Fragments

MempoolInit ==
    /\ Init
    /\ mailbox = <<>>
    /\ tip = Block0
    /\ offered = {Block0}
    /\ body = BlockFragments
    /\ updater = Resting
    /\ leader = Waiting
    /\ switched = FALSE
    /\ handed = {}

(* Variant: a mailbox without a bound. *)
PostUnbounded(message) == mailbox' = Append(mailbox, message)

Post(message) ==
    /\ Len(mailbox) < MailboxSize
    /\ mailbox' = Append(mailbox, message)

RemovalOf(b) == [op |-> "remove", block |-> b]

FragmentsOf(S) == UNION {Range(body[b]) : b \in S}

----------------------------------------------------------------------------
(* Clients and the network *)

Submit ==
    /\ \E r \in Requests : Post([op |-> "send", request |-> r])
    /\ UNCHANGED <<vars, nodeVars>>

BlockArrives ==
    /\ \E b \in Blocks \ (offered \cup OwnBlocks) :
          /\ Parent[b] \in offered
          /\ offered' = offered \cup {b}
    /\ UNCHANGED <<vars, mailbox, tip, body, updater, leader, switched, handed>>

----------------------------------------------------------------------------
(* TipUpdater::process_new_ref *)

(* stream_from_to(common_ancestor, candidate): the blocks after the common *)
(* ancestor, the oldest first.                                             *)
NewBranch(b) ==
    LET new == Chain[b] \ Chain[tip]
    IN [i \in 1..Cardinality(new) |->
          CHOOSE a \in new : Cardinality(Chain[a] \cap new) = i]

(* switch_tip_branch takes the first block of the stream for the common    *)
(* ancestor: its date goes into BranchSwitch and its fragments are not     *)
(* requested to be removed.                                                *)
SwitchMessages(branch) ==
    <<[op |-> "branch", date |-> BlockDate[branch[1]]]>>
        \o [i \in 1..(Len(branch) - 1) |-> RemovalOf(branch[i + 1])]

(* reprocess_tip offers the stored branches again and again, so a block    *)
(* that was refused or whose update was aborted can come back.             *)
ProcessNewRef ==
    /\ updater = Resting
    /\ \E b \in offered :
          /\ PreferCandidate(tip, b, now)
          /\ \/ /\ Parent[b] = tip
                /\ updater' = [candidate |-> b, out |-> <<RemovalOf(b)>>]
                /\ UNCHANGED switched
             \/ /\ Parent[b] # tip
                /\ updater' = [candidate |-> b, out |-> SwitchMessages(NewBranch(b))]
                /\ switched' = TRUE
    /\ UNCHANGED <<vars, mailbox, tip, offered, body, leader, handed>>

Notify ==
    /\ updater.out # <<>>
    /\ Post(Head(updater.out))
    /\ updater' = [updater EXCEPT !.out = Tail(@)]
    /\ UNCHANGED <<vars, tip, offered, body, leader, switched, handed>>

(* Variant: a message that does not fit is dropped. *)
NotifyDrops ==
    /\ updater.out # <<>> /\ Len(mailbox) = MailboxSize
    /\ updater' = [updater EXCEPT !.out = Tail(@)]
    /\ UNCHANGED <<vars, mailbox, tip, offered, body, leader, switched, handed>>

(* The mailbox is full: process_new_ref returns the error, the tip stays.  *)
NotifyFails ==
    /\ updater.out # <<>> /\ Len(mailbox) = MailboxSize
    /\ updater' = Resting
    /\ UNCHANGED <<vars, mailbox, tip, offered, body, leader, switched, handed>>

(* Variant: the tip moves before the pool is told. *)
UpdateRefEarly ==
    /\ updater # Resting
    /\ tip' = updater.candidate
    /\ updater' = IF updater.out = <<>> THEN Resting ELSE updater
    /\ UNCHANGED <<vars, mailbox, offered, body, leader, switched, handed>>

UpdateRef ==
    /\ updater # Resting /\ updater.out = <<>>
    /\ tip' = updater.candidate
    /\ updater' = Resting
    /\ UNCHANGED <<vars, mailbox, offered, body, leader, switched, handed>>

----------------------------------------------------------------------------
(* Leadership: the leader reads the tip when it wakes for its slot and     *)
(* asks for the contents of a block on top of it.                          *)

Wake ==
    /\ leader = Waiting
    /\ \E b \in OwnBlocks \ offered :
          /\ Parent[b] = tip /\ BlockDate[b] = now
          /\ leader' = [block |-> b, at |-> "awake"]
    /\ UNCHANGED <<vars, mailbox, tip, offered, body, updater, switched, handed>>

RequestContents ==
    /\ leader.at = "awake"
    /\ Post([op |-> "select", block |-> leader.block])
    /\ leader' = [leader EXCEPT !.at = "selecting"]
    /\ UNCHANGED <<vars, tip, offered, body, updater, switched, handed>>

(* prepare_block: the mailbox is full, the leadership task ends. *)
RequestFails ==
    /\ leader.at = "awake" /\ Len(mailbox) = MailboxSize
    /\ leader' = [leader EXCEPT !.at = "failed"]
    /\ UNCHANGED <<vars, mailbox, tip, offered, body, updater, switched, handed>>

----------------------------------------------------------------------------
(* The pool: messages in the order of the mailbox. *)

Receive ==
    /\ mailbox # <<>>
    /\ LET m == Head(mailbox)
       IN \/ m.op = "send" /\ StartRequest(m.request)
          \/ m.op = "remove" /\ RemoveTransactions(body[m.block], m.block)
          \/ m.op = "branch" /\ BranchSwitch(m.date)
          \/ m.op = "select" /\ StartSelect(BlockDate[m.block])
    /\ mailbox' = Tail(mailbox)
    /\ UNCHANGED nodeVars

(* The ledger of the parent refuses a fragment that it already has. *)
Spent == FragmentsOf(Chain[Parent[leader.block]]) \cup Range(job.contents)

HandleStep ==
    /\ \/ FilterFragment \/ StartInsert \/ InsertFragment \/ EndInsert \/ Reply
       \/ LogRemoved \/ RemoveExpired \/ LogExpired \/ EndExpire
       \/ TakeOldest \/ ReturnFragment
       \/ ApplySucceeds /\ job.current \notin Spent
       \/ RejectFragment /\ (job.current \in Spent \/ Size[job.current] > BlockContentMaxSize)
    /\ UNCHANGED <<mailbox, nodeVars>>

(* The contents go to the leader and in the block it signs; when signing   *)
(* fails they are dropped.                                                 *)
Contents ==
    /\ EndSelect
    /\ \/ /\ body' = [body EXCEPT ![leader.block] = job.contents]
          /\ offered' = offered \cup {leader.block}
       \/ UNCHANGED <<body, offered>>
    /\ leader' = Waiting
    /\ handed' = handed \cup Range(job.contents)
    /\ UNCHANGED <<mailbox, tip, updater, switched>>

Deadline == SoftDeadline /\ UNCHANGED <<mailbox, nodeVars>>

Clock == Tick /\ UNCHANGED <<mailbox, nodeVars>>

MempoolNext ==
    \/ Submit \/ BlockArrives
    \/ ProcessNewRef \/ Notify \/ NotifyFails \/ UpdateRef
    \/ Wake \/ RequestContents \/ RequestFails
    \/ Receive \/ HandleStep \/ Contents \/ Deadline \/ Clock

MempoolSpec == MempoolInit /\ [][MempoolNext]_mempoolVars

----------------------------------------------------------------------------
(* Properties *)

Quiet == mailbox = <<>> /\ job = Idle /\ updater = Resting

(* A pending fragment is never lost by the pool: it waits in the pool, is  *)
(* in the hands of a selection, or has been handed to the leader.          *)
PendingAccounted ==
    \A f \in Fragments :
        status[f] = "pending" =>
            \/ f \in index \cup InHand \cup handed
            \/ job.op = "select" /\ f \in Range(job.contents)
            \/ job.op = "remove" /\ f \in Range(job.rest)
            \/ job.op = "expire" /\ f \in job.todo

(* As long as the tip moves from parent to child, the leader is not given  *)
(* fragments that the chain it builds on already has: the request to       *)
(* remove the fragments of a block is in the mailbox before the tip that   *)
(* makes the leader ask for contents on top of it.                         *)
SelectsFresh ==
    job.op = "select" /\ ~switched =>
        (Range(job.contents) \cup ({job.current} \ {None}))
            \cap FragmentsOf(Chain[Parent[leader.block]]) = {}

(* As long as the tip moves from parent to child, once the messages are    *)
(* handled the log says of every fragment of the chain that it is in a     *)
(* block, and the pool does not have it.                                   *)
ChainIsLogged ==
    Quiet /\ ~switched =>
        \A f \in FragmentsOf(Chain[tip]) : InABlock(f) /\ f \notin index

(* FragmentStatus::Rejected, "the fragment has been rejected and won't be  *)
(* added in a block": once the messages are handled, no fragment of the    *)
(* chain is logged as rejected.                                            *)
RejectedNotInChain ==
    Quiet => \A f \in FragmentsOf(Chain[tip]) : status[f] # "rejected"
=============================================================================
