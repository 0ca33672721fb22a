----------------------------- MODULE Leadership -----------------------------
(***************************************************************************)
(* The leadership task (leadership/process.rs) with its schedule           *)
(* (secure/enclave.rs) and its log (leadership/logs.rs): action and wait   *)
(* in turn.  It asks the enclave for the slots of the epoch in which it    *)
(* may build a block, sleeps until the next one, reads the tip, and then   *)
(* has until the end of the slot to select fragments, sign and send.       *)
(*                                                                         *)
(* Time is counted in ticks, several to a slot, so that an instant inside  *)
(* a slot differs from the boundary.  Dates are slots counted from block0; *)
(* the clock moves between any two steps of the task.                      *)
(***************************************************************************)
EXTENDS Integers, Sequences

CONSTANTS
    TicksPerSlot,
    SlotsPerEpoch,
    BlockHardDeadline,   \* block_hard_deadline, in slots
    LogsCap,             \* capacity of the leadership log
    StartTips,           \* the tips the node may start with
    EndTime,             \* bound: the clock stops here
    MaxLength            \* bound: the longest chain of the network

ASSUME TimeAssumption ==
    /\ TicksPerSlot \in Nat \ {0}
    /\ SlotsPerEpoch \in Nat \ {0}
    /\ EndTime \in Nat

ASSUME DeadlineAssumption == BlockHardDeadline \in Nat \ {0}

ASSUME LengthAssumption == MaxLength \in Nat

ASSUME CapAssumption == LogsCap \in Nat \ {0}

ASSUME TipAssumption == StartTips \subseteq [length : Nat, date : Nat]

VARIABLES
    clock,      \* SystemTime::now, in ticks since block0
    tip,        \* Tip: the chain length and the date of its block
    tipRef,     \* Module::tip_ref, with the time it was read
    schedule,   \* Module::schedule: its epoch and the events left
    leader,     \* where the task is, the event it runs and its deadlines
    logs,       \* the leadership log, the most recently used entry first
    sent        \* the blocks sent to the blockchain task

vars == <<clock, tip, tipRef, schedule, leader, logs, sent>>

Slot(t) == t \div TicksPerSlot

SlotTime(s) == s * TicksPerSlot

EpochOf(s) == s \div SlotsPerEpoch

EpochStart(e) == e * SlotsPerEpoch

(* Past the end of the epoch the code adds n to the epoch. *)
NthFutureSlotTime(s, n) ==
    IF SlotsPerEpoch <= (s % SlotsPerEpoch) + n
    THEN SlotTime(EpochStart(EpochOf(s) + n))
    ELSE SlotTime(s + n)

NoSchedule == [made |-> FALSE, epoch |-> 0, events |-> {}]

(* Schedule::peek, next_event: the first event that is left, if any. *)
NextEvent == {e \in schedule.events : \A u \in schedule.events : e <= u}

PCs == {"action", "wait", "asleep", "entry", "inbound", "selecting",
        "answered", "sending", "stopped"}

Running == {"entry", "inbound", "selecting", "answered", "sending"}

Statuses == {"pending", "rejected", "block"}

LeaderStates == [pc : PCs, event : Nat, until : Nat, soft : Nat, hard : Nat, alarms : 0..2]

SentBlocks == [date : Nat, parentDate : Nat, parentAt : Nat]

TypeOK ==
    /\ clock \in Nat
    /\ tip \in [length : Nat, date : Nat]
    /\ tipRef \in [date : Nat, at : Nat]
    /\ schedule \in [made : BOOLEAN, epoch : Nat, events : SUBSET Nat]
    /\ leader \in LeaderStates
    /\ logs \in Seq([date : Nat, status : Statuses, finished : BOOLEAN])
    /\ Len(logs) <= LogsCap
    /\ sent \in Seq(SentBlocks)

At(pc, e) ==
    [pc |-> pc, event |-> e, until |-> 0, soft |-> 0, hard |-> 0, alarms |-> 0]

ReadTip == [date |-> tip.date, at |-> clock]

Init ==
    /\ clock = 0
    /\ tip \in StartTips
    /\ tipRef = ReadTip
    /\ schedule = NoSchedule
    /\ leader = At("action", 0)
    /\ logs = <<>>
    /\ sent = <<>>

----------------------------------------------------------------------------
(* The leadership log *)

(* Variant: the log keeps every entry. *)
InsertUnbounded(d) ==
    logs' = <<[date |-> d, status |-> "pending", finished |-> FALSE]>>
                \o SelectSeq(logs, LAMBDA x : x.date # d)

Insert(d) ==
    LET entry == [date |-> d, status |-> "pending", finished |-> FALSE]
        rest == SelectSeq(logs, LAMBDA x : x.date # d)
    IN logs' = SubSeq(<<entry>> \o rest, 1, IF Len(rest) < LogsCap THEN Len(rest) + 1 ELSE LogsCap)

(* set_status and then, at the end of action_entry, mark_finished; an      *)
(* entry that the log has evicted is passed over.                          *)
Finish(d, s) ==
    LET rest == SelectSeq(logs, LAMBDA x : x.date # d)
    IN logs' = IF Len(rest) = Len(logs) THEN logs
               ELSE <<[date |-> d, status |-> s, finished |-> TRUE]>> \o rest

----------------------------------------------------------------------------
(* The world: the clock, and the tip, which moves to longer chains only    *)
(* and never to a block from the future.                                   *)

Tick ==
    /\ clock < EndTime
    /\ clock' = clock + 1
    /\ UNCHANGED <<tip, tipRef, schedule, leader, logs, sent>>

NewTip ==
    /\ \E n \in (tip.length + 1)..MaxLength : \E d \in n..Slot(clock) :
          tip' = [length |-> n, date |-> d]
    /\ UNCHANGED <<clock, tipRef, schedule, leader, logs, sent>>

----------------------------------------------------------------------------
(* wait *)

Goto(pc) == leader' = [leader EXCEPT !.pc = pc]

(* A panic or an error: the task is over. *)
Stop == Goto("stopped")

SleepUntil(t) == leader' = [leader EXCEPT !.pc = "asleep", !.until = t]

(* The task panics without a schedule, and when the epoch after that of    *)
(* an exhausted schedule has begun.                                        *)
WaitPeekDeadline ==
    /\ leader.pc = "wait"
    /\ \/ ~schedule.made /\ Stop
       \/ /\ schedule.made /\ schedule.events = {}
          /\ LET epoch == SlotTime(EpochStart(schedule.epoch + 1))
             IN IF epoch < clock THEN Stop ELSE SleepUntil(epoch)
       \/ \E e \in NextEvent : SleepUntil(SlotTime(e))
    /\ UNCHANGED <<clock, tip, tipRef, schedule, logs, sent>>

(* Variant: the tip is not read again. *)
WakeUpStale ==
    /\ leader.pc = "asleep" /\ leader.until <= clock
    /\ Goto("action")
    /\ UNCHANGED <<clock, tip, tipRef, schedule, logs, sent>>

WakeUp ==
    /\ leader.pc = "asleep" /\ leader.until <= clock
    /\ tipRef' = ReadTip
    /\ Goto("action")
    /\ UNCHANGED <<clock, tip, schedule, logs, sent>>

----------------------------------------------------------------------------
(* action *)

(* The slots in which the node leads depend on the ledger of the tip: any  *)
(* of those after the current slot.  A tip of a later epoch leaves the     *)
(* schedule as it is.                                                      *)
ActionSchedule ==
    /\ leader.pc = "action" /\ schedule.events = {}
    /\ LET slot == Slot(clock)
           epoch == EpochOf(slot)
       IN \/ /\ EpochOf(tipRef.date) <= epoch
             /\ \E S \in SUBSET ((slot + 1)..(EpochStart(epoch + 1) - 1)) :
                   schedule' = [made |-> TRUE, epoch |-> epoch, events |-> S]
          \/ EpochOf(tipRef.date) > epoch /\ UNCHANGED schedule
    /\ Goto("wait")
    /\ UNCHANGED <<clock, tip, tipRef, logs, sent>>

(* Variant: the event is looked at and not taken. *)
ActionEntryKeeps ==
    /\ leader.pc = "action"
    /\ \E e \in NextEvent :
          /\ leader' = At("entry", e)
          /\ Insert(e)
    /\ UNCHANGED <<clock, tip, tipRef, schedule, sent>>

(* Variant: events that are already past are dropped with it. *)
ActionEntrySkips ==
    /\ leader.pc = "action"
    /\ \E e \in NextEvent :
          /\ schedule' = [schedule EXCEPT !.events = {s \in @ \ {e} : clock <= SlotTime(s)}]
          /\ leader' = At("entry", e)
          /\ Insert(e)
    /\ UNCHANGED <<clock, tip, tipRef, sent>>

ActionEntry ==
    /\ leader.pc = "action"
    /\ \E e \in NextEvent :
          /\ schedule' = [schedule EXCEPT !.events = @ \ {e}]
          /\ leader' = At("entry", e)
          /\ Insert(e)
    /\ UNCHANGED <<clock, tip, tipRef, sent>>

EndEntry(s) ==
    /\ Finish(leader.event, s)
    /\ leader' = At("wait", leader.event)

(* action_run_entry: too late, or go on to wait for the right time. *)
RunEntry ==
    /\ leader.pc = "entry"
    /\ LET end == NthFutureSlotTime(leader.event, 1)
       IN IF end <= clock
          THEN EndEntry("rejected")
          ELSE /\ leader' = [leader EXCEPT !.pc = "inbound", !.soft = end,
                                !.hard = NthFutureSlotTime(leader.event, BlockHardDeadline)]
               /\ UNCHANGED logs
    /\ UNCHANGED <<clock, tip, tipRef, schedule, sent>>

(* Variant: the date of the parent is not compared. *)
RunEntryInBoundAnyParent ==
    /\ leader.pc = "inbound" /\ SlotTime(leader.event) <= clock
    /\ \/ (leader.soft < clock \/ leader.hard < clock) /\ Stop /\ UNCHANGED logs
       \/ /\ clock <= leader.soft /\ clock <= leader.hard
          /\ Stop \/ Goto("selecting")
          /\ UNCHANGED logs
    /\ UNCHANGED <<clock, tip, tipRef, schedule, sent>>

(* The clock is read again: past one of the ends the task panics.  It also *)
(* ends when the ledger or the pool refuses the block to be begun.         *)
RunEntryInBound ==
    /\ leader.pc = "inbound" /\ SlotTime(leader.event) <= clock
    /\ \/ (leader.soft < clock \/ leader.hard < clock) /\ Stop /\ UNCHANGED logs
       \/ /\ clock <= leader.soft /\ clock <= leader.hard
          /\ \/ leader.event <= tipRef.date /\ EndEntry("rejected")
             \/ /\ tipRef.date < leader.event
                /\ Stop \/ Goto("selecting")
                /\ UNCHANGED logs
    /\ UNCHANGED <<clock, tip, tipRef, schedule, sent>>

(* The pool answers and drops the receiving ends of the deadlines. *)
Answer ==
    /\ leader.pc = "selecting"
    /\ Goto("answered")
    /\ UNCHANGED <<clock, tip, tipRef, schedule, logs, sent>>

(* A deadline is passed on to the pool; when nobody listens any more the   *)
(* task panics.                                                            *)
Deadline ==
    /\ leader.pc \in {"selecting", "answered", "sending"}
    /\ \/ leader.alarms = 0 /\ leader.soft <= clock
       \/ leader.alarms = 1 /\ leader.hard <= clock
    /\ IF leader.pc = "selecting" THEN leader' = [leader EXCEPT !.alarms = @ + 1] ELSE Stop
    /\ UNCHANGED <<clock, tip, tipRef, schedule, logs, sent>>

(* Variant: a block that cannot be signed leaves the log as it is. *)
SignSilent ==
    /\ leader.pc = "answered"
    /\ Goto("sending") \/ Goto("wait")
    /\ UNCHANGED <<clock, tip, tipRef, schedule, logs, sent>>

Sign ==
    /\ leader.pc = "answered"
    /\ \/ Goto("sending") /\ UNCHANGED logs
       \/ EndEntry("rejected")
    /\ UNCHANGED <<clock, tip, tipRef, schedule, sent>>

SendBlock ==
    /\ leader.pc = "sending"
    /\ sent' = Append(sent, [date |-> leader.event,
                             parentDate |-> tipRef.date, parentAt |-> tipRef.at])
    /\ EndEntry("block")
    /\ UNCHANGED <<clock, tip, tipRef, schedule>>

Step ==
    \/ WaitPeekDeadline \/ WakeUp \/ ActionSchedule \/ ActionEntry
    \/ RunEntry \/ RunEntryInBound \/ Answer \/ Sign \/ SendBlock

Next == Tick \/ NewTip \/ Deadline \/ Step

Spec == Init /\ [][Next]_vars

(* The clock runs, the runtime polls the task, the pool ends a selection   *)
(* and the blockchain task takes the block.                                *)
FairSpec == Spec /\ WF_vars(Tick) /\ WF_vars(Step)

----------------------------------------------------------------------------
(* Properties *)

(* The node never signs two blocks for one slot, nor one for a slot before *)
(* that of an earlier block: new schedules and the events of one schedule  *)
(* only move forward.                                                      *)
OneBlockPerSlot ==
    \A i, j \in 1..Len(sent) : i < j => sent[i].date < sent[j].date

(* A block extends a block of an earlier slot. *)
ParentIsOlder == \A i \in 1..Len(sent) : sent[i].parentDate < sent[i].date

(* A block is built in its slot or later, on a tip that was read in it:    *)
(* wait reads the tip after the sleep, so that blocks which arrive until   *)
(* the slot begins are built upon.                                         *)
ParentIsFresh == \A i \in 1..Len(sent) : SlotTime(sent[i].date) <= sent[i].parentAt

(* Every event in the log but the one that is running has an outcome and   *)
(* is finished, on every path through action_entry that goes on.           *)
LogsComplete ==
    \A i \in 1..Len(logs) :
        \/ logs[i].finished /\ logs[i].status # "pending"
        \/ logs[i].date = leader.event /\ leader.pc \in Running \cup {"stopped"}

(* Every event of a schedule is run, in time or late, as long as the task  *)
(* is alive.                                                               *)
EventsAreRun ==
    \A e \in 0..Slot(EndTime) :
        e \in schedule.events ~> (leader.event = e \/ leader.pc = "stopped")

(* epoch_instant, "next epoch is in the past. This is not possible": the   *)
(* epoch after that of an exhausted schedule has not begun.                *)
NextEpochIsAhead ==
    leader.pc = "wait" /\ schedule.made /\ schedule.events = {} =>
        clock <= SlotTime(EpochStart(schedule.epoch + 1))
=============================================================================
