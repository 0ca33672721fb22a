-------------------------- MODULE LeadershipProofs --------------------------
(* Proofs for every length of slots and epochs, every deadline and every   *)
(* choice of leader slots.                                                 *)
EXTENDS Leadership, TLAPS

(* The start of a slot is not after t only when the slot is not after the  *)
(* slot of t.                                                              *)
LEMMA SlotOfTime ==
  ASSUME NEW s \in Nat, NEW t \in Nat
  PROVE  /\ SlotTime(s) \in Nat
         /\ Slot(t) \in Nat
         /\ SlotTime(s) <= t => s <= Slot(t)
<1>1. TicksPerSlot \in Nat /\ TicksPerSlot > 0
  BY TimeAssumption
<1>2. SlotTime(s) \in Nat
  BY <1>1 DEF SlotTime
<1>3. Slot(t) \in Nat
  BY <1>1 DEF Slot
<1>4. ASSUME SlotTime(s) <= t PROVE s <= Slot(t)
  BY <1>1, <1>4 DEF SlotTime, Slot
<1> QED
  BY <1>2, <1>3, <1>4

(* Deadlines are times. *)
LEMMA DeadlinesAreTimes ==
  ASSUME NEW s \in Nat, NEW n \in Nat
  PROVE  NthFutureSlotTime(s, n) \in Nat
<1>1. EpochOf(s) \in Nat
  BY TimeAssumption DEF EpochOf
<1>2. EpochStart(EpochOf(s) + n) \in Nat
  BY <1>1, TimeAssumption DEF EpochStart
<1> QED
  BY <1>2, SlotOfTime DEF NthFutureSlotTime

(* The epochs of schedules are numbers, and so are their first slots. *)
LEMMA EpochsAreNumbers ==
  ASSUME NEW s \in Nat
  PROVE  EpochOf(s) \in Nat /\ EpochStart(s) \in Nat
  BY TimeAssumption DEF EpochOf, EpochStart

(* What the steps do to the fields of the state of the task. *)
LEMMA LeaderFields ==
  ASSUME NEW l \in LeaderStates
  PROVE  l.pc \in PCs /\ l.event \in Nat /\ l.alarms \in 0..2
  BY DEF LeaderStates

LEMMA GotoFields ==
  ASSUME NEW l \in LeaderStates, NEW p \in PCs
  PROVE  LET m == [l EXCEPT !.pc = p]
         IN m \in LeaderStates /\ m.pc = p /\ m.event = l.event
  BY DEF LeaderStates

LEMMA SleepFields ==
  ASSUME NEW l \in LeaderStates, NEW t \in Nat
  PROVE  LET m == [l EXCEPT !.pc = "asleep", !.until = t]
         IN m \in LeaderStates /\ m.pc = "asleep" /\ m.event = l.event /\ m.until = t
<1>1. "asleep" \in PCs
  BY DEF PCs
<1> QED
  BY <1>1 DEF LeaderStates

LEMMA AtFields ==
  ASSUME NEW p \in PCs, NEW e \in Nat
  PROVE  At(p, e) \in LeaderStates /\ At(p, e).pc = p /\ At(p, e).event = e
  BY DEF At, LeaderStates

LEMMA BoundFields ==
  ASSUME NEW l \in LeaderStates, NEW soft \in Nat, NEW hard \in Nat
  PROVE  LET m == [l EXCEPT !.pc = "inbound", !.soft = soft, !.hard = hard]
         IN m \in LeaderStates /\ m.pc = "inbound" /\ m.event = l.event
<1>1. "inbound" \in PCs
  BY DEF PCs
<1> QED
  BY <1>1 DEF LeaderStates

LEMMA AlarmFields ==
  ASSUME NEW l \in LeaderStates, l.alarms < 2
  PROVE  LET m == [l EXCEPT !.alarms = @ + 1]
         IN m \in LeaderStates /\ m.pc = l.pc /\ m.event = l.event
  BY DEF LeaderStates

----------------------------------------------------------------------------
(* The inductive invariant. *)

(* The types, of all but the log. *)
Types ==
    /\ clock \in Nat
    /\ tip \in [length : Nat, date : Nat]
    /\ tipRef \in [date : Nat, at : Nat]
    /\ schedule \in [made : BOOLEAN, epoch : Nat, events : SUBSET Nat]
    /\ leader \in LeaderStates
    /\ sent \in Seq(SentBlocks)

(* The events that are left are after the last one taken, whose slot has   *)
(* begun.                                                                  *)
EventsAhead ==
    /\ \A e \in schedule.events : leader.event < e
    /\ SlotTime(leader.event) <= clock

(* The task sleeps until the slot of the next event; from then on, and     *)
(* while it runs the event, its tip was read in that slot or later.        *)
TipIsCurrent ==
    /\ leader.pc = "asleep" => \A e \in NextEvent : leader.until = SlotTime(e)
    /\ leader.pc = "action" => \A e \in NextEvent : /\ SlotTime(e) <= clock
                                                    /\ SlotTime(e) <= tipRef.at
    /\ leader.pc \in Running => SlotTime(leader.event) <= tipRef.at

(* What is selected and signed extends an older block. *)
Extends ==
    leader.pc \in {"selecting", "answered", "sending"} => tipRef.date < leader.event

(* The running event is after all blocks sent. *)
SentBefore ==
    \A i \in 1..Len(sent) :
        /\ sent[i].date <= leader.event
        /\ leader.pc \in Running => sent[i].date < leader.event

IInv ==
    /\ Types /\ EventsAhead /\ TipIsCurrent /\ Extends /\ SentBefore
    /\ OneBlockPerSlot /\ ParentIsOlder /\ ParentIsFresh

LEMMA InitIInv == Init => IInv
<1> SUFFICES ASSUME Init PROVE IInv
  OBVIOUS
<1>1. tip \in [length : Nat, date : Nat]
  BY TipAssumption DEF Init
<1>2. Types
  BY <1>1, AtFields DEF Init, Types, ReadTip, NoSchedule, PCs
<1>3. SlotTime(0) = 0
  BY TimeAssumption DEF SlotTime
<1>4. EventsAhead /\ TipIsCurrent /\ Extends
  BY <1>3 DEF Init, At, EventsAhead, TipIsCurrent, Extends, NoSchedule, NextEvent, Running
<1>5. SentBefore /\ OneBlockPerSlot /\ ParentIsOlder /\ ParentIsFresh
  BY DEF Init, At, SentBefore, OneBlockPerSlot, ParentIsOlder, ParentIsFresh
<1> QED
  BY <1>2, <1>4, <1>5 DEF IInv

(* Nothing the properties speak of changes when a block is not sent. *)
LEMMA NotSent ==
  ASSUME IInv, UNCHANGED sent
  PROVE  OneBlockPerSlot' /\ ParentIsOlder' /\ ParentIsFresh'
  BY DEF IInv, OneBlockPerSlot, ParentIsOlder, ParentIsFresh, SlotTime

(* The clock and the tip of the node. *)
LEMMA WorldSteps ==
  ASSUME IInv, Tick \/ NewTip
  PROVE  IInv'
<1>1. OneBlockPerSlot' /\ ParentIsOlder' /\ ParentIsFresh'
  BY NotSent DEF Tick, NewTip
<1>2. UNCHANGED <<tipRef, schedule, leader, sent>> /\ clock' \in Nat /\ clock <= clock'
  <2>1. clock \in Nat
    BY DEF IInv, Types
  <2>2. CASE Tick
    BY <2>1, <2>2 DEF Tick
  <2>3. CASE NewTip
    BY <2>1, <2>3 DEF NewTip
  <2> QED
    BY <2>2, <2>3
<1>3. tip' \in [length : Nat, date : Nat]
  <2>1. CASE Tick
    BY <2>1 DEF Tick, IInv, Types
  <2>2. CASE NewTip
    <3>1. tip.length \in Nat
      BY DEF IInv, Types
    <3>2. PICK n \in (tip.length + 1)..MaxLength : \E d \in n..Slot(clock) :
             tip' = [length |-> n, date |-> d]
      BY <2>2 DEF NewTip
    <3>3. n \in Nat
      BY <3>1, LengthAssumption
    <3>4. Slot(clock) \in Nat
      BY SlotOfTime DEF IInv, Types
    <3>5. n..Slot(clock) \subseteq Nat
      BY <3>3, <3>4
    <3> QED
      BY <3>2, <3>3, <3>5
  <2> QED
    BY <2>1, <2>2
<1>4. Types'
  BY <1>2, <1>3 DEF IInv, Types
<1>5. EventsAhead' /\ TipIsCurrent'
  <2>1. leader.event \in Nat /\ SlotTime(leader.event) \in Nat
    BY SlotOfTime, LeaderFields DEF IInv, Types
  <2>2. \A e \in NextEvent : SlotTime(e) \in Nat
    BY SlotOfTime DEF IInv, Types, NextEvent
  <2>3. NextEvent' = NextEvent
    BY <1>2 DEF NextEvent
  <2>4. clock \in Nat
    BY DEF IInv, Types
  <2>5. EventsAhead'
    BY <1>2, <2>1, <2>4 DEF IInv, EventsAhead, SlotTime
  <2>6. TipIsCurrent'
    BY <1>2, <2>2, <2>3, <2>4 DEF IInv, TipIsCurrent, SlotTime
  <2> QED
    BY <2>5, <2>6
<1>6. Extends' /\ SentBefore'
  BY <1>2 DEF IInv, Extends, SentBefore
<1> QED
  BY <1>1, <1>4, <1>5, <1>6 DEF IInv

(* wait: the deadline and the end of the sleep. *)
LEMMA WaitSteps ==
  ASSUME IInv, WaitPeekDeadline \/ WakeUp
  PROVE  IInv'
<1>1. OneBlockPerSlot' /\ ParentIsOlder' /\ ParentIsFresh'
  BY NotSent DEF WaitPeekDeadline, WakeUp
<1>2. /\ clock \in Nat /\ leader.event \in Nat
      /\ \A e \in NextEvent : e \in Nat /\ SlotTime(e) \in Nat
  BY SlotOfTime, LeaderFields DEF IInv, Types, NextEvent
<1>3. CASE WaitPeekDeadline
  <2>1. UNCHANGED <<clock, tip, tipRef, schedule, sent>> /\ NextEvent' = NextEvent
    BY <1>3 DEF WaitPeekDeadline, NextEvent
  <2>2. SlotTime(EpochStart(schedule.epoch + 1)) \in Nat
    <3>1. schedule.epoch + 1 \in Nat
      BY DEF IInv, Types
    <3>2. EpochStart(schedule.epoch + 1) \in Nat
      BY <3>1, EpochsAreNumbers
    <3> QED
      BY <1>2, <3>2, SlotOfTime
  <2>3. \/ leader' = [leader EXCEPT !.pc = "stopped"]
        \/ /\ NextEvent = {}
           /\ leader' = [leader EXCEPT !.pc = "asleep",
                                       !.until = SlotTime(EpochStart(schedule.epoch + 1))]
        \/ \E e \in NextEvent : leader' = [leader EXCEPT !.pc = "asleep", !.until = SlotTime(e)]
    BY <1>3 DEF WaitPeekDeadline, Stop, Goto, SleepUntil, NextEvent
  <2>4. /\ leader'.event = leader.event
        /\ leader'.pc \in {"stopped", "asleep"}
        /\ leader' \in LeaderStates
    <3>1. leader \in LeaderStates /\ "stopped" \in PCs
      BY DEF IInv, Types, PCs
    <3>2. CASE leader' = [leader EXCEPT !.pc = "stopped"]
      BY <3>1, <3>2, GotoFields
    <3>3. CASE \E t \in Nat : leader' = [leader EXCEPT !.pc = "asleep", !.until = t]
      <4>1. PICK t \in Nat : leader' = [leader EXCEPT !.pc = "asleep", !.until = t]
        BY <3>3
      <4> QED
        BY <3>1, <4>1, SleepFields
    <3> QED
      BY <1>2, <2>2, <2>3, <3>2, <3>3
  <2>5. Types'
    BY <2>1, <2>4 DEF IInv, Types
  <2>6. EventsAhead' /\ Extends' /\ SentBefore'
    BY <2>1, <2>4 DEF IInv, EventsAhead, Extends, SentBefore, Running, SlotTime
  <2>7. leader'.pc = "asleep" => \A e \in NextEvent : leader'.until = SlotTime(e)
    <3>1. \A d, e \in NextEvent : d = e
      BY <1>2 DEF NextEvent
    <3>2. leader \in LeaderStates /\ "stopped" \in PCs
      BY DEF IInv, Types, PCs
    <3>3. CASE leader' = [leader EXCEPT !.pc = "stopped"]
      BY <3>2, <3>3, GotoFields
    <3>4. CASE \E e \in NextEvent : leader' = [leader EXCEPT !.pc = "asleep", !.until = SlotTime(e)]
      <4>1. PICK e \in NextEvent : leader' = [leader EXCEPT !.pc = "asleep", !.until = SlotTime(e)]
        BY <3>4
      <4>2. leader'.until = SlotTime(e)
        BY <1>2, <3>2, <4>1, SleepFields
      <4> QED
        BY <3>1, <4>2
    <3> QED
      BY <2>3, <3>3, <3>4
  <2>8. TipIsCurrent'
    BY <2>1, <2>4, <2>7 DEF TipIsCurrent, Running, SlotTime
  <2> QED
    BY <1>1, <2>5, <2>6, <2>8 DEF IInv
<1>4. CASE WakeUp
  <2>1. /\ UNCHANGED <<clock, tip, schedule, sent>> /\ NextEvent' = NextEvent
        /\ leader.pc = "asleep" /\ leader.until <= clock
        /\ tipRef' = [date |-> tip.date, at |-> clock]
        /\ leader' = [leader EXCEPT !.pc = "action"]
    BY <1>4 DEF WakeUp, NextEvent, ReadTip, Goto
  <2>2. leader' \in LeaderStates /\ leader'.event = leader.event /\ leader'.pc = "action"
    BY <2>1, GotoFields DEF IInv, Types, PCs
  <2>3. Types'
    BY <2>1, <2>2 DEF IInv, Types
  <2>4. EventsAhead' /\ Extends' /\ SentBefore'
    BY <2>1, <2>2 DEF IInv, EventsAhead, Extends, SentBefore, Running, SlotTime
  <2>5. TipIsCurrent'
    BY <2>1, <2>2 DEF IInv, TipIsCurrent, Running, SlotTime
  <2> QED
    BY <1>1, <2>3, <2>4, <2>5 DEF IInv
<1> QED
  BY <1>3, <1>4

(* action, when it makes a new schedule or takes the next event. *)
LEMMA ActionSteps ==
  ASSUME IInv, ActionSchedule \/ ActionEntry
  PROVE  IInv'
<1>1. OneBlockPerSlot' /\ ParentIsOlder' /\ ParentIsFresh'
  BY NotSent DEF ActionSchedule, ActionEntry
<1>2. clock \in Nat /\ leader.event \in Nat /\ Slot(clock) \in Nat
  BY SlotOfTime, LeaderFields DEF IInv, Types
<1>3. leader.event <= Slot(clock)
  BY <1>2, SlotOfTime DEF IInv, EventsAhead
<1>4. CASE ActionSchedule
  <2>1. /\ UNCHANGED <<clock, tip, tipRef, sent>>
        /\ leader.pc = "action"
        /\ leader' = [leader EXCEPT !.pc = "wait"]
    BY <1>4 DEF ActionSchedule, Goto
  <2>2. leader' \in LeaderStates /\ leader'.event = leader.event /\ leader'.pc = "wait"
    BY <2>1, GotoFields DEF IInv, Types, PCs
  <2>3. /\ schedule' \in [made : BOOLEAN, epoch : Nat, events : SUBSET Nat]
        /\ \A e \in schedule'.events : leader.event < e
    <3>1. CASE UNCHANGED schedule
      BY <3>1 DEF IInv, Types, EventsAhead
    <3>2. CASE \E S \in SUBSET ((Slot(clock) + 1)..(EpochStart(EpochOf(Slot(clock)) + 1) - 1)) :
                  schedule' = [made |-> TRUE, epoch |-> EpochOf(Slot(clock)), events |-> S]
      <4>1. EpochOf(Slot(clock)) \in Nat /\ EpochStart(EpochOf(Slot(clock)) + 1) \in Nat
        BY <1>2, EpochsAreNumbers
      <4>2. \A e \in (Slot(clock) + 1)..(EpochStart(EpochOf(Slot(clock)) + 1) - 1) :
               e \in Nat /\ leader.event < e
        BY <1>2, <1>3, <4>1
      <4> QED
        BY <3>2, <4>1, <4>2
    <3> QED
      BY <1>4, <3>1, <3>2 DEF ActionSchedule
  <2>4. Types'
    BY <2>1, <2>2, <2>3 DEF IInv, Types
  <2>5. EventsAhead' /\ Extends' /\ SentBefore' /\ TipIsCurrent'
    BY <2>1, <2>2, <2>3 DEF IInv, EventsAhead, Extends, SentBefore, TipIsCurrent, Running, SlotTime
  <2> QED
    BY <1>1, <2>4, <2>5 DEF IInv
<1>5. CASE ActionEntry
  <2>1. PICK e \in NextEvent :
           /\ schedule' = [schedule EXCEPT !.events = @ \ {e}]
           /\ leader' = At("entry", e)
    BY <1>5 DEF ActionEntry
  <2>2. leader.pc = "action" /\ UNCHANGED <<clock, tip, tipRef, sent>>
    BY <1>5 DEF ActionEntry
  <2>3. e \in schedule.events /\ e \in Nat /\ \A u \in schedule.events : e <= u /\ u \in Nat
    BY DEF NextEvent, IInv, Types
  <2>4. leader' \in LeaderStates /\ leader'.event = e /\ leader'.pc = "entry"
    BY <2>1, <2>3, AtFields DEF PCs
  <2>5. /\ schedule' \in [made : BOOLEAN, epoch : Nat, events : SUBSET Nat]
        /\ schedule'.events = schedule.events \ {e}
    BY <2>1 DEF IInv, Types
  <2>6a. Types'
    BY <2>2, <2>4, <2>5 DEF IInv, Types
  <2>6. EventsAhead'
    BY <2>2, <2>3, <2>4, <2>5 DEF IInv, EventsAhead, TipIsCurrent, SlotTime
  <2>7. TipIsCurrent' /\ Extends'
    BY <2>2, <2>4 DEF IInv, TipIsCurrent, Extends, SlotTime
  <2>8. SentBefore'
    <3>1. \A i \in 1..Len(sent) : sent[i].date \in Nat
      <4>1. \A i \in 1..Len(sent) : sent[i] \in SentBlocks
        BY DEF IInv, Types
      <4> QED
        BY <4>1 DEF SentBlocks
    <3>2. leader.event < e
      BY <2>3 DEF IInv, EventsAhead
    <3> QED
      BY <1>2, <2>2, <2>3, <2>4, <3>1, <3>2 DEF IInv, SentBefore
  <2> QED
    BY <1>1, <2>6a, <2>6, <2>7, <2>8 DEF IInv
<1> QED
  BY <1>4, <1>5

(* A step of the running event that sends no block: the event stays, and   *)
(* the task goes on with it, ends it or stops.                             *)
LEMMA EntrySteps ==
  ASSUME IInv, RunEntry \/ RunEntryInBound \/ Answer \/ Deadline \/ Sign
  PROVE  IInv'
<1>1. UNCHANGED <<clock, tip, tipRef, schedule, sent>>
  BY DEF RunEntry, RunEntryInBound, Answer, Deadline, Sign
<1>2. leader.pc \in Running /\ leader \in LeaderStates /\ leader.event \in Nat
  BY LeaderFields DEF RunEntry, RunEntryInBound, Answer, Deadline, Sign, Running, IInv, Types
<1>3. \/ \E p \in {"selecting", "answered", "sending"} :
            /\ leader' = [leader EXCEPT !.pc = p]
            /\ tipRef.date < leader.event
      \/ leader' = [leader EXCEPT !.pc = "stopped"]
      \/ leader' = At("wait", leader.event)
      \/ leader' = [leader EXCEPT !.pc = "inbound",
                       !.soft = NthFutureSlotTime(leader.event, 1),
                       !.hard = NthFutureSlotTime(leader.event, BlockHardDeadline)]
      \/ /\ leader' = [leader EXCEPT !.alarms = @ + 1] /\ leader.alarms < 2
         /\ leader.pc = "selecting"
  <2>1. CASE RunEntry
    BY <2>1 DEF RunEntry, EndEntry
  <2>2. CASE RunEntryInBound
    BY <2>2 DEF RunEntryInBound, EndEntry, Stop, Goto
  <2>3. CASE Answer \/ Sign
    BY <2>3 DEF Answer, Sign, EndEntry, Goto, IInv, Extends
  <2>4. CASE Deadline
    BY <2>4 DEF Deadline, Stop, Goto
  <2> QED
    BY <2>1, <2>2, <2>3, <2>4
<1>4. /\ leader' \in LeaderStates
      /\ leader'.event = leader.event
      /\ leader'.pc \in Running \cup {"wait", "stopped"}
      /\ leader'.pc \in {"selecting", "answered", "sending"} => tipRef.date < leader.event
  <2>1. CASE \E p \in {"selecting", "answered", "sending"} :
                /\ leader' = [leader EXCEPT !.pc = p]
                /\ tipRef.date < leader.event
    <3>1. PICK p \in {"selecting", "answered", "sending"} :
                /\ leader' = [leader EXCEPT !.pc = p]
                /\ tipRef.date < leader.event
      BY <2>1
    <3>2. p \in PCs /\ p \in Running
      BY DEF PCs, Running
    <3> QED
      BY <1>2, <3>1, <3>2, GotoFields
  <2>2. CASE leader' = [leader EXCEPT !.pc = "stopped"]
    BY <1>2, <2>2, GotoFields DEF PCs, Running
  <2>3. CASE leader' = At("wait", leader.event)
    BY <1>2, <2>3, AtFields DEF PCs, Running
  <2>4. CASE leader' = [leader EXCEPT !.pc = "inbound",
                          !.soft = NthFutureSlotTime(leader.event, 1),
                          !.hard = NthFutureSlotTime(leader.event, BlockHardDeadline)]
    <3>1. NthFutureSlotTime(leader.event, 1) \in Nat
          /\ NthFutureSlotTime(leader.event, BlockHardDeadline) \in Nat
      BY <1>2, DeadlinesAreTimes, DeadlineAssumption
    <3> DEFINE soft == NthFutureSlotTime(leader.event, 1)
               hard == NthFutureSlotTime(leader.event, BlockHardDeadline)
    <3>2. leader' = [leader EXCEPT !.pc = "inbound", !.soft = soft, !.hard = hard]
      BY <2>4
    <3> HIDE DEF soft, hard
    <3>3. soft \in Nat /\ hard \in Nat
      BY <3>1 DEF soft, hard
    <3>4. leader' \in LeaderStates /\ leader'.pc = "inbound" /\ leader'.event = leader.event
      BY <1>2, <3>2, <3>3, BoundFields
    <3> QED
      BY <3>4 DEF Running
  <2>5. CASE /\ leader' = [leader EXCEPT !.alarms = @ + 1] /\ leader.alarms < 2
             /\ leader.pc = "selecting"
    BY <1>2, <2>5, AlarmFields DEF IInv, Extends, Running
  <2> QED
    BY <1>3, <2>1, <2>2, <2>3, <2>4, <2>5
<1>5. OneBlockPerSlot' /\ ParentIsOlder' /\ ParentIsFresh'
  BY <1>1, NotSent
<1>6. Types'
  BY <1>1, <1>4 DEF IInv, Types
<1>7. EventsAhead' /\ Extends' /\ SentBefore'
  BY <1>1, <1>2, <1>4 DEF IInv, EventsAhead, Extends, SentBefore, SlotTime
<1>8. TipIsCurrent'
  BY <1>1, <1>2, <1>4 DEF IInv, TipIsCurrent, Running, SlotTime
<1> QED
  BY <1>5, <1>6, <1>7, <1>8 DEF IInv

(* The block goes out. *)
LEMMA SendStep ==
  ASSUME IInv, SendBlock
  PROVE  IInv'
<1> DEFINE block == [date |-> leader.event, parentDate |-> tipRef.date, parentAt |-> tipRef.at]
<1>1. /\ leader.pc = "sending" /\ sent' = Append(sent, block)
      /\ UNCHANGED <<clock, tip, tipRef, schedule>>
      /\ leader' = At("wait", leader.event)
  BY DEF SendBlock, EndEntry
<1>2. block \in SentBlocks
  BY LeaderFields DEF IInv, Types, SentBlocks
<1>4. /\ leader' \in LeaderStates /\ leader'.event = leader.event /\ leader'.pc = "wait"
      /\ leader.event \in Nat
  BY <1>1, AtFields, LeaderFields DEF IInv, Types, PCs
<1>3. Types'
  <2>1. sent' \in Seq(SentBlocks)
    BY <1>1, <1>2 DEF IInv, Types
  <2> QED
    BY <1>1, <1>4, <2>1 DEF IInv, Types
<1>5. EventsAhead' /\ Extends' /\ TipIsCurrent'
  BY <1>1, <1>4 DEF IInv, EventsAhead, Extends, TipIsCurrent, Running, SlotTime
<1>6. /\ Len(sent) \in Nat /\ Len(sent') = Len(sent) + 1
      /\ \A i \in 1..Len(sent) : sent'[i] = sent[i] /\ sent[i].date \in Nat
      /\ sent'[Len(sent) + 1] = block
  <2>1. sent \in Seq(SentBlocks)
    BY DEF IInv, Types
  <2>2. /\ Len(sent) \in Nat /\ Len(sent') = Len(sent) + 1
        /\ \A i \in 1..Len(sent) : sent'[i] = sent[i] /\ sent[i] \in SentBlocks
        /\ sent'[Len(sent) + 1] = block
    BY <1>1, <1>2, <2>1
  <2> QED
    BY <2>2 DEF SentBlocks
<1>7. \A i \in 1..Len(sent) : sent[i].date < leader.event
  BY <1>1 DEF IInv, SentBefore, Running
<1>8. SentBefore'
  BY <1>4, <1>6, <1>7 DEF SentBefore, Running
<1>9. OneBlockPerSlot'
  <2> SUFFICES ASSUME NEW i \in 1..Len(sent'), NEW j \in 1..Len(sent'), i < j
               PROVE  sent'[i].date < sent'[j].date
    BY DEF OneBlockPerSlot
  <2>1. i \in 1..Len(sent)
    BY <1>6
  <2>2. CASE j \in 1..Len(sent)
    BY <1>6, <2>1, <2>2 DEF IInv, OneBlockPerSlot
  <2>3. CASE j = Len(sent) + 1
    BY <1>6, <1>7, <2>1, <2>3
  <2> QED
    BY <1>6, <2>2, <2>3
<1>10. block.parentDate < block.date /\ SlotTime(block.date) <= block.parentAt
  BY <1>1 DEF IInv, Extends, TipIsCurrent, Running
<1>11. ParentIsOlder' /\ ParentIsFresh'
  BY <1>6, <1>10 DEF IInv, ParentIsOlder, ParentIsFresh, SlotTime
<1> QED
  BY <1>3, <1>5, <1>8, <1>9, <1>11 DEF IInv

LEMMA NextIInv == IInv /\ [Next]_vars => IInv'
<1> SUFFICES ASSUME IInv, [Next]_vars PROVE IInv'
  OBVIOUS
<1>1. CASE UNCHANGED vars
  BY <1>1 DEF vars, IInv, Types, EventsAhead, TipIsCurrent, Extends, SentBefore, NextEvent,
     OneBlockPerSlot, ParentIsOlder, ParentIsFresh, SlotTime
<1>2. CASE Next
  BY <1>2, WorldSteps, WaitSteps, ActionSteps, EntrySteps, SendStep DEF Next, Step
<1> QED
  BY <1>1, <1>2

(* The node never signs two blocks for one slot, whatever the clock does   *)
(* between the steps of the task.                                          *)
THEOREM BlocksMoveForward == Spec => []OneBlockPerSlot
<1>1. IInv => OneBlockPerSlot
  BY DEF IInv
<1> QED
  BY <1>1, InitIInv, NextIInv, PTL DEF Spec

(* Every block extends an older one. *)
THEOREM ParentsAreOlder == Spec => []ParentIsOlder
<1>1. IInv => ParentIsOlder
  BY DEF IInv
<1> QED
  BY <1>1, InitIInv, NextIInv, PTL DEF Spec

(* Every block extends a tip that was read after its slot began. *)
THEOREM ParentsAreFresh == Spec => []ParentIsFresh
<1>1. IInv => ParentIsFresh
  BY DEF IInv
<1> QED
  BY <1>1, InitIInv, NextIInv, PTL DEF Spec
=============================================================================
