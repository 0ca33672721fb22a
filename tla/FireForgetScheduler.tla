------------------------ MODULE FireForgetScheduler ------------------------
(***************************************************************************)
(* The scheduler that launches "pull headers" and "get next block"         *)
(* requests: utils/fire_forget_scheduler.rs.  Clients put commands in a    *)
(* bounded channel; the scheduler future drains it, keeps a queue of       *)
(* scheduled tasks, a set of running ones and one timer per launch.        *)
(*                                                                         *)
(* `running` is a Vec the code only filters, counts and appends to, so it  *)
(* is a set of records; a DelayQueue key is an element of Keys that no     *)
(* pending timer holds.  try_run_scheduled is a loop: every handler that   *)
(* ends with it leaves `pc` at "run", and nothing but the loop can move    *)
(* the scheduler until the loop exits.                                     *)
(***************************************************************************)
EXTENDS Naturals, FiniteSets, Sequences

CONSTANTS
    TID,                  \* task identifiers
    WID,                  \* worker identifiers
    Data,                 \* what the launcher is given
    Keys,                 \* DelayQueue keys
    MaxRunning,           \* config.max_running
    MaxRunningSameTask,   \* config.max_running_same_task
    CommandChannelSize,   \* config.command_channel_size
    Timeout,              \* config.timeout, in clock ticks
    MaxTimers             \* bound: tasks underway (waiting or with a timer)

ASSUME MaxRunningAssumption == MaxRunning \in Nat
ASSUME MaxRunningSameTaskAssumption == MaxRunningSameTask \in Nat
ASSUME ChannelAssumption == CommandChannelSize \in Nat
ASSUME TimeoutAssumption == Timeout \in Nat \ {0}

VARIABLES
    commands,    \* the command channel
    scheduled,   \* VecDeque of tasks waiting for a slot
    running,     \* launched tasks that hold a slot
    timers,      \* DelayQueue: key -> task and ticks left
    pc,          \* where the scheduler future is: "commands", "timers", "run"
    after        \* where try_run_scheduled returns to

vars == <<commands, scheduled, running, timers, pc, after>>

Task == [tid : TID, wid : WID, data : Data]
Running == [tid : TID, wid : WID, key : Keys]
Timer == [tid : TID, wid : WID, left : 0 .. Timeout]
ScheduleCommand == [op : {"schedule"}, task : Task]
CompletedCommand == [op : {"completed"}, tid : TID]

(* The types.  A (TID, WID) pair waits in the queue at most once, however  *)
(* often it is scheduled (the search in `schedule`).                       *)
TypeOK ==
    /\ commands \in Seq(ScheduleCommand \cup CompletedCommand)
    /\ scheduled \in Seq(Task)
    /\ \A i, j \in DOMAIN scheduled :
          scheduled[i].tid = scheduled[j].tid /\ scheduled[i].wid = scheduled[j].wid => i = j
    /\ running \in SUBSET Running
    /\ DOMAIN timers \subseteq Keys
    /\ \A k \in DOMAIN timers : timers[k] \in Timer
    /\ pc \in {"commands", "timers", "run"}
    /\ after \in {"commands", "timers"}

Init ==
    /\ commands = <<>>
    /\ scheduled = <<>>
    /\ running = {}
    /\ timers = [k \in {} |-> 0]
    /\ pc = "commands"
    /\ after = "commands"

----------------------------------------------------------------------------
(* FireForgetScheduler: the client side.  A full channel loses the command *)
(* (the caller logs the error), which is a step that changes nothing.      *)

ClientTrySend(command) ==
    /\ Len(commands) < CommandChannelSize
    /\ Cardinality(DOMAIN timers) + Len(scheduled) + Len(commands) < MaxTimers
    /\ commands' = Append(commands, command)
    /\ UNCHANGED <<scheduled, running, timers, pc, after>>

ClientSchedule ==
    \E t \in Task : ClientTrySend([op |-> "schedule", task |-> t])

ClientDeclareCompleted ==
    \E t \in TID : ClientTrySend([op |-> "completed", tid |-> t])

----------------------------------------------------------------------------
(* FireForgetSchedulerFuture *)

IsScheduled(s, task) == s.tid = task.tid /\ s.wid = task.wid

KeepOthers(queue, t) == SelectSeq(queue, LAMBDA s : s.tid # t)

ReturnTo(place) == pc' = "run" /\ after' = place

(* Variant: the search for an entry that is already queued is dropped. *)
EnqueueAlways(task) ==
    /\ scheduled' = Append(scheduled, task)
    /\ ReturnTo("commands")

(* update_data: the two tasks agree on TID and WID, so that taking over    *)
(* the data is taking over the task.                                       *)
EnqueueOrUpdate(task) ==
    \/ /\ \E i \in DOMAIN scheduled :
             /\ IsScheduled(scheduled[i], task)
             /\ scheduled' = [scheduled EXCEPT ![i] = task]
       /\ UNCHANGED <<pc, after>>
    \/ /\ \A i \in DOMAIN scheduled : ~IsScheduled(scheduled[i], task)
       /\ scheduled' = Append(scheduled, task)
       /\ ReturnTo("commands")

Schedule ==
    /\ pc = "commands"
    /\ commands # <<>>
    /\ Head(commands).op = "schedule"
    /\ EnqueueOrUpdate(Head(commands).task)
    /\ commands' = Tail(commands)
    /\ UNCHANGED <<running, timers>>

Without(f, ks) == [k \in DOMAIN f \ ks |-> f[k]]

DeclareCompleted ==
    /\ pc = "commands"
    /\ commands # <<>>
    /\ Head(commands).op = "completed"
    /\ LET t == Head(commands).tid
           done == {r \in running : r.tid = t}
       IN /\ scheduled' = KeepOthers(scheduled, t)
          /\ running' = running \ done
          /\ timers' = Without(timers, {r.key : r \in done})
    /\ commands' = Tail(commands)
    /\ ReturnTo("commands")

(* The command loop ends when the channel is empty, or when the runtime's  *)
(* cooperative budget makes poll_recv return Pending.                      *)
CommandsPending ==
    /\ pc = "commands"
    /\ pc' = "timers"
    /\ UNCHANGED <<commands, scheduled, running, timers, after>>

(* Variant: the launch loop is not run after a timeout. *)
TimedOutNoRelaunch ==
    /\ pc = "timers"
    /\ \E k \in DOMAIN timers :
          /\ timers[k].left = 0
          /\ running' = {r \in running :
                           ~(r.tid = timers[k].tid /\ r.wid = timers[k].wid)}
          /\ timers' = Without(timers, {k})
    /\ UNCHANGED <<commands, scheduled, pc, after>>

(* Variant: the expired entry is dropped, its task keeps the slot. *)
TimedOutKeepsRunning ==
    /\ pc = "timers"
    /\ \E k \in DOMAIN timers :
          /\ timers[k].left = 0
          /\ timers' = Without(timers, {k})
    /\ ReturnTo("timers")
    /\ UNCHANGED <<commands, scheduled, running>>

DeclareTimedOut ==
    /\ pc = "timers"
    /\ \E k \in DOMAIN timers :
          /\ timers[k].left = 0
          /\ running' = {r \in running :
                           ~(r.tid = timers[k].tid /\ r.wid = timers[k].wid)}
          /\ timers' = Without(timers, {k})
    /\ ReturnTo("timers")
    /\ UNCHANGED <<commands, scheduled>>

TimersPending ==
    /\ pc = "timers"
    /\ \A k \in DOMAIN timers : timers[k].left > 0
    /\ pc' = "commands"
    /\ UNCHANGED <<commands, scheduled, running, timers, after>>

TaskRunCount(t) == Cardinality({r \in running : r.tid = t})

Runnable(i) == TaskRunCount(scheduled[i].tid) < MaxRunningSameTask

(* Variant: the slot test with <= for <. *)
HasSlotOffByOne == Cardinality(running) <= MaxRunning

HasSlot == Cardinality(running) < MaxRunning

RemoveAt(queue, i) == SubSeq(queue, 1, i - 1) \o SubSeq(queue, i + 1, Len(queue))

(* One turn of the loop of try_run_scheduled: the first runnable task      *)
(* leaves the queue, its timer starts, it is launched.                     *)
Launch ==
    /\ pc = "run"
    /\ HasSlot
    /\ \E i \in DOMAIN scheduled :
          /\ Runnable(i)
          /\ \A j \in 1 .. i - 1 : ~Runnable(j)
          /\ scheduled' = RemoveAt(scheduled, i)
          /\ \E k \in Keys \ DOMAIN timers :
                /\ running' = running \cup
                     {[tid |-> scheduled[i].tid, wid |-> scheduled[i].wid, key |-> k]}
                /\ timers' = [x \in DOMAIN timers \cup {k} |->
                     IF x = k THEN [tid |-> scheduled[i].tid,
                                    wid |-> scheduled[i].wid, left |-> Timeout]
                              ELSE timers[x]]
    /\ UNCHANGED <<commands, pc, after>>

LaunchLoopExits ==
    /\ pc = "run"
    /\ HasSlot => \A i \in DOMAIN scheduled : ~Runnable(i)
    /\ pc' = after
    /\ UNCHANGED <<commands, scheduled, running, timers, after>>

(* Variant: a timer that ran out before it was polled starts again. *)
TickRearms ==
    /\ DOMAIN timers # {}
    /\ timers' = [k \in DOMAIN timers |->
                    [timers[k] EXCEPT !.left = IF @ > 0 THEN @ - 1 ELSE Timeout]]
    /\ UNCHANGED <<commands, scheduled, running, pc, after>>

(* One tick of the clock, for every timer that has not run out.            *)
Tick ==
    /\ \E k \in DOMAIN timers : timers[k].left > 0
    /\ timers' = [k \in DOMAIN timers |->
                    [timers[k] EXCEPT !.left = IF @ > 0 THEN @ - 1 ELSE 0]]
    /\ UNCHANGED <<commands, scheduled, running, pc, after>>

----------------------------------------------------------------------------
Next ==
    \/ ClientSchedule
    \/ ClientDeclareCompleted
    \/ Schedule
    \/ DeclareCompleted
    \/ CommandsPending
    \/ DeclareTimedOut
    \/ TimersPending
    \/ Launch
    \/ LaunchLoopExits
    \/ Tick

Spec == Init /\ [][Next]_vars

(* The executor keeps polling the future and time passes.  The budget of a *)
(* poll is finite, so the command loop is left again and again even under  *)
(* a stream of commands: strong fairness of CommandsPending.               *)
Fairness ==
    /\ WF_vars(Schedule) /\ WF_vars(DeclareCompleted)
    /\ SF_vars(CommandsPending)
    /\ WF_vars(DeclareTimedOut) /\ WF_vars(TimersPending)
    /\ WF_vars(Launch) /\ WF_vars(LaunchLoopExits)
    /\ WF_vars(Tick)

FairSpec == Spec /\ Fairness

----------------------------------------------------------------------------
(* Properties *)

(* The parallelism limits of FireForgetSchedulerConfig hold across every   *)
(* mix of launches, completions and timeouts: at most max_running tasks    *)
(* hold a slot, and at most max_running_same_task of any one TID.          *)
SlotsRespected ==
    /\ IsFiniteSet(running)
    /\ Cardinality(running) <= MaxRunning
    /\ \A t \in TID : TaskRunCount(t) <= MaxRunningSameTask

(* Every running task holds the key of a pending timer that is its own and *)
(* nobody else's: declare_completed removes timers by key, and DelayQueue  *)
(* panics on a key that is not in the queue.                               *)
RunningHasTimer ==
    /\ \A r \in running :
          /\ r.key \in DOMAIN timers
          /\ timers[r.key].tid = r.tid /\ timers[r.key].wid = r.wid
    /\ \A r, s \in running : r.key = s.key => r = s

(* No slot is left idle: whenever the scheduler future is not in the       *)
(* launch loop, a task still waits only because all slots are taken or     *)
(* because its TID is at its own limit.  Every handler that can free a     *)
(* slot has to run try_run_scheduled for this.                             *)
NoIdleSlot ==
    pc # "run" => (HasSlot => \A i \in DOMAIN scheduled : ~Runnable(i))

Queued(t, w) == \E i \in DOMAIN scheduled :
                    scheduled[i].tid = t /\ scheduled[i].wid = w

(* A scheduled task does not wait for ever: it is launched or cancelled by *)
(* a completion, because slots are freed by timeouts and the queue is      *)
(* served first come, first served among runnable tasks.                   *)
QueuedIsServed == \A t \in TID, w \in WID : Queued(t, w) ~> ~Queued(t, w)
=============================================================================
