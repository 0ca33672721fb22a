---------------------- MODULE FireForgetSchedulerProofs ----------------------
(***************************************************************************)
(* Proofs about FireForgetScheduler, for every set of tasks, workers and   *)
(* keys and every configuration.                                           *)
(***************************************************************************)
EXTENDS FireForgetScheduler, FiniteSetTheorems, TLAPS

(* What the timer entries have to look like for a tick to keep their task. *)
TimersAreRecords ==
    \A k \in DOMAIN timers :
        timers[k] = [tid |-> timers[k].tid, wid |-> timers[k].wid,
                     left |-> timers[k].left]

----------------------------------------------------------------------------
(* Timers *)

(* Every step keeps the link between running tasks and timers: a launch    *)
(* takes an unused key, a completion removes the keys of the tasks it      *)
(* ends, a timeout ends at least the task whose key it removes.            *)
LEMMA RunningHasTimerStep ==
    TimersAreRecords /\ RunningHasTimer /\ [Next]_vars
        => TimersAreRecords' /\ RunningHasTimer'
<1> SUFFICES ASSUME TimersAreRecords, RunningHasTimer, [Next]_vars
             PROVE  TimersAreRecords' /\ RunningHasTimer'
  OBVIOUS
<1> USE DEF TimersAreRecords, RunningHasTimer
<1>1. CASE UNCHANGED <<running, timers>>
  BY <1>1
<1>2. CASE DeclareCompleted
  <2> DEFINE done == {r \in running : r.tid = Head(commands).tid}
  <2>1. /\ running' = running \ done
        /\ timers' = Without(timers, {r.key : r \in done})
    BY <1>2 DEF DeclareCompleted
  <2>2. \A r \in running' : r.key \notin {s.key : s \in done}
    BY <2>1
  <2> QED BY <2>1, <2>2 DEF Without
<1>3. CASE DeclareTimedOut
  <2>1. PICK k \in DOMAIN timers :
          /\ running' = {r \in running :
                           ~(r.tid = timers[k].tid /\ r.wid = timers[k].wid)}
          /\ timers' = Without(timers, {k})
    BY <1>3 DEF DeclareTimedOut
  <2>2. \A r \in running' : r.key # k
    BY <2>1
  <2> QED BY <2>1, <2>2 DEF Without
<1>4. CASE Launch
  <2>1. PICK i \in DOMAIN scheduled, k \in Keys \ DOMAIN timers :
          /\ running' = running \cup
               {[tid |-> scheduled[i].tid, wid |-> scheduled[i].wid, key |-> k]}
          /\ timers' = [x \in DOMAIN timers \cup {k} |->
               IF x = k THEN [tid |-> scheduled[i].tid,
                              wid |-> scheduled[i].wid, left |-> Timeout]
                        ELSE timers[x]]
    BY <1>4 DEF Launch
  <2>2. \A r \in running : r.key # k
    BY <2>1
  <2>3. TimersAreRecords'
    BY <2>1
  <2>4. RunningHasTimer'
    BY <2>1, <2>2
  <2> QED BY <2>3, <2>4
<1>5. CASE Tick
  <2>1. /\ running' = running
        /\ DOMAIN timers' = DOMAIN timers
        /\ \A k \in DOMAIN timers :
             timers'[k] = [timers[k] EXCEPT !.left = IF @ > 0 THEN @ - 1 ELSE 0]
    BY <1>5 DEF Tick
  <2>2. \A k \in DOMAIN timers :
          timers'[k] = [tid |-> timers[k].tid, wid |-> timers[k].wid,
                        left |-> IF timers[k].left > 0 THEN timers[k].left - 1 ELSE 0]
    BY <2>1
  <2> QED BY <2>1, <2>2
<1> QED
  BY <1>1, <1>2, <1>3, <1>4, <1>5
  DEF Next, vars, ClientSchedule, ClientDeclareCompleted, ClientTrySend,
      Schedule, CommandsPending, TimersPending, LaunchLoopExits

(* A running task always holds the key of its own pending timer, so that   *)
(* declare_completed never removes a key the DelayQueue does not have.     *)
THEOREM TimersOwned == Spec => []RunningHasTimer
<1>1. Init => TimersAreRecords /\ RunningHasTimer
  BY DEF Init, TimersAreRecords, RunningHasTimer
<1> QED BY <1>1, RunningHasTimerStep, PTL DEF Spec

----------------------------------------------------------------------------
(* Slots *)

(* Taking tasks out of `running` keeps every limit.                        *)
LEMMA FewerRunning ==
    ASSUME SlotsRespected, NEW R, R \subseteq running, running' = R
    PROVE  SlotsRespected'
<1>1. IsFiniteSet(R) /\ Cardinality(R) <= Cardinality(running)
  BY FS_Subset DEF SlotsRespected
<1>2. Cardinality(R) \in Nat /\ Cardinality(running) \in Nat
  BY <1>1, FS_CardinalityType DEF SlotsRespected
<1>3. ASSUME NEW t \in TID
      PROVE  Cardinality({r \in R : r.tid = t}) <= MaxRunningSameTask
  <2> DEFINE before == {r \in running : r.tid = t}
             now    == {r \in R : r.tid = t}
  <2>1. IsFiniteSet(before)
    BY FS_Subset DEF SlotsRespected
  <2>2. IsFiniteSet(now) /\ Cardinality(now) <= Cardinality(before)
    BY <2>1, FS_Subset
  <2>3. Cardinality(before) \in Nat /\ Cardinality(now) \in Nat
    BY <2>1, <2>2, FS_CardinalityType
  <2>4. Cardinality(before) <= MaxRunningSameTask
    BY DEF SlotsRespected, TaskRunCount
  <2> QED BY <2>2, <2>3, <2>4, MaxRunningSameTaskAssumption
<1> QED BY <1>1, <1>2, <1>3, MaxRunningAssumption DEF SlotsRespected, TaskRunCount

(* A launch happens only with a free slot, and only below the limit of its *)
(* own task.                                                               *)
LEMMA LaunchKeepsLimits == SlotsRespected /\ Launch => SlotsRespected'
<1> SUFFICES ASSUME SlotsRespected, Launch PROVE SlotsRespected'
  OBVIOUS
<1>1. PICK i \in DOMAIN scheduled, k \in Keys \ DOMAIN timers :
        /\ Runnable(i)
        /\ running' = running \cup
             {[tid |-> scheduled[i].tid, wid |-> scheduled[i].wid, key |-> k]}
  BY DEF Launch
<1> DEFINE new == [tid |-> scheduled[i].tid, wid |-> scheduled[i].wid, key |-> k]
<1>2. /\ IsFiniteSet(running')
      /\ Cardinality(running') \in Nat
      /\ Cardinality(running') <= Cardinality(running) + 1
  <2>1. IsFiniteSet(running) /\ Cardinality(running) \in Nat
    BY FS_CardinalityType DEF SlotsRespected
  <2>2. running' = running \cup {new}
    BY <1>1
  <2> HIDE DEF new
  <2>3. /\ IsFiniteSet(running \cup {new})
        /\ Cardinality(running \cup {new}) =
             IF new \in running THEN Cardinality(running)
                               ELSE Cardinality(running) + 1
    BY <2>1, FS_AddElement
  <2> QED BY <2>1, <2>2, <2>3
<1>3. Cardinality(running') <= MaxRunning
  <2>1. Cardinality(running) \in Nat /\ Cardinality(running) < MaxRunning
    BY FS_CardinalityType DEF SlotsRespected, Launch, HasSlot
  <2> QED BY <1>2, <2>1, MaxRunningAssumption
<1>4. ASSUME NEW t \in TID
      PROVE  Cardinality({r \in running' : r.tid = t}) <= MaxRunningSameTask
  <2> DEFINE before == {r \in running : r.tid = t}
             now    == {r \in running' : r.tid = t}
  <2>1. IsFiniteSet(before)
    BY FS_Subset DEF SlotsRespected
  <2>2. Cardinality(before) \in Nat
    BY <2>1, FS_CardinalityType
  <2>3. CASE new.tid # t
    <3>1. now = before
      BY <1>1, <2>3
    <3> QED BY <3>1 DEF SlotsRespected, TaskRunCount
  <2>4. CASE new.tid = t
    <3>1. now = before \cup {new}
      BY <1>1, <2>4
    <3>2. Cardinality(before) < MaxRunningSameTask
      BY <1>1, <2>4 DEF Runnable, TaskRunCount
    <3>3. /\ Cardinality(before \cup {new}) \in Nat
          /\ Cardinality(before \cup {new}) <= Cardinality(before) + 1
      <4> HIDE DEF before, new
      <4> QED BY <2>1, <2>2, FS_AddElement
    <3>4. Cardinality(now) <= MaxRunningSameTask
      <4> HIDE DEF before, new, now
      <4> QED BY <2>2, <3>1, <3>2, <3>3, MaxRunningSameTaskAssumption
    <3> QED BY <3>4
  <2> QED BY <2>3, <2>4
<1> QED BY <1>2, <1>3, <1>4 DEF SlotsRespected, TaskRunCount

(* The limits max_running and max_running_same_task are never exceeded.    *)
THEOREM LimitsHold == Spec => []SlotsRespected
<1>1. Init => SlotsRespected
  <2> SUFFICES ASSUME Init PROVE SlotsRespected
    OBVIOUS
  <2>1. running = {} /\ \A t : {r \in running : r.tid = t} = {}
    BY DEF Init
  <2> QED
    BY <2>1, FS_EmptySet, MaxRunningAssumption, MaxRunningSameTaskAssumption
    DEF SlotsRespected, TaskRunCount
<1>2. SlotsRespected /\ [Next]_vars => SlotsRespected'
  <2> SUFFICES ASSUME SlotsRespected, [Next]_vars PROVE SlotsRespected'
    OBVIOUS
  <2>1. CASE running' \subseteq running
    BY <2>1, FewerRunning
  <2>2. CASE Launch
    BY <2>2, LaunchKeepsLimits
  <2> QED
    BY <2>1, <2>2
    DEF Next, vars, ClientSchedule, ClientDeclareCompleted, ClientTrySend,
        Schedule, CommandsPending, TimersPending, LaunchLoopExits, Tick,
        DeclareCompleted, DeclareTimedOut
<1> QED BY <1>1, <1>2, PTL DEF Spec

----------------------------------------------------------------------------
(* Work conservation *)

(* A task waits in the queue only while no slot is free for it: every      *)
(* handler that frees a slot or queues a task enters the launch loop, and  *)
(* the loop exits only when nothing more can be launched.                  *)
THEOREM SlotsNeverIdle == Spec => []NoIdleSlot
<1>1. Init => NoIdleSlot
  BY DEF Init, NoIdleSlot
<1>2. NoIdleSlot /\ [Next]_vars => NoIdleSlot'
  <2> SUFFICES ASSUME NoIdleSlot, [Next]_vars PROVE NoIdleSlot'
    OBVIOUS
  <2> USE DEF NoIdleSlot, HasSlot, Runnable, TaskRunCount
  <2>1. CASE Schedule
    <3>1. CASE pc' = "run"
      BY <3>1
    <3>2. CASE \E i \in DOMAIN scheduled :
                 /\ IsScheduled(scheduled[i], Head(commands).task)
                 /\ scheduled' = [scheduled EXCEPT ![i] = Head(commands).task]
      <4>1. /\ DOMAIN scheduled' = DOMAIN scheduled
            /\ \A j \in DOMAIN scheduled : scheduled'[j].tid = scheduled[j].tid
        BY <3>2 DEF IsScheduled
      <4> QED BY <2>1, <4>1 DEF Schedule
    <3> QED BY <2>1, <3>1, <3>2 DEF Schedule, EnqueueOrUpdate, ReturnTo
  <2>2. CASE pc' = "run"
    BY <2>2
  <2>3. CASE UNCHANGED <<scheduled, running>> /\ (pc # "run" \/ pc' = pc)
    BY <2>3
  <2>4. CASE LaunchLoopExits
    BY <2>4 DEF LaunchLoopExits
  <2> QED
    BY <2>1, <2>2, <2>3, <2>4
    DEF Next, vars, ClientSchedule, ClientDeclareCompleted, ClientTrySend,
        CommandsPending, TimersPending, Tick, Launch,
        DeclareCompleted, DeclareTimedOut, ReturnTo
<1> QED BY <1>1, <1>2, PTL DEF Spec
=============================================================================
