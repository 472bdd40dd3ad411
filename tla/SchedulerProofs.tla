---------------------------- MODULE SchedulerProofs ----------------------------
(***************************************************************************)
(* The proof, for any number of tasks, wait queues, ticks and weights and  *)
(* under each of the policies, that every task stays where its state says  *)
(* it is, and that a tick neither leaves the CPU idle with work to do nor  *)
(* ends a sleep early.                                                     *)
(*                                                                         *)
(* The virtual-time accounting plays no part in it: pick_next may choose   *)
(* any queued task, whatever its key.                                      *)
(***************************************************************************)
EXTENDS Scheduler, FiniteSetTheorems, SequenceTheorems, TLAPS

---------------------------------------------------------------------------
(* The inductive invariant *)

Live == {t \in Task : state[t] # "Absent"}

\* insert_task has reserved room for every live task, and an id is not used before
\* next_task_id reaches it.
RoomForAll ==
    /\ \A t \in Task : t >= next_task_id => state[t] = "Absent"
    /\ Cardinality(Live) <= capacity

SchedulerInv ==
    TypeOK /\ OnePlacePerTask /\ BlockedTasksReachable /\ FreshContext /\ RoomForAll

---------------------------------------------------------------------------
(* What the steps have in common *)

\* The idle task exists.
LEMMA IdleIsTask == idle \in Task /\ None \notin Task
BY SchedulerAssumption DEF idle, Task, None

\* The set of tasks is finite, and so is every part of it.
LEMMA TasksAreFinite ==
    ASSUME NEW S \in SUBSET Task
    PROVE  IsFiniteSet(S) /\ Cardinality(S) \in Nat
<1>1. IsFiniteSet(Task)
  BY SchedulerAssumption, FS_Interval DEF Task
<1>2. QED
  BY <1>1, FS_Subset, FS_CardinalityType, Zenon

\* A part of a set of tasks is no larger.
LEMMA PartsAreSmaller ==
    ASSUME NEW S \in SUBSET Task, NEW R \in SUBSET S
    PROVE  Cardinality(R) <= Cardinality(S)
BY TasksAreFinite, FS_Subset, Zenon

\* The run queue fits: it holds live tasks only, each of them once.
LEMMA QueueFits == SchedulerInv => RunQueueFits
<1> SUFFICES ASSUME SchedulerInv PROVE Cardinality(Queued(run_queue)) <= capacity
  BY Zenon DEF RunQueueFits
<1>1. Queued(run_queue) \subseteq Live /\ Live \subseteq Task
  BY DEF Queued, Live, SchedulerInv, OnePlacePerTask
<1>2. Cardinality(Queued(run_queue)) <= Cardinality(Live)
  BY <1>1, PartsAreSmaller, Zenon
<1>3. /\ Cardinality(Queued(run_queue)) \in Nat /\ Cardinality(Live) \in Nat
      /\ capacity \in Nat /\ Cardinality(Live) <= capacity
  BY <1>1, TasksAreFinite, Zenon DEF SchedulerInv, TypeOK, RoomForAll
<1>4. QED
  BY <1>2, <1>3

\* Room is kept by a step that makes no task live and reserves nothing.
LEMMA RoomIsKept ==
    ASSUME SchedulerInv, state' \in [Task -> States],
           \A t \in Task : state[t] = "Absent" => state'[t] = "Absent",
           UNCHANGED <<next_task_id, capacity>>
    PROVE  RoomForAll'
<1>1. Live' \subseteq Live /\ Live \subseteq Task
  BY Zenon DEF Live
<1>2. Cardinality(Live') <= Cardinality(Live)
  BY <1>1, PartsAreSmaller, Zenon
<1>3. /\ Cardinality(Live') \in Nat /\ Cardinality(Live) \in Nat
      /\ capacity \in Nat /\ Cardinality(Live) <= capacity
  BY <1>1, TasksAreFinite, Zenon DEF SchedulerInv, TypeOK, RoomForAll
<1>4. Cardinality(Live') <= capacity'
  BY <1>2, <1>3
<1>5. QED
  BY <1>4, Zenon DEF RoomForAll, SchedulerInv

\* The entries of a wait queue are tasks.
LEMMA WaitersAreTasks ==
    ASSUME TypeOK
    PROVE  \A q \in WaitQueues : \A i \in DOMAIN waiters[q] : waiters[q][i] \in Task
BY DEF TypeOK

\* A step that neither blocks nor wakes a task, and leaves the queues they wait in alone.
LEMMA ReachIsKept ==
    ASSUME SchedulerInv, \A t \in Task : state'[t] = "Blocked" <=> state[t] = "Blocked",
           UNCHANGED <<sleepers, waiters, block_reason>>
    PROVE  BlockedTasksReachable'
<1>1. \A q \in WaitQueues : \A i \in DOMAIN waiters[q] :
        waiters[q][i] \in Task /\ state'[waiters[q][i]] = "Blocked"
  BY WaitersAreTasks, Zenon DEF SchedulerInv, BlockedTasksReachable
<1>2. \A t \in Task : state'[t] = "Blocked" =>
        \/ \E s \in sleepers : s[2] = t /\ block_reason[t] = <<"SleepUntil", s[1]>>
        \/ \E q \in WaitQueues : \E i \in DOMAIN waiters[q] :
              waiters[q][i] = t /\ block_reason[t] = <<"WaitQueue", q>>
  BY Zenon DEF SchedulerInv, BlockedTasksReachable
<1>3. QED
  BY <1>1, <1>2, SMTT(60) DEF SchedulerInv, BlockedTasksReachable

\* What switch_to_next needs of the states and the queue it starts from: nobody runs, the
\* queue holds the ready tasks, and every waiting task's context is fresh.
NobodyRuns(st, rq, rk, sv) ==
    /\ st \in [Task -> States] /\ rq \in [Task -> Nat]
    /\ rk \in [Task -> {"Voluntary", "Interrupt"}]
    /\ sv \in [Task -> {"Voluntary", "Interrupt", "Stale"}]
    /\ \A t \in Task : rq[t] = IF st[t] = "Ready" /\ t # idle THEN 1 ELSE 0
    /\ \A t \in Task : st[t] # "Running"
    /\ st[idle] = "Ready"
    /\ \A t \in Task : st[t] \in {"Ready", "Blocked"} => sv[t] = rk[t]

\* What it leaves: one of the ready tasks runs, idle only when there is no other.
OneRuns(st, rq) ==
    /\ current' \in Task /\ st[current'] = "Ready"
    /\ state' = [st EXCEPT ![current'] = "Running"]
    /\ run_queue' \in [Task -> Nat]
    /\ \A t \in Task : run_queue'[t] = IF state'[t] = "Ready" /\ t # idle THEN 1 ELSE 0
    /\ state'[idle] \in {"Ready", "Running"}
    /\ Queued(rq) # {} => current' # idle
    /\ resume_kind' \in [Task -> {"Voluntary", "Interrupt"}]
    /\ saved' \in [Task -> {"Voluntary", "Interrupt", "Stale"}]
    /\ FreshContext'

\* switch_to_next, whichever task it picks.
LEMMA SwitchRunsOne ==
    ASSUME NEW a, NEW st, NEW rq, NEW rk, NEW sv, NEW now,
           NobodyRuns(st, rq, rk, sv), SwitchToNext(a, st, rq, rk, sv, now)
    PROVE  OneRuns(st, rq)
<1>1. PICK next \in IF Queued(rq) = {} THEN {idle} ELSE Queued(rq) :
        /\ state' = [st EXCEPT ![next] = "Running"]
        /\ run_queue' = IF Queued(rq) = {} THEN rq ELSE Pop(rq, next)
        /\ current' = next
        /\ resume_kind' = [rk EXCEPT ![next] = "Voluntary"]
        /\ saved' = [sv EXCEPT ![next] = "Stale"]
  BY Zenon DEF SwitchToNext
<1>2. next \in Task /\ st[next] = "Ready" /\ (Queued(rq) # {} => next # idle)
  BY <1>1, IdleIsTask DEF NobodyRuns, Queued
<1>3. state' \in [Task -> States]
  BY <1>1, <1>2, Zenon DEF NobodyRuns, States
<1>4. run_queue' \in [Task -> Nat]
      /\ \A t \in Task : run_queue'[t] = IF state'[t] = "Ready" /\ t # idle THEN 1 ELSE 0
  <2>1. CASE Queued(rq) = {}
    BY <1>1, <1>2, <2>1, Zenon DEF NobodyRuns
  <2>2. CASE Queued(rq) # {}
    BY <1>1, <1>2, <2>2, SMTT(60) DEF NobodyRuns, Pop
  <2>3. QED
    BY <2>1, <2>2, Zenon
<1>5. state'[idle] \in {"Ready", "Running"}
  BY <1>1, <1>2, IdleIsTask, Zenon DEF NobodyRuns
<1>6. FreshContext' /\ resume_kind' \in [Task -> {"Voluntary", "Interrupt"}]
      /\ saved' \in [Task -> {"Voluntary", "Interrupt", "Stale"}]
  BY <1>1, <1>2, Zenon DEF NobodyRuns, FreshContext
<1>7. QED
  BY <1>1, <1>2, <1>4, <1>5, <1>6, ZenonT(60) DEF OneRuns

\* After the switch the one running task is current, and the tasks that are neither ready
\* nor running are as they were.
LEMMA SwitchKeepsOthers ==
    ASSUME NEW st \in [Task -> States], NEW rq, OneRuns(st, rq),
           \A t \in Task : st[t] # "Running"
    PROVE  /\ state' \in [Task -> States] /\ current' \in Task
           /\ \A t \in Task : state'[t] = "Running" <=> t = current'
           /\ \A t \in Task : state'[t] = "Blocked" <=> st[t] = "Blocked"
           /\ \A t \in Task : state'[t] = "Exited" <=> st[t] = "Exited"
           /\ \A t \in Task : state'[t] = "Absent" <=> st[t] = "Absent"
BY Zenon DEF OneRuns, States

\* Everyone is in place after a switch that leaves the exit queue alone.
LEMMA SwitchKeepsPlaces ==
    ASSUME SchedulerInv, NEW st, NEW rq, OneRuns(st, rq), UNCHANGED exit_queue,
           \A t \in Task : state'[t] = "Running" <=> t = current',
           \A t \in Task : state'[t] = "Exited" <=> state[t] = "Exited"
    PROVE  OnePlacePerTask'
BY DEF OneRuns, SchedulerInv, OnePlacePerTask

\* The states and queue from which each operation switches.
LEMMA StartingPoint ==
    ASSUME SchedulerInv, current = None
    PROVE  NobodyRuns(state, run_queue, resume_kind, saved)
BY IdleIsTask, ZenonT(60) DEF SchedulerInv, TypeOK, OnePlacePerTask, FreshContext, NobodyRuns

\* The running task runs, the queue holds the ready ones, the waiting ones' contexts are fresh.
Placed(st, rq) ==
    /\ st \in [Task -> States] /\ rq \in [Task -> Nat]
    /\ \A t \in Task : rq[t] = IF st[t] = "Ready" /\ t # idle THEN 1 ELSE 0
    /\ \A t \in Task : st[t] = "Running" <=> t = current
    /\ st[idle] \in {"Ready", "Running"}
    /\ \A t \in Task : st[t] \in {"Ready", "Blocked"} => saved[t] = resume_kind[t]

\* schedule puts the running task back, unless it is idle.
LEMMA YieldingPoint ==
    ASSUME TypeOK, current \in Task, NEW kind \in {"Voluntary", "Interrupt"},
           NEW st0, NEW rq0, Placed(st0, rq0)
    PROVE  NobodyRuns([st0 EXCEPT ![current] = "Ready"],
                      IF current = idle THEN rq0 ELSE Push(rq0, current),
                      Resume(kind), Save(kind))
<1> DEFINE st == [st0 EXCEPT ![current] = "Ready"]
           rq == IF current = idle THEN rq0 ELSE Push(rq0, current)
<1>1. st \in [Task -> States] /\ (\A t \in Task : st[t] # "Running") /\ st[idle] = "Ready"
  BY IdleIsTask, Zenon DEF Placed, States
<1>2. rq \in [Task -> Nat] /\ \A t \in Task : rq[t] = IF st[t] = "Ready" /\ t # idle THEN 1 ELSE 0
  BY IdleIsTask DEF Placed, Push
<1>3. /\ Resume(kind) \in [Task -> {"Voluntary", "Interrupt"}]
      /\ Save(kind) \in [Task -> {"Voluntary", "Interrupt", "Stale"}]
      /\ \A t \in Task : st[t] \in {"Ready", "Blocked"} => Save(kind)[t] = Resume(kind)[t]
  BY Zenon DEF TypeOK, Placed, Resume, Save
<1>4. QED
  BY <1>1, <1>2, <1>3, Zenon DEF NobodyRuns

\* stop_current takes the running task, which is not idle, off the CPU for good or to wait.
LEMMA StoppingPoint ==
    ASSUME SchedulerInv, current \in Task \ {idle}, NEW next_state \in {"Blocked", "Exited"}
    PROVE  NobodyRuns([state EXCEPT ![current] = next_state], run_queue,
                      Resume("Voluntary"), Save("Voluntary"))
<1> DEFINE st == [state EXCEPT ![current] = next_state]
<1>1. st \in [Task -> States] /\ (\A t \in Task : st[t] # "Running") /\ st[idle] = "Ready"
  BY IdleIsTask DEF SchedulerInv, TypeOK, OnePlacePerTask, States
<1>2. \A t \in Task : run_queue[t] = IF st[t] = "Ready" /\ t # idle THEN 1 ELSE 0
  BY IdleIsTask DEF SchedulerInv, TypeOK, OnePlacePerTask
<1>3. /\ Resume("Voluntary") \in [Task -> {"Voluntary", "Interrupt"}]
      /\ Save("Voluntary") \in [Task -> {"Voluntary", "Interrupt", "Stale"}]
      /\ \A t \in Task : st[t] \in {"Ready", "Blocked"}
            => Save("Voluntary")[t] = Resume("Voluntary")[t]
  BY Zenon DEF SchedulerInv, TypeOK, FreshContext, Resume, Save
<1>4. QED
  BY <1>1, <1>2, <1>3, Zenon DEF NobodyRuns, SchedulerInv, TypeOK

---------------------------------------------------------------------------
(* The operations, one by one *)

\* The first task starts.
LEMMA StartStep ==
    ASSUME SchedulerInv, NEW now, StartFirstTask(now)
    PROVE  SchedulerInv'
<1>1. OneRuns(state, run_queue)
  BY StartingPoint, SwitchRunsOne, Zenon DEF StartFirstTask
<1>2. state \in [Task -> States] /\ \A t \in Task : state[t] # "Running"
  BY StartingPoint, Zenon DEF StartFirstTask, NobodyRuns
<1>3. /\ state' \in [Task -> States] /\ current' \in Task
      /\ \A t \in Task : state'[t] = "Running" <=> t = current'
      /\ \A t \in Task : state'[t] = "Blocked" <=> state[t] = "Blocked"
      /\ \A t \in Task : state'[t] = "Exited" <=> state[t] = "Exited"
      /\ \A t \in Task : state'[t] = "Absent" <=> state[t] = "Absent"
  BY <1>1, <1>2, SwitchKeepsOthers, Zenon
<1>4. UNCHANGED <<exit_queue, next_task_id, sleepers, waiters, block_reason, capacity, ticks,
                  renices>>
  BY Zenon DEF StartFirstTask
<1>5. TypeOK' /\ FreshContext'
  BY <1>1, <1>3, <1>4, SMTT(30) DEF OneRuns, SchedulerInv, TypeOK
<1>6. OnePlacePerTask'
  BY <1>1, <1>3, <1>4, SwitchKeepsPlaces, Zenon
<1>7. BlockedTasksReachable'
  BY <1>3, <1>4, ReachIsKept, Zenon
<1>8. RoomForAll'
  BY <1>3, <1>4, RoomIsKept, Zenon
<1>9. QED
  BY <1>5, <1>6, <1>7, <1>8, Zenon DEF SchedulerInv

\* schedule ends in switch_to_next, with whatever accounting.
LEMMA ScheduleSwitches ==
    ASSUME NEW a, NEW st, NEW rq, NEW rk, NEW sv, NEW now, Schedule(a, st, rq, rk, sv, now)
    PROVE  \E b : SwitchToNext(b, [st EXCEPT ![current] = "Ready"],
                               IF current = idle THEN rq ELSE Push(rq, current), rk, sv, now)
BY Zenon DEF Schedule

\* The same of stop_current.
LEMMA StopSwitches ==
    ASSUME NEW next_state, NEW now, StopCurrent(next_state, now)
    PROVE  \E b : SwitchToNext(b, [state EXCEPT ![current] = next_state], run_queue,
                               Resume("Voluntary"), Save("Voluntary"), now)
BY Zenon DEF StopCurrent

\* The running task gives the CPU away and stays ready.
LEMMA YieldStep ==
    ASSUME SchedulerInv, NEW now, Yield(now)
    PROVE  SchedulerInv'
<1> DEFINE st == [state EXCEPT ![current] = "Ready"]
           rq == IF current = idle THEN run_queue ELSE Push(run_queue, current)
<1>1. current \in Task
  BY Zenon DEF Yield, SchedulerInv, TypeOK
<1>2. NobodyRuns(st, rq, Resume("Voluntary"), Save("Voluntary"))
  <2>1. TypeOK /\ Placed(state, run_queue)
    BY Zenon DEF Placed, SchedulerInv, TypeOK, OnePlacePerTask, FreshContext
  <2>2. QED
    BY <1>1, <2>1, YieldingPoint, Zenon
<1>3. OneRuns(st, rq)
  BY <1>2, ScheduleSwitches, SwitchRunsOne, ZenonT(60) DEF Yield
<1>4. /\ st \in [Task -> States] /\ \A t \in Task : st[t] # "Running"
      /\ \A t \in Task : st[t] = "Blocked" <=> state[t] = "Blocked"
      /\ \A t \in Task : st[t] = "Exited" <=> state[t] = "Exited"
      /\ \A t \in Task : st[t] = "Absent" <=> state[t] = "Absent"
  BY <1>1, <1>2, SMTT(60) DEF NobodyRuns, SchedulerInv, TypeOK, OnePlacePerTask
<1> HIDE DEF st, rq
<1>5. /\ state' \in [Task -> States] /\ current' \in Task
      /\ \A t \in Task : state'[t] = "Running" <=> t = current'
      /\ \A t \in Task : state'[t] = "Blocked" <=> state[t] = "Blocked"
      /\ \A t \in Task : state'[t] = "Exited" <=> state[t] = "Exited"
      /\ \A t \in Task : state'[t] = "Absent" <=> state[t] = "Absent"
  BY <1>3, <1>4, SwitchKeepsOthers, SMTT(60)
<1>6. UNCHANGED <<exit_queue, next_task_id, sleepers, waiters, block_reason, capacity, ticks,
                  renices>>
  BY Zenon DEF Yield
<1>7. TypeOK' /\ FreshContext'
  BY <1>3, <1>5, <1>6, SMTT(30) DEF OneRuns, SchedulerInv, TypeOK
<1>8. OnePlacePerTask'
  BY <1>3, <1>5, <1>6, SwitchKeepsPlaces, Zenon
<1>9. BlockedTasksReachable'
  BY <1>5, <1>6, ReachIsKept, Zenon
<1>10. RoomForAll'
  BY <1>5, <1>6, RoomIsKept, Zenon
<1>11. QED
  BY <1>7, <1>8, <1>9, <1>10, Zenon DEF SchedulerInv

\* Where the tasks are after stop_current has taken the running one to next_state.
LEMMA StopMoves ==
    ASSUME SchedulerInv, current \notin {None, idle}, NEW next_state \in {"Blocked", "Exited"},
           NEW now, StopCurrent(next_state, now)
    PROVE  /\ current \in Task
           /\ OneRuns([state EXCEPT ![current] = next_state], run_queue)
           /\ state' \in [Task -> States] /\ current' \in Task
           /\ \A t \in Task : state'[t] = "Running" <=> t = current'
           /\ \A t \in Task : state'[t] = "Blocked"
                 <=> IF t = current THEN next_state = "Blocked" ELSE state[t] = "Blocked"
           /\ \A t \in Task : state'[t] = "Exited"
                 <=> IF t = current THEN next_state = "Exited" ELSE state[t] = "Exited"
           /\ \A t \in Task : state[t] = "Absent" => state'[t] = "Absent"
<1> DEFINE st == [state EXCEPT ![current] = next_state]
<1>1. current \in Task
  BY Zenon DEF SchedulerInv, TypeOK
<1>2. NobodyRuns(st, run_queue, Resume("Voluntary"), Save("Voluntary"))
  BY <1>1, StoppingPoint, Zenon
<1>3. OneRuns(st, run_queue)
  BY <1>2, StopSwitches, SwitchRunsOne, Zenon
<1>4. /\ st \in [Task -> States] /\ \A t \in Task : st[t] # "Running"
      /\ \A t \in Task : st[t] = IF t = current THEN next_state ELSE state[t]
      /\ state[current] = "Running"
  BY <1>1, <1>2 DEF NobodyRuns, SchedulerInv, TypeOK, OnePlacePerTask
<1>5. /\ state' \in [Task -> States] /\ current' \in Task
      /\ \A t \in Task : state'[t] = "Running" <=> t = current'
      /\ \A t \in Task : state'[t] = "Blocked" <=> st[t] = "Blocked"
      /\ \A t \in Task : state'[t] = "Exited" <=> st[t] = "Exited"
      /\ \A t \in Task : state'[t] = "Absent" <=> st[t] = "Absent"
  <2> HIDE DEF st
  <2>1. QED
    BY <1>3, <1>4, SwitchKeepsOthers, Zenon
<1>6. /\ \A t \in Task : state'[t] = "Blocked"
            <=> IF t = current THEN next_state = "Blocked" ELSE state[t] = "Blocked"
      /\ \A t \in Task : state'[t] = "Exited"
            <=> IF t = current THEN next_state = "Exited" ELSE state[t] = "Exited"
      /\ \A t \in Task : state[t] = "Absent" => state'[t] = "Absent"
  <2> HIDE DEF st
  <2>1. QED
    BY <1>1, <1>4, <1>5, ZenonT(60)
<1>7. QED
  BY <1>1, <1>3, <1>5, <1>6, Zenon

\* The running task goes to sleep: its entry is among the sleepers.
LEMMA SleepStep ==
    ASSUME SchedulerInv, NEW now, NEW deadline \in ticks..MaxTicks, Sleep(deadline, now)
    PROVE  SchedulerInv'
<1>1. /\ current \in Task
      /\ OneRuns([state EXCEPT ![current] = "Blocked"], run_queue)
      /\ state' \in [Task -> States] /\ current' \in Task
      /\ \A t \in Task : state'[t] = "Running" <=> t = current'
      /\ \A t \in Task : state'[t] = "Blocked" <=> t = current \/ state[t] = "Blocked"
      /\ \A t \in Task : state'[t] = "Exited" <=> t # current /\ state[t] = "Exited"
      /\ \A t \in Task : state[t] = "Absent" => state'[t] = "Absent"
  BY StopMoves, Zenon DEF Sleep
<1>2. /\ block_reason' = [block_reason EXCEPT ![current] = <<"SleepUntil", deadline>>]
      /\ sleepers' = sleepers \cup {<<deadline, current>>}
      /\ UNCHANGED <<exit_queue, next_task_id, waiters, capacity, ticks, renices>>
  BY Zenon DEF Sleep
<1>3. state[current] = "Running"
  BY <1>1, Zenon DEF SchedulerInv, OnePlacePerTask
<1>4. TypeOK' /\ FreshContext'
  <2>1. sleepers' \subseteq (0..MaxTicks) \X Task
    BY <1>1, <1>2, SchedulerAssumption, SMTT(60) DEF SchedulerInv, TypeOK
  <2>2. block_reason' \in [Task -> BlockReason]
    BY <1>1, <1>2, SchedulerAssumption, SMTT(60) DEF SchedulerInv, TypeOK, BlockReason
  <2>3. QED
    BY <1>1, <1>2, <2>1, <2>2, Zenon DEF OneRuns, SchedulerInv, TypeOK
<1>5. OnePlacePerTask'
  <2>1. \A t \in Task : state'[t] = "Exited" <=> state[t] = "Exited"
    BY <1>1, <1>3, Zenon
  <2>2. UNCHANGED exit_queue
    BY <1>2, ZenonT(60)
  <2>3. QED
    BY <1>1, <2>1, <2>2, SwitchKeepsPlaces, Zenon
<1>6. BlockedTasksReachable'
  <2>1. ASSUME NEW t \in Task, state'[t] = "Blocked"
        PROVE  \/ \E s \in sleepers' : s[2] = t /\ block_reason'[t] = <<"SleepUntil", s[1]>>
               \/ \E q \in WaitQueues : \E i \in DOMAIN waiters[q] :
                     waiters[q][i] = t /\ block_reason'[t] = <<"WaitQueue", q>>
    <3>1. CASE t = current
      <4>1. <<deadline, current>> \in sleepers' /\ block_reason'[t] = <<"SleepUntil", deadline>>
        BY <1>1, <1>2, <3>1, ZenonT(60) DEF SchedulerInv, TypeOK
      <4>2. QED
        BY <3>1, <4>1, Zenon
    <3>2. CASE t # current
      <4>1. state[t] = "Blocked" /\ block_reason'[t] = block_reason[t]
        BY <1>1, <1>2, <2>1, <3>2, ZenonT(60) DEF SchedulerInv, TypeOK
      <4>2. QED
        BY <1>2, <4>1, SMTT(60) DEF SchedulerInv, BlockedTasksReachable
    <3>3. QED
      BY <3>1, <3>2, Zenon
  <2>2. \A q \in WaitQueues : \A i \in DOMAIN waiters[q] :
          /\ waiters[q][i] \in Task /\ waiters[q][i] # current
          /\ state'[waiters[q][i]] = "Blocked"
          /\ block_reason'[waiters[q][i]] = block_reason[waiters[q][i]]
    BY <1>1, <1>2, <1>3, WaitersAreTasks, ZenonT(60) DEF SchedulerInv, TypeOK, BlockedTasksReachable
  <2>3. QED
    BY <1>2, <2>1, <2>2, SMTT(60) DEF SchedulerInv, BlockedTasksReachable
<1>7. RoomForAll'
  BY <1>1, <1>2, RoomIsKept, Zenon
<1>8. QED
  BY <1>4, <1>5, <1>6, <1>7, Zenon DEF SchedulerInv

\* The running task joins a wait queue.
LEMMA BlockStep ==
    ASSUME SchedulerInv, NEW now, NEW q \in WaitQueues, Block(q, now)
    PROVE  SchedulerInv'
<1>1. /\ current \in Task
      /\ OneRuns([state EXCEPT ![current] = "Blocked"], run_queue)
      /\ state' \in [Task -> States] /\ current' \in Task
      /\ \A t \in Task : state'[t] = "Running" <=> t = current'
      /\ \A t \in Task : state'[t] = "Blocked" <=> t = current \/ state[t] = "Blocked"
      /\ \A t \in Task : state'[t] = "Exited" <=> t # current /\ state[t] = "Exited"
      /\ \A t \in Task : state[t] = "Absent" => state'[t] = "Absent"
  BY StopMoves, Zenon DEF Block
<1>2. /\ block_reason' = [block_reason EXCEPT ![current] = <<"WaitQueue", q>>]
      /\ waiters' = [waiters EXCEPT ![q] = Append(waiters[q], current)]
      /\ UNCHANGED <<exit_queue, next_task_id, sleepers, capacity, ticks, renices>>
  BY Zenon DEF Block
<1>3. state[current] = "Running"
  BY <1>1, Zenon DEF SchedulerInv, OnePlacePerTask
<1>4. TypeOK' /\ FreshContext'
  <2>1. waiters' \in [WaitQueues -> Seq(Task)]
    BY <1>1, <1>2 DEF SchedulerInv, TypeOK
  <2>2. block_reason' \in [Task -> BlockReason]
    BY <1>1, <1>2, ZenonT(60) DEF SchedulerInv, TypeOK, BlockReason
  <2>3. QED
    BY <1>1, <1>2, <2>1, <2>2, ZenonT(60) DEF OneRuns, SchedulerInv, TypeOK
<1>5. OnePlacePerTask'
  <2>1. \A t \in Task : state'[t] = "Exited" <=> state[t] = "Exited"
    BY <1>1, <1>3, Zenon
  <2>2. UNCHANGED exit_queue
    BY <1>2, Zenon
  <2>3. QED
    BY <1>1, <2>1, <2>2, SwitchKeepsPlaces, Zenon
<1>6. BlockedTasksReachable'
  <2> DEFINE last == Len(waiters[q]) + 1
  <2>1. /\ DOMAIN waiters'[q] = DOMAIN waiters[q] \cup {last}
        /\ \A i \in DOMAIN waiters[q] : waiters'[q][i] = waiters[q][i]
        /\ waiters'[q][last] = current
    <3>1. waiters[q] \in Seq(Task) /\ waiters'[q] = Append(waiters[q], current)
      BY <1>1, <1>2, Zenon DEF SchedulerInv, TypeOK
    <3>2. DOMAIN waiters[q] = 1..Len(waiters[q]) /\ Len(waiters[q]) \in Nat
      BY <3>1
    <3>3. DOMAIN waiters'[q] = 1..(Len(waiters[q]) + 1)
      BY <3>1
    <3> QED
      BY <3>1, <3>2, <3>3, SMTT(60)
  <2> HIDE DEF last
  <2>2. \A p \in WaitQueues \ {q} : waiters'[p] = waiters[p]
    BY <1>2, Zenon DEF SchedulerInv, TypeOK
  <2>3. \A p \in WaitQueues : \A i \in DOMAIN waiters[p] :
          /\ waiters[p][i] \in Task /\ waiters[p][i] # current
          /\ state'[waiters[p][i]] = "Blocked"
          /\ block_reason'[waiters[p][i]] = <<"WaitQueue", p>>
    BY <1>1, <1>2, <1>3, WaitersAreTasks, ZenonT(60) DEF SchedulerInv, TypeOK, BlockedTasksReachable
  <2>4. block_reason'[current] = <<"WaitQueue", q>> /\ state'[current] = "Blocked"
    BY <1>1, <1>2, Zenon DEF SchedulerInv, TypeOK
  <2>5. ASSUME NEW t \in Task, state'[t] = "Blocked"
        PROVE  \/ \E s \in sleepers' : s[2] = t /\ block_reason'[t] = <<"SleepUntil", s[1]>>
               \/ \E p \in WaitQueues : \E i \in DOMAIN waiters'[p] :
                     waiters'[p][i] = t /\ block_reason'[t] = <<"WaitQueue", p>>
    <3>1. CASE t = current
      BY <2>1, <2>4, <3>1, Zenon
    <3>2. CASE t # current
      <4>1. state[t] = "Blocked" /\ block_reason'[t] = block_reason[t]
        BY <1>1, <1>2, <2>5, <3>2, Zenon DEF SchedulerInv, TypeOK
      <4>2. CASE \E s \in sleepers : s[2] = t /\ block_reason[t] = <<"SleepUntil", s[1]>>
        BY <1>2, <4>1, <4>2, Zenon
      <4>3. CASE \E p \in WaitQueues : \E i \in DOMAIN waiters[p] :
                   waiters[p][i] = t /\ block_reason[t] = <<"WaitQueue", p>>
        <5> PICK p \in WaitQueues : \E i \in DOMAIN waiters[p] :
                waiters[p][i] = t /\ block_reason[t] = <<"WaitQueue", p>>
          BY <4>3, Zenon
        <5>1. PICK i \in DOMAIN waiters[p] :
                waiters[p][i] = t /\ block_reason[t] = <<"WaitQueue", p>>
          BY Zenon
        <5>2. i \in DOMAIN waiters'[p] /\ waiters'[p][i] = t
          BY <2>1, <2>2, <5>1, Zenon
        <5>3. QED
          BY <4>1, <5>1, <5>2, Zenon
      <4>4. QED
        BY <4>1, <4>2, <4>3, Zenon DEF SchedulerInv, BlockedTasksReachable
    <3>3. QED
      BY <3>1, <3>2, Zenon
  <2>6. ASSUME NEW p \in WaitQueues, NEW i \in DOMAIN waiters'[p]
        PROVE  /\ state'[waiters'[p][i]] = "Blocked"
               /\ block_reason'[waiters'[p][i]] = <<"WaitQueue", p>>
               /\ \A j \in DOMAIN waiters'[p] : waiters'[p][j] = waiters'[p][i] => j = i
    <3>1. \A j \in DOMAIN waiters[p] : \A k \in DOMAIN waiters[p] :
             waiters[p][j] = waiters[p][k] => j = k
      BY Zenon DEF SchedulerInv, BlockedTasksReachable
    <3>2. CASE p = q
      BY <2>1, <2>3, <2>4, <3>1, <3>2, SMTT(30)
    <3>3. CASE p # q
      BY <2>2, <2>3, <3>1, <3>3, SMTT(60)
    <3>4. QED
      BY <3>2, <3>3, Zenon
  <2>7. QED
    BY <2>5, <2>6, Zenon DEF BlockedTasksReachable
<1>7. RoomForAll'
  BY <1>1, <1>2, RoomIsKept, Zenon
<1>8. QED
  BY <1>4, <1>5, <1>6, <1>7, ZenonT(60) DEF SchedulerInv

\* The running task exits: it is in the exit queue, once.
LEMMA ExitStep ==
    ASSUME SchedulerInv, NEW now, Exit(now)
    PROVE  SchedulerInv'
<1>1. /\ current \in Task
      /\ OneRuns([state EXCEPT ![current] = "Exited"], run_queue)
      /\ state' \in [Task -> States] /\ current' \in Task
      /\ \A t \in Task : state'[t] = "Running" <=> t = current'
      /\ \A t \in Task : state'[t] = "Blocked" <=> t # current /\ state[t] = "Blocked"
      /\ \A t \in Task : state'[t] = "Exited" <=> t = current \/ state[t] = "Exited"
      /\ \A t \in Task : state[t] = "Absent" => state'[t] = "Absent"
  BY StopMoves, Zenon DEF Exit
<1>2. /\ exit_queue' = Append(exit_queue, current)
      /\ UNCHANGED <<next_task_id, sleepers, waiters, block_reason, capacity, ticks, renices>>
  BY Zenon DEF Exit
<1>3. state[current] = "Running"
  BY <1>1, Zenon DEF SchedulerInv, OnePlacePerTask
<1>4. TypeOK' /\ FreshContext'
  <2>1. exit_queue' \in Seq(Task)
    BY <1>1, <1>2 DEF SchedulerInv, TypeOK
  <2>2. QED
    BY <1>1, <1>2, <2>1, ZenonT(60) DEF OneRuns, SchedulerInv, TypeOK
<1>5. OnePlacePerTask'
  <2> DEFINE last == Len(exit_queue) + 1
  <2>1. /\ DOMAIN exit_queue' = DOMAIN exit_queue \cup {last}
        /\ \A i \in DOMAIN exit_queue : exit_queue'[i] = exit_queue[i]
        /\ exit_queue'[last] = current
    BY <1>1, <1>2, SMTT(30) DEF SchedulerInv, TypeOK
  <2> HIDE DEF last
  <2>2. \A i \in DOMAIN exit_queue : exit_queue[i] # current
    BY <1>1, <1>3, ZenonT(60) DEF SchedulerInv, OnePlacePerTask
  <2>3. \A t \in Task :
          state'[t] = "Exited" <=> \E i \in DOMAIN exit_queue' : exit_queue'[i] = t
    BY <1>1, <2>1 DEF SchedulerInv, OnePlacePerTask
  <2>4. \A i, j \in DOMAIN exit_queue' : exit_queue'[i] = exit_queue'[j] => i = j
    BY <2>1, <2>2, ZenonT(60) DEF SchedulerInv, OnePlacePerTask
  <2>5. QED
    BY <1>1, <2>3, <2>4, ZenonT(60) DEF OneRuns, OnePlacePerTask
<1>6. BlockedTasksReachable'
  <2>1. \A t \in Task : state'[t] = "Blocked" <=> state[t] = "Blocked"
    BY <1>1, <1>3, Zenon
  <2>2. QED
    BY <1>2, <2>1, ReachIsKept, Zenon
<1>7. RoomForAll'
  BY <1>1, <1>2, RoomIsKept, Zenon
<1>8. QED
  BY <1>4, <1>5, <1>6, <1>7, Zenon DEF SchedulerInv

\* A new task is queued, and room is reserved for it.
LEMMA SpawnStep ==
    ASSUME SchedulerInv, Spawn
    PROVE  SchedulerInv'
<1> DEFINE t == next_task_id
<1>1. /\ t \in Task /\ state' = [state EXCEPT ![t] = "Ready"]
      /\ run_queue' = Push(run_queue, t)
      /\ saved' = [saved EXCEPT ![t] = "Voluntary"]
      /\ resume_kind' = [resume_kind EXCEPT ![t] = "Voluntary"]
      /\ next_task_id' = t + 1
      /\ UNCHANGED <<exit_queue, current, sleepers, waiters, block_reason, ticks, renices>>
  BY Zenon DEF Spawn
<1>2. capacity' = Reserved(Cardinality(Live'))
  BY Zenon DEF Spawn, Live
<1>3. state[t] = "Absent" /\ t # idle /\ t \in Nat
  BY <1>1, SMTT(60) DEF SchedulerInv, TypeOK, RoomForAll, idle, Task
<1>4. TypeOK'
  <2>1. /\ state' \in [Task -> States] /\ run_queue' \in [Task -> Nat]
        /\ resume_kind' \in [Task -> {"Voluntary", "Interrupt"}]
        /\ saved' \in [Task -> {"Voluntary", "Interrupt", "Stale"}]
    BY <1>1, SMTT(60) DEF SchedulerInv, TypeOK, States, Push
  <2>2. next_task_id' \in 2..(MaxTaskId + 1)
    BY <1>1, SchedulerAssumption DEF SchedulerInv, TypeOK, Task
  <2>3. capacity' \in Nat
    <3>1. Cardinality(Live') \in Nat
      BY TasksAreFinite, Zenon DEF Live
    <3>2. QED
      BY <1>2, <3>1, Zenon DEF Reserved, SchedulerInv, TypeOK
  <2>4. QED
    BY <1>1, <2>1, <2>2, <2>3, SMTT(30) DEF SchedulerInv, TypeOK
<1>5. OnePlacePerTask'
  <2>1. \A u \in Task : run_queue'[u] = IF state'[u] = "Ready" /\ u # idle THEN 1 ELSE 0
    BY <1>1, <1>3, SMTT(60) DEF SchedulerInv, TypeOK, OnePlacePerTask, Push
  <2>2. \A u \in Task : /\ state'[u] = "Running" <=> state[u] = "Running"
                        /\ state'[u] = "Exited" <=> state[u] = "Exited"
    BY <1>1, <1>3, Zenon DEF SchedulerInv, TypeOK
  <2>3. state'[idle] = state[idle]
    BY <1>1, <1>3, IdleIsTask, Zenon DEF SchedulerInv, TypeOK
  <2>4. QED
    BY <1>1, <2>1, <2>2, <2>3, SMTT(60) DEF SchedulerInv, OnePlacePerTask
<1>6. BlockedTasksReachable'
  <2>1. \A u \in Task : state'[u] = "Blocked" <=> state[u] = "Blocked"
    BY <1>1, <1>3, Zenon DEF SchedulerInv, TypeOK
  <2>2. QED
    BY <1>1, <2>1, ReachIsKept, Zenon
<1>7. FreshContext'
  BY <1>1, <1>3, Zenon DEF SchedulerInv, TypeOK, FreshContext
<1>8. RoomForAll'
  <2>1. \A u \in Task : u >= next_task_id' => state'[u] = "Absent"
    BY <1>1, <1>3, SMTT(60) DEF SchedulerInv, TypeOK, RoomForAll, Task
  <2>2. Cardinality(Live') \in Nat
    BY TasksAreFinite, Zenon DEF Live
  <2>3. Cardinality(Live') <= capacity'
    BY <1>2, <2>2, SMTT(60) DEF Reserved, SchedulerInv, TypeOK
  <2>4. QED
    BY <2>1, <2>3, Zenon DEF RoomForAll
<1>9. QED
  BY <1>4, <1>5, <1>6, <1>7, <1>8, Zenon DEF SchedulerInv

\* The task at the head of the exit queue is gone.
LEMMA ReapStep ==
    ASSUME SchedulerInv, ReapOne
    PROVE  SchedulerInv'
<1> DEFINE t == Head(exit_queue)
<1>1. /\ exit_queue # <<>> /\ exit_queue' = Tail(exit_queue)
      /\ state' = [state EXCEPT ![t] = "Absent"]
      /\ resume_kind' = [resume_kind EXCEPT ![t] = "Voluntary"]
      /\ saved' = [saved EXCEPT ![t] = "Stale"]
      /\ UNCHANGED <<run_queue, current, next_task_id, sleepers, waiters, block_reason,
                     capacity, ticks, renices>>
  BY Zenon DEF ReapOne
<1>2. /\ t \in Task /\ 1 \in DOMAIN exit_queue /\ exit_queue[1] = t
      /\ DOMAIN exit_queue = 1..Len(exit_queue) /\ Len(exit_queue) \in Nat
      /\ exit_queue' \in Seq(Task)
      /\ DOMAIN exit_queue' = 1..(Len(exit_queue) - 1)
      /\ \A i \in DOMAIN exit_queue' : exit_queue'[i] = exit_queue[i + 1]
  BY <1>1, SMTT(60) DEF SchedulerInv, TypeOK
<1> HIDE DEF t
<1>3. state[t] = "Exited" /\ t # idle
  BY <1>2, Zenon DEF SchedulerInv, OnePlacePerTask
<1>4. TypeOK'
  BY <1>1, <1>2, ZenonT(60) DEF SchedulerInv, TypeOK, States
<1>5. OnePlacePerTask'
  <2>1. \A u \in Task : run_queue'[u] = IF state'[u] = "Ready" /\ u # idle THEN 1 ELSE 0
    BY <1>1, <1>2, <1>3, SMTT(60) DEF SchedulerInv, TypeOK, OnePlacePerTask
  <2>2. \A u \in Task : /\ state'[u] = "Running" <=> state[u] = "Running"
                        /\ state'[u] = "Exited" <=> state[u] = "Exited" /\ u # t
    BY <1>1, <1>2, <1>3, Zenon DEF SchedulerInv, TypeOK
  <2>3. state'[idle] = state[idle]
    BY <1>1, <1>3, IdleIsTask, Zenon DEF SchedulerInv, TypeOK
  <2>4. \A i, j \in DOMAIN exit_queue : exit_queue[i] = exit_queue[j] => i = j
    BY Zenon DEF SchedulerInv, OnePlacePerTask
  <2>5. \A i, j \in DOMAIN exit_queue' : exit_queue'[i] = exit_queue'[j] => i = j
    BY <1>2, <2>4, SMTT(60)
  <2>6. ASSUME NEW u \in Task, state'[u] = "Exited"
        PROVE  \E i \in DOMAIN exit_queue' : exit_queue'[i] = u
    <3>1. PICK i \in DOMAIN exit_queue : exit_queue[i] = u
      BY <2>2, <2>6, Zenon DEF SchedulerInv, OnePlacePerTask
    <3>2. i # 1 /\ i \in 1..Len(exit_queue)
      BY <1>2, <2>2, <2>6, <3>1, ZenonT(60)
    <3>3. i - 1 \in DOMAIN exit_queue' /\ (i - 1) + 1 = i
      BY <1>2, <3>2
    <3>4. \A k \in DOMAIN exit_queue' : exit_queue'[k] = exit_queue[k + 1]
      BY <1>2, Zenon
    <3>5. exit_queue'[i - 1] = exit_queue[(i - 1) + 1]
      BY <3>3, <3>4, Zenon
    <3>6. QED
      BY <3>1, <3>3, <3>5, Zenon
  <2>7. ASSUME NEW i \in DOMAIN exit_queue'
        PROVE  exit_queue'[i] \in Task /\ state'[exit_queue'[i]] = "Exited"
    <3>1. i + 1 \in DOMAIN exit_queue /\ i + 1 # 1
      BY <1>2
    <3>2. exit_queue'[i] = exit_queue[i + 1]
      BY <1>2, Zenon
    <3>3. exit_queue[i + 1] \in Task
      BY <3>1 DEF SchedulerInv, TypeOK
    <3>4. exit_queue[i + 1] # t
      BY <1>2, <2>4, <3>1, Zenon
    <3>5. QED
      BY <2>2, <3>1, <3>2, <3>3, <3>4, ZenonT(60) DEF SchedulerInv, OnePlacePerTask
  <2>8. QED
    BY <1>1, <2>1, <2>2, <2>3, <2>5, <2>6, <2>7, SMTT(30) DEF SchedulerInv, OnePlacePerTask
<1>6. BlockedTasksReachable'
  <2>1. \A u \in Task : state'[u] = "Blocked" <=> state[u] = "Blocked"
    BY <1>1, <1>2, <1>3, Zenon DEF SchedulerInv, TypeOK
  <2>2. QED
    BY <1>1, <2>1, ReachIsKept, Zenon
<1>7. FreshContext'
  BY <1>1, <1>2, Zenon DEF SchedulerInv, TypeOK, FreshContext
<1>8. RoomForAll'
  <2>1. \A u \in Task : state[u] = "Absent" => state'[u] = "Absent"
    BY <1>1, <1>2, ZenonT(60) DEF SchedulerInv, TypeOK
  <2>2. QED
    BY <1>1, <1>4, <2>1, RoomIsKept, Zenon DEF TypeOK
<1>9. QED
  BY <1>4, <1>5, <1>6, <1>7, <1>8, ZenonT(60) DEF SchedulerInv

---------------------------------------------------------------------------
(* Waking *)

\* v is w without the tasks of ws: the others stay, each once.
LosesOnly(w, v, ws) ==
    /\ \A i \in DOMAIN v : v[i] \notin ws /\ \E j \in DOMAIN w : w[j] = v[i]
    /\ \A i, j \in DOMAIN v : v[i] = v[j] => i = j
    /\ \A j \in DOMAIN w : w[j] \in ws \/ \E i \in DOMAIN v : v[i] = w[j]

\* What a wake-up of the blocked tasks ws does to the wait queues.
QueuesLoseOnly(ws) ==
    /\ waiters' \in [WaitQueues -> Seq(Task)]
    /\ \A q \in WaitQueues : LosesOnly(waiters[q], waiters'[q], ws)

\* What it does to the sleepers: only entries of tasks it wakes, and stale ones, go.
SleepersLoseOnly(ws) ==
    /\ sleepers' \subseteq sleepers
    /\ \A s \in sleepers : StillSleeping(s) /\ s[2] \notin ws => s \in sleepers'

\* The structure after ws were made ready.
Woke(ws) ==
    /\ ws \subseteq {t \in Task : state[t] = "Blocked"}
    /\ QueuesLoseOnly(ws) /\ SleepersLoseOnly(ws)

\* The woken tasks are ready and queued; nobody else is touched.
LEMMA ReadiedPlaces ==
    ASSUME SchedulerInv, NEW ws \in SUBSET {t \in Task : state[t] = "Blocked"}
    PROVE  /\ Readied(ws) \in [Task -> States] /\ Enqueued(ws) \in [Task -> Nat]
           /\ Unblocked(ws) \in [Task -> BlockReason]
           /\ \A t \in Task : Readied(ws)[t] = IF t \in ws THEN "Ready" ELSE state[t]
           /\ \A t \in Task : Unblocked(ws)[t] = IF t \in ws THEN <<>> ELSE block_reason[t]
           /\ \A t \in Task :
                Enqueued(ws)[t] = IF Readied(ws)[t] = "Ready" /\ t # idle THEN 1 ELSE 0
           /\ \A t \in Task : Readied(ws)[t] = "Running" <=> t = current
           /\ \A t \in Task : Readied(ws)[t] = "Exited" <=> state[t] = "Exited"
           /\ \A t \in Task : Readied(ws)[t] = "Absent" <=> state[t] = "Absent"
           /\ Readied(ws)[idle] = state[idle]
           /\ \A t \in Task : Readied(ws)[t] \in {"Ready", "Blocked"} => saved[t] = resume_kind[t]
<1>1. Readied(ws) \in [Task -> States] /\ Enqueued(ws) \in [Task -> Nat]
  BY DEF Readied, Enqueued, SchedulerInv, TypeOK, States
<1>2. Unblocked(ws) \in [Task -> BlockReason]
  BY Zenon DEF Unblocked, SchedulerInv, TypeOK, BlockReason
<1>3. \A t \in Task : Readied(ws)[t] = IF t \in ws THEN "Ready" ELSE state[t]
  BY Zenon DEF Readied
<1>4. \A t \in Task : Unblocked(ws)[t] = IF t \in ws THEN <<>> ELSE block_reason[t]
  BY Zenon DEF Unblocked
<1>5. idle \notin ws
  BY Zenon DEF SchedulerInv, OnePlacePerTask
<1>6. \A t \in Task : Enqueued(ws)[t] = IF Readied(ws)[t] = "Ready" /\ t # idle THEN 1 ELSE 0
  BY <1>3, <1>5, SMTT(60) DEF Enqueued, SchedulerInv, OnePlacePerTask
<1>7. QED
  BY <1>1, <1>2, <1>3, <1>4, <1>5, <1>6, IdleIsTask, SMTT(30)
  DEF SchedulerInv, OnePlacePerTask, FreshContext

\* Whoever is still blocked can still be reached.
LEMMA WakingKeepsReach ==
    ASSUME SchedulerInv, NEW ws, Woke(ws), state' \in [Task -> States],
           \A t \in Task : state'[t] = "Blocked" <=> state[t] = "Blocked" /\ t \notin ws,
           block_reason' = Unblocked(ws)
    PROVE  BlockedTasksReachable'
<1>1. \A t \in Task \ ws : block_reason'[t] = block_reason[t]
  BY Zenon DEF Unblocked
<1>2. ASSUME NEW t \in Task, state'[t] = "Blocked"
      PROVE  \/ \E s \in sleepers' : s[2] = t /\ block_reason'[t] = <<"SleepUntil", s[1]>>
             \/ \E p \in WaitQueues : \E i \in DOMAIN waiters'[p] :
                   waiters'[p][i] = t /\ block_reason'[t] = <<"WaitQueue", p>>
  <2>1. t \notin ws /\ state[t] = "Blocked" /\ block_reason'[t] = block_reason[t]
    BY <1>1, <1>2, Zenon
  <2>2. CASE \E s \in sleepers : s[2] = t /\ block_reason[t] = <<"SleepUntil", s[1]>>
    <3>1. PICK s \in sleepers : s[2] = t /\ block_reason[t] = <<"SleepUntil", s[1]>>
      BY <2>2, Zenon
    <3>2. StillSleeping(s) /\ s[2] \notin ws
      BY <2>1, <3>1, Zenon DEF StillSleeping
    <3>3. s \in sleepers'
      BY <3>2, Zenon DEF Woke, SleepersLoseOnly
    <3>4. QED
      BY <2>1, <3>1, <3>3, ZenonT(60)
  <2>3. CASE \E p \in WaitQueues : \E i \in DOMAIN waiters[p] :
               waiters[p][i] = t /\ block_reason[t] = <<"WaitQueue", p>>
    <3> PICK p \in WaitQueues : \E i \in DOMAIN waiters[p] :
               waiters[p][i] = t /\ block_reason[t] = <<"WaitQueue", p>>
      BY <2>3, Zenon
    <3>1. PICK j \in DOMAIN waiters[p] : waiters[p][j] = t /\ block_reason[t] = <<"WaitQueue", p>>
      BY ZenonT(60)
    <3>2. \E i \in DOMAIN waiters'[p] : waiters'[p][i] = t
      BY <2>1, <3>1, SMTT(60) DEF Woke, QueuesLoseOnly, LosesOnly
    <3>3. QED
      BY <2>1, <3>1, <3>2, ZenonT(60)
  <2>4. QED
    BY <2>1, <2>2, <2>3, Zenon DEF SchedulerInv, BlockedTasksReachable
<1>3. ASSUME NEW p \in WaitQueues, NEW i \in DOMAIN waiters'[p]
      PROVE  /\ state'[waiters'[p][i]] = "Blocked"
             /\ block_reason'[waiters'[p][i]] = <<"WaitQueue", p>>
  <2>1. PICK j \in DOMAIN waiters[p] : waiters[p][j] = waiters'[p][i]
    BY Zenon DEF Woke, QueuesLoseOnly, LosesOnly
  <2>2. /\ waiters[p][j] \in Task \ ws /\ state[waiters[p][j]] = "Blocked"
        /\ block_reason[waiters[p][j]] = <<"WaitQueue", p>>
    BY <2>1, WaitersAreTasks, ZenonT(60)
       DEF Woke, QueuesLoseOnly, LosesOnly, SchedulerInv, BlockedTasksReachable
  <2>3. QED
    BY <1>1, <2>1, <2>2, Zenon
<1>4. \A p \in WaitQueues : \A i, j \in DOMAIN waiters'[p] :
        waiters'[p][j] = waiters'[p][i] => j = i
  BY Zenon DEF Woke, QueuesLoseOnly, LosesOnly
<1>5. QED
  BY <1>2, <1>3, <1>4, SMTT(60) DEF BlockedTasksReachable

\* make_ready of the blocked tasks ws.
LEMMA ReadyStep ==
    ASSUME SchedulerInv, NEW ws, Woke(ws),
           state' = Readied(ws), run_queue' = Enqueued(ws), block_reason' = Unblocked(ws),
           ticks' \in 0..MaxTicks,
           UNCHANGED <<exit_queue, current, next_task_id, capacity, resume_kind, saved, renices>>
    PROVE  SchedulerInv'
<1>1. ws \in SUBSET {t \in Task : state[t] = "Blocked"}
  BY ZenonT(60) DEF Woke
<1>2. /\ state' \in [Task -> States] /\ run_queue' \in [Task -> Nat]
      /\ block_reason' \in [Task -> BlockReason]
      /\ \A t \in Task : state'[t] = IF t \in ws THEN "Ready" ELSE state[t]
      /\ \A t \in Task : run_queue'[t] = IF state'[t] = "Ready" /\ t # idle THEN 1 ELSE 0
      /\ \A t \in Task : state'[t] = "Running" <=> t = current
      /\ \A t \in Task : state'[t] = "Exited" <=> state[t] = "Exited"
      /\ \A t \in Task : state'[t] = "Absent" <=> state[t] = "Absent"
      /\ state'[idle] = state[idle]
      /\ \A t \in Task : state'[t] \in {"Ready", "Blocked"} => saved[t] = resume_kind[t]
  BY <1>1, ReadiedPlaces, SMTT(60)
<1>3. TypeOK'
  <2>1. waiters' \in [WaitQueues -> Seq(Task)] /\ sleepers' \subseteq sleepers
    BY Zenon DEF Woke, QueuesLoseOnly, SleepersLoseOnly
  <2>2. sleepers' \subseteq (0..MaxTicks) \X Task
    BY <2>1, Zenon DEF SchedulerInv, TypeOK
  <2>3. QED
    BY <1>2, <2>1, <2>2, SMTT(30) DEF SchedulerInv, TypeOK
<1>4. OnePlacePerTask'
  BY <1>2 DEF SchedulerInv, OnePlacePerTask
<1>5. BlockedTasksReachable'
  <2>1. \A t \in Task : state'[t] = "Blocked" <=> state[t] = "Blocked" /\ t \notin ws
    BY <1>2, Zenon
  <2>2. QED
    BY <1>2, <2>1, WakingKeepsReach, Zenon
<1>6. FreshContext'
  BY <1>2, Zenon DEF FreshContext
<1>7. RoomForAll'
  BY <1>2, RoomIsKept, Zenon
<1>8. QED
  BY <1>3, <1>4, <1>5, <1>6, <1>7, Zenon DEF SchedulerInv

\* What make_ready of the tasks of a sequence leaves.
LEMMA MakeReadyKeeps ==
    ASSUME SchedulerInv, NEW w, MakeReady(w), Woke(Range(w))
    PROVE  SchedulerInv'
<1>1. ticks' \in 0..MaxTicks
  BY Zenon DEF MakeReady, SchedulerInv, TypeOK
<1>2. QED
  BY <1>1, ReadyStep, Zenon DEF MakeReady

\* The facts about a wait queue that the wake-ups use.
LEMMA QueueFacts ==
    ASSUME SchedulerInv, NEW q \in WaitQueues
    PROVE  /\ waiters[q] \in Seq(Task) /\ DOMAIN waiters[q] = 1..Len(waiters[q])
           /\ Len(waiters[q]) \in Nat
           /\ \A i \in 1..Len(waiters[q]) :
                waiters[q][i] \in Task /\ state[waiters[q][i]] = "Blocked"
           /\ \A i, j \in 1..Len(waiters[q]) : waiters[q][i] = waiters[q][j] => i = j
           /\ \A p \in WaitQueues, i \in 1..Len(waiters[q]) :
                p # q => \A j \in DOMAIN waiters[p] : waiters[p][j] # waiters[q][i]
<1>1. /\ waiters[q] \in Seq(Task) /\ DOMAIN waiters[q] = 1..Len(waiters[q])
      /\ Len(waiters[q]) \in Nat
  BY DEF SchedulerInv, TypeOK
<1>2. \A i \in 1..Len(waiters[q]) : waiters[q][i] \in Task /\ state[waiters[q][i]] = "Blocked"
  BY <1>1, WaitersAreTasks, ZenonT(60) DEF SchedulerInv, BlockedTasksReachable
<1>3. \A i, j \in 1..Len(waiters[q]) : waiters[q][i] = waiters[q][j] => i = j
  BY <1>1, SMTT(60) DEF SchedulerInv, BlockedTasksReachable
<1>4. ASSUME NEW p \in WaitQueues, NEW i \in 1..Len(waiters[q]), NEW j \in DOMAIN waiters[p],
             waiters[p][j] = waiters[q][i]
      PROVE  p = q
  <2>1. block_reason[waiters[q][i]] = <<"WaitQueue", q>>
    BY <1>1, Zenon DEF SchedulerInv, BlockedTasksReachable
  <2>2. block_reason[waiters[p][j]] = <<"WaitQueue", p>>
    BY Zenon DEF SchedulerInv, BlockedTasksReachable
  <2>3. QED
    BY <1>4, <2>1, <2>2, SMTT(60)
<1>5. QED
  BY <1>1, <1>2, <1>3, <1>4, ZenonT(60)

\* A queue of distinct tasks without its k-th: that task is gone, the others stay, once each.
LEMMA DropOne ==
    ASSUME NEW w \in Seq(Task), NEW v \in Seq(Task), NEW k \in 1..Len(w),
           \A i, j \in 1..Len(w) : w[i] = w[j] => i = j,
           Len(v) = Len(w) - 1,
           \A i \in 1..(Len(w) - 1) : v[i] = IF i < k THEN w[i] ELSE w[i + 1]
    PROVE  LosesOnly(w, v, {w[k]})
<1> DEFINE old(i) == IF i < k THEN i ELSE i + 1
<1>1. Len(w) \in Nat /\ Len(v) \in Nat /\ k \in Nat
  BY SMTT(60)
<1>2. \A i \in 1..Len(v) : old(i) \in 1..Len(w) /\ old(i) # k
  BY <1>1, SMTT(60)
<1>3. \A i, j \in 1..Len(v) : old(i) = old(j) => i = j
  BY <1>1, SMTT(60)
<1>4. \A i \in 1..Len(v) : v[i] = w[old(i)]
  BY <1>1, Zenon
<1>5. \A j \in 1..Len(w) : j # k => \E i \in 1..Len(v) : old(i) = j
  <2> TAKE j \in 1..Len(w)
  <2> HAVE j # k
  <2>1. CASE j < k
    <3>1. j \in 1..Len(v) /\ old(j) = j
      BY <1>1, <2>1
    <3>2. QED
      BY <3>1, Zenon
  <2>2. CASE j > k
    <3>1. j - 1 \in 1..Len(v) /\ old(j - 1) = j
      BY <1>1, <2>2, SMTT(60)
    <3>2. QED
      BY <3>1, Zenon
  <2>3. QED
    BY <1>1, <2>1, <2>2, SMTT(60)
<1>6. ASSUME NEW i \in 1..Len(v)
      PROVE  v[i] # w[k] /\ \E j \in 1..Len(w) : w[j] = v[i]
  <2>1. old(i) \in 1..Len(w) /\ old(i) # k /\ v[i] = w[old(i)]
    BY <1>2, <1>4, Zenon
  <2> HIDE DEF old
  <2>2. w[old(i)] # w[k]
    BY <2>1, Zenon
  <2>3. QED
    BY <2>1, <2>2, Zenon
<1>7. ASSUME NEW i \in 1..Len(v), NEW j \in 1..Len(v), v[i] = v[j]
      PROVE  i = j
  <2>1. /\ old(i) \in 1..Len(w) /\ old(j) \in 1..Len(w)
        /\ v[i] = w[old(i)] /\ v[j] = w[old(j)]
    BY <1>2, <1>4, Zenon
  <2>2. old(i) = old(j)
    <3> HIDE DEF old
    <3>1. QED
      BY <1>7, <2>1, Zenon
  <2>3. QED
    BY <1>3, <2>2, Zenon
<1>8. ASSUME NEW j \in 1..Len(w), w[j] # w[k]
      PROVE  \E i \in 1..Len(v) : v[i] = w[j]
  <2>1. PICK i \in 1..Len(v) : old(i) = j
    BY <1>5, <1>8, Zenon
  <2>2. v[i] = w[j]
    <3>1. v[i] = w[old(i)]
      BY <1>4, Zenon
    <3> HIDE DEF old
    <3>2. QED
      BY <2>1, <3>1, ZenonT(60)
  <2>3. QED
    BY <2>2, Zenon
<1>9. DOMAIN v = 1..Len(v) /\ DOMAIN w = 1..Len(w)
  OBVIOUS
<1>10. QED
  BY <1>6, <1>7, <1>8, <1>9, ZenonT(60) DEF LosesOnly

\* The wait queues when only q loses tasks, which wait in q.
LEMMA OneQueueLoses ==
    ASSUME SchedulerInv, NEW q \in WaitQueues, NEW v \in Seq(Task), NEW ws,
           waiters' = [waiters EXCEPT ![q] = v], LosesOnly(waiters[q], v, ws),
           \A t \in ws : \E i \in 1..Len(waiters[q]) : waiters[q][i] = t
    PROVE  QueuesLoseOnly(ws)
<1>1. /\ waiters' \in [WaitQueues -> Seq(Task)] /\ waiters'[q] = v
      /\ \A p \in WaitQueues \ {q} : waiters'[p] = waiters[p]
  BY Zenon DEF SchedulerInv, TypeOK
<1>2. ASSUME NEW p \in WaitQueues \ {q}
      PROVE  LosesOnly(waiters[p], waiters[p], ws)
  <2>1. \A i \in DOMAIN waiters[p] : waiters[p][i] \notin ws
    BY QueueFacts, SMTT(30)
  <2>2. \A i, j \in DOMAIN waiters[p] : waiters[p][i] = waiters[p][j] => i = j
    BY Zenon DEF SchedulerInv, BlockedTasksReachable
  <2>3. QED
    BY <2>1, <2>2, Zenon DEF LosesOnly
<1>3. \A p \in WaitQueues : LosesOnly(waiters[p], waiters'[p], ws)
  BY <1>1, <1>2, Zenon
<1>4. QED
  BY <1>1, <1>3, Zenon DEF QueuesLoseOnly

\* wake_one: the head of the queue was blocked, so it is what wakes.
LEMMA WakeOneStep ==
    ASSUME SchedulerInv, NEW q \in WaitQueues, WakeOne(q)
    PROVE  SchedulerInv'
<1> DEFINE w == waiters[q]
           v == Tail(w)
<1>1. /\ w # <<>> /\ waiters' = [waiters EXCEPT ![q] = v]
      /\ MakeReady(IF state[Head(w)] = "Blocked" THEN <<Head(w)>> ELSE <<>>)
  BY Zenon DEF WakeOne
<1>2. /\ w \in Seq(Task) /\ Len(w) \in Nat
      /\ \A i \in 1..Len(w) : w[i] \in Task /\ state[w[i]] = "Blocked"
      /\ \A i, j \in 1..Len(w) : w[i] = w[j] => i = j
  BY QueueFacts, Zenon
<1>3. /\ 1 \in 1..Len(w) /\ Head(w) = w[1] /\ v \in Seq(Task) /\ Len(v) = Len(w) - 1
      /\ \A i \in 1..(Len(w) - 1) : v[i] = IF i < 1 THEN w[i] ELSE w[i + 1]
  BY <1>1, <1>2, SMTT(60)
<1>4. MakeReady(<<w[1]>>) /\ Range(<<w[1]>>) = {w[1]}
  <2>1. Range(<<w[1]>>) = {w[1]}
    BY DEF Range
  <2>2. QED
    BY <1>1, <1>2, <1>3, <2>1, ZenonT(60)
<1> HIDE DEF w, v
<1>5. LosesOnly(w, v, {w[1]})
  BY <1>2, <1>3, DropOne, ZenonT(60)
<1>6. QueuesLoseOnly({w[1]})
  <2>1. \A t \in {w[1]} : \E i \in 1..Len(w) : w[i] = t
    BY <1>3, Zenon
  <2>2. QED
    BY <1>1, <1>3, <1>5, <2>1, OneQueueLoses, ZenonT(60) DEF w
<1>7. Woke({w[1]})
  <2>1. SleepersLoseOnly({w[1]})
    BY <1>4, Zenon DEF MakeReady, SleepersLoseOnly
  <2>2. QED
    BY <1>2, <1>3, <1>6, <2>1, Zenon DEF Woke
<1>8. QED
  BY <1>4, <1>7, MakeReadyKeeps, Zenon

\* wake_all: every task of the queue was blocked, so all of them wake.
LEMMA WakeAllStep ==
    ASSUME SchedulerInv, NEW q \in WaitQueues, WakeAll(q)
    PROVE  SchedulerInv'
<1> DEFINE w == waiters[q]
<1>1. PICK last \in 0..Len(w) :
        /\ last < Len(w) => ~ Wakes(w, last + 1)
        /\ MakeReady(SubSeq(w, 1, last))
        /\ waiters' = [waiters EXCEPT ![q] = SubSeq(w, last + 2, Len(w))]
  BY Zenon DEF WakeAll
<1>2. /\ w \in Seq(Task) /\ Len(w) \in Nat
      /\ \A i \in 1..Len(w) : w[i] \in Task /\ state[w[i]] = "Blocked"
      /\ \A i, j \in 1..Len(w) : w[i] = w[j] => i = j
  BY QueueFacts, ZenonT(60)
<1>3. \A k \in 1..Len(w) : Wakes(w, k)
  BY <1>2, SMTT(60) DEF Wakes
<1>4. last = Len(w)
  <2>1. last < Len(w) => last + 1 \in 1..Len(w)
    BY <1>2
  <2>2. ~ (last < Len(w))
    BY <1>1, <1>3, <2>1, ZenonT(60)
  <2>3. QED
    BY <1>2, <2>2, SMTT(60)
<1>5. SubSeq(w, 1, last) = w /\ SubSeq(w, last + 2, Len(w)) = <<>>
  BY <1>2, <1>4, SMTT(60)
<1>6. Range(w) = {w[i] : i \in 1..Len(w)}
  BY <1>2 DEF Range
<1>7. MakeReady(w) /\ waiters' = [waiters EXCEPT ![q] = <<>>]
  BY <1>1, <1>5, Zenon
<1> HIDE DEF w
<1>8. LosesOnly(w, <<>>, Range(w))
  <2> DEFINE none == <<>>
  <2>1. DOMAIN none = {} /\ \A j \in DOMAIN w : w[j] \in Range(w)
    BY <1>2 DEF Range
  <2> HIDE DEF none
  <2>2. LosesOnly(w, none, Range(w))
    BY <2>1, Zenon DEF LosesOnly
  <2>3. QED
    BY <2>2, Zenon DEF none
<1>9. QueuesLoseOnly(Range(w))
  <2>1. \A t \in Range(w) : \E i \in 1..Len(w) : w[i] = t
    BY <1>6, Zenon
  <2>2. <<>> \in Seq(Task)
    OBVIOUS
  <2>3. QED
    BY <1>7, <1>8, <2>1, <2>2, OneQueueLoses, ZenonT(60) DEF w
<1>10. Woke(Range(w))
  <2>1. SleepersLoseOnly(Range(w))
    BY <1>7, Zenon DEF MakeReady, SleepersLoseOnly
  <2>2. QED
    BY <1>2, <1>6, <1>9, <2>1, ZenonT(60) DEF Woke
<1>11. QED
  BY <1>7, <1>10, MakeReadyKeeps, Zenon

\* What is left of a queue when its k-th entry is removed.
Without(w, k) == SubSeq(w, 1, k - 1) \o SubSeq(w, k + 1, Len(w))

\* Removing an entry moves up the ones behind it.
LEMMA WithoutDrops ==
    ASSUME NEW w \in Seq(Task), NEW k \in 1..Len(w)
    PROVE  /\ Without(w, k) \in Seq(Task) /\ Len(Without(w, k)) = Len(w) - 1
           /\ \A i \in 1..(Len(w) - 1) : Without(w, k)[i] = IF i < k THEN w[i] ELSE w[i + 1]
<1> DEFINE front == SubSeq(w, 1, k - 1)
           back  == SubSeq(w, k + 1, Len(w))
<1>1. k \in Nat /\ Len(w) \in Nat /\ 1 <= k /\ k <= Len(w)
  BY SMTT(60)
<1>2. /\ front \in Seq(Task) /\ Len(front) = k - 1
      /\ \A i \in 1..(k - 1) : front[i] = w[i]
  BY <1>1
<1>3. /\ back \in Seq(Task) /\ Len(back) = Len(w) - k
      /\ \A i \in 1..(Len(w) - k) : back[i] = w[k + i]
  BY <1>1
<1> HIDE DEF front, back
<1>4. /\ front \o back \in Seq(Task) /\ Len(front \o back) = Len(w) - 1
      /\ \A i \in 1..(Len(w) - 1) :
           (front \o back)[i] = IF i <= k - 1 THEN front[i] ELSE back[i - (k - 1)]
  <2>1. /\ front \o back \in Seq(Task) /\ Len(front \o back) = Len(front) + Len(back)
        /\ \A i \in 1..(Len(front) + Len(back)) :
             (front \o back)[i] = IF i <= Len(front) THEN front[i] ELSE back[i - Len(front)]
    BY <1>2, <1>3, ConcatProperties, Zenon
  <2>2. Len(front) + Len(back) = Len(w) - 1
    BY <1>1, <1>2, <1>3, SMTT(60)
  <2>3. QED
    BY <1>2, <2>1, <2>2, Zenon
<1>5. \A i \in 1..(Len(w) - 1) : (front \o back)[i] = IF i < k THEN w[i] ELSE w[i + 1]
  <2> TAKE i \in 1..(Len(w) - 1)
  <2>1. CASE i < k
    BY <1>1, <1>2, <1>4, <2>1
  <2>2. CASE ~ (i < k)
    <3>1. i - (k - 1) \in 1..(Len(w) - k) /\ k + (i - (k - 1)) = i + 1 /\ ~ (i <= k - 1)
      BY <1>1, <2>2, SMTT(60)
    <3>2. back[i - (k - 1)] = w[k + (i - (k - 1))]
      BY <1>3, <3>1, Zenon
    <3>3. (front \o back)[i] = back[i - (k - 1)]
      BY <1>4, <3>1, Zenon
    <3>4. QED
      BY <2>2, <3>1, <3>2, <3>3, Zenon
  <2>3. QED
    BY <2>1, <2>2, Zenon
<1>6. Without(w, k) = front \o back
  BY Zenon DEF Without, front, back
<1>7. QED
  BY <1>4, <1>5, <1>6, ZenonT(60)

\* wake_task of a sleeper: it is in no wait queue, and its entry is stale from now on.
LEMMA WakeTaskStep ==
    ASSUME SchedulerInv, NEW t \in Task, WakeTask(t)
    PROVE  SchedulerInv'
<1>1. /\ state[t] = "Blocked" /\ block_reason[t][1] = "SleepUntil"
      /\ MakeReady(<<t>>) /\ waiters' = waiters
  BY Zenon DEF WakeTask
<1>2. Range(<<t>>) = {t}
  BY DEF Range
<1>3. \A q \in WaitQueues : LosesOnly(waiters[q], waiters[q], {t})
  <2> TAKE q \in WaitQueues
  <2>1. \A i \in DOMAIN waiters[q] : waiters[q][i] # t
    BY <1>1 DEF SchedulerInv, BlockedTasksReachable
  <2>2. \A i, j \in DOMAIN waiters[q] : waiters[q][i] = waiters[q][j] => i = j
    BY Zenon DEF SchedulerInv, BlockedTasksReachable
  <2>3. QED
    BY <2>1, <2>2, Zenon DEF LosesOnly
<1>4. QueuesLoseOnly({t})
  BY <1>1, <1>3, Zenon DEF QueuesLoseOnly, SchedulerInv, TypeOK
<1>5. SleepersLoseOnly({t})
  BY <1>1, Zenon DEF MakeReady, SleepersLoseOnly
<1>6. Woke({t})
  BY <1>1, <1>4, <1>5, Zenon DEF Woke
<1>7. QED
  BY <1>1, <1>2, <1>6, MakeReadyKeeps, Zenon

\* cancel_wait: the task leaves the queue it waits in.
LEMMA CancelWaitStep ==
    ASSUME SchedulerInv, NEW t \in Task, NEW q \in WaitQueues, CancelWait(t, q)
    PROVE  SchedulerInv'
<1> DEFINE w == waiters[q]
<1>1. state[t] = "Blocked" /\ MakeReady(<<t>>)
  BY Zenon DEF CancelWait
<1>2. PICK k \in 1..Len(w) : w[k] = t /\ waiters' = [waiters EXCEPT ![q] = Without(w, k)]
  BY Zenon DEF CancelWait, Without
<1>3. w \in Seq(Task) /\ \A i, j \in 1..Len(w) : w[i] = w[j] => i = j
  BY QueueFacts, Zenon
<1> DEFINE v == Without(w, k)
<1>4. /\ v \in Seq(Task) /\ Len(v) = Len(w) - 1
      /\ \A i \in 1..(Len(w) - 1) : v[i] = IF i < k THEN w[i] ELSE w[i + 1]
  BY <1>3, WithoutDrops, Zenon
<1>5. Range(<<t>>) = {t}
  BY DEF Range
<1> HIDE DEF w, v
<1>6. LosesOnly(w, v, {t})
  BY <1>2, <1>3, <1>4, DropOne, ZenonT(60)
<1>7. QueuesLoseOnly({t})
  <2>1. \A u \in {t} : \E i \in 1..Len(w) : w[i] = u
    BY <1>2, Zenon
  <2>2. waiters' = [waiters EXCEPT ![q] = v]
    BY <1>2, Zenon DEF v
  <2>3. QED
    BY <1>4, <1>6, <2>1, <2>2, OneQueueLoses, ZenonT(60) DEF w
<1>8. SleepersLoseOnly({t})
  BY <1>1, Zenon DEF MakeReady, SleepersLoseOnly
<1>9. Woke({t})
  BY <1>1, <1>7, <1>8, ZenonT(60) DEF Woke
<1>10. QED
  BY <1>1, <1>5, <1>9, MakeReadyKeeps, ZenonT(60)

\* A step that touches the accounting only.
LEMMA AccountingStep ==
    ASSUME SchedulerInv, renices' \in 0..MaxRenice,
           UNCHANGED <<state, run_queue, exit_queue, current, next_task_id, sleepers, waiters,
                       block_reason, capacity, resume_kind, saved, ticks>>
    PROVE  SchedulerInv'
<1>1. TypeOK'
  BY Zenon DEF SchedulerInv, TypeOK
<1>2. OnePlacePerTask'
  BY Zenon DEF SchedulerInv, OnePlacePerTask
<1>3. BlockedTasksReachable'
  BY ReachIsKept, Zenon
<1>4. FreshContext'
  BY Zenon DEF SchedulerInv, FreshContext
<1>5. RoomForAll'
  BY <1>1, RoomIsKept, Zenon DEF TypeOK
<1>6. QED
  BY <1>1, <1>2, <1>3, <1>4, <1>5, ZenonT(60) DEF SchedulerInv

\* set_nice is such a step.
LEMMA SetNiceStep ==
    ASSUME SchedulerInv, NEW t, NEW weight, SetNice(t, weight)
    PROVE  SchedulerInv'
<1>1. renices' \in 0..MaxRenice
  BY SchedulerAssumption, SMTT(30) DEF SetNice, SchedulerInv, TypeOK
<1>2. QED
  BY <1>1, AccountingStep, Zenon DEF SetNice

---------------------------------------------------------------------------
(* The timer interrupt *)

\* The tasks that a timer interrupt wakes.
Sleepless(tick) == {s[2] : s \in Expired(tick)}

\* wake_expired wakes tasks that were asleep, and drops no entry of a task that still is.
LEMMA ExpiredWake ==
    ASSUME SchedulerInv, waiters' = waiters, sleepers' = sleepers \ Due(ticks')
    PROVE  Woke(Sleepless(ticks'))
<1> DEFINE ws == Sleepless(ticks')
<1>1. \A t \in ws : \E s \in sleepers : s[2] = t /\ StillSleeping(s)
  BY Zenon DEF Sleepless, Expired, Due
<1>2. \A s \in sleepers : s[2] \in Task
  BY Zenon DEF SchedulerInv, TypeOK
<1>3. \A t \in ws : t \in Task /\ state[t] = "Blocked" /\ \E d : block_reason[t] = <<"SleepUntil", d>>
  BY <1>1, <1>2, SMTT(60) DEF StillSleeping
<1>4. \A s \in sleepers : StillSleeping(s) /\ s[2] \notin ws => s \in sleepers'
  BY Zenon DEF Sleepless, Expired
<1> HIDE DEF ws
<1>5. \A q \in WaitQueues : LosesOnly(waiters[q], waiters[q], ws)
  <2> TAKE q \in WaitQueues
  <2>1. \A i \in DOMAIN waiters[q] : waiters[q][i] \notin ws
    BY <1>3 DEF SchedulerInv, BlockedTasksReachable
  <2>2. \A i, j \in DOMAIN waiters[q] : waiters[q][i] = waiters[q][j] => i = j
    BY Zenon DEF SchedulerInv, BlockedTasksReachable
  <2>3. QED
    BY <2>1, <2>2, Zenon DEF LosesOnly
<1>6. QueuesLoseOnly(ws)
  BY <1>5, Zenon DEF QueuesLoseOnly, SchedulerInv, TypeOK
<1>7. SleepersLoseOnly(ws)
  BY <1>4, Zenon DEF SleepersLoseOnly
<1>8. Woke(ws)
  BY <1>3, <1>6, <1>7, ZenonT(60) DEF Woke
<1>9. QED
  BY <1>8, Zenon DEF ws

\* A tick that switches: the running task goes back to the queue, and one of the queued
\* tasks, the woken ones among them, runs.
LEMMA TimerSwitches ==
    ASSUME SchedulerInv, NEW a, NEW now, current \in Task, Woke(Sleepless(ticks')),
           Schedule(a, Readied(Sleepless(ticks')), Enqueued(Sleepless(ticks')),
                    Resume("Interrupt"), Save("Interrupt"), now)
    PROVE  OneRuns([Readied(Sleepless(ticks')) EXCEPT ![current] = "Ready"],
                   IF current = idle THEN Enqueued(Sleepless(ticks'))
                   ELSE Push(Enqueued(Sleepless(ticks')), current))
<1> DEFINE ws == Sleepless(ticks')
           st == [Readied(ws) EXCEPT ![current] = "Ready"]
           rq == IF current = idle THEN Enqueued(ws) ELSE Push(Enqueued(ws), current)
<1>1. ws \in SUBSET {t \in Task : state[t] = "Blocked"}
  BY Zenon DEF Woke
<1>2. TypeOK /\ Placed(Readied(ws), Enqueued(ws))
  <2> HIDE DEF ws
  <2>1. QED
    BY <1>1, ReadiedPlaces, ZenonT(60) DEF Placed, SchedulerInv, OnePlacePerTask
<1>3. NobodyRuns(st, rq, Resume("Interrupt"), Save("Interrupt"))
  BY <1>2, YieldingPoint, Zenon
<1>4. PICK b : SwitchToNext(b, st, rq, Resume("Interrupt"), Save("Interrupt"), now)
  BY ScheduleSwitches, Zenon
<1>5. QED
  BY <1>3, <1>4, SwitchRunsOne, Zenon

\* The timer interrupt, whether it switches or not.
LEMMA TimerStep ==
    ASSUME SchedulerInv, NEW now, Timer(now)
    PROVE  SchedulerInv'
<1> DEFINE ws == Sleepless(ticks')
<1>1. /\ current \in Task /\ ticks' \in 0..MaxTicks
      /\ sleepers' = sleepers \ Due(ticks')
      /\ UNCHANGED <<exit_queue, next_task_id, waiters, capacity, renices>>
  BY SchedulerAssumption, SMTT(30) DEF Timer, SchedulerInv, TypeOK
<1>2. Woke(ws)
  BY <1>1, ExpiredWake, Zenon
<1>3. block_reason' = Unblocked(ws)
  BY Zenon DEF Timer, Sleepless
<1>4. \/ \E a : Schedule(a, Readied(ws), Enqueued(ws), Resume("Interrupt"), Save("Interrupt"), now)
      \/ /\ state' = Readied(ws) /\ run_queue' = Enqueued(ws)
         /\ UNCHANGED <<current, resume_kind, saved>>
  BY Zenon DEF Timer, Sleepless
<1>5. CASE /\ state' = Readied(ws) /\ run_queue' = Enqueued(ws)
           /\ UNCHANGED <<current, resume_kind, saved>>
  <2> HIDE DEF ws
  <2>1. QED
    BY <1>1, <1>2, <1>3, <1>5, ReadyStep, SMTT(30)
<1>6. CASE \E a : Schedule(a, Readied(ws), Enqueued(ws), Resume("Interrupt"), Save("Interrupt"), now)
  <2> DEFINE st == [Readied(ws) EXCEPT ![current] = "Ready"]
             rq == IF current = idle THEN Enqueued(ws) ELSE Push(Enqueued(ws), current)
  <2>1. OneRuns(st, rq)
    BY <1>1, <1>2, <1>6, TimerSwitches, ZenonT(60)
  <2>2. ws \in SUBSET {t \in Task : state[t] = "Blocked"}
    BY <1>2, Zenon DEF Woke
  <2> HIDE DEF ws, rq
  <2>3. /\ Readied(ws) \in [Task -> States]
        /\ \A t \in Task : Readied(ws)[t] = IF t \in ws THEN "Ready" ELSE state[t]
        /\ \A t \in Task : Readied(ws)[t] = "Running" <=> t = current
        /\ \A t \in Task : Readied(ws)[t] = "Exited" <=> state[t] = "Exited"
        /\ \A t \in Task : Readied(ws)[t] = "Absent" <=> state[t] = "Absent"
        /\ Unblocked(ws) \in [Task -> BlockReason]
    BY <2>2, ReadiedPlaces, ZenonT(60)
  <2>4. state[current] = "Running"
    BY <1>1, Zenon DEF SchedulerInv, OnePlacePerTask
  <2>5. /\ st \in [Task -> States] /\ \A t \in Task : st[t] # "Running"
        /\ \A t \in Task : st[t] = "Blocked" <=> state[t] = "Blocked" /\ t \notin ws
        /\ \A t \in Task : st[t] = "Exited" <=> state[t] = "Exited"
        /\ \A t \in Task : st[t] = "Absent" <=> state[t] = "Absent"
    BY <1>1, <2>3, <2>4, ZenonT(60) DEF States
  <2> HIDE DEF st
  <2>6. /\ state' \in [Task -> States] /\ current' \in Task
        /\ \A t \in Task : state'[t] = "Running" <=> t = current'
        /\ \A t \in Task : state'[t] = "Blocked" <=> state[t] = "Blocked" /\ t \notin ws
        /\ \A t \in Task : state'[t] = "Exited" <=> state[t] = "Exited"
        /\ \A t \in Task : state'[t] = "Absent" <=> state[t] = "Absent"
    BY <2>1, <2>5, SwitchKeepsOthers, ZenonT(60)
  <2>7. TypeOK' /\ FreshContext'
    <3>1. sleepers' \subseteq (0..MaxTicks) \X Task
      BY <1>1, Zenon DEF SchedulerInv, TypeOK
    <3>2. QED
      BY <1>1, <1>3, <2>1, <2>3, <2>6, <3>1, SMTT(30) DEF OneRuns, SchedulerInv, TypeOK
  <2>8. OnePlacePerTask'
    BY <1>1, <2>1, <2>6, SwitchKeepsPlaces, Zenon
  <2>9. BlockedTasksReachable'
    BY <1>2, <1>3, <2>6, WakingKeepsReach, ZenonT(60)
  <2>10. RoomForAll'
    BY <1>1, <2>6, RoomIsKept, ZenonT(60)
  <2>11. QED
    BY <2>7, <2>8, <2>9, <2>10, SMTT(30) DEF SchedulerInv
<1>7. QED
  BY <1>4, <1>5, <1>6, ZenonT(60)

\* What a timer interrupt does: the tasks it takes out of their sleep are the expired ones,
\* and idle runs after it only when nothing is queued.
LEMMA TimerKeeps ==
    ASSUME SchedulerInv, NEW now, Timer(now)
    PROVE  /\ \A t \in Task : state[t] = "Blocked" /\ state'[t] # "Blocked"
                 => t \in Sleepless(ticks')
           /\ current' = idle => Queued(run_queue') = {}
<1> DEFINE ws == Sleepless(ticks')
<1>1. current \in Task /\ Woke(ws)
  <2>1. current \in Task /\ waiters' = waiters /\ sleepers' = sleepers \ Due(ticks')
    BY Zenon DEF Timer, SchedulerInv, TypeOK
  <2>2. QED
    BY <2>1, ExpiredWake, ZenonT(60)
<1>2. state[current] = "Running" /\ ws \in SUBSET {t \in Task : state[t] = "Blocked"}
  BY <1>1, Zenon DEF Woke, SchedulerInv, OnePlacePerTask
<1>3. \/ /\ Queued(Enqueued(ws)) # {}
         /\ \E a : Schedule(a, Readied(ws), Enqueued(ws), Resume("Interrupt"), Save("Interrupt"), now)
      \/ /\ state' = Readied(ws) /\ run_queue' = Enqueued(ws) /\ current' = current
         /\ \E a : ~(Queued(Enqueued(ws)) # {} /\ WantsSwitch(a, now))
  BY Zenon DEF Timer, Sleepless
<1>4. CASE /\ state' = Readied(ws) /\ run_queue' = Enqueued(ws) /\ current' = current
           /\ \E a : ~(Queued(Enqueued(ws)) # {} /\ WantsSwitch(a, now))
  <2>1. current' = idle => Queued(run_queue') = {}
    BY <1>4, Zenon DEF WantsSwitch
  <2>2. \A t \in Task : state'[t] = IF t \in ws THEN "Ready" ELSE state[t]
    BY <1>4, Zenon DEF Readied
  <2>3. QED
    BY <2>1, <2>2, ZenonT(60)
<1>5. CASE /\ Queued(Enqueued(ws)) # {}
           /\ \E a : Schedule(a, Readied(ws), Enqueued(ws), Resume("Interrupt"),
                              Save("Interrupt"), now)
  <2> DEFINE st == [Readied(ws) EXCEPT ![current] = "Ready"]
             rq == IF current = idle THEN Enqueued(ws) ELSE Push(Enqueued(ws), current)
  <2>1. OneRuns(st, rq)
    BY <1>1, <1>5, TimerSwitches, ZenonT(60)
  <2> HIDE DEF ws
  <2>2. Enqueued(ws) \in [Task -> Nat] /\ Readied(ws) \in [Task -> States]
        /\ \A t \in Task : Readied(ws)[t] = IF t \in ws THEN "Ready" ELSE state[t]
    BY <1>2, ReadiedPlaces, ZenonT(60)
  <2>3. Queued(Enqueued(ws)) \subseteq Queued(rq)
    BY <1>1, <2>2, SMTT(60) DEF Queued, Push
  <2>4. current' # idle
    BY <1>5, <2>1, <2>3, ZenonT(60) DEF OneRuns
  <2>5. \A t \in Task \ ws : state[t] = "Blocked" => st[t] = "Blocked"
    BY <1>1, <1>2, <2>2, Zenon
  <2> HIDE DEF st, rq
  <2>6. current' \in Task /\ st[current'] = "Ready" /\ state' = [st EXCEPT ![current'] = "Running"]
    BY <2>1, Zenon DEF OneRuns
  <2>7. st \in [Task -> States]
    BY <1>1, <2>2, Zenon DEF st, States
  <2>8. \A t \in Task \ ws : state[t] = "Blocked" => state'[t] = "Blocked"
    BY <2>5, <2>6, <2>7, ZenonT(60)
  <2>9. QED
    BY <2>4, <2>8, Zenon DEF ws
<1>6. QED
  BY <1>3, <1>4, <1>5, ZenonT(60)

---------------------------------------------------------------------------
(* The theorems *)

\* The first state.
LEMMA SchedulerInit == Init => SchedulerInv
<1> SUFFICES ASSUME Init PROVE SchedulerInv
  BY Zenon
<1>1. TypeOK
  BY SchedulerAssumption, IdleIsTask, SMTT(60)
     DEF Init, TypeOK, Task, idle, None, States, BlockReason
<1>2. OnePlacePerTask
  BY IdleIsTask, SMTT(60) DEF Init, OnePlacePerTask
<1>3. BlockedTasksReachable
  BY DEF Init, BlockedTasksReachable
<1>4. FreshContext
  BY Zenon DEF Init, FreshContext
<1>5. RoomForAll
  <2>1. Live = {idle}
    BY IdleIsTask, Zenon DEF Init, Live
  <2>2. Cardinality({idle}) = 1
    BY FS_Singleton, Zenon
  <2>3. \A t \in Task : t >= next_task_id => state[t] = "Absent"
    BY DEF Init, idle, Task
  <2>4. QED
    BY <2>1, <2>2, <2>3, SMTT(60) DEF Init, RoomForAll
<1>6. QED
  BY <1>1, <1>2, <1>3, <1>4, <1>5, ZenonT(60) DEF SchedulerInv

\* Every step keeps the invariant.
LEMMA SchedulerStep ==
    ASSUME SchedulerInv, [Next]_vars
    PROVE  SchedulerInv'
<1>1. CASE Spawn
  BY <1>1, SpawnStep, Zenon
<1>2. CASE ReapOne
  BY <1>2, ReapStep, Zenon
<1>3. ASSUME NEW now \in Now, StartFirstTask(now)
      PROVE  SchedulerInv'
  BY <1>3, StartStep, Zenon
<1>4. ASSUME NEW now \in Now, Yield(now)
      PROVE  SchedulerInv'
  BY <1>4, YieldStep, Zenon
<1>5. ASSUME NEW now \in Now, Exit(now)
      PROVE  SchedulerInv'
  BY <1>5, ExitStep, Zenon
<1>6. ASSUME NEW now \in Now, Timer(now)
      PROVE  SchedulerInv'
  BY <1>6, TimerStep, Zenon
<1>7. ASSUME NEW now \in Now, NEW deadline \in ticks..MaxTicks, Sleep(deadline, now)
      PROVE  SchedulerInv'
  BY <1>7, SleepStep, Zenon
<1>8. ASSUME NEW now \in Now, NEW q \in WaitQueues, Block(q, now)
      PROVE  SchedulerInv'
  BY <1>8, BlockStep, Zenon
<1>9. ASSUME NEW q \in WaitQueues, WakeOne(q) \/ WakeAll(q)
      PROVE  SchedulerInv'
  BY <1>9, WakeOneStep, WakeAllStep, ZenonT(60)
<1>10. ASSUME NEW t \in Task, WakeTask(t)
       PROVE  SchedulerInv'
  BY <1>10, WakeTaskStep, Zenon
<1>11. ASSUME NEW t \in Task, NEW q \in WaitQueues, CancelWait(t, q)
       PROVE  SchedulerInv'
  BY <1>11, CancelWaitStep, ZenonT(60)
<1>12. ASSUME NEW t \in Task \ {idle}, NEW w \in Weights, SetNice(t, w)
       PROVE  SchedulerInv'
  BY <1>12, SetNiceStep, Zenon
<1>13. CASE UNCHANGED vars
  <2>1. renices' \in 0..MaxRenice
    BY <1>13, Zenon DEF vars, SchedulerInv, TypeOK
  <2>2. QED
    BY <1>13, <2>1, AccountingStep, Zenon DEF vars
<1>14. QED
  BY <1>1, <1>2, <1>3, <1>4, <1>5, <1>6, <1>7, <1>8, <1>9, <1>10, <1>11, <1>12, <1>13, ZenonT(60)
  DEF Next

\* The inductive invariant holds throughout.
LEMMA SchedulerInvariant == Spec => []SchedulerInv
<1>1. SchedulerInv /\ [Next]_vars => SchedulerInv'
  BY SchedulerStep, Zenon
<1>2. QED
  BY <1>1, SchedulerInit, PTL DEF Spec

\* Every task is where its state says, whatever the scheduler is asked to do and whichever
\* task pick_next chooses: ready tasks in the run queue, once; exited ones in the exit
\* queue; blocked ones where a wake-up finds them; the run queue within the room that
\* insert_task reserved; and every waiting task with the context its resume_kind names.
THEOREM QueuesStayConsistent == Spec => []QueuesConsistent
<1>1. SchedulerInv => QueuesConsistent
  BY QueueFits, Zenon DEF SchedulerInv, QueuesConsistent
<1>2. QED
  BY <1>1, SchedulerInvariant, PTL

\* A step other than the timer's leaves the tick counter alone.
LEMMA OnlyTimerTicks ==
    ASSUME Next, \A now \in Now : ~ Timer(now)
    PROVE  ticks' = ticks
BY ZenonT(60)
DEF Next, Spawn, ReapOne, StartFirstTask, Yield, Exit, Sleep, Block, WakeOne, WakeAll, WakeTask,
    CancelWait, SetNice, MakeReady

\* A timer interrupt never leaves the CPU idle with work queued, and never ends a sleep
\* before its deadline, whatever stale entries there are among the sleepers.
THEOREM TicksAreKept == Spec => TicksKept
<1>1. ASSUME SchedulerInv, Next
      PROVE  IdleYieldsToWork /\ SleepLastsLongEnough
  <2>1. CASE \A now \in Now : ~ Timer(now)
    BY <1>1, <2>1, OnlyTimerTicks, Zenon DEF IdleYieldsToWork, SleepLastsLongEnough
  <2>2. ASSUME NEW now \in Now, Timer(now)
        PROVE  IdleYieldsToWork /\ SleepLastsLongEnough
    <3>1. /\ \A t \in Task : state[t] = "Blocked" /\ state'[t] # "Blocked"
                => t \in Sleepless(ticks')
          /\ current' = idle => Queued(run_queue') = {}
      BY <1>1, <2>2, TimerKeeps, Zenon
    <3>2. \A t \in Sleepless(ticks') : block_reason[t][2] <= ticks'
      <4>1. \A t \in Sleepless(ticks') :
              \E s \in sleepers : s[1] <= ticks' /\ block_reason[t] = <<"SleepUntil", s[1]>>
        BY Zenon DEF Sleepless, Expired, Due, StillSleeping
      <4>2. QED
        BY <4>1
    <3>3. QED
      BY <3>1, <3>2, Zenon DEF IdleYieldsToWork, SleepLastsLongEnough
  <2>3. QED
    BY <2>1, <2>2, Zenon
<1>2. SchedulerInv /\ [Next]_vars => [IdleYieldsToWork /\ SleepLastsLongEnough]_vars
  BY <1>1, Zenon
<1>3. QED
  BY <1>2, SchedulerInvariant, PTL DEF Spec, TicksKept

================================================================================
