------------------------------ MODULE Scheduler ------------------------------
(***************************************************************************)
(* The single-CPU EEVDF scheduler core of kernel/src/task (scheduler.rs,   *)
(* entity.rs, wait_queue.rs), driven the way kernel/src/scheduler drives   *)
(* it.  Every operation runs with interrupts off, so each one is a single  *)
(* step; what interleaves is their order.                                  *)
(*                                                                         *)
(* Fields that are dead are kept at a fixed value: the virtual times of a  *)
(* task that is not runnable (join overwrites them before any read), the   *)
(* dispatch times of a task that is not running, and, under EEVDF, the     *)
(* times only the other policies read.                                     *)
(*                                                                         *)
(* The state splits in two.  acct is the virtual-time accounting, changed  *)
(* only through Charge, Join, Leave and SetWeight.  The rest is structure: *)
(* which task is where.  The order of run_queue never decides anything     *)
(* (pick_next takes a minimum over unique keys), so it is a bag: how many  *)
(* times each task is queued.                                              *)
(***************************************************************************)
EXTENDS Integers, Sequences, FiniteSets, FiniteSetsExt

CONSTANTS MaxTaskId,      \* bound: tasks ever created (ids are never reused)
          MaxTime,        \* bound: the nanosecond clock
          MaxTicks,       \* bound: the tick counter
          MaxRenice,      \* bound: calls of set_nice (each may move virtual time apart)
          Weights,        \* the weights set_nice may give
          NICE_0_WEIGHT,
          BASE_SLICE,     \* BASE_SLICE_NS
          WaitQueues,     \* the kernel's wait queues
          Policy          \* "Eevdf", "Fifo" or "RoundRobin"

ASSUME SchedulerAssumption ==
    /\ MaxTaskId \in Nat \ {0} /\ MaxTime \in Nat /\ MaxTicks \in Nat /\ MaxRenice \in Nat
    /\ Weights \subseteq Nat \ {0} /\ NICE_0_WEIGHT \in Weights
    /\ BASE_SLICE \in Nat \ {0}
    /\ Policy \in {"Eevdf", "Fifo", "RoundRobin"}

Task == 1..MaxTaskId
None == 0
idle == 1            \* init spawns the idle task first
LAG_LIMIT == 2 * BASE_SLICE

VARIABLES
    acct,           \* entities, sum_weight, sum_weighted_runtime, average, wakeup_preempt,
                    \* clock, and dispatched_at and slice_start of the running task
    state,          \* TaskState; "Absent" before creation and after reaping
    run_queue,      \* Task -> how many times it is in run_queue
    exit_queue,
    current,
    next_task_id,
    sleepers,       \* {<<deadline, id>>}; the sorted vector's order is that of the pairs
    waiters,        \* WaitQueues -> tasks in arrival order
    block_reason,   \* why a blocked task waits; <<>> when it is not blocked
    capacity,       \* capacity reserved for run_queue
    resume_kind,    \* which saved context the next dispatch will load
    saved,          \* which context the CPU really saved last ("Stale" once consumed)
    ticks,
    renices         \* calls of set_nice so far

vars == <<acct, state, run_queue, exit_queue, current, next_task_id, sleepers,
          waiters, block_reason, capacity, resume_kind, saved, ticks, renices>>

---------------------------------------------------------------------------
(* Virtual-time accounting (entity.rs and the private half of scheduler.rs) *)

\* Rust's i128 division truncates toward zero.
TruncDiv(a, b) == IF a >= 0 THEN a \div b ELSE -((-a) \div b)

Clamp(x, lo, hi) == IF x < lo THEN lo ELSE IF x > hi THEN hi ELSE x

NewEntity ==
    [virtual_runtime |-> 0, virtual_deadline |-> 0, weight |-> NICE_0_WEIGHT, lag |-> 0,
     enqueue_time |-> 0]

WeightedSlice(e) == (BASE_SLICE * NICE_0_WEIGHT) \div e.weight

VirtualDelta(e, ran) == (ran * NICE_0_WEIGHT) \div e.weight

\* account: advance the runtime; a completed request gets a new deadline.
Account(e, ran) ==
    LET runtime == e.virtual_runtime + VirtualDelta(e, ran)
    IN  [e EXCEPT !.virtual_runtime = runtime,
                  !.virtual_deadline = IF runtime >= @ THEN runtime + WeightedSlice(e) ELSE @]

RequestCompletes(e, ran) ==
    e.virtual_runtime + VirtualDelta(e, ran) >= e.virtual_deadline

\* Seeded fault: the average is not brought up to date.
RefreshAverage_Stale(a) == a

RefreshAverage(a) ==
    IF a.sum_weight > 0
    THEN [a EXCEPT !.average = TruncDiv(a.sum_weighted_runtime, a.sum_weight)]
    ELSE a

Ran(a, now) == IF now > a.dispatched_at THEN now - a.dispatched_at ELSE 0

\* A time that EEVDF never reads.
Stamp(now) == IF Policy = "Eevdf" THEN 0 ELSE now

\* charge, for the running task t.
Charge(a, t, now) ==
    LET e    == a.entity[t]
        paid == Account(e, Ran(a, now))
    IN  IF t = idle
        THEN [a EXCEPT !.dispatched_at = now]
        ELSE RefreshAverage(
               [a EXCEPT !.entity[t] = paid,
                         !.dispatched_at = now,
                         !.sum_weighted_runtime =
                             @ + e.weight * (paid.virtual_runtime - e.virtual_runtime)])

\* Seeded fault: the weight leaves the sums, the weighted runtime stays.
Leave_KeepsRuntime(a, t) ==
    RefreshAverage(
      [a EXCEPT !.entity[t].lag = Clamp(a.average - a.entity[t].virtual_runtime,
                                        -LAG_LIMIT, LAG_LIMIT),
                !.sum_weight = @ - a.entity[t].weight])

\* leave: remember the lag, within the clamp.
Leave(a, t) ==
    LET e == a.entity[t]
    IN  RefreshAverage(
          [a EXCEPT !.entity[t] =
                        [e EXCEPT !.lag = Clamp(a.average - e.virtual_runtime,
                                                -LAG_LIMIT, LAG_LIMIT),
                                  !.virtual_runtime = 0, !.virtual_deadline = 0],
                    !.sum_weight = @ - e.weight,
                    !.sum_weighted_runtime = @ - e.weight * e.virtual_runtime])

\* Seeded fault: a woken task starts at the average, its lag forgotten.
PlacedLag_Forgotten(a, e) == 0

\* How far behind the average e is put so that its lag is right once it counts itself.
PlacedLag(a, e) ==
    IF a.sum_weight > 0
    THEN TruncDiv(e.lag * (a.sum_weight + e.weight), a.sum_weight)
    ELSE e.lag

\* join: place the task so that its lag survives the insertion; running is the task on
\* the CPU while it joins.
Join(a, t, running) ==
    LET e       == a.entity[t]
        runtime == a.average - PlacedLag(a, e)
        joined  == [e EXCEPT !.virtual_runtime = runtime, !.lag = 0,
                             !.virtual_deadline = runtime + WeightedSlice(e),
                             !.enqueue_time = Stamp(a.clock)]
        b       == RefreshAverage(
                     [a EXCEPT !.entity[t] = joined,
                               !.sum_weight = @ + e.weight,
                               !.sum_weighted_runtime = @ + e.weight * runtime])
    IN  [b EXCEPT !.wakeup_preempt =
           \/ @
           \/ /\ running \notin {None, idle}
              /\ runtime <= b.average
              /\ joined.virtual_deadline < b.entity[running].virtual_deadline]

JoinAll(a, ts, running) ==
    LET after[i \in 0..Len(ts)] ==
          IF i = 0 THEN a ELSE Join(after[i - 1], ts[i], running)
    IN  after[Len(ts)]

\* pick_next's choice among the queued tasks q.
Eligible(a, t) == Policy # "Eevdf" \/ a.entity[t].virtual_runtime <= a.average

PickKey(a, t) == IF Policy = "Eevdf" THEN a.entity[t].virtual_deadline
                                     ELSE a.entity[t].enqueue_time

Before(k1, t1, k2, t2) == k1 < k2 \/ (k1 = k2 /\ t1 <= t2)

IsPick(a, q, t) ==
    LET best == {u \in q : Eligible(a, u)}
    IN  IF best # {}
        THEN t \in best /\ \A u \in best : Before(PickKey(a, t), t, PickKey(a, u), u)
        ELSE t \in q /\ \A u \in q : Before(a.entity[t].virtual_runtime, t,
                                            a.entity[u].virtual_runtime, u)

---------------------------------------------------------------------------
(* Structure: states and queues *)

Queued(rq) == {t \in Task : rq[t] > 0}
Push(rq, t) == [u \in Task |-> IF u = t THEN rq[u] + 1 ELSE rq[u]]

Pop(rq, t) == [u \in Task |-> IF u = t THEN rq[u] - 1 ELSE rq[u]]

\* The states and queue after every task of ws is made ready (make_ready, minus join).
Readied(ws) == [t \in Task |-> IF t \in ws THEN "Ready" ELSE state[t]]
Enqueued(ws) == [t \in Task |-> IF t \in ws THEN run_queue[t] + 1 ELSE run_queue[t]]
Unblocked(ws) == [t \in Task |-> IF t \in ws THEN <<>> ELSE block_reason[t]]

\* Seeded fault: a preempted task is still marked as having yielded.
Resume_Unmarked(kind) == resume_kind

\* The running task's context is saved as kind: the TCB says so, and the CPU does so.
Resume(kind) == [resume_kind EXCEPT ![current] = kind]
Save(kind) == [saved EXCEPT ![current] = kind]

\* switch_to_next, from accounting a, states st and queue rq, followed by the dispatch of
\* the chosen task: the context its resume_kind names is consumed, and an interrupt frame
\* is one-shot (dispatch_for, saeos_timer_interrupt_rust).
SwitchToNext(a, st, rq, rk, sv, now) ==
    \E next \in IF Queued(rq) = {} THEN {idle} ELSE Queued(rq) :
        /\ Queued(rq) # {} => IsPick(a, Queued(rq), next)
        /\ state' = [st EXCEPT ![next] = "Running"]
        /\ run_queue' = IF Queued(rq) = {} THEN rq ELSE Pop(rq, next)
        /\ current' = next
        /\ acct' = [a EXCEPT !.wakeup_preempt = FALSE,
                             !.dispatched_at = now,
                             !.slice_start = Stamp(now)]
        /\ resume_kind' = [rk EXCEPT ![next] = "Voluntary"]
        /\ saved' = [sv EXCEPT ![next] = "Stale"]

\* schedule: the running task goes back to the queue (idle never does), then the next runs.
\* a, st and rq are the accounting, states and queue it starts from.
Schedule(a, st, rq, rk, sv, now) ==
    LET charged == Charge(a, current, now)
    IN  SwitchToNext([charged EXCEPT !.entity[current].enqueue_time =
                                         IF current = idle THEN @ ELSE Stamp(now)],
                     [st EXCEPT ![current] = "Ready"],
                     IF current = idle THEN rq ELSE Push(rq, current),
                     rk, sv, now)

\* The time an operation reads: the clock advances by at most one unit between operations.
Now == acct.clock .. (IF acct.clock < MaxTime THEN acct.clock + 1 ELSE MaxTime)

At(now) == [acct EXCEPT !.clock = now]

\* stop_current: charge, leave the runnable set, save a voluntary context.  The rest of
\* the step is the successor's dispatch.
StopCurrent(next_state, now) ==
    LET a == Leave(Charge(At(now), current, now), current)
    IN  SwitchToNext(a, [state EXCEPT ![current] = next_state], run_queue,
                     Resume("Voluntary"), Save("Voluntary"), now)

---------------------------------------------------------------------------
(* Operations *)

\* insert_task: room for every live task, so that no queue grows in an interrupt.
Reserved(live) == IF live > capacity THEN live ELSE capacity

\* spawn_kernel_task for an ordinary task, by boot code or by the running task.
Spawn ==
    /\ next_task_id \in Task
    /\ LET t == next_task_id
       IN  /\ state' = [state EXCEPT ![t] = "Ready"]
           /\ run_queue' = Push(run_queue, t)
           /\ acct' = Join([acct EXCEPT !.entity[t] = NewEntity], t, current)
           /\ saved' = [saved EXCEPT ![t] = "Voluntary"]
           /\ resume_kind' = [resume_kind EXCEPT ![t] = "Voluntary"]
           /\ capacity' = Reserved(Cardinality({u \in Task : state'[u] # "Absent"}))
    /\ next_task_id' = next_task_id + 1
    /\ UNCHANGED <<exit_queue, current, sleepers, waiters, block_reason, ticks, renices>>

\* start_first_task.
StartFirstTask(now) ==
    /\ current = None
    /\ SwitchToNext(At(now), state, run_queue, resume_kind, saved, now)
    /\ UNCHANGED <<exit_queue, next_task_id, sleepers, waiters, block_reason, capacity, ticks, renices>>

\* yield_now.
Yield(now) ==
    /\ current \notin {None, idle}
    /\ Schedule(At(now), state, run_queue, Resume("Voluntary"), Save("Voluntary"), now)
    /\ UNCHANGED <<exit_queue, next_task_id, sleepers, waiters, block_reason, capacity, ticks, renices>>

\* sleep_until.
Sleep(deadline, now) ==
    /\ current \notin {None, idle}
    /\ StopCurrent("Blocked", now)
    /\ block_reason' = [block_reason EXCEPT ![current] = <<"SleepUntil", deadline>>]
    /\ sleepers' = sleepers \cup {<<deadline, current>>}
    /\ UNCHANGED <<exit_queue, next_task_id, waiters, capacity, ticks, renices>>

\* The blocking half of wait_event: block_current.
Block(q, now) ==
    /\ current \notin {None, idle}
    /\ StopCurrent("Blocked", now)
    /\ block_reason' = [block_reason EXCEPT ![current] = <<"WaitQueue", q>>]
    /\ waiters' = [waiters EXCEPT ![q] = Append(@, current)]
    /\ UNCHANGED <<exit_queue, next_task_id, sleepers, capacity, ticks, renices>>

\* Make the tasks of sequence ws ready, in order, outside the timer.
MakeReady(ws) ==
    /\ state' = Readied(Range(ws))
    /\ run_queue' = Enqueued(Range(ws))
    /\ block_reason' = Unblocked(Range(ws))
    /\ acct' = JoinAll(acct, ws, current)
    /\ UNCHANGED <<exit_queue, current, next_task_id, sleepers, capacity, resume_kind, saved, ticks,
                   renices>>

\* wake_one: the head leaves the queue even when it turns out not to be blocked.
WakeOne(q) ==
    /\ waiters[q] # <<>>
    /\ MakeReady(IF state[Head(waiters[q])] = "Blocked" THEN <<Head(waiters[q])>> ELSE <<>>)
    /\ waiters' = [waiters EXCEPT ![q] = Tail(@)]

\* Whether the k-th entry of a queue is blocked, when the ones before it have been woken.
Wakes(w, k) == state[w[k]] = "Blocked" /\ \A j \in 1..(k - 1) : w[j] # w[k]

\* wake_all: wake_one until the queue is empty or an entry is not blocked; that entry is
\* popped too, the ones behind it stay.
WakeAll(q) ==
    /\ waiters[q] # <<>>
    /\ \E last \in 0..Len(waiters[q]) :
         /\ \A k \in 1..last : Wakes(waiters[q], k)
         /\ last < Len(waiters[q]) => ~ Wakes(waiters[q], last + 1)
         /\ MakeReady(SubSeq(waiters[q], 1, last))
         /\ waiters' = [waiters EXCEPT ![q] = SubSeq(@, last + 2, Len(@))]

\* wake_task of a sleeping task.  The kernel never wakes a task that is in a wait queue this
\* way: exit_current's list of child_waiters, the one it would use, is always empty.
WakeTask(t) ==
    /\ state[t] = "Blocked" /\ block_reason[t][1] = "SleepUntil"
    /\ MakeReady(<<t>>)
    /\ UNCHANGED waiters

\* Seeded fault: the task keeps its place in the queue.
CancelWait_KeepsEntry(t, q) ==
    /\ state[t] = "Blocked" /\ block_reason[t] = <<"WaitQueue", q>>
    /\ t \in Range(waiters[q])
    /\ MakeReady(<<t>>)
    /\ UNCHANGED waiters

\* cancel_wait.
CancelWait(t, q) ==
    /\ state[t] = "Blocked" /\ block_reason[t] = <<"WaitQueue", q>>
    /\ \E i \in 1..Len(waiters[q]) :
         /\ waiters[q][i] = t /\ \A j \in 1..(i - 1) : waiters[q][j] # t
         /\ waiters' = [waiters EXCEPT ![q] = SubSeq(@, 1, i - 1) \o SubSeq(@, i + 1, Len(@))]
    /\ MakeReady(<<t>>)

\* exit_current, scheduler part.
Exit(now) ==
    /\ current \notin {None, idle}
    /\ StopCurrent("Exited", now)
    /\ exit_queue' = Append(exit_queue, current)
    /\ UNCHANGED <<next_task_id, sleepers, waiters, block_reason, capacity, ticks, renices>>

\* reap_one: the TCB is dropped; its id is gone for good.
ReapOne ==
    /\ exit_queue # <<>> /\ Head(exit_queue) # current
    /\ exit_queue' = Tail(exit_queue)
    /\ state' = [state EXCEPT ![Head(exit_queue)] = "Absent"]
    /\ acct' = [acct EXCEPT !.entity[Head(exit_queue)] = NewEntity]
    /\ resume_kind' = [resume_kind EXCEPT ![Head(exit_queue)] = "Voluntary"]
    /\ saved' = [saved EXCEPT ![Head(exit_queue)] = "Stale"]
    /\ UNCHANGED <<run_queue, current, next_task_id, sleepers, waiters, block_reason, capacity,
                   ticks, renices>>

InRunnableSet(t) == t # idle /\ state[t] \in {"Ready", "Running"}

\* set_nice.
SetNice(t, weight) ==
    /\ renices < MaxRenice /\ renices' = renices + 1
    /\ state[t] \notin {"Absent", "Exited"}
    /\ LET e  == acct.entity[t]
           e2 == [e EXCEPT !.weight = weight]
           e3 == [e2 EXCEPT !.virtual_deadline = e.virtual_runtime + WeightedSlice(e2)]
       IN  acct' = IF InRunnableSet(t)
                   THEN RefreshAverage(
                          [acct EXCEPT !.entity[t] = e3,
                                       !.sum_weight = @ + weight - e.weight,
                                       !.sum_weighted_runtime =
                                           @ + (weight - e.weight) * e.virtual_runtime])
                   ELSE [acct EXCEPT !.entity[t] = e2]
    /\ UNCHANGED <<state, run_queue, exit_queue, current, next_task_id, sleepers, waiters,
                   block_reason, capacity, resume_kind, saved, ticks>>

\* wake_expired pops every due entry, latest-sorted last, and wakes the ones that are
\* still sleeping to that very deadline.
Due(tick) == {s \in sleepers : s[1] <= tick}

\* Seeded fault: the first of a task's entries ends whatever sleep the task is in.
StillSleeping_FirstEntry(s) ==
    /\ state[s[2]] = "Blocked" /\ block_reason[s[2]][1] = "SleepUntil"
    /\ \A r \in sleepers : r[2] = s[2] => s[1] <= r[1]

StillSleeping(s) == state[s[2]] = "Blocked" /\ block_reason[s[2]] = <<"SleepUntil", s[1]>>

Expired(tick) == {s \in Due(tick) : StillSleeping(s)}

\* The tasks of the entries, in the order of the vector.
InOrder(entries) ==
    LET order == CHOOSE f \in [1..Cardinality(entries) -> entries] :
                    \A i, j \in DOMAIN f : i < j => Before(f[i][1], f[i][2], f[j][1], f[j][2])
                                                     /\ f[i] # f[j]
    IN  [i \in DOMAIN order |-> order[i][2]]

\* Seeded fault: only a wake-up preempts.
WantsSwitch_WakeupOnly(a, now) == a.wakeup_preempt

\* tick's answer for the running task, from the accounting before the charge.
WantsSwitch(a, now) ==
    \/ current = idle
    \/ Policy = "RoundRobin" /\ now - a.slice_start >= BASE_SLICE
    \/ /\ Policy = "Eevdf"
       /\ RequestCompletes(a.entity[current], Ran(a, now)) \/ a.wakeup_preempt

\* saeos_timer_interrupt_rust: wake_expired, tick and, when tick asks for it, preempt.
Timer(now) ==
    /\ current # None
    /\ ticks' = IF ticks < MaxTicks THEN ticks + 1 ELSE ticks
    /\ LET woken   == {s[2] : s \in Expired(ticks')}
           st      == Readied(woken)
           rq      == Enqueued(woken)
           a       == [JoinAll(acct, InOrder(Expired(ticks')), current) EXCEPT !.clock = now]
           ticked  == IF current = idle
                      THEN a
                      ELSE [Charge(a, current, now) EXCEPT !.wakeup_preempt = FALSE]
       IN  /\ block_reason' = Unblocked(woken)
           /\ \/ /\ Queued(rq) # {} /\ WantsSwitch(a, now)
                 /\ Schedule(ticked, st, rq, Resume("Interrupt"), Save("Interrupt"), now)
              \/ /\ ~(Queued(rq) # {} /\ WantsSwitch(a, now))
                 /\ state' = st /\ run_queue' = rq /\ acct' = ticked
                 /\ UNCHANGED <<current, resume_kind, saved>>
    /\ sleepers' = sleepers \ Due(ticks')
    /\ UNCHANGED <<exit_queue, next_task_id, waiters, capacity, renices>>

Init ==
    /\ acct = [entity |-> [t \in Task |-> NewEntity], sum_weight |-> 0,
               sum_weighted_runtime |-> 0, average |-> 0, wakeup_preempt |-> FALSE, clock |-> 0,
               dispatched_at |-> 0, slice_start |-> 0]
    /\ state = [t \in Task |-> IF t = idle THEN "Ready" ELSE "Absent"]
    /\ run_queue = [t \in Task |-> 0]
    /\ exit_queue = <<>>
    /\ current = None
    /\ next_task_id = 2
    /\ sleepers = {}
    /\ waiters = [q \in WaitQueues |-> <<>>]
    /\ block_reason = [t \in Task |-> <<>>]
    /\ capacity = 1
    /\ resume_kind = [t \in Task |-> "Voluntary"]
    /\ saved = [t \in Task |-> IF t = idle THEN "Voluntary" ELSE "Stale"]
    /\ ticks = 0
    /\ renices = 0

Next ==
    \/ Spawn
    \/ ReapOne
    \/ \E now \in Now :
         \/ StartFirstTask(now) \/ Yield(now) \/ Exit(now) \/ Timer(now)
         \/ \E deadline \in ticks..MaxTicks : Sleep(deadline, now)
         \/ \E q \in WaitQueues : Block(q, now)
    \/ \E q \in WaitQueues : WakeOne(q) \/ WakeAll(q)
    \/ \E t \in Task : WakeTask(t) \/ \E q \in WaitQueues : CancelWait(t, q)
    \/ \E t \in Task \ {idle}, w \in Weights : SetNice(t, w)

Spec == Init /\ [][Next]_vars

---------------------------------------------------------------------------
(* Properties *)

States == {"Absent", "Ready", "Running", "Blocked", "Exited"}

Entity ==
    [virtual_runtime : Int, virtual_deadline : Int, weight : Weights, lag : Int,
     enqueue_time : Nat]

\* Every field keeps the type of its Rust declaration: the accounting ...
AccountType ==
    /\ acct.entity \in [Task -> Entity]
    /\ acct.sum_weight \in Nat /\ acct.sum_weighted_runtime \in Int /\ acct.average \in Int
    /\ acct.wakeup_preempt \in BOOLEAN /\ acct.clock \in 0..MaxTime
    /\ acct.dispatched_at \in 0..MaxTime /\ acct.slice_start \in 0..MaxTime

BlockReason == {<<>>} \cup ({"SleepUntil"} \X (0..MaxTicks)) \cup ({"WaitQueue"} \X WaitQueues)

\* ... and the structure.
TypeOK ==
    /\ state \in [Task -> States]
    /\ run_queue \in [Task -> Nat]
    /\ exit_queue \in Seq(Task)
    /\ current \in Task \cup {None}
    /\ next_task_id \in 2..(MaxTaskId + 1)
    /\ sleepers \subseteq (0..MaxTicks) \X Task
    /\ waiters \in [WaitQueues -> Seq(Task)]
    /\ block_reason \in [Task -> BlockReason]
    /\ capacity \in Nat
    /\ resume_kind \in [Task -> {"Voluntary", "Interrupt"}]
    /\ saved \in [Task -> {"Voluntary", "Interrupt", "Stale"}]
    /\ ticks \in 0..MaxTicks /\ renices \in 0..MaxRenice

\* Every task is in exactly the queue its state names, once: ready tasks other than idle
\* in run_queue, the running one on the CPU and in no queue, exited ones in exit_queue.
\* This is what the comment on run_queue ("excluding the running one and the idle task")
\* asks of every push and swap_remove.
OnePlacePerTask ==
    /\ \A t \in Task : run_queue[t] = IF state[t] = "Ready" /\ t # idle THEN 1 ELSE 0
    /\ \A t \in Task : state[t] = "Running" <=> t = current
    /\ \A t \in Task : state[t] = "Exited" <=> \E i \in DOMAIN exit_queue : exit_queue[i] = t
    /\ \A i, j \in DOMAIN exit_queue : exit_queue[i] = exit_queue[j] => i = j
    /\ state[idle] \in {"Ready", "Running"}

\* No blocked task is forgotten: a task waiting on a queue is in that queue, once, and in
\* no other; a sleeping one has its entry among the sleepers.  Otherwise no wake_one,
\* wake_all or wake_expired could ever reach it.
BlockedTasksReachable ==
    /\ \A t \in Task : state[t] = "Blocked" =>
         \/ \E s \in sleepers : s[2] = t /\ block_reason[t] = <<"SleepUntil", s[1]>>
         \/ \E q \in WaitQueues : \E i \in DOMAIN waiters[q] :
               waiters[q][i] = t /\ block_reason[t] = <<"WaitQueue", q>>
    /\ \A q \in WaitQueues : \A i \in DOMAIN waiters[q] :
         /\ state[waiters[q][i]] = "Blocked"
         /\ block_reason[waiters[q][i]] = <<"WaitQueue", q>>
         /\ \A j \in DOMAIN waiters[q] : waiters[q][j] = waiters[q][i] => j = i

Runnable == {t \in Task : InRunnableSet(t)}

Sum(S, f(_)) == FoldSet(LAMBDA t, n : n + f(t), 0, S)

\* sum_weight and sum_weighted_runtime are exact: after any sequence of joins, leaves,
\* charges and weight changes they are the sums over the tasks now runnable, and average
\* is their quotient.
SumsExact ==
    LET W(t) == acct.entity[t].weight
        R(t) == acct.entity[t].weight * acct.entity[t].virtual_runtime
    IN  /\ acct.sum_weight = Sum(Runnable, W)
        /\ acct.sum_weighted_runtime = Sum(Runnable, R)
        /\ Runnable # {} =>
             acct.average = TruncDiv(acct.sum_weighted_runtime, acct.sum_weight)

\* "Someone is always eligible against a weighted average" (pick_next): integer rounding
\* of the average never leaves every runnable task ineligible, so pick_next's fallback
\* is never taken.
SomeoneEligible ==
    Runnable # {} => \E t \in Runnable : acct.entity[t].virtual_runtime <= acct.average

\* The context a dispatch will load is the one the CPU saved last: a waiting task's
\* resume_kind names its fresh context, and a consumed interrupt frame is never loaded
\* again.
FreshContext ==
    \A t \in Task : state[t] \in {"Ready", "Blocked"} => saved[t] = resume_kind[t]

\* Interrupt paths never make run_queue grow past what insert_task reserved ("Nothing
\* reachable from the timer interrupt allocates").
RunQueueFits == Cardinality(Queued(run_queue)) <= capacity

\* A task woken alone keeps the lag it left with ("makes V' - vruntime == lag after
\* insertion", join), up to the rounding of two integer divisions.
LagSurvivesWakeup ==
    \A t \in Task :
         /\ state[t] = "Blocked" /\ state'[t] = "Ready"
         /\ state' = [state EXCEPT ![t] = "Ready"] /\ acct.sum_weight > 0
         /\ acct'.clock = acct.clock /\ ticks' = ticks
         => acct'.average - acct'.entity[t].virtual_runtime
                \in (acct.entity[t].lag - 1)..(acct.entity[t].lag + 1)

\* A timer tick never leaves the idle task running while there is work, including work
\* that the same tick woke up.
IdleYieldsToWork ==
    ticks' # ticks /\ current' = idle => Queued(run_queue') = {}

\* "A sleep lasts at least as long as asked": no timer tick ends a sleep before its
\* deadline, whatever stale entries earlier sleeps of the same task left among sleepers.
SleepLastsLongEnough ==
    \A t \in Task :
         state[t] = "Blocked" /\ block_reason[t][1] = "SleepUntil" /\ state'[t] # "Blocked"
         => block_reason[t][2] <= ticks' \/ ticks' = ticks

\* Where every task is: each in the one queue its state names, the blocked ones where a
\* wake-up finds them, the run queue within what was reserved outside interrupts, and every
\* waiting task with a context that can be loaded.
QueuesConsistent ==
    TypeOK /\ OnePlacePerTask /\ BlockedTasksReachable /\ RunQueueFits /\ FreshContext

\* EEVDF's books balance: the sums are exact, and an average of them leaves someone eligible.
AccountsExact == AccountType /\ SumsExact /\ SomeoneEligible

\* What a tick may not do: leave the CPU idle with work to do, or end a sleep early.
TicksKept == [][IdleYieldsToWork /\ SleepLastsLongEnough]_vars

\* What a wake-up may not do: change the lag a task left with.
LagKept == [][LagSurvivesWakeup]_vars
=============================================================================
