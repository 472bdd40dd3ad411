-------------------------- MODULE ProcessLifecycle --------------------------
(***************************************************************************)
(* fork, exec, exit, wait4 and the reaper: the process table (process.rs), *)
(* the address-space registry (mm/address_space.rs), and the code that     *)
(* walks through both (scheduler/lifecycle.rs, scheduler/mod.rs, exec).    *)
(*                                                                         *)
(* One CPU, preemptive.  Code between two points where interrupts are on   *)
(* is one step; a step of any task that is not blocked may come next, so   *)
(* the scheduler's choice is left open.  A step of a task other than the   *)
(* last one to run starts with a dispatch, which loads that task's address *)
(* space.  Processes have one thread (add_thread has no caller), so a      *)
(* process and its task share an id.  PID 1 never exits: its exit halts    *)
(* the kernel (init_exited).                                               *)
(***************************************************************************)
EXTENDS Integers, Sequences, Functions

CONSTANTS MaxPid,       \* bound: processes ever created, PID 1 included
          MaxSpace      \* bound: address spaces ever registered

ASSUME LifecycleAssumption == MaxPid \in Nat \ {0} /\ MaxSpace \in Nat \ {0}

Pid == 1..MaxPid
INIT_PID == 1
Reaper == MaxPid + 1    \* the kernel's reaper task; it runs in the kernel's own space
Actor == Pid \cup {Reaper}
Space == 1..MaxSpace
None == 0

VARIABLES
    table,            \* pids in the process table
    parent, children, exit_status, threads, address_space,   \* their records
    released_spaces,  \* spaces of reaped processes, nobody freeing them yet
    task_state,       \* "Absent", "Ready", "Blocked", "Exited"
    task_space,       \* the TCB's address_space
    exit_queue,
    child_wait,       \* tasks on CHILD_WAIT
    reaper_wait,      \* tasks on REAPER_WAIT
    registered,       \* ids in ADDRESS_SPACES (what a dispatch can load)
    owned,            \* ids in OWNED (page tables and frames not torn down)
    next_space, next_pid,
    active,           \* ACTIVE_ADDRESS_SPACE
    current,          \* the last task to run
    pc,               \* where each task is
    target,           \* wait4's argument; None for any child
    found,            \* the child being collected
    new_space,        \* fork and exec: the space being installed
    todo              \* release_reaped_spaces, exec: spaces this task is freeing

processVars == <<table, parent, children, exit_status, threads, address_space, released_spaces,
                 next_pid>>
taskVars == <<task_state, task_space, exit_queue, child_wait, reaper_wait>>
spaceVars == <<registered, owned, next_space>>
localVars == <<target, found, new_space, todo>>
vars == <<processVars, taskVars, spaceVars, localVars, active, current, pc>>

---------------------------------------------------------------------------
(* The process table *)

\* exit_status.is_some() && threads.is_empty(): ready for wait4.
Retired(p) == exit_status[p] /\ ~threads[p]

\* exited_child: the oldest retired child.
ExitedChild(p) ==
    LET done(i) == children[p][i] \in table /\ Retired(children[p][i])
        first == {i \in DOMAIN children[p] : done(i) /\ \A j \in 1..(i - 1) : ~done(j)}
    IN  IF first = {} THEN None ELSE children[p][CHOOSE i \in first : TRUE]

\* wait_for_child's ready(): "NoChild", None (not yet), or the child to collect.
NoChild == -1
Ready(p, t) ==
    IF t = None
    THEN IF children[p] = <<>> THEN NoChild ELSE ExitedChild(p)
    ELSE IF t \notin table \/ parent[t] # p THEN NoChild
         ELSE IF Retired(t) THEN t ELSE None

\* children.retain(|child| child != c): no list names a child twice (FamilyTree).
Without(s, c) ==
    IF c \notin Range(s) THEN s
    ELSE LET i == CHOOSE j \in DOMAIN s : s[j] = c
         IN  SubSeq(s, 1, i - 1) \o SubSeq(s, i + 1, Len(s))

\* reap_if_empty(p), given the parents and threads the caller just wrote.  The record goes
\* and its space waits in released_spaces to be freed outside the lock.
ReapIfEmpty(p, par, thr, chl) ==
    IF p \in table /\ par[p] = None /\ ~thr[p] /\ exit_status[p]
    THEN /\ table' = table \ {p}
         /\ released_spaces' = IF address_space[p] = None THEN released_spaces
                               ELSE Append(released_spaces, address_space[p])
         /\ children' = [q \in Pid |-> Without(chl[q], p)]
    ELSE /\ UNCHANGED <<table, released_spaces>>
         /\ children' = chl

WakeAll(q) == [a \in Actor |-> IF a \in q THEN "Ready" ELSE task_state[a]]

---------------------------------------------------------------------------
(* Steps.  Run(a, from, to): task a runs from one preemption point to the next. *)

\* dispatch: another task than the last one has its own space loaded first
\* (prepare_switch, activate_if_changed).
Loaded(a) == IF a = current THEN active ELSE task_space[a]

Run(a, from, to) ==
    /\ task_state[a] = "Ready" /\ pc[a] = from
    /\ pc' = [pc EXCEPT ![a] = to]
    /\ current' = a

Dispatch(a) == active' = Loaded(a)

\* Forks that still have to take a pid, and the bound on them: a pid is left for each.
Forking == {q \in Pid : pc[q] \in {"fork_own", "fork_spawn"}}
PidsFor(forks) == \E f \in [forks -> next_pid..MaxPid] : IsInjective(f)

\* fork, after fork_cow: the child's space enters the registry ...
ForkRegister(p) ==
    /\ Run(p, "user", "fork_own") /\ Dispatch(p) /\ task_space[p] # None
    /\ next_space \in Space /\ PidsFor(Forking \cup {p})
    /\ registered' = registered \cup {next_space}
    /\ new_space' = [new_space EXCEPT ![p] = next_space]
    /\ next_space' = next_space + 1
    /\ UNCHANGED <<processVars, taskVars, owned, target, found, todo>>

\* ... then OWNED (register_owned_with_map) ...
Own(p, from, to) ==
    /\ Run(p, from, to) /\ Dispatch(p)
    /\ owned' = owned \cup {new_space[p]}
    /\ UNCHANGED <<processVars, taskVars, localVars, registered, next_space>>

ForkOwn(p) == Own(p, "fork_own", "fork_spawn")

\* ... then spawn_forked makes the process and its task in one scheduler section.
ForkSpawn(p) ==
    LET c == next_pid
    IN  /\ Run(p, "fork_spawn", "user") /\ Dispatch(p)
        /\ next_pid' = next_pid + 1
        /\ table' = table \cup {c}
        /\ parent' = [parent EXCEPT ![c] = p]
        /\ children' = [children EXCEPT ![p] = Append(@, c), ![c] = <<>>]
        /\ threads' = [threads EXCEPT ![c] = TRUE]
        /\ address_space' = [address_space EXCEPT ![c] = new_space[p]]
        /\ task_state' = [task_state EXCEPT ![c] = "Ready"]
        /\ task_space' = [task_space EXCEPT ![c] = new_space[p]]
        /\ new_space' = [new_space EXCEPT ![p] = None]
        /\ UNCHANGED <<exit_status, released_spaces, exit_queue, child_wait, reaper_wait,
                       spaceVars, target, found, todo>>

\* exec's install_current: note the previous space, register the new one, ...
ExecRegister(p) ==
    /\ Run(p, "user", "exec_own") /\ Dispatch(p)
    /\ next_space \in Space
    /\ registered' = registered \cup {next_space}
    /\ new_space' = [new_space EXCEPT ![p] = next_space]
    /\ todo' = [todo EXCEPT ![p] = IF task_space[p] = None THEN <<>> ELSE <<task_space[p]>>]
    /\ next_space' = next_space + 1
    /\ UNCHANGED <<processVars, taskVars, owned, target, found>>

ExecOwn(p) == Own(p, "exec_own", "exec_table")

\* ... set_address_space, which writes the process table, then the TCB, ...
ExecSetProcess(p) ==
    /\ Run(p, "exec_table", "exec_task") /\ Dispatch(p)
    /\ address_space' = [address_space EXCEPT ![p] = new_space[p]]
    /\ UNCHANGED <<table, parent, children, exit_status, threads, released_spaces, next_pid,
                   taskVars, spaceVars, localVars>>

ExecSetTask(p) ==
    /\ Run(p, "exec_task", "exec_activate") /\ Dispatch(p)
    /\ task_space' = [task_space EXCEPT ![p] = new_space[p]]
    /\ UNCHANGED <<processVars, task_state, exit_queue, child_wait, reaper_wait, spaceVars,
                   localVars>>

\* Seeded fault: the old space stays active until the next dispatch.
ExecActivate_Lazy(p) ==
    /\ Run(p, "exec_activate", "release") /\ Dispatch(p)
    /\ new_space' = [new_space EXCEPT ![p] = None]
    /\ UNCHANGED <<processVars, taskVars, spaceVars, target, found, todo>>

\* ... activate_if_changed, ...
ExecActivate(p) ==
    /\ Run(p, "exec_activate", "release")
    /\ active' = new_space[p]
    /\ new_space' = [new_space EXCEPT ![p] = None]
    /\ UNCHANGED <<processVars, taskVars, spaceVars, target, found, todo>>

\* ... and release(previous), which shares its two sections with release_reaped_spaces:
\* OWNED.swap_remove, then unregister and the teardown.
ReleaseOwned(a) ==
    /\ Run(a, "release", "unregister") /\ Dispatch(a)
    /\ todo[a] # <<>>
    /\ owned' = owned \ {Head(todo[a])}
    /\ UNCHANGED <<processVars, taskVars, localVars, registered, next_space>>

Unregister(a) ==
    /\ Run(a, "unregister", "release") /\ Dispatch(a)
    /\ registered' = registered \ {Head(todo[a])}
    /\ todo' = [todo EXCEPT ![a] = Tail(@)]
    /\ UNCHANGED <<processVars, taskVars, owned, next_space, target, found, new_space>>

\* The list is done, and wait4, wait_child or exec returns.
Released(p) ==
    /\ Run(p, "release", "user") /\ Dispatch(p)
    /\ todo[p] = <<>>
    /\ found' = [found EXCEPT ![p] = None]
    /\ target' = [target EXCEPT ![p] = None]
    /\ UNCHANGED <<processVars, taskVars, spaceVars, new_space, todo>>

\* Seeded fault: the list is copied, not taken.
TakeReleased_Copies(a) ==
    /\ Run(a, "take", "release") /\ Dispatch(a)
    /\ todo' = [todo EXCEPT ![a] = released_spaces]
    /\ UNCHANGED <<processVars, taskVars, spaceVars, target, found, new_space>>

\* release_reaped_spaces: take the whole list under the table lock.
TakeReleased(a) ==
    /\ Run(a, "take", "release") /\ Dispatch(a)
    /\ todo' = [todo EXCEPT ![a] = released_spaces]
    /\ released_spaces' = <<>>
    /\ UNCHANGED <<table, parent, children, exit_status, threads, address_space, next_pid,
                   taskVars, spaceVars, target, found, new_space>>

\* wait_for_child: where a look at ready() leads.
AfterReady(r) == IF r \in {NoChild, None} THEN "user" ELSE "collect"
Found(p, r) == found' = [found EXCEPT ![p] = IF r = NoChild THEN None ELSE r]

\* wait4(t): the first look, which with no_hang is the only one.
Wait(p, t, no_hang) ==
    LET r == Ready(p, t)
    IN  /\ Run(p, "user", IF r = None /\ ~no_hang THEN "waiting" ELSE AfterReady(r))
        /\ Dispatch(p) /\ Found(p, r) /\ task_space[p] # None
        /\ target' = [target EXCEPT ![p] = IF r = None /\ ~no_hang THEN t ELSE None]
        /\ UNCHANGED <<processVars, taskVars, spaceVars, new_space, todo>>

\* Seeded fault: a task whose condition holds looks again instead of leaving the loop.
WaitOn_Spins(p, at, next, holds) ==
    /\ Run(p, at, at) /\ Dispatch(p)
    /\ task_state' = IF holds THEN task_state ELSE [task_state EXCEPT ![p] = "Blocked"]
    /\ child_wait' = IF holds THEN child_wait ELSE child_wait \cup {p}
    /\ UNCHANGED <<processVars, task_space, exit_queue, reaper_wait, spaceVars>>

\* wait_event on CHILD_WAIT: check the condition and, if it does not hold, block, all with
\* interrupts off; a woken task checks again.
WaitOn(p, at, next, holds) ==
    /\ Run(p, at, IF holds THEN next ELSE at) /\ Dispatch(p)
    /\ task_state' = IF holds THEN task_state ELSE [task_state EXCEPT ![p] = "Blocked"]
    /\ child_wait' = IF holds THEN child_wait ELSE child_wait \cup {p}
    /\ UNCHANGED <<processVars, task_space, exit_queue, reaper_wait, spaceVars>>

WaitEvent(p) ==
    /\ WaitOn(p, "waiting", "recheck", Ready(p, target[p]) # None)
    /\ UNCHANGED localVars

\* The second ready().
Recheck(p) ==
    LET r == Ready(p, target[p])
    IN  /\ Run(p, "recheck", AfterReady(r)) /\ Dispatch(p) /\ Found(p, r)
        /\ target' = [target EXCEPT ![p] = None]
        /\ UNCHANGED <<processVars, taskVars, spaceVars, new_space, todo>>

\* wait_child(c), the kernel's own form: c must be a child; it keeps c in target till it
\* returns, where wait4 is done with target once it has found a child.
WaitChild(p, c) ==
    /\ Run(p, "user", "await_child") /\ Dispatch(p)
    /\ c \in table /\ parent[c] = p
    /\ target' = [target EXCEPT ![p] = c]
    /\ UNCHANGED <<processVars, taskVars, spaceVars, found, new_space, todo>>

AwaitChild(p) ==
    LET c == target[p]
        holds == c \notin table \/ Retired(c)
    IN  /\ WaitOn(p, "await_child", "collect", holds)
        /\ found' = IF holds THEN [found EXCEPT ![p] = c] ELSE found
        /\ UNCHANGED <<target, new_space, todo>>

\* collect_child_status, first section: ProcessTable::wait_child.
Collect(p) ==
    LET c   == found[p]
        ok  == c \in table /\ parent[c] = p /\ Retired(c)
        par == [parent EXCEPT ![c] = None]
    IN  /\ Run(p, "collect", IF ok THEN "collect_again" ELSE "user") /\ Dispatch(p)
        /\ IF ok
           THEN /\ parent' = par
                /\ ReapIfEmpty(c, par, threads, [children EXCEPT ![p] = Without(@, c)])
                /\ UNCHANGED <<found, target>>
           ELSE /\ found' = [found EXCEPT ![p] = None]
                /\ target' = [target EXCEPT ![p] = None]
                /\ UNCHANGED <<parent, table, released_spaces, children>>
        /\ UNCHANGED <<exit_status, threads, address_space, next_pid, taskVars, spaceVars,
                       new_space, todo>>

\* Seeded fault: the collector leaves the freeing to someone else.
CollectAgain_NoRelease(p) ==
    /\ Run(p, "collect_again", "user") /\ Dispatch(p)
    /\ ReapIfEmpty(found[p], parent, threads, children)
    /\ UNCHANGED <<parent, exit_status, threads, address_space, next_pid, taskVars, spaceVars,
                   localVars>>

\* Second section: reap_if_empty once more (there are no registered waiters to drop).
CollectAgain(p) ==
    /\ Run(p, "collect_again", "take") /\ Dispatch(p)
    /\ ReapIfEmpty(found[p], parent, threads, children)
    /\ UNCHANGED <<parent, exit_status, threads, address_space, next_pid, taskVars, spaceVars,
                   localVars>>

\* Seeded fault: orphans keep the parent that exited.
Reparented_Not(p) == parent

\* reparent_children: the parents once p's children have gone to init.
Reparented(p) == [c \in Pid |-> IF c \in Range(children[p]) THEN INIT_PID ELSE parent[c]]

\* exit_current runs with interrupts off from start to switch: the task becomes terminal,
\* its children go to init, waiting parents and the reaper are woken, the status is set.
\* The task never runs again.
Exit(p) ==
    /\ Run(p, "user", "user") /\ Dispatch(p) /\ p # INIT_PID
    /\ parent' = Reparented(p)
    /\ children' = [children EXCEPT ![INIT_PID] = @ \o children[p], ![p] = <<>>]
    /\ exit_status' = [exit_status EXCEPT ![p] = TRUE]
    /\ task_state' = [WakeAll(child_wait \cup reaper_wait) EXCEPT ![p] = "Exited"]
    /\ child_wait' = {} /\ reaper_wait' = {}
    /\ exit_queue' = Append(exit_queue, p)
    /\ UNCHANGED <<table, threads, address_space, released_spaces, next_pid, task_space,
                   spaceVars, localVars>>

---------------------------------------------------------------------------
(* The reaper task *)

\* wait_event on REAPER_WAIT until has_exited_tasks.
ReaperWaits ==
    LET holds == exit_queue # <<>>
    IN  /\ Run(Reaper, "reaper_wait", IF holds THEN "reap_one" ELSE "reaper_wait")
        /\ Dispatch(Reaper)
        /\ task_state' = IF holds THEN task_state
                                  ELSE [task_state EXCEPT ![Reaper] = "Blocked"]
        /\ reaper_wait' = IF holds THEN reaper_wait ELSE reaper_wait \cup {Reaper}
        /\ UNCHANGED <<processVars, task_space, exit_queue, child_wait, spaceVars, localVars>>

\* reap_one removes the oldest exited task; with none left the inner loop ends.
ReapOne ==
    /\ Run(Reaper, "reap_one", IF exit_queue = <<>> THEN "reaper_wait" ELSE "remove_thread")
    /\ Dispatch(Reaper)
    /\ IF exit_queue = <<>>
       THEN UNCHANGED <<task_state, exit_queue, found>>
       ELSE /\ task_state' = [task_state EXCEPT ![Head(exit_queue)] = "Absent"]
            /\ found' = [found EXCEPT ![Reaper] = Head(exit_queue)]
            /\ exit_queue' = Tail(exit_queue)
    /\ UNCHANGED <<processVars, task_space, child_wait, reaper_wait, spaceVars, target,
                   new_space, todo>>

RemoveThread ==
    LET p == found[Reaper]
        thr == [threads EXCEPT ![p] = FALSE]
    IN  /\ Run(Reaper, "remove_thread", "take") /\ Dispatch(Reaper)
        /\ threads' = thr
        /\ ReapIfEmpty(p, parent, thr, children)
        /\ found' = [found EXCEPT ![Reaper] = None]
        /\ UNCHANGED <<parent, exit_status, address_space, next_pid, taskVars, spaceVars,
                       target, new_space, todo>>

\* The list is done: wake_all(CHILD_WAIT), and round again.
ReaperWakes ==
    /\ Run(Reaper, "release", "reap_one") /\ Dispatch(Reaper)
    /\ todo[Reaper] = <<>>
    /\ task_state' = WakeAll(child_wait)
    /\ child_wait' = {}
    /\ UNCHANGED <<processVars, task_space, exit_queue, reaper_wait, spaceVars, localVars>>

---------------------------------------------------------------------------

\* Boot: kernel_init is PID 1, in the kernel's space until its first exec.
Init ==
    /\ table = {INIT_PID} /\ next_pid = 2
    /\ parent = [p \in Pid |-> None] /\ children = [p \in Pid |-> <<>>]
    /\ exit_status = [p \in Pid |-> FALSE] /\ threads = [p \in Pid |-> p = INIT_PID]
    /\ address_space = [p \in Pid |-> None] /\ released_spaces = <<>>
    /\ task_state = [a \in Actor |-> IF a \in {INIT_PID, Reaper} THEN "Ready" ELSE "Absent"]
    /\ task_space = [a \in Actor |-> None]
    /\ exit_queue = <<>> /\ child_wait = {} /\ reaper_wait = {}
    /\ registered = {} /\ owned = {} /\ next_space = 1
    /\ active = None /\ current = INIT_PID
    /\ pc = [a \in Actor |-> IF a = Reaper THEN "reaper_wait" ELSE "user"]
    /\ target = [a \in Actor |-> None] /\ found = [a \in Actor |-> None]
    /\ new_space = [a \in Actor |-> None] /\ todo = [a \in Actor |-> <<>>]

\* What user code may ask for ...
Call(p) ==
    \/ ForkRegister(p) \/ ExecRegister(p) \/ Exit(p)
    \/ \E t \in {None} \cup (Pid \ {p}), no_hang \in BOOLEAN : Wait(p, t, no_hang)
    \/ \E c \in Pid : WaitChild(p, c)

\* ... and what the kernel then does about it.
KernelStep(p) ==
    \/ ForkOwn(p) \/ ForkSpawn(p)
    \/ ExecOwn(p) \/ ExecSetProcess(p) \/ ExecSetTask(p) \/ ExecActivate(p)
    \/ WaitEvent(p) \/ Recheck(p) \/ AwaitChild(p) \/ Collect(p) \/ CollectAgain(p)
    \/ TakeReleased(p) \/ ReleaseOwned(p) \/ Unregister(p) \/ Released(p)

ReaperStep ==
    \/ ReaperWaits \/ ReapOne \/ RemoveThread \/ ReaperWakes
    \/ TakeReleased(Reaper) \/ ReleaseOwned(Reaper) \/ Unregister(Reaper)

Next == (\E p \in Pid : Call(p) \/ KernelStep(p)) \/ ReaperStep

Spec == Init /\ [][Next]_vars

\* A task that is ready is dispatched again sooner or later, so whatever the kernel has
\* begun goes on; user code need not make a further call.
FairSpec == Spec /\ WF_vars(ReaperStep) /\ \A p \in Pid : WF_vars(KernelStep(p))

---------------------------------------------------------------------------
(* Properties *)

\* Where a task may be between two steps: in user code, in a system call, in the reaper.
Place == {"user", "fork_own", "fork_spawn", "exec_own", "exec_table", "exec_task",
          "exec_activate", "take", "release", "unregister", "waiting", "recheck",
          "await_child", "collect", "collect_again", "reaper_wait", "reap_one",
          "remove_thread"}

\* Every variable keeps its type.
TypeOK ==
    /\ table \subseteq Pid /\ next_pid \in 2..(MaxPid + 1)
    /\ parent \in [Pid -> Pid \cup {None}] /\ children \in [Pid -> Seq(Pid)]
    /\ exit_status \in [Pid -> BOOLEAN] /\ threads \in [Pid -> BOOLEAN]
    /\ address_space \in [Pid -> Space \cup {None}] /\ released_spaces \in Seq(Space)
    /\ task_state \in [Actor -> {"Absent", "Ready", "Blocked", "Exited"}]
    /\ task_space \in [Actor -> Space \cup {None}]
    /\ exit_queue \in Seq(Pid) /\ child_wait \subseteq Pid /\ reaper_wait \subseteq {Reaper}
    /\ registered \subseteq Space /\ owned \subseteq Space /\ next_space \in 1..(MaxSpace + 1)
    /\ active \in Space \cup {None} /\ current \in Actor /\ pc \in [Actor -> Place]
    /\ target \in [Actor -> Pid \cup {None}] /\ found \in [Actor -> Pid \cup {None}]
    /\ new_space \in [Actor -> Space \cup {None}] /\ todo \in [Actor -> Seq(Space)]

\* The spaces that task a is freeing; an exec's list is its own only once the process table
\* has the new space.
Freeing(a) == IF pc[a] \in {"exec_own", "exec_table"} THEN {} ELSE Range(todo[a])

\* The space that a fork or an exec of task a is installing, until the process table has it.
Installing(a) == IF pc[a] \in {"exec_task", "exec_activate"} THEN None ELSE new_space[a]

\* Everything that will free space s, or hand it to something that will: a process record,
\* the released list, a task's list of spaces to free, or a fork or exec still installing it.
Holders(s) ==
    {<<"process", p>> : p \in {q \in table : address_space[q] = s}}
    \cup {<<"released", i>> : i \in {j \in DOMAIN released_spaces : released_spaces[j] = s}}
    \cup {<<"freeing", a>> : a \in {b \in Actor : s \in Freeing(b)}}
    \cup {<<"installing", a>> : a \in {b \in Actor : Installing(b) = s}}

\* Each address space has exactly one owner from fork or exec until its frames are freed, and
\* none afterwards: nothing is leaked and nothing is freed twice, however exec, exit, wait4
\* and the reaper overlap (take_released_spaces: "Each is returned exactly once").
OneHolder ==
    /\ \A s \in registered : \E h \in Holders(s) : Holders(s) = {h}
    /\ \A s \in Space \ registered : Holders(s) = {}
    /\ owned \subseteq registered

\* A dispatch never meets "selected address space is not registered", and never loads page
\* tables that are being freed: the space of every task that can still run is owned.
DispatchSafe ==
    \A a \in Actor : task_state[a] \in {"Ready", "Blocked"} /\ task_space[a] # None
                      => task_space[a] \in owned

\* release's assertion "releasing the active address space" never fires, in exec, in wait4
\* or in the reaper.
ReleaseInactive ==
    \A a \in Actor : pc[a] = "release" /\ todo[a] # <<>> => Loaded(a) # Head(todo[a])

\* Parent and child links agree, and the parent of every process but init is a process that
\* has not exited, so someone is left to collect it (reparent_children, wait_child).
FamilyTree ==
    /\ \A p \in table \ {INIT_PID} : parent[p] \in table /\ ~exit_status[parent[p]]
    /\ \A q \in Pid : /\ Range(children[q]) = {p \in table : parent[p] = q}
                      /\ IsInjective(children[q])

\* A process that exits is retired by the reaper (its thread removed), whatever the reaper was
\* doing when it exited: wake_one(REAPER_WAIT) is never lost.
ExitedIsRetired == \A p \in Pid : exit_status[p] ~> ~threads[p]

\* A wait4 that has a child to collect does not sleep on: no order of the exit, the reaper's
\* wake_all(CHILD_WAIT) and the reparenting of orphans loses the wake-up.
WaiterReturns ==
    \A p \in Pid : (pc[p] \in {"waiting", "await_child"} /\ Ready(p, target[p]) # None)
                   ~> pc[p] \notin {"waiting", "await_child"}

\* A reaped process's memory is given back.
ReleasedIsFreed == \A s \in Space : (s \in Range(released_spaces)) ~> (s \notin owned)

\* The page tables a task runs on, or will be dispatched on, exist: dispatch never loads
\* and release never frees a space that is in use the other way round.
LoadedIsLive == DispatchSafe /\ ReleaseInactive

\* The process table is well formed, its parent and child links included, however exits,
\* forks and collections overlap.
TableConsistent == TypeOK /\ FamilyTree

\* What exits is reclaimed: the reaper retires its thread and somebody frees its memory.
Reclaimed == ExitedIsRetired /\ ReleasedIsFreed

\* However fork, exec, exit, wait4 and the reaper overlap, the process table is well formed, every
\* address space has one owner and the loaded ones exist.
LifecycleSound == TableConsistent /\ OneHolder /\ LoadedIsLive
====
