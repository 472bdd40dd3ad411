-------------------------- MODULE LifecycleProofs --------------------------
(***************************************************************************)
(* Proofs about ProcessLifecycle: for any number of processes and spaces,  *)
(* the process table stays a tree, every address space has one owner from  *)
(* its registration to its release, and the spaces that tasks are          *)
(* dispatched on exist (LifecycleSound).                                   *)
(***************************************************************************)
EXTENDS LifecycleInvariant

---------------------------------------------------------------------------
(* fork and exec *)

\* What they leave alone until spawn_forked.
TreeUnmoved ==
    UNCHANGED <<table, parent, children, exit_status, threads, next_pid, task_state, exit_queue,
                child_wait, reaper_wait, target, found>>

\* The types of what they do change.
SpaceType ==
    /\ address_space \in [Pid -> Space \cup {None}] /\ released_spaces \in Seq(Space)
    /\ task_space \in [Actor -> Space \cup {None}]
    /\ registered \subseteq Space /\ owned \subseteq Space /\ next_space \in 1..(MaxSpace + 1)
    /\ new_space \in [Actor -> Space \cup {None}] /\ todo \in [Actor -> Seq(Space)]

\* The process table and the tasks are as before.
LEMMA TreeKept ==
    ASSUME LifecycleInv, TreeUnmoved
    PROVE  FamilyTree' /\ TasksAgree' /\ \A b \in Actor : Live(b)' <=> Live(b)
<1>1. \A b : Live(b)' <=> Live(b)
  BY Zenon DEF TreeUnmoved, Live
<1>2. FamilyTree'
  BY Zenon DEF LifecycleInv, FamilyTree, TreeUnmoved
<1>3. TasksAgree'
  BY <1>1, Zenon DEF LifecycleInv, TasksAgree, TreeUnmoved
<1> QED
  BY <1>1, <1>2, <1>3, Zenon

\* So only the spaces' types are left to show.
LEMMA TypeKept ==
    ASSUME LifecycleInv, TreeUnmoved, SpaceType', pc' \in [Actor -> Place],
           current' \in Actor, active' \in Space \cup {None}
    PROVE  TypeOK'
BY Zenon DEF LifecycleInv, TypeOK, TreeUnmoved, SpaceType

\* The first step of a fork: a space, and a claim to a pid.
LEMMA ForkRegisterStep == ASSUME LifecycleInv, NEW p \in Pid, ForkRegister(p) PROVE LifecycleInv'
<1>1. /\ Run(p, "user", "fork_own") /\ Dispatch(p) /\ next_space \in Space
      /\ PidsFor(Forking \cup {p})
      /\ registered' = registered \cup {next_space}
      /\ new_space' = [new_space EXCEPT ![p] = next_space] /\ next_space' = next_space + 1
      /\ TreeUnmoved /\ UNCHANGED <<address_space, released_spaces, task_space, owned, todo>>
  BY Zenon DEF ForkRegister, TreeUnmoved, processVars, taskVars
<1>2. TypeOK /\ SpaceType /\ p \in Actor /\ "fork_own" \in Place
  BY Ids, Zenon DEF LifecycleInv, TypeOK, SpaceType, Place
<1>3. /\ pc' \in [Actor -> Place] /\ pc[p] = "user" /\ pc'[p] = "fork_own"
      /\ \A b \in Actor : b # p => pc'[b] = pc[b]
      /\ current' = p /\ Live(p)
  BY <1>1, <1>2, RunMoves, Zenon
<1>4. SpaceType'
  <2>1. next_space' \in 1..(MaxSpace + 1)
    BY <1>1, LifecycleAssumption DEF Space
  <2> QED
    BY <1>1, <1>2, <2>1, Zenon DEF SpaceType
<1>5. FamilyTree' /\ TasksAgree' /\ \A b \in Actor : Live(b)' <=> Live(b)
  BY <1>1, TreeKept, Zenon
<1>6. PidsLeft'
  <2>1. Forking' = Forking \cup {p} /\ next_pid' = next_pid
    BY <1>1, <1>3, Ids, Zenon DEF Forking, TreeUnmoved
  <2> QED
    BY <1>1, <2>1, Zenon DEF PidsLeft, PidsFor
<1>7. /\ new_space'[p] = next_space /\ next_space # None /\ todo[p] = <<>> /\ new_space[p] = None
      /\ \A b \in Actor : b # p => new_space'[b] = new_space[b]
  BY <1>1, <1>2, <1>3, Ids, ZenonT(30) DEF SpaceType, LifecycleInv, PlacesAgree, Frees, Installs
<1>8. PlacesAgree'
  BY <1>1, <1>3, <1>5, <1>7, Ids, SMTT(60) DEF LifecycleInv, PlacesAgree, Frees, Installs
<1>9. SpacesHeld'
  <2>1. /\ Installing(p) = None /\ Installing(p)' = next_space
        /\ \A b \in Actor : b # p => Installing(b)' = Installing(b)
        /\ \A b \in Actor : Freeing(b)' = Freeing(b)
    BY <1>1, <1>3, <1>7, Zenon DEF Installing, Freeing
  <2>2. SpacesHeld /\ registered \subseteq Space /\ \A b \in Actor : IsInjective(todo'[b])
    BY <1>1, <1>2, Zenon DEF LifecycleInv, SpacesHeld, SpaceType
  <2>3. PICK n \in Space : n = next_space
    BY <1>1, Zenon
  <2> QED
    BY <1>1, <1>2, <2>1, <2>2, <2>3, HeldByInstaller, Zenon DEF TreeUnmoved
<1>10. SpacesOwned'
  BY <1>1, <1>3, <1>5, <1>7 DEF LifecycleInv, SpacesOwned, DispatchSafe, Live
<1>11. ActiveIsCurrent' /\ active' \in Space \cup {None}
  BY <1>1, <1>2, <1>3, ActiveKept, Zenon DEF LifecycleInv
<1> QED
  BY <1>1, <1>2, <1>3, <1>4, <1>5, <1>6, <1>8, <1>9, <1>10, <1>11, TypeKept, Zenon DEF LifecycleInv

\* The first step of an exec: a space, and a note of the old one, still the process's.
LEMMA ExecRegisterStep == ASSUME LifecycleInv, NEW p \in Pid, ExecRegister(p) PROVE LifecycleInv'
<1> DEFINE old == IF task_space[p] = None THEN <<>> ELSE <<task_space[p]>>
<1>1. /\ Run(p, "user", "exec_own") /\ Dispatch(p) /\ next_space \in Space
      /\ registered' = registered \cup {next_space}
      /\ new_space' = [new_space EXCEPT ![p] = next_space] /\ next_space' = next_space + 1
      /\ todo' = [todo EXCEPT ![p] = old]
      /\ TreeUnmoved /\ UNCHANGED <<address_space, released_spaces, task_space, owned>>
  BY Zenon DEF ExecRegister, TreeUnmoved, processVars, taskVars
<1>2. TypeOK /\ SpaceType /\ p \in Actor /\ "exec_own" \in Place
  BY Ids, Zenon DEF LifecycleInv, TypeOK, SpaceType, Place
<1>3. /\ pc' \in [Actor -> Place] /\ pc[p] = "user" /\ pc'[p] = "exec_own"
      /\ \A b \in Actor : b # p => pc'[b] = pc[b]
      /\ current' = p /\ Live(p)
  BY <1>1, <1>2, RunMoves, Zenon
<1>4. old \in Seq(Space) /\ IsInjective(old)
  <2>1. CASE task_space[p] = None
    BY <2>1 DEF IsInjective
  <2>2. CASE task_space[p] # None
    <3>1. task_space[p] \in Space
      BY <1>2, <2>2, Zenon DEF SpaceType
    <3>2. <<task_space[p]>> \in Seq(Space) /\ IsInjective(<<task_space[p]>>)
      BY <3>1 DEF IsInjective
    <3> QED
      BY <2>2, <3>2, Zenon
  <2> QED
    BY <2>1, <2>2, Zenon
<1> HIDE DEF old
<1>5. SpaceType'
  <2>1. next_space' \in 1..(MaxSpace + 1)
    BY <1>1, LifecycleAssumption DEF Space
  <2> QED
    BY <1>1, <1>2, <1>4, <2>1, Zenon DEF SpaceType
<1>6. FamilyTree' /\ TasksAgree' /\ \A b \in Actor : Live(b)' <=> Live(b)
  BY <1>1, TreeKept, Zenon
<1>7. PidsLeft'
  BY <1>1, <1>2, <1>3, PidsKept, Zenon DEF LifecycleInv, TreeUnmoved
<1>8. /\ new_space'[p] = next_space /\ next_space # None /\ todo[p] = <<>> /\ new_space[p] = None
      /\ todo'[p] = old
      /\ \A b \in Actor : b # p => new_space'[b] = new_space[b] /\ todo'[b] = todo[b]
  BY <1>1, <1>2, <1>3, Ids, ZenonT(60) DEF SpaceType, LifecycleInv, PlacesAgree, Frees, Installs
<1>9. PlacesAgree'
  <2>1. todo'[p] = IF task_space'[p] = None THEN <<>> ELSE <<task_space'[p]>>
    BY <1>1, <1>8, Zenon DEF old
  <2>2. \A b \in Actor : pc'[b] \in {"exec_own", "exec_table", "exec_task"}
            => todo'[b] = IF task_space'[b] = None THEN <<>> ELSE <<task_space'[b]>>
    BY <1>1, <1>3, <1>8, <2>1, ZenonT(60) DEF LifecycleInv, PlacesAgree
  <2> QED
    BY <1>1, <1>3, <1>6, <1>8, <2>2, Ids, SMTT(60) DEF LifecycleInv, PlacesAgree, Frees, Installs
<1>10. SpacesHeld'
  <2>1. /\ Installing(p) = None /\ Installing(p)' = next_space
        /\ \A b \in Actor : b # p => Installing(b)' = Installing(b)
    BY <1>1, <1>3, <1>8, Zenon DEF Installing
  <2>2. Freeing(p) = {}
    BY <1>3, <1>8 DEF Freeing, Range
  <2>3. \A b \in Actor : Freeing(b)' = Freeing(b)
    BY <1>3, <1>8, <2>2, Zenon DEF Freeing
  <2>4. \A b \in Actor : IsInjective(todo'[b])
    BY <1>4, <1>8, Zenon DEF LifecycleInv, SpacesHeld
  <2>5. SpacesHeld /\ registered \subseteq Space
    BY <1>2, Zenon DEF LifecycleInv, SpaceType
  <2>6. PICK n \in Space : n = next_space
    BY <1>1, Zenon
  <2> QED
    BY <1>1, <1>2, <2>1, <2>3, <2>4, <2>5, <2>6, HeldByInstaller, Zenon DEF TreeUnmoved
<1>11. SpacesOwned'
  BY <1>1, <1>3, <1>6, <1>8 DEF LifecycleInv, SpacesOwned, DispatchSafe, Live
<1>12. ActiveIsCurrent' /\ active' \in Space \cup {None}
  BY <1>1, <1>2, <1>3, ActiveKept, Zenon DEF LifecycleInv
<1> QED
  BY <1>1, <1>2, <1>3, <1>5, <1>6, <1>7, <1>9, <1>10, <1>11, <1>12, TypeKept, Zenon DEF LifecycleInv

\* The space at the head of a task's list is one it frees.
LEMMA HeadIsFreed ==
    ASSUME LifecycleInv, NEW a \in Actor, pc[a] \in {"release", "unregister"}, todo[a] # <<>>
    PROVE  /\ Head(todo[a]) \in Space /\ Head(todo[a]) \in Freeing(a)
           /\ Freeing(a) = Range(todo[a])
           /\ Tail(todo[a]) \in Seq(Space) /\ IsInjective(Tail(todo[a]))
           /\ Range(Tail(todo[a])) = Range(todo[a]) \ {Head(todo[a])}
<1>1. todo[a] \in Seq(Space) /\ IsInjective(todo[a])
  BY Zenon DEF LifecycleInv, TypeOK, SpacesHeld
<1>2. Freeing(a) = Range(todo[a])
  BY Zenon DEF Freeing
<1> QED
  BY <1>1, <1>2, TailDrops, ZenonT(60)

\* What one task frees is no other's: nobody runs on it or installs it.
LEMMA FreedIsUnused ==
    ASSUME LifecycleInv, NEW a \in Actor, NEW h \in Space, h \in Freeing(a)
    PROVE  /\ \A b \in Actor : Installing(b) # h
           /\ \A b \in Actor : h \in Freeing(b) => b = a
           /\ \A q \in table : address_space[q] # h
<1>1. a \in ByFreeing(h)
  BY Zenon DEF ByFreeing
<1>2. ByFreeing(h) = {a} /\ ByProcess(h) = {} /\ ByInstalling(h) = {}
  BY <1>1, Sole, Zenon DEF LifecycleInv
<1> QED
  BY <1>2, Zenon DEF ByFreeing, ByProcess, ByInstalling

\* register_owned: the space of a fork or an exec is now owned; nobody frees it.
LEMMA OwnStep ==
    ASSUME LifecycleInv, NEW p \in Pid, NEW from, NEW to, Own(p, from, to),
           <<from, to>> \in {<<"fork_own", "fork_spawn">>, <<"exec_own", "exec_table">>}
    PROVE  LifecycleInv'
<1> DEFINE n == new_space[p]
<1>1. /\ Run(p, from, to) /\ Dispatch(p) /\ owned' = owned \cup {n} /\ TreeUnmoved
      /\ UNCHANGED <<address_space, released_spaces, task_space, registered, next_space,
                     new_space, todo>>
  BY Zenon DEF Own, TreeUnmoved, processVars, taskVars, localVars
<1>2. /\ TypeOK /\ SpaceType /\ p \in Actor /\ to \in Place
      /\ (from = "fork_own" /\ to = "fork_spawn") \/ (from = "exec_own" /\ to = "exec_table")
  BY Ids, Zenon DEF LifecycleInv, TypeOK, SpaceType, Place
<1>3. /\ pc' \in [Actor -> Place] /\ pc[p] = from /\ pc'[p] = to
      /\ \A b \in Actor : b # p => pc'[b] = pc[b]
      /\ current' = p /\ Live(p)
  BY <1>1, <1>2, RunMoves, Zenon
<1>4. n \in Space /\ Installing(p) = n /\ n \in registered
  <2>1. n # None /\ Installing(p) = n
    BY <1>2, <1>3, Zenon DEF LifecycleInv, PlacesAgree, Installs, Installing
  <2>2. n \in Space
    BY <1>2, <2>1, Zenon DEF SpaceType
  <2>3. p \in ByInstalling(n)
    BY <1>2, <2>1, Zenon DEF ByInstalling
  <2> QED
    BY <2>1, <2>2, <2>3, Sole, Zenon DEF LifecycleInv
<1>5. SpaceType'
  BY <1>1, <1>2, <1>4, Zenon DEF SpaceType
<1>6. FamilyTree' /\ TasksAgree' /\ \A b \in Actor : Live(b)' <=> Live(b)
  BY <1>1, TreeKept, Zenon
<1>7. PidsLeft'
  BY <1>1, <1>2, <1>3, PidsKept, Zenon DEF LifecycleInv, TreeUnmoved
<1>8. PlacesAgree'
  BY <1>1, <1>2, <1>3, <1>6, Ids, ZenonT(60) DEF LifecycleInv, PlacesAgree, Frees, Installs
<1>9. SpacesHeld'
  <2>1. \A b \in Actor : Freeing(b)' = Freeing(b) /\ Installing(b)' = Installing(b)
    BY <1>1, <1>2, <1>3, Ids, Zenon DEF Freeing, Installing, LifecycleInv, PlacesAgree, Frees
  <2> QED
    BY <1>1, <2>1, HeldKept, Zenon DEF LifecycleInv, SpacesHeld, TreeUnmoved
<1>10. SpacesOwned'
  <2>1. ASSUME NEW a \in Actor, pc[a] = "unregister" PROVE Head(todo[a]) # n
    <3>1. Head(todo[a]) \in Space /\ Head(todo[a]) \in Freeing(a)
      BY <2>1, HeadIsFreed, Zenon DEF LifecycleInv, PlacesAgree
    <3>2. Installing(p) # Head(todo[a])
      BY <1>2, <3>1, FreedIsUnused, Zenon
    <3> QED
      BY <1>4, <3>2, Zenon
  <2>2. owned' \subseteq registered'
    BY <1>1, <1>4, Zenon DEF LifecycleInv, SpacesOwned
  <2>3. \A a \in Actor : pc'[a] = "unregister" => Head(todo'[a]) \notin owned'
    BY <1>1, <1>2, <1>3, <2>1, Zenon DEF LifecycleInv, SpacesOwned
  <2>4. \A a \in Actor : pc'[a] \in {"fork_spawn", "exec_table", "exec_task", "exec_activate"}
                         => new_space'[a] \in owned'
    BY <1>1, <1>3, Zenon DEF LifecycleInv, SpacesOwned
  <2>5. DispatchSafe'
    BY <1>1, <1>6, Zenon DEF LifecycleInv, SpacesOwned, DispatchSafe, Live
  <2> QED
    BY <2>2, <2>3, <2>4, <2>5, Zenon DEF SpacesOwned
<1>11. ActiveIsCurrent' /\ active' \in Space \cup {None}
  BY <1>1, <1>2, <1>3, ActiveKept, Zenon DEF LifecycleInv
<1> QED
  BY <1>1, <1>2, <1>3, <1>5, <1>6, <1>7, <1>8, <1>9, <1>10, <1>11, TypeKept, Zenon DEF LifecycleInv

\* set_address_space, first the process table: exec now holds the old space, to free it.
LEMMA ExecSetProcessStep ==
    ASSUME LifecycleInv, NEW p \in Pid, ExecSetProcess(p) PROVE LifecycleInv'
<1> DEFINE n == new_space[p]
           old == address_space[p]
<1>1. /\ Run(p, "exec_table", "exec_task") /\ Dispatch(p) /\ TreeUnmoved
      /\ address_space' = [address_space EXCEPT ![p] = n]
      /\ UNCHANGED <<released_spaces, task_space, registered, owned, next_space, new_space, todo>>
  BY Zenon DEF ExecSetProcess, TreeUnmoved, taskVars, spaceVars, localVars
<1>2. TypeOK /\ SpaceType /\ p \in Actor /\ "exec_task" \in Place
  BY Ids, Zenon DEF LifecycleInv, TypeOK, SpaceType, Place
<1>3. /\ pc' \in [Actor -> Place] /\ pc[p] = "exec_table" /\ pc'[p] = "exec_task"
      /\ \A b \in Actor : b # p => pc'[b] = pc[b]
      /\ current' = p /\ Live(p)
  BY <1>1, <1>2, RunMoves, Zenon
<1>4. /\ n \in Space /\ Installing(p) = n /\ old \in Space \cup {None} /\ old = task_space[p]
      /\ todo[p] = IF old = None THEN <<>> ELSE <<old>>
  <2>1. /\ n # None /\ Installing(p) = n /\ old = task_space[p]
        /\ todo[p] = IF old = None THEN <<>> ELSE <<old>>
    BY <1>2, <1>3, Zenon DEF LifecycleInv, PlacesAgree, Installs, Installing
  <2> QED
    BY <1>2, <2>1, Zenon DEF SpaceType
<1>5. /\ address_space' \in [Pid -> Space \cup {None}] /\ address_space'[p] = n
      /\ \A q \in Pid : q # p => address_space'[q] = address_space[q]
  BY <1>1, <1>2, <1>4, Zenon DEF SpaceType
<1>6. SpaceType'
  BY <1>1, <1>2, <1>5, Zenon DEF SpaceType
<1>7. FamilyTree' /\ TasksAgree' /\ \A b \in Actor : Live(b)' <=> Live(b)
  BY <1>1, TreeKept, Zenon
<1>8. PidsLeft'
  BY <1>1, <1>2, <1>3, PidsKept, Zenon DEF LifecycleInv, TreeUnmoved
<1>9. PlacesAgree'
  BY <1>1, <1>2, <1>3, <1>5, <1>7, Ids, ZenonT(60) DEF LifecycleInv, PlacesAgree, Frees, Installs
<1>10. SpacesHeld'
  <2>1. /\ Installing(p)' = None /\ \A b \in Actor : b # p => Installing(b)' = Installing(b)
        /\ Freeing(p) = {} /\ \A b \in Actor : b # p => Freeing(b)' = Freeing(b)
    BY <1>1, <1>3, Zenon DEF Installing, Freeing
  <2>2. Freeing(p)' = {old} \ {None}
    <3>1. Freeing(p)' = Range(todo[p])
      BY <1>1, <1>3, Zenon DEF Freeing
    <3>2. Range(<<>>) = {} /\ Range(<<old>>) = {old}
      BY DEF Range
    <3> QED
      BY <1>4, <3>1, <3>2, Zenon
  <2>3. p \in table /\ table \subseteq Pid
    BY <1>2, <1>3, Zenon DEF LifecycleInv, TasksAgree, TypeOK
  <2>4. SpacesHeld /\ \A b \in Actor : IsInjective(todo'[b])
    BY <1>1, Zenon DEF LifecycleInv, SpacesHeld
  <2>5. PICK m \in Space : m = n
    BY <1>4, Zenon
  <2>6. PICK o \in Space \cup {None} : o = old
    BY <1>4, Zenon
  <2>7. /\ Installing(p) = m /\ address_space[p] = o /\ address_space'[p] = m
        /\ Freeing(p)' = {o} \ {None}
        /\ \A q \in table : q # p => address_space'[q] = address_space[q]
        /\ UNCHANGED <<table, released_spaces, registered, next_space>>
    BY <1>1, <1>4, <1>5, <2>2, <2>3, <2>5, <2>6, Zenon DEF TreeUnmoved
  <2> QED
    BY <1>2, <2>1, <2>3, <2>4, <2>7, HeldByExec, Zenon
<1>11. SpacesOwned'
  BY <1>1, <1>3, <1>7, Zenon DEF LifecycleInv, SpacesOwned, DispatchSafe, Live
<1>12. ActiveIsCurrent' /\ active' \in Space \cup {None}
  BY <1>1, <1>2, <1>3, ActiveKept, Zenon DEF LifecycleInv
<1> QED
  BY <1>1, <1>2, <1>3, <1>6, <1>7, <1>8, <1>9, <1>10, <1>11, <1>12, TypeKept, Zenon DEF LifecycleInv

\* ... then the TCB: from here on the task is dispatched on the new space, which is owned.
LEMMA ExecSetTaskStep == ASSUME LifecycleInv, NEW p \in Pid, ExecSetTask(p) PROVE LifecycleInv'
<1> DEFINE n == new_space[p]
<1>1. /\ Run(p, "exec_task", "exec_activate") /\ Dispatch(p) /\ TreeUnmoved
      /\ task_space' = [task_space EXCEPT ![p] = n]
      /\ UNCHANGED <<address_space, released_spaces, registered, owned, next_space, new_space,
                     todo>>
  BY Zenon DEF ExecSetTask, TreeUnmoved, processVars, spaceVars, localVars
<1>2. TypeOK /\ SpaceType /\ p \in Actor /\ "exec_activate" \in Place
  BY Ids, Zenon DEF LifecycleInv, TypeOK, SpaceType, Place
<1>3. /\ pc' \in [Actor -> Place] /\ pc[p] = "exec_task" /\ pc'[p] = "exec_activate"
      /\ \A b \in Actor : b # p => pc'[b] = pc[b]
      /\ current' = p /\ Live(p)
  BY <1>1, <1>2, RunMoves, Zenon
<1>4. n \in Space /\ n \in owned /\ address_space[p] = n
  <2>1. n \in owned /\ address_space[p] = n
    BY <1>2, <1>3, Zenon DEF LifecycleInv, PlacesAgree, SpacesOwned
  <2> QED
    BY <1>2, <2>1, Zenon DEF SpaceType
<1>5. /\ task_space' \in [Actor -> Space \cup {None}] /\ task_space'[p] = n
      /\ \A b \in Actor : b # p => task_space'[b] = task_space[b]
  BY <1>1, <1>2, <1>4, Zenon DEF SpaceType
<1>6. SpaceType'
  BY <1>1, <1>2, <1>5, Zenon DEF SpaceType
<1>7. FamilyTree' /\ TasksAgree' /\ \A b \in Actor : Live(b)' <=> Live(b)
  BY <1>1, TreeKept, Zenon
<1>8. PidsLeft'
  BY <1>1, <1>2, <1>3, PidsKept, Zenon DEF LifecycleInv, TreeUnmoved
<1>9. PlacesAgree'
  <2>1. \A b \in Actor : pc'[b] \in {"exec_own", "exec_table", "exec_task"}
            => todo'[b] = IF task_space'[b] = None THEN <<>> ELSE <<task_space'[b]>>
    BY <1>1, <1>3, <1>5, Zenon DEF LifecycleInv, PlacesAgree
  <2>2. \A q \in Pid : Live(q)' /\ pc'[q] # "exec_task" => task_space'[q] = address_space'[q]
    BY <1>1, <1>3, <1>4, <1>5, <1>7, Ids, ZenonT(60) DEF LifecycleInv, PlacesAgree
  <2>3. \A q \in Pid : pc'[q] \in {"exec_task", "exec_activate"}
                       => address_space'[q] = new_space'[q]
    BY <1>1, <1>3, Ids, Zenon DEF LifecycleInv, PlacesAgree
  <2>4. task_space'[Reaper] = None /\ new_space'[Reaper] = None
    BY <1>1, <1>5, Ids, Zenon DEF LifecycleInv, PlacesAgree
  <2> QED
    BY <1>1, <1>2, <1>3, <1>7, <2>1, <2>2, <2>3, <2>4, Ids, SMTT(30)
       DEF LifecycleInv, PlacesAgree, Frees, Installs
<1>10. SpacesHeld'
  <2>1. \A b \in Actor : Freeing(b)' = Freeing(b) /\ Installing(b)' = Installing(b)
    BY <1>1, <1>3, Zenon DEF Freeing, Installing
  <2> QED
    BY <1>1, <2>1, HeldKept, Zenon DEF LifecycleInv, SpacesHeld, TreeUnmoved
<1>11. SpacesOwned'
  BY <1>1, <1>3, <1>4, <1>5, <1>7, Zenon DEF LifecycleInv, SpacesOwned, DispatchSafe, Live
<1>12. ActiveIsCurrent' /\ active' \in Space \cup {None}
  BY <1>1, <1>2, <1>3, Zenon DEF ActiveIsCurrent, Dispatch, Loaded, TypeOK
<1> QED
  BY <1>1, <1>2, <1>3, <1>6, <1>7, <1>8, <1>9, <1>10, <1>11, <1>12, TypeKept, Zenon DEF LifecycleInv

\* activate_if_changed: the task's own space is loaded before the old one is freed.
LEMMA ExecActivateStep == ASSUME LifecycleInv, NEW p \in Pid, ExecActivate(p) PROVE LifecycleInv'
<1>1. /\ Run(p, "exec_activate", "release") /\ active' = new_space[p] /\ TreeUnmoved
      /\ new_space' = [new_space EXCEPT ![p] = None]
      /\ UNCHANGED <<address_space, released_spaces, task_space, registered, owned, next_space,
                     todo>>
  BY Zenon DEF ExecActivate, TreeUnmoved, processVars, taskVars, spaceVars
<1>2. TypeOK /\ SpaceType /\ p \in Actor /\ "release" \in Place
  BY Ids, Zenon DEF LifecycleInv, TypeOK, SpaceType, Place
<1>3. /\ pc' \in [Actor -> Place] /\ pc[p] = "exec_activate" /\ pc'[p] = "release"
      /\ \A b \in Actor : b # p => pc'[b] = pc[b]
      /\ current' = p /\ Live(p)
  BY <1>1, <1>2, RunMoves, Zenon
<1>4. task_space[p] = new_space[p]
  BY <1>3, Zenon DEF LifecycleInv, PlacesAgree
<1>5. /\ new_space' \in [Actor -> Space \cup {None}] /\ new_space'[p] = None
      /\ \A b \in Actor : b # p => new_space'[b] = new_space[b]
  BY <1>1, <1>2, Zenon DEF SpaceType
<1>6. SpaceType'
  BY <1>1, <1>2, <1>5, Zenon DEF SpaceType
<1>7. FamilyTree' /\ TasksAgree' /\ \A b \in Actor : Live(b)' <=> Live(b)
  BY <1>1, TreeKept, Zenon
<1>8. PidsLeft'
  BY <1>1, <1>2, <1>3, PidsKept, Zenon DEF LifecycleInv, TreeUnmoved
<1>9. PlacesAgree'
  <2>1. \A q \in Pid : pc'[q] # "user" => Live(q)'
    BY <1>3, <1>7, Ids, Zenon DEF LifecycleInv, PlacesAgree
  <2>2. \A b \in Actor : new_space'[b] # None <=> pc'[b] \in Installs
    BY <1>3, <1>5, Zenon DEF LifecycleInv, PlacesAgree, Installs
  <2>3. \A b \in Actor : /\ todo'[b] # <<>> => pc'[b] \in Frees
                         /\ pc'[b] = "unregister" => todo'[b] # <<>>
    BY <1>1, <1>3, Zenon DEF LifecycleInv, PlacesAgree, Frees
  <2>4. \A b \in Actor : pc'[b] \in {"exec_own", "exec_table", "exec_task"}
            => todo'[b] = IF task_space'[b] = None THEN <<>> ELSE <<task_space'[b]>>
    BY <1>1, <1>3, Zenon DEF LifecycleInv, PlacesAgree
  <2>5. \A q \in Pid : Live(q)' /\ pc'[q] # "exec_task" => task_space'[q] = address_space'[q]
    BY <1>1, <1>3, <1>7, Ids, Zenon DEF LifecycleInv, PlacesAgree
  <2>6. \A q \in Pid : pc'[q] \in {"exec_task", "exec_activate"}
                       => address_space'[q] = new_space'[q]
    BY <1>1, <1>3, <1>5, Ids, Zenon DEF LifecycleInv, PlacesAgree
  <2>7. task_space'[Reaper] = None /\ new_space'[Reaper] = None
    BY <1>1, <1>5, Ids, Zenon DEF LifecycleInv, PlacesAgree
  <2> QED
    BY <2>1, <2>2, <2>3, <2>4, <2>5, <2>6, <2>7, Zenon DEF PlacesAgree
<1>10. SpacesHeld'
  <2>1. \A b \in Actor : Freeing(b)' = Freeing(b) /\ Installing(b)' = Installing(b)
    BY <1>1, <1>3, <1>5, Zenon DEF Freeing, Installing
  <2> QED
    BY <1>1, <2>1, HeldKept, Zenon DEF LifecycleInv, SpacesHeld, TreeUnmoved
<1>11. SpacesOwned'
  BY <1>1, <1>3, <1>5, <1>7, Zenon DEF LifecycleInv, SpacesOwned, DispatchSafe, Live
<1>12. ActiveIsCurrent' /\ active' \in Space \cup {None}
  BY <1>1, <1>2, <1>3, <1>4, Zenon DEF ActiveIsCurrent, SpaceType
<1> QED
  BY <1>1, <1>2, <1>3, <1>6, <1>7, <1>8, <1>9, <1>10, <1>11, <1>12, TypeKept, Zenon DEF LifecycleInv

---------------------------------------------------------------------------
(* Freeing, for exec, for wait4 and in the reaper *)

\* release, first section: nobody that could still run is on the space that goes.
LEMMA ReleaseOwnedStep == ASSUME LifecycleInv, NEW a \in Actor, ReleaseOwned(a) PROVE LifecycleInv'
<1> DEFINE h == Head(todo[a])
<1>1. /\ Run(a, "release", "unregister") /\ Dispatch(a) /\ todo[a] # <<>>
      /\ owned' = owned \ {h} /\ TreeUnmoved
      /\ UNCHANGED <<address_space, released_spaces, task_space, registered, next_space,
                     new_space, todo>>
  BY Zenon DEF ReleaseOwned, TreeUnmoved, processVars, taskVars, localVars
<1>2. TypeOK /\ SpaceType /\ "unregister" \in Place
  BY Zenon DEF LifecycleInv, TypeOK, SpaceType, Place
<1>3. /\ pc' \in [Actor -> Place] /\ pc[a] = "release" /\ pc'[a] = "unregister"
      /\ \A b \in Actor : b # a => pc'[b] = pc[b]
      /\ current' = a /\ Live(a)
  BY <1>1, <1>2, RunMoves, Zenon
<1>4. SpaceType'
  BY <1>1, <1>2, Zenon DEF SpaceType
<1>5. FamilyTree' /\ TasksAgree' /\ \A b \in Actor : Live(b)' <=> Live(b)
  BY <1>1, TreeKept, Zenon
<1>6. PidsLeft'
  BY <1>1, <1>2, <1>3, PidsKept, Zenon DEF LifecycleInv, TreeUnmoved
<1>7. PlacesAgree'
  BY <1>1, <1>2, <1>3, <1>5, Ids, ZenonT(60) DEF LifecycleInv, PlacesAgree, Frees, Installs
<1>8. SpacesHeld'
  <2>1. \A b \in Actor : Freeing(b)' = Freeing(b) /\ Installing(b)' = Installing(b)
    BY <1>1, <1>3, Zenon DEF Freeing, Installing
  <2> QED
    BY <1>1, <2>1, HeldKept, Zenon DEF LifecycleInv, SpacesHeld, TreeUnmoved
<1>9. /\ h \in Space /\ h \in Freeing(a) /\ \A b \in Actor : Installing(b) # h
      /\ \A b \in Actor : h \in Freeing(b) => b = a
      /\ \A q \in table : address_space[q] # h
  BY <1>1, <1>3, HeadIsFreed, FreedIsUnused
<1>10. ASSUME NEW b \in Actor, Live(b) PROVE task_space[b] # h
  <2>1. CASE b = Reaper
    BY <1>9, <2>1, Ids, Zenon DEF LifecycleInv, PlacesAgree
  <2>2. CASE b \in Pid /\ pc[b] # "exec_task"
    <3>1. b \in table /\ task_space[b] = address_space[b]
      BY <1>10, <2>2, Zenon DEF LifecycleInv, TasksAgree, PlacesAgree
    <3> QED
      BY <1>9, <3>1, Zenon
  <2>3. CASE pc[b] = "exec_task"
    <3>1. SUFFICES ASSUME task_space[b] = h PROVE FALSE
      BY Zenon
    <3>2. todo[b] = <<h>>
      BY <1>9, <2>3, <3>1, Ids, Zenon DEF LifecycleInv, PlacesAgree
    <3>3. h \in Freeing(b)
      <4>1. h \in Range(<<h>>)
        BY DEF Range
      <4> QED
        BY <2>3, <3>2, <4>1, Zenon DEF Freeing
    <3> QED
      BY <1>3, <1>9, <2>3, <3>3, Zenon
  <2> QED
    BY <2>1, <2>2, <2>3, Zenon DEF Actor
<1>11. ASSUME NEW b \in Actor,
              pc[b] \in {"fork_spawn", "exec_table", "exec_task", "exec_activate"}
       PROVE  new_space[b] # h
  <2>1. CASE pc[b] \in {"fork_spawn", "exec_table"}
    BY <1>9, <2>1, Zenon DEF Installing
  <2>2. CASE pc[b] \in {"exec_task", "exec_activate"}
    <3>1. b # Reaper
      BY <2>2, Zenon DEF LifecycleInv, PlacesAgree, Installs
    <3>2. b \in Pid /\ b \in table /\ address_space[b] = new_space[b]
      BY <2>2, <3>1, Zenon DEF Actor, LifecycleInv, PlacesAgree, TasksAgree
    <3> QED
      BY <1>9, <3>2, Zenon
  <2> QED
    BY <1>11, <2>1, <2>2, Zenon
<1>12. SpacesOwned'
  <2> HIDE DEF h
  <2>1. owned' \subseteq registered'
    BY <1>1, Zenon DEF LifecycleInv, SpacesOwned
  <2>2. \A b \in Actor : pc'[b] = "unregister" => Head(todo'[b]) \notin owned'
    <3>1. Head(todo'[a]) = h
      BY <1>1, Zenon DEF h
    <3> QED
      BY <1>1, <1>3, <3>1, Zenon DEF LifecycleInv, SpacesOwned
  <2>3. \A b \in Actor : pc'[b] \in {"fork_spawn", "exec_table", "exec_task", "exec_activate"}
                         => new_space'[b] \in owned'
    BY <1>1, <1>3, <1>11, Zenon DEF LifecycleInv, SpacesOwned
  <2>4. DispatchSafe'
    BY <1>1, <1>5, <1>10, Zenon DEF LifecycleInv, SpacesOwned, DispatchSafe, Live
  <2> QED
    BY <2>1, <2>2, <2>3, <2>4, Zenon DEF SpacesOwned
<1>13. ActiveIsCurrent' /\ active' \in Space \cup {None}
  BY <1>1, <1>2, <1>3, ActiveKept, Zenon DEF LifecycleInv
<1> QED
  BY <1>1, <1>2, <1>3, <1>4, <1>5, <1>6, <1>7, <1>8, <1>12, <1>13, TypeKept, Zenon DEF LifecycleInv

\* ... second section: the space is gone and has no holder.
LEMMA UnregisterStep == ASSUME LifecycleInv, NEW a \in Actor, Unregister(a) PROVE LifecycleInv'
<1> DEFINE h == Head(todo[a])
           rest == Tail(todo[a])
<1>1. /\ Run(a, "unregister", "release") /\ Dispatch(a) /\ registered' = registered \ {h}
      /\ todo' = [todo EXCEPT ![a] = rest] /\ TreeUnmoved
      /\ UNCHANGED <<address_space, released_spaces, task_space, owned, next_space, new_space>>
  BY Zenon DEF Unregister, TreeUnmoved, processVars, taskVars
<1>2. TypeOK /\ SpaceType /\ "release" \in Place
  BY Zenon DEF LifecycleInv, TypeOK, SpaceType, Place
<1>3. /\ pc' \in [Actor -> Place] /\ pc[a] = "unregister" /\ pc'[a] = "release"
      /\ \A b \in Actor : b # a => pc'[b] = pc[b]
      /\ current' = a /\ Live(a)
  BY <1>1, <1>2, RunMoves, Zenon
<1>4. todo[a] # <<>> /\ h \notin owned
  BY <1>3, Zenon DEF LifecycleInv, PlacesAgree, SpacesOwned
<1>5. /\ h \in Space /\ h \in Freeing(a) /\ Freeing(a) = Range(todo[a])
      /\ rest \in Seq(Space) /\ IsInjective(rest) /\ Range(rest) = Range(todo[a]) \ {h}
  BY <1>3, <1>4, HeadIsFreed, Zenon
<1> HIDE DEF h, rest
<1>6. /\ todo' \in [Actor -> Seq(Space)] /\ todo'[a] = rest
      /\ \A b \in Actor : b # a => todo'[b] = todo[b]
  BY <1>1, <1>2, <1>5, Zenon DEF SpaceType
<1>7. SpaceType'
  BY <1>1, <1>2, <1>6, Zenon DEF SpaceType
<1>8. FamilyTree' /\ TasksAgree' /\ \A b \in Actor : Live(b)' <=> Live(b)
  BY <1>1, TreeKept, Zenon
<1>9. PidsLeft'
  BY <1>1, <1>2, <1>3, PidsKept, Zenon DEF LifecycleInv, TreeUnmoved
<1>10. PlacesAgree'
  <2>1. \A b \in Actor : /\ todo'[b] # <<>> => pc'[b] \in Frees
                         /\ pc'[b] = "unregister" => todo'[b] # <<>>
    BY <1>3, <1>6, ZenonT(60) DEF LifecycleInv, PlacesAgree, Frees
  <2>2. \A b \in Actor : pc'[b] \in {"exec_own", "exec_table", "exec_task"}
            => todo'[b] = IF task_space'[b] = None THEN <<>> ELSE <<task_space'[b]>>
    BY <1>1, <1>3, <1>6, Zenon DEF LifecycleInv, PlacesAgree
  <2> QED
    BY <1>1, <1>2, <1>3, <1>8, <2>1, <2>2, Ids, SMTT(30) DEF LifecycleInv, PlacesAgree, Installs
<1>11. SpacesHeld'
  <2>1. /\ \A b \in Actor : Installing(b)' = Installing(b)
        /\ \A b \in Actor : b # a => Freeing(b)' = Freeing(b)
        /\ Freeing(a)' = Range(rest)
    BY <1>1, <1>3, <1>6, Zenon DEF Freeing, Installing
  <2>2. SpacesHeld /\ \A b \in Actor : IsInjective(todo'[b])
    BY <1>5, <1>6, Zenon DEF LifecycleInv, SpacesHeld
  <2>3. PICK n \in Space : n = h
    BY <1>5, Zenon
  <2>4. /\ n \in Freeing(a) /\ registered' = registered \ {n} /\ Freeing(a)' = Freeing(a) \ {n}
        /\ UNCHANGED <<table, address_space, released_spaces, next_space>>
    BY <1>1, <1>5, <2>1, <2>3, Zenon DEF TreeUnmoved
  <2> QED
    BY <2>1, <2>2, <2>4, HeldNoMore, Zenon
<1>12. SpacesOwned'
  BY <1>1, <1>3, <1>4, <1>6, <1>8, Zenon DEF LifecycleInv, SpacesOwned, DispatchSafe, Live
<1>13. ActiveIsCurrent' /\ active' \in Space \cup {None}
  BY <1>1, <1>2, <1>3, ActiveKept, Zenon DEF LifecycleInv
<1> QED
  BY <1>1, <1>2, <1>3, <1>7, <1>8, <1>9, <1>10, <1>11, <1>12, <1>13, TypeKept, Zenon
     DEF LifecycleInv

\* release_reaped_spaces: what is on the list is this task's now.
LEMMA TakeReleasedStep == ASSUME LifecycleInv, NEW a \in Actor, TakeReleased(a) PROVE LifecycleInv'
<1>1. /\ Run(a, "take", "release") /\ Dispatch(a) /\ released_spaces' = <<>>
      /\ todo' = [todo EXCEPT ![a] = released_spaces] /\ TreeUnmoved
      /\ UNCHANGED <<address_space, task_space, registered, owned, next_space, new_space>>
  BY Zenon DEF TakeReleased, TreeUnmoved, taskVars, spaceVars
<1>2. TypeOK /\ SpaceType /\ "release" \in Place
  BY Zenon DEF LifecycleInv, TypeOK, SpaceType, Place
<1>3. /\ pc' \in [Actor -> Place] /\ pc[a] = "take" /\ pc'[a] = "release"
      /\ \A b \in Actor : b # a => pc'[b] = pc[b]
      /\ current' = a /\ Live(a)
  BY <1>1, <1>2, RunMoves, Zenon
<1>4. todo[a] = <<>>
  BY <1>3, Zenon DEF LifecycleInv, PlacesAgree, Frees
<1>5. /\ todo' \in [Actor -> Seq(Space)] /\ todo'[a] = released_spaces
      /\ \A b \in Actor : b # a => todo'[b] = todo[b]
  BY <1>1, <1>2, Zenon DEF SpaceType
<1>6. SpaceType'
  BY <1>1, <1>2, <1>5 DEF SpaceType
<1>7. FamilyTree' /\ TasksAgree' /\ \A b \in Actor : Live(b)' <=> Live(b)
  BY <1>1, TreeKept, Zenon
<1>8. PidsLeft'
  BY <1>1, <1>2, <1>3, PidsKept, Zenon DEF LifecycleInv, TreeUnmoved
<1>9. PlacesAgree'
  <2>1. \A b \in Actor : new_space'[b] # None <=> pc'[b] \in Installs
    BY <1>1, <1>3, Zenon DEF LifecycleInv, PlacesAgree, Installs
  <2>2. \A b \in Actor : /\ todo'[b] # <<>> => pc'[b] \in Frees
                         /\ pc'[b] = "unregister" => todo'[b] # <<>>
    BY <1>3, <1>5, SMTT(30) DEF LifecycleInv, PlacesAgree, Frees
  <2>3. \A b \in Actor : pc'[b] \in {"exec_own", "exec_table", "exec_task"}
            => todo'[b] = IF task_space'[b] = None THEN <<>> ELSE <<task_space'[b]>>
    BY <1>1, <1>3, <1>5, Zenon DEF LifecycleInv, PlacesAgree
  <2>4. \A p \in Pid : /\ pc'[p] # "user" => Live(p)'
                       /\ Live(p)' /\ pc'[p] # "exec_task" => task_space'[p] = address_space'[p]
                       /\ pc'[p] \in {"exec_task", "exec_activate"}
                          => address_space'[p] = new_space'[p]
    BY <1>1, <1>3, <1>7, Ids, Zenon DEF LifecycleInv, PlacesAgree
  <2> QED
    BY <1>1, <2>1, <2>2, <2>3, <2>4, Zenon DEF LifecycleInv, PlacesAgree
<1>10. SpacesHeld'
  <2>1. /\ \A b \in Actor : Installing(b)' = Installing(b)
        /\ \A b \in Actor : b # a => Freeing(b)' = Freeing(b)
        /\ Freeing(a)' = Range(released_spaces)
    BY <1>1, <1>3, <1>5, Zenon DEF Freeing, Installing
  <2>2. Freeing(a) = {}
    BY <1>3, <1>4 DEF Freeing, Range
  <2>3. SpacesHeld /\ released_spaces \in Seq(Space)
    BY <1>2, Zenon DEF LifecycleInv, SpaceType
  <2>4. UNCHANGED <<table, address_space, registered, next_space>>
    BY <1>1, Zenon DEF TreeUnmoved
  <2> QED
    BY <1>1, <1>5, <2>1, <2>2, <2>3, <2>4, HeldByTaker, Zenon
<1>11. SpacesOwned'
  BY <1>1, <1>3, <1>5, <1>7, Zenon DEF LifecycleInv, SpacesOwned, DispatchSafe, Live
<1>12. ActiveIsCurrent' /\ active' \in Space \cup {None}
  BY <1>1, <1>2, <1>3, ActiveKept, Zenon DEF LifecycleInv
<1> QED
  BY <1>1, <1>2, <1>3, <1>6, <1>7, <1>8, <1>9, <1>10, <1>11, <1>12, TypeKept, Zenon DEF LifecycleInv

---------------------------------------------------------------------------
(* A process comes and a process goes *)

\* spawn_forked: the child enters the tree below a parent that has not exited.
LEMMA ChildJoinsTree ==
    ASSUME LifecycleInv, NEW p \in table, ~exit_status[p], NEW c \in Pid, c \notin table,
           table' = table \cup {c}, parent' = [parent EXCEPT ![c] = p],
           children' = [children EXCEPT ![p] = Append(@, c), ![c] = <<>>],
           exit_status' = exit_status
    PROVE  /\ FamilyTree' /\ parent' \in [Pid -> Pid \cup {None}]
           /\ children' \in [Pid -> Seq(Pid)] /\ parent'[INIT_PID] = None
<1>1. /\ table \subseteq Pid /\ p \in Pid /\ p # c /\ children \in [Pid -> Seq(Pid)]
      /\ parent \in [Pid -> Pid \cup {None}]
  BY Zenon DEF LifecycleInv, TypeOK
<1>2. /\ \A q \in Pid : Range(children[q]) = {x \in table : parent[x] = q}
                        /\ IsInjective(children[q])
      /\ \A q \in table \ {INIT_PID} : parent[q] \in table /\ ~exit_status[parent[q]]
      /\ parent[INIT_PID] = None /\ INIT_PID \in table
  BY Zenon DEF LifecycleInv, FamilyTree, TasksAgree
<1>3. /\ parent' \in [Pid -> Pid \cup {None}] /\ parent'[c] = p
      /\ \A x \in Pid : x # c => parent'[x] = parent[x]
  BY <1>1, Zenon
<1> DEFINE more == Append(children[p], c)
<1>4. more \in Seq(Pid) /\ Range(more) = Range(children[p]) \cup {c} /\ IsInjective(more)
  <2>1. children[p] \in Seq(Pid) /\ c \notin Range(children[p]) /\ IsInjective(children[p])
    BY <1>1, <1>2, Zenon
  <2> QED
    BY <2>1, AppendAdds, ZenonT(60)
<1>5. children' = [children EXCEPT ![p] = more, ![c] = <<>>]
  BY Zenon
<1> HIDE DEF more
<1>6. children' \in [Pid -> Seq(Pid)]
  <2>1. <<>> \in Seq(Pid)
    OBVIOUS
  <2> QED
    BY <1>1, <1>4, <1>5, <2>1, Zenon
<1>7. \A q \in Pid : children'[q] = IF q = c THEN <<>> ELSE IF q = p THEN more ELSE children[q]
  BY <1>1, <1>5, Zenon
<1>8. \A q \in table' \ {INIT_PID} : parent'[q] \in table' /\ ~exit_status'[parent'[q]]
  BY <1>1, <1>2, <1>3
<1>9. ASSUME NEW q \in Pid
      PROVE  Range(children'[q]) = {x \in table' : parent'[x] = q} /\ IsInjective(children'[q])
  <2>1. CASE q = c
    <3>1. \A x \in table' : parent'[x] # q
      BY <1>1, <1>2, <1>3, <2>1, Ids, SMTT(60)
    <3>2. Range(<<>>) = {} /\ IsInjective(<<>>)
      BY DEF Range, IsInjective
    <3>3. children'[q] = <<>> /\ {x \in table' : parent'[x] = q} = {}
      BY <1>7, <2>1, <3>1, Zenon
    <3> QED
      BY <3>2, <3>3, Zenon
  <2>2. CASE q = p
    <3>1. {x \in table' : parent'[x] = q} = {x \in table : parent[x] = p} \cup {c}
      BY <1>1, <1>3, <2>2, Zenon
    <3> QED
      BY <1>1, <1>2, <1>4, <1>7, <2>2, <3>1, Zenon
  <2>3. CASE q \notin {c, p}
    <3>1. {x \in table' : parent'[x] = q} = {x \in table : parent[x] = q}
      BY <1>1, <1>3, <2>3, ZenonT(60)
    <3> QED
      BY <1>2, <1>7, <2>3, <3>1, Zenon
  <2> QED
    BY <2>1, <2>2, <2>3, Zenon
<1>10. parent'[INIT_PID] = None
  BY <1>2, <1>3, Ids, Zenon
<1> QED
  BY <1>3, <1>6, <1>8, <1>9, <1>10, Zenon DEF FamilyTree

\* A collected child leaves the tree; it had exited, so nobody is below it.
LEMMA ChildLeavesTree ==
    ASSUME LifecycleInv, NEW p \in Pid, NEW c \in table, parent[c] = p, exit_status[c],
           table' = table \ {c}, parent' = [parent EXCEPT ![c] = None],
           children' = [q \in Pid |-> Without([children EXCEPT ![p] = Without(@, c)][q], c)],
           exit_status' = exit_status
    PROVE  /\ FamilyTree' /\ parent' \in [Pid -> Pid \cup {None}]
           /\ children' \in [Pid -> Seq(Pid)] /\ parent'[INIT_PID] = None
           /\ c # INIT_PID
<1>1. /\ table \subseteq Pid /\ c \in Pid /\ children \in [Pid -> Seq(Pid)]
      /\ parent \in [Pid -> Pid \cup {None}]
  BY Zenon DEF LifecycleInv, TypeOK
<1>2. /\ \A q \in Pid : Range(children[q]) = {x \in table : parent[x] = q}
                        /\ IsInjective(children[q])
      /\ \A q \in table \ {INIT_PID} : parent[q] \in table /\ ~exit_status[parent[q]]
      /\ parent[INIT_PID] = None /\ INIT_PID \in table
  BY Zenon DEF LifecycleInv, FamilyTree, TasksAgree
<1>3. /\ parent' \in [Pid -> Pid \cup {None}] /\ parent'[c] = None
      /\ \A x \in Pid : x # c => parent'[x] = parent[x]
  BY <1>1, Zenon
<1>4. c # INIT_PID
  BY <1>2, Ids, Zenon
<1>5. \A q \in table' \ {INIT_PID} : parent'[q] \in table' /\ ~exit_status'[parent'[q]]
  BY <1>1, <1>2, <1>3
<1> DEFINE chl == [children EXCEPT ![p] = Without(@, c)]
<1>6. ASSUME NEW q \in Pid
      PROVE  /\ chl[q] \in Seq(Pid) /\ IsInjective(chl[q])
             /\ Range(chl[q]) \ {c} = Range(children[q]) \ {c}
  <2>1. children[q] \in Seq(Pid) /\ IsInjective(children[q])
    BY <1>1, <1>2, Zenon
  <2>2. CASE q = p
    <3>1. chl[q] = Without(children[q], c)
      BY <1>1, <2>2, Zenon
    <3> QED
      BY <2>1, <3>1, WithoutDrops
  <2>3. CASE q # p
    <3>1. chl[q] = children[q]
      BY <1>1, <2>3, Zenon
    <3> QED
      BY <2>1, <3>1, Zenon
  <2> QED
    BY <2>2, <2>3, Zenon
<1>7. children' = [q \in Pid |-> Without(chl[q], c)]
  BY Zenon
<1> HIDE DEF chl
<1>8. ASSUME NEW q \in Pid
      PROVE  /\ children'[q] \in Seq(Pid) /\ IsInjective(children'[q])
             /\ Range(children'[q]) = Range(children[q]) \ {c}
  <2>1. children'[q] = Without(chl[q], c)
    BY <1>7, Zenon
  <2>2. /\ Without(chl[q], c) \in Seq(Pid) /\ IsInjective(Without(chl[q], c))
        /\ Range(Without(chl[q], c)) = Range(chl[q]) \ {c}
    BY <1>6, WithoutDrops
  <2> QED
    BY <1>6, <2>1, <2>2, Zenon
<1>9. ASSUME NEW q \in Pid PROVE Range(children'[q]) = {x \in table' : parent'[x] = q}
  <2>1. {x \in table' : parent'[x] = q} = {x \in table : parent[x] = q} \ {c}
    BY <1>1, <1>3, Zenon
  <2> QED
    BY <1>2, <1>8, <2>1, Zenon
<1>10. children' \in [Pid -> Seq(Pid)]
  BY <1>7, <1>8, Zenon
<1>11. parent'[INIT_PID] = None
  BY <1>2, <1>3, <1>4, Ids, Zenon
<1> QED
  BY <1>3, <1>4, <1>5, <1>8, <1>9, <1>10, <1>11, Zenon DEF FamilyTree

\* A fork about to spawn has a pid left.
LEMMA PidForFork ==
    ASSUME LifecycleInv, NEW p \in Pid, p \in Forking
    PROVE  /\ next_pid \in Pid
           /\ \E g \in [Forking \ {p} -> (next_pid + 1)..MaxPid] : IsInjective(g)
<1>1. PICK f \in [Forking -> next_pid..MaxPid] : IsInjective(f)
  BY Zenon DEF LifecycleInv, PidsLeft, PidsFor
<1>2. next_pid \in Nat /\ next_pid >= 1 /\ MaxPid \in Nat /\ f[p] \in next_pid..MaxPid
  BY LifecycleAssumption DEF LifecycleInv, TypeOK
<1> DEFINE g == [q \in Forking \ {p} |-> IF f[q] = next_pid THEN f[p] ELSE f[q]]
<1>3. ASSUME NEW q \in Forking, NEW r \in Forking, f[q] = f[r] PROVE q = r
  BY <1>1, <1>3, Zenon DEF IsInjective
<1>4. ASSUME NEW q \in Forking \ {p} PROVE g[q] \in (next_pid + 1)..MaxPid
  <2>1. f[q] \in next_pid..MaxPid /\ f[q] # f[p]
    BY <1>1, <1>3, Zenon
  <2> QED
    BY <1>2, <2>1
<1>5. ASSUME NEW q \in Forking \ {p}, NEW r \in Forking \ {p}, g[q] = g[r] PROVE q = r
  BY <1>3, <1>5, Zenon
<1>6. g \in [Forking \ {p} -> (next_pid + 1)..MaxPid] /\ IsInjective(g)
  BY <1>4, <1>5, Zenon DEF IsInjective
<1> QED
  BY <1>2, <1>6 DEF Pid

\* spawn_forked: a process, its task and its space at once.
LEMMA ForkSpawnStep == ASSUME LifecycleInv, NEW p \in Pid, ForkSpawn(p) PROVE LifecycleInv'
<1>1. Run(p, "fork_spawn", "user") /\ Dispatch(p) /\ TypeOK /\ SpaceType /\ p \in Actor
  BY Ids, Zenon DEF ForkSpawn, LifecycleInv, TypeOK, SpaceType
<1>2. /\ pc' \in [Actor -> Place] /\ pc[p] = "fork_spawn" /\ pc'[p] = "user"
      /\ \A b \in Actor : b # p => pc'[b] = pc[b]
      /\ current' = p /\ Live(p)
  BY <1>1, RunMoves, Zenon DEF Place
<1>3. p \in Forking
  BY <1>2, Zenon DEF Forking
<1>4. PICK c \in Pid : c = next_pid
  BY <1>3, PidForFork, Zenon
<1>5. PICK n \in Space : n = new_space[p] /\ n \in owned /\ Installing(p) = n
  BY <1>1, <1>2, Zenon DEF LifecycleInv, SpacesOwned, SpaceType, Installing
<1>6. /\ next_pid' = c + 1
      /\ table' = table \cup {c} /\ parent' = [parent EXCEPT ![c] = p]
      /\ children' = [children EXCEPT ![p] = Append(@, c), ![c] = <<>>]
      /\ threads' = [threads EXCEPT ![c] = TRUE]
      /\ address_space' = [address_space EXCEPT ![c] = n]
      /\ task_state' = [task_state EXCEPT ![c] = "Ready"]
      /\ task_space' = [task_space EXCEPT ![c] = n]
      /\ new_space' = [new_space EXCEPT ![p] = None]
      /\ UNCHANGED <<exit_status, released_spaces, exit_queue, child_wait, reaper_wait,
                     registered, owned, next_space, target, found, todo>>
  BY <1>4, <1>5, Zenon DEF ForkSpawn, spaceVars
<1>7. /\ c \in Actor /\ c \notin table /\ ~exit_status[c] /\ c # p /\ ~Live(c) /\ pc[c] = "user"
      /\ p \in table /\ ~exit_status[p]
  <2>1. p \in table /\ ~exit_status[p] /\ c \in Actor
    BY <1>2, Ids, Zenon DEF LifecycleInv, TasksAgree
  <2>2. c \notin table /\ ~exit_status[c]
    BY <1>4 DEF LifecycleInv, TasksAgree, Pid
  <2> QED
    BY <2>1, <2>2, ZenonT(30) DEF LifecycleInv, TasksAgree, PlacesAgree
<1>8. /\ FamilyTree' /\ parent' \in [Pid -> Pid \cup {None}]
      /\ children' \in [Pid -> Seq(Pid)] /\ parent'[INIT_PID] = None
  BY <1>1, <1>6, <1>7, ChildJoinsTree, Zenon
<1>9. /\ task_state' \in [Actor -> {"Absent", "Ready", "Blocked", "Exited"}]
      /\ Live(c)' /\ \A b \in Actor : b # c => task_state'[b] = task_state[b]
      /\ \A b \in Actor : b # c => (Live(b)' <=> Live(b))
  BY <1>1, <1>6, <1>7, Zenon DEF Live, TypeOK
<1>10. /\ task_space' \in [Actor -> Space \cup {None}] /\ task_space'[c] = n
       /\ \A b \in Actor : b # c => task_space'[b] = task_space[b]
       /\ address_space' \in [Pid -> Space \cup {None}] /\ address_space'[c] = n
       /\ \A q \in Pid : q # c => address_space'[q] = address_space[q]
       /\ new_space' \in [Actor -> Space \cup {None}] /\ new_space'[p] = None
       /\ \A b \in Actor : b # p => new_space'[b] = new_space[b]
  BY <1>1, <1>5, <1>6, <1>7, Zenon DEF SpaceType
<1>11. TasksAgree'
  <2>1. \A q \in Pid : Live(q)' <=> q \in table' /\ ~exit_status'[q]
    BY <1>1, <1>6, <1>7, <1>9, Ids, SMTT(60) DEF LifecycleInv, TasksAgree
  <2>2. \A q \in Pid : q >= next_pid' => q \notin table' /\ ~exit_status'[q]
    <3>1. \A q \in Pid : q >= c + 1 => q >= c /\ q # c
      BY <1>7 DEF Pid
    <3> QED
      BY <1>1, <1>4, <1>6, <3>1, Zenon DEF LifecycleInv, TasksAgree
  <2>3. \A b \in child_wait' \cup reaper_wait' : task_state'[b] = "Blocked"
    <3>1. \A b \in child_wait \cup reaper_wait : b \in Actor /\ task_state[b] = "Blocked" /\ b # c
      BY <1>1, <1>7, Ids, SMTT(30) DEF LifecycleInv, TasksAgree, TypeOK, Live
    <3> QED
      BY <1>1, <1>6, <1>9, <3>1, ZenonT(60)
  <2> QED
    BY <1>1, <1>6, <1>8, <2>1, <2>2, <2>3, ZenonT(60) DEF LifecycleInv, TasksAgree
<1>12. PidsLeft' /\ next_pid' \in 2..(MaxPid + 1)
  <2>1. Forking' = Forking \ {p}
    BY <1>2, Ids, Zenon DEF Forking
  <2>2. c \in Nat /\ c >= 2 /\ c <= MaxPid /\ MaxPid \in Nat
    BY <1>1, <1>4, LifecycleAssumption DEF TypeOK, Pid
  <2>3. \E g \in [Forking' -> (next_pid')..MaxPid] : IsInjective(g)
    BY <1>3, <1>4, <1>6, <2>1, PidForFork, Zenon
  <2> QED
    BY <1>6, <2>2, <2>3 DEF PidsLeft, PidsFor
<1>13. PlacesAgree'
  <2>1. \A q \in Pid : pc'[q] # "user" => Live(q)'
    BY <1>2, <1>9, Ids, Zenon DEF LifecycleInv, PlacesAgree
  <2>2. \A b \in Actor : new_space'[b] # None <=> pc'[b] \in Installs
    BY <1>2, <1>10, ZenonT(60) DEF LifecycleInv, PlacesAgree, Installs
  <2>3. \A b \in Actor : /\ todo'[b] # <<>> => pc'[b] \in Frees
                         /\ pc'[b] = "unregister" => todo'[b] # <<>>
    BY <1>1, <1>2, <1>6, Zenon DEF LifecycleInv, PlacesAgree, Frees
  <2>4. \A b \in Actor : pc'[b] \in {"exec_own", "exec_table", "exec_task"}
            => todo'[b] = IF task_space'[b] = None THEN <<>> ELSE <<task_space'[b]>>
    <3>1. \A b \in Actor : pc'[b] \in {"exec_own", "exec_table", "exec_task"}
            => b # p /\ b # c /\ pc[b] = pc'[b]
      BY <1>2, <1>7, Zenon
    <3> QED
      BY <1>1, <1>6, <1>10, <3>1, ZenonT(60) DEF LifecycleInv, PlacesAgree
  <2>5. \A q \in Pid : Live(q)' /\ pc'[q] # "exec_task" => task_space'[q] = address_space'[q]
    BY <1>2, <1>9, <1>10, Ids, ZenonT(60) DEF LifecycleInv, PlacesAgree
  <2>6. \A q \in Pid : pc'[q] \in {"exec_task", "exec_activate"}
                       => address_space'[q] = new_space'[q]
    BY <1>2, <1>7, <1>10, Ids, ZenonT(60) DEF LifecycleInv, PlacesAgree
  <2>7. task_space'[Reaper] = None /\ new_space'[Reaper] = None
    <3>1. Reaper \in Actor /\ Reaper # c /\ Reaper # p
      BY Ids
    <3> QED
      BY <1>10, <3>1, Zenon DEF LifecycleInv, PlacesAgree
  <2> QED
    BY <2>1, <2>2, <2>3, <2>4, <2>5, <2>6, <2>7, Zenon DEF PlacesAgree
<1>14. SpacesHeld'
  <2>1. /\ Installing(p)' = None /\ \A b \in Actor : b # p => Installing(b)' = Installing(b)
        /\ \A b \in Actor : Freeing(b)' = Freeing(b)
    BY <1>1, <1>2, <1>6, <1>10, ZenonT(60) DEF Installing, Freeing
  <2>2. /\ SpacesHeld /\ \A b \in Actor : IsInjective(todo'[b])
        /\ \A q \in table : address_space'[q] = address_space[q]
    BY <1>1, <1>6, <1>7, <1>10, Zenon DEF LifecycleInv, SpacesHeld, TypeOK
  <2> QED
    BY <1>1, <1>5, <1>6, <1>7, <1>10, <2>1, <2>2, HeldByChild, Zenon
<1>15. SpacesOwned'
  <2>1. DispatchSafe'
    BY <1>1, <1>5, <1>6, <1>9, <1>10, Zenon DEF LifecycleInv, SpacesOwned, DispatchSafe, Live
  <2> QED
    BY <1>1, <1>2, <1>6, <1>10, <2>1, ZenonT(60) DEF LifecycleInv, SpacesOwned
<1>16. ActiveIsCurrent' /\ active' \in Space \cup {None}
  BY <1>1, <1>2, <1>6, <1>7, <1>10, ActiveKept, Zenon DEF LifecycleInv
<1>17. TypeOK'
  <2>1. threads' \in [Pid -> BOOLEAN] /\ table' \subseteq Pid
    BY <1>1, <1>6, <1>7, Zenon DEF TypeOK
  <2> QED
    BY <1>1, <1>2, <1>6, <1>8, <1>9, <1>10, <1>12, <1>16, <2>1, ZenonT(30) DEF TypeOK
<1> QED
  BY <1>8, <1>11, <1>12, <1>13, <1>14, <1>15, <1>16, <1>17, Zenon DEF LifecycleInv

\* A collected child: its record leaves the table, its space goes to the released list.
LEMMA CollectedStep ==
    ASSUME LifecycleInv, NEW p \in Pid, NEW c \in table, parent[c] = p, exit_status[c], ~threads[c],
           Run(p, "collect", "collect_again"), Dispatch(p),
           parent' = [parent EXCEPT ![c] = None],
           ReapIfEmpty(c, parent', threads, [children EXCEPT ![p] = Without(@, c)]),
           UNCHANGED <<found, target, exit_status, threads, address_space, next_pid, taskVars,
                       spaceVars, new_space, todo>>
    PROVE  LifecycleInv'
<1>1. TypeOK /\ SpaceType /\ p \in Actor /\ c \in Pid /\ "collect_again" \in Place
  BY Ids, Zenon DEF LifecycleInv, TypeOK, SpaceType, Place
<1>2. /\ pc' \in [Actor -> Place] /\ pc[p] = "collect" /\ pc'[p] = "collect_again"
      /\ \A b \in Actor : b # p => pc'[b] = pc[b]
      /\ current' = p /\ Live(p)
  BY <1>1, RunMoves, ZenonT(60)
<1>3. PICK old \in Space \cup {None} : address_space[c] = old
  BY <1>1, Zenon DEF SpaceType
<1>4. parent'[c] = None
  BY <1>1, Zenon DEF TypeOK
<1>5. /\ table' = table \ {c}
      /\ released_spaces' = IF old = None THEN released_spaces ELSE Append(released_spaces, old)
      /\ children' = [q \in Pid |-> Without([children EXCEPT ![p] = Without(@, c)][q], c)]
  BY <1>3, <1>4, Zenon DEF ReapIfEmpty
<1>6. UNCHANGED <<task_state, task_space, exit_queue, child_wait, reaper_wait, registered, owned,
                  next_space>>
  BY Zenon DEF taskVars, spaceVars
<1>7. /\ FamilyTree' /\ parent' \in [Pid -> Pid \cup {None}]
      /\ children' \in [Pid -> Seq(Pid)] /\ parent'[INIT_PID] = None /\ c # INIT_PID
  BY <1>5, ChildLeavesTree, Zenon
<1>8. \A b : Live(b)' <=> Live(b)
  BY <1>6, Zenon DEF Live
<1>9. TasksAgree'
  <2>1. \A q \in Pid : Live(q) <=> q \in table \ {c} /\ ~exit_status[q]
    BY ZenonT(60) DEF LifecycleInv, TasksAgree
  <2> QED
    BY <1>5, <1>6, <1>7, <1>8, <2>1, Zenon DEF LifecycleInv, TasksAgree
<1>10. PidsLeft'
  BY <1>1, <1>2, PidsKept, Zenon DEF LifecycleInv
<1>11. PlacesAgree'
  BY <1>2, <1>6, <1>8, Ids, SMTT(60) DEF LifecycleInv, PlacesAgree, Installs, Frees
<1>12. SpacesHeld'
  <2>1. \A b \in Actor : Freeing(b)' = Freeing(b) /\ Installing(b)' = Installing(b)
    BY <1>2, Zenon DEF Freeing, Installing
  <2>2. SpacesHeld /\ released_spaces \in Seq(Space)
    BY <1>1, Zenon DEF LifecycleInv, SpaceType
  <2> QED
    BY <1>3, <1>5, <1>6, <2>1, <2>2, HeldByReleased, Zenon
<1>13. SpacesOwned'
  BY <1>2, <1>6, Zenon DEF LifecycleInv, SpacesOwned, DispatchSafe
<1>14. ActiveIsCurrent' /\ active' \in Space \cup {None}
  BY <1>1, <1>2, <1>6, ActiveKept, Zenon DEF LifecycleInv
<1>15. TypeOK'
  <2>1. released_spaces' \in Seq(Space) /\ table' \subseteq Pid
    BY <1>1, <1>5 DEF TypeOK
  <2> QED
    BY <1>1, <1>2, <1>6, <1>7, <1>14, <2>1, ZenonT(60) DEF TypeOK
<1> QED
  BY <1>7, <1>9, <1>10, <1>11, <1>12, <1>13, <1>14, <1>15, ZenonT(60) DEF LifecycleInv

\* ProcessTable::wait_child: the child is collected, or is not there to collect any more.
LEMMA CollectStep == ASSUME LifecycleInv, NEW p \in Pid, Collect(p) PROVE LifecycleInv'
<1> DEFINE ok == found[p] \in table /\ parent[found[p]] = p /\ Retired(found[p])
<1>1. CASE ok
  <2>1. PICK c \in table : c = found[p] /\ parent[c] = p /\ Retired(c)
    BY <1>1, Zenon
  <2>2. /\ Run(p, "collect", "collect_again") /\ Dispatch(p)
        /\ parent' = [parent EXCEPT ![c] = None]
        /\ ReapIfEmpty(c, parent', threads, [children EXCEPT ![p] = Without(@, c)])
        /\ UNCHANGED <<found, target, exit_status, threads, address_space, next_pid, taskVars,
                       spaceVars, new_space, todo>>
    BY <1>1, <2>1, Zenon DEF Collect
  <2> QED
    BY <2>1, <2>2, CollectedStep, Zenon DEF Retired
<1>2. CASE ~ok
  <2>1. /\ Run(p, "collect", "user") /\ Dispatch(p)
        /\ found' = [found EXCEPT ![p] = None] /\ target' = [target EXCEPT ![p] = None]
        /\ UNCHANGED <<parent, table, released_spaces, children, exit_status, threads,
                       address_space, next_pid, taskVars, spaceVars, new_space, todo>>
    BY <1>2, Zenon DEF Collect
  <2>2. p \in Actor /\ "collect" \in Quiet \ {"release"} /\ "user" \in Quiet
    BY Ids, Zenon DEF Quiet
  <2>3. target' \in [Actor -> Pid \cup {None}] /\ found' \in [Actor -> Pid \cup {None}]
    BY <2>1, Zenon DEF LifecycleInv, TypeOK
  <2>4. Unmoved /\ UNCHANGED taskVars /\ threads' \in [Pid -> BOOLEAN]
    BY <2>1, Zenon DEF Unmoved, taskVars, spaceVars, LifecycleInv, TypeOK
  <2>5. todo[p] = <<>>
    BY <2>1, <2>2, QuietHands, Zenon DEF Run
  <2> QED
    BY <2>1, <2>2, <2>3, <2>4, <2>5, CalmStep, Zenon
<1> QED
  BY <1>1, <1>2, Zenon

---------------------------------------------------------------------------
(* The invariant holds, and it implies the property *)

LEMMA LifecycleInit == Init => LifecycleInv
<1> SUFFICES ASSUME Init PROVE LifecycleInv
  BY Zenon
<1>1. TypeOK
  BY LifecycleAssumption, Ids DEF Init, TypeOK, Place, Actor, INIT_PID, Pid, None
<1>2. \A p \in Pid : Range(children[p]) = {} /\ IsInjective(children[p])
  BY DEF Init, Range, IsInjective
<1>3. FamilyTree
  BY <1>2, Ids, Zenon DEF Init, FamilyTree
<1>4. TasksAgree
  BY Ids, LifecycleAssumption DEF Init, TasksAgree, Live, INIT_PID
<1>5. PidsLeft
  <2>1. Forking = {}
    BY Ids, Zenon DEF Init, Forking
  <2> DEFINE none == [q \in {} |-> 0]
  <2>2. none \in [{} -> next_pid..MaxPid] /\ IsInjective(none)
    BY Zenon DEF IsInjective
  <2> QED
    BY <2>1, <2>2, Zenon DEF PidsLeft, PidsFor
<1>6. PlacesAgree
  BY Ids, Zenon DEF Init, PlacesAgree, Live, Installs, Frees
<1>7. SpacesHeld
  <2>1. \A a \in Actor : Freeing(a) = {} /\ Installing(a) = None /\ IsInjective(todo[a])
    BY DEF Init, Freeing, Installing, Range, IsInjective
  <2>2. ASSUME NEW s \in Space PROVE Unheld(s)
    <3>1. s # None /\ \A p \in table : address_space[p] = None
      BY Ids, Zenon DEF Init
    <3>2. ByProcess(s) = {} /\ ByFreeing(s) = {} /\ ByInstalling(s) = {}
      BY <2>1, <3>1, Zenon DEF ByProcess, ByFreeing, ByInstalling
    <3>3. ByList(s) = {}
      BY DEF Init, ByList
    <3> QED
      BY <3>2, <3>3, Zenon DEF Unheld
  <2> QED
    BY <2>1, <2>2, Zenon DEF Init, SpacesHeld
<1>8. SpacesOwned
  BY Ids, Zenon DEF Init, SpacesOwned, DispatchSafe
<1>9. ActiveIsCurrent
  BY Ids, Zenon DEF Init, ActiveIsCurrent
<1> QED
  BY <1>1, <1>3, <1>4, <1>5, <1>6, <1>7, <1>8, <1>9, Zenon DEF LifecycleInv

LEMMA LifecycleStep == LifecycleInv /\ [Next]_vars => LifecycleInv'
<1> SUFFICES ASSUME LifecycleInv, [Next]_vars PROVE LifecycleInv'
  BY Zenon
<1>1. ASSUME NEW p \in Pid, Call(p) PROVE LifecycleInv'
  <2>1. CASE ForkRegister(p)
    BY <2>1, ForkRegisterStep, Zenon
  <2>2. CASE ExecRegister(p)
    BY <2>2, ExecRegisterStep, Zenon
  <2>3. CASE Exit(p)
    BY <2>3, ExitStep, Zenon
  <2>4. CASE \E t \in {None} \cup (Pid \ {p}), no_hang \in BOOLEAN : Wait(p, t, no_hang)
    BY <2>4, WaitStep, Zenon
  <2>5. CASE \E c \in Pid : WaitChild(p, c)
    BY <2>5, WaitChildStep, Zenon
  <2> QED
    BY <1>1, <2>1, <2>2, <2>3, <2>4, <2>5, Zenon DEF Call
<1>2. ASSUME NEW p \in Pid, KernelStep(p) PROVE LifecycleInv'
  <2>1. p \in Actor
    BY Ids, Zenon
  <2>2. CASE ForkOwn(p)
    BY <2>2, OwnStep, Zenon DEF ForkOwn
  <2>3. CASE ForkSpawn(p)
    BY <2>3, ForkSpawnStep, Zenon
  <2>4. CASE ExecOwn(p)
    BY <2>4, OwnStep, Zenon DEF ExecOwn
  <2>5. CASE ExecSetProcess(p)
    BY <2>5, ExecSetProcessStep, Zenon
  <2>6. CASE ExecSetTask(p)
    BY <2>6, ExecSetTaskStep, Zenon
  <2>7. CASE ExecActivate(p)
    BY <2>7, ExecActivateStep, Zenon
  <2>8. CASE WaitEvent(p)
    BY <2>8, WaitEventStep, Zenon
  <2>9. CASE Recheck(p)
    BY <2>9, RecheckStep, Zenon
  <2>10. CASE AwaitChild(p)
    BY <2>10, AwaitChildStep, Zenon
  <2>11. CASE Collect(p)
    BY <2>11, CollectStep, Zenon
  <2>12. CASE CollectAgain(p)
    BY <2>12, CollectAgainStep, Zenon
  <2>13. CASE TakeReleased(p)
    BY <2>1, <2>13, TakeReleasedStep, Zenon
  <2>14. CASE ReleaseOwned(p)
    BY <2>1, <2>14, ReleaseOwnedStep, Zenon
  <2>15. CASE Unregister(p)
    BY <2>1, <2>15, UnregisterStep, Zenon
  <2>16. CASE Released(p)
    BY <2>16, ReleasedStep, Zenon
  <2> QED
    BY <1>2, <2>2, <2>3, <2>4, <2>5, <2>6, <2>7, <2>8, <2>9, <2>10, <2>11, <2>12, <2>13, <2>14,
       <2>15, <2>16, SMTT(30) DEF KernelStep
<1>3. ASSUME ReaperStep PROVE LifecycleInv'
  BY <1>3, Ids, ReaperWaitsStep, ReapOneStep, RemoveThreadStep, ReaperWakesStep, TakeReleasedStep,
     ReleaseOwnedStep, UnregisterStep, Zenon DEF ReaperStep
<1>4. CASE UNCHANGED vars
  <2>1. TreeUnmoved /\ UNCHANGED <<address_space, released_spaces, task_space, registered, owned,
                                   next_space, new_space, todo, active, current, pc>>
    BY <1>4, Zenon DEF vars, processVars, taskVars, spaceVars, localVars, TreeUnmoved
  <2>2. FamilyTree' /\ TasksAgree' /\ \A b \in Actor : Live(b)' <=> Live(b)
    BY <2>1, TreeKept, Zenon
  <2>3. TypeOK'
    BY <2>1, Zenon DEF LifecycleInv, TypeOK, TreeUnmoved
  <2>4. PidsLeft'
    BY <2>1, Zenon DEF LifecycleInv, PidsLeft, PidsFor, Forking, TreeUnmoved
  <2>5. PlacesAgree'
    BY <2>1, <2>2, Ids, Zenon DEF LifecycleInv, PlacesAgree
  <2>6. SpacesHeld'
    BY <2>1, HeldKept, Zenon DEF LifecycleInv, TreeUnmoved, SpacesHeld, Freeing, Installing
  <2>7. SpacesOwned' /\ ActiveIsCurrent'
    BY <2>1, Zenon DEF LifecycleInv, SpacesOwned, DispatchSafe, ActiveIsCurrent, TreeUnmoved
  <2> QED
    BY <2>2, <2>3, <2>4, <2>5, <2>6, <2>7, Zenon DEF LifecycleInv
<1> QED
  BY <1>1, <1>2, <1>3, <1>4, Zenon DEF Next

\* A registered space has one holder, whichever of the four kinds it is.
LEMMA HolderCounted == ASSUME LifecycleInv PROVE OneHolder
<1>1. ASSUME NEW s \in Space
      PROVE  IF s \in registered THEN \E h \in Holders(s) : Holders(s) = {h} ELSE Holders(s) = {}
  <2>1. Holders(s) = {<<"process", p>> : p \in ByProcess(s)}
                     \cup {<<"released", i>> : i \in ByList(s)}
                     \cup {<<"freeing", a>> : a \in ByFreeing(s)}
                     \cup {<<"installing", a>> : a \in ByInstalling(s)}
    BY Zenon DEF Holders, ByProcess, ByList, ByFreeing, ByInstalling
  <2>2. CASE s \in registered
    <3>1. HeldOnce(s)
      BY <2>2, Zenon DEF LifecycleInv, SpacesHeld
    <3>2. \E h : Holders(s) = {h}
      <4>1. CASE \E p \in table : ByProcess(s) = {p} /\ ByList(s) = {} /\ ByFreeing(s) = {}
                                  /\ ByInstalling(s) = {}
        <5>1. PICK p : ByProcess(s) = {p}
          BY <4>1, Zenon
        <5>2. Holders(s) = {<<"process", p>>}
          BY <2>1, <4>1, <5>1, Zenon
        <5> QED
          BY <5>2, Zenon
      <4>2. CASE \E i \in DOMAIN released_spaces : ByList(s) = {i} /\ ByProcess(s) = {}
                                  /\ ByFreeing(s) = {} /\ ByInstalling(s) = {}
        <5>1. PICK i : ByList(s) = {i}
          BY <4>2, Zenon
        <5>2. Holders(s) = {<<"released", i>>}
          BY <2>1, <4>2, <5>1, Zenon
        <5> QED
          BY <5>2, Zenon
      <4>3. CASE \E a \in Actor : ByFreeing(s) = {a} /\ ByProcess(s) = {} /\ ByList(s) = {}
                                  /\ ByInstalling(s) = {}
        <5>1. PICK a : ByFreeing(s) = {a}
          BY <4>3, Zenon
        <5>2. Holders(s) = {<<"freeing", a>>}
          BY <2>1, <4>3, <5>1, Zenon
        <5> QED
          BY <5>2, Zenon
      <4>4. CASE \E a \in Actor : ByInstalling(s) = {a} /\ ByProcess(s) = {} /\ ByList(s) = {}
                                  /\ ByFreeing(s) = {}
        <5>1. PICK a : ByInstalling(s) = {a}
          BY <4>4, Zenon
        <5>2. Holders(s) = {<<"installing", a>>}
          BY <2>1, <4>4, <5>1, Zenon
        <5> QED
          BY <5>2, Zenon
      <4> QED
        BY <3>1, <4>1, <4>2, <4>3, <4>4, Zenon DEF HeldOnce
    <3> QED
      BY <2>2, <3>2, Zenon
  <2>3. CASE s \notin registered
    <3>1. Unheld(s)
      BY <2>3, Zenon DEF LifecycleInv, SpacesHeld
    <3>2. Holders(s) = {}
      BY <2>1, <3>1, Zenon DEF Unheld
    <3> QED
      BY <2>3, <3>2, Zenon
  <2> QED
    BY <2>2, <2>3, Zenon
<1> QED
  BY <1>1, Zenon DEF OneHolder, LifecycleInv, SpacesOwned, TypeOK

\* What is about to be freed is not the space of the task that frees it: a live task's space is
\* its process's, and what a task frees is no process's.
LEMMA FreesAnother == ASSUME LifecycleInv PROVE ReleaseInactive
<1> SUFFICES ASSUME NEW a \in Actor, pc[a] = "release", todo[a] # <<>>
             PROVE  Loaded(a) # Head(todo[a])
  BY Zenon DEF ReleaseInactive
<1>1. PICK h \in Space : h = Head(todo[a]) /\ h \in Freeing(a)
  BY HeadIsFreed, Zenon
<1>2. Loaded(a) = task_space[a]
  BY Zenon DEF LifecycleInv, ActiveIsCurrent, Loaded
<1>3. CASE a = Reaper
  BY <1>1, <1>2, <1>3, Ids, Zenon DEF LifecycleInv, PlacesAgree
<1>4. CASE a \in Pid
  <2>1. a \in table /\ task_space[a] = address_space[a]
    BY <1>4, Zenon DEF LifecycleInv, PlacesAgree, TasksAgree
  <2> QED
    BY <1>1, <1>2, <2>1, FreedIsUnused, Zenon
<1> QED
  BY <1>3, <1>4, Zenon DEF Actor

\* However fork, exec, exit, wait4 and the reaper overlap, the process table is a tree whose
\* parents have not exited, each address space has exactly one owner from its registration to
\* its release, a dispatch finds the page tables of the task it selects, and release never
\* frees those that are loaded: for any number of processes and of address spaces.
THEOREM LifecycleIsSound == Spec => []LifecycleSound
<1>1. LifecycleInv => LifecycleSound
  BY HolderCounted, FreesAnother, Zenon
  DEF LifecycleSound, TableConsistent, LoadedIsLive, LifecycleInv, SpacesOwned
<1> QED
  BY LifecycleInit, LifecycleStep, <1>1, PTL DEF Spec
=============================================================================
