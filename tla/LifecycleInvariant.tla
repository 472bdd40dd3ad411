------------------------- MODULE LifecycleInvariant -------------------------
(***************************************************************************)
(* The inductive invariant of ProcessLifecycle, the facts about lists and  *)
(* about the holders of a space that its proof rests on, and the steps     *)
(* that move no address space: wait4, exit and most of the reaper.  The    *)
(* other steps and the theorem are in LifecycleProofs.                     *)
(*                                                                         *)
(* The invariant says, beside LifecycleSound, which tasks are alive and    *)
(* what the local variables of a system call hold at each of its places:   *)
(* the task's own space and its process's are the same one except in the   *)
(* middle of an exec, the list of spaces to free is not shared, and the    *)
(* space loaded is the current task's.                                     *)
(***************************************************************************)
EXTENDS ProcessLifecycle, TLAPS

---------------------------------------------------------------------------
(* The inductive invariant *)

Live(a) == task_state[a] \in {"Ready", "Blocked"}

\* A process in the table that has not exited is what has a live task, and pids are not
\* used twice; those that wait are blocked and those in the exit queue have exited.
TasksAgree ==
    /\ INIT_PID \in table /\ parent[INIT_PID] = None /\ ~exit_status[INIT_PID]
    /\ \A p \in Pid : Live(p) <=> p \in table /\ ~exit_status[p]
    /\ \A p \in Pid : p >= next_pid => p \notin table /\ ~exit_status[p]
    /\ \A a \in child_wait \cup reaper_wait : task_state[a] = "Blocked"
    /\ \A i \in DOMAIN exit_queue : exit_status[exit_queue[i]]

\* The pid that each fork in progress will take exists.
PidsLeft == PidsFor(Forking)

Installs == {"fork_own", "fork_spawn", "exec_own", "exec_table", "exec_task", "exec_activate"}
Frees == {"exec_own", "exec_table", "exec_task", "exec_activate", "release", "unregister"}

\* What the local variables hold at each place.
PlacesAgree ==
    /\ \A p \in Pid : pc[p] # "user" => Live(p)
    /\ \A a \in Actor : new_space[a] # None <=> pc[a] \in Installs
    /\ \A a \in Actor : todo[a] # <<>> => pc[a] \in Frees
    /\ \A a \in Actor : pc[a] = "unregister" => todo[a] # <<>>
    /\ \A a \in Actor : pc[a] \in {"exec_own", "exec_table", "exec_task"}
                        => todo[a] = IF task_space[a] = None THEN <<>> ELSE <<task_space[a]>>
    /\ \A p \in Pid : Live(p) /\ pc[p] # "exec_task" => task_space[p] = address_space[p]
    /\ \A p \in Pid : pc[p] \in {"exec_task", "exec_activate"} => address_space[p] = new_space[p]
    /\ task_space[Reaper] = None /\ new_space[Reaper] = None

\* The four kinds of holder of a space, each by itself.
ByProcess(s) == {p \in table : address_space[p] = s}
ByList(s) == {i \in DOMAIN released_spaces : released_spaces[i] = s}
ByFreeing(s) == {a \in Actor : s \in Freeing(a)}
ByInstalling(s) == {a \in Actor : Installing(a) = s}

Unheld(s) == ByProcess(s) = {} /\ ByList(s) = {} /\ ByFreeing(s) = {} /\ ByInstalling(s) = {}

HeldOnce(s) ==
    \/ /\ \E p \in table : ByProcess(s) = {p}
       /\ ByList(s) = {} /\ ByFreeing(s) = {} /\ ByInstalling(s) = {}
    \/ /\ \E i \in DOMAIN released_spaces : ByList(s) = {i}
       /\ ByProcess(s) = {} /\ ByFreeing(s) = {} /\ ByInstalling(s) = {}
    \/ /\ \E a \in Actor : ByFreeing(s) = {a}
       /\ ByProcess(s) = {} /\ ByList(s) = {} /\ ByInstalling(s) = {}
    \/ /\ \E a \in Actor : ByInstalling(s) = {a}
       /\ ByProcess(s) = {} /\ ByList(s) = {} /\ ByFreeing(s) = {}

\* Registered spaces have one holder and the others none; no list names a space twice.
SpacesHeld ==
    /\ \A s \in Space : IF s \in registered THEN HeldOnce(s) ELSE Unheld(s)
    /\ \A s \in registered : s < next_space
    /\ \A a \in Actor : IsInjective(todo[a])

\* What is still to be used is owned, and what is being unregistered is not.
SpacesOwned ==
    /\ owned \subseteq registered
    /\ \A a \in Actor : pc[a] = "unregister" => Head(todo[a]) \notin owned
    /\ \A a \in Actor : pc[a] \in {"fork_spawn", "exec_table", "exec_task", "exec_activate"}
                        => new_space[a] \in owned
    /\ DispatchSafe

\* The space loaded is the current task's, except just before exec's activate_if_changed.
ActiveIsCurrent == pc[current] # "exec_activate" => active = task_space[current]

LifecycleInv ==
    /\ TypeOK /\ FamilyTree /\ TasksAgree /\ PidsLeft /\ PlacesAgree
    /\ SpacesHeld /\ SpacesOwned /\ ActiveIsCurrent

---------------------------------------------------------------------------
(* Lists without repetition *)

\* An entry at the end.
LEMMA AppendAdds ==
    ASSUME NEW S, NEW s \in Seq(S), NEW c \in S
    PROVE  /\ Append(s, c) \in Seq(S) /\ Range(Append(s, c)) = Range(s) \cup {c}
           /\ IsInjective(s) /\ c \notin Range(s) => IsInjective(Append(s, c))
<1>1. /\ Append(s, c) \in Seq(S) /\ DOMAIN s = 1..Len(s) /\ Len(s) \in Nat
      /\ DOMAIN Append(s, c) = 1..(Len(s) + 1)
      /\ \A i \in 1..Len(s) : Append(s, c)[i] = s[i]
      /\ Append(s, c)[Len(s) + 1] = c
  OBVIOUS
<1> DEFINE t == Append(s, c)
<1> HIDE DEF t
<1>2. Range(t) = Range(s) \cup {c}
  BY <1>1 DEF Range, t
<1>3. ASSUME IsInjective(s), c \notin Range(s) PROVE IsInjective(t)
  <2>1. \A i \in 1..Len(s) : s[i] # c
    BY <1>1, <1>3, Zenon DEF Range
  <2> QED
    BY <1>1, <1>3, <2>1 DEF IsInjective, t
<1> QED
  BY <1>1, <1>2, <1>3, Zenon DEF t

\* One list after another.
LEMMA ConcatAdds ==
    ASSUME NEW S, NEW s \in Seq(S), NEW t \in Seq(S)
    PROVE  /\ s \o t \in Seq(S) /\ Range(s \o t) = Range(s) \cup Range(t)
           /\ IsInjective(s) /\ IsInjective(t) /\ Range(s) \cap Range(t) = {}
              => IsInjective(s \o t)
<1> DEFINE u == s \o t
<1>1. /\ u \in Seq(S) /\ DOMAIN s = 1..Len(s) /\ Len(s) \in Nat
      /\ DOMAIN t = 1..Len(t) /\ Len(t) \in Nat
      /\ DOMAIN u = 1..(Len(s) + Len(t))
      /\ \A i \in 1..(Len(s) + Len(t)) : u[i] = IF i <= Len(s) THEN s[i] ELSE t[i - Len(s)]
  OBVIOUS
<1> HIDE DEF u
<1>2. \A i \in 1..Len(s) : i \in DOMAIN u /\ u[i] = s[i]
  BY <1>1
<1>3. ASSUME NEW i \in 1..Len(t) PROVE Len(s) + i \in DOMAIN u /\ u[Len(s) + i] = t[i]
  <2>1. /\ Len(s) + i \in 1..(Len(s) + Len(t)) /\ ~(Len(s) + i <= Len(s))
        /\ (Len(s) + i) - Len(s) = i
    BY <1>1
  <2>2. u[Len(s) + i] = t[(Len(s) + i) - Len(s)]
    BY <1>1, <2>1, Zenon
  <2> QED
    BY <1>1, <2>1, <2>2, Zenon
<1>4. \A i \in DOMAIN u : \/ i \in 1..Len(s) /\ u[i] = s[i]
                          \/ i - Len(s) \in 1..Len(t) /\ u[i] = t[i - Len(s)]
  BY <1>1
<1>5. Range(u) = Range(s) \cup Range(t)
  <2>1. Range(s) \subseteq Range(u)
    BY <1>1, <1>2, Zenon DEF Range
  <2>2. Range(t) \subseteq Range(u)
    <3>1. ASSUME NEW i \in DOMAIN t PROVE t[i] \in Range(u)
      <4>1. Len(s) + i \in DOMAIN u /\ u[Len(s) + i] = t[i]
        BY <1>1, <1>3, Zenon
      <4> QED
        BY <4>1, Zenon DEF Range
    <3> QED
      BY <3>1, Zenon DEF Range
  <2>3. Range(u) \subseteq Range(s) \cup Range(t)
    BY <1>1, <1>4, Zenon DEF Range
  <2> QED
    BY <2>1, <2>2, <2>3, Zenon
<1>6. ASSUME IsInjective(s), IsInjective(t), Range(s) \cap Range(t) = {}
      PROVE  IsInjective(u)
  <2>1. \A i \in 1..Len(s), j \in 1..Len(t) : s[i] # t[j]
    BY <1>1, <1>6, Zenon DEF Range
  <2>2. SUFFICES ASSUME NEW i \in DOMAIN u, NEW j \in DOMAIN u, u[i] = u[j] PROVE i = j
    BY Zenon DEF IsInjective
  <2>3. CASE i \in 1..Len(s) /\ u[i] = s[i]
    <3>1. j \in 1..Len(s) /\ u[j] = s[j]
      BY <1>4, <2>1, <2>2, <2>3, Zenon
    <3> QED
      BY <1>1, <1>6, <2>2, <2>3, <3>1, Zenon DEF IsInjective
  <2>4. CASE i - Len(s) \in 1..Len(t) /\ u[i] = t[i - Len(s)]
    <3>1. j - Len(s) \in 1..Len(t) /\ u[j] = t[j - Len(s)]
      BY <1>4, <2>1, <2>2, <2>4, Zenon
    <3>2. i - Len(s) = j - Len(s)
      BY <1>1, <1>6, <2>2, <2>4, <3>1, Zenon DEF IsInjective
    <3> QED
      BY <1>1, <3>2
  <2> QED
    BY <1>4, <2>3, <2>4, Zenon
<1> QED
  BY <1>1, <1>5, <1>6, Zenon DEF u

\* The k-th entry dropped from a list.
LEMMA DropOne ==
    ASSUME NEW S, NEW s \in Seq(S), NEW t \in Seq(S), NEW k \in 1..Len(s), IsInjective(s),
           Len(t) = Len(s) - 1,
           \A i \in 1..(Len(s) - 1) : t[i] = IF i < k THEN s[i] ELSE s[i + 1]
    PROVE  Range(t) = Range(s) \ {s[k]} /\ IsInjective(t)
<1> DEFINE old(i) == IF i < k THEN i ELSE i + 1
<1>1. /\ Len(s) \in Nat /\ Len(t) \in Nat /\ k \in Nat
      /\ DOMAIN s = 1..Len(s) /\ DOMAIN t = 1..Len(t)
  OBVIOUS
<1>2. \A i \in DOMAIN t : old(i) \in DOMAIN s /\ old(i) # k
  BY <1>1
<1>3. \A i, j \in DOMAIN t : old(i) = old(j) => i = j
  BY <1>1
<1>4. \A i \in DOMAIN t : t[i] = s[old(i)]
  BY <1>1, Zenon
<1>5. ASSUME NEW j \in DOMAIN s, j # k PROVE \E i \in DOMAIN t : old(i) = j
  <2>1. CASE j < k
    <3>1. j \in DOMAIN t /\ old(j) = j
      BY <1>1, <2>1
    <3> QED
      BY <3>1, Zenon
  <2>2. CASE j > k
    <3>1. j - 1 \in DOMAIN t /\ old(j - 1) = j
      BY <1>1, <2>2
    <3> QED
      BY <3>1, Zenon
  <2> QED
    BY <1>1, <1>5, <2>1, <2>2
<1>6. \A i, j \in DOMAIN s : s[i] = s[j] => i = j
  BY Zenon DEF IsInjective
<1>7. k \in DOMAIN s
  BY <1>1, Zenon
<1> HIDE DEF old
<1>8. IsInjective(t)
  <2>1. SUFFICES ASSUME NEW i \in DOMAIN t, NEW j \in DOMAIN t, t[i] = t[j] PROVE i = j
    BY Zenon DEF IsInjective
  <2>2. s[old(i)] = s[old(j)]
    BY <1>4, <2>1, Zenon
  <2>3. old(i) = old(j)
    BY <1>2, <1>6, <2>2, Zenon
  <2> QED
    BY <1>3, <2>3, Zenon
<1>9. ASSUME NEW i \in DOMAIN t PROVE t[i] \in Range(s) \ {s[k]}
  <2>1. old(i) \in DOMAIN s /\ old(i) # k /\ t[i] = s[old(i)]
    BY <1>2, <1>4, Zenon
  <2>2. s[old(i)] # s[k]
    BY <1>6, <1>7, <2>1, Zenon
  <2> QED
    BY <2>1, <2>2, Zenon DEF Range
<1>10. ASSUME NEW j \in DOMAIN s, s[j] # s[k] PROVE s[j] \in Range(t)
  <2>1. PICK i \in DOMAIN t : old(i) = j
    BY <1>5, <1>10, Zenon
  <2>2. t[i] = s[j]
    BY <1>4, <2>1, Zenon
  <2> QED
    BY <2>2, Zenon DEF Range
<1>11. Range(t) \subseteq Range(s) \ {s[k]}
  BY <1>9, Zenon DEF Range
<1>12. Range(s) \ {s[k]} \subseteq Range(t)
  BY <1>10, Zenon DEF Range
<1> QED
  BY <1>8, <1>11, <1>12, Zenon

\* The head taken off.
LEMMA TailDrops ==
    ASSUME NEW S, NEW s \in Seq(S), s # <<>>, IsInjective(s)
    PROVE  /\ Head(s) \in Range(s) /\ Head(s) \in S /\ Tail(s) \in Seq(S)
           /\ Range(Tail(s)) = Range(s) \ {Head(s)} /\ IsInjective(Tail(s))
<1>1. /\ Len(s) \in Nat /\ 1 \in 1..Len(s) /\ Head(s) = s[1] /\ DOMAIN s = 1..Len(s)
      /\ Tail(s) \in Seq(S) /\ Len(Tail(s)) = Len(s) - 1
      /\ \A i \in 1..(Len(s) - 1) : Tail(s)[i] = s[i + 1]
  OBVIOUS
<1> DEFINE t == Tail(s)
<1>2. t \in Seq(S) /\ Len(t) = Len(s) - 1
      /\ \A i \in 1..(Len(s) - 1) : t[i] = IF i < 1 THEN s[i] ELSE s[i + 1]
  BY <1>1
<1> HIDE DEF t
<1>3. Range(t) = Range(s) \ {s[1]} /\ IsInjective(t)
  BY <1>1, <1>2, DropOne, Zenon
<1>4. s[1] \in Range(s) /\ s[1] \in S
  BY <1>1 DEF Range
<1> QED
  BY <1>1, <1>3, <1>4, Zenon DEF t

\* children.retain drops the one entry that names the child.
LEMMA WithoutDrops ==
    ASSUME NEW S, NEW s \in Seq(S), IsInjective(s), NEW c
    PROVE  /\ Without(s, c) \in Seq(S) /\ Range(Without(s, c)) = Range(s) \ {c}
           /\ IsInjective(Without(s, c))
<1>1. CASE c \notin Range(s)
  BY <1>1, Zenon DEF Without
<1>2. CASE c \in Range(s)
  <2> DEFINE i == CHOOSE j \in DOMAIN s : s[j] = c
             a == SubSeq(s, 1, i - 1)
             b == SubSeq(s, i + 1, Len(s))
  <2>1. i \in DOMAIN s /\ s[i] = c
    BY <1>2, Zenon DEF Range
  <2>2. Without(s, c) = a \o b
    BY <1>2, Zenon DEF Without
  <2> HIDE DEF i
  <2>3. i \in 1..Len(s) /\ Len(s) \in Nat
    BY <2>1
  <2>4. /\ a \in Seq(S) /\ Len(a) = i - 1
        /\ \A j \in 1..(i - 1) : a[j] = s[j]
    BY <2>3
  <2>5. /\ b \in Seq(S) /\ Len(b) = Len(s) - i
        /\ \A j \in 1..(Len(s) - i) : b[j] = s[i + j]
    BY <2>3
  <2> HIDE DEF a, b
  <2> DEFINE t == a \o b
  <2>6. /\ t \in Seq(S) /\ Len(t) = Len(a) + Len(b)
        /\ \A j \in 1..(Len(a) + Len(b)) : t[j] = IF j <= Len(a) THEN a[j] ELSE b[j - Len(a)]
    <3>1. a \in Seq(S) /\ b \in Seq(S)
      BY <2>4, <2>5, Zenon
    <3> QED
      BY <3>1
  <2> HIDE DEF t
  <2>7. Len(t) = Len(s) - 1
    BY <2>3, <2>4, <2>5, <2>6
  <2>8. ASSUME NEW j \in 1..(Len(s) - 1) PROVE t[j] = IF j < i THEN s[j] ELSE s[j + 1]
    <3>1. CASE j < i
      <4>1. j \in 1..(i - 1) /\ j \in 1..(Len(a) + Len(b)) /\ j <= Len(a)
        BY <2>3, <2>4, <2>5, <3>1
      <4> QED
        BY <2>4, <2>6, <3>1, <4>1, Zenon
    <3>2. CASE j >= i
      <4>1. /\ j - Len(a) \in 1..(Len(s) - i) /\ j \in 1..(Len(a) + Len(b)) /\ ~(j <= Len(a))
            /\ i + (j - Len(a)) = j + 1
        BY <2>3, <2>4, <2>5, <3>2
      <4>2. t[j] = b[j - Len(a)]
        BY <2>6, <4>1, Zenon
      <4>3. b[j - Len(a)] = s[i + (j - Len(a))]
        BY <2>5, <4>1, Zenon
      <4>4. ~(j < i)
        BY <2>3, <3>2
      <4> QED
        BY <4>1, <4>2, <4>3, <4>4, Zenon
    <3> QED
      BY <2>3, <3>1, <3>2
  <2>9. Range(t) = Range(s) \ {s[i]} /\ IsInjective(t)
    BY <2>3, <2>6, <2>7, <2>8, DropOne, Zenon
  <2> QED
    BY <2>1, <2>2, <2>6, <2>9, Zenon DEF t
<1> QED
  BY <1>1, <1>2, Zenon

---------------------------------------------------------------------------
(* Steps in general *)

\* The ids are kept apart.
LEMMA Ids ==
    /\ Pid \subseteq Actor /\ Reaper \in Actor /\ Reaper \notin Pid
    /\ INIT_PID \in Pid /\ None \notin Pid /\ None \notin Space /\ Pid \subseteq Nat
BY LifecycleAssumption DEF Actor, Pid, Reaper, INIT_PID, None, Space

\* A task that runs is alive, and only its place changes.
LEMMA RunMoves ==
    ASSUME TypeOK, NEW a \in Actor, NEW from, NEW to \in Place, Run(a, from, to)
    PROVE  /\ pc' \in [Actor -> Place] /\ pc[a] = from /\ pc'[a] = to
           /\ \A b \in Actor : b # a => pc'[b] = pc[b]
           /\ current' = a /\ Live(a) /\ task_state[a] = "Ready"
BY Zenon DEF TypeOK, Run, Live

\* A dispatch loads the task's space, or it is loaded already.
LEMMA ActiveKept ==
    ASSUME TypeOK, ActiveIsCurrent, NEW a \in Actor, pc[a] # "exec_activate", current' = a,
           Dispatch(a), task_space'[a] = task_space[a]
    PROVE  ActiveIsCurrent' /\ active' \in Space \cup {None}
BY Zenon DEF TypeOK, ActiveIsCurrent, Dispatch, Loaded

\* Holders change only with the records and the lists that make them.
LEMMA HeldKept ==
    ASSUME SpacesHeld, UNCHANGED <<table, address_space, released_spaces, registered, next_space>>,
           \A a \in Actor : Freeing(a)' = Freeing(a) /\ Installing(a)' = Installing(a),
           \A a \in Actor : IsInjective(todo'[a])
    PROVE  SpacesHeld'
<1>1. ASSUME NEW s PROVE /\ ByProcess(s)' = ByProcess(s) /\ ByList(s)' = ByList(s)
                         /\ ByFreeing(s)' = ByFreeing(s) /\ ByInstalling(s)' = ByInstalling(s)
  BY Zenon DEF ByProcess, ByList, ByFreeing, ByInstalling
<1>2. ASSUME NEW s PROVE (HeldOnce(s)' <=> HeldOnce(s)) /\ (Unheld(s)' <=> Unheld(s))
  BY <1>1, Zenon DEF HeldOnce, Unheld
<1> QED
  BY <1>2, Zenon DEF SpacesHeld

\* Forks in progress are where they were, unless a step is one of fork's.
LEMMA PidsKept ==
    ASSUME TypeOK, PidsLeft, NEW a \in Actor, next_pid' = next_pid,
           \A b \in Actor : b # a => pc'[b] = pc[b],
           pc[a] \in {"fork_own", "fork_spawn"} <=> pc'[a] \in {"fork_own", "fork_spawn"}
    PROVE  PidsLeft'
<1>1. Forking' = Forking
  BY Ids, Zenon DEF Forking
<1> QED
  BY <1>1, Zenon DEF PidsLeft, PidsFor

---------------------------------------------------------------------------
(* Steps that move neither a process nor a space *)

Quiet == {"user", "take", "release", "waiting", "recheck", "await_child", "collect",
          "collect_again", "reaper_wait", "reap_one", "remove_thread"}

\* What wait4, wait_child and most of the reaper leave alone.
Unmoved == UNCHANGED <<table, parent, children, exit_status, address_space, released_spaces,
                       next_pid, task_space, registered, owned, next_space, new_space, todo>>

\* The types of what they do change.
LocalType ==
    /\ threads \in [Pid -> BOOLEAN]
    /\ task_state \in [Actor -> {"Absent", "Ready", "Blocked", "Exited"}]
    /\ exit_queue \in Seq(Pid) /\ child_wait \subseteq Pid /\ reaper_wait \subseteq {Reaper}
    /\ target \in [Actor -> Pid \cup {None}] /\ found \in [Actor -> Pid \cup {None}]

\* Between two places where a task has no space in hand, the invariant is kept if the tasks
\* that were alive stay alive and the lists of waiting and exited tasks stay true.
LEMMA QuietStep ==
    ASSUME LifecycleInv, NEW a \in Actor, NEW from \in Quiet, NEW to \in Quiet,
           Run(a, from, to), Dispatch(a), todo[a] = <<>>, Unmoved, LocalType',
           \A b \in Actor : Live(b)' <=> Live(b),
           \A b \in child_wait' \cup reaper_wait' : task_state'[b] = "Blocked",
           \A i \in DOMAIN exit_queue' : exit_status[exit_queue'[i]]
    PROVE  LifecycleInv'
<1>1. to \in Place /\ TypeOK
  BY Zenon DEF Quiet, Place, LifecycleInv
<1>2. /\ pc' \in [Actor -> Place] /\ pc[a] = from /\ pc'[a] = to /\ current' = a /\ Live(a)
      /\ \A b \in Actor : b # a => pc'[b] = pc[b]
  BY <1>1, RunMoves, Zenon
<1>3. FamilyTree'
  BY Zenon DEF LifecycleInv, FamilyTree, Unmoved
<1>4. TasksAgree'
  BY Ids, Zenon DEF LifecycleInv, TasksAgree, Unmoved
<1>5. PidsLeft'
  BY <1>2, PidsKept, ZenonT(60) DEF LifecycleInv, Unmoved, Quiet
<1>6. PlacesAgree'
  BY <1>2, Ids, SMTT(60) DEF LifecycleInv, PlacesAgree, Unmoved, Quiet, Installs, Frees
<1>7. SpacesHeld'
  <2>1. ASSUME NEW b \in Actor
        PROVE  Freeing(b)' = Freeing(b) /\ Installing(b)' = Installing(b)
    BY <1>2, Zenon DEF Freeing, Installing, Unmoved, Quiet
  <2> QED
    BY <2>1, HeldKept, Zenon DEF LifecycleInv, Unmoved, SpacesHeld
<1>8. SpacesOwned'
  BY <1>2, Zenon DEF LifecycleInv, SpacesOwned, DispatchSafe, Unmoved, Quiet, Live
<1>9. ActiveIsCurrent' /\ active' \in Space \cup {None}
  BY <1>1, <1>2, ActiveKept, Zenon DEF LifecycleInv, Unmoved, Quiet
<1>10. TypeOK'
  BY <1>1, <1>2, <1>9, Zenon DEF TypeOK, LocalType, Unmoved
<1> QED
  BY <1>3, <1>4, <1>5, <1>6, <1>7, <1>8, <1>9, <1>10, Zenon DEF LifecycleInv

\* A look at ready() gives a child, nothing yet or no child at all.
LEMMA ReadyType ==
    ASSUME TypeOK, NEW p \in Pid, NEW t \in Pid \cup {None}
    PROVE  Ready(p, t) \in Pid \cup {None, NoChild}
<1>1. ExitedChild(p) \in Pid \cup {None}
  <2> DEFINE done(i) == children[p][i] \in table /\ Retired(children[p][i])
             first == {i \in DOMAIN children[p] : done(i) /\ \A j \in 1..(i - 1) : ~done(j)}
  <2>1. ExitedChild(p) = IF first = {} THEN None ELSE children[p][CHOOSE i \in first : TRUE]
    BY Zenon DEF ExitedChild
  <2>2. first # {} => (CHOOSE i \in first : TRUE) \in DOMAIN children[p]
    BY Zenon
  <2>3. \A i \in DOMAIN children[p] : children[p][i] \in Pid
    BY DEF TypeOK
  <2> HIDE DEF first
  <2> QED
    BY <2>1, <2>2, <2>3, Zenon
<1> QED
  BY <1>1, Zenon DEF Ready

\* A task at one of these places has no space in hand.
LEMMA QuietHands ==
    ASSUME LifecycleInv, NEW a \in Actor, pc[a] \in Quiet \ {"release"}
    PROVE  todo[a] = <<>>
BY Zenon DEF LifecycleInv, PlacesAgree, Quiet, Frees

\* What a step that blocks nobody and wakes nobody has to show.
LEMMA CalmStep ==
    ASSUME LifecycleInv, NEW a \in Actor, NEW from \in Quiet, NEW to \in Quiet,
           Run(a, from, to), Dispatch(a), todo[a] = <<>>, Unmoved, UNCHANGED taskVars,
           threads' \in [Pid -> BOOLEAN],
           target' \in [Actor -> Pid \cup {None}], found' \in [Actor -> Pid \cup {None}]
    PROVE  LifecycleInv'
<1>1. LocalType'
  BY Zenon DEF LifecycleInv, TypeOK, LocalType, taskVars
<1>2. \A b \in Actor : Live(b)' <=> Live(b)
  BY Zenon DEF Live, taskVars
<1>3. /\ \A b \in child_wait' \cup reaper_wait' : task_state'[b] = "Blocked"
      /\ \A i \in DOMAIN exit_queue' : exit_status[exit_queue'[i]]
  BY Zenon DEF LifecycleInv, TasksAgree, taskVars
<1> QED
  BY <1>1, <1>2, <1>3, QuietStep, Zenon

\* wait4's first look.
LEMMA WaitStep ==
    ASSUME LifecycleInv, NEW p \in Pid, NEW t \in Pid \cup {None}, NEW no_hang \in BOOLEAN,
           Wait(p, t, no_hang)
    PROVE  LifecycleInv'
<1> DEFINE r == Ready(p, t)
           to == IF r = None /\ ~no_hang THEN "waiting" ELSE AfterReady(r)
<1>1. r \in Pid \cup {None, NoChild}
  BY ReadyType, Zenon DEF LifecycleInv
<1>2. to \in Quiet
  BY Zenon DEF AfterReady, Quiet
<1>3. /\ Run(p, "user", to) /\ Dispatch(p)
      /\ target' = [target EXCEPT ![p] = IF r = None /\ ~no_hang THEN t ELSE None]
      /\ found' = [found EXCEPT ![p] = IF r = NoChild THEN None ELSE r]
      /\ UNCHANGED <<processVars, taskVars, spaceVars, new_space, todo>>
  BY Zenon DEF Wait, Found
<1> HIDE DEF r, to
<1>4. pc[p] = "user" /\ p \in Actor /\ "user" \in Quiet \ {"release"}
  BY <1>3, Ids, Zenon DEF Run, Quiet
<1>5. target' \in [Actor -> Pid \cup {None}] /\ found' \in [Actor -> Pid \cup {None}]
  BY <1>1, <1>3, Zenon DEF LifecycleInv, TypeOK
<1>6. Unmoved /\ UNCHANGED taskVars /\ threads' \in [Pid -> BOOLEAN]
  BY <1>3, Zenon DEF Unmoved, processVars, taskVars, spaceVars, LifecycleInv, TypeOK
<1>7. todo[p] = <<>>
  BY <1>4, QuietHands, Zenon
<1> QED
  BY <1>2, <1>3, <1>4, <1>5, <1>6, <1>7, CalmStep, Zenon

\* The second look.
LEMMA RecheckStep == ASSUME LifecycleInv, NEW p \in Pid, Recheck(p) PROVE LifecycleInv'
<1> DEFINE r == Ready(p, target[p])
           to == AfterReady(r)
<1>1. r \in Pid \cup {None, NoChild}
  <2>1. target[p] \in Pid \cup {None}
    BY Ids, Zenon DEF LifecycleInv, TypeOK
  <2> QED
    BY <2>1, ReadyType, Zenon DEF LifecycleInv
<1>2. to \in Quiet
  BY Zenon DEF AfterReady, Quiet
<1>3. /\ Run(p, "recheck", to) /\ Dispatch(p)
      /\ target' = [target EXCEPT ![p] = None]
      /\ found' = [found EXCEPT ![p] = IF r = NoChild THEN None ELSE r]
      /\ UNCHANGED <<processVars, taskVars, spaceVars, new_space, todo>>
  BY Zenon DEF Recheck, Found
<1> HIDE DEF r, to
<1>4. pc[p] = "recheck" /\ p \in Actor /\ "recheck" \in Quiet \ {"release"}
  BY <1>3, Ids, Zenon DEF Run, Quiet
<1>5. target' \in [Actor -> Pid \cup {None}] /\ found' \in [Actor -> Pid \cup {None}]
  BY <1>1, <1>3, Zenon DEF LifecycleInv, TypeOK
<1>6. Unmoved /\ UNCHANGED taskVars /\ threads' \in [Pid -> BOOLEAN]
  BY <1>3, Zenon DEF Unmoved, processVars, taskVars, spaceVars, LifecycleInv, TypeOK
<1>7. todo[p] = <<>>
  BY <1>4, QuietHands, Zenon
<1> QED
  BY <1>2, <1>3, <1>4, <1>5, <1>6, <1>7, CalmStep, Zenon

\* The kernel's own wait_child.
LEMMA WaitChildStep ==
    ASSUME LifecycleInv, NEW p \in Pid, NEW c \in Pid, WaitChild(p, c) PROVE LifecycleInv'
<1>1. /\ Run(p, "user", "await_child") /\ Dispatch(p) /\ p \in Actor
      /\ "user" \in Quiet \ {"release"} /\ "await_child" \in Quiet
  BY Ids, Zenon DEF WaitChild, Quiet
<1>2. target' \in [Actor -> Pid \cup {None}] /\ found' \in [Actor -> Pid \cup {None}]
  BY Zenon DEF WaitChild, LifecycleInv, TypeOK
<1>3. Unmoved /\ UNCHANGED taskVars /\ threads' \in [Pid -> BOOLEAN]
  BY Zenon DEF WaitChild, Unmoved, processVars, taskVars, spaceVars, LifecycleInv, TypeOK
<1>4. todo[p] = <<>>
  BY <1>1, QuietHands, Zenon DEF Run
<1> QED
  BY <1>1, <1>2, <1>3, <1>4, CalmStep, Zenon

\* A wait or an exec returns.
LEMMA ReleasedStep == ASSUME LifecycleInv, NEW p \in Pid, Released(p) PROVE LifecycleInv'
<1>1. /\ Run(p, "release", "user") /\ Dispatch(p) /\ p \in Actor /\ todo[p] = <<>>
      /\ "release" \in Quiet /\ "user" \in Quiet
  BY Ids, Zenon DEF Released, Quiet
<1>2. target' \in [Actor -> Pid \cup {None}] /\ found' \in [Actor -> Pid \cup {None}]
  BY Zenon DEF Released, LifecycleInv, TypeOK
<1>3. Unmoved /\ UNCHANGED taskVars /\ threads' \in [Pid -> BOOLEAN]
  BY Zenon DEF Released, Unmoved, processVars, taskVars, spaceVars, LifecycleInv, TypeOK
<1> QED
  BY <1>1, <1>2, <1>3, CalmStep, Zenon

\* A process is reaped only where its parent lets go of it: every other process has a parent,
\* or is init, which has not exited.
LEMMA NobodyReaped ==
    ASSUME LifecycleInv, NEW p, NEW thr, ReapIfEmpty(p, parent, thr, children)
    PROVE  UNCHANGED <<table, released_spaces, children>>
<1>1. ~(p \in table /\ parent[p] = None /\ ~thr[p] /\ exit_status[p])
  <2>1. SUFFICES ASSUME p \in table, parent[p] = None PROVE ~exit_status[p]
    BY Zenon
  <2>2. p = INIT_PID
    BY <2>1, Ids, Zenon DEF LifecycleInv, TypeOK, FamilyTree
  <2> QED
    BY <2>2, Zenon DEF LifecycleInv, TasksAgree
<1> QED
  BY <1>1, Zenon DEF ReapIfEmpty

\* The second reap_if_empty of a collection finds nothing to do.
LEMMA CollectAgainStep == ASSUME LifecycleInv, NEW p \in Pid, CollectAgain(p) PROVE LifecycleInv'
<1>1. /\ Run(p, "collect_again", "take") /\ Dispatch(p) /\ p \in Actor
      /\ "collect_again" \in Quiet \ {"release"} /\ "take" \in Quiet
  BY Ids, Zenon DEF CollectAgain, Quiet
<1>2. target' \in [Actor -> Pid \cup {None}] /\ found' \in [Actor -> Pid \cup {None}]
  BY Zenon DEF CollectAgain, LifecycleInv, TypeOK, localVars
<1>3. UNCHANGED <<table, released_spaces, children>>
  BY NobodyReaped, Zenon DEF CollectAgain
<1>4. Unmoved /\ UNCHANGED taskVars /\ threads' \in [Pid -> BOOLEAN]
  BY <1>3, Zenon DEF CollectAgain, Unmoved, taskVars, spaceVars, localVars, LifecycleInv, TypeOK
<1>5. todo[p] = <<>>
  BY <1>1, QuietHands, Zenon DEF Run
<1> QED
  BY <1>1, <1>2, <1>4, <1>5, CalmStep, Zenon

\* The reaper removes the thread and leaves the record to the parent.
LEMMA RemoveThreadStep == ASSUME LifecycleInv, RemoveThread PROVE LifecycleInv'
<1>1. /\ Run(Reaper, "remove_thread", "take") /\ Dispatch(Reaper) /\ Reaper \in Actor
      /\ "remove_thread" \in Quiet \ {"release"} /\ "take" \in Quiet
  BY Ids, Zenon DEF RemoveThread, Quiet
<1>2. target' \in [Actor -> Pid \cup {None}] /\ found' \in [Actor -> Pid \cup {None}]
  BY Zenon DEF RemoveThread, LifecycleInv, TypeOK
<1>3. UNCHANGED <<table, released_spaces, children>>
  BY NobodyReaped, Zenon DEF RemoveThread
<1>4. threads' \in [Pid -> BOOLEAN]
  BY Zenon DEF RemoveThread, LifecycleInv, TypeOK
<1>5. Unmoved /\ UNCHANGED taskVars
  BY <1>3, Zenon DEF RemoveThread, Unmoved, taskVars, spaceVars
<1>6. todo[Reaper] = <<>>
  BY <1>1, QuietHands, Zenon DEF Run
<1> QED
  BY <1>1, <1>2, <1>4, <1>5, <1>6, CalmStep, Zenon

\* wait_event: the task goes on, or it is blocked and on the list.
LEMMA WaitOnStep ==
    ASSUME LifecycleInv, NEW p \in Pid, NEW at \in Quiet \ {"release"}, NEW next \in Quiet,
           NEW holds \in BOOLEAN, WaitOn(p, at, next, holds), UNCHANGED <<target, new_space, todo>>,
           found' \in [Actor -> Pid \cup {None}]
    PROVE  LifecycleInv'
<1> DEFINE to == IF holds THEN next ELSE at
<1>1. /\ Run(p, at, to) /\ Dispatch(p) /\ p \in Actor /\ to \in Quiet
      /\ task_state[p] = "Ready"
  BY Ids, Zenon DEF WaitOn, Run
<1> HIDE DEF to
<1>2. todo[p] = <<>>
  BY <1>1, QuietHands, Zenon DEF Run
<1>3. Unmoved /\ UNCHANGED <<threads, exit_queue, reaper_wait>>
  BY Zenon DEF WaitOn, Unmoved, processVars, spaceVars
<1>4. LocalType'
  BY <1>3, Ids, Zenon DEF WaitOn, LocalType, LifecycleInv, TypeOK
<1>5. \A b \in Actor : Live(b)' <=> Live(b)
  BY <1>1, Zenon DEF WaitOn, Live, LifecycleInv, TypeOK
<1>6. \A b \in child_wait' \cup reaper_wait' : task_state'[b] = "Blocked"
  <2>1. child_wait' \subseteq Actor /\ reaper_wait' \subseteq Actor
    BY <1>4, Ids, Zenon DEF LocalType
  <2> QED
    BY <1>1, <2>1, Zenon DEF WaitOn, LifecycleInv, TypeOK, TasksAgree
<1>7. \A i \in DOMAIN exit_queue' : exit_status[exit_queue'[i]]
  BY <1>3, Zenon DEF LifecycleInv, TasksAgree
<1> QED
  BY <1>1, <1>2, <1>3, <1>4, <1>5, <1>6, <1>7, QuietStep, Zenon

\* wait4 asleep on CHILD_WAIT.
LEMMA WaitEventStep == ASSUME LifecycleInv, NEW p \in Pid, WaitEvent(p) PROVE LifecycleInv'
<1> DEFINE holds == Ready(p, target[p]) # None
<1>1. WaitOn(p, "waiting", "recheck", holds) /\ UNCHANGED localVars
  BY Zenon DEF WaitEvent
<1>2. holds \in BOOLEAN
  BY Zenon
<1> HIDE DEF holds
<1>3. "waiting" \in Quiet \ {"release"} /\ "recheck" \in Quiet
  BY Zenon DEF Quiet
<1>4. UNCHANGED <<target, new_space, todo>> /\ found' \in [Actor -> Pid \cup {None}]
  BY <1>1, Zenon DEF localVars, LifecycleInv, TypeOK
<1> QED
  BY <1>1, <1>2, <1>3, <1>4, WaitOnStep, Zenon

\* The kernel's wait_child asleep on it.
LEMMA AwaitChildStep == ASSUME LifecycleInv, NEW p \in Pid, AwaitChild(p) PROVE LifecycleInv'
<1> DEFINE c == target[p]
           holds == c \notin table \/ Retired(c)
<1>1. /\ WaitOn(p, "await_child", "collect", holds) /\ UNCHANGED <<target, new_space, todo>>
      /\ found' = IF holds THEN [found EXCEPT ![p] = c] ELSE found
  BY Zenon DEF AwaitChild
<1>2. holds \in BOOLEAN /\ c \in Pid \cup {None}
  BY Ids, Zenon DEF LifecycleInv, TypeOK
<1> HIDE DEF holds, c
<1>3. "await_child" \in Quiet \ {"release"} /\ "collect" \in Quiet
  BY Zenon DEF Quiet
<1>4. found' \in [Actor -> Pid \cup {None}]
  BY <1>1, <1>2, Zenon DEF LifecycleInv, TypeOK
<1> QED
  BY <1>1, <1>2, <1>3, <1>4, WaitOnStep, Zenon

\* The reaper asleep on REAPER_WAIT.
LEMMA ReaperWaitsStep == ASSUME LifecycleInv, ReaperWaits PROVE LifecycleInv'
<1> DEFINE to == IF exit_queue # <<>> THEN "reap_one" ELSE "reaper_wait"
<1>1. /\ Run(Reaper, "reaper_wait", to) /\ Dispatch(Reaper) /\ Reaper \in Actor /\ to \in Quiet
      /\ "reaper_wait" \in Quiet \ {"release"} /\ task_state[Reaper] = "Ready"
  BY Ids, Zenon DEF ReaperWaits, Run, Quiet
<1> HIDE DEF to
<1>2. todo[Reaper] = <<>>
  BY <1>1, QuietHands, Zenon DEF Run
<1>3. Unmoved /\ UNCHANGED <<threads, exit_queue, child_wait, target, found>>
  BY Zenon DEF ReaperWaits, Unmoved, processVars, spaceVars, localVars
<1>4. LocalType'
  BY <1>3, Ids, Zenon DEF ReaperWaits, LocalType, LifecycleInv, TypeOK
<1>5. \A b \in Actor : Live(b)' <=> Live(b)
  BY <1>1, Zenon DEF ReaperWaits, Live, LifecycleInv, TypeOK
<1>6. \A b \in child_wait' \cup reaper_wait' : task_state'[b] = "Blocked"
  <2>1. child_wait' \subseteq Actor /\ reaper_wait' \subseteq Actor
    BY <1>4, Ids, Zenon DEF LocalType
  <2> QED
    BY <1>1, <2>1, Zenon DEF ReaperWaits, LifecycleInv, TypeOK, TasksAgree
<1>7. \A i \in DOMAIN exit_queue' : exit_status[exit_queue'[i]]
  BY <1>3, Zenon DEF LifecycleInv, TasksAgree
<1> QED
  BY <1>1, <1>2, <1>3, <1>4, <1>5, <1>6, <1>7, QuietStep, Zenon

\* The reaper takes an exited task; it is nobody's that could still run.
LEMMA ReapOneStep == ASSUME LifecycleInv, ReapOne PROVE LifecycleInv'
<1> DEFINE to == IF exit_queue = <<>> THEN "reaper_wait" ELSE "remove_thread"
           h == Head(exit_queue)
<1>1. /\ Run(Reaper, "reap_one", to) /\ Dispatch(Reaper) /\ Reaper \in Actor /\ to \in Quiet
      /\ "reap_one" \in Quiet \ {"release"}
  BY Ids, Zenon DEF ReapOne, Run, Quiet
<1>2. todo[Reaper] = <<>>
  BY <1>1, QuietHands, Zenon DEF Run
<1>3. Unmoved /\ UNCHANGED <<threads, child_wait, reaper_wait, target>>
  BY Zenon DEF ReapOne, Unmoved, processVars, spaceVars
<1>4. CASE exit_queue = <<>>
  <2>1. UNCHANGED taskVars /\ found' = found
    BY <1>4, Zenon DEF ReapOne, taskVars
  <2> QED
    BY <1>1, <1>2, <1>3, <2>1, CalmStep, Zenon DEF LifecycleInv, TypeOK
<1>5. CASE exit_queue # <<>>
  <2>1. /\ task_state' = [task_state EXCEPT ![h] = "Absent"]
        /\ found' = [found EXCEPT ![Reaper] = h] /\ exit_queue' = Tail(exit_queue)
    BY <1>5, Zenon DEF ReapOne
  <2>2. /\ h \in Pid /\ exit_status[h] /\ exit_queue' \in Seq(Pid)
        /\ \A i \in DOMAIN exit_queue' : exit_status[exit_queue'[i]]
    <3>1. /\ exit_queue \in Seq(Pid) /\ 1 \in DOMAIN exit_queue /\ h = exit_queue[1]
          /\ exit_queue' \in Seq(Pid)
          /\ \A i \in DOMAIN exit_queue' : i + 1 \in DOMAIN exit_queue
                                          /\ exit_queue'[i] = exit_queue[i + 1]
      BY <1>5, <2>1, SMTT(60) DEF LifecycleInv, TypeOK
    <3> QED
      BY <3>1 DEF LifecycleInv, TasksAgree
  <2> HIDE DEF h, to
  <2>3. ~Live(h) /\ h \in Actor
    BY <2>2, Ids, Zenon DEF LifecycleInv, TasksAgree
  <2>4. LocalType'
    BY <1>3, <2>1, <2>2, Zenon DEF LocalType, LifecycleInv, TypeOK
  <2>5. \A b \in Actor : Live(b)' <=> Live(b)
    BY <2>1, <2>3, Zenon DEF Live, LifecycleInv, TypeOK
  <2>6. \A b \in child_wait' \cup reaper_wait' : task_state'[b] = "Blocked"
    BY <1>3, <2>1, <2>3 DEF Live, LifecycleInv, TypeOK, TasksAgree
  <2> QED
    BY <1>1, <1>2, <1>3, <2>2, <2>4, <2>5, <2>6, QuietStep, Zenon
<1> QED
  BY <1>4, <1>5, Zenon

\* Waking blocked tasks makes nobody alive who was not.
LEMMA WakingKeepsLives ==
    ASSUME LifecycleInv, NEW q \in SUBSET (child_wait \cup reaper_wait)
    PROVE  /\ WakeAll(q) \in [Actor -> {"Absent", "Ready", "Blocked", "Exited"}]
           /\ \A b \in Actor : WakeAll(q)[b] \in {"Ready", "Blocked"} <=> Live(b)
BY Zenon DEF LifecycleInv, TypeOK, TasksAgree, WakeAll, Live

\* The reaper wakes those who wait for a child.
LEMMA ReaperWakesStep == ASSUME LifecycleInv, ReaperWakes PROVE LifecycleInv'
<1>1. /\ Run(Reaper, "release", "reap_one") /\ Dispatch(Reaper) /\ Reaper \in Actor
      /\ "release" \in Quiet /\ "reap_one" \in Quiet /\ todo[Reaper] = <<>>
      /\ task_state' = WakeAll(child_wait) /\ child_wait' = {}
  BY Ids, Zenon DEF ReaperWakes, Quiet
<1>2. Unmoved /\ UNCHANGED <<threads, exit_queue, reaper_wait, target, found>>
  BY Zenon DEF ReaperWakes, Unmoved, processVars, spaceVars, localVars
<1>3. /\ task_state' \in [Actor -> {"Absent", "Ready", "Blocked", "Exited"}]
      /\ \A b \in Actor : Live(b)' <=> Live(b)
  BY <1>1, WakingKeepsLives, Zenon DEF Live
<1>4. LocalType'
  BY <1>1, <1>2, <1>3, Zenon DEF LocalType, LifecycleInv, TypeOK
<1>5. \A b \in child_wait' \cup reaper_wait' : task_state'[b] = "Blocked"
  <2>1. \A b \in reaper_wait : b \in Actor /\ b \notin child_wait /\ task_state[b] = "Blocked"
    BY Ids DEF LifecycleInv, TypeOK, TasksAgree
  <2> QED
    BY <1>1, <1>2, <2>1, Zenon DEF WakeAll
<1>6. \A i \in DOMAIN exit_queue' : exit_status[exit_queue'[i]]
  BY <1>2, Zenon DEF LifecycleInv, TasksAgree
<1> QED
  BY <1>1, <1>2, <1>3, <1>4, <1>5, <1>6, QuietStep, Zenon

---------------------------------------------------------------------------
(* exit *)

\* reparent_children: the orphans go to init, in both directions.
LEMMA OrphansGoToInit ==
    ASSUME LifecycleInv, NEW p \in Pid, p # INIT_PID, p \in table,
           parent' = Reparented(p), table' = table,
           children' = [children EXCEPT ![INIT_PID] = @ \o children[p], ![p] = <<>>],
           exit_status' = [exit_status EXCEPT ![p] = TRUE]
    PROVE  /\ FamilyTree' /\ parent' \in [Pid -> Pid \cup {None}]
           /\ children' \in [Pid -> Seq(Pid)] /\ parent'[INIT_PID] = None
<1>1. /\ \A q \in Pid : children[q] \in Seq(Pid) /\ IsInjective(children[q])
      /\ \A q \in Pid : Range(children[q]) = {c \in table : parent[c] = q}
      /\ parent[INIT_PID] = None /\ INIT_PID \in table /\ ~exit_status[INIT_PID]
      /\ \A q \in table \ {INIT_PID} : parent[q] \in table /\ ~exit_status[parent[q]]
      /\ table \subseteq Pid /\ INIT_PID \in Pid /\ INIT_PID # None
  <2>1. children \in [Pid -> Seq(Pid)] /\ table \subseteq Pid
    BY Zenon DEF LifecycleInv, TypeOK
  <2> QED
    BY <2>1, Ids, ZenonT(60) DEF LifecycleInv, FamilyTree, TasksAgree
<1>2. /\ parent' \in [Pid -> Pid \cup {None}]
      /\ \A c \in table : parent'[c] = IF parent[c] = p THEN INIT_PID ELSE parent[c]
  BY <1>1, Zenon DEF Reparented, LifecycleInv, TypeOK
<1>3. /\ exit_status' \in [Pid -> BOOLEAN]
      /\ \A q \in Pid : q # p => exit_status'[q] = exit_status[q]
  BY Zenon DEF LifecycleInv, TypeOK
<1>4. \A q \in table \ {INIT_PID} : parent'[q] \in table /\ ~exit_status'[parent'[q]]
  BY <1>1, <1>2, <1>3
<1> DEFINE both == children[INIT_PID] \o children[p]
<1>5. both \in Seq(Pid) /\ Range(both) = Range(children[INIT_PID]) \cup Range(children[p])
      /\ IsInjective(both)
  <2>1. Range(children[INIT_PID]) \cap Range(children[p]) = {}
    BY <1>1, Zenon
  <2> QED
    BY <1>1, <2>1, ConcatAdds
<1>6. /\ children' \in [Pid -> Seq(Pid)] /\ children'[INIT_PID] = both /\ children'[p] = <<>>
      /\ \A q \in Pid \ {p, INIT_PID} : children'[q] = children[q]
  <2>1. /\ children \in [Pid -> Seq(Pid)]
        /\ children' = [children EXCEPT ![INIT_PID] = both, ![p] = <<>>]
    BY Zenon DEF LifecycleInv, TypeOK
  <2> HIDE DEF both
  <2>2. both \in Seq(Pid) /\ <<>> \in Seq(Pid) /\ INIT_PID \in Pid
    BY <1>5, Ids
  <2>3. children' \in [Pid -> Seq(Pid)]
    BY <2>1, <2>2, Zenon
  <2>4. \A q \in Pid : children'[q] = IF q = p THEN <<>> ELSE IF q = INIT_PID THEN both
                                     ELSE children[q]
    BY <2>1, <2>2, Zenon
  <2> QED
    BY <2>2, <2>3, <2>4, Zenon
<1> HIDE DEF both
<1>7. ASSUME NEW q \in Pid
      PROVE  Range(children'[q]) = {c \in table : parent'[c] = q} /\ IsInjective(children'[q])
  <2>1. CASE q = INIT_PID
    <3>1. {c \in table : parent'[c] = q}
             = {c \in table : parent[c] = INIT_PID} \cup {c \in table : parent[c] = p}
      BY <1>1, <1>2, <2>1, Zenon
    <3> QED
      BY <1>1, <1>5, <1>6, <2>1, <3>1, Zenon
  <2>2. CASE q = p
    <3>1. {c \in table : parent'[c] = q} = {}
      BY <1>2, <2>2, Zenon
    <3>2. Range(<<>>) = {} /\ IsInjective(<<>>)
      BY DEF Range, IsInjective
    <3> QED
      BY <1>6, <2>2, <3>1, <3>2, Zenon
  <2>3. CASE q \notin {p, INIT_PID}
    <3>1. {c \in table : parent'[c] = q} = {c \in table : parent[c] = q}
      BY <1>2, <2>3, Zenon
    <3> QED
      BY <1>1, <1>6, <2>3, <3>1, Zenon
  <2> QED
    BY <2>1, <2>2, <2>3, Zenon
<1>8. parent'[INIT_PID] = None
  BY <1>1, <1>2, Ids, Zenon
<1> QED
  BY <1>2, <1>4, <1>6, <1>7, <1>8, Zenon DEF FamilyTree

\* exit_current: the process leaves its record to its parent, its children to init and its
\* space to the record.
LEMMA ExitStep == ASSUME LifecycleInv, NEW p \in Pid, Exit(p) PROVE LifecycleInv'
<1> DEFINE woken == WakeAll(child_wait \cup reaper_wait)
<1>1. /\ Run(p, "user", "user") /\ Dispatch(p) /\ p # INIT_PID
      /\ parent' = Reparented(p)
      /\ children' = [children EXCEPT ![INIT_PID] = @ \o children[p], ![p] = <<>>]
      /\ exit_status' = [exit_status EXCEPT ![p] = TRUE]
      /\ task_state' = [woken EXCEPT ![p] = "Exited"]
      /\ child_wait' = {} /\ reaper_wait' = {} /\ exit_queue' = Append(exit_queue, p)
      /\ UNCHANGED <<table, threads, address_space, released_spaces, next_pid, task_space,
                     registered, owned, next_space, target, found, new_space, todo>>
  BY Zenon DEF Exit, spaceVars, localVars
<1>2. TypeOK /\ p \in Actor /\ "user" \in Place
  BY Ids, Zenon DEF LifecycleInv, Place
<1>3. /\ pc' \in [Actor -> Place] /\ current' = p /\ Live(p) /\ pc[p] = "user"
      /\ \A b \in Actor : pc'[b] = pc[b]
  BY <1>1, <1>2, RunMoves, Zenon
<1>4. p \in table /\ ~exit_status[p]
  BY <1>3, Zenon DEF LifecycleInv, TasksAgree
<1>5. /\ FamilyTree' /\ parent' \in [Pid -> Pid \cup {None}]
      /\ children' \in [Pid -> Seq(Pid)] /\ parent'[INIT_PID] = None
  BY <1>1, <1>4, OrphansGoToInit, Zenon
<1>6. /\ woken \in [Actor -> {"Absent", "Ready", "Blocked", "Exited"}]
      /\ \A b \in Actor : woken[b] \in {"Ready", "Blocked"} <=> Live(b)
  BY WakingKeepsLives, Zenon
<1> HIDE DEF woken
<1>7. /\ task_state' \in [Actor -> {"Absent", "Ready", "Blocked", "Exited"}] /\ ~Live(p)'
      /\ \A b \in Actor \ {p} : Live(b)' <=> Live(b)
  BY <1>1, <1>2, <1>6, Zenon DEF Live
<1>8. /\ exit_status' \in [Pid -> BOOLEAN] /\ exit_status'[p]
      /\ \A q \in Pid : q # p => exit_status'[q] = exit_status[q]
  BY <1>1, Zenon DEF LifecycleInv, TypeOK
<1>9. /\ exit_queue' \in Seq(Pid) /\ \A i \in DOMAIN exit_queue' : exit_status'[exit_queue'[i]]
  <2>1. /\ exit_queue \in Seq(Pid) /\ \A i \in DOMAIN exit_queue : exit_status[exit_queue[i]]
    BY Zenon DEF LifecycleInv, TypeOK, TasksAgree
  <2>2. /\ exit_queue' \in Seq(Pid)
        /\ \A i \in DOMAIN exit_queue' :
               exit_queue'[i] = p \/ (i \in DOMAIN exit_queue /\ exit_queue'[i] = exit_queue[i])
    BY <1>1, <2>1, SMTT(60)
  <2>3. \A i \in DOMAIN exit_queue : exit_queue[i] \in Pid
    BY <2>1
  <2> QED
    BY <1>8, <2>1, <2>2, <2>3
<1>10. TasksAgree'
  <2>1. /\ INIT_PID \in table' /\ ~exit_status'[INIT_PID]
    BY <1>1, <1>8, Ids, Zenon DEF LifecycleInv, TasksAgree
  <2>2. \A q \in Pid : Live(q)' <=> q \in table' /\ ~exit_status'[q]
    BY <1>1, <1>7, <1>8, Ids, ZenonT(60) DEF LifecycleInv, TasksAgree
  <2>3. \A q \in Pid : q >= next_pid' => q \notin table' /\ ~exit_status'[q]
    BY <1>1, <1>4, <1>8 DEF LifecycleInv, TasksAgree
  <2> QED
    BY <1>1, <1>5, <1>9, <2>1, <2>2, <2>3, Zenon DEF TasksAgree
<1>11. PidsLeft'
  BY <1>1, <1>2, <1>3, PidsKept, Zenon DEF LifecycleInv
<1>12. PlacesAgree'
  BY <1>1, <1>3, <1>7, Ids, ZenonT(30) DEF LifecycleInv, PlacesAgree
<1>13. SpacesHeld'
  <2>1. ASSUME NEW b \in Actor
        PROVE  Freeing(b)' = Freeing(b) /\ Installing(b)' = Installing(b)
    BY <1>1, <1>3, Zenon DEF Freeing, Installing
  <2> QED
    BY <1>1, <2>1, HeldKept, Zenon DEF LifecycleInv, SpacesHeld
<1>14. SpacesOwned'
  BY <1>1, <1>3, <1>7, Zenon DEF LifecycleInv, SpacesOwned, DispatchSafe, Live
<1>15. ActiveIsCurrent' /\ active' \in Space \cup {None}
  BY <1>1, <1>2, <1>3, ActiveKept, Zenon DEF LifecycleInv
<1>16. TypeOK'
  BY <1>1, <1>2, <1>3, <1>5, <1>7, <1>8, <1>9, <1>15, Zenon DEF TypeOK
<1> QED
  BY <1>5, <1>10, <1>11, <1>12, <1>13, <1>14, <1>15, <1>16, Zenon DEF LifecycleInv

---------------------------------------------------------------------------
(* Spaces change hands *)

\* A holder of a space is the only one, and what is held is registered.
LEMMA Sole ==
    ASSUME SpacesHeld, NEW s \in Space
    PROVE  /\ \A p \in ByProcess(s) :
                  /\ s \in registered /\ ByProcess(s) = {p} /\ ByList(s) = {}
                  /\ ByFreeing(s) = {} /\ ByInstalling(s) = {}
           /\ \A i \in ByList(s) :
                  /\ s \in registered /\ ByList(s) = {i} /\ ByProcess(s) = {}
                  /\ ByFreeing(s) = {} /\ ByInstalling(s) = {}
           /\ \A a \in ByFreeing(s) :
                  /\ s \in registered /\ ByFreeing(s) = {a} /\ ByProcess(s) = {}
                  /\ ByList(s) = {} /\ ByInstalling(s) = {}
           /\ \A a \in ByInstalling(s) :
                  /\ s \in registered /\ ByInstalling(s) = {a} /\ ByProcess(s) = {}
                  /\ ByList(s) = {} /\ ByFreeing(s) = {}
<1>1. IF s \in registered THEN HeldOnce(s) ELSE Unheld(s)
  BY Zenon DEF SpacesHeld
<1> QED
  BY <1>1, Zenon DEF HeldOnce, Unheld

\* A space is held as before when each kind of holder is.
LEMMA SameHolders ==
    ASSUME NEW s, ByProcess(s)' = ByProcess(s), ByList(s)' = ByList(s),
           ByFreeing(s)' = ByFreeing(s), ByInstalling(s)' = ByInstalling(s)
    PROVE  (HeldOnce(s)' <=> HeldOnce(s)) /\ (Unheld(s)' <=> Unheld(s))
<1>1. (\E p \in table : ByProcess(s) = {p}) <=> (\E p : ByProcess(s) = {p})
  BY Zenon DEF ByProcess
<1>2. (\E p \in table' : ByProcess(s)' = {p}) <=> (\E p : ByProcess(s)' = {p})
  BY Zenon DEF ByProcess
<1>3. (\E i \in DOMAIN released_spaces : ByList(s) = {i}) <=> (\E i : ByList(s) = {i})
  BY Zenon DEF ByList
<1>4. (\E i \in DOMAIN released_spaces' : ByList(s)' = {i}) <=> (\E i : ByList(s)' = {i})
  BY Zenon DEF ByList
<1> QED
  BY <1>1, <1>2, <1>3, <1>4, Zenon DEF HeldOnce, Unheld

\* A new space is its fork's or its exec's.
LEMMA HeldByInstaller ==
    ASSUME SpacesHeld, registered \subseteq Space, NEW a \in Actor,
           NEW n \in Space, n = next_space,
           UNCHANGED <<table, address_space, released_spaces>>,
           registered' = registered \cup {n}, next_space' = n + 1,
           Installing(a) = None, Installing(a)' = n,
           \A b \in Actor : b # a => Installing(b)' = Installing(b),
           \A b \in Actor : Freeing(b)' = Freeing(b) /\ IsInjective(todo'[b])
    PROVE  SpacesHeld'
<1>1. n \notin registered /\ n \in Nat /\ Space \subseteq Nat
  BY DEF SpacesHeld, Space
<1>2. \A s : /\ ByProcess(s)' = ByProcess(s) /\ ByList(s)' = ByList(s)
             /\ ByFreeing(s)' = ByFreeing(s)
  BY Zenon DEF ByProcess, ByList, ByFreeing
<1>3. \A s \in Space : s # n => ByInstalling(s)' = ByInstalling(s)
  BY Ids, Zenon DEF ByInstalling
<1>4. Unheld(n)
  BY <1>1, Zenon DEF SpacesHeld
<1>5. ByInstalling(n)' = {a}
  BY <1>4, Ids, Zenon DEF Unheld, ByInstalling
<1>6. ASSUME NEW s \in Space PROVE IF s \in registered' THEN HeldOnce(s)' ELSE Unheld(s)'
  <2>1. CASE s = n
    BY <1>2, <1>4, <1>5, <2>1, Zenon DEF HeldOnce, Unheld
  <2>2. CASE s # n
    BY <1>2, <1>3, <2>2, SameHolders, Zenon DEF SpacesHeld
  <2> QED
    BY <2>1, <2>2, Zenon
<1>7. \A s \in registered' : s < next_space'
  <2>1. \A i \in Nat : i < n => i < n + 1
    BY <1>1
  <2>2. n < n + 1
    BY <1>1
  <2>3. \A s \in registered : s \in Nat /\ s < n
    BY <1>1, Zenon DEF SpacesHeld
  <2> QED
    BY <2>1, <2>2, <2>3, Zenon
<1> QED
  BY <1>6, <1>7, Zenon DEF SpacesHeld

\* spawn_forked: the child's record takes the space over from the fork.
LEMMA HeldByChild ==
    ASSUME SpacesHeld, NEW a \in Actor, NEW c, c \notin table,
           NEW n \in Space, Installing(a) = n,
           table' = table \cup {c}, address_space'[c] = n,
           \A q \in table : address_space'[q] = address_space[q],
           UNCHANGED <<released_spaces, registered, next_space>>,
           Installing(a)' = None, \A b \in Actor : b # a => Installing(b)' = Installing(b),
           \A b \in Actor : Freeing(b)' = Freeing(b) /\ IsInjective(todo'[b])
    PROVE  SpacesHeld'
<1>1. a \in ByInstalling(n)
  BY Zenon DEF ByInstalling
<1>2. /\ n \in registered /\ ByInstalling(n) = {a} /\ ByProcess(n) = {}
      /\ ByList(n) = {} /\ ByFreeing(n) = {}
  BY <1>1, Sole, Zenon
<1>3. \A s : ByList(s)' = ByList(s) /\ ByFreeing(s)' = ByFreeing(s)
  BY Zenon DEF ByList, ByFreeing
<1>4. \A s \in Space : s # n => ByProcess(s)' = ByProcess(s) /\ ByInstalling(s)' = ByInstalling(s)
  BY Ids, Zenon DEF ByProcess, ByInstalling
<1>5. ByProcess(n)' = {c} /\ ByInstalling(n)' = {}
  <2>1. \A q \in table : address_space[q] # n
    BY <1>2, Zenon DEF ByProcess
  <2>2. \A b \in Actor : b # a => Installing(b) # n
    BY <1>2, Zenon DEF ByInstalling
  <2>3. n # None
    BY Ids, Zenon
  <2> QED
    BY <2>1, <2>2, <2>3, Zenon DEF ByProcess, ByInstalling
<1>6. ASSUME NEW s \in Space PROVE IF s \in registered' THEN HeldOnce(s)' ELSE Unheld(s)'
  <2>1. CASE s = n
    BY <1>2, <1>3, <1>5, <2>1, Zenon DEF HeldOnce
  <2>2. CASE s # n
    BY <1>3, <1>4, <2>2, SameHolders, Zenon DEF SpacesHeld
  <2> QED
    BY <2>1, <2>2, Zenon
<1> QED
  BY <1>6, Zenon DEF SpacesHeld

\* set_address_space: the record takes the new space over from exec, and exec the old one,
\* if there is one, from the record.
LEMMA HeldByExec ==
    ASSUME SpacesHeld, NEW p \in table, p \in Actor, NEW n \in Space, Installing(p) = n,
           NEW old \in Space \cup {None}, address_space[p] = old, address_space'[p] = n,
           \A q \in table : q # p => address_space'[q] = address_space[q],
           UNCHANGED <<table, released_spaces, registered, next_space>>,
           Installing(p)' = None, \A b \in Actor : b # p => Installing(b)' = Installing(b),
           Freeing(p) = {}, Freeing(p)' = {old} \ {None},
           \A b \in Actor : b # p => Freeing(b)' = Freeing(b),
           \A b \in Actor : IsInjective(todo'[b])
    PROVE  SpacesHeld'
<1>1. /\ n \in registered /\ ByInstalling(n) = {p} /\ ByProcess(n) = {}
      /\ ByList(n) = {} /\ ByFreeing(n) = {}
  <2>1. p \in ByInstalling(n)
    BY Zenon DEF ByInstalling
  <2> QED
    BY <2>1, Sole, Zenon
<1>2. old \in Space => /\ old \in registered /\ ByProcess(old) = {p} /\ ByList(old) = {}
                       /\ ByFreeing(old) = {} /\ ByInstalling(old) = {}
  <2>1. p \in ByProcess(old)
    BY Zenon DEF ByProcess
  <2> QED
    BY <2>1, Sole, Zenon
<1>3. n # old /\ n # None
  BY <1>1, Ids, Zenon DEF ByProcess
<1>4. \A s : ByList(s)' = ByList(s)
  BY Zenon DEF ByList
<1>5. \A s \in Space : s # n /\ s # old => /\ ByProcess(s)' = ByProcess(s)
                                           /\ ByInstalling(s)' = ByInstalling(s)
                                           /\ ByFreeing(s)' = ByFreeing(s)
  BY Ids, Zenon DEF ByProcess, ByInstalling, ByFreeing
<1>6. ByProcess(n)' = {p} /\ ByInstalling(n)' = {} /\ ByFreeing(n)' = {}
  <2>1. /\ \A q \in table : address_space[q] # n
        /\ \A b \in Actor : n \notin Freeing(b)
        /\ \A b \in Actor : b # p => Installing(b) # n
    BY <1>1, Zenon DEF ByProcess, ByFreeing, ByInstalling
  <2> QED
    BY <1>3, <2>1, Zenon DEF ByProcess, ByInstalling, ByFreeing
<1>7. ASSUME old \in Space
      PROVE  ByProcess(old)' = {} /\ ByInstalling(old)' = {} /\ ByFreeing(old)' = {p}
  <2>1. /\ \A q \in table : q # p => address_space[q] # old
        /\ \A b \in Actor : old \notin Freeing(b)
        /\ \A b \in Actor : Installing(b) # old
    BY <1>2, <1>7, Zenon DEF ByProcess, ByFreeing, ByInstalling
  <2>2. old # None
    BY <1>7, Ids, Zenon
  <2> QED
    BY <1>3, <2>1, <2>2 DEF ByProcess, ByInstalling, ByFreeing
<1>8. ASSUME NEW s \in Space PROVE IF s \in registered' THEN HeldOnce(s)' ELSE Unheld(s)'
  <2>1. CASE s = n
    BY <1>1, <1>4, <1>6, <2>1, Zenon DEF HeldOnce
  <2>2. CASE s = old
    BY <1>2, <1>4, <1>7, <2>2, Zenon DEF HeldOnce
  <2>3. CASE s # n /\ s # old
    BY <1>4, <1>5, <2>3, SameHolders, Zenon DEF SpacesHeld
  <2> QED
    BY <2>1, <2>2, <2>3, Zenon
<1> QED
  BY <1>8, Zenon DEF SpacesHeld

\* release: the one who frees a space is its last holder.
LEMMA HeldNoMore ==
    ASSUME SpacesHeld, NEW a \in Actor, NEW n \in Space, n \in Freeing(a),
           UNCHANGED <<table, address_space, released_spaces, next_space>>,
           registered' = registered \ {n},
           \A b \in Actor : Installing(b)' = Installing(b),
           Freeing(a)' = Freeing(a) \ {n}, \A b \in Actor : b # a => Freeing(b)' = Freeing(b),
           \A b \in Actor : IsInjective(todo'[b])
    PROVE  SpacesHeld'
<1>1. /\ n \in registered /\ ByFreeing(n) = {a} /\ ByProcess(n) = {}
      /\ ByList(n) = {} /\ ByInstalling(n) = {}
  <2>1. a \in ByFreeing(n)
    BY Zenon DEF ByFreeing
  <2> QED
    BY <2>1, Sole, Zenon
<1>2. \A s : /\ ByProcess(s)' = ByProcess(s) /\ ByList(s)' = ByList(s)
             /\ ByInstalling(s)' = ByInstalling(s)
  BY Zenon DEF ByProcess, ByList, ByInstalling
<1>3. \A s : s # n => ByFreeing(s)' = ByFreeing(s)
  BY Zenon DEF ByFreeing
<1>4. ByFreeing(n)' = {}
  <2>1. \A b \in Actor : b # a => n \notin Freeing(b)
    BY <1>1, Zenon DEF ByFreeing
  <2> QED
    BY <2>1, Zenon DEF ByFreeing
<1>5. ASSUME NEW s \in Space PROVE IF s \in registered' THEN HeldOnce(s)' ELSE Unheld(s)'
  <2>1. CASE s = n
    BY <1>1, <1>2, <1>4, <2>1, Zenon DEF Unheld
  <2>2. CASE s # n
    BY <1>2, <1>3, <2>2, SameHolders, Zenon DEF SpacesHeld
  <2> QED
    BY <2>1, <2>2, Zenon
<1> QED
  BY <1>5, Zenon DEF SpacesHeld

\* take_released_spaces: the whole list goes to one task.
LEMMA HeldByTaker ==
    ASSUME SpacesHeld, released_spaces \in Seq(Space), NEW a \in Actor, Freeing(a) = {},
           UNCHANGED <<table, address_space, registered, next_space>>,
           released_spaces' = <<>>, \A b \in Actor : Installing(b)' = Installing(b),
           Freeing(a)' = Range(released_spaces), todo'[a] = released_spaces,
           \A b \in Actor : b # a => Freeing(b)' = Freeing(b) /\ todo'[b] = todo[b]
    PROVE  SpacesHeld'
<1>1. \A s : ByProcess(s)' = ByProcess(s) /\ ByInstalling(s)' = ByInstalling(s) /\ ByList(s)' = {}
  BY DEF ByProcess, ByInstalling, ByList
<1>2. ASSUME NEW s \in Space, ByList(s) = {} PROVE ByFreeing(s)' = ByFreeing(s)
  <2>1. s \notin Range(released_spaces)
    BY <1>2, Zenon DEF ByList, Range
  <2> QED
    BY <2>1, Zenon DEF ByFreeing
<1>3. ASSUME NEW s \in Space, ByList(s) # {}
      PROVE  /\ s \in registered /\ ByProcess(s) = {} /\ ByInstalling(s) = {}
             /\ ByFreeing(s)' = {a}
  <2>1. PICK i : i \in ByList(s)
    BY <1>3, Zenon
  <2>2. s \in registered /\ ByProcess(s) = {} /\ ByInstalling(s) = {} /\ ByFreeing(s) = {}
    BY <2>1, Sole, Zenon
  <2>3. s \in Range(released_spaces)
    BY <2>1, Zenon DEF ByList, Range
  <2> QED
    BY <2>2, <2>3, Zenon DEF ByFreeing
<1>4. ASSUME NEW s \in Space PROVE IF s \in registered' THEN HeldOnce(s)' ELSE Unheld(s)'
  <2>1. CASE ByList(s) # {}
    BY <1>1, <1>3, <2>1, Zenon DEF HeldOnce
  <2>2. CASE ByList(s) = {}
    BY <1>1, <1>2, <2>2, SameHolders, Zenon DEF SpacesHeld
  <2> QED
    BY <2>1, <2>2, Zenon
<1>5. IsInjective(released_spaces)
  <2>1. SUFFICES ASSUME NEW i \in DOMAIN released_spaces, NEW j \in DOMAIN released_spaces,
                        released_spaces[i] = released_spaces[j]
                 PROVE  i = j
    BY Zenon DEF IsInjective
  <2> DEFINE s == released_spaces[i]
  <2>2. s \in Space /\ i \in ByList(s) /\ j \in ByList(s)
    BY <2>1 DEF ByList
  <2> HIDE DEF s
  <2>3. ByList(s) = {i}
    BY <2>2, Sole, Zenon
  <2> QED
    BY <2>2, <2>3, Zenon
<1>6. \A b \in Actor : IsInjective(todo'[b])
  BY <1>5, Zenon DEF SpacesHeld
<1> QED
  BY <1>4, <1>6, Zenon DEF SpacesHeld

\* reap_if_empty: the record that goes leaves its space, if it has one, to the list.
LEMMA HeldByReleased ==
    ASSUME SpacesHeld, released_spaces \in Seq(Space), NEW c \in table,
           NEW old \in Space \cup {None}, address_space[c] = old, table' = table \ {c},
           released_spaces' = IF old = None THEN released_spaces
                              ELSE Append(released_spaces, old),
           UNCHANGED <<address_space, registered, next_space, todo>>,
           \A b \in Actor : Freeing(b)' = Freeing(b) /\ Installing(b)' = Installing(b)
    PROVE  SpacesHeld'
<1>1. \A s : ByFreeing(s)' = ByFreeing(s) /\ ByInstalling(s)' = ByInstalling(s)
  BY Zenon DEF ByFreeing, ByInstalling
<1>2. \A s : s # old => ByProcess(s)' = ByProcess(s)
  BY Zenon DEF ByProcess
<1>3. \A s \in Space : s # old => ByList(s)' = ByList(s)
  <2>1. CASE old = None
    BY <2>1, Zenon DEF ByList
  <2>2. CASE old # None
    <3>1. /\ DOMAIN released_spaces = 1..Len(released_spaces) /\ Len(released_spaces) \in Nat
          /\ DOMAIN released_spaces' = 1..(Len(released_spaces) + 1)
          /\ \A i \in 1..Len(released_spaces) : released_spaces'[i] = released_spaces[i]
          /\ released_spaces'[Len(released_spaces) + 1] = old
      BY <2>2
    <3> QED
      BY <3>1 DEF ByList
  <2> QED
    BY <2>1, <2>2, Zenon
<1>4. ASSUME old \in Space
      PROVE  /\ old \in registered /\ ByProcess(old)' = {} /\ ByFreeing(old) = {}
             /\ ByInstalling(old) = {}
             /\ \E i \in DOMAIN released_spaces' : ByList(old)' = {i}
  <2>1. c \in ByProcess(old)
    BY Zenon DEF ByProcess
  <2>2. /\ old \in registered /\ ByProcess(old) = {c} /\ ByList(old) = {}
        /\ ByFreeing(old) = {} /\ ByInstalling(old) = {}
    BY <1>4, <2>1, Sole, Zenon
  <2>3. ByProcess(old)' = {}
    BY <2>2, Zenon DEF ByProcess
  <2>4. \E i \in DOMAIN released_spaces' : ByList(old)' = {i}
    <3> DEFINE last == Len(released_spaces) + 1
    <3>1. /\ DOMAIN released_spaces = 1..Len(released_spaces) /\ Len(released_spaces) \in Nat
          /\ DOMAIN released_spaces' = 1..last
          /\ \A i \in 1..Len(released_spaces) : released_spaces'[i] = released_spaces[i]
          /\ released_spaces'[last] = old
      BY <1>4, Ids
    <3>2. \A i \in 1..Len(released_spaces) : released_spaces[i] # old
      BY <2>2, <3>1, Zenon DEF ByList
    <3>3. ByList(old)' = {last} /\ last \in DOMAIN released_spaces'
      BY <3>1, <3>2 DEF ByList
    <3> QED
      BY <3>3, Zenon
  <2> QED
    BY <2>2, <2>3, <2>4, Zenon
<1>5. ASSUME NEW s \in Space PROVE IF s \in registered' THEN HeldOnce(s)' ELSE Unheld(s)'
  <2>1. CASE s = old
    BY <1>1, <1>4, <2>1, Zenon DEF HeldOnce
  <2>2. CASE s # old
    BY <1>1, <1>2, <1>3, <2>2, SameHolders, Zenon DEF SpacesHeld
  <2> QED
    BY <2>1, <2>2, Zenon
<1> QED
  BY <1>5, Zenon DEF SpacesHeld
=============================================================================
