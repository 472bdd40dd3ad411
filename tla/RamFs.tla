-------------------------------- MODULE RamFs --------------------------------
(***************************************************************************)
(* The names of the root filesystem: the directories of                    *)
(* kernel/src/fs/ramfs.rs and the path walk of fs/vfs.rs that leads to     *)
(* them, for tasks that are preempted anywhere, their locks held           *)
(* (fs/lock.rs: the mutexes leave interrupts on).                          *)
(*                                                                         *)
(* A call walks to a directory one lookup at a time, holding no lock in    *)
(* between, then works on the directory it reached, which may have been    *)
(* moved or removed meanwhile.  A section under one lock is one step; a    *)
(* section under several takes one step per lock.  Locks are guards: a     *)
(* task that needs a held lock spins.  Every return drops the guards it    *)
(* holds.  File contents, mounts and errno values are left out: a failed   *)
(* call returns and changes nothing.                                       *)
(***************************************************************************)
EXTENDS Naturals, FiniteSets, TLC

CONSTANTS Task, Name,
          NoTask,       \* a lock nobody holds
          MaxIno        \* inode numbers are 1..MaxIno (u64 in the code)

ASSUME RamFsAssumption == MaxIno \in Nat \ {0} /\ NoTask \notin Task

Ino == 1..MaxIno
Root == 1
None == 0               \* no inode

VARIABLES
    next_ino,
    kind,               \* "Free", "File" or "Directory"
    entries,            \* entries[d][n]: the inode named n in directory d, or None
    parent, dead,
    entries_lock, rename_lock,
    call                \* call[t]: how far t's current call has got

vars == <<next_ino, kind, entries, parent, dead, entries_lock, rename_lock, call>>
tree == <<next_ino, kind, entries, parent, dead>>

\* A call that has only just begun to walk.
Begun == [at |-> "Walk", dir |-> Root, target |-> Root]

Init ==
    /\ next_ino = 2
    /\ kind = [i \in Ino |-> IF i = Root THEN "Directory" ELSE "Free"]
    /\ entries = [i \in Ino |-> [n \in Name |-> None]]
    /\ parent = [i \in Ino |-> None] /\ dead = [i \in Ino |-> FALSE]
    /\ entries_lock = [i \in Ino |-> NoTask] /\ rename_lock = NoTask
    /\ call = [t \in Task |-> Begun]

---------------------------------------------------------------------------
(* Locks, returns and ancestry *)

IsDir(i) == i # None /\ kind[i] = "Directory"
Unlocked(d) == entries_lock[d] = NoTask
IsEmpty(d) == \A n \in Name : entries[d][n] = None

Lock(t, d) == entries_lock' = [entries_lock EXCEPT ![d] = t]
Goto(t, c) == call' = [call EXCEPT ![t] = c]

\* Return, dropping every guard.
Return(t) ==
    /\ entries_lock' = [d \in Ino |-> IF entries_lock[d] = t THEN NoTask ELSE entries_lock[d]]
    /\ rename_lock' = IF rename_lock = t THEN NoTask ELSE rename_lock
    /\ call' = [call EXCEPT ![t] = Begun]

\* The inodes in the directories of D.
Children(D) == {entries[d][n] : d \in D, n \in Name} \ {None}

\* Inodes something still holds a reference to: a name, or a call.
Existing ==
    LET Held[i \in 0..MaxIno] ==
          IF i = 0 THEN {Root} \cup {call[t].dir : t \in Task} \cup {call[t].target : t \in Task}
          ELSE LET H == Held[i - 1] IN H \cup Children(H)
    IN  Held[MaxIno]

\* Seeded fault: only the directory itself is compared.
IsWithin_Self(d, ancestor) == d = ancestor

\* is_within: up the parent links, while they can be upgraded.
IsWithin(d, ancestor) ==
    LET Up[i \in 0..MaxIno] ==
          IF i = 0 THEN {d} ELSE LET U == Up[i - 1] IN U \cup ({parent[p] : p \in U} \cap Existing)
    IN  ancestor \in Up[MaxIno]

---------------------------------------------------------------------------
(* The path walk *)

Walk(t, n) ==
    LET c == call[t] IN
    /\ c.at = "Walk" /\ Unlocked(c.dir) /\ IsDir(entries[c.dir][n])
    /\ Goto(t, [c EXCEPT !.dir = entries[c.dir][n]])
    /\ UNCHANGED <<tree, entries_lock, rename_lock>>

\* rename resolves its second path once it has the first.
BeginTarget(t) ==
    /\ call[t].at = "Walk"
    /\ Goto(t, [call[t] EXCEPT !.at = "WalkTarget"])
    /\ UNCHANGED <<tree, entries_lock, rename_lock>>

WalkTarget(t, n) ==
    LET c == call[t] IN
    /\ c.at = "WalkTarget" /\ Unlocked(c.target) /\ IsDir(entries[c.target][n])
    /\ Goto(t, [c EXCEPT !.target = entries[c.target][n]])
    /\ UNCHANGED <<tree, entries_lock, rename_lock>>

---------------------------------------------------------------------------
(* create, unlink, rmdir, entries *)

AllocateIno == next_ino' = next_ino + 1

Create(t, n, k) ==
    LET d == call[t].dir
    IN  /\ call[t].at = "Walk" /\ Unlocked(d) /\ next_ino <= MaxIno
        /\ IF dead[d] \/ entries[d][n] # None
           THEN UNCHANGED tree
           ELSE /\ AllocateIno
                /\ kind' = [kind EXCEPT ![next_ino] = k]
                /\ entries' = [entries EXCEPT ![d][n] = next_ino]
                /\ parent' = IF k = "Directory" THEN [parent EXCEPT ![next_ino] = d] ELSE parent
                /\ UNCHANGED dead
        /\ Return(t)

Unlink(t, n) ==
    LET d == call[t].dir
    IN  /\ call[t].at = "Walk" /\ Unlocked(d)
        /\ entries' = IF IsDir(entries[d][n]) THEN entries
                      ELSE [entries EXCEPT ![d][n] = None]
        /\ Return(t)
        /\ UNCHANGED <<next_ino, kind, parent, dead>>

\* rmdir with its own map locked, about to lock the child's ...
RmdirLock(t, n) ==
    LET d == call[t].dir
    IN  /\ call[t].at = "Walk" /\ Unlocked(d)
        /\ IF IsDir(entries[d][n])
           THEN /\ Lock(t, d) /\ UNCHANGED rename_lock
                /\ Goto(t, [call[t] EXCEPT !.at = "Rmdir"] @@ [name |-> n])
           ELSE Return(t)
        /\ UNCHANGED tree

\* ... and with both.  (The child's is dropped just before the name goes, which nobody can
\* see: the map the name is in is still locked.)
RmdirChild(t) ==
    LET c == call[t]
        child == entries[c.dir][c.name]
    IN  /\ c.at = "Rmdir" /\ Unlocked(child)
        /\ IF IsEmpty(child)
           THEN /\ dead' = [dead EXCEPT ![child] = TRUE]
                /\ entries' = [entries EXCEPT ![c.dir][c.name] = None]
           ELSE UNCHANGED <<dead, entries>>
        /\ Return(t)
        /\ UNCHANGED <<next_ino, kind, parent>>

\* entries: stat of every child directory locks the child's map too, one after the other.
ListLock(t) ==
    LET d == call[t].dir
        directories == {n \in Name : IsDir(entries[d][n])}
    IN  /\ call[t].at = "Walk" /\ Unlocked(d) /\ directories # {}
        /\ Lock(t, d)
        /\ Goto(t, [call[t] EXCEPT !.at = "List"] @@ [left |-> directories])
        /\ UNCHANGED <<tree, rename_lock>>

ListChild(t, n) ==
    LET c == call[t] IN
    /\ c.at = "List" /\ n \in c.left /\ Unlocked(entries[c.dir][n])
    /\ IF c.left = {n}
       THEN Return(t)
       ELSE Goto(t, [c EXCEPT !.left = @ \ {n}]) /\ UNCHANGED <<entries_lock, rename_lock>>
    /\ UNCHANGED tree

---------------------------------------------------------------------------
(* rename *)

\* The rename lock, and the check that the target was not removed.
RenameLock(t, old, new) ==
    LET c == call[t] IN
    /\ c.at = "WalkTarget" /\ rename_lock = NoTask
    /\ IF dead[c.target] /\ ~ (c.dir = c.target /\ old = new)
       THEN Return(t)
       ELSE /\ rename_lock' = t /\ UNCHANGED entries_lock
            /\ Goto(t, [c EXCEPT !.at = "RenameLookup"] @@ [old |-> old, new |-> new])
    /\ UNCHANGED tree

\* An ancestor's map is locked first, or else the lower inode number's.
SourceFirst(c) ==
    \/ IsWithin(c.target, c.dir)
    \/ ~ IsWithin(c.dir, c.target) /\ c.dir < c.target

\* The two maps in the order they will be locked.
InOrder(c) == IF SourceFirst(c) THEN [first |-> c.dir, second |-> c.target]
              ELSE [first |-> c.target, second |-> c.dir]

\* The first lookup of the source, to refuse a move below itself, and the choice of an order.
RenameLookup(t) ==
    LET c == call[t]
        source == entries[c.dir][c.old]
    IN  /\ c.at = "RenameLookup" /\ Unlocked(c.dir)
        /\ IF \/ c.dir = c.target /\ c.old = c.new
              \/ source = None
              \/ IsDir(source) /\ IsWithin(c.target, source)
           THEN Return(t)
           ELSE /\ Goto(t, [c EXCEPT !.at = "RenameFirst"] @@ InOrder(c))
                /\ UNCHANGED <<entries_lock, rename_lock>>
        /\ UNCHANGED tree

\* Seeded fault: the old name stays.
Moved_Copied(c) == [entries EXCEPT ![c.target][c.new] = entries[c.dir][c.old]]

Moved(c) == [entries EXCEPT ![c.target][c.new] = entries[c.dir][c.old], ![c.dir][c.old] = None]

\* The move itself, with every map it needs locked.
Move(t, c) ==
    LET source == entries[c.dir][c.old]
    IN  /\ entries' = Moved(c)
        /\ parent' = IF IsDir(source) THEN [parent EXCEPT ![source] = c.target] ELSE parent
        /\ Return(t)
        /\ UNCHANGED <<next_ino, kind>>

\* What rename does once it has locked d, the last of its two directories.
RenameBody(t, d) ==
    LET c == call[t]
        source == entries[c.dir][c.old]
        existing == entries[c.target][c.new]
    IN  IF /\ source # None
           /\ existing # None => IsDir(source) = IsDir(existing) /\ existing # c.dir
        THEN IF IsDir(existing)
             THEN /\ Lock(t, d) /\ Goto(t, [c EXCEPT !.at = "RenameExisting"])
                  /\ UNCHANGED <<tree, rename_lock>>
             ELSE Move(t, c) /\ UNCHANGED dead
        ELSE Return(t) /\ UNCHANGED tree

RenameFirst(t) ==
    LET c == call[t] IN
    /\ c.at = "RenameFirst" /\ Unlocked(c.first)
    /\ IF c.dir = c.target
       THEN RenameBody(t, c.dir)
       ELSE /\ Lock(t, c.first)
            /\ Goto(t, [c EXCEPT !.at = "RenameSecond"])
            /\ UNCHANGED <<tree, rename_lock>>

RenameSecond(t) ==
    LET c == call[t] IN
    /\ c.at = "RenameSecond" /\ Unlocked(c.second)
    /\ RenameBody(t, c.second)

\* Replacing a directory: it must be empty, and is marked dead with its map locked.
RenameExisting(t) ==
    LET c == call[t]
        existing == entries[c.target][c.new]
    IN  /\ c.at = "RenameExisting" /\ Unlocked(existing)
        /\ IF IsEmpty(existing)
           THEN Move(t, c) /\ dead' = [dead EXCEPT ![existing] = TRUE]
           ELSE Return(t) /\ UNCHANGED tree

Next ==
    \E t \in Task :
        \/ BeginTarget(t) \/ RmdirChild(t) \/ ListLock(t)
        \/ RenameLookup(t) \/ RenameFirst(t) \/ RenameSecond(t) \/ RenameExisting(t)
        \/ \E n \in Name : \/ Walk(t, n) \/ WalkTarget(t, n) \/ Unlink(t, n)
                           \/ RmdirLock(t, n) \/ ListChild(t, n)
                           \/ \E k \in {"File", "Directory"} : Create(t, n, k)
                           \/ \E new \in Name : RenameLock(t, n, new)

Spec == Init /\ [][Next]_vars

---------------------------------------------------------------------------
(* Properties *)

Where == {"Walk", "WalkTarget", "Rmdir", "List", "RenameLookup", "RenameFirst", "RenameSecond",
          "RenameExisting"}

\* Every variable keeps its type, names lead to allocated inodes only, and only directories
\* have entries.
TypeOK ==
    /\ next_ino \in 1..(MaxIno + 1)
    /\ kind \in [Ino -> {"Free", "File", "Directory"}]
    /\ entries \in [Ino -> [Name -> {i \in Ino : i < next_ino} \cup {None}]]
    /\ \A i \in Ino : kind[i] # "Directory" => IsEmpty(i)
    /\ parent \in [Ino -> Ino \cup {None}] /\ dead \in [Ino -> BOOLEAN]
    /\ entries_lock \in [Ino -> Task \cup {NoTask}] /\ rename_lock \in Task \cup {NoTask}
    /\ \A t \in Task : call[t].at \in Where /\ IsDir(call[t].dir) /\ IsDir(call[t].target)

\* rename moves and never copies, whatever happened between its lookup and its locks: an inode
\* has one name at most, and a directory's parent link (what is_within follows) leads to the
\* directory that holds its name.
SingleLink ==
    LET Links == {l \in Ino \X Name : entries[l[1]][l[2]] # None}
    IN  /\ \A l \in Links : IsDir(entries[l[1]][l[2]]) => parent[entries[l[1]][l[2]]] = l[1]
        /\ Cardinality(Links) = Cardinality(Children(Ino))

\* No directory lies below itself.  rename checks ancestry with no map locked, for a source it
\* looks up a second time later; "Ancestry is stable while the rename lock is held".
NoCycle ==
    \A d \in Ino :
        LET Below[i \in 0..MaxIno] ==
              IF i = 0 THEN Children({d}) ELSE LET B == Below[i - 1] IN B \cup Children(B)
        IN  d \notin Below[MaxIno]

\* The map t is about to lock while it holds others.
Wants(t) ==
    LET c == call[t] IN
    CASE c.at = "Rmdir" -> {entries[c.dir][c.name]}
      [] c.at = "List" -> {entries[c.dir][n] : n \in c.left}
      [] c.at = "RenameSecond" -> {c.second}
      [] c.at = "RenameExisting" -> {entries[c.target][c.new]}
      [] OTHER -> {}

\* "Lock order: a directory's entry map before any of its descendants'": nobody asks for an
\* ancestor of a map it holds.
LockOrder ==
    \A t \in Task : \A d \in Wants(t), held \in Ino :
        entries_lock[held] = t => ~ IsWithin(held, d)

\* A directory is marked dead "so a task that already resolved it cannot create entries in it
\* afterwards": what rmdir removed stays empty.  rename looks at its target's mark before it
\* locks the target's map.
RemovedStaysEmpty == \A d \in Ino : dead[d] => IsEmpty(d)

\* The directories form a structure rename can trust: well typed, one name per inode, parent
\* links that lead back.
TreeConsistent == TypeOK /\ SingleLink
=============================================================================
