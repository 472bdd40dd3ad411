------------------------------ MODULE Namespace ------------------------------
(***************************************************************************)
(* What paths mean: fs/path.rs, the mounts of fs/vfs.rs, the boot of       *)
(* fs/kernel.rs (a ramfs at /, the initramfs archives of fs/initramfs.rs   *)
(* unpacked into it, then devfs at /dev and procfs at /proc), and the      *)
(* calls that take a path afterwards.                                      *)
(*                                                                         *)
(* A path call is two steps: the path is resolved against the process's    *)
(* current directory and walked, and later the operation is applied to the *)
(* directory the walk reached, which others may have moved or removed in   *)
(* between.  (RamFs has the finer steps inside the walk and inside rename; *)
(* here each is one.)                                                      *)
(*                                                                         *)
(* A path is a sequence of components with two flags: it starts, or it     *)
(* ends, with "/".  A normalised path is a sequence of names.  Empty       *)
(* components are left out, and so are names longer than NAME_MAX.         *)
(***************************************************************************)
EXTENDS Integers, FiniteSets, Functions, SequencesExt

CONSTANTS
    Names,          \* the names used, "dev" and "proc" among them
    Tasks,          \* each with a process of its own
    Boots,          \* what the loader may hand over: sequences of archives
    Paths,          \* the paths programs pass
    Limit,          \* the ramfs limit, in bytes
    MaxNode,        \* ramfs inodes, and
    MaxCalls        \* calls after boot: the bounds of this model

VARIABLES
    tree,           \* ramfs: inode -> file, directory or unused
    mounts,         \* Vfs::mounts: normalised path -> root inode
    boot,           \* fs::init: what is left to do, first step first
    archives,       \* boot_info.initramfs
    cwd,            \* the current directory of each task's process
    call,           \* the path call each task is in
    calls           \* how many have begun

vars == <<tree, mounts, boot, archives, cwd, call, calls>>

Nodes == 1..MaxNode
Root == 1
None == 0

(* The other filesystems are fixed trees; negative inodes are theirs. *)
Dev == -1
Null == -2
Proc == -3
Mounts == -4

\* Their directories and files refuse every change.
DevRefuses(n) == n \in {Dev, Null}
ProcRefuses(n) == n \in {Proc, Mounts}
IsPseudo(n) == DevRefuses(n) \/ ProcRefuses(n)

NoEntries == [n \in Names |-> None]
NewDirectory == [kind |-> "Directory", entries |-> NoEntries, dead |-> FALSE]
Free == [kind |-> "Free"]

Kind(t, n) ==
    CASE n \in {Dev, Proc} -> "Directory"
      [] n = Null -> "CharDevice"
      [] n = Mounts -> "File"
      [] OTHER -> t[n].kind

DevLookup(name) == IF name = "null" THEN Null ELSE None
ProcLookup(name) == IF name = "mounts" THEN Mounts ELSE None

\* Inode::lookup of a directory; None is ENOENT.
Lookup(t, d, name) ==
    CASE d = Dev -> DevLookup(name)
      [] d = Proc -> ProcLookup(name)
      [] OTHER -> t[d].entries[name]

\* stat().fs_id
FsId(d) == CASE d \in {Dev, Null} -> "devfs" [] d \in {Proc, Mounts} -> "proc" [] OTHER -> "ramfs"

---------------------------------------------------------------------------
(* Resolving and walking *)

\* Seeded fault: ".." is skipped like ".".
Resolve_NoParent(dir, path) ==
    SelectSeq((IF path.abs THEN << >> ELSE dir) \o path.comps, LAMBDA c : c \notin {".", ".."})

\* path::resolve
Resolve(dir, path) ==
    FoldLeft(LAMBDA done, c : CASE c = "." -> done
                                [] c = ".." -> IF done = << >> THEN done ELSE Front(done)
                                [] OTHER -> Append(done, c),
             << >>, (IF path.abs THEN << >> ELSE dir) \o path.comps)

Err(e) == [err |-> e]
IsErr(r) == "err" \in DOMAIN r

\* The name `name` looked up in the directory on top of the stack: a filesystem mounted there
\* hides the directory, which must still exist underneath.
Descend(t, m, stack, name) ==
    LET top == Last(stack)
        path == Append(top.path, name)
        child == Lookup(t, top.node, name)
    IN  CASE Kind(t, top.node) # "Directory" -> Err("ENOTDIR")
          [] child = None -> Err("ENOENT")
          [] OTHER -> [ok |-> Append(stack, [path |-> path,
                                             node |-> IF path \in DOMAIN m THEN m[path] ELSE child])]

\* Vfs::walk_from_root
WalkFromRoot(t, m, comps, slash) ==
    LET Step(r, c) == CASE IsErr(r) -> r
                        [] c = "." -> r
                        [] c = ".." -> [ok |-> IF Len(r.ok) > 1 THEN Front(r.ok) ELSE r.ok]
                        [] OTHER -> Descend(t, m, r.ok, c)
        end == FoldLeft(Step, [ok |-> <<[path |-> << >>, node |-> m[<< >>]]>>], comps)
    IN  CASE << >> \notin DOMAIN m -> Err("ENOENT")
          [] IsErr(end) -> end
          [] slash /\ Kind(t, Last(end.ok).node) # "Directory" -> Err("ENOTDIR")
          [] OTHER -> Last(end.ok)

\* Vfs::parent
ParentOf(t, m, comps) ==
    LET above == WalkFromRoot(t, m, Front(comps), FALSE)
    IN  CASE comps = << >> -> Err("EBUSY")
          [] Last(comps) \in {".", ".."} -> Err("EINVAL")
          [] IsErr(above) -> above
          [] Kind(t, above.node) # "Directory" -> Err("ENOTDIR")
          [] OTHER -> [dir |-> above.node, name |-> Last(comps),
                       path |-> Append(above.path, Last(comps))]

---------------------------------------------------------------------------
(* The ramfs *)

\* What a directory below d leads to.
Below(t, d) ==
    LET Down[i \in 0..MaxNode] ==
          IF i = 0 THEN {d}
          ELSE LET D == Down[i - 1]
               IN  D \cup ({t[n].entries[x] : n \in {k \in D : t[k].kind = "Directory"}, x \in Names} \ {None})
    IN  Down[MaxNode]

\* An inode goes away with its last reference.
Dropped(t, held) ==
    LET kept == UNION {Below(t, n) : n \in {Root} \cup {h \in held : h > 0}}
    IN  [n \in Nodes |-> IF n \in kept THEN t[n] ELSE Free]

Unused(t) == {n \in Nodes : t[n] = Free}
Fresh(t) == CHOOSE n \in Unused(t) : \A k \in Unused(t) : n <= k

Used(t) == FoldFunction(LAMBDA n, sum : sum + IF n.kind = "File" THEN n.data.size ELSE 0, 0, t)

NoData == [from |-> 0, size |-> 0]

\* RamDir::create
Create(t, d, name, kind) ==
    IF t[d].dead \/ t[d].entries[name] # None
    THEN t
    ELSE LET n == Fresh(t)
         IN  [t EXCEPT ![d].entries[name] = n,
                       ![n] = IF kind = "File" THEN [kind |-> "File", data |-> NoData] ELSE NewDirectory]

---------------------------------------------------------------------------
(* The initramfs *)

IsEntry(i) == i.item = "member"

\* clean_path, of a member with no ".." in its name
CleanPath(comps) == SelectSeq(comps, LAMBDA c : c # ".")

\* A member parse refuses: the header is damaged, the name climbs, a file without a name, a
\* directory with contents, or something that is neither.
IsBad(i) ==
    \/ i.item = "garbage"
    \/ /\ IsEntry(i)
       /\ \/ ".." \in ToSet(i.comps)
          \/ i.mode = "Reg" /\ CleanPath(i.comps) = << >>
          \/ i.mode = "Dir" /\ i.size # 0
          \/ i.mode = "Other"

\* parse: the entries of every concatenated archive; any damage refuses them all.
Parse(archive) ==
    IF \/ archive = << >>
       \/ Last(archive).item # "trailer"
       \/ \E i \in ToSet(archive) : IsBad(i)
    THEN Err("Cpio")
    ELSE LET members == SelectSeq(archive, LAMBDA i : IsEntry(i) /\ CleanPath(i.comps) # << >>)
         IN  [ok |-> [k \in DOMAIN members |-> [path |-> CleanPath(members[k].comps),
                                                kind |-> members[k].mode, id |-> members[k].id,
                                                size |-> members[k].size]]]

\* The directory `name` of `at.dir`, created when it is missing.
EnterDirectory(at, name) ==
    LET next == Lookup(at.tree, at.dir, name)
    IN  CASE IsErr(at) -> at
          [] next = None -> LET t == Create(at.tree, at.dir, name, "Directory")
                            IN  [tree |-> t, dir |-> t[at.dir].entries[name]]
          [] Kind(at.tree, next) = "Directory" -> [at EXCEPT !.dir = next]
          [] OTHER -> at @@ Err("ENOTDIR")

\* Seeded fault: a file there is no room for stays, empty.
WriteFile_LeavesEmpty(at, name, e) ==
    LET there == Lookup(at.tree, at.dir, name)
        t == IF there = None THEN Create(at.tree, at.dir, name, "File")
             ELSE [at.tree EXCEPT ![there].data = NoData]
    IN  IF there # None /\ Kind(at.tree, there) # "File"
        THEN at @@ Err("EISDIR")
        ELSE [at EXCEPT !.tree =
                IF Used(t) + e.size <= Limit
                THEN [t EXCEPT ![t[at.dir].entries[name]].data = [from |-> e.id, size |-> e.size]]
                ELSE t]

\* A file's contents replace those of a file already there; one that does not fit is removed.
WriteFile(at, name, e) ==
    LET there == Lookup(at.tree, at.dir, name)
        t == IF there = None THEN Create(at.tree, at.dir, name, "File")
             ELSE [at.tree EXCEPT ![there].data = NoData]
    IN  IF there # None /\ Kind(at.tree, there) # "File"
        THEN at @@ Err("EISDIR")
        ELSE [at EXCEPT !.tree =
                IF Used(t) + e.size <= Limit
                THEN [t EXCEPT ![t[at.dir].entries[name]].data = [from |-> e.id, size |-> e.size]]
                ELSE Dropped([t EXCEPT ![at.dir].entries[name] = None], {})]

UnpackEntry(at, e) ==
    LET from == [at EXCEPT !.dir = Root]
        above == FoldLeft(EnterDirectory, from, Front(e.path))
    IN  CASE IsErr(at) -> at
          [] e.kind = "Dir" -> FoldLeft(EnterDirectory, from, e.path)
          [] IsErr(above) -> above
          [] OTHER -> WriteFile(above, Last(e.path), e)

\* unpack: an entry the filesystem refuses ends it; what came before stays.
Unpack(t, archive) ==
    LET parsed == Parse(archive)
    IN  IF IsErr(parsed) THEN t
        ELSE FoldLeft(UnpackEntry, [tree |-> t, dir |-> Root], parsed.ok).tree

---------------------------------------------------------------------------
(* Boot: fs::kernel::init *)

Idle == [op |-> "Idle"]

Init ==
    /\ tree = [n \in Nodes |-> IF n = Root THEN NewDirectory ELSE Free]
    /\ mounts = << >> /\ boot = "root"
    /\ archives \in {[given |-> b, done |-> 0] : b \in Boots}
    /\ cwd = [t \in Tasks |-> << >>]
    /\ call = [t \in Tasks |-> Idle] /\ calls = 0

\* Vfs::mount, on the mounts m and the tree t
Mounted(t, m, path, root) ==
    LET at == WalkFromRoot(t, m, path, FALSE)
    IN  CASE m = << >> -> IF path = << >> THEN path :> root ELSE m
          [] IsErr(at) -> m
          [] Kind(t, at.node) # "Directory" -> m
          [] at.path \in DOMAIN m -> m
          [] OTHER -> (at.path :> root) @@ m

\* mkdir of the mount point, unless the initramfs made it, then mount; either may fail, which
\* is only logged.
MountPseudo(path, root) ==
    /\ \E above \in {ParentOf(tree, mounts, path)} :
          tree' = IF IsErr(above) \/ IsPseudo(above.dir) THEN tree
                  ELSE Create(tree, above.dir, above.name, "Directory")
    /\ mounts' = Mounted(tree', mounts, path, root)
    /\ UNCHANGED <<archives, cwd, call, calls>>

MountRoot ==
    /\ boot = "root" /\ boot' = "unpack"
    /\ mounts' = Mounted(tree, mounts, << >>, Root)
    /\ UNCHANGED <<tree, archives, cwd, call, calls>>

\* Later archives override earlier files; one that is refused is logged.  When all are unpacked
\* their memory is handed back.
UnpackNext ==
    /\ boot = "unpack"
    /\ IF archives.done < Len(archives.given)
       THEN /\ tree' = Unpack(tree, archives.given[archives.done + 1])
            /\ archives' = [archives EXCEPT !.done = @ + 1]
            /\ UNCHANGED boot
       ELSE /\ boot' = "dev" /\ archives' = [given |-> << >>, done |-> 0]
            /\ UNCHANGED tree
    /\ UNCHANGED <<mounts, cwd, call, calls>>

MountDev == boot = "dev" /\ boot' = "proc" /\ MountPseudo(<<"dev">>, Dev)
MountProc == boot = "proc" /\ boot' = "up" /\ MountPseudo(<<"proc">>, Proc)

---------------------------------------------------------------------------
(* Calls with a path: the walk *)

IsMountPoint(path) == path \in DOMAIN mounts

Ready(t) == boot = "up" /\ call[t] = Idle /\ calls < MaxCalls

\* The bound on inodes: one is left for every call that may create.
RoomToCreate ==
    Cardinality(Unused(tree)) > Cardinality({t \in Tasks : call[t].op \in {"create", "mkdir"}})

Begin(t, c) ==
    /\ call' = [call EXCEPT ![t] = c] /\ calls' = calls + 1
    /\ UNCHANGED <<tree, mounts, boot, archives, cwd>>

\* syscall::chdir
Chdir(t, p) ==
    LET path == Resolve(cwd[t], p)
        at == WalkFromRoot(tree, mounts, path, FALSE)
    IN  /\ Ready(t) /\ ~ IsErr(at)
        /\ Kind(tree, at.node) = "Directory"
        /\ Begin(t, [op |-> "chdir", path |-> path])

\* open with CREATE, WRITE and TRUNC: the file that is there, or the directory to create it in
Open(t, p) ==
    /\ Ready(t)
    /\ \E path \in {Resolve(cwd[t], p)} :
       \E at \in {WalkFromRoot(tree, mounts, path, FALSE)}, above \in {ParentOf(tree, mounts, path)} :
           \/ /\ ~ IsErr(at) /\ Kind(tree, at.node) = "File"
              /\ Begin(t, [op |-> "truncate", dir |-> at.node])
           \/ /\ IsErr(at) /\ at.err = "ENOENT" /\ ~ IsErr(above) /\ RoomToCreate
              /\ Begin(t, [op |-> "create", dir |-> above.dir, name |-> above.name])

\* mkdir
Mkdir(t, p) ==
    /\ Ready(t) /\ RoomToCreate
    /\ \E above \in {ParentOf(tree, mounts, Resolve(cwd[t], p))} :
        /\ ~ IsErr(above)
        /\ Begin(t, [op |-> "mkdir", dir |-> above.dir, name |-> above.name])

\* Seeded fault: a mount point may be removed.
Detach_MountPoint(t, op, p) ==
    /\ Ready(t)
    /\ \E above \in {ParentOf(tree, mounts, Resolve(cwd[t], p))} :
        /\ ~ IsErr(above)
        /\ Begin(t, [op |-> op, dir |-> above.dir, name |-> above.name])

\* unlink and rmdir
Detach(t, op, p) ==
    /\ Ready(t)
    /\ \E above \in {ParentOf(tree, mounts, Resolve(cwd[t], p))} :
        /\ ~ IsErr(above) /\ ~ IsMountPoint(above.path)
        /\ Begin(t, [op |-> op, dir |-> above.dir, name |-> above.name])

\* rename: no mount point at either end, and both on one filesystem
Rename(t, p, q) ==
    /\ Ready(t)
    /\ \E source \in {ParentOf(tree, mounts, Resolve(cwd[t], p))},
          target \in {ParentOf(tree, mounts, Resolve(cwd[t], q))} :
        /\ ~ IsErr(source) /\ ~ IsErr(target)
        /\ ~ IsMountPoint(source.path) /\ ~ IsMountPoint(target.path)
        /\ FsId(source.dir) = FsId(target.dir)
        /\ Begin(t, [op |-> "rename", dir |-> source.dir, name |-> source.name,
                     to |-> target.dir, new |-> target.name])

---------------------------------------------------------------------------
(* The operation, on the directory the walk reached *)

\* The inodes other tasks' calls hold.
Held(t) == UNION {CASE call[u].op \in {"Idle", "chdir"} -> {}
                    [] call[u].op = "rename" -> {call[u].dir, call[u].to}
                    [] OTHER -> {call[u].dir} : u \in Tasks \ {t}}

Return(t, new) ==
    /\ tree' = Dropped(new, Held(t))
    /\ call' = [call EXCEPT ![t] = Idle]
    /\ UNCHANGED <<mounts, boot, archives, calls>>

SetCwd(t) ==
    /\ call[t].op = "chdir"
    /\ cwd' = [cwd EXCEPT ![t] = call[t].path]
    /\ Return(t, tree)

\* ProcFile and devices refuse (EINVAL); a file of the ramfs is emptied.
Truncate(t) ==
    LET n == call[t].dir
    IN  /\ call[t].op = "truncate"
        /\ Return(t, IF IsPseudo(n) THEN tree ELSE [tree EXCEPT ![n].data = NoData])
        /\ UNCHANGED cwd

\* create of the last component; when it lost a race, open takes what is there now
ApplyCreate(t) ==
    LET c == call[t]
        there == Lookup(tree, c.dir, c.name)
    IN  /\ c.op \in {"create", "mkdir"}
        /\ Return(t, CASE IsPseudo(c.dir) -> tree
                       [] there = None ->
                            Create(tree, c.dir, c.name, IF c.op = "mkdir" THEN "Directory" ELSE "File")
                       [] c.op = "create" /\ Kind(tree, there) = "File" -> [tree EXCEPT ![there].data = NoData]
                       [] OTHER -> tree)
        /\ UNCHANGED cwd

IsEmpty(n) == tree[n].entries = NoEntries

ApplyUnlink(t) ==
    LET c == call[t]
        there == Lookup(tree, c.dir, c.name)
    IN  /\ c.op = "unlink"
        /\ Return(t, IF IsPseudo(c.dir) \/ there = None \/ Kind(tree, there) = "Directory" THEN tree
                     ELSE [tree EXCEPT ![c.dir].entries[c.name] = None])
        /\ UNCHANGED cwd

ApplyRmdir(t) ==
    LET c == call[t]
        there == Lookup(tree, c.dir, c.name)
    IN  /\ c.op = "rmdir"
        /\ Return(t, IF \/ IsPseudo(c.dir) \/ there = None
                        \/ Kind(tree, there) # "Directory" \/ ~ IsEmpty(there)
                     THEN tree
                     ELSE [tree EXCEPT ![c.dir].entries[c.name] = None, ![there].dead = TRUE])
        /\ UNCHANGED cwd

\* RamDir::rename
ApplyRename(t) ==
    LET c == call[t]
        source == Lookup(tree, c.dir, c.name)
        there == Lookup(tree, c.to, c.new)
        refused == \/ IsPseudo(c.dir) \/ source = None
                   \/ c.dir = c.to /\ c.name = c.new
                   \/ tree[c.to].dead
                   \/ Kind(tree, source) = "Directory" /\ c.to \in Below(tree, source)
                   \/ /\ there # None
                      /\ \/ Kind(tree, source) # Kind(tree, there)
                         \/ Kind(tree, there) = "Directory" /\ (there = c.dir \/ ~ IsEmpty(there))
        replaced == IF there # None /\ Kind(tree, there) = "Directory"
                    THEN [tree EXCEPT ![there].dead = TRUE] ELSE tree
    IN  /\ c.op = "rename"
        /\ Return(t, IF refused THEN tree
                     ELSE [replaced EXCEPT ![c.to].entries[c.new] = source, ![c.dir].entries[c.name] = None])
        /\ UNCHANGED cwd

Next ==
    \/ MountRoot \/ UnpackNext \/ MountDev \/ MountProc
    \/ \E t \in Tasks : \/ SetCwd(t) \/ Truncate(t) \/ ApplyCreate(t)
                        \/ ApplyUnlink(t) \/ ApplyRmdir(t) \/ ApplyRename(t)
    \/ \E t \in Tasks, p \in Paths : \/ Chdir(t, p) \/ Open(t, p) \/ Mkdir(t, p)
                                     \/ \E op \in {"unlink", "rmdir"} : Detach(t, op, p)
                                     \/ \E q \in Paths : Rename(t, p, q)

Spec == Init /\ [][Next]_vars

---------------------------------------------------------------------------
(* Properties *)

\* A path programs pass, walked as the VFS would walk it from the current directory.
WalkedAsGiven(t, p) ==
    WalkFromRoot(tree, mounts, (IF p.abs THEN << >> ELSE cwd[t]) \o p.comps, p.slash)

\* Every system call resolves its path as text before the VFS sees it.  Whatever has been
\* renamed, removed or mounted, a path that leads somewhere as given leads to the same inode once
\* resolved, under the name getcwd would return.
ResolvedIsSame ==
    boot = "up" =>
        \A t \in Tasks, p \in Paths :
            LET given == WalkedAsGiven(t, p)
                resolved == Resolve(cwd[t], p)
            IN  ~ IsErr(given) =>
                    /\ WalkFromRoot(tree, mounts, resolved, FALSE) = given
                    /\ given.path = resolved

\* unlink, rmdir and rename compare their paths with the mounts before they act on the
\* directories: whatever else moves, every mounted filesystem stays reachable at its path.
MountsReachable ==
    \A path \in DOMAIN mounts :
        LET at == WalkFromRoot(tree, mounts, path, FALSE) IN ~ IsErr(at) /\ at.node = mounts[path]

\* Every path of the ramfs and the inode it names.
Listing ==
    LET Deeper[i \in 0..MaxNode] ==
          IF i = 0 THEN {<<(<< >>), Root>>}
          ELSE LET D == Deeper[i - 1]
               IN  D \cup {<<Append(d[1], x), tree[d[2]].entries[x]>> :
                             <<d, x>> \in {f \in {e \in D : Kind(tree, e[2]) = "Directory"} \X Names :
                                             tree[f[1][2]].entries[f[2]] # None}}
    IN  Deeper[MaxNode]

\* The entries of the first k archives, each with its archive, in order.
Given(k) ==
    LET Of(i) == LET p == Parse(archives.given[i])
                 IN  IF IsErr(p) THEN << >> ELSE [j \in DOMAIN p.ok |-> [e |-> p.ok[j], archive |-> i]]
    IN  FlattenSeq([i \in 1..k |-> Of(i)])

IsProperPrefix(a, b) == Len(a) < Len(b) /\ SubSeq(b, 1, Len(a)) = a

\* Two entries that cannot both be unpacked: a name is a file in one, a directory in the other.
Conflict(e, f) ==
    \/ e.kind = "Reg" /\ IsProperPrefix(e.path, f.path)
    \/ f.kind = "Reg" /\ IsProperPrefix(f.path, e.path)
    \/ e.path = f.path /\ e.kind # f.kind

\* What init leaves in the root, from what the archives say.  With room for everything and no
\* entries at odds, the last archive that has a file decides its contents, and the directories
\* are those the entries name or need.  In any case a file holds all of the data of some archive's
\* entry for its path: none is left empty or half written, and a damaged archive leaves nothing.
RootAsGiven ==
    LET es == Given(archives.done)
        fits == FoldLeft(LAMBDA s, g : s + g.e.size, 0, es) <= Limit
        clean == \A i, j \in DOMAIN es : ~ Conflict(es[i].e, es[j].e)
        files == {l \in Listing : Kind(tree, l[2]) = "File"}
    IN  boot = "unpack" =>
          /\ \A l \in files : \E i \in DOMAIN es :
                 es[i].e.kind = "Reg" /\ es[i].e.path = l[1] /\ es[i].e.id = tree[l[2]].data.from
          /\ fits /\ clean =>
                /\ \A i \in DOMAIN es : \E l \in Listing :
                       /\ l[1] = es[i].e.path
                       /\ (\A j \in DOMAIN es : j > i => es[j].e.path # es[i].e.path) =>
                             IF es[i].e.kind = "Dir" THEN Kind(tree, l[2]) = "Directory"
                             ELSE tree[l[2]].data = [from |-> es[i].e.id, size |-> es[i].e.size]
                /\ \A l \in Listing : l[1] = << >> \/ \E i \in DOMAIN es :
                       l[1] = es[i].e.path \/ IsProperPrefix(l[1], es[i].e.path)
=============================================================================
