------------------------------ MODULE MCPrograms ------------------------------
(* What the kernel does for programs, for TLC: their memory (UserMemory),     *)
(* their system calls and the paths they pass, and, on the other side, the    *)
(* programs' heap.  The models have no variable in common and every behaviour *)
(* is one of `model` alone: four checks that share a state graph.             *)
EXTENDS UserMemory

CONSTANTS
    LARGE, GROWTH, PAGE, HeapStart, HeapTop, MapTop, Marks,     \* UserHeap
    Tasks, PageWords, UserPages, Wrap, CHUNK, PATH_MAX, MAX_ARGUMENTS, MAX_ARGUMENT_BYTES,
    MAX_TRANSFER, NotText, FileSize, Words, PageStates, Addresses, Counts, MaxSystemCalls,     \* SystemCalls
    Names, Limit, MaxNode, MaxPathCalls,                        \* Namespace
    Parked

VARIABLES
    model,      \* "memory", "heap", "calls" or "names"
    heap_free, bump, end, heap_mem, break, own, maps, live,
    user_pages, user_mem, kernelMem, fs, pos, dirPos, out, task, got, dirGot, overlap, answer,
    system_calls, system,
    tree, mounts, boot, archives, cwd, call, path_calls

---------------------------------------------------------------------------
(* Program files and arguments *)

Load(write, execute, file_offset, vaddr, file_size, mem_size) ==
    [kind |-> "Load", write |-> write, execute |-> execute, offset |-> file_offset,
     vaddr |-> vaddr, file_size |-> file_size, mem_size |-> mem_size]
Executable(phdrs) == [good |-> TRUE, entry |-> 3, size |-> 4, phdrs |-> phdrs]

\* Code with a bss tail; data listed before code; and files exec refuses:
\* overlapping pages, writable code, an interpreter, too high an address.
MCExecutables ==
    {Executable(<<Load(FALSE, TRUE, 1, 3, 2, 3)>>),
     Executable(<<Load(TRUE, FALSE, 2, 6, 1, 2), Load(FALSE, TRUE, 1, 3, 1, 1)>>),
     Executable(<<Load(FALSE, TRUE, 1, 3, 2, 2), Load(TRUE, FALSE, 0, 4, 1, 1)>>),
     Executable(<<Load(TRUE, TRUE, 1, 3, 1, 1)>>),
     Executable(<<Load(FALSE, TRUE, 1, 3, 1, 1),
                  [Load(FALSE, FALSE, 0, 0, 0, 0) EXCEPT !.kind = "Interp"]>>),
     Executable(<<Load(FALSE, TRUE, 1, 3, 1, 30)>>)}
MCArguments == {<<<<3, 0>>, <<5, 1>>>>, <<<<200>>, <<>>>>}

---------------------------------------------------------------------------
(* Paths and archives *)

\* The paths programs pass: through a mount point, through "..", with a trailing slash.
Path(abs, comps, slash) == [abs |-> abs, comps |-> comps, slash |-> slash]
MCPaths == {Path(TRUE, <<"dev">>, FALSE), Path(FALSE, <<"a">>, TRUE),
            Path(FALSE, <<"..", "a">>, FALSE), Path(TRUE, <<"dev", "null">>, FALSE),
            Path(TRUE, <<"a", "..", "proc">>, FALSE)}

\* Archives: a usual one, one that overrides it, odd types and sizes, two in one image, a path
\* with "..", a cut one, a file where /proc goes, and one followed by garbage.
Member(id, comps, type, bytes) ==
    [item |-> "member", id |-> id, comps |-> comps, mode |-> type, size |-> bytes]
Trailer == [item |-> "trailer"]
Base == <<Member(1, <<".">>, "Dir", 0), Member(2, <<"a">>, "Dir", 0),
          Member(3, <<"a", "b">>, "Reg", 2), Trailer>>
Over == <<Member(4, <<".", "a", "b">>, "Reg", 1), Member(5, <<"b">>, "Reg", 1), Trailer>>
Odd == <<Member(6, <<"b">>, "Reg", 3), Member(7, <<"a">>, "Reg", 1),
         Member(8, <<"proc">>, "Reg", 0), Trailer>>
Two == <<Member(9, <<"dev">>, "Dir", 0), Trailer, Member(10, <<"b", "a">>, "Reg", 1), Trailer>>
Bad == <<Member(11, <<"b">>, "Reg", 1), Member(12, <<"a", "..", "b">>, "Reg", 1), Trailer>>
CutOff == <<Member(13, <<"b">>, "Reg", 1)>>
Proc == <<Member(14, <<"proc">>, "Reg", 0), Trailer>>
Junk == <<Member(15, <<"b">>, "Reg", 1), Trailer, [item |-> "garbage"]>>
MCBoots == {<<>>, <<Base, Over>>, <<Over, Base>>, <<Base, Odd>>, <<Bad, Base>>, <<CutOff, Two>>,
            <<Odd, Base>>, <<Proc, Over>>, <<Two, Over>>, <<Junk, Base, Base>>}

---------------------------------------------------------------------------
\* Blocks of a class, one that a class rounds up for its alignment, and mappings of their own.
Layout(size, align) == [size |-> size, align |-> align]
MCLayouts == {Layout(1, 1), Layout(1, 2), Layout(3, 1), Layout(3, 4)}
MCEntrySizes == <<1, 2>>

H == INSTANCE UserHeap WITH Layouts <- MCLayouts, free <- heap_free, mem <- heap_mem
S == INSTANCE SystemCalls WITH
        EntrySizes <- MCEntrySizes, MaxCalls <- MaxSystemCalls,
        pages <- user_pages, mem <- user_mem, calls <- system_calls
N == INSTANCE Namespace WITH
        Boots <- MCBoots, Paths <- MCPaths, MaxCalls <- MaxPathCalls, calls <- path_calls

heapVars == <<heap_free, bump, end, heap_mem, break, own, maps, live>>
callVars == <<user_pages, user_mem, kernelMem, fs, pos, dirPos, out, task, got, dirGot, overlap,
              answer, system_calls, system>>
nameVars == <<tree, mounts, boot, archives, cwd, call, path_calls>>

\* The variables of the models other than the chosen one are out of use.
MCInit ==
    /\ model \in {"memory", "heap", "calls", "names"}
    /\ IF model = "memory" THEN Init
       ELSE /\ regions = Parked /\ brk_start = Parked /\ brk = Parked /\ pages = Parked /\ free = Parked
            /\ program = Parked /\ stack = Parked /\ stretched = Parked
    /\ IF model = "heap" THEN H!Init
       ELSE /\ heap_free = Parked /\ bump = Parked /\ end = Parked /\ heap_mem = Parked /\ break = Parked
            /\ own = Parked /\ maps = Parked /\ live = Parked
    /\ IF model = "calls" THEN S!Init
       ELSE /\ user_pages = Parked /\ user_mem = Parked /\ kernelMem = Parked /\ fs = Parked
            /\ pos = Parked /\ dirPos = Parked /\ out = Parked /\ task = Parked /\ got = Parked
            /\ dirGot = Parked /\ overlap = Parked /\ answer = Parked /\ system_calls = Parked
            /\ system = Parked
    /\ IF model = "names" THEN N!Init
       ELSE /\ tree = Parked /\ mounts = Parked /\ boot = Parked /\ archives = Parked /\ cwd = Parked
            /\ call = Parked /\ path_calls = Parked

MCNext ==
    /\ UNCHANGED model
    /\ \/ model = "memory" /\ Next /\ UNCHANGED <<heapVars, callVars, nameVars>>
       \/ model = "heap" /\ H!Next /\ UNCHANGED <<vars, callVars, nameVars>>
       \/ model = "calls" /\ S!Next /\ UNCHANGED <<vars, heapVars, nameVars>>
       \/ model = "names" /\ N!Next /\ UNCHANGED <<vars, heapVars, callVars>>
       \* these end: at the bound on their calls
       \/ model \in {"calls", "names"} /\ UNCHANGED <<vars, heapVars, callVars, nameVars>>

MCSpec == MCInit /\ [][MCNext]_<<model, vars, heapVars, callVars, nameVars>>

---------------------------------------------------------------------------
(* Properties *)

\* A process's regions, page tables and frames agree: see MemoryMapSound in UserMemory.
MemorySound == model = "memory" => MemoryMapSound

\* What exec built is what the file and the arguments say: see ExecSound in UserMemory.
ImagesSound == model = "memory" => ExecSound

\* A program's live blocks keep what it wrote: see BlocksKept in UserHeap.
BlocksKept == model = "heap" => H!BlocksKept

\* No address a program passes harms the kernel: see BoundaryHolds in SystemCalls.
BoundaryHolds == model = "calls" => S!BoundaryHolds

\* Calls take and return exactly what they say: see CallsExact in SystemCalls.
CallsExact == model = "calls" => S!CallsExact

\* A path means one inode, every mount stays reachable, and the root is what the archives hold:
\* see ResolvedIsSame, MountsReachable and RootAsGiven in Namespace.
NamesSound == model = "names" => N!ResolvedIsSame /\ N!MountsReachable /\ N!RootAsGiven
=============================================================================
