------------------------------- MODULE MCFiles -------------------------------
(* The ramfs for TLC: its directories (RamFs) and the files several          *)
(* descriptions are open on (OpenFiles).  The two models have no variable in *)
(* common and every behaviour is one of `model` alone: two checks that share *)
(* a state graph.                                                            *)
EXTENDS RamFs

CONSTANTS File, Desc, NoFile, MaxFds, Limit, MaxOffset

ASSUME OpenFilesAssumption == Limit \in Nat /\ MaxOffset \in Nat

VARIABLES
    model,      \* "directories" or "open"
    named, size, used, of, append, offset, offset_lock, data_lock, table, file_call, seen, sought

O == INSTANCE OpenFiles WITH call <- file_call

openVars == <<named, size, used, of, append, offset, offset_lock, data_lock, table, file_call,
              seen, sought>>

\* The other model keeps its first state.
MCInit == model \in {"directories", "open"} /\ Init /\ O!Init

MCNext ==
    /\ UNCHANGED model
    /\ \/ model = "directories" /\ Next /\ UNCHANGED openVars
       \/ model = "open" /\ O!Next /\ UNCHANGED vars
       \/ model = "directories" /\ UNCHANGED <<vars, openVars>>    \* a deadlock: see LockOrder

MCSpec == MCInit /\ [][MCNext]_<<model, vars, openVars>>

\* Tasks are interchangeable, and so are names, files and descriptions.
Symmetry ==
    Permutations(Task) \cup Permutations(Name) \cup Permutations(File) \cup Permutations(Desc)

\* The directories form a tree that rename can trust: see TreeConsistent and NoCycle in RamFs.
DirectoriesSound == model = "directories" => TreeConsistent /\ NoCycle

\* The bytes accounted, the limit and the shared positions of open files: see AccountExact,
\* WithinLimit and Sequential in OpenFiles.
OpenFilesSound == model = "open" => O!AccountExact /\ O!WithinLimit /\ O!Sequential
=============================================================================
