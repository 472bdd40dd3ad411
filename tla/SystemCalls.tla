----------------------------- MODULE SystemCalls -----------------------------
(***************************************************************************)
(* Where user programs meet the kernel: the exceptions they raise          *)
(* (arch/x86_64/idt.rs), the copies system calls make to and from their    *)
(* memory (mm/uaccess.rs), and the calls that move data through them       *)
(* (syscall/mod.rs, syscall/memory.rs).                                    *)
(*                                                                         *)
(* An address is 0 .. Wrap - 1 (2^64 there); the user half ends at         *)
(* UserTop and each task has its own, in pages that are absent, read-only, *)
(* writable, or copy-on-write (mapping them is UserMemory's and            *)
(* CowMemory's).  Above it is kernel memory, mapped and the same for all.  *)
(* A word is a byte, a pointer or any other unit a call copies.            *)
(*                                                                         *)
(* Two tasks share one open file and one open directory, as a parent and   *)
(* its child do; calls run with interrupts on, so a call that takes data   *)
(* from a file and then copies it out is two steps.  A copy is one step:   *)
(* nobody else changes the caller's memory meanwhile.                      *)
(***************************************************************************)
EXTENDS Naturals, FiniteSets, Sequences

CONSTANTS
    Tasks,
    PageWords, UserPages,   \* the user half
    Wrap,                   \* addresses are 0 .. Wrap - 1
    CHUNK,                  \* read_cstr's buffer
    PATH_MAX, MAX_ARGUMENTS, MAX_ARGUMENT_BYTES, MAX_TRANSFER,
    NotText,                \* the words that no UTF-8 text contains
    FileSize,               \* the file holds the words 1 .. FileSize
    EntrySizes,             \* the directory's entries: a sequence of their encoded sizes
    Words, PageStates,      \* contents to try the string calls on, and kinds of page
    Addresses, Counts,      \* the buffers to try the other calls on
    MaxCalls                \* the calls of a run: a bound of this model

VARIABLES
    pages,          \* task -> page -> "none", "ro", "rw" or "cow"
    mem,            \* task -> address -> word
    kernelMem,      \* address -> word
    fs,             \* task -> its FS base
    pos, dirPos,    \* the positions of the open file and of the open directory
    out,            \* the words write has written, to another file
    task,           \* task -> where it is: [at |-> ...]
    got,            \* what successful reads have returned, in order
    dirGot,         \* the entries getdents64 has copied out, or failed to, in order, and for whom
    overlap,        \* whether two reads of the shared file ever overlapped
    answer,         \* the last call that returned: [call |-> ..., ...]
    calls,
    system          \* "up" or "fatal"

vars == <<pages, mem, kernelMem, fs, pos, dirPos, out, task, got, dirGot, overlap, answer, calls,
          system>>

UserTop == UserPages * PageWords
Page(a) == a \div PageWords
InUser == [at |-> "user"]
Gone == [at |-> "dead", signal |-> "none", inside |-> FALSE]
NoAnswer == [call |-> "none"]
EFAULT == [error |-> "EFAULT"]
EINVAL == [error |-> "EINVAL"]

MinOf(a, b) == IF a <= b THEN a ELSE b
SumTo(f, n) == LET s[i \in 0..n] == IF i = 0 THEN 0 ELSE s[i - 1] + f[i] IN s[n]

\* The memory of task 1 is of any kind, the others' is writable.  A run of string calls has one
\* task and tries every content; a run of other calls starts from zeroes.
Init ==
    /\ \E contents \in [0 .. UserTop - 1 -> Words], first \in [0 .. UserPages - 1 -> PageStates] :
        /\ mem = [t \in Tasks |-> IF t = 1 THEN contents ELSE [a \in 0 .. UserTop - 1 |-> 0]]
        /\ pages = [t \in Tasks |-> IF t = 1 THEN first ELSE [p \in 0 .. UserPages - 1 |-> "rw"]]
        /\ \/ /\ \A p \in 0 .. UserPages - 1 : first[p] \in {"none", "ro"}
              /\ calls = MaxCalls
              /\ task = [t \in Tasks |-> IF t = 1 THEN InUser ELSE Gone]
           \/ /\ \A a \in 0 .. UserTop - 1 : contents[a] = 0
              /\ calls = 0
              /\ task = [t \in Tasks |-> InUser]
    /\ kernelMem = [a \in UserTop .. Wrap - 1 |-> 0]
    /\ fs = [t \in Tasks |-> 0]
    /\ pos = 0 /\ dirPos = 0 /\ out = << >>
    /\ got = << >> /\ dirGot = << >> /\ overlap = FALSE
    /\ answer = NoAnswer /\ system = "up"

---------------------------------------------------------------------------
(* Exceptions *)

\* The signal a user-mode exception delivers.
SignalFor(vector) ==
    CASE vector \in {0, 7, 16, 19} -> "SIGFPE"
      [] vector \in {1, 3} -> "SIGTRAP"
      [] vector = 6 -> "SIGILL"
      [] vector \in {11, 12, 17} -> "SIGBUS"
      [] OTHER -> "SIGSEGV"

\* fixup_for: a copy routine that touched a user address resumes after the copy.
HasFixup(f) == f.copying /\ f.address < UserTop

\* Seeded fault: copy-on-write without memory kills whoever wrote, the kernel's copies too.
PageFault_KillsCopy(f) ==
    LET cow == f.present /\ f.write /\ f.address < UserTop /\ f.cow
    IN  CASE cow /\ f.memory -> "resume"
          [] cow /\ ~ f.memory -> "SIGBUS"
          [] HasFixup(f) -> "fixup"
          [] f.user -> "SIGSEGV"
          [] OTHER -> "fatal"

\* What becomes of a page fault: the page is copied and the access repeated, the copy routine is
\* told, the program is killed, or the kernel stops.
PageFault(f) ==
    LET cow == f.present /\ f.write /\ f.address < UserTop /\ f.cow
    IN  CASE cow /\ f.memory -> "resume"
          [] cow /\ ~ f.memory /\ f.user -> "SIGBUS"
          [] HasFixup(f) -> "fixup"
          [] f.user -> "SIGSEGV"
          [] OTHER -> "fatal"

\* The fault of task t at address a; the kernel's own memory is there, and not the user's.
Fault(t, a, write, user, memory) ==
    LET state == IF a < UserTop THEN pages[t][Page(a)] ELSE "kernel"
    IN  [present |-> state # "none", write |-> write, address |-> a, user |-> user,
         copying |-> ~ user, cow |-> state = "cow", memory |-> memory]

\* Whether the access goes through without a fault.
Allowed(t, a, write, user) ==
    IF a >= UserTop THEN ~ user
    ELSE pages[t][Page(a)] \in (IF write THEN {"rw"} ELSE {"ro", "rw", "cow"})

Killed(t, signal, inside) == task' = [task EXCEPT ![t] = [at |-> "dead", signal |-> signal,
                                                          inside |-> inside]]

\* A program touches memory.
UserTouch(t, a, write, memory) ==
    /\ system = "up" /\ task[t] = InUser /\ calls < MaxCalls
    /\ ~ Allowed(t, a, write, TRUE)
    /\ LET does == PageFault(Fault(t, a, write, TRUE, memory)) IN
       CASE does = "resume" ->
                pages' = [pages EXCEPT ![t][Page(a)] = "rw"] /\ UNCHANGED <<task, system>>
         [] does = "fatal" -> system' = "fatal" /\ UNCHANGED <<pages, task>>
         [] OTHER -> Killed(t, does, FALSE) /\ UNCHANGED <<pages, system>>
    /\ answer' = NoAnswer
    /\ UNCHANGED <<mem, kernelMem, fs, pos, dirPos, out, got, dirGot, overlap, calls>>

\* A program raises another exception (int3 and int n are not open to it: they arrive as 13).
UserException(t, vector) ==
    /\ system = "up" /\ task[t] = InUser /\ calls < MaxCalls
    /\ Killed(t, SignalFor(vector), FALSE)
    /\ answer' = NoAnswer
    /\ UNCHANGED <<pages, mem, kernelMem, fs, pos, dirPos, out, got, dirGot, overlap, calls, system>>

---------------------------------------------------------------------------
(* Copies *)

\* Seeded fault: the end of the range is computed without looking for overflow.
CheckRange_Wraps(address, length) == (address + length) % Wrap <= UserTop

CheckRange(address, length) == address + length < Wrap /\ address + length <= UserTop

At(address, i) == (address + i) % Wrap

\* saeos_copy_user: the words before the first that faults and cannot be resumed.
Copied(t, address, n, write, memory) ==
    LET goes(a) == \/ Allowed(t, a, write, FALSE)
                   \/ PageFault(Fault(t, a, write, FALSE, memory)) = "resume"
        ends == {k \in 0 .. n - 1 : ~ goes(At(address, k))}
    IN  IF ends = {} THEN n ELSE CHOOSE k \in ends : \A j \in ends : k <= j

\* What the fault that ends a copy does: "none" when the copy is complete.
CopyEnds(t, address, n, write, memory) ==
    LET k == Copied(t, address, n, write, memory)
    IN  IF k = n THEN "none" ELSE PageFault(Fault(t, At(address, k), write, FALSE, memory))

\* The pages the copy wrote to, copied where they were shared.
PagesWritten(t, address, k) ==
    [p \in DOMAIN pages[t] |->
        IF \E i \in 0 .. k - 1 : At(address, i) < UserTop /\ Page(At(address, i)) = p
        THEN "rw" ELSE pages[t][p]]

\* The word of `data` that a copy of its first k words puts at a, or what was there.
WordAfter(a, old, address, data, k) ==
    IF \E i \in 0 .. k - 1 : At(address, i) = a
    THEN data[1 + (CHOOSE i \in 0 .. k - 1 : At(address, i) = a)] ELSE old

\* copy_to_user, and what the call does next: `done` or `failed`, the states of the task.
CopyToUser(t, address, data, memory, done, failed) ==
    LET n == Len(data)
        k == IF CheckRange(address, n) THEN Copied(t, address, n, TRUE, memory) ELSE 0
        ends == CopyEnds(t, address, n, TRUE, memory)
    IN  /\ mem' = [mem EXCEPT ![t] = [a \in DOMAIN @ |-> WordAfter(a, @[a], address, data, k)]]
        /\ kernelMem' = [a \in DOMAIN kernelMem |->
                            WordAfter(a, kernelMem[a], address, data, k)]
        /\ pages' = [pages EXCEPT ![t] = PagesWritten(t, address, k)]
        /\ CASE ~ CheckRange(address, n) ->
                    task' = [task EXCEPT ![t] = failed] /\ UNCHANGED system
             [] ends = "fatal" -> system' = "fatal" /\ UNCHANGED task
             [] ends \in {"SIGBUS", "SIGSEGV"} -> Killed(t, ends, TRUE) /\ UNCHANGED system
             [] OTHER -> /\ task' = [task EXCEPT ![t] = IF k = n THEN done ELSE failed]
                         /\ UNCHANGED system

\* Whether that copy succeeds.
CopyWorks(t, address, n, memory) ==
    CheckRange(address, n) /\ Copied(t, address, n, TRUE, memory) = n

\* copy_from_user: the words, or EFAULT.
CopyFromUser(t, address, n) ==
    IF CheckRange(address, n) /\ Copied(t, address, n, FALSE, TRUE) = n
    THEN [words |-> [i \in 1..n |-> LET a == At(address, i - 1)
                                    IN  IF a < UserTop THEN mem[t][a] ELSE kernelMem[a]]]
    ELSE EFAULT

Failed(result) == "error" \in DOMAIN result

\* String::from_utf8
Text(bytes) == \A i \in DOMAIN bytes : bytes[i] \notin NotText
FromUtf8(bytes) == IF Text(bytes) THEN [string |-> bytes] ELSE EINVAL

---------------------------------------------------------------------------
(* Strings *)

\* Seeded fault: a chunk is read whatever page it ends in.
Wanted_WholeChunk(cursor, max, have) == MinOf(CHUNK, (max + 1) - have)

Wanted(cursor, max, have) ==
    MinOf(PageWords - (cursor % PageWords), MinOf(CHUNK, (max + 1) - have))

\* read_cstr
RECURSIVE CStrFrom(_, _, _, _)
CStrFrom(t, cursor, max, bytes) ==
    LET wanted == Wanted(cursor, max, Len(bytes))
        read == CopyFromUser(t, cursor, wanted)
    IN  IF Failed(read) THEN read
        ELSE LET chunk == read.words
                 nuls == {i \in 1..wanted : chunk[i] = 0}
                 first == CHOOSE i \in nuls : \A j \in nuls : i <= j
             IN  CASE nuls # {} -> FromUtf8(bytes \o SubSeq(chunk, 1, first - 1))
                   [] Len(bytes) + wanted > max -> [error |-> "ENAMETOOLONG"]
                   [] OTHER -> CStrFrom(t, cursor + wanted, max, bytes \o chunk)

ReadCStr(t, address, max) == CStrFrom(t, address, max, << >>)

\* read_string_array, from entry `index` on
RECURSIVE StringsFrom(_, _, _, _, _)
WithString(t, address, index, budget, strings, string) ==
    CASE Failed(string) /\ string.error = "ENAMETOOLONG" -> [error |-> "E2BIG"]
      [] Failed(string) /\ string.error # "ENAMETOOLONG" -> string
      [] ~ Failed(string) /\ Len(string.string) + 1 > budget -> [error |-> "E2BIG"]
      [] OTHER -> StringsFrom(t, address, index + 1, budget - (Len(string.string) + 1),
                              Append(strings, string.string))
StringsFrom(t, address, index, budget, strings) ==
    IF index = MAX_ARGUMENTS THEN [error |-> "E2BIG"]
    ELSE LET pointer == CopyFromUser(t, address + index, 1) IN
         IF Failed(pointer) THEN pointer
         ELSE IF pointer.words[1] = 0 THEN [strings |-> strings, budget |-> budget]
         ELSE WithString(t, address, index, budget, strings,
                         ReadCStr(t, pointer.words[1], MinOf(budget, PATH_MAX * 8)))

ReadStringArray(t, address, budget) ==
    IF address = 0 THEN [strings |-> << >>, budget |-> budget]
    ELSE StringsFrom(t, address, 0, budget, << >>)

\* path: a string argument, which may not be empty.
PathArgument(t, address) ==
    LET s == ReadCStr(t, address, PATH_MAX - 1)
    IN  IF s = [string |-> << >>] THEN [error |-> "ENOENT"] ELSE s

\* The calls that take strings only read; what they are told is the answer.
TakesPath(t, address) ==
    /\ system = "up" /\ calls = MaxCalls /\ answer = NoAnswer /\ task[t] = InUser
    /\ answer' = [call |-> "path", by |-> t, at |-> address, result |-> PathArgument(t, address)]
    /\ UNCHANGED <<pages, mem, kernelMem, fs, pos, dirPos, out, task, got, dirGot, overlap, calls,
                   system>>

\* execve's argv and envp, which share one budget.
TakesArguments(t, argv, envp) ==
    /\ system = "up" /\ calls = MaxCalls /\ answer = NoAnswer /\ task[t] = InUser
    /\ \E first \in {ReadStringArray(t, argv, MAX_ARGUMENT_BYTES)} :
       \E second \in {IF Failed(first) THEN first ELSE ReadStringArray(t, envp, first.budget)} :
           answer' = [call |-> "execve", by |-> t, argv |-> argv, envp |-> envp,
                      result |-> IF Failed(second) THEN second
                                 ELSE [argv |-> first.strings, envp |-> second.strings]]
    /\ UNCHANGED <<pages, mem, kernelMem, fs, pos, dirPos, out, task, got, dirGot, overlap, calls,
                   system>>

---------------------------------------------------------------------------
(* Calls that move data *)

Called(t) ==
    /\ system = "up" /\ task[t] = InUser
    /\ calls < MaxCalls /\ calls' = calls + 1

Reading == {t \in Tasks : task[t].at \in {"copy", "give back"}}

\* No call moves more than this at a time; one that asks for more is told how much it got.
Transfer(count) == MinOf(count, MAX_TRANSFER)

\* read, up to the data: the range is checked, then the file read and its position moved.
ReadStart(t, buffer, count) ==
    /\ Called(t)
    /\ LET n == MinOf(Transfer(count), FileSize - pos) IN
       IF CheckRange(buffer, Transfer(count))
       THEN /\ pos' = pos + n
            /\ overlap' = (overlap \/ Reading # {})
            /\ task' = [task EXCEPT ![t] = [at |-> "copy", buffer |-> buffer,
                                            data |-> [i \in 1..n |-> pos + i]]]
            /\ answer' = NoAnswer
       ELSE /\ answer' = [call |-> "read", result |-> EFAULT]
            /\ UNCHANGED <<pos, overlap, task>>
    /\ UNCHANGED <<pages, mem, kernelMem, fs, dirPos, out, got, dirGot, system>>

\* ... and the copy out.
ReadCopy(t, memory) ==
    /\ system = "up" /\ task[t].at = "copy"
    /\ LET r == task[t]
           ok == CopyWorks(t, r.buffer, Len(r.data), memory)
       IN  /\ CopyToUser(t, r.buffer, r.data, memory, InUser,
                         [at |-> "give back", n |-> Len(r.data)])
           /\ got' = IF ok THEN got \o r.data ELSE got
           /\ answer' = IF ok THEN [call |-> "read", by |-> t, at |-> r.buffer, result |-> r.data]
                        ELSE NoAnswer
    /\ UNCHANGED <<fs, pos, dirPos, out, dirGot, overlap, calls>>

\* Seeded fault: data that could not be copied out is not given back.
GiveBack_Not(t) ==
    /\ system = "up" /\ task[t].at = "give back"
    /\ task' = [task EXCEPT ![t] = InUser]
    /\ answer' = [call |-> "read", result |-> EFAULT]
    /\ UNCHANGED <<pages, mem, kernelMem, fs, pos, dirPos, out, got, dirGot, overlap, calls, system>>

\* The caller got nothing: seek back by what was read.
GiveBack(t) ==
    /\ system = "up" /\ task[t].at = "give back"
    /\ pos' = IF task[t].n <= pos THEN pos - task[t].n ELSE pos
    /\ task' = [task EXCEPT ![t] = InUser]
    /\ answer' = [call |-> "read", result |-> EFAULT]
    /\ UNCHANGED <<pages, mem, kernelMem, fs, dirPos, out, got, dirGot, overlap, calls, system>>

\* write: everything is copied in before anything is written.
Write(t, buffer, count) ==
    /\ Called(t)
    /\ LET data == CopyFromUser(t, buffer, Transfer(count)) IN
       /\ out' = IF Failed(data) THEN out ELSE out \o data.words
       /\ answer' = [call |-> "write", by |-> t, at |-> buffer, count |-> count,
                     before |-> Len(out), result |-> data]
    /\ UNCHANGED <<pages, mem, kernelMem, fs, pos, dirPos, task, got, dirGot, overlap, system>>

\* getdents64: entries are taken, and the position moved, while they fit; then they are copied.
\* A buffer too small for the next entry is EINVAL.
DirStart(t, buffer, count) ==
    LET left == SubSeq(EntrySizes, dirPos + 1, Len(EntrySizes))
        fitting == {k \in 0 .. Len(left) : SumTo(left, k) <= Transfer(count)}
        n == CHOOSE k \in fitting : \A j \in fitting : j <= k
        inRange == CheckRange(buffer, Transfer(count))
    IN  /\ Called(t)
        /\ IF inRange /\ (n > 0 \/ left = << >>)
           THEN /\ dirPos' = dirPos + n
                /\ task' = [task EXCEPT ![t] = [at |-> "entries", buffer |-> buffer,
                                                size |-> SumTo(left, n),
                                                entries |-> [i \in 1..n |-> dirPos + i]]]
                /\ answer' = NoAnswer
           ELSE /\ answer' = [call |-> "getdents", result |-> IF inRange THEN EINVAL ELSE EFAULT]
                /\ UNCHANGED <<dirPos, task>>
        /\ UNCHANGED <<pages, mem, kernelMem, fs, pos, out, got, dirGot, overlap, system>>

DirCopy(t, memory) ==
    /\ system = "up" /\ task[t].at = "entries"
    /\ LET r == task[t] IN
       /\ CopyToUser(t, r.buffer, [i \in 1 .. r.size |-> 0], memory, InUser, InUser)
       /\ dirGot' = dirGot \o [i \in DOMAIN r.entries |-> [by |-> t, entry |-> r.entries[i]]]
       /\ answer' = NoAnswer
    /\ UNCHANGED <<fs, pos, dirPos, out, got, overlap, calls>>

\* The calls that fill in a structure: stat, fstat, getcwd, an ioctl, clock_gettime, ARCH_GET_FS.
Fill(t, buffer, memory) ==
    /\ Called(t)
    /\ CopyToUser(t, buffer, << 0, 0 >>, memory, InUser, InUser)
    /\ answer' = NoAnswer
    /\ UNCHANGED <<fs, pos, dirPos, out, got, dirGot, overlap>>

\* ARCH_SET_FS
SetFs(t, address) ==
    /\ Called(t)
    /\ fs' = IF CheckRange(address, 0) THEN [fs EXCEPT ![t] = address] ELSE fs
    /\ answer' = NoAnswer
    /\ UNCHANGED <<pages, mem, kernelMem, pos, dirPos, out, task, got, dirGot, overlap, system>>

Next ==
    \E t \in Tasks :
        \/ \E a \in Addresses, write \in BOOLEAN, memory \in BOOLEAN : UserTouch(t, a, write, memory)
        \/ \E vector \in {6, 13} : UserException(t, vector)
        \/ \E a \in 0 .. Wrap - 1 : TakesPath(t, a)
        \/ \E a, b \in Addresses \cup {0} : TakesArguments(t, a, b)
        \/ \E a \in Addresses, n \in Counts :
            ReadStart(t, a, n) \/ Write(t, a, n) \/ DirStart(t, a, n)
        \/ \E memory \in BOOLEAN :
            ReadCopy(t, memory) \/ DirCopy(t, memory) \/ \E a \in Addresses : Fill(t, a, memory)
        \/ GiveBack(t)
        \/ \E a \in Addresses : SetFs(t, a)

Spec == Init /\ [][Next]_vars

---------------------------------------------------------------------------
(* Properties *)

\* Whatever a program does, the kernel carries on: no address it passes reaches kernel memory or
\* stops the kernel, a call that meets a bad page returns instead of killing its caller half way,
\* and only faults of the program's own kill it.
BoundaryHolds ==
    /\ system = "up"
    /\ \A a \in DOMAIN kernelMem : kernelMem[a] = 0
    /\ \A t \in Tasks : fs[t] <= UserTop
    /\ \A t \in Tasks : task[t].at = "dead" => ~ task[t].inside

\* The string at an address, as a program would define it: up to the first NUL, all of it readable.
Readable(t, a) == a < UserTop /\ pages[t][Page(a)] # "none"
NulAfter(t, a, n) ==
    /\ \A i \in 0 .. n : Readable(t, a + i)
    /\ mem[t][a + n] = 0 /\ \A i \in 0 .. n - 1 : mem[t][a + i] # 0
StringAt(t, a, n) == [i \in 1..n |-> mem[t][a + (i - 1)]]

\* A path argument is the string at its address when that is readable and fits, even when it ends
\* right before a page that is not there, and invalid if that is no text; it is too long when so
\* much of it is readable, and else a fault (read_cstr).
PathsRead ==
    answer.call = "path" =>
        LET t == answer.by
            a == answer.at
            r == answer.result
        IN  CASE \E n \in 1 .. PATH_MAX - 1 : NulAfter(t, a, n) ->
                    \E n \in 1 .. PATH_MAX - 1 :
                        /\ NulAfter(t, a, n)
                        /\ r = IF Text(StringAt(t, a, n)) THEN [string |-> StringAt(t, a, n)]
                               ELSE EINVAL
              [] NulAfter(t, a, 0) -> r = [error |-> "ENOENT"]
              [] OTHER -> r = [error |-> IF \A i \in 0 .. PATH_MAX - 1 : Readable(t, a + i)
                                         THEN "ENAMETOOLONG" ELSE "EFAULT"]

\* What execve takes are the strings its two arrays point at, each array ended by NULL, and no
\* more than fit the budget they share (read_string_array).
ArgumentsRead ==
    answer.call = "execve" /\ "argv" \in DOMAIN answer.result =>
        LET t == answer.by
            arrayIs(a, strings) ==
                IF a = 0 THEN strings = << >>
                ELSE /\ \A i \in DOMAIN strings :
                        /\ Readable(t, a + i - 1)
                        /\ NulAfter(t, mem[t][a + i - 1], Len(strings[i]))
                        /\ strings[i] = StringAt(t, mem[t][a + i - 1], Len(strings[i]))
                        /\ Text(strings[i])
                     /\ Readable(t, a + Len(strings)) /\ mem[t][a + Len(strings)] = 0
            size(strings) == SumTo([i \in DOMAIN strings |-> Len(strings[i]) + 1], Len(strings))
        IN  /\ arrayIs(answer.argv, answer.result.argv) /\ arrayIs(answer.envp, answer.result.envp)
            /\ size(answer.result.argv) + size(answer.result.envp) <= MAX_ARGUMENT_BYTES

InFlight(t) ==
    CASE task[t].at = "copy" -> Len(task[t].data)
      [] task[t].at = "give back" -> task[t].n
      [] OTHER -> 0

\* The file's position is what reads have returned and what they are about to; as long as no two
\* reads of the shared file overlap, what they have returned is the file, each word once and in
\* order, copies that fail half way included.  A read that succeeds leaves its words in the buffer.
ReadsExact ==
    /\ pos = Len(got) + SumTo([t \in Tasks |-> InFlight(t)], Cardinality(Tasks))
    /\ ~ overlap => got = [i \in 1 .. Len(got) |-> i]
    /\ answer.call = "read" /\ "at" \in DOMAIN answer =>
        \A i \in DOMAIN answer.result : mem[answer.by][answer.at + i - 1] = answer.result[i]

EntriesInFlight(t) == IF task[t].at = "entries" THEN Len(task[t].entries) ELSE 0

\* A write writes exactly the caller's words, as many of the first as one call moves, or nothing.
\* Every entry the directory's position has passed is taken for one call, of either task, and no
\* other; each task is given its own in order (write, getdents64).
WritesExact ==
    /\ answer.call = "write" =>
        /\ SubSeq(out, answer.before + 1, Len(out)) =
                IF Failed(answer.result) THEN << >>
                ELSE [i \in 1 .. Transfer(answer.count) |-> mem[answer.by][answer.at + i - 1]]
        /\ ~ Failed(answer.result) => answer.at + Transfer(answer.count) <= UserTop
    /\ dirPos = Len(dirGot) + SumTo([t \in Tasks |-> EntriesInFlight(t)], Cardinality(Tasks))
    /\ \A i, j \in DOMAIN dirGot : i < j =>
        /\ dirGot[i].entry # dirGot[j].entry
        /\ dirGot[i].by = dirGot[j].by => dirGot[i].entry < dirGot[j].entry

\* Calls take and return exactly what they say.
CallsExact == PathsRead /\ ArgumentsRead /\ ReadsExact /\ WritesExact
=============================================================================
