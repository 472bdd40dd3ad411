------------------------------ MODULE OpenFiles ------------------------------
(***************************************************************************)
(* Reading and writing ramfs files through shared descriptions: read,      *)
(* write, lseek and ftruncate of kernel/src/fs/vfs.rs, the read system     *)
(* call around it, RamFile and the byte accounting of fs/ramfs.rs, and     *)
(* fork and close of fs/file.rs.                                           *)
(*                                                                         *)
(* A description's offset lock is taken before the file's data lock and is *)
(* held for the whole transfer; neither turns interrupts off, so another   *)
(* task may run at any point.  What a section under a lock does to state   *)
(* that lock protects is one step; `used` is an atomic everyone shares, so *)
(* each change of it is a step of its own.  File contents are abstracted   *)
(* to their length and descriptor numbers to the descriptions they name.   *)
(***************************************************************************)
EXTENDS Integers, FiniteSets, FiniteSetsExt

CONSTANTS Task, File, Desc,
          NoTask, NoFile,
          MaxFds,       \* MAX_FDS
          Limit,        \* bytes the mount may hold
          MaxOffset     \* bound on the positions lseek and ftruncate ask for (u64 in the code)

VARIABLES
    named,              \* files with a directory entry
    size,               \* size[f], 0 for a file that does not exist
    used,               \* Shared.used
    of, append,         \* the file of a description (NoFile: free) and its APPEND flag
    offset, offset_lock,
    data_lock,
    table,              \* table[t]: the descriptions t's descriptors name
    call,               \* call[t]: how far t's call has got, and what it owes `used`
    seen, sought        \* ghosts: whether anybody seeked d, and until then the positions
                        \* moved through it

vars == <<named, size, used, of, append, offset, offset_lock, data_lock, table, call, seen,
          sought>>
names == <<named, of, append, table>>
position == <<offset, seen, sought>>

Done == [at |-> "Done", owed |-> 0]

Init ==
    /\ named = {} /\ size = [f \in File |-> 0] /\ used = 0
    /\ of = [d \in Desc |-> NoFile] /\ append = [d \in Desc |-> FALSE]
    /\ offset = [d \in Desc |-> 0] /\ offset_lock = [d \in Desc |-> NoTask]
    /\ data_lock = [f \in File |-> NoTask]
    /\ table = [t \in Task |-> {}] /\ call = [t \in Task |-> Done]
    /\ seen = [d \in Desc |-> {}] /\ sought = [d \in Desc |-> FALSE]

---------------------------------------------------------------------------
(* Helpers *)

Idle(t) == call[t].at = "Done"
Goto(t, c) == call' = [call EXCEPT ![t] = c]

\* Return, dropping the guards.
Return(t) ==
    /\ offset_lock' = [d \in Desc |-> IF offset_lock[d] = t THEN NoTask ELSE offset_lock[d]]
    /\ data_lock' = [f \in File |-> IF data_lock[f] = t THEN NoTask ELSE data_lock[f]]
    /\ Goto(t, Done)

\* Positions a transfer of n bytes at offset[d] covers.
Span(d, n) == offset[d]..(offset[d] + n - 1)

\* The bytes at these positions have gone through d ...
See(d, positions) ==
    /\ seen' = IF sought[d] THEN seen ELSE [seen EXCEPT ![d] = @ \cup positions]
    /\ UNCHANGED sought

\* ... and from here on the order is the user's own affair.
Seek(d) ==
    /\ seen' = [seen EXCEPT ![d] = {}]
    /\ sought' = [sought EXCEPT ![d] = TRUE]

\* *offset += count.
Advance(d, n) ==
    /\ offset' = [offset EXCEPT ![d] = @ + n]
    /\ See(d, Span(d, n))

\* Drop for RamFile.
Dropped(f) == used' = used - size[f]

\* The last name, description or call that held f is gone.
Release(f, still) ==
    IF still
    THEN UNCHANGED <<size, used>>
    ELSE Dropped(f) /\ size' = [size EXCEPT ![f] = 0]

\* Is f held by something other than the descriptions of D and the calls of T?
HeldBeside(f, D, T) ==
    \/ f \in named
    \/ \E d \in Desc \ D : of[d] = f
    \/ \E t \in Task \ T : call[t].at = "Open" /\ call[t].file = f

---------------------------------------------------------------------------
(* Opening and closing *)

\* Walk to f, or create it (an inode nothing refers to any more stands for a new one).
OpenLookup(t, f) ==
    /\ Idle(t) /\ (f \in named \/ ~ HeldBeside(f, {}, {}))
    /\ named' = named \cup {f}
    /\ Goto(t, [at |-> "Open", owed |-> 0, file |-> f])
    /\ UNCHANGED <<size, used, of, append, offset_lock, data_lock, table, position>>

\* TRUNC empties it, then the description is installed.
OpenTruncate(t) ==
    LET f == call[t].file IN
    /\ call[t].at = "Open" /\ call[t].owed = 0 /\ data_lock[f] = NoTask /\ size[f] > 0
    /\ size' = [size EXCEPT ![f] = 0]
    /\ data_lock' = [data_lock EXCEPT ![f] = t]
    /\ Goto(t, [call[t] EXCEPT !.owed = size[f]])
    /\ UNCHANGED <<names, used, offset_lock, position>>

OpenTruncated(t) ==
    /\ call[t].at = "Open" /\ call[t].owed > 0
    /\ used' = used - call[t].owed
    /\ data_lock' = [data_lock EXCEPT ![call[t].file] = NoTask]
    /\ Goto(t, [call[t] EXCEPT !.owed = 0])
    /\ UNCHANGED <<names, size, offset_lock, position>>

OpenInsert(t, d, ap) ==
    /\ call[t].at = "Open" /\ call[t].owed = 0 /\ of[d] = NoFile
    /\ Cardinality(table[t]) < MaxFds
    /\ of' = [of EXCEPT ![d] = call[t].file]
    /\ append' = [append EXCEPT ![d] = ap]
    /\ table' = [table EXCEPT ![t] = @ \cup {d}]
    /\ Return(t)
    /\ UNCHANGED <<named, size, used, position>>

\* EMFILE; a file unlinked meanwhile goes with the call.
OpenFails(t) ==
    /\ call[t].at = "Open" /\ call[t].owed = 0 /\ Cardinality(table[t]) >= MaxFds
    /\ Release(call[t].file, HeldBeside(call[t].file, {}, {t}))
    /\ Return(t)
    /\ UNCHANGED <<names, position>>

\* The last reference to a description is dropped; the next one starts afresh.
Dispose(d) ==
    /\ of' = [of EXCEPT ![d] = NoFile] /\ append' = [append EXCEPT ![d] = FALSE]
    /\ offset' = [offset EXCEPT ![d] = 0]
    /\ seen' = [seen EXCEPT ![d] = {}] /\ sought' = [sought EXCEPT ![d] = FALSE]

Close(t, d) ==
    LET last == \A u \in Task \ {t} : d \notin table[u] IN
    /\ Idle(t) /\ d \in table[t]
    /\ table' = [table EXCEPT ![t] = @ \ {d}]
    /\ IF last THEN Dispose(d) ELSE UNCHANGED <<of, append, position>>
    /\ Release(of[d], ~ last \/ HeldBeside(of[d], {d}, {}))
    /\ UNCHANGED <<named, offset_lock, data_lock, call>>

\* The child's table: the same descriptions.
Fork(t, u) ==
    /\ Idle(t) /\ Idle(u) /\ t # u /\ table[u] = {} /\ table[t] # {}
    /\ table' = [table EXCEPT ![u] = table[t]]
    /\ UNCHANGED <<named, size, used, of, append, offset_lock, data_lock, call, position>>

Unlink(t, f) ==
    /\ Idle(t) /\ f \in named
    /\ named' = named \ {f}
    /\ Release(f, \/ \E d \in Desc : of[d] = f
                  \/ \E u \in Task : call[u].at = "Open" /\ call[u].file = f)
    /\ UNCHANGED <<of, append, offset_lock, data_lock, table, call, position>>

---------------------------------------------------------------------------
(* Growing and shrinking: resize, with the data lock held *)

\* Seeded fault: the limit is compared before the addition.
RoomFor_Before(n) == used <= Limit

\* Shared.reserve's condition.
RoomFor(n) == used + n <= Limit

\* Seeded fault: the reservation of a growth that failed is kept.
GiveBack_Never(n) == used' = used

GiveBack(n) == used' = used - n

\* After reserve: the vector grows (try_reserve), the bytes are copied, the call returns ...
Grow(t) ==
    LET c == call[t] IN
    /\ c.at = "Grow"
    /\ size' = [size EXCEPT ![c.file] = @ + c.owed]
    /\ IF c.count = 0 THEN UNCHANGED position ELSE Advance(c.desc, c.count)
    /\ Return(t)
    /\ UNCHANGED <<names, used>>

\* ... or there is no heap for it.
GrowFails(t) ==
    /\ call[t].at = "Grow"
    /\ GiveBack(call[t].owed)
    /\ Return(t)
    /\ UNCHANGED <<names, size, position>>

\* write_at and truncate to `end`, beyond the end of f; count is what a write will transfer.
Reserve(t, f, d, end, count) ==
    IF RoomFor(end - size[f])
    THEN /\ used' = used + (end - size[f])
         /\ data_lock' = [data_lock EXCEPT ![f] = t]
         /\ Goto(t, [at |-> "Grow", owed |-> end - size[f], file |-> f, desc |-> d,
                     count |-> count])
         /\ UNCHANGED <<size, offset_lock, position>>
    ELSE Return(t) /\ UNCHANGED <<size, used, position>>

Ftruncate(t, d, n) ==
    LET f == of[d] IN
    /\ Idle(t) /\ d \in table[t] /\ data_lock[f] = NoTask
    /\ IF n > size[f]
       THEN Reserve(t, f, d, n, 0)
       ELSE /\ n < size[f]
            /\ size' = [size EXCEPT ![f] = n]
            /\ data_lock' = [data_lock EXCEPT ![f] = t]
            /\ Goto(t, [at |-> "Shrink", owed |-> size[f] - n, desc |-> d])
            /\ UNCHANGED <<used, offset_lock, position>>
    /\ UNCHANGED names

Shrink(t) ==
    /\ call[t].at = "Shrink"
    /\ GiveBack(call[t].owed)
    /\ Return(t)
    /\ UNCHANGED <<names, size, position>>

---------------------------------------------------------------------------
(* write, read and lseek *)

WriteLock(t, d, n) ==
    /\ Idle(t) /\ d \in table[t] /\ offset_lock[d] = NoTask
    /\ offset_lock' = [offset_lock EXCEPT ![d] = t]
    /\ Goto(t, [at |-> IF append[d] THEN "Append" ELSE "Write", owed |-> 0, desc |-> d,
                count |-> n])
    /\ UNCHANGED <<names, size, used, data_lock, position>>

\* With APPEND the offset is first set to the size, which takes and drops the data lock.
WriteAppend(t) ==
    LET d == call[t].desc IN
    /\ call[t].at = "Append" /\ data_lock[of[d]] = NoTask
    /\ offset' = [offset EXCEPT ![d] = size[of[d]]]
    /\ Seek(d)
    /\ Goto(t, [call[t] EXCEPT !.at = "Write"])
    /\ UNCHANGED <<names, size, used, offset_lock, data_lock>>

WriteAt(t) ==
    LET d == call[t].desc
        n == call[t].count
        end == offset[d] + n
    IN  /\ call[t].at = "Write" /\ data_lock[of[d]] = NoTask
        /\ IF end > size[of[d]]
           THEN Reserve(t, of[d], d, end, n)
           ELSE Advance(d, n) /\ Return(t) /\ UNCHANGED <<size, used>>
        /\ UNCHANGED names

\* Vfs::read: up to n bytes, into a buffer of the kernel's.
Read(t, d, n) ==
    LET left == size[of[d]] - offset[d]
        count == IF left <= 0 THEN 0 ELSE IF left < n THEN left ELSE n
    IN  /\ Idle(t) /\ d \in table[t] /\ offset_lock[d] = NoTask /\ data_lock[of[d]] = NoTask
        /\ count > 0    \* at the end of the file nothing happens
        /\ offset' = [offset EXCEPT ![d] = @ + count]
        /\ Goto(t, [at |-> "Copy", owed |-> 0, desc |-> d, first |-> offset[d], count |-> count])
        /\ UNCHANGED <<names, size, used, offset_lock, data_lock, seen, sought>>

\* The system call copies them to the user's buffer ...
CopyOut(t) ==
    LET c == call[t] IN
    /\ c.at = "Copy"
    /\ See(c.desc, c.first..(c.first + c.count - 1))
    /\ Return(t)
    /\ UNCHANGED <<names, size, used, offset>>

\* Seeded fault: the bytes are not given back.
CopyFails_Keeps(t) ==
    /\ call[t].at = "Copy" /\ offset_lock[call[t].desc] = NoTask
    /\ Return(t)
    /\ UNCHANGED <<names, size, used, position>>

\* ... or, when the buffer is bad, seeks back by as many, wherever the offset is by then.
CopyFails(t) ==
    LET c == call[t] IN
    /\ c.at = "Copy" /\ offset_lock[c.desc] = NoTask
    /\ offset' = IF offset[c.desc] < c.count THEN offset
                 ELSE [offset EXCEPT ![c.desc] = @ - c.count]
    /\ IF offset[c.desc] # c.first + c.count THEN Seek(c.desc) ELSE UNCHANGED <<seen, sought>>
    /\ Return(t)
    /\ UNCHANGED <<names, size, used>>

Lseek(t, d, p) ==
    /\ Idle(t) /\ d \in table[t] /\ offset_lock[d] = NoTask /\ offset[d] # p
    /\ offset' = [offset EXCEPT ![d] = p]
    /\ Seek(d)
    /\ UNCHANGED <<names, size, used, offset_lock, data_lock, call>>

Next ==
    \E t \in Task :
        \/ OpenTruncate(t) \/ OpenTruncated(t) \/ OpenFails(t) \/ Grow(t) \/ GrowFails(t) \/ Shrink(t)
        \/ WriteAppend(t) \/ WriteAt(t) \/ CopyOut(t) \/ CopyFails(t)
        \/ \E f \in File : OpenLookup(t, f) \/ Unlink(t, f)
        \/ \E u \in Task : Fork(t, u)
        \/ \E d \in Desc : \/ \E ap \in BOOLEAN : OpenInsert(t, d, ap)
                           \/ Close(t, d)
                           \/ \E n \in 1..2 : WriteLock(t, d, n) \/ Read(t, d, n)
                           \/ \E p \in 0..MaxOffset : Ftruncate(t, d, p) \/ Lseek(t, d, p)

Spec == Init /\ [][Next]_vars

---------------------------------------------------------------------------
(* Properties *)

\* Every variable keeps its type; only a file that is named or open has bytes, and only a
\* description some table names is in use.
TypeOK ==
    /\ named \subseteq File /\ size \in [File -> Nat] /\ used \in Nat
    /\ of \in [Desc -> File \cup {NoFile}] /\ append \in [Desc -> BOOLEAN]
    /\ offset \in [Desc -> Nat]
    /\ offset_lock \in [Desc -> Task \cup {NoTask}] /\ data_lock \in [File -> Task \cup {NoTask}]
    /\ table \in [Task -> SUBSET Desc]
    /\ \A t \in Task : call[t].owed \in Nat
    /\ \A f \in File : size[f] > 0 => HeldBeside(f, {}, {})
    /\ \A d \in Desc : of[d] # NoFile <=> \E t \in Task : d \in table[t]

\* `used` is the bytes stored plus what calls under way have reserved and not yet used, or
\* shrunk and not yet released: "keeping the byte accounting exact", also when growth fails
\* half way and when a file is unlinked while open.
UsedExact ==
    used = MapThenSumSet(LAMBDA f : size[f], File) + MapThenSumSet(LAMBDA t : call[t].owed, Task)

\* The mount never holds more than its limit, even with growth of several files under way.
WithinLimit == used <= Limit

\* OpenFlags::APPEND, "Every write goes to the current end of file.": bytes written through an
\* APPEND description never land on bytes that are already there.
AppendsAtEnd ==
    [][\A t \in Task : call[t].at = "Write" /\ append[call[t].desc] /\ WriteAt(t)
                          => offset[call[t].desc] = size[of[call[t].desc]]]_vars

\* OpenFile's lock is "held for the whole read or write, so concurrent users of one open file
\* see whole, sequential transfers", and a read whose copy fails gives its bytes back: unless
\* somebody seeks, or a copy fails after another user has moved the offset, the bytes before
\* the position are those that went through, each once.
Sequential ==
    \A d \in Desc :
        /\ of[d] # NoFile /\ ~ sought[d]
        /\ \A t \in Task : Idle(t) \/ call[t].at = "Open" \/ call[t].desc # d
        => seen[d] = 0..(offset[d] - 1)

\* The mount's account agrees with its files and with the calls under way, and only files
\* that are named or open have bytes.
AccountExact == TypeOK /\ UsedExact
=============================================================================
