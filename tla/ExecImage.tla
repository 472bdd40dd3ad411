----------------------------- MODULE ExecImage -----------------------------
(***************************************************************************)
(* Turning a program file into a user image: the load plan of              *)
(* kernel/src/exec/elf.rs, the pages exec/mod.rs fills from it and the     *)
(* initial stack of exec/stack.rs, as functions of the file's headers and  *)
(* of the argument strings.                                                *)
(*                                                                         *)
(* A program is [good, entry, phdrs, size]: "good" stands for the magic,   *)
(* class, type and table checks of the ELF header, "size" is the length of *)
(* the file.  A file byte is its offset, a byte that is not from the file  *)
(* is Zero.  A string is its length; its bytes are <<which, i, position>>. *)
(***************************************************************************)
EXTENDS Integers, SequencesExt

CONSTANTS PAGE_SIZE,
          user_top,                          \* USER_STACK_GUARD, in bytes
          WORD, STACK_TOP, ARGUMENT_LIMIT    \* of the stack, in bytes

Zero == -1
NoPlan == [segments |-> <<>>, entry |-> -1]

PageDown(a) == a - (a % PAGE_SIZE)
PageUp(a) == PageDown(a + PAGE_SIZE - 1)

---------------------------------------------------------------------------
(* elf.rs *)

\* The checks of one PT_LOAD header against the file and what is planned.
LoadOK(h, size, segments) ==
    /\ h.file_size <= h.mem_size /\ h.offset + h.file_size <= size
    /\ h.vaddr % PAGE_SIZE = h.offset % PAGE_SIZE
    /\ ~(h.write /\ h.execute)
    /\ h.vaddr >= PAGE_SIZE
    /\ PageUp(h.vaddr + h.mem_size) <= user_top
    /\ \A i \in DOMAIN segments :
        ~(PageDown(h.vaddr) < segments[i].end /\ segments[i].start < PageUp(h.vaddr + h.mem_size))

Segment(h) ==
    [start |-> PageDown(h.vaddr), end |-> PageUp(h.vaddr + h.mem_size),
     write |-> h.write, execute |-> h.execute, vaddr |-> h.vaddr,
     file_offset |-> h.offset, file_size |-> h.file_size, mem_size |-> h.mem_size]

\* elf::plan: NoPlan stands for ENOEXEC.
Plan(program) ==
    LET Step(acc, h) ==
            IF h.kind \in {"Interp", "Dynamic"} THEN [acc EXCEPT !.ok = FALSE]
            ELSE IF h.kind # "Load" \/ h.mem_size = 0 THEN acc
            ELSE IF ~LoadOK(h, program.size, acc.segments) THEN [acc EXCEPT !.ok = FALSE]
            ELSE [acc EXCEPT !.segments = Append(@, Segment(h))]
        read == FoldLeft(Step, [ok |-> program.good, segments |-> <<>>], program.phdrs)
        executable == \E i \in DOMAIN read.segments :
            LET s == read.segments[i]
            IN s.execute /\ program.entry \in s.vaddr .. s.vaddr + s.mem_size - 1
    IN IF read.ok /\ read.segments # <<>> /\ executable
       THEN [segments |-> read.segments, entry |-> program.entry] ELSE NoPlan

\* Seeded fault: the copy starts at the page, not where the data begins.
PageContents_FromPageStart(s, page) ==
    LET to == IF page + PAGE_SIZE < s.vaddr + s.file_size
              THEN page + PAGE_SIZE ELSE s.vaddr + s.file_size
    IN [i \in 0 .. PAGE_SIZE - 1 |->
        IF page + i < to THEN s.file_offset + i ELSE Zero]

\* LoadPlan::page_contents: zeroed, then one copy of the file bytes.
PageContents(s, page) ==
    LET from == IF page < s.vaddr THEN s.vaddr ELSE page
        to == IF page + PAGE_SIZE < s.vaddr + s.file_size
              THEN page + PAGE_SIZE ELSE s.vaddr + s.file_size
        source == s.file_offset + (from - s.vaddr)
    IN [i \in 0 .. PAGE_SIZE - 1 |->
        IF from < to /\ i \in from - page .. to - page - 1
        THEN source + (i - (from - page)) ELSE Zero]

---------------------------------------------------------------------------
(* stack.rs *)

AT_NULL == 0
AT_RANDOM == 25
RandomBytes == 2 * WORD

\* Lengths with their NUL, and the offset of each string from the first.
Offsets(lengths, base) ==
    [i \in DOMAIN lengths |->
        FoldLeft(LAMBDA acc, n : acc + n + 1, base, SubSeq(lengths, 1, i - 1))]

Total(lengths) == FoldLeft(LAMBDA acc, n : acc + n + 1, 0, lengths)

\* Seeded fault: the pointer is aligned before the words are counted.
StackPointer_AlignedFirst(strings_start, words) ==
    (strings_start - (strings_start % (2 * WORD))) - words * WORD

StackPointer(strings_start, words) ==
    (strings_start - words * WORD) - ((strings_start - words * WORD) % (2 * WORD))

\* stack::build: the word at each address from the stack pointer on; auxv
\* is a sequence of <<type, value>>, AT_RANDOM and AT_NULL come last.
\* E2BIG is [sp |-> -1].
BuildStack(argv, envp, auxv) ==
    LET strings == Total(argv) + Total(envp) + RandomBytes
        start == STACK_TOP - strings
        Address(offsets) == [i \in DOMAIN offsets |-> start + offsets[i]]
        aux == auxv \o <<<<AT_RANDOM, start + Total(argv) + Total(envp)>>, <<AT_NULL, 0>>>>
        values == <<Len(argv)>> \o Address(Offsets(argv, 0)) \o <<0>>
                  \o Address(Offsets(envp, Total(argv))) \o <<0>>
                  \o FlattenSeq(aux)
        sp == StackPointer(start, Len(values))
    IN IF start < 0 \/ start < Len(values) * WORD \/ STACK_TOP - sp > ARGUMENT_LIMIT THEN [sp |-> -1]
       ELSE [sp |-> sp, values |-> values, strings_start |-> start]
=============================================================================
