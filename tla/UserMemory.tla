----------------------------- MODULE UserMemory -----------------------------
(***************************************************************************)
(* A process's memory: the map of regions of kernel/src/mm/vma.rs, the     *)
(* page tables that mm/user_memory.rs keeps in step with it for brk, mmap, *)
(* munmap and mprotect, and exec, which starts both afresh.  Every call    *)
(* runs under the registry lock (with_owned_mut): one step.                *)
(*                                                                         *)
(* Regions are in pages.  The break is in bytes, as exec's addresses are.  *)
(* A leaf is [what, right, data]: an owned frame ("Own") or a borrowed     *)
(* device page ("Dev"), its protection, and the bytes it was loaded with   *)
(* or the device page it shows.  A call may fail at any page for want of a *)
(* page-table frame: the input "fail" is that page.                        *)
(***************************************************************************)
EXTENDS ExecImage, FiniteSets

CONSTANTS Programs,       \* program files
          Arguments,      \* <<argv, envp>> pairs of string lengths
          MIN_ADDRESS,    \* first page mmap may use
          StackPages,     \* USER_STACK_PAGES
          Hints, Lengths, Breaks, Protections,  \* what callers ask for
          DevicePages,    \* size of /dev/fb0
          FailPages,      \* pages a call may fail at
          Frames          \* bound: frames of memory in the machine

mmap_top == user_top \div PAGE_SIZE        \* USER_STACK_GUARD, in pages
StackStart == mmap_top + 1
StackTop == StackStart + StackPages
Page == 0 .. StackTop - 1

VARIABLES
    regions,     \* MemoryMap.regions
    brk_start, brk,
    pages,       \* the leaf entries of the address space
    free,        \* frames the allocator has left
    program,     \* what the last exec loaded (ghost)
    stack,       \* what it put on the stack (ghost), with its strings
    stretched    \* a brk has laid the heap over a hole or other rights (ghost)

vars == <<regions, brk_start, brk, pages, free, program, stack, stretched>>

Rights == {"None", "Read", "Write", "Exec"}
NoFailure == -1
NoPage == [what |-> "None", right |-> "None", data |-> Zero]
ZeroBytes == [i \in 0 .. PAGE_SIZE - 1 |-> Zero]
Pages(bytes) == PageUp(bytes) \div PAGE_SIZE

---------------------------------------------------------------------------
(* vma.rs *)

\* Region::piece
Piece(r, start, end) ==
    [r EXCEPT !.start = start, !.end = end,
              !.physical = IF r.kind = "Device" THEN @ + (start - r.start) ELSE @]

Overlaps(map, start, end) == \E i \in DOMAIN map : start < map[i].end /\ map[i].start < end

\* Seeded fault: a new region goes to the end.
Insert_AtEnd(map, r) == Append(map, r)

\* insert, of a region that overlaps nothing.
Insert(map, r) ==
    LET before(x) == x.start < r.start
        after(x) == ~before(x)
    IN SelectSeq(map, before) \o <<r>> \o SelectSeq(map, after)

Outside(r, start, end) == r.end <= start \/ end <= r.start

\* remove: what stays of every region, and the spans that go.
Kept(r, start, end) ==
    IF Outside(r, start, end) THEN <<r>>
    ELSE (IF r.start < start THEN <<Piece(r, r.start, start)>> ELSE <<>>)
         \o (IF end < r.end THEN <<Piece(r, end, r.end)>> ELSE <<>>)

RemoveRange(map, start, end) ==
    LET upto[i \in 0 .. Len(map)] == IF i = 0 THEN <<>> ELSE upto[i - 1] \o Kept(map[i], start, end)
    IN upto[Len(map)]

Cut(r, start, end) ==
    Piece(r, IF r.start < start THEN start ELSE r.start, IF end < r.end THEN end ELSE r.end)

Inside(map, start, end) ==
    LET in(r) == ~Outside(r, start, end)
        part == SelectSeq(map, in)
    IN [i \in DOMAIN part |-> Cut(part[i], start, end)]

Floor == IF Pages(brk) < MIN_ADDRESS THEN MIN_ADDRESS ELSE Pages(brk)

\* Seeded fault: a gap of just the length asked for is passed over.
FitsGap_Strictly(gap, length) == gap > length

FitsGap(gap, length) == gap >= length

\* find_free: from the top down; 0 when no gap will do.
FindFree(length) ==
    LET below[i \in 0 .. Len(regions), top \in 0 .. mmap_top] ==
            IF i = 0 THEN top
            ELSE IF regions[i].start >= top THEN below[i - 1, top]
            ELSE IF regions[i].end <= top /\ FitsGap(top - regions[i].end, length) THEN top
            ELSE below[i - 1, regions[i].start]
        found == below[Len(regions), mmap_top]
    IN IF found - length >= Floor THEN found - length ELSE 0

\* place: where a mapping goes (0: ENOMEM).
Usable(start, length) == start >= MIN_ADDRESS /\ start + length <= mmap_top

Place(hint, length, fixed) ==
    IF fixed THEN (IF Usable(hint, length) THEN hint ELSE 0)
    ELSE IF hint # 0 /\ Usable(hint, length) /\ ~Overlaps(regions, hint, hint + length)
         THEN hint ELSE FindFree(length)

\* Where a mapping of this length goes, for some hint and with or without MAP_FIXED.
Places(length) == {Place(hint, length, fixed) : hint \in Hints, fixed \in BOOLEAN} \ {0}

\* mprotect: covered without gaps, and no device memory made executable.
Covered(start, end) ==
    \A p \in start .. end - 1 : Overlaps(regions, p, p + 1)

\* The end of set_brk: the heap is one region from brk_start to the break.
SetHeap(map, end) ==
    LET other(r) == r.kind # "Heap"
        rest == SelectSeq(map, other)
    IN IF end > brk_start
       THEN Insert(rest, [start |-> brk_start, end |-> end, right |-> "Write",
                          kind |-> "Heap", physical |-> 0])
       ELSE rest

---------------------------------------------------------------------------
(* user_memory.rs, on the page tables [pages, free] *)

Space == [pages |-> pages, free |-> free]

\* Seeded fault: a borrowed page is freed like an owned one.
FramesIn_All(pg, range) == Cardinality({p \in range : pg[p] # NoPage})

FramesIn(pg, range) == Cardinality({p \in range : pg[p].what = "Own"})

\* unmap_span
Unmap(s, range) ==
    [pages |-> [p \in Page |-> IF p \in range THEN NoPage ELSE s.pages[p]],
     free |-> s.free + FramesIn(s.pages, range)]

\* map_span and the loop of mmap_device: leaf[p] is the new entry of page
\* p.  At the first page that fails, what was mapped goes again.
Fails(s, range, own, fail) ==
    {p \in range : \/ p = fail \/ s.pages[p] # NoPage
                   \/ own /\ Cardinality({q \in range : q <= p}) > s.free}

MapSpan(s, range, leaf, own, fail) ==
    LET bad == Fails(s, range, own, fail)
        first == CHOOSE p \in bad : \A q \in bad : p <= q
        mapped == [pages |-> [p \in Page |-> IF p \in range THEN leaf[p] ELSE s.pages[p]],
                   free |-> s.free - (IF own THEN Cardinality(range) ELSE 0)]
    IN IF bad = {} THEN [ok |-> TRUE, space |-> mapped]
       ELSE [ok |-> FALSE,
             space |-> Unmap(s, {p \in range : p < first \/ (own /\ p = first)})]

\* protect_span over the spans in order, up to a page that is not mapped.
ProtectSpan(s, range, right) ==
    LET bad == {p \in range : s.pages[p] = NoPage}
        done == {p \in range : \A q \in bad : p < q}
    IN [ok |-> bad = {},
        space |-> [s EXCEPT !.pages = [p \in Page |->
                    IF p \in done THEN [s.pages[p] EXCEPT !.right = right] ELSE s.pages[p]]]]

Fresh(right) == [p \in Page |-> [what |-> "Own", right |-> right, data |-> ZeroBytes]]

SetSpace(s) == pages' = s.pages /\ free' = s.free

---------------------------------------------------------------------------
(* The system calls *)

Running == program # NoPlan

\* brk: the break moves, or everything stays as it was.
CanMove(address) ==
    LET new_end == Pages(address)
        limit == IF new_end > Pages(brk) THEN new_end ELSE Pages(brk)
    IN /\ address >= brk_start * PAGE_SIZE /\ new_end <= mmap_top
       /\ \A i \in DOMAIN regions :
            regions[i].kind = "Heap" \/ regions[i].start >= limit \/ regions[i].end <= brk_start

Brk(address, fail) ==
    LET old_end == Pages(brk)
        new_end == Pages(address)
        grown == MapSpan(Space, old_end .. new_end - 1, Fresh("Write"), TRUE, fail)
        whole == \A p \in brk_start .. (IF new_end < old_end THEN new_end ELSE old_end) - 1 :
                    pages[p].right = "Write"
    IN /\ Running /\ CanMove(address)
       /\ IF new_end > old_end
          THEN /\ SetSpace(grown.space)
               /\ IF grown.ok THEN regions' = SetHeap(regions, new_end) /\ brk' = address
                  ELSE UNCHANGED <<regions, brk>>
               /\ stretched' = (stretched \/ (grown.ok /\ ~whole))
          ELSE /\ SetSpace(Unmap(Space, new_end .. old_end - 1))
               /\ regions' = SetHeap(regions, new_end) /\ brk' = address
               /\ stretched' = (stretched \/ ~whole)
       /\ UNCHANGED <<brk_start, program, stack>>

\* Seeded fault: a failed mapping puts the map back as it was.
Undone_Whole(map, start, end) == map

\* A failed MAP_FIXED leaves a hole: the saved map without the range.
Undone(map, start, end) == RemoveRange(map, start, end)

\* mmap and mmap_device, once place has chosen: leaf and own say what backs the new region.
MapAt(at, length, region, leaf, own, fail) ==
    LET range == at .. at + length - 1
        cleared == Unmap(Space, {p \in range : Overlaps(regions, p, p + 1)})
        new == MapSpan(cleared, range, leaf, own, fail)
    IN /\ Running
       /\ SetSpace(new.space)
       /\ regions' = IF new.ok
                     THEN Insert(RemoveRange(regions, at, at + length),
                                 [region EXCEPT !.start = at, !.end = at + length])
                     ELSE Undone(regions, at, at + length)
       /\ UNCHANGED <<brk_start, brk, program, stack, stretched>>

Mmap(at, length, right, fail) ==
    MapAt(at, length,
          [start |-> 0, end |-> 0, right |-> right, kind |-> "Anonymous", physical |-> 0],
          Fresh(right), TRUE, fail)

\* FbHandle::mmap bounds the offset; device memory is never executable.
MmapDevice(at, length, right, offset, fail) ==
    /\ right # "Exec" /\ offset + length <= DevicePages
    /\ MapAt(at, length,
             [start |-> 0, end |-> 0, right |-> right, kind |-> "Device", physical |-> offset],
             [p \in Page |-> [what |-> "Dev", right |-> right, data |-> offset + (p - at)]],
             FALSE, fail)

Munmap(start, length) ==
    /\ Running
    /\ SetSpace(Unmap(Space, {p \in start .. start + length - 1 :
                                p \in Page /\ Overlaps(regions, p, p + 1)}))
    /\ regions' = RemoveRange(regions, start, start + length)
    /\ UNCHANGED <<brk_start, brk, program, stack, stretched>>

\* mprotect: if a page turns out not to be there, the map goes back to what
\* it was; the pages before it keep their new protection.
Mprotect(start, length, right) ==
    LET end == start + length
        parts == Inside(regions, start, end)
        done == ProtectSpan(Space, start .. end - 1, right)
        Change(map, r) == Insert(map, [r EXCEPT !.right = right])
    IN /\ Running /\ Covered(start, end)
       /\ ~(right = "Exec" /\ \E i \in DOMAIN parts : parts[i].kind = "Device")
       /\ SetSpace(done.space)
       /\ regions' = IF done.ok THEN FoldLeft(Change, RemoveRange(regions, start, end), parts)
                     ELSE regions
       /\ UNCHANGED <<brk_start, brk, program, stack, stretched>>

SegmentRight(s) == IF s.execute THEN "Exec" ELSE IF s.write THEN "Write" ELSE "Read"

\* memory_map: the segments and the stack.
ImageRegions(plan) ==
    LET Add(map, s) ==
            Insert(map, [start |-> s.start \div PAGE_SIZE, end |-> s.end \div PAGE_SIZE,
                         right |-> SegmentRight(s), kind |-> "Image", physical |-> 0])
    IN Insert(FoldLeft(Add, <<>>, plan.segments),
              [start |-> StackStart, end |-> StackTop, right |-> "Write",
               kind |-> "Stack", physical |-> 0])

\* The pages prepare maps: every page of every segment, then the stack.
ImagePages(plan) ==
    [p \in Page |->
        IF p >= StackStart THEN Fresh("Write")[p]
        ELSE IF \E i \in DOMAIN plan.segments :
                    p * PAGE_SIZE \in plan.segments[i].start .. plan.segments[i].end - 1
        THEN LET s == plan.segments[CHOOSE i \in DOMAIN plan.segments :
                        p * PAGE_SIZE \in plan.segments[i].start .. plan.segments[i].end - 1]
             IN [what |-> "Own", right |-> SegmentRight(s), data |-> PageContents(s, p * PAGE_SIZE)]
        ELSE NoPage]

\* exec: prepare builds the new image beside the old one, which is freed
\* once the new one is in place.  A failure leaves the old one running.
Prepared ==
    {[plan |-> plan, regions |-> ImageRegions(plan), pages |-> ImagePages(plan),
      frames |-> FramesIn(ImagePages(plan), Page), argv |-> args[1], envp |-> args[2],
      built |-> BuildStack(args[1], args[2], <<<<3, plan.entry>>>>)] :
        plan \in {Plan(file) : file \in Programs} \ {NoPlan}, args \in Arguments}
Exec(new) ==
    /\ new.built.sp # -1 /\ new.frames <= free
    /\ regions' = new.regions /\ pages' = new.pages /\ program' = new.plan
    /\ brk_start' = Max({s.end : s \in ToSet(new.plan.segments)}) \div PAGE_SIZE
    /\ brk' = brk_start' * PAGE_SIZE
    /\ free' = free - new.frames + FramesIn(pages, Page)
    /\ stack' = [built |-> new.built, argv |-> new.argv, envp |-> new.envp]
    /\ stretched' = FALSE

Init ==
    /\ regions = <<>> /\ brk_start = 0 /\ brk = 0
    /\ pages = [p \in Page |-> NoPage] /\ free = Frames
    /\ program = NoPlan /\ stack = <<>> /\ stretched = FALSE

\* Where a call that maps start .. end - 1 may run out of page tables, if it does.
Failing(start, end) == {NoFailure} \cup (FailPages \cap (start .. end - 1))

Next ==
    \/ \E b \in Breaks : \E fail \in Failing(Pages(brk), Pages(b)) : Brk(b, fail)
    \/ \E length \in Lengths : \E at \in Places(length) :
       \E right \in Protections, fail \in Failing(at, at + length) :
        \/ Mmap(at, length, right, fail)
        \/ \E offset \in 0 .. DevicePages - 1 : MmapDevice(at, length, right, offset, fail)
    \/ \E start \in Hints, length \in Lengths : Munmap(start, length)
    \/ \E start \in Hints, length \in Lengths, right \in Protections : Mprotect(start, length, right)
    \/ \E new \in Prepared : Exec(new)

Spec == Init /\ [][Next]_vars

---------------------------------------------------------------------------
(* Properties *)

Region == [start : Page, end : 1 .. StackTop, right : Rights,
           kind : {"Image", "Heap", "Stack", "Anonymous", "Device"},
           physical : 0 .. DevicePages]

\* Every variable has its shape; no more frames are free than there are.
TypeOK ==
    /\ \A i \in DOMAIN regions : regions[i] \in Region
    /\ brk_start \in 0 .. mmap_top /\ brk \in 0 .. user_top
    /\ DOMAIN pages = Page
    /\ \A p \in Page : pages[p].what \in {"None", "Own", "Dev"} /\ pages[p].right \in Rights
    /\ free \in 0 .. Frames /\ stretched \in BOOLEAN

\* However calls split, replace and re-protect them, the regions stay
\* sorted, non-empty and disjoint, and the heap stays between brk_start and
\* the page of the break (vma.rs: "Regions never overlap and are kept sorted").
RegionsSorted ==
    \A i \in DOMAIN regions :
        /\ regions[i].start < regions[i].end
        /\ i > 1 => regions[i - 1].end <= regions[i].start
        /\ regions[i].kind = "Heap" =>
            regions[i].start >= brk_start /\ regions[i].end <= Pages(brk)

At(p) == CHOOSE i \in DOMAIN regions : p \in regions[i].start .. regions[i].end - 1

\* The page tables hold nothing the map does not know of: a mapped page lies
\* in a region, a borrowed one in a device region, showing the device page
\* that is as far from the region's first as it is, after any splits.
MappedIsListed ==
    \A p \in Page : pages[p] # NoPage =>
        /\ Overlaps(regions, p, p + 1)
        /\ pages[p].what = "Dev" <=> regions[At(p)].kind = "Device"
        /\ pages[p].what = "Dev" =>
            pages[p].data = regions[At(p)].physical + (p - regions[At(p)].start)

\* Every frame is free or backs one page: no failed, replaced or split
\* mapping loses one, and device pages are never given to the allocator.
FramesConserved == free + Cardinality({p \in Page : pages[p].what = "Own"}) = Frames

Backed == \A i \in DOMAIN regions : \A p \in regions[i].start .. regions[i].end - 1 :
            pages[p] # NoPage /\ pages[p].right = regions[i].right

\* vma.rs: "Every region is backed by pages for its whole extent".  Map and
\* page tables agree, page by page and right by right, through failures at
\* any page, until a brk lays the heap over a part of it that
\* was unmapped or re-protected.
BackedUntilStretched == stretched \/ Backed

\* find_free takes the highest gap below mmap_top that is above the heap,
\* and fails only if there is none.
HighestGap ==
    \A length \in Lengths :
        LET gaps == {s \in Floor .. mmap_top - length : ~Overlaps(regions, s, s + length)}
        IN FindFree(length) = IF gaps = {} THEN 0 ELSE Max(gaps)

\* As long as an image page is mapped it holds what the file says: the byte
\* of each address a segment's file part covers, zero around it.
ImageIntact ==
    \A p \in Page : (pages[p].what = "Own" /\ regions[At(p)].kind = "Image") =>
        \A b \in 0 .. PAGE_SIZE - 1 :
            LET a == p * PAGE_SIZE + b
                from == {i \in DOMAIN program.segments :
                            LET s == program.segments[i] IN a \in s.vaddr .. s.vaddr + s.file_size - 1}
            IN pages[p].data[b] = IF from = {} THEN Zero
                                  ELSE LET s == program.segments[CHOOSE i \in from : TRUE]
                                       IN s.file_offset + (a - s.vaddr)

\* What _start finds at the stack pointer: 16-byte alignment, argc, the
\* addresses of argv's strings, NULL, envp's, NULL, and the auxiliary pairs
\* up to AT_NULL, all below the strings, which fill the rest up to the top
\* one after the other, within the argument limit.
StackReadable ==
    Running =>
    LET v == stack.built.values
        argc == v[1]
        strings == stack.argv \o stack.envp
        pointers == SubSeq(v, 2, argc + 1) \o SubSeq(v, argc + 3, argc + 2 + Len(stack.envp))
    IN /\ stack.built.sp % (2 * WORD) = 0 /\ STACK_TOP - stack.built.sp <= ARGUMENT_LIMIT
       /\ stack.built.sp + Len(v) * WORD <= stack.built.strings_start
       /\ argc = Len(stack.argv) /\ v[argc + 2] = 0 /\ v[argc + 3 + Len(stack.envp)] = 0
       /\ \A i \in DOMAIN pointers :
            /\ pointers[i] >= stack.built.strings_start
            /\ pointers[i] + strings[i] + 1 =
                IF i < Len(pointers) THEN pointers[i + 1] ELSE STACK_TOP - RandomBytes
       /\ v[Len(v) - 3] = AT_RANDOM /\ v[Len(v) - 2] = STACK_TOP - RandomBytes
       /\ v[Len(v) - 1] = AT_NULL

\* The region list, the page tables and the frames tell the same story, through failures at any
\* page, and find_free finds what is there.
MemoryMapSound ==
    TypeOK /\ RegionsSorted /\ MappedIsListed /\ BackedUntilStretched /\ FramesConserved /\ HighestGap

\* What exec loaded and put on the stack is what the program finds.
ExecSound == ImageIntact /\ StackReadable
=============================================================================
