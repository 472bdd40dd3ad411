------------------------------ MODULE PageHeap ------------------------------
(***************************************************************************)
(* The two users of the kernel's virtual memory window: the page heap      *)
(* (page_alloc and page_dealloc of kernel/src/mm/heap.rs) and the arena of *)
(* guarded kernel stacks (mm/kvm.rs).  Both take a range from a bitmap,    *)
(* then map one frame after another; both undo what they did when a frame  *)
(* or a table runs out.                                                    *)
(*                                                                         *)
(* Each lock (the bitmaps, KERNEL_MAP_LOCK, the frame allocator) is held   *)
(* for one step only, so tasks interleave between any two of the steps.    *)
(* Pages 0 .. HEAP_PAGES - 1 are the page heap; the mapped pages of stack  *)
(* slot s follow them (the guard below each is never mapped).              *)
(***************************************************************************)
EXTENDS Integers, FiniteSets

CONSTANTS HEAP_PAGES, STACK_PAGES, MAX_STACKS,
          Frames,       \* frames the frame allocator has
          Tasks,
          Sizes,        \* <<pages, alignment in pages>> asked of the page heap
          None

\* Nobody asks for no pages, and alignments are positive.
PageHeapAssumption ==
    /\ HEAP_PAGES \in Nat /\ STACK_PAGES \in Nat \ {0} /\ MAX_STACKS \in Nat
    /\ Sizes \subseteq (Nat \ {0}) \X (Nat \ {0})
    /\ IsFiniteSet(Tasks) /\ None \notin Frames

VARIABLES
    bitmap,      \* pages of the page heap in use
    cursor,      \* PAGE_HEAP_CURSOR
    slots,       \* stack slots in use
    table,       \* table[p]: the frame page p is mapped to, or None
    free,        \* free frames
    blocks,      \* page-heap allocations in the kernel's hands: <<start, pages>>
    stacks,      \* KernelStackAllocations in the kernel's hands
    mapped_count,\* PAGE_HEAP_MAPPED
    op,          \* op[t]: what task t is in the middle of
    panicked

vars == <<bitmap, cursor, slots, table, free, blocks, stacks, mapped_count, op, panicked>>

HeapPage == 0 .. HEAP_PAGES - 1
Slot == 0 .. MAX_STACKS - 1
StackBase(s) == HEAP_PAGES + s * STACK_PAGES
WindowPage == 0 .. HEAP_PAGES + MAX_STACKS * STACK_PAGES - 1
Span(start, pages) == start .. start + pages - 1

\* kind: "heap" or "stack"; start, pages: the range; at: pages mapped;
\* from: pages unmapped again; hand: a frame taken and not yet mapped, or
\* unmapped and not yet freed.
Idle == [pc |-> "idle", kind |-> "heap", start |-> 0, pages |-> 0, at |-> 0, from |-> 0,
         hand |-> None]
Become(t, o) == op' = [op EXCEPT ![t] = o]

Init ==
    /\ bitmap = {} /\ cursor = 0 /\ slots = {}
    /\ table = [p \in WindowPage |-> None]
    /\ free = Frames
    /\ blocks = {} /\ stacks = {} /\ mapped_count = 0
    /\ op = [t \in Tasks |-> Idle]
    /\ panicked = FALSE

---------------------------------------------------------------------------
(* Taking a range *)

Lowest(S) == CHOOSE p \in S : \A q \in S : p <= q

\* page_alloc's search: aligned starts from the hint up, then from 0.
Candidates(pages, align) ==
    {p \in 0 .. HEAP_PAGES - pages : p % align = 0 /\ Span(p, pages) \cap bitmap = {}}
First(pages, align) ==
    LET hint == IF cursor < HEAP_PAGES - pages THEN cursor ELSE HEAP_PAGES - pages
    IN ((hint + align - 1) \div align) * align
Found(pages, align) ==
    LET above == {p \in Candidates(pages, align) : p >= First(pages, align)}
    IN Lowest(IF above # {} THEN above ELSE Candidates(pages, align))

PageAlloc(t, pages, align) ==
    /\ op[t].pc = "idle"
    /\ Candidates(pages, align) # {}
    /\ LET start == Found(pages, align)
       IN /\ bitmap' = bitmap \cup Span(start, pages)
          /\ cursor' = start + pages
          /\ Become(t, [Idle EXCEPT !.pc = "frame", !.start = start, !.pages = pages])
    /\ UNCHANGED <<slots, table, free, blocks, stacks, mapped_count, panicked>>

\* take_slot: the lowest free slot.
NewStack(t) ==
    /\ op[t].pc = "idle" /\ slots # Slot
    /\ LET s == Lowest(Slot \ slots)
       IN /\ slots' = slots \cup {s}
          /\ Become(t, [Idle EXCEPT !.pc = "frame", !.kind = "stack",
                                    !.start = StackBase(s), !.pages = STACK_PAGES])
    /\ UNCHANGED <<bitmap, cursor, table, free, blocks, stacks, mapped_count, panicked>>

---------------------------------------------------------------------------
(* Mapping it *)

At(o) == o.start + o.at
SlotOf(o) == (o.start - HEAP_PAGES) \div STACK_PAGES

\* alloc_frame; without one, what was mapped is undone.
TakeFrame(t) ==
    /\ op[t].pc = "frame"
    /\ \/ \E f \in free : /\ free' = free \ {f}
                          /\ Become(t, [op[t] EXCEPT !.pc = "map", !.hand = f])
       \/ free = {} /\ free' = free
                    /\ Become(t, [op[t] EXCEPT !.pc = "unmap", !.hand = None])
    /\ UNCHANGED <<bitmap, cursor, slots, table, blocks, stacks, mapped_count, panicked>>

\* The last page is mapped: the caller gets the block or the stack.
Finish(t) ==
    LET o == op[t]
    IN /\ Become(t, Idle)
       /\ IF o.kind = "heap"
          THEN /\ blocks' = blocks \cup {<<o.start, o.pages>>}
               /\ mapped_count' = mapped_count + o.pages
               /\ UNCHANGED stacks
          ELSE stacks' = stacks \cup {SlotOf(o)} /\ UNCHANGED <<blocks, mapped_count>>

\* Seeded fault: the page is mapped over an existing translation.
MapPage_Replaces(t) ==
    /\ op[t].pc = "map"
    /\ table' = [table EXCEPT ![At(op[t])] = op[t].hand]
    /\ IF op[t].at + 1 = op[t].pages THEN Finish(t)
       ELSE /\ Become(t, [op[t] EXCEPT !.pc = "frame", !.at = @ + 1, !.hand = None])
            /\ UNCHANGED <<blocks, stacks, mapped_count>>
    /\ UNCHANGED <<bitmap, cursor, slots, free, panicked>>

\* map_page, which rejects a page that is still mapped.
MapPage(t) ==
    /\ op[t].pc = "map" /\ table[At(op[t])] = None
    /\ table' = [table EXCEPT ![At(op[t])] = op[t].hand]
    /\ IF op[t].at + 1 = op[t].pages THEN Finish(t)
       ELSE /\ Become(t, [op[t] EXCEPT !.pc = "frame", !.at = @ + 1, !.hand = None])
            /\ UNCHANGED <<blocks, stacks, mapped_count>>
    /\ UNCHANGED <<bitmap, cursor, slots, free, panicked>>

\* map_page fails: the page is still mapped, or a page table is needed and
\* there is no frame for it.  The frame in hand is freed first.
MapFails(t) ==
    /\ op[t].pc = "map"
    /\ table[At(op[t])] # None \/ free = {}
    /\ free' = free \cup {op[t].hand}
    /\ Become(t, [op[t] EXCEPT !.pc = "unmap", !.hand = None])
    /\ UNCHANGED <<bitmap, cursor, slots, table, blocks, stacks, mapped_count, panicked>>

---------------------------------------------------------------------------
(* Undoing it.  A failed page_alloc and a stack unmap before they give the *)
(* range back; page_dealloc gives the range back first.                    *)

\* page_dealloc: the bits are cleared, the pages are still mapped.
PageDealloc(t) ==
    /\ op[t].pc = "idle"
    /\ \E b \in blocks :
          /\ Span(b[1], b[2]) \subseteq bitmap
          /\ bitmap' = bitmap \ Span(b[1], b[2])
          /\ blocks' = blocks \ {b}
          /\ Become(t, [Idle EXCEPT !.pc = "drop", !.start = b[1], !.pages = b[2], !.at = b[2]])
    /\ UNCHANGED <<cursor, slots, table, free, stacks, mapped_count, panicked>>

\* Seeded fault: the slot is free before its pages are unmapped.
DropStack_SlotFirst(t) ==
    /\ op[t].pc = "idle"
    /\ \E s \in stacks :
          /\ stacks' = stacks \ {s}
          /\ slots' = slots \ {s}
          /\ Become(t, [Idle EXCEPT !.pc = "drop", !.kind = "stack", !.start = StackBase(s),
                                    !.pages = STACK_PAGES, !.at = STACK_PAGES])
    /\ UNCHANGED <<bitmap, cursor, table, free, blocks, mapped_count, panicked>>

\* KernelStackAllocation::drop.
DropStack(t) ==
    /\ op[t].pc = "idle"
    /\ \E s \in stacks :
          /\ stacks' = stacks \ {s}
          /\ Become(t, [Idle EXCEPT !.pc = "unmap", !.kind = "stack", !.start = StackBase(s),
                                    !.pages = STACK_PAGES, !.at = STACK_PAGES])
    /\ UNCHANGED <<bitmap, cursor, slots, table, free, blocks, mapped_count, panicked>>

\* unmap_page of the next page.  A stack page that is not mapped is a panic, a
\* heap page that is not is passed over.
Unmapping(o) == o.pc \in {"unmap", "drop"} /\ o.hand = None
Unmap(t) ==
    LET o == op[t]
        p == o.start + o.from
    IN /\ Unmapping(o) /\ o.from < o.at
       /\ table' = [table EXCEPT ![p] = None]
       /\ Become(t, [o EXCEPT !.from = @ + 1, !.hand = table[p]])
       /\ panicked' = (panicked \/ (o.kind = "stack" /\ table[p] = None))
       /\ UNCHANGED <<bitmap, cursor, slots, free, blocks, stacks, mapped_count>>

\* free_frame.
FreeFrame(t) ==
    /\ op[t].pc \in {"unmap", "drop"} /\ op[t].hand # None
    /\ free' = free \cup {op[t].hand}
    /\ Become(t, [op[t] EXCEPT !.hand = None])
    /\ UNCHANGED <<bitmap, cursor, slots, table, blocks, stacks, mapped_count, panicked>>

\* All pages are unmapped: page_alloc's roll-back clears its bits,
\* release_slot asserts that the slot was taken, page_dealloc counts.
GiveBack(t) ==
    LET o == op[t]
    IN /\ Unmapping(o) /\ o.from = o.at
       /\ Become(t, Idle)
       /\ bitmap' = IF o.kind = "heap" /\ o.pc = "unmap" THEN bitmap \ Span(o.start, o.pages)
                    ELSE bitmap
       /\ slots' = IF o.kind = "stack" THEN slots \ {SlotOf(o)} ELSE slots
       /\ panicked' = (panicked \/ (o.kind = "stack" /\ SlotOf(o) \notin slots))
       /\ mapped_count' = IF o.pc = "drop" THEN mapped_count - o.pages ELSE mapped_count
       /\ UNCHANGED <<cursor, table, free, blocks, stacks>>

Next ==
    \E t \in Tasks :
        \/ \E s \in Sizes : PageAlloc(t, s[1], s[2])
        \/ NewStack(t) \/ TakeFrame(t) \/ MapPage(t) \/ MapFails(t)
        \/ PageDealloc(t) \/ DropStack(t)
        \/ Unmap(t) \/ FreeFrame(t) \/ GiveBack(t)

Spec == Init /\ [][Next]_vars

---------------------------------------------------------------------------
\* Every variable has its shape.
TypeOK ==
    /\ bitmap \subseteq HeapPage /\ cursor \in 0 .. HEAP_PAGES /\ slots \subseteq Slot
    /\ table \in [WindowPage -> Frames \cup {None}] /\ free \subseteq Frames
    /\ stacks \subseteq slots /\ mapped_count \in Nat /\ panicked \in BOOLEAN
    /\ \A t \in Tasks : op[t].hand \in Frames \cup {None}

StackSpan(s) == Span(StackBase(s), STACK_PAGES)
Uses(f) == Cardinality({p \in WindowPage : table[p] = f}) + (IF f \in free THEN 1 ELSE 0)
           + Cardinality({t \in Tasks : op[t].hand = f})

\* Every frame is in one place; every page in somebody's hands is mapped and
\* is nobody else's; when no task is in the middle of a call exactly those
\* pages are mapped and counted.  page_dealloc clears its bits before it
\* unmaps, so another task can be given pages that are still mapped: only
\* map_page's refusal keeps the two apart.
PagesExclusive ==
    /\ TypeOK
    /\ \A f \in Frames : Uses(f) = 1
    /\ \A b \in blocks : \A p \in Span(b[1], b[2]) : p \in bitmap /\ table[p] # None
    /\ \A s \in stacks : \A p \in StackSpan(s) : table[p] # None
    /\ \A b, c \in blocks : b # c => Span(b[1], b[2]) \cap Span(c[1], c[2]) = {}
    /\ (\A t \in Tasks : op[t] = Idle) =>
          /\ \A p \in HeapPage : table[p] # None <=> p \in bitmap
          /\ bitmap = UNION {Span(b[1], b[2]) : b \in blocks} /\ slots = stacks
          /\ mapped_count = Cardinality(bitmap)

\* The slot of a stack is given back only once its pages are unmapped, so a
\* new stack never meets a mapped page and neither unmap_pages nor
\* release_slot panics.
StacksNeverPanic ==
    /\ ~panicked
    /\ \A s \in Slot \ slots : \A p \in StackSpan(s) : table[p] = None
=============================================================================
