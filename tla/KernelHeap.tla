----------------------------- MODULE KernelHeap -----------------------------
(***************************************************************************)
(* The static kernel heap of kernel/src/mm/heap.rs: a sorted free list of  *)
(* regions, one list of blocks per small class, and the hand-over of large *)
(* allocations to the page heap (module PageHeap) at the end of boot.      *)
(*                                                                         *)
(* Addresses and sizes count units of size_of::<ListNode>() = 16 bytes,    *)
(* the smallest size the heap ever cuts; PAGE_UNITS is 4096 bytes in these *)
(* units.  Every operation runs under the heap's IrqSpinMutex: one step.   *)
(* The free list is kept sorted, so it is the set of its nodes.            *)
(***************************************************************************)
EXTENDS Integers, FiniteSets, SequencesExt

CONSTANTS HEAP_UNITS, PAGE_UNITS,
          SMALL_CLASSES,        \* block sizes, ascending; the last is PAGE_UNITS
          SMALL_REFILL_BLOCKS,  \* blocks carved at a time, a power of two
          Layouts,              \* [size, align] the kernel asks for
          MaxLive               \* bound: blocks the kernel holds at once

VARIABLES
    regions,      \* nodes of the free list: [start, size]
    small_heads,  \* small_heads[c]: the class's blocks, first to be taken first
    page_heap_ready,
    live,         \* blocks in the kernel's hands: [at, layout]
    small_usage, large_allocs, page_count, failed_allocs   \* the counters of stats()

vars == <<regions, small_heads, page_heap_ready, live,
          small_usage, large_allocs, page_count, failed_allocs>>

Class == 1 .. Len(SMALL_CLASSES)
Largest == SMALL_CLASSES[Len(SMALL_CLASSES)]
CeilDiv(a, b) == (a + b - 1) \div b
AlignUp(addr, align) == CeilDiv(addr, align) * align
Max2(a, b) == IF a > b THEN a ELSE b
Span(start, size) == start .. start + size - 1

---------------------------------------------------------------------------
(* The free list *)

\* Seeded fault: a region is not joined with the one after it.
AddFreeRegion_NoSuccessor(rs, addr, size) ==
    LET before == {r \in rs : r.start + r.size = addr}
    IN IF size < 1 THEN rs ELSE (rs \ before) \cup
       {[start |-> IF before = {} THEN addr ELSE (CHOOSE r \in before : TRUE).start,
         size |-> size + (IF before = {} THEN 0 ELSE (CHOOSE r \in before : TRUE).size)]}

\* add_free_region: refused when it is empty or overlaps a free region,
\* otherwise joined with the regions that touch it.
AddFreeRegion(rs, addr, size) ==
    LET touching == {r \in rs : r.start + r.size = addr \/ r.start = addr + size}
        joined == touching \cup {[start |-> addr, size |-> size]}
        start == CHOOSE s \in {r.start : r \in joined} : \A r \in joined : s <= r.start
        end == CHOOSE e \in {r.start + r.size : r \in joined} :
                  \A r \in joined : r.start + r.size <= e
    IN IF size < 1 \/ \E r \in rs : Span(r.start, r.size) \cap Span(addr, size) # {}
       THEN rs
       ELSE (rs \ touching) \cup {[start |-> start, size |-> end - start]}

\* alloc_from_region; a remainder smaller than a node cannot be cut off, and
\* whole units leave none.
FitsIn(r, size, align) == AlignUp(r.start, align) + size <= r.start + r.size

\* find_region: the first region that fits.
Fitting(rs, size, align) == {r \in rs : FitsIn(r, size, align)}
FindRegion(rs, size, align) ==
    CHOOSE r \in Fitting(rs, size, align) :
        \A q \in Fitting(rs, size, align) : r.start <= q.start

\* Take size units out of region r; what is left before and after goes back.
Cut(rs, r, size, align) ==
    LET at == AlignUp(r.start, align)
        prefix == AddFreeRegion(rs \ {r}, r.start, at - r.start)
    IN AddFreeRegion(prefix, at + size, r.start + r.size - (at + size))

---------------------------------------------------------------------------
(* Layouts *)

\* size_align: padded to the alignment, whole pages above the largest class.
PaddedSize(l) == AlignUp(l.size, l.align)
SizeOf(l) == IF PaddedSize(l) > Largest THEN AlignUp(PaddedSize(l), PAGE_UNITS)
             ELSE PaddedSize(l)
AlignOf(l) == IF PaddedSize(l) > Largest THEN Max2(l.align, PAGE_UNITS) ELSE l.align

\* small_class: the first class that holds both the size and the alignment.
Classes(l) == {c \in Class : SMALL_CLASSES[c] >= Max2(l.size, l.align)}
IsSmall(l) == Classes(l) # {}
SmallClass(l) == CHOOSE c \in Classes(l) : \A d \in Classes(l) : c <= d

---------------------------------------------------------------------------
Init ==
    /\ regions = {[start |-> 0, size |-> HEAP_UNITS]}
    /\ small_heads = [c \in Class |-> <<>>]
    /\ page_heap_ready = FALSE
    /\ live = {}
    /\ small_usage = [c \in Class |-> 0]
    /\ large_allocs = 0 /\ page_count = 0 /\ failed_allocs = 0

Give(at, l) == live' = live \cup {[at |-> at, layout |-> l]}

\* alloc, small: a block of the class's list.
AllocSmall(l) ==
    LET c == SmallClass(l)
    IN /\ IsSmall(l) /\ small_heads[c] # <<>>
       /\ Give(Head(small_heads[c]), l)
       /\ small_heads' = [small_heads EXCEPT ![c] = Tail(@)]
       /\ small_usage' = [small_usage EXCEPT ![c] = @ + 1]
       /\ UNCHANGED <<regions, page_heap_ready, large_allocs, page_count, failed_allocs>>

\* refill_small halves the run until a region holds it.
Runs(c) == {n \in 1 .. SMALL_REFILL_BLOCKS :
              /\ \E k \in 0 .. SMALL_REFILL_BLOCKS : n * 2^k = SMALL_REFILL_BLOCKS
              /\ Fitting(regions, n * SMALL_CLASSES[c], SMALL_CLASSES[c]) # {}}

\* alloc, small with an empty list: carve a run, keep its first block and
\* thread the others on the list, the last one in front.
AllocRefill(l) ==
    LET c == SmallClass(l)
        block == SMALL_CLASSES[c]
        run == CHOOSE n \in Runs(c) : \A m \in Runs(c) : m <= n
        r == FindRegion(regions, run * block, block)
        at == AlignUp(r.start, block)
    IN /\ IsSmall(l) /\ small_heads[c] = <<>> /\ Runs(c) # {}
       /\ regions' = Cut(regions, r, run * block, block)
       /\ small_heads' = [small_heads EXCEPT
             ![c] = [i \in 1 .. run - 1 |-> at + (run - i) * block]]
       /\ Give(at, l)
       /\ small_usage' = [small_usage EXCEPT ![c] = @ + 1]
       /\ UNCHANGED <<page_heap_ready, large_allocs, page_count, failed_allocs>>

\* alloc, large, while large allocations still come from the static heap.
AllocLarge(l) ==
    /\ ~IsSmall(l) /\ ~(l.size > Largest /\ page_heap_ready)
    /\ Fitting(regions, SizeOf(l), AlignOf(l)) # {}
    /\ LET r == FindRegion(regions, SizeOf(l), AlignOf(l))
       IN /\ regions' = Cut(regions, r, SizeOf(l), AlignOf(l))
          /\ Give(AlignUp(r.start, AlignOf(l)), l)
    /\ large_allocs' = large_allocs + 1
    /\ page_count' = page_count + CeilDiv(SizeOf(l), PAGE_UNITS)
    /\ UNCHANGED <<small_heads, page_heap_ready, small_usage, failed_allocs>>

\* alloc returns null: no region holds even one block.  The counter is capped
\* at 1: only the first failure is told apart.
AllocFails(l) ==
    /\ \/ IsSmall(l) /\ small_heads[SmallClass(l)] = <<>> /\ Runs(SmallClass(l)) = {}
       \/ /\ ~IsSmall(l) /\ ~(l.size > Largest /\ page_heap_ready)
          /\ Fitting(regions, SizeOf(l), AlignOf(l)) = {}
    /\ failed_allocs' = 1
    /\ UNCHANGED <<regions, small_heads, page_heap_ready, live,
                   small_usage, large_allocs, page_count>>

\* Seeded fault: a freed block is threaded on the list of its size alone.
DeallocSmall_BySize(b) ==
    LET c == CHOOSE k \in Class : /\ SMALL_CLASSES[k] >= b.layout.size
                                  /\ \A j \in Class : SMALL_CLASSES[j] >= b.layout.size => k <= j
    IN /\ IsSmall(b.layout)
       /\ small_heads' = [small_heads EXCEPT ![c] = <<b.at>> \o @]
       /\ small_usage' = [small_usage EXCEPT ![SmallClass(b.layout)] = @ - 1]
       /\ live' = live \ {b}
       /\ UNCHANGED <<regions, page_heap_ready, large_allocs, page_count, failed_allocs>>

\* dealloc, small: in front of its class's list, never back to the regions.
DeallocSmall(b) ==
    LET c == SmallClass(b.layout)
    IN /\ IsSmall(b.layout)
       /\ small_heads' = [small_heads EXCEPT ![c] = <<b.at>> \o @]
       /\ small_usage' = [small_usage EXCEPT ![c] = @ - 1]
       /\ live' = live \ {b}
       /\ UNCHANGED <<regions, page_heap_ready, large_allocs, page_count, failed_allocs>>

\* dealloc, large: routed by the address, so a block from before the
\* hand-over comes back here after it.
DeallocLarge(b) ==
    /\ ~IsSmall(b.layout)
    /\ regions' = AddFreeRegion(regions, b.at, SizeOf(b.layout))
    /\ large_allocs' = large_allocs - 1
    /\ page_count' = page_count - CeilDiv(SizeOf(b.layout), PAGE_UNITS)
    /\ live' = live \ {b}
    /\ UNCHANGED <<small_heads, page_heap_ready, small_usage, failed_allocs>>

\* finish_boot -> enable_page_heap.
EnablePageHeap ==
    /\ ~page_heap_ready
    /\ page_heap_ready' = TRUE
    /\ UNCHANGED <<regions, small_heads, live, small_usage, large_allocs,
                   page_count, failed_allocs>>

Alloc(l) ==
    /\ Cardinality(live) < MaxLive
    /\ AllocSmall(l) \/ AllocRefill(l) \/ AllocLarge(l) \/ AllocFails(l)

Next ==
    \/ \E l \in Layouts : Alloc(l)
    \/ \E b \in live : DeallocSmall(b) \/ DeallocLarge(b)
    \/ EnablePageHeap

Spec == Init /\ [][Next]_vars

---------------------------------------------------------------------------
\* Every variable has its shape.
TypeOK ==
    /\ regions \subseteq [start : 0 .. HEAP_UNITS, size : 1 .. HEAP_UNITS]
    /\ small_heads \in [Class -> Seq(0 .. HEAP_UNITS)]
    /\ page_heap_ready \in BOOLEAN
    /\ live \subseteq [at : 0 .. HEAP_UNITS, layout : Layouts]
    /\ small_usage \in [Class -> Nat] /\ {large_allocs, page_count, failed_allocs} \subseteq Nat

BlockSize(b) == IF IsSmall(b.layout) THEN SMALL_CLASSES[SmallClass(b.layout)] ELSE SizeOf(b.layout)

\* How many owners a unit of the heap has: free regions, blocks on class
\* lists, blocks in the kernel's hands.
Owners(u) ==
    Cardinality({r \in regions : u \in Span(r.start, r.size)})
    + Cardinality({<<c, i>> \in Class \X (1 .. HEAP_UNITS) :
                     i <= Len(small_heads[c]) /\ u \in Span(small_heads[c][i], SMALL_CLASSES[c])})
    + Cardinality({b \in live : u \in Span(b.at, BlockSize(b))})

\* Every unit of the heap has exactly one owner: splitting, refilling with a
\* shrunken run, freeing and the hand-over to the page heap neither lose
\* memory nor give it out twice (add_free_region's refusal, whose result the
\* callers drop, never happens).
HeapConserved == TypeOK /\ \A u \in 0 .. HEAP_UNITS - 1 : Owners(u) = 1

\* check(), which validate() and the selftests call.
Check ==
    LET apart == \A r, q \in regions : r # q => r.start + r.size <= q.start \/ q.start + q.size <= r.start
        inside == \A r \in regions : r.start >= 0 /\ r.size >= 1 /\ r.start + r.size <= HEAP_UNITS
        blocks(c) == ToSet(small_heads[c])
    IN CASE ~inside -> "free node outside heap"
         [] inside /\ ~apart -> "free nodes overlap or are unsorted"
         [] inside /\ apart /\ regions = {} /\ \A c \in Class : blocks(c) = {} ->
              "free list empty after initialization"
         [] OTHER ->
              IF \E c \in Class : \E b \in blocks(c) : b < 0 \/ b + SMALL_CLASSES[c] > HEAP_UNITS
              THEN "small-class block outside heap"
              ELSE IF \E c \in Class : \E b \in blocks(c) : b % SMALL_CLASSES[c] # 0
              THEN "small-class block misaligned"
              ELSE "valid"

\* stats()
Stats == [small_class_usage |-> small_usage, page_count |-> page_count,
          large_allocations |-> large_allocs, failed_allocations |-> failed_allocs,
          largest_free_extent |-> IF regions = {} THEN 0
                                  ELSE CHOOSE n \in {r.size : r \in regions} :
                                          \A r \in regions : r.size <= n]

\* check() finds nothing wrong, except that it takes a heap whose last unit is
\* in use for an uninitialized one; beyond it, no two free regions touch
\* (fragmentation cannot build up between them), every block honours its
\* layout, and what stats() reports is exact.
ListsSound ==
    /\ Check \in {"valid", "free list empty after initialization"}
    /\ Check # "valid" => \A u \in 0 .. HEAP_UNITS - 1 :
          \E b \in live : u \in Span(b.at, BlockSize(b))
    /\ \A r, q \in regions : r.start + r.size # q.start
    /\ \A b \in live : b.at % b.layout.align = 0 /\ BlockSize(b) >= b.layout.size
    /\ \A c \in Class : Stats.small_class_usage[c] =
          Cardinality({b \in live : IsSmall(b.layout) /\ SmallClass(b.layout) = c})
    /\ Stats.large_allocations = Cardinality({b \in live : ~IsSmall(b.layout)})
    /\ Stats.largest_free_extent > 0 <=> regions # {}
============================================================================
