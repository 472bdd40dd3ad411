------------------------------- MODULE Frames -------------------------------
(***************************************************************************)
(* Physical frames: the allocator of kernel/src/mm/frame.rs, the buddy     *)
(* free lists of mm/buddy.rs that it keeps inside the free frames, the     *)
(* boot-time holds of mm/holds.rs and the per-frame reference counts.      *)
(*                                                                         *)
(* Addresses are frame numbers.  Everything under the ALLOCATOR lock is    *)
(* one step; free_frame and release_contiguous drop the reference count    *)
(* before they take that lock, so each is two steps.  The bytes of a frame *)
(* matter only where a list node may lie in them: "magic" says that they   *)
(* hold the head tag of that very frame.                                   *)
(***************************************************************************)
EXTENDS Integers, FiniteSets, SequencesExt

CONSTANTS frame_count, MAX_ORDER, DMA32_FRAMES, MAX_HOLD_RANGES,
          Usable,          \* frames the firmware's map calls usable
          MetadataFrames,  \* the boot arena that holds the bitmap
          RefcountPages,   \* size of the reference count array
          StaleNodes,      \* frames with a node left in RAM by an earlier boot
          HoldRanges, ReserveRanges,  \* <<first, last>> ranges asked for
          Bounds,          \* <<minimum, maximum>> constraints asked for
          MaxHolds,        \* bound: holds ever made
          MaxHeld,         \* bound: references in the callers' hands
          MaxRef           \* u16::MAX

Frame == 0 .. frame_count - 1
Order == 0 .. MAX_ORDER
Zone == {0, 1}             \* Dma32, Normal
NONE == frame_count + 1    \* usize::MAX

ASSUME FramesAssumption ==
    /\ {frame_count, MAX_ORDER, DMA32_FRAMES, MAX_HOLD_RANGES, RefcountPages} \subseteq Nat
    /\ DMA32_FRAMES % 2^MAX_ORDER = 0
    /\ Usable \subseteq Frame /\ StaleNodes \subseteq Frame
    /\ frame_count - 1 \in Usable

VARIABLES
    state,          \* the bitmap: "Reserved", "Free" or "Allocated"
    lists,          \* BuddyLists, with the nodes that lie in the frames
    buddy_active,
    scan_cursor,
    holds, next_id, \* HoldTable
    refcounts,      \* the count array, or NoCounts before it exists
    held,           \* held[f]: references to frame f the callers own
    blocks,         \* <<f, order>> blocks the callers own
    dropping,       \* blocks whose count is dropped, about to be released
    table,          \* frames of the count array
    permanent,      \* frames reserved for good (ghost)
    panicked        \* an assertion or panic! fired

vars == <<state, lists, buddy_active, scan_cursor, holds, next_id, refcounts,
          held, blocks, dropping, table, permanent, panicked>>
callers == <<held, blocks, dropping, table>>

NoCounts == [f \in {} |-> 0]
NoRange == [id |-> 0, first |-> 0, last |-> 0]
Slot == 1 .. MAX_HOLD_RANGES

---------------------------------------------------------------------------
(* buddy.rs: blocks and lists *)

ZoneOf(f) == IF f < DMA32_FRAMES THEN 0 ELSE 1
Block(f, order) == f .. f + 2^order - 1
Align(f, order) == f - (f % 2^order)
BuddyOf(f, order) == IF f % 2^(order + 1) = 0 THEN f + 2^order ELSE f - 2^order
RangeIs(st, f, order, s) == \A g \in Block(f, order) : g \in Frame /\ st[g] = s
Set(st, range, s) == [f \in Frame |-> IF f \in range THEN s ELSE st[f]]

BlankNode == [magic |-> FALSE, order |-> 0, prev |-> NONE, next |-> NONE]

\* BuddyLists::new; the frames keep whatever bytes they have.
NewLists(node) ==
    [heads |-> [z \in Zone |-> [k \in Order |-> NONE]],
     counts |-> [z \in Zone |-> [k \in Order |-> 0]], node |-> node]

\* push: write the node into the block's first frame, in front of the list.
Push(l, f, order) ==
    LET head == l.heads[ZoneOf(f)][order]
        linked == [g \in Frame |->
            IF g = head THEN [l.node[g] EXCEPT !.prev = f] ELSE l.node[g]]
    IN [heads |-> [l.heads EXCEPT ![ZoneOf(f)][order] = f],
        counts |-> [l.counts EXCEPT ![ZoneOf(f)][order] = @ + 1],
        node |-> [linked EXCEPT
                    ![f] = [magic |-> TRUE, order |-> order, prev |-> NONE, next |-> head]]]

\* Seeded fault: the popped block keeps its tag.
Unlink_KeepsMagic(l, f, order) ==
    LET n == l.node[f]
    IN [heads |-> [l.heads EXCEPT ![ZoneOf(f)][order] = IF n.prev = NONE THEN n.next ELSE @],
        counts |-> [l.counts EXCEPT ![ZoneOf(f)][order] = @ - 1],
        node |-> [g \in Frame |-> IF g = n.prev THEN [l.node[g] EXCEPT !.next = n.next]
                                  ELSE IF g = n.next THEN [l.node[g] EXCEPT !.prev = n.prev]
                                  ELSE l.node[g]]]

\* unlink: take the block out of the middle of its list and clear its tag.
Unlink(l, f, order) ==
    LET n == l.node[f]
    IN [heads |-> [l.heads EXCEPT ![ZoneOf(f)][order] = IF n.prev = NONE THEN n.next ELSE @],
        counts |-> [l.counts EXCEPT ![ZoneOf(f)][order] = @ - 1],
        node |-> [g \in Frame |-> IF g = f THEN BlankNode
                                  ELSE IF g = n.prev THEN [l.node[g] EXCEPT !.next = n.next]
                                  ELSE IF g = n.next THEN [l.node[g] EXCEPT !.prev = n.prev]
                                  ELSE l.node[g]]]

IsFreeHead(st, l, f, order) ==
    /\ f + 2^order <= frame_count /\ st[f] = "Free"
    /\ l.node[f].magic /\ l.node[f].order = order

\* Halve a block of order "from" down to order "to", keeping the part with
\* frame f and pushing the other halves.
Split(l, f, from, to) ==
    FoldLeft(LAMBDA acc, k : Push(acc, BuddyOf(Align(f, k), k), k),
             l, [i \in 1 .. from - to |-> from - i])

\* Seeded fault: a released block is never merged.
CoalesceAndPush_Never(st, l, f, order) == Push(l, f, order)

\* coalesce_and_push: merge upwards while the buddy heads a free block.
CoalesceAndPush(st, l, f, order) ==
    LET Buddy(k) == BuddyOf(Align(f, k), k)
        Reaches(top) == \A k \in order .. top - 1 : IsFreeHead(st, l, Buddy(k), k)
        top == CHOOSE t \in order .. MAX_ORDER :
                    Reaches(t) /\ (t < MAX_ORDER => ~Reaches(t + 1))
        merged == FoldLeft(LAMBDA acc, k : Unlink(acc, Buddy(k), k),
                           l, [i \in 1 .. top - order |-> order + i - 1])
    IN Push(merged, Align(f, top), top)

\* block_order and the loops that carve f .. end into aligned blocks.
BlockOrder(f, end) ==
    CHOOSE k \in Order : /\ f % 2^k = 0 /\ f + 2^k <= end
                         /\ \A j \in Order : (f % 2^j = 0 /\ f + 2^j <= end) => j <= k

Carve(first, end) ==
    LET carve[f \in 0 .. end] ==
            IF f >= end THEN <<>>
            ELSE LET k == BlockOrder(f, end) IN <<<<f, k>>>> \o carve[f + 2^k]
    IN carve[first]

\* The maximal runs of frames in state s within first .. last, in order.
Runs(st, s, first, last) ==
    LET Is(f) == f \in first .. last - 1 /\ st[f] = s
        ends == {<<a, b>> \in (first .. last) \X (first .. last) :
                    /\ a < b /\ \A f \in a .. b - 1 : Is(f)
                    /\ ~Is(a - 1) /\ ~Is(b)}
    IN SetToSortSeq(ends, LAMBDA x, y : x[1] < y[1])

\* build: list every run of free frames.
Build(st, l) ==
    LET free == Runs(st, "Free", 0, frame_count)
        pieces == FlattenSeq([i \in DOMAIN free |-> Carve(free[i][1], free[i][2])])
    IN FoldLeft(LAMBDA acc, b : Push(acc, b[1], b[2]), NewLists(l.node), pieces)

\* BuddyLists::allocate: the smallest block of the first zone that has one.
Sources(l, order, zones) ==
    {<<i, k>> \in (1 .. Len(zones)) \X (order .. MAX_ORDER) : l.heads[zones[i]][k] # NONE}

First(sources) ==
    CHOOSE p \in sources : \A q \in sources : p[1] < q[1] \/ (p[1] = q[1] /\ p[2] <= q[2])

BuddyAllocate(st, l, order, zones) ==
    IF Sources(l, order, zones) = {} THEN [frame |-> NONE, state |-> st, lists |-> l]
    ELSE LET p == First(Sources(l, order, zones))
             head == l.heads[zones[p[1]]][p[2]]
         IN [frame |-> head, state |-> Set(st, Block(head, order), "Allocated"),
             lists |-> Split(Unlink(l, head, p[2]), head, p[2], order)]

\* Seeded fault: alignment checked against the next order.
CanRelease_Aligned(st, f, order) ==
    f % 2^(order + 1) = 0 /\ RangeIs(st, f, order, "Allocated")

\* BuddyLists::release of a block that is allocated throughout.
CanRelease(st, f, order) == f % 2^order = 0 /\ RangeIs(st, f, order, "Allocated")

BuddyRelease(st, l, f, order) ==
    LET freed == Set(st, Block(f, order), "Free")
    IN [state |-> freed, lists |-> CoalesceAndPush(freed, l, f, order)]

\* insert_reserved_range: free and merge one aligned piece at a time.
InsertReserved(st, l, first, last) ==
    LET runs == Runs(st, "Reserved", first, last)
        pieces == FlattenSeq([i \in DOMAIN runs |-> Carve(runs[i][1], runs[i][2])])
    IN FoldLeft(LAMBDA acc, b : BuddyRelease(acc.state, acc.lists, b[1], b[2]),
                [state |-> st, lists |-> l], pieces)

\* isolate: take one free frame out of the lists; panics if no block has it.
Covers(st, l, f) == {k \in Order : IsFreeHead(st, l, Align(f, k), k)}

Isolate(st, l, f) ==
    IF Covers(st, l, f) = {} THEN l
    ELSE LET k == CHOOSE j \in Covers(st, l, f) : \A i \in Covers(st, l, f) : j <= i
         IN Split(Unlink(l, Align(f, k), k), f, k, 0)

---------------------------------------------------------------------------
(* frame.rs: the allocator, as functions of what its lock protects *)

Now == [state |-> state, lists |-> lists, active |-> buddy_active,
        cursor |-> scan_cursor, panicked |-> panicked]

Becomes(a) ==
    /\ state' = a.state /\ lists' = a.lists /\ buddy_active' = a.active
    /\ scan_cursor' = a.cursor /\ panicked' = a.panicked

\* One free frame leaves the free pool for state s.
Take(a, f, s) ==
    [a EXCEPT !.state = [@ EXCEPT ![f] = s],
              !.lists = IF a.active THEN Isolate(a.state, @, f) ELSE @,
              !.panicked = @ \/ (a.active /\ Covers(a.state, a.lists, f) = {})]

TakeAll(a, range, s) ==
    FoldLeft(LAMBDA acc, f : Take(acc, f, s), a,
             SetToSortSeq({f \in range : a.state[f] = "Free"}, <))

\* Allocator::reserve
CanReserve(a, first, last) ==
    /\ first < last /\ first < frame_count /\ last <= frame_count
    /\ \A f \in first .. last - 1 : a.state[f] # "Allocated"

ReserveFrames(a, first, last) == TakeAll(a, first .. last - 1, "Reserved")

\* Allocator::release; its callers panic on an error.
Release(a, f, order) ==
    IF ~CanRelease(a.state, f, order) THEN [a EXCEPT !.panicked = TRUE]
    ELSE IF a.active
         THEN LET r == BuddyRelease(a.state, a.lists, f, order)
              IN [a EXCEPT !.state = r.state, !.lists = r.lists]
         ELSE [a EXCEPT !.state = Set(@, Block(f, order), "Free")]

\* unreserve: hand reserved frames back.
Unreserve(a, first, last) ==
    IF a.active
    THEN LET r == InsertReserved(a.state, a.lists, first, last)
         IN [a EXCEPT !.state = r.state, !.lists = r.lists]
    ELSE [a EXCEPT !.state =
            Set(@, {f \in first .. last - 1 : a.state[f] = "Reserved"}, "Free")]

ZonesFor(min, max) ==
    IF max <= DMA32_FRAMES THEN <<0>>
    ELSE IF min >= DMA32_FRAMES THEN <<1>> ELSE <<1, 0>>

\* allocate_scan: next fit over the bitmap from the cursor, then from below.
Clamp(x, low, high) == IF x < low THEN low ELSE IF x > high THEN high ELSE x
AlignUp(x, order) == Align(x + 2^order - 1, order)

ScanFits(a, order, min, max) ==
    {f \in AlignUp(min, order) .. (IF max < frame_count THEN max ELSE frame_count) - 2^order :
        f % 2^order = 0 /\ RangeIs(a.state, f, order, "Free")}

AllocateScan(a, order, min, max) ==
    LET fits == ScanFits(a, order, min, max)
        start == AlignUp(Clamp(a.cursor, AlignUp(min, order),
                               IF max < frame_count THEN max ELSE frame_count), order)
        ahead == {f \in fits : f >= start}
        found == CHOOSE f \in (IF ahead # {} THEN ahead ELSE fits) :
                    \A g \in (IF ahead # {} THEN ahead ELSE fits) : f <= g
    IN IF fits = {} THEN [frame |-> NONE, a |-> a]
       ELSE [frame |-> found,
             a |-> [TakeAll(a, Block(found, order), "Allocated")
                        EXCEPT !.cursor = found + 2^order]]

\* Allocator::allocate: a listed block if it fits the bounds, else a search.
Allocate(a, order, min, max) ==
    LET b == BuddyAllocate(a.state, a.lists, order, ZonesFor(min, max))
        taken == [a EXCEPT !.state = b.state, !.lists = b.lists]
    IN IF order \notin Order THEN [frame |-> NONE, a |-> a]
       ELSE IF ~a.active THEN AllocateScan(a, order, min, max)
       ELSE IF b.frame = NONE THEN [frame |-> NONE, a |-> a]
       ELSE IF b.frame >= min /\ b.frame + 2^order <= max THEN [frame |-> b.frame, a |-> taken]
       ELSE AllocateScan(Release(taken, b.frame, order), order, min, max)

\* set_refcounts
SetCounts(range, n) ==
    refcounts' = [f \in DOMAIN refcounts |-> IF f \in range THEN n ELSE refcounts[f]]

---------------------------------------------------------------------------
(* holds.rs: the table of temporary holds *)

\* add: false (here: unchanged) when the table is full.
Add(h, id, first, last) ==
    LET free == {i \in Slot : h[i] = NoRange}
        slot == CHOOSE i \in free : \A j \in free : i <= j
    IN IF first >= last \/ free = {} THEN h
       ELSE [h EXCEPT ![slot] = [id |-> id, first |-> first, last |-> last]]

\* Seeded fault: a hold keeps what is reserved for good.
PunchSlot_WholeRange(h, i, first, last) == h

PunchSlot(h, i, first, last) ==
    LET r == h[i]
        left == r.first < first
        right == last < r.last
        kept == [h EXCEPT ![i] = IF left THEN [r EXCEPT !.last = first]
                                 ELSE IF right THEN [r EXCEPT !.first = last] ELSE NoRange]
    IN IF r = NoRange \/ r.last <= first \/ last <= r.first THEN h
       ELSE IF left /\ right THEN Add(kept, r.id, last, r.last) ELSE kept

\* punch: the frames of a permanent reservation leave every hold.
Punch(h, first, last) ==
    FoldLeft(LAMBDA acc, i : PunchSlot(acc, i, first, last), h, [i \in Slot |-> i])

---------------------------------------------------------------------------
(* The operations *)

\* frame::init: usable memory is free, but for frame 0 and the bitmap itself.
Init ==
    /\ state = [f \in Frame |-> IF f \in Usable \ ({0} \cup MetadataFrames)
                                THEN "Free" ELSE "Reserved"]
    /\ lists = NewLists([f \in Frame |->
                    [BlankNode EXCEPT !.magic = f \in StaleNodes]])
    /\ buddy_active = FALSE /\ scan_cursor = 0
    /\ holds = [i \in Slot |-> NoRange] /\ next_id = 0
    /\ refcounts = NoCounts
    /\ held = [f \in Frame |-> 0] /\ blocks = {} /\ dropping = {} /\ table = {}
    /\ permanent = {f \in Frame : state[f] = "Reserved"}
    /\ panicked = FALSE

\* reserve_range
Reserve(first, last) ==
    /\ CanReserve(Now, first, last)
    /\ Becomes(ReserveFrames(Now, first, last))
    /\ holds' = Punch(holds, first, last)
    /\ permanent' = permanent \cup (first .. last - 1)
    /\ UNCHANGED <<next_id, refcounts, callers>>

\* hold_range: reserve the free runs and record them under a new id.
Hold(first, end) ==
    LET last == IF end < frame_count THEN end ELSE frame_count
        runs == Runs(state, "Free", first, last)
    IN /\ first < last /\ next_id < MaxHolds
       /\ next_id' = next_id + 1
       /\ Becomes(ReserveFrames(Now, first, last))
       /\ holds' = FoldLeft(LAMBDA acc, r : Add(acc, next_id', r[1], r[2]), holds, runs)
       /\ UNCHANGED <<refcounts, callers, permanent>>

\* release_hold, for release_boot_stack and release_initramfs.
ReleaseHold(id) ==
    LET mine == SelectSeq([i \in Slot |-> holds[i]], LAMBDA r : r.id = id)
    IN /\ mine # <<>>
       /\ Becomes(FoldLeft(LAMBDA acc, r : Unreserve(acc, r.first, r.last), Now, mine))
       /\ holds' = [i \in Slot |-> IF holds[i].id = id THEN NoRange ELSE holds[i]]
       /\ UNCHANGED <<next_id, refcounts, callers, permanent>>

InitialCounts(st, array) == [f \in Frame |-> IF st[f] = "Allocated" THEN 1 ELSE 0]

\* activate_metadata, init_refcounts included: the tail of the block that
\* the count array does not fill goes back to the lists.  Boot has a single
\* flow of control, so no free_frame is half done here.
Activate ==
    LET order == CHOOSE k \in 0 .. RefcountPages :
                    2^k >= RefcountPages /\ \A j \in 0 .. k - 1 : 2^j < RefcountPages
        listed == [Now EXCEPT !.lists = Build(state, lists), !.active = TRUE]
    IN /\ ~buddy_active /\ dropping = {}
       /\ \E r \in {Allocate(listed, order, 0, frame_count)} :
          IF r.frame = NONE
          THEN Becomes(r.a) /\ UNCHANGED <<refcounts, table>>
          ELSE \E array \in {r.frame .. r.frame + RefcountPages - 1} :
               \E trimmed \in {FoldLeft(LAMBDA acc, f : Release(acc, f, 0), r.a,
                                        SetToSortSeq(Block(r.frame, order) \ array, <))} :
               /\ Becomes(trimmed) /\ table' = array
               /\ refcounts' = InitialCounts(trimmed.state, array)
       /\ UNCHANGED <<holds, next_id, held, blocks, dropping, permanent>>

InHand == Cardinality({f \in Frame : held[f] > 0}) + Cardinality(blocks \cup dropping)

\* alloc_frame, alloc_frame_at_or_above, alloc_frame_below (order 0) and
\* alloc_contiguous, whose blocks go back whole.
Alloc(order, min, max) ==
    /\ InHand < MaxHeld /\ min < max
    /\ \E r \in {Allocate(Now, order, min, max)} :
       /\ Becomes(r.a)
       /\ IF r.frame = NONE THEN UNCHANGED <<refcounts, held, blocks>>
          ELSE /\ SetCounts(Block(r.frame, order), 1)
               /\ IF order = 0
                  THEN held' = [held EXCEPT ![r.frame] = 1] /\ UNCHANGED blocks
                  ELSE blocks' = blocks \cup {<<r.frame, order>>} /\ UNCHANGED held
    /\ UNCHANGED <<holds, next_id, dropping, table, permanent>>

Shareable(f) == refcounts[f] \notin {0, MaxRef}

\* frame_get: one more reference to a frame the caller holds.
FrameGet(f) ==
    /\ held[f] > 0 /\ f \in DOMAIN refcounts
    /\ Shareable(f)
    /\ SetCounts({f}, refcounts[f] + 1)
    /\ held' = [held EXCEPT ![f] = @ + 1]
    /\ UNCHANGED <<state, lists, buddy_active, scan_cursor, holds, next_id,
                   blocks, dropping, table, permanent, panicked>>

\* free_frame, up to the lock: drop a reference; the last one goes on.
DropReference(f) ==
    /\ held[f] > 0 /\ held' = [held EXCEPT ![f] = @ - 1]
    /\ IF f \in DOMAIN refcounts
       THEN /\ SetCounts({f}, refcounts[f] - 1)
            /\ panicked' = (panicked \/ refcounts[f] = 0)
            /\ dropping' = IF refcounts[f] = 1 THEN dropping \cup {<<f, 0>>} ELSE dropping
       ELSE /\ dropping' = dropping \cup {<<f, 0>>} /\ UNCHANGED <<refcounts, panicked>>
    /\ UNCHANGED <<state, lists, buddy_active, scan_cursor, holds, next_id,
                   blocks, table, permanent>>

\* release_contiguous, up to the lock: every frame must have one reference.
DropBlock(b) ==
    /\ b \in blocks /\ blocks' = blocks \ {b} /\ dropping' = dropping \cup {b}
    /\ panicked' = (panicked \/ \E f \in Block(b[1], b[2]) \cap DOMAIN refcounts : refcounts[f] # 1)
    /\ SetCounts(Block(b[1], b[2]), 0)
    /\ UNCHANGED <<state, lists, buddy_active, scan_cursor, holds, next_id,
                   held, table, permanent>>

\* ... and under the lock: the block goes back to the allocator.
Return(b) ==
    /\ b \in dropping /\ dropping' = dropping \ {b}
    /\ Becomes(Release(Now, b[1], b[2]))
    /\ UNCHANGED <<holds, next_id, refcounts, held, blocks, table, permanent>>

Next ==
    \/ \E r \in ReserveRanges : Reserve(r[1], r[2])
    \/ \E r \in HoldRanges : Hold(r[1], r[2])
    \/ \E id \in 1 .. MaxHolds : ReleaseHold(id)
    \/ Activate
    \/ \E order \in Order, b \in Bounds : Alloc(order, b[1], b[2])
    \/ \E f \in Frame : FrameGet(f) \/ DropReference(f)
    \/ \E b \in blocks : DropBlock(b)
    \/ \E b \in dropping : Return(b)

Spec == Init /\ [][Next]_vars

---------------------------------------------------------------------------
(* Properties *)

Node == [magic : BOOLEAN, order : Order, prev : Frame \cup {NONE}, next : Frame \cup {NONE}]

\* Every variable has its shape; the bitmap knows three states and a hold
\* range lies inside the tracked memory.
TypeOK ==
    /\ state \in [Frame -> {"Reserved", "Free", "Allocated"}]
    /\ lists.heads \in [Zone -> [Order -> Frame \cup {NONE}]]
    /\ lists.counts \in [Zone -> [Order -> 0 .. frame_count]]
    /\ lists.node \in [Frame -> Node]
    /\ buddy_active \in BOOLEAN /\ scan_cursor \in 0 .. frame_count
    /\ holds \in [Slot -> [id : 0 .. MaxHolds, first : 0 .. frame_count, last : 0 .. frame_count]]
    /\ next_id \in 0 .. MaxHolds
    /\ DOMAIN refcounts \in {{}, Frame} /\ \A f \in DOMAIN refcounts : refcounts[f] \in 0 .. MaxRef
    /\ held \in [Frame -> 0 .. MaxRef]
    /\ blocks \cup dropping \subseteq Frame \X Order
    /\ table \cup permanent \subseteq Frame /\ panicked \in BOOLEAN

\* The blocks met on following a list from its head; NONE is among them if it does not end.
Listed(z, k) ==
    LET after[f \in Frame \cup {NONE}, n \in 0 .. frame_count] ==
            IF f = NONE THEN {} ELSE IF n = 0 THEN {NONE}
            ELSE {f} \cup after[lists.node[f].next, n - 1]
    IN after[lists.heads[z][k], frame_count]

\* What BuddyLists::validate walks through: after any run of allocations,
\* releases, reservations and holds, each list is acyclic, doubly linked and
\* counted, its blocks aligned, in their zone and free throughout, and the
\* blocks of all lists cover every free frame exactly once.
ListsValid(members) ==
    /\ \A z \in Zone, k \in Order :
        /\ NONE \notin members[z, k]
        /\ lists.counts[z][k] = Cardinality(members[z, k])
        /\ lists.heads[z][k] # NONE => lists.node[lists.heads[z][k]].prev = NONE
        /\ \A f \in members[z, k] :
            /\ f % 2^k = 0 /\ ZoneOf(f) = z /\ RangeIs(state, f, k, "Free")
            /\ lists.node[f].next # NONE => lists.node[lists.node[f].next].prev = f
    /\ \A f \in Frame : state[f] = "Free" =>
        Cardinality({<<z, k>> \in Zone \X Order : Align(f, k) \in members[z, k]}) = 1

\* The invariant buddy.rs opens with: the bytes of a frame hold its head tag
\* exactly when it heads a block on a free list, with that list's order.
HeadTagExact(members) ==
    \A f \in Frame :
        /\ lists.node[f].magic <=> \E z \in Zone, k \in Order : f \in members[z, k]
        /\ lists.node[f].magic => f \in members[ZoneOf(f), lists.node[f].order]

\* allocate answers OutOfMemory only if no aligned block of free frames lies
\* within the bounds (the lists lose nothing to fragmentation they could
\* merge, the zones asked are enough), and what it returns does lie there.
HonestOutOfMemory ==
    \A order \in Order, b \in Bounds :
        LET fits == {f \in Frame : /\ f >= b[1] /\ f + 2^order <= b[2] /\ f % 2^order = 0
                                   /\ RangeIs(state, f, order, "Free")}
        IN \E r \in {Allocate(Now, order, b[1], b[2])} :
              IF r.frame = NONE THEN fits = {} ELSE r.frame \in fits

Owners(f) ==
    (IF held[f] > 0 THEN {<<f, -2>>} ELSE {})
    \cup {b \in blocks \cup dropping : f \in Block(b[1], b[2])}
    \cup (IF f \in table THEN {<<f, -1>>} ELSE {})

\* A frame is allocated exactly while one owner has it (a caller's frame or
\* block, one being returned, the count array), and its reference count is
\* the number of references out, also for frames older than the counts.
OwnedOnce ==
    \A f \in Frame :
        /\ Cardinality(Owners(f)) = (IF state[f] = "Allocated" THEN 1 ELSE 0)
        /\ f \in DOMAIN refcounts =>
            refcounts[f] = IF f \in table \/ \E b \in blocks : f \in Block(b[1], b[2])
                           THEN 1 ELSE held[f]

\* Holds keep to what they took: their ranges are disjoint and reserved, and
\* no permanent reservation is inside one, so what is reserved for good
\* (the image, the tables, the bitmap) stays so whatever hold is released.
HoldsTakeNothingElse ==
    /\ \A f \in permanent : state[f] = "Reserved"
    /\ \A i \in Slot : \A f \in holds[i].first .. holds[i].last - 1 :
        /\ state[f] = "Reserved" /\ f \notin permanent
        /\ \A j \in Slot \ {i} : f \notin holds[j].first .. holds[j].last - 1

\* No assertion of the allocator fires: no release is refused, no count is
\* found at zero, and isolate always finds the block of a free frame.
NeverPanics == ~panicked

\* The free lists as they lie in memory are valid, and no byte outside them looks like a
\* node: what coalesce relies on when it reads the tag of a buddy.
ListsConsistent ==
    /\ TypeOK
    /\ buddy_active => LET members == [z \in Zone, k \in Order |-> Listed(z, k)]
                       IN ListsValid(members) /\ HeadTagExact(members)

\* Every frame is free, owned once, held or reserved for good, and never two of these.
OwnershipKept == OwnedOnce /\ HoldsTakeNothingElse
=============================================================================
