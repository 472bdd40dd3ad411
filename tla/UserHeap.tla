------------------------------- MODULE UserHeap -------------------------------
(***************************************************************************)
(* The allocator of user programs (userspace/libsaeos/src/heap.rs and      *)
(* allocator.rs): free lists of power-of-two blocks carved from a heap     *)
(* that grows with brk, and a mapping of its own for each larger block.    *)
(*                                                                         *)
(* Memory is an array of words, the unit of every size here: MIN_BLOCK is  *)
(* one word, which is where a free block keeps the link to the next.  The  *)
(* program that allocates fills its blocks with marks of its own and may   *)
(* also move the break itself, as the allocator allows; brk and mmap are   *)
(* the kernel's and may fail.                                              *)
(***************************************************************************)
EXTENDS Naturals, FiniteSets, Sequences

CONSTANTS
    LARGE,          \* the largest block of a class, a power of two
    GROWTH,         \* the least the heap grows by
    PAGE,           \* mappings are multiples of this, at multiples of it
    HeapStart, HeapTop,     \* where the break starts, and its limit
    MapTop,         \* mappings lie in HeapTop .. MapTop - 1
    Layouts,        \* the layouts asked for: [size |-> ..., align |-> ...]
    Marks           \* the program's live blocks, by the mark each is filled with

VARIABLES
    free,           \* class -> the first free block, or Null
    bump, end,      \* the unused part of the heap
    mem,            \* address -> the word there: a link or a mark
    break,          \* the program's break
    own,            \* the addresses below the break that the program took itself
    maps,           \* the mappings: [at |-> ..., bytes |-> ...]
    live            \* mark -> the block it fills, or NoBlock

vars == <<free, bump, end, mem, break, own, maps, live>>

Null == 0
Mark(m) == MapTop + m
NoBlock == [at |-> Null]
Classes == {c \in 1..LARGE : \E k \in 0..LARGE : c = 2^k}
Span(at, n) == at .. at + n - 1

MaxOf(a, b) == IF a >= b THEN a ELSE b
RoundUp(n, to) == ((n + to - 1) \div to) * to

\* class, as the block's size; None: the layout gets its own mapping.
None == 0
Class(layout) ==
    LET fits == {c \in Classes : c >= MaxOf(layout.size, layout.align)}
    IN  IF fits = {} THEN None ELSE CHOOSE c \in fits : \A d \in fits : c <= d

LargeSize(layout) == RoundUp(layout.size, PAGE)

Init ==
    /\ free = [c \in Classes |-> Null] /\ bump = 0 /\ end = 0
    /\ mem = [a \in HeapStart .. MapTop - 1 |-> 0]
    /\ break = HeapStart /\ own = {} /\ maps = {}
    /\ live = [m \in Marks |-> NoBlock]

---------------------------------------------------------------------------
(* A heap value is [free, bump, end, mem, break, maps]; the operations map one to another. *)

Heap == [free |-> free, bump |-> bump, end |-> end, mem |-> mem, break |-> break, maps |-> maps]

\* Source::grow: the break is asked for first; the growth starts there.
Grow(h, bytes) == [h EXCEPT !.break = h.break + bytes]

\* Seeded fault: the old tail is carved on into memory that does not follow it.
Carve_KeepsTail(h, size, grows) ==
    LET start == RoundUp(h.bump, size)
        wanted == MaxOf(2 * size, GROWTH)
    IN  CASE start + size <= h.end -> [heap |-> [h EXCEPT !.bump = start + size], block |-> start]
          [] ~ grows \/ h.break + wanted > HeapTop -> [heap |-> h, block |-> Null]
          [] OTHER ->
                LET from == IF h.bump = 0 THEN h.break ELSE h.bump
                    at == RoundUp(from, size)
                IN  [heap |-> [Grow(h, wanted) EXCEPT !.bump = at + size,
                                                      !.end = h.break + wanted],
                     block |-> at]

\* A fresh block of `size` from the heap, grown if it is too small and can grow.
Carve(h, size, grows) ==
    LET start == RoundUp(h.bump, size)
        wanted == MaxOf(2 * size, GROWTH)
    IN  CASE start + size <= h.end -> [heap |-> [h EXCEPT !.bump = start + size], block |-> start]
          [] ~ grows \/ h.break + wanted > HeapTop -> [heap |-> h, block |-> Null]
          [] OTHER ->
                LET from == IF h.break # h.end THEN h.break ELSE h.bump
                    at == RoundUp(from, size)
                IN  [heap |-> [Grow(h, wanted) EXCEPT !.bump = at + size,
                                                      !.end = h.break + wanted],
                     block |-> at]

\* The kernel's choice of a place for a mapping: the lowest hole.
Holes(h, bytes) ==
    {a \in HeapTop .. MapTop - bytes :
        a % PAGE = 0 /\ \A m \in h.maps : Span(a, bytes) \cap Span(m.at, m.bytes) = {}}

Alloc(h, layout, grows) ==
    LET class == Class(layout)
        bytes == LargeSize(layout)
        holes == Holes(h, bytes)
    IN  CASE class # None /\ h.free[class] = Null -> Carve(h, class, grows)
          [] class # None /\ h.free[class] # Null ->
                [heap |-> [h EXCEPT !.free[class] = h.mem[@]], block |-> h.free[class]]
          [] class = None /\ (layout.align > PAGE \/ ~ grows \/ holes = {}) ->
                [heap |-> h, block |-> Null]
          [] OTHER ->
                LET at == CHOOSE a \in holes : \A b \in holes : a <= b
                IN  [heap |-> [h EXCEPT !.maps = @ \cup {[at |-> at, bytes |-> bytes]}],
                     block |-> at]

\* (The words of a block given back that nobody reads again are 0.)
Dealloc(h, block, layout) ==
    LET class == Class(layout)
        dead == [a \in DOMAIN h.mem |-> IF a \in Span(block, layout.size) THEN 0 ELSE h.mem[a]]
    IN  IF class # None
        THEN [h EXCEPT !.mem = [dead EXCEPT ![block] = h.free[class]], !.free[class] = block]
        ELSE [h EXCEPT !.mem = dead,
                       !.maps = @ \ {[at |-> block, bytes |-> LargeSize(layout)]}]

\* Seeded fault: the old block is freed before the new one is asked for.
Realloc_FreesFirst(h, block, layout, size, grows) ==
    LET new == [layout EXCEPT !.size = size]
        got == Alloc(Dealloc(h, block, layout), new, grows)
        kept == IF size < layout.size THEN size ELSE layout.size
    IN  IF got.block = Null THEN got
        ELSE [got EXCEPT !.heap.mem = [a \in DOMAIN @ |->
                IF a \in Span(got.block, kept) THEN @[block + (a - got.block)] ELSE @[a]]]

\* In place when the class is the same, else moved; the old block stays when there is no new one.
Realloc(h, block, layout, size, grows) ==
    LET new == [layout EXCEPT !.size = size]
        got == Alloc(h, new, grows)
        kept == IF size < layout.size THEN size ELSE layout.size
        copied == [got.heap EXCEPT !.mem = [a \in DOMAIN @ |->
                    IF a \in Span(got.block, kept) THEN @[block + (a - got.block)] ELSE @[a]]]
    IN  CASE Class(layout) # None /\ Class(layout) = Class(new) -> [heap |-> h, block |-> block]
          [] got.block = Null -> got
          [] OTHER -> [heap |-> Dealloc(copied, block, layout), block |-> got.block]

---------------------------------------------------------------------------
(* The program *)

Becomes(h) ==
    /\ free' = h.free /\ bump' = h.bump /\ end' = h.end
    /\ break' = h.break /\ maps' = h.maps

\* It fills the words [from, size) of the block with its mark.
Filled(memory, m, at, from, size) ==
    [a \in DOMAIN memory |-> IF a \in at + from .. at + size - 1 THEN Mark(m) ELSE memory[a]]

Allocate(m, layout, grows) ==
    /\ live[m] = NoBlock
    /\ LET got == Alloc(Heap, layout, grows) IN
       /\ Becomes(got.heap)
       /\ IF got.block = Null
          THEN mem' = got.heap.mem /\ UNCHANGED live
          ELSE /\ live' = [live EXCEPT ![m] = [at |-> got.block, layout |-> layout]]
               /\ mem' = Filled(got.heap.mem, m, got.block, 0, layout.size)
    /\ UNCHANGED own

Free(m) ==
    /\ live[m] # NoBlock
    /\ LET h == Dealloc(Heap, live[m].at, live[m].layout)
       IN  Becomes(h) /\ mem' = h.mem
    /\ live' = [live EXCEPT ![m] = NoBlock]
    /\ UNCHANGED own

\* The block keeps what it held up to the smaller size; the program fills the rest.
Resize(m, size, grows) ==
    /\ live[m] # NoBlock /\ size # live[m].layout.size
    /\ \E b \in {live[m]} : \E got \in {Realloc(Heap, b.at, b.layout, size, grows)} :
           /\ Becomes(got.heap)
           /\ IF got.block = Null
              THEN mem' = got.heap.mem /\ UNCHANGED live
              ELSE /\ live' = [live EXCEPT ![m] = [at |-> got.block,
                                                   layout |-> [b.layout EXCEPT !.size = size]]]
                   /\ mem' = Filled(got.heap.mem, m, got.block, b.layout.size, size)
    /\ UNCHANGED own

\* The program takes a word with brk, or gives back the last it took.
MoveBreak(up) ==
    /\ IF up THEN break < HeapTop /\ own = {} /\ break' = break + 1 /\ own' = own \cup {break}
             ELSE break - 1 \in own /\ break' = break - 1 /\ own' = own \ {break - 1}
    /\ UNCHANGED <<free, bump, end, mem, maps, live>>

Next ==
    \/ \E m \in Marks :
        \/ \E layout \in Layouts, grows \in BOOLEAN : Allocate(m, layout, grows)
        \/ Free(m)
        \/ \E layout \in Layouts, grows \in BOOLEAN : Resize(m, layout.size, grows)
    \/ \E up \in BOOLEAN : MoveBreak(up)

Spec == Init /\ [][Next]_vars

---------------------------------------------------------------------------
(* Properties *)

RECURSIVE Chain(_)
Chain(at) == IF at \in DOMAIN mem THEN {at} \cup Chain(mem[at]) ELSE {}

LiveMarks == {m \in Marks : live[m] # NoBlock}
\* The words a live block may use: its class's, or its mapping's.
Extent(b) == IF Class(b.layout) = None THEN LargeSize(b.layout) ELSE Class(b.layout)

\* What the program was given stays its own: aligned as asked, inside memory the process has, apart
\* from every other block, from the free ones and from what the program took with brk, with every
\* word as the program left it, through growth that is not contiguous and reallocation that moves.
BlocksKept ==
    /\ \A m \in LiveMarks :
        LET b == live[m]
            span == Span(b.at, Extent(b))
        IN  /\ b.at % b.layout.align = 0
            /\ \A a \in Span(b.at, b.layout.size) : mem[a] = Mark(m)
            /\ span \cap own = {}
            /\ IF Class(b.layout) = None
               THEN [at |-> b.at, bytes |-> Extent(b)] \in maps
               ELSE span \subseteq HeapStart .. break - 1 /\ span \cap bump .. end - 1 = {}
            /\ \A n \in LiveMarks \ {m} : span \cap Span(live[n].at, Extent(live[n])) = {}
            /\ \A c \in Classes : \A f \in Chain(free[c]) : span \cap Span(f, c) = {}
    /\ \A c \in Classes : \A f \in Chain(free[c]) :
        /\ f % c = 0 /\ Span(f, c) \subseteq (HeapStart .. break - 1) \ own
        /\ Span(f, c) \cap bump .. end - 1 = {}
        /\ \A d \in Classes : \A g \in Chain(free[d]) :
            <<c, f>> # <<d, g>> => Span(f, c) \cap Span(g, d) = {}
    /\ \A n \in maps : \E m \in LiveMarks : live[m].at = n.at
=============================================================================
