--------------------------- MODULE PageHeapProofs ---------------------------
(***************************************************************************)
(* Proofs about PageHeap, for heaps and stacks of any size, any number of  *)
(* frames and of tasks: however page_alloc, page_dealloc and the kernel    *)
(* stacks overlap and whatever runs out half-way, no page and no frame is  *)
(* in two hands, none is lost, and nothing panics.                         *)
(*                                                                         *)
(* A page that is mapped is in the hands of the kernel (in a block or a    *)
(* stack) or of one call that has mapped it or will unmap it.  That is not *)
(* what the bitmap says: page_dealloc clears its bits while its pages are  *)
(* mapped, and a page_alloc that is given them finds them mapped and       *)
(* undoes only its own.                                                    *)
(***************************************************************************)
EXTENDS PageHeap, FiniteSetTheorems, WellFoundedInduction, TLAPS

---------------------------------------------------------------------------
(* The inductive invariant *)

OpType == [pc : {"idle", "frame", "map", "unmap", "drop"}, kind : {"heap", "stack"},
           start : Nat, pages : Nat, at : Nat, from : Nat, hand : Frames \cup {None}]

\* The range of a call, and the pages of it that the call has mapped and not unmapped.
Room(o) == Span(o.start, o.pages)
Mine(o) == (o.start + o.from) .. (o.start + o.at - 1)

\* The calls that hold bits of the bitmap, or a slot.
HoldsBits(o) == o.kind = "heap" /\ o.pc \in {"frame", "map", "unmap"}
HoldsSlot(o) == o.kind = "stack" /\ o.pc # "idle"

\* A call by itself.
OpSound(o) ==
    /\ o \in OpType
    /\ o.pc = "idle" => o = Idle
    /\ o.pc # "idle" => o.pages > 0
    /\ o.pc # "idle" /\ o.kind = "heap" => o.start + o.pages <= HEAP_PAGES
    /\ o.pc # "idle" /\ o.kind = "stack" =>
          /\ SlotOf(o) \in Slot /\ o.start = StackBase(SlotOf(o)) /\ o.pages = STACK_PAGES
          /\ o.pc # "drop"
    /\ o.pc \in {"frame", "map"} => o.from = 0 /\ o.at < o.pages
    /\ o.pc = "frame" => o.hand = None
    /\ o.pc = "map" => o.hand # None
    /\ o.from <= o.at /\ o.at <= o.pages

BlockType == {b \in Nat \X Nat : b[2] > 0 /\ b[1] + b[2] <= HEAP_PAGES}

Stores ==
    /\ bitmap \subseteq HeapPage /\ cursor \in 0 .. HEAP_PAGES /\ slots \subseteq Slot
    /\ table \in [WindowPage -> Frames \cup {None}] /\ free \subseteq Frames
    /\ stacks \subseteq slots /\ panicked = FALSE /\ blocks \subseteq BlockType
Calls == op \in [Tasks -> OpType] /\ \A t \in Tasks : OpSound(op[t])

\* A bit is set for a block or for a call, and for one of them only.
InBlock(p) == \E b \in blocks : p \in Span(b[1], b[2])
InCall(p) == \E t \in Tasks : HoldsBits(op[t]) /\ p \in Room(op[t])
BitsAgree ==
    /\ \A p \in HeapPage : p \in bitmap <=> InBlock(p) \/ InCall(p)
    /\ \A b, c \in blocks : \A p \in HeapPage :
          p \in Span(b[1], b[2]) /\ p \in Span(c[1], c[2]) => b = c
    /\ \A p \in HeapPage : ~(InBlock(p) /\ InCall(p))
    /\ \A t, u \in Tasks : \A p \in HeapPage :
          HoldsBits(op[t]) /\ HoldsBits(op[u]) /\ p \in Room(op[t]) /\ p \in Room(op[u]) => t = u

\* A slot is taken for a stack or for a call, and for one of them only.
SlotsAgree ==
    /\ \A s \in Slot : s \in slots <=>
          s \in stacks \/ \E t \in Tasks : HoldsSlot(op[t]) /\ SlotOf(op[t]) = s
    /\ \A t \in Tasks : HoldsSlot(op[t]) => SlotOf(op[t]) \notin stacks
    /\ \A t, u \in Tasks :
          HoldsSlot(op[t]) /\ HoldsSlot(op[u]) /\ SlotOf(op[t]) = SlotOf(op[u]) => t = u

\* A page is mapped for a block, for a stack or for a call, and for one of them only.
Given(p) == InBlock(p) \/ \E s \in stacks : p \in StackSpan(s)
PagesAgree ==
    /\ \A p \in WindowPage : table[p] # None <=> Given(p) \/ \E t \in Tasks : p \in Mine(op[t])
    /\ \A p \in WindowPage, t \in Tasks : p \in Mine(op[t]) => ~Given(p)
    /\ \A p \in WindowPage : \A t, u \in Tasks : p \in Mine(op[t]) /\ p \in Mine(op[u]) => t = u

\* A frame is free, mapped once or in one hand.
MappedOnce == \A p, q \in WindowPage : table[p] = table[q] /\ table[p] # None => p = q
HeldOnce == \A t, u \in Tasks : op[t].hand = op[u].hand /\ op[t].hand # None => t = u
NotFree == /\ \A p \in WindowPage : table[p] \notin free
           /\ \A t \in Tasks : op[t].hand \notin free
NotBoth == \A p \in WindowPage, t \in Tasks : table[p] = op[t].hand => table[p] = None
NoneLost == \A f \in Frames : \/ f \in free \/ \E p \in WindowPage : table[p] = f
                              \/ \E t \in Tasks : op[t].hand = f
FramesAgree == MappedOnce /\ HeldOnce /\ NotFree /\ NotBoth /\ NoneLost

\* PAGE_HEAP_MAPPED counts the pages of the blocks and, until they are unmapped, of those given
\* back: a page once for every call that has it, since another may have it again.
Lent == {p \in HeapPage : InBlock(p)}
Owing == {l \in Tasks \X HeapPage : op[l[1]].pc = "drop" /\ l[2] \in Room(op[l[1]])}
CountAgrees == mapped_count = Cardinality(Lent) + Cardinality(Owing)

PagesInv == Stores /\ Calls /\ BitsAgree /\ SlotsAgree /\ PagesAgree /\ FramesAgree /\ CountAgrees

---------------------------------------------------------------------------
(* Places in the window *)

\* A multiple of a positive number, divided by it.
LEMMA DivCancels ==
    ASSUME NEW s \in Nat, NEW k \in Nat \ {0}
    PROVE  (s * k) \div k = s
<1> DEFINE q == (s * k) \div k
           r == (s * k) % k
<1>1. q \in Int /\ r \in 0 .. k - 1 /\ s * k = k * q + r
  OBVIOUS
<1> HIDE DEF q, r
<1>2. k * (s - q) = r
  BY <1>1
<1>3. ~(s - q >= 1)
  <2> SUFFICES ASSUME s - q >= 1 PROVE FALSE
    BY Zenon
  <2>1. k * (s - q) >= k
    BY <1>1
  <2> QED
    BY <1>1, <1>2, <2>1
<1>4. ~(s - q <= -1)
  <2> SUFFICES ASSUME s - q <= -1 PROVE FALSE
    BY Zenon
  <2>1. k * (s - q) <= -k
    BY <1>1
  <2> QED
    BY <1>1, <1>2, <2>1
<1>5. s = q
  BY <1>1, <1>3, <1>4
<1> QED
  BY <1>5, Zenon DEF q

\* The product of two numbers, and how it grows.
LEMMA Products ==
    ASSUME NEW k \in Nat, NEW s \in Nat, NEW r \in Nat, s < r
    PROVE  s * k \in Nat /\ r * k \in Nat /\ s * k + k <= r * k
<1>1. PICK d \in Nat : r = s + 1 + d
  BY r - s - 1 \in Nat
<1>2. r * k = s * k + k + d * k
  BY <1>1
<1>3. d * k >= 0 /\ d * k \in Int /\ s * k \in Nat
  OBVIOUS
<1> QED
  BY <1>2, <1>3

\* The stacks lie one after the other above the heap.
LEMMA StackPlaces ==
    ASSUME PageHeapAssumption, NEW s \in Slot
    PROVE  /\ StackBase(s) \in Nat /\ StackBase(s) >= HEAP_PAGES
           /\ StackSpan(s) \subseteq WindowPage /\ StackSpan(s) \cap HeapPage = {}
           /\ \A r \in Slot : r # s => StackSpan(r) \cap StackSpan(s) = {}
           /\ \A o : o.start = StackBase(s) => SlotOf(o) = s
<1>1. /\ HEAP_PAGES \in Nat /\ STACK_PAGES \in Nat \ {0} /\ MAX_STACKS \in Nat
      /\ Slot \subseteq Nat /\ \A r \in Slot : r < MAX_STACKS
  BY DEF PageHeapAssumption, Slot
<1>2. \A r \in Slot : /\ r * STACK_PAGES \in Nat
                      /\ r * STACK_PAGES + STACK_PAGES <= MAX_STACKS * STACK_PAGES
  BY <1>1, Products, Zenon
<1>3. \A r, q \in Slot : r < q => r * STACK_PAGES + STACK_PAGES <= q * STACK_PAGES
  BY <1>1, Products, Zenon
<1>4. StackBase(s) \in Nat /\ StackBase(s) >= HEAP_PAGES
  BY <1>1, <1>2 DEF StackBase
<1>5. StackSpan(s) \subseteq WindowPage /\ StackSpan(s) \cap HeapPage = {}
  BY <1>1, <1>2 DEF StackSpan, Span, StackBase, WindowPage, HeapPage
<1>6. ASSUME NEW r \in Slot, r # s PROVE StackSpan(r) \cap StackSpan(s) = {}
  <2>1. r < s \/ s < r
    BY <1>1, <1>6
  <2> QED
    BY <1>1, <1>2, <1>3, <2>1 DEF StackSpan, Span, StackBase
<1>7. ASSUME NEW o, o.start = StackBase(s) PROVE SlotOf(o) = s
  <2>1. o.start - HEAP_PAGES = s * STACK_PAGES
    BY <1>1, <1>2, <1>7 DEF StackBase
  <2>2. (s * STACK_PAGES) \div STACK_PAGES = s
    BY <1>1, DivCancels, Zenon
  <2> QED
    BY <2>1, <2>2, Zenon DEF SlotOf
<1> QED
  BY <1>4, <1>5, <1>6, <1>7, Zenon

\* A set of numbers has a least one.
LEMMA LeastExists ==
    ASSUME NEW S \in SUBSET Nat, S # {}
    PROVE  Lowest(S) \in S /\ \A q \in S : Lowest(S) <= q
<1>1. PICK x \in S : \A y \in S : ~(<<y, x>> \in OpToRel(<, Nat))
  BY NatLessThanWellFounded, WFMin, Zenon
<1>2. ASSUME NEW y \in S PROVE ~(y < x)
  <2>1. x \in Nat /\ y \in Nat /\ ~(<<y, x>> \in {l \in Nat \X Nat : l[1] < l[2]})
    BY <1>1, Zenon DEF OpToRel
  <2> QED
    BY <2>1, Zenon
<1>3. \A y \in S : x <= y
  BY <1>2
<1> QED
  BY <1>3, Zenon DEF Lowest

\* The pages a call has mapped lie in its range, and the range in its part of the window.
LEMMA Ranges ==
    ASSUME PageHeapAssumption, NEW o, OpSound(o)
    PROVE  /\ Mine(o) \subseteq Room(o)
           /\ o.pc = "idle" => Mine(o) = {}
           /\ o.pc # "idle" => Room(o) \subseteq WindowPage
           /\ o.pc # "idle" /\ o.kind = "heap" => Room(o) \subseteq HeapPage
           /\ HoldsSlot(o) => SlotOf(o) \in Slot /\ Room(o) = StackSpan(SlotOf(o))
<1>1. HEAP_PAGES \in Nat /\ STACK_PAGES \in Nat \ {0} /\ MAX_STACKS \in Nat
  BY Zenon DEF PageHeapAssumption
<1>2. o.start \in Nat /\ o.pages \in Nat /\ o.at \in Nat /\ o.from \in Nat /\ o.at <= o.pages
  BY Zenon DEF OpSound, OpType
<1>3. Mine(o) \subseteq Room(o)
  BY <1>2 DEF Mine, Room, Span
<1>4. ASSUME o.pc = "idle" PROVE Mine(o) = {}
  <2>1. o.start = 0 /\ o.at = 0 /\ o.from = 0
    BY <1>4 DEF OpSound, Idle
  <2> QED
    BY <2>1 DEF Mine
<1>5. ASSUME o.pc # "idle", o.kind = "heap" PROVE Room(o) \subseteq HeapPage
  <2>1. o.start + o.pages <= HEAP_PAGES
    BY <1>5, Zenon DEF OpSound
  <2> QED
    BY <1>1, <1>2, <2>1 DEF Room, Span, HeapPage
<1>6. ASSUME HoldsSlot(o) PROVE SlotOf(o) \in Slot /\ Room(o) = StackSpan(SlotOf(o))
  BY <1>6, Zenon DEF OpSound, HoldsSlot, Room, StackSpan
<1>7. HeapPage \subseteq WindowPage
  <2>1. MAX_STACKS * STACK_PAGES \in Nat
    BY <1>1
  <2> QED
    BY <1>1, <2>1 DEF HeapPage, WindowPage
<1>8. ASSUME o.pc # "idle" PROVE Room(o) \subseteq WindowPage
  <2>1. CASE o.kind = "heap"
    BY <1>8, <2>1, <1>5, <1>7, Zenon
  <2>2. CASE o.kind = "stack"
    BY <1>8, <2>2, <1>6, StackPlaces, Zenon DEF HoldsSlot
  <2>3. o.kind \in {"heap", "stack"}
    BY Zenon DEF OpSound, OpType
  <2> QED
    BY <2>1, <2>2, <2>3, Zenon
<1> QED
  BY <1>3, <1>4, <1>5, <1>6, <1>8, Zenon

---------------------------------------------------------------------------
(* One call moves at a time *)

Others(t) == \A u \in Tasks : u # t => op'[u] = op[u]

\* A step of task t changes the record of its own call.
LEMMA Turn ==
    ASSUME Calls, NEW t \in Tasks, NEW o, OpSound(o), Become(t, o)
    PROVE  op'[t] = o /\ Others(t) /\ Calls'
<1>1. op \in [Tasks -> OpType] /\ o \in OpType
  BY Zenon DEF Calls, OpSound
<1>2. op'[t] = o /\ Others(t) /\ op' \in [Tasks -> OpType]
  BY <1>1, Zenon DEF Become, Others
<1>3. \A u \in Tasks : OpSound(op'[u])
  BY <1>2, Zenon DEF Calls, Others
<1> QED
  BY <1>2, <1>3, Zenon DEF Calls

\* A task that is in no call holds nothing.
LEMMA IdleHoldsNothing ==
    ASSUME PageHeapAssumption, NEW o, OpSound(o), o.pc = "idle"
    PROVE  ~HoldsBits(o) /\ ~HoldsSlot(o) /\ Mine(o) = {} /\ o.hand = None /\ o.pc # "drop"
<1>1. o = Idle
  BY Zenon DEF OpSound
<1>2. o.hand = None
  BY <1>1, Zenon DEF Idle
<1>3. ~HoldsBits(o) /\ ~HoldsSlot(o)
  BY Zenon DEF HoldsBits, HoldsSlot
<1>4. Mine(o) = {}
  BY Ranges, Zenon
<1> QED
  BY <1>2, <1>3, <1>4, Zenon

\* The end of a call.
LEMMA IdleSound == OpSound(Idle) /\ Idle.pc = "idle"
BY DEF OpSound, OpType, Idle

---------------------------------------------------------------------------
(* The bitmap *)

\* A step that gives and takes no pages of the heap.
LEMMA BitsSame ==
    ASSUME BitsAgree, NEW t \in Tasks, Others(t), UNCHANGED <<bitmap, blocks>>,
           HoldsBits(op'[t]) <=> HoldsBits(op[t]),
           HoldsBits(op[t]) => Room(op'[t]) = Room(op[t])
    PROVE  BitsAgree'
<1>1. \A p : InBlock(p)' <=> InBlock(p)
  BY Zenon DEF InBlock
<1>2. \A u \in Tasks : /\ HoldsBits(op'[u]) <=> HoldsBits(op[u])
                       /\ HoldsBits(op[u]) => Room(op'[u]) = Room(op[u])
  BY Zenon DEF Others
<1>3. \A p : InCall(p)' <=> InCall(p)
  BY <1>2, Zenon DEF InCall
<1> QED
  BY <1>1, <1>2, <1>3, Zenon DEF BitsAgree

\* page_alloc's claim: pages whose bits were clear.
LEMMA BitsTaken ==
    ASSUME BitsAgree, NEW t \in Tasks, Others(t), UNCHANGED blocks,
           ~HoldsBits(op[t]), HoldsBits(op'[t]),
           Room(op'[t]) \cap bitmap = {}, bitmap' = bitmap \cup Room(op'[t])
    PROVE  BitsAgree'
<1>1. \A p : InBlock(p)' <=> InBlock(p)
  BY Zenon DEF InBlock
<1>2. \A u \in Tasks : u # t => op'[u] = op[u]
  BY Zenon DEF Others
<1>3. \A p : InCall(p)' <=> InCall(p) \/ p \in Room(op'[t])
  BY <1>2, Zenon DEF InCall
<1>4. \A p \in HeapPage : p \in bitmap' <=> InBlock(p)' \/ InCall(p)'
  BY <1>1, <1>3, Zenon DEF BitsAgree
<1>5. \A b, c \in blocks' : \A p \in HeapPage :
         p \in Span(b[1], b[2]) /\ p \in Span(c[1], c[2]) => b = c
  BY Zenon DEF BitsAgree
<1>6. \A p \in HeapPage : ~(InBlock(p)' /\ InCall(p)')
  BY <1>1, <1>3, Zenon DEF BitsAgree
<1>7. \A u \in Tasks : \A p \in HeapPage :
         u # t /\ HoldsBits(op'[u]) /\ p \in Room(op'[u]) => p \notin Room(op'[t])
  <2>1. \A u \in Tasks : \A p \in HeapPage : HoldsBits(op[u]) /\ p \in Room(op[u]) => p \in bitmap
    BY Zenon DEF BitsAgree, InCall
  <2> QED
    BY <2>1, <1>2, Zenon
<1>8. \A u, v \in Tasks : \A p \in HeapPage :
         HoldsBits(op'[u]) /\ HoldsBits(op'[v]) /\ p \in Room(op'[u]) /\ p \in Room(op'[v]) => u = v
  <2> SUFFICES ASSUME NEW u \in Tasks, NEW v \in Tasks, NEW p \in HeapPage,
                      HoldsBits(op'[u]), HoldsBits(op'[v]), p \in Room(op'[u]), p \in Room(op'[v])
               PROVE  u = v
    BY Zenon
  <2>1. CASE u # t /\ v # t
    <3>1. op'[u] = op[u] /\ op'[v] = op[v]
      BY <1>2, <2>1, Zenon
    <3>2. HoldsBits(op[u]) /\ HoldsBits(op[v]) /\ p \in Room(op[u]) /\ p \in Room(op[v])
      BY <3>1, Zenon
    <3> QED
      BY <3>2, Zenon DEF BitsAgree
  <2>2. CASE u = t \/ v = t
    BY <1>7, <2>2, Zenon
  <2> QED
    BY <2>1, <2>2, Zenon
<1> QED
  BY <1>4, <1>5, <1>6, <1>8, Zenon DEF BitsAgree

\* The bits of a page_alloc that succeeds become those of the block it returns.
LEMMA BitsToBlock ==
    ASSUME BitsAgree, NEW t \in Tasks, Others(t), UNCHANGED bitmap,
           HoldsBits(op[t]), ~HoldsBits(op'[t]),
           NEW b, Span(b[1], b[2]) = Room(op[t]), blocks' = blocks \cup {b}
    PROVE  BitsAgree'
<1>1. \A p : InBlock(p)' <=> InBlock(p) \/ p \in Room(op[t])
  BY Zenon DEF InBlock
<1>2. \A u \in Tasks : u # t => op'[u] = op[u]
  BY Zenon DEF Others
<1>3. \A p \in HeapPage : InCall(p) <=> InCall(p)' \/ p \in Room(op[t])
  BY <1>2, Zenon DEF InCall
<1>4. \A p \in HeapPage : ~(InCall(p)' /\ p \in Room(op[t]))
  BY <1>2, Zenon DEF InCall, BitsAgree
<1>5. \A p \in HeapPage : p \in Room(op[t]) => ~InBlock(p)
  BY <1>3, Zenon DEF BitsAgree
<1>6. \A p \in HeapPage : p \in bitmap' <=> InBlock(p)' \/ InCall(p)'
  BY <1>1, <1>3, Zenon DEF BitsAgree
<1>7. \A a, c \in blocks' : \A p \in HeapPage :
         p \in Span(a[1], a[2]) /\ p \in Span(c[1], c[2]) => a = c
  <2> SUFFICES ASSUME NEW a \in blocks', NEW c \in blocks', NEW p \in HeapPage,
                      p \in Span(a[1], a[2]), p \in Span(c[1], c[2])
               PROVE  a = c
    OBVIOUS
  <2>1. CASE a \in blocks /\ c \in blocks
    BY <2>1, Zenon DEF BitsAgree
  <2>2. ASSUME NEW d \in blocks, p \in Span(d[1], d[2]) PROVE p \notin Span(b[1], b[2])
    BY <2>2, <1>5, Zenon DEF InBlock
  <2>3. CASE a = b \/ c = b
    BY <2>2, <2>3, Zenon
  <2> QED
    BY <2>1, <2>3, Zenon
<1>8. \A p \in HeapPage : ~(InBlock(p)' /\ InCall(p)')
  BY <1>1, <1>3, <1>4, Zenon DEF BitsAgree
<1>9. \A u, v \in Tasks : \A p \in HeapPage :
         HoldsBits(op'[u]) /\ HoldsBits(op'[v]) /\ p \in Room(op'[u]) /\ p \in Room(op'[v]) => u = v
  <2> SUFFICES ASSUME NEW u \in Tasks, NEW v \in Tasks, NEW p \in HeapPage,
                      HoldsBits(op'[u]), HoldsBits(op'[v]), p \in Room(op'[u]), p \in Room(op'[v])
               PROVE  u = v
    BY Zenon
  <2>1. u # t /\ v # t
    BY Zenon
  <2>2. op'[u] = op[u] /\ op'[v] = op[v]
    BY <1>2, <2>1, Zenon
  <2>3. HoldsBits(op[u]) /\ HoldsBits(op[v]) /\ p \in Room(op[u]) /\ p \in Room(op[v])
    BY <2>2, Zenon
  <2> QED
    BY <2>3, Zenon DEF BitsAgree
<1> QED
  BY <1>6, <1>7, <1>8, <1>9, Zenon DEF BitsAgree

\* page_dealloc clears the bits of a block.
LEMMA BitsDropped ==
    ASSUME BitsAgree, NEW t \in Tasks, Others(t), ~HoldsBits(op[t]), ~HoldsBits(op'[t]),
           NEW b \in blocks, blocks' = blocks \ {b}, bitmap' = bitmap \ Span(b[1], b[2])
    PROVE  BitsAgree'
<1>1. \A p \in HeapPage : InBlock(p)' <=> InBlock(p) /\ p \notin Span(b[1], b[2])
  BY Zenon DEF InBlock, BitsAgree
<1>2. \A u \in Tasks : u # t => op'[u] = op[u]
  BY Zenon DEF Others
<1>3. \A p : InCall(p)' <=> InCall(p)
  BY <1>2, Zenon DEF InCall
<1>4. \A p \in HeapPage : p \in Span(b[1], b[2]) => InBlock(p) /\ ~InCall(p)
  BY Zenon DEF BitsAgree, InBlock
<1>5. \A p \in HeapPage : p \in bitmap' <=> InBlock(p)' \/ InCall(p)'
  BY <1>1, <1>3, <1>4, Zenon DEF BitsAgree
<1>6. \A a, c \in blocks' : \A p \in HeapPage :
         p \in Span(a[1], a[2]) /\ p \in Span(c[1], c[2]) => a = c
  BY Zenon DEF BitsAgree
<1>7. \A p \in HeapPage : ~(InBlock(p)' /\ InCall(p)')
  BY <1>1, <1>3, Zenon DEF BitsAgree
<1>8. \A u, v \in Tasks : \A p \in HeapPage :
         HoldsBits(op'[u]) /\ HoldsBits(op'[v]) /\ p \in Room(op'[u]) /\ p \in Room(op'[v]) => u = v
  <2> SUFFICES ASSUME NEW u \in Tasks, NEW v \in Tasks, NEW p \in HeapPage,
                      HoldsBits(op'[u]), HoldsBits(op'[v]), p \in Room(op'[u]), p \in Room(op'[v])
               PROVE  u = v
    BY Zenon
  <2>1. u # t /\ v # t
    BY Zenon
  <2>2. op'[u] = op[u] /\ op'[v] = op[v]
    BY <1>2, <2>1, Zenon
  <2>3. HoldsBits(op[u]) /\ HoldsBits(op[v]) /\ p \in Room(op[u]) /\ p \in Room(op[v])
    BY <2>2, Zenon
  <2> QED
    BY <2>3, Zenon DEF BitsAgree
<1> QED
  BY <1>5, <1>6, <1>7, <1>8, Zenon DEF BitsAgree

\* page_alloc's roll-back clears the bits it had set.
LEMMA BitsReturned ==
    ASSUME BitsAgree, NEW t \in Tasks, Others(t), HoldsBits(op[t]), ~HoldsBits(op'[t]),
           UNCHANGED blocks, bitmap' = bitmap \ Room(op[t])
    PROVE  BitsAgree'
<1>1. \A p : InBlock(p)' <=> InBlock(p)
  BY Zenon DEF InBlock
<1>2. \A u \in Tasks : u # t => op'[u] = op[u]
  BY Zenon DEF Others
<1>3. \A p \in HeapPage : InCall(p) <=> InCall(p)' \/ p \in Room(op[t])
  BY <1>2, Zenon DEF InCall
<1>4. \A p \in HeapPage : ~(InCall(p)' /\ p \in Room(op[t]))
  BY <1>2, Zenon DEF InCall, BitsAgree
<1>5. \A p \in HeapPage : p \in bitmap' <=> InBlock(p)' \/ InCall(p)'
  BY <1>1, <1>3, <1>4, Zenon DEF BitsAgree
<1>6. \A p \in HeapPage : ~(InBlock(p)' /\ InCall(p)')
  BY <1>1, <1>3, Zenon DEF BitsAgree
<1>7. \A u, v \in Tasks : \A p \in HeapPage :
         HoldsBits(op'[u]) /\ HoldsBits(op'[v]) /\ p \in Room(op'[u]) /\ p \in Room(op'[v]) => u = v
  <2> SUFFICES ASSUME NEW u \in Tasks, NEW v \in Tasks, NEW p \in HeapPage,
                      HoldsBits(op'[u]), HoldsBits(op'[v]), p \in Room(op'[u]), p \in Room(op'[v])
               PROVE  u = v
    BY Zenon
  <2>1. u # t /\ v # t
    BY Zenon
  <2>2. op'[u] = op[u] /\ op'[v] = op[v]
    BY <1>2, <2>1, Zenon
  <2>3. HoldsBits(op[u]) /\ HoldsBits(op[v]) /\ p \in Room(op[u]) /\ p \in Room(op[v])
    BY <2>2, Zenon
  <2> QED
    BY <2>3, Zenon DEF BitsAgree
<1> QED
  BY <1>5, <1>6, <1>7, Zenon DEF BitsAgree

---------------------------------------------------------------------------
(* The slots *)

\* The slots that calls are working on.
AtWork(s) == \E t \in Tasks : HoldsSlot(op[t]) /\ SlotOf(op[t]) = s

\* A step that gives and takes no slot.
LEMMA SlotsSame ==
    ASSUME SlotsAgree, NEW t \in Tasks, Others(t), UNCHANGED <<slots, stacks>>,
           HoldsSlot(op'[t]) <=> HoldsSlot(op[t]),
           HoldsSlot(op[t]) => SlotOf(op'[t]) = SlotOf(op[t])
    PROVE  SlotsAgree'
<1>1. \A u \in Tasks : /\ HoldsSlot(op'[u]) <=> HoldsSlot(op[u])
                       /\ HoldsSlot(op[u]) => SlotOf(op'[u]) = SlotOf(op[u])
  BY Zenon DEF Others
<1>2. \A s : AtWork(s)' <=> AtWork(s)
  BY <1>1, Zenon DEF AtWork
<1> QED
  BY <1>1, <1>2, Zenon DEF SlotsAgree, AtWork

\* take_slot, for a call that has none.
LEMMA SlotsTaken ==
    ASSUME SlotsAgree, NEW t \in Tasks, Others(t), UNCHANGED stacks, stacks \subseteq slots,
           ~HoldsSlot(op[t]), HoldsSlot(op'[t]), NEW s \in Slot, SlotOf(op'[t]) = s,
           s \notin slots, slots' = slots \cup {s},
           \A u \in Tasks : HoldsSlot(op[u]) => SlotOf(op[u]) \in Slot
    PROVE  SlotsAgree'
<1>1. \A u \in Tasks : u # t => op'[u] = op[u]
  BY Zenon DEF Others
<1>2. \A r \in Slot : r \in slots' <=> r \in stacks' \/ AtWork(r)'
  BY <1>1, Zenon DEF SlotsAgree, AtWork
<1>3. \A u \in Tasks : HoldsSlot(op'[u]) => SlotOf(op'[u]) \notin stacks'
  BY <1>1, Zenon DEF SlotsAgree
<1>4. \A u \in Tasks : u # t /\ HoldsSlot(op'[u]) => SlotOf(op'[u]) # s
  BY <1>1, Zenon DEF SlotsAgree
<1>5. \A u, v \in Tasks :
         HoldsSlot(op'[u]) /\ HoldsSlot(op'[v]) /\ SlotOf(op'[u]) = SlotOf(op'[v]) => u = v
  <2> SUFFICES ASSUME NEW u \in Tasks, NEW v \in Tasks, HoldsSlot(op'[u]), HoldsSlot(op'[v]),
                      SlotOf(op'[u]) = SlotOf(op'[v])
               PROVE  u = v
    BY Zenon
  <2>1. CASE u # t /\ v # t
    <3>1. op'[u] = op[u] /\ op'[v] = op[v]
      BY <1>1, <2>1, Zenon
    <3>2. HoldsSlot(op[u]) /\ HoldsSlot(op[v]) /\ SlotOf(op[u]) = SlotOf(op[v])
      BY <3>1, Zenon
    <3> QED
      BY <3>2, Zenon DEF SlotsAgree
  <2>2. CASE u = t \/ v = t
    BY <1>4, <2>2, Zenon
  <2> QED
    BY <2>1, <2>2, Zenon
<1> QED
  BY <1>2, <1>3, <1>5, Zenon DEF SlotsAgree, AtWork

\* A stack that is complete: its slot passes from the call to the stack.
LEMMA SlotsToStack ==
    ASSUME SlotsAgree, NEW t \in Tasks, Others(t), UNCHANGED slots,
           HoldsSlot(op[t]), ~HoldsSlot(op'[t]), stacks' = stacks \cup {SlotOf(op[t])}
    PROVE  SlotsAgree'
<1>1. \A u \in Tasks : u # t => op'[u] = op[u]
  BY Zenon DEF Others
<1>2. \A r \in Slot : r \in slots' <=> r \in stacks' \/ AtWork(r)'
  BY <1>1, Zenon DEF SlotsAgree, AtWork
<1>3. \A u \in Tasks : HoldsSlot(op'[u]) => SlotOf(op'[u]) \notin stacks'
  BY <1>1, Zenon DEF SlotsAgree
<1>4. \A u, v \in Tasks :
         HoldsSlot(op'[u]) /\ HoldsSlot(op'[v]) /\ SlotOf(op'[u]) = SlotOf(op'[v]) => u = v
  BY <1>1, Zenon DEF SlotsAgree
<1> QED
  BY <1>2, <1>3, <1>4, Zenon DEF SlotsAgree, AtWork

\* A stack that is dropped: its slot passes from the stack to the call.
LEMMA SlotsFromStack ==
    ASSUME SlotsAgree, NEW t \in Tasks, Others(t), UNCHANGED slots, NEW s \in stacks,
           stacks \subseteq slots, slots \subseteq Slot,
           ~HoldsSlot(op[t]), HoldsSlot(op'[t]), SlotOf(op'[t]) = s, stacks' = stacks \ {s}
    PROVE  SlotsAgree'
<1>1. \A u \in Tasks : u # t => op'[u] = op[u]
  BY Zenon DEF Others
<1>2. \A r \in Slot : r \in slots' <=> r \in stacks' \/ AtWork(r)'
  BY <1>1, Zenon DEF SlotsAgree, AtWork
<1>3. \A u \in Tasks : HoldsSlot(op'[u]) => SlotOf(op'[u]) \notin stacks'
  BY <1>1, Zenon DEF SlotsAgree
<1>4. \A u \in Tasks : u # t /\ HoldsSlot(op'[u]) => SlotOf(op'[u]) # s
  BY <1>1, Zenon DEF SlotsAgree
<1>5. \A u, v \in Tasks :
         HoldsSlot(op'[u]) /\ HoldsSlot(op'[v]) /\ SlotOf(op'[u]) = SlotOf(op'[v]) => u = v
  <2> SUFFICES ASSUME NEW u \in Tasks, NEW v \in Tasks, HoldsSlot(op'[u]), HoldsSlot(op'[v]),
                      SlotOf(op'[u]) = SlotOf(op'[v])
               PROVE  u = v
    BY Zenon
  <2>1. CASE u # t /\ v # t
    <3>1. op'[u] = op[u] /\ op'[v] = op[v]
      BY <1>1, <2>1, Zenon
    <3>2. HoldsSlot(op[u]) /\ HoldsSlot(op[v]) /\ SlotOf(op[u]) = SlotOf(op[v])
      BY <3>1, Zenon
    <3> QED
      BY <3>2, Zenon DEF SlotsAgree
  <2>2. CASE u = t \/ v = t
    BY <1>4, <2>2, Zenon
  <2> QED
    BY <2>1, <2>2, Zenon
<1> QED
  BY <1>2, <1>3, <1>5, Zenon DEF SlotsAgree, AtWork

\* release_slot.
LEMMA SlotsReturned ==
    ASSUME SlotsAgree, NEW t \in Tasks, Others(t), UNCHANGED stacks,
           HoldsSlot(op[t]), ~HoldsSlot(op'[t]), slots' = slots \ {SlotOf(op[t])}
    PROVE  SlotsAgree'
<1>1. \A u \in Tasks : u # t => op'[u] = op[u]
  BY Zenon DEF Others
<1>2. \A u \in Tasks : u # t /\ HoldsSlot(op[u]) => SlotOf(op[u]) # SlotOf(op[t])
  BY Zenon DEF SlotsAgree
<1>3. \A r : AtWork(r)' <=> AtWork(r) /\ r # SlotOf(op[t])
  BY <1>1, <1>2, Zenon DEF AtWork
<1>4. \A r \in Slot : r \in slots' <=> r \in stacks' \/ AtWork(r)'
  <2>1. \A r \in Slot : r \in slots <=> r \in stacks \/ AtWork(r)
    BY Zenon DEF SlotsAgree, AtWork
  <2>2. SlotOf(op[t]) \notin stacks
    BY Zenon DEF SlotsAgree
  <2> QED
    BY <1>3, <2>1, <2>2, Zenon
<1>5. \A u \in Tasks : HoldsSlot(op'[u]) => SlotOf(op'[u]) \notin stacks'
  BY <1>1, Zenon DEF SlotsAgree
<1>6. \A u, v \in Tasks :
         HoldsSlot(op'[u]) /\ HoldsSlot(op'[v]) /\ SlotOf(op'[u]) = SlotOf(op'[v]) => u = v
  BY <1>1, Zenon DEF SlotsAgree
<1> QED
  BY <1>4, <1>5, <1>6, Zenon DEF SlotsAgree, AtWork

---------------------------------------------------------------------------
(* The pages *)

Worked(p) == \E t \in Tasks : p \in Mine(op[t])

\* A step that maps, unmaps and hands over nothing.
LEMMA PagesSame ==
    ASSUME PagesAgree, NEW t \in Tasks, Others(t), UNCHANGED <<table, blocks, stacks>>,
           Mine(op'[t]) = Mine(op[t])
    PROVE  PagesAgree'
<1>1. \A u \in Tasks : Mine(op'[u]) = Mine(op[u])
  BY Zenon DEF Others
<1>2. \A p : (Given(p)' <=> Given(p)) /\ (Worked(p)' <=> Worked(p))
  BY <1>1, Zenon DEF Given, InBlock, Worked
<1> QED
  BY <1>1, <1>2, Zenon DEF PagesAgree, Worked

\* map_page of a page that was not mapped, which stays the call's own.
LEMMA PagesMapped ==
    ASSUME PagesAgree, NEW t \in Tasks, Others(t), UNCHANGED <<blocks, stacks>>,
           NEW q \in WindowPage, table[q] = None, table'[q] # None,
           \A p \in WindowPage : p # q => table'[p] = table[p],
           Mine(op'[t]) = Mine(op[t]) \cup {q}
    PROVE  PagesAgree'
<1>1. \A u \in Tasks : u # t => op'[u] = op[u]
  BY Zenon DEF Others
<1>2. \A p : (Given(p)' <=> Given(p)) /\ (Worked(p)' <=> Worked(p) \/ p = q)
  <2>1. \A p : Given(p)' <=> Given(p)
    BY Zenon DEF Given, InBlock
  <2>2. \A p : Worked(p)' <=> Worked(p) \/ p = q
    BY <1>1 DEF Worked
  <2> QED
    BY <2>1, <2>2, Zenon
<1>3. ~Given(q) /\ ~Worked(q)
  BY Zenon DEF PagesAgree, Worked
<1>4. \A p \in WindowPage : table'[p] # None <=> Given(p)' \/ Worked(p)'
  BY <1>2, Zenon DEF PagesAgree, Worked
<1>5. \A p \in WindowPage, u \in Tasks : p \in Mine(op'[u]) => ~Given(p)'
  BY <1>1, <1>2, <1>3, Zenon DEF PagesAgree
<1>6. \A p \in WindowPage : \A u, v \in Tasks : p \in Mine(op'[u]) /\ p \in Mine(op'[v]) => u = v
  <2> SUFFICES ASSUME NEW p \in WindowPage, NEW u \in Tasks, NEW v \in Tasks,
                      p \in Mine(op'[u]), p \in Mine(op'[v]), u # v
               PROVE  FALSE
    BY Zenon
  <2>1. p # q
    BY <1>1, <1>3, Zenon DEF Worked
  <2>2. p \in Mine(op[u]) /\ p \in Mine(op[v])
    BY <1>1, <2>1, ZenonT(60)
  <2> QED
    BY <2>2, Zenon DEF PagesAgree
<1> QED
  BY <1>4, <1>5, <1>6, Zenon DEF PagesAgree, Worked

\* map_page of the last page: all the call's pages are the caller's.
LEMMA PagesGiven ==
    ASSUME PagesAgree, NEW t \in Tasks, Others(t),
           NEW q \in WindowPage, table[q] = None, table'[q] # None,
           \A p \in WindowPage : p # q => table'[p] = table[p],
           \A p : Given(p)' <=> Given(p) \/ p \in Mine(op[t]) \/ p = q,
           Mine(op'[t]) = {}
    PROVE  PagesAgree'
<1>1. \A u \in Tasks : u # t => op'[u] = op[u]
  BY Zenon DEF Others
<1>2. \A p : Worked(p) <=> Worked(p)' \/ p \in Mine(op[t])
  BY <1>1, Zenon DEF Worked
<1>3. ~Given(q) /\ ~Worked(q)
  BY Zenon DEF PagesAgree, Worked
<1>4. \A p \in WindowPage : table'[p] # None <=> Given(p)' \/ Worked(p)'
  BY <1>2, Zenon DEF PagesAgree, Worked
<1>5. \A p \in WindowPage, u \in Tasks : p \in Mine(op'[u]) => ~Given(p)'
  <2> SUFFICES ASSUME NEW p \in WindowPage, NEW u \in Tasks, p \in Mine(op'[u])
               PROVE  ~Given(p)'
    BY Zenon
  <2>1. u # t /\ p \in Mine(op[u])
    BY <1>1, Zenon
  <2>2. ~Given(p) /\ p \notin Mine(op[t]) /\ p # q
    BY <2>1, <1>3, Zenon DEF PagesAgree, Worked
  <2> QED
    BY <2>2, Zenon
<1>6. \A p \in WindowPage : \A u, v \in Tasks : p \in Mine(op'[u]) /\ p \in Mine(op'[v]) => u = v
  <2> SUFFICES ASSUME NEW p \in WindowPage, NEW u \in Tasks, NEW v \in Tasks,
                      p \in Mine(op'[u]), p \in Mine(op'[v])
               PROVE  u = v
    BY Zenon
  <2>1. p \in Mine(op[u]) /\ p \in Mine(op[v])
    BY <1>1, Zenon
  <2> QED
    BY <2>1, Zenon DEF PagesAgree
<1> QED
  BY <1>4, <1>5, <1>6, Zenon DEF PagesAgree, Worked

\* page_dealloc and the drop of a stack: the pages are the call's again.
LEMMA PagesTaken ==
    ASSUME PagesAgree, NEW t \in Tasks, Others(t), UNCHANGED table,
           Mine(op[t]) = {}, NEW D, Mine(op'[t]) = D,
           \A p \in D : Given(p),
           \A p : Given(p)' <=> Given(p) /\ p \notin D
    PROVE  PagesAgree'
<1>1. \A u \in Tasks : u # t => op'[u] = op[u]
  BY Zenon DEF Others
<1>2. \A p : Worked(p)' <=> Worked(p) \/ p \in D
  BY <1>1, Zenon DEF Worked
<1>3. \A p \in WindowPage : table'[p] # None <=> Given(p)' \/ Worked(p)'
  BY <1>2, Zenon DEF PagesAgree, Worked
<1>4. \A p \in WindowPage, u \in Tasks : p \in Mine(op'[u]) => ~Given(p)'
  <2> SUFFICES ASSUME NEW p \in WindowPage, NEW u \in Tasks, p \in Mine(op'[u])
               PROVE  ~Given(p)'
    BY Zenon
  <2>1. CASE u = t
    BY <2>1, Zenon
  <2>2. CASE u # t
    BY <1>1, <2>2, Zenon DEF PagesAgree
  <2> QED
    BY <2>1, <2>2, Zenon
<1>5. \A p \in WindowPage : \A u, v \in Tasks : p \in Mine(op'[u]) /\ p \in Mine(op'[v]) => u = v
  <2> SUFFICES ASSUME NEW p \in WindowPage, NEW u \in Tasks, NEW v \in Tasks,
                      p \in Mine(op'[u]), p \in Mine(op'[v]), u # v
               PROVE  FALSE
    BY Zenon
  <2>1. CASE p \in D
    <3>1. \A w \in Tasks : w # t => p \notin Mine(op'[w])
      BY <1>1, <2>1, Zenon DEF PagesAgree
    <3> QED
      BY <3>1, Zenon
  <2>2. CASE p \notin D
    <3>1. p \in Mine(op[u]) /\ p \in Mine(op[v])
      BY <1>1, <2>2, Zenon
    <3> QED
      BY <3>1, Zenon DEF PagesAgree
  <2> QED
    BY <2>1, <2>2, Zenon
<1> QED
  BY <1>3, <1>4, <1>5, Zenon DEF PagesAgree, Worked

\* unmap_page of a page of the call.
LEMMA PagesUnmapped ==
    ASSUME PagesAgree, NEW t \in Tasks, Others(t), UNCHANGED <<blocks, stacks>>,
           NEW q \in WindowPage, q \in Mine(op[t]), table'[q] = None,
           \A p \in WindowPage : p # q => table'[p] = table[p],
           Mine(op'[t]) = Mine(op[t]) \ {q}
    PROVE  PagesAgree'
<1>1. \A u \in Tasks : u # t => op'[u] = op[u]
  BY Zenon DEF Others
<1>2. \A u \in Tasks : u # t => q \notin Mine(op[u])
  BY Zenon DEF PagesAgree
<1>3. \A p : (Given(p)' <=> Given(p)) /\ (Worked(p)' <=> Worked(p) /\ p # q)
  BY <1>1, <1>2, Zenon DEF Given, InBlock, Worked
<1>4. ~Given(q)
  BY Zenon DEF PagesAgree
<1>5. \A p \in WindowPage : table'[p] # None <=> Given(p)' \/ Worked(p)'
  BY <1>3, <1>4, ZenonT(60) DEF PagesAgree, Worked
<1>6. \A u \in Tasks : \A p \in Mine(op'[u]) : p \in Mine(op[u])
  BY <1>1, Zenon
<1>7. \A p \in WindowPage, u \in Tasks : p \in Mine(op'[u]) => ~Given(p)'
  BY <1>3, <1>6, Zenon DEF PagesAgree
<1>8. \A p \in WindowPage : \A u, v \in Tasks : p \in Mine(op'[u]) /\ p \in Mine(op'[v]) => u = v
  BY <1>6, Zenon DEF PagesAgree
<1> QED
  BY <1>5, <1>7, <1>8, Zenon DEF PagesAgree, Worked

---------------------------------------------------------------------------
(* The frames *)

\* A step that moves no frame.
LEMMA FramesSame ==
    ASSUME FramesAgree, NEW t \in Tasks, Others(t), UNCHANGED <<table, free>>,
           op'[t].hand = op[t].hand
    PROVE  FramesAgree'
<1>1. \A u \in Tasks : op'[u].hand = op[u].hand
  BY Zenon DEF Others
<1>2. MappedOnce' /\ HeldOnce' /\ NotFree' /\ NotBoth' /\ NoneLost'
  BY <1>1 DEF FramesAgree, MappedOnce, HeldOnce, NotFree, NotBoth, NoneLost
<1> QED
  BY <1>2, Zenon DEF FramesAgree

\* alloc_frame.
LEMMA FramesTaken ==
    ASSUME FramesAgree, NEW t \in Tasks, Others(t), UNCHANGED table,
           None \notin Frames, free \subseteq Frames,
           NEW f \in free, free' = free \ {f}, op[t].hand = None, op'[t].hand = f
    PROVE  FramesAgree'
<1>1. \A u \in Tasks : u # t => op'[u].hand = op[u].hand
  BY Zenon DEF Others
<1>2. MappedOnce'
  BY Zenon DEF FramesAgree, MappedOnce
<1>3. HeldOnce'
  BY <1>1 DEF FramesAgree, HeldOnce, NotFree
<1>4. NotFree'
  BY <1>1, Zenon DEF FramesAgree, NotFree
<1>5. NotBoth'
  BY <1>1, Zenon DEF FramesAgree, NotBoth, NotFree
<1>6. NoneLost'
  BY <1>1 DEF FramesAgree, NoneLost
<1> QED
  BY <1>2, <1>3, <1>4, <1>5, <1>6, Zenon DEF FramesAgree

\* map_page: the frame in hand goes into the table.
LEMMA FramesMapped ==
    ASSUME FramesAgree, NEW t \in Tasks, Others(t), UNCHANGED free, None \notin free,
           NEW q \in WindowPage, table[q] = None, table'[q] = op[t].hand,
           \A p \in WindowPage : p # q => table'[p] = table[p],
           op[t].hand # None, op'[t].hand = None, None \notin Frames
    PROVE  FramesAgree'
<1>1. \A u \in Tasks : u # t => op'[u].hand = op[u].hand
  BY Zenon DEF Others
<1>2. MappedOnce'
  BY DEF FramesAgree, MappedOnce, NotBoth
<1>3. HeldOnce'
  BY <1>1 DEF FramesAgree, HeldOnce
<1>4. NotFree'
  BY <1>1, Zenon DEF FramesAgree, NotFree
<1>5. NotBoth'
  BY <1>1 DEF FramesAgree, NotBoth, HeldOnce
<1>6. NoneLost'
  BY <1>1 DEF FramesAgree, NoneLost
<1> QED
  BY <1>2, <1>3, <1>4, <1>5, <1>6, Zenon DEF FramesAgree

\* free_frame: the frame in hand is free again.
LEMMA FramesFreed ==
    ASSUME FramesAgree, NEW t \in Tasks, Others(t), UNCHANGED table, None \notin free,
           free' = free \cup {op[t].hand}, op[t].hand # None, op'[t].hand = None
    PROVE  FramesAgree'
<1>1. \A u \in Tasks : u # t => op'[u].hand = op[u].hand
  BY Zenon DEF Others
<1>2. MappedOnce'
  BY Zenon DEF FramesAgree, MappedOnce
<1>3. HeldOnce'
  BY <1>1, Zenon DEF FramesAgree, HeldOnce
<1>4. NotFree'
  BY <1>1, Zenon DEF FramesAgree, NotFree, HeldOnce, NotBoth
<1>5. NotBoth'
  BY <1>1, Zenon DEF FramesAgree, NotBoth
<1>6. NoneLost'
  BY <1>1 DEF FramesAgree, NoneLost
<1> QED
  BY <1>2, <1>3, <1>4, <1>5, <1>6, Zenon DEF FramesAgree

\* unmap_page: the frame of the page is in hand.
LEMMA FramesUnmapped ==
    ASSUME FramesAgree, NEW t \in Tasks, Others(t), UNCHANGED free, None \notin free,
           NEW q \in WindowPage, table[q] # None, table'[q] = None,
           \A p \in WindowPage : p # q => table'[p] = table[p],
           op[t].hand = None, op'[t].hand = table[q], None \notin Frames
    PROVE  FramesAgree'
<1>1. \A u \in Tasks : u # t => op'[u].hand = op[u].hand
  BY Zenon DEF Others
<1>2. MappedOnce'
  BY Zenon DEF FramesAgree, MappedOnce
<1>3. HeldOnce'
  BY <1>1 DEF FramesAgree, HeldOnce, NotBoth
<1>4. NotFree'
  BY <1>1, Zenon DEF FramesAgree, NotFree
<1>5. NotBoth'
  BY <1>1, ZenonT(60) DEF FramesAgree, NotBoth, MappedOnce
<1>6. NoneLost'
  BY <1>1 DEF FramesAgree, NoneLost
<1> QED
  BY <1>2, <1>3, <1>4, <1>5, <1>6, Zenon DEF FramesAgree

---------------------------------------------------------------------------
(* The count of mapped pages *)

\* The sizes of two sets that have nothing in common add up.
LEMMA SizesAdd ==
    ASSUME NEW S, IsFiniteSet(S), NEW T, IsFiniteSet(T), S \cap T = {}
    PROVE  Cardinality(S \cup T) = Cardinality(S) + Cardinality(T)
<1>1. Cardinality(S) \in Nat /\ Cardinality(T) \in Nat
  BY FS_CardinalityType, Zenon
<1>2. Cardinality(S \cup T) = Cardinality(S) + Cardinality(T) - Cardinality(S \cap T)
  BY FS_Union, Zenon
<1>3. Cardinality(S \cap T) = 0
  BY FS_EmptySet, Zenon
<1> QED
  BY <1>1, <1>2, <1>3

\* What a set loses with a part of it.
LEMMA SizesSubtract ==
    ASSUME NEW S, IsFiniteSet(S), NEW T \in SUBSET S
    PROVE  Cardinality(S \ T) = Cardinality(S) - Cardinality(T)
<1>1. IsFiniteSet(T) /\ IsFiniteSet(S \ T)
  BY FS_Subset, FS_Difference, Zenon
<1>2. Cardinality((S \ T) \cup T) = Cardinality(S \ T) + Cardinality(T)
  <2>1. (S \ T) \cap T = {}
    BY Zenon
  <2> QED
    BY <1>1, <2>1, SizesAdd, Zenon
<1>3. (S \ T) \cup T = S
  BY Zenon
<1>4. Cardinality(S \ T) \in Nat /\ Cardinality(T) \in Nat
  BY <1>1, FS_CardinalityType, Zenon
<1>5. Cardinality(S) = Cardinality(S \ T) + Cardinality(T)
  BY <1>2, <1>3, Zenon
<1> QED
  BY <1>4, <1>5

\* A range has as many pages as it says, alone or with the task that works on it.
LEMMA SpanSize ==
    ASSUME NEW a \in Nat, NEW n \in Nat, NEW t
    PROVE  /\ IsFiniteSet(Span(a, n)) /\ Cardinality(Span(a, n)) = n
           /\ IsFiniteSet({t} \X Span(a, n)) /\ Cardinality({t} \X Span(a, n)) = n
<1> DEFINE b == a + n - 1
<1>1. a \in Int /\ b \in Int
  OBVIOUS
<1>2. IsFiniteSet(Span(a, n)) /\ Cardinality(Span(a, n)) = IF a > b THEN 0 ELSE b - a + 1
  <2>1. Span(a, n) = a .. b
    BY Zenon DEF Span
  <2> HIDE DEF b
  <2> QED
    BY <1>1, <2>1, FS_Interval, Zenon
<1>3. Cardinality(Span(a, n)) = n
  BY <1>2
<1>4. /\ IsFiniteSet({t} \X Span(a, n))
      /\ Cardinality({t} \X Span(a, n)) = Cardinality({t}) * Cardinality(Span(a, n))
  BY <1>2, FS_Singleton, FS_Product, Zenon
<1>5. Cardinality({t}) = 1
  BY FS_Singleton, Zenon
<1>6. Cardinality({t} \X Span(a, n)) = n
  BY <1>3, <1>4, <1>5
<1> QED
  BY <1>2, <1>3, <1>4, <1>6, Zenon

\* There are finitely many pages to count.
LEMMA CountsFinite ==
    ASSUME PageHeapAssumption
    PROVE  /\ IsFiniteSet(Lent) /\ IsFiniteSet(Owing)
           /\ Cardinality(Lent) \in Nat /\ Cardinality(Owing) \in Nat
<1>1. IsFiniteSet(HeapPage)
  <2>1. 0 \in Int /\ HEAP_PAGES - 1 \in Int
    BY DEF PageHeapAssumption
  <2> QED
    BY <2>1, FS_Interval, Zenon DEF HeapPage
<1>2. IsFiniteSet(Tasks \X HeapPage)
  BY <1>1, FS_Product, Zenon DEF PageHeapAssumption
<1>3. IsFiniteSet(Lent)
  <2>1. Lent \in SUBSET HeapPage
    BY Zenon DEF Lent
  <2> QED
    BY <1>1, <2>1, FS_Subset, Zenon
<1>4. IsFiniteSet(Owing)
  <2>1. Owing \in SUBSET (Tasks \X HeapPage)
    BY Zenon DEF Owing
  <2> QED
    BY <1>2, <2>1, FS_Subset, Zenon
<1> QED
  BY <1>3, <1>4, FS_CardinalityType, Zenon

\* A step that neither completes a block nor gives one back.
LEMMA CountSame ==
    ASSUME CountAgrees, NEW t \in Tasks, Others(t), UNCHANGED <<blocks, mapped_count>>,
           op'[t].pc = "drop" <=> op[t].pc = "drop",
           op[t].pc = "drop" => Room(op'[t]) = Room(op[t])
    PROVE  CountAgrees'
<1>1. Lent' = Lent
  BY Zenon DEF Lent, InBlock
<1>2. \A u \in Tasks : /\ op'[u].pc = "drop" <=> op[u].pc = "drop"
                       /\ op[u].pc = "drop" => Room(op'[u]) = Room(op[u])
  BY Zenon DEF Others
<1>3. Owing' = Owing
  <2>1. \A l \in Tasks \X HeapPage : (op'[l[1]].pc = "drop" /\ l[2] \in Room(op'[l[1]]))
                                     <=> (op[l[1]].pc = "drop" /\ l[2] \in Room(op[l[1]]))
    BY <1>2, Zenon
  <2> QED
    BY <2>1, Zenon DEF Owing
<1> QED
  BY <1>1, <1>3, Zenon DEF CountAgrees

\* A block that is complete is counted.
LEMMA CountLent ==
    ASSUME PageHeapAssumption, CountAgrees, NEW t \in Tasks, Others(t),
           op[t].start \in Nat, op[t].pages \in Nat,
           op'[t].pc # "drop", op[t].pc # "drop", Room(op[t]) \subseteq HeapPage,
           NEW b, Span(b[1], b[2]) = Room(op[t]), blocks' = blocks \cup {b},
           \A p \in HeapPage : p \in Room(op[t]) => ~InBlock(p),
           mapped_count' = mapped_count + op[t].pages
    PROVE  CountAgrees'
<1>1. Lent' = Lent \cup Room(op[t])
  BY Zenon DEF Lent, InBlock
<1>2. Lent \cap Room(op[t]) = {}
  BY Zenon DEF Lent
<1>3. IsFiniteSet(Room(op[t])) /\ Cardinality(Room(op[t])) = op[t].pages
  BY SpanSize, Zenon DEF Room
<1>4. Cardinality(Lent') = Cardinality(Lent) + op[t].pages
  BY <1>1, <1>2, <1>3, CountsFinite, SizesAdd, Zenon
<1>5. \A u \in Tasks : /\ op'[u].pc = "drop" <=> op[u].pc = "drop"
                       /\ op[u].pc = "drop" => Room(op'[u]) = Room(op[u])
  BY Zenon DEF Others
<1>6. Owing' = Owing
  <2>1. \A l \in Tasks \X HeapPage : (op'[l[1]].pc = "drop" /\ l[2] \in Room(op'[l[1]]))
                                     <=> (op[l[1]].pc = "drop" /\ l[2] \in Room(op[l[1]]))
    BY <1>5, Zenon
  <2> QED
    BY <2>1, Zenon DEF Owing
<1>7. Cardinality(Lent) \in Nat /\ Cardinality(Owing) \in Nat
  BY CountsFinite, Zenon
<1>8. mapped_count = Cardinality(Lent) + Cardinality(Owing)
  BY Zenon DEF CountAgrees
<1>9. mapped_count' = Cardinality(Lent') + Cardinality(Owing)
  BY <1>4, <1>7, <1>8
<1> QED
  BY <1>6, <1>9, Zenon DEF CountAgrees

\* A block that page_dealloc takes is owed until its pages are unmapped.
LEMMA CountDropped ==
    ASSUME PageHeapAssumption, CountAgrees, NEW t \in Tasks, Others(t), UNCHANGED mapped_count,
           op[t].pc # "drop", op'[t].pc = "drop",
           NEW b \in blocks, b[1] \in Nat, b[2] \in Nat, Span(b[1], b[2]) \subseteq HeapPage,
           Room(op'[t]) = Span(b[1], b[2]), blocks' = blocks \ {b},
           \A p \in HeapPage : \A c \in blocks :
               p \in Span(b[1], b[2]) /\ p \in Span(c[1], c[2]) => b = c
    PROVE  CountAgrees'
<1> DEFINE B == Span(b[1], b[2])
<1>1. IsFiniteSet(B) /\ Cardinality(B) = b[2]
  BY SpanSize, Zenon
<1>2. IsFiniteSet({t} \X B) /\ Cardinality({t} \X B) = b[2]
  BY SpanSize, ZenonT(60)
<1>3. Lent' = Lent \ B /\ B \in SUBSET Lent
  <2>1. \A p \in HeapPage : InBlock(p)' <=> InBlock(p) /\ p \notin B
    BY Zenon DEF InBlock
  <2>2. \A p \in B : InBlock(p)
    BY Zenon DEF InBlock
  <2> HIDE DEF B
  <2> QED
    BY <2>1, <2>2, Zenon DEF Lent, B
<1>4. Owing' = Owing \cup ({t} \X B) /\ Owing \cap ({t} \X B) = {}
  <2>1. \A u \in Tasks : u # t => op'[u] = op[u]
    BY Zenon DEF Others
  <2>2. Room(op'[t]) = B /\ B \subseteq HeapPage
    BY Zenon
  <2> HIDE DEF B
  <2> QED
    BY <2>1, <2>2, Zenon DEF Owing
<1> HIDE DEF B
<1>5. Cardinality(Lent') = Cardinality(Lent) - b[2]
  BY <1>1, <1>3, CountsFinite, SizesSubtract, Zenon
<1>6. Cardinality(Owing') = Cardinality(Owing) + b[2]
  BY <1>2, <1>4, CountsFinite, SizesAdd, Zenon
<1>7. Cardinality(Lent) \in Nat /\ Cardinality(Owing) \in Nat
  BY CountsFinite, Zenon
<1>8. mapped_count = Cardinality(Lent) + Cardinality(Owing)
  BY Zenon DEF CountAgrees
<1>9. mapped_count = Cardinality(Lent') + Cardinality(Owing')
  BY <1>5, <1>6, <1>7, <1>8, SMTT(60)
<1> QED
  BY <1>9, Zenon DEF CountAgrees

\* page_dealloc's last step subtracts what it owed.
LEMMA CountReturned ==
    ASSUME PageHeapAssumption, CountAgrees, NEW t \in Tasks, Others(t), UNCHANGED blocks,
           op[t].pc = "drop", op'[t].pc # "drop", op[t].start \in Nat, op[t].pages \in Nat,
           Room(op[t]) \subseteq HeapPage, mapped_count' = mapped_count - op[t].pages
    PROVE  CountAgrees'
<1>1. Lent' = Lent
  BY Zenon DEF Lent, InBlock
<1>2. Cardinality({t} \X Room(op[t])) = op[t].pages
  BY SpanSize, ZenonT(60) DEF Room
<1>3. Owing' = Owing \ ({t} \X Room(op[t])) /\ {t} \X Room(op[t]) \in SUBSET Owing
  <2>1. \A u \in Tasks : u # t => op'[u] = op[u]
    BY Zenon DEF Others
  <2> QED
    BY <2>1, Zenon DEF Owing
<1>4. Cardinality(Owing') = Cardinality(Owing) - op[t].pages
  BY <1>2, <1>3, CountsFinite, SizesSubtract, Zenon
<1>5. Cardinality(Lent) \in Nat /\ Cardinality(Owing) \in Nat
  BY CountsFinite, Zenon
<1>6. mapped_count = Cardinality(Lent) + Cardinality(Owing)
  BY Zenon DEF CountAgrees
<1>7. mapped_count' = Cardinality(Lent) + Cardinality(Owing')
  BY <1>4, <1>5, <1>6, SMTT(60)
<1> QED
  BY <1>1, <1>7, Zenon DEF CountAgrees

---------------------------------------------------------------------------
(* The steps that take a range *)

\* page_alloc's search finds aligned pages of the heap whose bits are clear.
LEMMA FoundIsFree ==
    ASSUME PageHeapAssumption, NEW n \in Nat \ {0}, NEW a \in Nat \ {0}, Candidates(n, a) # {}
    PROVE  /\ Found(n, a) \in Nat /\ Found(n, a) + n <= HEAP_PAGES
           /\ Span(Found(n, a), n) \cap bitmap = {}
<1> DEFINE above == {p \in Candidates(n, a) : p >= First(n, a)}
           S == IF above # {} THEN above ELSE Candidates(n, a)
<1>1. S # {} /\ S \subseteq Candidates(n, a)
  BY Zenon
<1>2. Candidates(n, a) \subseteq Nat
  BY DEF Candidates, PageHeapAssumption
<1>3. Found(n, a) = Lowest(S)
  BY Zenon DEF Found
<1> HIDE DEF S
<1>4. Found(n, a) \in Candidates(n, a)
  BY <1>1, <1>2, <1>3, LeastExists, Zenon
<1> QED
  BY <1>4 DEF Candidates, PageHeapAssumption

\* page_alloc's claim keeps the invariant.
LEMMA PageAllocKeeps ==
    ASSUME PageHeapAssumption, PagesInv, NEW t \in Tasks, NEW z \in Sizes, PageAlloc(t, z[1], z[2])
    PROVE  PagesInv'
<1> DEFINE n == z[1]
           a == z[2]
           start == Found(n, a)
           o == [Idle EXCEPT !.pc = "frame", !.start = start, !.pages = n]
<1>1. n \in Nat \ {0} /\ a \in Nat \ {0} /\ HEAP_PAGES \in Nat /\ None \notin Frames
  BY Zenon DEF PageHeapAssumption
<1>2. /\ Stores /\ Calls /\ op[t].pc = "idle" /\ OpSound(op[t])
      /\ Become(t, o) /\ bitmap' = bitmap \cup Span(start, n) /\ cursor' = start + n
      /\ UNCHANGED <<slots, table, free, blocks, stacks, mapped_count, panicked>>
      /\ Candidates(n, a) # {}
  BY Zenon DEF PagesInv, PageAlloc, Calls
<1>3. start \in Nat /\ start + n <= HEAP_PAGES /\ Span(start, n) \cap bitmap = {}
  BY <1>1, <1>2, FoundIsFree, Zenon
<1> HIDE DEF start, n, a
<1>4. /\ o.pc = "frame" /\ o.kind = "heap" /\ o.start = start /\ o.pages = n
      /\ o.at = 0 /\ o.from = 0 /\ o.hand = None /\ o \in OpType
  BY <1>1, <1>3, Zenon DEF Idle, OpType
<1> HIDE DEF o
<1>5. OpSound(o)
  BY <1>1, <1>3, <1>4 DEF OpSound
<1>6. op'[t] = o /\ Others(t) /\ Calls'
  BY <1>2, <1>5, Turn, Zenon
<1>7. Room(o) = Span(start, n) /\ HoldsBits(o) /\ ~HoldsSlot(o)
  BY <1>4, Zenon DEF Room, HoldsBits, HoldsSlot
<1>8. Mine(o) = {}
  BY <1>3, <1>4 DEF Mine
<1>9. ~HoldsBits(op[t]) /\ ~HoldsSlot(op[t]) /\ Mine(op[t]) = {} /\ op[t].hand = None
      /\ op[t].pc # "drop"
  BY <1>2, IdleHoldsNothing, Zenon
<1>10. Stores'
  <2>1. Span(start, n) \subseteq HeapPage /\ start + n \in 0 .. HEAP_PAGES
    BY <1>1, <1>3 DEF Span, HeapPage
  <2>2. bitmap' \subseteq HeapPage /\ cursor' \in 0 .. HEAP_PAGES
    BY <1>2, <2>1, Zenon DEF Stores
  <2> QED
    BY <1>2, <2>2, Zenon DEF Stores
<1>11. BitsAgree'
  BY <1>2, <1>3, <1>6, <1>7, <1>9, BitsTaken, Zenon DEF PagesInv
<1>12. SlotsAgree'
  BY <1>2, <1>6, <1>7, <1>9, SlotsSame, Zenon DEF PagesInv
<1>13. PagesAgree'
  BY <1>2, <1>6, <1>8, <1>9, PagesSame, Zenon DEF PagesInv
<1>14. FramesAgree'
  BY <1>2, <1>4, <1>6, <1>9, FramesSame, Zenon DEF PagesInv
<1>15. CountAgrees'
  <2>1. op'[t].pc # "drop"
    BY <1>4, <1>6, Zenon
  <2> QED
    BY <1>2, <1>6, <1>9, <2>1, CountSame, Zenon DEF PagesInv
<1> QED
  BY <1>6, <1>10, <1>11, <1>12, <1>13, <1>14, <1>15, ZenonT(60) DEF PagesInv

\* take_slot for a new stack keeps the invariant.
LEMMA NewStackKeeps ==
    ASSUME PageHeapAssumption, PagesInv, NEW t \in Tasks, NewStack(t)
    PROVE  PagesInv'
<1> DEFINE s == Lowest(Slot \ slots)
           o == [Idle EXCEPT !.pc = "frame", !.kind = "stack",
                             !.start = StackBase(s), !.pages = STACK_PAGES]
<1>1. STACK_PAGES \in Nat \ {0} /\ HEAP_PAGES \in Nat /\ None \notin Frames
  BY Zenon DEF PageHeapAssumption
<1>2. /\ Stores /\ Calls /\ op[t].pc = "idle" /\ OpSound(op[t])
      /\ Become(t, o) /\ slots' = slots \cup {s} /\ slots # Slot
      /\ UNCHANGED <<bitmap, cursor, table, free, blocks, stacks, mapped_count, panicked>>
  BY Zenon DEF PagesInv, NewStack, Calls
<1>3. s \in Slot /\ s \notin slots
  <2>1. Slot \ slots # {}
    BY <1>2, Zenon DEF Stores
  <2>2. Slot \ slots \in SUBSET Nat
    BY DEF Slot
  <2> QED
    BY <2>1, <2>2, LeastExists, Zenon
<1> HIDE DEF s
<1>4. StackBase(s) \in Nat /\ \A r : r.start = StackBase(s) => SlotOf(r) = s
  BY <1>3, StackPlaces, Zenon
<1>5. /\ o.pc = "frame" /\ o.kind = "stack" /\ o.start = StackBase(s) /\ o.pages = STACK_PAGES
      /\ o.at = 0 /\ o.from = 0 /\ o.hand = None /\ o \in OpType
  BY <1>1, <1>4, Zenon DEF Idle, OpType
<1> HIDE DEF o
<1>6. SlotOf(o) = s
  BY <1>4, <1>5, Zenon
<1>7. OpSound(o)
  BY <1>1, <1>3, <1>5, <1>6 DEF OpSound
<1>8. op'[t] = o /\ Others(t) /\ Calls'
  BY <1>2, <1>7, Turn, Zenon
<1>9. ~HoldsBits(o) /\ HoldsSlot(o)
  BY <1>5, Zenon DEF HoldsBits, HoldsSlot
<1>10. Mine(o) = {}
  BY <1>4, <1>5 DEF Mine
<1>11. ~HoldsBits(op[t]) /\ ~HoldsSlot(op[t]) /\ Mine(op[t]) = {} /\ op[t].hand = None
       /\ op[t].pc # "drop"
  BY <1>2, IdleHoldsNothing, Zenon
<1>12. Stores'
  BY <1>2, <1>3, Zenon DEF Stores
<1>13. BitsAgree'
  BY <1>2, <1>8, <1>9, <1>11, BitsSame, Zenon DEF PagesInv
<1>14. SlotsAgree'
  <2>1. \A u \in Tasks : HoldsSlot(op[u]) => SlotOf(op[u]) \in Slot
    BY <1>2, Ranges, Zenon DEF Calls
  <2>2. SlotsAgree /\ stacks \subseteq slots /\ UNCHANGED stacks /\ SlotOf(op'[t]) = s
    BY <1>2, <1>6, <1>8, Zenon DEF PagesInv, Stores
  <2> QED
    BY <1>2, <1>3, <1>8, <1>9, <1>11, <2>1, <2>2, SlotsTaken, ZenonT(60)
<1>15. PagesAgree'
  BY <1>2, <1>8, <1>10, <1>11, PagesSame, ZenonT(60) DEF PagesInv
<1>16. FramesAgree'
  BY <1>2, <1>5, <1>8, <1>11, FramesSame, ZenonT(60) DEF PagesInv
<1>17. CountAgrees'
  <2>1. op'[t].pc # "drop"
    BY <1>5, <1>8, Zenon
  <2> QED
    BY <1>2, <1>8, <1>11, <2>1, CountSame, ZenonT(60) DEF PagesInv
<1> QED
  BY <1>8, <1>12, <1>13, <1>14, <1>15, <1>16, <1>17, Zenon DEF PagesInv

---------------------------------------------------------------------------
(* The steps that map and unmap *)

\* What a step leaves alone when it only moves a call on from one frame to the next.
SameRange(o, r) == /\ r.kind = o.kind /\ r.start = o.start /\ r.pages = o.pages
                   /\ o.pc # "idle" /\ r.pc # "idle" /\ (r.pc = "drop" <=> o.pc = "drop")

\* A call that moves on holds the same bits or the same slot, and owes the same pages.
LEMMA RangeKept ==
    ASSUME PagesInv, NEW t \in Tasks, NEW r, OpSound(op[t]), OpSound(r), SameRange(op[t], r),
           Become(t, r), UNCHANGED <<bitmap, slots, blocks, stacks, mapped_count>>
    PROVE  /\ op'[t] = r /\ Others(t) /\ Calls'
           /\ BitsAgree' /\ SlotsAgree' /\ CountAgrees'
<1>1. op'[t] = r /\ Others(t) /\ Calls'
  BY Turn, Zenon DEF PagesInv
<1>2. Room(r) = Room(op[t]) /\ SlotOf(r) = SlotOf(op[t])
  BY Zenon DEF SameRange, Room, SlotOf
<1>3. op[t].pc \in {"idle", "frame", "map", "unmap", "drop"}
      /\ r.pc \in {"idle", "frame", "map", "unmap", "drop"}
  BY Zenon DEF OpSound, OpType
<1>4. (HoldsBits(r) <=> HoldsBits(op[t])) /\ (HoldsSlot(r) <=> HoldsSlot(op[t]))
  BY <1>3, Zenon DEF SameRange, HoldsBits, HoldsSlot
<1>5. BitsAgree'
  BY <1>1, <1>2, <1>4, BitsSame, Zenon DEF PagesInv
<1>6. SlotsAgree'
  BY <1>1, <1>2, <1>4, SlotsSame, Zenon DEF PagesInv
<1>7. CountAgrees'
  <2>1. op'[t].pc = "drop" <=> op[t].pc = "drop"
    BY <1>1, Zenon DEF SameRange
  <2> QED
    BY <1>1, <1>2, <2>1, CountSame, ZenonT(60) DEF PagesInv
<1> QED
  BY <1>1, <1>5, <1>6, <1>7, Zenon

\* alloc_frame, or the turn to the roll-back when there is none, keeps the invariant.
LEMMA TakeFrameKeeps ==
    ASSUME PageHeapAssumption, PagesInv, NEW t \in Tasks, TakeFrame(t)
    PROVE  PagesInv'
<1>1. /\ Stores /\ Calls /\ op[t].pc = "frame" /\ OpSound(op[t]) /\ op[t] \in OpType
      /\ UNCHANGED <<bitmap, cursor, slots, table, blocks, stacks, mapped_count, panicked>>
  BY Zenon DEF PagesInv, TakeFrame, Calls, OpSound
<1>2. None \notin Frames /\ free \subseteq Frames /\ op[t].hand = None
  BY <1>1, Zenon DEF PageHeapAssumption, Stores, OpSound
<1>3. ASSUME NEW f \in free, free' = free \ {f},
             Become(t, [op[t] EXCEPT !.pc = "map", !.hand = f])
      PROVE  PagesInv'
  <2> DEFINE r == [op[t] EXCEPT !.pc = "map", !.hand = f]
  <2>1. /\ r.pc = "map" /\ r.kind = op[t].kind /\ r.start = op[t].start /\ r.pages = op[t].pages
        /\ r.at = op[t].at /\ r.from = op[t].from /\ r.hand = f /\ r \in OpType
    BY <1>1, <1>2, Zenon DEF OpType
  <2>2. Become(t, r)
    BY <1>3, Zenon
  <2> HIDE DEF r
  <2>3. SameRange(op[t], r) /\ Mine(r) = Mine(op[t]) /\ SlotOf(r) = SlotOf(op[t])
    <3>1. SameRange(op[t], r)
      BY <1>1, <2>1, Zenon DEF SameRange
    <3> QED
      BY <2>1, <3>1, Zenon DEF SlotOf, Mine
  <2>4. OpSound(r)
    BY <1>1, <1>2, <2>1, <2>3, Zenon DEF OpSound
  <2>5. op'[t] = r /\ Others(t) /\ Calls' /\ BitsAgree' /\ SlotsAgree' /\ CountAgrees'
    BY <1>1, <2>2, <2>3, <2>4, RangeKept, Zenon
  <2>6. PagesAgree'
    BY <1>1, <2>3, <2>5, PagesSame, Zenon DEF PagesInv
  <2>7. FramesAgree'
    <3>1. FramesAgree /\ UNCHANGED table /\ op'[t].hand = f
      BY <1>1, <2>1, <2>5, Zenon DEF PagesInv
    <3> QED
      BY <1>2, <1>3, <2>5, <3>1, FramesTaken, Zenon
  <2>8. Stores'
    BY <1>1, <1>3, Zenon DEF Stores
  <2> QED
    BY <2>5, <2>6, <2>7, <2>8, ZenonT(60) DEF PagesInv
<1>4. ASSUME free' = free, Become(t, [op[t] EXCEPT !.pc = "unmap", !.hand = None])
      PROVE  PagesInv'
  <2> DEFINE r == [op[t] EXCEPT !.pc = "unmap", !.hand = None]
  <2>1. /\ r.pc = "unmap" /\ r.kind = op[t].kind /\ r.start = op[t].start
        /\ r.pages = op[t].pages /\ r.at = op[t].at /\ r.from = op[t].from
        /\ r.hand = None /\ r \in OpType
    BY <1>1, <1>2, Zenon DEF OpType
  <2>2. Become(t, r)
    BY <1>4, Zenon
  <2> HIDE DEF r
  <2>3. SameRange(op[t], r) /\ Mine(r) = Mine(op[t]) /\ SlotOf(r) = SlotOf(op[t])
    <3>1. SameRange(op[t], r)
      BY <1>1, <2>1, Zenon DEF SameRange
    <3> QED
      BY <2>1, <3>1, Zenon DEF SlotOf, Mine
  <2>4. OpSound(r)
    BY <1>1, <1>2, <2>1, <2>3, Zenon DEF OpSound
  <2>5. op'[t] = r /\ Others(t) /\ Calls' /\ BitsAgree' /\ SlotsAgree' /\ CountAgrees'
    BY <1>1, <2>2, <2>3, <2>4, RangeKept, Zenon
  <2>6. PagesAgree'
    BY <1>1, <2>3, <2>5, PagesSame, Zenon DEF PagesInv
  <2>7. FramesAgree'
    <3>1. FramesAgree /\ UNCHANGED <<table, free>> /\ op'[t].hand = op[t].hand
      BY <1>1, <1>2, <1>4, <2>1, <2>5, Zenon DEF PagesInv
    <3> QED
      BY <2>5, <3>1, FramesSame, Zenon
  <2>8. Stores'
    BY <1>1, <1>4, Zenon DEF Stores
  <2> QED
    BY <2>5, <2>6, <2>7, <2>8, ZenonT(60) DEF PagesInv
<1> QED
  BY <1>3, <1>4, Zenon DEF TakeFrame

\* The frame that a failed map_page leaves in hand is freed: the invariant is kept.
LEMMA MapFailsKeeps ==
    ASSUME PageHeapAssumption, PagesInv, NEW t \in Tasks, MapFails(t)
    PROVE  PagesInv'
<1> DEFINE r == [op[t] EXCEPT !.pc = "unmap", !.hand = None]
<1>1. /\ Stores /\ Calls /\ op[t].pc = "map" /\ OpSound(op[t]) /\ op[t] \in OpType
      /\ free' = free \cup {op[t].hand} /\ Become(t, r)
      /\ UNCHANGED <<bitmap, cursor, slots, table, blocks, stacks, mapped_count, panicked>>
  BY Zenon DEF PagesInv, MapFails, Calls, OpSound
<1>2. /\ None \notin Frames /\ free \subseteq Frames /\ None \notin free
      /\ op[t].hand # None /\ op[t].hand \in Frames
  BY <1>1, Zenon DEF PageHeapAssumption, Stores, OpSound, OpType
<1>3. /\ r.pc = "unmap" /\ r.kind = op[t].kind /\ r.start = op[t].start
      /\ r.pages = op[t].pages /\ r.at = op[t].at /\ r.from = op[t].from
      /\ r.hand = None /\ r \in OpType
  BY <1>1, Zenon DEF OpType
<1> HIDE DEF r
<1>4. SameRange(op[t], r) /\ Mine(r) = Mine(op[t]) /\ SlotOf(r) = SlotOf(op[t])
  <2>1. SameRange(op[t], r)
    BY <1>1, <1>3, Zenon DEF SameRange
  <2> QED
    BY <1>3, <2>1, Zenon DEF SlotOf, Mine
<1>5. OpSound(r)
  BY <1>1, <1>3, <1>4, Zenon DEF OpSound
<1>6. op'[t] = r /\ Others(t) /\ Calls' /\ BitsAgree' /\ SlotsAgree' /\ CountAgrees'
  BY <1>1, <1>4, <1>5, RangeKept, Zenon
<1>7. PagesAgree'
  BY <1>1, <1>4, <1>6, PagesSame, Zenon DEF PagesInv
<1>8. FramesAgree'
  <2>1. FramesAgree /\ UNCHANGED table /\ op'[t].hand = None
    BY <1>1, <1>3, <1>6, Zenon DEF PagesInv
  <2> QED
    BY <1>1, <1>2, <1>6, <2>1, FramesFreed, Zenon
<1>9. Stores'
  BY <1>1, <1>2, Zenon DEF Stores
<1> QED
  BY <1>6, <1>7, <1>8, <1>9, Zenon DEF PagesInv

\* free_frame of a page that was unmapped keeps the invariant.
LEMMA FreeFrameKeeps ==
    ASSUME PageHeapAssumption, PagesInv, NEW t \in Tasks, FreeFrame(t)
    PROVE  PagesInv'
<1> DEFINE r == [op[t] EXCEPT !.hand = None]
<1>1. /\ Stores /\ Calls /\ op[t].pc \in {"unmap", "drop"} /\ OpSound(op[t]) /\ op[t] \in OpType
      /\ free' = free \cup {op[t].hand} /\ Become(t, r) /\ op[t].hand # None
      /\ UNCHANGED <<bitmap, cursor, slots, table, blocks, stacks, mapped_count, panicked>>
  BY Zenon DEF PagesInv, FreeFrame, Calls, OpSound
<1>2. /\ None \notin Frames /\ free \subseteq Frames /\ None \notin free /\ op[t].hand \in Frames
  BY <1>1, Zenon DEF PageHeapAssumption, Stores, OpType
<1>3. /\ r.pc = op[t].pc /\ r.kind = op[t].kind /\ r.start = op[t].start
      /\ r.pages = op[t].pages /\ r.at = op[t].at /\ r.from = op[t].from
      /\ r.hand = None /\ r \in OpType
  BY <1>1, Zenon DEF OpType
<1> HIDE DEF r
<1>4. SameRange(op[t], r) /\ Mine(r) = Mine(op[t]) /\ SlotOf(r) = SlotOf(op[t])
  <2>1. SameRange(op[t], r)
    BY <1>1, <1>3, Zenon DEF SameRange
  <2> QED
    BY <1>3, <2>1, Zenon DEF SlotOf, Mine
<1>5. OpSound(r)
  BY <1>1, <1>3, <1>4, Zenon DEF OpSound
<1>6. op'[t] = r /\ Others(t) /\ Calls' /\ BitsAgree' /\ SlotsAgree' /\ CountAgrees'
  BY <1>1, <1>4, <1>5, RangeKept, Zenon
<1>7. PagesAgree'
  BY <1>1, <1>4, <1>6, PagesSame, ZenonT(60) DEF PagesInv
<1>8. FramesAgree'
  <2>1. FramesAgree /\ UNCHANGED table /\ op'[t].hand = None
    BY <1>1, <1>3, <1>6, Zenon DEF PagesInv
  <2> QED
    BY <1>1, <1>2, <1>6, <2>1, FramesFreed, Zenon
<1>9. Stores'
  BY <1>1, <1>2, Zenon DEF Stores
<1> QED
  BY <1>6, <1>7, <1>8, <1>9, Zenon DEF PagesInv

\* unmap_page finds the page mapped, and keeps the invariant.
LEMMA UnmapKeeps ==
    ASSUME PageHeapAssumption, PagesInv, NEW t \in Tasks, Unmap(t)
    PROVE  PagesInv'
<1> DEFINE q == op[t].start + op[t].from
           r == [op[t] EXCEPT !.from = op[t].from + 1, !.hand = table[q]]
<1>1. /\ Stores /\ Calls /\ op[t].pc \in {"unmap", "drop"} /\ OpSound(op[t]) /\ op[t] \in OpType
      /\ op[t].hand = None /\ op[t].from < op[t].at
      /\ table' = [table EXCEPT ![q] = None] /\ Become(t, r)
      /\ panicked' = (panicked \/ (op[t].kind = "stack" /\ table[q] = None))
      /\ UNCHANGED <<bitmap, cursor, slots, free, blocks, stacks, mapped_count>>
  BY Zenon DEF PagesInv, Unmap, Unmapping, Calls, OpSound
<1>2. /\ None \notin Frames /\ free \subseteq Frames /\ None \notin free
      /\ table \in [WindowPage -> Frames \cup {None}] /\ panicked = FALSE
  BY <1>1, Zenon DEF PageHeapAssumption, Stores
<1>3. /\ op[t].start \in Nat /\ op[t].pages \in Nat /\ op[t].at \in Nat /\ op[t].from \in Nat
      /\ op[t].at <= op[t].pages
  BY <1>1, Zenon DEF OpSound, OpType
<1>4. q \in Mine(op[t])
  BY <1>1, <1>3 DEF Mine
<1>5. q \in WindowPage
  <2>1. op[t].pc # "idle"
    BY <1>1, Zenon
  <2> QED
    BY <1>1, <1>4, <2>1, Ranges, Zenon
<1>6. table[q] # None
  BY <1>4, <1>5, Zenon DEF PagesInv, PagesAgree
<1>7. /\ r.pc = op[t].pc /\ r.kind = op[t].kind /\ r.start = op[t].start
      /\ r.pages = op[t].pages /\ r.at = op[t].at /\ r.from = op[t].from + 1
      /\ r.hand = table[q] /\ r \in OpType
  <2>1. table[q] \in Frames \cup {None}
    BY <1>2, <1>5, Zenon
  <2> HIDE DEF q
  <2> DEFINE n == op[t].from + 1
  <2>2. n \in Nat
    BY <1>3
  <2>3. r = [op[t] EXCEPT !.from = n, !.hand = table[q]]
    BY Zenon
  <2> HIDE DEF r, n
  <2>4. /\ r.pc = op[t].pc /\ r.kind = op[t].kind /\ r.start = op[t].start
        /\ r.pages = op[t].pages /\ r.at = op[t].at /\ r.from = n
        /\ r.hand = table[q] /\ r \in OpType
    BY <1>1, <2>1, <2>2, <2>3, Zenon DEF OpType
  <2> QED
    BY <2>4, Zenon DEF n
<1>8. Mine(r) = Mine(op[t]) \ {q}
  <2> HIDE DEF r
  <2> QED
    BY <1>3, <1>7 DEF Mine
<1> HIDE DEF r, q
<1>9. SameRange(op[t], r) /\ SlotOf(r) = SlotOf(op[t])
  <2>1. SameRange(op[t], r)
    BY <1>1, <1>7, Zenon DEF SameRange
  <2> QED
    BY <1>7, <2>1, Zenon DEF SlotOf
<1>10. OpSound(r)
  <2>1. r.from <= r.at /\ r.at <= r.pages
    BY <1>1, <1>3, <1>7
  <2> QED
    BY <1>1, <1>7, <1>9, <2>1, ZenonT(60) DEF OpSound
<1>11. op'[t] = r /\ Others(t) /\ Calls' /\ BitsAgree' /\ SlotsAgree' /\ CountAgrees'
  BY <1>1, <1>9, <1>10, RangeKept, Zenon
<1>12. /\ table'[q] = None /\ \A p \in WindowPage : p # q => table'[p] = table[p]
       /\ table' \in [WindowPage -> Frames \cup {None}]
  BY <1>1, <1>2, <1>5, Zenon
<1>13. PagesAgree'
  <2>1. PagesAgree /\ UNCHANGED <<blocks, stacks>> /\ Mine(op'[t]) = Mine(op[t]) \ {q}
    BY <1>1, <1>8, <1>11, Zenon DEF PagesInv
  <2> QED
    BY <1>4, <1>5, <1>11, <1>12, <2>1, PagesUnmapped, ZenonT(60)
<1>14. FramesAgree'
  <2>1. FramesAgree /\ UNCHANGED free /\ op'[t].hand = table[q]
    BY <1>1, <1>7, <1>11, Zenon DEF PagesInv
  <2> QED
    BY <1>1, <1>2, <1>5, <1>6, <1>11, <1>12, <2>1, FramesUnmapped, ZenonT(60)
<1>15. Stores'
  <2>1. panicked' = FALSE
    BY <1>1, <1>2, <1>6, Zenon
  <2> QED
    BY <1>1, <1>12, <2>1, Zenon DEF Stores
<1> QED
  BY <1>11, <1>13, <1>14, <1>15, Zenon DEF PagesInv

\* map_page of a page that is not the last keeps the invariant.
LEMMA MapNextKeeps ==
    ASSUME PageHeapAssumption, PagesInv, NEW t \in Tasks, MapPage(t), op[t].at + 1 # op[t].pages
    PROVE  PagesInv'
<1> DEFINE q == op[t].start + op[t].at
           r == [op[t] EXCEPT !.pc = "frame", !.at = op[t].at + 1, !.hand = None]
<1>1. /\ Stores /\ Calls /\ op[t].pc = "map" /\ OpSound(op[t]) /\ op[t] \in OpType
      /\ table[q] = None /\ table' = [table EXCEPT ![q] = op[t].hand] /\ Become(t, r)
      /\ UNCHANGED <<bitmap, cursor, slots, free, panicked, blocks, stacks, mapped_count>>
  BY Zenon DEF PagesInv, MapPage, At, Calls, OpSound
<1>2. /\ None \notin Frames /\ free \subseteq Frames /\ None \notin free
      /\ table \in [WindowPage -> Frames \cup {None}]
      /\ op[t].hand # None /\ op[t].hand \in Frames
  BY <1>1, Zenon DEF PageHeapAssumption, Stores, OpSound, OpType
<1>3. /\ op[t].start \in Nat /\ op[t].pages \in Nat /\ op[t].at \in Nat /\ op[t].from = 0
      /\ op[t].at < op[t].pages
  BY <1>1, Zenon DEF OpSound, OpType
<1>4. q \in WindowPage
  <2>1. q \in Room(op[t])
    BY <1>3 DEF Room, Span
  <2>2. op[t].pc # "idle"
    BY <1>1, Zenon
  <2> QED
    BY <1>1, <2>1, <2>2, Ranges, Zenon
<1>5. /\ r.pc = "frame" /\ r.kind = op[t].kind /\ r.start = op[t].start
      /\ r.pages = op[t].pages /\ r.at = op[t].at + 1 /\ r.from = op[t].from
      /\ r.hand = None /\ r \in OpType
  <2> DEFINE n == op[t].at + 1
  <2>1. n \in Nat
    BY <1>3
  <2>2. r = [op[t] EXCEPT !.pc = "frame", !.at = n, !.hand = None]
    BY Zenon
  <2> HIDE DEF r, n
  <2>3. /\ r.pc = "frame" /\ r.kind = op[t].kind /\ r.start = op[t].start
        /\ r.pages = op[t].pages /\ r.at = n /\ r.from = op[t].from
        /\ r.hand = None /\ r \in OpType
    BY <1>1, <2>1, <2>2, Zenon DEF OpType
  <2> QED
    BY <2>3, Zenon DEF n
<1> HIDE DEF r
<1>6. Mine(r) = Mine(op[t]) \cup {q}
  BY <1>3, <1>5 DEF Mine
<1> HIDE DEF q
<1>7. SameRange(op[t], r) /\ SlotOf(r) = SlotOf(op[t])
  <2>1. SameRange(op[t], r)
    BY <1>1, <1>5, Zenon DEF SameRange
  <2> QED
    BY <1>5, <2>1, Zenon DEF SlotOf
<1>8. OpSound(r)
  <2>1. r.from = 0 /\ r.at < r.pages /\ r.from <= r.at /\ r.at <= r.pages
    BY <1>3, <1>5
  <2> QED
    BY <1>1, <1>5, <1>7, <2>1, Zenon DEF OpSound
<1>9. op'[t] = r /\ Others(t) /\ Calls' /\ BitsAgree' /\ SlotsAgree' /\ CountAgrees'
  BY <1>1, <1>7, <1>8, RangeKept, ZenonT(60)
<1>10. /\ table'[q] = op[t].hand /\ table'[q] # None
       /\ \A p \in WindowPage : p # q => table'[p] = table[p]
       /\ table' \in [WindowPage -> Frames \cup {None}]
  BY <1>1, <1>2, <1>4, Zenon
<1>11. PagesAgree'
  <2>1. PagesAgree /\ UNCHANGED <<blocks, stacks>> /\ Mine(op'[t]) = Mine(op[t]) \cup {q}
    BY <1>1, <1>6, <1>9, Zenon DEF PagesInv
  <2> QED
    BY <1>1, <1>4, <1>9, <1>10, <2>1, PagesMapped, ZenonT(60)
<1>12. FramesAgree'
  <2>1. FramesAgree /\ UNCHANGED free /\ op'[t].hand = None
    BY <1>1, <1>5, <1>9, Zenon DEF PagesInv
  <2> QED
    BY <1>1, <1>2, <1>4, <1>9, <1>10, <2>1, FramesMapped, ZenonT(60)
<1>13. Stores'
  BY <1>1, <1>10, Zenon DEF Stores
<1> QED
  BY <1>9, <1>11, <1>12, <1>13, Zenon DEF PagesInv

\* map_page of the last page: a block or a stack is the caller's, and the invariant is kept.
LEMMA MapLastKeeps ==
    ASSUME PageHeapAssumption, PagesInv, NEW t \in Tasks, MapPage(t), op[t].at + 1 = op[t].pages
    PROVE  PagesInv'
<1> DEFINE q == op[t].start + op[t].at
<1>1. /\ Stores /\ Calls /\ op[t].pc = "map" /\ OpSound(op[t]) /\ op[t] \in OpType
      /\ table[q] = None /\ table' = [table EXCEPT ![q] = op[t].hand] /\ Finish(t)
      /\ UNCHANGED <<bitmap, cursor, slots, free, panicked>>
  BY Zenon DEF PagesInv, MapPage, At, Calls, OpSound
<1>2. /\ None \notin Frames /\ free \subseteq Frames /\ None \notin free
      /\ table \in [WindowPage -> Frames \cup {None}]
      /\ op[t].hand # None /\ op[t].hand \in Frames
  BY <1>1, Zenon DEF PageHeapAssumption, Stores, OpSound, OpType
<1>3. /\ op[t].start \in Nat /\ op[t].pages \in Nat /\ op[t].at \in Nat /\ op[t].from = 0
      /\ op[t].at < op[t].pages
  BY <1>1, ZenonT(60) DEF OpSound, OpType
<1>4. Room(op[t]) = Mine(op[t]) \cup {q}
  BY <1>3 DEF Room, Span, Mine
<1>5. q \in WindowPage /\ op[t].pc # "idle" /\ op[t].pc # "drop"
  <2>1. op[t].pc # "idle" /\ op[t].pc # "drop"
    BY <1>1, Zenon
  <2> QED
    BY <1>1, <1>4, <2>1, Ranges, Zenon
<1> HIDE DEF q
<1>6. op'[t] = Idle /\ Others(t) /\ Calls'
  BY <1>1, IdleSound, Turn, ZenonT(60) DEF Finish
<1>7. /\ ~HoldsBits(op'[t]) /\ ~HoldsSlot(op'[t]) /\ Mine(op'[t]) = {} /\ op'[t].hand = None
      /\ op'[t].pc # "drop"
  BY <1>6, IdleSound, IdleHoldsNothing, Zenon
<1>8. /\ table'[q] = op[t].hand /\ table'[q] # None
      /\ \A p \in WindowPage : p # q => table'[p] = table[p]
      /\ table' \in [WindowPage -> Frames \cup {None}]
  BY <1>1, <1>2, <1>5, Zenon
<1>9. FramesAgree'
  <2>1. FramesAgree /\ UNCHANGED free
    BY <1>1, ZenonT(60) DEF PagesInv
  <2> QED
    BY <1>1, <1>2, <1>5, <1>6, <1>7, <1>8, <2>1, FramesMapped, ZenonT(60)
<1>10. ASSUME \A p : Given(p)' <=> Given(p) \/ p \in Room(op[t]) PROVE PagesAgree'
  <2>1. PagesAgree /\ \A p : Given(p)' <=> Given(p) \/ p \in Mine(op[t]) \/ p = q
    BY <1>4, <1>10, Zenon DEF PagesInv
  <2> QED
    BY <1>1, <1>5, <1>6, <1>7, <1>8, <2>1, PagesGiven, ZenonT(60)
<1>11. CASE op[t].kind = "heap"
  <2> DEFINE b == <<op[t].start, op[t].pages>>
  <2>1. /\ blocks' = blocks \cup {b} /\ mapped_count' = mapped_count + op[t].pages
        /\ UNCHANGED stacks
    BY <1>1, <1>11, Zenon DEF Finish
  <2>2. b[1] = op[t].start /\ b[2] = op[t].pages /\ b \in BlockType
    BY <1>1, <1>3, <1>11, Zenon DEF BlockType, OpSound
  <2> HIDE DEF b
  <2>3. Span(b[1], b[2]) = Room(op[t])
    BY <2>2, Zenon DEF Room
  <2>4. HoldsBits(op[t]) /\ ~HoldsSlot(op[t]) /\ Room(op[t]) \subseteq HeapPage
    <3>1. HoldsBits(op[t]) /\ ~HoldsSlot(op[t])
      BY <1>1, <1>11, ZenonT(60) DEF HoldsBits, HoldsSlot
    <3> QED
      BY <1>1, <1>5, <1>11, <3>1, Ranges, ZenonT(60)
  <2>5. \A p \in HeapPage : p \in Room(op[t]) => ~InBlock(p)
    BY <2>4, Zenon DEF PagesInv, BitsAgree, InCall
  <2>6. BitsAgree'
    <3>1. BitsAgree /\ UNCHANGED bitmap
      BY <1>1, Zenon DEF PagesInv
    <3> QED
      BY <1>6, <1>7, <2>1, <2>3, <2>4, <3>1, BitsToBlock, ZenonT(60)
  <2>7. SlotsAgree'
    <3>1. SlotsAgree /\ UNCHANGED <<slots, stacks>>
      BY <1>1, <2>1, Zenon DEF PagesInv
    <3> QED
      BY <1>6, <1>7, <2>4, <3>1, SlotsSame, Zenon
  <2>8. PagesAgree'
    <3>1. \A p : InBlock(p)' <=> InBlock(p) \/ p \in Room(op[t])
      BY <2>1, <2>3, Zenon DEF InBlock
    <3>2. \A p : Given(p)' <=> Given(p) \/ p \in Room(op[t])
      BY <2>1, <3>1, Zenon DEF Given
    <3> QED
      BY <1>10, <3>2, Zenon
  <2>9. CountAgrees'
    <3>1. CountAgrees
      BY Zenon DEF PagesInv
    <3> QED
      BY <1>3, <1>5, <1>6, <1>7, <2>1, <2>3, <2>4, <2>5, <3>1, CountLent, ZenonT(60)
  <2>10. Stores'
    BY <1>1, <1>8, <2>1, <2>2, Zenon DEF Stores
  <2> QED
    BY <1>6, <1>9, <2>6, <2>7, <2>8, <2>9, <2>10, ZenonT(60) DEF PagesInv
<1>12. CASE op[t].kind = "stack"
  <2>1. stacks' = stacks \cup {SlotOf(op[t])} /\ UNCHANGED <<blocks, mapped_count>>
    BY <1>1, <1>12, Zenon DEF Finish
  <2>2. ~HoldsBits(op[t]) /\ HoldsSlot(op[t])
    BY <1>1, <1>12, ZenonT(60) DEF HoldsBits, HoldsSlot
  <2>3. Room(op[t]) = StackSpan(SlotOf(op[t])) /\ SlotOf(op[t]) \in Slot
    BY <1>1, <2>2, Ranges, Zenon
  <2>4. SlotOf(op[t]) \in slots
    BY <2>2, <2>3, Zenon DEF PagesInv, SlotsAgree
  <2>5. BitsAgree'
    <3>1. BitsAgree /\ UNCHANGED <<bitmap, blocks>>
      BY <1>1, <2>1, Zenon DEF PagesInv
    <3> QED
      BY <1>6, <1>7, <2>2, <3>1, BitsSame, ZenonT(60)
  <2>6. SlotsAgree'
    <3>1. SlotsAgree /\ UNCHANGED slots
      BY <1>1, Zenon DEF PagesInv
    <3> QED
      BY <1>6, <1>7, <2>1, <2>2, <3>1, SlotsToStack, ZenonT(60)
  <2>7. PagesAgree'
    <3>1. \A p : InBlock(p)' <=> InBlock(p)
      BY <2>1, Zenon DEF InBlock
    <3>2. \A p : Given(p)' <=> Given(p) \/ p \in Room(op[t])
      BY <2>1, <2>3, <3>1, Zenon DEF Given
    <3> QED
      BY <1>10, <3>2, Zenon
  <2>8. CountAgrees'
    <3>1. CountAgrees
      BY Zenon DEF PagesInv
    <3> QED
      BY <1>5, <1>6, <1>7, <2>1, <3>1, CountSame, ZenonT(60)
  <2>9. Stores'
    BY <1>1, <1>8, <2>1, <2>4, Zenon DEF Stores
  <2> QED
    BY <1>6, <1>9, <2>5, <2>6, <2>7, <2>8, <2>9, ZenonT(60) DEF PagesInv
<1>13. op[t].kind \in {"heap", "stack"}
  BY <1>1, Zenon DEF OpType
<1> QED
  BY <1>11, <1>12, <1>13, Zenon

---------------------------------------------------------------------------
(* The steps that take a block or a stack back, and the end of a call *)

\* page_dealloc's first step, which clears bits whose pages are mapped, keeps the invariant.
LEMMA PageDeallocKeeps ==
    ASSUME PageHeapAssumption, PagesInv, NEW t \in Tasks, PageDealloc(t)
    PROVE  PagesInv'
<1>1. PICK b \in blocks :
         /\ bitmap' = bitmap \ Span(b[1], b[2]) /\ blocks' = blocks \ {b}
         /\ Become(t, [Idle EXCEPT !.pc = "drop", !.start = b[1], !.pages = b[2], !.at = b[2]])
  BY Zenon DEF PageDealloc
<1> DEFINE o == [Idle EXCEPT !.pc = "drop", !.start = b[1], !.pages = b[2], !.at = b[2]]
<1>2. /\ Stores /\ Calls /\ op[t].pc = "idle" /\ OpSound(op[t]) /\ Become(t, o)
      /\ UNCHANGED <<cursor, slots, table, free, stacks, mapped_count, panicked>>
  BY <1>1, Zenon DEF PagesInv, PageDealloc, Calls
<1>3. /\ HEAP_PAGES \in Nat /\ b[1] \in Nat /\ b[2] \in Nat /\ b[2] > 0
      /\ b[1] + b[2] <= HEAP_PAGES
  BY <1>2, Zenon DEF Stores, BlockType, PageHeapAssumption
<1>4. /\ o.pc = "drop" /\ o.kind = "heap" /\ o.start = b[1] /\ o.pages = b[2]
      /\ o.at = b[2] /\ o.from = 0 /\ o.hand = None /\ o \in OpType
  BY <1>3, Zenon DEF Idle, OpType
<1> HIDE DEF o
<1>5. OpSound(o)
  BY <1>3, <1>4, SMTT(60) DEF OpSound
<1>6. op'[t] = o /\ Others(t) /\ Calls'
  BY <1>2, <1>5, Turn, Zenon
<1>7. /\ Room(o) = Span(b[1], b[2]) /\ Mine(o) = Span(b[1], b[2])
      /\ Span(b[1], b[2]) \subseteq HeapPage
  BY <1>3, <1>4, SMTT(60) DEF Room, Mine, Span, HeapPage
<1>8. ~HoldsBits(o) /\ ~HoldsSlot(o)
  BY <1>4, Zenon DEF HoldsBits, HoldsSlot
<1>9. /\ ~HoldsBits(op[t]) /\ ~HoldsSlot(op[t]) /\ Mine(op[t]) = {} /\ op[t].hand = None
      /\ op[t].pc # "drop"
  BY <1>2, IdleHoldsNothing, Zenon
<1>10. \A p \in HeapPage : \A c \in blocks :
           p \in Span(b[1], b[2]) /\ p \in Span(c[1], c[2]) => b = c
  BY Zenon DEF PagesInv, BitsAgree
<1>11. Stores'
  BY <1>1, <1>2, Zenon DEF Stores
<1>12. BitsAgree'
  <2>1. BitsAgree
    BY Zenon DEF PagesInv
  <2> QED
    BY <1>1, <1>6, <1>8, <1>9, <2>1, BitsDropped, ZenonT(60)
<1>13. SlotsAgree'
  BY <1>2, <1>6, <1>8, <1>9, SlotsSame, ZenonT(60) DEF PagesInv
<1>14. PagesAgree'
  <2>1. \A p \in Span(b[1], b[2]) : InBlock(p)
    BY Zenon DEF InBlock
  <2>2. \A p : InBlock(p)' <=> InBlock(p) /\ p \notin Span(b[1], b[2])
    BY <1>1, <1>7, <1>10, Zenon DEF InBlock
  <2>3. \A s \in stacks : \A p \in StackSpan(s) : p \notin Span(b[1], b[2])
    BY <1>2, <1>7, StackPlaces, Zenon DEF Stores
  <2>4. /\ \A p \in Span(b[1], b[2]) : Given(p)
        /\ \A p : Given(p)' <=> Given(p) /\ p \notin Span(b[1], b[2])
    BY <1>2, <2>1, <2>2, <2>3, ZenonT(60) DEF Given
  <2>5. PagesAgree /\ UNCHANGED table /\ Mine(op'[t]) = Span(b[1], b[2])
    BY <1>2, <1>6, <1>7, Zenon DEF PagesInv
  <2> QED
    BY <1>6, <1>9, <2>4, <2>5, PagesTaken, ZenonT(60)
<1>15. FramesAgree'
  BY <1>2, <1>4, <1>6, <1>9, FramesSame, ZenonT(60) DEF PagesInv
<1>16. CountAgrees'
  <2>1. CountAgrees /\ op'[t].pc = "drop" /\ Room(op'[t]) = Span(b[1], b[2])
    BY <1>4, <1>6, <1>7, Zenon DEF PagesInv
  <2> QED
    BY <1>1, <1>2, <1>3, <1>6, <1>7, <1>9, <1>10, <2>1, CountDropped, ZenonT(60)
<1> QED
  BY <1>6, <1>11, <1>12, <1>13, <1>14, <1>15, <1>16, ZenonT(60) DEF PagesInv

\* The drop of a stack, which keeps the slot until the pages are unmapped.
LEMMA DropStackKeeps ==
    ASSUME PageHeapAssumption, PagesInv, NEW t \in Tasks, DropStack(t)
    PROVE  PagesInv'
<1>1. PICK s \in stacks :
         /\ stacks' = stacks \ {s}
         /\ Become(t, [Idle EXCEPT !.pc = "unmap", !.kind = "stack", !.start = StackBase(s),
                                   !.pages = STACK_PAGES, !.at = STACK_PAGES])
  BY Zenon DEF DropStack
<1> DEFINE o == [Idle EXCEPT !.pc = "unmap", !.kind = "stack", !.start = StackBase(s),
                             !.pages = STACK_PAGES, !.at = STACK_PAGES]
<1>2. /\ Stores /\ Calls /\ op[t].pc = "idle" /\ OpSound(op[t]) /\ Become(t, o)
      /\ UNCHANGED <<bitmap, cursor, slots, table, free, blocks, mapped_count, panicked>>
  BY <1>1, Zenon DEF PagesInv, DropStack, Calls
<1>3. STACK_PAGES \in Nat \ {0} /\ s \in slots /\ s \in Slot
  BY <1>2, Zenon DEF Stores, PageHeapAssumption
<1>4. /\ StackBase(s) \in Nat /\ StackSpan(s) \cap HeapPage = {}
      /\ \A r \in Slot : r # s => StackSpan(r) \cap StackSpan(s) = {}
      /\ \A r : r.start = StackBase(s) => SlotOf(r) = s
  BY <1>3, StackPlaces, Zenon
<1>5. /\ o.pc = "unmap" /\ o.kind = "stack" /\ o.start = StackBase(s) /\ o.pages = STACK_PAGES
      /\ o.at = STACK_PAGES /\ o.from = 0 /\ o.hand = None /\ o \in OpType
  BY <1>3, <1>4, Zenon DEF Idle, OpType
<1> HIDE DEF o
<1>6. SlotOf(o) = s
  BY <1>4, <1>5, Zenon
<1>7. OpSound(o)
  BY <1>3, <1>5, <1>6, SMTT(60) DEF OpSound
<1>8. op'[t] = o /\ Others(t) /\ Calls'
  BY <1>2, <1>7, Turn, Zenon
<1>9. Mine(o) = StackSpan(s)
  BY <1>3, <1>4, <1>5, SMTT(60) DEF Mine, StackSpan, Span
<1>10. ~HoldsBits(o) /\ HoldsSlot(o)
  BY <1>5, Zenon DEF HoldsBits, HoldsSlot
<1>11. /\ ~HoldsBits(op[t]) /\ ~HoldsSlot(op[t]) /\ Mine(op[t]) = {} /\ op[t].hand = None
       /\ op[t].pc # "drop"
  BY <1>2, IdleHoldsNothing, Zenon
<1>12. Stores'
  BY <1>1, <1>2, Zenon DEF Stores
<1>13. BitsAgree'
  BY <1>2, <1>8, <1>10, <1>11, BitsSame, Zenon DEF PagesInv
<1>14. SlotsAgree'
  <2>1. SlotsAgree /\ stacks \subseteq slots /\ slots \subseteq Slot /\ UNCHANGED slots
        /\ SlotOf(op'[t]) = s
    BY <1>2, <1>6, <1>8, Zenon DEF PagesInv, Stores
  <2> QED
    BY <1>1, <1>8, <1>10, <1>11, <2>1, SlotsFromStack, ZenonT(60)
<1>15. PagesAgree'
  <2>1. \A p : InBlock(p) => p \in HeapPage
    <3>1. \A b \in blocks : b \in BlockType
      BY <1>2, Zenon DEF Stores
    <3>2. \A b \in BlockType : Span(b[1], b[2]) \subseteq HeapPage
      BY DEF BlockType, Span, HeapPage, PageHeapAssumption
    <3> QED
      BY <3>1, <3>2, Zenon DEF InBlock
  <2>2. \A p : InBlock(p)' <=> InBlock(p)
    BY <1>2, Zenon DEF InBlock
  <2>3. \A r \in stacks : r # s => StackSpan(r) \cap StackSpan(s) = {}
    BY <1>2, <1>4, Zenon DEF Stores
  <2>4. \A p \in StackSpan(s) : Given(p)
    BY Zenon DEF Given
  <2>5. \A p : Given(p)' <=> Given(p) /\ p \notin StackSpan(s)
    BY <1>1, <1>4, <2>1, <2>2, <2>3, Zenon DEF Given
  <2>6. PagesAgree /\ UNCHANGED table /\ Mine(op'[t]) = StackSpan(s)
    BY <1>2, <1>8, <1>9, Zenon DEF PagesInv
  <2> QED
    BY <1>8, <1>11, <2>4, <2>5, <2>6, PagesTaken, ZenonT(60)
<1>16. FramesAgree'
  BY <1>2, <1>5, <1>8, <1>11, FramesSame, ZenonT(60) DEF PagesInv
<1>17. CountAgrees'
  <2>1. CountAgrees /\ op'[t].pc # "drop"
    BY <1>5, <1>8, Zenon DEF PagesInv
  <2> QED
    BY <1>2, <1>8, <1>11, <2>1, CountSame, ZenonT(60)
<1> QED
  BY <1>8, <1>12, <1>13, <1>14, <1>15, <1>16, <1>17, ZenonT(60) DEF PagesInv

\* The end of a call that has unmapped all its pages keeps the invariant.
LEMMA GiveBackKeeps ==
    ASSUME PageHeapAssumption, PagesInv, NEW t \in Tasks, GiveBack(t)
    PROVE  PagesInv'
<1> DEFINE o == op[t]
<1>1. /\ Stores /\ Calls /\ OpSound(o) /\ o \in OpType
      /\ o.pc \in {"unmap", "drop"} /\ o.hand = None /\ o.from = o.at /\ Become(t, Idle)
      /\ UNCHANGED <<cursor, table, free, blocks, stacks>>
  BY Zenon DEF PagesInv, GiveBack, Unmapping, Calls, OpSound
<1>2. /\ bitmap' = IF o.kind = "heap" /\ o.pc = "unmap" THEN bitmap \ Room(o) ELSE bitmap
      /\ slots' = IF o.kind = "stack" THEN slots \ {SlotOf(o)} ELSE slots
      /\ panicked' = (panicked \/ (o.kind = "stack" /\ SlotOf(o) \notin slots))
      /\ mapped_count' = IF o.pc = "drop" THEN mapped_count - o.pages ELSE mapped_count
  BY Zenon DEF GiveBack, Room
<1>3. op'[t] = Idle /\ Others(t) /\ Calls'
  BY <1>1, IdleSound, Turn, Zenon
<1>4. /\ ~HoldsBits(op'[t]) /\ ~HoldsSlot(op'[t]) /\ Mine(op'[t]) = {} /\ op'[t].hand = None
      /\ op'[t].pc # "drop"
  BY <1>3, IdleSound, IdleHoldsNothing, Zenon
<1>5. Mine(o) = {} /\ o.start \in Nat /\ o.pages \in Nat
  BY <1>1 DEF Mine, OpType
<1>6. PagesAgree'
  BY <1>1, <1>3, <1>4, <1>5, PagesSame, ZenonT(60) DEF PagesInv
<1>7. FramesAgree'
  BY <1>1, <1>3, <1>4, FramesSame, Zenon DEF PagesInv
<1>8. /\ BitsAgree /\ SlotsAgree /\ CountAgrees /\ panicked = FALSE
      /\ bitmap \subseteq HeapPage /\ slots \subseteq Slot
  BY <1>1, Zenon DEF PagesInv, Stores
<1>9. CASE o.kind = "heap" /\ o.pc = "unmap"
  <2>1. /\ bitmap' = bitmap \ Room(o) /\ slots' = slots /\ panicked' = FALSE
        /\ mapped_count' = mapped_count /\ o.pc # "drop" /\ HoldsBits(o) /\ ~HoldsSlot(o)
    BY <1>2, <1>8, <1>9, Zenon DEF HoldsBits, HoldsSlot
  <2>2. BitsAgree'
    BY <1>1, <1>3, <1>4, <1>8, <2>1, BitsReturned, ZenonT(60)
  <2>3. SlotsAgree'
    BY <1>1, <1>3, <1>4, <1>8, <2>1, SlotsSame, ZenonT(60)
  <2>4. CountAgrees'
    BY <1>1, <1>3, <1>4, <1>8, <2>1, CountSame, Zenon
  <2>5. Stores'
    BY <1>1, <2>1, Zenon DEF Stores
  <2> QED
    BY <1>3, <1>6, <1>7, <2>2, <2>3, <2>4, <2>5, ZenonT(60) DEF PagesInv
<1>10. CASE o.kind = "heap" /\ o.pc = "drop"
  <2>1. /\ bitmap' = bitmap /\ slots' = slots /\ panicked' = FALSE
        /\ mapped_count' = mapped_count - o.pages /\ ~HoldsBits(o) /\ ~HoldsSlot(o)
        /\ o.pc = "drop" /\ o.pc # "idle"
    BY <1>2, <1>8, <1>10, Zenon DEF HoldsBits, HoldsSlot
  <2>2. BitsAgree'
    BY <1>1, <1>3, <1>4, <1>8, <2>1, BitsSame, ZenonT(60)
  <2>3. SlotsAgree'
    BY <1>1, <1>3, <1>4, <1>8, <2>1, SlotsSame, ZenonT(60)
  <2>4. CountAgrees'
    <3>1. Room(o) \subseteq HeapPage
      BY <1>1, <1>10, <2>1, Ranges, ZenonT(60)
    <3> QED
      BY <1>1, <1>3, <1>4, <1>5, <1>8, <2>1, <3>1, CountReturned, ZenonT(60)
  <2>5. Stores'
    BY <1>1, <2>1, ZenonT(60) DEF Stores
  <2> QED
    BY <1>3, <1>6, <1>7, <2>2, <2>3, <2>4, <2>5, ZenonT(60) DEF PagesInv
<1>11. CASE o.kind = "stack"
  <2>1. o.pc # "drop" /\ ~HoldsBits(o) /\ HoldsSlot(o)
    BY <1>1, <1>11, Zenon DEF OpSound, HoldsBits, HoldsSlot
  <2>2. SlotOf(o) \in Slot
    BY <1>1, <2>1, Ranges, Zenon
  <2>3. SlotOf(o) \in slots /\ SlotOf(o) \notin stacks
    BY <1>8, <2>1, <2>2, Zenon DEF SlotsAgree
  <2>4. /\ bitmap' = bitmap /\ slots' = slots \ {SlotOf(o)} /\ panicked' = FALSE
        /\ mapped_count' = mapped_count
    BY <1>2, <1>8, <1>11, <2>1, <2>3, Zenon
  <2>5. BitsAgree'
    BY <1>1, <1>3, <1>4, <1>8, <2>1, <2>4, BitsSame, ZenonT(60)
  <2>6. SlotsAgree'
    BY <1>1, <1>3, <1>4, <1>8, <2>1, <2>4, SlotsReturned, ZenonT(60)
  <2>7. CountAgrees'
    BY <1>1, <1>3, <1>4, <1>8, <2>1, <2>4, CountSame, ZenonT(60)
  <2>8. Stores'
    BY <1>1, <2>3, <2>4, Zenon DEF Stores
  <2> QED
    BY <1>3, <1>6, <1>7, <2>5, <2>6, <2>7, <2>8, ZenonT(60) DEF PagesInv
<1>12. o.kind \in {"heap", "stack"}
  BY <1>1, Zenon DEF OpType
<1> QED
  BY <1>1, <1>9, <1>10, <1>11, <1>12, ZenonT(60)

---------------------------------------------------------------------------
(* The invariant *)

\* It holds before the first allocation.
LEMMA InitPages ==
    ASSUME PageHeapAssumption, Init
    PROVE  PagesInv
<1>1. /\ bitmap = {} /\ cursor = 0 /\ slots = {} /\ table = [p \in WindowPage |-> None]
      /\ free = Frames /\ blocks = {} /\ stacks = {} /\ mapped_count = 0
      /\ op = [t \in Tasks |-> Idle] /\ panicked = FALSE
  BY Zenon DEF Init
<1>2. \A t \in Tasks : op[t] = Idle
  BY <1>1, Zenon
<1>3. OpSound(Idle) /\ Idle.pc = "idle" /\ Idle \in OpType
  BY IdleSound, Zenon DEF OpSound
<1>4. ~HoldsBits(Idle) /\ ~HoldsSlot(Idle) /\ Mine(Idle) = {} /\ Idle.hand = None
      /\ Idle.pc # "drop"
  BY <1>3, IdleHoldsNothing, Zenon
<1>5. Stores
  BY <1>1 DEF Stores, PageHeapAssumption
<1>6. Calls
  BY <1>1, <1>3, Zenon DEF Calls
<1>7. \A p : ~InBlock(p) /\ ~InCall(p)
  BY <1>1, <1>2, <1>4, Zenon DEF InBlock, InCall
<1>8. BitsAgree
  BY <1>1, <1>2, <1>4, <1>7, ZenonT(60) DEF BitsAgree
<1>9. SlotsAgree
  BY <1>1, <1>2, <1>4, Zenon DEF SlotsAgree
<1>10. PagesAgree
  BY <1>1, <1>2, <1>4, <1>7, Zenon DEF PagesAgree, Given
<1>11. FramesAgree
  BY <1>1, <1>2, <1>4, Zenon DEF FramesAgree, MappedOnce, HeldOnce, NotFree, NotBoth, NoneLost,
                          PageHeapAssumption
<1>12. CountAgrees
  <2>1. Lent = {}
    BY <1>7, Zenon DEF Lent
  <2>2. Owing = {}
    BY <1>2, <1>4, Zenon DEF Owing
  <2>3. mapped_count = 0 /\ Cardinality(Lent) = 0 /\ Cardinality(Owing) = 0
    BY <1>1, <2>1, <2>2, FS_EmptySet, Zenon
  <2> QED
    BY <2>3 DEF CountAgrees
<1> QED
  BY <1>5, <1>6, <1>8, <1>9, <1>10, <1>11, <1>12, ZenonT(60) DEF PagesInv

\* Every step keeps it.
LEMMA StepPages ==
    ASSUME PageHeapAssumption, PagesInv, [Next]_vars
    PROVE  PagesInv'
<1>1. CASE UNCHANGED vars
  <2>1. UNCHANGED <<bitmap, cursor, slots, table, free, blocks, stacks, mapped_count, op, panicked>>
    BY <1>1, Zenon DEF vars
  <2>2. Stores' /\ Calls' /\ SlotsAgree'
    BY <2>1, Zenon DEF PagesInv, Stores, Calls, SlotsAgree
  <2>3. BitsAgree' /\ PagesAgree'
    BY <2>1, Zenon DEF PagesInv, BitsAgree, PagesAgree, InBlock, InCall, Given
  <2>4. FramesAgree' /\ CountAgrees'
    BY <2>1, Zenon DEF PagesInv, FramesAgree, MappedOnce, HeldOnce, NotFree, NotBoth, NoneLost,
                       CountAgrees, Lent, Owing, InBlock
  <2> QED
    BY <2>2, <2>3, <2>4, Zenon DEF PagesInv
<1>2. ASSUME NEW t \in Tasks, NEW z \in Sizes, PageAlloc(t, z[1], z[2]) PROVE PagesInv'
  BY <1>2, PageAllocKeeps, Zenon
<1>3. ASSUME NEW t \in Tasks, NewStack(t) PROVE PagesInv'
  BY <1>3, NewStackKeeps, Zenon
<1>4. ASSUME NEW t \in Tasks, TakeFrame(t) PROVE PagesInv'
  BY <1>4, TakeFrameKeeps, Zenon
<1>5. ASSUME NEW t \in Tasks, MapPage(t) PROVE PagesInv'
  BY <1>5, MapNextKeeps, MapLastKeeps, Zenon
<1>6. ASSUME NEW t \in Tasks, MapFails(t) PROVE PagesInv'
  BY <1>6, MapFailsKeeps, Zenon
<1>7. ASSUME NEW t \in Tasks, PageDealloc(t) PROVE PagesInv'
  BY <1>7, PageDeallocKeeps, Zenon
<1>8. ASSUME NEW t \in Tasks, DropStack(t) PROVE PagesInv'
  BY <1>8, DropStackKeeps, Zenon
<1>9. ASSUME NEW t \in Tasks, Unmap(t) PROVE PagesInv'
  BY <1>9, UnmapKeeps, Zenon
<1>10. ASSUME NEW t \in Tasks, FreeFrame(t) PROVE PagesInv'
  BY <1>10, FreeFrameKeeps, Zenon
<1>11. ASSUME NEW t \in Tasks, GiveBack(t) PROVE PagesInv'
  BY <1>11, GiveBackKeeps, Zenon
<1> QED
  BY <1>1, <1>2, <1>3, <1>4, <1>5, <1>6, <1>7, <1>8, <1>9, <1>10, <1>11, ZenonT(60) DEF Next

---------------------------------------------------------------------------
(* What follows from it *)

\* A block lies in the heap, and the heap in the window.
LEMMA BlockPlaces ==
    ASSUME PageHeapAssumption, Stores
    PROVE  /\ \A b \in blocks : Span(b[1], b[2]) \subseteq HeapPage
           /\ HeapPage \subseteq WindowPage
<1>1. \A b \in blocks : b \in BlockType
  BY Zenon DEF Stores
<1>2. \A b \in BlockType : Span(b[1], b[2]) \subseteq HeapPage
  BY DEF BlockType, Span, HeapPage, PageHeapAssumption
<1>3. HeapPage \subseteq WindowPage
  <2>1. HEAP_PAGES \in Nat /\ MAX_STACKS * STACK_PAGES \in Nat
    BY DEF PageHeapAssumption
  <2> QED
    BY <2>1 DEF HeapPage, WindowPage
<1> QED
  BY <1>1, <1>2, <1>3, Zenon

\* Every frame is free, mapped or in hand, in one place.
LEMMA FramesUsedOnce ==
    ASSUME PageHeapAssumption, PagesInv, NEW f \in Frames
    PROVE  Uses(f) = 1
<1> DEFINE P == {p \in WindowPage : table[p] = f}
           T == {t \in Tasks : op[t].hand = f}
<1>1. FramesAgree /\ f # None
  BY Zenon DEF PagesInv, PageHeapAssumption
<1>2. Uses(f) = Cardinality(P) + (IF f \in free THEN 1 ELSE 0) + Cardinality(T)
  BY Zenon DEF Uses
<1>3. CASE f \in free
  <2>1. P = {} /\ T = {}
    BY <1>1, <1>3, Zenon DEF FramesAgree, NotFree
  <2>2. Cardinality(P) = 0 /\ Cardinality(T) = 0
    BY <2>1, FS_EmptySet, Zenon
  <2> HIDE DEF P, T
  <2> QED
    BY <1>2, <1>3, <2>2, SMTT(60)
<1>4. ASSUME NEW q \in WindowPage, table[q] = f PROVE Uses(f) = 1
  <2>1. f \notin free /\ T = {}
    BY <1>1, <1>4, Zenon DEF FramesAgree, NotFree, NotBoth
  <2>2. P = {q}
    BY <1>1, <1>4, Zenon DEF FramesAgree, MappedOnce
  <2>3. Cardinality(P) = 1 /\ Cardinality(T) = 0
    BY <2>1, <2>2, FS_EmptySet, FS_Singleton, Zenon
  <2> HIDE DEF P, T
  <2> QED
    BY <1>2, <2>1, <2>3, SMTT(60)
<1>5. ASSUME NEW u \in Tasks, op[u].hand = f PROVE Uses(f) = 1
  <2>1. f \notin free /\ P = {}
    BY <1>1, <1>5, Zenon DEF FramesAgree, NotFree, NotBoth
  <2>2. T = {u}
    BY <1>1, <1>5, Zenon DEF FramesAgree, HeldOnce
  <2>3. Cardinality(P) = 0 /\ Cardinality(T) = 1
    BY <2>1, <2>2, FS_EmptySet, FS_Singleton, ZenonT(60)
  <2> HIDE DEF P, T
  <2> QED
    BY <1>2, <2>1, <2>3
<1> QED
  BY <1>1, <1>3, <1>4, <1>5, ZenonT(60) DEF FramesAgree, NoneLost

\* When no task is in a call the bitmap, the table and the count agree with the blocks.
LEMMA QuietAgrees ==
    ASSUME PageHeapAssumption, PagesInv, \A t \in Tasks : op[t] = Idle
    PROVE  /\ \A p \in HeapPage : table[p] # None <=> p \in bitmap
           /\ bitmap = UNION {Span(b[1], b[2]) : b \in blocks} /\ slots = stacks
           /\ mapped_count = Cardinality(bitmap)
<1>1. /\ Stores /\ BitsAgree /\ SlotsAgree /\ PagesAgree /\ CountAgrees
      /\ bitmap \subseteq HeapPage /\ slots \subseteq Slot /\ stacks \subseteq slots
  BY Zenon DEF PagesInv, Stores
<1>2. ~HoldsBits(Idle) /\ ~HoldsSlot(Idle) /\ Mine(Idle) = {} /\ Idle.pc # "drop"
  BY IdleSound, IdleHoldsNothing, Zenon
<1>3. \A p : ~InCall(p)
  BY <1>2, Zenon DEF InCall
<1>4. \A p \in HeapPage : p \in bitmap <=> InBlock(p)
  BY <1>1, <1>3, Zenon DEF BitsAgree
<1>5. bitmap = UNION {Span(b[1], b[2]) : b \in blocks}
  <2>1. \A p : p \in UNION {Span(b[1], b[2]) : b \in blocks} <=> InBlock(p)
    BY Zenon DEF InBlock
  <2>2. \A p : InBlock(p) => p \in HeapPage
    BY <1>1, BlockPlaces, Zenon DEF InBlock
  <2> QED
    BY <1>1, <1>4, <2>1, <2>2, Zenon
<1>6. slots = stacks
  <2>1. \A t \in Tasks : ~HoldsSlot(op[t])
    BY <1>2, Zenon
  <2>2. \A s \in Slot : s \in slots <=> s \in stacks
    BY <1>1, <2>1, Zenon DEF SlotsAgree
  <2> QED
    BY <1>1, <2>2, Zenon
<1>7. \A p \in HeapPage : table[p] # None <=> p \in bitmap
  <2>1. \A p \in HeapPage : p \in WindowPage /\ ~\E s \in stacks : p \in StackSpan(s)
    BY <1>1, BlockPlaces, StackPlaces, Zenon
  <2>2. \A p : ~\E t \in Tasks : p \in Mine(op[t])
    BY <1>2, Zenon
  <2> QED
    BY <1>1, <1>4, <2>1, <2>2, Zenon DEF PagesAgree, Given
<1>8. mapped_count = Cardinality(bitmap)
  <2>1. Lent = bitmap
    BY <1>1, <1>4, Zenon DEF Lent
  <2>2. Owing = {}
    BY <1>2, Zenon DEF Owing
  <2>3. Cardinality(Owing) = 0
    BY <2>2, FS_EmptySet, Zenon
  <2>4. mapped_count = Cardinality(Lent) + Cardinality(Owing) /\ Cardinality(Lent) \in Nat
    BY <1>1, CountsFinite, Zenon DEF CountAgrees
  <2>5. mapped_count = Cardinality(Lent)
    BY <2>3, <2>4, SMTT(60)
  <2> QED
    BY <2>1, <2>5, Zenon
<1> QED
  BY <1>5, <1>6, <1>7, <1>8, Zenon

\* The invariant is stronger than what page_alloc, page_dealloc and the stacks promise.
LEMMA PagesFollow ==
    ASSUME PageHeapAssumption, PagesInv
    PROVE  PagesExclusive /\ StacksNeverPanic
<1>1. Stores /\ Calls /\ BitsAgree /\ SlotsAgree /\ PagesAgree /\ CountAgrees
  BY Zenon DEF PagesInv
<1>2. TypeOK
  <2>1. mapped_count \in Nat
    <3>1. Cardinality(Lent) \in Nat /\ Cardinality(Owing) \in Nat
      BY CountsFinite, Zenon
    <3> QED
      BY <1>1, <3>1, SMTT(60) DEF CountAgrees
  <2>2. \A t \in Tasks : op[t].hand \in Frames \cup {None}
    BY <1>1, Zenon DEF Calls, OpSound, OpType
  <2>3. panicked \in BOOLEAN
    BY <1>1, Zenon DEF Stores
  <2> QED
    BY <1>1, <2>1, <2>2, <2>3, Zenon DEF TypeOK, Stores
<1>3. \A f \in Frames : Uses(f) = 1
  BY FramesUsedOnce, Zenon
<1>4. \A b \in blocks : \A p \in Span(b[1], b[2]) : p \in HeapPage /\ p \in WindowPage /\ InBlock(p)
  BY <1>1, BlockPlaces, Zenon DEF InBlock
<1>5. \A b \in blocks : \A p \in Span(b[1], b[2]) : p \in bitmap /\ table[p] # None
  BY <1>1, <1>4, Zenon DEF BitsAgree, PagesAgree, Given
<1>6. stacks \subseteq Slot /\ stacks \subseteq slots
  BY <1>1, Zenon DEF Stores
<1>7. \A s \in stacks : \A p \in StackSpan(s) : table[p] # None
  BY <1>1, <1>6, StackPlaces, Zenon DEF PagesAgree, Given
<1>8. \A b, c \in blocks : b # c => Span(b[1], b[2]) \cap Span(c[1], c[2]) = {}
  <2> SUFFICES ASSUME NEW b \in blocks, NEW c \in blocks, b # c,
                      NEW p \in Span(b[1], b[2]), p \in Span(c[1], c[2])
               PROVE  FALSE
    BY Zenon
  <2>1. p \in HeapPage
    BY <1>4, Zenon
  <2> QED
    BY <1>1, <2>1, Zenon DEF BitsAgree
<1>9. PagesExclusive
  BY <1>2, <1>3, <1>5, <1>7, <1>8, QuietAgrees, Zenon DEF PagesExclusive
<1>10. ~panicked
  BY <1>1, Zenon DEF Stores
<1>11. ASSUME NEW s \in Slot \ slots, NEW p \in StackSpan(s) PROVE table[p] = None
  <2>1. /\ p \in WindowPage /\ p \notin HeapPage
        /\ \A r \in Slot : r # s => p \notin StackSpan(r)
    BY <1>11, StackPlaces, Zenon
  <2>2. ~Given(p)
    BY <1>4, <1>6, <2>1, Zenon DEF Given, InBlock
  <2>3. ASSUME NEW t \in Tasks, p \in Mine(op[t]) PROVE FALSE
    <3>1. OpSound(op[t]) /\ op[t].kind \in {"heap", "stack"}
      BY <1>1, Zenon DEF Calls, OpSound, OpType
    <3>2. op[t].pc # "idle" /\ p \in Room(op[t])
      BY <2>3, <3>1, Ranges, Zenon
    <3>3. op[t].kind = "stack"
      BY <2>1, <3>1, <3>2, Ranges, Zenon
    <3>4. HoldsSlot(op[t])
      BY <3>2, <3>3, Zenon DEF HoldsSlot
    <3>5. SlotOf(op[t]) \in Slot /\ p \in StackSpan(SlotOf(op[t]))
      BY <3>1, <3>2, <3>4, Ranges, Zenon
    <3>6. SlotOf(op[t]) = s
      BY <2>1, <3>5, Zenon
    <3> QED
      BY <1>1, <3>4, <3>6, Zenon DEF SlotsAgree
  <2> QED
    BY <1>1, <2>1, <2>2, <2>3, Zenon DEF PagesAgree
<1>12. StacksNeverPanic
  BY <1>10, <1>11, Zenon DEF StacksNeverPanic
<1> QED
  BY <1>9, <1>12, Zenon

---------------------------------------------------------------------------
(* The theorem *)

\* However the calls of any number of tasks overlap, and whatever runs out in
\* the middle of one, no frame and no page of the kernel's window is in two
\* hands or lost, and neither unmap_pages nor release_slot panics.
THEOREM WindowIsSound ==
    ASSUME PageHeapAssumption
    PROVE  Spec => [](PagesExclusive /\ StacksNeverPanic)
<1>1. Init => PagesInv
  BY InitPages, Zenon
<1>2. PagesInv /\ [Next]_vars => PagesInv'
  BY StepPages, Zenon
<1>3. PagesInv => PagesExclusive /\ StacksNeverPanic
  BY PagesFollow, Zenon
<1> QED
  BY <1>1, <1>2, <1>3, PTL DEF Spec
=============================================================================
