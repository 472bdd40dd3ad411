------------------------------ MODULE CowMemory ------------------------------
(***************************************************************************)
(* User address spaces with copy-on-write fork: AddressSpace of            *)
(* kernel/src/mm/paging.rs, the frame reference counts of mm/frame.rs, the *)
(* write-fault path of arch/x86_64/idt.rs, and the TLB they must keep in   *)
(* step.  Each method runs with interrupts off under the registry lock     *)
(* (with_owned_mut), so each is one step.                                  *)
(*                                                                         *)
(* A leaf entry is a frame and a right: "Write" is WRITABLE, "Cow" is read *)
(* only with COPY_ON_WRITE, "Read" is neither (PROT_NONE included: it      *)
(* differs only in the user bit).  The owned list of a space is the set of *)
(* its pages mapped to frames, the devices list its pages mapped to        *)
(* Device.  Frames of the page tables themselves are not counted; running  *)
(* out of them, or of kernel heap, is a failure fork may meet at any page. *)
(***************************************************************************)
EXTENDS Integers, FiniteSets

CONSTANTS Space, Page, Frame, Value, Zero,
          Device,       \* some frame of device memory: borrowed, never counted
          NoFrame,      \* a leaf that is not present
          NoSpace,      \* the kernel's own root is loaded
          MaxRef        \* u16::MAX, the highest reference count

ASSUME CowAssumption ==
    /\ IsFiniteSet(Space) /\ IsFiniteSet(Page)
    /\ Zero \in Value
    /\ Device \notin Frame /\ NoFrame \notin Frame /\ Device # NoFrame
    /\ NoSpace \notin Space
    /\ MaxRef \in Nat \ {0}

VARIABLES
    live,       \* spaces that exist
    maps,       \* maps[s][v]: the frame the leaf points to
    right,      \* right[s][v]: "None", "Read", "Cow" or "Write"
    refcount,   \* 0 for a frame the allocator holds
    memory,     \* contents of the frames
    active,     \* the space in CR3
    tlb_frame, tlb_right,   \* cached translations of the active space
    leaked      \* references taken and never given back (ghost)

vars == <<live, maps, right, refcount, memory, active, tlb_frame, tlb_right, leaked>>

EmptyMaps == [v \in Page |-> NoFrame]
EmptyRights == [v \in Page |-> "None"]

Init ==
    /\ live = {} /\ maps = [s \in Space |-> EmptyMaps] /\ right = [s \in Space |-> EmptyRights]
    /\ refcount = [f \in Frame |-> 0] /\ memory = [f \in Frame |-> Zero]
    /\ active = NoSpace /\ tlb_frame = EmptyMaps /\ tlb_right = EmptyRights
    /\ leaked = [f \in Frame |-> 0]

---------------------------------------------------------------------------
(* The TLB *)

\* Seeded fault: translations are left to age out.
FlushIfActive_Never(s, v) == UNCHANGED <<tlb_frame, tlb_right>>

\* flush_if_active: invlpg for one page.
FlushIfActive(s, v) ==
    IF s = active
    THEN /\ tlb_frame' = [tlb_frame EXCEPT ![v] = NoFrame]
         /\ tlb_right' = [tlb_right EXCEPT ![v] = "None"]
    ELSE UNCHANGED <<tlb_frame, tlb_right>>

FlushAll == tlb_frame' = EmptyMaps /\ tlb_right' = EmptyRights

\* The CPU walks the tables and caches a present leaf whenever it likes.
Fill(v) ==
    /\ active # NoSpace /\ maps[active][v] # NoFrame
    /\ tlb_frame' = [tlb_frame EXCEPT ![v] = maps[active][v]]
    /\ tlb_right' = [tlb_right EXCEPT ![v] = IF right[active][v] = "Write" THEN "Write" ELSE "Read"]
    /\ UNCHANGED <<live, maps, right, refcount, memory, active, leaked>>

\* A user store through a cached writable translation.
Write(v, x) ==
    /\ active # NoSpace /\ tlb_right[v] = "Write" /\ tlb_frame[v] \in Frame
    /\ memory' = [memory EXCEPT ![tlb_frame[v]] = x]
    /\ UNCHANGED <<live, maps, right, refcount, active, tlb_frame, tlb_right, leaked>>

\* activate_root: loading CR3 drops every user translation.
Activate(s) ==
    /\ s \in live \cup {NoSpace} /\ s # active
    /\ active' = s /\ FlushAll
    /\ UNCHANGED <<live, maps, right, refcount, memory, leaked>>

---------------------------------------------------------------------------
(* Spaces and pages *)

OwnedPages(s) == {v \in Page : maps[s][v] \in Frame}
DevicePages(s) == {v \in Page : maps[s][v] = Device}

\* Pages of space s, among those of D, mapped to f.
At(s, D, f) == {v \in D : maps[s][v] = f}

\* AddressSpace::new, then register.
Create(s) ==
    /\ s \notin live /\ live' = live \cup {s}
    /\ UNCHANGED <<maps, right, refcount, memory, active, tlb_frame, tlb_right, leaked>>

\* map_owned of a frame just allocated and filled by the caller: with zeros (brk, mmap) or
\* from the program file (exec).  A failed map gives the frame straight back.
MapOwned(s, v, f, x, r) ==
    /\ s \in live /\ maps[s][v] = NoFrame
    /\ f \in Frame /\ refcount[f] = 0 /\ r \in {"Read", "Write"}
    /\ maps' = [maps EXCEPT ![s][v] = f]
    /\ right' = [right EXCEPT ![s][v] = r]
    /\ refcount' = [refcount EXCEPT ![f] = 1]
    /\ memory' = [memory EXCEPT ![f] = x]
    /\ FlushIfActive(s, v)
    /\ UNCHANGED <<live, active, leaked>>

MapDevice(s, v, r) ==
    /\ s \in live /\ maps[s][v] = NoFrame /\ r \in {"Read", "Write"}
    /\ maps' = [maps EXCEPT ![s][v] = Device]
    /\ right' = [right EXCEPT ![s][v] = r]
    /\ FlushIfActive(s, v)
    /\ UNCHANGED <<live, refcount, memory, active, leaked>>

\* Seeded fault: the reference is not given back.
Freed_Never(f) == refcount

\* free_frame of one reference.
Freed(f) == [refcount EXCEPT ![f] = @ - 1]

\* unmap_mapping and, for an owned page, the free_frame in unmap_span.
Unmap(s, v) ==
    /\ s \in live /\ maps[s][v] # NoFrame
    /\ maps' = [maps EXCEPT ![s][v] = NoFrame]
    /\ right' = [right EXCEPT ![s][v] = "None"]
    /\ refcount' = IF maps[s][v] \in Frame THEN Freed(maps[s][v]) ELSE refcount
    /\ FlushIfActive(s, v)
    /\ UNCHANGED <<live, memory, active, leaked>>

\* Seeded fault: mprotect does not ask whether the frame is shared.
SharedFrame_NotAsked(f) == FALSE

\* frame_refcount(frame).unwrap_or(1) > 1: a device frame has no count.
SharedFrame(f) == f \in Frame /\ refcount[f] > 1

\* protect, through set_leaf_flags: r is what mprotect asks for.
Protect(s, v, r) ==
    /\ s \in live /\ maps[s][v] # NoFrame /\ r \in {"Read", "Write"}
    /\ right' = [right EXCEPT ![s][v] = IF r = "Write" /\ SharedFrame(maps[s][v])
                                          THEN "Cow" ELSE r]
    /\ FlushIfActive(s, v)
    /\ UNCHANGED <<live, maps, refcount, memory, active, leaked>>

\* Drop for AddressSpace, once release has taken it out of the registry; "dropping the active
\* address space" is asserted not to happen (ProcessLifecycle checks the caller's side).
Destroy(s) ==
    /\ s \in live /\ s # active
    /\ live' = live \ {s}
    /\ maps' = [maps EXCEPT ![s] = EmptyMaps]
    /\ right' = [right EXCEPT ![s] = EmptyRights]
    /\ refcount' = [f \in Frame |-> refcount[f] - Cardinality(At(s, Page, f))]
    /\ UNCHANGED <<memory, active, tlb_frame, tlb_right, leaked>>

---------------------------------------------------------------------------
(* fork_cow, called by the active space *)

\* The rights of space s once the pages of D are shared.
Shared(s, D) == [v \in Page |-> IF v \in D /\ right[s][v] = "Write" THEN "Cow" ELSE right[s][v]]

\* The counts once every page of D has one more reference.
Gotten(s, D) == [f \in Frame |-> refcount[f] + Cardinality(At(s, D, f))]

\* frame_get's bound.
CanGet(s, D) == \A v \in D : refcount[maps[s][v]] < MaxRef

\* Seeded fault: the child gets the owned pages only.
Fork_NoDevices(c) ==
    LET s == active
    IN  /\ s # NoSpace /\ c \notin live /\ CanGet(s, OwnedPages(s))
        /\ live' = live \cup {c}
        /\ maps' = [maps EXCEPT ![c] = [v \in Page |-> IF v \in OwnedPages(s) THEN maps[s][v]
                                                                            ELSE NoFrame]]
        /\ right' = [right EXCEPT ![s] = Shared(s, OwnedPages(s)),
                                  ![c] = [v \in Page |-> IF v \in OwnedPages(s)
                                                         THEN Shared(s, {v})[v] ELSE "None"]]
        /\ refcount' = Gotten(s, OwnedPages(s))
        /\ FlushAll
        /\ UNCHANGED <<memory, active, leaked>>

\* Success: both sides map every frame, writable pages read-only + COW; device pages as they
\* are.  The parent's translations are flushed.
Fork(c) ==
    LET s == active
    IN  /\ s # NoSpace /\ c \notin live /\ CanGet(s, OwnedPages(s))
        /\ live' = live \cup {c}
        /\ maps' = [maps EXCEPT ![c] = maps[s]]
        /\ right' = [right EXCEPT ![s] = Shared(s, OwnedPages(s)),
                                  ![c] = Shared(s, OwnedPages(s))]
        /\ refcount' = Gotten(s, OwnedPages(s))
        /\ FlushAll
        /\ UNCHANGED <<memory, active, leaked>>

\* No table frame for some page of the child: the pages of D, that one included, are already
\* read-only + COW here; the child is dropped with its references.  Nothing is flushed.
ForkMapFails(D) ==
    /\ active # NoSpace /\ D \subseteq OwnedPages(active) /\ CanGet(active, D)
    /\ right' = [right EXCEPT ![active] = Shared(active, D)]
    /\ UNCHANGED <<live, maps, refcount, memory, active, tlb_frame, tlb_right, leaked>>

\* frame_get refuses page v's frame, at its highest count: the child is dropped before it is
\* told of the pages of D, whose references are lost.
ForkGetFails(D, v) ==
    LET s == active
    IN  /\ s # NoSpace /\ D \subseteq OwnedPages(s) /\ v \in OwnedPages(s) \ D
        /\ CanGet(s, D) /\ refcount[maps[s][v]] = MaxRef
        /\ right' = [right EXCEPT ![s] = Shared(s, D \cup {v})]
        /\ refcount' = Gotten(s, D)
        /\ leaked' = [f \in Frame |-> leaked[f] + Cardinality(At(s, D, f))]
        /\ UNCHANGED <<live, maps, memory, active, tlb_frame, tlb_right>>

\* No heap for the list of the child's device pages: the same, for every owned page.
ForkReserveFails ==
    LET s == active
        D == OwnedPages(s)
    IN  /\ s # NoSpace /\ DevicePages(s) # {} /\ CanGet(s, D)
        /\ right' = [right EXCEPT ![s] = Shared(s, D)]
        /\ refcount' = Gotten(s, D)
        /\ leaked' = [f \in Frame |-> leaked[f] + Cardinality(At(s, D, f))]
        /\ UNCHANGED <<live, maps, memory, active, tlb_frame, tlb_right>>

---------------------------------------------------------------------------
(* A write fault, which the CPU raises unless it has a writable translation cached:        *)
(* resolve_cow on the active space                                                         *)

\* The last user of the frame just gets its right back ...
ResolveInPlace(v) ==
    /\ active # NoSpace /\ right[active][v] = "Cow" /\ tlb_right[v] # "Write"
    /\ refcount[maps[active][v]] <= 1
    /\ right' = [right EXCEPT ![active][v] = "Write"]
    /\ FlushIfActive(active, v)
    /\ UNCHANGED <<live, maps, refcount, memory, active, leaked>>

\* ... any other gets a copy in frame f.  With no frame left the process is killed instead.
ResolveCopy(v, f) ==
    LET old == maps[active][v]
    IN  /\ active # NoSpace /\ right[active][v] = "Cow" /\ tlb_right[v] # "Write"
        /\ refcount[old] > 1
        /\ refcount[f] = 0
        /\ maps' = [maps EXCEPT ![active][v] = f]
        /\ right' = [right EXCEPT ![active][v] = "Write"]
        /\ refcount' = [Freed(old) EXCEPT ![f] = 1]
        /\ memory' = [memory EXCEPT ![f] = memory[old]]
        /\ FlushIfActive(active, v)
        /\ UNCHANGED <<live, active, leaked>>

ForkFails ==
    \/ \E D \in SUBSET Page : ForkMapFails(D) \/ \E v \in Page : ForkGetFails(D, v)
    \/ ForkReserveFails

Next ==
    \/ \E s \in Space : Create(s) \/ Destroy(s) \/ Fork(s)
    \/ \E s \in Space \cup {NoSpace} : Activate(s)
    \/ \E s \in Space, v \in Page :
         \/ Unmap(s, v)
         \/ \E r \in {"Read", "Write"} :
              \/ MapDevice(s, v, r) \/ Protect(s, v, r)
              \/ \E f \in Frame, x \in Value : MapOwned(s, v, f, x, r)
    \/ \E v \in Page :
         \/ Fill(v) \/ ResolveInPlace(v)
         \/ \E f \in Frame : ResolveCopy(v, f)
         \/ \E x \in Value : Write(v, x)
    \/ ForkFails

Spec == Init /\ [][Next]_vars

---------------------------------------------------------------------------
(* Properties *)

Right == {"None", "Read", "Cow", "Write"}
Leaf == Frame \cup {Device, NoFrame}

\* Every variable keeps its type; a leaf has a right exactly when it is present, only counted
\* frames are COW, a space that does not exist maps nothing, and only a live space is active.
TypeOK ==
    /\ live \subseteq Space
    /\ maps \in [Space -> [Page -> Leaf]]
    /\ right \in [Space -> [Page -> Right]]
    /\ \A s \in Space, v \in Page :
         /\ maps[s][v] = NoFrame <=> right[s][v] = "None"
         /\ right[s][v] = "Cow" => maps[s][v] \in Frame
         /\ s \notin live => maps[s][v] = NoFrame
    /\ refcount \in [Frame -> 0..MaxRef]
    /\ memory \in [Frame -> Value]
    /\ active \in live \cup {NoSpace}
    /\ tlb_frame \in [Page -> Leaf]
    /\ tlb_right \in [Page -> {"None", "Read", "Write"}]
    /\ leaked \in [Frame -> Nat]

Mappers(f) == {m \in Space \X Page : maps[m[1]][m[2]] = f}

\* A frame's reference count is the number of pages that map it, plus the references that
\* failed forks lost.  So free_frame never meets a count of 0 ("frame holds no reference"),
\* and never gives a frame back that some page still maps.
CountsExact == \A f \in Frame : refcount[f] = Cardinality(Mappers(f)) + leaked[f]

\* The only page, in any space, that maps f is v of s.
OnlyMapper(s, v, f) == \A t \in Space, w \in Page : maps[t][w] = f => t = s /\ w = v

\* A frame that a space can write, through its tables or through a cached translation, is
\* mapped nowhere else: not by a forked child, not by the other space of an earlier fork, and
\* not after a fork that failed half way without a flush.
Isolated ==
    /\ \A s \in Space, v \in Page :
         right[s][v] = "Write" /\ maps[s][v] \in Frame => OnlyMapper(s, v, maps[s][v])
    /\ \A v \in Page :
         tlb_right[v] = "Write" /\ tlb_frame[v] \in Frame => OnlyMapper(active, v, tlb_frame[v])

\* The TLB may lag behind the tables only in one way: a page made COW by a failed fork may
\* still be cached writable.  In particular a fault on a page the tables say is writable does
\* not happen, so resolve_cow's NotCow really is a bad access.
TlbCoherent ==
    \A v \in Page :
        /\ active = NoSpace => tlb_frame[v] = NoFrame
        /\ tlb_frame[v] = NoFrame <=> tlb_right[v] = "None"
        /\ active # NoSpace /\ tlb_frame[v] # NoFrame =>
             /\ tlb_frame[v] = maps[active][v]
             /\ tlb_right[v] = "Write" => right[active][v] \in {"Write", "Cow"}
             /\ tlb_right[v] = "Read" => right[active][v] # "Write"

\* A frame nobody maps goes back to the allocator; the comment in fork_cow says of the child
\* of a failed fork: "`child` drops with what it has so far, releasing them."
NoLostFrames == \A f \in Frame : refcount[f] > 0 => Mappers(f) # {}

\* What a page reads as, given its leaf and the contents m of the frames.
Content(f, m) == IF f = NoFrame THEN "Unmapped" ELSE IF f = Device THEN "DeviceMemory" ELSE m[f]

\* What user code sees: each space as a private memory.
View == [s \in Space |-> [v \in Page |-> Content(maps[s][v], memory)]]

Private == INSTANCE PrivateMemory
           WITH view <- View, Unmapped <- "Unmapped", DeviceMemory <- "DeviceMemory"

\* Copy-on-write is invisible: the spaces behave as private memories that fork copies.
PrivateSpec == Private!Spec
=============================================================================
