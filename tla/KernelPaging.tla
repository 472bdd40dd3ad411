---------------------------- MODULE KernelPaging ----------------------------
(***************************************************************************)
(* The page tables of kernel/src/mm/paging.rs: how boot builds the         *)
(* identity map and the direct map with the largest leaves that fit, how   *)
(* single pages are then mapped, remapped and unmapped (a large leaf in    *)
(* the way is split), and how a process root gets and loses its private    *)
(* tables.                                                                 *)
(*                                                                         *)
(* A PML4 slot is named by what it holds: "id" the boot identity map, "dm" *)
(* the direct map, "vm" the kernel window, "im" the kernel image, "user"   *)
(* the lower half of a process root.  An entry is absent, a leaf or a      *)
(* table of entries; three levels lie below a slot.  Addresses count       *)
(* pages; a large leaf covers MIB pages ("2 MiB") or GIB pages ("1 GiB").  *)
(* Everything runs under KERNEL_MAP_LOCK: one step per page or range.      *)
(***************************************************************************)
EXTENDS Integers, FiniteSets, Sequences

Seqs == INSTANCE SequencesExt

CONSTANTS MIB, GIB, PAGES,  \* PAGES: pages below one slot
          Machines,         \* what the firmware reports, see Commands
          TableFrames,      \* frames for page tables
          RemapFlags,       \* attributes devices and the framebuffer ask for
          KernelPages, UserPages,  \* pages the running system uses
          MaxRemaps         \* bound: runtime operations on the kernel's tables

VARIABLES
    machine,   \* the machine this boot runs on
    root,      \* the kernel's PML4
    user,      \* the slot "user" of a process root
    shared,    \* kernel slots a process root copied, or NoRoot
    pool,      \* free frames
    pc,        \* commands of init_with_mode done
    frozen, active, dropped,
    tlb,       \* a cached translation: [slot, first, size, leaf], or none; any
               \* other may have been evicted
    stray,     \* frames written as if they were tables (ghost)
    want,      \* want[slot][p]: what page p should translate to (ghost)
    remaps

vars == <<machine, root, user, shared, pool, pc, frozen, active, dropped, tlb, stray, want, remaps>>

Slots == {"id", "dm", "vm", "im"}
KernelHalf == Slots \ {"id"}
Page == 0 .. PAGES - 1
NoRoot == {"no process"}
Absent == [k |-> "absent"]
Leaf(phys, flags) == [k |-> "leaf", phys |-> phys, flags |-> flags]
Table(sub) == [k |-> "table", sub |-> sub]

Gib(p) == p \div GIB
Mib(p) == (p \div MIB) % (GIB \div MIB)
Pte(p) == p % MIB
PdptIndex == 0 .. (PAGES \div GIB) - 1
PdIndex == 0 .. (GIB \div MIB) - 1
PtIndex == 0 .. MIB - 1

---------------------------------------------------------------------------
(* Walking the tables *)

\* walk_entries: the leaf that translates page p, or Absent, and its size.
Walk(slot, p) ==
    IF slot.k = "absent" THEN [leaf |-> Absent, size |-> 1]
    ELSE LET e1 == slot.sub[Gib(p)]
         IN IF e1.k # "table" THEN [leaf |-> e1, size |-> GIB]
            ELSE LET e2 == e1.sub[Mib(p)]
                 IN IF e2.k # "table" THEN [leaf |-> e2, size |-> MIB]
                    ELSE [leaf |-> e2.sub[Pte(p)], size |-> 1]

\* The translation of one page, whatever size its leaf has.
Translate(slot, p) ==
    LET w == Walk(slot, p)
    IN IF w.leaf.k # "leaf" THEN Absent
       ELSE Leaf(w.leaf.phys + (p % w.size), w.leaf.flags)

\* An entry as a table: a missing table is created empty (child), a large leaf
\* is split into leaves that inherit its attributes.
AsTable(e, index, size) ==
    CASE e.k = "table" -> e
      [] e.k = "absent" -> Table([i \in index |-> Absent])
      [] OTHER -> Table([i \in index |-> Leaf(e.phys + i * size, e.flags)])
NewTable(e) == IF e.k = "table" THEN 0 ELSE 1

---------------------------------------------------------------------------
(* Mapping: results are [slot, left, ok, flush, stray]; flush is the set of *)
(* pages whose cached translations go.                                     *)

Result(slot, left, ok, flush) ==
    [slot |-> slot, left |-> left, ok |-> ok, flush |-> flush, stray |-> {}]

\* Seeded fault: nothing is flushed when a leaf was split.
MapPageLocked_SplitNoFlush(slot, left, p, phys, flags, reject) ==
    LET n0 == NewTable(slot)
        t0 == AsTable(slot, PdptIndex, GIB)
        n1 == NewTable(t0.sub[Gib(p)])
        t1 == AsTable(t0.sub[Gib(p)], PdIndex, MIB)
        n2 == NewTable(t1.sub[Mib(p)])
        t2 == AsTable(t1.sub[Mib(p)], PtIndex, 1)
        new == Table([t0.sub EXCEPT ![Gib(p)] = Table([t1.sub EXCEPT
                  ![Mib(p)] = Table([t2.sub EXCEPT ![Pte(p)] = Leaf(phys, flags)])])])
    IN IF n0 + n1 + n2 > left \/ (reject /\ t2.sub[Pte(p)] \notin {Absent, Leaf(phys, flags)})
       THEN Result(slot, left, FALSE, {})
       ELSE Result(new, left - n0 - n1 - n2, TRUE, IF n1 + n2 = 0 THEN {p} ELSE {})

\* map_page_locked.  Frames may run out at each level; the tables made so far
\* stay.  A split is followed by a full flush, also when the page is refused,
\* but not when the next table could not be had.
MapPageLocked(slot, left, p, phys, flags, reject) ==
    LET n0 == NewTable(slot)
        t0 == AsTable(slot, PdptIndex, GIB)
        e1 == t0.sub[Gib(p)]
        n1 == n0 + NewTable(e1)
        t1 == AsTable(e1, PdIndex, MIB)
        e2 == t1.sub[Mib(p)]
        n2 == n1 + NewTable(e2)
        t2 == AsTable(e2, PtIndex, 1)
        old == t2.sub[Pte(p)]
        new == Leaf(phys, flags)
        split == e1.k = "leaf" \/ e2.k = "leaf"
        with1(t) == Table([t0.sub EXCEPT ![Gib(p)] = t])
        with2(t) == with1(Table([t1.sub EXCEPT ![Mib(p)] = t]))
    IN CASE n0 > left -> Result(slot, left, FALSE, {})
         [] n0 <= left /\ n1 > left -> Result(t0, left - n0, FALSE, {})
         [] n1 <= left /\ n2 > left -> Result(with1(t1), left - n1, FALSE, {})
         [] n2 <= left /\ reject /\ old.k = "leaf" /\ old # new ->
              Result(with2(t2), left - n2, FALSE, IF split THEN Page ELSE {})
         [] OTHER ->
              Result(with2(Table([t2.sub EXCEPT ![Pte(p)] = new])), left - n2, TRUE,
                     IF split THEN Page ELSE IF old.k = "leaf" /\ old # new THEN {p} ELSE {})

Sum(r, q) == [q EXCEPT !.flush = q.flush \cup r.flush, !.stray = q.stray \cup r.stray]

\* map_pages_at: page by page, over whatever the range held.
MapPages(slot, left, p, end, offset, flags) ==
    LET step(r, q) == IF ~r.ok THEN r
                      ELSE Sum(r, MapPageLocked(r.slot, r.left, q, q + offset, flags, FALSE))
    IN Seqs!FoldLeft(step, Result(slot, left, TRUE, {}), [i \in 1 .. end - p |-> p + i - 1])

\* map_leaf for a large leaf.  A table in its place is filled page by page.
\* For a 2 MiB leaf inside a 1 GiB leaf the code takes the memory that leaf
\* maps for a table: its first frame is written, the tables stay as they were.
MapLarge(slot, left, p, size, flags) ==
    LET n0 == NewTable(slot)
        t0 == AsTable(slot, PdptIndex, GIB)
        e1 == t0.sub[Gib(p)]
        n1 == n0 + NewTable(e1)
        t1 == AsTable(e1, PdIndex, MIB)
        slotEntry == IF size = GIB THEN e1 ELSE t1.sub[Mib(p)]
        put == IF size = GIB THEN Leaf(p, flags)
               ELSE Table([t1.sub EXCEPT ![Mib(p)] = Leaf(p, flags)])
    IN CASE n0 > left -> Result(slot, left, FALSE, {})
         [] n0 <= left /\ size = MIB /\ e1.k = "leaf" ->
              [Result(t0, left - n0, TRUE, {}) EXCEPT !.stray = {e1.phys}]
         [] n0 <= left /\ size = MIB /\ e1.k # "leaf" /\ n1 > left ->
              Result(t0, left - n0, FALSE, {})
         [] OTHER ->
              IF slotEntry.k = "table" THEN MapPages(t0, left - n0, p, p + size, 0, flags)
              ELSE Result(Table([t0.sub EXCEPT ![Gib(p)] = put]),
                          left - (IF size = GIB THEN n0 ELSE n1), TRUE, {})

---------------------------------------------------------------------------
(* The policy: mapping_model.rs and map_range *)

\* leaf_page: the largest page that is aligned and fits.
LeafPage(p, remaining, kind, gigabyte_pages) ==
    CASE kind # "Mmio" /\ gigabyte_pages /\ p % GIB = 0 /\ remaining >= GIB -> GIB
      [] kind # "Mmio" /\ p % MIB = 0 /\ remaining >= MIB
            /\ ~(gigabyte_pages /\ p % GIB = 0 /\ remaining >= GIB) -> MIB
      [] OTHER -> 1

\* walk_range / plan_range: the chunks of a range, as <<start, size>>.
RECURSIVE PlanRange(_, _, _, _)
PlanRange(p, end, kind, gigabyte_pages) ==
    IF p >= end THEN <<>>
    ELSE LET size == LeafPage(p, end - p, kind, gigabyte_pages)
         IN << <<p, size>> >> \o PlanRange(p + size, end, kind, gigabyte_pages)

\* map_range's choice of attributes.
FlagsOf(kind) == IF kind = "Mmio" THEN "UC" ELSE IF kind = "Reserved" THEN "X" ELSE "W"

\* map_range: one leaf after the other, up to the first error.
MapLeaf(slot, left, p, size, flags) ==
    IF size = 1 THEN MapPageLocked(slot, left, p, p, flags, FALSE)
    ELSE MapLarge(slot, left, p, size, flags)
MapRange(slot, left, p, end, kind, gigabyte_pages) ==
    LET step(r, chunk) == IF ~r.ok THEN r
                          ELSE Sum(r, MapLeaf(r.slot, r.left, chunk[1], chunk[2], FlagsOf(kind)))
    IN Seqs!FoldLeft(step, Result(slot, left, TRUE, {}), PlanRange(p, end, kind, gigabyte_pages))

\* maps_in_direct_map.
Mapped(kind) == kind \in {"Usable", "AcpiReclaimable", "AcpiNvs", "Runtime", "Mmio"}

\* init_with_mode: the regions, the image as a writable fallback, its
\* sections, the heap inside it; each in the identity and the direct map.
\* Last the alias of the image and its sections in the high window.
Range(start, end, kind) == [how |-> "range", start |-> start, end |-> end, kind |-> kind]
Section(start, end, flags) == [how |-> "pages", start |-> start, end |-> end, kind |-> flags]
Sections(m) == <<Section(m.text[1], m.text[2], "X"), Section(m.rodata[1], m.rodata[2], "R"),
                 Section(m.bss[1], m.bss[2], "W")>>
In(slots, cs) == [i \in DOMAIN cs |->
    [how |-> cs[i].how, start |-> cs[i].start, end |-> cs[i].end, kind |-> cs[i].kind,
     slots |-> slots]]
Commands(m) ==
    In({"id", "dm"}, SelectSeq(m.regions, LAMBDA r : Mapped(r.kind))
                     \o <<Range(m.image[1], m.image[2], "Usable")>> \o Sections(m)
                     \o <<Range(m.heap[1], m.heap[2], "Usable")>>)
    \o In({"im"}, <<Section(m.image[1], m.image[2], "W")>> \o Sections(m))

Flags(c) == IF c.how = "pages" THEN c.kind ELSE FlagsOf(c.kind)
Do(c, slot, left) ==
    IF c.how = "pages" THEN MapPages(slot, left, c.start, c.end, 0, c.kind)
    ELSE MapRange(slot, left, c.start, c.end, c.kind, machine.gigabyte_pages)

---------------------------------------------------------------------------
(* Boot *)

Init ==
    /\ machine \in Machines
    /\ root = [s \in Slots |-> Absent] /\ user = Absent /\ shared = NoRoot
    /\ pool = TableFrames /\ pc = 0
    /\ frozen = FALSE /\ active = FALSE /\ dropped = FALSE
    /\ tlb = {} /\ stray = {}
    /\ want = [s \in Slots |-> [p \in Page |-> Absent]]
    /\ remaps = 0

\* What the pages of a command should translate to; an error is only logged,
\* and leaves the range as it is.  One in the image's alias also ends that.
Wanted(c, s, r) == [p \in Page |->
    IF p \notin c.start .. c.end - 1 THEN want[s][p]
    ELSE IF r.ok THEN Leaf(p, Flags(c)) ELSE Translate(r.slot, p)]

MapCommand ==
    /\ pc < Len(Commands(machine))
    /\ \E c \in {Commands(machine)[pc + 1]} :
       \E r \in {Do(c, root[IF c.slots = {"im"} THEN "im" ELSE "id"], pool)} :
          IF c.slots = {"im"}
          THEN /\ root' = [root EXCEPT !["im"] = r.slot] /\ pool' = r.left
               /\ want' = [want EXCEPT !["im"] = Wanted(c, "im", r)]
               /\ stray' = stray \cup r.stray
               /\ pc' = IF r.ok THEN pc + 1 ELSE Len(Commands(machine))
          ELSE \E q \in {Do(c, root["dm"], r.left)} :
               /\ root' = [root EXCEPT !["id"] = r.slot, !["dm"] = q.slot] /\ pool' = q.left
               /\ want' = [want EXCEPT !["id"] = Wanted(c, "id", r), !["dm"] = Wanted(c, "dm", q)]
               /\ stray' = stray \cup r.stray \cup q.stray
               /\ pc' = pc + 1
    /\ UNCHANGED <<machine, user, shared, frozen, active, dropped, tlb, remaps>>

\* Seeded fault: the empty upper-half slots are left for later.
Activate_SparseHalf ==
    /\ pc = Len(Commands(machine)) /\ ~active
    /\ frozen' = TRUE /\ active' = TRUE /\ tlb' = {}
    /\ UNCHANGED <<machine, root, pool, user, shared, pc, dropped, stray, want, remaps>>

\* prepopulate_kernel_slots: every upper-half slot gets its table; then
\* activate loads the tables, which empties the TLB.
Missing == {s \in KernelHalf : root[s] = Absent}
Activate ==
    /\ pc = Len(Commands(machine)) /\ ~active
    /\ Cardinality(Missing) <= pool
    /\ root' = [s \in Slots |-> IF s \in Missing THEN AsTable(Absent, PdptIndex, GIB) ELSE root[s]]
    /\ pool' = pool - Cardinality(Missing)
    /\ frozen' = TRUE /\ active' = TRUE /\ tlb' = {}
    /\ UNCHANGED <<machine, user, shared, pc, dropped, stray, want, remaps>>

\* Tables of a tree below a slot.
RECURSIVE CountTables(_)
CountTables(e) ==
    IF e.k # "table" THEN 0
    ELSE LET sub[S \in SUBSET DOMAIN e.sub] ==
                IF S = {} THEN 0
                ELSE LET i == CHOOSE j \in S : TRUE IN CountTables(e.sub[i]) + sub[S \ {i}]
         IN 1 + sub[DOMAIN e.sub]

\* drop_lower_half: free_table_tree, then a full flush.
DropLowerHalf ==
    /\ active /\ ~dropped
    /\ pool' = pool + CountTables(root["id"])
    /\ root' = [root EXCEPT !["id"] = Absent]
    /\ want' = [want EXCEPT !["id"] = [p \in Page |-> Absent]]
    /\ dropped' = TRUE /\ tlb' = {}
    /\ UNCHANGED <<machine, user, shared, pc, frozen, active, stray, remaps>>

---------------------------------------------------------------------------
(* The running kernel *)

\* The CPU caches the leaf that translates a page it touches.
Touch(s, p) ==
    LET w == Walk(root[s], p)
    IN /\ active /\ w.leaf.k = "leaf"
       /\ tlb' = {[slot |-> s, first |-> p - (p % w.size), size |-> w.size, leaf |-> w.leaf]}
       /\ UNCHANGED <<machine, root, user, shared, pool, pc, frozen, active, dropped, stray, want, remaps>>

Flushed(s, flush) == {c \in tlb : ~(c.slot = s /\ flush \cap (c.first .. c.first + c.size - 1) # {})}

Apply(s, p, r, leaf) ==
    /\ root' = [root EXCEPT ![s] = r.slot]
    /\ pool' = r.left
    /\ tlb' = IF r.flush = Page THEN {} ELSE Flushed(s, r.flush)
    /\ want' = IF r.ok THEN [want EXCEPT ![s][p] = leaf] ELSE want
    /\ remaps < MaxRemaps /\ remaps' = remaps + 1
    /\ UNCHANGED <<machine, user, shared, pc, frozen, active, dropped, stray>>

\* remap_page, for device memory (map_mmio) and the framebuffer.
RemapPage(p, flags) ==
    active /\ Apply("dm", p, MapPageLocked(root["dm"], pool, p, p, flags, FALSE), Leaf(p, flags))

\* map_page: the RSDP read-only in the direct map, heap and stack pages in
\* the window.  Only an identical mapping is accepted over an existing one.
MapPage(s, p, phys, flags) ==
    active /\ Apply(s, p, MapPageLocked(root[s], pool, p, phys, flags, TRUE), Leaf(phys, flags))

\* unmap_page: only a page of its own; the tables stay.
UnmapPage(s, p) ==
    LET w == Walk(root[s], p)
        e1 == root[s].sub[Gib(p)]
        e2 == e1.sub[Mib(p)]
    IN /\ active /\ w.size = 1 /\ w.leaf.k = "leaf"
       /\ Apply(s, p, Result(Table([root[s].sub EXCEPT ![Gib(p)] = Table([e1.sub EXCEPT
                   ![Mib(p)] = Table([e2.sub EXCEPT ![Pte(p)] = Absent])])]), pool, TRUE, {p}), Absent)

---------------------------------------------------------------------------
(* Process roots *)

Kernel == <<machine, root, pc, frozen, active, dropped, tlb, stray, want, remaps>>

\* AddressSpace::new copies the kernel half once.
NewRoot ==
    /\ dropped /\ shared = NoRoot /\ pool > 0
    /\ pool' = pool - 1
    /\ shared' = {s \in KernelHalf : root[s] # Absent}
    /\ UNCHANGED <<user, Kernel>>

\* Seeded fault: the page directory a failed mapping made is kept.
Rollback_KeepsDirectory(slot, left, p, made) ==
    IF 0 \in made THEN [slot |-> Absent, left |-> left + 1] ELSE [slot |-> slot, left |-> left]

\* rollback_tables: the tables this mapping made, from the lowest up.
Rollback(slot, left, p, made) ==
    LET without == IF 1 \in made THEN Table([slot.sub EXCEPT ![Gib(p)] = Absent]) ELSE slot
    IN [slot |-> IF 0 \in made THEN Absent ELSE without, left |-> left + Cardinality(made)]

\* map_page_in_root: OutOfFrames at any level and AlreadyMapped roll back.
UserMap(p) ==
    LET made == {l \in {0} : user = Absent} \cup
                {l \in {1} : user = Absent \/ user.sub[Gib(p)] = Absent}
        had(left) == {l \in made : Cardinality({m \in made : m <= l}) <= pool - left}
    IN /\ shared # NoRoot /\ Translate(user, p) = Absent
       /\ \E r \in {MapPageLocked(user, pool, p, p, "U", TRUE)} :
             IF r.ok THEN user' = r.slot /\ pool' = r.left
             ELSE \E back \in {Rollback(r.slot, r.left, p, had(r.left))} :
                    user' = back.slot /\ pool' = back.left
       /\ UNCHANGED <<shared, Kernel>>

\* unmap_page_in_root frees the tables that became empty.
Empty(sub) == \A i \in DOMAIN sub : sub[i].k = "absent"
UserUnmap(p) ==
    LET e1 == user.sub[Gib(p)]
        pt == [e1.sub[Mib(p)].sub EXCEPT ![Pte(p)] = Absent]
        pd == [e1.sub EXCEPT ![Mib(p)] = IF Empty(pt) THEN Absent ELSE Table(pt)]
        pdpt == [user.sub EXCEPT ![Gib(p)] = IF Empty(pd) THEN Absent ELSE Table(pd)]
    IN /\ shared # NoRoot /\ Translate(user, p) # Absent
       /\ user' = IF Empty(pdpt) THEN Absent ELSE Table(pdpt)
       /\ pool' = pool + Cardinality({t \in {<<1, pt>>, <<2, pd>>, <<3, pdpt>>} : Empty(t[2])})
       /\ UNCHANGED <<shared, Kernel>>

\* Drop for AddressSpace: the private tables and the root, never the copied ones.
DropRoot ==
    /\ shared # NoRoot
    /\ pool' = pool + CountTables(user) + 1
    /\ user' = Absent /\ shared' = NoRoot
    /\ UNCHANGED Kernel

Next ==
    \/ MapCommand \/ Activate \/ DropLowerHalf
    \/ \E p \in KernelPages :
          \/ \E s \in Slots : Touch(s, p)
          \/ \E f \in RemapFlags : RemapPage(p, f)
          \/ MapPage("dm", p, p, "R") \/ MapPage("vm", p, p, "W") \/ UnmapPage("vm", p)
    \/ NewRoot \/ DropRoot \/ \E p \in UserPages : UserMap(p) \/ UserUnmap(p)

Spec == Init /\ [][Next]_vars

---------------------------------------------------------------------------
\* Every page translates to what the last successful mapping of it said,
\* through every split, refusal and shortage of tables.
TranslatesAsMapped ==
    \A s \in Slots, p \in Page : Translate(root[s], p) = want[s][p]

RECURSIVE TablesBelow(_)
TablesBelow(S) == IF S = {} THEN 0
                  ELSE LET s == CHOOSE x \in S : TRUE
                       IN CountTables(root[s]) + TablesBelow(S \ {s})

\* No frame of a table is lost or freed twice: the pool and the trees hold
\* every frame the page tables were given.
TablesConserved ==
    pool + TablesBelow(Slots) + CountTables(user) + (IF shared = NoRoot THEN 0 ELSE 1) = TableFrames

\* A cached translation agrees with the tables for every page it covers.
CacheAgrees ==
    \A c \in tlb : \A p \in c.first .. c.first + c.size - 1 :
        Translate(root[c.slot], p) = Leaf(c.leaf.phys + p - c.first, c.leaf.flags)

\* A process root has every slot of the kernel half, so a mapping the kernel
\* makes later is seen from every process (kernel_half_matches).
KernelHalfShared ==
    shared # NoRoot => shared = KernelHalf /\ \A s \in KernelHalf : root[s].k = "table"

\* mapping_model.rs: "a compact description of what the hardware mapper is expected to do".  The
\* range mapped last is mapped by pages no larger than those of its plan.
PlanFollowed ==
    pc > 0 =>
        LET c == Commands(machine)[pc]
            plan == PlanRange(c.start, c.end, c.kind, machine.gigabyte_pages)
        IN c.how = "range" =>
              \A i \in DOMAIN plan : \A s \in {"id", "dm"} :
                  Walk(root[s], plan[i][1]).size <= plan[i][2]

\* The tables say what was mapped, by the pages planned, and the TLB agrees, unless a large page
\* was to go inside a gigabyte leaf: map_leaf then writes to the leaf's first frame instead.
KernelTables == stray = {} => TranslatesAsMapped /\ CacheAgrees /\ PlanFollowed

\* Table frames are conserved and the kernel half is common to all roots.
TableFramesKept == TablesConserved /\ KernelHalfShared
=============================================================================
