------------------------------- MODULE MCKernel -------------------------------
(* The kernel's memory and devices for TLC: physical frames (Frames), the    *)
(* heap, the page tables, interrupts, PCI, the clocks, the screen and the    *)
(* log, the codecs of a sound card and the link to them.  The models have no *)
(* variable in common and every behaviour is one of `model` alone: nine      *)
(* checks that share a state graph.                                          *)
EXTENDS Frames, TLC

CONSTANTS
    None,
    HEAP_UNITS, PAGE_UNITS, SMALL_REFILL_BLOCKS, MaxLive,           \* KernelHeap
    MIB, GIB, PAGES, TableFrames, RemapFlags, KernelPages, UserPages, MaxRemaps,  \* KernelPaging
    MAX_IOAPICS, MAX_OVERRIDES, Devices, COUNT, MaxCalls,           \* Interrupts
    DEVICES, FUNCTIONS, BITS, PORT_BITS, CAPABILITIES,              \* Pci
    LastYear, Radix, Second, Tasks, MaxTime,             \* Clock
    RING_ENTRIES, MaxCommands, MaxUnsolicited,                      \* HdaLink
    CAPACITY, COLS, ROWS, Printers, Shell, Viewers, Kinds, MaxPrints        \* Screen

VARIABLES
    model,      \* "frames", "heap", "paging", "interrupts", "pci", "clock", "codec", "link" or
                \* "screen"
    regions, small_heads, page_heap_ready, live, small_usage, large_allocs, page_count,
    failed_allocs,
    memory_map, root, user, shared, pool, pc, frozen, active, dropped, tlb, written, want, remaps,
    machine, topology, boot, mode, pic, lapic, tables, timer_irq, pit, owners, handlers, counts,
    stray, msi, driver, messages, calls, misled,
    functions, pending, visited, devices, phase, claims,
    clock_part, date, day, rtc, updating, reader, since, now, epoch, asks,
    codecs, chosen, plan, wiring, wanted, rate, formats,
    corb, corb_write, corb_fetch, rirb, rirb_written, rirb_read, rings_on, working, immediate,
    ici, at, issued, seen, unsolicited,
    screen, log, paused, graphics, holder, cursor, memory, display, shows, text_mode, job, viewer,
    fatal, kept, shown, inflight, stuck, prints

---------------------------------------------------------------------------
(* Memory *)

MCHoldRanges == {<<1, 6>>, <<3, 9>>}
MCReserveRanges == {<<4, 5>>, <<2, 3>>}
MCBounds == {<<0, frame_count>>, <<2, DMA32_FRAMES>>, <<DMA32_FRAMES, frame_count>>, <<1, 7>>}

\* Small blocks, one with a large alignment, a page and more than a page.
MCClasses == <<1, 2, 4>>
MCLayouts == {[size |-> 1, align |-> 1], [size |-> 1, align |-> 2], [size |-> 4, align |-> 1],
              [size |-> 5, align |-> 1], [size |-> 1, align |-> 8]}

H == INSTANCE KernelHeap WITH SMALL_CLASSES <- MCClasses, Layouts <- MCLayouts

\* Firmware maps: holes below the image, all usable with the image at the top of the last
\* gigabyte, the same with the image on a large page, and a processor without gigabyte pages.
Region(start, end, type) == [how |-> "range", start |-> start, end |-> end, kind |-> type]
Holes == [regions |-> <<Region(0, 1, "Usable"), Region(1, 2, "Reserved"), Region(2, 7, "Usable"),
                        Region(7, 8, "Mmio")>>,
          image |-> <<2, 5>>, text |-> <<2, 3>>, rodata |-> <<3, 4>>, bss |-> <<4, 5>>,
          heap |-> <<4, 5>>, gigabyte_pages |-> TRUE]
High == [Holes EXCEPT !.regions = <<Region(0, 8, "Usable")>>, !.image = <<5, 8>>,
                      !.text = <<5, 6>>, !.rodata = <<6, 7>>, !.bss = <<7, 8>>, !.heap = <<7, 8>>]
Wide == [High EXCEPT !.image = <<4, 7>>, !.text = <<4, 5>>, !.rodata = <<5, 6>>, !.bss = <<6, 7>>,
                      !.heap = <<6, 7>>]
Plain == [Wide EXCEPT !.gigabyte_pages = FALSE]
MCMaps == {Holes, High, Wide, Plain}

P == INSTANCE KernelPaging WITH Machines <- MCMaps, machine <- memory_map, stray <- written

---------------------------------------------------------------------------
(* Codecs: two DACs, two widgets between them and two pins, connected every  *)
(* way, some in a circle, with lists that name ranges and missing nodes.     *)

Entry(nid) == [node |-> nid, range |-> FALSE]
UpTo(nid) == [node |-> nid, range |-> TRUE]
CodecWidget(nid, kind, list, amp, order) ==
    [node |-> nid, kind |-> kind, digital |-> FALSE, amp |-> amp, order |-> order, list |-> list,
     output |-> IF kind = "Pin" THEN "Speaker" ELSE None,
     pcm |-> IF nid = 2 THEN {44100, 48000, 384000} ELSE {44100, 96000, 384000}]
Dacs == <<CodecWidget(2, "Output", <<>>, FALSE, 0), CodecWidget(3, "Output", <<>>, FALSE, 0)>>
PinLists == {<<Entry(5)>>, <<Entry(4), Entry(3)>>, <<Entry(2), UpTo(5)>>}
MiddleLists(other) == {<<Entry(2)>>, <<Entry(2), UpTo(3)>>, <<Entry(3), Entry(2)>>,
                       <<Entry(other), Entry(2)>>, <<Entry(9), Entry(other), Entry(3)>>}
FullCodecs ==
    {Dacs \o <<CodecWidget(4, a[1], la, a[2], 0), CodecWidget(5, b, lb, FALSE, 0),
               CodecWidget(6, "Pin", p, FALSE, o), CodecWidget(7, "Pin", q, FALSE, 1)>> :
        a \in {<<"Mixer", TRUE>>, <<"Selector", FALSE>>}, b \in {"Selector", "Mixer"},
        la \in MiddleLists(5), lb \in MiddleLists(4), p \in PinLists, q \in PinLists, o \in {0, 2}}
MCCards == {<<c>> : c \in FullCodecs}
           \cup {<< <<>>, <<Dacs[1]>>, CHOOSE c \in FullCodecs : TRUE >>, << <<>> >>}
MCWanted == {0, 8000, 11025, 44100, 60000, 200000}

C == INSTANCE HdaCodec WITH Cards <- MCCards, Wanted <- MCWanted, card <- codecs
L == INSTANCE HdaLink WITH n <- issued

ASSUME L!LinkAssumption

---------------------------------------------------------------------------
(* Firmware tables: the usual one with the timer moved, two IOAPICs, a table *)
(* that ends inside an entry, none.                                          *)

IoApicEntry(a, base, pins) ==
    [type |-> 1, length |-> 12, address |-> a, gsi_base |-> base, entries |-> pins]
Override(bus, irq, gsi) == [type |-> 2, length |-> 10, bus |-> bus, irq |-> irq, gsi |-> gsi]
Cpu == [type |-> 0, length |-> 8]
Madt(es, length) == [signature |-> "APIC", length |-> length, sum_ok |-> TRUE,
                     lapic_address |-> 1, entries |-> es]
SystemTable(signature, ts) == [signature |-> signature, length |-> 44, sum_ok |-> TRUE, tables |-> ts]
Fadt == [signature |-> "FACP", length |-> 44, sum_ok |-> TRUE]
Rsdp(m) == [valid |-> TRUE, revision |-> 2, xsdt |-> SystemTable("XSDT", <<Fadt, m>>), rsdt |-> None]
OldRsdp(m) == [valid |-> TRUE, revision |-> 0, xsdt |-> None, rsdt |-> SystemTable("RSDT", <<m>>)]
Usual == Rsdp(Madt(<<Cpu, IoApicEntry("A", 0, 6), Override(0, 0, 2)>>, 44 + 30))
TwoIoApics == Rsdp(Madt(<<IoApicEntry("A", 0, 4), IoApicEntry("B", 4, 4), Override(0, 1, 5),
                          Override(1, 0, 3)>>, 44 + 44))
Short == OldRsdp(Madt(<<IoApicEntry("A", 0, 6), Override(0, 0, 2)>>, 44 + 15))
MCMachines == [rsdp : {None, Usual, TwoIoApics, Short}, lapic : BOOLEAN, ticks : BOOLEAN,
               features : {{"apic", "pit", "apic-timer"}, {"pit", "apic"}}]

I == INSTANCE Interrupts WITH Machines <- MCMachines, device <- msi, pending <- messages

---------------------------------------------------------------------------
(* Buses: none, or bridges that lead anywhere, their own bus included, BARs    *)
(* of every kind, and lists of capabilities that end or loop.                *)

Bar(v, low, fixed) == [value |-> v - (v % low) + fixed, low |-> low, fixed |-> fixed]
Unused == Bar(0, 256, 0)
Capabilities == {0 :> 0, 0 :> 64 @@ 64 :> 72 @@ 72 :> 68 @@ 68 :> 0, 0 :> 64 @@ 64 :> 72 @@ 72 :> 64}
Function(header, multi, class, secondary, slots, next) ==
    [header |-> header, multi |-> multi, class |-> class, secondary |-> secondary,
     slots |-> slots, next |-> next]
Host(multi) == Function(0, multi, "host", 0, <<>>, 0 :> 0)
Bridge(b) == Function(1, FALSE, "bridge", b, <<Unused, Unused>>, 0 :> 0)
Audio(slots) == Function(0, FALSE, "audio", 0, slots, 0 :> 0)
BarSets == {<<Bar(64, 16, 0), Bar(8, 4, 1)>>, <<Bar(32, 32, 4), Bar(3, 1, 0), Bar(128, 64, 0)>>,
            <<Bar(0, 256, 4), Bar(4, 4, 0)>>, <<Bar(8, 8, 1), Bar(128, 128, 4)>>,
            <<Bar(0, 256, 4), Bar(0, 256, 0), Unused>>, <<Bar(16, 64, 1)>>}
MCBuses ==
    {<<>>} \cup {(<<0, 0, 0>> :> Host(multi)) @@ (IF multi THEN <<0, 0, 1>> :> Host(FALSE) ELSE <<>>)
     @@ (<<0, 1, 0>> :> Bridge(s)) @@ (<<0, 1, 1>> :> Audio(<<>>))
     @@ (<<1, 0, 0>> :> Bridge(t)) @@ (<<1, 1, 1>> :> Audio(b)) @@ (<<2, 0, 0>> :> Bridge(u))
     @@ (<<1, 1, 0>> :> Function(0, TRUE, "display", 0, b, next)) :
        multi \in BOOLEAN, s \in {0, 1, 2}, t \in {1, 2}, u \in {0, 1, 3}, b \in BarSets,
        next \in Capabilities}
MCDrivers == <<[name |-> "ac97", class |-> "audio"], [name |-> "bochs", class |-> "display"]>>

B == INSTANCE Pci WITH Machines <- MCBuses, Drivers <- MCDrivers, machine <- functions
K == INSTANCE Clock WITH part <- clock_part

ASSUME K!ClockAssumption

---------------------------------------------------------------------------
(* The screen: lines, tabs and backspaces, and a write that runs over the    *)
(* end of a row.                                                             *)

MCTexts == {<<"a", "\n">>, <<"b", "\t", "BS", "c", "d">>}
MCWrites == {<<5, 3>>}

D == INSTANCE Screen WITH
        Tasks <- Printers, Programs <- Viewers, Texts <- MCTexts, Writes <- MCWrites,
        MaxCalls <- MaxPrints, kind <- screen, program <- viewer, mode <- shows, calls <- prints

---------------------------------------------------------------------------
heapVars == <<regions, small_heads, page_heap_ready, live, small_usage, large_allocs, page_count,
              failed_allocs>>
pagingVars == <<memory_map, root, user, shared, pool, pc, frozen, active, dropped, tlb, written,
                want, remaps>>
irqVars == <<machine, topology, boot, mode, pic, lapic, tables, timer_irq, pit, owners, handlers,
             counts, stray, msi, driver, messages, calls, misled>>
pciVars == <<functions, pending, visited, devices, phase, claims>>
clockVars == <<clock_part, date, day, rtc, updating, reader, since, now, epoch, asks>>
codecVars == <<codecs, chosen, plan, wiring, wanted, rate, formats>>
linkVars == <<corb, corb_write, corb_fetch, rirb, rirb_written, rirb_read, rings_on, working,
              immediate, ici, at, issued, seen, unsolicited>>
screenVars == <<screen, log, paused, graphics, holder, cursor, memory, display, shows, text_mode, job,
                viewer, fatal, kept, shown, inflight, stuck, prints>>

allVars == <<vars, heapVars, pagingVars, irqVars, pciVars, clockVars, codecVars, linkVars,
             screenVars>>

\* The variables of the models other than the chosen one are out of use.
MCInit ==
    /\ model \in {"frames", "heap", "paging", "interrupts", "pci", "clock", "codec", "link", "screen"}
    /\ IF model = "frames" THEN Init
       ELSE /\ state = None /\ lists = None /\ buddy_active = None /\ scan_cursor = None
            /\ holds = None /\ next_id = None /\ refcounts = None /\ held = None /\ blocks = None
            /\ dropping = None /\ table = None /\ permanent = None /\ panicked = None
    /\ IF model = "heap" THEN H!Init
       ELSE /\ regions = None /\ small_heads = None /\ page_heap_ready = None /\ live = None
            /\ small_usage = None /\ large_allocs = None /\ page_count = None
            /\ failed_allocs = None
    /\ IF model = "paging" THEN P!Init
       ELSE /\ memory_map = None /\ root = None /\ user = None /\ shared = None /\ pool = None
            /\ pc = None /\ frozen = None /\ active = None /\ dropped = None /\ tlb = None
            /\ written = None /\ want = None /\ remaps = None
    /\ IF model = "interrupts" THEN I!Init
       ELSE /\ machine = None /\ topology = None /\ boot = None /\ mode = None /\ pic = None
            /\ lapic = None /\ tables = None /\ timer_irq = None /\ pit = None /\ owners = None
            /\ handlers = None /\ counts = None /\ stray = None /\ msi = None /\ driver = None
            /\ messages = None /\ calls = None /\ misled = None
    /\ IF model = "pci" THEN B!Init
       ELSE /\ functions = None /\ pending = None /\ visited = None /\ devices = None
            /\ phase = None /\ claims = None
    /\ IF model = "clock" THEN K!Init
       ELSE /\ clock_part = None /\ date = None /\ day = None /\ rtc = None /\ updating = None
            /\ reader = None /\ since = None /\ now = None /\ epoch = None /\ asks = None
    /\ IF model = "codec" THEN C!Init
       ELSE /\ codecs = None /\ chosen = None /\ plan = None /\ wiring = None /\ wanted = None
            /\ rate = None /\ formats = None
    /\ IF model = "link" THEN L!Init
       ELSE /\ corb = None /\ corb_write = None /\ corb_fetch = None /\ rirb = None
            /\ rirb_written = None /\ rirb_read = None /\ rings_on = None /\ working = None
            /\ immediate = None /\ ici = None /\ at = None /\ issued = None /\ seen = None
            /\ unsolicited = None
    /\ IF model = "screen" THEN D!Init
       ELSE /\ screen = None /\ log = None /\ paused = None /\ graphics = None /\ holder = None
            /\ cursor = None /\ memory = None /\ display = None /\ shows = None
            /\ text_mode = None /\ job = None /\ viewer = None /\ fatal = None /\ kept = None
            /\ shown = None /\ inflight = None /\ stuck = None /\ prints = None

MCNext ==
    /\ UNCHANGED model
    /\ \/ model = "frames" /\ Next
          /\ UNCHANGED <<heapVars, pagingVars, irqVars, pciVars, clockVars, codecVars, linkVars, screenVars>>
       \/ model = "heap" /\ H!Next
          /\ UNCHANGED <<vars, pagingVars, irqVars, pciVars, clockVars, codecVars, linkVars, screenVars>>
       \/ model = "paging" /\ P!Next
          /\ UNCHANGED <<vars, heapVars, irqVars, pciVars, clockVars, codecVars, linkVars, screenVars>>
       \/ model = "interrupts" /\ I!Next
          /\ UNCHANGED <<vars, heapVars, pagingVars, pciVars, clockVars, codecVars, linkVars, screenVars>>
       \/ model = "pci" /\ B!Next
          /\ UNCHANGED <<vars, heapVars, pagingVars, irqVars, clockVars, codecVars, linkVars, screenVars>>
       \/ model = "clock" /\ K!Next
          /\ UNCHANGED <<vars, heapVars, pagingVars, irqVars, pciVars, codecVars, linkVars, screenVars>>
       \/ model = "codec" /\ C!Next
          /\ UNCHANGED <<vars, heapVars, pagingVars, irqVars, pciVars, clockVars, linkVars, screenVars>>
       \/ model = "link" /\ L!Next
          /\ UNCHANGED <<vars, heapVars, pagingVars, irqVars, pciVars, clockVars, codecVars, screenVars>>
       \/ model = "screen" /\ D!Next
          /\ UNCHANGED <<vars, heapVars, pagingVars, irqVars, pciVars, clockVars, codecVars, linkVars>>
       \* these end: at a bound, or when the machine is booted
       \/ model \in {"paging", "interrupts", "pci", "clock", "link", "screen"}
          /\ UNCHANGED allVars

MCSpec == MCInit /\ [][MCNext]_<<model, allVars>>

---------------------------------------------------------------------------
(* Properties *)

\* The frame allocator's lists are valid and every frame has one owner: see ListsConsistent and
\* OwnershipKept in Frames.
FramesSound == model = "frames" => ListsConsistent /\ OwnershipKept

\* The frame allocator reports no shortage while a block fits, and none of its assertions fires:
\* see HonestOutOfMemory and NeverPanics in Frames.
FramesServe == model = "frames" => HonestOutOfMemory /\ NeverPanics

\* The kernel heap loses nothing and gives nothing out twice: see HeapConserved and ListsSound in
\* KernelHeap.
HeapSound == model = "heap" => H!HeapConserved /\ H!ListsSound

\* The kernel's page tables say what was mapped: see KernelTables and TableFramesKept in
\* KernelPaging.
TablesSound == model = "paging" => P!KernelTables /\ P!TableFramesKept

\* Every output sounds, along the shortest paths, at a rate all DACs play: see EveryOutputSounds,
\* PathsShortest and RateSound in HdaCodec.
CodecSound == model = "codec" => C!EveryOutputSounds /\ C!PathsShortest /\ C!RateSound

\* A command's response is its own: see AnswersMatch in HdaLink.
AnswersMatch == model = "link" => L!AnswersMatch

\* Every interrupt has one source and one owner: see OneSourceEach, MsiReachesOwner and
\* VectorsExclusive in Interrupts.
InterruptsSound ==
    model = "interrupts" => I!OneSourceEach /\ I!MsiReachesOwner /\ I!VectorsExclusive

\* The scan finds every function once and leaves no trace: see ScanComplete and DevicesUntouched
\* in Pci.
PciSound == model = "pci" => B!ScanComplete /\ B!DevicesUntouched

\* The calendar, the RTC and the wall clock agree: see CalendarExact, RtcWhole and RealtimeNotLate
\* in Clock.
ClockSound == model = "clock" => K!ClockSound

\* The log is the tail of what was printed, and the screen shows it or the picture of the one
\* program that has it: see LogKept and ScreenSound in Screen.
ScreenSound == model = "screen" => D!LogKept /\ D!ScreenSound
=============================================================================
