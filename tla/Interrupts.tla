----------------------------- MODULE Interrupts -----------------------------
(***************************************************************************)
(* Interrupts: choosing and programming the controllers at boot            *)
(* (kernel/src/arch/x86_64/interrupt_controller.rs, pic.rs, apic/,         *)
(* acpi.rs's lookups), starting the tick (time/mod.rs, apic_timer.rs), and *)
(* the vectors that devices get for MSI (vectors.rs, drivers/pci/msi.rs).  *)
(*                                                                         *)
(* Boot runs with interrupts off, so each of its two stages is a step.     *)
(* Later a driver programs its device one configuration write at a time    *)
(* and the device may raise its interrupt between any two; an interrupt    *)
(* that is pending is taken before the next step of a task.                *)
(***************************************************************************)
EXTENDS Integers, Sequences, SequencesExt, FiniteSets, FiniteSetsExt

CONSTANTS Machines,     \* firmware tables, hardware and build: see machine
          MAX_IOAPICS, MAX_OVERRIDES,
          Devices,      \* PCI functions with an MSI capability
          COUNT,        \* vectors for MSI
          MaxCalls,     \* bound: calls of enable_msi, and interrupts sent
          None

FIRST == 64             \* 0x40
TIMER == 32             \* 0x20, PIC_1_OFFSET
KEYBOARD == 33
SERIAL == 36            \* RECEIVE_VECTOR

\* machine: rsdp is the tables (ParseRsdp); lapic: LocalApic::init succeeds on
\* this CPU; ticks: the LAPIC's timer decrements; features: of the build, out
\* of "apic", "pit", "apic-timer".
VARIABLES
    machine,
    topology,   \* what parse_rsdp made of the tables, None if it failed
    boot,       \* "controller", "time", "running"
    mode,       \* "LegacyPic" or "Apic"
    pic,        \* IRQs the 8259s let through
    lapic,      \* on, timer (LVT: "masked", "periodic")
    tables,     \* per IOAPIC address: the redirection entries, None if masked
    timer_irq,  \* the IOAPIC (its address) and index the timer is on
    pit,        \* channel 0 runs at TICK_HZ
    owners, handlers, counts, stray,    \* vectors.rs
    device,     \* per device: its MSI capability and command register
    driver,     \* per device: what its driver is doing
    pending,    \* messages the LAPIC holds: [vector, from]
    calls, misled       \* a count; a handler that ran for another's device

vars == <<machine, topology, boot, mode, pic, lapic, tables, timer_irq, pit, owners, handlers,
          counts, stray, device, driver, pending, calls, misled>>

BootVars == <<machine, topology, boot, mode, pic, lapic, tables, timer_irq, pit>>
MsiVars == <<owners, handlers, counts, stray, device, driver, pending, calls, misled>>

---------------------------------------------------------------------------
(* acpi.rs *)

\* parse_madt: left to right; an entry is [type, length, ...] with its fields,
\* left is what the table's length still allows.
ParseMadt(madt) ==
    LET Step(t, e) ==
            CASE t = None \/ t.left < 2 -> t
              [] e.length < 2 \/ e.length > t.left -> None
              [] e.type = 1 /\ e.length >= 12 ->
                    IF Len(t.ioapics) = MAX_IOAPICS THEN None
                    ELSE [t EXCEPT !.ioapics = Append(@, e), !.left = @ - e.length]
              [] e.type = 2 /\ e.length >= 10 /\ e.bus = 0 ->
                    IF Len(t.overrides) = MAX_OVERRIDES THEN None
                    ELSE [t EXCEPT !.overrides = Append(@, e), !.left = @ - e.length]
              [] OTHER -> [t EXCEPT !.left = @ - e.length]
        t == FoldLeft(Step, [left |-> madt.length - 44, ioapics |-> <<>>, overrides |-> <<>>],
                      madt.entries)
    IN IF t = None \/ madt.lapic_address = 0 THEN None
       ELSE IF t.ioapics = <<>> THEN None ELSE t

\* parse_rsdp: the XSDT of a revision 2 RSDP that has one, else the RSDT; the
\* first table signed APIC decides.
ParseRsdp(rsdp) ==
    LET wide == rsdp.revision >= 2 /\ rsdp.xsdt # None
        root == IF wide THEN rsdp.xsdt ELSE rsdp.rsdt
        madts == {i \in DOMAIN root.tables : root.tables[i].signature = "APIC"}
        madt == root.tables[Min(madts)]
    IN IF \/ rsdp = None \/ ~rsdp.valid
          \/ root = None
          \/ root.signature # IF wide THEN "XSDT" ELSE "RSDT"
          \/ root.length < 36 \/ ~root.sum_ok
          \/ madts = {}
          \/ madt.length < 44 \/ ~madt.sum_ok
       THEN None
       ELSE ParseMadt(madt)

\* gsi_for_irq: the first override, else the IRQ itself.
GsiForIrq(t, irq) ==
    LET hits == {i \in DOMAIN t.overrides : t.overrides[i].irq = irq}
    IN IF hits = {} THEN irq ELSE t.overrides[Min(hits)].gsi

\* ioapic_for_gsi: the first whose range, up to the next base, holds it.
IoapicForGsi(t, gsi) ==
    LET next(a) == {b.gsi_base : b \in {c \in ToSet(t.ioapics) : c.gsi_base > a.gsi_base}}
        hits == {i \in DOMAIN t.ioapics :
                    LET a == t.ioapics[i]
                    IN a.gsi_base <= gsi /\ \A n \in next(a) : gsi < n}
    IN IF hits = {} THEN None ELSE t.ioapics[Min(hits)]

---------------------------------------------------------------------------
(* InterruptController::init *)

\* IoApic::init and init_single: every entry masked, then the routes; routes
\* is a set of <<gsi, vector>>.  None: an Err, nothing is written.
RouteAll(a, routes) ==
    IF \E r \in routes : r[1] - a.gsi_base \notin 0 .. a.entries - 1 THEN None
    ELSE [i \in 0 .. a.entries - 1 |->
            LET here == {r \in routes : r[1] = a.gsi_base + i}
            IN IF here = {} THEN None ELSE Max({r[2] : r \in here})]

Chosen(m, p, on, ts, irq) ==
    [mode |-> m, pic |-> p, on |-> on, tables |-> ts, timer_irq |-> irq]

\* The fallback: 8259s with timer, keyboard and COM1.
Legacy(on, ts) == Chosen("LegacyPic", {0, 1, 4}, on, ts, None)

Set(ts, address, table) == [a \in DOMAIN ts \cup {address} |-> IF a = address THEN table ELSE ts[a]]

\* init
ChooseController(t) ==
    LET gsi(irq) == GsiForIrq(t, irq)
        timer == IoapicForGsi(t, gsi(0))
        keyboard == IoapicForGsi(t, gsi(1))
        serial == IoapicForGsi(t, gsi(4))
        same == timer.address = keyboard.address
        first == RouteAll(timer, {<<gsi(0), TIMER>>} \cup
                                 (IF same THEN {<<gsi(1), KEYBOARD>>} ELSE {}))
        second == RouteAll(keyboard, {<<gsi(1), KEYBOARD>>})
        primary == IF first = None THEN <<>> ELSE Set(<<>>, timer.address, first)
        both == IF same \/ second = None THEN primary ELSE Set(primary, keyboard.address, second)
        \* COM1 on one of the two; its index is not checked.
        wired == IF serial # None /\ serial.address \in DOMAIN both
                 THEN [both EXCEPT ![serial.address] =
                          [i \in DOMAIN @ |-> IF i = gsi(4) - serial.gsi_base THEN SERIAL ELSE @[i]]]
                 ELSE both
    IN CASE t = None \/ "apic" \notin machine.features -> Legacy(FALSE, <<>>)
         [] timer = None \/ keyboard = None \/ ~machine.lapic -> Legacy(FALSE, <<>>)
         [] first = None \/ (~same /\ second = None) -> Legacy(TRUE, both)
         [] OTHER -> Chosen("Apic", {}, TRUE, wired,
                            [address |-> timer.address, index |-> gsi(0) - timer.gsi_base])

InitController ==
    /\ boot = "controller" /\ boot' = "time"
    /\ topology' = ParseRsdp(machine.rsdp)
    /\ \E c \in {ChooseController(topology')} :
          /\ mode' = c.mode /\ pic' = c.pic /\ tables' = c.tables /\ timer_irq' = c.timer_irq
          /\ lapic' = [on |-> c.on, timer |-> "masked"]
    /\ UNCHANGED <<machine, pit, MsiVars>>

---------------------------------------------------------------------------
(* time::init *)

\* Seeded fault: the IOAPIC's timer entry is left live.
InitTime_TwoTimers ==
    /\ boot = "time" /\ boot' = "running"
    /\ lapic' = IF mode = "Apic" /\ machine.ticks THEN [lapic EXCEPT !.timer = "periodic"] ELSE lapic
    /\ UNCHANGED <<machine, topology, mode, pic, tables, timer_irq, pit, MsiVars>>

\* Channel 0 is programmed only in a build without apic-timer, whatever
\* apic_timer::init then does; that starts the LAPIC's timer and masks the
\* IOAPIC's entry for the other one, or fails and leaves all as it is.
InitTime ==
    /\ boot = "time" /\ boot' = "running"
    /\ pit' = ("pit" \in machine.features /\ "apic-timer" \notin machine.features)
    /\ IF "apic-timer" \in machine.features /\ mode = "Apic" /\ machine.ticks
       THEN /\ lapic' = [lapic EXCEPT !.timer = "periodic"]
            /\ tables' = [tables EXCEPT ![timer_irq.address][timer_irq.index] = None]
       ELSE UNCHANGED <<lapic, tables>>
    /\ UNCHANGED <<machine, topology, mode, pic, timer_irq, MsiVars>>

---------------------------------------------------------------------------
(* vectors.rs and pci::enable_msi.  A driver is at the next write it makes. *)

Running == boot = "running" /\ pending = {}     \* interrupts are taken first

Vectors == 0 .. COUNT - 1

At(d, step) == driver[d].at = step

\* enable_msi up to vectors::allocate: the first free vector.
EnableMsi(d) ==
    /\ Running /\ At(d, "idle") /\ calls < MaxCalls
    /\ mode = "Apic" /\ \E v \in Vectors : owners[v] = None
    /\ LET v == Min({w \in Vectors : owners[w] = None})
       IN /\ owners' = [owners EXCEPT ![v] = d]
          /\ handlers' = [handlers EXCEPT ![v] = d]
          /\ counts' = [counts EXCEPT ![v] = 0]
          /\ driver' = [driver EXCEPT ![d] = [at |-> "off", vector |-> v]]
    /\ calls' = calls + 1
    /\ UNCHANGED <<BootVars, stray, device, pending, misled>>

\* The configuration writes of msi::program, in order.
Writes == <<"off", "address", "data", "unmask", "intx", "on", "held">>

\* Seeded fault: MSI is switched on before the message is written.
Written_OnFirst(c, at, v) ==
    CASE at = "off" -> [c EXCEPT !.on = TRUE]
      [] at = "address" -> [c EXCEPT !.address = "lapic"]
      [] at = "data" -> [c EXCEPT !.data = v]
      [] at = "unmask" -> [c EXCEPT !.masked = FALSE]
      [] at = "intx" -> [c EXCEPT !.intx = FALSE]
      [] at = "on" -> c

\* A 64-bit address takes two writes, both before the data: one step.
Written(c, at, v) ==
    CASE at = "off" -> [c EXCEPT !.on = FALSE]
      [] at = "address" -> [c EXCEPT !.address = "lapic"]
      [] at = "data" -> [c EXCEPT !.data = v]
      [] at = "unmask" -> [c EXCEPT !.masked = FALSE]
      [] at = "intx" -> [c EXCEPT !.intx = FALSE]
      [] at = "on" -> [c EXCEPT !.on = TRUE]

Program(d) ==
    /\ Running
    /\ \E i \in 1 .. 6 :
          /\ At(d, Writes[i])
          /\ device' = [device EXCEPT ![d] = Written(@, Writes[i], driver[d].vector)]
          /\ driver' = [driver EXCEPT ![d].at = Writes[i + 1]]
    /\ UNCHANGED <<BootVars, owners, handlers, counts, stray, pending, calls, misled>>

\* Seeded fault: the vector is given back while the device still sends it.
DropMsi_FreeFirst(d) ==
    /\ Running /\ At(d, "held")
    /\ owners' = [owners EXCEPT ![driver[d].vector] = None]
    /\ handlers' = [handlers EXCEPT ![driver[d].vector] = None]
    /\ driver' = [driver EXCEPT ![d].at = "intx back"]
    /\ UNCHANGED <<BootVars, counts, stray, device, pending, calls, misled>>

\* Drop for Msi: msi::disable, then vectors::free.
DropMsi(d) ==
    /\ Running /\ At(d, "held")
    /\ device' = [device EXCEPT ![d].on = FALSE]
    /\ driver' = [driver EXCEPT ![d].at = "intx back"]
    /\ UNCHANGED <<BootVars, owners, handlers, counts, stray, pending, calls, misled>>

IntxBack(d) ==
    /\ Running /\ At(d, "intx back")
    /\ device' = [device EXCEPT ![d].intx = TRUE]
    /\ driver' = [driver EXCEPT ![d].at = "free"]
    /\ UNCHANGED <<BootVars, owners, handlers, counts, stray, pending, calls, misled>>

FreeVector(d) ==
    /\ Running /\ At(d, "free")
    /\ handlers' = [handlers EXCEPT ![driver[d].vector] = None]
    /\ owners' = [owners EXCEPT ![driver[d].vector] = None]
    /\ driver' = [driver EXCEPT ![d] = [at |-> "idle", vector |-> None]]
    /\ UNCHANGED <<BootVars, counts, stray, device, pending, calls, misled>>

\* The device writes its message (external); one half written goes astray.
Send(d) ==
    /\ boot = "running" /\ calls < MaxCalls /\ calls' = calls + 1
    /\ device[d].on /\ ~device[d].masked
    /\ IF device[d].address = "lapic"
       THEN pending' = pending \cup {[vector |-> device[d].data, from |-> d]} /\ UNCHANGED misled
       ELSE misled' = TRUE /\ UNCHANGED pending
    /\ UNCHANGED <<BootVars, owners, handlers, counts, stray, device, driver>>

\* dispatch, in the stub of the vector.
Dispatch(m) ==
    /\ pending' = pending \ {m}
    /\ IF m.vector \in Vectors /\ handlers[m.vector] # None
       THEN /\ counts' = [counts EXCEPT ![m.vector] = @ + 1]
            /\ misled' = (misled \/ handlers[m.vector] # m.from)
            /\ UNCHANGED stray
       ELSE stray' = stray + 1 /\ UNCHANGED <<counts, misled>>
    /\ UNCHANGED <<BootVars, owners, handlers, device, driver, calls>>

---------------------------------------------------------------------------
\* The 8259s are masked by pic::init; what firmware left in a device's
\* capability is off, its message not this kernel's.
Init ==
    /\ machine \in Machines /\ topology = None /\ boot = "controller" /\ mode = "LegacyPic"
    /\ pic = {} /\ lapic = [on |-> FALSE, timer |-> "masked"] /\ tables = <<>>
    /\ timer_irq = None /\ pit = FALSE
    /\ owners = [v \in Vectors |-> None] /\ handlers = owners
    /\ counts = [v \in Vectors |-> 0] /\ stray = 0
    /\ device \in [Devices -> [on : {FALSE}, address : {None}, data : {None},
                              masked : BOOLEAN, intx : {TRUE}]]
    /\ driver = [d \in Devices |-> [at |-> "idle", vector |-> None]]
    /\ pending = {} /\ calls = 0 /\ misled = FALSE

Next ==
    \/ InitController \/ InitTime
    \/ \E d \in Devices : \/ EnableMsi(d) \/ Program(d) \/ DropMsi(d)
                           \/ IntxBack(d) \/ FreeVector(d) \/ Send(d)
    \/ \E m \in pending : Dispatch(m)

Spec == Init /\ [][Next]_vars

---------------------------------------------------------------------------
(* Where a line that a device of the PC raises ends up.  pin: the IOAPIC entry
   it is really wired to.  The 8259s reach the CPU only while the LAPIC's
   LINT0 is open: LocalApic::init closes it. *)
Sources(irq, vector) ==
    LET gsi == IF topology = None THEN irq ELSE GsiForIrq(topology, irq)
        wired == {a \in DOMAIN tables :
                    \E e \in ToSet(topology.ioapics) :
                        /\ e.address = a /\ gsi - e.gsi_base \in DOMAIN tables[a]
                        /\ tables[a][gsi - e.gsi_base] = vector}
    IN (IF lapic.on THEN {<<"Apic", a>> : a \in wired} ELSE {})
       \cup (IF irq \in pic /\ ~lapic.on THEN {<<"LegacyPic", "8259">>} ELSE {})
       \cup (IF vector = TIMER /\ lapic.timer = "periodic" THEN {<<"Apic", "timer">>} ELSE {})

\* Once time is running, exactly one source raises the tick's vector and one
\* the keyboard's, and the end of interrupt that the handlers send goes to the
\* controller that delivered it (two sources would run the clock at twice its
\* rate, none or the wrong controller would stop it for good).
OneSourceEach ==
    boot = "running" =>
        \A r \in {<<0, TIMER>>, <<1, KEYBOARD>>} :
            /\ Cardinality(Sources(r[1], r[2])) = 1
            /\ \A s \in Sources(r[1], r[2]) : s[1] = mode

\* An MSI reaches the handler of the driver whose device sent it: none is sent
\* half written, and none that a device sends lands on a vector that was given
\* back or has passed to another owner.
MsiReachesOwner == ~misled /\ stray = 0

\* A vector belongs to one driver, which is the one that holds it, and a device
\* that sends messages sends that vector.
VectorsExclusive ==
    \A d \in Devices :
        /\ ~At(d, "idle") => owners[driver[d].vector] = d /\ handlers[driver[d].vector] = d
        /\ device[d].on => device[d].data = driver[d].vector
        /\ At(d, "held") => device[d].on /\ ~device[d].intx
        /\ Cardinality({v \in Vectors : owners[v] = d}) <= 1
=============================================================================
