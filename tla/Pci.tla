-------------------------------- MODULE Pci --------------------------------
(***************************************************************************)
(* PCI enumeration: walking the buses (kernel/src/drivers/pci/scan.rs),    *)
(* reading a function's identity, BARs and capabilities (device.rs,        *)
(* config.rs) and giving each to a driver (mod.rs).                        *)
(*                                                                         *)
(* A machine gives, for the addresses that answer, a function with header, *)
(* multi, class, secondary, slots and next.  A BAR slot is                 *)
(* [value, low, fixed]: the bits from the power of two low up are kept by  *)
(* a write, the others read as fixed.  next maps 0 and the capabilities'   *)
(* offsets to the offset of the next, 0 at the end.                        *)
(***************************************************************************)
EXTENDS Integers, Sequences, SequencesExt, FiniteSets, FiniteSetsExt

CONSTANTS Machines,
          DEVICES, FUNCTIONS,   \* per bus, per device: 32 and 8
          BITS, PORT_BITS,      \* of a register, of a port number: 32 and 16
          CAPABILITIES,         \* the loop's bound: 48
          Drivers,              \* a sequence of [name, class]
          None

VARIABLES
    machine,    \* configuration space
    pending, visited, devices,      \* scan's
    phase,      \* "hosts", "buses", "drivers", "done"
    claims      \* which driver was given which address, in order

vars == <<machine, pending, visited, devices, phase, claims>>

Ones == 2 ^ BITS - 1
Clear(v, low) == v - (v % low)

\* A slot after a write (external).
WriteSlot(slot, v) == [slot EXCEPT !.value = Clear(v, slot.low) + slot.fixed]

---------------------------------------------------------------------------
(* device.rs *)

\* Write all ones, read back, restore: what was read, and the slot.
Sized(slot) ==
    LET ones == WriteSlot(slot, Ones)
    IN [mask |-> ones.value, slot |-> WriteSlot(ones, slot.value)]

\* Seeded fault: the upper half of a 64-bit BAR is left at all ones.
SizeWide_NoRestore(slots, i) ==
    LET low == Sized(slots[i]) high == Sized(slots[i + 1])
        mask == (high.mask * 2 ^ BITS) + Clear(low.mask, 16)
    IN [bar |-> IF mask = 0 THEN None
                ELSE [kind |-> "Memory",
                      address |-> (slots[i + 1].value * 2 ^ BITS) + Clear(slots[i].value, 16),
                      size |-> 2 ^ (2 * BITS) - mask],
        used |-> 2,
        slots |-> [slots EXCEPT ![i] = low.slot, ![i + 1] = WriteSlot(slots[i + 1], Ones)]]

\* size_bar, of a 64-bit memory BAR.
SizeWide(slots, i) ==
    LET low == Sized(slots[i]) high == Sized(slots[i + 1])
        mask == (high.mask * 2 ^ BITS) + Clear(low.mask, 16)
    IN [bar |-> IF mask = 0 THEN None
                ELSE [kind |-> "Memory",
                      address |-> (slots[i + 1].value * 2 ^ BITS) + Clear(slots[i].value, 16),
                      size |-> 2 ^ (2 * BITS) - mask],
        used |-> 2,
        slots |-> [slots EXCEPT ![i] = low.slot, ![i + 1] = high.slot]]

\* size_bar
SizeBar(slots, i) ==
    LET original == slots[i].value
        one == Sized(slots[i])
        io == Clear(one.mask, 4)
        port_size == (2 ^ BITS - io) % 2 ^ PORT_BITS
        memory == Clear(one.mask, 16)
        only(bar) == [bar |-> bar, used |-> 1, slots |-> [slots EXCEPT ![i] = one.slot]]
    IN IF original % 2 = 1
       THEN only(IF io = 0 \/ port_size = 0 THEN None
                 ELSE [kind |-> "Io", address |-> Clear(original, 4) % 2 ^ PORT_BITS,
                       size |-> port_size])
       ELSE IF (original \div 2) % 4 = 2 /\ i < Len(slots) THEN SizeWide(slots, i)
       ELSE only(IF memory = 0 THEN None
                 ELSE [kind |-> "Memory", address |-> Clear(original, 16), size |-> 2 ^ BITS - memory])

\* read_bars: the slots in turn; what a BAR used is skipped.
RECURSIVE ReadBars(_, _, _)
ReadBars(slots, i, bars) ==
    IF i > Len(slots) THEN [bars |-> bars, slots |-> slots]
    ELSE LET r == SizeBar(slots, i)
         IN ReadBars(r.slots, i + r.used, bars \o (IF r.used = 2 THEN <<r.bar, None>> ELSE <<r.bar>>))

\* read_capabilities: at most CAPABILITIES offsets, from the header's pointer.
RECURSIVE ReadCapabilities(_, _, _)
ReadCapabilities(next, offset, left) ==
    IF left = 0 \/ offset < 64 THEN <<>>
    ELSE <<offset>> \o ReadCapabilities(next, next[offset], left - 1)

\* read_device.  The decoders, off while the BARs are sized, are put back.
ReadDevice(f) ==
    LET r == ReadBars(f.slots, 1, <<>>)
    IN [function |-> [f EXCEPT !.slots = r.slots],
        device |-> [class |-> f.class, bars |-> r.bars,
                    capabilities |-> ReadCapabilities(f.next, f.next[0], CAPABILITIES)]]

---------------------------------------------------------------------------
(* scan.rs *)

Present(a) == a \in DOMAIN machine

\* More host bridges: 00:00.f leads to bus f.
Hosts ==
    /\ phase = "hosts" /\ phase' = "buses"
    /\ pending' = <<0>> \o
            (IF Present(<<0, 0, 0>>) /\ machine[<<0, 0, 0>>].multi
             THEN SelectSeq([f \in 1 .. FUNCTIONS - 1 |-> f], LAMBDA f : Present(<<0, 0, f>>))
             ELSE <<>>)
    /\ UNCHANGED <<machine, visited, devices, claims>>

\* The functions of a bus, in order.
FunctionsOn(bus) ==
    LET wanted == {<<bus, d, f>> : d \in 0 .. DEVICES - 1, f \in 0 .. FUNCTIONS - 1}
        real(a) == /\ Present(a) /\ Present(<<bus, a[2], 0>>)
                   /\ a[3] = 0 \/ machine[<<bus, a[2], 0>>].multi
    IN SetToSortSeq({a \in wanted : real(a)},
                    LAMBDA a, b : a[2] < b[2] \/ (a[2] = b[2] /\ a[3] < b[3]))

LeadsTo(a) ==
    LET f == machine[a]
    IN IF f.header = 1 /\ f.class = "bridge" /\ f.secondary \notin {0, a[1]} THEN <<f.secondary>> ELSE <<>>

\* Seeded fault: a bus is scanned as often as bridges lead to it.
ScanBus_Again ==
    /\ phase = "buses" /\ pending # <<>>
    /\ LET here == FunctionsOn(Last(pending))
           Step(s, a) == s \o LeadsTo(a)
       IN /\ pending' = FoldLeft(Step, Front(pending), here)
          /\ devices' = devices \o
                [i \in DOMAIN here |-> ReadDevice(machine[here[i]]).device @@ [address |-> here[i]]]
    /\ UNCHANGED <<machine, visited, phase, claims>>

\* One turn of scan's loop: the last pending bus, unless it was visited.
ScanBus ==
    /\ phase = "buses" /\ pending # <<>>
    /\ LET bus == Last(pending)
           here == FunctionsOn(bus)
           Step(s, a) == s \o LeadsTo(a)
       IN IF bus \in visited
          THEN pending' = Front(pending) /\ UNCHANGED <<machine, visited, devices>>
          ELSE /\ pending' = FoldLeft(Step, Front(pending), here)
               /\ visited' = visited \cup {bus}
               /\ devices' = devices \o
                    [i \in DOMAIN here |-> ReadDevice(machine[here[i]]).device @@ [address |-> here[i]]]
               /\ machine' = [a \in DOMAIN machine |->
                    IF a \in ToSet(here) THEN ReadDevice(machine[a]).function ELSE machine[a]]
    /\ UNCHANGED <<phase, claims>>

Before(a, b) == \/ a[1] < b[1]
                \/ a[1] = b[1] /\ (a[2] < b[2] \/ (a[2] = b[2] /\ a[3] < b[3]))

Sorted ==
    /\ phase = "buses" /\ pending = <<>> /\ phase' = "drivers"
    /\ devices' = SortSeq(devices, LAMBDA d, e : Before(d.address, e.address))
    /\ UNCHANGED <<machine, pending, visited, claims>>

---------------------------------------------------------------------------
(* init: each device to the first driver that matches. *)
Probe ==
    /\ phase = "drivers" /\ phase' = "done"
    /\ LET matching(d) == {i \in DOMAIN Drivers : Drivers[i].class = d.class}
           Step(s, d) == IF matching(d) = {} THEN s
                         ELSE Append(s, <<d.address, Drivers[Min(matching(d))].name>>)
       IN claims' = FoldLeft(Step, <<>>, devices)
    /\ UNCHANGED <<machine, pending, visited, devices>>

Init ==
    /\ machine \in Machines
    /\ pending = <<>> /\ visited = {} /\ devices = <<>> /\ phase = "hosts"
    /\ claims = <<>>

Next == Hosts \/ ScanBus \/ Sorted \/ Probe

Spec == Init /\ [][Next]_vars

---------------------------------------------------------------------------
\* The buses that can be reached, by definition.
Reachable ==
    LET roots == {0} \cup (IF Present(<<0, 0, 0>>) /\ machine[<<0, 0, 0>>].multi
                           THEN {f \in 1 .. FUNCTIONS - 1 : Present(<<0, 0, f>>)} ELSE {})
        step(S) == S \cup UNION {ToSet(LeadsTo(a)) : a \in UNION {ToSet(FunctionsOn(b)) : b \in S}}
        grow[i \in Nat] == IF i = 0 THEN roots ELSE step(grow[i - 1])
    IN grow[Cardinality(DOMAIN machine)]

\* When the scan is over, every function on every bus that host bridges and
\* bridges lead to was found exactly once, in order, however the bridges point
\* at each other.
ScanComplete ==
    phase \in {"drivers", "done"} =>
        /\ {d.address : d \in ToSet(devices)} = UNION {ToSet(FunctionsOn(b)) : b \in Reachable}
        /\ \A i \in 1 .. Len(devices) - 1 : Before(devices[i].address, devices[i + 1].address)

\* The size that a device really decodes at slot i.
TrueSize(slots, i) ==
    IF slots[i].fixed = 4 /\ i < Len(slots) /\ slots[i].low = 2 ^ BITS
    THEN slots[i + 1].low * 2 ^ BITS ELSE slots[i].low

\* Sizing leaves no trace: every BAR holds what firmware put there, and each BAR
\* that is reported has the address and size the device decodes.  Every capability in the list is found,
\* even where the list loops.
DevicesUntouched ==
    \A d \in ToSet(devices) :
        LET f == machine[d.address]
        IN /\ \A i \in DOMAIN d.bars : d.bars[i] # None =>
                /\ d.bars[i].size = TrueSize(f.slots, i)
                /\ d.bars[i].address % d.bars[i].size = 0
                /\ d.bars[i].address % 2 ^ BITS = Clear(f.slots[i].value, IF f.slots[i].fixed = 1 THEN 4 ELSE 16)
           /\ \A i \in DOMAIN d.bars : i > 1 /\ f.slots[i - 1].fixed = 4 /\ d.bars[i - 1] # None =>
                f.slots[i].value = d.bars[i - 1].address \div 2 ^ BITS
           /\ LET more(S) == S \cup ({f.next[o] : o \in S} \ {0})
                  grow[k \in Nat] == IF k = 0 THEN {f.next[0]} \ {0} ELSE more(grow[k - 1])
              IN ToSet(d.capabilities) = grow[Cardinality(DOMAIN f.next)]

=============================================================================
