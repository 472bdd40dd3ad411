------------------------------- MODULE Screen -------------------------------
(***************************************************************************)
(* Output: the kernel log (kernel/src/klog.rs, klog_ring.rs), the console  *)
(* that draws text (drivers/console.rs, vga.rs, framebuffer.rs), the       *)
(* display behind /dev/fb0 that a program may take (drivers/fb.rs,         *)
(* bochs_vbe.rs), and the report of a fatal fault (fatal.rs).              *)
(*                                                                         *)
(* LOG and SERIAL1 turn interrupts off, so a section under them is a step. *)
(* CONSOLE_STATE and DISPLAY do not: a task is preempted inside them, one  *)
(* character at a time, and others spin.  With the firmware's framebuffer  *)
(* ("Gop") the console and the program draw in the same memory; with Bochs *)
(* VBE the console has the text planes and the program the pixels.         *)
(***************************************************************************)
EXTENDS Integers, Sequences, SequencesExt

CONSTANTS CAPACITY,         \* bytes of the log
          COLS, ROWS,       \* of the console
          Tasks,            \* kernel tasks and programs that print
          Shell,            \* the task that runs the kernel shell
          Programs,         \* programs that open /dev/fb0
          Texts,            \* what is printed
          Writes,           \* offset and length of a write to /dev/fb0, in cells
          Kinds,            \* "Gop", "Bochs"
          MaxCalls,         \* bound: prints, opens and replays
          None

TAB == 8
Blank == " "
Black == "black"
Pixel == "pixel"
Report == <<"\n", "!", "\n">>
EndOfLog == <<"end">>

VARIABLES
    kind,       \* the display this machine has
    log,        \* LOG: bytes, head, len
    paused,     \* PAUSED
    graphics,   \* GRAPHICS
    holder,     \* CONSOLE_STATE: the task that holds it
    cursor,     \* of the writer: col, row
    memory,     \* the text planes and the pixels, by character cell
    display,    \* DISPLAY: holder, users
    mode,       \* what the card's registers make it show: "text" or "pixels"
    text_mode,  \* BochsVbe: the registers to go back to, or None
    job,        \* per task: where its print is, and what is left of it
    program,    \* per program: "out", inside open or close, "in"
    fatal,      \* "no", "reported", "twice"
    kept, shown, inflight, stuck, calls     \* ghosts, and a count of calls

vars == <<kind, log, paused, graphics, holder, cursor, memory, display, mode, text_mode,
          job, program, fatal, kept, shown, inflight, stuck, calls>>

---------------------------------------------------------------------------
(* Ring *)

\* Seeded fault: a chunk longer than the ring is not cut to its tail.
Push_Whole(r, data) ==
    LET first == IF Len(data) < CAPACITY - r.head THEN Len(data) ELSE CAPACITY - r.head
    IN [bytes |-> [i \in 0 .. CAPACITY - 1 |->
                      IF i >= r.head /\ i < r.head + first THEN data[i - r.head + 1]
                      ELSE IF i < Len(data) - first THEN data[first + i + 1]
                      ELSE r.bytes[i]],
        head |-> (r.head + Len(data)) % CAPACITY,
        len |-> IF r.len + Len(data) < CAPACITY THEN r.len + Len(data) ELSE CAPACITY]

\* push: only the newest CAPACITY bytes, in at most two pieces.
Push(r, text) ==
    LET data == SubSeq(text, IF Len(text) > CAPACITY THEN Len(text) - CAPACITY + 1 ELSE 1,
                       Len(text))
        first == IF Len(data) < CAPACITY - r.head THEN Len(data) ELSE CAPACITY - r.head
    IN [bytes |-> [i \in 0 .. CAPACITY - 1 |->
                      IF i >= r.head /\ i < r.head + first THEN data[i - r.head + 1]
                      ELSE IF i < Len(data) - first THEN data[first + i + 1]
                      ELSE r.bytes[i]],
        head |-> (r.head + Len(data)) % CAPACITY,
        len |-> IF r.len + Len(data) < CAPACITY THEN r.len + Len(data) ELSE CAPACITY]

\* as_slices, put together.
Slices(r) ==
    LET start == (r.head + CAPACITY - r.len) % CAPACITY
        piece(from, to) == [i \in 1 .. to - from |-> r.bytes[from + i - 1]]
    IN IF start + r.len <= CAPACITY THEN piece(start, start + r.len)
       ELSE piece(start, CAPACITY) \o piece(0, r.head)

\* contains
LogContains(r, needle) ==
    LET at(i) == r.bytes[(r.head + CAPACITY - r.len + i) % CAPACITY]
    IN /\ Len(needle) <= r.len
       /\ \E start \in 0 .. r.len - Len(needle) :
             \A offset \in 1 .. Len(needle) : at(start + offset - 1) = needle[offset]

\* The lines of a snapshot: split at every new line.
Lines(s) ==
    LET ends == SelectSeq([i \in 1 .. Len(s) + 1 |-> i],
                          LAMBDA i : i = Len(s) + 1 \/ s[i] = "\n")
    IN [n \in DOMAIN ends |-> SubSeq(s, IF n = 1 THEN 1 ELSE ends[n - 1] + 1, ends[n] - 1)]

---------------------------------------------------------------------------
(* The writers, vga.rs and framebuffer.rs, on w = [col, row, grid]; grid is *)
(* a row of cells per row.                                                 *)

BlankRow == [c \in 1 .. COLS |-> Blank]

ClearAll == [col |-> 0, row |-> 0, grid |-> [r \in 1 .. ROWS |-> BlankRow]]

\* Seeded fault: the last row is not cleared by a scroll.
NewLine_KeepsLastRow(w) ==
    IF w.row + 1 < ROWS THEN [w EXCEPT !.row = @ + 1, !.col = 0]
    ELSE [w EXCEPT !.col = 0, !.grid = [r \in 1 .. ROWS |-> IF r < ROWS THEN @[r + 1] ELSE @[r]]]

\* The rows move up by one and the last is cleared.
Scrolled(grid) == [r \in 1 .. ROWS |-> IF r < ROWS THEN grid[r + 1] ELSE BlankRow]

\* new_line
NewLine(w) ==
    IF w.row + 1 < ROWS THEN [w EXCEPT !.row = @ + 1, !.col = 0]
    ELSE [w EXCEPT !.col = 0, !.grid = Scrolled(@)]

PutChar(w, c) ==
    LET v == IF w.col >= COLS THEN NewLine(w) ELSE w
    IN [v EXCEPT !.grid[v.row + 1][v.col + 1] = c, !.col = @ + 1]

\* write_byte
WriteByte(w, c) ==
    CASE c = "\n" -> NewLine(w)
      [] c = "BS" -> [w EXCEPT !.col = IF @ > 0 THEN @ - 1 ELSE 0]
      [] c = "\r" -> [w EXCEPT !.col = 0]
      [] c = "\t" ->
            LET next == ((w.col \div TAB) + 1) * TAB
                stop == IF next < COLS THEN next ELSE COLS
            IN [w EXCEPT !.col = IF @ < stop THEN stop ELSE @,
                         !.grid[w.row + 1] = [i \in 1 .. COLS |->
                            IF i > w.col /\ i <= stop THEN Blank ELSE @[i]]]
      [] OTHER -> PutChar(w, c)

WriteAll(w, text) == FoldLeft(WriteByte, w, text)

\* The memory the console draws in, and what the card shows.
Plane == IF kind = "Gop" THEN "pixels" ELSE "text"
Visible == IF kind = "Gop" THEN "pixels" ELSE mode

Writer == [col |-> cursor.col, row |-> cursor.row, grid |-> memory[Plane]]

SetWriter(w) ==
    /\ cursor' = [col |-> w.col, row |-> w.row]
    /\ memory' = [memory EXCEPT ![Plane] = w.grid]

---------------------------------------------------------------------------
(* Printing *)

Idle == [at |-> "idle", text |-> <<>>, left |-> <<>>, todo |-> <<>>]

Running == fatal = "no"

Others == <<kind, display, mode, text_mode, program, fatal, inflight, stuck>>

Begin(text, todo) == [at |-> "record", text |-> text, left |-> text, todo |-> todo]

\* print!: a task has something to say.
SayText(t) ==
    /\ Running /\ job[t].at = "idle" /\ calls < MaxCalls
    /\ \E text \in Texts : job' = [job EXCEPT ![t] = Begin(text, <<>>)]
    /\ calls' = calls + 1
    /\ UNCHANGED <<Others, log, paused, graphics, holder, cursor, memory, kept, shown>>

\* klog::log: to the ring and the serial port, not to the screen.
Log(t) ==
    /\ Running /\ job[t].at = "idle" /\ calls < MaxCalls
    /\ \E text \in Texts :
          IF paused THEN UNCHANGED <<log, kept>>
          ELSE log' = Push(log, text) /\ kept' = kept \o text
    /\ calls' = calls + 1
    /\ UNCHANGED <<Others, job, paused, graphics, holder, cursor, memory, shown>>

\* record
Record(t) ==
    /\ Running /\ job[t].at = "record"
    /\ IF paused THEN UNCHANGED <<log, kept>>
       ELSE log' = Push(log, job[t].text) /\ kept' = kept \o job[t].text
    /\ job' = [job EXCEPT ![t].at = "lock"]
    /\ UNCHANGED <<Others, paused, graphics, holder, cursor, memory, shown, calls>>

\* Seeded fault: the console draws whoever owns the screen.
LockConsole_AlwaysDraws(t) ==
    /\ Running /\ job[t].at = "lock" /\ holder = None
    /\ holder' = t
    /\ job' = [job EXCEPT ![t].at = "draw"]
    /\ UNCHANGED <<Others, log, paused, graphics, cursor, memory, kept, shown, calls>>

\* _print takes the console and looks at GRAPHICS once.
LockConsole(t) ==
    /\ Running /\ job[t].at = "lock" /\ holder = None
    /\ holder' = t
    /\ job' = [job EXCEPT ![t].at = IF graphics THEN "serial" ELSE "draw"]
    /\ UNCHANGED <<Others, log, paused, graphics, cursor, memory, kept, shown, calls>>

\* One character at a time; an interrupt may come between two.
Draw(t) ==
    /\ Running /\ job[t].at = "draw"
    /\ SetWriter(WriteByte(Writer, Head(job[t].left)))
    /\ shown' = Append(shown, Head(job[t].left))
    /\ job' = [job EXCEPT ![t].left = Tail(@), ![t].at = IF Len(job[t].left) = 1 THEN "serial" ELSE @]
    /\ UNCHANGED <<Others, log, paused, graphics, holder, kept, calls>>

\* The serial port, still under the console's lock; then the next line of a
\* replay, or its end.
Mirror(t) ==
    /\ Running /\ job[t].at = "serial"
    /\ holder' = None
    /\ LET todo == job[t].todo
       IN /\ job' = [job EXCEPT ![t] = IF todo = <<>> THEN Idle
                                       ELSE IF Head(todo) = EndOfLog THEN [Idle EXCEPT !.at = "resume"]
                                       ELSE Begin(Head(todo), Tail(todo))]
    /\ UNCHANGED <<Others, log, paused, graphics, cursor, memory, kept, shown, calls>>

---------------------------------------------------------------------------
(* dmesg *)

\* replay copies the ring under its lock...
Snapshot ==
    /\ Running /\ job[Shell].at = "idle" /\ calls < MaxCalls
    /\ LET lines == Lines(Slices(log))
       IN job' = [job EXCEPT ![Shell] = [Idle EXCEPT !.at = "pause",
                     !.todo = [n \in DOMAIN lines |-> Append(lines[n], "\n")] \o <<EndOfLog>>]]
    /\ calls' = calls + 1
    /\ UNCHANGED <<Others, log, paused, graphics, holder, cursor, memory, kept, shown>>

\* Seeded fault: the replay is logged.
Pause_Forgotten ==
    /\ Running /\ job[Shell].at = "pause"
    /\ job' = [job EXCEPT ![Shell] = Begin(Head(@.todo), Tail(@.todo))]
    /\ UNCHANGED <<Others, paused, log, graphics, holder, cursor, memory, kept, shown, calls>>

\* ... stops the log, prints the copy line by line...
Pause ==
    /\ Running /\ job[Shell].at = "pause"
    /\ paused' = TRUE
    /\ job' = [job EXCEPT ![Shell] = Begin(Head(@.todo), Tail(@.todo))]
    /\ UNCHANGED <<Others, log, graphics, holder, cursor, memory, kept, shown, calls>>

\* ... and starts it again.
Resume ==
    /\ Running /\ job[Shell].at = "resume"
    /\ paused' = FALSE
    /\ job' = [job EXCEPT ![Shell] = Idle]
    /\ UNCHANGED <<Others, log, graphics, holder, cursor, memory, kept, shown, calls>>

---------------------------------------------------------------------------
(* /dev/fb0.  A handle is opened and dropped under DISPLAY.                *)

Console == <<kind, log, paused, job, fatal, kept, calls>>

AllBlack == [r \in 1 .. ROWS |-> [c \in 1 .. COLS |-> Black]]

Step(p, from, to) == Running /\ program[p] = from /\ program' = [program EXCEPT ![p] = to]

\* open waits for DISPLAY; only the first opener takes the screen.
OpenLock(p) ==
    /\ calls < MaxCalls /\ display.holder = None
    /\ Step(p, "out", IF display.users = 0 THEN "take" ELSE "count")
    /\ display' = [display EXCEPT !.holder = p]
    /\ calls' = calls + 1
    /\ UNCHANGED <<kind, log, paused, job, fatal, kept, graphics, holder, cursor,
                   memory, mode, text_mode, shown, inflight, stuck>>

\* take_screen
TakeScreen(p) ==
    /\ Step(p, "take", "activate")
    /\ graphics' = TRUE
    /\ inflight' = (holder # None /\ job[holder].at = "draw")
    /\ UNCHANGED <<Console, holder, cursor, memory, display, mode, text_mode, shown, stuck>>

\* VgaRegisters::save, once; the card's registers are what mode stands for.
SavedRegisters == IF text_mode = None THEN mode ELSE text_mode

\* BochsVbe::deactivate: VgaRegisters::restore.
RestoredRegisters == IF text_mode = None THEN mode ELSE text_mode

\* Display::activate (nothing to do for the firmware's framebuffer), then black.
Activate(p) ==
    /\ Step(p, "activate", "count")
    /\ IF kind = "Bochs" THEN text_mode' = SavedRegisters /\ mode' = "pixels"
       ELSE UNCHANGED <<mode, text_mode>>
    /\ memory' = [memory EXCEPT !["pixels"] = AllBlack]
    /\ UNCHANGED <<Console, graphics, holder, cursor, display, shown, inflight, stuck>>

Count(p) ==
    /\ Step(p, "count", "in")
    /\ display' = [holder |-> None, users |-> display.users + 1]
    /\ UNCHANGED <<Console, graphics, holder, cursor, memory, mode, text_mode, shown, inflight, stuck>>

\* FbHandle::range, in cells from 0.
CellRange(offset, length) ==
    LET size == COLS * ROWS
        start == IF offset < size THEN offset ELSE size
    IN start .. (IF start + length < size THEN start + length ELSE size) - 1

\* write_at: ENOSPC past the end, which changes nothing.
WriteAt(p) ==
    /\ Running /\ program[p] = "in"
    /\ \E write \in Writes :
          LET cells == CellRange(write[1], write[2])
          IN memory' = [memory EXCEPT !["pixels"] =
                [r \in 1 .. ROWS |-> [c \in 1 .. COLS |->
                    IF (r - 1) * COLS + c - 1 \in cells THEN Pixel ELSE @[r][c]]]]
    /\ UNCHANGED <<Console, graphics, holder, cursor, display, mode, text_mode, program, shown,
                   inflight, stuck>>

\* Seeded fault: the screen goes back when any handle is closed.
DropHandle_Any(p) ==
    /\ display.holder = None
    /\ Step(p, "in", "release")
    /\ display' = [holder |-> p, users |-> display.users - 1]
    /\ mode' = RestoredRegisters /\ text_mode' = None
    /\ UNCHANGED <<Console, graphics, holder, cursor, memory, shown, inflight, stuck>>

\* FbHandle::drop; the last one deactivates the display...
DropHandle(p) ==
    /\ display.holder = None
    /\ Step(p, "in", IF display.users = 1 THEN "release" ELSE "out")
    /\ display' = [holder |-> IF display.users = 1 THEN p ELSE None, users |-> display.users - 1]
    /\ IF display.users = 1 THEN mode' = RestoredRegisters /\ text_mode' = None
       ELSE UNCHANGED <<mode, text_mode>>
    /\ UNCHANGED <<Console, graphics, holder, cursor, memory, shown, inflight, stuck>>

\* ... and gives the screen back to the console...
ReleaseScreen(p) ==
    /\ Step(p, "release", "clear")
    /\ graphics' = FALSE
    /\ inflight' = FALSE
    /\ UNCHANGED <<Console, holder, cursor, memory, display, mode, text_mode, shown, stuck>>

\* ... which clears it under its lock, with DISPLAY still held.  Only a taker of the screen, which
\* needs DISPLAY, sets graphics: clear_screen finds it as ReleaseScreen left it, and draws.
ClearScreen(p) ==
    /\ holder = None
    /\ Step(p, "clear", "out")
    /\ SetWriter(ClearAll)
    /\ shown' = <<>>
    /\ display' = [display EXCEPT !.holder = None]
    /\ UNCHANGED <<Console, graphics, holder, mode, text_mode, inflight, stuck>>

---------------------------------------------------------------------------
(* A fault that nothing handles: fatal::report runs with interrupts off    *)
(* and steals the locks; no task runs again.                               *)

\* Seeded fault: the console is taken back without its display.
Reclaimed_NotTheDisplay(m) == m

\* fb::reclaim_for_panic only tries DISPLAY.
Reclaimed(m) ==
    IF display.holder = None /\ display.users > 0 THEN RestoredRegisters ELSE m

Fault ==
    /\ Running
    /\ mode' = Reclaimed(mode)
    /\ graphics' = FALSE
    /\ stuck' = (display.holder # None)
    /\ \/ /\ fatal' = "reported"
          /\ IF paused THEN UNCHANGED <<log, kept>>
             ELSE log' = Push(log, Report) /\ kept' = kept \o Report
          /\ SetWriter(WriteAll(Writer, Report))
          /\ shown' = shown \o Report
       \/ \* The report faults too: raw_serial and halt.
          /\ fatal' = "twice"
          /\ UNCHANGED <<log, kept, cursor, memory, shown>>
    /\ UNCHANGED <<kind, paused, holder, display, text_mode, job, program, inflight, calls>>

---------------------------------------------------------------------------
Init ==
    /\ kind \in Kinds
    /\ log = [bytes |-> [i \in 0 .. CAPACITY - 1 |-> "0"], head |-> 0, len |-> 0]
    /\ paused = FALSE /\ graphics = FALSE /\ holder = None
    /\ cursor = [col |-> 0, row |-> 0]
    /\ memory = [text |-> ClearAll.grid, pixels |-> ClearAll.grid]
    /\ display = [holder |-> None, users |-> 0] /\ mode = "text" /\ text_mode = None
    /\ job = [t \in Tasks |-> Idle] /\ program = [p \in Programs |-> "out"]
    /\ fatal = "no" /\ kept = <<>> /\ shown = <<>> /\ inflight = FALSE /\ stuck = FALSE
    /\ calls = 0

TaskStep(t) == Record(t) \/ LockConsole(t) \/ Draw(t) \/ Mirror(t)

ProgramStep(p) ==
    \/ TakeScreen(p) \/ Activate(p) \/ Count(p) \/ ReleaseScreen(p) \/ ClearScreen(p)

Next ==
    \/ \E t \in Tasks : SayText(t) \/ Log(t) \/ TaskStep(t)
    \/ Snapshot \/ Pause \/ Resume
    \/ \E p \in Programs : OpenLock(p) \/ WriteAt(p) \/ DropHandle(p) \/ ProgramStep(p)
    \/ Fault

Spec == Init /\ [][Next]_vars

---------------------------------------------------------------------------
(* Properties *)

\* The newest n of a sequence.
Newest(s, n) == IF Len(s) <= n THEN s ELSE SubSeq(s, Len(s) - n + 1, Len(s))

\* The log is exactly the newest CAPACITY bytes that were recorded, however
\* often push wrapped round, and contains finds what is in it and no more.
LogIsTheTail ==
    /\ Slices(log) = Newest(kept, CAPACITY)
    /\ \A needle \in Texts :
          LET tail == Newest(kept, CAPACITY)
          IN LogContains(log, needle) <=>
                \E i \in 0 .. Len(tail) - Len(needle) :
                    SubSeq(tail, i + 1, i + Len(needle)) = needle

\* The text on an endless page, a line per element.
RECURSIVE Page(_, _, _)
Page(s, lines, col) ==
    LET last == Len(lines)
        put(page, at, c) == Page(Tail(s), [page EXCEPT ![Len(page)][at + 1] = c], at + 1)
        stop == IF ((col \div TAB) + 1) * TAB < COLS THEN ((col \div TAB) + 1) * TAB ELSE COLS
    IN IF s = <<>> THEN [lines |-> lines, col |-> col]
       ELSE CASE Head(s) = "\n" -> Page(Tail(s), Append(lines, BlankRow), 0)
              [] Head(s) = "\r" -> Page(Tail(s), lines, 0)
              [] Head(s) = "BS" -> Page(Tail(s), lines, IF col = 0 THEN 0 ELSE col - 1)
              [] Head(s) = "\t" ->
                    Page(Tail(s), [lines EXCEPT ![last] = [c \in 1 .. COLS |->
                            IF c > col /\ c <= stop THEN Blank ELSE @[c]]], stop)
              [] col = COLS -> put(Append(lines, BlankRow), 0, Head(s))
              [] OTHER -> put(lines, col, Head(s))

\* While the console has the text planes to itself, the screen shows the end
\* of an endless page with everything drawn since the last clear: wrapping,
\* scrolling and the control characters lose and invent nothing.
ScreenShowsText ==
    kind = "Bochs" =>
        LET page == Page(shown, <<BlankRow>>, 0)
        IN /\ cursor.col = page.col
           /\ \A r \in 1 .. ROWS :
                 memory["text"][r] = IF Len(page.lines) <= ROWS
                                     THEN IF r <= Len(page.lines) THEN page.lines[r] ELSE BlankRow
                                     ELSE page.lines[Len(page.lines) - ROWS + r]

\* From open to the last close, the console draws nothing on the program's
\* picture, unless a print was being drawn at the moment of take_screen.
OwnerUndisturbed ==
    display.users > 0 /\ Running /\ ~inflight =>
        \A r \in 1 .. ROWS, c \in 1 .. COLS : memory["pixels"][r][c] \in {Black, Pixel}

\* A fault that strikes while tasks hold the console's lock, or own the
\* screen, is still reported on a screen that shows it.  Only a fault inside
\* open or the last close, with DISPLAY held, leaves the card as it was.
ReportIsSeen ==
    fatal = "reported" =>
        /\ memory[Plane][cursor.row][1] = "!" /\ cursor.col = 0
        /\ ~stuck => Visible = Plane

\* The kernel log never holds its own replay, which would double it.
ReplayNotLogged ==
    /\ paused => job[Shell].at # "idle"
    /\ job[Shell].todo # <<>> /\ job[Shell].at # "pause" => paused

\* What the log keeps: the end of what was printed, its replay left out.
LogKept == LogIsTheTail /\ ReplayNotLogged

\* What the screen shows: the text, the owner's picture, or the report of a fault.
ScreenSound == ScreenShowsText /\ OwnerUndisturbed /\ ReportIsSeen
=============================================================================
