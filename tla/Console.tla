------------------------------ MODULE Console ------------------------------
(***************************************************************************)
(* Console input: the key queue that the keyboard and serial interrupts    *)
(* fill (kernel/src/drivers/keyboard.rs, serial.rs), the line discipline   *)
(* (drivers/tty.rs) and the tasks that read /dev/console.                  *)
(*                                                                         *)
(* A section under CONSOLE or KEY_QUEUE has interrupts off and is one step;*)
(* the echo is printed after the section, and wait_event checks and sleeps *)
(* in a section of its own.                                                *)
(*                                                                         *)
(* A byte is named for what the discipline does with it: "a" stands for a  *)
(* printable character, "S" and "C" for the start and the continuation of  *)
(* one of two bytes, "other" for a control character without meaning.      *)
(***************************************************************************)
EXTENDS Integers, Sequences, SequencesExt

CONSTANTS KEY_BUFFER_CAPACITY, LINE_MAX,
          Readers,
          Keys,         \* pressed on the keyboard: "a", "c", "d", "u", "w", "Enter", ...
          Serial,       \* what one serial interrupt may bring: sequences of bytes
          Buffers,      \* sizes of a reader's buffer
          MaxTyped      \* bound: interrupts that bring input

TAB_STOP == 8
Control == [c |-> "^C", d |-> "^D", u |-> "^U", w |-> "^W"]
Text == {"a", " ", "S", "C"}
Bytes == Text \cup {"\t", "Enter", "Erase", "^C", "^D", "^U", "^W", "other"}
EndOfFile == <<"EOF">>

ASSUME ConsoleAssumption ==
    /\ {KEY_BUFFER_CAPACITY, MaxTyped} \subseteq Nat \ {0} /\ LINE_MAX \in Nat \ {0, 1}
    /\ Keys \subseteq Bytes \cup DOMAIN Control /\ Serial \subseteq Seq(Bytes)
    /\ Buffers \subseteq Nat \ {0}

VARIABLES
    keys,       \* KEY_QUEUE: buffer, head, tail, count
    control,    \* KEYBOARD_STATE: a Ctrl key is down
    waiters,    \* KEY_WAIT
    console,    \* CONSOLE: line, widths, ready
    pc, echo,   \* per reader: where it is, and what it has to print
    drawn,      \* columns the terminal shows of the line being edited
    typed,      \* interrupts so far
    accepted, delivered,    \* every byte queued, every byte read, in order
    crossed     \* two readers have had echo to print at the same time

vars == <<keys, control, waiters, console, pc, echo, drawn, typed,
          accepted, delivered, crossed>>

Sum(s) == FoldSeq(LAMBDA w, total : w + total, 0, s)

---------------------------------------------------------------------------
(* KeyQueue *)

Push(q, byte) ==
    IF q.count < KEY_BUFFER_CAPACITY
    THEN [buffer |-> [q.buffer EXCEPT ![q.tail] = byte], head |-> q.head,
          tail |-> (q.tail + 1) % KEY_BUFFER_CAPACITY, count |-> q.count + 1]
    ELSE q

Queued(q) == [i \in 1 .. q.count |-> q.buffer[(q.head + i - 1) % KEY_BUFFER_CAPACITY]]

\* pop until None; a slot given back is marked empty.
Emptied(q) ==
    [q EXCEPT !.head = (@ + q.count) % KEY_BUFFER_CAPACITY, !.count = 0,
              !.buffer = [i \in DOMAIN @ |-> "-"]]

---------------------------------------------------------------------------
(* LineDiscipline, on d = [line, widths, ready] with the echo so far.  An  *)
(* echoed "<" is ERASE_ECHO, "\n" a new line; "end" (ghost) marks where a   *)
(* line is completed without one.                                          *)

Times(n, e) == [i \in 1 .. n |-> e]

\* Without its last character: trailing continuation bytes and the byte
\* before them.
WithoutLast(line) == SubSeq(line, 1, SelectLastInSeq(line, LAMBDA b : b # "C") - 1)

\* Seeded fault: a Tab is taken back as one column.
EraseCharacter_OneColumn(d) ==
    IF d.line = <<>> THEN d
    ELSE [d EXCEPT !.line = WithoutLast(@),
                   !.widths = IF @ = <<>> THEN @ ELSE Front(@),
                   !.echo = Append(@, "<")]

\* erase_character
EraseCharacter(d) ==
    IF d.line = <<>> THEN d
    ELSE [d EXCEPT !.line = WithoutLast(@),
                   !.widths = IF @ = <<>> THEN @ ELSE Front(@),
                   !.echo = @ \o Times(IF d.widths = <<>> THEN 1 ELSE Last(d.widths), "<")]

EraseWhile(d, set) ==
    LET erase[n \in 0 .. Len(d.line)] ==
            IF n = 0 THEN d
            ELSE LET e == erase[n - 1]
                 IN IF e.line # <<>> /\ Last(e.line) \in set THEN EraseCharacter(e) ELSE e
    IN erase[Len(d.line)]

\* complete
Complete(d) == [d EXCEPT !.line = <<>>, !.widths = <<>>, !.ready = Append(@, d.line)]

HasRoom(line) == Len(line) < LINE_MAX - 1

\* input
Input(d, byte) ==
    CASE byte = "Enter" ->
            Complete([d EXCEPT !.line = Append(@, "\n"), !.echo = Append(@, "\n")])
      [] byte = "Erase" -> EraseCharacter(d)
      [] byte = "^U" -> EraseWhile(d, Bytes)
      [] byte = "^W" ->
            EraseWhile(EraseWhile(d, {" "}), Bytes \ {" "})
      [] byte = "^D" -> IF d.line = <<>> THEN [d EXCEPT !.ready = Append(@, EndOfFile)]
                        ELSE Complete([d EXCEPT !.echo = Append(@, "end")])
      [] byte = "^C" -> [d EXCEPT !.line = <<>>, !.widths = <<>>,
                                  !.echo = @ \o <<"a", "a", "\n">>]
      [] byte = "\t" /\ HasRoom(d.line) ->
            LET width == TAB_STOP - (Sum(d.widths) % TAB_STOP)
            IN [d EXCEPT !.line = Append(@, byte), !.widths = Append(@, width),
                         !.echo = @ \o Times(width, " ")]
      [] byte \in Text /\ HasRoom(d.line) ->
            [d EXCEPT !.line = Append(@, byte), !.echo = Append(@, byte),
                      !.widths = IF byte = "C" THEN @ ELSE Append(@, 1)]
      [] OTHER -> d

\* Every queued byte in turn.
InputAll(d, bytes) ==
    LET upTo[i \in 0 .. Len(bytes)] ==
            IF i = 0 THEN d ELSE LET before == upTo[i - 1] IN Input(before, bytes[i])
    IN upTo[Len(bytes)]

\* Seeded fault: what does not fit the buffer is lost.
ReadLine_Truncates(d, room) ==
    IF d.ready = <<>> THEN [got |-> <<>>, ready |-> <<>>]
    ELSE LET line == Head(d.ready)
             count == IF Len(line) < room THEN Len(line) ELSE room
         IN [got |-> SubSeq(line, 1, count), ready |-> Tail(d.ready)]

\* read: one line, or what fits; the rest of it stays in front.
ReadLine(d, room) ==
    IF d.ready = <<>> THEN [got |-> <<>>, ready |-> <<>>]
    ELSE LET line == Head(d.ready)
             count == IF Len(line) < room THEN Len(line) ELSE room
         IN [got |-> SubSeq(line, 1, count),
             ready |-> IF count = Len(line) THEN Tail(d.ready)
                       ELSE <<SubSeq(line, count + 1, Len(line))>> \o Tail(d.ready)]

---------------------------------------------------------------------------
(* The terminal.  A print shows text that is not UTF-8 as one replacement  *)
(* character per stray byte; a whole two-byte character takes one column.  *)

Column(s, i) ==
    CASE s[i] = "<" -> -1
      [] s[i] = "C" /\ i > 1 /\ s[i - 1] = "S" -> 0
      [] OTHER -> 1

Show(columns, s) ==
    LET from == SelectLastInSeq(s, LAMBDA e : e \in {"\n", "end"})
        shown[i \in 0 .. Len(s)] ==
            IF i = from THEN IF from = 0 THEN columns ELSE 0
            ELSE LET before == shown[i - 1] IN before + Column(s, i)
    IN shown[Len(s)]

---------------------------------------------------------------------------
(* Interrupts *)

\* wake_one on KEY_WAIT, n times
Woken(n) == SubSeq(waiters, 1, IF n < Len(waiters) THEN n ELSE Len(waiters))

\* push_input, for each of the bytes an interrupt brings
PushInput(bytes) ==
    /\ keys' = FoldLeft(Push, keys, bytes)
    /\ accepted' = accepted \o SubSeq(bytes, 1, keys'.count - keys.count)
    /\ waiters' = SubSeq(waiters, Len(Woken(Len(bytes))) + 1, Len(waiters))
    /\ pc' = [r \in Readers |-> IF Contains(Woken(Len(bytes)), r) THEN "wait" ELSE pc[r]]

\* handle_scancode of a key: with Ctrl down, a letter is a control character.
KeyPress(key) ==
    /\ typed < MaxTyped /\ typed' = typed + 1
    /\ PushInput(<<IF key \in DOMAIN Control
                   THEN IF control THEN Control[key] ELSE "a" ELSE key>>)
    /\ UNCHANGED <<control, console, echo, drawn, delivered, crossed>>

\* handle_scancode of Ctrl going down and up
ControlKey ==
    /\ control' = ~control
    /\ UNCHANGED <<keys, waiters, console, pc, echo, drawn, typed,
                   accepted, delivered, crossed>>

\* drain_input
SerialInput(bytes) ==
    /\ typed < MaxTyped /\ typed' = typed + 1
    /\ PushInput(bytes)
    /\ UNCHANGED <<control, console, echo, drawn, delivered, crossed>>

---------------------------------------------------------------------------
(* read_console *)

Goto(r, where) == pc' = [pc EXCEPT ![r] = where]

Begin(r) ==
    /\ pc[r] = "idle" /\ Goto(r, "drain")
    /\ UNCHANGED <<keys, control, waiters, console, echo, drawn, typed,
                   accepted, delivered, crossed>>

\* Seeded fault: the line is looked for before the input is processed.
Drain_ReadFirst(r, room) ==
    LET d == InputAll([line |-> console.line, widths |-> console.widths,
                       ready |-> <<>>, echo |-> <<>>], Queued(keys))
        taken == ReadLine(console, room)
    IN /\ pc[r] = "drain" /\ Goto(r, IF taken.got = <<>> THEN "echo" ELSE "return")
       /\ keys' = Emptied(keys)
       /\ console' = [line |-> d.line, widths |-> d.widths, ready |-> taken.ready \o d.ready]
       /\ echo' = [echo EXCEPT ![r] = d.echo]
       /\ delivered' = delivered \o taken.got
       /\ crossed' = (crossed \/ (d.echo # <<>> /\ \E q \in Readers : echo[q] # <<>>))
       /\ UNCHANGED <<control, waiters, drawn, typed, accepted>>

\* The section under CONSOLE: process all input, then take a line into a
\* buffer of this size.
Drain(r, room) ==
    LET d == InputAll([line |-> console.line, widths |-> console.widths,
                       ready |-> console.ready, echo |-> <<>>], Queued(keys))
        taken == ReadLine(d, room)
    IN /\ pc[r] = "drain" /\ Goto(r, IF taken.got = <<>> THEN "echo" ELSE "return")
       /\ keys' = Emptied(keys)
       /\ console' = [line |-> d.line, widths |-> d.widths, ready |-> taken.ready]
       /\ echo' = [echo EXCEPT ![r] = d.echo]
       /\ delivered' = delivered \o taken.got
       /\ crossed' = (crossed \/ (d.echo # <<>> /\ \E q \in Readers : echo[q] # <<>>))
       /\ UNCHANGED <<control, waiters, drawn, typed, accepted>>

\* Print the echo; return if there was a line.
Echo(r) ==
    /\ \/ pc[r] = "echo" /\ Goto(r, "wait")
       \/ pc[r] = "return" /\ Goto(r, "idle")
    /\ drawn' = Show(drawn, echo[r])
    /\ echo' = [echo EXCEPT ![r] = <<>>]
    /\ UNCHANGED <<keys, control, waiters, console, typed, accepted, delivered, crossed>>

\* Seeded fault: the queue is not looked at before the sleep.
Wait_Unchecked(r) ==
    /\ pc[r] = "wait" /\ Goto(r, "blocked") /\ waiters' = Append(waiters, r)
    /\ UNCHANGED <<keys, control, console, echo, drawn, typed,
                   accepted, delivered, crossed>>

\* wait_event(&KEY_WAIT, has_key): one round of its loop
Wait(r) ==
    /\ pc[r] = "wait"
    /\ IF keys.count > 0 THEN Goto(r, "drain") /\ UNCHANGED waiters
       ELSE Goto(r, "blocked") /\ waiters' = Append(waiters, r)
    /\ UNCHANGED <<keys, control, console, echo, drawn, typed,
                   accepted, delivered, crossed>>

---------------------------------------------------------------------------

Init ==
    /\ keys = [buffer |-> [i \in 0 .. KEY_BUFFER_CAPACITY - 1 |-> "-"],
               head |-> 0, tail |-> 0, count |-> 0]
    /\ control = FALSE /\ waiters = <<>>
    /\ console = [line |-> <<>>, widths |-> <<>>, ready |-> <<>>]
    /\ pc = [r \in Readers |-> "idle"] /\ echo = [r \in Readers |-> <<>>]
    /\ drawn = 0 /\ typed = 0 /\ accepted = <<>> /\ delivered = <<>> /\ crossed = FALSE

Continue(r) == (\E room \in Buffers : Drain(r, room)) \/ Echo(r) \/ Wait(r)

Next ==
    \/ ControlKey
    \/ \E key \in Keys : KeyPress(key)
    \/ \E bytes \in Serial : SerialInput(bytes)
    \/ \E r \in Readers : Begin(r) \/ Continue(r)

\* A reader that is in read_console and not blocked moves on: every step of
\* it changes its place, and only Continue(r) takes it from these places.
Awake == {"drain", "echo", "return", "wait"}
Moves(r) ==
    pc[r] \in Awake /\ \E where \in {"drain", "echo", "return", "wait", "blocked", "idle"} :
                            where # pc[r] /\ Goto(r, where)

\* A task that is not blocked gets the CPU in the end.
Spec == Init /\ [][Next]_vars /\ \A r \in Readers : WF_pc(Moves(r))

---------------------------------------------------------------------------
(* Properties *)

\* Every variable has its shape; a line, newline included, fits LINE_MAX.
TypeOK ==
    /\ keys.count \in 0 .. KEY_BUFFER_CAPACITY
    /\ keys.tail = (keys.head + keys.count) % KEY_BUFFER_CAPACITY
    /\ console.line \in Seq(Bytes) /\ Len(console.widths) <= Len(console.line)
    /\ \A i \in DOMAIN console.ready : Len(console.ready[i]) \in 1 .. LINE_MAX
    /\ Len(console.line) < LINE_MAX
    /\ pc \in [Readers -> {"idle", "drain", "echo", "return", "wait", "blocked"}]
    /\ ToSet(waiters) = {r \in Readers : pc[r] = "blocked"}

\* What an editor makes of the bytes of one line, none of which ends it:
\* from the right, an erase takes the character before it, ^W the word.
Edited(bytes) ==
    LET word(line) == SelectLastInSubSeq(line, 1,
            SelectLastInSeq(line, LAMBDA e : e # " "), LAMBDA e : e = " ")
        upTo[i \in 0 .. Len(bytes)] ==
            IF i = 0 THEN <<>>
            ELSE LET line == upTo[i - 1]
                     b == bytes[i]
                 IN CASE b = "Erase" -> WithoutLast(line)
                      [] b = "^U" -> <<>>
                      [] b = "^W" -> SubSeq(line, 1, word(line))
                      [] b = "other" -> line
                      [] OTHER -> IF Len(line) < LINE_MAX - 1 THEN Append(line, b) ELSE line
    IN upTo[Len(bytes)]

Ends == {"Enter", "^D", "^C"}

\* The bytes a terminal user means to send with the input s: the lines, cut
\* at the bytes that end one, a discarded one left out.
Meant(s) ==
    LET upTo[i \in 0 .. Len(s)] ==
            IF i = 0 THEN <<>>
            ELSE LET before == upTo[i - 1]
                     from == SelectLastInSubSeq(s, 1, i - 1, LAMBDA b : b \in Ends) + 1
                     line == Edited(SubSeq(s, from, i - 1))
                 IN before \o (CASE s[i] = "Enter" -> Append(line, "\n")
                                 [] s[i] = "^D" -> IF line = <<>> THEN EndOfFile ELSE line
                                 [] OTHER -> <<>>)
    IN upTo[Len(s)]

\* read on /dev/console returns what was typed: over all readers, all sizes of
\* buffer and all moments at which interrupts come, what was read and what is
\* ready is, in order, what the accepted input means; nothing is lost,
\* repeated or read twice.
ReadsWhatWasMeant ==
    delivered \o FlattenSeq(console.ready) =
        Meant(SubSeq(accepted, 1, Len(accepted) - keys.count))

\* "erasing takes back exactly what was drawn" (tty.rs): with all echo printed,
\* the columns the terminal shows for the line are those widths has, as long
\* as two readers never had echo to print at once.
ErasesWhatWasDrawn ==
    ~crossed /\ (\A r \in Readers : echo[r] = <<>>) => drawn = Sum(console.widths)

\* Input that arrives while somebody reads is processed and echoed.
InputIsProcessed ==
    (keys.count > 0 /\ \E r \in Readers : pc[r] # "idle")
        ~> (keys.count = 0 \/ \A r \in Readers : pc[r] = "idle")

\* read_console blocks only "until a line is complete": if no other task ever
\* reads the console, a reader returns once a line is ready.
SoleReaderReturns ==
    \A r \in Readers :
        ([](\A q \in Readers \ {r} : pc[q] = "idle"))
            => ((pc[r] # "idle" /\ console.ready # <<>>) ~> pc[r] = "idle")

\* The queue and the discipline are well formed, with every line within LINE_MAX, and the
\* lines they hold and give out are those that were typed.
LinesIntact == TypeOK /\ ReadsWhatWasMeant
=============================================================================
