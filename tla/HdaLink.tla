------------------------------ MODULE HdaLink ------------------------------
(***************************************************************************)
(* The HD Audio command link (kernel/src/drivers/hda/controller.rs):       *)
(* a command goes out through the CORB ring and its answer comes back      *)
(* through the RIRB ring, among responses that nobody asked for; when an   *)
(* answer does not come in time, that command and all later ones use the   *)
(* immediate registers.  The controller and the codecs run on their own.   *)
(*                                                                         *)
(* Command n is the n-th; its answer is n.  A timeout is a choice: SPINS   *)
(* iterations pass before the hardware's next step.                        *)
(***************************************************************************)
EXTENDS Integers, Sequences

CONSTANTS RING_ENTRIES,
          MaxCommands,      \* bound
          MaxUnsolicited,   \* bound: between two commands
          None

LinkAssumption == RING_ENTRIES \in Nat \ {0}

VARIABLES
    corb, corb_write, corb_fetch,   \* slots, the driver's and the hardware's index
    rirb, rirb_written, rirb_read,
    rings_on,       \* CORBCTL and RIRBCTL run
    working,        \* commands that the codec has taken and not answered
    immediate,      \* the driver's flag
    ici,            \* ICIS and ICII: busy, valid, command, answer
    at,             \* where command() is: "idle", "ring", "free" or "busy"
    n, seen,        \* commands issued; the response of the last one
    unsolicited

vars == <<corb, corb_write, corb_fetch, rirb, rirb_written, rirb_read, rings_on, working,
          immediate, ici, at, n, seen, unsolicited>>

Slots == 0 .. RING_ENTRIES - 1
Ring == <<corb, corb_write, corb_fetch, rirb, rirb_written, rirb_read, rings_on, working>>

---------------------------------------------------------------------------
(* The driver *)

\* command: into the ring, or on to the immediate registers.
Command ==
    /\ at = "idle" /\ n < MaxCommands
    /\ n' = n + 1 /\ seen' = None /\ unsolicited' = 0
    /\ IF immediate THEN at' = "free" /\ UNCHANGED <<corb, corb_write>>
       ELSE LET slot == (corb_write + 1) % RING_ENTRIES
            IN /\ corb' = [corb EXCEPT ![slot] = n + 1]
               /\ corb_write' = slot
               /\ at' = "ring"
    /\ UNCHANGED <<corb_fetch, rirb, rirb_written, rirb_read, rings_on, working, immediate, ici>>

\* One entry of the RIRB, in ring_command; 0 is a response nobody asked for.
Poll ==
    /\ at = "ring" /\ rirb_read # rirb_written
    /\ rirb_read' = (rirb_read + 1) % RING_ENTRIES
    /\ IF rirb[rirb_read'] = 0 THEN UNCHANGED <<at, seen>>
       ELSE at' = "idle" /\ seen' = rirb[rirb_read']
    /\ UNCHANGED <<corb, corb_write, corb_fetch, rirb, rirb_written, rings_on, working,
                   immediate, ici, n, unsolicited>>

\* Seeded fault: only this command goes the other way.
RingTimeout_ThisOnly ==
    /\ at = "ring" /\ at' = "free"
    /\ UNCHANGED <<Ring, immediate, ici, n, seen, unsolicited>>

\* ring_command gave up: immediate commands from now on, the rings off.
RingTimeout ==
    /\ at = "ring" /\ at' = "free"
    /\ immediate' = TRUE /\ rings_on' = FALSE
    /\ UNCHANGED <<corb, corb_write, corb_fetch, rirb, rirb_written, rirb_read, working,
                   ici, n, seen, unsolicited>>

\* Seeded fault: the registers are written while a command is in them.
Issue_NoWait ==
    /\ at = "free" /\ at' = "busy"
    /\ ici' = [busy |-> TRUE, valid |-> FALSE, answer |-> None,
               command |-> IF ici.busy THEN ici.command ELSE n]
    /\ UNCHANGED <<Ring, immediate, n, seen, unsolicited>>

\* immediate_command, once the registers are free.
Issue ==
    /\ at = "free" /\ ~ici.busy /\ at' = "busy"
    /\ ici' = [busy |-> TRUE, valid |-> FALSE, answer |-> None, command |-> n]
    /\ UNCHANGED <<Ring, immediate, n, seen, unsolicited>>

\* Its answer is there.
TakeAnswer ==
    /\ at = "busy" /\ ~ici.busy /\ ici.valid
    /\ at' = "idle" /\ seen' = ici.answer
    /\ UNCHANGED <<Ring, immediate, ici, n, unsolicited>>

\* Either wait of immediate_command gave up: the command has no response.
ImmediateTimeout ==
    /\ at \in {"free", "busy"} /\ ici.busy
    /\ at' = "idle"
    /\ UNCHANGED <<Ring, immediate, ici, n, seen, unsolicited>>

---------------------------------------------------------------------------
(* The controller and its codecs (external) *)

Respond(entry) ==
    /\ rirb_written' = (rirb_written + 1) % RING_ENTRIES
    /\ rirb' = [rirb EXCEPT ![rirb_written'] = entry]

Fetch ==
    /\ rings_on /\ corb_fetch # corb_write
    /\ corb_fetch' = (corb_fetch + 1) % RING_ENTRIES
    /\ working' = Append(working, corb[corb_fetch'])
    /\ UNCHANGED <<corb, corb_write, rirb, rirb_written, rirb_read, rings_on, immediate, ici,
                   at, n, seen, unsolicited>>

Answer ==
    /\ working # <<>> /\ working' = Tail(working)
    /\ IF rings_on THEN Respond(Head(working)) ELSE UNCHANGED <<rirb, rirb_written>>
    /\ UNCHANGED <<corb, corb_write, corb_fetch, rirb_read, rings_on, immediate, ici, at, n,
                   seen, unsolicited>>

Unsolicited ==
    /\ rings_on /\ unsolicited < MaxUnsolicited /\ unsolicited' = unsolicited + 1
    /\ Respond(0)
    /\ UNCHANGED <<corb, corb_write, corb_fetch, rirb_read, rings_on, working, immediate, ici,
                   at, n, seen>>

AnswerImmediate ==
    /\ ici.busy
    /\ ici' = [ici EXCEPT !.busy = FALSE, !.valid = TRUE, !.answer = ici.command]
    /\ UNCHANGED <<Ring, immediate, at, n, seen, unsolicited>>

---------------------------------------------------------------------------
\* Controller::new: both rings empty and running (start_rings).
Init ==
    /\ corb = [i \in Slots |-> 0] /\ corb_write = 0 /\ corb_fetch = 0
    /\ rirb = [i \in Slots |-> 0] /\ rirb_written = 0 /\ rirb_read = 0
    /\ rings_on = TRUE /\ working = <<>> /\ immediate = FALSE
    /\ ici = [busy |-> FALSE, valid |-> FALSE, command |-> None, answer |-> None]
    /\ at = "idle" /\ n = 0 /\ seen = None /\ unsolicited = 0

Next ==
    \/ Command \/ Poll \/ RingTimeout \/ Issue \/ TakeAnswer \/ ImmediateTimeout
    \/ Fetch \/ Answer \/ Unsolicited \/ AnswerImmediate

Spec == Init /\ [][Next]_vars

\* The response that command() returns is the answer to that command: never a
\* late answer to one that timed out, in the ring or in the immediate
\* registers, and never an unsolicited response.
AnswersMatch == at = "idle" /\ seen # None => seen = n

=============================================================================
