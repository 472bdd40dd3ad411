------------------------------- MODULE Sound -------------------------------
(***************************************************************************)
(* Playback: the sound core of kernel/src/sound/mod.rs, the period ring of *)
(* sound/ring.rs and the two cards it drives, AC'97 (drivers/ac97.rs) and  *)
(* HD Audio (drivers/hda/stream.rs).                                       *)
(*                                                                         *)
(* A section under the CARD lock runs with interrupts off, so tasks see it *)
(* as one step, but the card plays on: a section that polls and then acts  *)
(* on what it saw is two or more steps, with "lock" held, and the card may *)
(* cross one period boundary in it (it takes microseconds, a period 10 ms).*)
(*                                                                         *)
(* A period is PERIOD_BYTES units of audio.  Ring memory holds, for every  *)
(* period, silence or audio that the card has ("heard") or has not ("new") *)
(* played, with the sample rate it was converted to.                       *)
(***************************************************************************)
EXTENDS Integers, FiniteSets

CONSTANTS PERIODS, PERIOD_BYTES, START_PERIODS,
          STALL_MS,        \* in clock steps
          Kinds,           \* of card: "AC97", "HDA"
          Procs,           \* processes that share the open /dev/dsp
          Writers, Tuners, \* those that write, and that change the rate
          Rates, DEFAULT,  \* sample rates; the one of a fresh open
          MaxWrite,        \* bound: units in one write
          NoProc

ASSUME SoundAssumption ==
    /\ {PERIODS, PERIOD_BYTES, START_PERIODS, STALL_MS, MaxWrite} \subseteq Nat \ {0}
    /\ START_PERIODS < PERIODS /\ DEFAULT \in Rates /\ NoProc \notin Procs

VARIABLES
    card,       \* struct Card: ring, memory, rate, open, quiet, staged, idle
    device,     \* the driver's state and the hardware's
    poller,     \* the sound task: "waiting" on POLL_WAIT or "ready"
    rate,       \* the program's rate, in the handle's converter
    lock,       \* who is inside a section
    pc, todo, target  \* per process: where it is, units left, rate to set

vars == <<card, device, poller, rate, lock, pc, todo, target>>

Period == 0 .. PERIODS - 1
MAX_QUEUED == PERIODS - 1
Silence == [what |-> "silent", rate |-> 0]
Silent == [p \in Period |-> Silence]
NewRing == [fill_period |-> 0, fill_bytes |-> 0, first_queued |-> 0,
            queued |-> 0, running |-> FALSE]

---------------------------------------------------------------------------
(* The cards.  "on" is what the hardware does, "beyond" (ghost) that a     *)
(* looping card has left the last submitted period, "since_poll" counts    *)
(* the boundaries crossed since the driver last read the position.         *)

StopDevice(d) ==
    [d EXCEPT !.on = "stopped", !.position = 0, !.last = 0, !.previous = 0, !.drained = FALSE,
              !.beyond = FALSE, !.since_poll = 0]

StartDevice(d, last) == [StopDevice(d) EXCEPT !.on = "playing", !.last = last]

\* AC'97 resumes at the next period if it has halted; HD Audio only notes
\* how far it may go.
SubmitDevice(d, last) ==
    IF d.kind = "AC97" /\ d.on = "halted"
    THEN [d EXCEPT !.last = last, !.on = "playing", !.position = (@ + 1) % PERIODS]
    ELSE [d EXCEPT !.last = last, !.beyond = @ /\ d.position # last]

\* AudioDevice::status
Status(d) ==
    LET submitted == ((d.last + PERIODS - d.previous) % PERIODS) + 1
        ahead == (d.position + PERIODS - d.previous) % PERIODS
    IN IF d.kind = "AC97"
       THEN [current |-> d.position, halted |-> d.on # "playing",
             device |-> [d EXCEPT !.since_poll = 0]]
       ELSE IF d.on = "stopped" \/ d.drained \/ ahead >= submitted
       THEN [current |-> d.last, halted |-> TRUE,
             device |-> [d EXCEPT !.drained = d.on # "stopped"]]
       ELSE [current |-> d.position, halted |-> FALSE,
             device |-> [d EXCEPT !.previous = d.position, !.since_poll = 0]]

---------------------------------------------------------------------------
(* ring.rs *)

Done(r, current) == (current + PERIODS - r.first_queued) % PERIODS

\* Seeded fault: after a stop the ring goes on where it was.
Update_KeepsPlace(r, status) ==
    IF ~r.running THEN [ring |-> r, halted |-> FALSE, count |-> 0]
    ELSE LET done == Done(r, status.current)
             count == IF status.halted THEN r.queued
                      ELSE IF done < r.queued THEN done ELSE r.queued - 1
         IN [ring |-> [r EXCEPT !.queued = @ - count, !.first_queued = (@ + count) % PERIODS,
                                !.running = ~status.halted],
             halted |-> status.halted, count |-> count]

\* Ring::update: the ring after it, whether the card stopped, and how many
\* periods from first_queued on have been played.
Update(r, status) ==
    IF ~r.running THEN [ring |-> r, halted |-> FALSE, count |-> 0]
    ELSE IF status.halted
    THEN [ring |-> [NewRing EXCEPT !.fill_bytes = r.fill_bytes],
          halted |-> TRUE, count |-> r.queued]
    ELSE LET done == Done(r, status.current)
             count == IF done < r.queued THEN done ELSE r.queued - 1
         IN [ring |-> [r EXCEPT !.queued = @ - count, !.first_queued = (@ + count) % PERIODS],
             halted |-> FALSE, count |-> count]

HasSpace(r) == r.queued < MAX_QUEUED

Nothing == [do |-> "None", last |-> 0]

\* Ring::start
StartRing(r) ==
    IF r.running \/ r.queued = 0 THEN [ring |-> r, action |-> Nothing]
    ELSE [ring |-> [r EXCEPT !.running = TRUE],
          action |-> [do |-> "Start", last |-> r.queued - 1]]

\* Ring::commit
Commit(r, count) ==
    LET filled == [r EXCEPT !.fill_period = (@ + 1) % PERIODS, !.fill_bytes = 0,
                            !.queued = @ + 1]
    IN IF r.fill_bytes + count < PERIOD_BYTES
       THEN [ring |-> [r EXCEPT !.fill_bytes = @ + count], action |-> Nothing]
       ELSE IF r.running
       THEN [ring |-> filled, action |-> [do |-> "Submit", last |-> r.fill_period]]
       ELSE IF filled.queued >= START_PERIODS THEN StartRing(filled)
       ELSE [ring |-> filled, action |-> Nothing]

---------------------------------------------------------------------------
(* The core, on s = [card, device, poller] *)

Apply(s, a) ==
    IF a.do = "Start"
    THEN [s EXCEPT !.device = StartDevice(@, a.last), !.poller = "ready"]
    ELSE IF a.do = "Submit" THEN [s EXCEPT !.device = SubmitDevice(@, a.last)] ELSE s

ResetCard(s) ==
    [s EXCEPT !.device = StopDevice(@), !.card.ring = NewRing, !.card.memory = Silent,
              !.card.quiet = FALSE, !.card.staged = 0, !.card.idle = 0]

Played(first, count) == {(first + i) % PERIODS : i \in 0 .. count - 1}

\* Seeded fault: an idle card does not count as progress.
Progressed_PeriodsOnly(u) == u.count > 0

Progressed(u) == u.count > 0 \/ ~u.ring.running

\* Card::poll: catch up with the card, silence what it has finished, and
\* drop the queue of one that makes no progress.
Poll(s) ==
    LET status == Status(s.device)
        u == Update(s.card.ring, status)
        polled == [s EXCEPT !.device = status.device, !.card.ring = u.ring]
        finished == Played(s.card.ring.first_queued, u.count)
    IN IF ~Progressed(u) /\ s.card.idle > STALL_MS THEN ResetCard(polled)
       ELSE [polled EXCEPT
                !.card.idle = IF Progressed(u) THEN 0 ELSE @,
                !.card.quiet = @ \/ u.halted,
                !.card.memory = [p \in Period |-> IF p \in finished THEN Silence ELSE @[p]]]

\* Card::commit_staged: a complete period goes from staging into the ring,
\* after a card that runs through silence is stopped.
CommitStaged(s, count) ==
    LET r == s.card.ring
        ready == IF s.card.quiet
                 THEN [s EXCEPT !.card.quiet = FALSE, !.device = StopDevice(@)] ELSE s
        copied == [ready EXCEPT !.card.memory[r.fill_period] =
                        [what |-> "new", rate |-> s.card.staged], !.card.staged = 0]
        c == Commit(r, count)
    IN IF r.fill_bytes + count = PERIOD_BYTES
       THEN Apply([copied EXCEPT !.card.ring = c.ring], c.action)
       ELSE [s EXCEPT !.card.ring = c.ring]

\* Seeded fault: the card is not started below the threshold.
Flush_NoStart(s) ==
    LET r == s.card.ring
    IN IF r.fill_bytes > 0 /\ HasSpace(r)
       THEN CommitStaged(s, PERIOD_BYTES - r.fill_bytes) ELSE s

\* Card::flush: pad a partial period, and start on whatever is queued.
Flush(s) ==
    LET r == s.card.ring
        padded == IF r.fill_bytes > 0 /\ HasSpace(r)
                  THEN CommitStaged(s, PERIOD_BYTES - r.fill_bytes) ELSE s
        started == StartRing(padded.card.ring)
    IN Apply([padded EXCEPT !.card.ring = started.ring], started.action)

Now == [card |-> card, device |-> device, poller |-> poller]
Becomes(s) == card' = s.card /\ device' = s.device /\ poller' = s.poller

---------------------------------------------------------------------------
(* The hardware and the clock *)

\* The card finishes the period it is on.  The sound task polls twice per
\* period, so a card it watches is never further than once round the ring
\* ahead of the driver; one that nobody watches is not held back.
Play ==
    LET at == device.position
        moved == [device EXCEPT !.position = (@ + 1) % PERIODS,
                                !.since_poll = IF @ < PERIODS - 1 THEN @ + 1 ELSE @]
    IN /\ device.on = "playing" /\ ~device.broken
       /\ lock # NoProc => device.since_poll = 0
       /\ device.since_poll < PERIODS - 1 \/ device.drained \/ poller # "ready"
       /\ card' = [card EXCEPT !.memory[at].what = IF @ = "new" THEN "heard" ELSE @]
       /\ device' = IF device.kind = "AC97"
                    THEN IF at = device.last
                         THEN [moved EXCEPT !.on = "halted", !.position = at] ELSE moved
                    ELSE [moved EXCEPT !.beyond = @ \/ at = device.last]
       /\ UNCHANGED <<poller, rate, lock, pc, todo, target>>

\* The card stops working for good.
Break ==
    /\ ~device.broken /\ device' = [device EXCEPT !.broken = TRUE]
    /\ UNCHANGED <<card, poller, rate, lock, pc, todo, target>>

\* Time passes since progress_at.  A period is much shorter than STALL_MS:
\* by then a working card has finished one.
Tick ==
    /\ lock = NoProc /\ card.idle <= STALL_MS
    /\ card.idle = STALL_MS => \/ device.broken \/ device.on # "playing"
                               \/ device.since_poll > 0
    /\ card' = [card EXCEPT !.idle = @ + 1]
    /\ UNCHANGED <<device, poller, rate, lock, pc, todo, target>>

---------------------------------------------------------------------------
(* The sound task and /proc/sound *)

PollerStep ==
    /\ poller = "ready" /\ lock = NoProc
    /\ IF card.ring.running THEN Becomes(Poll(Now))
       ELSE poller' = "waiting" /\ UNCHANGED <<card, device>>
    /\ UNCHANGED <<rate, lock, pc, todo, target>>

\* proc_text, and SNDCTL_DSP_GETODELAY
PollOnly ==
    /\ lock = NoProc /\ Becomes(Poll(Now))
    /\ UNCHANGED <<rate, lock, pc, todo, target>>

---------------------------------------------------------------------------
(* The calls on /dev/dsp *)

Goto(p, where) == pc' = [pc EXCEPT ![p] = where]
Usable == card.open /\ \A p \in Procs : pc[p] # "closing"

\* open; the first one starts the sound task.
Open(p) ==
    /\ ~card.open /\ lock = NoProc
    /\ card' = [card EXCEPT !.open = TRUE]
    /\ rate' = DEFAULT
    /\ poller' = IF poller = "none" THEN "ready" ELSE poller
    /\ UNCHANGED <<device, lock, pc, todo, target>>

\* write: the descriptor's offset lock admits one at a time.
BeginWrite(p, count) ==
    /\ Usable /\ pc[p] = "idle" /\ \A q \in Procs : todo[q] = 0
    /\ todo' = [todo EXCEPT ![p] = count] /\ Goto(p, "rate")
    /\ UNCHANGED <<card, device, poller, rate, lock, target>>

\* SNDCTL_DSP_SPEED, set_format included
BeginSpeed(p, wanted) ==
    /\ Usable /\ pc[p] = "idle"
    /\ rate' = wanted /\ Goto(p, "rate")
    /\ UNCHANGED <<card, device, poller, lock, todo, target>>

BeginSync(p) ==
    /\ Usable /\ pc[p] = "idle" /\ Goto(p, "drain")
    /\ UNCHANGED <<card, device, poller, rate, lock, todo, target>>

BeginReset(p) ==
    /\ Usable /\ pc[p] = "idle" /\ Goto(p, "reset")
    /\ UNCHANGED <<card, device, poller, rate, lock, todo, target>>

AfterRate(p) == IF todo[p] > 0 THEN "write" ELSE "idle"

\* Seeded fault: the rate changes at once.
ApplyRate_NoDrain(p) ==
    /\ pc[p] = "rate" /\ lock = NoProc
    /\ IF rate = card.rate THEN Goto(p, AfterRate(p)) /\ UNCHANGED target
       ELSE Goto(p, "setrate") /\ target' = [target EXCEPT ![p] = rate]
    /\ UNCHANGED <<card, device, poller, rate, lock, todo>>

\* apply_rate, up to the drain
ApplyRate(p) ==
    /\ pc[p] = "rate" /\ lock = NoProc
    /\ IF rate = card.rate THEN Goto(p, AfterRate(p)) /\ UNCHANGED target
       ELSE Goto(p, "drain") /\ target' = [target EXCEPT ![p] = rate]
    /\ UNCHANGED <<card, device, poller, rate, lock, todo>>

\* One round of drain: poll, then flush, then look whether anything is left.
DrainPoll(p) ==
    /\ pc[p] = "drain" /\ lock = NoProc
    /\ Becomes(Poll(Now)) /\ lock' = p /\ Goto(p, "flush")
    /\ UNCHANGED <<rate, todo, target>>

\* Seeded fault: only a partial period is waited for.
Busy_PendingOnly(r) == r.fill_bytes > 0

Busy(r) == r.running \/ r.queued > 0 \/ r.fill_bytes > 0

DrainFlush(p) ==
    /\ pc[p] = "flush" /\ Becomes(Flush(Now)) /\ lock' = NoProc
    /\ Goto(p, IF Busy(card'.ring) THEN "drain"
               ELSE IF target[p] # 0 THEN "setrate" ELSE "idle")
    /\ UNCHANGED <<rate, todo, target>>

\* apply_rate, after the drain
SetRate(p) ==
    /\ pc[p] = "setrate" /\ lock = NoProc
    /\ card' = [card EXCEPT !.rate = target[p]]
    /\ target' = [target EXCEPT ![p] = 0] /\ Goto(p, AfterRate(p))
    /\ UNCHANGED <<device, poller, rate, lock, todo>>

\* One round of write_at: poll, then fill what there is room for, converted
\* to the rate the card has now (a converter for another is replaced).
WritePoll(p) ==
    /\ pc[p] = "write" /\ lock = NoProc
    /\ Becomes(Poll(Now)) /\ lock' = p /\ Goto(p, "fill")
    /\ UNCHANGED <<rate, todo, target>>

Fill(p) ==
    LET r == card.ring
        room == PERIOD_BYTES - r.fill_bytes
        count == IF todo[p] < room THEN todo[p] ELSE room
        staged == [Now EXCEPT !.card.staged =
                    IF r.fill_bytes = 0 THEN card.rate ELSE @]
    IN /\ pc[p] = "fill"
       /\ IF todo[p] > 0 /\ HasSpace(r)
          THEN /\ Becomes(CommitStaged(staged, count))
               /\ todo' = [todo EXCEPT ![p] = @ - count]
               /\ UNCHANGED <<lock, pc>>
          ELSE /\ lock' = NoProc /\ Goto(p, IF todo[p] = 0 THEN "idle" ELSE "write")
               /\ UNCHANGED <<card, device, poller, todo>>
       /\ UNCHANGED <<rate, target>>

\* SNDCTL_DSP_RESET
Reset(p) ==
    /\ pc[p] = "reset" /\ lock = NoProc
    /\ Becomes(ResetCard(Now)) /\ Goto(p, "idle")
    /\ UNCHANGED <<rate, lock, todo, target>>

\* Drop for DspHandle: the last descriptor goes.
ClosePoll(p) ==
    /\ Usable /\ lock = NoProc /\ \A q \in Procs : pc[q] = "idle"
    /\ Becomes(Poll(Now)) /\ lock' = p /\ Goto(p, "closing")
    /\ UNCHANGED <<rate, todo, target>>

CloseFlush(p) ==
    /\ pc[p] = "closing"
    /\ LET s == Flush(Now) IN Becomes([s EXCEPT !.card.open = FALSE])
    /\ lock' = NoProc /\ Goto(p, "idle")
    /\ UNCHANGED <<rate, todo, target>>

---------------------------------------------------------------------------

Init ==
    /\ card = [ring |-> NewRing, memory |-> Silent, rate |-> DEFAULT, open |-> FALSE,
               quiet |-> FALSE, staged |-> 0, idle |-> 0]
    /\ \E kind \in Kinds :
        device = [kind |-> kind, broken |-> FALSE, on |-> "stopped", position |-> 0,
                  last |-> 0, previous |-> 0, drained |-> FALSE, beyond |-> FALSE,
                  since_poll |-> 0]
    /\ poller = "none" /\ rate = DEFAULT
    /\ lock = NoProc /\ pc = [p \in Procs |-> "idle"]
    /\ todo = [p \in Procs |-> 0] /\ target = [p \in Procs |-> 0]

Continue(p) ==
    \/ ApplyRate(p) \/ DrainPoll(p) \/ DrainFlush(p) \/ SetRate(p)
    \/ WritePoll(p) \/ Fill(p) \/ Reset(p) \/ CloseFlush(p)

Step(p) ==
    \/ Open(p) \/ BeginSync(p) \/ BeginReset(p)
    \/ p \in Writers /\ \E count \in 1 .. MaxWrite : BeginWrite(p, count)
    \/ p \in Tuners /\ \E wanted \in Rates : BeginSpeed(p, wanted)
    \/ ClosePoll(p) \/ Continue(p)

Next ==
    \/ Play \/ Break \/ Tick \/ PollerStep \/ PollOnly
    \/ \E p \in Procs : Step(p)

\* Continue(p), as fairness sees it: it can be taken inside a section and, elsewhere in a call, when
\* the lock is free; every step of it changes p's place or what it has left to write, and nothing
\* else does while p is in a call.
Sections == {"flush", "fill", "closing"}
Places == Sections \cup {"idle", "rate", "drain", "setrate", "write", "reset"}
Moves(p) ==
    /\ pc[p] \in Sections \/ (pc[p] # "idle" /\ lock = NoProc)
    /\ \E where \in Places, left \in 0 .. MaxWrite :
        /\ where # pc[p] \/ left # todo[p]
        /\ Goto(p, where) /\ todo' = [todo EXCEPT ![p] = left]

\* A call that has begun is carried on and time passes.  The lock is free
\* whenever a task runs (sections have interrupts off), so a task that keeps
\* asking for it gets it.  A working card plays.
Fairness ==
    /\ WF_vars(Play) /\ SF_vars(Tick)
    /\ \A p \in Procs : SF_<<pc, todo>>(Moves(p))

Spec == Init /\ [][Next]_vars /\ Fairness

---------------------------------------------------------------------------
(* Properties *)

\* Every variable has its shape.
TypeOK ==
    /\ card.ring \in [fill_period : Period, fill_bytes : 0 .. PERIOD_BYTES - 1,
                      first_queued : Period, queued : 0 .. MAX_QUEUED, running : BOOLEAN]
    /\ card.memory \in [Period -> [what : {"silent", "new", "heard"}, rate : Rates \cup {0}]]
    /\ card.rate \in Rates /\ card.idle \in 0 .. STALL_MS + 1
    /\ device.on \in {"stopped", "playing", "halted"}
    /\ {device.position, device.last, device.previous} \subseteq Period
    /\ poller \in {"none", "ready", "waiting"} /\ lock \in Procs \cup {NoProc}
    /\ todo \in [Procs -> 0 .. MaxWrite] /\ target \in [Procs -> Rates \cup {0}]

Window(first, count) == {p \in Period : (p + PERIODS - first) % PERIODS < count}

\* ring.rs: "Only silence past the last submitted period."  Whatever polls,
\* writes, underruns, resets and closes happen, ring memory holds audio in
\* exactly the queued periods, so a looping card finds nothing old.
OnlyQueuedIsAudible ==
    \A p \in Period :
        (card.memory[p] # Silence) <=> p \in Window(card.ring.first_queued, card.ring.queued)

\* The assertions of ring.rs: the card is within the queued periods whenever
\* it may be polled, and an idle ring starts at period 0.
AssertionsHold ==
    /\ ~card.ring.running => card.ring.first_queued = 0
    /\ (card.ring.running /\ ~Status(device).halted) =>
        Done(card.ring, Status(device).current) < card.ring.queued

\* What the card plays is what was written, once and in order: while it is
\* within what was submitted, the periods not yet heard are those from its
\* position to the last; past that it is on silence and nothing is left.
PlaysInOrder ==
    device.on = "playing" =>
        LET new == {p \in Period : card.memory[p].what = "new"}
            left == ((device.last + PERIODS - device.position) % PERIODS) + 1
        IN IF device.beyond THEN new = {} /\ card.memory[device.position] = Silence
           ELSE new = Window(device.position, left)

\* Audio leaves the ring by being heard, unless a process resets the card or
\* the card is broken: no poll drops it early, none of it is overwritten,
\* and a working card is never taken for a stalled one.
NothingLost ==
    \A p \in Period : card.memory[p].what = "new" =>
        \/ card'.memory[p].what \in {"new", "heard"}
        \/ device.broken \/ \E q \in Procs : pc[q] = "reset"

\* When SNDCTL_DSP_SYNC returns, nothing written is still to be heard.
SyncMeansHeard ==
    \A p \in Procs : (pc[p] = "flush" /\ pc'[p] # "drain") =>
        pc'[p] = "flush" \/ \A q \in Period : card'.memory[q].what # "new"

\* Audio is played at the rate it was converted to: apply_rate changes the
\* card's rate "after the audio queued at the old rate has played".
RightPitch ==
    device.on = "playing" /\ card.memory[device.position].what = "new" =>
        card.memory[device.position].rate = card.rate

\* write returns, even if the card breaks.
WriteReturns == \A p \in Writers : todo[p] > 0 ~> todo[p] = 0

\* SYNC returns once nobody else writes, even if the card breaks.
SyncReturns ==
    \A p \in Procs : pc[p] = "drain" ~> (pc[p] \notin {"drain", "flush"}
                                         \/ \E q \in Procs \ {p} : todo[q] > 0)

\* The ring is where the driver thinks it is, and audible where it thinks so, while the
\* card moves on its own.
RingConsistent == TypeOK /\ AssertionsHold /\ OnlyQueuedIsAudible

\* The user hears what was written: once, in order and at its pitch.
HeardAsWritten == PlaysInOrder /\ RightPitch

\* Neither write nor SYNC hangs, not even on a card that breaks.
CallsReturn == WriteReturns /\ SyncReturns

\* The driver's view of the ring is the card's, and what the user hears is what was written.
SoundPlays == RingConsistent /\ HeardAsWritten

\* Audio leaves the ring by being heard, and SYNC returns only when it has been.
PlaybackKept == [][NothingLost /\ SyncMeansHeard]_vars
=============================================================================
