----------------------------- MODULE HdaLinkProofs -----------------------------
(***************************************************************************)
(* The proof, for rings of any size and any number of commands and of      *)
(* responses nobody asked for, that command() of the HD Audio driver       *)
(* returns the answer to the command it was called for.                    *)
(***************************************************************************)
EXTENDS HdaLink, TLAPS

---------------------------------------------------------------------------
(* Rings *)

\* The next slot.
Succ(i) == IF i = RING_ENTRIES - 1 THEN 0 ELSE i + 1

\* The slots after `read` up to `written`, cyclically: the responses not read yet.
Unread(read, written) ==
    IF read <= written THEN read + 1 .. written
    ELSE (read + 1 .. RING_ENTRIES - 1) \cup (0 .. written)

\* The slot after a slot is a slot, however the code writes the wrap.
LEMMA SuccIsNext ==
    ASSUME LinkAssumption, NEW i \in Slots
    PROVE  Succ(i) \in Slots /\ (i + 1) % RING_ENTRIES = Succ(i)
BY DEF LinkAssumption, Slots, Succ

\* A response written makes one more slot unread, or none when it catches up with the reader.
LEMMA UnreadGrows ==
    ASSUME LinkAssumption, NEW r \in Slots, NEW w \in Slots
    PROVE  Unread(r, Succ(w)) \subseteq Unread(r, w) \cup {Succ(w)}
BY DEF LinkAssumption, Slots, Succ, Unread

\* A response read is the first of the unread ones.
LEMMA UnreadShrinks ==
    ASSUME LinkAssumption, NEW r \in Slots, NEW w \in Slots, r # w
    PROVE  /\ Succ(r) \in Unread(r, w)
           /\ Unread(Succ(r), w) \subseteq Unread(r, w) \ {Succ(r)}
BY DEF LinkAssumption, Slots, Succ, Unread

\* The unread slots lie within the ring.
LEMMA UnreadAreSlots ==
    ASSUME LinkAssumption, NEW r \in Slots, NEW w \in Slots
    PROVE  Unread(r, w) \subseteq Slots
BY DEF LinkAssumption, Slots, Unread

---------------------------------------------------------------------------
(* The invariant *)

LinkType ==
    /\ n \in Nat /\ corb \in [Slots -> Nat] /\ rirb \in [Slots -> Nat]
    /\ corb_write \in Slots /\ corb_fetch \in Slots
    /\ rirb_written \in Slots /\ rirb_read \in Slots
    /\ working \in Seq(Nat)
    /\ ici \in [busy : BOOLEAN, valid : BOOLEAN, command : Nat \cup {None},
                answer : Nat \cup {None}]
    /\ at \in {"idle", "ring", "free", "busy"}

\* Nothing in the ring of responses but responses that nobody asked for.
NoAnswer == \A i \in Unread(rirb_read, rirb_written) : rirb[i] = 0

\* The ring's one command, still to be fetched, with the codec, or answered.
InCorb == corb_write = Succ(corb_fetch) /\ corb[corb_write] = n /\ working = <<>> /\ NoAnswer
InCodec == corb_fetch = corb_write /\ working = <<n>> /\ NoAnswer
InRirb ==
    /\ corb_fetch = corb_write /\ working = <<>>
    /\ \A i, j \in Unread(rirb_read, rirb_written) :
          rirb[i] \in {0, n} /\ (rirb[i] # 0 /\ rirb[j] # 0 => i = j)

\* While the rings are in use they hold the command that is waited for and no other; a command
\* that timed out there was the last.
LinkInv ==
    /\ LinkType /\ AnswersMatch
    /\ immediate \in BOOLEAN /\ rings_on = ~ immediate
    /\ at # "idle" => seen = None
    /\ at \in {"free", "busy"} => immediate
    /\ at = "busy" => ici.command = n /\ (ici.valid => ici.answer = n)
    /\ at = "ring" => ~ immediate /\ (InCorb \/ InCodec \/ InRirb)
    /\ at = "idle" /\ ~ immediate =>
          corb_fetch = corb_write /\ working = <<>> /\ NoAnswer

---------------------------------------------------------------------------
(* The driver *)

\* A command into the ring finds the ring empty.
LEMMA CommandStep == ASSUME LinkAssumption, LinkInv, Command PROVE LinkInv'
<1>1. LinkType /\ at = "idle" /\ n' = n + 1 /\ seen' = None
  BY Zenon DEF LinkInv, Command
<1>2. CASE immediate
  BY <1>1, <1>2, SMTT(60) DEF LinkInv, LinkType, Command, AnswersMatch
<1>3. CASE ~ immediate
  <2> DEFINE slot == Succ(corb_write)
  <2>1. slot \in Slots /\ corb' = [corb EXCEPT ![slot] = n + 1] /\ corb_write' = slot /\ at' = "ring"
    BY <1>1, <1>3, SuccIsNext, Zenon DEF LinkType, Command
  <2>2. UNCHANGED <<corb_fetch, rirb, rirb_written, rirb_read, rings_on, working, immediate, ici>>
    BY Zenon DEF Command
  <2>3. corb_fetch = corb_write /\ working = <<>> /\ NoAnswer
    BY <1>1, <1>3, Zenon DEF LinkInv
  <2> HIDE DEF slot
  <2>4. corb' \in [Slots -> Nat] /\ corb'[slot] = n + 1
    BY <1>1, <2>1 DEF LinkType
  <2>5. LinkType'
    BY <1>1, <2>1, <2>2, <2>4, Zenon DEF LinkType
  <2>6. InCorb'
    BY <1>1, <2>1, <2>2, <2>3, <2>4, Zenon DEF InCorb, NoAnswer, slot
  <2> QED
    BY <1>1, <1>3, <2>1, <2>2, <2>5, <2>6, Zenon DEF LinkInv, AnswersMatch
<1> QED
  BY <1>2, <1>3, Zenon

\* An entry of the ring is skipped, or it is the answer and the only one.
LEMMA PollStep == ASSUME LinkAssumption, LinkInv, Poll PROVE LinkInv'
<1>1. LinkType /\ at = "ring" /\ rirb_read # rirb_written /\ ~ immediate /\ seen = None
  BY Zenon DEF LinkInv, Poll
<1>2. rirb_read' = Succ(rirb_read) /\ rirb_read' \in Slots
  BY <1>1, SuccIsNext, Zenon DEF LinkType, Poll
<1>3. UNCHANGED <<corb, corb_write, corb_fetch, rirb, rirb_written, rings_on, working, immediate,
                  ici, n>>
  BY Zenon DEF Poll
<1>4. /\ rirb_read' \in Unread(rirb_read, rirb_written)
      /\ Unread(rirb_read', rirb_written') \subseteq
             Unread(rirb_read, rirb_written) \ {rirb_read'}
  BY <1>1, <1>2, <1>3, UnreadShrinks, Zenon DEF LinkType
<1>5. NoAnswer => NoAnswer' /\ rirb[rirb_read'] = 0
  BY <1>3, <1>4, Zenon DEF NoAnswer
<1>6. InRirb => InRirb'
  BY <1>3, <1>4, Zenon DEF InRirb
<1>7. InCorb \/ InCodec \/ InRirb
  BY <1>1, Zenon DEF LinkInv
<1>8. CASE rirb[rirb_read'] = 0
  <2>1. at' = at /\ seen' = seen
    BY <1>8, Zenon DEF Poll
  <2>2. (InCorb \/ InCodec \/ InRirb)'
    BY <1>3, <1>5, <1>6, <1>7, Zenon DEF InCorb, InCodec
  <2>3. LinkType'
    BY <1>1, <1>2, <1>3, <2>1, Zenon DEF LinkType
  <2> QED
    BY <1>1, <1>3, <2>1, <2>2, <2>3, Zenon DEF LinkInv, AnswersMatch
<1>9. CASE rirb[rirb_read'] # 0
  <2>1. at' = "idle" /\ seen' = rirb[rirb_read']
    BY <1>9, Zenon DEF Poll
  <2>2. InRirb
    BY <1>5, <1>7, <1>9, Zenon DEF InCorb, InCodec
  <2>3. rirb[rirb_read'] = n
    BY <1>4, <1>9, <2>2, Zenon DEF InRirb
  <2>4. NoAnswer'
    BY <1>3, <1>4, <1>9, <2>2, Zenon DEF InRirb, NoAnswer
  <2>5. LinkType'
    BY <1>1, <1>2, <1>3, <2>1, Zenon DEF LinkType
  <2> QED
    BY <1>1, <1>3, <2>1, <2>2, <2>3, <2>4, <2>5, Zenon DEF LinkInv, AnswersMatch, InRirb
<1> QED
  BY <1>8, <1>9, Zenon

\* Giving up on the ring turns it off for good.
LEMMA RingTimeoutStep == ASSUME LinkInv, RingTimeout PROVE LinkInv'
<1>1. LinkType'
  BY Zenon DEF LinkInv, LinkType, RingTimeout
<1> QED
  BY <1>1, Zenon DEF LinkInv, RingTimeout, AnswersMatch

\* The immediate registers hold one command, the one waited for if any is.
LEMMA ImmediateStep ==
    ASSUME LinkInv, Issue \/ TakeAnswer \/ ImmediateTimeout \/ AnswerImmediate PROVE LinkInv'
<1>1. LinkType /\ UNCHANGED <<Ring, immediate, n>>
  BY Zenon DEF LinkInv, Issue, TakeAnswer, ImmediateTimeout, AnswerImmediate
<1>2. UNCHANGED <<corb, corb_write, corb_fetch, rirb, rirb_written, rirb_read, rings_on, working>>
  BY <1>1, Zenon DEF Ring
<1>3. CASE Issue
  <2>1. LinkType'
    BY <1>1, <1>2, <1>3, Zenon DEF LinkType, Issue
  <2> QED
    BY <1>1, <1>2, <1>3, <2>1 DEF LinkInv, Issue, AnswersMatch
<1>4. CASE TakeAnswer
  <2>1. LinkType' /\ immediate /\ ici.answer = n
    BY <1>1, <1>2, <1>4, Zenon DEF LinkType, LinkInv, TakeAnswer
  <2> QED
    BY <1>1, <1>2, <1>4, <2>1 DEF LinkInv, TakeAnswer, AnswersMatch
<1>5. CASE ImmediateTimeout
  <2>1. LinkType' /\ immediate /\ seen = None
    BY <1>1, <1>2, <1>5, Zenon DEF LinkType, LinkInv, ImmediateTimeout
  <2> QED
    BY <1>1, <1>2, <1>5, <2>1 DEF LinkInv, ImmediateTimeout, AnswersMatch
<1>6. CASE AnswerImmediate
  <2>1. LinkType' /\ ici'.command = ici.command /\ ici'.answer = ici.command
    BY <1>1, <1>2, <1>6, Zenon DEF LinkType, AnswerImmediate
  <2>2. at' = at /\ seen' = seen
    BY <1>6, Zenon DEF AnswerImmediate
  <2>3. (InCorb \/ InCodec \/ InRirb)' = (InCorb \/ InCodec \/ InRirb) /\ NoAnswer' = NoAnswer
    BY <1>1, <1>2 DEF InCorb, InCodec, InRirb, NoAnswer
  <2> QED
    BY <1>1, <1>2, <2>1, <2>2, <2>3, Zenon DEF LinkInv, AnswersMatch
<1> QED
  BY <1>3, <1>4, <1>5, <1>6, Zenon

---------------------------------------------------------------------------
(* The controller and its codecs *)

\* The command moves from the ring to the codec.
LEMMA FetchStep == ASSUME LinkAssumption, LinkInv, Fetch PROVE LinkInv'
<1>1. LinkType /\ ~ immediate /\ corb_fetch # corb_write
  BY Zenon DEF LinkInv, Fetch
<1>2. corb_fetch' = Succ(corb_fetch) /\ corb_fetch' \in Slots
  BY <1>1, SuccIsNext, Zenon DEF LinkType, Fetch
<1>3. at = "ring" /\ InCorb
  BY <1>1, Zenon DEF LinkInv, LinkType, InCodec, InRirb
<1>4. UNCHANGED <<corb, corb_write, rirb, rirb_written, rirb_read, rings_on, immediate, ici, at, n,
                  seen>>
  BY Zenon DEF Fetch
<1>5. corb_fetch' = corb_write /\ working' = <<n>>
  BY <1>1, <1>2, <1>3 DEF InCorb, Fetch
<1>6. LinkType'
  BY <1>1, <1>2, <1>4, <1>5, SMTT(60) DEF LinkType
<1>7. InCodec'
  BY <1>3, <1>4, <1>5, Zenon DEF InCorb, InCodec, NoAnswer
<1> QED
  BY <1>1, <1>3, <1>4, <1>6, <1>7, Zenon DEF LinkInv, AnswersMatch

\* What a response adds to the unread ones.
LEMMA Responds ==
    ASSUME LinkAssumption, LinkType, NEW entry \in Nat, Respond(entry), rirb_read' = rirb_read
    PROVE  /\ rirb' \in [Slots -> Nat] /\ rirb_written' \in Slots
           /\ \A i \in Unread(rirb_read', rirb_written') :
                  \/ i = rirb_written' /\ rirb'[i] = entry
                  \/ i # rirb_written' /\ i \in Unread(rirb_read, rirb_written) /\ rirb'[i] = rirb[i]
<1>1. rirb_written' = Succ(rirb_written) /\ rirb_written' \in Slots
  BY SuccIsNext, Zenon DEF LinkType, Respond
<1>2. rirb' = [rirb EXCEPT ![rirb_written'] = entry]
  BY Zenon DEF Respond
<1>3. Unread(rirb_read', rirb_written') \subseteq
          Unread(rirb_read, rirb_written) \cup {rirb_written'}
  BY <1>1, UnreadGrows, Zenon DEF LinkType
<1>4. Unread(rirb_read, rirb_written) \subseteq Slots
  BY UnreadAreSlots, Zenon DEF LinkType
<1> QED
  BY <1>1, <1>2, <1>3, <1>4, Zenon DEF LinkType

\* The codec answers: into the ring of responses, or into nothing once the rings are off.
LEMMA AnswerStep == ASSUME LinkAssumption, LinkInv, Answer PROVE LinkInv'
<1>1. LinkType /\ working # <<>> /\ working' = Tail(working) /\ working \in Seq(Nat)
  BY Zenon DEF LinkInv, Answer, LinkType
<1>2. UNCHANGED <<corb, corb_write, corb_fetch, rirb_read, rings_on, immediate, ici, at, n, seen>>
  BY Zenon DEF Answer
<1>3. working' \in Seq(Nat) /\ Head(working) \in Nat
  BY <1>1
<1>4. CASE immediate
  <2>1. UNCHANGED <<rirb, rirb_written>>
    BY <1>4, Zenon DEF Answer, LinkInv
  <2>2. LinkType'
    BY <1>1, <1>2, <1>3, <2>1, Zenon DEF LinkType
  <2> QED
    BY <1>2, <1>4, <2>2, Zenon DEF LinkInv, AnswersMatch
<1>5. CASE ~ immediate
  <2>1. at = "ring" /\ InCodec
    BY <1>1, <1>5, Zenon DEF LinkInv, LinkType, InCorb, InRirb
  <2>2. working = <<n>> /\ working' = <<>> /\ Respond(n) /\ n \in Nat
    <3>1. working = <<n>> /\ n \in Nat /\ rings_on
      BY <1>1, <1>5, <2>1, Zenon DEF InCodec, LinkInv, LinkType
    <3>2. Head(<<n>>) = n /\ Tail(<<n>>) = <<>>
      OBVIOUS
    <3>3. Respond(Head(working))
      BY <3>1, Zenon DEF Answer
    <3> QED
      BY <1>1, <3>1, <3>2, <3>3, Zenon
  <2>3. /\ rirb' \in [Slots -> Nat] /\ rirb_written' \in Slots
        /\ \A i \in Unread(rirb_read', rirb_written') :
               \/ i = rirb_written' /\ rirb'[i] = n
               \/ i # rirb_written' /\ i \in Unread(rirb_read, rirb_written) /\ rirb'[i] = rirb[i]
    BY <1>1, <1>2, <2>2, Responds, Zenon
  <2>4. LinkType'
    BY <1>1, <1>2, <1>3, <2>3, Zenon DEF LinkType
  <2>5. InRirb'
    <3>1. \A i \in Unread(rirb_read', rirb_written') :
              (rirb'[i] = n /\ i = rirb_written') \/ rirb'[i] = 0
      BY <2>1, <2>3, Zenon DEF InCodec, NoAnswer
    <3>2. corb_fetch' = corb_write' /\ working' = <<>> /\ n' = n
      BY <1>2, <2>1, <2>2, Zenon DEF InCodec
    <3> QED
      BY <3>1, <3>2, Zenon DEF InRirb
  <2> QED
    BY <1>2, <1>5, <2>1, <2>4, <2>5, Zenon DEF LinkInv, AnswersMatch
<1> QED
  BY <1>4, <1>5, Zenon

\* A response that nobody asked for may hide the answer, by overrunning it, but is never taken
\* for one.
LEMMA UnsolicitedStep == ASSUME LinkAssumption, LinkInv, Unsolicited PROVE LinkInv'
<1>1. LinkType /\ ~ immediate /\ Respond(0)
  BY Zenon DEF LinkInv, Unsolicited
<1>2. UNCHANGED <<corb, corb_write, corb_fetch, rirb_read, rings_on, working, immediate, ici, at, n,
                  seen>>
  BY Zenon DEF Unsolicited
<1>3. /\ rirb' \in [Slots -> Nat] /\ rirb_written' \in Slots
      /\ \A i \in Unread(rirb_read', rirb_written') :
             \/ i = rirb_written' /\ rirb'[i] = 0
             \/ i # rirb_written' /\ i \in Unread(rirb_read, rirb_written) /\ rirb'[i] = rirb[i]
  BY <1>1, <1>2, Responds, Zenon
<1>4. LinkType'
  BY <1>1, <1>2, <1>3, Zenon DEF LinkType
<1>5. NoAnswer => NoAnswer'
  BY <1>3, Zenon DEF NoAnswer
<1>6. InRirb => InRirb'
  BY <1>2, <1>3, Zenon DEF InRirb
<1>7. InCorb \/ InCodec \/ InRirb => (InCorb \/ InCodec \/ InRirb)'
  BY <1>2, <1>5, <1>6, Zenon DEF InCorb, InCodec
<1> QED
  BY <1>1, <1>2, <1>4, <1>5, <1>7, Zenon DEF LinkInv, AnswersMatch

---------------------------------------------------------------------------
(* The theorem *)

\* start_rings leaves both rings empty, so the invariant holds at first.
LEMMA LinkInit == ASSUME LinkAssumption, Init PROVE LinkInv
<1>1. 0 \in Slots /\ Unread(0, 0) = {}
  BY DEF LinkAssumption, Slots, Unread
<1>2. LinkType
  BY <1>1 DEF Init, LinkType
<1> QED
  BY <1>1, <1>2, Zenon DEF Init, LinkInv, AnswersMatch, NoAnswer

\* No step of the driver or of the controller breaks the invariant.
LEMMA LinkStep == ASSUME LinkAssumption, LinkInv, [Next]_vars PROVE LinkInv'
<1>1. CASE UNCHANGED vars
  <2>1. UNCHANGED <<corb, corb_write, corb_fetch, rirb, rirb_written, rirb_read, rings_on, working,
                    immediate, ici, at, n, seen>>
    BY <1>1, Zenon DEF vars
  <2> QED
    BY <2>1 DEF LinkInv, LinkType, AnswersMatch, InCorb, InCodec, InRirb, NoAnswer
<1> QED
  BY <1>1, CommandStep, PollStep, RingTimeoutStep, ImmediateStep, FetchStep, AnswerStep,
     UnsolicitedStep, Zenon DEF Next

\* The response that command() returns is the answer to that very command, for rings of any size:
\* never a late answer to one that timed out, whichever way it went, and never an unsolicited
\* response, even when those overrun the ring.
THEOREM LinkAnswersMatch == ASSUME LinkAssumption PROVE Spec => []AnswersMatch
<1>1. Init => LinkInv
  BY LinkInit, Zenon
<1>2. LinkInv /\ [Next]_vars => LinkInv'
  BY LinkStep, Zenon
<1>3. LinkInv => AnswersMatch
  BY Zenon DEF LinkInv
<1> QED
  BY <1>1, <1>2, <1>3, PTL DEF Spec
=============================================================================
