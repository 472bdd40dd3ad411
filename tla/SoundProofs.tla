---------------------------- MODULE SoundProofs ----------------------------
(***************************************************************************)
(* Proofs about Sound: for any size of ring, any number of processes and   *)
(* either card, the driver's view of the ring is the card's, audio is      *)
(* played once and in order and leaves the ring only by being heard; and   *)
(* when one process writes and sets the rate, at the right pitch.          *)
(*                                                                         *)
(* The invariant counts periods from first_queued on.  While the card runs *)
(* since_poll is how far it has come from there: the queued periods before *)
(* it have been heard, the others have not.                                *)
(***************************************************************************)
EXTENDS Sound, TLAPS

---------------------------------------------------------------------------
(* The inductive invariant *)

\* The period that is i after a, and how far after a the period p is.
At(a, i) == (a + i) % PERIODS
Off(a, p) == (p + PERIODS - a) % PERIODS

RingType == [fill_period : Period, fill_bytes : 0 .. PERIOD_BYTES - 1, first_queued : Period,
             queued : 0 .. MAX_QUEUED, running : BOOLEAN]
CellType == [what : {"silent", "new", "heard"}, rate : Rates \cup {0}]
CardType == [ring : RingType, memory : [Period -> CellType], rate : Rates, open : BOOLEAN,
             quiet : BOOLEAN, staged : Rates \cup {0}, idle : 0 .. STALL_MS + 1]
DeviceType == [kind : Kinds, broken : BOOLEAN, on : {"stopped", "playing", "halted"},
               position : Period, last : Period, previous : Period, drained : BOOLEAN,
               beyond : BOOLEAN, since_poll : Period]
PollerType == {"none", "ready", "waiting"}
CoreType == [card : CardType, device : DeviceType, poller : PollerType]

\* The ring by itself.
RingSound(r) ==
    /\ r.fill_period = At(r.first_queued, r.queued)
    /\ ~r.running => r.first_queued = 0
    /\ r.running => r.queued > 0

\* Silence outside the n periods from q on; of these, the first k have been heard.
Marks(memory, q, n, k) ==
    \A p \in Period :
        /\ memory[p].what = IF Off(q, p) >= n THEN "silent"
                            ELSE IF Off(q, p) < k THEN "heard" ELSE "new"
        /\ memory[p].what = "silent" => memory[p] = Silence

\* What the card has passed has been heard.
MemorySound(c, d) ==
    Marks(c.memory, c.ring.first_queued, c.ring.queued,
          IF c.ring.running THEN d.since_poll ELSE 0)

\* A card that the ring takes to be running.
Runs(c, d) ==
    LET r == c.ring
    IN /\ d.last = At(r.first_queued, r.queued - 1) /\ ~d.drained /\ ~c.quiet
       /\ c.idle > STALL_MS => d.broken \/ d.since_poll > 0
       /\ d.kind = "AC97" =>
            /\ ~d.beyond
            /\ \/ /\ d.on = "playing" /\ d.since_poll < r.queued
                  /\ d.position = At(r.first_queued, d.since_poll)
               \/ /\ d.on = "halted" /\ d.since_poll = r.queued
                  /\ d.position = d.last
       /\ d.kind # "AC97" =>
            /\ d.on = "playing" /\ d.previous = r.first_queued
            /\ d.position = At(r.first_queued, d.since_poll)
            /\ d.beyond <=> d.since_poll >= r.queued

\* One that it takes to be idle: it has come to an end by itself and is heard as silence,
\* or it is stopped.
Idles(c, d) ==
    IF c.quiet
    THEN /\ c.ring.queued = 0
         /\ d.on = IF d.kind = "AC97" THEN "halted" ELSE "playing"
         /\ d.kind # "AC97" => d.beyond /\ d.drained
    ELSE d.on = "stopped"

CoreSound(c, d, o) ==
    /\ c \in CardType /\ d \in DeviceType /\ o \in PollerType
    /\ RingSound(c.ring) /\ MemorySound(c, d)
    /\ c.ring.running => Runs(c, d) /\ o = "ready"
    /\ ~c.ring.running => Idles(c, d)

\* What a section may count on after its poll.
Polled(c, d) ==
    /\ c.ring.running => d.since_poll <= 1
    /\ ~c.ring.running => c.idle = 0

CallsAgree ==
    /\ rate \in Rates /\ lock \in Procs \cup {NoProc} /\ pc \in [Procs -> Places]
    /\ todo \in [Procs -> 0 .. MaxWrite] /\ target \in [Procs -> Rates \cup {0}]
    /\ \A p \in Procs : pc[p] \in Sections <=> lock = p
    /\ \A p \in Procs : pc[p] = "setrate" => target[p] # 0

SoundInv ==
    /\ CoreSound(card, device, poller) /\ CallsAgree
    /\ lock # NoProc => Polled(card, device)

\* One process writes and sets the rate.
Users == Writers \cup Tuners
OneUser == \A p, q \in Users : p = q

\* What is queued and staged is at the card's rate, ...
Tuned(c) ==
    /\ \A p \in Period : c.memory[p].what # "silent" => c.memory[p].rate = c.rate
    /\ c.ring.fill_bytes > 0 => c.staged = c.rate

\* ... which is set only when nothing is, and by a user.
PitchInv ==
    /\ Tuned(card)
    /\ \A p \in Procs : pc[p] = "setrate" => ~Busy(card.ring)
    /\ \A p \in Procs \ Users : target[p] = 0 /\ todo[p] = 0
                                /\ pc[p] \notin {"rate", "setrate", "write", "fill"}

---------------------------------------------------------------------------
(* Places in the ring *)

\* The bounds that everything here uses.
LEMMA Sizes ==
    /\ PERIODS \in Nat \ {0} /\ PERIODS >= 2 /\ 0 \in Period /\ 1 \in Period
    /\ Period \subseteq Nat /\ \A i \in Period : i < PERIODS
    /\ \A i \in Nat : i < PERIODS => i \in Period
    /\ MAX_QUEUED = PERIODS - 1 /\ 0 .. MAX_QUEUED = Period
BY SoundAssumption DEF Period, MAX_QUEUED

\* Going on from a period ...
LEMMA AtIs ==
    ASSUME NEW a \in Period, NEW i \in Nat, i <= PERIODS
    PROVE  At(a, i) = IF a + i < PERIODS THEN a + i ELSE a + i - PERIODS
<1>1. a \in Nat /\ a + i \in Nat /\ a + i < PERIODS + PERIODS /\ PERIODS \in Nat \ {0}
  BY Sizes
<1>2. CASE a + i < PERIODS
  BY <1>1, <1>2 DEF At
<1>3. CASE ~(a + i < PERIODS)
  BY <1>1, <1>3 DEF At
<1> QED
  BY <1>2, <1>3, Zenon

\* ... and back.
LEMMA OffIs ==
    ASSUME NEW a \in Period, NEW p \in Period
    PROVE  Off(a, p) = IF a <= p THEN p - a ELSE p + PERIODS - a
<1>1. /\ a \in Nat /\ p \in Nat /\ a < PERIODS /\ p < PERIODS /\ PERIODS \in Nat \ {0}
  BY Sizes, Zenon
<1>2. p + PERIODS - a \in Nat /\ p + PERIODS - a < PERIODS + PERIODS
  BY <1>1
<1>3. CASE a <= p
  BY <1>1, <1>2, <1>3 DEF Off
<1>4. CASE ~(a <= p)
  BY <1>1, <1>2, <1>4 DEF Off
<1> QED
  BY <1>3, <1>4, Zenon

\* Both stay in the ring and undo each other.
LEMMA Around ==
    ASSUME NEW a \in Period, NEW i \in Period
    PROVE  /\ At(a, i) \in Period /\ Off(a, i) \in Period
           /\ Off(a, At(a, i)) = i /\ At(a, Off(a, i)) = i
           /\ At(0, i) = i /\ At(a, 0) = a /\ Off(0, i) = i /\ Off(a, a) = 0
<1>1. a \in Nat /\ i \in Nat /\ a < PERIODS /\ i < PERIODS /\ PERIODS \in Nat
  BY Sizes, Zenon
<1>2. At(a, i) = IF a + i < PERIODS THEN a + i ELSE a + i - PERIODS
  BY <1>1, AtIs
<1>3. At(a, i) \in Period
  BY <1>1, <1>2, Sizes
<1>4. Off(a, i) = IF a <= i THEN i - a ELSE i + PERIODS - a
  BY OffIs, Zenon
<1>5. Off(a, i) \in Period
  BY <1>1, <1>4, Sizes
<1>6. Off(a, At(a, i)) = i
  BY <1>1, <1>2, <1>3, OffIs
<1>7. At(a, Off(a, i)) = i
  <2>1. PICK o \in Nat : o = Off(a, i) /\ o <= PERIODS
    BY <1>5, Sizes
  <2>2. At(a, o) = IF a + o < PERIODS THEN a + o ELSE a + o - PERIODS
    BY <2>1, AtIs, Zenon
  <2> QED
    BY <1>1, <1>4, <2>1, <2>2
<1>8. At(0, i) = i /\ At(a, 0) = a
  BY <1>1, Sizes, AtIs
<1>9. Off(0, i) = i /\ Off(a, a) = 0
  BY <1>1, Sizes, OffIs
<1> QED
  BY <1>3, <1>5, <1>6, <1>7, <1>8, <1>9, Zenon

\* The same, as a fact to instantiate.
LEMMA OffAt == \A a \in Period, i \in Period : At(a, i) \in Period /\ Off(a, At(a, i)) = i
BY Around, Zenon
\* How far one period is after another is a number.
LEMMA OffNat == \A a \in Period, p \in Period : Off(a, p) \in Nat
BY Around, Sizes, Zenon

\* Distances from a later period.
LEMMA Further ==
    ASSUME NEW a \in Period, NEW k \in Period, NEW p \in Period
    PROVE  Off(At(a, k), p) = IF Off(a, p) >= k THEN Off(a, p) - k ELSE Off(a, p) + PERIODS - k
<1>1. /\ a \in Nat /\ k \in Nat /\ p \in Nat /\ a < PERIODS /\ k < PERIODS /\ p < PERIODS
      /\ PERIODS \in Nat
  BY Sizes, Zenon
<1>2. At(a, k) = IF a + k < PERIODS THEN a + k ELSE a + k - PERIODS
  BY <1>1, AtIs
<1>3. Off(a, p) = IF a <= p THEN p - a ELSE p + PERIODS - a
  BY OffIs, Zenon
<1>4. Off(At(a, k), p) = IF At(a, k) <= p THEN p - At(a, k) ELSE p + PERIODS - At(a, k)
  BY Around, OffIs, Zenon
<1> QED
  BY <1>1, <1>2, <1>3, <1>4

\* Steps add up.
LEMMA Onward ==
    ASSUME NEW a \in Period, NEW i \in Period, NEW j \in Nat, i + j <= PERIODS
    PROVE  At(At(a, i), j) = At(a, i + j)
<1>1. a \in Nat /\ i \in Nat /\ a < PERIODS /\ i < PERIODS /\ PERIODS \in Nat
  BY Sizes, Zenon
<1>2. At(a, i) = IF a + i < PERIODS THEN a + i ELSE a + i - PERIODS
  BY <1>1, AtIs
<1>3. At(a, i + j) = IF a + (i + j) < PERIODS THEN a + (i + j) ELSE a + (i + j) - PERIODS
  BY <1>1, AtIs
<1>4. At(At(a, i), j) = IF At(a, i) + j < PERIODS THEN At(a, i) + j ELSE At(a, i) + j - PERIODS
  BY <1>1, Around, AtIs
<1> QED
  BY <1>1, <1>2, <1>3, <1>4

\* The queue of n periods from q on, after the first k.
LEMMA Rest ==
    ASSUME NEW q \in Period, NEW n \in Period, NEW k \in Nat, k < n
    PROVE  /\ At(q, k) \in Period /\ n - k \in 0 .. MAX_QUEUED /\ n - k > 0 /\ ~(0 >= n - k)
           /\ 0 < n - k /\ k <= n /\ At(At(q, k), n - k) = At(q, n)
           /\ At(At(q, k), n - k - 1) = At(q, n - 1) /\ At(At(q, k), 0) = At(q, k)
<1>1. /\ k \in Period /\ n \in Nat /\ n < PERIODS /\ PERIODS \in Nat /\ 0 \in Period
      /\ MAX_QUEUED = PERIODS - 1
  BY Sizes
<1>2. At(q, k) \in Period
  BY <1>1, Around, Zenon
<1>3. At(At(q, k), 0) = At(q, k)
  BY <1>1, <1>2, Around, Zenon
<1>4. PICK i \in Nat : i = n - k /\ k + i = n /\ i > 0 /\ i <= PERIODS - 1
  BY <1>1
<1>5. At(At(q, k), i) = At(q, k + i)
  BY <1>1, <1>4, Onward
<1>6. PICK j \in Nat : j = i - 1 /\ k + j = n - 1
  BY <1>1, <1>4
<1>7. At(At(q, k), j) = At(q, k + j)
  BY <1>1, <1>6, Onward
<1> QED
  BY <1>1, <1>2, <1>3, <1>4, <1>5, <1>6, <1>7

\* What Card::poll silences: the first count queued periods.
LEMMA PlayedIs ==
    ASSUME NEW q \in Period, NEW count \in Nat, count <= PERIODS, NEW p \in Period
    PROVE  p \in Played(q, count) <=> Off(q, p) < count
<1>1. ASSUME NEW i \in 0 .. count - 1, p = (q + i) % PERIODS PROVE Off(q, p) < count
  <2>1. i \in Period /\ p = At(q, i)
    BY <1>1, SoundAssumption DEF Period, At
  <2> QED
    BY <2>1, Around
<1>2. ASSUME Off(q, p) < count PROVE \E i \in 0 .. count - 1 : p = (q + i) % PERIODS
  <2>1. Off(q, p) \in Nat
    BY Around, Sizes, Zenon
  <2>2. Off(q, p) \in 0 .. count - 1
    BY <1>2, <2>1
  <2>3. p = At(q, Off(q, p))
    BY Around, Zenon
  <2> QED
    BY <2>2, <2>3, Zenon DEF At
<1> QED
  BY <1>1, <1>2, Zenon DEF Played

---------------------------------------------------------------------------
(* Ring memory *)

\* An empty ring is silent.
LEMMA MarksNone ==
    ASSUME NEW q \in Period, NEW k, NEW m, \A p \in Period : m[p] = Silence
    PROVE  Marks(m, q, 0, k)
<1>1. \A p \in Period : Off(q, p) \in Nat
  BY Around, Sizes, Zenon
<1> QED
  BY <1>1 DEF Marks, Silence

\* Card::poll while the card is within the queue: what it has passed is silenced, and the
\* queue begins where it is.
LEMMA MarksPoll ==
    ASSUME NEW m, NEW q \in Period, NEW n \in Period, NEW k \in Nat, k <= n, Marks(m, q, n, k),
           NEW mm, \A p \in Period : mm[p] = IF p \in Played(q, k) THEN Silence ELSE m[p]
    PROVE  Marks(mm, At(q, k), n - k, 0)
<1>1. k \in Period /\ n \in Nat /\ n < PERIODS /\ PERIODS \in Nat /\ k <= PERIODS
  BY Sizes
<1>2. SUFFICES ASSUME NEW p \in Period
               PROVE  /\ mm[p].what = IF Off(At(q, k), p) >= n - k THEN "silent"
                                      ELSE IF Off(At(q, k), p) < 0 THEN "heard" ELSE "new"
                      /\ mm[p].what = "silent" => mm[p] = Silence
  BY Zenon DEF Marks
<1>3. PICK i \in Nat : i = Off(q, p) /\ i < PERIODS
  BY Around, Sizes, ZenonT(60)
<1>4. Off(At(q, k), p) = IF i >= k THEN i - k ELSE i + PERIODS - k
  BY <1>1, <1>3, Further, ZenonT(60)
<1>5. /\ m[p].what = IF i >= n THEN "silent" ELSE IF i < k THEN "heard" ELSE "new"
      /\ m[p].what = "silent" => m[p] = Silence
  BY <1>3, Zenon DEF Marks
<1>6. p \in Played(q, k) <=> i < k
  BY <1>1, <1>3, PlayedIs, Zenon
<1>7. CASE i < k
  <2>1. mm[p] = Silence /\ ~(i >= k)
    BY <1>1, <1>6, <1>7
  <2>2. Off(At(q, k), p) >= n - k
    BY <1>1, <1>4, <1>7
  <2> QED
    BY <2>1, <2>2 DEF Silence
<1>8. CASE ~(i < k)
  <2>1. mm[p] = m[p] /\ Off(At(q, k), p) = i - k
    BY <1>1, <1>4, <1>6, <1>8
  <2>2. (Off(At(q, k), p) >= n - k <=> i >= n) /\ ~(Off(At(q, k), p) < 0)
    BY <1>1, <1>8, <2>1
  <2> QED
    BY <1>5, <1>8, <2>1, <2>2, Zenon
<1> QED
  BY <1>7, <1>8, Zenon

\* ... and once it has left the queue: all of it is silenced.
LEMMA MarksDone ==
    ASSUME NEW m, NEW q \in Period, NEW n \in Period, NEW k, Marks(m, q, n, k),
           NEW mm, \A p \in Period : mm[p] = IF p \in Played(q, n) THEN Silence ELSE m[p]
    PROVE  \A p \in Period : mm[p] = Silence
<1>1. n \in Nat /\ n <= PERIODS
  BY Sizes
<1>2. SUFFICES ASSUME NEW p \in Period PROVE mm[p] = Silence
  BY Zenon
<1>3. Off(q, p) \in Nat
  BY Around, Sizes, Zenon
<1>4. p \in Played(q, n) <=> Off(q, p) < n
  BY <1>1, PlayedIs, Zenon
<1>5. CASE Off(q, p) < n
  BY <1>4, <1>5, Zenon
<1>6. CASE ~(Off(q, p) < n)
  <2>1. Off(q, p) >= n
    BY <1>1, <1>3, <1>6
  <2> QED
    BY <1>4, <1>6, <2>1, Zenon DEF Marks
<1> QED
  BY <1>5, <1>6, Zenon

\* The card finishes a period.
LEMMA MarksPlay ==
    ASSUME NEW m, NEW q \in Period, NEW n \in Period, NEW k \in Period, Marks(m, q, n, k),
           NEW mm, \A p \in Period : p # At(q, k) => mm[p] = m[p],
           mm[At(q, k)] = [m[At(q, k)] EXCEPT !.what = IF @ = "new" THEN "heard" ELSE @],
           m[At(q, k)] \in CellType
    PROVE  Marks(mm, q, n, k + 1)
<1> DEFINE a == At(q, k)
<1>1. a \in Period /\ Off(q, a) = k /\ k \in Nat /\ n \in Nat
  BY Around, Sizes
<1>2. ASSUME NEW p \in Period, p # a
      PROVE  /\ mm[p].what = IF Off(q, p) >= n THEN "silent"
                             ELSE IF Off(q, p) < k + 1 THEN "heard" ELSE "new"
             /\ mm[p].what = "silent" => mm[p] = Silence
  <2>1. Off(q, p) \in Nat /\ At(q, Off(q, p)) = p
    BY Around, Sizes, ZenonT(60)
  <2>2. Off(q, p) # k
    BY <1>2, <2>1, Zenon
  <2>3. Off(q, p) < k + 1 <=> Off(q, p) < k
    BY <1>1, <2>1, <2>2
  <2> QED
    BY <1>2, <2>3, Zenon DEF Marks
<1>3. /\ mm[a].what = IF m[a].what = "new" THEN "heard" ELSE m[a].what
      /\ m[a].what # "new" => mm[a] = m[a]
  BY Zenon DEF CellType
<1>4. /\ mm[a].what = IF k >= n THEN "silent" ELSE IF k < k + 1 THEN "heard" ELSE "new"
      /\ mm[a].what = "silent" => mm[a] = Silence
  <2>1. /\ m[a].what = IF k >= n THEN "silent" ELSE IF k < k THEN "heard" ELSE "new"
        /\ m[a].what = "silent" => m[a] = Silence
    BY <1>1, ZenonT(60) DEF Marks
  <2> QED
    BY <1>1, <1>3, <2>1
<1>5. ASSUME NEW p \in Period
      PROVE  /\ mm[p].what = IF Off(q, p) >= n THEN "silent"
                             ELSE IF Off(q, p) < k + 1 THEN "heard" ELSE "new"
             /\ mm[p].what = "silent" => mm[p] = Silence
  <2>1. CASE p = a
    BY <1>1, <1>4, <2>1, ZenonT(60)
  <2>2. CASE p # a
    BY <1>2, <2>2, ZenonT(60)
  <2> QED
    BY <2>1, <2>2, Zenon
<1> QED
  BY <1>5, ZenonT(60) DEF Marks

\* A period is committed behind the queue.
LEMMA MarksCommit ==
    ASSUME NEW m, NEW q \in Period, NEW n \in Period, NEW k \in Nat, k <= n, Marks(m, q, n, k),
           NEW mm, \A p \in Period : p # At(q, n) => mm[p] = m[p], mm[At(q, n)].what = "new"
    PROVE  Marks(mm, q, n + 1, k)
<1> DEFINE a == At(q, n)
<1>1. a \in Period /\ Off(q, a) = n /\ n \in Nat
  BY Around, Sizes
<1>2. ASSUME NEW p \in Period, p # a
      PROVE  /\ mm[p].what = IF Off(q, p) >= n + 1 THEN "silent"
                             ELSE IF Off(q, p) < k THEN "heard" ELSE "new"
             /\ mm[p].what = "silent" => mm[p] = Silence
  <2>1. Off(q, p) \in Nat /\ At(q, Off(q, p)) = p
    BY Around, Sizes, ZenonT(60)
  <2>2. Off(q, p) # n
    BY <1>2, <2>1, Zenon
  <2>3. Off(q, p) >= n + 1 <=> Off(q, p) >= n
    BY <1>1, <2>1, <2>2
  <2> QED
    BY <1>2, <2>3, Zenon DEF Marks
<1>3. ~(n >= n + 1) /\ ~(n < k)
  BY <1>1
<1> QED
  BY <1>1, <1>2, <1>3, Zenon DEF Marks

---------------------------------------------------------------------------
(* The drivers *)

\* AudioDevice::stop
LEMMA StopIs ==
    ASSUME NEW d \in DeviceType
    PROVE  /\ StopDevice(d) \in DeviceType /\ StopDevice(d).kind = d.kind
           /\ StopDevice(d).broken = d.broken /\ StopDevice(d).on = "stopped"
BY Sizes, Zenon DEF StopDevice, DeviceType

\* AudioDevice::start
Started(d, last, t) ==
    /\ t \in DeviceType /\ t.kind = d.kind /\ t.broken = d.broken
    /\ t.on = "playing" /\ t.position = 0 /\ t.last = last /\ t.previous = 0
    /\ ~t.drained /\ ~t.beyond /\ t.since_poll = 0

\* ... from the first period on, up to the last one queued.
LEMMA StartIs == \A d \in DeviceType, last \in Period : Started(d, last, StartDevice(d, last))
<1> SUFFICES ASSUME NEW d \in DeviceType, NEW last \in Period
             PROVE  Started(d, last, StartDevice(d, last))
  BY Zenon
<1> QED
  BY Sizes, ZenonT(60) DEF StartDevice, StopDevice, DeviceType, Started

\* AudioDevice::submit
Submitted(d, last, t) ==
    /\ t \in DeviceType /\ t.kind = d.kind /\ t.broken = d.broken
    /\ t.last = last /\ t.previous = d.previous /\ t.drained = d.drained
    /\ t.since_poll = d.since_poll
    /\ (d.kind = "AC97" /\ d.on = "halted") =>
        t.on = "playing" /\ t.position = At(d.position, 1) /\ t.beyond = d.beyond
    /\ ~(d.kind = "AC97" /\ d.on = "halted") =>
        /\ t.on = d.on /\ t.position = d.position
        /\ t.beyond = (d.beyond /\ d.position # last)

\* ... resumes a card that has halted.
LEMMA SubmitIs ==
    \A d \in DeviceType, last \in Period : Submitted(d, last, SubmitDevice(d, last))
<1> SUFFICES ASSUME NEW d \in DeviceType, NEW last \in Period
             PROVE  Submitted(d, last, SubmitDevice(d, last))
  BY Zenon
<1>1. At(d.position, 1) \in Period
  BY Around, Sizes, Zenon DEF DeviceType
<1>2. CASE d.kind = "AC97" /\ d.on = "halted"
  BY <1>1, <1>2, Zenon DEF SubmitDevice, DeviceType, At, Submitted
<1>3. CASE ~(d.kind = "AC97" /\ d.on = "halted")
  BY <1>3, Zenon DEF SubmitDevice, DeviceType, Submitted
<1> QED
  BY <1>2, <1>3, Zenon

\* AudioDevice::status only reads the card and notes where it was.
LEMMA StatusIs ==
    ASSUME NEW d \in DeviceType
    PROVE  LET t == Status(d).device
           IN /\ t \in DeviceType /\ t.kind = d.kind /\ t.broken = d.broken /\ t.on = d.on
              /\ t.position = d.position /\ t.last = d.last /\ t.beyond = d.beyond
              /\ d.drained /\ d.on # "stopped" => t.drained
              /\ Status(d).halted \in BOOLEAN /\ Status(d).current \in Period
<1>1. CASE d.kind = "AC97"
  BY <1>1, Sizes, Zenon DEF Status, DeviceType
<1>2. CASE d.kind # "AC97"
  BY <1>2, Sizes, ZenonT(60) DEF Status, DeviceType
<1> QED
  BY <1>1, <1>2, Zenon

\* While the ring runs, status tells how far the card has come, and that it has stopped just
\* when it has passed everything queued.
LEMMA StatusRuns ==
    ASSUME NEW c, NEW d, NEW o, CoreSound(c, d, o), c.ring.running
    PROVE  LET t == Status(d).device
           IN /\ Status(d).halted <=> d.since_poll >= c.ring.queued
              /\ Status(d).halted /\ d.kind = "AC97" => d.on = "halted"
              /\ Status(d).halted /\ d.kind # "AC97" => d.on = "playing" /\ d.beyond /\ t.drained
              /\ ~Status(d).halted =>
                    /\ Done(c.ring, Status(d).current) = d.since_poll
                    /\ d.position = At(c.ring.first_queued, d.since_poll)
                    /\ d.on = "playing" /\ ~d.beyond /\ ~t.drained /\ t.since_poll = 0
                    /\ d.kind # "AC97" => t.previous = d.position
<1> DEFINE q == c.ring.first_queued
           n == c.ring.queued
           k == d.since_poll
<1>1. /\ q \in Period /\ n \in Period /\ n > 0 /\ k \in Period /\ n \in Nat /\ k \in Nat
      /\ d.position \in Period /\ Runs(c, d) /\ n - 1 \in Period /\ d \in DeviceType
  <2>1. c \in CardType /\ d \in DeviceType /\ Runs(c, d) /\ RingSound(c.ring)
    BY Zenon DEF CoreSound
  <2>2. q \in Period /\ n \in 0 .. MAX_QUEUED /\ k \in Period /\ d.position \in Period
    BY <2>1, Zenon DEF CardType, RingType, DeviceType
  <2>3. n > 0
    BY <2>1, Zenon DEF RingSound
  <2> QED
    BY <2>1, <2>2, <2>3, Sizes, SMTT(60)
<1>2. CASE d.kind = "AC97"
  <2>1. /\ Status(d).current = d.position /\ (Status(d).halted <=> d.on # "playing")
        /\ Status(d).device.since_poll = 0 /\ Status(d).device.drained = d.drained
    BY <1>1, <1>2, Zenon DEF Status, DeviceType
  <2>2. ~d.beyond /\ ~d.drained
    BY <1>1, <1>2, Zenon DEF Runs
  <2>3. CASE d.on = "playing" /\ k < n /\ d.position = At(q, k)
    <3>1. Done(c.ring, d.position) = k
      <4>1. Done(c.ring, d.position) = Off(q, d.position)
        BY Zenon DEF Done, Off
      <4>2. Off(q, At(q, k)) = k
        BY <1>1, OffAt, Zenon
      <4> QED
        BY <2>3, <4>1, <4>2, Zenon
    <3>2. ~(k >= n)
      BY <1>1, <2>3
    <3> QED
      BY <1>2, <2>1, <2>2, <2>3, <3>1, <3>2, Zenon
  <2>4. CASE d.on = "halted" /\ k = n
    <3>1. k >= n
      BY <1>1, <2>4
    <3> QED
      BY <1>2, <2>1, <2>4, <3>1, Zenon
  <2> QED
    BY <1>1, <1>2, <2>3, <2>4, Zenon DEF Runs
<1>3. CASE d.kind # "AC97"
  <2>1. /\ d.on = "playing" /\ d.previous = q /\ d.position = At(q, k) /\ ~d.drained
        /\ (d.beyond <=> k >= n) /\ d.last = At(q, n - 1)
    BY <1>1, <1>3, Zenon DEF Runs
  <2>2. Off(q, At(q, n - 1)) = n - 1 /\ Off(q, At(q, k)) = k
    BY <1>1, OffAt, Zenon
  <2>3. Off(d.previous, d.last) + 1 = n /\ Off(d.previous, d.position) = k
    BY <1>1, <2>1, <2>2
  <2>4. Status(d) = IF k >= n
                    THEN [current |-> d.last, halted |-> TRUE,
                          device |-> [d EXCEPT !.drained = d.on # "stopped"]]
                    ELSE [current |-> d.position, halted |-> FALSE,
                          device |-> [d EXCEPT !.previous = d.position, !.since_poll = 0]]
    BY <1>3, <2>1, <2>3, Zenon DEF Status, Off
  <2>5. CASE k >= n
    <3>1. Status(d) = [current |-> d.last, halted |-> TRUE,
                       device |-> [d EXCEPT !.drained = d.on # "stopped"]]
      BY <2>4, <2>5, Zenon
    <3>2. Status(d).halted /\ Status(d).device = [d EXCEPT !.drained = d.on # "stopped"]
      BY <3>1
    <3>3. Status(d).device.drained
      BY <1>1, <2>1, <3>2, Zenon DEF DeviceType
    <3> QED
      BY <1>3, <2>1, <2>5, <3>2, <3>3, Zenon
  <2>6. CASE ~(k >= n)
    <3>1. Done(c.ring, d.position) = k
      BY <2>1, <2>2, Zenon DEF Done, Off
    <3>2. Status(d) = [current |-> d.position, halted |-> FALSE,
                       device |-> [d EXCEPT !.previous = d.position, !.since_poll = 0]]
      BY <2>4, <2>6, Zenon
    <3>3. /\ ~Status(d).halted /\ Status(d).current = d.position
          /\ Status(d).device = [d EXCEPT !.previous = d.position, !.since_poll = 0]
      BY <3>2
    <3>4. /\ Status(d).device.drained = d.drained /\ Status(d).device.since_poll = 0
          /\ Status(d).device.previous = d.position
      BY <1>1, <3>3, Zenon DEF DeviceType
    <3> QED
      BY <2>1, <2>6, <3>1, <3>3, <3>4, Zenon
  <2> QED
    BY <2>5, <2>6, Zenon
<1> QED
  BY <1>2, <1>3, Zenon

---------------------------------------------------------------------------
(* Card::poll and Card::reset *)

\* The types of the constants.
LEMMA Blank ==
    /\ NewRing \in RingType /\ Silence \in CellType /\ Silent \in [Period -> CellType]
    /\ \A p \in Period : Silent[p] = Silence
<1>1. 0 \in Period /\ 0 \in 0 .. PERIOD_BYTES - 1 /\ 0 \in 0 .. MAX_QUEUED
  BY SoundAssumption, Sizes
<1>2. NewRing \in RingType
  BY <1>1, Zenon DEF NewRing, RingType
<1>3. Silence \in CellType
  BY Zenon DEF Silence, CellType
<1> QED
  BY <1>2, <1>3, Zenon DEF Silent

\* Card::reset, by the fields it leaves.
LEMMA ResetIs ==
    ASSUME NEW s \in CoreType, NEW t, t = ResetCard(s)
    PROVE  /\ t \in CoreType /\ t.device = StopDevice(s.device) /\ t.poller = s.poller
           /\ t.card.rate = s.card.rate /\ t.card.open = s.card.open
           /\ t.card.ring = NewRing /\ t.card.memory = Silent /\ ~t.card.quiet
           /\ t.card.staged = 0 /\ t.card.idle = 0
<1>1. 0 \in 0 .. STALL_MS + 1 /\ StopDevice(s.device) \in DeviceType
  BY SoundAssumption, StopIs DEF CoreType
<1> QED
  BY <1>1, Blank, ZenonT(60) DEF ResetCard, CoreType, CardType

\* A card that is reset is sound.
LEMMA ResetKeeps ==
    ASSUME NEW c \in CardType, NEW d \in DeviceType, NEW o \in PollerType,
           c.ring = NewRing, c.memory = Silent, ~c.quiet, c.idle = 0, d.on = "stopped"
    PROVE  CoreSound(c, d, o) /\ Polled(c, d)
<1>1. /\ c.ring.first_queued = 0 /\ c.ring.queued = 0 /\ ~c.ring.running
      /\ c.ring.fill_period = 0
  BY DEF NewRing
<1>2. RingSound(c.ring)
  BY <1>1, Around, Sizes, ZenonT(60) DEF RingSound
<1>3. MemorySound(c, d)
  BY <1>1, Blank, Sizes, MarksNone, ZenonT(60) DEF MemorySound
<1> QED
  BY <1>1, <1>2, <1>3, Zenon DEF CoreSound, Idles, Polled

\* Card::poll, by the fields it leaves: on a card that makes no progress, and on others.
Dropped(s, t) ==
    /\ t.device = StopDevice(Status(s.device).device)
    /\ t.card.ring = NewRing /\ t.card.memory = Silent /\ ~t.card.quiet
    /\ t.card.staged = 0 /\ t.card.idle = 0
Updated(s, u, t) ==
    /\ t.device = Status(s.device).device
    /\ t.card.ring = u.ring /\ t.card.staged = s.card.staged
    /\ \A p \in Period :
        t.card.memory[p] = IF p \in Played(s.card.ring.first_queued, u.count) THEN Silence
                           ELSE s.card.memory[p]
    /\ t.card.quiet = (s.card.quiet \/ u.halted)
    /\ t.card.idle = (IF Progressed(u) THEN 0 ELSE s.card.idle)

\* It does one or the other.
LEMMA PollIs ==
    ASSUME NEW s \in CoreType,
           NEW u, u = Update(s.card.ring, Status(s.device)),
           u.ring \in RingType, u.halted \in BOOLEAN,
           NEW t, t = Poll(s)
    PROVE  /\ t \in CoreType /\ t.poller = s.poller
           /\ t.card.rate = s.card.rate /\ t.card.open = s.card.open
           /\ ~Progressed(u) /\ s.card.idle > STALL_MS => Dropped(s, t)
           /\ ~(~Progressed(u) /\ s.card.idle > STALL_MS) => Updated(s, u, t)
<1> DEFINE stalled == ~Progressed(u) /\ s.card.idle > STALL_MS
           finished == Played(s.card.ring.first_queued, u.count)
<1>1. PICK e : e = Status(s.device).device /\ e \in DeviceType
  BY StatusIs, Zenon DEF CoreType
<1> DEFINE update == Update(s.card.ring, Status(s.device))
           polled == [s EXCEPT !.device = Status(s.device).device, !.card.ring = update.ring]
           Ready(v) == [polled EXCEPT
                !.card.idle = IF Progressed(v) THEN 0 ELSE @,
                !.card.quiet = @ \/ v.halted,
                !.card.memory = [p \in Period |->
                    IF p \in Played(s.card.ring.first_queued, v.count) THEN Silence ELSE @[p]]]
           ready == Ready(u)
<1>2. t = IF ~Progressed(update) /\ s.card.idle > STALL_MS THEN ResetCard(polled)
          ELSE Ready(update)
  BY Zenon DEF Poll
<1>3. update = u
  BY Zenon
<1> HIDE DEF update, polled, Ready
<1>4. t = IF stalled THEN ResetCard(polled) ELSE ready
  BY <1>2, <1>3, Zenon
<1>5. /\ polled \in CoreType /\ polled.device = e /\ polled.poller = s.poller
      /\ polled.card = [s.card EXCEPT !.ring = u.ring]
  BY <1>1, <1>3, Zenon DEF polled, CoreType, CardType
<1>6. /\ polled.card.rate = s.card.rate /\ polled.card.open = s.card.open
      /\ polled.card.quiet = s.card.quiet /\ polled.card.idle = s.card.idle
      /\ polled.card.staged = s.card.staged /\ polled.card.memory = s.card.memory
      /\ polled.card.ring = u.ring
  BY <1>5, Zenon DEF CoreType, CardType
<1>7. CASE stalled
  <2>1. t = ResetCard(polled)
    BY <1>4, <1>7, Zenon
  <2>2. /\ t \in CoreType /\ t.device = StopDevice(polled.device) /\ t.poller = polled.poller
        /\ t.card.rate = polled.card.rate /\ t.card.open = polled.card.open
        /\ t.card.ring = NewRing /\ t.card.memory = Silent /\ ~t.card.quiet
        /\ t.card.staged = 0 /\ t.card.idle = 0
    BY <1>5, <2>1, ResetIs, Zenon
  <2>3. Dropped(s, t)
    BY <1>1, <1>5, <2>2, Zenon DEF Dropped
  <2> QED
    BY <1>5, <1>6, <1>7, <2>2, <2>3, Zenon
<1>8. CASE ~stalled
  <2>1. t = ready
    BY <1>4, <1>8, Zenon
  <2>2. 0 \in 0 .. STALL_MS + 1
    BY SoundAssumption
  <2>3. /\ ready.card.ring = u.ring /\ ready.card.staged = s.card.staged
        /\ ready.card.rate = s.card.rate /\ ready.card.open = s.card.open
        /\ ready.card.quiet = (s.card.quiet \/ u.halted)
        /\ ready.card.idle = (IF Progressed(u) THEN 0 ELSE s.card.idle)
        /\ ready.card.memory =
                [p \in Period |-> IF p \in finished THEN Silence ELSE s.card.memory[p]]
        /\ ready.device = e /\ ready.poller = s.poller
    BY <1>5, <1>6, ZenonT(60) DEF Ready, CoreType, CardType
  <2>4. ready \in CoreType
    BY <1>5, <1>6, <2>2, Blank, ZenonT(60) DEF Ready, CoreType, CardType
  <2> QED
    BY <1>1, <1>8, <2>1, <2>3, <2>4, ZenonT(60) DEF Updated
<1> QED
  BY <1>7, <1>8, Zenon

\* What Card::poll keeps: it silences nothing that is still to be heard, unless the card is
\* broken, and leaves what is being filled alone unless it drops everything.
PollKept(s, t) ==
    /\ t \in CoreType /\ CoreSound(t.card, t.device, t.poller) /\ Polled(t.card, t.device)
    /\ t.poller = s.poller /\ t.card.rate = s.card.rate /\ t.card.open = s.card.open
    /\ \A p \in Period :
        /\ s.card.memory[p].what = "new" => t.card.memory[p].what = "new" \/ s.device.broken
        /\ t.card.memory[p] \in {Silence, s.card.memory[p]}
    /\ \/ t.card.ring.fill_bytes = 0
       \/ t.card.ring.fill_bytes = s.card.ring.fill_bytes /\ t.card.staged = s.card.staged
    /\ ~Busy(s.card.ring) => ~Busy(t.card.ring)

\* Card::poll when the card is idle: nothing but the clock of the stall is touched.
LEMMA PollIdle ==
    ASSUME NEW s \in CoreType, CoreSound(s.card, s.device, s.poller), ~s.card.ring.running,
           NEW t, t = Poll(s)
    PROVE  PollKept(s, t)
<1> DEFINE r == s.card.ring
<1>1. PICK u : u = Update(r, Status(s.device))
  BY Zenon
<1>2. u = [ring |-> r, halted |-> FALSE, count |-> 0]
  BY <1>1, Zenon DEF Update
<1>3. u.ring = r /\ u.halted = FALSE /\ u.count = 0
  BY <1>2, Zenon
<1>4. /\ s.card \in CardType /\ s.device \in DeviceType /\ r \in RingType
      /\ s.card.memory \in [Period -> CellType]
  BY Zenon DEF CoreType, CardType
<1>5. Progressed(u)
  BY <1>3, Zenon DEF Progressed
<1>6. Played(r.first_queued, u.count) = {}
  BY <1>3 DEF Played
<1>7. /\ t \in CoreType /\ t.poller = s.poller
      /\ t.card.rate = s.card.rate /\ t.card.open = s.card.open
      /\ t.device = Status(s.device).device /\ t.card.ring = r /\ t.card.staged = s.card.staged
      /\ t.card.quiet = s.card.quiet /\ t.card.idle = 0
      /\ \A p \in Period : t.card.memory[p] = s.card.memory[p]
  <2>1. u.ring \in RingType /\ u.halted \in BOOLEAN
    BY <1>3, <1>4, Zenon
  <2>2. /\ t \in CoreType /\ t.poller = s.poller
        /\ t.card.rate = s.card.rate /\ t.card.open = s.card.open /\ Updated(s, u, t)
    BY <1>1, <1>5, <2>1, PollIs, Zenon
  <2>3. t.card.quiet = s.card.quiet /\ t.card.idle = 0
    BY <1>3, <1>4, <1>5, <2>2, Zenon DEF CardType, Updated
  <2> QED
    BY <1>3, <1>6, <2>2, <2>3, Zenon DEF Updated
<1>8. Marks(s.card.memory, r.first_queued, r.queued, 0) /\ RingSound(r) /\ Idles(s.card, s.device)
  BY Zenon DEF CoreSound, MemorySound
<1>9. Marks(t.card.memory, r.first_queued, r.queued, 0)
  BY <1>7, <1>8, Zenon DEF Marks
<1>10. Idles(t.card, t.device)
  BY <1>4, <1>7, <1>8, StatusIs DEF Idles
<1>11. CoreSound(t.card, t.device, t.poller)
  BY <1>7, <1>8, <1>9, <1>10, Zenon DEF CoreSound, MemorySound, CoreType
<1> QED
  BY <1>7, <1>11, Zenon DEF PollKept, Polled

\* ... when it has come to the end of the queue: all of it has been heard, and the ring
\* starts afresh.
LEMMA PollEnd ==
    ASSUME NEW s \in CoreType, CoreSound(s.card, s.device, s.poller), s.card.ring.running,
           Status(s.device).halted, NEW t, t = Poll(s)
    PROVE  PollKept(s, t)
<1> DEFINE r == s.card.ring
           d == s.device
<1>1. PICK u : u = Update(r, Status(d))
  BY Zenon
<1>2. u = [ring |-> [NewRing EXCEPT !.fill_bytes = r.fill_bytes], halted |-> TRUE,
           count |-> r.queued]
  BY <1>1, Zenon DEF Update
<1>3. /\ u.ring = [NewRing EXCEPT !.fill_bytes = r.fill_bytes] /\ u.halted = TRUE
      /\ u.count = r.queued
  BY <1>2, Zenon
<1>4. /\ s.card \in CardType /\ d \in DeviceType /\ r \in RingType
      /\ s.card.memory \in [Period -> CellType] /\ r.fill_bytes \in 0 .. PERIOD_BYTES - 1
      /\ r.first_queued \in Period /\ r.queued \in Period /\ d.since_poll \in Nat
  BY Sizes, Zenon DEF CoreType, CardType, DeviceType, RingType
<1>5. /\ u.ring \in RingType /\ u.ring.fill_bytes = r.fill_bytes /\ ~u.ring.running
      /\ u.ring.first_queued = 0 /\ u.ring.queued = 0 /\ u.ring.fill_period = 0
  BY <1>3, <1>4, Blank, ZenonT(60) DEF NewRing, RingType
<1>6. Progressed(u)
  BY <1>5, Zenon DEF Progressed
<1>7. /\ t \in CoreType /\ t.poller = s.poller
      /\ t.card.rate = s.card.rate /\ t.card.open = s.card.open
      /\ t.device = Status(d).device /\ t.card.ring = u.ring /\ t.card.staged = s.card.staged
      /\ t.card.quiet /\ t.card.idle = 0
      /\ \A p \in Period : t.card.memory[p] =
            IF p \in Played(r.first_queued, r.queued) THEN Silence ELSE s.card.memory[p]
  <2>1. u.halted \in BOOLEAN
    BY <1>3, Zenon
  <2>2. /\ t \in CoreType /\ t.poller = s.poller
        /\ t.card.rate = s.card.rate /\ t.card.open = s.card.open /\ Updated(s, u, t)
    BY <1>1, <1>5, <1>6, <2>1, PollIs, Zenon
  <2> QED
    BY <1>3, <1>6, <2>2, Zenon DEF Updated
<1>8. /\ Marks(s.card.memory, r.first_queued, r.queued, d.since_poll) /\ RingSound(r)
      /\ d.since_poll >= r.queued
  BY StatusRuns, Zenon DEF CoreSound, MemorySound
<1>9. \A p \in Period : t.card.memory[p] = Silence
  BY <1>4, <1>7, <1>8, MarksDone, SMTT(60)
<1>10. Marks(t.card.memory, 0, 0, 0)
  BY <1>9, Sizes, MarksNone, Zenon
<1>11. Idles(t.card, t.device)
  BY <1>4, <1>5, <1>7, StatusIs, StatusRuns DEF Idles
<1>12. RingSound(u.ring)
  <2>1. At(0, 0) = 0
    BY Around, Sizes, Zenon
  <2> QED
    BY <1>5, <2>1, Zenon DEF RingSound
<1>13. CoreSound(t.card, t.device, t.poller)
  BY <1>5, <1>7, <1>10, <1>11, <1>12, ZenonT(60) DEF CoreSound, MemorySound, CoreType
<1>14. ASSUME NEW p \in Period PROVE s.card.memory[p].what # "new"
  <2>1. Off(r.first_queued, p) \in Nat
    BY <1>4, OffNat, Zenon
  <2>2. Off(r.first_queued, p) >= r.queued \/ Off(r.first_queued, p) < d.since_poll
    BY <1>4, <1>8, <2>1, Sizes, SMTT(60)
  <2> QED
    BY <1>8, <2>2 DEF Marks
<1> QED
  BY <1>5, <1>7, <1>9, <1>13, <1>14, Zenon DEF PollKept, Polled, Busy

\* ... when it is within the queue: what it has passed is silenced and the queue begins where
\* it is.
LEMMA PollOn ==
    ASSUME NEW s \in CoreType, CoreSound(s.card, s.device, s.poller), s.card.ring.running,
           ~Status(s.device).halted, s.card.idle > STALL_MS => s.device.since_poll > 0,
           NEW t, t = Poll(s)
    PROVE  PollKept(s, t)
<1> DEFINE r == s.card.ring
           d == s.device
           q == r.first_queued
           n == r.queued
           k == d.since_poll
           e == Status(d).device
<1>1. /\ s.card \in CardType /\ d \in DeviceType /\ r \in RingType
      /\ s.card.memory \in [Period -> CellType] /\ q \in Period /\ n \in Period
      /\ k \in Period /\ s.poller \in PollerType
  BY Sizes, Zenon DEF CoreType, CardType, DeviceType, RingType
<1>2. /\ Marks(s.card.memory, q, n, k) /\ RingSound(r) /\ Runs(s.card, d) /\ s.poller = "ready"
  BY Zenon DEF CoreSound, MemorySound
<1>3. /\ ~(k >= n) /\ Done(r, Status(d).current) = k /\ d.position = At(q, k) /\ d.on = "playing"
      /\ ~d.beyond /\ ~e.drained /\ e.since_poll = 0 /\ (d.kind # "AC97" => e.previous = d.position)
  BY StatusRuns, Zenon
<1>4. k \in Nat /\ n \in Nat /\ k < n /\ k <= n /\ n - k \in Nat /\ n - k > 0 /\ n - k <= n
  BY <1>1, <1>3, Sizes
<1>5. PICK u : u = Update(r, Status(d))
  BY Zenon
<1>6. u = [ring |-> [r EXCEPT !.queued = n - k, !.first_queued = At(q, k)],
           halted |-> FALSE, count |-> k]
  BY <1>1, <1>3, <1>4, <1>5, Zenon DEF Update, At
<1>7. /\ u.ring = [r EXCEPT !.queued = n - k, !.first_queued = At(q, k)]
      /\ u.halted = FALSE /\ u.count = k
  BY <1>6, Zenon
<1>8. /\ At(q, k) \in Period /\ n - k \in 0 .. MAX_QUEUED /\ n - k > 0 /\ ~(0 >= n - k)
      /\ 0 < n - k /\ k <= n /\ At(At(q, k), n - k) = At(q, n)
      /\ At(At(q, k), n - k - 1) = At(q, n - 1) /\ At(At(q, k), 0) = At(q, k)
  <2> HIDE DEF q, n, k
  <2> QED
    BY <1>1, <1>4, Rest, ZenonT(60)
<1>9. /\ u.ring \in RingType /\ u.ring.fill_bytes = r.fill_bytes /\ u.ring.running
      /\ u.ring.first_queued = At(q, k) /\ u.ring.queued = n - k
      /\ u.ring.fill_period = r.fill_period /\ u.halted \in BOOLEAN
  BY <1>1, <1>7, <1>8, Zenon DEF RingType
<1>10. Progressed(u) <=> k > 0
  BY <1>7, <1>9, Zenon DEF Progressed
<1>11. /\ t \in CoreType /\ t.poller = s.poller
       /\ t.card.rate = s.card.rate /\ t.card.open = s.card.open /\ Updated(s, u, t)
  BY <1>5, <1>9, <1>10, PollIs, ZenonT(60)
<1>12. /\ t.device = e /\ t.card.ring = u.ring /\ t.card.staged = s.card.staged
       /\ \A p \in Period : t.card.memory[p] =
            IF p \in Played(q, k) THEN Silence ELSE s.card.memory[p]
       /\ ~t.card.quiet /\ t.card.idle = IF k > 0 THEN 0 ELSE s.card.idle
  BY <1>2, <1>7, <1>10, <1>11, Zenon DEF Updated, Runs
<1>13. Marks(t.card.memory, At(q, k), n - k, 0)
  <2> HIDE DEF q, n, k
  <2> QED
    BY <1>1, <1>2, <1>4, <1>12, MarksPoll, ZenonT(60)
<1>14. RingSound(u.ring)
  BY <1>2, <1>4, <1>8, <1>9, Zenon DEF RingSound
<1>15. Runs(t.card, t.device)
  <2>1. At(At(q, k), n - k - 1) = At(q, n - 1) /\ 0 < n - k /\ ~(0 >= n - k)
    BY <1>8, Zenon
  <2>2. At(At(q, k), 0) = At(q, k)
    BY <1>8, Zenon
  <2>3. ~(0 > STALL_MS)
    BY SoundAssumption
  <2>4. t.card.idle > STALL_MS => t.device.broken \/ t.device.since_poll > 0
    BY <1>12, <2>3, Zenon
  <2>5. /\ e.kind = d.kind /\ e.broken = d.broken /\ e.on = d.on /\ e.position = d.position
        /\ e.last = d.last /\ e.beyond = d.beyond
    BY <1>1, StatusIs, Zenon
  <2>6. d.last = At(q, n - 1)
    BY <1>2, Zenon DEF Runs
  <2>7. /\ t.card.ring.first_queued = At(q, k) /\ t.card.ring.queued = n - k
        /\ ~t.device.drained /\ ~t.card.quiet /\ t.device.since_poll = 0
        /\ t.device.on = "playing" /\ t.device.position = At(At(q, k), 0) /\ ~t.device.beyond
        /\ t.device.last = At(At(q, k), n - k - 1)
        /\ t.device.kind # "AC97" => t.device.previous = At(q, k)
    BY <1>3, <1>9, <1>12, <2>1, <2>2, <2>5, <2>6, ZenonT(60)
  <2> QED
    BY <2>1, <2>4, <2>7, Zenon DEF Runs
<1>16. CoreSound(t.card, t.device, t.poller)
  <2>1. /\ t.card.ring.running /\ t.device.since_poll = 0 /\ t.poller = "ready"
        /\ RingSound(t.card.ring)
    BY <1>2, <1>3, <1>9, <1>11, <1>12, <1>14, Zenon
  <2>2. MemorySound(t.card, t.device)
    BY <1>9, <1>12, <1>13, <2>1, Zenon DEF MemorySound
  <2> QED
    BY <1>11, <1>15, <2>1, <2>2, Zenon DEF CoreSound, CoreType
<1>17. ASSUME NEW p \in Period, s.card.memory[p].what = "new" PROVE t.card.memory[p].what = "new"
  <2>1. ~(Off(q, p) < k)
    BY <1>1, <1>2, <1>17, Zenon DEF Marks
  <2>2. p \notin Played(q, k)
    BY <1>1, <1>4, <2>1, PlayedIs, Sizes, SMTT(60)
  <2> QED
    BY <1>12, <1>17, <2>2, Zenon
<1>18. t.device.since_poll <= 1
  BY <1>3, <1>12
<1> QED
  BY <1>9, <1>11, <1>12, <1>16, <1>17, <1>18, Zenon DEF PollKept, Polled, Busy

\* ... and when it has made no progress for longer than a working card can: it is broken, and
\* its queue is dropped.
LEMMA PollStalled ==
    ASSUME NEW s \in CoreType, CoreSound(s.card, s.device, s.poller), s.card.ring.running,
           ~Status(s.device).halted, s.card.idle > STALL_MS, ~(s.device.since_poll > 0),
           NEW t, t = Poll(s)
    PROVE  PollKept(s, t)
<1> DEFINE r == s.card.ring
           d == s.device
<1>1. /\ s.card \in CardType /\ d \in DeviceType /\ r \in RingType
      /\ s.card.memory \in [Period -> CellType] /\ d.since_poll \in Nat
      /\ s.poller \in PollerType /\ r.first_queued \in Period /\ r.queued \in Nat
      /\ r.queued \in 0 .. MAX_QUEUED
  BY Sizes, Zenon DEF CoreType, CardType, DeviceType, RingType
<1>2. /\ d.since_poll = 0 /\ d.broken /\ ~(d.since_poll >= r.queued)
      /\ Done(r, Status(d).current) = 0
  <2>1. Runs(s.card, d)
    BY Zenon DEF CoreSound
  <2>2. d.since_poll = 0 /\ ~(0 > 0)
    BY <1>1
  <2> QED
    BY <2>1, <2>2, StatusRuns, Zenon DEF Runs
<1>3. /\ 0 < r.queued /\ At(r.first_queued, 0) = r.first_queued
      /\ r.queued - 0 = r.queued
  <2>1. 0 < r.queued /\ r.queued - 0 = r.queued
    BY <1>1, <1>2
  <2> QED
    BY <1>1, <2>1, Around, Sizes, Zenon
<1>4. PICK u : u = Update(r, Status(d))
  BY Zenon
<1>5. u = [ring |-> [r EXCEPT !.queued = r.queued - 0, !.first_queued = At(r.first_queued, 0)],
           halted |-> FALSE, count |-> 0]
  BY <1>1, <1>2, <1>3, <1>4, Zenon DEF Update, At
<1>6. /\ u.ring = [r EXCEPT !.queued = r.queued - 0, !.first_queued = At(r.first_queued, 0)]
      /\ u.halted = FALSE /\ u.count = 0
  BY <1>5, Zenon
<1>7. u.ring \in RingType /\ u.ring.running /\ u.halted \in BOOLEAN
  BY <1>1, <1>3, <1>6, Zenon DEF RingType
<1>8. ~Progressed(u)
  BY <1>6, <1>7 DEF Progressed
<1>9. /\ t \in CoreType /\ t.poller = s.poller
      /\ t.card.rate = s.card.rate /\ t.card.open = s.card.open /\ Dropped(s, t)
  BY <1>4, <1>7, <1>8, PollIs, Zenon
<1>10. t.device.on = "stopped"
  <2>1. Status(d).device \in DeviceType
    BY <1>1, StatusIs, Zenon
  <2> QED
    BY <1>9, <2>1, StopIs, Zenon DEF Dropped
<1>11. CoreSound(t.card, t.device, t.poller) /\ Polled(t.card, t.device)
  BY <1>9, <1>10, ResetKeeps, Zenon DEF Dropped, CoreType
<1>12. /\ t.card.ring = NewRing /\ NewRing.fill_bytes = 0 /\ ~Busy(NewRing)
       /\ \A p \in Period : t.card.memory[p] = Silence
  BY <1>9, Blank DEF Dropped, Busy, NewRing
<1> QED
  BY <1>2, <1>9, <1>11, <1>12, Zenon DEF PollKept

\* Card::poll keeps the core sound.
LEMMA PollKeeps ==
    ASSUME NEW s \in CoreType, CoreSound(s.card, s.device, s.poller)
    PROVE  PollKept(s, Poll(s))
BY PollIdle, PollEnd, PollOn, PollStalled, Zenon

---------------------------------------------------------------------------
(* Card::commit_staged and Card::flush *)

\* Ring::commit of a complete period, by the fields it leaves.
Filled(r) == [r EXCEPT !.fill_period = (@ + 1) % PERIODS, !.fill_bytes = 0, !.queued = @ + 1]

\* There is a place for it behind the queue.
LEMMA FilledIs ==
    ASSUME NEW r \in RingType, HasSpace(r), RingSound(r), NEW f, f = Filled(r)
    PROVE  /\ f \in RingType /\ f.fill_bytes = 0 /\ f.first_queued = r.first_queued
           /\ f.queued = r.queued + 1 /\ f.running = r.running /\ RingSound(f) /\ f.queued > 0
<1>1. PICK q, n, a : q = r.first_queued /\ n = r.queued /\ a = r.fill_period
  BY Zenon
<1>2. q \in Period /\ n \in Period /\ a \in Period /\ n < MAX_QUEUED /\ a = At(q, n)
  BY <1>1, Sizes, Zenon DEF RingType, HasSpace, RingSound
<1>3. n \in Nat /\ n + 1 \in 0 .. MAX_QUEUED /\ n + 1 > 0 /\ n + 1 <= PERIODS
  BY <1>2, Sizes
<1>4. At(a, 1) \in Period /\ At(a, 1) = At(q, n + 1)
  BY <1>2, <1>3, Around, Onward, Sizes
<1>5. 0 \in 0 .. PERIOD_BYTES - 1
  BY SoundAssumption
<1>6. /\ f \in RingType /\ f.fill_bytes = 0 /\ f.first_queued = q /\ f.queued = n + 1
      /\ f.running = r.running /\ f.fill_period = At(a, 1)
  BY <1>1, <1>3, <1>4, <1>5, Zenon DEF Filled, RingType, At
<1> QED
  BY <1>1, <1>3, <1>4, <1>6, Zenon DEF RingSound

\* The memory behind it.
Copied(c, cc) ==
    /\ \A p \in Period : p # c.ring.fill_period => cc.memory[p] = c.memory[p]
    /\ cc.memory[c.ring.fill_period].what = "new"

\* A period is submitted to a running card: it goes on with it, even if it stopped since the
\* poll.
LEMMA SubmitKeeps ==
    ASSUME NEW c, NEW d, NEW o, CoreSound(c, d, o), Polled(c, d), c.ring.running,
           HasSpace(c.ring), NEW cc \in CardType, cc.ring = Filled(c.ring), Copied(c, cc),
           ~cc.quiet, cc.idle = c.idle,
           NEW dd, dd = SubmitDevice(d, c.ring.fill_period)
    PROVE  CoreSound(cc, dd, o) /\ Polled(cc, dd)
<1>1. PICK r, q, n, a, k : /\ r = c.ring /\ q = r.first_queued /\ n = r.queued
                           /\ a = r.fill_period /\ k = d.since_poll
  BY Zenon
<1>2. /\ c \in CardType /\ d \in DeviceType /\ o \in PollerType /\ r \in RingType /\ RingSound(r)
      /\ Marks(c.memory, q, n, k) /\ Runs(c, d) /\ o = "ready" /\ k <= 1
  BY <1>1, Zenon DEF CoreSound, MemorySound, Polled, CardType
<1>3. /\ q \in Period /\ n \in Period /\ a \in Period /\ k \in Period /\ a = At(q, n) /\ n > 0
      /\ n < MAX_QUEUED
  BY <1>1, <1>2, Sizes, Zenon DEF RingType, DeviceType, RingSound, HasSpace
<1>4. /\ n \in Nat /\ k \in Nat /\ k <= n /\ k < n + 1 /\ (n + 1) - 1 = n /\ ~(k >= n + 1)
      /\ (k >= n => k = n /\ n = 1)
  BY <1>2, <1>3, Sizes
<1>5. At(At(q, n - 1), 1) = At(q, n)
  <2>1. n - 1 \in Period /\ (n - 1) + 1 = n /\ n <= PERIODS
    BY <1>3, <1>4, Sizes
  <2> QED
    BY <1>3, <2>1, Onward, Sizes, SMTT(60)
<1>6. /\ cc.ring \in RingType /\ cc.ring.first_queued = q /\ cc.ring.queued = n + 1
      /\ cc.ring.running /\ RingSound(cc.ring)
  BY <1>1, <1>2, FilledIs, Zenon
<1>7. /\ dd \in DeviceType /\ dd.kind = d.kind /\ dd.broken = d.broken
      /\ dd.last = a /\ dd.previous = d.previous /\ dd.drained = d.drained /\ dd.since_poll = k
      /\ (d.kind = "AC97" /\ d.on = "halted") =>
            dd.on = "playing" /\ dd.position = At(d.position, 1) /\ dd.beyond = d.beyond
      /\ ~(d.kind = "AC97" /\ d.on = "halted") =>
            /\ dd.on = d.on /\ dd.position = d.position
            /\ dd.beyond = (d.beyond /\ d.position # a)
  <2>1. Submitted(d, a, dd)
    BY <1>1, <1>2, <1>3, SubmitIs, Zenon
  <2> QED
    BY <1>1, <2>1, Zenon DEF Submitted
<1>8. Marks(cc.memory, q, n + 1, k)
  <2>1. /\ \A p \in Period : p # At(q, n) => cc.memory[p] = c.memory[p]
        /\ cc.memory[At(q, n)].what = "new"
    BY <1>1, <1>3, Zenon DEF Copied
  <2>2. Marks(c.memory, q, n, k) /\ q \in Period /\ n \in Period /\ k \in Nat /\ k <= n
    BY <1>2, <1>3, <1>4, Zenon
  <2> QED
    BY <2>1, <2>2, MarksCommit, ZenonT(30)
<1>9. /\ d.last = At(q, n - 1) /\ ~d.drained /\ ~c.quiet
      /\ c.idle > STALL_MS => d.broken \/ k > 0
  BY <1>1, <1>2, Zenon DEF Runs
<1>10. ASSUME d.kind = "AC97"
       PROVE  ~dd.beyond /\ dd.on = "playing" /\ dd.position = At(q, k)
  <2>1. \/ d.on = "playing" /\ k < n /\ d.position = At(q, k)
        \/ d.on = "halted" /\ k = n /\ d.position = d.last
    BY <1>1, <1>2, <1>10, Zenon DEF Runs
  <2>2. ~d.beyond
    BY <1>2, <1>10, Zenon DEF Runs
  <2> QED
    BY <1>5, <1>7, <1>9, <1>10, <2>1, <2>2, ZenonT(60)
<1>11. ASSUME d.kind # "AC97"
       PROVE  ~dd.beyond /\ dd.on = "playing" /\ dd.position = At(q, k) /\ dd.previous = q
  <2>1. d.on = "playing" /\ d.previous = q /\ d.position = At(q, k) /\ (d.beyond <=> k >= n)
    BY <1>1, <1>2, <1>11, Zenon DEF Runs
  <2>2. d.beyond => d.position = a
    BY <1>3, <1>4, <2>1, Zenon
  <2> QED
    BY <1>7, <1>11, <2>1, <2>2, Zenon
<1>12. Runs(cc, dd)
  <2>1. /\ dd.last = At(cc.ring.first_queued, cc.ring.queued - 1) /\ ~dd.drained /\ ~cc.quiet
        /\ cc.idle > STALL_MS => dd.broken \/ dd.since_poll > 0
    BY <1>3, <1>4, <1>6, <1>7, <1>9, ZenonT(60)
  <2>2. /\ dd.since_poll < cc.ring.queued /\ ~(dd.since_poll >= cc.ring.queued)
        /\ dd.kind = d.kind
    BY <1>4, <1>6, <1>7, Zenon
  <2> QED
    BY <1>6, <1>7, <1>10, <1>11, <2>1, <2>2, Zenon DEF Runs
<1> QED
  BY <1>2, <1>6, <1>7, <1>8, <1>12, Zenon DEF CoreSound, MemorySound, Polled

\* A period is queued for a card that is stopped.
LEMMA QueueKeeps ==
    ASSUME NEW c, NEW d, NEW o, CoreSound(c, d, o), Polled(c, d), ~c.ring.running,
           HasSpace(c.ring), NEW cc \in CardType, cc.ring = Filled(c.ring), Copied(c, cc),
           ~cc.quiet, cc.idle = c.idle, NEW dd \in DeviceType, dd.on = "stopped"
    PROVE  CoreSound(cc, dd, o) /\ Polled(cc, dd)
<1>1. PICK r, q, n, a : /\ r = c.ring /\ q = r.first_queued /\ n = r.queued
                        /\ a = r.fill_period
  BY Zenon
<1>2. /\ c \in CardType /\ o \in PollerType /\ r \in RingType /\ RingSound(r)
      /\ Marks(c.memory, q, n, 0) /\ c.idle = 0
  BY <1>1, Zenon DEF CoreSound, MemorySound, Polled, CardType
<1>3. /\ q \in Period /\ n \in Period /\ a = At(q, n)
  BY <1>1, <1>2, Sizes, Zenon DEF RingType, RingSound
<1>4. 0 \in Nat /\ 0 <= n
  BY <1>3, Sizes
<1>5. /\ cc.ring.first_queued = q /\ cc.ring.queued = n + 1
      /\ ~cc.ring.running /\ RingSound(cc.ring)
  BY <1>1, <1>2, FilledIs, Zenon
<1>6. Marks(cc.memory, q, n + 1, 0)
  <2>1. /\ \A p \in Period : p # At(q, n) => cc.memory[p] = c.memory[p]
        /\ cc.memory[At(q, n)].what = "new"
    BY <1>1, <1>3, Zenon DEF Copied
  <2> QED
    BY <1>2, <1>3, <1>4, <2>1, MarksCommit, Zenon
<1> QED
  BY <1>2, <1>5, <1>6, Zenon DEF CoreSound, MemorySound, Polled, Idles

\* The card is started on what is queued.
LEMMA StartKeeps ==
    ASSUME NEW c, NEW d, NEW o, CoreSound(c, d, o), Polled(c, d), ~c.ring.running,
           c.ring.queued > 0, NEW cc \in CardType, cc.ring = [c.ring EXCEPT !.running = TRUE],
           cc.memory = c.memory, cc.quiet = c.quiet, cc.idle = c.idle,
           NEW dd, dd = StartDevice(d, c.ring.queued - 1)
    PROVE  CoreSound(cc, dd, "ready") /\ Polled(cc, dd)
<1>1. PICK r, n : r = c.ring /\ n = r.queued
  BY Zenon
<1>2. /\ c \in CardType /\ d \in DeviceType /\ r \in RingType /\ RingSound(r)
      /\ r.first_queued = 0 /\ Marks(c.memory, 0, n, 0) /\ c.idle = 0 /\ Idles(c, d)
  BY <1>1, Zenon DEF CoreSound, MemorySound, Polled, CardType, RingSound
<1>3. n \in 0 .. MAX_QUEUED /\ n > 0
  BY <1>1, <1>2, Zenon DEF RingType
<1>4. /\ n - 1 \in Period /\ 0 < n /\ ~(0 >= n) /\ n # 0 /\ ~(0 > STALL_MS) /\ 0 <= 1
  BY <1>3, SoundAssumption, Sizes, SMTT(60)
<1>5. At(0, n - 1) = n - 1 /\ At(0, 0) = 0
  BY <1>4, Around, Sizes, Zenon
<1>6. /\ dd \in DeviceType /\ dd.kind = d.kind /\ dd.on = "playing" /\ dd.position = 0
      /\ dd.last = n - 1 /\ dd.previous = 0 /\ ~dd.drained /\ ~dd.beyond /\ dd.since_poll = 0
  <2>1. Started(d, n - 1, dd)
    BY <1>1, <1>2, <1>4, StartIs, Zenon
  <2> QED
    BY <2>1, Zenon DEF Started
<1>7. /\ cc.ring.first_queued = 0 /\ cc.ring.queued = n /\ cc.ring.running
      /\ cc.ring.fill_period = r.fill_period
  BY <1>1, <1>2, Zenon DEF RingType
<1>8. RingSound(cc.ring)
  BY <1>1, <1>2, <1>3, <1>7, Zenon DEF RingSound
<1>9. ~c.quiet
  BY <1>1, <1>2, <1>4, Zenon DEF Idles
<1>10. Runs(cc, dd)
  BY <1>2, <1>4, <1>5, <1>6, <1>7, <1>9, ZenonT(60) DEF Runs
<1> QED
  BY <1>2, <1>4, <1>6, <1>7, <1>8, <1>10, Zenon DEF CoreSound, MemorySound, Polled, PollerType

\* The core once a complete period has been copied from staging.
Readied(s) ==
    IF s.card.quiet THEN [s EXCEPT !.card.quiet = FALSE, !.device = StopDevice(@)] ELSE s
Moved(s) ==
    [Readied(s) EXCEPT !.card.memory[s.card.ring.fill_period] =
                            [what |-> "new", rate |-> s.card.staged], !.card.staged = 0]

\* Its fields.
LEMMA MovedIs ==
    ASSUME NEW s \in CoreType, NEW m, m = Moved(s)
    PROVE  /\ m \in CoreType /\ m.poller = s.poller /\ ~m.card.quiet /\ m.card.staged = 0
           /\ m.card.rate = s.card.rate /\ m.card.open = s.card.open
           /\ m.card.ring = s.card.ring /\ m.card.idle = s.card.idle
           /\ m.device = IF s.card.quiet THEN StopDevice(s.device) ELSE s.device
           /\ m.card.memory[s.card.ring.fill_period] = [what |-> "new", rate |-> s.card.staged]
           /\ \A p \in Period : p # s.card.ring.fill_period =>
                m.card.memory[p] = s.card.memory[p]
<1>1. /\ s.card \in CardType /\ s.device \in DeviceType /\ s.card.ring.fill_period \in Period
      /\ s.card.staged \in Rates \cup {0} /\ s.card.memory \in [Period -> CellType]
      /\ s.card.quiet \in BOOLEAN
  BY Zenon DEF CoreType, CardType, RingType
<1>2. PICK e : e = StopDevice(s.device) /\ e \in DeviceType
  BY <1>1, StopIs, Zenon
<1>3. PICK y : y = Readied(s)
  BY Zenon
<1>4. /\ y \in CoreType /\ ~y.card.quiet /\ y.poller = s.poller
      /\ y.device = (IF s.card.quiet THEN e ELSE s.device)
      /\ y.card.rate = s.card.rate /\ y.card.open = s.card.open
      /\ y.card.ring = s.card.ring /\ y.card.idle = s.card.idle
      /\ y.card.memory = s.card.memory
  <2>1. CASE s.card.quiet
    <3>1. y = [s EXCEPT !.card.quiet = FALSE, !.device = e]
      BY <1>2, <1>3, <2>1, Zenon DEF Readied
    <3> QED
      BY <1>1, <1>2, <2>1, <3>1, Zenon DEF CoreType, CardType
  <2>2. CASE ~s.card.quiet
    BY <1>3, <2>2, Zenon DEF Readied
  <2> QED
    BY <2>1, <2>2, Zenon
<1>5. PICK cell : cell = [what |-> "new", rate |-> s.card.staged] /\ cell \in CellType
  <2>1. [what |-> "new", rate |-> s.card.staged] \in CellType
    BY <1>1, Zenon DEF CellType
  <2> QED
    BY <2>1, Zenon
<1>6. m = [y EXCEPT !.card.memory[s.card.ring.fill_period] = cell, !.card.staged = 0]
  BY <1>3, <1>5, Zenon DEF Moved
<1>7. /\ y.card \in CardType /\ y.device \in DeviceType /\ y.poller \in PollerType
      /\ y.card.memory \in [Period -> CellType]
  BY <1>4, Zenon DEF CoreType, CardType
<1>8. /\ m.device = y.device /\ m.poller = y.poller
      /\ m.card = [y.card EXCEPT !.memory[s.card.ring.fill_period] = cell, !.staged = 0]
      /\ m = [card |-> m.card, device |-> m.device, poller |-> m.poller]
  BY <1>4, <1>6, Zenon DEF CoreType
<1>9. /\ m.card.memory = [y.card.memory EXCEPT ![s.card.ring.fill_period] = cell]
      /\ m.card.staged = 0 /\ m.card.rate = y.card.rate /\ m.card.open = y.card.open
      /\ m.card.ring = y.card.ring /\ m.card.idle = y.card.idle /\ m.card.quiet = y.card.quiet
  BY <1>7, <1>8, Zenon DEF CardType
<1>10. m.card.memory \in [Period -> CellType]
  BY <1>1, <1>5, <1>7, <1>9, ZenonT(60)
<1>11. m \in CoreType
  <2>1. m.card \in CardType
    BY <1>7, <1>10, <1>8, <1>9, Zenon DEF CardType
  <2> QED
    BY <1>7, <1>8, <2>1, Zenon DEF CoreType
<1>12. /\ m.card.memory[s.card.ring.fill_period] = cell
       /\ \A p \in Period : p # s.card.ring.fill_period =>
            m.card.memory[p] = s.card.memory[p]
  <2>1. m.card.memory = [s.card.memory EXCEPT ![s.card.ring.fill_period] = cell]
    BY <1>4, <1>9, Zenon
  <2>2. s.card.memory \in [Period -> CellType] /\ s.card.ring.fill_period \in Period
    BY <1>1, Zenon
  <2> QED
    BY <2>1, <2>2, Zenon
<1>13. m.device = y.device /\ m.poller = y.poller
  BY <1>8, Zenon
<1> QED
  BY <1>2, <1>4, <1>5, <1>9, <1>11, <1>12, <1>13, Zenon

\* A commit that completes a period.
LEMMA CommitIs ==
    ASSUME NEW s \in CoreType, NEW count \in Nat,
           s.card.ring.fill_bytes + count = PERIOD_BYTES, NEW t, t = CommitStaged(s, count)
    PROVE  LET r == s.card.ring
               f == Filled(r)
               m == Moved(s)
           IN /\ r.running => t = Apply([m EXCEPT !.card.ring = f],
                                        [do |-> "Submit", last |-> r.fill_period])
              /\ ~r.running /\ f.queued >= START_PERIODS =>
                    t = Apply([m EXCEPT !.card.ring = StartRing(f).ring], StartRing(f).action)
              /\ ~r.running /\ ~(f.queued >= START_PERIODS) =>
                    t = Apply([m EXCEPT !.card.ring = f], Nothing)
<1> DEFINE r == s.card.ring
           f == Filled(r)
           m == Moved(s)
<1>1. PICK c : c = Commit(r, count)
  BY Zenon
<1>2. t = Apply([m EXCEPT !.card.ring = c.ring], c.action)
  BY <1>1, Zenon DEF CommitStaged, Moved, Readied
<1>3. ~(r.fill_bytes + count < PERIOD_BYTES)
  BY SoundAssumption
<1>4. c = IF r.running
          THEN [ring |-> f, action |-> [do |-> "Submit", last |-> r.fill_period]]
          ELSE IF f.queued >= START_PERIODS THEN StartRing(f)
          ELSE [ring |-> f, action |-> Nothing]
  BY <1>1, <1>3, Zenon DEF Commit, Filled
<1>5. CASE r.running
  <2>1. c = [ring |-> f, action |-> [do |-> "Submit", last |-> r.fill_period]]
    BY <1>4, <1>5, Zenon
  <2>2. c.ring = f /\ c.action = [do |-> "Submit", last |-> r.fill_period]
    BY <2>1, Zenon
  <2> QED
    BY <1>2, <1>5, <2>2, Zenon
<1>6. CASE ~r.running /\ f.queued >= START_PERIODS
  BY <1>2, <1>4, <1>6, Zenon
<1>7. CASE ~r.running /\ ~(f.queued >= START_PERIODS)
  <2>1. c = [ring |-> f, action |-> Nothing]
    BY <1>4, <1>7, Zenon
  <2>2. c.ring = f /\ c.action = Nothing
    BY <2>1, Zenon
  <2> QED
    BY <1>2, <1>7, <2>2, Zenon
<1> QED
  BY <1>5, <1>6, <1>7, Zenon

\* The core with another ring.
WithRing(m, f, x) ==
    /\ x \in CoreType /\ x.card.ring = f /\ x.device = m.device /\ x.poller = m.poller
    /\ x.card.memory = m.card.memory /\ x.card.rate = m.card.rate
    /\ x.card.open = m.card.open /\ x.card.quiet = m.card.quiet
    /\ x.card.staged = m.card.staged /\ x.card.idle = m.card.idle

\* Only the ring changes.
LEMMA RingSet ==
    \A m \in CoreType, f \in RingType : WithRing(m, f, [m EXCEPT !.card.ring = f])
<1> SUFFICES ASSUME NEW m \in CoreType, NEW f \in RingType
             PROVE  WithRing(m, f, [m EXCEPT !.card.ring = f])
  BY Zenon
<1> QED
  BY Zenon DEF CoreType, CardType, WithRing

\* ActionRequired::Start
LEMMA ApplyStart ==
    ASSUME NEW x \in CoreType, NEW last \in Period,
           NEW t, t = Apply(x, [do |-> "Start", last |-> last])
    PROVE  /\ t \in CoreType /\ t.card = x.card /\ t.device = StartDevice(x.device, last)
           /\ t.poller = "ready"
<1>1. t = [x EXCEPT !.device = StartDevice(@, last), !.poller = "ready"]
  BY Zenon DEF Apply
<1>2. StartDevice(x.device, last) \in DeviceType
  BY StartIs, Zenon DEF CoreType, Started
<1> QED
  BY <1>1, <1>2, Zenon DEF CoreType, PollerType

\* ActionRequired::Submit
LEMMA ApplySubmit ==
    ASSUME NEW x \in CoreType, NEW last \in Period,
           NEW t, t = Apply(x, [do |-> "Submit", last |-> last])
    PROVE  /\ t \in CoreType /\ t.card = x.card /\ t.device = SubmitDevice(x.device, last)
           /\ t.poller = x.poller
<1>1. t = [x EXCEPT !.device = SubmitDevice(@, last)]
  BY Zenon DEF Apply
<1>2. SubmitDevice(x.device, last) \in DeviceType
  BY SubmitIs, Zenon DEF CoreType, Submitted
<1> QED
  BY <1>1, <1>2, Zenon DEF CoreType

\* ActionRequired::None
LEMMA ApplyNothing ==
    ASSUME NEW x PROVE Apply(x, Nothing) = x
BY Zenon DEF Apply, Nothing

\* Ring::start, on a ring that has something to play.
LEMMA StartRingIs ==
    ASSUME NEW f \in RingType, ~f.running, f.queued > 0
    PROVE  /\ StartRing(f).ring = [f EXCEPT !.running = TRUE]
           /\ StartRing(f).action = [do |-> "Start", last |-> f.queued - 1]
           /\ [f EXCEPT !.running = TRUE] \in RingType /\ f.queued - 1 \in Period
<1>1. f.queued \in 0 .. MAX_QUEUED
  BY Zenon DEF RingType
<1>2. f.queued - 1 \in Period /\ f.queued # 0
  BY <1>1, Sizes
<1>3. [f EXCEPT !.running = TRUE] \in RingType
  BY Zenon DEF RingType
<1>4. StartRing(f) = [ring |-> [f EXCEPT !.running = TRUE],
                      action |-> [do |-> "Start", last |-> f.queued - 1]]
  BY <1>2, Zenon DEF StartRing
<1> QED
  BY <1>2, <1>3, <1>4, SMTT(60)

\* What Card::commit_staged and Card::flush keep: nothing still to be heard is overwritten,
\* and what they add comes from staging.
Committed(s, t) ==
    /\ t \in CoreType /\ CoreSound(t.card, t.device, t.poller) /\ Polled(t.card, t.device)
    /\ t.card.rate = s.card.rate /\ t.card.open = s.card.open
    /\ \A p \in Period :
        /\ s.card.memory[p].what = "new" => t.card.memory[p].what = "new"
        /\ t.card.memory[p] \in {s.card.memory[p], [what |-> "new", rate |-> s.card.staged]}
    /\ t.card.ring.fill_bytes = 0 \/ t.card.staged = s.card.staged

\* Part of a period is written.
LEMMA CommitPart ==
    ASSUME NEW s \in CoreType, CoreSound(s.card, s.device, s.poller),
           Polled(s.card, s.device), NEW count \in Nat,
           s.card.ring.fill_bytes + count < PERIOD_BYTES, NEW t, t = CommitStaged(s, count)
    PROVE  Committed(s, t)
<1>1. PICK r, b : r = s.card.ring /\ b = r.fill_bytes
  BY Zenon
<1>2. r \in RingType /\ b \in 0 .. PERIOD_BYTES - 1 /\ s.card \in CardType
  BY <1>1, Zenon DEF CoreType, CardType, RingType
<1>3. b + count \in 0 .. PERIOD_BYTES - 1 /\ b + count # PERIOD_BYTES
  BY <1>1, <1>2, SoundAssumption
<1>4. PICK f : f = [r EXCEPT !.fill_bytes = b + count]
  BY Zenon
<1>5. /\ f \in RingType /\ f.first_queued = r.first_queued /\ f.queued = r.queued
      /\ f.running = r.running /\ f.fill_period = r.fill_period
  BY <1>2, <1>3, <1>4, Zenon DEF RingType
<1>6. Commit(r, count) = [ring |-> f, action |-> Nothing]
  BY <1>1, <1>4, Zenon DEF Commit
<1>7. Commit(r, count).ring = f
  BY <1>6
<1>8. t = [s EXCEPT !.card.ring = f]
  BY <1>1, <1>3, <1>7, Zenon DEF CommitStaged
<1>9. /\ t \in CoreType /\ t.card.ring = f /\ t.device = s.device /\ t.poller = s.poller
      /\ t.card.memory = s.card.memory /\ t.card.rate = s.card.rate
      /\ t.card.open = s.card.open /\ t.card.quiet = s.card.quiet
      /\ t.card.staged = s.card.staged /\ t.card.idle = s.card.idle
  <2>1. WithRing(s, f, t)
    BY <1>5, <1>8, RingSet, Zenon
  <2> QED
    BY <2>1, Zenon DEF WithRing
<1>10. RingSound(f)
  BY <1>1, <1>5, Zenon DEF CoreSound, RingSound
<1>11. MemorySound(t.card, t.device)
  BY <1>1, <1>5, <1>9, Zenon DEF CoreSound, MemorySound
<1>12. f.running => Runs(t.card, t.device) /\ t.poller = "ready"
  BY <1>1, <1>5, <1>9, ZenonT(60) DEF CoreSound, Runs
<1>13. ~f.running => Idles(t.card, t.device)
  BY <1>1, <1>5, <1>9, ZenonT(60) DEF CoreSound, Idles
<1>14. CoreSound(t.card, t.device, t.poller)
  BY <1>9, <1>10, <1>11, <1>12, <1>13, Zenon DEF CoreSound, CoreType
<1> QED
  BY <1>1, <1>5, <1>9, <1>14, Zenon DEF Committed, Polled

\* The place a commit fills holds silence.
LEMMA FillIsSilent ==
    ASSUME NEW c, NEW d, NEW o, CoreSound(c, d, o)
    PROVE  c.ring.fill_period \in Period /\ c.memory[c.ring.fill_period].what = "silent"
<1>1. PICK q, n, a, k : /\ q = c.ring.first_queued /\ n = c.ring.queued
                        /\ a = c.ring.fill_period
                        /\ k = IF c.ring.running THEN d.since_poll ELSE 0
  BY Zenon
<1>2. q \in Period /\ n \in Period /\ a \in Period /\ a = At(q, n)
  BY <1>1, Sizes, Zenon DEF CoreSound, CardType, RingType, RingSound
<1>3. Off(q, a) = n /\ n >= n
  BY <1>2, OffAt, Sizes
<1>4. Marks(c.memory, q, n, k)
  BY <1>1, Zenon DEF CoreSound, MemorySound
<1> QED
  BY <1>1, <1>2, <1>3, <1>4, Zenon DEF Marks

\* A period is completed.
LEMMA CommitFull ==
    ASSUME NEW s \in CoreType, CoreSound(s.card, s.device, s.poller),
           Polled(s.card, s.device), HasSpace(s.card.ring), NEW count \in Nat,
           s.card.ring.fill_bytes + count = PERIOD_BYTES, NEW t, t = CommitStaged(s, count)
    PROVE  Committed(s, t) /\ t.card.ring.fill_bytes = 0
<1>1. PICK r, a, f, m, x : /\ r = s.card.ring /\ a = r.fill_period /\ f = Filled(r)
                           /\ m = Moved(s) /\ x = [m EXCEPT !.card.ring = f]
  BY Zenon
<1>2. r \in RingType /\ RingSound(r) /\ s.card \in CardType /\ s.device \in DeviceType
  BY <1>1, Zenon DEF CoreType, CardType, CoreSound
<1>3. /\ f \in RingType /\ f.fill_bytes = 0 /\ f.first_queued = r.first_queued
      /\ f.queued = r.queued + 1 /\ f.running = r.running /\ f.queued > 0
  BY <1>1, <1>2, FilledIs, Zenon
<1>4. /\ m \in CoreType /\ m.poller = s.poller /\ ~m.card.quiet /\ m.card.staged = 0
      /\ m.card.rate = s.card.rate /\ m.card.open = s.card.open
      /\ m.card.idle = s.card.idle
      /\ m.device = IF s.card.quiet THEN StopDevice(s.device) ELSE s.device
  BY <1>1, MovedIs, ZenonT(60)
<1>5. /\ m.card.memory[a] = [what |-> "new", rate |-> s.card.staged]
      /\ \A p \in Period : p # a => m.card.memory[p] = s.card.memory[p]
  BY <1>1, MovedIs, ZenonT(60)
<1>6. a \in Period /\ s.card.memory[a].what = "silent"
  BY <1>1, FillIsSilent, Zenon
<1>7. WithRing(m, f, x)
  BY <1>1, <1>3, <1>4, RingSet, Zenon
<1>8. /\ x \in CoreType /\ x.card.ring = f /\ x.device = m.device /\ x.poller = s.poller
      /\ x.card.memory = m.card.memory /\ ~x.card.quiet /\ x.card.idle = s.card.idle
      /\ x.card.rate = s.card.rate /\ x.card.open = s.card.open
      /\ x.card \in CardType /\ x.device \in DeviceType
  BY <1>4, <1>7, Zenon DEF WithRing, CoreType
<1>9. Copied(s.card, x.card)
  <2>1. x.card.memory[a].what = "new"
    BY <1>5, <1>8
  <2> QED
    BY <1>1, <1>5, <1>8, <2>1, Zenon DEF Copied
<1>10. ASSUME NEW y, y \in CoreType, y.card.memory = m.card.memory, y.card.rate = s.card.rate,
              y.card.open = s.card.open, y.card.ring.fill_bytes = 0,
              CoreSound(y.card, y.device, y.poller), Polled(y.card, y.device)
       PROVE  Committed(s, y)
  <2>1. ASSUME NEW p \in Period
        PROVE  /\ s.card.memory[p].what = "new" => y.card.memory[p].what = "new"
               /\ y.card.memory[p] \in
                    {s.card.memory[p], [what |-> "new", rate |-> s.card.staged]}
    BY <1>5, <1>6, <1>10, Zenon
  <2> QED
    BY <1>10, <2>1, Zenon DEF Committed
<1>11. CASE r.running
  <2>1. t = Apply(x, [do |-> "Submit", last |-> a])
    BY <1>1, <1>11, CommitIs, Zenon
  <2>2. /\ t \in CoreType /\ t.card = x.card /\ t.device = SubmitDevice(x.device, a)
        /\ t.poller = x.poller
    BY <1>6, <1>8, <2>1, ApplySubmit, Zenon
  <2>3. ~s.card.quiet /\ x.device = s.device
    BY <1>1, <1>4, <1>8, <1>11, Zenon DEF CoreSound, Runs
  <2>4. CoreSound(t.card, t.device, t.poller) /\ Polled(t.card, t.device)
    <3>1. /\ t.card \in CardType /\ t.card.ring = Filled(s.card.ring) /\ Copied(s.card, t.card)
          /\ ~t.card.quiet /\ t.card.idle = s.card.idle /\ s.card.ring.running
          /\ t.device = SubmitDevice(s.device, s.card.ring.fill_period) /\ t.poller = s.poller
      BY <1>1, <1>8, <1>9, <1>11, <2>2, <2>3, Zenon
    <3> QED
      BY <3>1, SubmitKeeps, Zenon
  <2> QED
    BY <1>3, <1>8, <1>10, <2>2, <2>4, Zenon
<1>12. CASE ~r.running
  <2>1. x.device.on = "stopped"
    <3>1. CASE s.card.quiet
      <4>1. x.device = StopDevice(s.device)
        BY <1>4, <1>8, <3>1, Zenon
      <4> QED
        BY <1>2, <4>1, StopIs, Zenon
    <3>2. CASE ~s.card.quiet
      BY <1>1, <1>4, <1>8, <1>12, <3>2, Zenon DEF CoreSound, Idles
    <3> QED
      BY <3>1, <3>2, Zenon
  <2>2. CoreSound(x.card, x.device, x.poller) /\ Polled(x.card, x.device)
    BY <1>1, <1>8, <1>9, <1>12, <2>1, QueueKeeps, Zenon
  <2>3. CASE f.queued >= START_PERIODS
    <3>1. t = Apply([m EXCEPT !.card.ring = StartRing(f).ring], StartRing(f).action)
      BY <1>1, <1>12, <2>3, CommitIs, Zenon
    <3>2. PICK g, z, last : /\ g = [f EXCEPT !.running = TRUE] /\ z = [m EXCEPT !.card.ring = g]
                            /\ last = f.queued - 1
      BY Zenon
    <3>3. /\ StartRing(f).ring = g /\ StartRing(f).action = [do |-> "Start", last |-> last]
          /\ g \in RingType /\ last \in Period
      BY <1>3, <1>12, <3>2, StartRingIs, Zenon
    <3>4. WithRing(m, g, z)
      BY <1>4, <3>2, <3>3, RingSet, Zenon
    <3>5. /\ z \in CoreType /\ z.card.ring = g /\ z.device = m.device
          /\ z.card.memory = m.card.memory /\ z.card.quiet = x.card.quiet
          /\ z.card.idle = x.card.idle /\ z.card.rate = s.card.rate
          /\ z.card.open = s.card.open /\ z.card \in CardType
      BY <1>4, <1>7, <3>4, Zenon DEF WithRing, CoreType
    <3>6. t = Apply(z, [do |-> "Start", last |-> last])
      BY <3>1, <3>2, <3>3, Zenon
    <3>7. /\ t \in CoreType /\ t.card = z.card /\ t.device = StartDevice(x.device, last)
          /\ t.poller = "ready"
      <4>1. /\ t \in CoreType /\ t.card = z.card /\ t.device = StartDevice(z.device, last)
            /\ t.poller = "ready"
        BY <3>3, <3>5, <3>6, ApplyStart, Zenon
      <4> QED
        BY <1>8, <3>5, <4>1, Zenon
    <3>8. CoreSound(t.card, t.device, t.poller) /\ Polled(t.card, t.device)
      <4>1. /\ t.card \in CardType /\ t.card.ring = [x.card.ring EXCEPT !.running = TRUE]
            /\ t.card.memory = x.card.memory /\ t.card.quiet = x.card.quiet
            /\ t.card.idle = x.card.idle
        BY <1>8, <3>2, <3>5, <3>7, Zenon
      <4>2. /\ t.device = StartDevice(x.device, x.card.ring.queued - 1)
            /\ ~x.card.ring.running /\ x.card.ring.queued > 0
        BY <1>3, <1>8, <1>12, <3>2, <3>7, Zenon
      <4>3. CoreSound(t.card, t.device, "ready") /\ Polled(t.card, t.device)
        BY <2>2, <4>1, <4>2, StartKeeps, ZenonT(60)
      <4> QED
        BY <3>7, <4>3, Zenon
    <3>9. g.fill_bytes = 0
      BY <1>3, <3>2, Zenon DEF RingType
    <3> QED
      BY <1>10, <3>5, <3>7, <3>8, <3>9, Zenon
  <2>4. CASE ~(f.queued >= START_PERIODS)
    <3>1. t = x
      <4>1. t = Apply(x, Nothing)
        BY <1>1, <1>12, <2>4, CommitIs, Zenon
      <4> QED
        BY <4>1, ApplyNothing, Zenon
    <3> QED
      BY <1>3, <1>8, <1>10, <2>2, <3>1, Zenon
  <2> QED
    BY <2>3, <2>4, Zenon
<1> QED
  BY <1>11, <1>12, Zenon

\* What Card::flush keeps besides.
Flushed(s, t) ==
    /\ Committed(s, t)
    /\ s.card.ring.fill_bytes = 0 => \A p \in Period : t.card.memory[p] = s.card.memory[p]
    /\ t.card.ring.fill_bytes \in {0, s.card.ring.fill_bytes}
    /\ ~Busy(s.card.ring) => ~Busy(t.card.ring)

\* The second half of Card::flush: the card is started unless it runs or has nothing to play.
LEMMA StartAny ==
    ASSUME NEW y \in CoreType, CoreSound(y.card, y.device, y.poller), Polled(y.card, y.device),
           NEW t, t = Apply([y EXCEPT !.card.ring = StartRing(y.card.ring).ring],
                            StartRing(y.card.ring).action)
    PROVE  /\ t \in CoreType /\ CoreSound(t.card, t.device, t.poller) /\ Polled(t.card, t.device)
           /\ t.card.memory = y.card.memory /\ t.card.rate = y.card.rate
           /\ t.card.open = y.card.open /\ t.card.staged = y.card.staged
           /\ t.card.ring.fill_bytes = y.card.ring.fill_bytes
           /\ ~Busy(y.card.ring) => ~Busy(t.card.ring)
<1>1. PICK r : r = y.card.ring
  BY Zenon
<1>2. r \in RingType /\ y.card \in CardType /\ RingSound(r)
  BY <1>1, Zenon DEF CoreType, CardType, CoreSound
<1>3. CASE r.running \/ r.queued = 0
  <2>1. StartRing(r) = [ring |-> r, action |-> Nothing]
    BY <1>3, Zenon DEF StartRing
  <2>2. StartRing(r).ring = r /\ StartRing(r).action = Nothing
    BY <2>1
  <2>3. [y EXCEPT !.card.ring = r] = y
    BY <1>1, <1>2, Zenon DEF CoreType, CardType
  <2>4. t = y
    BY <1>1, <2>2, <2>3, ApplyNothing, Zenon
  <2> QED
    BY <2>4, Zenon
<1>4. CASE ~r.running /\ r.queued # 0
  <2>1. r.queued > 0
    BY <1>2, <1>4, Sizes DEF RingType
  <2>2. PICK g, z, last : /\ g = [r EXCEPT !.running = TRUE] /\ z = [y EXCEPT !.card.ring = g]
                          /\ last = r.queued - 1
    BY Zenon
  <2>3. /\ StartRing(r).ring = g /\ StartRing(r).action = [do |-> "Start", last |-> last]
        /\ g \in RingType /\ last \in Period
    BY <1>2, <1>4, <2>1, <2>2, StartRingIs, Zenon
  <2>4. WithRing(y, g, z)
    BY <2>2, <2>3, RingSet, Zenon
  <2>5. t = Apply(z, [do |-> "Start", last |-> last])
    BY <1>1, <2>2, <2>3, Zenon
  <2>6. /\ t \in CoreType /\ t.card = z.card /\ t.device = StartDevice(z.device, last)
        /\ t.poller = "ready"
    <3>1. z \in CoreType
      BY <2>4, Zenon DEF WithRing
    <3> QED
      BY <2>3, <2>5, <3>1, ApplyStart, ZenonT(60)
  <2>7. /\ t.card \in CardType /\ t.card.ring = g /\ t.device = StartDevice(y.device, last)
        /\ t.card.memory = y.card.memory /\ t.card.quiet = y.card.quiet
        /\ t.card.idle = y.card.idle /\ t.card.rate = y.card.rate
        /\ t.card.open = y.card.open /\ t.card.staged = y.card.staged
    BY <2>4, <2>6, Zenon DEF WithRing, CoreType
  <2>8. CoreSound(t.card, t.device, "ready") /\ Polled(t.card, t.device)
    <3>1. /\ t.card.ring = [y.card.ring EXCEPT !.running = TRUE] /\ ~y.card.ring.running
          /\ t.device = StartDevice(y.device, y.card.ring.queued - 1) /\ y.card.ring.queued > 0
      BY <1>1, <1>4, <2>1, <2>2, <2>7, Zenon
    <3> QED
      BY <2>7, <3>1, StartKeeps, ZenonT(60)
  <2>9. g.fill_bytes = r.fill_bytes
    BY <1>2, <2>2, Zenon DEF RingType
  <2> QED
    BY <1>1, <2>1, <2>6, <2>7, <2>8, <2>9, Zenon DEF Busy
<1> QED
  BY <1>3, <1>4, Zenon

\* Card::flush keeps the core sound.
LEMMA FlushKeeps ==
    ASSUME NEW s \in CoreType, CoreSound(s.card, s.device, s.poller), Polled(s.card, s.device),
           NEW t, t = Flush(s)
    PROVE  Flushed(s, t)
<1>1. PICK r : r = s.card.ring
  BY Zenon
<1>2. r \in RingType /\ r.fill_bytes \in 0 .. PERIOD_BYTES - 1
  BY <1>1, Zenon DEF CoreType, CardType, RingType
<1>3. CASE r.fill_bytes > 0 /\ HasSpace(r)
  <2>1. PICK count : count = PERIOD_BYTES - r.fill_bytes
    BY Zenon
  <2>2. count \in Nat /\ r.fill_bytes + count = PERIOD_BYTES /\ r.fill_bytes # 0
    BY <1>2, <1>3, <2>1, SoundAssumption
  <2>3. PICK y : y = CommitStaged(s, count)
    BY Zenon
  <2>4. Committed(s, y) /\ y.card.ring.fill_bytes = 0
    BY <1>1, <1>3, <2>2, <2>3, CommitFull, Zenon
  <2>5. t = Apply([y EXCEPT !.card.ring = StartRing(y.card.ring).ring],
                  StartRing(y.card.ring).action)
    BY <1>1, <1>3, <2>1, <2>3, Zenon DEF Flush
  <2>6. y \in CoreType /\ CoreSound(y.card, y.device, y.poller) /\ Polled(y.card, y.device)
    BY <2>4, Zenon DEF Committed
  <2>7. /\ t \in CoreType /\ CoreSound(t.card, t.device, t.poller) /\ Polled(t.card, t.device)
        /\ t.card.memory = y.card.memory /\ t.card.rate = y.card.rate
        /\ t.card.open = y.card.open /\ t.card.ring.fill_bytes = y.card.ring.fill_bytes
    BY <2>5, <2>6, StartAny, Zenon
  <2>8. Committed(s, t)
    BY <2>4, <2>7, Zenon DEF Committed
  <2>9. Busy(s.card.ring)
    BY <1>1, <1>3, Zenon DEF Busy
  <2> QED
    BY <1>1, <2>2, <2>4, <2>7, <2>8, <2>9, Zenon DEF Flushed
<1>4. CASE ~(r.fill_bytes > 0 /\ HasSpace(r))
  <2>1. t = Apply([s EXCEPT !.card.ring = StartRing(s.card.ring).ring],
                  StartRing(s.card.ring).action)
    BY <1>1, <1>4, Zenon DEF Flush
  <2>2. /\ t \in CoreType /\ CoreSound(t.card, t.device, t.poller) /\ Polled(t.card, t.device)
        /\ t.card.memory = s.card.memory /\ t.card.rate = s.card.rate
        /\ t.card.open = s.card.open /\ t.card.staged = s.card.staged
        /\ t.card.ring.fill_bytes = s.card.ring.fill_bytes
        /\ ~Busy(s.card.ring) => ~Busy(t.card.ring)
    BY <2>1, StartAny, Zenon
  <2> QED
    BY <2>2, Zenon DEF Flushed, Committed
<1> QED
  BY <1>3, <1>4, Zenon

---------------------------------------------------------------------------
(* The hardware and the clock *)

\* The card finishes the period it is on: what it leaves of the memory ...
Passed(c, at, cc) ==
    /\ cc \in CardType /\ cc.ring = c.ring /\ cc.rate = c.rate /\ cc.open = c.open
    /\ cc.quiet = c.quiet /\ cc.staged = c.staged /\ cc.idle = c.idle
    /\ cc.memory[at] = [c.memory[at] EXCEPT !.what = IF @ = "new" THEN "heard" ELSE @]
    /\ \A p \in Period : p # at => cc.memory[p] = c.memory[p]

\* ... by its fields,
LEMMA PassedIs ==
    ASSUME NEW c \in CardType, NEW at \in Period, NEW cc,
           cc = [c EXCEPT !.memory[at].what = IF @ = "new" THEN "heard" ELSE @]
    PROVE  Passed(c, at, cc)
<1>1. PICK cell : cell = [c.memory[at] EXCEPT !.what = IF @ = "new" THEN "heard" ELSE @]
  BY Zenon
<1>2. c.memory[at] \in CellType /\ c.memory \in [Period -> CellType]
  BY Zenon DEF CardType
<1>3. cell \in CellType
  BY <1>1, <1>2, Zenon DEF CellType
<1>4. PICK mm : mm = [c.memory EXCEPT ![at] = cell]
  BY Zenon
<1>5. cc = [c EXCEPT !.memory = mm]
  BY <1>1, <1>2, <1>4, Zenon DEF CardType
<1>6. /\ mm \in [Period -> CellType] /\ mm[at] = cell
      /\ \A p \in Period : p # at => mm[p] = c.memory[p]
  BY <1>2, <1>3, <1>4, Zenon
<1> QED
  BY <1>1, <1>5, <1>6, Zenon DEF CardType, Passed

\* ... and where it goes.
Onto(d) ==
    [d EXCEPT !.position = (@ + 1) % PERIODS, !.since_poll = IF @ < PERIODS - 1 THEN @ + 1 ELSE @]
Turned(d, dd) ==
    /\ dd \in DeviceType /\ dd.kind = d.kind /\ dd.broken = d.broken /\ dd.last = d.last
    /\ dd.previous = d.previous /\ dd.drained = d.drained
    /\ d.since_poll < PERIODS - 1 => dd.since_poll = d.since_poll + 1
    /\ (d.kind = "AC97" /\ d.position = d.last) =>
        dd.on = "halted" /\ dd.position = d.position /\ dd.beyond = d.beyond
    /\ (d.kind = "AC97" /\ d.position # d.last) =>
        dd.on = d.on /\ dd.position = At(d.position, 1) /\ dd.beyond = d.beyond
    /\ d.kind # "AC97" =>
        /\ dd.on = d.on /\ dd.position = At(d.position, 1)
        /\ dd.beyond = (d.beyond \/ d.position = d.last)

\* An AC'97 halts at the last period submitted, an HD Audio card goes on into silence.
LEMMA TurnedIs ==
    ASSUME NEW d \in DeviceType, NEW dd,
           dd = IF d.kind = "AC97"
                THEN IF d.position = d.last
                     THEN [Onto(d) EXCEPT !.on = "halted", !.position = d.position]
                     ELSE Onto(d)
                ELSE [Onto(d) EXCEPT !.beyond = @ \/ d.position = d.last]
    PROVE  Turned(d, dd)
<1>1. PICK k : k = IF d.since_poll < PERIODS - 1 THEN d.since_poll + 1 ELSE d.since_poll
  BY Zenon
<1>2. d.since_poll \in Period /\ d.position \in Period
  BY Zenon DEF DeviceType
<1>3. k \in Period
  BY <1>1, <1>2, Sizes
<1>4. PICK a : a = At(d.position, 1) /\ a \in Period
  <2>1. At(d.position, 1) \in Period
    BY <1>2, OffAt, Sizes, Zenon
  <2> QED
    BY <2>1, Zenon
<1>5. PICK e : e = [d EXCEPT !.position = a, !.since_poll = k]
  BY Zenon
<1>6. Onto(d) = e
  BY <1>1, <1>4, <1>5, Zenon DEF Onto, At, DeviceType
<1>7. CASE d.kind = "AC97" /\ d.position = d.last
  <2>1. dd = [e EXCEPT !.on = "halted", !.position = d.position]
    BY <1>6, <1>7, Zenon
  <2> QED
    BY <1>1, <1>2, <1>3, <1>4, <1>5, <1>7, <2>1, ZenonT(60) DEF DeviceType, Turned
<1>8. CASE d.kind = "AC97" /\ d.position # d.last
  <2>1. dd = e
    BY <1>6, <1>8, Zenon
  <2> QED
    BY <1>1, <1>3, <1>4, <1>5, <1>8, <2>1, ZenonT(60) DEF DeviceType, Turned
<1>9. CASE d.kind # "AC97"
  <2>1. dd = [e EXCEPT !.beyond = @ \/ d.position = d.last]
    BY <1>6, <1>9, Zenon
  <2> QED
    BY <1>1, <1>3, <1>4, <1>5, <1>9, <2>1, ZenonT(60) DEF DeviceType, Turned
<1> QED
  BY <1>7, <1>8, <1>9, Zenon

\* A card within the ring's queue stays in step with it.
LEMMA PlayRuns ==
    ASSUME NEW c, NEW d, NEW o, CoreSound(c, d, o), c.ring.running, d.on = "playing",
           d.since_poll < PERIODS - 1, NEW cc, Passed(c, d.position, cc), NEW dd, Turned(d, dd)
    PROVE  /\ CoreSound(cc, dd, o) /\ dd.since_poll = d.since_poll + 1
<1>1. PICK q, n, k, a : /\ q = c.ring.first_queued /\ n = c.ring.queued /\ k = d.since_poll
                        /\ a = d.position
  BY Zenon
<1>2. /\ c \in CardType /\ d \in DeviceType /\ o \in PollerType /\ RingSound(c.ring)
      /\ Marks(c.memory, q, n, k) /\ Runs(c, d) /\ o = "ready"
  BY <1>1, Zenon DEF CoreSound, MemorySound
<1>3. q \in Period /\ n \in Period /\ k \in Period /\ n > 0 /\ k < PERIODS - 1 /\ a \in Period
  BY <1>1, <1>2, Sizes, Zenon DEF CardType, RingType, DeviceType, RingSound
<1>4. /\ n \in Nat /\ k \in Nat /\ n - 1 \in Period /\ k + 1 <= PERIODS /\ k + 1 > 0
      /\ (k = n - 1 => k + 1 = n) /\ (k < n /\ k # n - 1 => k + 1 < n)
      /\ (k + 1 >= n <=> k >= n \/ k = n - 1)
  BY <1>3, Sizes, SMTT(60)
<1>5. a = At(q, k)
  BY <1>1, <1>2, Zenon DEF Runs
<1>6. At(a, 1) = At(q, k + 1)
  BY <1>3, <1>4, <1>5, Onward, Sizes, SMTT(60)
<1>7. /\ d.last = At(q, n - 1) /\ ~d.drained /\ ~c.quiet
      /\ (d.kind = "AC97" => ~d.beyond /\ k < n)
      /\ (d.kind # "AC97" => d.previous = q /\ (d.beyond <=> k >= n))
  BY <1>1, <1>2, Zenon DEF Runs
<1>8. a = d.last <=> k = n - 1
  <2>1. Off(q, At(q, k)) = k /\ Off(q, At(q, n - 1)) = n - 1
    BY <1>3, <1>4, OffAt, Zenon
  <2> QED
    BY <1>5, <1>7, <2>1, Zenon
<1>9. Marks(cc.memory, q, n, k + 1)
  <2>1. /\ \A p \in Period : p # At(q, k) => cc.memory[p] = c.memory[p]
        /\ cc.memory[At(q, k)] =
                [c.memory[At(q, k)] EXCEPT !.what = IF @ = "new" THEN "heard" ELSE @]
    <3>1. At(q, k) = d.position
      BY <1>1, <1>5, Zenon
    <3> QED
      BY <3>1, Zenon DEF Passed
  <2>2. c.memory[At(q, k)] \in CellType
    BY <1>2, <1>3, <1>5, Zenon DEF CardType
  <2> QED
    BY <1>2, <1>3, <2>1, <2>2, MarksPlay, ZenonT(60)
<1>10. /\ dd \in DeviceType /\ dd.kind = d.kind /\ dd.broken = d.broken /\ dd.last = d.last
       /\ dd.previous = d.previous /\ ~dd.drained /\ dd.since_poll = k + 1
  BY <1>1, <1>7, Zenon DEF Turned
<1>11. /\ cc \in CardType /\ cc.ring = c.ring /\ cc.quiet = c.quiet /\ cc.idle = c.idle
  BY Zenon DEF Passed
<1>12. ASSUME d.kind = "AC97"
       PROVE  /\ ~dd.beyond
              /\ \/ dd.on = "playing" /\ k + 1 < n /\ dd.position = At(q, k + 1)
                 \/ dd.on = "halted" /\ k + 1 = n /\ dd.position = d.last
  BY <1>1, <1>4, <1>6, <1>7, <1>8, <1>12, Zenon DEF Turned
<1>13. ASSUME d.kind # "AC97"
       PROVE  /\ dd.on = "playing" /\ dd.position = At(q, k + 1) /\ (dd.beyond <=> k + 1 >= n)
  <2>1. dd.on = "playing" /\ dd.position = At(a, 1) /\ dd.beyond = (d.beyond \/ a = d.last)
    BY <1>1, <1>13, Zenon DEF Turned
  <2> QED
    BY <1>4, <1>6, <1>7, <1>8, <1>13, <2>1, Zenon
<1>14. Runs(cc, dd)
  <2>1. /\ dd.last = At(cc.ring.first_queued, cc.ring.queued - 1) /\ ~dd.drained /\ ~cc.quiet
        /\ dd.since_poll > 0 /\ cc.ring.first_queued = q /\ cc.ring.queued = n
    BY <1>1, <1>4, <1>7, <1>10, <1>11, Zenon
  <2> QED
    BY <1>7, <1>10, <1>12, <1>13, <2>1, Zenon DEF Runs
<1> QED
  BY <1>1, <1>2, <1>9, <1>10, <1>11, <1>14, Zenon DEF CoreSound, MemorySound

\* One beyond it plays silence.
LEMMA PlayIdles ==
    ASSUME NEW c, NEW d, NEW o, CoreSound(c, d, o), ~c.ring.running, d.on = "playing",
           NEW cc, Passed(c, d.position, cc), NEW dd, Turned(d, dd)
    PROVE  CoreSound(cc, dd, o)
<1>1. /\ c \in CardType /\ d \in DeviceType /\ o \in PollerType /\ RingSound(c.ring)
      /\ Marks(c.memory, c.ring.first_queued, c.ring.queued, 0) /\ Idles(c, d)
  BY Zenon DEF CoreSound, MemorySound
<1>2. c.quiet /\ c.ring.queued = 0 /\ d.kind # "AC97" /\ d.beyond /\ d.drained
  BY <1>1, Zenon DEF Idles
<1>3. \A p \in Period : c.memory[p].what = "silent" /\ c.memory[p] = Silence
  <2>1. \A p \in Period : Off(c.ring.first_queued, p) >= 0
    BY <1>1, OffNat DEF CardType, RingType
  <2> QED
    BY <1>1, <1>2, <2>1, Zenon DEF Marks
<1>4. d.position \in Period /\ c.ring.first_queued \in Period
  BY <1>1, Zenon DEF DeviceType, CardType, RingType
<1>5. cc.memory[d.position] = Silence
  BY <1>3, <1>4, ZenonT(60) DEF Passed, Silence
<1>6. \A p \in Period : cc.memory[p] = Silence
  BY <1>3, <1>5, Zenon DEF Passed
<1>7. Marks(cc.memory, c.ring.first_queued, 0, 0)
  BY <1>4, <1>6, MarksNone, Zenon
<1>8. /\ cc \in CardType /\ cc.ring = c.ring /\ cc.quiet = c.quiet
  BY Zenon DEF Passed
<1>9. /\ dd \in DeviceType /\ dd.kind = d.kind /\ dd.on = "playing" /\ dd.drained /\ dd.beyond
  BY <1>2, Zenon DEF Turned
<1> QED
  BY <1>1, <1>2, <1>7, <1>8, <1>9, ZenonT(60) DEF CoreSound, MemorySound, Idles

---------------------------------------------------------------------------
(* The steps.  Each keeps the invariant and, as a step, loses nothing.     *)

Kept == SoundInv' /\ NothingLost /\ SyncMeansHeard

\* The core as the code passes it around.
LEMMA NowIs ==
    ASSUME SoundInv
    PROVE  /\ Now \in CoreType /\ Now.card = card /\ Now.device = device /\ Now.poller = poller
           /\ CoreSound(Now.card, Now.device, Now.poller)
<1>1. Now.card = card /\ Now.device = device /\ Now.poller = poller
  BY Zenon DEF Now
<1>2. card \in CardType /\ device \in DeviceType /\ poller \in PollerType
  BY Zenon DEF SoundInv, CoreSound
<1>3. Now \in CoreType
  BY <1>2, Zenon DEF Now, CoreType
<1> QED
  BY <1>1, <1>3, Zenon DEF SoundInv

\* Steps that are not a process's.
LEMMA CallsSame ==
    ASSUME CallsAgree, UNCHANGED <<rate, lock, pc, todo, target>>
    PROVE  CallsAgree' /\ SyncMeansHeard
<1>1. rate' = rate /\ lock' = lock /\ pc' = pc /\ todo' = todo /\ target' = target
  BY Zenon
<1> QED
  BY <1>1, Zenon DEF CallsAgree, SyncMeansHeard

\* Steps of a process that do not end a round of drain.
LEMMA CallsMove ==
    ASSUME CallsAgree, NEW p \in Procs, NEW where \in Places, Goto(p, where),
           rate' \in Rates, lock' \in Procs \cup {NoProc},
           todo' \in [Procs -> 0 .. MaxWrite], target' \in [Procs -> Rates \cup {0}],
           \A q \in Procs : q # p => (lock' = q <=> lock = q) /\ target'[q] = target[q],
           where \in Sections <=> lock' = p, where = "setrate" => target'[p] # 0
    PROVE  /\ CallsAgree' /\ pc'[p] = where /\ \A q \in Procs : q # p => pc'[q] = pc[q]
           /\ pc[p] # "flush" => SyncMeansHeard
<1>1. pc \in [Procs -> Places]
  BY Zenon DEF CallsAgree
<1>2. pc' \in [Procs -> Places] /\ pc'[p] = where /\ \A q \in Procs : q # p => pc'[q] = pc[q]
  BY <1>1, Zenon DEF Goto
<1>3. \A q \in Procs : pc'[q] \in Sections <=> lock' = q
  BY <1>2, Zenon DEF CallsAgree
<1>4. \A q \in Procs : pc'[q] = "setrate" => target'[q] # 0
  BY <1>2, Zenon DEF CallsAgree
<1>5. CallsAgree'
  BY <1>2, <1>3, <1>4, Zenon DEF CallsAgree
<1>6. pc[p] # "flush" => SyncMeansHeard
  BY <1>2, Zenon DEF SyncMeansHeard
<1> QED
  BY <1>2, <1>5, <1>6, Zenon

\* The core as far as the invariant looks at it.
LEMMA CoreSame ==
    ASSUME NEW c, NEW d, NEW o, CoreSound(c, d, o), NEW cc \in CardType, cc.ring = c.ring,
           cc.memory = c.memory, cc.quiet = c.quiet, cc.idle = c.idle, NEW oo \in PollerType,
           c.ring.running => oo = "ready"
    PROVE  CoreSound(cc, d, oo) /\ (Polled(c, d) => Polled(cc, d))
<1>1. RingSound(cc.ring) /\ MemorySound(cc, d) /\ d \in DeviceType
  BY Zenon DEF CoreSound, MemorySound
<1>2. c.ring.running => Runs(cc, d)
  BY Zenon DEF CoreSound, Runs
<1>3. ~c.ring.running => Idles(cc, d)
  BY Zenon DEF CoreSound, Idles
<1> QED
  BY <1>1, <1>2, <1>3, Zenon DEF CoreSound, Polled

\* The card plays.
LEMMA PlayStep == SoundInv /\ Play => Kept
<1> SUFFICES ASSUME SoundInv, Play PROVE Kept
  BY Zenon
<1>1. /\ CoreSound(card, device, poller) /\ CallsAgree /\ card \in CardType
      /\ device \in DeviceType /\ device.position \in Period
      /\ device.on = "playing" /\ poller' = poller /\ lock' = lock
  BY Zenon DEF SoundInv, CoreSound, DeviceType, Play
<1>2. CallsAgree' /\ SyncMeansHeard
  BY <1>1, CallsSame, Zenon DEF Play
<1>3. Passed(card, device.position, card')
  BY <1>1, PassedIs, Zenon DEF Play
<1>4. Turned(device, device')
  BY <1>1, TurnedIs, Zenon DEF Play, Onto
<1>5. CoreSound(card', device', poller') /\ (lock' # NoProc => Polled(card', device'))
  <2>1. CASE card.ring.running
    <3>1. device.since_poll < PERIODS - 1
      BY <1>1, <2>1, Zenon DEF Play, CoreSound, Runs
    <3>2. CoreSound(card', device', poller') /\ device'.since_poll = device.since_poll + 1
      BY <1>1, <1>3, <1>4, <2>1, <3>1, PlayRuns, Zenon
    <3>3. lock' # NoProc => device.since_poll = 0
      BY <1>1, Zenon DEF Play
    <3>4. lock' # NoProc => device'.since_poll <= 1
      BY <3>2, <3>3
    <3>5. card'.ring = card.ring
      BY <1>3, Zenon DEF Passed
    <3> QED
      BY <2>1, <3>2, <3>4, <3>5, Zenon DEF Polled
  <2>2. CASE ~card.ring.running
    <3>1. CoreSound(card', device', poller')
      BY <1>1, <1>3, <1>4, <2>2, PlayIdles, Zenon
    <3>2. lock' # NoProc => Polled(card', device')
      BY <1>1, <1>3, <2>2, Zenon DEF SoundInv, Polled, Passed
    <3> QED
      BY <3>1, <3>2, Zenon
  <2> QED
    BY <2>1, <2>2, Zenon
<1>6. NothingLost
  <2>1. ASSUME NEW p \in Period, card.memory[p].what = "new"
        PROVE  card'.memory[p].what \in {"new", "heard"}
    <3>1. card.memory[p] \in CellType
      BY <1>1, Zenon DEF CardType
    <3> QED
      BY <1>3, <2>1, <3>1, ZenonT(60) DEF Passed, CellType
  <2> QED
    BY <2>1, Zenon DEF NothingLost
<1> QED
  BY <1>2, <1>5, <1>6, Zenon DEF Kept, SoundInv

\* The card breaks.
LEMMA BreakStep == SoundInv /\ Break => Kept
<1> SUFFICES ASSUME SoundInv, Break PROVE Kept
  BY Zenon
<1>1. /\ CoreSound(card, device, poller) /\ CallsAgree /\ device \in DeviceType
      /\ card' = card /\ poller' = poller /\ lock' = lock
      /\ device' = [device EXCEPT !.broken = TRUE]
  BY Zenon DEF SoundInv, CoreSound, Break
<1>2. CallsAgree' /\ SyncMeansHeard
  BY <1>1, CallsSame, Zenon DEF Break
<1>3. /\ device' \in DeviceType /\ device'.broken /\ device'.kind = device.kind
      /\ device'.on = device.on /\ device'.position = device.position
      /\ device'.last = device.last /\ device'.previous = device.previous
      /\ device'.drained = device.drained /\ device'.beyond = device.beyond
      /\ device'.since_poll = device.since_poll
  BY <1>1, Zenon DEF DeviceType
<1>4. card.ring.running => Runs(card, device')
  BY <1>1, <1>3, ZenonT(60) DEF CoreSound, Runs
<1>5. ~card.ring.running => Idles(card, device')
  BY <1>1, <1>3, Zenon DEF CoreSound, Idles
<1>6. MemorySound(card, device')
  BY <1>1, <1>3, Zenon DEF CoreSound, MemorySound
<1>7. CoreSound(card', device', poller')
  BY <1>1, <1>3, <1>4, <1>5, <1>6, Zenon DEF CoreSound
<1>8. lock' # NoProc => Polled(card', device')
  BY <1>1, <1>3, Zenon DEF SoundInv, Polled
<1>9. NothingLost
  BY <1>1, Zenon DEF NothingLost
<1> QED
  BY <1>2, <1>7, <1>8, <1>9, Zenon DEF Kept, SoundInv

\* Time passes: by the time a card counts as stalled, a working one has played on.
LEMMA TickStep == SoundInv /\ Tick => Kept
<1> SUFFICES ASSUME SoundInv, Tick PROVE Kept
  BY Zenon
<1>1. /\ CoreSound(card, device, poller) /\ CallsAgree /\ card \in CardType
      /\ device \in DeviceType /\ card.idle <= STALL_MS
      /\ card' = [card EXCEPT !.idle = card.idle + 1]
      /\ device' = device /\ poller' = poller /\ lock' = NoProc
  BY Zenon DEF SoundInv, CoreSound, Tick
<1>2. CallsAgree' /\ SyncMeansHeard
  BY <1>1, CallsSame, Zenon DEF Tick
<1>3. card.idle \in 0 .. STALL_MS + 1
  BY <1>1, Zenon DEF CardType
<1>4. card.idle + 1 \in 0 .. STALL_MS + 1 /\ (card.idle + 1 > STALL_MS => card.idle = STALL_MS)
  BY <1>1, <1>3, SoundAssumption
<1>5. /\ card' \in CardType /\ card'.ring = card.ring /\ card'.memory = card.memory
      /\ card'.quiet = card.quiet /\ card'.idle = card.idle + 1
  BY <1>1, <1>4, Zenon DEF CardType
<1>6. ASSUME card.ring.running PROVE Runs(card', device)
  <2>1. Runs(card, device)
    BY <1>1, <1>6, Zenon DEF CoreSound
  <2>2. device.on # "playing" => device.since_poll > 0
    <3>1. card.ring.queued > 0
      BY <1>1, <1>6, Zenon DEF CoreSound, RingSound
    <3> QED
      BY <2>1, <3>1, Zenon DEF Runs
  <2>3. card'.idle > STALL_MS => device.broken \/ device.since_poll > 0
    BY <1>4, <1>5, <2>2, Zenon DEF Tick
  <2> QED
    BY <1>5, <2>1, <2>3, Zenon DEF Runs
<1>7. ~card.ring.running => Idles(card', device)
  BY <1>1, <1>5, Zenon DEF CoreSound, Idles
<1>8. CoreSound(card', device', poller')
  BY <1>1, <1>5, <1>6, <1>7, Zenon DEF CoreSound, MemorySound
<1>9. NothingLost
  BY <1>5, Zenon DEF NothingLost
<1> QED
  BY <1>1, <1>2, <1>8, <1>9, Zenon DEF Kept, SoundInv

\* What a step that polls does to the core.
PollStep ==
    /\ CoreSound(card', device', poller') /\ Polled(card', device') /\ NothingLost
    /\ card'.rate = card.rate
    /\ \A p \in Period : card'.memory[p] \in {Silence, card.memory[p]}
    /\ \/ card'.ring.fill_bytes = 0
       \/ card'.ring.fill_bytes = card.ring.fill_bytes /\ card'.staged = card.staged
    /\ ~Busy(card.ring) => ~Busy(card'.ring)

\* Every Card::poll.
LEMMA PollIsSound ==
    ASSUME SoundInv, Becomes(Poll(Now))
    PROVE  PollStep
<1>1. PICK s, t : s = Now /\ t = Poll(s)
  BY Zenon
<1>2. /\ s \in CoreType /\ s.card = card /\ s.device = device /\ s.poller = poller
      /\ CoreSound(s.card, s.device, s.poller)
  BY <1>1, NowIs, Zenon
<1>3. PollKept(s, t)
  BY <1>1, <1>2, PollKeeps, Zenon
<1>4. card' = t.card /\ device' = t.device /\ poller' = t.poller
  BY <1>1, Zenon DEF Becomes
<1>5. NothingLost
  BY <1>2, <1>3, <1>4, Zenon DEF PollKept, NothingLost
<1> QED
  BY <1>2, <1>3, <1>4, <1>5, Zenon DEF PollKept, PollStep

\* The sound task.
LEMMA PollerStepStep == SoundInv /\ PollerStep => Kept
<1> SUFFICES ASSUME SoundInv, PollerStep PROVE Kept
  BY Zenon
<1>1. /\ CoreSound(card, device, poller) /\ CallsAgree /\ lock' = NoProc /\ card \in CardType
  BY Zenon DEF SoundInv, CoreSound, PollerStep
<1>2. CallsAgree' /\ SyncMeansHeard
  BY <1>1, CallsSame, Zenon DEF PollerStep
<1>3. CASE card.ring.running
  <2>1. PollStep
    BY <1>3, PollIsSound, Zenon DEF PollerStep
  <2> QED
    BY <1>1, <1>2, <2>1, Zenon DEF PollStep, Kept, SoundInv
<1>4. CASE ~card.ring.running
  <2>1. card' = card /\ device' = device /\ poller' = "waiting"
    BY <1>4, Zenon DEF PollerStep
  <2>2. CoreSound(card', device', poller')
    BY <1>1, <1>4, <2>1, CoreSame, Zenon DEF PollerType
  <2>3. NothingLost
    BY <2>1, Zenon DEF NothingLost
  <2> QED
    BY <1>1, <1>2, <2>2, <2>3, Zenon DEF Kept, SoundInv
<1> QED
  BY <1>3, <1>4, Zenon

\* /proc/sound and SNDCTL_DSP_GETODELAY
LEMMA PollOnlyStep == SoundInv /\ PollOnly => Kept
<1> SUFFICES ASSUME SoundInv, PollOnly PROVE Kept
  BY Zenon
<1>1. CallsAgree /\ lock' = NoProc
  BY Zenon DEF SoundInv, PollOnly
<1>2. CallsAgree' /\ SyncMeansHeard
  BY <1>1, CallsSame, Zenon DEF PollOnly
<1>3. PollStep
  BY PollIsSound, Zenon DEF PollOnly
<1> QED
  BY <1>1, <1>2, <1>3, Zenon DEF PollStep, Kept, SoundInv

\* open
LEMMA OpenStep == SoundInv /\ (\E p \in Procs : Open(p)) => Kept
<1> SUFFICES ASSUME SoundInv, NEW p \in Procs, Open(p) PROVE Kept
  BY Zenon
<1>1. /\ CoreSound(card, device, poller) /\ CallsAgree /\ card \in CardType
      /\ poller \in PollerType
  BY Zenon DEF SoundInv, CoreSound
<1>2. /\ card' = [card EXCEPT !.open = TRUE] /\ rate' = DEFAULT /\ lock' = lock /\ lock = NoProc
      /\ device' = device /\ pc' = pc /\ todo' = todo /\ target' = target
      /\ poller' = IF poller = "none" THEN "ready" ELSE poller
  BY Zenon DEF Open
<1>3. CallsAgree' /\ SyncMeansHeard
  BY <1>1, <1>2, SoundAssumption, Zenon DEF CallsAgree, SyncMeansHeard
<1>4. /\ card' \in CardType /\ card'.ring = card.ring /\ card'.memory = card.memory
      /\ card'.quiet = card.quiet /\ card'.idle = card.idle
  BY <1>1, <1>2, Zenon DEF CardType
<1>5. poller' \in PollerType /\ (card.ring.running => poller' = "ready")
  BY <1>1, <1>2, Zenon DEF CoreSound, PollerType
<1>6. CoreSound(card', device', poller')
  BY <1>1, <1>2, <1>4, <1>5, CoreSame, Zenon
<1>7. NothingLost
  BY <1>4, Zenon DEF NothingLost
<1> QED
  BY <1>2, <1>3, <1>6, <1>7, Zenon DEF Kept, SoundInv

\* Steps that leave the card alone.
LEMMA CoreStill ==
    ASSUME SoundInv, UNCHANGED <<card, device, poller>>, lock' \in {lock, NoProc},
           CallsAgree', SyncMeansHeard
    PROVE  Kept
<1>1. card' = card /\ device' = device /\ poller' = poller
  BY Zenon
<1>2. NothingLost
  BY <1>1, Zenon DEF NothingLost
<1> QED
  BY <1>1, <1>2, Zenon DEF Kept, SoundInv

\* A process outside a section does not hold the lock.
LEMMA Outside ==
    ASSUME SoundInv, NEW p \in Procs, pc[p] \notin Sections
    PROVE  lock # p /\ CallsAgree
BY Zenon DEF SoundInv, CallsAgree

\* The start of write, SNDCTL_DSP_SPEED, SYNC and RESET.
LEMMA BeginStep ==
    SoundInv /\ (\E p \in Procs : \/ BeginSync(p) \/ BeginReset(p)
                                  \/ \E count \in 1 .. MaxWrite : BeginWrite(p, count)
                                  \/ \E wanted \in Rates : BeginSpeed(p, wanted)) => Kept
<1> SUFFICES ASSUME SoundInv, NEW p \in Procs,
                    \/ BeginSync(p) \/ BeginReset(p)
                    \/ \E count \in 1 .. MaxWrite : BeginWrite(p, count)
                    \/ \E wanted \in Rates : BeginSpeed(p, wanted)
             PROVE  Kept
  BY Zenon
<1>1. PICK where \in Places \ (Sections \cup {"setrate"}) : Goto(p, where)
  BY Zenon DEF BeginSync, BeginReset, BeginWrite, BeginSpeed, Places, Sections
<1>2. pc[p] = "idle" /\ lock' = lock /\ target' = target /\ UNCHANGED <<card, device, poller>>
  BY Zenon DEF BeginSync, BeginReset, BeginWrite, BeginSpeed
<1>3. lock # p /\ CallsAgree
  BY <1>2, Outside, Zenon DEF Sections
<1>4. rate' \in Rates
  BY <1>3, Zenon DEF BeginSync, BeginReset, BeginWrite, BeginSpeed, CallsAgree
<1>5. todo' \in [Procs -> 0 .. MaxWrite]
  <2>1. 1 .. MaxWrite \subseteq 0 .. MaxWrite
    BY SoundAssumption
  <2> QED
    BY <1>3, <2>1, Zenon DEF BeginSync, BeginReset, BeginWrite, BeginSpeed, CallsAgree
<1>6. /\ lock' \in Procs \cup {NoProc} /\ target' \in [Procs -> Rates \cup {0}]
      /\ \A q \in Procs : q # p => (lock' = q <=> lock = q) /\ target'[q] = target[q]
      /\ where \in Places /\ (where \in Sections <=> lock' = p) /\ where # "setrate"
  BY <1>1, <1>2, <1>3, Zenon DEF CallsAgree
<1>7. CallsAgree' /\ SyncMeansHeard
  BY <1>1, <1>2, <1>3, <1>4, <1>5, <1>6, CallsMove, ZenonT(60)
<1> QED
  BY <1>2, <1>7, CoreStill, Zenon

\* apply_rate, up to the drain.
LEMMA ApplyRateStep == SoundInv /\ (\E p \in Procs : ApplyRate(p)) => Kept
<1> SUFFICES ASSUME SoundInv, NEW p \in Procs, ApplyRate(p) PROVE Kept
  BY Zenon
<1>1. PICK where \in Places \ (Sections \cup {"setrate"}) : Goto(p, where)
  BY Zenon DEF ApplyRate, AfterRate, Places, Sections
<1>2. /\ pc[p] = "rate" /\ lock' = lock /\ rate' = rate /\ todo' = todo
      /\ UNCHANGED <<card, device, poller>>
      /\ target' = target \/ target' = [target EXCEPT ![p] = rate]
  BY Zenon DEF ApplyRate
<1>3. lock # p /\ CallsAgree
  BY <1>2, Outside, Zenon DEF Sections
<1>4. /\ target' \in [Procs -> Rates \cup {0}]
      /\ \A q \in Procs : q # p => target'[q] = target[q]
  BY <1>2, <1>3, ZenonT(60) DEF CallsAgree
<1>5. /\ lock' \in Procs \cup {NoProc} /\ rate' \in Rates /\ todo' \in [Procs -> 0 .. MaxWrite]
      /\ \A q \in Procs : q # p => (lock' = q <=> lock = q) /\ target'[q] = target[q]
      /\ where \in Places /\ (where \in Sections <=> lock' = p) /\ where # "setrate"
  BY <1>1, <1>2, <1>3, <1>4, Zenon DEF CallsAgree
<1>6. CallsAgree' /\ SyncMeansHeard
  BY <1>1, <1>2, <1>3, <1>4, <1>5, CallsMove, Zenon
<1> QED
  BY <1>2, <1>6, CoreStill, Zenon

\* The polls that open a section: of drain, write_at and the last close.
LEMMA SectionStep ==
    SoundInv /\ (\E p \in Procs : DrainPoll(p) \/ WritePoll(p) \/ ClosePoll(p)) => Kept
<1> SUFFICES ASSUME SoundInv, NEW p \in Procs, DrainPoll(p) \/ WritePoll(p) \/ ClosePoll(p)
             PROVE  Kept
  BY Zenon
<1>1. PICK where \in Sections : Goto(p, where)
  BY Zenon DEF DrainPoll, WritePoll, ClosePoll, Sections
<1>2. /\ pc[p] \notin Sections /\ lock' = p /\ lock = NoProc /\ rate' = rate /\ todo' = todo
      /\ target' = target /\ Becomes(Poll(Now))
  BY Zenon DEF DrainPoll, WritePoll, ClosePoll, Sections
<1>3. CallsAgree /\ pc[p] # "flush"
  BY <1>2, Outside, Zenon DEF Sections
<1>4. PollStep
  BY <1>2, PollIsSound, Zenon
<1>5. /\ lock' \in Procs \cup {NoProc} /\ rate' \in Rates /\ todo' \in [Procs -> 0 .. MaxWrite]
      /\ target' \in [Procs -> Rates \cup {0}]
      /\ \A q \in Procs : q # p => (lock' = q <=> lock = q) /\ target'[q] = target[q]
      /\ where \in Places /\ (where \in Sections <=> lock' = p) /\ where # "setrate"
  BY <1>1, <1>2, <1>3, SoundAssumption, Zenon DEF CallsAgree, Places, Sections
<1>6. CallsAgree' /\ SyncMeansHeard
  BY <1>1, <1>3, <1>5, CallsMove, Zenon
<1> QED
  BY <1>4, <1>6, Zenon DEF PollStep, Kept, SoundInv

\* A section that flushes has polled.
LEMMA FlushIsSound ==
    ASSUME SoundInv, NEW p \in Procs, pc[p] \in Sections
    PROVE  Flushed(Now, Flush(Now)) /\ lock = p /\ CallsAgree
<1>1. lock = p /\ CallsAgree
  BY Zenon DEF SoundInv, CallsAgree
<1>2. Polled(card, device)
  BY <1>1, SoundAssumption, Zenon DEF SoundInv
<1>3. Polled(Now.card, Now.device)
  BY <1>2, NowIs, Zenon
<1> QED
  BY <1>1, <1>3, NowIs, FlushKeeps, Zenon

\* When the ring has nothing, all of it is silent.
LEMMA IdleIsSilent ==
    ASSUME NEW c, NEW d, NEW o, CoreSound(c, d, o), ~Busy(c.ring)
    PROVE  \A p \in Period : c.memory[p].what = "silent"
<1>1. PICK f : f = c.ring.first_queued /\ f \in Period
  BY Zenon DEF CoreSound, CardType, RingType
<1>2. c.ring.queued = 0 /\ ~c.ring.running
  <2>1. c.ring.queued \in 0 .. MAX_QUEUED /\ ~(c.ring.queued > 0) /\ ~c.ring.running
    BY Zenon DEF Busy, CoreSound, CardType, RingType
  <2> QED
    BY <2>1, Sizes
<1>3. Marks(c.memory, f, 0, 0)
  BY <1>1, <1>2, Zenon DEF CoreSound, MemorySound
<1>4. \A q \in Period : Off(f, q) >= 0
  BY <1>1, OffNat
<1> QED
  BY <1>3, <1>4, Zenon DEF Marks

\* The end of a round of drain: it is left when the ring is empty.
LEMMA DrainFlushStep == SoundInv /\ (\E p \in Procs : DrainFlush(p)) => Kept
<1> SUFFICES ASSUME SoundInv, NEW p \in Procs, DrainFlush(p) PROVE Kept
  BY Zenon
<1>1. PICK t : t = Flush(Now)
  BY Zenon
<1>2. /\ pc[p] = "flush" /\ lock' = NoProc /\ rate' = rate /\ todo' = todo /\ target' = target
      /\ card' = t.card /\ device' = t.device /\ poller' = t.poller
  BY <1>1, Zenon DEF DrainFlush, Becomes
<1>3. PICK where \in Places \ Sections :
        /\ Goto(p, where)
        /\ where = "setrate" => target[p] # 0
        /\ where # "drain" => ~Busy(card'.ring)
  BY Zenon DEF DrainFlush, Places, Sections
<1>4. Flushed(Now, t) /\ lock = p /\ CallsAgree
  BY <1>1, <1>2, FlushIsSound, Zenon DEF Sections
<1>5. /\ CoreSound(card', device', poller')
      /\ \A q \in Period : card.memory[q].what = "new" => card'.memory[q].what = "new"
  BY <1>2, <1>4, NowIs, Zenon DEF Flushed, Committed
<1>6. NothingLost
  BY <1>5, Zenon DEF NothingLost
<1>7. /\ lock' \in Procs \cup {NoProc} /\ rate' \in Rates /\ todo' \in [Procs -> 0 .. MaxWrite]
      /\ target' \in [Procs -> Rates \cup {0}]
      /\ \A q \in Procs : q # p => (lock' = q <=> lock = q) /\ target'[q] = target[q]
      /\ where \in Places /\ (where \in Sections <=> lock' = p)
      /\ where = "setrate" => target'[p] # 0
  BY <1>2, <1>3, <1>4, SoundAssumption, Zenon DEF CallsAgree
<1>8. /\ CallsAgree' /\ pc'[p] = where /\ \A q \in Procs : q # p => pc'[q] = pc[q]
  BY <1>3, <1>4, <1>7, CallsMove, ZenonT(60)
<1>9. ASSUME ~Busy(card'.ring) PROVE \A q \in Period : card'.memory[q].what # "new"
  BY <1>5, <1>9, IdleIsSilent, Zenon
<1>10. SyncMeansHeard
  BY <1>3, <1>8, <1>9, Zenon DEF SyncMeansHeard
<1> QED
  BY <1>2, <1>5, <1>6, <1>8, <1>10, Zenon DEF Kept, SoundInv

\* apply_rate, after the drain.
LEMMA SetRateStep == SoundInv /\ (\E p \in Procs : SetRate(p)) => Kept
<1> SUFFICES ASSUME SoundInv, NEW p \in Procs, SetRate(p) PROVE Kept
  BY Zenon
<1>1. /\ pc[p] = "setrate" /\ lock = NoProc /\ lock' = lock /\ rate' = rate /\ todo' = todo
      /\ card' = [card EXCEPT !.rate = target[p]] /\ target' = [target EXCEPT ![p] = 0]
      /\ device' = device /\ poller' = poller
  BY Zenon DEF SetRate
<1>2. PICK where \in Places \ (Sections \cup {"setrate"}) : Goto(p, where)
  BY Zenon DEF SetRate, AfterRate, Places, Sections
<1>3. /\ CoreSound(card, device, poller) /\ CallsAgree /\ card \in CardType
      /\ poller \in PollerType /\ (card.ring.running => poller = "ready")
  BY Zenon DEF SoundInv, CoreSound
<1>4. target[p] \in Rates
  BY <1>1, <1>3, Zenon DEF CallsAgree
<1>5. /\ lock' \in Procs \cup {NoProc} /\ rate' \in Rates /\ todo' \in [Procs -> 0 .. MaxWrite]
      /\ target' \in [Procs -> Rates \cup {0}]
      /\ \A q \in Procs : q # p => (lock' = q <=> lock = q) /\ target'[q] = target[q]
      /\ where \in Places /\ (where \in Sections <=> lock' = p) /\ where # "setrate"
  BY <1>1, <1>2, <1>3, SoundAssumption, Zenon DEF CallsAgree
<1>6. CallsAgree' /\ SyncMeansHeard
  BY <1>1, <1>2, <1>3, <1>5, CallsMove, Zenon
<1>7. /\ card' \in CardType /\ card'.ring = card.ring /\ card'.memory = card.memory
      /\ card'.quiet = card.quiet /\ card'.idle = card.idle
  BY <1>1, <1>3, <1>4, Zenon DEF CardType
<1>8. CoreSound(card', device', poller')
  BY <1>1, <1>3, <1>7, CoreSame, Zenon
<1>9. NothingLost
  BY <1>7, Zenon DEF NothingLost
<1> QED
  BY <1>1, <1>6, <1>8, <1>9, Zenon DEF Kept, SoundInv

\* SNDCTL_DSP_RESET
LEMMA ResetStep == SoundInv /\ (\E p \in Procs : Reset(p)) => Kept
<1> SUFFICES ASSUME SoundInv, NEW p \in Procs, Reset(p) PROVE Kept
  BY Zenon
<1>1. PICK t : t = ResetCard(Now)
  BY Zenon
<1>2. /\ pc[p] = "reset" /\ lock = NoProc /\ lock' = lock /\ rate' = rate /\ todo' = todo
      /\ target' = target /\ Goto(p, "idle")
      /\ card' = t.card /\ device' = t.device /\ poller' = t.poller
  BY <1>1, Zenon DEF Reset, Becomes
<1>3. CallsAgree
  BY Zenon DEF SoundInv
<1>4. /\ lock' \in Procs \cup {NoProc} /\ rate' \in Rates /\ todo' \in [Procs -> 0 .. MaxWrite]
      /\ target' \in [Procs -> Rates \cup {0}]
      /\ \A q \in Procs : q # p => (lock' = q <=> lock = q) /\ target'[q] = target[q]
      /\ "idle" \in Places /\ ("idle" \in Sections <=> lock' = p)
  BY <1>2, <1>3, SoundAssumption, Zenon DEF CallsAgree, Places, Sections
<1>5. CallsAgree' /\ SyncMeansHeard
  BY <1>2, <1>3, <1>4, CallsMove, Zenon
<1>6. /\ t \in CoreType /\ t.device = StopDevice(device) /\ t.card.ring = NewRing
      /\ t.card.memory = Silent /\ ~t.card.quiet /\ t.card.idle = 0
  BY <1>1, NowIs, ResetIs, Zenon
<1>7. device \in DeviceType
  BY Zenon DEF SoundInv, CoreSound
<1>8. CoreSound(card', device', poller')
  <2>1. t.device.on = "stopped" /\ t.card \in CardType /\ t.device \in DeviceType
        /\ t.poller \in PollerType
    BY <1>6, <1>7, StopIs, Zenon DEF CoreType
  <2> QED
    BY <1>2, <1>6, <2>1, ResetKeeps, Zenon
<1>9. NothingLost
  BY <1>2, Zenon DEF NothingLost
<1> QED
  BY <1>2, <1>5, <1>8, <1>9, Zenon DEF Kept, SoundInv

\* Drop for DspHandle, after its poll.
LEMMA CloseFlushStep == SoundInv /\ (\E p \in Procs : CloseFlush(p)) => Kept
<1> SUFFICES ASSUME SoundInv, NEW p \in Procs, CloseFlush(p) PROVE Kept
  BY Zenon
<1>1. PICK t : t = Flush(Now)
  BY Zenon
<1>2. /\ pc[p] = "closing" /\ lock' = NoProc /\ rate' = rate /\ todo' = todo /\ target' = target
      /\ Goto(p, "idle") /\ Becomes([t EXCEPT !.card.open = FALSE])
  BY <1>1, Zenon DEF CloseFlush
<1>3. Flushed(Now, t) /\ lock = p /\ CallsAgree
  BY <1>1, <1>2, FlushIsSound, Zenon DEF Sections
<1>4. /\ t \in CoreType /\ t.card \in CardType /\ CoreSound(t.card, t.device, t.poller)
      /\ \A q \in Period : card.memory[q].what = "new" => t.card.memory[q].what = "new"
  BY <1>3, NowIs, Zenon DEF Flushed, Committed, CoreType
<1>5. /\ card' = [t.card EXCEPT !.open = FALSE] /\ device' = t.device /\ poller' = t.poller
  BY <1>2, <1>4, Zenon DEF Becomes, CoreType
<1>6. /\ card' \in CardType /\ card'.ring = t.card.ring /\ card'.memory = t.card.memory
      /\ card'.quiet = t.card.quiet /\ card'.idle = t.card.idle
  BY <1>4, <1>5, Zenon DEF CardType
<1>7. CoreSound(card', device', poller')
  <2>1. t.poller \in PollerType /\ (t.card.ring.running => t.poller = "ready")
    BY <1>4, Zenon DEF CoreSound
  <2> QED
    BY <1>4, <1>5, <1>6, <2>1, CoreSame, Zenon
<1>8. NothingLost
  BY <1>4, <1>6, Zenon DEF NothingLost
<1>9. /\ lock' \in Procs \cup {NoProc} /\ rate' \in Rates /\ todo' \in [Procs -> 0 .. MaxWrite]
      /\ target' \in [Procs -> Rates \cup {0}]
      /\ \A q \in Procs : q # p => (lock' = q <=> lock = q) /\ target'[q] = target[q]
      /\ "idle" \in Places /\ ("idle" \in Sections <=> lock' = p)
  BY <1>2, <1>3, SoundAssumption, Zenon DEF CallsAgree, Places, Sections
<1>10. CallsAgree' /\ SyncMeansHeard
  BY <1>2, <1>3, <1>9, CallsMove, Zenon
<1> QED
  BY <1>2, <1>7, <1>8, <1>10, Zenon DEF Kept, SoundInv

\* One round of write_at that finds room: what it puts into staging, and how much.
Staged == [Now EXCEPT !.card.staged = IF card.ring.fill_bytes = 0 THEN card.rate ELSE @]
Count(p) ==
    IF todo[p] < PERIOD_BYTES - card.ring.fill_bytes THEN todo[p]
    ELSE PERIOD_BYTES - card.ring.fill_bytes

\* It is a commit of at most the rest of the period.
LEMMA FillIs ==
    ASSUME SoundInv, NEW p \in Procs, pc[p] = "fill", HasSpace(card.ring)
    PROVE  /\ Committed(Staged, CommitStaged(Staged, Count(p)))
           /\ Staged.card.memory = card.memory /\ Staged.card.rate = card.rate
           /\ Staged.card.staged = (IF card.ring.fill_bytes = 0 THEN card.rate ELSE card.staged)
           /\ todo[p] - Count(p) \in 0 .. MaxWrite
<1>1. /\ CoreSound(card, device, poller) /\ CallsAgree /\ card \in CardType
      /\ device \in DeviceType /\ poller \in PollerType
      /\ (card.ring.running => poller = "ready")
  BY Zenon DEF SoundInv, CoreSound
<1>2. Polled(card, device)
  BY <1>1, SoundAssumption, Zenon DEF SoundInv, CallsAgree, Sections
<1>3. /\ card.ring.fill_bytes \in 0 .. PERIOD_BYTES - 1 /\ todo[p] \in 0 .. MaxWrite
      /\ card.rate \in Rates /\ card.staged \in Rates \cup {0}
  BY <1>1, Zenon DEF CardType, RingType, CallsAgree
<1>4. PICK x : x = IF card.ring.fill_bytes = 0 THEN card.rate ELSE card.staged
  BY Zenon
<1>5. x \in Rates \cup {0}
  BY <1>3, <1>4, Zenon
<1>6. PICK s : s = Staged
  BY Zenon
<1>7. PICK cc : cc = [card EXCEPT !.staged = x]
  BY Zenon
<1>8. /\ cc \in CardType /\ cc.ring = card.ring /\ cc.memory = card.memory
      /\ cc.quiet = card.quiet /\ cc.idle = card.idle /\ cc.rate = card.rate /\ cc.staged = x
  BY <1>1, <1>5, <1>7, Zenon DEF CardType
<1>9. s \in CoreType /\ s.card = cc /\ s.device = device /\ s.poller = poller
  BY <1>1, <1>4, <1>6, <1>7, <1>8, Zenon DEF Staged, Now, CoreType
<1>10. CoreSound(cc, device, poller) /\ Polled(cc, device)
  BY <1>1, <1>2, <1>8, CoreSame, Zenon
<1>11. PICK b, n, count : b = card.ring.fill_bytes /\ n = todo[p] /\ count = Count(p)
  BY Zenon
<1>12. /\ b \in Nat /\ n \in Nat /\ n <= MaxWrite /\ b < PERIOD_BYTES /\ PERIOD_BYTES \in Nat
       /\ MaxWrite \in Nat
  BY <1>3, <1>11, SoundAssumption
<1>13. count = IF n < PERIOD_BYTES - b THEN n ELSE PERIOD_BYTES - b
  BY <1>11, Zenon DEF Count
<1>14. /\ count \in Nat /\ n - count \in 0 .. MaxWrite
       /\ b + count < PERIOD_BYTES \/ b + count = PERIOD_BYTES
  BY <1>12, <1>13
<1>15. Committed(s, CommitStaged(s, count))
  <2>1. /\ CoreSound(s.card, s.device, s.poller) /\ Polled(s.card, s.device)
        /\ HasSpace(s.card.ring) /\ s.card.ring.fill_bytes = b
    BY <1>8, <1>9, <1>10, <1>11, ZenonT(60)
  <2>2. CASE b + count < PERIOD_BYTES
    BY <1>9, <1>14, <2>1, <2>2, CommitPart, ZenonT(60)
  <2>3. CASE b + count = PERIOD_BYTES
    BY <1>9, <1>14, <2>1, <2>3, CommitFull, Zenon
  <2> QED
    BY <1>14, <2>2, <2>3, Zenon
<1> QED
  BY <1>4, <1>6, <1>8, <1>9, <1>11, <1>14, <1>15, ZenonT(60)

\* write_at, after its poll.
LEMMA FillStep == SoundInv /\ (\E p \in Procs : Fill(p)) => Kept
<1> SUFFICES ASSUME SoundInv, NEW p \in Procs, Fill(p) PROVE Kept
  BY Zenon
<1>1. pc[p] = "fill" /\ rate' = rate /\ target' = target
  BY Zenon DEF Fill
<1>2. lock = p /\ CallsAgree
  BY <1>1, Zenon DEF SoundInv, CallsAgree, Sections
<1>3. CASE todo[p] > 0 /\ HasSpace(card.ring)
  <2>1. PICK s, t, count : s = Staged /\ count = Count(p) /\ t = CommitStaged(s, count)
    BY Zenon
  <2>2. /\ Becomes(t) /\ todo' = [todo EXCEPT ![p] = @ - count] /\ lock' = lock /\ pc' = pc
    BY <1>3, <2>1, Zenon DEF Fill, Staged, Count
  <2>3. Committed(s, t) /\ s.card.memory = card.memory /\ todo[p] - count \in 0 .. MaxWrite
    BY <1>1, <1>3, <2>1, FillIs, Zenon
  <2>4. CallsAgree'
    BY <1>1, <1>2, <2>2, <2>3, Zenon DEF CallsAgree
  <2>5. SyncMeansHeard
    BY <2>2, Zenon DEF SyncMeansHeard
  <2>6. CoreSound(card', device', poller') /\ Polled(card', device') /\ NothingLost
    BY <2>2, <2>3, Zenon DEF Becomes, Committed, NothingLost
  <2> QED
    BY <2>4, <2>5, <2>6, Zenon DEF Kept, SoundInv
<1>4. CASE ~(todo[p] > 0 /\ HasSpace(card.ring))
  <2>1. /\ lock' = NoProc /\ UNCHANGED <<card, device, poller>> /\ todo' = todo
    BY <1>4, Zenon DEF Fill
  <2>2. PICK where \in Places \ (Sections \cup {"setrate"}) : Goto(p, where)
    BY <1>4, Zenon DEF Fill, Places, Sections
  <2>3. /\ lock' \in Procs \cup {NoProc} /\ rate' \in Rates /\ todo' \in [Procs -> 0 .. MaxWrite]
        /\ target' \in [Procs -> Rates \cup {0}]
        /\ \A q \in Procs : q # p => (lock' = q <=> lock = q) /\ target'[q] = target[q]
        /\ where \in Places /\ (where \in Sections <=> lock' = p) /\ where # "setrate"
    BY <1>1, <1>2, <2>1, <2>2, SoundAssumption, Zenon DEF CallsAgree
  <2>4. CallsAgree' /\ SyncMeansHeard
    BY <1>1, <1>2, <2>2, <2>3, CallsMove, Zenon
  <2> QED
    BY <2>1, <2>4, CoreStill, Zenon
<1> QED
  BY <1>3, <1>4, Zenon

---------------------------------------------------------------------------
(* The invariant, and what it means for the user *)

\* The card is idle and the device closed to begin with.
LEMMA InitSound == Init => SoundInv
<1> SUFFICES ASSUME Init PROVE SoundInv
  BY Zenon
<1>1. PICK kind \in Kinds :
        device = [kind |-> kind, broken |-> FALSE, on |-> "stopped", position |-> 0,
                  last |-> 0, previous |-> 0, drained |-> FALSE, beyond |-> FALSE,
                  since_poll |-> 0]
  BY Zenon DEF Init
<1>2. device \in DeviceType /\ device.on = "stopped"
  BY <1>1, Sizes, Zenon DEF DeviceType
<1>3. 0 \in 0 .. STALL_MS + 1 /\ 0 \in 0 .. MaxWrite /\ DEFAULT \in Rates
  BY SoundAssumption
<1>4. card = [ring |-> NewRing, memory |-> Silent, rate |-> DEFAULT, open |-> FALSE,
              quiet |-> FALSE, staged |-> 0, idle |-> 0]
  BY Zenon DEF Init
<1>5. /\ card \in CardType /\ card.ring = NewRing /\ card.memory = Silent /\ ~card.quiet
      /\ card.idle = 0
  <2>1. card \in CardType
    BY <1>3, <1>4, Blank, Zenon DEF CardType
  <2>2. /\ card.ring = NewRing /\ card.memory = Silent /\ ~card.quiet /\ card.idle = 0
    BY <1>4, Zenon
  <2> QED
    BY <2>1, <2>2, Zenon
<1>6. CoreSound(card, device, poller)
  <2>1. poller \in PollerType
    BY Zenon DEF Init, PollerType
  <2> QED
    BY <1>2, <1>5, <2>1, ResetKeeps, Zenon
<1>7. CallsAgree /\ lock = NoProc
  BY <1>3, SoundAssumption, Zenon DEF Init, CallsAgree, Places, Sections
<1> QED
  BY <1>6, <1>7, Zenon DEF SoundInv

\* Every step keeps it.
LEMMA StepSound == SoundInv /\ [Next]_vars => SoundInv' /\ [NothingLost /\ SyncMeansHeard]_vars
<1> SUFFICES ASSUME SoundInv, [Next]_vars
             PROVE  SoundInv' /\ [NothingLost /\ SyncMeansHeard]_vars
  BY Zenon
<1>1. CASE UNCHANGED vars
  <2>1. SoundInv'
    BY <1>1, Zenon DEF vars, SoundInv, CallsAgree
  <2> QED
    BY <1>1, <2>1, Zenon
<1>2. CASE Next
  <2>1. Kept
    BY <1>2, PlayStep, BreakStep, TickStep, PollerStepStep, PollOnlyStep, OpenStep, BeginStep,
       ApplyRateStep, SectionStep, DrainFlushStep, SetRateStep, FillStep, ResetStep,
       CloseFlushStep, ZenonT(60) DEF Next, Step, Continue
  <2> QED
    BY <2>1, Zenon DEF Kept
<1> QED
  BY <1>1, <1>2, Zenon

\* Every variable has its shape.
LEMMA TypesHold == SoundInv => TypeOK
<1> SUFFICES ASSUME SoundInv PROVE TypeOK
  BY Zenon
<1>1. card \in CardType /\ device \in DeviceType /\ poller \in PollerType /\ CallsAgree
  BY Zenon DEF SoundInv, CoreSound
<1>2. /\ card.ring \in RingType /\ card.memory \in [Period -> CellType] /\ card.rate \in Rates
      /\ card.idle \in 0 .. STALL_MS + 1
  BY <1>1, Zenon DEF CardType
<1>3. /\ device.on \in {"stopped", "playing", "halted"}
      /\ {device.position, device.last, device.previous} \subseteq Period
  BY <1>1, Zenon DEF DeviceType
<1> QED
  BY <1>1, <1>2, <1>3, Zenon DEF TypeOK, RingType, CellType, PollerType, CallsAgree

\* The assertions of ring.rs.
LEMMA AssertionsFollow == SoundInv => AssertionsHold
<1> SUFFICES ASSUME SoundInv PROVE AssertionsHold
  BY Zenon
<1>1. CoreSound(card, device, poller) /\ RingSound(card.ring)
  BY Zenon DEF SoundInv, CoreSound
<1>2. ASSUME card.ring.running, ~Status(device).halted
      PROVE  Done(card.ring, Status(device).current) < card.ring.queued
  <2>1. /\ ~(device.since_poll >= card.ring.queued)
        /\ Done(card.ring, Status(device).current) = device.since_poll
    BY <1>1, <1>2, StatusRuns, Zenon
  <2>2. device.since_poll \in Period /\ card.ring.queued \in Period
    BY <1>1, Sizes, Zenon DEF CoreSound, CardType, RingType, DeviceType
  <2>3. device.since_poll < card.ring.queued
    BY <2>1, <2>2, Sizes
  <2> QED
    BY <2>1, <2>3, Zenon
<1> QED
  BY <1>1, <1>2, Zenon DEF AssertionsHold, RingSound

\* Audio is in the queued periods only.
LEMMA OnlyQueuedFollows == SoundInv => OnlyQueuedIsAudible
<1> SUFFICES ASSUME SoundInv, NEW p \in Period
             PROVE  (card.memory[p] # Silence)
                        <=> p \in Window(card.ring.first_queued, card.ring.queued)
  BY Zenon DEF OnlyQueuedIsAudible
<1>1. PICK q, n, k : /\ q = card.ring.first_queued /\ n = card.ring.queued
                     /\ k = IF card.ring.running THEN device.since_poll ELSE 0
  BY Zenon
<1>2. CoreSound(card, device, poller) /\ Marks(card.memory, q, n, k)
  BY <1>1, Zenon DEF SoundInv, CoreSound, MemorySound
<1>3. q \in Period /\ n \in Period
  BY <1>1, <1>2, Sizes, Zenon DEF CoreSound, CardType, RingType
<1>4. Off(q, p) \in Nat /\ n \in Nat
  BY <1>3, OffNat, Sizes, Zenon
<1>5. Off(q, p) < n <=> ~(Off(q, p) >= n)
  BY <1>4
<1>6. p \in Window(q, n) <=> Off(q, p) < n
  BY Zenon DEF Window, Off
<1>7. Silence.what = "silent"
  BY Zenon DEF Silence
<1>8. card.memory[p] # Silence <=> ~(Off(q, p) >= n)
  BY <1>2, <1>7, Zenon DEF Marks
<1> QED
  BY <1>1, <1>5, <1>6, <1>8, Zenon

\* The periods still to be heard are those from the card's position to the last one queued.
LEMMA StillToHear ==
    ASSUME NEW m, NEW q \in Period, NEW n \in Period, NEW k \in Nat, k < n, Marks(m, q, n, k)
    PROVE  {p \in Period : m[p].what = "new"} =
                Window(At(q, k), ((At(q, n - 1) + PERIODS - At(q, k)) % PERIODS) + 1)
<1>1. /\ k \in Period /\ n \in Nat /\ n < PERIODS /\ PERIODS \in Nat /\ n - 1 \in Period
      /\ n - 1 >= k
  BY Sizes
<1>2. At(q, n - 1) \in Period /\ Off(q, At(q, n - 1)) = n - 1
  BY <1>1, OffAt, Zenon
<1>3. Off(At(q, k), At(q, n - 1)) = n - 1 - k
  <2>1. PICK a : a = At(q, n - 1) /\ a \in Period /\ Off(q, a) = n - 1
    BY <1>2, Zenon
  <2>2. Off(At(q, k), a) = IF Off(q, a) >= k THEN Off(q, a) - k ELSE Off(q, a) + PERIODS - k
    BY <1>1, <2>1, Further, Zenon
  <2> QED
    BY <1>1, <2>1, <2>2, Zenon
<1>4. ((At(q, n - 1) + PERIODS - At(q, k)) % PERIODS) + 1 = n - k
  <2>1. (At(q, n - 1) + PERIODS - At(q, k)) % PERIODS = n - 1 - k
    BY <1>3, Zenon DEF Off
  <2> QED
    BY <1>1, <2>1
<1>5. ASSUME NEW p \in Period
      PROVE  m[p].what = "new" <=> (p + PERIODS - At(q, k)) % PERIODS < n - k
  <2>1. PICK i \in Nat : i = Off(q, p) /\ i < PERIODS
    BY Around, Sizes, Zenon
  <2>2. Off(At(q, k), p) = IF i >= k THEN i - k ELSE i + PERIODS - k
    BY <1>1, <2>1, Further, ZenonT(60)
  <2>3. m[p].what = IF i >= n THEN "silent" ELSE IF i < k THEN "heard" ELSE "new"
    BY <2>1, Zenon DEF Marks
  <2>4. Off(At(q, k), p) < n - k <=> ~(i >= n) /\ ~(i < k)
    BY <1>1, <2>1, <2>2
  <2>5. m[p].what = "new" <=> ~(i >= n) /\ ~(i < k)
    BY <2>3, Zenon
  <2> QED
    BY <2>4, <2>5, Zenon DEF Off
<1>6. {p \in Period : m[p].what = "new"} = Window(At(q, k), n - k)
  BY <1>5, Zenon DEF Window
<1> QED
  BY <1>4, <1>6, Zenon

\* What is written is played once and in order.
LEMMA OrderFollows == SoundInv => PlaysInOrder
<1> SUFFICES ASSUME SoundInv, device.on = "playing"
             PROVE  LET new == {p \in Period : card.memory[p].what = "new"}
                        left == ((device.last + PERIODS - device.position) % PERIODS) + 1
                    IN IF device.beyond THEN new = {} /\ card.memory[device.position] = Silence
                       ELSE new = Window(device.position, left)
  BY Zenon DEF PlaysInOrder
<1>1. PICK q, n, k : q = card.ring.first_queued /\ n = card.ring.queued /\ k = device.since_poll
  BY Zenon
<1>2. /\ card \in CardType /\ device \in DeviceType /\ CoreSound(card, device, poller)
  BY Zenon DEF SoundInv, CoreSound
<1>3. q \in Period /\ n \in Period /\ k \in Period /\ device.position \in Period
  BY <1>1, <1>2, Sizes, Zenon DEF CardType, RingType, DeviceType
<1>4. CASE card.ring.running
  <2>1. Marks(card.memory, q, n, k) /\ Runs(card, device)
    BY <1>1, <1>2, <1>4, Zenon DEF CoreSound, MemorySound
  <2>2. device.position = At(q, k) /\ device.last = At(q, n - 1) /\ n \in Nat /\ k \in Nat
    BY <1>1, <1>3, <2>1, Sizes, Zenon DEF Runs
  <2>3. (device.beyond => k >= n) /\ (~device.beyond => k < n)
    <3>1. CASE device.kind = "AC97"
      BY <1>1, <2>1, <3>1, Zenon DEF Runs
    <3>2. CASE device.kind # "AC97"
      <4>1. device.beyond <=> k >= n
        BY <1>1, <2>1, <3>2, Zenon DEF Runs
      <4> QED
        BY <2>2, <4>1
    <3> QED
      BY <3>1, <3>2, Zenon
  <2>4. CASE device.beyond
    <3>1. \A p \in Period : Off(q, p) >= n \/ Off(q, p) < k
      BY <1>3, <2>2, <2>3, <2>4, OffNat, SMTT(60)
    <3>2. Off(q, device.position) >= n
      BY <1>3, <2>2, <2>3, <2>4, OffAt, Zenon
    <3>3. \A p \in Period : card.memory[p].what # "new"
      BY <2>1, <3>1, Zenon DEF Marks
    <3>4. card.memory[device.position] = Silence
      BY <1>3, <2>1, <3>2, ZenonT(60) DEF Marks
    <3> QED
      BY <2>4, <3>3, <3>4, Zenon
  <2>5. CASE ~device.beyond
    BY <1>3, <2>1, <2>2, <2>3, <2>5, StillToHear, SMTT(60)
  <2> QED
    BY <2>4, <2>5, Zenon
<1>5. CASE ~card.ring.running
  <2>1. Marks(card.memory, q, n, 0) /\ Idles(card, device)
    BY <1>1, <1>2, <1>5, Zenon DEF CoreSound, MemorySound
  <2>2. n = 0 /\ device.beyond
    BY <1>1, <2>1, Zenon DEF Idles
  <2>3. \A p \in Period : Off(q, p) >= 0
    BY <1>3, OffNat, SMTT(60)
  <2>4. \A p \in Period : card.memory[p].what = "silent" /\ card.memory[p] = Silence
    BY <2>1, <2>2, <2>3, Zenon DEF Marks
  <2>5. \A p \in Period : card.memory[p].what # "new"
    BY <2>4, Zenon
  <2> QED
    BY <1>3, <2>2, <2>4, <2>5, Zenon
<1> QED
  BY <1>4, <1>5, Zenon

---------------------------------------------------------------------------
(* The pitch *)

\* Steps that leave the calls alone.
LEMMA PitchSame ==
    ASSUME PitchInv, Tuned(card'), ~Busy(card.ring) => ~Busy(card'.ring),
           UNCHANGED <<pc, todo, target>>
    PROVE  PitchInv'
<1>1. pc' = pc /\ todo' = todo /\ target' = target
  BY Zenon
<1> QED
  BY <1>1, Zenon DEF PitchInv

\* Steps of a process.
LEMMA PitchMove ==
    ASSUME PitchInv, CallsAgree, Tuned(card'), ~Busy(card.ring) => ~Busy(card'.ring),
           NEW p \in Procs, NEW where, Goto(p, where),
           where = "setrate" => ~Busy(card'.ring),
           \A q \in Procs : q # p => target'[q] = target[q] /\ todo'[q] = todo[q],
           p \notin Users => /\ target'[p] = 0 /\ todo'[p] = 0
                            /\ where \notin {"rate", "setrate", "write", "fill"}
    PROVE  PitchInv'
<1>1. pc \in [Procs -> Places]
  BY Zenon DEF CallsAgree
<1>2. pc'[p] = where /\ \A q \in Procs : q # p => pc'[q] = pc[q]
  BY <1>1, Zenon DEF Goto
<1>3. \A q \in Procs : pc'[q] = "setrate" => ~Busy(card'.ring)
  BY <1>2, Zenon DEF PitchInv
<1>4. \A q \in Procs \ Users : /\ target'[q] = 0 /\ todo'[q] = 0
                              /\ pc'[q] \notin {"rate", "setrate", "write", "fill"}
  BY <1>2, Zenon DEF PitchInv
<1> QED
  BY <1>3, <1>4, Zenon DEF PitchInv

\* Card::poll keeps the pitch.
LEMMA PollTuned ==
    ASSUME PitchInv, PollStep
    PROVE  Tuned(card') /\ (~Busy(card.ring) => ~Busy(card'.ring))
<1>1. /\ card'.rate = card.rate /\ (~Busy(card.ring) => ~Busy(card'.ring))
      /\ \A p \in Period : card'.memory[p] = Silence \/ card'.memory[p] = card.memory[p]
      /\ \/ card'.ring.fill_bytes = 0
         \/ card'.ring.fill_bytes = card.ring.fill_bytes /\ card'.staged = card.staged
  BY Zenon DEF PollStep
<1>2. Silence.what = "silent" /\ ~(0 > 0)
  BY DEF Silence
<1>3. \A p \in Period : card'.memory[p].what # "silent" => card'.memory[p].rate = card'.rate
  BY <1>1, <1>2, Zenon DEF PitchInv, Tuned
<1>4. card'.ring.fill_bytes > 0 => card'.staged = card'.rate
  BY <1>1, <1>2, Zenon DEF PitchInv, Tuned
<1> QED
  BY <1>1, <1>3, <1>4, Zenon DEF Tuned

\* Card::flush keeps it.
LEMMA FlushTuned ==
    ASSUME PitchInv, SoundInv, NEW t, Flushed(Now, t)
    PROVE  Tuned(t.card) /\ (~Busy(card.ring) => ~Busy(t.card.ring))
<1>1. Now.card = card
  BY NowIs, Zenon
<1>2. /\ t.card.rate = card.rate /\ (~Busy(card.ring) => ~Busy(t.card.ring))
      /\ \A p \in Period :
            \/ t.card.memory[p] = card.memory[p]
            \/ t.card.memory[p] = [what |-> "new", rate |-> card.staged]
      /\ t.card.ring.fill_bytes = 0 \/ t.card.staged = card.staged
      /\ (card.ring.fill_bytes = 0 => \A p \in Period : t.card.memory[p] = card.memory[p])
      /\ (t.card.ring.fill_bytes = 0 \/ t.card.ring.fill_bytes = card.ring.fill_bytes)
  BY <1>1, Zenon DEF Flushed, Committed
<1>3. card.ring.fill_bytes = 0 \/ card.ring.fill_bytes > 0
  <2>1. card.ring.fill_bytes \in 0 .. PERIOD_BYTES - 1
    BY Zenon DEF SoundInv, CoreSound, CardType, RingType
  <2> QED
    BY <2>1, SoundAssumption, SMTT(60)
<1>4. ASSUME NEW p \in Period, t.card.memory[p].what # "silent"
      PROVE  t.card.memory[p].rate = t.card.rate
  <2>1. CASE t.card.memory[p] = card.memory[p]
    BY <1>2, <1>4, <2>1, Zenon DEF PitchInv, Tuned
  <2>2. CASE t.card.memory[p] # card.memory[p]
    <3>1. t.card.memory[p] = [what |-> "new", rate |-> card.staged] /\ card.ring.fill_bytes > 0
      BY <1>2, <1>3, <2>2, ZenonT(60)
    <3>2. t.card.memory[p].rate = card.staged
      BY <3>1, SMTT(60)
    <3> QED
      BY <1>2, <3>1, <3>2, Zenon DEF PitchInv, Tuned
  <2> QED
    BY <2>1, <2>2, Zenon
<1>5. ~(0 > 0)
  OBVIOUS
<1>6. t.card.ring.fill_bytes > 0 => t.card.staged = t.card.rate
  BY <1>2, <1>5, Zenon DEF PitchInv, Tuned
<1> QED
  BY <1>2, <1>4, <1>6, Zenon DEF Tuned

\* The hardware, the clock and the sound task.
LEMMA PitchAlone ==
    SoundInv /\ PitchInv /\ (Play \/ Break \/ Tick \/ PollerStep \/ PollOnly) => PitchInv'
<1> SUFFICES ASSUME SoundInv, PitchInv, Play \/ Break \/ Tick \/ PollerStep \/ PollOnly
             PROVE  PitchInv'
  BY Zenon
<1>1. UNCHANGED <<pc, todo, target>>
  BY Zenon DEF Play, Break, Tick, PollerStep, PollOnly
<1>2. card \in CardType /\ device \in DeviceType
  BY Zenon DEF SoundInv, CoreSound
<1>3. CASE Play
  <2>1. Passed(card, device.position, card') /\ device.position \in Period
    BY <1>2, <1>3, PassedIs, Zenon DEF Play, DeviceType
  <2>2. ASSUME NEW p \in Period, card'.memory[p].what # "silent"
        PROVE  card'.memory[p].rate = card'.rate
    <3>1. card.memory[p] \in CellType
      BY <1>2, Zenon DEF CardType
    <3>2. card'.memory[p].rate = card.memory[p].rate /\ card.memory[p].what # "silent"
      <4>1. CASE p = device.position
        <5>1. card'.memory[p] =
                [card.memory[p] EXCEPT !.what = IF @ = "new" THEN "heard" ELSE @]
          BY <2>1, <4>1, Zenon DEF Passed
        <5>2. /\ card'.memory[p].rate = card.memory[p].rate
              /\ card'.memory[p].what = IF card.memory[p].what = "new" THEN "heard"
                                        ELSE card.memory[p].what
          BY <3>1, <5>1, Zenon DEF CellType
        <5> QED
          BY <2>2, <5>2, Zenon
      <4>2. CASE p # device.position
        BY <2>1, <2>2, <4>2, Zenon DEF Passed
      <4> QED
        BY <4>1, <4>2, Zenon
    <3> QED
      BY <2>1, <3>2, Zenon DEF Passed, PitchInv, Tuned
  <2>3. Tuned(card') /\ card'.ring = card.ring
    BY <2>1, <2>2, Zenon DEF Passed, PitchInv, Tuned
  <2> QED
    BY <1>1, <2>3, PitchSame, Zenon
<1>4. CASE Break
  <2>1. card' = card
    BY <1>4, Zenon DEF Break
  <2> QED
    BY <1>1, <2>1, Zenon DEF PitchInv
<1>5. CASE Tick
  <2>1. /\ card'.ring = card.ring /\ card'.memory = card.memory /\ card'.rate = card.rate
        /\ card'.staged = card.staged
    BY <1>2, <1>5, Zenon DEF Tick, CardType
  <2>2. Tuned(card')
    BY <2>1, Zenon DEF PitchInv, Tuned
  <2> QED
    BY <1>1, <2>1, <2>2, PitchSame, Zenon
<1>6. CASE PollerStep /\ ~card.ring.running
  <2>1. card' = card
    BY <1>6, Zenon DEF PollerStep
  <2> QED
    BY <1>1, <2>1, Zenon DEF PitchInv
<1>7. CASE PollOnly \/ (PollerStep /\ card.ring.running)
  <2>1. PollStep
    BY <1>7, PollIsSound, Zenon DEF PollOnly, PollerStep
  <2> QED
    BY <1>1, <2>1, PollTuned, PitchSame, Zenon
<1> QED
  BY <1>3, <1>4, <1>5, <1>6, <1>7, ZenonT(60)

\* The calls.  Here it matters that one process writes and sets the rate: it does not
\* write between a drain and the change of rate that follows.
LEMMA PitchCalls ==
    ASSUME OneUser, SoundInv, PitchInv, NEW p \in Procs, Step(p)
    PROVE  PitchInv'
<1>1. /\ CallsAgree /\ card \in CardType /\ CoreSound(card, device, poller) /\ Tuned(card)
      /\ todo \in [Procs -> 0 .. MaxWrite] /\ target \in [Procs -> Rates \cup {0}]
  BY Zenon DEF SoundInv, CoreSound, PitchInv, CallsAgree
<1>2. p \notin Users => /\ target[p] = 0 /\ todo[p] = 0
                       /\ pc[p] \notin {"rate", "setrate", "write", "fill"}
  BY Zenon DEF PitchInv
<1>3. CASE Open(p)
  <2>1. /\ card'.ring = card.ring /\ card'.memory = card.memory /\ card'.rate = card.rate
        /\ card'.staged = card.staged
    BY <1>1, <1>3, Zenon DEF Open, CardType
  <2>2. Tuned(card')
    BY <1>1, <2>1, Zenon DEF Tuned
  <2> QED
    BY <1>3, <2>1, <2>2, PitchSame, Zenon DEF Open
<1>4. CASE BeginSync(p) \/ BeginReset(p)
  <2>1. PICK where \in {"drain", "reset"} : Goto(p, where)
    BY <1>4, Zenon DEF BeginSync, BeginReset
  <2>2. card' = card /\ todo' = todo /\ target' = target
    BY <1>4, Zenon DEF BeginSync, BeginReset
  <2> QED
    BY <1>1, <1>2, <2>1, <2>2, PitchMove, Zenon
<1>5. CASE p \in Writers /\ \E count \in 1 .. MaxWrite : BeginWrite(p, count)
  <2>1. card' = card /\ target' = target /\ Goto(p, "rate") /\ p \in Users
    BY <1>5, Zenon DEF BeginWrite, Users
  <2>2. \A q \in Procs : q # p => todo'[q] = todo[q]
    BY <1>1, <1>5, Zenon DEF BeginWrite
  <2> QED
    BY <1>1, <2>1, <2>2, PitchMove, Zenon
<1>6. CASE p \in Tuners /\ \E wanted \in Rates : BeginSpeed(p, wanted)
  <2>1. card' = card /\ target' = target /\ todo' = todo /\ Goto(p, "rate") /\ p \in Users
    BY <1>6, Zenon DEF BeginSpeed, Users
  <2> QED
    BY <1>1, <2>1, PitchMove, Zenon
<1>7. CASE ApplyRate(p)
  <2>1. PICK where \in {"write", "idle", "drain"} : Goto(p, where)
    BY <1>7, Zenon DEF ApplyRate, AfterRate
  <2>2. card' = card /\ todo' = todo /\ p \in Users
    BY <1>2, <1>7, ZenonT(60) DEF ApplyRate
  <2>3. \A q \in Procs : q # p => target'[q] = target[q]
    BY <1>1, <1>7, Zenon DEF ApplyRate
  <2> QED
    BY <1>1, <2>1, <2>2, <2>3, PitchMove, ZenonT(60)
<1>8. CASE DrainPoll(p) \/ WritePoll(p) \/ ClosePoll(p)
  <2>1. PICK where \in Sections : Goto(p, where) /\ (where = "fill" => pc[p] = "write")
    <3>1. CASE DrainPoll(p)
      BY <3>1, Zenon DEF DrainPoll, Sections
    <3>2. CASE WritePoll(p)
      BY <3>2, Zenon DEF WritePoll, Sections
    <3>3. CASE ClosePoll(p)
      BY <3>3, Zenon DEF ClosePoll, Sections
    <3> QED
      BY <1>8, <3>1, <3>2, <3>3, Zenon
  <2>2. todo' = todo /\ target' = target /\ Becomes(Poll(Now))
    BY <1>8, Zenon DEF DrainPoll, WritePoll, ClosePoll
  <2>3. PollStep
    BY <2>2, PollIsSound, Zenon
  <2>4. Tuned(card') /\ (~Busy(card.ring) => ~Busy(card'.ring))
    BY <2>3, PollTuned, Zenon
  <2>5. where # "setrate" /\ where \notin {"rate", "write"} /\ (where = "fill" => p \in Users)
    BY <1>2, <2>1, Zenon DEF Sections
  <2> QED
    BY <1>1, <1>2, <2>1, <2>2, <2>4, <2>5, PitchMove, ZenonT(60)
<1>9. CASE DrainFlush(p)
  <2>1. PICK where \in {"drain", "setrate", "idle"} :
          Goto(p, where) /\ (where = "setrate" => target[p] # 0 /\ ~Busy(card'.ring))
    <3>1. CASE Busy(card'.ring)
      BY <1>9, <3>1, Zenon DEF DrainFlush
    <3>2. CASE ~Busy(card'.ring) /\ target[p] # 0
      BY <1>9, <3>2, Zenon DEF DrainFlush
    <3>3. CASE ~Busy(card'.ring) /\ target[p] = 0
      BY <1>9, <3>3, Zenon DEF DrainFlush
    <3> QED
      BY <3>1, <3>2, <3>3, Zenon
  <2>2. todo' = todo /\ target' = target /\ card' = Flush(Now).card /\ pc[p] \in Sections
    BY <1>9, Zenon DEF DrainFlush, Becomes, Sections
  <2>3. Tuned(card') /\ (~Busy(card.ring) => ~Busy(card'.ring))
    BY <2>2, FlushIsSound, FlushTuned, Zenon
  <2> QED
    BY <1>1, <1>2, <2>1, <2>2, <2>3, PitchMove, Zenon
<1>10. CASE SetRate(p)
  <2>1. PICK where \in {"write", "idle"} : Goto(p, where)
    BY <1>10, Zenon DEF SetRate, AfterRate
  <2>2. /\ card' = [card EXCEPT !.rate = target[p]] /\ todo' = todo /\ p \in Users
        /\ pc[p] = "setrate" /\ target' = [target EXCEPT ![p] = 0]
    BY <1>2, <1>10, Zenon DEF SetRate
  <2>3. card'.ring = card.ring /\ card'.memory = card.memory
    BY <1>1, <2>2, Zenon DEF CardType
  <2>4. ~Busy(card.ring)
    BY <2>2, Zenon DEF PitchInv
  <2>5. \A q \in Period : card.memory[q].what = "silent"
    BY <1>1, <2>4, IdleIsSilent, Zenon
  <2>6. Tuned(card')
    BY <2>3, <2>4, <2>5, Zenon DEF Tuned, Busy
  <2>7. \A q \in Procs : q # p => target'[q] = target[q]
    BY <1>1, <2>2, Zenon
  <2> QED
    BY <1>1, <2>1, <2>2, <2>3, <2>6, <2>7, PitchMove, ZenonT(60)
<1>11. CASE Fill(p) /\ todo[p] > 0 /\ HasSpace(card.ring)
  <2>1. PICK s, t : s = Staged /\ t = CommitStaged(s, Count(p))
    BY Zenon
  <2>2. /\ card' = t.card /\ todo' = [todo EXCEPT ![p] = @ - Count(p)] /\ pc' = pc
        /\ target' = target /\ pc[p] = "fill" /\ p \in Users
    BY <1>2, <1>11, <2>1, ZenonT(60) DEF Fill, Staged, Count, Becomes
  <2>3. /\ Committed(s, t) /\ s.card.memory = card.memory /\ s.card.rate = card.rate
        /\ s.card.staged = (IF card.ring.fill_bytes = 0 THEN card.rate ELSE card.staged)
    BY <1>11, <2>1, <2>2, FillIs, ZenonT(60)
  <2>4. s.card.staged = card.rate
    <3>1. card.ring.fill_bytes = 0 \/ card.ring.fill_bytes > 0
      <4>1. card.ring.fill_bytes \in 0 .. PERIOD_BYTES - 1
        BY <1>1, Zenon DEF CardType, RingType
      <4> QED
        BY <4>1, SoundAssumption
    <3> QED
      BY <1>1, <2>3, <3>1, Zenon DEF Tuned
  <2>5. card'.rate = card.rate /\ (card'.ring.fill_bytes = 0 \/ card'.staged = card.rate)
    BY <2>2, <2>3, <2>4, Zenon DEF Committed
  <2>6. ASSUME NEW q \in Period, card'.memory[q].what # "silent"
        PROVE  card'.memory[q].rate = card'.rate
    <3>1. \/ card'.memory[q] = card.memory[q]
          \/ card'.memory[q] = [what |-> "new", rate |-> card.rate]
      BY <2>2, <2>3, <2>4, Zenon DEF Committed
    <3>2. CASE card'.memory[q] = card.memory[q]
      BY <1>1, <2>5, <2>6, <3>2, ZenonT(60) DEF Tuned
    <3>3. CASE card'.memory[q] = [what |-> "new", rate |-> card.rate]
      <4>1. card'.memory[q].rate = card.rate
        BY <3>3
      <4> QED
        BY <2>5, <4>1, Zenon
    <3> QED
      BY <3>1, <3>2, <3>3, ZenonT(60)
  <2>7. Tuned(card')
    <3>1. ~(0 > 0)
      OBVIOUS
    <3> QED
      BY <2>5, <2>6, <3>1, Zenon DEF Tuned
  <2>8. \A q \in Procs : pc[q] # "setrate"
    BY <2>2, Zenon DEF PitchInv, OneUser
  <2>9. \A q \in Procs \ Users : todo'[q] = todo[q]
    BY <1>1, <2>2, Zenon
  <2> QED
    BY <2>2, <2>7, <2>8, <2>9, Zenon DEF PitchInv
<1>12. CASE Fill(p) /\ ~(todo[p] > 0 /\ HasSpace(card.ring))
  <2>1. PICK where \in {"write", "idle"} : Goto(p, where)
    BY <1>12, Zenon DEF Fill
  <2>2. card' = card /\ todo' = todo /\ target' = target /\ p \in Users
    BY <1>2, <1>12, Zenon DEF Fill
  <2> QED
    BY <1>1, <2>1, <2>2, PitchMove, Zenon
<1>13. CASE Reset(p)
  <2>1. PICK t : t = ResetCard(Now)
    BY Zenon
  <2>2. card' = t.card /\ todo' = todo /\ target' = target /\ Goto(p, "idle")
    BY <1>13, <2>1, Zenon DEF Reset, Becomes
  <2>3. t.card.ring = NewRing /\ t.card.memory = Silent
    BY <2>1, NowIs, ResetIs, Zenon
  <2>4. /\ NewRing.fill_bytes = 0 /\ ~(0 > 0) /\ ~Busy(NewRing)
        /\ \A q \in Period : Silent[q].what = "silent"
    BY DEF NewRing, Busy, Silent, Silence
  <2>5. Tuned(card') /\ ~Busy(card'.ring)
    BY <2>2, <2>3, <2>4, Zenon DEF Tuned
  <2> QED
    BY <1>1, <1>2, <2>2, <2>5, PitchMove, Zenon
<1>14. CASE CloseFlush(p)
  <2>1. PICK t : t = Flush(Now)
    BY Zenon
  <2>2. /\ Becomes([t EXCEPT !.card.open = FALSE]) /\ todo' = todo /\ target' = target
        /\ Goto(p, "idle") /\ pc[p] \in Sections
    BY <1>14, <2>1, Zenon DEF CloseFlush, Sections
  <2>3. Flushed(Now, t)
    BY <2>1, <2>2, FlushIsSound, Zenon
  <2>4. Tuned(t.card) /\ (~Busy(card.ring) => ~Busy(t.card.ring))
    BY <2>3, FlushTuned, Zenon
  <2>5. t \in CoreType
    BY <2>3, Zenon DEF Flushed, Committed
  <2>6. /\ card'.ring = t.card.ring /\ card'.memory = t.card.memory
        /\ card'.rate = t.card.rate /\ card'.staged = t.card.staged
    BY <2>2, <2>5, Zenon DEF Becomes, CoreType, CardType
  <2>7. Tuned(card') /\ (~Busy(card.ring) => ~Busy(card'.ring))
    BY <2>4, <2>6, Zenon DEF Tuned
  <2> QED
    BY <1>1, <1>2, <2>2, <2>7, PitchMove, Zenon
<1> QED
  BY <1>3, <1>4, <1>5, <1>6, <1>7, <1>8, <1>9, <1>10, <1>11, <1>12, <1>13, <1>14, ZenonT(60)
     DEF Step, Continue

\* At the start nothing is queued.
LEMMA InitPitch == Init => PitchInv
<1> SUFFICES ASSUME Init PROVE PitchInv
  BY Zenon
<1>1. /\ card.ring = NewRing /\ card.memory = Silent
      /\ pc = [p \in Procs |-> "idle"] /\ todo = [p \in Procs |-> 0]
      /\ target = [p \in Procs |-> 0]
  BY Zenon DEF Init
<1>2. /\ NewRing.fill_bytes = 0 /\ ~(0 > 0)
      /\ \A p \in Period : Silent[p].what = "silent"
  BY DEF NewRing, Silent, Silence
<1>3. Tuned(card)
  BY <1>1, <1>2, Zenon DEF Tuned
<1>4. \A p \in Procs : pc[p] = "idle" /\ todo[p] = 0 /\ target[p] = 0
  BY <1>1, Zenon
<1> QED
  BY <1>3, <1>4, Zenon DEF PitchInv

\* Every step keeps the pitch.
LEMMA StepPitch ==
    ASSUME OneUser
    PROVE  SoundInv /\ PitchInv /\ [Next]_vars => PitchInv'
<1> SUFFICES ASSUME SoundInv, PitchInv, [Next]_vars PROVE PitchInv'
  BY Zenon
<1>1. CASE UNCHANGED vars
  BY <1>1, Zenon DEF vars, PitchInv
<1>2. CASE Play \/ Break \/ Tick \/ PollerStep \/ PollOnly
  BY <1>2, PitchAlone, Zenon
<1>3. CASE \E p \in Procs : Step(p)
  BY <1>3, PitchCalls, Zenon
<1> QED
  BY <1>1, <1>2, <1>3, Zenon DEF Next

\* What the card plays is at its rate.
LEMMA PitchFollows == SoundInv /\ PitchInv => RightPitch
<1> SUFFICES ASSUME SoundInv, PitchInv, card.memory[device.position].what = "new"
             PROVE  card.memory[device.position].rate = card.rate
  BY Zenon DEF RightPitch
<1>1. device.position \in Period
  BY Zenon DEF SoundInv, CoreSound, DeviceType
<1> QED
  BY <1>1, Zenon DEF PitchInv, Tuned

---------------------------------------------------------------------------
(* The theorems *)

\* Whatever the processes do, and whether or not the card breaks: the driver's ring is
\* the card's (the assertions of ring.rs hold and audio is in exactly the queued periods),
\* and what was written is played once and in order.
THEOREM RingIsSound == Spec => [](RingConsistent /\ PlaysInOrder)
<1>1. Init => SoundInv
  BY InitSound, Zenon
<1>2. SoundInv /\ [Next]_vars => SoundInv'
  BY StepSound, Zenon
<1>3. SoundInv => RingConsistent /\ PlaysInOrder
  BY TypesHold, AssertionsFollow, OnlyQueuedFollows, OrderFollows, Zenon DEF RingConsistent
<1> QED
  BY <1>1, <1>2, <1>3, PTL DEF Spec

\* Polls, writes, closes and changes of rate lose no audio: it leaves the ring by being
\* heard, unless a process resets the card or the card is broken; and when SYNC or
\* apply_rate has waited for the ring, nothing written is still to be heard.
THEOREM PlaybackIsKept == Spec => PlaybackKept
<1>1. Init => SoundInv
  BY InitSound, Zenon
<1>2. SoundInv /\ [Next]_vars => SoundInv' /\ [NothingLost /\ SyncMeansHeard]_vars
  BY StepSound, Zenon
<1> QED
  BY <1>1, <1>2, PTL DEF Spec, PlaybackKept

\* When one process writes and sets the rate, audio is also played at the rate it was
\* converted to: apply_rate changes the card's rate only when nothing is queued or staged.
THEOREM PlayedAsWritten ==
    ASSUME OneUser
    PROVE  Spec => []SoundPlays
<1>1. Init => SoundInv /\ PitchInv
  BY InitSound, InitPitch, Zenon
<1>2. SoundInv /\ PitchInv /\ [Next]_vars => (SoundInv /\ PitchInv)'
  BY StepSound, StepPitch, Zenon
<1>3. SoundInv /\ PitchInv => SoundPlays
  BY TypesHold, AssertionsFollow, OnlyQueuedFollows, OrderFollows, PitchFollows, Zenon
     DEF SoundPlays, RingConsistent, HeardAsWritten
<1> QED
  BY <1>1, <1>2, <1>3, PTL DEF Spec

=============================================================================
