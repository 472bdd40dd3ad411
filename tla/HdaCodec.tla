------------------------------ MODULE HdaCodec ------------------------------
(***************************************************************************)
(* HD Audio codecs: reading the widget graph, choosing an output path per  *)
(* pin, routing it and setting its rate (kernel/src/drivers/hda/codec.rs,  *)
(* mod.rs).                                                                *)
(*                                                                         *)
(* A codec is a sequence of widgets [node, kind, digital, amp, output,     *)
(* order, list, pcm]: output is the PinDevice of an analog output pin, or  *)
(* None; order its association and sequence; amp a mixer's input amps;     *)
(* list the raw connection list, entries [node, range]; pcm a set of       *)
(* rates.  The empty codec is one that does not answer.                    *)
(***************************************************************************)
EXTENDS Integers, Sequences, SequencesExt, FiniteSets, FiniteSetsExt

CONSTANTS Cards,    \* the codecs of a card, by address
          Wanted,   \* rates that programs ask for
          None

VARIABLES
    card,       \* a sequence of codecs
    chosen,     \* the codec in use, as discovered; <<>> before the probe
    plan,       \* OutputPlan of that codec
    wiring,     \* what configure has set in it
    wanted, rate, formats   \* set_rate, and the format word of each DAC

vars == <<card, chosen, plan, wiring, wanted, rate, formats>>

\* connections: a range entry stands for the nodes after the previous one.
Connections(list) ==
    LET Step(out, e) ==
            IF e.range /\ out # <<>> /\ e.node > Last(out)
            THEN out \o [i \in 1 .. e.node - Last(out) |-> Last(out) + i]
            ELSE Append(out, e.node)
    IN FoldLeft(Step, <<>>, list)

\* discover: what the plan needs of every widget, ranges expanded.
Discover(c) == [i \in DOMAIN c |-> [c[i] EXCEPT !.list = Connections(@)]]

WidgetsAt(c, node) == {c[i] : i \in {j \in DOMAIN c : c[j].node = node}}

Widget(c, node) == CHOOSE w \in WidgetsAt(c, node) : TRUE

Position(s, x) == Min({i \in DOMAIN s : s[i] = x})

---------------------------------------------------------------------------
(* paths_to_dacs *)

\* One source of the path at the head of the queue.
TrySource(c, path, s, source) ==
    LET longer == Append(path, source)
        next == Widget(c, source)
    IN IF source \in s.visited THEN s
       ELSE IF WidgetsAt(c, source) = {} THEN [s EXCEPT !.visited = @ \cup {source}]
       ELSE [visited |-> s.visited \cup {source},
             found |-> IF next.kind = "Output" /\ ~next.digital THEN Append(s.found, longer) ELSE s.found,
             queue |-> IF next.kind \in {"Mixer", "Selector"} THEN Append(s.queue, longer) ELSE s.queue]

RECURSIVE Search(_, _)
Search(c, s) ==
    IF s.queue = <<>> THEN s.found
    ELSE LET path == Head(s.queue)
             rest == [s EXCEPT !.queue = Tail(@)]
             Step(t, source) == TrySource(c, path, t, source)
         IN Search(c, FoldLeft(Step, rest, Widget(c, Last(path)).list))

PathsToDacs(c, pin) == Search(c, [visited |-> {pin}, found |-> <<>>, queue |-> << <<pin>> >>])

---------------------------------------------------------------------------
(* plan_outputs *)

Dac(path) == Last(path)

OutputPins(c) ==
    SetToSortSeq({w \in ToSet(c) : w.kind = "Pin" /\ w.output # None /\ ~w.digital},
                 LAMBDA v, w : v.order < w.order \/ (v.order = w.order /\ v.node < w.node))

\* The first path to a DAC that no earlier pin took, else the first.
ChoosePath(outputs, paths) ==
    LET free == {i \in DOMAIN paths : \A o \in ToSet(outputs) : Dac(o) # Dac(paths[i])}
    IN IF paths = <<>> THEN outputs
       ELSE Append(outputs, paths[IF free = {} THEN 1 ELSE Min(free)])

\* stream_format, of two channels of 16 bits: base rate, multiplier, divisor.
StreamFormat(hz) ==
    LET word(m) == [base_44k |-> m[2], multiply |-> m[3], divide |-> m[4]]
        known == {<<8000, FALSE, 1, 6>>, <<11025, TRUE, 1, 4>>, <<16000, FALSE, 1, 3>>,
                  <<22050, TRUE, 1, 2>>, <<32000, FALSE, 2, 3>>, <<44100, TRUE, 1, 1>>,
                  <<48000, FALSE, 1, 1>>, <<88200, TRUE, 2, 1>>, <<96000, FALSE, 2, 1>>,
                  <<176400, TRUE, 4, 1>>, <<192000, FALSE, 4, 1>>}
        hits == {m \in known : m[1] = hz}
    IN IF hits = {} THEN None ELSE word(CHOOSE m \in hits : TRUE)

\* None: NoOutputs or NoFormat.  384 kHz has no format word.
PlanOutputs(c) ==
    LET Step(outputs, pin) == ChoosePath(outputs, PathsToDacs(c, pin.node))
        outputs == FoldLeft(Step, <<>>, OutputPins(c))
        dacs == {Dac(o) : o \in ToSet(outputs)}
        common == {r \in UNION {w.pcm : w \in ToSet(c)} : \A d \in dacs : r \in Widget(c, d).pcm}
        rates == {r \in common : StreamFormat(r) # None}
    IN IF outputs = <<>> \/ rates = {} THEN None
       ELSE [outputs |-> outputs, dacs |-> dacs, rates |-> SetToSortSeq(rates, <)]

---------------------------------------------------------------------------
(* configure: the connection each pin and selector is left on, and the mixer
   inputs that are opened; out, the pins that are switched on. *)

Fresh == [select |-> <<>>, open |-> {}, out |-> {}]

\* Seeded fault: the index is that of the widget in the path.
Route_Position(c, state, path, i) ==
    LET w == Widget(c, path[i])
    IN IF i = Len(path) THEN state
       ELSE IF w.kind = "Mixer" THEN [state EXCEPT !.open = @ \cup {<<w.node, i>>}]
       ELSE IF Len(w.list) > 1
       THEN [state EXCEPT !.select = [n \in DOMAIN @ \cup {w.node} |-> IF n = w.node THEN i ELSE @[n]]]
       ELSE state

Route(c, state, path, i) ==
    LET w == Widget(c, path[i])
        index == Position(w.list, path[i + 1])
    IN IF i = Len(path) THEN state
       ELSE IF w.kind = "Mixer"
       THEN IF w.amp THEN [state EXCEPT !.open = @ \cup {<<w.node, index>>}] ELSE state
       ELSE IF Len(w.list) > 1
       THEN [state EXCEPT !.select = [n \in DOMAIN @ \cup {w.node} |-> IF n = w.node THEN index ELSE @[n]]]
       ELSE state

Configure(c, p) ==
    LET Along(state, path) ==
            LET Step(s, i) == Route(c, s, path, i)
            IN [FoldLeft(Step, state, [i \in DOMAIN path |-> i]) EXCEPT !.out = @ \cup {Head(path)}]
    IN FoldLeft(Along, Fresh, p.outputs)

---------------------------------------------------------------------------
(* Rates *)

\* Seeded fault: the nearest rate above comes before a whole multiple.
ChooseRate_Nearest(supported, hz) ==
    LET above == {i \in DOMAIN supported : supported[i] >= hz}
    IN IF above # {} THEN supported[Min(above)] ELSE Last(supported)

\* choose_rate; supported is ascending
ChooseRate(supported, hz) ==
    LET First(S) == supported[Min(S)]
        multiples == {i \in DOMAIN supported : hz # 0 /\ supported[i] % hz = 0}
        above == {i \in DOMAIN supported : supported[i] > hz}
    IN IF hz \in ToSet(supported) THEN hz
       ELSE IF multiples # {} THEN First(multiples)
       ELSE IF above # {} THEN First(above)
       ELSE IF supported # <<>> THEN Last(supported) ELSE 48000

---------------------------------------------------------------------------
\* probe: the first codec that answers and has something to play on.
Probe ==
    /\ chosen = <<>> /\ plan = None
    /\ LET good == {i \in DOMAIN card : card[i] # <<>> /\ PlanOutputs(Discover(card[i])) # None}
           c == Discover(card[Min(good)])
       IN IF good = {} THEN UNCHANGED <<chosen, plan, wiring>>
          ELSE chosen' = c /\ plan' = PlanOutputs(c) /\ wiring' = Configure(c, plan')
    /\ UNCHANGED <<card, wanted, rate, formats>>

\* Hda::set_rate, then start, which tells every DAC (set_stream).
SetRate(hz) ==
    /\ plan # None
    /\ wanted' = hz /\ rate' = ChooseRate(plan.rates, hz)
    /\ formats' = [d \in plan.dacs |-> StreamFormat(rate')]
    /\ UNCHANGED <<card, chosen, plan, wiring>>

Init ==
    /\ card \in Cards /\ chosen = <<>> /\ plan = None /\ wiring = Fresh
    /\ wanted = 0 /\ rate = 48000 /\ formats = <<>>

Next == Probe \/ \E hz \in Wanted : SetRate(hz)

Spec == Init /\ [][Next]_vars

---------------------------------------------------------------------------
(* What the hardware does with a configuration: the sources a widget passes on. *)

Sources(c, state, node) ==
    LET w == Widget(c, node)
        at(i) == IF i \in DOMAIN w.list THEN {w.list[i]} ELSE {}
    IN CASE WidgetsAt(c, node) = {} \/ w.list = <<>> -> {}
         [] w.kind = "Mixer" -> IF w.amp THEN UNION {at(i) : i \in {j \in 1 .. 9 : <<node, j>> \in state.open}}
                                ELSE ToSet(w.list)
         [] OTHER -> at(IF node \in DOMAIN state.select THEN state.select[node] ELSE 1)

RECURSIVE Upstream(_, _, _)
Upstream(c, state, nodes) ==
    LET more == nodes \cup UNION {Sources(c, state, n) : n \in nodes}
    IN IF more = nodes THEN nodes ELSE Upstream(c, state, more)

\* After configure, the sound of some DAC that the stream is sent to reaches
\* every output pin that can be reached at all, even where the paths of two pins
\* share a selector and the second one has turned it.
EveryOutputSounds ==
    plan # None =>
        /\ \A pin \in wiring.out : Upstream(chosen, wiring, {pin}) \cap plan.dacs # {}
        /\ \A w \in ToSet(OutputPins(chosen)) :
                w.node \in wiring.out <=> PathsToDacs(chosen, w.node) # <<>>

\* paths_to_dacs: each path is a walk of the graph to another DAC, none visits a
\* widget twice, and no later one is shorter than an earlier one.
PathsShortest ==
    \A w \in ToSet(OutputPins(chosen)) :
        LET paths == PathsToDacs(chosen, w.node)
        IN \A i \in DOMAIN paths :
            /\ \A j \in 1 .. Len(paths[i]) - 1 :
                    paths[i][j + 1] \in ToSet(Widget(chosen, paths[i][j]).list)
            /\ IsInjective(paths[i])
            /\ \A k \in 1 .. i - 1 : Len(paths[k]) <= Len(paths[i]) /\ Dac(paths[k]) # Dac(paths[i])

\* The hertz that a format word means: the inverse of stream_format.
Hertz(format) == ((IF format.base_44k THEN 44100 ELSE 48000) * format.multiply) \div format.divide

\* Whatever rate a program asks for, every DAC is set to one and the same rate
\* that all of them play, and no rate they share is a better choice: the wanted
\* one, else its smallest multiple, else the nearest above, else the highest.
RateSound ==
    \A d \in DOMAIN formats :
        /\ formats[d] # None /\ Hertz(formats[d]) = rate
        /\ rate \in Widget(chosen, d).pcm
        /\ LET shared == ToSet(plan.rates)
               better == {r \in shared : r = wanted}
               whole == {r \in shared : wanted # 0 /\ r % wanted = 0}
               above == {r \in shared : r > wanted}
           IN rate = IF better # {} THEN wanted ELSE IF whole # {} THEN Min(whole)
                     ELSE IF above # {} THEN Min(above) ELSE Max(shared)

=============================================================================
