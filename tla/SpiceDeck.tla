------------------------------ MODULE SpiceDeck ------------------------------
(***************************************************************************)
(* From a circuit to the deck ngspice runs: the names of the nodes, the    *)
(* bridges between the analog and the digital domain, the refusals, and    *)
(* the columns the deck asks ngspice to write.                             *)
(*                                                                         *)
(* ngspice compares names without case, and so does everything that is     *)
(* modelled here: a node or a device is its lower-case name.  The names of *)
(* the circuits are made of word characters, on which the replacement of   *)
(* separators does nothing.                                                *)
(***************************************************************************)
EXTENDS Circuit, SequencesExt

CONSTANT MaxDefaultProbes   \* Nets beyond this many are not sampled by default

-----------------------------------------------------------------------------
(* Node names *)

ReservedWords == {"all", "none", "in", "out", "vcc", "vdd", "vss", "gnd", "ground"}

NgspiceOperators == {"eq", "ne", "gt", "lt", "ge", "le", "and", "or", "not"}

\* The prefixes are looked for in the name as it is written: a capital N is no prefix.
SanitizeNodeName(name) ==
    LET low      == Lower(name)
        kept     == \/ SubSeq(name, 1, 1) = "n"
                    \/ Len(name) > 1 /\ SubSeq(name, 1, 2) = "x_"
        prefixed == IF low \in ReservedWords THEN "x_" \o low
                    ELSE IF kept THEN low ELSE "n" \o low
    IN  IF prefixed \in NgspiceOperators THEN "x_" \o prefixed ELSE prefixed

BuildNodeMap(c) ==
    [id \in NetIds(c) |-> IF NetOf(c, id).isGround THEN "0" ELSE SanitizeNodeName(id)]

\* A mutant: a made-up node takes its name without looking.
UncheckedNode(base, used) == base

Suffixed(base, k) == IF k = 0 THEN base ELSE base \o "_" \o ToString(k)

\* The first of base, base_1, base_2, ... that no other node has.
UniqueNode(base, used) ==
    Suffixed(base, Min({k \in 0 .. Cardinality(used) : Suffixed(base, k) \notin used}))

-----------------------------------------------------------------------------
(* Devices *)

SpicePrefix(type) ==
    CASE type = "resistor"       -> "r"
      [] type = "capacitor"      -> "c"
      [] type = "voltage_source" -> "v"
      [] type = "current_source" -> "i"
      [] type = "vcvs"           -> "e"
      [] type = "diode"          -> "d"
      [] OTHER                   -> "a"

InstanceName(part) ==
    LET low    == Lower(part.designator)
        prefix == SpicePrefix(part.type)
    IN  IF SubSeq(low, 1, 1) = prefix THEN low ELSE prefix \o low

\* The parts that become a line: a gate with a pin missing and a controlled source
\* without a gain are left out, for the rule check to report.
Emitted(c) ==
    {i \in DOMAIN c.parts :
        LET part == c.parts[i] IN
        /\ part.type \notin {"ground", "generic"}
        /\ part.type \in DigitalTypes => RequiredPins(part.type) \subseteq DOMAIN part.pins
        /\ part.type = "vcvs" => part.value # "none"}

EmittedPins(c) == {pin \in Pins(c) : pin[1] \in Emitted(c)}

-----------------------------------------------------------------------------
(* The two domains *)

MapSet(f, key, value) ==
    [x \in DOMAIN f \cup {key} |-> IF x = key THEN value ELSE f[x]]

\* One net: a logic net keeps its node as an event node and is copied to an analog twin
\* that can be sampled; a net of both kinds keeps its node for the analog pins, gives the
\* logic pins a node of their own, and joins the two in the direction of the signal.
PlanNet(c, node, plan, id) ==
    LET fresh(suffix) == UniqueNode(node[id] \o suffix, plan.used)
        driven == SourcesOn(c, id) # {}
    IN  IF SourcesOn(c, id) \cup SinksOn(c, id) = {} THEN plan
        ELSE IF AnalogOn(c, id) = {}
        THEN IF ~driven THEN plan
             ELSE [plan EXCEPT !.used = @ \cup {fresh("_p")},
                               !.twin = MapSet(@, id, fresh("_p")),
                               !.dac  = @ \cup {<<node[id], fresh("_p")>>}]
        ELSE [plan EXCEPT !.used  = @ \cup {fresh("_d")},
                          !.event = MapSet(@, id, fresh("_d")),
                          !.dac   = IF driven THEN @ \cup {<<fresh("_d"), node[id]>>} ELSE @,
                          !.adc   = IF driven THEN @ ELSE @ \cup {<<node[id], fresh("_d")>>}]

\* A flip-flop without set or reset has it tied to a rail that is always low.
NeedsLowRail(c) ==
    \E i \in DOMAIN c.parts :
        /\ c.parts[i].type \in SequentialTypes
        /\ ~({"set", "rst"} \subseteq DOMAIN c.parts[i].pins)

\* The plan before a net is looked at; a low rail is a set of at most one node.
EmptyPlan(c, node) == [used |-> {node[id] : id \in NetIds(c)}, twin |-> <<>>, event |-> <<>>,
                       dac |-> {}, adc |-> {}, lowRail |-> {}]

PlanNets(c, node) ==
    LET planned[k \in 0 .. Len(c.nets)] ==
            IF k = 0 THEN EmptyPlan(c, node)
            ELSE LET before == planned[k - 1] IN PlanNet(c, node, before, c.nets[k].id)
    IN  planned[Len(c.nets)]

\* A rail that is always low, and the analog node that it is a copy of.
WithRail(plan, analog, rail) ==
    [plan EXCEPT !.used    = @ \cup {analog, rail},
                 !.adc     = @ \cup {<<analog, rail>>},
                 !.lowRail = {rail}]

WithLowRail(plan) ==
    LET analog == UniqueNode("dlogic_lo_a", plan.used)
    IN  WithRail(plan, analog, UniqueNode("dlogic_lo", plan.used \cup {analog}))

PlanMixedSignal(c, node) ==
    IF NeedsLowRail(c) THEN WithLowRail(PlanNets(c, node)) ELSE PlanNets(c, node)

DeckOf(node, plan) ==
    [node |-> node, twin |-> plan.twin, event |-> plan.event,
     dac |-> plan.dac, adc |-> plan.adc, lowRail |-> plan.lowRail]

\* A circuit without logic has the empty plan.
Deck(c) == DeckOf(BuildNodeMap(c), PlanMixedSignal(c, BuildNodeMap(c)))

NodeAt(c, deck, pin) ==
    LET id == NetAt(c, pin)
    IN  IF TypeAt(c, pin) \in DigitalTypes /\ id \in DOMAIN deck.event
        THEN deck.event[id] ELSE deck.node[id]

\* The nodes that can be sampled: an event node can not.
AnalogNodes(c, deck) ==
    {NodeAt(c, deck, pin) : pin \in {p \in EmittedPins(c) : TypeAt(c, p) \notin DigitalTypes}}
    \cup {bridge[2] : bridge \in deck.dac} \cup {bridge[1] : bridge \in deck.adc}

-----------------------------------------------------------------------------
(* Refusals *)

NodeCollision(c) ==
    \E j, k \in DOMAIN c.nets :
        LET node == BuildNodeMap(c) IN
        /\ j # k
        /\ node[c.nets[j].id] # "0"
        /\ node[c.nets[j].id] = node[c.nets[k].id]

\* An AC sweep without an AC source reads zero everywhere.
NoAcSource(c) ==
    /\ c.analysis = "ac"
    /\ ~\E i \in DOMAIN c.parts :
        c.parts[i].type \in {"voltage_source", "current_source"} /\ c.parts[i].value = "ac1"

DuplicateDevice(c) ==
    \E i, j \in Emitted(c) : i # j /\ InstanceName(c.parts[i]) = InstanceName(c.parts[j])

\* A pin of a device on a net nobody declared.
NetNotFound(c) == \E pin \in EmittedPins(c) : NetAt(c, pin) \notin NetIds(c)

\* A part whose terminals are told apart by name, with one of them missing; the rule
\* check has only counted its pins.
PinMissing(c) ==
    \E i \in Emitted(c) :
        /\ c.parts[i].type \in {"voltage_source", "current_source", "vcvs", "diode"}
        /\ ~(RequiredPins(c.parts[i].type) \subseteq DOMAIN c.parts[i].pins)

DeckRefusal(c) ==
    NetNotFound(c) \/ PinMissing(c) \/ NodeCollision(c) \/ NoAcSource(c) \/ DuplicateDevice(c)

-----------------------------------------------------------------------------
(* Probes: [kind |-> "v", args |-> <<ref>> or <<ref, ref>>] is v(ref) or   *)
(* v(ref, ref), [kind |-> "i", args |-> <<designator>>] a branch current.  *)
(* A column has the emitted names instead; kind "id" is the current of a   *)
(* diode, which ngspice keeps under another name.                          *)

\* A mutant: nothing is known of the twins of the logic nets.
NetRefWithoutTwins(c, deck, ref) ==
    LET byId   == {k \in DOMAIN c.nets : Lower(c.nets[k].id) = ref}
        byName == {k \in DOMAIN c.nets : Lower(c.nets[k].name) = ref}
    IN  IF byId # {} THEN deck.node[c.nets[Max(byId)].id]
        ELSE IF byName # {} THEN deck.node[c.nets[Max(byName)].id]
        ELSE ref

\* The node a reference reaches.  Names give way to ids, and both to the twins, which
\* also claim the node they stand for; an unknown reference is left as it is.
NetRefToNode(c, deck, ref) ==
    LET byTwin == {k \in DOMAIN c.nets :
                        /\ c.nets[k].id \in DOMAIN deck.twin
                        /\ ref \in {Lower(c.nets[k].id), Lower(c.nets[k].name),
                                    deck.node[c.nets[k].id]}}
        byId   == {k \in DOMAIN c.nets : Lower(c.nets[k].id) = ref}
        byName == {k \in DOMAIN c.nets : Lower(c.nets[k].name) = ref}
    IN  IF byTwin # {} THEN deck.twin[c.nets[Max(byTwin)].id]
        ELSE IF byId # {} THEN deck.node[c.nets[Max(byId)].id]
        ELSE IF byName # {} THEN deck.node[c.nets[Max(byName)].id]
        ELSE ref

\* A mutant: ground is dropped wherever it stands, and v(0,b) becomes v(b).
RewriteLosingSign(c, deck, args) ==
    LET mapped == [k \in DOMAIN args |-> NetRefToNode(c, deck, args[k])]
    IN  SelectSeq(mapped, LAMBDA node : node # "0")

\* Ground has no column: minus ground is nothing to subtract, and a probe that starts
\* from ground is dropped, for v(0,b) is not v(b).  <<>> is a dropped probe.
RewriteNodeRefs(c, deck, args) ==
    LET mapped == [k \in DOMAIN args |-> NetRefToNode(c, deck, args[k])]
    IN  IF mapped[1] = "0" THEN <<>>
        ELSE IF Len(args) = 2 /\ mapped[2] = "0" THEN <<mapped[1]>>
        ELSE mapped

\* The columns a current probe becomes: none if the deck cannot answer it, for one bad
\* name costs the whole output line.
CurrentColumns(c, designator) ==
    LET named  == {i \in Emitted(c) : /\ Lower(c.parts[i].designator) = designator
                                      /\ c.parts[i].type \notin DigitalTypes}
        column(i) ==
            LET prefix == SpicePrefix(c.parts[i].type) IN
            IF prefix \in {"v", "e"} THEN {[kind |-> "i", args |-> <<InstanceName(c.parts[i])>>]}
            ELSE IF c.analysis = "ac" THEN {}
            ELSE IF prefix \in {"r", "c"} THEN {[kind |-> "i", args |-> <<InstanceName(c.parts[i])>>]}
            ELSE IF prefix = "d" THEN {[kind |-> "id", args |-> <<InstanceName(c.parts[i])>>]}
            ELSE {}
    IN  UNION {column(i) : i \in named}

ProbeColumns(c, deck, probe) ==
    IF probe.kind = "i" THEN CurrentColumns(c, probe.args[1])
    ELSE LET args == RewriteNodeRefs(c, deck, probe.args)
         IN  IF args = <<>> THEN {} ELSE {[kind |-> "v", args |-> args]}

\* The node that carries the voltage of a net: a logic net is read through its twin.
VoltageNode(deck, id) == IF id \in DOMAIN deck.twin THEN deck.twin[id] ELSE deck.node[id]

\* The nets that are sampled without being asked for: the first few that are not ground.
Sampled(c) ==
    {k \in DOMAIN c.nets :
        /\ ~c.nets[k].isGround
        /\ Cardinality({j \in 1 .. k : ~c.nets[j].isGround}) <= MaxDefaultProbes}

\* A list of probes is a sequence of sets of at most one: a net that is not sampled, or a
\* criterion that asks for nothing of its own, is {}.
DefaultProbes(c, deck) ==
    [k \in DOMAIN c.nets |->
        IF k \in Sampled(c) THEN {[kind |-> "v", args |-> <<VoltageNode(deck, c.nets[k].id)>>]}
        ELSE {}]

\* The column that the k-th of these probes adds to the line.
NewColumns(c, deck, probes, k, line) ==
    (UNION {ProbeColumns(c, deck, probe) : probe \in probes[k]}) \ {line[j] : j \in DOMAIN line}

\* The output line: the default probes and the extra ones, rewritten alike, each once.
Columns(c, deck, extraProbes) ==
    LET probes == DefaultProbes(c, deck) \o extraProbes
        line[k \in 0 .. Len(probes)] ==
            IF k = 0 THEN <<>>
            ELSE LET before == line[k - 1]
                     new == NewColumns(c, deck, probes, k, before)
                 IN  IF new = {} THEN before ELSE Append(before, CHOOSE column \in new : TRUE)
    IN  line[Len(probes)]
=============================================================================
