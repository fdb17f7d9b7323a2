----------------------------- MODULE ErcChecker -----------------------------
(***************************************************************************)
(* The electrical rule check: one predicate per rule, and the verdict that *)
(* stands between a drawn circuit and a simulation.                        *)
(***************************************************************************)
EXTENDS Circuit

-----------------------------------------------------------------------------
(* Ground *)

\* Every net the checker takes for the reference: flagged, called 0, or wired to a
\* ground symbol.
GroundNets(c) ==
    {id \in NetIds(c) : NetOf(c, id).isGround \/ id = "0" \/ NetOf(c, id).name = "0"}
    \cup {NetAt(c, pin) : pin \in {p \in Pins(c) : TypeAt(c, p) = "ground"}}

NoGround(c) == GroundNets(c) = {}

-----------------------------------------------------------------------------
(* Parts *)

EmptyCircuit(c) == \A i \in DOMAIN c.parts : c.parts[i].type = "ground"

\* Fixed-arity analog parts only; digital parts are judged by shape, a generic by nothing.
PinCountMismatch(c) ==
    \E i \in DOMAIN c.parts :
        /\ c.parts[i].type \notin DigitalTypes \cup {"generic"}
        /\ Cardinality(DOMAIN c.parts[i].pins) # Cardinality(RequiredPins(c.parts[i].type))

DigitalPinShape(c) ==
    \E i \in DOMAIN c.parts :
        LET part == c.parts[i] IN
        /\ part.type \in DigitalTypes
        /\ \/ ~(RequiredPins(part.type) \subseteq DOMAIN part.pins)
           \/ ~(DOMAIN part.pins \subseteq RequiredPins(part.type) \cup
                    (IF part.type \in SequentialTypes THEN {"set", "rst"} ELSE {}))

DuplicateDesignator(c) ==
    \E i, j \in DOMAIN c.parts :
        i # j /\ Lower(c.parts[i].designator) = Lower(c.parts[j].designator)

MissingValue(c) ==
    \E i \in DOMAIN c.parts :
        /\ c.parts[i].type \in {"resistor", "capacitor", "voltage_source", "current_source", "vcvs"}
        /\ c.parts[i].value = "none"

-----------------------------------------------------------------------------
(* Voltage sources *)

Forcing(c) == {i \in DOMAIN c.parts : c.parts[i].type \in {"voltage_source", "vcvs"}}

\* All ground nets are one node.
Canon(c, id) == IF id \in GroundNets(c) THEN "0" ELSE id

Span(c, i) == <<Canon(c, c.parts[i].pins["+"]), Canon(c, c.parts[i].pins["-"])>>

VoltageSourceShort(c) == \E i \in Forcing(c) : Span(c, i)[1] = Span(c, i)[2]

\* Two drivers across one pair of nodes: harmless only between independent sources that
\* force the same voltage, the orientation counted.
ParallelVoltageSources(c) ==
    \E i, j \in Forcing(c) :
        LET s == Span(c, i)
            t == Span(c, j)
            value(k) == c.parts[k].value
        IN  /\ i # j
            /\ s[1] # s[2]
            /\ {s[1], s[2]} = {t[1], t[2]}
            /\ "none" \notin {value(i), value(j)}
            /\ \/ "vcvs" \in {c.parts[i].type, c.parts[j].type}
               \/ Volts[value(i)] # IF s = t THEN Volts[value(j)] ELSE -Volts[value(j)]

-----------------------------------------------------------------------------
(* Connectivity *)

\* Two nets touched by one part, whatever the part.
Adjacent(c, id) == UNION {{c.parts[i].pins[p] : p \in DOMAIN c.parts[i].pins} :
                            i \in {j \in DOMAIN c.parts :
                                    \E p \in DOMAIN c.parts[j].pins : c.parts[j].pins[p] = id}}

Reachable(c) ==
    LET flood[k \in 0 .. Len(c.nets)] ==
            IF k = 0 THEN GroundNets(c)
            ELSE flood[k - 1] \cup UNION {Adjacent(c, id) : id \in flood[k - 1]}
    IN  flood[Len(c.nets)]

\* A block with no way back to ground. One pin is another rule's business, and a logic
\* net gets its reference when the deck is built.
IsolatedSubcircuit(c) ==
    /\ GroundNets(c) # {}
    /\ \E id \in NetIds(c) \ Reachable(c) :
        Cardinality({pin \in PinsOn(c, id) :
            TypeAt(c, pin) \notin DigitalTypes \cup {"ground"}}) >= 2

-----------------------------------------------------------------------------
(* Logic *)

ActiveAnalog == {"voltage_source", "current_source", "vcvs"}

DrivesAnalog(c, pin) ==
    TypeAt(c, pin) \in ActiveAnalog /\ ~IsSensePin(TypeAt(c, pin), pin[2])

\* A mutant: one output that can let go excuses the others.
ContentionOfPushersOnly(c) ==
    \E id \in NetIds(c) :
        /\ Cardinality(SourcesOn(c, id)) >= 2
        /\ \A pin \in SourcesOn(c, id) : TypeAt(c, pin) # "tristate"

\* Outputs may share a net only if every one of them can let go of it.
DigitalBusContention(c) ==
    \E id \in NetIds(c) :
        /\ Cardinality(SourcesOn(c, id)) >= 2
        /\ \E pin \in SourcesOn(c, id) : TypeAt(c, pin) # "tristate"

MixedDriverConflict(c) ==
    \E id \in NetIds(c) :
        SourcesOn(c, id) # {} /\ \E pin \in AnalogOn(c, id) : DrivesAnalog(c, pin)

FloatingDigitalInput(c) ==
    \E id \in NetIds(c) :
        /\ SinksOn(c, id) # {}
        /\ SourcesOn(c, id) = {}
        /\ AnalogOn(c, id) = {}
        /\ ~NetOf(c, id).isGround

-----------------------------------------------------------------------------
(* The verdict *)

\* The rules whose severity is "error"; the warnings and notes block nothing.
Errors(c) ==
    {code \in {"EMPTY_CIRCUIT", "NO_GROUND", "PIN_COUNT_MISMATCH", "DIGITAL_PIN_SHAPE",
               "DUPLICATE_DESIGNATOR", "MISSING_VALUE", "VOLTAGE_SOURCE_SHORT",
               "PARALLEL_VOLTAGE_SOURCES", "ISOLATED_SUBCIRCUIT", "DIGITAL_BUS_CONTENTION",
               "MIXED_DRIVER_CONFLICT", "FLOATING_DIGITAL_INPUT"} :
        CASE code = "EMPTY_CIRCUIT"            -> EmptyCircuit(c)
          [] code = "NO_GROUND"                -> NoGround(c)
          [] code = "PIN_COUNT_MISMATCH"       -> PinCountMismatch(c)
          [] code = "DIGITAL_PIN_SHAPE"        -> DigitalPinShape(c)
          [] code = "DUPLICATE_DESIGNATOR"     -> DuplicateDesignator(c)
          [] code = "MISSING_VALUE"            -> MissingValue(c)
          [] code = "VOLTAGE_SOURCE_SHORT"     -> VoltageSourceShort(c)
          [] code = "PARALLEL_VOLTAGE_SOURCES" -> ParallelVoltageSources(c)
          [] code = "ISOLATED_SUBCIRCUIT"      -> IsolatedSubcircuit(c)
          [] code = "DIGITAL_BUS_CONTENTION"   -> DigitalBusContention(c)
          [] code = "MIXED_DRIVER_CONFLICT"    -> MixedDriverConflict(c)
          [] OTHER                             -> FloatingDigitalInput(c)}
=============================================================================
