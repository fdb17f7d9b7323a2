------------------------------- MODULE Circuit -------------------------------
(***************************************************************************)
(* The circuit document of eda-core: nets and parts, and the questions     *)
(* about them that the rule checker and the netlist generator share.       *)
(*                                                                         *)
(* A circuit is a record with a sequence "nets" of records (id, name,      *)
(* isGround), a sequence "parts" of records (type, designator, value, and  *)
(* "pins", a function from pin name to net id) and the analysis asked for. *)
(* A value is "none" or one of the source levels below.                    *)
(***************************************************************************)
EXTENDS Naturals, Integers, FiniteSets, Sequences

CONSTANT LowerOf   \* The lower-case spelling of the names that have another

Lower(s) == IF s \in DOMAIN LowerOf THEN LowerOf[s] ELSE s

-----------------------------------------------------------------------------
(* Types *)

LogicGates == {"logic_and", "logic_not"}

SequentialTypes == {"dff"}

DigitalTypes == LogicGates \cup SequentialTypes \cup {"tristate"}

\* The pins of a type, in the order of the emitted line; set and rst may be absent.
RequiredPins(type) ==
    CASE type \in {"resistor", "capacitor"}               -> {"1", "2"}
      [] type \in {"voltage_source", "current_source"}    -> {"+", "-"}
      [] type = "vcvs"                                    -> {"+", "-", "c+", "c-"}
      [] type = "diode"                                   -> {"anode", "cathode"}
      [] type = "logic_not"                               -> {"in1", "out"}
      [] type = "logic_and"                               -> {"in1", "in2", "out"}
      [] type = "tristate"                                -> {"in1", "en", "out"}
      [] type = "dff"                                     -> {"d", "clk", "q", "qb"}
      [] type = "ground"                                  -> {"1"}
      [] OTHER                                            -> {}

\* Does this pin drive its net? Every other pin of a digital part reads it.
IsSourcePin(type, pin) == type \in DigitalTypes /\ pin \in {"out", "q", "qb"}

\* The sense pins of a controlled source load their net and never drive it.
IsSensePin(type, pin) == type = "vcvs" /\ pin \in {"c+", "c-"}

\* The level a source's value names.
Volts == [dc5 |-> 5, dc3 |-> 3, ac1 |-> 1]

-----------------------------------------------------------------------------
(* Pins and nets *)

Pins(c) == UNION {{i} \X DOMAIN c.parts[i].pins : i \in DOMAIN c.parts}

TypeAt(c, pin) == c.parts[pin[1]].type

NetAt(c, pin) == c.parts[pin[1]].pins[pin[2]]

NetIds(c) == {c.nets[k].id : k \in DOMAIN c.nets}

NetOf(c, id) == CHOOSE n \in {c.nets[k] : k \in DOMAIN c.nets} : n.id = id

PinsOn(c, id) == {pin \in Pins(c) : NetAt(c, pin) = id}

\* Ground symbols and catalogue-only parts carry pins and become no device.
Electrical(c) == {pin \in Pins(c) : TypeAt(c, pin) \notin {"ground", "generic"}}

SourcesOn(c, id) ==
    {pin \in PinsOn(c, id) \cap Electrical(c) : IsSourcePin(TypeAt(c, pin), pin[2])}

SinksOn(c, id) ==
    {pin \in PinsOn(c, id) \cap Electrical(c) :
        TypeAt(c, pin) \in DigitalTypes /\ ~IsSourcePin(TypeAt(c, pin), pin[2])}

AnalogOn(c, id) ==
    {pin \in PinsOn(c, id) \cap Electrical(c) : TypeAt(c, pin) \notin DigitalTypes}
=============================================================================
