----------------------------- MODULE CircuitCheck -----------------------------
(***************************************************************************)
(* The check of one circuit against its acceptance criteria: the rule      *)
(* check, the deck, the run, and the verdict on each criterion.  The rules,*)
(* the deck and the verdict each work out from the circuit, for            *)
(* themselves, which pins drive a net and which node a name stands for;    *)
(* the properties are about the places where those answers meet.           *)
(*                                                                         *)
(* Two services take this road: the verification of a design on request    *)
(* ("verify", and every batch of variants with it) and the design loop     *)
(* ("design").                                                             *)
(***************************************************************************)
EXTENDS ErcChecker, SpiceDeck

CONSTANTS Circuits,        \* The circuits that are checked
          Criteria(_)      \* The criteria of a circuit: a sequence of probes

\* Nets and parts are lists, a part has finitely many pins, and a net is known by its id.
WellFormed(c) ==
    /\ c.nets \in Seq(Range(c.nets))
    /\ c.parts \in Seq(Range(c.parts))
    /\ \A i \in DOMAIN c.parts : IsFiniteSet(DOMAIN c.parts[i].pins)
    /\ \A j, k \in DOMAIN c.nets : c.nets[j].id = c.nets[k].id => j = k

ASSUME CircuitsAssumption == \A c \in Circuits : WellFormed(c)

\* What the provers cannot see of the spelling of names: no node is called 0, and the
\* candidates for a made-up node differ.
Bases(c) ==
    LET nodes == Range(BuildNodeMap(c))
    IN  {"dlogic_lo_a", "dlogic_lo"} \cup {node \o "_p" : node \in nodes} \cup {node \o "_d" : node \in nodes}

ASSUME SpellingAssumption ==
    /\ \A id \in UNION {NetIds(c) : c \in Circuits} : SanitizeNodeName(id) # "0"
    /\ \A base \in UNION {Bases(c) : c \in Circuits}, n \in {Len(c.nets) : c \in Circuits} :
          \A k \in 0 .. 2 * n + 1 :
              /\ Suffixed(base, k) # "0"
              /\ \A j \in 0 .. k - 1 : Suffixed(base, j) # Suffixed(base, k)

\* A criterion is on the voltage of a net or of the reference, on the difference of two
\* such voltages, or on the current through a part.
Criterion(c, criterion) ==
    \/ /\ criterion.kind = "v"
       /\ Len(criterion.args) \in {1, 2} /\ DOMAIN criterion.args = 1 .. Len(criterion.args)
       /\ \A j \in DOMAIN criterion.args :
            criterion.args[j] \in {"0"} \cup UNION {{Lower(net.id), Lower(net.name)} :
                                        net \in Range(c.nets)}
    \/ /\ criterion.kind = "i"
       /\ \E i \in DOMAIN c.parts : criterion.args = <<Lower(c.parts[i].designator)>>

ASSUME CriteriaAssumption ==
    \A c \in Circuits :
        LET criteria == Criteria(c)
        IN  /\ criteria \in Seq(Range(criteria))
            /\ \A criterion \in Range(criteria) : Criterion(c, criterion)

VARIABLES circuit,   \* The circuit
          path,      \* The service that checks it
          stage,     \* How far the check has come
          deck,      \* The deck, once there is one
          columns,   \* The output line of the deck
          measured,  \* The columns ngspice wrote
          ran,       \* Whether the run counts as one that produced results
          answers    \* The verdict: for each criterion, what answered it

vars == <<circuit, path, stage, deck, columns, measured, ran, answers>>

NoDeck == [node |-> <<>>]

TypeOK ==
    /\ circuit \in Circuits
    /\ path \in {"verify", "design"}
    /\ stage \in {"drawn", "passed", "rejected", "refused", "built", "finished", "judged"}
    /\ \A k \in DOMAIN columns : columns[k].kind \in {"v", "i", "id"}
    /\ ran \in BOOLEAN
    /\ \A k \in DOMAIN answers : answers[k].by \in {"column", "ground", "nothing"}

Init ==
    /\ circuit \in Circuits
    /\ path \in {"verify", "design"}
    /\ stage = "drawn"
    /\ deck = NoDeck
    /\ columns = <<>>
    /\ measured = <<>>
    /\ ran = FALSE
    /\ answers = <<>>

-----------------------------------------------------------------------------
(* The verdict on a criterion *)

\* Every way to name the reference; a net that is called 0 and is not ground keeps the
\* name for itself.
GroundRefs(c) ==
    (UNION {{Lower(c.nets[k].id), Lower(c.nets[k].name)} :
                k \in {j \in DOMAIN c.nets : c.nets[j].isGround}})
    \cup (IF \E k \in DOMAIN c.nets : Lower(c.nets[k].id) = "0" /\ ~c.nets[k].isGround
          THEN {} ELSE {"0"})

SanitizeAll(args) == [k \in DOMAIN args |-> SanitizeNodeName(args[k])]

\* The columns are keyed by what they are called, never through the circuit; and the
\* parameter form of a diode's current is not recognised as a current.
MeasuredKey(column) ==
    [kind |-> column.kind, of |-> IF column.kind = "v" THEN SanitizeAll(column.args) ELSE column.args]

MatchKey(c, resolver, criterion) ==
    IF criterion.kind = "i" THEN [kind |-> "i", of |-> criterion.args]
    ELSE IF Len(criterion.args) = 1 /\ criterion.args[1] \in GroundRefs(c)
    THEN [kind |-> "ground", of |-> <<>>]
    ELSE LET args == RewriteNodeRefs(c, resolver, criterion.args)
         IN  [kind |-> IF args = <<>> THEN "sign-ambiguous" ELSE "v", of |-> SanitizeAll(args)]

Nothing == [by |-> "nothing", column |-> <<>>]

\* Ground is answered from its definition, but only if there was a run to speak of; of
\* two columns with one key the later is the one that is read.
Evaluate(c, resolver, line, simOk, criterion) ==
    LET key   == MatchKey(c, resolver, criterion)
        found == {k \in DOMAIN line : MeasuredKey(line[k]) = key}
    IN  IF ~simOk THEN Nothing
        ELSE IF key.kind = "ground"
        THEN IF line = <<>> THEN Nothing ELSE [by |-> "ground", column |-> <<>>]
        ELSE IF found = {} THEN Nothing
        ELSE [by |-> "column", column |-> line[Max(found)]]

\* The names are resolved by a plan that is made again from the circuit.
EvaluateAssertions(c, line, simOk) ==
    LET criteria == Criteria(c)
        resolver == Deck(c)
    IN  [k \in DOMAIN criteria |-> Evaluate(c, resolver, line, simOk, criteria[k])]

-----------------------------------------------------------------------------
(* The probes a service adds to the default ones *)

ExtraProbesForCriteria(criteria) ==
    [k \in DOMAIN criteria |->
        IF criteria[k].kind = "i" \/ Len(criteria[k].args) = 2 THEN {criteria[k]} ELSE {}]

CurrentProbes(criteria) ==
    [k \in DOMAIN criteria |-> IF criteria[k].kind = "i" THEN {criteria[k]} ELSE {}]

ExtraProbes(service, criteria) ==
    IF service = "verify" THEN ExtraProbesForCriteria(criteria) ELSE CurrentProbes(criteria)

-----------------------------------------------------------------------------
(* The steps *)

RunErc ==
    /\ stage = "drawn"
    /\ stage' = IF Errors(circuit) = {} THEN "passed" ELSE "rejected"
    /\ UNCHANGED <<circuit, path, deck, columns, measured, ran, answers>>

GenerateNetlist ==
    /\ stage = "passed"
    /\ \/ /\ DeckRefusal(circuit)
          /\ stage' = "refused"
          /\ UNCHANGED <<deck, columns>>
       \/ /\ ~DeckRefusal(circuit)
          /\ stage' = "built"
          /\ deck' = Deck(circuit)
          /\ columns' = Columns(circuit, deck', ExtraProbes(path, Criteria(circuit)))
    /\ UNCHANGED <<circuit, path, measured, ran, answers>>

\* ngspice gives up the whole output line for one node it can not sample.
LineAborts ==
    \E k \in DOMAIN columns :
        /\ columns[k].kind = "v"
        /\ \E j \in DOMAIN columns[k].args :
            columns[k].args[j] \notin AnalogNodes(circuit, deck)

\* A run that wrote nothing is a failed one, or one that is taken for finished: the
\* batches of variants ask for no more than an exit without error.
Simulate ==
    /\ stage = "built"
    /\ \/ /\ ~LineAborts
          /\ measured' = columns
          /\ ran' = TRUE
       \/ /\ measured' = <<>>
          /\ ran' \in BOOLEAN
    /\ stage' = "finished"
    /\ UNCHANGED <<circuit, path, deck, columns, answers>>

Judge ==
    /\ stage = "finished"
    /\ stage' = "judged"
    /\ answers' = EvaluateAssertions(circuit, measured, ran)
    /\ UNCHANGED <<circuit, path, deck, columns, measured, ran>>

Next == RunErc \/ GenerateNetlist \/ Simulate \/ Judge

Spec == Init /\ [][Next]_vars

-----------------------------------------------------------------------------
(* What a name means *)

\* The nets a reference names: an id before a name.
NamedNets(c, ref) ==
    LET byId == {id \in NetIds(c) : Lower(id) = ref}
    IN  IF byId # {} THEN byId ELSE {id \in NetIds(c) : Lower(NetOf(c, id).name) = ref}

\* No net is called like another net or one of its nodes, ground is the reference and no
\* twin, no two nodes read alike once more sanitised, and no device is called like
\* another part.
NamesAreApart(c, built) ==
    LET voltage(net) == VoltageNode(built, net.id)
        names(net) == {Lower(net.id), Lower(net.name)}
    IN  /\ \A j, k \in DOMAIN c.nets :
            LET net == c.nets[j]
                other == c.nets[k]
            IN  /\ Lower(net.name) = "0" => net.isGround
                /\ net.isGround => voltage(net) = "0"
                /\ j # k => names(net) \cap (names(other) \cup
                                {built.node[other.id], voltage(other)}) = {}
                /\ SanitizeNodeName(voltage(net)) = SanitizeNodeName(voltage(other)) =>
                        voltage(net) = voltage(other)
        /\ \A i \in Emitted(c), j \in DOMAIN c.parts :
            InstanceName(c.parts[i]) = Lower(c.parts[j].designator) => i = j

\* A net that no device of the deck touches.
Bare(c, id) == ~NetOf(c, id).isGround /\ PinsOn(c, id) \cap EmittedPins(c) = {}

\* The column a voltage criterion asks for: minus ground is nothing to subtract, and no
\* column is ground minus a node.
AskedColumn(criterion) ==
    LET named(ref) == NamedNets(circuit, ref)
        node(ref) == IF named(ref) = {} THEN "0"
                     ELSE VoltageNode(deck, CHOOSE id \in named(ref) : TRUE)
        nodes == [k \in DOMAIN criterion.args |-> node(criterion.args[k])]
    IN  IF Len(criterion.args) = 2 /\ nodes[2] = "0" THEN <<nodes[1]>> ELSE nodes

-----------------------------------------------------------------------------
(* Properties *)

\* A criterion is answered by the net it names and by no other: whatever road a name took
\* to a column, through the sanitiser, the bridges to logic and the rewriting of probes,
\* the column that decides the criterion carries that net's voltage, ground is answered
\* only for ground, and nothing is answered by a run that wrote nothing.  It needs the
\* names of the circuit to be apart: without that the code answers from another net.
BoundToNamedNet ==
    (stage = "judged" /\ NamesAreApart(circuit, deck)) =>
        LET criteria == Criteria(circuit) IN
        \A k \in DOMAIN answers :
            LET criterion == criteria[k]
                answer == answers[k]
            IN  /\ answer.by # "nothing" => measured # <<>>
                /\ answer.by = "column" =>
                    IF criterion.kind = "v"
                    THEN answer.column = [kind |-> "v", args |-> AskedColumn(criterion)]
                    ELSE answer.column.kind = "i" /\ \E i \in Emitted(circuit) :
                            /\ Lower(circuit.parts[i].designator) = criterion.args[1]
                            /\ InstanceName(circuit.parts[i]) = answer.column.args[1]
                /\ answer.by = "ground" =>
                    \A id \in NamedNets(circuit, criterion.args[1]) : deck.node[id] = "0"

\* What can be measured is measured: on the road of a verification, every criterion that
\* names nets of a circuit the rule check let through is answered by a run that wrote its
\* line, only ground minus a node and the nets beyond the default ones excepted; and the
\* line is lost only to a net that no device touches, which the rule check thinks harmless.
NamedNetIsAnswered ==
    /\ (stage = "built" /\ LineAborts) => \E id \in NetIds(circuit) : Bare(circuit, id)
    /\ (stage = "judged" /\ path = "verify" /\ measured # <<>> /\ ran /\ NamesAreApart(circuit, deck)) =>
        LET criteria == Criteria(circuit)
            ground(ref) == \E id \in NamedNets(circuit, ref) : deck.node[id] = "0"
            sampled(ref) == \E j \in Sampled(circuit) : circuit.nets[j].id \in NamedNets(circuit, ref)
        IN  \A k \in DOMAIN answers :
                LET args == criteria[k].args IN
                (/\ criteria[k].kind = "v"
                 /\ \A j \in DOMAIN args : NamedNets(circuit, args[j]) # {}
                 /\ IF Len(args) = 2 THEN ~ground(args[1]) ELSE ground(args[1]) \/ sampled(args[1]))
                => answers[k].by # "nothing"

\* The deck of a circuit that passed the rules has no undefined and no fought-over logic
\* level: every input of a gate, its event node named by the plan of the bridges and not
\* by the net, is driven by an output, a bridge or the low rail; several outputs share a
\* node only if all can let go; and no bridge drives a node an analog source drives.  The
\* reference node is left out: the rules take a logic pin on a ground net for settled.
LogicIsDriven ==
    stage = "built" =>
        LET at(node) == {pin \in EmittedPins(circuit) : NodeAt(circuit, deck, pin) = node}
            outputs(node) == {pin \in at(node) : IsSourcePin(TypeAt(circuit, pin), pin[2])}
            bridgesTo(node) == {b \in deck.adc : b[2] = node}
        IN  /\ \A pin \in EmittedPins(circuit) :
                LET node == NodeAt(circuit, deck, pin) IN
                (TypeAt(circuit, pin) \in DigitalTypes /\ node # "0") =>
                    /\ outputs(node) # {} \/ bridgesTo(node) # {}
                    /\ outputs(node) = {} \/ bridgesTo(node) = {}
                    /\ Cardinality(outputs(node)) > 1 =>
                        \A other \in outputs(node) : TypeAt(circuit, other) = "tristate"
            /\ \A bridge \in deck.dac : bridge[2] # "0" =>
                ~\E pin \in at(bridge[2]) : DrivesAnalog(circuit, pin)
            /\ \A i \in Emitted(circuit) :
                (/\ circuit.parts[i].type \in SequentialTypes
                 /\ ~({"set", "rst"} \subseteq DOMAIN circuit.parts[i].pins)) =>
                    \E rail \in deck.lowRail : bridgesTo(rail) # {}

\* ngspice merges nodes whose names differ in case only, without a word.  In an accepted
\* deck two pins meet in a node exactly when the drawing connects them and they are of
\* one domain, and no node the plan made up is the node of a net or of another purpose.
NoSilentMerge ==
    stage = "built" =>
        LET node(pin) == NodeAt(circuit, deck, pin)
            domain(pin) == TypeAt(circuit, pin) \in DigitalTypes
            made == [twins  |-> {deck.twin[id] : id \in DOMAIN deck.twin},
                     events |-> {deck.event[id] : id \in DOMAIN deck.event},
                     rails  |-> deck.lowRail]
            nets == {deck.node[id] : id \in NetIds(circuit)}
        IN  /\ \A p, q \in EmittedPins(circuit) :
                /\ node(p) = node(q) => \/ node(p) = "0"
                                       \/ /\ NetAt(circuit, p) = NetAt(circuit, q)
                                          /\ domain(p) = domain(q)
                /\ (NetAt(circuit, p) = NetAt(circuit, q) /\ domain(p) = domain(q)) =>
                        node(p) = node(q)
            /\ (made.twins \cup made.events \cup made.rails) \cap nets = {}
            /\ made.twins \cap made.events = {}
            /\ made.rails \cap (made.twins \cup made.events) = {}
            /\ Cardinality(made.twins) = Cardinality(DOMAIN deck.twin)
            /\ Cardinality(made.events) = Cardinality(DOMAIN deck.event)

=============================================================================
