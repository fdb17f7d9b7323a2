---------------------------- MODULE MCCircuitCheck ----------------------------
(***************************************************************************)
(* CircuitCheck over three families of small circuits: every small board   *)
(* of a catalogue of parts around one supply, every way to name two nets   *)
(* out of names that are hard on the sanitiser, and a few boards with two  *)
(* ground nets, two sources or a net that only catalogue parts touch.      *)
(***************************************************************************)
EXTENDS CircuitCheck

\* The members of a set, one after another.
Listed(S) == FoldSet(LAMBDA x, list : Append(list, x), <<>>, S)

MCLowerOf == [OUT |-> "out", NB |-> "nb", nB |-> "nb", R1 |-> "r1", V1 |-> "v1"]

Net(id, name, isGround) == [id |-> id, name |-> name, isGround |-> isGround]

Part(type, designator, value, pins) ==
    [type |-> type, designator |-> designator, value |-> value, pins |-> pins]

Board(nets, parts, analysis) == [nets |-> nets, parts |-> parts, analysis |-> analysis]

Two(a, b) == ("1" :> a) @@ ("2" :> b)

Poles(a, b) == ("+" :> a) @@ ("-" :> b)

Supply == Part("voltage_source", "V1", "dc5", Poles("a", "g"))

-----------------------------------------------------------------------------
(* The catalogue: parts on a supplied net, two signal nets and ground *)

Signals == {"a", "b", "d"}

Catalogue ==
    {Part("resistor", "R1", "1k", Two(n, m)) : n \in {"b"}, m \in {"a", "d", "g"}}
    \cup {Part("resistor", "load", "1k", Two("d", "g"))}
    \cup {Part("vcvs", "gain", "10", Poles("d", "g") @@ ("c+" :> n) @@ ("c-" :> "g")) : n \in {"a", "b"}}
    \cup {Part("logic_not", "inv" \o n \o m, "none", [in1 |-> n, out |-> m]) :
            n \in Signals, m \in {"b", "d"}}
    \cup {Part("logic_and", "both", "none", [in1 |-> "a", in2 |-> "b", out |-> "d"])}
    \cup {Part("tristate", "tri" \o n, "none", [in1 |-> n, en |-> "a", out |-> "d"]) : n \in {"a", "b"}}
    \cup {Part("tristate", "open", "none", [in1 |-> "a", out |-> "d"])}
    \cup {Part("dff", "ff", "none", [d |-> "a", clk |-> "a", q |-> "b", qb |-> "d"]),
          Part("dff", "ffr", "none", [d |-> "b", clk |-> "a", q |-> "d", qb |-> "e", set |-> "g", rst |-> "a"])}
    \cup {Part("generic", "conn", "none", Two("b", n)) : n \in {"a", "d"}}

CatalogueBoards ==
    {Board(<<Net("g", "gnd", TRUE), Net("a", "vin", FALSE), Net("b", "mid", FALSE),
             Net("d", "sig", FALSE)>> \o (IF \E p \in parts : p.designator = "ffr"
                                          THEN <<Net("e", "inverse", FALSE)>> ELSE <<>>),
           <<Supply>> \o Listed(parts), "tran") :
        parts \in UNION {kSubset(k, Catalogue) : k \in 1 .. 4}}

-----------------------------------------------------------------------------
(* Names: the ids and the names of two nets of a divider or of a gate *)

NetNames == {"out", "OUT", "one", "none", "b", "nb", "NB", "nB", "e", "nb_d", "0"}

NamedBoards ==
    UNION {
        {Board(<<Net("g", "gnd", TRUE), Net(i, n, FALSE), Net(j, m, FALSE)>>,
               <<Part("voltage_source", "V1", "dc5", Poles(i, "g")), part>>, "tran") :
            n \in NetNames, m \in {"b", "nb", "nb_p", "one", "0", "mid"},
            part \in {Part("resistor", "R1", "1k", Two(i, j)),
                      Part("logic_not", "inv", "none", [in1 |-> i, out |-> j])}} :
        <<i, j>> \in {ids \in NetNames \X NetNames : ids[1] # ids[2]}}

-----------------------------------------------------------------------------
(* Boards with a point *)

Divider(second, analysis) ==
    Board(<<Net("g", "gnd", TRUE), Net("a", "vin", FALSE), Net("b", "mid", FALSE)>>,
          <<Supply, Part("resistor", "R1", "1k", Two("a", "b")),
            Part("resistor", "load", "1k", Two("b", "g"))>> \o second, analysis)

TwoGrounds(parts) ==
    Board(<<Net("g", "gnd", TRUE), Net("g2", "agnd", TRUE), Net("a", "vin", FALSE)>>,
          <<Supply>> \o parts, "tran")

PointedBoards ==
    {Divider(<<Part("voltage_source", name, value, Poles(n, m))>>, analysis) :
        name \in {"V2", "v1", "bat"}, value \in {"dc5", "dc3", "ac1", "none"},
        n \in {"a", "b", "g"}, m \in {"a", "g"}, analysis \in {"tran", "ac"}}
    \cup {Divider(<<Part(type, name, "none", pins)>>, "tran") :
        type \in {"diode"}, name \in {"D1", "led"},
        pins \in {("anode" :> "b") @@ ("cathode" :> "g"), Two("b", "g")}}
    \cup {Board(<<Net("g", "gnd", TRUE), Net("a", "vin", FALSE), Net("b", "mid", FALSE)>>,
                <<Supply, Part("resistor", "1", "1k", Two("a", n)),
                  Part(type, "R1", "10", Poles("b", "g") @@ ("c+" :> "a") @@ ("c-" :> "g"))>>,
                "tran") :
        type \in {"vcvs", "generic"}, n \in {"b", "g", "undeclared"}}
    \cup {Divider(<<Part("resistor", "rload", "1k", Two("b", "g"))>>, "tran")}
    \cup {TwoGrounds(<<Part("resistor", "R1", "1k", Two("a", g)),
                       Part("logic_not", "inv", "none", [in1 |-> i, out |-> o])>>) :
        g \in {"g", "g2"}, i \in {"a", "g", "g2"}, o \in {"a", "g2"}}
    \cup {Board(<<Net("g", "gnd", marked), Net("a", "vin", FALSE), Net("b", "mid", FALSE),
                  Net("d", "aux", FALSE)>>,
                <<Supply, Part("resistor", "R1", "1k", Two("a", "g"))>> \o rest, "tran") :
        marked \in BOOLEAN,
        rest \in {<<>>,
                  <<Part("ground", "GND1", "none", ("1" :> "g"))>>,
                  <<Part("resistor", "R2", "1k", Two("b", "d")), Part("resistor", "R3", "1k", Two("d", "b"))>>,
                  <<Part("generic", "J1", "none", Two("b", "d"))>>}}

MCCircuits == CatalogueBoards \cup NamedBoards \cup PointedBoards

-----------------------------------------------------------------------------
(* Every reference to a net, alone and against another, and every branch current *)

MCCriteria(c) ==
    LET single == {Lower(c.nets[k].id) : k \in DOMAIN c.nets}
                    \cup {Lower(c.nets[k].name) : k \in DOMAIN c.nets} \cup {"0"}
        ids == {Lower(c.nets[k].id) : k \in DOMAIN c.nets}
        voltages == {<<r>> : r \in single} \cup {<<r, s>> : r \in ids \cup {"0"}, s \in ids \cup {"0"}}
    IN  Listed({[kind |-> "v", args |-> args] : args \in {a \in voltages : Len(a) = 1 \/ a[1] # a[2]}})
        \o Listed({[kind |-> "i", args |-> <<Lower(c.parts[i].designator)>>] : i \in DOMAIN c.parts})
=============================================================================
