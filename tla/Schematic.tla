------------------------------ MODULE Schematic ------------------------------
(***************************************************************************)
(* A design and its drawing, and the edits of editor-core as functions of  *)
(* them: the netlist edits (nets.ts, parts.ts), the drawing brought back   *)
(* in line with the netlist (wiring.ts), and the commit that runs both.    *)
(*                                                                         *)
(* A part is its number: the allocator takes the lowest free one, and so   *)
(* does the one for nets.  The sheet is a row of places; a terminal is at  *)
(* a point given by its part's place and turn, and a wire is known by its  *)
(* two end points and the terminals recorded there.  Bends, symbol shapes, *)
(* labels and every other field of a part are left out.                    *)
(***************************************************************************)
EXTENDS Integers, Sequences, SequencesExt

CONSTANTS
    PinNames,   \* the pins of every part, numbers
    MaxParts,   \* bound: parts of a design
    MaxPlaces   \* bound: places of the sheet

ASSUME SchematicAssumption ==
    /\ PinNames \subseteq Nat /\ IsFiniteSet(PinNames)
    /\ MaxParts \in Nat
    /\ MaxPlaces \in Nat /\ MaxPlaces >= MaxParts

-----------------------------------------------------------------------------

Parts == 1..MaxParts
Places == 1..MaxPlaces
Pins == Parts \X PinNames

\* The nets whose role is declared; the others are signals 1, 2, ...
Ground == 0
Supply == -1
Rails == {Ground, Supply}
Signals == 1..(2 * Cardinality(Pins))
Nets == Rails \union Signals

\* What no terminal is under, and the one modelled point of empty sheet.
NoPin == <<0, 0>>
Nowhere == <<0, FALSE, 0>>

Point == (Places \X BOOLEAN \X PinNames) \union {Nowhere}

Position == [place : Places, turned : BOOLEAN]

Wire == [net : Nets, from : Pins \union {NoPin}, to : Pins \union {NoPin},
         head : Point, tail : Point]

\* The elements of a set of pins, or of numbers, in the order of the document.
Before(p, q) == p[1] < q[1] \/ (p[1] = q[1] /\ p[2] < q[2])
FirstPin(P) == CHOOSE p \in P : \A q \in P : p = q \/ Before(p, q)
Rank(x, S) == Cardinality({y \in S : y <= x})
PinRank(p, P) == Cardinality({q \in P : q = p \/ Before(q, p)})
Nth(k, S) == CHOOSE n \in S : Rank(n, S) = k
NthPin(k, P) == CHOOSE p \in P : PinRank(p, P) = k

PartsOf(c) == {p[1] : p \in DOMAIN c.net}
PinsOf(c, parts) == {p \in DOMAIN c.net : p[1] \in parts}
PinsOn(c, n) == {p \in DOMAIN c.net : c.net[p] = n}

\* A design: every part has all its pins, every pin is on a net of the design, and
\* the numbers of the signals suffice for those that are on no pin.
Unused(c) == {n \in c.nets \intersect Signals : PinsOn(c, n) = {}}
CircuitOK(c) ==
    /\ PartsOf(c) \subseteq Parts
    /\ c \in [net : [PartsOf(c) \X PinNames -> c.nets], nets : SUBSET Nets]
    /\ Cardinality(Unused(c)) <= Cardinality(Pins)

(* Netlist edits ***********************************************************)

\* Every edit answers with the new circuit or refuses.
Refused == [ok |-> FALSE]
Done(c) == [ok |-> TRUE, circuit |-> c]

Repoint(c, pins, n) ==
    [c EXCEPT !.net = [p \in DOMAIN c.net |-> IF p \in pins THEN n ELSE c.net[p]]]

FreeSignals(c) == Signals \ c.nets
FreshNet(c) == Nth(1, FreeSignals(c))

NetRank(n) == CASE n = Ground -> 2 [] n = Supply -> 1 [] OTHER -> 0

\* Two pins on one node: the net of higher rank, or the destination's, absorbs
\* the other, which ceases to exist.
ConnectPins(c, from, to) ==
    LET a == c.net[from]
        b == c.net[to]
        keep == IF NetRank(b) >= NetRank(a) THEN b ELSE a
        absorbed == IF keep = b THEN a ELSE b
    IN  IF ~({from, to} \subseteq DOMAIN c.net) \/ from = to THEN Refused
        ELSE IF a = b THEN Done(c)
        ELSE IF {a, b} = Rails THEN Refused
        ELSE Done([Repoint(c, PinsOn(c, absorbed), keep)
                       EXCEPT !.nets = @ \ {absorbed}])

DisconnectPin(c, pin) ==
    IF pin \notin DOMAIN c.net THEN Refused
    ELSE IF PinsOn(c, c.net[pin]) = {pin} THEN Done(c)
    ELSE Done([Repoint(c, {pin}, FreshNet(c)) EXCEPT !.nets = @ \union {FreshNet(c)}])

\* One pin onto a net chosen from the list; a net it leaves empty goes.
MovePinToNet(c, pin, n) ==
    IF pin \notin DOMAIN c.net \/ n \notin c.nets THEN Refused
    ELSE IF c.net[pin] = n THEN Done(c)
    ELSE Done([Repoint(c, {pin}, n) EXCEPT
                   !.nets = IF PinsOn(c, c.net[pin]) = {pin} THEN @ \ {c.net[pin]} ELSE @])

\* Some, not all, of the pins of the net of the first one onto a new net.
SplitNet(c, take) ==
    LET on == PinsOn(c, c.net[FirstPin(take)])
    IN  IF ~(take \subseteq DOMAIN c.net) THEN Refused
        ELSE IF ~(take \subseteq on) \/ take = on THEN Refused
        ELSE Done([Repoint(c, take, FreshNet(c)) EXCEPT !.nets = @ \union {FreshNet(c)}])

FreeParts(c) == Parts \ PartsOf(c)

\* Parts with every pin on a net of its own, net by net in the order of the pins.
WithParts(c, parts) ==
    LET added == parts \X PinNames
        own(p) == Nth(PinRank(p, added), FreeSignals(c))
    IN  [net |-> [p \in DOMAIN c.net \union added |->
                      IF p \in added THEN own(p) ELSE c.net[p]],
         nets |-> c.nets \union {own(p) : p \in added}]

AddComponent(c) == Done(WithParts(c, {Nth(1, FreeParts(c))}))

\* The nets that only this part held up go with it.
DeleteComponent(c, part) ==
    LET rest == DOMAIN c.net \ PinsOf(c, {part})
        left == {c.net[p] : p \in PinsOf(c, {part})} \ {c.net[p] : p \in rest}
    IN  IF part \notin PartsOf(c) THEN Refused
        ELSE Done([net |-> [p \in rest |-> c.net[p]], nets |-> c.nets \ left])

\* The copy of a part is the free number of the same rank.
CopyOf(c, parts, part) == Nth(Rank(part, parts), FreeParts(c))

\* Copies keep the wiring among themselves, on nets of their own, share the
\* rails, and arrive cut from everything else.
DuplicateComponents(c, parts) ==
    LET source == PinsOf(c, parts)
        copy(p) == <<CopyOf(c, parts, p[1]), p[2]>>
        added == {copy(p) : p \in source}
        blank == WithParts(c, {p[1] : p \in added})
        inside(p) == PinsOn(c, c.net[p]) \intersect source
        netOf(p) == IF c.net[p] \in Rails THEN c.net[p]
                    ELSE blank.net[copy(FirstPin(inside(p)))]
        net == [q \in DOMAIN blank.net |->
                    IF q \in added THEN netOf(CHOOSE p \in source : copy(p) = q)
                    ELSE c.net[q]]
    IN  IF ~(parts \subseteq PartsOf(c)) THEN Refused
        ELSE Done([net |-> net,
                   nets |-> c.nets \union {net[q] : q \in added}])

\* An edit as the caller hands it to the kernel.
Apply(c, e) == CASE e.op = "connect" -> ConnectPins(c, e.from, e.to)
                 [] e.op = "disconnect" -> DisconnectPin(c, e.pin)
                 [] e.op = "move" -> MovePinToNet(c, e.pin, e.net)
                 [] e.op = "split" -> SplitNet(c, e.take)
                 [] e.op = "add" -> AddComponent(c)
                 [] e.op = "delete" -> DeleteComponent(c, e.part)
                 [] e.op = "duplicate" -> DuplicateComponents(c, e.parts)

\* All of them, each on the result of those before it, or none.
ApplyAll(c, edits) ==
    LET after[k \in 0..Len(edits)] ==
            IF k = 0 THEN Done(c)
            ELSE LET done == after[k - 1]
                 IN  IF done.ok THEN Apply(done.circuit, edits[k]) ELSE done
    IN  after[Len(edits)]

(* The drawing *************************************************************)

\* wires is a function from wire ids; a drawing that is not owned has none.
Drawing(owned, pos, wires) == [owned |-> owned, pos |-> pos, wires |-> wires]
NoWires == [k \in {} |-> NoPin]
NoPositions == [id \in {} |-> NoPin]

PointOf(pos, p) == <<pos[p[1]].place, pos[p[1]].turned, p[2]>>

EndsOf(w) == {w.from, w.to} \ {NoPin}
PointsOf(w) == {w.head, w.tail}

\* What groups that overlap lead to from one member of a set.
Joined(x, S, groups) ==
    LET joined[n \in 0..Cardinality(S)] ==
            IF n = 0 THEN {x}
            ELSE LET last == joined[n - 1]
                 IN  last \union UNION {G \in groups : G \intersect last # {}}
    IN  joined[Cardinality(S)]

\* The wires of one conductor: of one net, end on end.
WiresOf(wires, n) == {k \in DOMAIN wires : wires[k].net = n}
Meetings(wires, K) == {{i \in K : point \in PointsOf(wires[i])} :
                          point \in UNION {PointsOf(wires[i]) : i \in K}}
Conductor(wires, k) ==
    LET K == WiresOf(wires, wires[k].net) IN Joined(k, K, Meetings(wires, K))

\* The terminals of p's net that the drawing holds together with it: recorded
\* on, or under an end of, one conductor, or on one point.
PlacedOn(c, pos, n) == {q \in PinsOn(c, n) : q[1] \in DOMAIN pos}
Held(pos, wires, pins, K) ==
    {q \in pins : \E i \in K : q \in EndsOf(wires[i]) \/ PointOf(pos, q) \in PointsOf(wires[i])}
Bundles(pos, wires, pins, n) ==
    {Held(pos, wires, pins, Conductor(wires, k)) : k \in WiresOf(wires, n)}
    \union {{q \in pins : PointOf(pos, q) = PointOf(pos, r)} : r \in pins}
Island(c, pos, wires, p) ==
    LET pins == PlacedOn(c, pos, c.net[p])
    IN  Joined(p, pins, Bundles(pos, wires, pins, c.net[p]))

\* Where parts are shown: the stored position, else a slot the circuit decides.
PlaceParts(c, pos) ==
    [id \in PartsOf(c) |->
        IF id \in DOMAIN pos THEN pos[id]
        ELSE [place |-> Rank(id, PartsOf(c)), turned |-> FALSE]]

\* A drawing without wires is drawn once, net by net, and handed over.
FreezeDrawing(c, ui) ==
    LET pos == PlaceParts(c, ui.pos)
        next(p) == {q \in PinsOn(c, c.net[p]) : Before(p, q)}
        starts == {p \in DOMAIN c.net : c.net[p] \notin Rails /\ next(p) # {}}
        wire(p) == [net |-> c.net[p], from |-> p, to |-> FirstPin(next(p)),
                    head |-> PointOf(pos, p), tail |-> PointOf(pos, FirstPin(next(p)))]
    IN  IF ui.owned THEN ui
        ELSE Drawing(TRUE, pos, [k \in 1..Cardinality(starts) |-> wire(NthPin(k, starts))])

WithoutOrphans(c, ui) ==
    [ui EXCEPT !.pos = [id \in DOMAIN ui.pos \intersect PartsOf(c) |-> ui.pos[id]]]

\* A place of its own for every part that has no position yet.
PlaceNewParts(c, ui) ==
    LET missing == PartsOf(c) \ DOMAIN ui.pos
        free == Places \ {ui.pos[id].place : id \in DOMAIN ui.pos}
    IN  [ui EXCEPT !.pos = [id \in DOMAIN ui.pos \union missing |->
            IF id \in DOMAIN ui.pos THEN ui.pos[id]
            ELSE [place |-> Nth(Rank(id, missing), free), turned |-> FALSE]]]

\* The net a conductor belongs to: the one most of its recorded ends are on,
\* its own among equals; without recorded ends, its own.
NetOfConductor(c, wires, group, was) ==
    LET ends == {e \in group \X {"from", "to"} : wires[e[1]][e[2]] # NoPin}
        count(n) == Cardinality({e \in ends : c.net[wires[e[1]][e[2]]] = n})
        hit == {n \in c.nets : count(n) > 0}
        most == {n \in hit : \A m \in hit : count(m) <= count(n)}
    IN  IF hit = {} \/ was \in most THEN was
        ELSE CHOOSE n \in most : \A m \in most : n <= m

\* Mutant of SyncWires: wires are relabelled and never dropped.
SyncLabels(c, wires) ==
    LET alive == {k \in DOMAIN wires : EndsOf(wires[k]) \subseteq DOMAIN c.net}
        live == [k \in alive |-> wires[k]]
    IN  [k \in alive |-> [live[k] EXCEPT
            !.net = NetOfConductor(c, live, Conductor(live, k), live[k].net)]]

\* The wires after an edit of the netlist: those of a part that is gone go, a
\* conductor takes the net its terminals are on, and a wire that still ends on
\* a terminal of another net goes.
SyncWires(c, wires) ==
    LET alive == {k \in DOMAIN wires : EndsOf(wires[k]) \subseteq DOMAIN c.net}
        live == [k \in alive |-> wires[k]]
        net == [k \in alive |->
                    NetOfConductor(c, live, Conductor(live, k), live[k].net)]
        kept == {k \in alive : /\ net[k] \in c.nets
                               /\ \A p \in EndsOf(live[k]) : c.net[p] = net[k]}
    IN  [k \in kept |-> [live[k] EXCEPT !.net = net[k]]]

SyncDrawing(c, ui) ==
    IF ~ui.owned THEN ui
    ELSE PlaceNewParts(c, [ui EXCEPT !.wires = SyncWires(c, ui.wires)])

\* New positions, the wire ends on terminals that moved following them.
WithPositions(c, ui, pos) ==
    LET both == PartsOf(c) \intersect DOMAIN ui.pos \intersect DOMAIN pos
        follow(p, point) == IF p \in Pins /\ p[1] \in both /\ ui.pos[p[1]] # pos[p[1]]
                            THEN PointOf(pos, p) ELSE point
    IN  [ui EXCEPT
            !.pos = pos,
            !.wires = [k \in DOMAIN ui.wires |->
                [ui.wires[k] EXCEPT !.head = follow(ui.wires[k].from, @),
                                    !.tail = follow(ui.wires[k].to, @)]]]

\* The document a commit makes of an edited circuit and a drawing.
Redrawn(c, ui) == [circuit |-> c, ui |-> SyncDrawing(c, WithoutOrphans(c, ui))]

=============================================================================
