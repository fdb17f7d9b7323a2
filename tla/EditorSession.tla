---------------------------- MODULE EditorSession ----------------------------
(***************************************************************************)
(* One open project in the schematic editor: the commit kernel's stacks    *)
(* over documents of a design and its drawing, and the gestures by which   *)
(* ProjectEditor.tsx and SchematicCanvas.tsx drive it.  A drag is held by  *)
(* the canvas from press to release; the keys stay live meanwhile, and so  *)
(* does the loading of another document.                                   *)
(*                                                                         *)
(* A refused edit, and one that changes nothing, only sets a banner: the   *)
(* action is not taken.                                                    *)
(***************************************************************************)
EXTENDS Schematic, EditHistory

CONSTANTS
    Opened,          \* documents the server may hand over: [circuit, ui]
    MaxRevisions,    \* bound: revisions made
    MaxWires,        \* bound: wires of a drawing
    MaxGroup         \* bound: parts or wires one gesture takes

\* A stored wire names a net of the design and ends only on terminals of that net.
Agrees(c, wires) == \A k \in DOMAIN wires :
    /\ wires[k].net \in c.nets
    /\ \A p \in EndsOf(wires[k]) : p \in DOMAIN c.net /\ c.net[p] = wires[k].net

\* What is stored has been written by this editor, which places every part of a
\* drawing it owns, or as a circuit nobody has drawn yet.
Stored(doc) ==
    /\ CircuitOK(doc.circuit)
    /\ {"owned", "pos", "wires"} \subseteq DOMAIN doc.ui
    /\ doc.ui.owned \in BOOLEAN
    /\ IsFiniteSet(DOMAIN doc.ui.wires)
    /\ \A k \in DOMAIN doc.ui.wires :
           {"net", "from", "to", "head", "tail"} \subseteq DOMAIN doc.ui.wires[k]
    /\ doc.ui.owned =>
           PartsOf(doc.circuit) \subseteq DOMAIN doc.ui.pos /\ Agrees(doc.circuit, doc.ui.wires)
    /\ ~doc.ui.owned => DOMAIN doc.ui.wires = {}

\* Parts and wires of a drawing are at places and points of the sheet.
OnSheet(drawn) ==
    /\ \A id \in DOMAIN drawn.pos : id \in Parts /\ drawn.pos[id] \in Position
    /\ \A k \in DOMAIN drawn.wires : drawn.wires[k] \in Wire

ASSUME EditorSessionAssumption == \A doc \in Opened : Stored(doc) /\ OnSheet(doc.ui)

VARIABLES
    drag,        \* the parts being dragged, with the places they were pressed at
    revisions    \* made so far

editorVars == <<history, drag, revisions>>

NoDrag == [id \in {} |-> 0]

circuit == present.circuit
ui == present.ui

\* What the canvas shows and edits: the stored drawing, frozen if it has none.
ShownOf(doc) == FreezeDrawing(doc.circuit, doc.ui)
shown == ShownOf(present)

Groups(S) == {G \in SUBSET S : G # {} /\ Cardinality(G) <= MaxGroup}

-----------------------------------------------------------------------------

EditorInit == /\ \E doc \in Opened : Opens(doc)
              /\ drag = NoDrag
              /\ revisions = 0

Revise(doc) == /\ Cardinality(DOMAIN doc.ui.wires) <= MaxWires
               /\ Commit(doc)
               /\ revisions' = revisions + 1

\* Mutant of ApplyMany: the drawing is frozen after the edit, not before it.
ApplyThenFreeze(list) ==
    LET done == ApplyAll(circuit, list)
    IN  /\ done.ok /\ done.circuit # circuit
        /\ Revise(Redrawn(done.circuit, FreezeDrawing(done.circuit, ui)))

\* Edits as one revision: all of them or none, the drawing following.
ApplyMany(list) ==
    LET done == ApplyAll(circuit, list)
    IN  /\ done.ok /\ done.circuit # circuit
        /\ Revise(Redrawn(done.circuit, shown))

\* The same with a change of the drawing, which counts even when the netlist
\* does not change.
ApplyAndDraw(done, drawn) == done.ok /\ Revise(Redrawn(done.circuit, drawn))

\* The drawing alone, exactly as handed over.
CommitUi(next) == Revise([circuit |-> circuit, ui |-> next])

-----------------------------------------------------------------------------

(* The keyboard: live at any time, a drag included *************************)

Join == \E from, to \in DOMAIN circuit.net :
            ApplyMany(<<[op |-> "connect", from |-> from, to |-> to]>>)

Part == \E pin \in DOMAIN circuit.net :
            ApplyMany(<<[op |-> "disconnect", pin |-> pin]>>)

Split == \E take \in Groups(DOMAIN circuit.net) :
            ApplyMany(<<[op |-> "split", take |-> take]>>)

Delete == \E parts \in Groups(PartsOf(circuit)) :
    ApplyMany([k \in 1..Cardinality(parts) |-> [op |-> "delete", part |-> Nth(k, parts)]])

\* Copies land one place beside what they were copied from, wherever a part that had
\* their number before may have left its position.
Duplicate == \E parts \in Groups(PartsOf(circuit)) :
    LET beside(was) == [was EXCEPT !.place = @ + 1]
        copy(part) == CopyOf(circuit, parts, part)
        place(drawn) ==
            [drawn EXCEPT !.pos =
                [id \in DOMAIN drawn.pos \union {copy(part) : part \in parts} |->
                    IF \E part \in parts : copy(part) = id
                    THEN beside(drawn.pos[CHOOSE part \in parts : copy(part) = id])
                    ELSE drawn.pos[id]]]
    IN  /\ Cardinality(parts) <= Cardinality(FreeParts(circuit))
        /\ \A part \in parts : shown.pos[part].place < MaxPlaces
        /\ LET done == ApplyAll(circuit, <<[op |-> "duplicate", parts |-> parts]>>)
           IN  ApplyAndDraw(done, place(shown))

\* Turning and mirroring write the position and leave the wires as they are.
Turn == \E parts \in Groups(PartsOf(circuit)) :
    CommitUi([shown EXCEPT !.pos =
        [id \in DOMAIN shown.pos |->
            IF id \in parts THEN [shown.pos[id] EXCEPT !.turned = ~@] ELSE shown.pos[id]]])

\* Mutant of DeletionPlan: a removed wire parts nothing.
DeletionPlanWithoutSplits(keys) == {}

\* The pieces that come apart when the keyed wires go, the largest of each
\* keeping its net.
DeletionPlan(keys) ==
    LET gone == {k \in keys : k \in DOMAIN ui.wires}
        left == [k \in DOMAIN ui.wires \ gone |-> ui.wires[k]]
        nets == {ui.wires[k].net : k \in gone} \ Rails
        pins == {p \in DOMAIN circuit.net : circuit.net[p] \in nets /\ p[1] \in DOMAIN ui.pos}
        was == [p \in pins |-> Island(circuit, ui.pos, ui.wires, p)]
        now == [p \in pins |-> Island(circuit, ui.pos, left, p)]
        first(P, Q) == \/ Cardinality(P) > Cardinality(Q)
                       \/ Cardinality(P) = Cardinality(Q) /\ Before(FirstPin(P), FirstPin(Q))
        largest(p) == CHOOSE P \in {now[q] : q \in was[p]} :
                          \A q \in was[p] : now[q] = P \/ first(P, now[q])
    IN  {now[p] : p \in {p \in pins : now[p] # largest(p)}}

\* The pieces one after another, each known by its first terminal.
Heads(pieces) == {FirstPin(P) : P \in pieces}
PieceAt(k, pieces) == CHOOSE P \in pieces : FirstPin(P) = NthPin(k, Heads(pieces))
Splits(pieces) ==
    [k \in 1..Cardinality(Heads(pieces)) |-> [op |-> "split", take |-> PieceAt(k, pieces)]]

\* Wires picked on the sheet, by the ids the canvas shows them under; the plan
\* is made on the stored drawing.
DeleteWires == \E keys \in Groups(DOMAIN shown.wires) :
    LET erase(drawn) ==
            IF ui.owned
            THEN [drawn EXCEPT !.wires = [k \in DOMAIN drawn.wires \ keys |-> drawn.wires[k]]]
            ELSE drawn
        done == ApplyAll(circuit, Splits(DeletionPlan(keys)))
    IN  ApplyAndDraw(done, erase(shown))

UndoKey == Undo /\ UNCHANGED <<drag, revisions>>
RedoKey == Redo /\ UNCHANGED <<drag, revisions>>

Keys == \/ Join \/ Part \/ Split \/ Delete \/ Duplicate \/ Turn \/ DeleteWires

-----------------------------------------------------------------------------

(* The pointer *************************************************************)

\* From the palette, the Inspector and the menu.
AddPart == /\ FreeParts(circuit) # {}
           /\ ApplyMany(<<[op |-> "add"]>>)

ChooseNet == \E pin \in DOMAIN circuit.net, n \in circuit.nets :
                 ApplyMany(<<[op |-> "move", pin |-> pin, net |-> n]>>)

\* Aligning and spacing: new places over the stored positions, nothing else.
Arrange == \E part \in PartsOf(circuit), place \in Places :
    LET moved == [shown.pos[part] EXCEPT !.place = place]
    IN  /\ moved # shown.pos[part]
        /\ CommitUi([ui EXCEPT !.pos = [id \in DOMAIN ui.pos \union {part} |->
                                            IF id = part THEN moved ELSE ui.pos[id]]])

\* Where a drawn wire may start or end: a terminal, or a point with none picked.
Ends == {[pin |-> p, point |-> PointOf(shown.pos, p)] : p \in DOMAIN circuit.net}
        \union {[pin |-> NoPin, point |-> point] :
                    point \in {Nowhere} \union UNION {PointsOf(shown.wires[k]) :
                                                        k \in DOMAIN shown.wires}}

\* The nets an end lands on.
NetsUnder(end) ==
    IF end.pin # NoPin THEN {circuit.net[end.pin]}
    ELSE {shown.wires[k].net : k \in {k \in DOMAIN shown.wires :
                                          end.point \in PointsOf(shown.wires[k])}}

\* The terminals that stand for that net: the one picked, or the net's first.
Terminal(end) ==
    IF end.pin # NoPin THEN {end.pin}
    ELSE {FirstPin(PinsOn(circuit, n)) : n \in {n \in NetsUnder(end) : PinsOn(circuit, n) # {}}}

\* A wire stays where it was drawn and the netlist follows it.
DrawWire == \E a, b \in Ends :
    LET hit == NetsUnder(a) \union NetsUnder(b)
        pair == {pq \in Terminal(a) \X Terminal(b) : circuit.net[pq[1]] # circuit.net[pq[2]]}
        list == IF pair = {} THEN <<>>
                ELSE LET pq == CHOOSE pq \in pair : TRUE
                     IN  <<[op |-> "connect", from |-> pq[1], to |-> pq[2]]>>
        known == Terminal(a) \union Terminal(b)
        draw(drawn, c) ==
            LET final == IF known = {} THEN CHOOSE n \in hit : TRUE
                         ELSE c.net[CHOOSE p \in known : TRUE]
                next == CHOOSE k \in 1..(Cardinality(DOMAIN drawn.wires) + 1) :
                            /\ k \notin DOMAIN drawn.wires
                            /\ \A j \in 1..(k - 1) : j \in DOMAIN drawn.wires
                new == [net |-> final, from |-> a.pin, to |-> b.pin,
                        head |-> a.point, tail |-> b.point]
                relabel(w) == IF w.net \in hit THEN [w EXCEPT !.net = final] ELSE w
            IN  [drawn EXCEPT !.wires = [k \in DOMAIN drawn.wires \union {next} |->
                    IF k = next THEN new ELSE relabel(drawn.wires[k])]]
    IN  /\ a.point # b.point
        /\ Cardinality(NetsUnder(a)) <= 1 /\ Cardinality(NetsUnder(b)) <= 1
        /\ hit # {}
        /\ LET done == ApplyAll(circuit, list)
           IN  ApplyAndDraw(done, draw(shown, done.circuit))

\* A press on a part takes it, or the selection it belongs to.
BeginDrag == /\ drag = NoDrag
             /\ \E parts \in Groups(PartsOf(circuit)) :
                    drag' = [id \in parts |-> shown.pos[id].place]
             /\ UNCHANGED <<history, revisions>>

\* The release: every dragged part at its pressed place plus the distance, in
\* the drawing of the moment, whatever became of the part meanwhile.
Dropped(delta) ==
    LET at(id) == [place |-> drag[id] + delta,
                   turned |-> id \in DOMAIN shown.pos /\ shown.pos[id].turned]
    IN  WithPositions(circuit, shown,
            [id \in DOMAIN shown.pos \union DOMAIN drag |->
                IF id \in DOMAIN drag THEN at(id) ELSE shown.pos[id]])

EndDrag == /\ drag # NoDrag
           /\ \E delta \in (1 - MaxPlaces)..(MaxPlaces - 1) :
                  /\ \A id \in DOMAIN drag : drag[id] + delta \in Places
                  /\ \/ revisions < MaxRevisions /\ CommitUi(Dropped(delta))
                     \/ Dropped(delta) = ui /\ UNCHANGED <<history, revisions>>
           /\ drag' = NoDrag

CancelDrag == drag # NoDrag /\ drag' = NoDrag /\ UNCHANGED <<history, revisions>>

Pointer == AddPart \/ ChooseNet \/ Arrange \/ DrawWire

\* A reload, the other side of a conflict, or recovered work.
LoadDocument == \E doc \in Opened : Adopts(doc) /\ UNCHANGED <<drag, revisions>>

EditorNext ==
    \/ revisions < MaxRevisions /\ Keys /\ UNCHANGED drag
    \/ revisions < MaxRevisions /\ drag = NoDrag /\ Pointer /\ UNCHANGED drag
    \/ UndoKey \/ RedoKey \/ BeginDrag \/ EndDrag \/ CancelDrag \/ LoadDocument

EditorSpec == EditorInit /\ [][EditorNext]_editorVars

-----------------------------------------------------------------------------

DocumentOK(doc) ==
    /\ CircuitOK(doc.circuit)
    /\ OnSheet(doc.ui)
    /\ ~doc.ui.owned => DOMAIN doc.ui.wires = {}

\* Every snapshot is a document: the parts carry all their pins, every pin is
\* on a net of the design, and only an owned drawing has wires.
EditorTypeOK ==
    /\ DocumentOK(present)
    /\ \A k \in DOMAIN past : DocumentOK(past[k])
    /\ \A k \in DOMAIN future : DocumentOK(future[k])
    /\ Len(past) <= HistoryLimit
    /\ \A id \in DOMAIN drag : id \in Parts /\ drag[id] \in Places

\* The drawing states no connection the netlist does not have: whatever was
\* merged, split, moved, deleted, copied, undone or dropped, a stored wire names
\* a net of the design and ends only on terminals of that net.  The code:
\* syncDrawing, after every commit, and the drawings handed to commitUi.
WiresAgree == Agrees(circuit, ui.wires)

\* An edit of the netlist, done, undone or redone, moves no part and reroutes
\* no wire that stays: what is shown before and after it is in one place, the
\* drawing that was never stored included.  The code: commit freezes the
\* drawing of the circuit as it was before the edit.
EditsMoveNothing == [][
    circuit' # circuit /\ past' \o future' # <<>> =>
        LET was == shown.pos  is == ShownOf(present').pos
            wires == shown.wires  after == ShownOf(present').wires
        IN  /\ \A id \in PartsOf(circuit) \intersect PartsOf(circuit') : is[id] = was[id]
            /\ \A k \in DOMAIN wires \intersect DOMAIN after :
                   /\ after[k].head = wires[k].head
                   /\ after[k].tail = wires[k].tail]_editorVars

\* Deleting wires parts what they held together and nothing else: of two
\* terminals the drawing joined, those it still joins stay on one net and those
\* it no longer joins do not.  Ground and the supply are held by their symbols.
\* The code: planWireDeletion.
DeletionParts == [][
    ui.owned /\ revisions' # revisions /\ DOMAIN ui'.wires # DOMAIN ui.wires /\ DeleteWires =>
        LET left == [k \in DOMAIN ui'.wires |-> ui.wires[k]]
        IN  \A p \in {p \in DOMAIN circuit.net : circuit.net[p] \notin Rails} :
                Island(circuit, ui.pos, left, p) =
                    {q \in Island(circuit, ui.pos, ui.wires, p) :
                        circuit'.net[q] = circuit'.net[p]}]_editorVars
=============================================================================
