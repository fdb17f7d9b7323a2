---------------------------- MODULE CircuitProofs ----------------------------
(***************************************************************************)
(* Proofs about CircuitCheck, for any circuits and any criteria on them.   *)
(*                                                                         *)
(* A check takes three steps, and its invariant (CircuitInv) says little   *)
(* more than that each uses what the one before made.  What is proved is   *)
(* about what they make: the plan of the bridges and the output line are   *)
(* recursions over the nets and over the probes.  Each is unfolded once    *)
(* (PlanRecursion, LineRecursion), and Ascent carries a fact on its        *)
(* partial results from each position to the next: PlanOK for the plan,    *)
(* OneProbe for the line.                                                  *)
(*                                                                         *)
(* That a made-up node has a name of its own (FreshName) is the pigeonhole *)
(* principle: of more candidates than names in use one is left.  From it   *)
(* follow what meets in a node (NothingMerges), who drives it              *)
(* (LogicHasOneDriver), and which net a column belongs to (CriteriaAreBound*)
(* and WhatIsNamedIsAnswered).                                             *)
(***************************************************************************)
EXTENDS CircuitCheck, FiniteSetTheorems, SequenceTheorems, TLAPS

\* A step that names no prover is given a minute of each.
USE SMTT(60), ZenonT(60)

-----------------------------------------------------------------------------
(* Numbers and recursion.                                                  *)

\* A nonempty set of numbers has a least one.
LEMMA Least ==
  ASSUME NEW S \in SUBSET Nat, S # {}
  PROVE  \E i \in S : \A j \in S : i <= j
<1>1. \E x \in S : \A y \in S : ~(<<y, x>> \in OpToRel(<, Nat))
  BY NatLessThanWellFounded, WFMin
<1>2. \A x \in Nat, y \in Nat : y < x => <<y, x>> \in OpToRel(<, Nat)
  <2> TAKE x \in Nat, y \in Nat
  <2>1. HAVE y < x
  <2>2. <<y, x>> \in {ss \in Nat \X Nat : ss[1] < ss[2]}
    BY <2>1
  <2> QED  BY <2>2, ZenonT(60) DEF OpToRel
<1>3. PICK i \in S : \A y \in S : ~(<<y, i>> \in OpToRel(<, Nat))
  BY <1>1
<1>4. \A j \in S : ~(j < i)
  BY <1>2, <1>3
<1> QED  BY <1>4

\* A set with 0 and with the successor of each of its members up to n has all of
\* 0 .. n: induction without an operator for a parameter.
LEMMA Ascent ==
  ASSUME NEW n \in Nat, NEW S, 0 \in S, \A k \in 1 .. n : k - 1 \in S => k \in S
  PROVE  \A k \in 0 .. n : k \in S
<1> DEFINE Missed == {k \in 0 .. n : k \notin S}
<1> SUFFICES ASSUME Missed # {} PROVE FALSE
  OBVIOUS
<1>0. Missed \in SUBSET Nat
  OBVIOUS
<1>1. PICK i \in Missed : \A j \in Missed : i <= j
  BY <1>0, Least
<1>2. i # 0 /\ i \in 1 .. n
  OBVIOUS
<1>3. i - 1 \notin Missed /\ i - 1 \in 0 .. n
  BY <1>1, <1>2
<1> QED  BY <1>2, <1>3

LEMMA MinIn ==
  ASSUME NEW S \in SUBSET Nat, S # {}
  PROVE  Min(S) \in S /\ \A j \in S : Min(S) <= j
<1>1. \E i \in S : \A j \in S : i =< j
  BY Least
<1> QED  BY <1>1 DEF Min

LEMMA MaxIn ==
  ASSUME NEW n \in Nat, NEW S \in SUBSET (0 .. n), S # {}
  PROVE  Max(S) \in S /\ \A j \in S : Max(S) >= j
<1> DEFINE Above == {k \in Nat : \A j \in S : k >= j}
<1>1. n \in Above
  OBVIOUS
<1>2. PICK m \in Above : \A k \in Above : m <= k
  BY <1>1, Least
<1>3. m \in S
  <2> SUFFICES ASSUME m \notin S PROVE FALSE
    OBVIOUS
  <2>1. \A j \in S : m > j
    BY <1>2
  <2>2. m \in Nat /\ S \subseteq Nat
    OBVIOUS
  <2> PICK i \in S : TRUE
    OBVIOUS
  <2>3. i \in Nat /\ m > i
    BY <2>1, <2>2
  <2>4. m - 1 \in Nat /\ \A j \in S : m - 1 >= j
    BY <2>1, <2>2, <2>3
  <2>5. m - 1 \in Above
    BY <2>4
  <2> QED  BY <1>2, <2>2, <2>5
<1>4. \E i \in S : \A j \in S : i >= j
  BY <1>2, <1>3
<1> QED  BY <1>4 DEF Max

-----------------------------------------------------------------------------
(* Circuits.                                                               *)

LEMMA NetFacts ==
  ASSUME NEW c \in Circuits
  PROVE  /\ Len(c.nets) \in Nat
         /\ DOMAIN c.nets = 1 .. Len(c.nets)
         /\ \A k \in DOMAIN c.nets : c.nets[k].id \in NetIds(c) /\ NetOf(c, c.nets[k].id) = c.nets[k]
         /\ \A j, k \in DOMAIN c.nets : c.nets[j].id = c.nets[k].id => j = k
         /\ \A id \in NetIds(c) : \E k \in DOMAIN c.nets : id = c.nets[k].id
<1>1. WellFormed(c)
  BY CircuitsAssumption
<1>2. Len(c.nets) \in Nat /\ DOMAIN c.nets = 1 .. Len(c.nets)
  BY <1>1, LenProperties DEF WellFormed
<1>3. \A j, k \in DOMAIN c.nets : c.nets[j].id = c.nets[k].id => j = k
  BY <1>1 DEF WellFormed
<1>4. ASSUME NEW k \in DOMAIN c.nets
      PROVE  NetOf(c, c.nets[k].id) = c.nets[k]
  <2> DEFINE N == {c.nets[j] : j \in DOMAIN c.nets}
  <2>1. c.nets[k] \in N /\ \A n \in N : n.id = c.nets[k].id => n = c.nets[k]
    BY <1>3
  <2> QED  BY <2>1 DEF NetOf
<1> QED  BY <1>2, <1>3, <1>4 DEF NetIds

\* The image of a finite set of pairs and of anything else is finite.
LEMMA PinsFinite ==
  ASSUME NEW c \in Circuits
  PROVE  IsFiniteSet(Pins(c))
<1>1. WellFormed(c)
  BY CircuitsAssumption
<1>2. Len(c.parts) \in Nat /\ DOMAIN c.parts = 1 .. Len(c.parts)
  BY <1>1, LenProperties DEF WellFormed
<1> DEFINE Upto(k) == UNION {{i} \X DOMAIN c.parts[i].pins : i \in 1 .. k}
           S == {k \in Nat : IsFiniteSet(Upto(k))}
<1>3. 0 \in S
  <2>1. Upto(0) = {}
    OBVIOUS
  <2> QED  BY <2>1, FS_EmptySet
<1>4. ASSUME NEW k \in 1 .. Len(c.parts), k - 1 \in S
      PROVE  k \in S
  <2>1. Upto(k) = Upto(k - 1) \cup ({k} \X DOMAIN c.parts[k].pins)
    <3>1. 1 .. k = (1 .. (k - 1)) \cup {k}
      OBVIOUS
    <3> QED  BY <3>1
  <2>2. IsFiniteSet(DOMAIN c.parts[k].pins)
    BY <1>1, <1>2 DEF WellFormed
  <2>3. IsFiniteSet({k} \X DOMAIN c.parts[k].pins)
    BY <2>2, FS_Singleton, FS_Product
  <2>4. IsFiniteSet(Upto(k - 1) \cup ({k} \X DOMAIN c.parts[k].pins))
    BY <2>3, <1>4, FS_Union
  <2>5. k \in Nat
    BY <1>2
  <2> QED  BY <2>1, <2>4, <2>5
<1>5. \A k \in 0 .. Len(c.parts) : k \in S
  <2> HIDE DEF S
  <2> QED  BY <1>2, <1>3, <1>4, Ascent
<1>6. Pins(c) = Upto(Len(c.parts))
  BY <1>2 DEF Pins
<1>7. IsFiniteSet(Upto(Len(c.parts)))
  <2> HIDE DEF Upto
  <2>1. Len(c.parts) \in S
    BY <1>2, <1>5
  <2> QED  BY <2>1
<1> QED  BY <1>6, <1>7

-----------------------------------------------------------------------------
(* Made-up nodes.                                                          *)

\* Among one more candidate than there are names in use, one is free.
LEMMA FreshName ==
  ASSUME NEW used, IsFiniteSet(used), NEW base,
         \A k \in 0 .. Cardinality(used) : \A j \in 0 .. k - 1 : Suffixed(base, j) # Suffixed(base, k)
  PROVE  /\ UniqueNode(base, used) \notin used
         /\ \E k \in 0 .. Cardinality(used) : UniqueNode(base, used) = Suffixed(base, k)
<1> DEFINE n == Cardinality(used)
           Free == {k \in 0 .. n : Suffixed(base, k) \notin used}
<1>1. n \in Nat
  BY FS_CardinalityType
<1>2. Free # {}
  <2> SUFFICES ASSUME Free = {} PROVE FALSE
    OBVIOUS
  <2> DEFINE f == [k \in 0 .. n |-> Suffixed(base, k)]
  <2>1. f \in [0 .. n -> used]
    OBVIOUS
  <2>2. IsFiniteSet(0 .. n) /\ Cardinality(0 .. n) = n + 1
    BY <1>1, FS_Interval
  <2>3. Cardinality(used) < Cardinality(0 .. n)
    BY <1>1, <2>2
  <2>4. PICK x \in 0 .. n, y \in 0 .. n : x # y /\ f[x] = f[y]
    <3> DEFINE I == 0 .. n
    <3>1. f \in [I -> used] /\ IsFiniteSet(I) /\ Cardinality(used) < Cardinality(I)
      BY <2>1, <2>2, <2>3
    <3>2. \E x, y \in I : x # y /\ f[x] = f[y]
      <4> HIDE DEF f, I, n, Free
      <4> QED  BY <3>1, FS_PigeonHole
    <3> QED  BY <3>2
  <2>5. Suffixed(base, x) = Suffixed(base, y)
    BY <2>4
  <2>6. x \in 0 .. y - 1 \/ y \in 0 .. x - 1
    BY <1>1, <2>4
  <2> QED  BY <2>5, <2>6
<1>3. Min(Free) \in Free
  <2>1. Free \in SUBSET Nat
    BY <1>1
  <2> QED  BY <1>2, <2>1, MinIn
<1>4. UniqueNode(base, used) = Suffixed(base, Min(Free))
  BY DEF UniqueNode
<1> QED  BY <1>3, <1>4

LEMMA FreshNode ==
  ASSUME NEW c \in Circuits, NEW base \in Bases(c),
         NEW used, IsFiniteSet(used), Cardinality(used) <= 2 * Len(c.nets) + 1
  PROVE  UniqueNode(base, used) \notin used \cup {"0"}
<1>1. Len(c.nets) \in Nat /\ Cardinality(used) \in Nat
  BY NetFacts, FS_CardinalityType
<1>2. \A k \in 0 .. 2 * Len(c.nets) + 1 :
         Suffixed(base, k) # "0" /\ \A j \in 0 .. k - 1 : Suffixed(base, j) # Suffixed(base, k)
  BY SpellingAssumption
<1>3. \A k \in 0 .. Cardinality(used) : k \in 0 .. 2 * Len(c.nets) + 1
  BY <1>1
<1>4. \A k \in 0 .. Cardinality(used) : \A j \in 0 .. k - 1 : Suffixed(base, j) # Suffixed(base, k)
  BY <1>2, <1>3
<1> QED  BY <1>2, <1>3, <1>4, FreshName

-----------------------------------------------------------------------------
(* The plan of the bridges.                                                *)

Nodes(c) == {BuildNodeMap(c)[id] : id \in NetIds(c)}

\* The nets that get a twin, those that get an event node, and those of these that
\* logic drives.
TwinIds(c) == {id \in NetIds(c) : SourcesOn(c, id) # {} /\ AnalogOn(c, id) = {}}

EventIds(c) ==
    {id \in NetIds(c) : SourcesOn(c, id) \cup SinksOn(c, id) # {} /\ AnalogOn(c, id) # {}}

Driven(c, ids) == {id \in ids : SourcesOn(c, id) # {}}

Fields == {"used", "twin", "event", "dac", "adc", "lowRail"}

\* The names that were made up are of no net, and no two of them are the same.
NamesOK(c, p) ==
    /\ \A id \in DOMAIN p.twin : p.twin[id] \in p.used \ (Nodes(c) \cup {"0"})
    /\ \A id \in DOMAIN p.event : p.event[id] \in p.used \ (Nodes(c) \cup {"0"})
    /\ \A i, j \in DOMAIN p.twin : p.twin[i] = p.twin[j] => i = j
    /\ \A i, j \in DOMAIN p.event : p.event[i] = p.event[j] => i = j
    /\ \A i \in DOMAIN p.twin, j \in DOMAIN p.event : p.twin[i] # p.event[j]

BridgesOK(c, p) ==
    /\ p.dac = {<<BuildNodeMap(c)[id], p.twin[id]>> : id \in DOMAIN p.twin}
                  \cup {<<p.event[id], BuildNodeMap(c)[id]>> : id \in Driven(c, DOMAIN p.event)}
    /\ p.adc = {<<BuildNodeMap(c)[id], p.event[id]>> :
                    id \in DOMAIN p.event \ Driven(c, DOMAIN p.event)}

\* What a plan is after the nets ids, m of them.
PlanOK(c, ids, m, p) ==
    /\ p = [f \in Fields |-> p[f]]
    /\ IsFiniteSet(p.used) /\ Cardinality(p.used) <= Len(c.nets) + m
    /\ Nodes(c) \subseteq p.used
    /\ DOMAIN p.twin = TwinIds(c) \cap ids
    /\ DOMAIN p.event = EventIds(c) \cap ids
    /\ NamesOK(c, p)
    /\ BridgesOK(c, p)
    /\ p.lowRail = {}

\* There are no more nodes than nets.
LEMMA NodesFinite ==
  ASSUME NEW c \in Circuits
  PROVE  IsFiniteSet(Nodes(c)) /\ Cardinality(Nodes(c)) <= Len(c.nets)
<1> DEFINE n == Len(c.nets)
           f == [k \in 1 .. n |-> BuildNodeMap(c)[c.nets[k].id]]
<1>1. n \in Nat /\ DOMAIN c.nets = 1 .. n
  BY NetFacts
<1>2. f \in [1 .. n -> Nodes(c)]
  BY <1>1, NetFacts DEF Nodes
<1>3. \A x \in Nodes(c) : \E k \in 1 .. n : f[k] = x
  BY <1>1, NetFacts DEF Nodes
<1>4. f \in Surjection(1 .. n, Nodes(c))
  <2> HIDE DEF f
  <2> QED  BY <1>2, <1>3 DEF Surjection
<1>5. IsFiniteSet(1 .. n) /\ Cardinality(1 .. n) = n
  BY <1>1, FS_Interval
<1> HIDE DEF f
<1>6. IsFiniteSet(Nodes(c)) /\ Cardinality(Nodes(c)) <= Cardinality(1 .. n)
  BY <1>4, <1>5, FS_Surjection
<1> QED  BY <1>5, <1>6

LEMMA EmptyPlanOK ==
  ASSUME NEW c \in Circuits
  PROVE  PlanOK(c, {}, 0, EmptyPlan(c, BuildNodeMap(c)))
<1> DEFINE p == EmptyPlan(c, BuildNodeMap(c))
<1>1. /\ p.used = Nodes(c)
      /\ p.twin = <<>> /\ DOMAIN p.twin = {}
      /\ p.event = <<>> /\ DOMAIN p.event = {}
      /\ p.dac = {} /\ p.adc = {} /\ p.lowRail = {}
  BY DEF EmptyPlan, Nodes
<1>2. p = [f \in Fields |-> p[f]]
  BY DEF EmptyPlan, Fields
<1>3. Len(c.nets) \in Nat
  BY NetFacts
<1> HIDE DEF p
<1>4. NamesOK(c, p)
  BY <1>1 DEF NamesOK
<1>5. BridgesOK(c, p)
  BY <1>1 DEF BridgesOK, Driven
<1>6. IsFiniteSet(p.used) /\ Cardinality(p.used) <= Len(c.nets) + 0
  BY <1>1, <1>3, NodesFinite, FS_CardinalityType
<1>7. PlanOK(c, {}, 0, p)
  BY <1>1, <1>2, <1>4, <1>5, <1>6 DEF PlanOK
<1> QED  BY <1>7 DEF p

LEMMA BasesOfNets ==
  ASSUME NEW c \in Circuits, NEW id \in NetIds(c)
  PROVE  BuildNodeMap(c)[id] \o "_p" \in Bases(c) /\ BuildNodeMap(c)[id] \o "_d" \in Bases(c)
<1>1. BuildNodeMap(c)[id] \in Range(BuildNodeMap(c))
  BY DEF BuildNodeMap, Range
<1> QED  BY <1>1 DEF Bases

\* One more net.  A logic net that is driven gets a twin ...
LEMMA TwinMade ==
  ASSUME NEW c \in Circuits, NEW ids, NEW m \in Nat, m <= Len(c.nets), NEW p, PlanOK(c, ids, m, p),
         NEW id \in TwinIds(c) \ ids
  PROVE  PlanOK(c, ids \cup {id}, m + 1, PlanNet(c, BuildNodeMap(c), p, id))
<1> DEFINE node == BuildNodeMap(c)[id]
           x == UniqueNode(node \o "_p", p.used)
           q == PlanNet(c, BuildNodeMap(c), p, id)
<1>1. /\ id \in NetIds(c) /\ id \notin EventIds(c)
      /\ SourcesOn(c, id) \cup SinksOn(c, id) # {} /\ AnalogOn(c, id) = {} /\ SourcesOn(c, id) # {}
  BY DEF TwinIds, EventIds
<1>0. p = [f \in Fields |-> p[f]]
  BY DEF PlanOK
<1>2. /\ IsFiniteSet(p.used) /\ Cardinality(p.used) <= Len(c.nets) + m
      /\ Nodes(c) \subseteq p.used
      /\ DOMAIN p.twin = TwinIds(c) \cap ids
      /\ DOMAIN p.event = EventIds(c) \cap ids
      /\ NamesOK(c, p) /\ BridgesOK(c, p) /\ p.lowRail = {}
  BY DEF PlanOK
<1>3. Len(c.nets) \in Nat /\ Cardinality(p.used) \in Nat
  BY <1>2, NetFacts, FS_CardinalityType
<1>4. x \notin p.used \cup {"0"}
  BY <1>1, <1>2, <1>3, BasesOfNets, FreshNode
<1>5. q = [p EXCEPT !.used = @ \cup {x}, !.twin = MapSet(@, id, x), !.dac = @ \cup {<<node, x>>}]
  BY <1>1 DEF PlanNet
<1> HIDE DEF x, q
<1>14. q = [f \in Fields |-> q[f]]
  BY <1>0, <1>5 DEF Fields
<1>6. /\ q.used = p.used \cup {x} /\ q.twin = MapSet(p.twin, id, x)
      /\ q.event = p.event /\ q.dac = p.dac \cup {<<node, x>>}
      /\ q.adc = p.adc /\ q.lowRail = p.lowRail
  BY <1>0, <1>5 DEF Fields
<1>7. /\ DOMAIN q.twin = DOMAIN p.twin \cup {id} /\ q.twin[id] = x
      /\ \A i \in DOMAIN p.twin : i # id /\ q.twin[i] = p.twin[i]
  BY <1>2, <1>6 DEF MapSet
<1>8. IsFiniteSet(q.used) /\ Cardinality(q.used) <= Len(c.nets) + (m + 1)
  <2>1. IsFiniteSet(p.used \cup {x}) /\ Cardinality(p.used \cup {x}) = Cardinality(p.used) + 1
    <3>1. IsFiniteSet(p.used)
      BY <1>2
    <3>2. x \notin p.used
      BY <1>4
    <3> QED  BY <3>1, <3>2, FS_AddElement
  <2>2. Cardinality(p.used) + 1 <= Len(c.nets) + (m + 1)
    <3>1. \A i, j, k \in Nat : i <= j + k => i + 1 <= j + (k + 1)
      OBVIOUS
    <3>2. Cardinality(p.used) <= Len(c.nets) + m
      BY <1>2
    <3> QED  BY <1>3, <3>1, <3>2
  <2>3. q.used = p.used \cup {x}
    BY <1>6
  <2> QED  BY <2>1, <2>2, <2>3
<1>9. NamesOK(c, q)
  BY <1>2, <1>4, <1>6, <1>7 DEF NamesOK
<1>10. BridgesOK(c, q)
  <2> DEFINE old == {<<BuildNodeMap(c)[i], p.twin[i]>> : i \in DOMAIN p.twin}
  <2>1. {<<BuildNodeMap(c)[i], q.twin[i]>> : i \in DOMAIN q.twin} = old \cup {<<node, x>>}
    BY <1>7
  <2>2. BridgesOK(c, p)
    BY <1>2
  <2>3. q.event = p.event /\ q.adc = p.adc /\ q.dac = p.dac \cup {<<node, x>>}
    BY <1>6
  <2>4. q.dac = (old \cup {<<node, x>>}) \cup
           {<<q.event[i], BuildNodeMap(c)[i]>> : i \in Driven(c, DOMAIN q.event)}
    BY <2>2, <2>3 DEF BridgesOK
  <2>5. q.adc = {<<BuildNodeMap(c)[i], q.event[i]>> : i \in DOMAIN q.event \ Driven(c, DOMAIN q.event)}
    BY <2>2, <2>3 DEF BridgesOK
  <2> QED  BY <2>1, <2>4, <2>5 DEF BridgesOK
<1>11. DOMAIN q.twin = TwinIds(c) \cap (ids \cup {id})
  BY <1>2, <1>7
<1>12. DOMAIN q.event = EventIds(c) \cap (ids \cup {id})
  BY <1>1, <1>2, <1>6
<1>13. PlanOK(c, ids \cup {id}, m + 1, q)
  BY <1>2, <1>14, <1>6, <1>8, <1>9, <1>10, <1>11, <1>12 DEF PlanOK
<1> QED  BY <1>13 DEF q

\* ... a net of both kinds an event node ...
LEMMA EventMade ==
  ASSUME NEW c \in Circuits, NEW ids, NEW m \in Nat, m <= Len(c.nets), NEW p, PlanOK(c, ids, m, p),
         NEW id \in EventIds(c) \ ids
  PROVE  PlanOK(c, ids \cup {id}, m + 1, PlanNet(c, BuildNodeMap(c), p, id))
<1> DEFINE node == BuildNodeMap(c)[id]
           x == UniqueNode(node \o "_d", p.used)
           q == PlanNet(c, BuildNodeMap(c), p, id)
           driven == SourcesOn(c, id) # {}
<1>1. /\ id \in NetIds(c) /\ id \notin TwinIds(c)
      /\ SourcesOn(c, id) \cup SinksOn(c, id) # {} /\ AnalogOn(c, id) # {}
  BY DEF TwinIds, EventIds
<1>0. p = [f \in Fields |-> p[f]]
  BY DEF PlanOK
<1>2. /\ IsFiniteSet(p.used) /\ Cardinality(p.used) <= Len(c.nets) + m
      /\ Nodes(c) \subseteq p.used
      /\ DOMAIN p.twin = TwinIds(c) \cap ids
      /\ DOMAIN p.event = EventIds(c) \cap ids
      /\ NamesOK(c, p) /\ BridgesOK(c, p) /\ p.lowRail = {}
  BY DEF PlanOK
<1>3. Len(c.nets) \in Nat /\ Cardinality(p.used) \in Nat
  BY <1>2, NetFacts, FS_CardinalityType
<1>4. x \notin p.used \cup {"0"}
  BY <1>1, <1>2, <1>3, BasesOfNets, FreshNode
<1>5. q = [p EXCEPT !.used = @ \cup {x}, !.event = MapSet(@, id, x),
                    !.dac = IF driven THEN @ \cup {<<x, node>>} ELSE @,
                    !.adc = IF driven THEN @ ELSE @ \cup {<<node, x>>}]
  BY <1>1 DEF PlanNet
<1> HIDE DEF x, q
<1>14. q = [f \in Fields |-> q[f]]
  BY <1>0, <1>5 DEF Fields
<1>6. /\ q.used = p.used \cup {x} /\ q.event = MapSet(p.event, id, x)
      /\ q.twin = p.twin /\ q.dac = IF driven THEN p.dac \cup {<<x, node>>} ELSE p.dac
      /\ q.adc = IF driven THEN p.adc ELSE p.adc \cup {<<node, x>>}
      /\ q.lowRail = p.lowRail
  BY <1>0, <1>5 DEF Fields
<1>7. /\ DOMAIN q.event = DOMAIN p.event \cup {id} /\ q.event[id] = x
      /\ \A i \in DOMAIN p.event : i # id /\ q.event[i] = p.event[i]
  BY <1>2, <1>6 DEF MapSet
<1>8. IsFiniteSet(q.used) /\ Cardinality(q.used) <= Len(c.nets) + (m + 1)
  <2>1. IsFiniteSet(p.used \cup {x}) /\ Cardinality(p.used \cup {x}) = Cardinality(p.used) + 1
    <3>1. IsFiniteSet(p.used)
      BY <1>2
    <3>2. x \notin p.used
      BY <1>4
    <3> QED  BY <3>1, <3>2, FS_AddElement
  <2>2. Cardinality(p.used) + 1 <= Len(c.nets) + (m + 1)
    <3>1. \A i, j, k \in Nat : i <= j + k => i + 1 <= j + (k + 1)
      OBVIOUS
    <3>2. Cardinality(p.used) <= Len(c.nets) + m
      BY <1>2
    <3> QED  BY <1>3, <3>1, <3>2
  <2>3. q.used = p.used \cup {x}
    BY <1>6
  <2> QED  BY <2>1, <2>2, <2>3
<1>9. NamesOK(c, q)
  BY <1>2, <1>4, <1>6, <1>7 DEF NamesOK
<1>10. BridgesOK(c, q)
  <2>1. Driven(c, DOMAIN q.event) = IF driven THEN Driven(c, DOMAIN p.event) \cup {id}
                                    ELSE Driven(c, DOMAIN p.event)
    BY <1>7 DEF Driven
  <2>2. DOMAIN q.event \ Driven(c, DOMAIN q.event) =
           IF driven THEN DOMAIN p.event \ Driven(c, DOMAIN p.event)
           ELSE (DOMAIN p.event \ Driven(c, DOMAIN p.event)) \cup {id}
    BY <1>7 DEF Driven
  <2>3. Driven(c, DOMAIN p.event) \subseteq DOMAIN p.event
    BY DEF Driven
  <2>4. {<<q.event[i], BuildNodeMap(c)[i]>> : i \in Driven(c, DOMAIN q.event)} =
           {<<p.event[i], BuildNodeMap(c)[i]>> : i \in Driven(c, DOMAIN p.event)}
              \cup IF driven THEN {<<x, node>>} ELSE {}
    BY <1>7, <2>1, <2>3
  <2>5. {<<BuildNodeMap(c)[i], q.event[i]>> : i \in DOMAIN q.event \ Driven(c, DOMAIN q.event)} =
           {<<BuildNodeMap(c)[i], p.event[i]>> : i \in DOMAIN p.event \ Driven(c, DOMAIN p.event)}
              \cup IF driven THEN {} ELSE {<<node, x>>}
    BY <1>7, <2>2, <2>3
  <2>6. BridgesOK(c, p)
    BY <1>2
  <2>7. /\ q.twin = p.twin
        /\ q.dac = p.dac \cup IF driven THEN {<<x, node>>} ELSE {}
        /\ q.adc = p.adc \cup IF driven THEN {} ELSE {<<node, x>>}
    BY <1>6
  <2>8. q.dac = {<<BuildNodeMap(c)[i], q.twin[i]>> : i \in DOMAIN q.twin}
                   \cup {<<q.event[i], BuildNodeMap(c)[i]>> : i \in Driven(c, DOMAIN q.event)}
    <3>1. p.dac = {<<BuildNodeMap(c)[i], q.twin[i]>> : i \in DOMAIN q.twin}
                   \cup {<<p.event[i], BuildNodeMap(c)[i]>> : i \in Driven(c, DOMAIN p.event)}
      BY <2>6, <2>7 DEF BridgesOK
    <3> QED  BY <3>1, <2>4, <2>7
  <2>9. q.adc = {<<BuildNodeMap(c)[i], q.event[i]>> : i \in DOMAIN q.event \ Driven(c, DOMAIN q.event)}
    <3>1. p.adc = {<<BuildNodeMap(c)[i], p.event[i]>> : i \in DOMAIN p.event \ Driven(c, DOMAIN p.event)}
      BY <2>6 DEF BridgesOK
    <3> QED  BY <3>1, <2>5, <2>7
  <2> QED  BY <2>8, <2>9 DEF BridgesOK
<1>11. DOMAIN q.event = EventIds(c) \cap (ids \cup {id})
  BY <1>2, <1>7
<1>12. DOMAIN q.twin = TwinIds(c) \cap (ids \cup {id})
  BY <1>1, <1>2, <1>6
<1>13. PlanOK(c, ids \cup {id}, m + 1, q)
  BY <1>2, <1>14, <1>6, <1>8, <1>9, <1>10, <1>11, <1>12 DEF PlanOK
<1> QED  BY <1>13 DEF q

\* ... and any other net nothing.
LEMMA NothingMade ==
  ASSUME NEW c \in Circuits, NEW ids, NEW m \in Nat, NEW p, PlanOK(c, ids, m, p),
         NEW id \in NetIds(c) \ (TwinIds(c) \cup EventIds(c))
  PROVE  PlanOK(c, ids \cup {id}, m + 1, PlanNet(c, BuildNodeMap(c), p, id))
<1>1. PlanNet(c, BuildNodeMap(c), p, id) = p
  BY DEF PlanNet, TwinIds, EventIds
<1>2. /\ TwinIds(c) \cap (ids \cup {id}) = TwinIds(c) \cap ids
      /\ EventIds(c) \cap (ids \cup {id}) = EventIds(c) \cap ids
  OBVIOUS
<1>3. Cardinality(p.used) \in Nat /\ Len(c.nets) \in Nat
  BY NetFacts, FS_CardinalityType DEF PlanOK
<1>4. Cardinality(p.used) <= Len(c.nets) + (m + 1)
  BY <1>3 DEF PlanOK
<1> QED  BY <1>1, <1>2, <1>4 DEF PlanOK

\* The recursion over the nets is well defined, ...
LEMMA PlanRecursion ==
  ASSUME NEW c \in Circuits, NEW node
  PROVE  \E f : /\ f = [k \in 0 .. Len(c.nets) |->
                           IF k = 0 THEN EmptyPlan(c, node) ELSE PlanNet(c, node, f[k - 1], c.nets[k].id)]
                /\ PlanNets(c, node) = f[Len(c.nets)]
<1> DEFINE n == Len(c.nets)
           Recursive(f, m) == f = [k \in 0 .. m |->
                                     IF k = 0 THEN EmptyPlan(c, node)
                                     ELSE PlanNet(c, node, f[k - 1], c.nets[k].id)]
           S == {m \in 0 .. n : \E f : Recursive(f, m)}
<1>1. n \in Nat
  BY NetFacts
<1>2. 0 \in S
  <2>1. Recursive([k \in 0 .. 0 |-> EmptyPlan(c, node)], 0)
    OBVIOUS
  <2>2. 0 \in 0 .. n
    BY <1>1
  <2> HIDE DEF Recursive
  <2> QED  BY <2>1, <2>2
<1>3. ASSUME NEW m \in 1 .. n, m - 1 \in S
      PROVE  m \in S
  <2>1. PICK f : Recursive(f, m - 1)
    BY <1>3
  <2> DEFINE g == [k \in 0 .. m |-> IF k = m THEN PlanNet(c, node, f[m - 1], c.nets[m].id) ELSE f[k]]
  <2>2. \A k \in 0 .. m - 1 :
          f[k] = IF k = 0 THEN EmptyPlan(c, node) ELSE PlanNet(c, node, f[k - 1], c.nets[k].id)
    BY <2>1
  <2>3. \A k \in 0 .. m : g[k] = IF k = m THEN PlanNet(c, node, f[m - 1], c.nets[m].id) ELSE f[k]
    OBVIOUS
  <2> HIDE DEF g
  <2>4. ASSUME NEW k \in 0 .. m
        PROVE  g[k] = IF k = 0 THEN EmptyPlan(c, node) ELSE PlanNet(c, node, g[k - 1], c.nets[k].id)
    <3>1. CASE k = 0
      BY <3>1, <2>2, <2>3
    <3>2. CASE k # 0 /\ k # m
      <4>1. k - 1 \in 0 .. m /\ k - 1 # m /\ k \in 0 .. m - 1
        BY <3>2
      <4> QED  BY <3>2, <4>1, <2>2, <2>3
    <3>3. CASE k = m
      <4>1. k - 1 \in 0 .. m /\ k - 1 # m /\ k # 0
        BY <3>3
      <4> QED  BY <3>3, <4>1, <2>3
    <3> QED  BY <3>1, <3>2, <3>3
  <2>5. Recursive(g, m)
    <3>1. g = [k \in 0 .. m |-> g[k]]
      BY DEF g
    <3> QED  BY <2>4, <3>1
  <2> QED  BY <2>5
<1>4. \E f : Recursive(f, n)
  <2>1. n \in 0 .. n
    BY <1>1
  <2>2. n \in S
    <3> HIDE DEF S, n
    <3>1. \A k \in 0 .. n : k \in S
      BY <1>1, <1>2, <1>3, Ascent
    <3> QED  BY <2>1, <3>1
  <2> QED  BY <2>2
<1> DEFINE planned == CHOOSE f : Recursive(f, n)
<1>5. Recursive(planned, n)
  BY <1>4
<1>6. PlanNets(c, node) = planned[n]
  BY DEF PlanNets
<1> QED  BY <1>5, <1>6

\* ... so what each step keeps holds of the plan of all nets.
LEMMA PlanOfNets ==
  ASSUME NEW c \in Circuits
  PROVE  PlanOK(c, NetIds(c), Len(c.nets), PlanNets(c, BuildNodeMap(c)))
<1> DEFINE node == BuildNodeMap(c)
           n == Len(c.nets)
           Ids(k) == {c.nets[j].id : j \in 1 .. k}
<1>1. PICK f : /\ f = [k \in 0 .. n |-> IF k = 0 THEN EmptyPlan(c, node)
                                       ELSE PlanNet(c, node, f[k - 1], c.nets[k].id)]
               /\ PlanNets(c, node) = f[n]
  BY PlanRecursion
<1>2. n \in Nat /\ DOMAIN c.nets = 1 .. n
  BY NetFacts
<1> DEFINE S == {k \in 0 .. n : PlanOK(c, Ids(k), k, f[k])}
<1>3. 0 \in S
  <2>1. f[0] = EmptyPlan(c, node) /\ Ids(0) = {} /\ 0 \in 0 .. n
    BY <1>1, <1>2
  <2> QED  BY <2>1, EmptyPlanOK
<1>4. ASSUME NEW k \in 1 .. n, k - 1 \in S
      PROVE  k \in S
  <2> DEFINE id == c.nets[k].id
             m == k - 1
  <2>1. f[k] = PlanNet(c, node, f[m], id)
    <3>1. k \in 0 .. n /\ k # 0
      OBVIOUS
    <3>2. \A j \in 0 .. n : f[j] = IF j = 0 THEN EmptyPlan(c, node)
                                    ELSE PlanNet(c, node, f[j - 1], c.nets[j].id)
      <4> HIDE DEF n
      <4> QED  BY <1>1, ZenonT(60)
    <3> QED  BY <3>1, <3>2
  <2>2. m \in Nat /\ m <= n /\ m + 1 = k /\ k \in 0 .. n /\ PlanOK(c, Ids(m), m, f[m])
    BY <1>2, <1>4
  <2>3. Ids(k) = Ids(m) \cup {id}
    <3>1. 1 .. k = (1 .. m) \cup {k}
      OBVIOUS
    <3> QED  BY <3>1
  <2>4. id \notin Ids(m)
    <3>1. k \in DOMAIN c.nets /\ \A j \in 1 .. m : j \in DOMAIN c.nets /\ j # k
      BY <1>2
    <3> QED  BY <3>1, NetFacts
  <2>5. id \in NetIds(c)
    BY <1>2, NetFacts
  <2> HIDE DEF id, m, Ids, node
  <2>6. PlanOK(c, Ids(m) \cup {id}, m + 1, PlanNet(c, BuildNodeMap(c), f[m], id))
    <3>1. CASE id \in TwinIds(c)
      BY <3>1, <2>2, <2>4, TwinMade DEF n
    <3>2. CASE id \in EventIds(c)
      BY <3>2, <2>2, <2>4, EventMade DEF n
    <3>3. CASE id \notin TwinIds(c) \cup EventIds(c)
      BY <3>3, <2>2, <2>5, NothingMade
    <3> QED  BY <3>1, <3>2, <3>3
  <2> QED  BY <2>1, <2>2, <2>3, <2>6 DEF node
<1>5. n \in S
  <2>1. n \in 0 .. n
    BY <1>2
  <2> HIDE DEF S
  <2> QED  BY <1>2, <1>3, <1>4, <2>1, Ascent
<1>6. Ids(n) = NetIds(c)
  BY <1>2 DEF NetIds
<1> QED  BY <1>1, <1>5, <1>6

-----------------------------------------------------------------------------
(* The deck.                                                               *)

\* What every deck is, in the terms of the circuit alone.
DeckOK(c, d) ==
    /\ d.node = BuildNodeMap(c)
    /\ DOMAIN d.twin = TwinIds(c)
    /\ DOMAIN d.event = EventIds(c)
    /\ \A id \in DOMAIN d.twin : d.twin[id] \notin Nodes(c) \cup {"0"}
    /\ \A id \in DOMAIN d.event : d.event[id] \notin Nodes(c) \cup {"0"}
    /\ \A i, j \in DOMAIN d.twin : d.twin[i] = d.twin[j] => i = j
    /\ \A i, j \in DOMAIN d.event : d.event[i] = d.event[j] => i = j
    /\ \A i \in DOMAIN d.twin, j \in DOMAIN d.event : d.twin[i] # d.event[j]
    /\ d.dac = {<<d.node[id], d.twin[id]>> : id \in DOMAIN d.twin}
                  \cup {<<d.event[id], d.node[id]>> : id \in Driven(c, DOMAIN d.event)}

\* The bridges to logic: one for every event node that analog drives, and for the rail.
RailOK(c, d) ==
    LET nets == {<<d.node[id], d.event[id]>> : id \in DOMAIN d.event \ Driven(c, DOMAIN d.event)}
    IN  IF NeedsLowRail(c)
        THEN \E analog, rail :
                /\ d.lowRail = {rail}
                /\ d.adc = nets \cup {<<analog, rail>>}
                /\ {analog, rail} \cap
                      (Nodes(c) \cup {"0"} \cup {d.twin[id] : id \in DOMAIN d.twin}
                                \cup {d.event[id] : id \in DOMAIN d.event}) = {}
        ELSE d.lowRail = {} /\ d.adc = nets

LEMMA DeckFacts ==
  ASSUME NEW c \in Circuits
  PROVE  DeckOK(c, Deck(c)) /\ RailOK(c, Deck(c))
<1> DEFINE node == BuildNodeMap(c)
           n == Len(c.nets)
           p == PlanNets(c, node)
           q == PlanMixedSignal(c, node)
           analog == UniqueNode("dlogic_lo_a", p.used)
           rail == UniqueNode("dlogic_lo", p.used \cup {analog})
           d == Deck(c)
<1>1. PlanOK(c, NetIds(c), n, p)
  BY PlanOfNets
<1>2. d = [node |-> node, twin |-> q.twin, event |-> q.event,
           dac |-> q.dac, adc |-> q.adc, lowRail |-> q.lowRail]
  BY DEF Deck, DeckOf
<1>3. q = IF ~NeedsLowRail(c) THEN p
          ELSE [p EXCEPT !.used = @ \cup {analog, rail}, !.adc = @ \cup {<<analog, rail>>},
                         !.lowRail = {rail}]
  BY DEF PlanMixedSignal, WithLowRail, WithRail
<1> HIDE DEF d, q, p, analog, rail
<1>4. /\ d.node = node /\ d.twin = q.twin /\ d.event = q.event
      /\ d.dac = q.dac /\ d.adc = q.adc /\ d.lowRail = q.lowRail
  BY <1>2
<1>5. p = [f \in Fields |-> p[f]]
  BY <1>1 DEF PlanOK
<1>6. /\ q.twin = p.twin /\ q.event = p.event /\ q.dac = p.dac
      /\ q.adc = IF NeedsLowRail(c) THEN p.adc \cup {<<analog, rail>>} ELSE p.adc
      /\ q.lowRail = IF NeedsLowRail(c) THEN {rail} ELSE p.lowRail
  BY <1>3, <1>5 DEF Fields
<1>7. /\ IsFiniteSet(p.used) /\ Cardinality(p.used) <= n + n
      /\ Nodes(c) \subseteq p.used
      /\ DOMAIN p.twin = TwinIds(c) \cap NetIds(c)
      /\ DOMAIN p.event = EventIds(c) \cap NetIds(c)
      /\ NamesOK(c, p) /\ BridgesOK(c, p) /\ p.lowRail = {}
  BY <1>1 DEF PlanOK
<1>8. DeckOK(c, d)
  <2>1. TwinIds(c) \cap NetIds(c) = TwinIds(c) /\ EventIds(c) \cap NetIds(c) = EventIds(c)
    BY DEF TwinIds, EventIds
  <2>2. d.twin = p.twin /\ d.event = p.event /\ d.node = node /\ d.dac = p.dac
    BY <1>4, <1>6
  <2>3. /\ \A id \in DOMAIN d.twin : d.twin[id] \notin Nodes(c) \cup {"0"}
        /\ \A id \in DOMAIN d.event : d.event[id] \notin Nodes(c) \cup {"0"}
        /\ \A i, j \in DOMAIN d.twin : d.twin[i] = d.twin[j] => i = j
        /\ \A i, j \in DOMAIN d.event : d.event[i] = d.event[j] => i = j
        /\ \A i \in DOMAIN d.twin, j \in DOMAIN d.event : d.twin[i] # d.event[j]
    BY <1>7, <2>2 DEF NamesOK
  <2>4. d.dac = {<<d.node[id], d.twin[id]>> : id \in DOMAIN d.twin}
                  \cup {<<d.event[id], d.node[id]>> : id \in Driven(c, DOMAIN d.event)}
    BY <1>7, <2>2 DEF BridgesOK
  <2> QED  BY <1>7, <2>1, <2>2, <2>3, <2>4 DEF DeckOK
<1>9. RailOK(c, d)
  <2> DEFINE nets == {<<d.node[id], d.event[id]>> : id \in DOMAIN d.event \ Driven(c, DOMAIN d.event)}
  <2>1. p.adc = nets
    BY <1>4, <1>6, <1>7 DEF BridgesOK
  <2>2. n \in Nat /\ Cardinality(p.used) \in Nat
    BY <1>7, NetFacts, FS_CardinalityType
  <2>3. "dlogic_lo_a" \in Bases(c) /\ "dlogic_lo" \in Bases(c)
    BY DEF Bases
  <2>4. analog \notin p.used \cup {"0"}
    <3>1. Cardinality(p.used) <= 2 * n + 1
      BY <1>7, <2>2
    <3> QED  BY <1>7, <2>3, <3>1, FreshNode DEF analog
  <2>5. rail \notin (p.used \cup {analog}) \cup {"0"}
    <3>1. IsFiniteSet(p.used \cup {analog}) /\ Cardinality(p.used \cup {analog}) = Cardinality(p.used) + 1
      BY <1>7, <2>4, FS_AddElement
    <3>2. Cardinality(p.used \cup {analog}) <= 2 * n + 1
      <4>1. \A i, j \in Nat : i <= j + j => i + 1 <= 2 * j + 1
        OBVIOUS
      <4> HIDE DEF n
      <4>2. Cardinality(p.used) + 1 <= 2 * n + 1
        BY <1>7, <2>2, <4>1
      <4> QED  BY <3>1, <4>2
    <3> QED  BY <2>3, <3>1, <3>2, FreshNode DEF rail
  <2>6. {d.twin[id] : id \in DOMAIN d.twin} \cup {d.event[id] : id \in DOMAIN d.event} \subseteq p.used
    <3>1. d.twin = p.twin /\ d.event = p.event
      BY <1>4, <1>6
    <3> QED  BY <1>7, <3>1 DEF NamesOK
  <2>7. d.adc = IF NeedsLowRail(c) THEN nets \cup {<<analog, rail>>} ELSE nets
    BY <1>4, <1>6, <2>1
  <2>8. d.lowRail = IF NeedsLowRail(c) THEN {rail} ELSE {}
    BY <1>4, <1>6, <1>7
  <2> HIDE DEF nets
  <2>9. CASE NeedsLowRail(c)
    <3>1. {analog, rail} \cap
             (Nodes(c) \cup {"0"} \cup {d.twin[id] : id \in DOMAIN d.twin}
                       \cup {d.event[id] : id \in DOMAIN d.event}) = {}
      BY <1>7, <2>4, <2>5, <2>6
    <3> QED  BY <2>7, <2>8, <2>9, <3>1 DEF RailOK, nets
  <2>10. CASE ~NeedsLowRail(c)
    BY <2>7, <2>8, <2>10 DEF RailOK, nets
  <2> QED  BY <2>9, <2>10
<1> QED  BY <1>8, <1>9 DEF d

-----------------------------------------------------------------------------
(* The rules.                                                              *)

\* A circuit that passes the rule check breaks none of the rules used below.
LEMMA Passed ==
  ASSUME NEW c, Errors(c) = {}
  PROVE  /\ ~DigitalPinShape(c) /\ ~MissingValue(c) /\ ~DigitalBusContention(c)
         /\ ~MixedDriverConflict(c) /\ ~FloatingDigitalInput(c) /\ ~DuplicateDesignator(c)
<1>1. "DIGITAL_PIN_SHAPE" \notin Errors(c) /\ "MISSING_VALUE" \notin Errors(c)
      /\ "DIGITAL_BUS_CONTENTION" \notin Errors(c) /\ "MIXED_DRIVER_CONFLICT" \notin Errors(c)
      /\ "FLOATING_DIGITAL_INPUT" \notin Errors(c) /\ "DUPLICATE_DESIGNATOR" \notin Errors(c)
  OBVIOUS
<1> QED  BY <1>1 DEF Errors

-----------------------------------------------------------------------------
(* The check as a whole.                                                   *)

LineOf(c, service) == Columns(c, Deck(c), ExtraProbes(service, Criteria(c)))

\* Where a check stands: only a circuit that passed the rules and the refusals has a
\* deck, the deck and its line are those of this circuit, ngspice wrote that line or
\* nothing, and the verdict is the one on what it wrote.
CircuitInv ==
    /\ circuit \in Circuits /\ path \in {"verify", "design"} /\ ran \in BOOLEAN
    /\ stage \in {"drawn", "passed", "rejected", "refused", "built", "finished", "judged"}
    /\ stage \in {"passed", "built", "finished", "judged"} => Errors(circuit) = {}
    /\ stage \in {"drawn", "passed", "rejected", "refused"} => columns = <<>>
    /\ stage # "judged" => answers = <<>>
    /\ stage \in {"built", "finished", "judged"} =>
          /\ ~DeckRefusal(circuit)
          /\ deck = Deck(circuit)
          /\ columns = LineOf(circuit, path)
          /\ measured \in {columns, <<>>}
    /\ stage \in {"drawn", "passed", "built"} => measured = <<>>
    /\ stage = "judged" => answers = EvaluateAssertions(circuit, measured, ran)

\* Whatever order its steps take, a check never judges by the deck or the line of a
\* circuit it refused, nor by a line that is not the one the circuit and the service ask
\* for: the invariant of runErc, generateNetlist, the run and evaluateAssertions.
THEOREM CircuitInvariant == Spec => []CircuitInv
<1>1. Init => CircuitInv
  BY DEF Init, CircuitInv
<1>2. CircuitInv /\ [Next]_vars => CircuitInv'
  <2> SUFFICES ASSUME CircuitInv, [Next]_vars
               PROVE  CircuitInv'
    OBVIOUS
  <2>1. CASE RunErc
    BY <2>1 DEF CircuitInv, RunErc
  <2>2. CASE GenerateNetlist
    <3>1. CASE DeckRefusal(circuit) /\ stage' = "refused" /\ UNCHANGED <<deck, columns>>
      BY <2>2, <3>1 DEF CircuitInv, GenerateNetlist
    <3>2. CASE ~DeckRefusal(circuit)
      <4>1. /\ stage = "passed" /\ stage' = "built" /\ deck' = Deck(circuit)
            /\ columns' = LineOf(circuit, path)
            /\ UNCHANGED <<circuit, path, measured, ran, answers>>
        BY <2>2, <3>2 DEF GenerateNetlist, LineOf
      <4> QED  BY <3>2, <4>1 DEF CircuitInv
    <3> QED  BY <2>2, <3>1, <3>2 DEF GenerateNetlist
  <2>3. CASE Simulate
    <3>1. /\ stage = "built" /\ stage' = "finished" /\ measured' \in {columns, <<>>}
          /\ ran' \in BOOLEAN /\ UNCHANGED <<circuit, path, deck, columns, answers>>
      BY <2>3 DEF Simulate
    <3> QED  BY <3>1 DEF CircuitInv
  <2>4. CASE Judge
    <3>1. /\ stage = "finished" /\ stage' = "judged"
          /\ answers' = EvaluateAssertions(circuit, measured, ran)
          /\ UNCHANGED <<circuit, path, deck, columns, measured, ran>>
      BY <2>4 DEF Judge
    <3> QED  BY <3>1 DEF CircuitInv
  <2>5. CASE UNCHANGED vars
    BY <2>5 DEF CircuitInv, vars
  <2> QED  BY <2>1, <2>2, <2>3, <2>4, <2>5 DEF Next
<1> QED  BY <1>1, <1>2, PTL DEF Spec

-----------------------------------------------------------------------------
(* Who drives a node.                                                      *)

\* The pins of devices: the circuit declares their nets, and every logic pin is one of
\* them once the rules have passed.
LEMMA PinFacts ==
  ASSUME NEW c \in Circuits, ~NetNotFound(c), NEW pin \in EmittedPins(c)
  PROVE  /\ pin \in Pins(c) /\ pin \in Electrical(c)
         /\ NetAt(c, pin) \in NetIds(c)
         /\ TypeAt(c, pin) \in DigitalTypes =>
               pin \in SourcesOn(c, NetAt(c, pin)) \cup SinksOn(c, NetAt(c, pin))
         /\ TypeAt(c, pin) \notin DigitalTypes => pin \in AnalogOn(c, NetAt(c, pin))
<1>1. pin \in Pins(c) /\ pin[1] \in Emitted(c)
  BY DEF EmittedPins
<1>2. pin \in Electrical(c)
  BY <1>1 DEF Electrical, Emitted, TypeAt
<1>3. pin \in PinsOn(c, NetAt(c, pin))
  BY <1>1 DEF PinsOn
<1>4. NetAt(c, pin) \in NetIds(c)
  BY DEF NetNotFound
<1> QED  BY <1>1, <1>2, <1>3, <1>4 DEF SourcesOn, SinksOn, AnalogOn

LEMMA LogicIsEmitted ==
  ASSUME NEW c \in Circuits, ~DigitalPinShape(c), NEW id,
         NEW pin \in SourcesOn(c, id) \cup SinksOn(c, id)
  PROVE  pin \in EmittedPins(c) /\ NetAt(c, pin) = id /\ TypeAt(c, pin) \in DigitalTypes
<1>1. /\ pin \in Pins(c) /\ NetAt(c, pin) = id /\ TypeAt(c, pin) \in DigitalTypes
      /\ pin \in Electrical(c)
  BY DEF SourcesOn, SinksOn, PinsOn, IsSourcePin
<1>2. pin[1] \in DOMAIN c.parts
  BY <1>1 DEF Pins
<1>3. c.parts[pin[1]].type \in DigitalTypes
  BY <1>1 DEF TypeAt
<1>4. RequiredPins(c.parts[pin[1]].type) \subseteq DOMAIN c.parts[pin[1]].pins
  BY <1>2, <1>3 DEF DigitalPinShape
<1>5. c.parts[pin[1]].type \notin {"ground", "generic", "vcvs"}
  BY <1>3 DEF DigitalTypes, LogicGates, SequentialTypes
<1> QED  BY <1>1, <1>2, <1>4, <1>5 DEF EmittedPins, Emitted

\* A pin is at the node of its net, a logic pin of a net of both kinds at the event node.
LEMMA WhereAPinIs ==
  ASSUME NEW c \in Circuits, ~NetNotFound(c), NEW pin \in EmittedPins(c)
  PROVE  LET d == Deck(c)
             id == NetAt(c, pin)
             node == NodeAt(c, d, pin)
         IN  /\ TypeAt(c, pin) \in DigitalTypes /\ id \in EventIds(c) =>
                   node = d.event[id] /\ node \notin Nodes(c) \cup {"0"}
             /\ ~(TypeAt(c, pin) \in DigitalTypes /\ id \in EventIds(c)) =>
                   node = d.node[id] /\ node \in Nodes(c)
<1> DEFINE d == Deck(c)
           id == NetAt(c, pin)
<1>1. DOMAIN d.event = EventIds(c) /\ d.node = BuildNodeMap(c)
      /\ \A i \in EventIds(c) : d.event[i] \notin Nodes(c) \cup {"0"}
  BY DeckFacts DEF DeckOK
<1>2. id \in NetIds(c)
  BY PinFacts
<1>3. BuildNodeMap(c)[id] \in Nodes(c)
  BY <1>2 DEF Nodes
<1> HIDE DEF d
<1>4. /\ TypeAt(c, pin) \in DigitalTypes /\ id \in EventIds(c) =>
            NodeAt(c, d, pin) = d.event[id]
      /\ ~(TypeAt(c, pin) \in DigitalTypes /\ id \in EventIds(c)) =>
            NodeAt(c, d, pin) = d.node[id]
  BY <1>1 DEF NodeAt
<1>5. /\ TypeAt(c, pin) \in DigitalTypes /\ id \in EventIds(c) =>
            NodeAt(c, d, pin) = d.event[id] /\ NodeAt(c, d, pin) \notin Nodes(c) \cup {"0"}
      /\ ~(TypeAt(c, pin) \in DigitalTypes /\ id \in EventIds(c)) =>
            NodeAt(c, d, pin) = d.node[id] /\ NodeAt(c, d, pin) \in Nodes(c)
  BY <1>1, <1>3, <1>4
<1> QED  BY <1>5 DEF d

LEMMA NodesDiffer ==
  ASSUME NEW c \in Circuits, ~NodeCollision(c), NEW i \in NetIds(c), NEW j \in NetIds(c),
         BuildNodeMap(c)[i] = BuildNodeMap(c)[j], BuildNodeMap(c)[i] # "0"
  PROVE  i = j
<1>1. PICK k \in DOMAIN c.nets : i = c.nets[k].id
  BY NetFacts
<1>2. PICK l \in DOMAIN c.nets : j = c.nets[l].id
  BY NetFacts
<1>3. k = l
  BY <1>1, <1>2 DEF NodeCollision
<1> QED  BY <1>1, <1>2, <1>3

\* Two pins meet exactly when the drawing connects them and they are of one domain.
LEMMA WhereTwoPinsMeet ==
  ASSUME NEW c \in Circuits, ~NetNotFound(c), ~NodeCollision(c),
         NEW p \in EmittedPins(c), NEW q \in EmittedPins(c)
  PROVE  LET d == Deck(c)
             same == /\ NetAt(c, p) = NetAt(c, q)
                     /\ TypeAt(c, p) \in DigitalTypes <=> TypeAt(c, q) \in DigitalTypes
         IN  /\ NodeAt(c, d, p) = NodeAt(c, d, q) => NodeAt(c, d, p) = "0" \/ same
             /\ same => NodeAt(c, d, p) = NodeAt(c, d, q)
<1> DEFINE d == Deck(c)
           i == NetAt(c, p)
           j == NetAt(c, q)
           P == TypeAt(c, p) \in DigitalTypes
           Q == TypeAt(c, q) \in DigitalTypes
           E == EventIds(c)
<1>1. /\ d.node = BuildNodeMap(c) /\ i \in NetIds(c) /\ j \in NetIds(c)
      /\ \A k, l \in E : d.event[k] = d.event[l] => k = l
  BY DeckFacts, PinFacts DEF DeckOK
<1>2. /\ P /\ i \in E => NodeAt(c, d, p) = d.event[i] /\ NodeAt(c, d, p) \notin Nodes(c) \cup {"0"}
      /\ ~(P /\ i \in E) => NodeAt(c, d, p) = d.node[i] /\ NodeAt(c, d, p) \in Nodes(c)
      /\ Q /\ j \in E => NodeAt(c, d, q) = d.event[j] /\ NodeAt(c, d, q) \notin Nodes(c) \cup {"0"}
      /\ ~(Q /\ j \in E) => NodeAt(c, d, q) = d.node[j] /\ NodeAt(c, d, q) \in Nodes(c)
  BY WhereAPinIs
<1>3. /\ P /\ i \notin E => ~(i = j /\ ~Q)
      /\ Q /\ j \notin E => ~(i = j /\ ~P)
  <2>1. P => SourcesOn(c, i) \cup SinksOn(c, i) # {}
    BY PinFacts
  <2>2. Q => SourcesOn(c, j) \cup SinksOn(c, j) # {}
    BY PinFacts
  <2>3. (~P => AnalogOn(c, i) # {}) /\ (~Q => AnalogOn(c, j) # {})
    BY PinFacts
  <2> QED  BY <1>1, <2>1, <2>2, <2>3 DEF EventIds
<1>4. d.node[i] = d.node[j] => d.node[i] = "0" \/ i = j
  BY <1>1, NodesDiffer
<1> HIDE DEF d, i, j, P, Q, E
<1>5. (NodeAt(c, d, p) = NodeAt(c, d, q)) => NodeAt(c, d, p) = "0" \/ (i = j /\ (P <=> Q))
  <2>1. CASE P /\ i \in E
    BY <1>1, <1>2, <2>1
  <2>2. CASE Q /\ j \in E
    BY <1>1, <1>2, <2>2
  <2>3. CASE ~(P /\ i \in E) /\ ~(Q /\ j \in E)
    BY <1>2, <1>3, <1>4, <2>3
  <2> QED  BY <2>1, <2>2, <2>3
<1>6. (i = j /\ (P <=> Q)) => NodeAt(c, d, p) = NodeAt(c, d, q)
  BY <1>2
<1> QED  BY <1>5, <1>6 DEF d, i, j, P, Q, E

LEMMA NetIdsFinite ==
  ASSUME NEW c \in Circuits
  PROVE  IsFiniteSet(NetIds(c))
<1> DEFINE n == Len(c.nets)
           f == [k \in 1 .. n |-> c.nets[k].id]
<1>1. n \in Nat /\ DOMAIN c.nets = 1 .. n
  BY NetFacts
<1>2. f \in [1 .. n -> NetIds(c)] /\ \A x \in NetIds(c) : \E k \in 1 .. n : f[k] = x
  <2>1. f \in [1 .. n -> NetIds(c)]
    BY <1>1, NetFacts
  <2>2. ASSUME NEW x \in NetIds(c)
        PROVE  \E k \in 1 .. n : f[k] = x
    <3>1. PICK k \in DOMAIN c.nets : x = c.nets[k].id
      BY NetFacts
    <3> QED  BY <1>1, <3>1
  <2> QED  BY <2>1, <2>2
<1>3. f \in Surjection(1 .. n, NetIds(c))
  <2> HIDE DEF f
  <2> QED  BY <1>2 DEF Surjection
<1> QED  BY <1>1, <1>3, FS_Interval, FS_Surjection

\* A function that repeats no value has as many values as arguments.
LEMMA ValuesCounted ==
  ASSUME NEW f, IsFiniteSet(DOMAIN f), \A i, j \in DOMAIN f : f[i] = f[j] => i = j
  PROVE  Cardinality({f[i] : i \in DOMAIN f}) = Cardinality(DOMAIN f)
<1> DEFINE S == DOMAIN f
           T == {f[i] : i \in S}
           g == [i \in S |-> f[i]]
<1>1. g \in [S -> T] /\ (\A t \in T : \E i \in S : g[i] = t)
      /\ \A i, j \in S : g[i] = g[j] => i = j
  OBVIOUS
<1>2. IsFiniteSet(S)
  OBVIOUS
<1> HIDE DEF g, S, T
<1>3. g \in Surjection(S, T) /\ g \in Injection(S, T)
  BY <1>1 DEF Surjection, Injection, IsInjective
<1>4. Cardinality(T) = Cardinality(S)
  BY <1>2, <1>3, FS_Surjection
<1> QED  BY <1>4 DEF S, T

\* Distinct nets of one domain never share a node of the deck, and no node that was made
\* up is that of a net or of another bridge: buildNodeMap, planMixedSignal, pinNode and
\* the refusal of colliding nodes.
THEOREM NothingMerges == Spec => []NoSilentMerge
<1>1. CircuitInv => NoSilentMerge
  <2> SUFFICES ASSUME CircuitInv, stage = "built"
               PROVE  NoSilentMerge
    BY DEF NoSilentMerge
  <2> DEFINE c == circuit
             twins == {deck.twin[id] : id \in DOMAIN deck.twin}
             events == {deck.event[id] : id \in DOMAIN deck.event}
             nets == {deck.node[id] : id \in NetIds(c)}
  <2>1. c \in Circuits /\ ~NetNotFound(c) /\ ~NodeCollision(c) /\ deck = Deck(c)
    BY DEF CircuitInv, DeckRefusal
  <2>2. DeckOK(c, deck) /\ RailOK(c, deck)
    BY <2>1, DeckFacts
  <2>3. \A p, q \in EmittedPins(c) :
          /\ NodeAt(c, deck, p) = NodeAt(c, deck, q) =>
                \/ NodeAt(c, deck, p) = "0"
                \/ /\ NetAt(c, p) = NetAt(c, q)
                   /\ TypeAt(c, p) \in DigitalTypes <=> TypeAt(c, q) \in DigitalTypes
          /\ (/\ NetAt(c, p) = NetAt(c, q)
              /\ TypeAt(c, p) \in DigitalTypes <=> TypeAt(c, q) \in DigitalTypes) =>
                NodeAt(c, deck, p) = NodeAt(c, deck, q)
    BY <2>1, WhereTwoPinsMeet
  <2>4. nets = Nodes(c)
    BY <2>2 DEF DeckOK, Nodes
  <2>5. deck.lowRail \cap (Nodes(c) \cup twins \cup events) = {}
    BY <2>2 DEF RailOK
  <2>6. (twins \cup events) \cap Nodes(c) = {} /\ twins \cap events = {}
    BY <2>2 DEF DeckOK
  <2>7. IsFiniteSet(DOMAIN deck.twin) /\ IsFiniteSet(DOMAIN deck.event)
    <3>1. DOMAIN deck.twin \in SUBSET NetIds(c) /\ DOMAIN deck.event \in SUBSET NetIds(c)
      BY <2>2 DEF DeckOK, TwinIds, EventIds
    <3> QED  BY <2>1, <3>1, NetIdsFinite, FS_Subset
  <2>8. Cardinality(twins) = Cardinality(DOMAIN deck.twin)
    <3>1. \A i, j \in DOMAIN deck.twin : deck.twin[i] = deck.twin[j] => i = j
      BY <2>2 DEF DeckOK
    <3> QED  BY <2>7, <3>1, ValuesCounted
  <2>9. Cardinality(events) = Cardinality(DOMAIN deck.event)
    <3>1. \A i, j \in DOMAIN deck.event : deck.event[i] = deck.event[j] => i = j
      BY <2>2 DEF DeckOK
    <3> QED  BY <2>7, <3>1, ValuesCounted
  <2>10. /\ (twins \cup events \cup deck.lowRail) \cap nets = {}
         /\ twins \cap events = {}
         /\ deck.lowRail \cap (twins \cup events) = {}
    BY <2>4, <2>5, <2>6
  <2> HIDE DEF twins, events, nets
  <2> QED  BY <2>3, <2>8, <2>9, <2>10 DEF NoSilentMerge, twins, events, nets
<1> QED  BY <1>1, CircuitInvariant, PTL

\* The outputs at the node of a logic pin are those of its net.
LEMMA OutputsAt ==
  ASSUME NEW c \in Circuits, ~NetNotFound(c), ~NodeCollision(c), ~DigitalPinShape(c),
         NEW pin \in EmittedPins(c), TypeAt(c, pin) \in DigitalTypes,
         NodeAt(c, Deck(c), pin) # "0"
  PROVE  {p \in EmittedPins(c) : /\ NodeAt(c, Deck(c), p) = NodeAt(c, Deck(c), pin)
                                 /\ IsSourcePin(TypeAt(c, p), p[2])} = SourcesOn(c, NetAt(c, pin))
<1> DEFINE d == Deck(c)
           id == NetAt(c, pin)
<1>1. ASSUME NEW p \in EmittedPins(c), NodeAt(c, d, p) = NodeAt(c, d, pin),
             IsSourcePin(TypeAt(c, p), p[2])
      PROVE  p \in SourcesOn(c, id)
  <2>1. NetAt(c, p) = id
    BY <1>1, WhereTwoPinsMeet
  <2>2. p \in Pins(c) /\ p \in Electrical(c)
    BY PinFacts
  <2> QED  BY <1>1, <2>1, <2>2 DEF SourcesOn, PinsOn
<1>2. ASSUME NEW p \in SourcesOn(c, id)
      PROVE  /\ p \in EmittedPins(c) /\ NodeAt(c, d, p) = NodeAt(c, d, pin)
             /\ IsSourcePin(TypeAt(c, p), p[2])
  <2>1. p \in EmittedPins(c) /\ NetAt(c, p) = id /\ TypeAt(c, p) \in DigitalTypes
    BY LogicIsEmitted
  <2>2. NodeAt(c, d, p) = NodeAt(c, d, pin)
    BY <2>1, WhereTwoPinsMeet
  <2>3. IsSourcePin(TypeAt(c, p), p[2])
    BY DEF SourcesOn
  <2> QED  BY <2>1, <2>2, <2>3
<1> HIDE DEF d, id
<1>3. {p \in EmittedPins(c) : /\ NodeAt(c, d, p) = NodeAt(c, d, pin)
                              /\ IsSourcePin(TypeAt(c, p), p[2])} = SourcesOn(c, id)
  BY <1>1, <1>2
<1> QED  BY <1>3 DEF d, id

\* A bridge to logic reaches the node of a pin exactly when the net has both kinds of
\* pins and logic does not drive it.
LEMMA BridgesAt ==
  ASSUME NEW c \in Circuits, ~NetNotFound(c), NEW pin \in EmittedPins(c),
         TypeAt(c, pin) \in DigitalTypes
  PROVE  ({b \in Deck(c).adc : b[2] = NodeAt(c, Deck(c), pin)} # {})
            <=> (NetAt(c, pin) \in EventIds(c) /\ SourcesOn(c, NetAt(c, pin)) = {})
<1> DEFINE d == Deck(c)
           id == NetAt(c, pin)
           node == NodeAt(c, d, pin)
           nets == {<<d.node[i], d.event[i]>> : i \in DOMAIN d.event \ Driven(c, DOMAIN d.event)}
<1>1. DeckOK(c, d) /\ RailOK(c, d)
  BY DeckFacts
<1>2. /\ id \in EventIds(c) => node = d.event[id] /\ node \notin Nodes(c) \cup {"0"}
      /\ id \notin EventIds(c) => node \in Nodes(c)
  BY WhereAPinIs
<1> HIDE DEF d, id, node
<1>3. DOMAIN d.event = EventIds(c)
  BY <1>1 DEF DeckOK
<1>4. node \in Nodes(c) \cup {d.event[i] : i \in DOMAIN d.event}
  BY <1>2, <1>3
<1>5. {b \in d.adc : b[2] = node} = {b \in nets : b[2] = node}
  <2>1. CASE NeedsLowRail(c)
    <3>1. PICK analog, rail : /\ d.adc = nets \cup {<<analog, rail>>}
                              /\ rail \notin Nodes(c) \cup {d.event[i] : i \in DOMAIN d.event}
      BY <1>1, <2>1 DEF RailOK
    <3> HIDE DEF nets
    <3> QED  BY <1>4, <3>1
  <2>2. CASE ~NeedsLowRail(c)
    BY <1>1, <2>2 DEF RailOK
  <2> QED  BY <2>1, <2>2
<1>6. ASSUME NEW b \in nets, b[2] = node
      PROVE  id \in EventIds(c) /\ SourcesOn(c, id) = {}
  <2>1. PICK i \in DOMAIN d.event \ Driven(c, DOMAIN d.event) : b = <<d.node[i], d.event[i]>>
    BY <1>6
  <2>2. d.event[i] = node
    BY <1>6, <2>1
  <2>3. node \notin Nodes(c)
    BY <1>1, <2>2 DEF DeckOK
  <2>4. id \in EventIds(c) /\ d.event[id] = d.event[i]
    BY <1>2, <2>2, <2>3
  <2>5. id = i
    BY <1>1, <1>3, <2>4 DEF DeckOK
  <2> QED  BY <2>1, <2>4, <2>5, <1>3 DEF Driven
<1>7. ASSUME id \in EventIds(c), SourcesOn(c, id) = {}
      PROVE  <<d.node[id], d.event[id]>> \in nets /\ <<d.node[id], d.event[id]>>[2] = node
  BY <1>2, <1>3, <1>7 DEF Driven
<1>8. ({b \in nets : b[2] = node} # {}) <=> (id \in EventIds(c) /\ SourcesOn(c, id) = {})
  <2> HIDE DEF nets
  <2> QED  BY <1>6, <1>7
<1> HIDE DEF nets
<1>9. ({b \in d.adc : b[2] = node} # {}) <=> (id \in EventIds(c) /\ SourcesOn(c, id) = {})
  BY <1>5, <1>8
<1> QED  BY <1>9 DEF d, id, node

\* The outputs that drive the node of a pin, and the bridges that do.
DriversAt(c, pin) ==
    {p \in EmittedPins(c) : /\ NodeAt(c, Deck(c), p) = NodeAt(c, Deck(c), pin)
                            /\ IsSourcePin(TypeAt(c, p), p[2])}

BridgesTo(c, pin) == {b \in Deck(c).adc : b[2] = NodeAt(c, Deck(c), pin)}

\* Every logic input is driven, and by one driver: an output of its net, or the bridge
\* from analog, or the low rail.
LEMMA InputIsDriven ==
  ASSUME NEW c \in Circuits, ~NetNotFound(c), ~NodeCollision(c), Errors(c) = {},
         NEW pin \in EmittedPins(c), TypeAt(c, pin) \in DigitalTypes,
         NodeAt(c, Deck(c), pin) # "0",
         NEW outputs, outputs = DriversAt(c, pin),
         NEW bridges, bridges = BridgesTo(c, pin)
  PROVE  /\ outputs # {} \/ bridges # {}
         /\ outputs = {} \/ bridges = {}
         /\ Cardinality(outputs) > 1 => \A other \in outputs : TypeAt(c, other) = "tristate"
<1> DEFINE id == NetAt(c, pin)
<1>1. /\ ~DigitalPinShape(c) /\ ~DigitalBusContention(c) /\ ~FloatingDigitalInput(c)
  BY Passed
<1>2. outputs = SourcesOn(c, id)
  BY <1>1, OutputsAt DEF DriversAt
<1>3. (bridges # {}) <=> (id \in EventIds(c) /\ SourcesOn(c, id) = {})
  BY BridgesAt DEF BridgesTo
<1>4. id \in NetIds(c) /\ pin \in SourcesOn(c, id) \cup SinksOn(c, id)
  BY PinFacts
<1>5. ASSUME SourcesOn(c, id) = {}
      PROVE  id \in EventIds(c)
  <2>1. SinksOn(c, id) # {}
    BY <1>4, <1>5
  <2>2. CASE AnalogOn(c, id) # {}
    BY <1>4, <2>1, <2>2 DEF EventIds
  <2>3. CASE AnalogOn(c, id) = {}
    <3>1. NetOf(c, id).isGround
      BY <1>1, <1>4, <1>5, <2>1, <2>3 DEF FloatingDigitalInput
    <3>2. BuildNodeMap(c)[id] = "0"
      BY <1>4, <3>1 DEF BuildNodeMap
    <3>3. id \notin EventIds(c)
      BY <2>3 DEF EventIds
    <3>4. NodeAt(c, Deck(c), pin) = Deck(c).node[id]
      BY <3>3, WhereAPinIs
    <3>5. Deck(c).node = BuildNodeMap(c)
      BY DeckFacts DEF DeckOK
    <3> QED  BY <3>2, <3>4, <3>5
  <2> QED  BY <2>2, <2>3
<1>6. Cardinality(outputs) > 1 => \A other \in outputs : TypeAt(c, other) = "tristate"
  <2> SUFFICES ASSUME Cardinality(outputs) > 1
               PROVE  \A other \in outputs : TypeAt(c, other) = "tristate"
    OBVIOUS
  <2>1. SourcesOn(c, id) \in SUBSET Pins(c)
    BY DEF SourcesOn, PinsOn
  <2>2. Cardinality(SourcesOn(c, id)) \in Nat
    BY <2>1, PinsFinite, FS_Subset, FS_CardinalityType
  <2>3. Cardinality(SourcesOn(c, id)) >= 2
    <3>1. Cardinality(SourcesOn(c, id)) > 1
      BY <1>2
    <3>2. \A n \in Nat : n > 1 => n >= 2
      OBVIOUS
    <3> HIDE DEF id
    <3> QED  BY <2>2, <3>1, <3>2
  <2> QED  BY <1>1, <1>2, <1>4, <2>3 DEF DigitalBusContention
<1> QED  BY <1>2, <1>3, <1>5, <1>6

\* A bridge from logic never drives a node that an analog source drives.
LEMMA NoFight ==
  ASSUME NEW c \in Circuits, ~NetNotFound(c), ~NodeCollision(c), Errors(c) = {},
         NEW bridge \in Deck(c).dac, bridge[2] # "0",
         NEW pin \in EmittedPins(c), NodeAt(c, Deck(c), pin) = bridge[2]
  PROVE  ~DrivesAnalog(c, pin)
<1> DEFINE d == Deck(c)
<1>1. SUFFICES ASSUME DrivesAnalog(c, pin) PROVE FALSE
  OBVIOUS
<1>2. TypeAt(c, pin) \notin DigitalTypes
  BY <1>1 DEF DrivesAnalog, ActiveAnalog, DigitalTypes, LogicGates, SequentialTypes
<1>3. NodeAt(c, d, pin) = d.node[NetAt(c, pin)] /\ NodeAt(c, d, pin) \in Nodes(c)
  BY <1>2, WhereAPinIs
<1>4. DeckOK(c, d)
  BY DeckFacts
<1>5. \/ \E id \in DOMAIN d.twin : bridge = <<d.node[id], d.twin[id]>>
      \/ \E id \in Driven(c, DOMAIN d.event) : bridge = <<d.event[id], d.node[id]>>
  <2> HIDE DEF d
  <2>1. bridge \in d.dac
    BY DEF d
  <2> QED  BY <1>4, <2>1 DEF DeckOK
<1> HIDE DEF d
<1>6. NodeAt(c, d, pin) = bridge[2]
  BY DEF d
<1>7. CASE \E id \in DOMAIN d.twin : bridge = <<d.node[id], d.twin[id]>>
  BY <1>3, <1>4, <1>6, <1>7 DEF DeckOK
<1>8. CASE \E id \in Driven(c, DOMAIN d.event) : bridge = <<d.event[id], d.node[id]>>
  <2>1. PICK id \in Driven(c, DOMAIN d.event) : bridge = <<d.event[id], d.node[id]>>
    BY <1>8
  <2>2. id \in NetIds(c) /\ SourcesOn(c, id) # {}
    BY <1>4 DEF Driven, DeckOK, EventIds
  <2>3. NetAt(c, pin) \in NetIds(c) /\ pin \in AnalogOn(c, NetAt(c, pin))
    BY <1>2, PinFacts
  <2>4. d.node[NetAt(c, pin)] = d.node[id] /\ d.node[id] # "0"
    BY <1>3, <1>6, <2>1
  <2>5. NetAt(c, pin) = id
    BY <1>4, <2>2, <2>3, <2>4, NodesDiffer DEF DeckOK
  <2>6. ~MixedDriverConflict(c)
    BY Passed
  <2> QED  BY <1>1, <2>2, <2>3, <2>5, <2>6 DEF MixedDriverConflict
<1> QED  BY <1>5, <1>7, <1>8

\* The rules and the plan agree on who drives what: in the deck of every circuit that the
\* rule check let through, no logic input floats and no level is fought over.  The rules
\* (floating inputs, contention, mixed drivers) are about nets, the plan of the bridges is
\* about nodes, and it is the names of the nodes that make one say what the other does.
THEOREM LogicHasOneDriver == Spec => []LogicIsDriven
<1>1. CircuitInv => LogicIsDriven
  <2> SUFFICES ASSUME CircuitInv, stage = "built"
               PROVE  LogicIsDriven
    BY DEF LogicIsDriven
  <2> DEFINE c == circuit
             at(node) == {pin \in EmittedPins(c) : NodeAt(c, deck, pin) = node}
             outputs(node) == {pin \in at(node) : IsSourcePin(TypeAt(c, pin), pin[2])}
             bridgesTo(node) == {b \in deck.adc : b[2] = node}
  <2>1. /\ c \in Circuits /\ ~NetNotFound(c) /\ ~NodeCollision(c) /\ Errors(c) = {}
        /\ deck = Deck(c)
    BY DEF CircuitInv, DeckRefusal
  <2>2. ASSUME NEW pin \in EmittedPins(c), TypeAt(c, pin) \in DigitalTypes,
               NodeAt(c, deck, pin) # "0"
        PROVE  /\ outputs(NodeAt(c, deck, pin)) # {} \/ bridgesTo(NodeAt(c, deck, pin)) # {}
               /\ outputs(NodeAt(c, deck, pin)) = {} \/ bridgesTo(NodeAt(c, deck, pin)) = {}
               /\ Cardinality(outputs(NodeAt(c, deck, pin))) > 1 =>
                     \A other \in outputs(NodeAt(c, deck, pin)) : TypeAt(c, other) = "tristate"
    <3> DEFINE out == outputs(NodeAt(c, deck, pin))
               bridges == bridgesTo(NodeAt(c, deck, pin))
    <3>1. out = DriversAt(c, pin)
      BY <2>1 DEF DriversAt
    <3>2. bridges = BridgesTo(c, pin)
      BY <2>1 DEF BridgesTo
    <3>3. NodeAt(c, Deck(c), pin) # "0"
      BY <2>1, <2>2
    <3> HIDE DEF out, bridges
    <3>4. /\ out # {} \/ bridges # {}
          /\ out = {} \/ bridges = {}
          /\ Cardinality(out) > 1 => \A other \in out : TypeAt(c, other) = "tristate"
      <4>1. c \in Circuits /\ ~NetNotFound(c) /\ ~NodeCollision(c) /\ Errors(c) = {}
        BY <2>1
      <4>2. pin \in EmittedPins(c) /\ TypeAt(c, pin) \in DigitalTypes
        BY <2>2
      <4> HIDE DEF c
      <4> QED  BY <4>1, <4>2, <3>1, <3>2, <3>3, InputIsDriven
    <3> QED  BY <3>4 DEF out, bridges
  <2>3. \A bridge \in deck.dac : bridge[2] # "0" =>
            ~\E pin \in at(bridge[2]) : DrivesAnalog(c, pin)
    BY <2>1, NoFight
  <2>4. ASSUME NEW i \in Emitted(c), c.parts[i].type \in SequentialTypes,
               ~({"set", "rst"} \subseteq DOMAIN c.parts[i].pins)
        PROVE  \E rail \in deck.lowRail : bridgesTo(rail) # {}
    <3>1. NeedsLowRail(c)
      BY <2>4 DEF NeedsLowRail, Emitted
    <3>2. RailOK(c, deck)
      BY <2>1, DeckFacts
    <3>3. PICK analog, rail : deck.lowRail = {rail} /\ <<analog, rail>> \in deck.adc
      BY <3>1, <3>2 DEF RailOK
    <3> QED  BY <3>3
  <2> QED  BY <2>2, <2>3, <2>4 DEF LogicIsDriven
<1> QED  BY <1>1, CircuitInvariant, PTL

-----------------------------------------------------------------------------
(* The output line.                                                        *)

\* The probes of a line, the columns that the k-th of them may become, and those of all.
ProbesOf(c, d, extra) == DefaultProbes(c, d) \o extra

ProbeAll(c, d, probes, k) == UNION {ProbeColumns(c, d, probe) : probe \in probes[k]}

LineAll(c, d, probes) == UNION {ProbeAll(c, d, probes, k) : k \in 1 .. Len(probes)}

\* The line after the k-th probe.
Longer(c, d, probes, k, before) ==
    LET new == NewColumns(c, d, probes, k, before)
    IN  IF new = {} THEN before ELSE Append(before, CHOOSE column \in new : TRUE)

LEMMA LineRecursion ==
  ASSUME NEW c, NEW d, NEW extra, Len(ProbesOf(c, d, extra)) \in Nat
  PROVE  LET probes == ProbesOf(c, d, extra)
         IN  \E f : /\ f = [k \in 0 .. Len(probes) |->
                               IF k = 0 THEN <<>> ELSE Longer(c, d, probes, k, f[k - 1])]
                    /\ Columns(c, d, extra) = f[Len(probes)]
<1> DEFINE probes == ProbesOf(c, d, extra)
           n == Len(probes)
           Recursive(f, m) == f = [k \in 0 .. m |-> IF k = 0 THEN <<>> ELSE Longer(c, d, probes, k, f[k - 1])]
           S == {m \in 0 .. n : \E f : Recursive(f, m)}
<1>1. n \in Nat
  OBVIOUS
<1>2. 0 \in S
  <2>1. Recursive([k \in 0 .. 0 |-> <<>>], 0)
    OBVIOUS
  <2>2. 0 \in 0 .. n
    BY <1>1
  <2> HIDE DEF Recursive
  <2> QED  BY <2>1, <2>2
<1>3. ASSUME NEW m \in 1 .. n, m - 1 \in S
      PROVE  m \in S
  <2>1. PICK f : Recursive(f, m - 1)
    BY <1>3
  <2> DEFINE g == [k \in 0 .. m |-> IF k = m THEN Longer(c, d, probes, m, f[m - 1]) ELSE f[k]]
  <2>2. \A k \in 0 .. m - 1 : f[k] = IF k = 0 THEN <<>> ELSE Longer(c, d, probes, k, f[k - 1])
    BY <2>1
  <2>3. \A k \in 0 .. m : g[k] = IF k = m THEN Longer(c, d, probes, m, f[m - 1]) ELSE f[k]
    OBVIOUS
  <2> HIDE DEF g
  <2>4. ASSUME NEW k \in 0 .. m
        PROVE  g[k] = IF k = 0 THEN <<>> ELSE Longer(c, d, probes, k, g[k - 1])
    <3>1. CASE k = 0
      BY <3>1, <2>2, <2>3
    <3>2. CASE k # 0 /\ k # m
      <4>1. k - 1 \in 0 .. m /\ k - 1 # m /\ k \in 0 .. m - 1
        BY <3>2
      <4> QED  BY <3>2, <4>1, <2>2, <2>3
    <3>3. CASE k = m
      <4>1. k - 1 \in 0 .. m /\ k - 1 # m /\ k # 0
        BY <3>3
      <4> QED  BY <3>3, <4>1, <2>3
    <3> QED  BY <3>1, <3>2, <3>3
  <2>5. Recursive(g, m)
    <3>1. g = [k \in 0 .. m |-> g[k]]
      BY DEF g
    <3> QED  BY <2>4, <3>1
  <2> QED  BY <2>5
<1>4. \E f : Recursive(f, n)
  <2>1. n \in 0 .. n
    BY <1>1
  <2>2. n \in S
    <3> HIDE DEF S, n
    <3>1. \A k \in 0 .. n : k \in S
      BY <1>1, <1>2, <1>3, Ascent
    <3> QED  BY <2>1, <3>1
  <2> QED  BY <2>2
<1> DEFINE line == CHOOSE f : Recursive(f, n)
<1>5. Recursive(line, n)
  BY <1>4
<1>6. Columns(c, d, extra) = line[n]
  BY DEF Columns, Longer, ProbesOf
<1> QED  BY <1>5, <1>6

\* One probe more: nothing is lost, what is added is a column of the probe, and a probe
\* that becomes one column has it in the line.
LEMMA OneProbe ==
  ASSUME NEW c, NEW d, NEW probes, NEW k, NEW all, ProbeAll(c, d, probes, k) \subseteq all,
         NEW before \in Seq(all)
  PROVE  LET after == Longer(c, d, probes, k, before)
         IN
         /\ after \in Seq(all)
         /\ Range(before) \subseteq Range(after)
         /\ \A column : ProbeAll(c, d, probes, k) = {column} => column \in Range(after)
<1> DEFINE new == NewColumns(c, d, probes, k, before)
           x == CHOOSE column \in new : TRUE
           after == Longer(c, d, probes, k, before)
<1>1. new = ProbeAll(c, d, probes, k) \ Range(before)
  BY DEF NewColumns, ProbeAll, Range
<1>2. CASE new = {}
  <2>1. after = before
    BY <1>2 DEF Longer
  <2> QED  BY <1>1, <1>2, <2>1
<1>3. CASE new # {}
  <2>1. x \in new
    BY <1>3
  <2>2. x \in all
    BY <1>1, <2>1
  <2>3. after = Append(before, x)
    BY <1>3 DEF Longer
  <2> HIDE DEF x, new
  <2>4. Append(before, x) \in Seq(all)
    BY <2>2
  <2>5. Range(Append(before, x)) = Range(before) \cup {x}
    <3>1. /\ Len(before) \in Nat /\ DOMAIN before = 1 .. Len(before)
          /\ DOMAIN Append(before, x) = 1 .. (Len(before) + 1)
          /\ \A i \in 1 .. Len(before) : Append(before, x)[i] = before[i]
          /\ Append(before, x)[Len(before) + 1] = x
      BY <2>2, LenProperties
    <3> QED  BY <3>1 DEF Range
  <2>6. \A column : ProbeAll(c, d, probes, k) = {column} => x = column
    BY <1>1, <2>1
  <2> QED  BY <2>3, <2>4, <2>5, <2>6
<1> QED  BY <1>2, <1>3

\* The line: columns of the probes and no others, and the column of every probe that
\* becomes one.
LEMMA LineFacts ==
  ASSUME NEW c, NEW d, NEW extra, Len(ProbesOf(c, d, extra)) \in Nat
  PROVE  LET probes == ProbesOf(c, d, extra)
             line == Columns(c, d, extra)
         IN  /\ line \in Seq(LineAll(c, d, probes))
             /\ \A k \in 1 .. Len(probes) : \A column :
                    ProbeAll(c, d, probes, k) = {column} => column \in Range(line)
<1> DEFINE probes == ProbesOf(c, d, extra)
           all == LineAll(c, d, probes)
           n == Len(probes)
<1>1. \E f : /\ f = [k \in 0 .. n |->
                           IF k = 0 THEN <<>> ELSE Longer(c, d, probes, k, f[k - 1])]
             /\ Columns(c, d, extra) = f[n]
  BY LineRecursion, ZenonT(60)
<1>2. n \in Nat
  OBVIOUS
<1>9. \A k \in 1 .. n : ProbeAll(c, d, probes, k) \subseteq all
  BY DEF LineAll
<1> HIDE DEF n, all, probes
<1>10. PICK f : /\ f = [k \in 0 .. n |->
                           IF k = 0 THEN <<>> ELSE Longer(c, d, probes, k, f[k - 1])]
                /\ Columns(c, d, extra) = f[n]
  BY <1>1
<1>3. \A k \in 0 .. n : f[k] = IF k = 0 THEN <<>> ELSE Longer(c, d, probes, k, f[k - 1])
  BY <1>10, ZenonT(60)
<1> DEFINE Has(k) == \A j \in 1 .. k : \A column :
                        ProbeAll(c, d, probes, j) = {column} => column \in Range(f[k])
           S == {k \in 0 .. n : f[k] \in Seq(all) /\ Has(k)}
<1>4. 0 \in S
  <2>1. 0 \in 0 .. n /\ f[0] = <<>>
    BY <1>2, <1>3
  <2>2. Has(0)
    OBVIOUS
  <2>3. <<>> \in Seq(all)
    OBVIOUS
  <2> HIDE DEF Has
  <2> QED  BY <2>1, <2>2, <2>3
<1>5. ASSUME NEW k \in 1 .. n, k - 1 \in S
      PROVE  k \in S
  <2> DEFINE m == k - 1
  <2>1. m \in 0 .. n /\ k \in 0 .. n /\ k # 0 /\ 1 .. k = (1 .. m) \cup {k}
    BY <1>2
  <2>2. f[m] \in Seq(all) /\ Has(m)
    BY <1>5
  <2>3. f[k] = Longer(c, d, probes, k, f[m])
    BY <1>3, <2>1
  <2> HIDE DEF m
  <2>5. /\ f[k] \in Seq(all) /\ Range(f[m]) \subseteq Range(f[k])
        /\ \A column : ProbeAll(c, d, probes, k) = {column} => column \in Range(f[k])
    BY <1>9, <2>2, <2>3, OneProbe
  <2>6. Has(k)
    BY <2>1, <2>2, <2>5
  <2> HIDE DEF Has
  <2> QED  BY <2>1, <2>5, <2>6
<1>6. n \in S
  <2>1. n \in 0 .. n
    BY <1>2
  <2> HIDE DEF S
  <2>2. \A k \in 0 .. n : k \in S
    BY <1>2, <1>4, <1>5, Ascent
  <2> QED  BY <2>1, <2>2
<1> QED  BY <1>10, <1>6 DEF n, all, probes

LEMMA ProbesFacts ==
  ASSUME NEW c \in Circuits, NEW d, NEW service
  PROVE  LET criteria == Criteria(c)
             extra == ExtraProbes(service, criteria)
             probes == ProbesOf(c, d, extra)
         IN  /\ Len(c.nets) \in Nat /\ Len(criteria) \in Nat /\ Len(probes) \in Nat
             /\ Len(probes) = Len(c.nets) + Len(criteria)
             /\ \A k \in 1 .. Len(probes) :
                   probes[k] = IF k <= Len(c.nets) THEN DefaultProbes(c, d)[k] ELSE extra[k - Len(c.nets)]
<1> DEFINE criteria == Criteria(c)
           extra == ExtraProbes(service, criteria)
           default == DefaultProbes(c, d)
           n == Len(c.nets)
           m == Len(criteria)
           Sets == {default[k] : k \in 1 .. n} \cup {extra[k] : k \in 1 .. m}
<1>1. n \in Nat /\ DOMAIN c.nets = 1 .. n
  BY NetFacts
<1>2. m \in Nat /\ DOMAIN criteria = 1 .. m
  <2>1. criteria \in Seq(Range(criteria))
    BY CriteriaAssumption
  <2> QED  BY <2>1, LenProperties
<1>3. default = [k \in 1 .. n |-> default[k]]
  BY <1>1 DEF DefaultProbes
<1>4. extra = [k \in 1 .. m |-> extra[k]]
  BY <1>2 DEF ExtraProbes, ExtraProbesForCriteria, CurrentProbes
<1> HIDE DEF criteria, extra, default, n, m
<1>5. default \in [1 .. n -> Sets] /\ extra \in [1 .. m -> Sets]
  BY <1>3, <1>4
<1> HIDE DEF Sets
<1>6. default \in Seq(Sets) /\ Len(default) = n
  BY <1>1, <1>5
<1>7. extra \in Seq(Sets) /\ Len(extra) = m
  BY <1>2, <1>5
<1>8. /\ Len(default \o extra) = n + m
      /\ \A k \in 1 .. n + m : (default \o extra)[k] = IF k <= n THEN default[k] ELSE extra[k - n]
  BY <1>6, <1>7, ConcatProperties
<1>9. ProbesOf(c, d, extra) = default \o extra
  BY DEF ProbesOf, default
<1>10. n + m \in Nat
  BY <1>1, <1>2
<1>11. /\ n \in Nat /\ m \in Nat /\ Len(ProbesOf(c, d, extra)) \in Nat
       /\ Len(ProbesOf(c, d, extra)) = n + m
       /\ \A k \in 1 .. Len(ProbesOf(c, d, extra)) :
            ProbesOf(c, d, extra)[k] = IF k <= n THEN default[k] ELSE extra[k - n]
  BY <1>1, <1>2, <1>8, <1>9, <1>10
<1> QED  BY <1>11 DEF criteria, extra, default, n, m

\* The probe of a net's voltage.
Voltage(c, d, k) == [kind |-> "v", args |-> <<VoltageNode(d, c.nets[k].id)>>]

\* A column of the line is one of a sampled net or of a criterion, ...
LEMMA ColumnsAre ==
  ASSUME NEW c \in Circuits, NEW d, NEW service,
         NEW column \in LineAll(c, d, ProbesOf(c, d, ExtraProbes(service, Criteria(c))))
  PROVE  \/ \E k \in Sampled(c) : column \in ProbeColumns(c, d, Voltage(c, d, k))
         \/ \E k \in DOMAIN Criteria(c) : column \in ProbeColumns(c, d, Criteria(c)[k])
<1> DEFINE criteria == Criteria(c)
           extra == ExtraProbes(service, criteria)
           probes == ProbesOf(c, d, extra)
           n == Len(c.nets)
           m == Len(criteria)
<1>1. /\ n \in Nat /\ m \in Nat /\ Len(probes) = n + m
      /\ \A k \in 1 .. Len(probes) :
             probes[k] = IF k <= n THEN DefaultProbes(c, d)[k] ELSE extra[k - n]
  BY ProbesFacts
<1>2. DOMAIN c.nets = 1 .. n /\ DOMAIN criteria = 1 .. m
  <2>1. criteria \in Seq(Range(criteria))
    BY CriteriaAssumption
  <2> QED  BY <2>1, LenProperties, NetFacts
<1>6. PICK k \in 1 .. Len(probes) : column \in ProbeAll(c, d, probes, k)
  BY DEF LineAll
<1>3. PICK probe \in probes[k] : column \in ProbeColumns(c, d, probe)
  BY <1>6 DEF ProbeAll
<1>4. CASE k <= n
  <2>1. k \in DOMAIN c.nets /\ probe \in DefaultProbes(c, d)[k]
    BY <1>1, <1>2, <1>3, <1>4
  <2>2. k \in Sampled(c) /\ probe = Voltage(c, d, k)
    BY <2>1 DEF DefaultProbes, Voltage
  <2> QED  BY <1>3, <2>2
<1>5. CASE ~(k <= n)
  <2>1. k - n \in DOMAIN criteria /\ probe \in extra[k - n]
    <3>1. \A a, b \in Nat : \A i \in 1 .. a + b : ~(i <= a) => i - a \in 1 .. b
      OBVIOUS
    <3> HIDE DEF n, m, probes, criteria, extra
    <3>2. k - n \in 1 .. m
      BY <1>1, <1>5, <3>1
    <3> QED  BY <1>1, <1>2, <1>3, <1>5, <3>2
  <2>2. \A j \in DOMAIN criteria : \A x \in extra[j] : x = criteria[j]
    BY DEF ExtraProbes, ExtraProbesForCriteria, CurrentProbes
  <2>3. probe = criteria[k - n]
    BY <2>1, <2>2
  <2> QED  BY <1>3, <2>1, <2>3
<1> QED  BY <1>4, <1>5

\* ... every sampled net has its probe, and on the road of a verification every
\* difference, too.
LEMMA ProbesAre ==
  ASSUME NEW c \in Circuits, NEW d
  PROVE  LET criteria == Criteria(c)
             probes == ProbesOf(c, d, ExtraProbes("verify", criteria))
         IN  /\ \A k \in Sampled(c) : \E j \in 1 .. Len(probes) : probes[j] = {Voltage(c, d, k)}
             /\ \A k \in DOMAIN criteria : Len(criteria[k].args) = 2 =>
                   \E j \in 1 .. Len(probes) : probes[j] = {criteria[k]}
<1> DEFINE criteria == Criteria(c)
           extra == ExtraProbes("verify", criteria)
           probes == ProbesOf(c, d, extra)
           n == Len(c.nets)
           m == Len(criteria)
<1>1. /\ n \in Nat /\ m \in Nat /\ Len(probes) = n + m
      /\ \A k \in 1 .. Len(probes) :
             probes[k] = IF k <= n THEN DefaultProbes(c, d)[k] ELSE extra[k - n]
  BY ProbesFacts
<1>2. DOMAIN c.nets = 1 .. n /\ DOMAIN criteria = 1 .. m
  <2>1. criteria \in Seq(Range(criteria))
    BY CriteriaAssumption
  <2> QED  BY <2>1, LenProperties, NetFacts
<1>3. ASSUME NEW k \in Sampled(c)
      PROVE  \E j \in 1 .. Len(probes) : probes[j] = {Voltage(c, d, k)}
  <2>1. k \in DOMAIN c.nets
    BY DEF Sampled
  <2>2. DefaultProbes(c, d)[k] = {Voltage(c, d, k)}
    BY <2>1 DEF DefaultProbes, Voltage
  <2>3. k \in 1 .. Len(probes) /\ k <= n
    <3> HIDE DEF n, m, probes
    <3> QED  BY <1>1, <1>2, <2>1
  <2> QED  BY <1>1, <2>2, <2>3
<1>4. ASSUME NEW k \in DOMAIN criteria, Len(criteria[k].args) = 2
      PROVE  \E j \in 1 .. Len(probes) : probes[j] = {criteria[k]}
  <2>1. extra[k] = {criteria[k]}
    BY <1>4 DEF ExtraProbes, ExtraProbesForCriteria
  <2> HIDE DEF n, m, probes, criteria, extra
  <2>2. n + k \in 1 .. Len(probes) /\ ~(n + k <= n) /\ (n + k) - n = k
    BY <1>1, <1>2
  <2>3. probes[n + k] = extra[k]
    BY <1>1, <2>2
  <2> QED  BY <2>1, <2>2, <2>3
<1> QED  BY <1>3, <1>4

-----------------------------------------------------------------------------
(* What a name reaches.                                                    *)

Names(c, k) == {Lower(c.nets[k].id), Lower(c.nets[k].name)}

\* The node that carries the voltage of the k-th net.
VoltageOf(c, k) == VoltageNode(Deck(c), c.nets[k].id)

LEMMA VoltageFacts ==
  ASSUME NEW c \in Circuits, NEW k \in DOMAIN c.nets
  PROVE  LET d == Deck(c)
             id == c.nets[k].id
         IN  /\ d.node[id] \in Nodes(c)
             /\ c.nets[k].isGround => d.node[id] = "0"
             /\ ~c.nets[k].isGround => d.node[id] # "0" /\ VoltageOf(c, k) # "0"
             /\ id \in DOMAIN d.twin => VoltageOf(c, k) = d.twin[id] /\ VoltageOf(c, k) \notin Nodes(c) \cup {"0"}
             /\ id \notin DOMAIN d.twin => VoltageOf(c, k) = d.node[id]
<1> DEFINE d == Deck(c)
           id == c.nets[k].id
<1>1. DeckOK(c, d)
  BY DeckFacts
<1>2. id \in NetIds(c) /\ NetOf(c, id) = c.nets[k]
  BY NetFacts
<1> HIDE DEF d
<1>3. d.node[id] = IF c.nets[k].isGround THEN "0" ELSE SanitizeNodeName(id)
  BY <1>1, <1>2 DEF DeckOK, BuildNodeMap
<1>4. SanitizeNodeName(id) # "0"
  BY <1>2, SpellingAssumption
<1>5. d.node[id] \in Nodes(c)
  BY <1>1, <1>2 DEF DeckOK, Nodes
<1>6. VoltageOf(c, k) = IF id \in DOMAIN d.twin THEN d.twin[id] ELSE d.node[id]
  BY DEF VoltageOf, VoltageNode, d
<1>7. id \in DOMAIN d.twin => d.twin[id] \notin Nodes(c) \cup {"0"}
  BY <1>1 DEF DeckOK
<1>8. /\ d.node[id] \in Nodes(c)
      /\ c.nets[k].isGround => d.node[id] = "0"
      /\ ~c.nets[k].isGround => d.node[id] # "0" /\ VoltageOf(c, k) # "0"
      /\ id \in DOMAIN d.twin => VoltageOf(c, k) = d.twin[id] /\ VoltageOf(c, k) \notin Nodes(c) \cup {"0"}
      /\ id \notin DOMAIN d.twin => VoltageOf(c, k) = d.node[id]
  BY <1>3, <1>4, <1>5, <1>6, <1>7
<1> QED  BY <1>8 DEF d

\* A reference reaches the voltage of a net it names, or of a logic net whose node it is;
\* or it is no name of the circuit and stays what it is.
LEMMA Reaches ==
  ASSUME NEW c \in Circuits, NEW ref
  PROVE  \/ /\ NetRefToNode(c, Deck(c), ref) = ref
            /\ \A k \in DOMAIN c.nets : ref \notin Names(c, k)
         \/ \E k \in DOMAIN c.nets :
               /\ NetRefToNode(c, Deck(c), ref) = VoltageOf(c, k)
               /\ \/ ref \in Names(c, k)
                  \/ c.nets[k].id \in DOMAIN Deck(c).twin /\ ref = Deck(c).node[c.nets[k].id]
<1> DEFINE d == Deck(c)
           n == Len(c.nets)
           byTwin == {k \in DOMAIN c.nets :
                        /\ c.nets[k].id \in DOMAIN d.twin
                        /\ ref \in {Lower(c.nets[k].id), Lower(c.nets[k].name), d.node[c.nets[k].id]}}
           byId   == {k \in DOMAIN c.nets : Lower(c.nets[k].id) = ref}
           byName == {k \in DOMAIN c.nets : Lower(c.nets[k].name) = ref}
           r == NetRefToNode(c, d, ref)
<1>1. n \in Nat /\ DOMAIN c.nets = 1 .. n
  BY NetFacts
<1>2. byTwin \in SUBSET (0 .. n) /\ byId \in SUBSET (0 .. n) /\ byName \in SUBSET (0 .. n)
  BY <1>1
<1>3. r = IF byTwin # {} THEN d.twin[c.nets[Max(byTwin)].id]
          ELSE IF byId # {} THEN d.node[c.nets[Max(byId)].id]
          ELSE IF byName # {} THEN d.node[c.nets[Max(byName)].id]
          ELSE ref
  BY DEF NetRefToNode
<1>4. \A k \in DOMAIN c.nets :
         /\ c.nets[k].id \in DOMAIN d.twin => VoltageOf(c, k) = d.twin[c.nets[k].id]
         /\ c.nets[k].id \notin DOMAIN d.twin => VoltageOf(c, k) = d.node[c.nets[k].id]
  BY VoltageFacts
<1>5. \A k \in DOMAIN c.nets : ref \in Names(c, k) => k \in byId \cup byName
  BY DEF Names
<1>6. \A k \in byId \cup byName : k \in DOMAIN c.nets /\ ref \in Names(c, k)
  BY DEF Names
<1>7. \A k \in byId \cup byName : c.nets[k].id \in DOMAIN d.twin => k \in byTwin
  OBVIOUS
<1>8. \A k \in byTwin : /\ k \in DOMAIN c.nets /\ c.nets[k].id \in DOMAIN d.twin
                        /\ ref \in Names(c, k) \/ ref = d.node[c.nets[k].id]
  BY DEF Names
<1> HIDE DEF byTwin, byId, byName, r, d, n
<1>9. CASE byTwin # {}
  <2>1. Max(byTwin) \in byTwin
    BY <1>1, <1>2, <1>9, MaxIn
  <2> QED  BY <1>3, <1>4, <1>8, <1>9, <2>1 DEF r, d
<1>10. CASE byTwin = {} /\ byId # {}
  <2>1. Max(byId) \in byId
    BY <1>1, <1>2, <1>10, MaxIn
  <2> QED  BY <1>3, <1>4, <1>6, <1>7, <1>10, <2>1 DEF r, d
<1>11. CASE byTwin = {} /\ byId = {} /\ byName # {}
  <2>1. Max(byName) \in byName
    BY <1>1, <1>2, <1>11, MaxIn
  <2> QED  BY <1>3, <1>4, <1>6, <1>7, <1>11, <2>1 DEF r, d
<1>12. CASE byTwin = {} /\ byId = {} /\ byName = {}
  BY <1>3, <1>5, <1>12 DEF r, d
<1> QED  BY <1>9, <1>10, <1>11, <1>12

\* The references of a criterion are names of nets or of the reference node; the rest of
\* what the output line asks for is voltages of nets.
Known(c, ref) ==
    ref = "0" \/ \E k \in DOMAIN c.nets : ref \in Names(c, k) \/ ref = VoltageOf(c, k)

LEMMA ReachesVoltage ==
  ASSUME NEW c \in Circuits, NEW ref, Known(c, ref)
  PROVE  \/ NetRefToNode(c, Deck(c), ref) = "0"
         \/ \E k \in DOMAIN c.nets : NetRefToNode(c, Deck(c), ref) = VoltageOf(c, k)
BY Reaches DEF Known

\* What apartness says, net by net.
LEMMA Apart ==
  ASSUME NEW c \in Circuits, NamesAreApart(c, Deck(c))
  PROVE  /\ \A k \in DOMAIN c.nets : Lower(c.nets[k].name) = "0" => c.nets[k].isGround
         /\ \A k \in DOMAIN c.nets : c.nets[k].isGround => VoltageOf(c, k) = "0"
         /\ \A j, k \in DOMAIN c.nets : j # k =>
               /\ Names(c, j) \cap Names(c, k) = {}
               /\ Deck(c).node[c.nets[k].id] \notin Names(c, j)
               /\ VoltageOf(c, k) \notin Names(c, j)
         /\ \A j, k \in DOMAIN c.nets :
               SanitizeNodeName(VoltageOf(c, j)) = SanitizeNodeName(VoltageOf(c, k)) =>
                  VoltageOf(c, j) = VoltageOf(c, k)
         /\ \A i \in Emitted(c), j \in DOMAIN c.parts :
               InstanceName(c.parts[i]) = Lower(c.parts[j].designator) => i = j
BY ZenonT(60) DEF NamesAreApart, Names, VoltageOf

\* Where names are apart, a name reaches its net ...
LEMMA NameReaches ==
  ASSUME NEW c \in Circuits, NamesAreApart(c, Deck(c)), NEW j \in DOMAIN c.nets, NEW ref \in Names(c, j)
  PROVE  /\ NetRefToNode(c, Deck(c), ref) = VoltageOf(c, j)
         /\ NamedNets(c, ref) = {c.nets[j].id}
<1>1. \A k \in DOMAIN c.nets : ref \in Names(c, k) \/ ref = Deck(c).node[c.nets[k].id] => k = j
  BY Apart
<1>2. NetRefToNode(c, Deck(c), ref) = VoltageOf(c, j)
  BY <1>1, Reaches
<1>3. NamedNets(c, ref) = {c.nets[j].id}
  <2>1. \A k \in DOMAIN c.nets :
           /\ c.nets[k].id \in NetIds(c)
           /\ NetOf(c, c.nets[k].id) = c.nets[k]
           /\ Lower(c.nets[k].id) = ref \/ Lower(c.nets[k].name) = ref => k = j
    BY <1>1, NetFacts DEF Names
  <2>2. \A id \in NetIds(c) : \E k \in DOMAIN c.nets : id = c.nets[k].id
    BY NetFacts
  <2>3. Lower(c.nets[j].id) = ref \/ Lower(c.nets[j].name) = ref
    BY DEF Names
  <2>4. CASE Lower(c.nets[j].id) = ref
    <3>1. {id \in NetIds(c) : Lower(id) = ref} = {c.nets[j].id}
      BY <2>1, <2>2, <2>4
    <3> QED  BY <3>1 DEF NamedNets
  <2>5. CASE Lower(c.nets[j].id) # ref
    <3>1. {id \in NetIds(c) : Lower(id) = ref} = {}
      BY <2>1, <2>2, <2>5
    <3>2. {id \in NetIds(c) : Lower(NetOf(c, id).name) = ref} = {c.nets[j].id}
      BY <2>1, <2>2, <2>3, <2>5
    <3> QED  BY <3>1, <3>2 DEF NamedNets
  <2> QED  BY <2>4, <2>5
<1> QED  BY <1>2, <1>3

\* ... a sampled voltage is left as it is ...
LEMMA VoltageStays ==
  ASSUME NEW c \in Circuits, NamesAreApart(c, Deck(c)), ~NodeCollision(c),
         NEW j \in DOMAIN c.nets, ~c.nets[j].isGround
  PROVE  NetRefToNode(c, Deck(c), VoltageOf(c, j)) = VoltageOf(c, j)
<1> DEFINE ref == VoltageOf(c, j)
<1>1. CASE NetRefToNode(c, Deck(c), ref) = ref
  BY <1>1
<1>2. ASSUME NEW k \in DOMAIN c.nets, NetRefToNode(c, Deck(c), ref) = VoltageOf(c, k),
             \/ ref \in Names(c, k)
             \/ c.nets[k].id \in DOMAIN Deck(c).twin /\ ref = Deck(c).node[c.nets[k].id]
      PROVE  NetRefToNode(c, Deck(c), ref) = ref
  <2>1. SUFFICES ASSUME k # j PROVE FALSE
    BY <1>2
  <2>2. ref = Deck(c).node[c.nets[k].id]
    BY <1>2, <2>1, Apart
  <2>3. ref \in Nodes(c) /\ ref # "0"
    BY <2>2, VoltageFacts
  <2>4. ref = Deck(c).node[c.nets[j].id]
    BY <2>3, VoltageFacts
  <2>5. Deck(c).node = BuildNodeMap(c)
    BY DeckFacts DEF DeckOK
  <2>6. c.nets[j].id = c.nets[k].id
    <3>1. c.nets[j].id \in NetIds(c) /\ c.nets[k].id \in NetIds(c)
      BY NetFacts
    <3>2. /\ BuildNodeMap(c)[c.nets[j].id] = BuildNodeMap(c)[c.nets[k].id]
          /\ BuildNodeMap(c)[c.nets[j].id] # "0"
      BY <2>2, <2>3, <2>4, <2>5
    <3> QED  BY <3>1, <3>2, NodesDiffer
  <2> QED  BY <2>1, <2>6, NetFacts
<1> QED  BY <1>1, <1>2, Reaches

\* ... and so is the reference, unless a net is called 0.
LEMMA ReferenceStays ==
  ASSUME NEW c \in Circuits, NamesAreApart(c, Deck(c)), \A k \in DOMAIN c.nets : "0" \notin Names(c, k)
  PROVE  NetRefToNode(c, Deck(c), "0") = "0" /\ NamedNets(c, "0") = {}
<1>1. NetRefToNode(c, Deck(c), "0") = "0"
  <2>1. ASSUME NEW k \in DOMAIN c.nets, c.nets[k].id \in DOMAIN Deck(c).twin,
               "0" = Deck(c).node[c.nets[k].id]
        PROVE  FALSE
    <3>1. c.nets[k].isGround /\ VoltageOf(c, k) # "0"
      BY <2>1, VoltageFacts
    <3> QED  BY <3>1, Apart
  <2> QED  BY <2>1, Reaches
<1>2. NamedNets(c, "0") = {}
  <2>1. \A id \in NetIds(c) : Lower(id) # "0" /\ Lower(NetOf(c, id).name) # "0"
    BY NetFacts DEF Names
  <2> QED  BY <2>1 DEF NamedNets
<1> QED  BY <1>1, <1>2

-----------------------------------------------------------------------------
(* What the line is made of.                                               *)

\* The voltages that have a column, and what follows v in one.
Sampleable(c) == {VoltageOf(c, k) : k \in DOMAIN c.nets} \ {"0"}

VoltageArgs(c, args) ==
    \/ \E x \in Sampleable(c) : args = <<x>>
    \/ \E x, y \in Sampleable(c) : args = <<x, y>>

\* One or two references.
References(args) == Len(args) \in {1, 2} /\ DOMAIN args = 1 .. Len(args)

\* What rewriting makes of them.
LEMMA RewriteIs ==
  ASSUME NEW c, NEW d, NEW args, References(args)
  PROVE  RewriteNodeRefs(c, d, args) =
            IF NetRefToNode(c, d, args[1]) = "0" THEN <<>>
            ELSE IF Len(args) = 1 \/ NetRefToNode(c, d, args[2]) = "0"
            THEN <<NetRefToNode(c, d, args[1])>>
            ELSE <<NetRefToNode(c, d, args[1]), NetRefToNode(c, d, args[2])>>
<1> DEFINE node(j) == NetRefToNode(c, d, args[j])
           mapped == [k \in DOMAIN args |-> NetRefToNode(c, d, args[k])]
           rewritten == RewriteNodeRefs(c, d, args)
<1>5. Len(args) \in {1, 2}
  BY DEF References
<1>1. mapped = [k \in 1 .. Len(args) |-> node(k)]
  BY DEF References
<1>2. rewritten = IF mapped[1] = "0" THEN <<>>
                  ELSE IF Len(args) = 2 /\ mapped[2] = "0" THEN <<mapped[1]>>
                  ELSE mapped
  BY DEF RewriteNodeRefs
<1> HIDE DEF mapped, rewritten, node
<1>3. CASE Len(args) = 1
  <2>1. mapped[1] = node(1) /\ mapped = <<node(1)>>
    BY <1>1, <1>3
  <2>2. rewritten = IF node(1) = "0" THEN <<>> ELSE <<node(1)>>
    BY <1>2, <1>3, <2>1
  <2> QED  BY <1>3, <2>2 DEF rewritten, node
<1>4. CASE Len(args) = 2
  <2>1. mapped[1] = node(1) /\ mapped[2] = node(2) /\ mapped = <<node(1), node(2)>>
    BY <1>1, <1>4
  <2>2. rewritten = IF node(1) = "0" THEN <<>>
                    ELSE IF node(2) = "0" THEN <<node(1)>> ELSE <<node(1), node(2)>>
    BY <1>2, <1>4, <2>1
  <2> QED  BY <1>4, <2>2 DEF rewritten, node
<1> QED  BY <1>3, <1>4, <1>5

\* Rewritten references are dropped or voltages.
LEMMA RewriteVoltages ==
  ASSUME NEW c \in Circuits, NEW args, References(args),
         \A j \in DOMAIN args : Known(c, args[j])
  PROVE  \/ RewriteNodeRefs(c, Deck(c), args) = <<>>
         \/ VoltageArgs(c, RewriteNodeRefs(c, Deck(c), args))
<1> DEFINE node(j) == NetRefToNode(c, Deck(c), args[j])
<1>1. \A j \in DOMAIN args : node(j) # "0" => node(j) \in Sampleable(c)
  BY ReachesVoltage DEF Sampleable
<1>2. 1 \in DOMAIN args /\ Len(args) \in {1, 2} /\ (Len(args) = 2 => 2 \in DOMAIN args)
  BY DEF References
<1>3. RewriteNodeRefs(c, Deck(c), args) =
         IF node(1) = "0" THEN <<>>
         ELSE IF Len(args) = 1 \/ node(2) = "0" THEN <<node(1)>> ELSE <<node(1), node(2)>>
  BY RewriteIs
<1> HIDE DEF node
<1> QED  BY <1>1, <1>2, <1>3 DEF VoltageArgs

\* The references of a criterion.
LEMMA CriterionFacts ==
  ASSUME NEW c \in Circuits, NEW k \in DOMAIN Criteria(c)
  PROVE  LET criterion == Criteria(c)[k]
         IN  \/ /\ criterion.kind = "v"
                /\ References(criterion.args)
                /\ \A j \in DOMAIN criterion.args :
                      /\ Known(c, criterion.args[j])
                      /\ \/ criterion.args[j] = "0"
                         \/ \E i \in DOMAIN c.nets : criterion.args[j] \in Names(c, i)
             \/ /\ criterion.kind = "i"
                /\ \E i \in DOMAIN c.parts : criterion.args = <<Lower(c.parts[i].designator)>>
<1> DEFINE criterion == Criteria(c)[k]
<1>1. Criterion(c, criterion)
  <2>1. criterion \in Range(Criteria(c))
    BY DEF Range
  <2> QED  BY <2>1, CriteriaAssumption
<1> HIDE DEF criterion
<1>2. CASE criterion.kind = "v"
  <2>1. /\ Len(criterion.args) \in {1, 2} /\ DOMAIN criterion.args = 1 .. Len(criterion.args)
        /\ \A j \in DOMAIN criterion.args :
              criterion.args[j] \in {"0"} \cup UNION {{Lower(net.id), Lower(net.name)} :
                                          net \in Range(c.nets)}
    BY <1>1, <1>2 DEF Criterion
  <2>2. \A net \in Range(c.nets) : \E i \in DOMAIN c.nets : net = c.nets[i]
    BY DEF Range
  <2>3. \A j \in DOMAIN criterion.args :
           \/ criterion.args[j] = "0"
           \/ \E i \in DOMAIN c.nets : criterion.args[j] \in Names(c, i)
    BY <2>1, <2>2 DEF Names
  <2>4. \A j \in DOMAIN criterion.args : Known(c, criterion.args[j])
    BY <2>3 DEF Known
  <2> QED  BY <1>2, <2>1, <2>3, <2>4 DEF criterion, References
<1>3. CASE criterion.kind # "v"
  BY <1>1, <1>3 DEF Criterion, criterion
<1> QED  BY <1>2, <1>3

\* The column of a sampled net.
LEMMA SampledColumn ==
  ASSUME NEW c \in Circuits, NEW k \in Sampled(c)
  PROVE  LET x == NetRefToNode(c, Deck(c), VoltageOf(c, k))
         IN  ProbeColumns(c, Deck(c), Voltage(c, Deck(c), k)) =
                IF x = "0" THEN {} ELSE {[kind |-> "v", args |-> <<x>>]}
<1> DEFINE args == <<VoltageOf(c, k)>>
           x == NetRefToNode(c, Deck(c), VoltageOf(c, k))
           probe == Voltage(c, Deck(c), k)
<1>1. Len(args) = 1 /\ References(args) /\ args[1] = VoltageOf(c, k)
  BY DEF References
<1>2. probe.kind = "v" /\ probe.args = args
  BY DEF Voltage, VoltageOf
<1> HIDE DEF args, probe
<1>3. RewriteNodeRefs(c, Deck(c), args) = IF x = "0" THEN <<>> ELSE <<x>>
  BY <1>1, RewriteIs
<1>4. ProbeColumns(c, Deck(c), probe) =
         IF RewriteNodeRefs(c, Deck(c), args) = <<>> THEN {}
         ELSE {[kind |-> "v", args |-> RewriteNodeRefs(c, Deck(c), args)]}
  BY <1>2 DEF ProbeColumns
<1> HIDE DEF x
<1>5. <<x>> # <<>>
  OBVIOUS
<1>6. ProbeColumns(c, Deck(c), probe) = IF x = "0" THEN {} ELSE {[kind |-> "v", args |-> <<x>>]}
  BY <1>3, <1>4, <1>5
<1> QED  BY <1>6 DEF x, probe

\* A column is the voltage of nets or the current of a device.
LEMMA ColumnShape ==
  ASSUME NEW c \in Circuits, NEW service,
         NEW column \in LineAll(c, Deck(c), ProbesOf(c, Deck(c), ExtraProbes(service, Criteria(c))))
  PROVE  \/ column = [kind |-> "v", args |-> column.args] /\ VoltageArgs(c, column.args)
         \/ /\ column.kind \in {"i", "id"}
            /\ \E i \in Emitted(c) : column.args = <<InstanceName(c.parts[i])>>
<1>1. ASSUME NEW k \in Sampled(c), column \in ProbeColumns(c, Deck(c), Voltage(c, Deck(c), k))
      PROVE  column = [kind |-> "v", args |-> column.args] /\ VoltageArgs(c, column.args)
  <2> DEFINE x == NetRefToNode(c, Deck(c), VoltageOf(c, k))
  <2>1. x # "0" /\ column = [kind |-> "v", args |-> <<x>>]
    BY <1>1, SampledColumn
  <2>2. Known(c, VoltageOf(c, k))
    BY DEF Known, Sampled
  <2>3. x \in Sampleable(c)
    BY <2>1, <2>2, ReachesVoltage DEF Sampleable
  <2> HIDE DEF x
  <2>4. column.args = <<x>>
    BY <2>1
  <2> QED  BY <2>1, <2>3, <2>4 DEF VoltageArgs
<1>2. ASSUME NEW k \in DOMAIN Criteria(c), column \in ProbeColumns(c, Deck(c), Criteria(c)[k])
      PROVE  \/ column = [kind |-> "v", args |-> column.args] /\ VoltageArgs(c, column.args)
             \/ /\ column.kind \in {"i", "id"}
                /\ \E i \in Emitted(c) : column.args = <<InstanceName(c.parts[i])>>
  <2> DEFINE probe == Criteria(c)[k]
  <2>1. CASE probe.kind = "v"
    <3> DEFINE args == RewriteNodeRefs(c, Deck(c), probe.args)
    <3>1. args = <<>> \/ VoltageArgs(c, args)
      BY <2>1, CriterionFacts, RewriteVoltages
    <3>2. args # <<>> /\ column = [kind |-> "v", args |-> args]
      BY <1>2, <2>1 DEF ProbeColumns
    <3> HIDE DEF args
    <3>3. column.args = args
      BY <3>2
    <3> QED  BY <3>1, <3>2, <3>3
  <2>2. CASE probe.kind = "i"
    <3>1. column \in CurrentColumns(c, probe.args[1])
      BY <1>2, <2>2 DEF ProbeColumns
    <3>2. \E i \in Emitted(c) : \E kind \in {"i", "id"} :
             column = [kind |-> kind, args |-> <<InstanceName(c.parts[i])>>]
      BY <3>1 DEF CurrentColumns
    <3>3. PICK i \in Emitted(c), kind \in {"i", "id"} :
             column = [kind |-> kind, args |-> <<InstanceName(c.parts[i])>>]
      BY <3>2
    <3>4. column.kind = kind /\ column.args = <<InstanceName(c.parts[i])>>
      BY <3>3
    <3> QED  BY <3>4
  <2>3. probe.kind \in {"v", "i"}
    BY CriterionFacts
  <2> QED  BY <2>1, <2>2, <2>3
<1> QED  BY <1>1, <1>2, ColumnsAre

-----------------------------------------------------------------------------
(* The verdict.                                                            *)

\* Distinct voltages stay distinct when they are sanitised once more.
LEMMA SameSpelling ==
  ASSUME NEW c \in Circuits, NamesAreApart(c, Deck(c)),
         NEW u, VoltageArgs(c, u), NEW w, VoltageArgs(c, w), SanitizeAll(u) = SanitizeAll(w)
  PROVE  u = w
<1>1. \A x, y \in Sampleable(c) : SanitizeNodeName(x) = SanitizeNodeName(y) => x = y
  BY Apart DEF Sampleable
<1>2. \A x : SanitizeAll(<<x>>) = <<SanitizeNodeName(x)>>
  BY DEF SanitizeAll
<1>3. \A x, y : SanitizeAll(<<x, y>>) = <<SanitizeNodeName(x), SanitizeNodeName(y)>>
  BY DEF SanitizeAll
<1>4. ASSUME NEW x \in Sampleable(c), u = <<x>> PROVE u = w
  <2>1. ASSUME NEW y \in Sampleable(c), w = <<y>> PROVE u = w
    <3>1. <<SanitizeNodeName(x)>> = <<SanitizeNodeName(y)>>
      BY <1>2, <1>4, <2>1
    <3> QED  BY <1>1, <1>4, <2>1, <3>1
  <2>2. ASSUME NEW y \in Sampleable(c), NEW z \in Sampleable(c), w = <<y, z>> PROVE u = w
    <3>1. <<SanitizeNodeName(x)>> = <<SanitizeNodeName(y), SanitizeNodeName(z)>>
      BY <1>2, <1>3, <1>4, <2>2
    <3> QED  BY <3>1
  <2> QED  BY <2>1, <2>2 DEF VoltageArgs
<1>5. ASSUME NEW x \in Sampleable(c), NEW v \in Sampleable(c), u = <<x, v>> PROVE u = w
  <2>1. ASSUME NEW y \in Sampleable(c), w = <<y>> PROVE u = w
    <3>1. <<SanitizeNodeName(x), SanitizeNodeName(v)>> = <<SanitizeNodeName(y)>>
      BY <1>2, <1>3, <1>5, <2>1
    <3> QED  BY <3>1
  <2>2. ASSUME NEW y \in Sampleable(c), NEW z \in Sampleable(c), w = <<y, z>> PROVE u = w
    <3>1. <<SanitizeNodeName(x), SanitizeNodeName(v)>> = <<SanitizeNodeName(y), SanitizeNodeName(z)>>
      BY <1>3, <1>5, <2>2
    <3>2. SanitizeNodeName(x) = SanitizeNodeName(y) /\ SanitizeNodeName(v) = SanitizeNodeName(z)
      BY <3>1
    <3> QED  BY <1>1, <1>5, <2>2, <3>2
  <2> QED  BY <2>1, <2>2 DEF VoltageArgs
<1> QED  BY <1>4, <1>5 DEF VoltageArgs

\* The node a name means, once names are apart.
Meant(c, d, ref) == IF NamedNets(c, ref) = {} THEN "0"
                    ELSE VoltageNode(d, CHOOSE id \in NamedNets(c, ref) : TRUE)

LEMMA ReachesMeant ==
  ASSUME NEW c \in Circuits, NamesAreApart(c, Deck(c)), NEW ref,
         ref = "0" \/ \E i \in DOMAIN c.nets : ref \in Names(c, i)
  PROVE  NetRefToNode(c, Deck(c), ref) = Meant(c, Deck(c), ref)
<1>1. CASE \E i \in DOMAIN c.nets : ref \in Names(c, i)
  <2>1. PICK i \in DOMAIN c.nets : ref \in Names(c, i)
    BY <1>1
  <2>2. /\ NetRefToNode(c, Deck(c), ref) = VoltageOf(c, i)
        /\ NamedNets(c, ref) = {c.nets[i].id}
    BY <2>1, NameReaches
  <2>3. (CHOOSE id \in NamedNets(c, ref) : TRUE) = c.nets[i].id
    BY <2>2
  <2> QED  BY <2>2, <2>3 DEF Meant, VoltageOf
<1>2. CASE ~\E i \in DOMAIN c.nets : ref \in Names(c, i)
  BY <1>2, ReferenceStays DEF Meant
<1> QED  BY <1>1, <1>2

\* A criterion that is not dropped asks for the column of what it names.
LEMMA AskedIs ==
  ASSUME circuit \in Circuits, NamesAreApart(circuit, deck), deck = Deck(circuit),
         NEW criterion, References(criterion.args),
         \A j \in DOMAIN criterion.args :
            \/ criterion.args[j] = "0"
            \/ \E i \in DOMAIN circuit.nets : criterion.args[j] \in Names(circuit, i),
         RewriteNodeRefs(circuit, Deck(circuit), criterion.args) # <<>>
  PROVE  RewriteNodeRefs(circuit, Deck(circuit), criterion.args) = AskedColumn(criterion)
<1> DEFINE args == criterion.args
           node(j) == NetRefToNode(circuit, Deck(circuit), args[j])
           nodes == [k \in DOMAIN args |-> Meant(circuit, deck, args[k])]
           rewritten == RewriteNodeRefs(circuit, Deck(circuit), args)
<1>1. \A j \in DOMAIN args : node(j) = Meant(circuit, deck, args[j])
  BY ReachesMeant
<1>2. AskedColumn(criterion) = IF Len(args) = 2 /\ nodes[2] = "0" THEN <<nodes[1]>> ELSE nodes
  BY DEF AskedColumn, Meant
<1>3. rewritten = IF node(1) = "0" THEN <<>>
                  ELSE IF Len(args) = 1 \/ node(2) = "0" THEN <<node(1)>> ELSE <<node(1), node(2)>>
  BY RewriteIs
<1>4. Len(args) \in {1, 2} /\ DOMAIN args = 1 .. Len(args)
  BY DEF References
<1>5. nodes = [k \in 1 .. Len(args) |-> node(k)]
  BY <1>1, <1>4
<1> HIDE DEF args, node, nodes, rewritten
<1>6. rewritten # <<>>
  BY DEF rewritten, args
<1>7. CASE Len(args) = 1
  <2>1. nodes = <<node(1)>>
    BY <1>5, <1>7
  <2> QED  BY <1>2, <1>3, <1>6, <1>7, <2>1 DEF rewritten, args
<1>8. CASE Len(args) = 2
  <2>1. nodes = <<node(1), node(2)>> /\ nodes[1] = node(1) /\ nodes[2] = node(2)
    BY <1>5, <1>8
  <2> QED  BY <1>2, <1>3, <1>6, <1>8, <2>1 DEF rewritten, args
<1> QED  BY <1>4, <1>7, <1>8

AllColumns(c, service) == LineAll(c, Deck(c), ProbesOf(c, Deck(c), ExtraProbes(service, Criteria(c))))

\* What ngspice wrote: nothing, or columns of the probes.
LEMMA Written ==
  ASSUME CircuitInv, stage \in {"built", "finished", "judged"}
  PROVE  /\ columns \in Seq(AllColumns(circuit, path))
         /\ measured \in Seq(AllColumns(circuit, path))
<1>1. circuit \in Circuits /\ columns = LineOf(circuit, path) /\ measured \in {columns, <<>>}
  BY DEF CircuitInv
<1>2. Len(ProbesOf(circuit, Deck(circuit), ExtraProbes(path, Criteria(circuit)))) \in Nat
  BY <1>1, ProbesFacts
<1>3. columns \in Seq(AllColumns(circuit, path))
  BY <1>1, <1>2, LineFacts DEF LineOf, AllColumns
<1>4. <<>> \in Seq(AllColumns(circuit, path))
  OBVIOUS
<1> QED  BY <1>1, <1>3, <1>4

\* The answer that is a column is one of the line with the key of the criterion.
LEMMA AnswerIsFound ==
  ASSUME NEW c, NEW resolver, NEW all, NEW line \in Seq(all), NEW simOk, NEW criterion,
         Evaluate(c, resolver, line, simOk, criterion).by = "column"
  PROVE  LET column == Evaluate(c, resolver, line, simOk, criterion).column
         IN  /\ column \in all /\ line # <<>>
             /\ MeasuredKey(column) = MatchKey(c, resolver, criterion)
             /\ MatchKey(c, resolver, criterion).kind # "ground"
<1> DEFINE key == MatchKey(c, resolver, criterion)
           found == {k \in DOMAIN line : MeasuredKey(line[k]) = key}
           answer == Evaluate(c, resolver, line, simOk, criterion)
<1>1. answer = IF ~simOk THEN Nothing
               ELSE IF key.kind = "ground"
               THEN IF line = <<>> THEN Nothing ELSE [by |-> "ground", column |-> <<>>]
               ELSE IF found = {} THEN Nothing
               ELSE [by |-> "column", column |-> line[Max(found)]]
  BY DEF Evaluate
<1>2. Len(line) \in Nat /\ DOMAIN line = 1 .. Len(line) /\ \A k \in DOMAIN line : line[k] \in all
  BY LenProperties
<1>3. answer.by = "column"
  OBVIOUS
<1> HIDE DEF answer, key
<1>4. key.kind # "ground" /\ found # {} /\ answer.column = line[Max(found)]
  BY <1>1, <1>3 DEF Nothing
<1>5. Max(found) \in found
  <2>1. found \in SUBSET (0 .. Len(line))
    BY <1>2
  <2> HIDE DEF found
  <2> QED  BY <1>2, <1>4, <2>1, MaxIn
<1> QED  BY <1>2, <1>4, <1>5 DEF answer, key

\* A net is ground when it is named by a reference that stands for ground.
LEMMA GroundIsGround ==
  ASSUME NEW c \in Circuits, NamesAreApart(c, Deck(c)), NEW ref \in GroundRefs(c)
  PROVE  \A id \in NamedNets(c, ref) : Deck(c).node[id] = "0"
<1> SUFFICES ASSUME NEW id \in NamedNets(c, ref)
             PROVE  Deck(c).node[id] = "0"
  OBVIOUS
<1>1. PICK k \in DOMAIN c.nets : id = c.nets[k].id
  BY NetFacts DEF NamedNets
<1>2. ref \in Names(c, k)
  BY <1>1, NetFacts DEF NamedNets, Names
<1>3. c.nets[k].isGround
  <2>1. CASE \E j \in DOMAIN c.nets : c.nets[j].isGround /\ ref \in Names(c, j)
    BY <1>2, <2>1, Apart
  <2>2. CASE ~\E j \in DOMAIN c.nets : c.nets[j].isGround /\ ref \in Names(c, j)
    <3>1. ref = "0" /\ \A j \in DOMAIN c.nets : Lower(c.nets[j].id) = "0" => c.nets[j].isGround
      BY <2>2 DEF GroundRefs, Names
    <3>2. \A j \in DOMAIN c.nets : Lower(c.nets[j].name) = "0" => c.nets[j].isGround
      BY Apart
    <3> QED  BY <1>2, <3>1, <3>2 DEF Names
  <2> QED  BY <2>1, <2>2
<1> QED  BY <1>1, <1>3, VoltageFacts

\* A column that decides a criterion is the one of the net, or of the part, it names.
LEMMA ColumnIsNamed ==
  ASSUME CircuitInv, stage = "judged", NamesAreApart(circuit, deck),
         NEW k \in DOMAIN Criteria(circuit),
         NEW answer, answer = Evaluate(circuit, Deck(circuit), measured, ran, Criteria(circuit)[k]),
         answer.by = "column"
  PROVE  LET criterion == Criteria(circuit)[k]
         IN  IF criterion.kind = "v"
             THEN answer.column = [kind |-> "v", args |-> AskedColumn(criterion)]
             ELSE answer.column.kind = "i" /\ \E i \in Emitted(circuit) :
                    /\ Lower(circuit.parts[i].designator) = criterion.args[1]
                    /\ InstanceName(circuit.parts[i]) = answer.column.args[1]
<1> DEFINE criterion == Criteria(circuit)[k]
           column == answer.column
           rewritten == RewriteNodeRefs(circuit, Deck(circuit), criterion.args)
           key == MatchKey(circuit, Deck(circuit), criterion)
<1>1. circuit \in Circuits /\ deck = Deck(circuit)
  BY DEF CircuitInv
<1>2. column \in AllColumns(circuit, path) /\ MeasuredKey(column) = key /\ key.kind # "ground"
  <2>1. measured \in Seq(AllColumns(circuit, path))
    BY Written
  <2> QED  BY <2>1, AnswerIsFound
<1>3. \/ column = [kind |-> "v", args |-> column.args] /\ VoltageArgs(circuit, column.args)
      \/ /\ column.kind \in {"i", "id"}
         /\ \E i \in Emitted(circuit) : column.args = <<InstanceName(circuit.parts[i])>>
  BY <1>1, <1>2, ColumnShape DEF AllColumns
<1>4. \/ /\ criterion.kind = "v"
         /\ References(criterion.args)
         /\ \A j \in DOMAIN criterion.args :
               /\ Known(circuit, criterion.args[j])
               /\ \/ criterion.args[j] = "0"
                  \/ \E i \in DOMAIN circuit.nets : criterion.args[j] \in Names(circuit, i)
      \/ /\ criterion.kind = "i"
         /\ \E i \in DOMAIN circuit.parts : criterion.args = <<Lower(circuit.parts[i].designator)>>
  BY <1>1, CriterionFacts
<1> HIDE DEF criterion, column
<1>5. CASE criterion.kind = "v"
  <2>1. key = [kind |-> IF rewritten = <<>> THEN "sign-ambiguous" ELSE "v", of |-> SanitizeAll(rewritten)]
    BY <1>2, <1>5 DEF MatchKey
  <2>2. MeasuredKey(column).kind = column.kind /\ MeasuredKey(column).kind \in {"v", "i", "id"}
    BY <1>3 DEF MeasuredKey
  <2> HIDE DEF key
  <2>3. rewritten # <<>> /\ key.kind = "v" /\ key.of = SanitizeAll(rewritten)
    BY <1>2, <2>1, <2>2
  <2>4. column.kind = "v"
    BY <1>2, <2>2, <2>3
  <2>5. MeasuredKey(column).of = SanitizeAll(column.args)
    BY <2>4 DEF MeasuredKey
  <2>6. VoltageArgs(circuit, rewritten)
    BY <1>1, <1>4, <1>5, <2>3, RewriteVoltages
  <2>7. column = [kind |-> "v", args |-> column.args] /\ VoltageArgs(circuit, column.args)
    BY <1>3, <2>4
  <2>8. SanitizeAll(column.args) = SanitizeAll(rewritten)
    BY <1>2, <2>3, <2>5
  <2> HIDE DEF rewritten
  <2>9. column.args = rewritten
    BY <1>1, <2>6, <2>7, <2>8, SameSpelling
  <2>10. rewritten = AskedColumn(criterion)
    BY <1>1, <1>4, <1>5, <2>3, AskedIs DEF rewritten
  <2>11. column = [kind |-> "v", args |-> AskedColumn(criterion)]
    BY <2>7, <2>9, <2>10
  <2> QED  BY <1>5, <2>11 DEF criterion, column
<1>6. CASE criterion.kind = "i"
  <2>1. key = [kind |-> "i", of |-> criterion.args]
    BY <1>6 DEF MatchKey
  <2>2. MeasuredKey(column).kind = column.kind
    BY DEF MeasuredKey
  <2>3. column.kind = "i"
    BY <1>2, <2>1, <2>2
  <2>4. column.args = criterion.args
    BY <1>2, <2>1, <2>3 DEF MeasuredKey
  <2>5. PICK i \in Emitted(circuit) : column.args = <<InstanceName(circuit.parts[i])>>
    BY <1>3, <2>3
  <2>6. PICK j \in DOMAIN circuit.parts : criterion.args = <<Lower(circuit.parts[j].designator)>>
    BY <1>4, <1>6
  <2>7. /\ InstanceName(circuit.parts[i]) = column.args[1]
        /\ Lower(circuit.parts[j].designator) = criterion.args[1]
        /\ InstanceName(circuit.parts[i]) = Lower(circuit.parts[j].designator)
    <3> DEFINE x == InstanceName(circuit.parts[i])
               y == Lower(circuit.parts[j].designator)
    <3>1. column.args = <<x>> /\ column.args = <<y>> /\ criterion.args = <<y>>
      BY <2>4, <2>5, <2>6
    <3> HIDE DEF x, y
    <3>2. column.args[1] = x /\ column.args[1] = y /\ criterion.args[1] = y
      BY <3>1
    <3> QED  BY <3>2 DEF x, y
  <2>8. i = j
    BY <1>1, <2>7, Apart
  <2>9. column.kind = "i" /\ \E part \in Emitted(circuit) :
           /\ Lower(circuit.parts[part].designator) = criterion.args[1]
           /\ InstanceName(circuit.parts[part]) = column.args[1]
    BY <2>3, <2>7, <2>8
  <2> QED  BY <1>6, <2>9 DEF criterion, column
<1> QED  BY <1>4, <1>5, <1>6

\* A criterion is decided by the column of the net it names: the names of the probes, of
\* the nodes and of the columns (generateNetlist, planMixedSignal, evaluateAssertions)
\* lead back to one net, if the names of the circuit are apart.
THEOREM CriteriaAreBound == Spec => []BoundToNamedNet
<1>1. CircuitInv => BoundToNamedNet
  <2> SUFFICES ASSUME CircuitInv, stage = "judged", NamesAreApart(circuit, deck), NEW k \in DOMAIN answers
               PROVE  LET criterion == Criteria(circuit)[k]
                          answer == answers[k]
                      IN  /\ answer.by # "nothing" => measured # <<>>
                          /\ answer.by = "column" =>
                              IF criterion.kind = "v"
                              THEN answer.column = [kind |-> "v", args |-> AskedColumn(criterion)]
                              ELSE answer.column.kind = "i" /\ \E i \in Emitted(circuit) :
                                      /\ Lower(circuit.parts[i].designator) = criterion.args[1]
                                      /\ InstanceName(circuit.parts[i]) = answer.column.args[1]
                          /\ answer.by = "ground" =>
                              \A id \in NamedNets(circuit, criterion.args[1]) : deck.node[id] = "0"
    BY DEF BoundToNamedNet
  <2> DEFINE criterion == Criteria(circuit)[k]
             answer == answers[k]
  <2>1. /\ circuit \in Circuits /\ deck = Deck(circuit)
        /\ answers = EvaluateAssertions(circuit, measured, ran)
    BY DEF CircuitInv
  <2>2. /\ k \in DOMAIN Criteria(circuit)
        /\ answer = Evaluate(circuit, Deck(circuit), measured, ran, criterion)
    BY <2>1 DEF EvaluateAssertions
  <2>3. ASSUME answer.by = "ground"
        PROVE  measured # <<>> /\ criterion.kind # "i" /\ criterion.args[1] \in GroundRefs(circuit)
    <3>1. MatchKey(circuit, Deck(circuit), criterion).kind = "ground" /\ measured # <<>>
      BY <2>2, <2>3 DEF Evaluate, Nothing
    <3> QED  BY <3>1 DEF MatchKey
  <2>4. ASSUME answer.by = "column" PROVE measured # <<>>
    <3>1. measured \in Seq(AllColumns(circuit, path))
      BY Written
    <3> QED  BY <2>2, <2>4, <3>1, AnswerIsFound
  <2>5. answer.by \in {"nothing", "ground", "column"}
    BY <2>2 DEF Evaluate, Nothing
  <2>6. answer.by = "column" =>
           IF criterion.kind = "v"
           THEN answer.column = [kind |-> "v", args |-> AskedColumn(criterion)]
           ELSE answer.column.kind = "i" /\ \E i \in Emitted(circuit) :
                   /\ Lower(circuit.parts[i].designator) = criterion.args[1]
                   /\ InstanceName(circuit.parts[i]) = answer.column.args[1]
    BY <2>2, ColumnIsNamed
  <2>7. answer.by = "ground" =>
           \A id \in NamedNets(circuit, criterion.args[1]) : deck.node[id] = "0"
    BY <2>1, <2>3, GroundIsGround
  <2> HIDE DEF answer, criterion
  <2>8. answer.by # "nothing" => measured # <<>>
    BY <2>3, <2>4, <2>5
  <2> QED  BY <2>6, <2>7, <2>8 DEF answer, criterion
<1> QED  BY <1>1, CircuitInvariant, PTL

-----------------------------------------------------------------------------
(* What can be measured is measured.                                       *)

\* The voltage of a net that a device touches can be sampled: it is a twin, or the node
\* of an analog pin, and there is no third case once the rules have passed.
LEMMA VoltageIsAnalog ==
  ASSUME NEW c \in Circuits, ~NetNotFound(c), Errors(c) = {},
         NEW k \in DOMAIN c.nets, ~Bare(c, c.nets[k].id), VoltageOf(c, k) # "0"
  PROVE  VoltageOf(c, k) \in AnalogNodes(c, Deck(c))
<1> DEFINE d == Deck(c)
           id == c.nets[k].id
<1>1. DeckOK(c, d) /\ id \in NetIds(c) /\ NetOf(c, id) = c.nets[k]
  BY DeckFacts, NetFacts
<1>2. CASE id \in DOMAIN d.twin
  <2> HIDE DEF d
  <2>1. <<d.node[id], d.twin[id]>> \in d.dac
    BY <1>1, <1>2 DEF DeckOK
  <2>2. d.twin[id] \in AnalogNodes(c, d)
    BY <2>1 DEF AnalogNodes
  <2>3. VoltageOf(c, k) = d.twin[id]
    BY <1>2, VoltageFacts DEF d
  <2> QED  BY <2>2, <2>3 DEF d
<1>3. CASE id \notin DOMAIN d.twin
  <2>1. VoltageOf(c, k) = d.node[id] /\ ~c.nets[k].isGround
    BY <1>3, VoltageFacts
  <2>2. id \notin TwinIds(c)
    BY <1>1, <1>3 DEF DeckOK
  <2>3. PICK pin \in PinsOn(c, id) : pin \in EmittedPins(c)
    BY <1>1, <2>1 DEF Bare
  <2>4. NetAt(c, pin) = id
    BY DEF PinsOn
  <2>5. AnalogOn(c, id) # {}
    <3>1. SUFFICES ASSUME AnalogOn(c, id) = {} PROVE FALSE
      OBVIOUS
    <3>2. pin \in SourcesOn(c, id) \cup SinksOn(c, id)
      BY <2>3, <2>4, <3>1, PinFacts
    <3>3. SourcesOn(c, id) = {}
      BY <1>1, <2>2, <3>1 DEF TwinIds
    <3>4. FloatingDigitalInput(c)
      BY <1>1, <2>1, <3>1, <3>2, <3>3 DEF FloatingDigitalInput
    <3> QED  BY <3>4, Passed
  <2>6. PICK a : a \in AnalogOn(c, id)
    BY <2>5
  <2>7. a \in Pins(c) /\ NetAt(c, a) = id /\ a \in Electrical(c) /\ TypeAt(c, a) \notin DigitalTypes
    BY <2>6 DEF AnalogOn, PinsOn
  <2>8. a[1] \in DOMAIN c.parts
    BY <2>7 DEF Pins
  <2>9. c.parts[a[1]].type = "vcvs" => c.parts[a[1]].value # "none"
    BY <2>8, Passed DEF MissingValue
  <2>10. a \in EmittedPins(c)
    BY <2>7, <2>8, <2>9 DEF EmittedPins, Emitted, Electrical, TypeAt
  <2>11. NodeAt(c, d, a) = d.node[id]
    BY <2>7, <2>10, WhereAPinIs
  <2>12. d.node[id] \in AnalogNodes(c, d)
    BY <2>7, <2>10, <2>11 DEF AnalogNodes
  <2> QED  BY <2>1, <2>12
<1> QED  BY <1>2, <1>3

LEMMA LineIsLostToBareNets ==
  ASSUME CircuitInv, stage = "built", LineAborts
  PROVE  \E id \in NetIds(circuit) : Bare(circuit, id)
<1>1. /\ circuit \in Circuits /\ ~NetNotFound(circuit) /\ Errors(circuit) = {} /\ deck = Deck(circuit)
      /\ columns \in Seq(AllColumns(circuit, path))
  BY Written DEF CircuitInv, DeckRefusal
<1>2. PICK k \in DOMAIN columns :
         /\ columns[k].kind = "v"
         /\ \E j \in DOMAIN columns[k].args : columns[k].args[j] \notin AnalogNodes(circuit, deck)
  BY DEF LineAborts
<1>3. PICK j \in DOMAIN columns[k].args : columns[k].args[j] \notin AnalogNodes(circuit, deck)
  BY <1>2
<1>4. columns[k] \in AllColumns(circuit, path)
  BY <1>1, LenProperties
<1>5. VoltageArgs(circuit, columns[k].args)
  BY <1>1, <1>2, <1>4, ColumnShape DEF AllColumns
<1>6. columns[k].args[j] \in Sampleable(circuit)
  <2> DEFINE args == columns[k].args
  <2> HIDE DEF args
  <2>1. VoltageArgs(circuit, args) /\ j \in DOMAIN args
    BY <1>3, <1>5 DEF args
  <2>2. args[j] \in Sampleable(circuit)
    BY <2>1 DEF VoltageArgs
  <2> QED  BY <2>2 DEF args
<1>7. PICK n \in DOMAIN circuit.nets : columns[k].args[j] = VoltageOf(circuit, n) /\ VoltageOf(circuit, n) # "0"
  BY <1>6 DEF Sampleable
<1>8. Bare(circuit, circuit.nets[n].id)
  BY <1>1, <1>3, <1>7, VoltageIsAnalog
<1> QED  BY <1>8, NetFacts, <1>1

\* A criterion on which there is a column with its key, or that ground answers, is not
\* left without an answer.
LEMMA AnswerIsGiven ==
  ASSUME NEW c, NEW resolver, NEW line, line # <<>>, NEW criterion,
         \/ MatchKey(c, resolver, criterion).kind = "ground"
         \/ \E column \in Range(line) : MeasuredKey(column) = MatchKey(c, resolver, criterion)
  PROVE  Evaluate(c, resolver, line, TRUE, criterion).by # "nothing"
<1> DEFINE key == MatchKey(c, resolver, criterion)
           found == {k \in DOMAIN line : MeasuredKey(line[k]) = key}
<1>1. Evaluate(c, resolver, line, TRUE, criterion) =
         IF key.kind = "ground" THEN [by |-> "ground", column |-> <<>>]
         ELSE IF found = {} THEN Nothing
         ELSE [by |-> "column", column |-> line[Max(found)]]
  BY DEF Evaluate
<1>2. key.kind = "ground" \/ found # {}
  BY DEF Range
<1> DEFINE answer == Evaluate(c, resolver, line, TRUE, criterion)
           value == line[Max(found)]
<1>3. CASE key.kind = "ground"
  <2>1. answer = [by |-> "ground", column |-> <<>>]
    BY <1>1, <1>3
  <2> HIDE DEF answer
  <2>2. answer.by # "nothing"
    BY <2>1
  <2> QED  BY <2>2 DEF answer
<1>4. CASE key.kind # "ground"
  <2>1. answer = [by |-> "column", column |-> value]
    BY <1>1, <1>2, <1>4
  <2> HIDE DEF answer, value
  <2>2. answer.by # "nothing"
    BY <2>1
  <2> QED  BY <2>2 DEF answer
<1> QED  BY <1>3, <1>4

\* The column of a single voltage is among the default ones, that of a difference is
\* asked for by the verification.
LEMMA VoltageIsAnswered ==
  ASSUME CircuitInv, stage = "judged", path = "verify", measured # <<>>, ran, NamesAreApart(circuit, deck),
         NEW k \in DOMAIN Criteria(circuit),
         NEW criterion, criterion = Criteria(circuit)[k], criterion.kind = "v",
         \A j \in DOMAIN criterion.args : NamedNets(circuit, criterion.args[j]) # {},
         NEW grounded, grounded <=> \E id \in NamedNets(circuit, criterion.args[1]) : deck.node[id] = "0",
         IF Len(criterion.args) = 2 THEN ~grounded
         ELSE grounded \/ \E j \in Sampled(circuit) :
                              circuit.nets[j].id \in NamedNets(circuit, criterion.args[1])
  PROVE  Evaluate(circuit, Deck(circuit), measured, ran, criterion).by # "nothing"
<1> DEFINE c == circuit
           args == criterion.args
           d == Deck(c)
           probes == ProbesOf(c, d, ExtraProbes("verify", Criteria(c)))
           rewritten == RewriteNodeRefs(c, d, args)
<1>1. /\ c \in Circuits /\ ~NodeCollision(c) /\ deck = d
      /\ measured = Columns(c, d, ExtraProbes("verify", Criteria(c)))
  BY DEF CircuitInv, DeckRefusal, LineOf
<1>2. /\ References(args)
      /\ \A j \in DOMAIN args : args[j] = "0" \/ \E i \in DOMAIN c.nets : args[j] \in Names(c, i)
  BY <1>1, CriterionFacts
<1>3. Len(args) \in {1, 2} /\ 1 \in DOMAIN args
  <2> HIDE DEF args
  <2>1. Len(args) \in {1, 2} /\ DOMAIN args = 1 .. Len(args)
    BY <1>2 DEF References
  <2> QED  BY <2>1
<1>4. PICK i \in DOMAIN c.nets : args[1] \in Names(c, i)
  BY <1>1, <1>2, <1>3, ReferenceStays
<1>5. /\ NetRefToNode(c, d, args[1]) = VoltageOf(c, i)
      /\ NamedNets(c, args[1]) = {c.nets[i].id}
  BY <1>1, <1>4, NameReaches
<1>6. \A j \in 1 .. Len(probes) : \A column :
         ProbeAll(c, d, probes, j) = {column} => column \in Range(measured)
  <2>1. Len(ProbesOf(c, d, ExtraProbes("verify", Criteria(c)))) \in Nat
    BY <1>1, ProbesFacts
  <2> QED  BY <1>1, <2>1, LineFacts
<1>7. /\ \A j \in Sampled(c) : \E p \in 1 .. Len(probes) : probes[p] = {Voltage(c, d, j)}
      /\ \A j \in DOMAIN Criteria(c) : Len(Criteria(c)[j].args) = 2 =>
            \E p \in 1 .. Len(probes) : probes[p] = {Criteria(c)[j]}
  BY <1>1, ProbesAre, ZenonT(60)
<1>8. ASSUME NEW probe, NEW p \in 1 .. Len(probes), probes[p] = {probe}
      PROVE  ProbeAll(c, d, probes, p) = ProbeColumns(c, d, probe)
  BY <1>8 DEF ProbeAll
<1> HIDE DEF probes
<1>9. grounded <=> c.nets[i].isGround
  <2>1. grounded <=> d.node[c.nets[i].id] = "0"
    BY <1>1, <1>5
  <2> QED  BY <1>1, <2>1, VoltageFacts
<1>10. CASE Len(args) = 1 /\ args[1] \in GroundRefs(c)
  <2>1. MatchKey(c, d, criterion).kind = "ground"
    BY <1>10 DEF MatchKey
  <2> QED  BY <2>1, AnswerIsGiven
<1>11. CASE Len(args) = 1 /\ args[1] \notin GroundRefs(c)
  <2>1. ~c.nets[i].isGround
    BY <1>4, <1>11 DEF GroundRefs, Names
  <2>2. i \in Sampled(c)
    <3>1. PICK j \in Sampled(c) : c.nets[j].id \in NamedNets(c, args[1])
      BY <1>9, <1>11, <2>1
    <3>2. j \in DOMAIN c.nets
      BY DEF Sampled
    <3>3. c.nets[j].id = c.nets[i].id
      BY <1>5, <3>1
    <3>4. j = i
      BY <1>1, <3>2, <3>3, NetFacts
    <3> QED  BY <3>4
  <2>3. VoltageOf(c, i) # "0" /\ NetRefToNode(c, d, VoltageOf(c, i)) = VoltageOf(c, i)
    BY <1>1, <2>1, VoltageFacts, VoltageStays
  <2> DEFINE column == [kind |-> "v", args |-> <<VoltageOf(c, i)>>]
  <2>4. ProbeColumns(c, d, Voltage(c, d, i)) = {column}
    BY <1>1, <2>2, <2>3, SampledColumn
  <2>5. column \in Range(measured)
    <3> HIDE DEF c, d, args, column, rewritten
    <3>1. PICK p \in 1 .. Len(probes) : probes[p] = {Voltage(c, d, i)}
      BY <1>7, <2>2
    <3>2. ProbeAll(c, d, probes, p) = {column}
      BY <1>8, <2>4, <3>1
    <3> QED  BY <1>6, <3>2
  <2>6. rewritten = <<VoltageOf(c, i)>>
    BY <1>2, <1>5, <1>11, <2>3, RewriteIs
  <2>7. MatchKey(c, d, criterion) = [kind |-> "v", of |-> SanitizeAll(<<VoltageOf(c, i)>>)]
    <3>1. <<VoltageOf(c, i)>> # <<>>
      OBVIOUS
    <3>2. MatchKey(c, d, criterion) =
             [kind |-> IF rewritten = <<>> THEN "sign-ambiguous" ELSE "v", of |-> SanitizeAll(rewritten)]
      BY <1>11 DEF MatchKey
    <3> HIDE DEF rewritten
    <3> QED  BY <2>6, <3>1, <3>2
  <2>8. MeasuredKey(column) = [kind |-> "v", of |-> SanitizeAll(<<VoltageOf(c, i)>>)]
    BY DEF MeasuredKey
  <2> HIDE DEF column
  <2> QED  BY <2>5, <2>7, <2>8, AnswerIsGiven
<1>12. CASE Len(args) = 2
  <2>1. VoltageOf(c, i) # "0"
    BY <1>1, <1>9, <1>12, VoltageFacts
  <2>2. rewritten # <<>>
    <3> DEFINE x == NetRefToNode(c, d, args[1])
               y == NetRefToNode(c, d, args[2])
    <3>1. rewritten = IF x = "0" THEN <<>> ELSE IF Len(args) = 1 \/ y = "0" THEN <<x>> ELSE <<x, y>>
      BY <1>2, RewriteIs
    <3>2. x # "0"
      BY <1>5, <2>1
    <3> HIDE DEF x, y, rewritten
    <3> QED  BY <3>1, <3>2
  <2> DEFINE column == [kind |-> "v", args |-> rewritten]
  <2>3. ProbeColumns(c, d, criterion) = {column}
    BY <2>2 DEF ProbeColumns
  <2>4. column \in Range(measured)
    <3>1. k \in DOMAIN Criteria(c) /\ Criteria(c)[k] = criterion
      OBVIOUS
    <3>2. Len(Criteria(c)[k].args) = 2
      BY <1>12
    <3> HIDE DEF c, d, args, column, rewritten
    <3>3. PICK p \in 1 .. Len(probes) : probes[p] = {criterion}
      BY <1>7, <3>1, <3>2
    <3>4. ProbeAll(c, d, probes, p) = {column}
      BY <1>8, <2>3, <3>3
    <3> QED  BY <1>6, <3>4
  <2>5. MatchKey(c, d, criterion) = [kind |-> "v", of |-> SanitizeAll(rewritten)]
    BY <1>12, <2>2 DEF MatchKey
  <2>6. MeasuredKey(column) = [kind |-> "v", of |-> SanitizeAll(rewritten)]
    BY DEF MeasuredKey
  <2> HIDE DEF column, rewritten
  <2> QED  BY <2>4, <2>5, <2>6, AnswerIsGiven
<1> QED  BY <1>3, <1>10, <1>11, <1>12

\* What can be measured is measured: the rule check lets no circuit through whose output
\* line ngspice would give up, but for nets that no device touches; and on the road of a
\* verification the line has the column of every sampled net and of every difference.
THEOREM WhatIsNamedIsAnswered == Spec => []NamedNetIsAnswered
<1>1. CircuitInv => NamedNetIsAnswered
  <2> SUFFICES ASSUME CircuitInv
               PROVE  NamedNetIsAnswered
    OBVIOUS
  <2>1. (stage = "built" /\ LineAborts) => \E id \in NetIds(circuit) : Bare(circuit, id)
    BY LineIsLostToBareNets
  <2>2. ASSUME stage = "judged", path = "verify", measured # <<>>, ran, NamesAreApart(circuit, deck),
               NEW k \in DOMAIN answers,
               Criteria(circuit)[k].kind = "v",
               \A j \in DOMAIN Criteria(circuit)[k].args :
                  NamedNets(circuit, Criteria(circuit)[k].args[j]) # {},
               IF Len(Criteria(circuit)[k].args) = 2
               THEN ~(\E id \in NamedNets(circuit, Criteria(circuit)[k].args[1]) : deck.node[id] = "0")
               ELSE \/ \E id \in NamedNets(circuit, Criteria(circuit)[k].args[1]) : deck.node[id] = "0"
                    \/ \E j \in Sampled(circuit) :
                          circuit.nets[j].id \in NamedNets(circuit, Criteria(circuit)[k].args[1])
        PROVE  answers[k].by # "nothing"
    <3>1. answers = EvaluateAssertions(circuit, measured, ran)
      BY <2>2 DEF CircuitInv
    <3>2. /\ k \in DOMAIN Criteria(circuit)
          /\ answers[k] = Evaluate(circuit, Deck(circuit), measured, ran, Criteria(circuit)[k])
      BY <3>1, <2>2 DEF EvaluateAssertions
    <3> QED  BY <2>2, <3>2, VoltageIsAnswered
  <2> QED  BY <2>1, <2>2 DEF NamedNetIsAnswered
<1> QED  BY <1>1, CircuitInvariant, PTL

\* Every column is a voltage or a current and every answer one of the three kinds: the
\* type invariant follows from what the line and the verdict are made of.
THEOREM CircuitTypeCorrect == Spec => []TypeOK
<1>1. CircuitInv => TypeOK
  <2> SUFFICES ASSUME CircuitInv PROVE TypeOK
    OBVIOUS
  <2>1. /\ circuit \in Circuits /\ path \in {"verify", "design"} /\ ran \in BOOLEAN
        /\ stage \in {"drawn", "passed", "rejected", "refused", "built", "finished", "judged"}
    BY DEF CircuitInv
  <2>2. \A k \in DOMAIN columns : columns[k].kind \in {"v", "i", "id"}
    <3>1. CASE stage \in {"drawn", "passed", "rejected", "refused"}
      BY <3>1 DEF CircuitInv
    <3>2. CASE stage \in {"built", "finished", "judged"}
      <4>1. columns \in Seq(AllColumns(circuit, path))
        BY <3>2, Written
      <4>2. \A k \in DOMAIN columns : columns[k] \in AllColumns(circuit, path)
        BY <4>1, LenProperties
      <4>3. ASSUME NEW column \in AllColumns(circuit, path)
            PROVE  column.kind \in {"v", "i", "id"}
        BY <2>1, ColumnShape DEF AllColumns
      <4> QED  BY <4>2, <4>3
    <3> QED  BY <2>1, <3>1, <3>2
  <2>3. \A k \in DOMAIN answers : answers[k].by \in {"column", "ground", "nothing"}
    <3>1. CASE stage # "judged"
      BY <3>1 DEF CircuitInv
    <3>2. CASE stage = "judged"
      <4>1. answers = EvaluateAssertions(circuit, measured, ran)
        BY <3>2 DEF CircuitInv
      <4>2. \A resolver, line, simOk, criterion :
               Evaluate(circuit, resolver, line, simOk, criterion).by \in {"column", "ground", "nothing"}
        BY DEF Evaluate, Nothing
      <4> QED  BY <4>1, <4>2 DEF EvaluateAssertions
    <3> QED  BY <3>1, <3>2
  <2> QED  BY <2>1, <2>2, <2>3 DEF TypeOK
<1> QED  BY <1>1, CircuitInvariant, PTL
=============================================================================
