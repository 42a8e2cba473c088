--------------------------- MODULE NarrowingProofs ---------------------------
(***************************************************************************)
(* Narrowing a given diagram is correct for every width and partition, and*)
(* for every diagram that is Steady: RelaxReduce loses no tuple and ends  *)
(* within the width, RestrictedReduce adds none, and neither uses a node   *)
(* that it deleted.  On other diagrams a part can be given a node that     *)
(* waits for its deletion, and the code loses tuples (run relax_revived).  *)
(*                                                                         *)
(* The inductive invariant says of the layers that are still to come that *)
(* they hold the given nodes and, in the next two, nodes that were made    *)
(* for sets of them; of those above that a node has an arc wherever one of*)
(* its units has one, to a node that stands for the end (relaxed), or     *)
(* only where each of them has one (restricted).                           *)
(***************************************************************************)
EXTENDS Narrowing, ReadingLemmas

\* The first layer that is not narrowed yet.
Ahead == IF step = "idle" THEN layer + 1 ELSE layer

\* The given nodes of a layer: the units of those that are made in it.
Unit(l) == ToSet(job.nodes[l])

\* What a node stands for; the root is in no set.
Stands(n) == IF n \in Unit(0) THEN {n} ELSE setOf[n]

\* The nodes of a layer that are not waiting for their deletion.
Present(l) == {n \in alive : varIndex[n] = l /\ n \notin ToSet(toDel)}

\* No part gets a node that left the diagram with the last node that led to it.
NotRevived ==
  step = "part" /\ parts # <<>> /\ Head(parts) # {} =>
    NodeFor(Units(Head(parts))) \notin ToSet(toDel)

-----------------------------------------------------------------------------
(***************************************************************************)
(* The invariant.                                                          *)
(***************************************************************************)
Types ==
  /\ job \in DiagramJobs
  /\ nodes \in [Layer -> Seq(Node)] /\ alive \subseteq Node
  /\ varIndex \in [Node -> Layer] /\ arcs \in [Node -> Seq(Arc)]
  /\ nbIn \in [Node -> Int] /\ newV \in [Node -> Node]
  /\ free \in Seq(Node) /\ IsInjective(free) /\ ToSet(free) = Node \ alive
  /\ setOf \in [Node -> SUBSET Node] /\ \A S \in DOMAIN nodeOf : nodeOf[S] \in Node
  /\ layer \in 0..Size - 1 /\ cleans = TRUE

\* The steps of a call and their cursors.
Cursors ==
  /\ step \in {"idle", "part", "build", "fill", "above", "clean"}
  /\ step # "idle" => layer # 0
  /\ parts \in Seq(SUBSET Node) /\ (step \in {"build", "above", "clean"} => parts = <<>>)
  /\ newNodes \in Seq(Node) /\ todo \in Seq(Node) /\ label \in Nat
  /\ step = "above" => todo = <<>>
  /\ IF making = Null THEN TRUE
     ELSE /\ Building /\ todo # <<>> /\ making = Head(todo)
          /\ making \in Unit(layer) => job.arcs[making] = <<>>
  /\ Building => ToSet(todo) \subseteq Present(layer)

\* Nodes are counted, and arcs lead from a living node to one of the next layer.
Counted == \A m \in alive : nbIn[m] = Cardinality(ArcsInto(m, alive))

Linked ==
  \A n \in Node : \A i \in DOMAIN arcs[n] :
    /\ n \in alive /\ arcs[n][i].end \in alive
    /\ varIndex[arcs[n][i].end] = varIndex[n] + 1

Lists ==
  /\ \A l \in Layer : IsInjective(nodes[l])
  /\ \A l \in Layer : \A n \in Listed(l) : n \in alive /\ varIndex[n] = l
  /\ nodes[0] = job.nodes[0]

\* What waits for its deletion has no arc into it.
Waiting ==
  /\ toDel \in Seq(Node) /\ IsInjective(toDel)
  /\ \A n \in ToSet(toDel) :
       /\ n \in alive /\ varIndex[n] \in 1..Ahead /\ nbIn[n] = 0
       /\ n \notin Listed(varIndex[n])
       /\ \A i \in DOMAIN arcs[n] : arcs[n][i].end \in Unit(varIndex[n] + 1)

\* The layers to come are as they were given,
Originals ==
  \A l \in Ahead..Size : \A u \in Unit(l) :
    /\ u \in alive /\ varIndex[u] = l
    /\ arcs[u] = job.arcs[u] /\ setOf[u] = {u}

\* but for the nodes of larger sets, which can be found again,
IsMade(n) == n \in alive /\ varIndex[n] >= Ahead /\ n \notin Unit(varIndex[n])

Made ==
  \A n \in Node : IsMade(n) =>
    /\ setOf[n] \subseteq Unit(varIndex[n]) /\ setOf[n] # {} /\ Cardinality(setOf[n]) # 1
    /\ varIndex[n] <= Ahead + 1
    /\ step \in {"idle", "part"} => varIndex[n] = Ahead
    /\ (step \in {"idle", "part"} \/ varIndex[n] = Ahead + 1) => arcs[n] = <<>>

Found ==
  \A S \in DOMAIN nodeOf : \A l \in Ahead..Size :
    S \subseteq Unit(l) /\ S # {} /\ Cardinality(S) # 1 =>
      nodeOf[S] \in alive /\ varIndex[nodeOf[S]] = l /\ setOf[nodeOf[S]] = S

\* and all of them are listed.
AllListed ==
  \A l \in Layer :
    job.kind = "relax" \/ l > Ahead \/ (l = Ahead /\ step \in {"idle", "part"})
      => Present(l) \subseteq Listed(l)

\* The node that the next part is given, just made.
Fresh(n) ==
  /\ parts # <<>> /\ Head(parts) # {}
  /\ n = NodeFor(Units(Head(parts))) /\ newV[n] = n

\* A node of the layer is led to one that stands for more, or its part is to come.
Leads ==
  step \in {"part", "build", "above"} =>
    /\ ToSet(newNodes) \subseteq Present(layer)
    /\ \A i \in DOMAIN parts : parts[i] \subseteq Present(layer)
    /\ Len(newNodes) + Len(parts) <= Width
    /\ \A n \in Present(layer) :
         \/ \E i \in DOMAIN parts : n \in parts[i]
         \/ Fresh(n)
         \/ newV[n] \in ToSet(newNodes) /\ setOf[n] \subseteq setOf[newV[n]]

\* What was cut off from the list of a layer (RestrictedReduce).
IsChain(c) ==
  /\ c \in Seq(Node) /\ c # <<>> /\ IsInjective(c)
  /\ \A n \in ToSet(c) :
       /\ n \in alive /\ varIndex[n] \in 1..layer
       /\ n \notin Listed(varIndex[n]) /\ n \notin ToSet(toDel)
       /\ \A m \in ToSet(c) : varIndex[m] = varIndex[n]

CutOff ==
  /\ \A c \in lost : IsChain(c)
  /\ \A c, d \in lost : c # d => ToSet(c) \cap ToSet(d) = {}

Base ==
  /\ Types /\ Cursors /\ Counted /\ Linked /\ Lists /\ Waiting /\ Originals /\ Made
  /\ Found /\ AllListed /\ Leads /\ CutOff

\* n has an arc wherever the unit u has one whose label is below v.
CoversBelow(n, u, v) ==
  \A a \in ToSet(job.arcs[u]) : a.value < v =>
    \E b \in ToSet(arcs[n]) : b.value = a.value /\ a.end \in setOf[b.end]

Covers(n) ==
  \A u \in Stands(n) : \A a \in ToSet(job.arcs[u]) :
    \E b \in ToSet(arcs[n]) : b.value = a.value /\ a.end \in setOf[b.end]

\* A relaxed node covers its units once its arcs are built.
Covered ==
  /\ \A l \in 0..Ahead - 1 : \A n \in Listed(l) : Covers(n)
  /\ \A n \in Node : IsMade(n) /\ n # making => arcs[n] = <<>> \/ Covers(n)
  /\ making # Null => \A u \in setOf[making] : CoversBelow(making, u, label)
  /\ step \in {"build", "above"} =>
       \A n \in ToSet(newNodes) : n \in ToSet(todo) \/ Covers(n)
  /\ step = "fill" => \A n \in Listed(layer) : n \in ToSet(todo) \/ Covers(n)
  /\ step = "clean" => \A n \in Listed(layer) : nbIn[n] = 0 \/ Covers(n)

EndsOf(l) == {a.end : a \in UNION {ToSet(arcs[n]) : n \in Listed(l)}}

Narrow ==
  /\ \A l \in 1..Ahead - 1 : Cardinality(EndsOf(l - 1)) <= Width
  /\ step = "fill" => Len(nodes[layer]) <= Width
  /\ step = "clean" => Cardinality(EndsOf(layer - 1)) <= Width

\* A restricted node has an arc only where all of its units have one.
Backed ==
  \A n \in alive : \A b \in ToSet(arcs[n]) : \A u \in Stands(n) :
    \E a \in ToSet(job.arcs[u]) : a.value = b.value /\ a.end \in setOf[b.end]

Running ==
  /\ Base
  /\ job.kind = "relax" => Covered /\ Narrow
  /\ job.kind = "restrict" => Backed

IInv ==
  /\ phase \in {"given", "loop", "done"}
  /\ IF phase = "given" THEN GivenInit
     ELSE Running /\ (phase = "done" => step = "idle" /\ layer + 1 = Size)

-----------------------------------------------------------------------------
(***************************************************************************)
(* The given diagram, and the node of a set.                               *)
(***************************************************************************)
LEMMA NodeIsFinite == IsFiniteSet(Node) /\ \A S \in SUBSET Node : IsFiniteSet(S)
BY NodesAreNumbered, FS_Subset

LEMMA LayersAre == Size \in Nat /\ Size >= 1 /\ Layer = 0..Size
BY SizeIsPositive DEF Layer

\* What is assumed of the diagrams, in terms of units.
LEMMA JobFacts ==
  ASSUME job \in DiagramJobs
  PROVE  /\ job.kind \in {"relax", "restrict"}
         /\ \A l \in Layer : /\ job.nodes[l] \in Seq(Node) /\ IsInjective(job.nodes[l])
                             /\ Unit(l) \subseteq Node
         /\ \A l, k \in Layer : l # k => Unit(l) \cap Unit(k) = {}
         /\ job.arcs \in [Node -> Seq(Arc)]
         /\ \A l \in Layer : \A u \in Unit(l) : \A a \in ToSet(job.arcs[u]) :
              l < Size /\ a \in Arc /\ a.end \in Unit(l + 1)
         /\ \E r \in Node : job.nodes[0] = <<r>> /\ Unit(0) = {r}
         /\ \E f \in Node : Unit(Size) = {f}
<1>1. IsDiagram(job)
  BY GivenAreDiagrams
<1>2. /\ job.kind \in {"relax", "restrict"}
      /\ job.nodes \in [Layer -> Seq(Node)] /\ job.arcs \in [Node -> Seq(Arc)]
      /\ \A l \in Layer : IsInjective(job.nodes[l])
      /\ \A l, k \in Layer : l # k => Unit(l) \cap Unit(k) = {}
      /\ Len(job.nodes[0]) = 1 /\ Len(job.nodes[Size]) = 1
  BY <1>1 DEF IsDiagram, Unit
<1>3. \A l \in Layer : job.nodes[l] \in Seq(Node) /\ Unit(l) \subseteq Node
  BY <1>2 DEF Unit, ToSet
<1>4. ASSUME NEW l \in Layer, NEW u \in Unit(l), NEW a \in ToSet(job.arcs[u])
      PROVE  l < Size /\ a \in Arc /\ a.end \in Unit(l + 1)
  <2>1. u \in Node
    BY <1>3
  <2>2. PICK i \in DOMAIN job.arcs[u] : a = job.arcs[u][i]
    BY DEF ToSet
  <2>3. job.arcs[u] \in Seq(Arc)
    BY <1>2, <2>1
  <2>4. a \in Arc
    BY <2>2, <2>3
  <2>5. PICK k \in 0..Size - 1 : u \in Unit(k) /\ a.end \in Unit(k + 1)
    BY <1>1, <2>1, <2>2 DEF IsDiagram, Unit
  <2>6. k \in Layer /\ k < Size
    BY LayersAre
  <2>7. k = l
    BY <1>2, <2>5, <2>6
  <2> QED
    BY <2>4, <2>5, <2>6, <2>7
<1>5. ASSUME NEW l \in Layer, Len(job.nodes[l]) = 1
      PROVE  \E r \in Node : job.nodes[l] = <<r>> /\ Unit(l) = {r}
  <2> DEFINE s == job.nodes[l]
  <2>1. s \in Seq(Node) /\ Len(s) = 1
    BY <1>3, <1>5
  <2> HIDE DEF s
  <2>2. s = <<s[1]>> /\ s[1] \in Node /\ DOMAIN s = {1}
    BY <2>1
  <2>3. ToSet(s) = {s[1]}
    BY <2>2 DEF ToSet
  <2> QED
    BY <2>2, <2>3 DEF Unit, s
<1>6. 0 \in Layer /\ Size \in Layer
  BY LayersAre
<1> QED
  BY <1>2, <1>3, <1>4, <1>5, <1>6

\* A list and the nodes in it.
LEMMA ListedIs == \A l : Listed(l) = ToSet(nodes[l])
BY DEF Listed, ToSet

\* A node that is found for a set of units stands for them.
LEMMA NodeForFacts ==
  ASSUME Types, Originals, Found, NEW l \in Ahead..Size, l \in Layer,
         NEW S, S \subseteq Unit(l), S # {}
  PROVE  /\ NodeFor(S) # Null =>
              /\ NodeFor(S) \in alive /\ NodeFor(S) \in Node
              /\ varIndex[NodeFor(S)] = l /\ setOf[NodeFor(S)] = S
         /\ NodeFor(S) = Null => S \notin DOMAIN nodeOf /\ Cardinality(S) # 1 /\ l < Size
<1>1. Unit(l) \subseteq Node /\ IsFiniteSet(S) /\ alive \subseteq Node
  BY JobFacts, NodeIsFinite DEF Types
<1>2. CASE Cardinality(S) = 1
  <2>1. PICK x : S = {x}
    BY <1>1, <1>2, FS_Singleton
  <2>2. NodeFor(S) = x
    BY <1>2, <2>1 DEF NodeFor
  <2>3. x \in alive /\ varIndex[x] = l /\ setOf[x] = {x}
    BY <2>1 DEF Originals
  <2> QED
    BY <1>1, <2>1, <2>2, <2>3, NullIsNoNode
<1>3. CASE Cardinality(S) # 1
  <2>1. CASE S \in DOMAIN nodeOf
    <3>1. NodeFor(S) = nodeOf[S]
      BY <1>3, <2>1 DEF NodeFor
    <3>2. nodeOf[S] \in alive /\ varIndex[nodeOf[S]] = l /\ setOf[nodeOf[S]] = S
      BY <1>3, <2>1 DEF Found
    <3> QED
      BY <1>1, <3>1, <3>2, NullIsNoNode
  <2>2. CASE S \notin DOMAIN nodeOf
    <3>1. NodeFor(S) = Null
      BY <1>3, <2>2 DEF NodeFor
    <3>2. l # Size
      <4> SUFFICES ASSUME l = Size
                   PROVE  FALSE
        OBVIOUS
      <4>1. PICK f \in Node : Unit(Size) = {f}
        BY JobFacts DEF Types
      <4>2. S = {f}
        BY <4>1
      <4> QED
        BY <1>3, <4>2, FS_Singleton
    <3> QED
      BY <1>3, <2>2, <3>1, <3>2, LayersAre
  <2> QED
    BY <2>1, <2>2
<1> QED
  BY <1>2, <1>3

\* The chains stay as long as their nodes do, out of the lists and of what is deleted.
LEMMA CutOffKept ==
  ASSUME CutOff, lost' = lost, layer \in Int, layer' \in Int, layer <= layer',
         \A c \in lost : \A n \in ToSet(c) :
           IsChain(c) => /\ n \in alive' /\ varIndex'[n] = varIndex[n]
                         /\ n \notin Listed(varIndex[n])' /\ n \notin ToSet(toDel')
  PROVE  CutOff'
<1>1. \A c, d \in lost' : c # d => ToSet(c) \cap ToSet(d) = {}
  BY DEF CutOff
<1>2. ASSUME NEW c \in lost
      PROVE  IsChain(c)'
  <2>1. IsChain(c)
    BY <1>2 DEF CutOff
  <2>2. \A n \in ToSet(c) : /\ n \in alive' /\ varIndex'[n] = varIndex[n]
                           /\ n \notin Listed(varIndex[n])' /\ n \notin ToSet(toDel')
    BY <2>1
  <2>3. ASSUME NEW n \in ToSet(c)
        PROVE  /\ n \in alive' /\ varIndex'[n] \in 1..layer'
               /\ n \notin Listed(varIndex[n])' /\ n \notin ToSet(toDel')
               /\ \A m \in ToSet(c) : varIndex'[m] = varIndex'[n]
    <3>1. varIndex[n] \in 1..layer /\ \A m \in ToSet(c) : varIndex[m] = varIndex[n]
      BY <2>1 DEF IsChain
    <3>2. varIndex'[n] \in 1..layer'
      BY <2>2, <3>1
    <3> QED
      BY <2>2, <3>1, <3>2
  <2>4. c \in Seq(Node) /\ c # <<>> /\ IsInjective(c)
    BY <2>1 DEF IsChain
  <2>5. \A l : Listed(l)' = ToSet(nodes'[l])
    BY DEF Listed, ToSet
  <2> QED
    BY <2>2, <2>3, <2>4, <2>5, ListedIs DEF IsChain
<1> QED
  BY <1>1, <1>2 DEF CutOff

\* An arc of a list, by its position.
LEMMA ArcsOf ==
  ASSUME Types, Linked, NEW n \in Node, NEW a \in ToSet(arcs[n])
  PROVE  /\ a \in Arc /\ a.end \in Node /\ n \in alive /\ a.end \in alive
         /\ varIndex[a.end] = varIndex[n] + 1
<1>1. PICK i \in DOMAIN arcs[n] : a = arcs[n][i]
  BY DEF ToSet
<1>2. arcs[n] \in Seq(Arc)
  BY DEF Types
<1> QED
  BY <1>1, <1>2 DEF Linked, Types

-----------------------------------------------------------------------------
(***************************************************************************)
(* A node is made.                                                         *)
(***************************************************************************)
Makes(n, S, l) ==
  /\ n \in Node /\ n \notin alive /\ alive' = alive \cup {n}
  /\ varIndex' = [varIndex EXCEPT ![n] = l]
  /\ arcs' = [arcs EXCEPT ![n] = <<>>]
  /\ nbIn' = [nbIn EXCEPT ![n] = 0]
  /\ newV' = [newV EXCEPT ![n] = n]
  /\ nodes' = [nodes EXCEPT ![l] = <<n>> \o @]
  /\ setOf' = [setOf EXCEPT ![n] = S]
  /\ nodeOf' = [R \in {S} \cup DOMAIN nodeOf |-> IF R = S THEN n ELSE nodeOf[R]]
  /\ free # <<>> /\ n = Head(free) /\ free' = Tail(free)

\* It is made for units of the layer of the parts, or of the layer below.
Making(n, S, l) ==
  /\ Base /\ Makes(n, S, l)
  /\ UNCHANGED <<job, phase, step, layer, cursors, toDel, cleans, lost>>
  /\ l \in Layer /\ l < Size
  /\ S \subseteq Unit(l) /\ S # {} /\ Cardinality(S) # 1 /\ S \notin DOMAIN nodeOf
  /\ \/ step = "part" /\ l = layer
     \/ Building /\ l = layer + 1

LEMMA MakeNodeMakes ==
  ASSUME Base, NEW l \in Layer, NEW S, S \subseteq Unit(l), S # {}, MakeNode(S),
         UNCHANGED <<job, phase, step, layer, cursors, toDel, cleans, lost>>,
         (step = "part" /\ l = layer) \/ (Building /\ l = layer + 1)
  PROVE  \E n \in Node : Making(n, S, l)
<1> DEFINE n == Head(free)
           u == CHOOSE x \in S : TRUE
<1>1. Types /\ Originals /\ Found
  BY DEF Base
<1>2. l \in Ahead..Size
  BY <1>1, LayersAre DEF Ahead, Building, Types
<1>3. NodeFor(S) = Null /\ free # <<>>
  BY DEF MakeNode
<1>4. S \notin DOMAIN nodeOf /\ Cardinality(S) # 1 /\ l < Size
  BY <1>1, <1>2, <1>3, NodeForFacts
<1>5. varIndex[u] = l
  <2>1. u \in S
    OBVIOUS
  <2> QED
    BY <1>1, <1>2, <2>1 DEF Originals
<1>6. n \in Node
  BY <1>1, <1>3 DEF Types
<1>7. CreateNode(n, l) /\ free' = Tail(free)
      /\ nodeOf' = [R \in {S} \cup DOMAIN nodeOf |-> IF R = S THEN n ELSE nodeOf[R]]
      /\ setOf' = [setOf EXCEPT ![n] = S]
  BY <1>5 DEF MakeNode
<1> HIDE DEF n, u
<1>8. Makes(n, S, l)
  BY <1>3, <1>6, <1>7 DEF Makes, CreateNode, n
<1> QED
  BY <1>4, <1>6, <1>8 DEF Making

\* What is new, and what is not.
LEMMA MakingFacts ==
  ASSUME NEW n \in Node, NEW S, NEW l, Making(n, S, l)
  PROVE  /\ step # "idle" /\ Ahead = layer /\ Ahead' = Ahead /\ l \in Ahead..Size /\ l <= Ahead + 1
         /\ n \notin alive /\ alive' = alive \cup {n} /\ alive \subseteq Node
         /\ \A m \in alive : /\ m # n /\ varIndex'[m] = varIndex[m] /\ arcs'[m] = arcs[m]
                             /\ nbIn'[m] = nbIn[m] /\ newV'[m] = newV[m]
                             /\ setOf'[m] = setOf[m]
         /\ varIndex'[n] = l /\ arcs'[n] = <<>> /\ nbIn'[n] = 0 /\ newV'[n] = n /\ setOf'[n] = S
         /\ \A m \in Node : m # n => arcs'[m] = arcs[m] /\ varIndex'[m] = varIndex[m]
         /\ nodes' \in [Layer -> Seq(Node)]
         /\ \A k \in Layer : k # l => nodes'[k] = nodes[k] /\ Listed(k)' = Listed(k)
         /\ IsInjective(nodes'[l]) /\ Listed(l)' = Listed(l) \cup {n} /\ n \notin Listed(l)
         /\ \A k : Unit(k)' = Unit(k)
         /\ \A k \in Ahead..Size : n \notin Unit(k)
         /\ n \notin ToSet(toDel)
         /\ \A k : k # l => Present(k)' = Present(k)
         /\ Present(l)' = Present(l) \cup {n}
<1>1. /\ Types /\ Lists /\ Waiting /\ CutOff /\ Originals /\ Cursors
      /\ Makes(n, S, l) /\ l \in Layer /\ l < Size
  BY DEF Making, Base
<1>2. step # "idle" /\ Ahead = layer /\ Ahead' = Ahead /\ l \in Ahead..Size /\ l <= Ahead + 1
  BY <1>1, LayersAre DEF Making, Ahead, Building, Types
<1>3. /\ n \notin alive /\ alive' = alive \cup {n} /\ alive \subseteq Node
      /\ varIndex \in [Node -> Layer] /\ arcs \in [Node -> Seq(Arc)] /\ nbIn \in [Node -> Int]
      /\ newV \in [Node -> Node] /\ setOf \in [Node -> SUBSET Node]
      /\ nodes \in [Layer -> Seq(Node)]
  BY <1>1 DEF Makes, Types
<1>4. \A m \in alive : /\ m # n /\ varIndex'[m] = varIndex[m] /\ arcs'[m] = arcs[m]
                       /\ nbIn'[m] = nbIn[m] /\ newV'[m] = newV[m] /\ setOf'[m] = setOf[m]
  BY <1>1, <1>3 DEF Makes
<1>5. varIndex'[n] = l /\ arcs'[n] = <<>> /\ nbIn'[n] = 0 /\ newV'[n] = n /\ setOf'[n] = S
  BY <1>1, <1>3 DEF Makes
<1>6. \A m \in Node : m # n => arcs'[m] = arcs[m] /\ varIndex'[m] = varIndex[m]
  BY <1>1, <1>3 DEF Makes
<1>7. n \notin Listed(l)
  BY <1>1, <1>3 DEF Lists
<1>8. nodes' = [nodes EXCEPT ![l] = <<n>> \o nodes[l]]
  BY <1>1, <1>3 DEF Makes
<1>9. /\ <<n>> \o nodes[l] \in Seq(Node) /\ IsInjective(<<n>> \o nodes[l])
      /\ ToSet(<<n>> \o nodes[l]) = ToSet(nodes[l]) \cup {n}
  BY <1>1, <1>3, <1>7, ConsSet, ListedIs DEF Lists
<1>10. /\ nodes' \in [Layer -> Seq(Node)]
       /\ \A k \in Layer : k # l => nodes'[k] = nodes[k]
       /\ nodes'[l] = <<n>> \o nodes[l]
  BY <1>1, <1>3, <1>8, <1>9
<1>11. \A k : Listed(k)' = ToSet(nodes'[k])
  BY DEF Listed, ToSet
<1>12. /\ \A k \in Layer : k # l => nodes'[k] = nodes[k] /\ Listed(k)' = Listed(k)
       /\ IsInjective(nodes'[l]) /\ Listed(l)' = Listed(l) \cup {n}
  BY <1>9, <1>10, <1>11, ListedIs
<1>13. \A k : Unit(k)' = Unit(k)
  BY DEF Making, Unit
<1>14. \A k \in Ahead..Size : n \notin Unit(k)
  BY <1>1, <1>3 DEF Originals
<1>15. n \notin ToSet(toDel)
  BY <1>1, <1>3 DEF Waiting
<1>16. toDel' = toDel
  BY DEF Making
<1>17. \A k : k # l => Present(k)' = Present(k)
  BY <1>3, <1>4, <1>5, <1>16 DEF Present
<1>18. Present(l)' = Present(l) \cup {n}
  BY <1>3, <1>4, <1>5, <1>15, <1>16 DEF Present
<1> QED
  BY <1>2, <1>3, <1>4, <1>5, <1>6, <1>7, <1>10, <1>12, <1>13, <1>14, <1>15, <1>17, <1>18

LEMMA MakingTypes ==
  ASSUME NEW n \in Node, NEW S, NEW l, Making(n, S, l)
  PROVE  Types'
<1>1. Types /\ Makes(n, S, l) /\ l \in Layer /\ S \subseteq Unit(l)
      /\ UNCHANGED <<job, layer, cleans>>
  BY DEF Making, Base
<1>2. nodes' \in [Layer -> Seq(Node)] /\ alive' \subseteq Node
  BY MakingFacts
<1>3. varIndex' \in [Node -> Layer] /\ arcs' \in [Node -> Seq(Arc)]
      /\ nbIn' \in [Node -> Int] /\ newV' \in [Node -> Node]
  <2>1. <<>> \in Seq(Arc) /\ 0 \in Int
    OBVIOUS
  <2> QED
    BY <1>1, <2>1 DEF Types, Makes
<1>4. setOf' \in [Node -> SUBSET Node]
  <2>1. S \subseteq Node
    BY <1>1, JobFacts DEF Types
  <2> QED
    BY <1>1, <2>1 DEF Types, Makes
<1>5. free' \in Seq(Node) /\ IsInjective(free') /\ ToSet(free') = Node \ alive'
  <2> DEFINE s == free
  <2>1. s \in Seq(Node) /\ s # <<>> /\ IsInjective(s) /\ n = Head(s) /\ free' = Tail(s)
        /\ ToSet(s) = Node \ alive /\ alive' = alive \cup {n}
    BY <1>1 DEF Types, Makes
  <2> HIDE DEF s
  <2>2. /\ Tail(s) \in Seq(Node) /\ Len(Tail(s)) = Len(s) - 1 /\ Len(s) \in Nat /\ Len(s) # 0
        /\ DOMAIN Tail(s) = 1..Len(s) - 1
        /\ \A i \in 1..Len(s) - 1 : Tail(s)[i] = s[i + 1]
    BY <2>1
  <2>3. \A i, j \in 1..Len(s) : s[i] = s[j] => i = j
    BY <2>1 DEF IsInjective
  <2>4. IsInjective(Tail(s))
    <3> SUFFICES ASSUME NEW i \in 1..Len(s) - 1, NEW j \in 1..Len(s) - 1,
                        Tail(s)[i] = Tail(s)[j]
                 PROVE  i = j
      BY <2>2 DEF IsInjective
    <3>1. s[i + 1] = s[j + 1] /\ i + 1 \in 1..Len(s) /\ j + 1 \in 1..Len(s)
      BY <2>2
    <3>2. i + 1 = j + 1
      BY <2>3, <3>1
    <3> QED
      BY <3>2
  <2>5. \A x : x \in ToSet(Tail(s)) <=> \E i \in 1..Len(s) - 1 : x = s[i + 1]
    BY <2>2 DEF ToSet
  <2>6. \A x : x \in ToSet(s) <=> \E i \in 1..Len(s) : x = s[i]
    BY <2>1 DEF ToSet
  <2>7. n = s[1]
    BY <2>1
  <2>8. ASSUME NEW x \in ToSet(s), x # n
        PROVE  x \in ToSet(Tail(s))
    <3>1. PICK i \in 1..Len(s) : x = s[i]
      BY <2>6
    <3>2. i # 1
      BY <2>7, <2>8, <3>1
    <3>3. i - 1 \in 1..Len(s) - 1 /\ s[(i - 1) + 1] = x
      BY <2>2, <3>1, <3>2
    <3> QED
      BY <2>5, <3>3
  <2>9. ASSUME NEW x \in ToSet(Tail(s))
        PROVE  x \in ToSet(s) /\ x # n
    <3>1. PICK i \in 1..Len(s) - 1 : x = s[i + 1]
      BY <2>5
    <3>2. i + 1 \in 1..Len(s) /\ 1 \in 1..Len(s) /\ i + 1 # 1
      BY <2>2
    <3> QED
      BY <2>3, <2>6, <2>7, <3>1, <3>2
  <2>10. ToSet(Tail(s)) = ToSet(s) \ {n}
    BY <2>8, <2>9
  <2> QED
    BY <2>1, <2>2, <2>4, <2>10
<1>6. \A R \in DOMAIN nodeOf' : nodeOf'[R] \in Node
  <2>1. /\ nodeOf' = [R \in {S} \cup DOMAIN nodeOf |-> IF R = S THEN n ELSE nodeOf[R]]
        /\ \A R \in DOMAIN nodeOf : nodeOf[R] \in Node
    BY <1>1 DEF Makes, Types
  <2> QED
    BY <2>1
<1> QED
  BY <1>1, <1>2, <1>3, <1>4, <1>5, <1>6 DEF Types

LEMMA MakingLinked ==
  ASSUME NEW n \in Node, NEW S, NEW l, Making(n, S, l)
  PROVE  Linked' /\ Counted'
<1>1. Linked /\ Counted
  BY DEF Making, Base
<1>2. /\ n \notin alive /\ alive' = alive \cup {n} /\ alive \subseteq Node
      /\ \A m \in alive : m # n /\ varIndex'[m] = varIndex[m] /\ nbIn'[m] = nbIn[m]
      /\ arcs'[n] = <<>> /\ nbIn'[n] = 0
      /\ \A m \in Node : m # n => arcs'[m] = arcs[m]
  BY MakingFacts
<1>3. DOMAIN arcs'[n] = {}
  BY <1>2
<1>4. Linked'
  <2> SUFFICES ASSUME NEW m \in Node, NEW i \in DOMAIN arcs'[m]
               PROVE  /\ m \in alive' /\ arcs'[m][i].end \in alive'
                      /\ varIndex'[arcs'[m][i].end] = varIndex'[m] + 1
    BY DEF Linked
  <2>1. m # n /\ arcs'[m] = arcs[m]
    BY <1>2, <1>3
  <2> QED
    BY <1>1, <1>2, <2>1 DEF Linked
<1>5. \A m : ArcsInto(m, alive)' = ArcsInto(m, alive)
  <2> TAKE m
  <2>1. ASSUME NEW p \in ArcsInto(m, alive)'
        PROVE  p \in ArcsInto(m, alive)
    <3>1. PICK k \in alive' : \E i \in DOMAIN arcs'[k] : p = <<k, i>> /\ arcs'[k][i].end = m
      BY DEF ArcsInto
    <3>2. k # n /\ k \in alive /\ arcs'[k] = arcs[k]
      BY <1>2, <1>3, <3>1
    <3> QED
      BY <3>1, <3>2 DEF ArcsInto
  <2>2. ASSUME NEW p \in ArcsInto(m, alive)
        PROVE  p \in ArcsInto(m, alive)'
    <3>1. PICK k \in alive : \E i \in DOMAIN arcs[k] : p = <<k, i>> /\ arcs[k][i].end = m
      BY DEF ArcsInto
    <3>2. k \in alive' /\ arcs'[k] = arcs[k]
      BY <1>2, <3>1
    <3> QED
      BY <3>1, <3>2 DEF ArcsInto
  <2> QED
    BY <2>1, <2>2
<1>6. ArcsInto(n, alive) = {}
  <2>1. \A k \in alive : \A i \in DOMAIN arcs[k] : arcs[k][i].end # n
    BY <1>1, <1>2 DEF Linked
  <2> QED
    BY <2>1 DEF ArcsInto
<1>7. Counted'
  BY <1>1, <1>2, <1>5, <1>6, FS_EmptySet DEF Counted
<1> QED
  BY <1>4, <1>7

LEMMA MakingLists ==
  ASSUME NEW n \in Node, NEW S, NEW l, Making(n, S, l)
  PROVE  Lists' /\ Waiting' /\ CutOff' /\ AllListed'
<1>1. /\ Lists /\ Waiting /\ CutOff /\ AllListed /\ Types
      /\ UNCHANGED <<job, step, layer, toDel, lost>> /\ l \in Layer
      /\ step = "part" \/ l # layer
      /\ Cursors
  BY DEF Making, Base, Building, Types
<1>2. /\ step # "idle" /\ Ahead = layer /\ Ahead' = Ahead /\ l \in Ahead..Size /\ l <= Ahead + 1
      /\ n \notin alive /\ alive' = alive \cup {n} /\ alive \subseteq Node
      /\ \A m \in alive : /\ m # n /\ varIndex'[m] = varIndex[m] /\ arcs'[m] = arcs[m]
                          /\ nbIn'[m] = nbIn[m]
      /\ varIndex'[n] = l
      /\ \A k \in Layer : k # l => nodes'[k] = nodes[k] /\ Listed(k)' = Listed(k)
      /\ IsInjective(nodes'[l]) /\ Listed(l)' = Listed(l) \cup {n}
      /\ \A k : Unit(k)' = Unit(k)
      /\ \A k : k # l => Present(k)' = Present(k)
      /\ Present(l)' = Present(l) \cup {n}
  BY MakingFacts
<1>3. Lists'
  <2>1. \A k \in Layer : IsInjective(nodes'[k])
    BY <1>1, <1>2 DEF Lists
  <2>2. ASSUME NEW k \in Layer, NEW m \in Listed(k)'
        PROVE  m \in alive' /\ varIndex'[m] = k
    BY <1>1, <1>2, <2>2 DEF Lists
  <2>3. l # 0
    BY <1>1, <1>2, LayersAre DEF Cursors, Types
  <2>4. nodes'[0] = nodes[0] /\ job' = job
    BY <1>1, <1>2, <2>3, LayersAre
  <2> QED
    BY <1>1, <2>1, <2>2, <2>4 DEF Lists
<1>4. \A m \in alive : \A k \in Layer : m \in Listed(k)' => m \in Listed(k)
  BY <1>2
<1>5. Waiting'
  <2> SUFFICES ASSUME NEW m \in ToSet(toDel)
               PROVE  /\ m \in alive' /\ varIndex'[m] \in 1..Ahead' /\ nbIn'[m] = 0
                      /\ m \notin Listed(varIndex[m])'
                      /\ \A i \in DOMAIN arcs'[m] : arcs'[m][i].end \in Unit(varIndex[m] + 1)'
    BY <1>1 DEF Waiting
  <2>1. /\ m \in alive /\ varIndex[m] \in 1..Ahead /\ nbIn[m] = 0
        /\ m \notin Listed(varIndex[m])
        /\ \A i \in DOMAIN arcs[m] : arcs[m][i].end \in Unit(varIndex[m] + 1)
    BY <1>1 DEF Waiting
  <2>2. varIndex[m] \in Layer /\ varIndex'[m] = varIndex[m] /\ arcs'[m] = arcs[m] /\ nbIn'[m] = 0
    BY <1>1, <1>2, <2>1 DEF Types
  <2>3. m \notin Listed(varIndex[m])'
    BY <1>4, <2>1, <2>2
  <2>4. \A i \in DOMAIN arcs'[m] : arcs'[m][i].end \in Unit(varIndex[m] + 1)'
    BY <1>2, <2>1, <2>2
  <2> QED
    BY <1>2, <2>1, <2>2, <2>3, <2>4
<1>6. CutOff'
  <2>1. layer \in Int /\ layer' = layer
    BY <1>1, LayersAre DEF Types
  <2>2. ASSUME NEW c \in lost, NEW m \in ToSet(c), IsChain(c)
        PROVE  /\ m \in alive' /\ varIndex'[m] = varIndex[m]
               /\ m \notin Listed(varIndex[m])' /\ m \notin ToSet(toDel')
    <3>1. /\ m \in alive /\ m \notin Listed(varIndex[m]) /\ m \notin ToSet(toDel)
      BY <2>2 DEF IsChain
    <3>2. varIndex[m] \in Layer /\ varIndex'[m] = varIndex[m]
      BY <1>1, <1>2, <3>1 DEF Types
    <3>3. m \notin Listed(varIndex[m])'
      BY <1>4, <3>1, <3>2
    <3> QED
      BY <1>1, <1>2, <3>1, <3>2, <3>3
  <2> QED
    BY <1>1, <2>1, <2>2, CutOffKept
<1>7. AllListed'
  <2> SUFFICES ASSUME NEW k \in Layer, Present(k) \subseteq Listed(k)
               PROVE  Present(k)' \subseteq Listed(k)'
    BY <1>1, <1>2 DEF AllListed
  <2> QED
    BY <1>2
<1> QED
  BY <1>3, <1>5, <1>6, <1>7

LEMMA MakingUnits ==
  ASSUME NEW n \in Node, NEW S, NEW l, Making(n, S, l)
  PROVE  Originals' /\ Made' /\ Found'
<1>1. /\ Originals /\ Made /\ Found /\ Types
      /\ UNCHANGED <<job, step, layer>> /\ l \in Layer
      /\ S \subseteq Unit(l) /\ S # {} /\ Cardinality(S) # 1 /\ S \notin DOMAIN nodeOf
      /\ (step = "part" /\ l = layer) \/ (Building /\ l = layer + 1)
      /\ nodeOf' = [R \in {S} \cup DOMAIN nodeOf |-> IF R = S THEN n ELSE nodeOf[R]]
  BY DEF Making, Base, Makes
<1>2. /\ step # "idle" /\ Ahead = layer /\ Ahead' = Ahead /\ l \in Ahead..Size /\ l <= Ahead + 1
      /\ n \notin alive /\ alive' = alive \cup {n} /\ alive \subseteq Node
      /\ \A m \in alive : /\ m # n /\ varIndex'[m] = varIndex[m] /\ arcs'[m] = arcs[m]
                          /\ setOf'[m] = setOf[m]
      /\ varIndex'[n] = l /\ arcs'[n] = <<>> /\ setOf'[n] = S
      /\ \A k : Unit(k)' = Unit(k)
      /\ \A k \in Ahead..Size : n \notin Unit(k)
  BY MakingFacts
<1>3. Originals'
  BY <1>1, <1>2 DEF Originals
<1>4. Made'
  <2> SUFFICES ASSUME NEW m \in Node, IsMade(m)'
               PROVE  /\ setOf'[m] \subseteq Unit(varIndex[m])' /\ setOf'[m] # {}
                      /\ Cardinality(setOf'[m]) # 1
                      /\ varIndex'[m] <= Ahead' + 1
                      /\ step \in {"idle", "part"} => varIndex'[m] = Ahead'
                      /\ (step \in {"idle", "part"} \/ varIndex'[m] = Ahead' + 1) => arcs'[m] = <<>>
    BY <1>1 DEF Made
  <2>1. CASE m = n
    BY <1>1, <1>2, <2>1 DEF Building
  <2>2. CASE m # n
    <3>1. m \in alive /\ IsMade(m)
      BY <1>2, <2>2 DEF IsMade
    <3> QED
      BY <1>1, <1>2, <3>1 DEF Made
  <2> QED
    BY <2>1, <2>2
<1>5. Found'
  <2> SUFFICES ASSUME NEW R \in DOMAIN nodeOf', NEW k \in Ahead..Size,
                      R \subseteq Unit(k), R # {}, Cardinality(R) # 1
               PROVE  /\ nodeOf'[R] \in alive' /\ varIndex'[nodeOf'[R]] = k
                      /\ setOf'[nodeOf'[R]] = R
    BY <1>2 DEF Found
  <2>1. DOMAIN nodeOf' = {S} \cup DOMAIN nodeOf
        /\ nodeOf'[R] = IF R = S THEN n ELSE nodeOf[R]
    BY <1>1
  <2>2. CASE R = S
    <3>1. k = l
      <4>1. PICK x : x \in S
        BY <1>1
      <4>2. x \in Unit(k) /\ x \in Unit(l) /\ k \in Layer
        BY <1>1, <1>2, <2>2, <4>1, LayersAre DEF Types
      <4> QED
        BY <1>1, <4>2, JobFacts DEF Types
    <3> QED
      BY <1>2, <2>1, <2>2, <3>1
  <2>3. CASE R # S
    <3>1. R \in DOMAIN nodeOf /\ nodeOf'[R] = nodeOf[R]
      BY <2>1, <2>3
    <3>2. nodeOf[R] \in alive /\ varIndex[nodeOf[R]] = k /\ setOf[nodeOf[R]] = R
      BY <1>1, <3>1 DEF Found
    <3> QED
      BY <1>2, <3>1, <3>2
  <2> QED
    BY <2>2, <2>3
<1> QED
  BY <1>3, <1>4, <1>5

\* The set of a part, after a node was made for it.
LEMMA UnitsKept ==
  ASSUME NEW n \in Node, NEW S, NEW l, Making(n, S, l), NEW P, P \subseteq alive
  PROVE  Units(P)' = Units(P)
<1>1. \A m \in P : setOf'[m] = setOf[m]
  BY MakingFacts
<1> QED
  BY <1>1 DEF Units

LEMMA MakingLeads ==
  ASSUME NEW n \in Node, NEW S, NEW l, Making(n, S, l),
         step = "part" => parts # <<>> /\ Head(parts) # {} /\ S = Units(Head(parts))
  PROVE  Leads' /\ Cursors'
<1>1. /\ Leads /\ Cursors /\ Types
      /\ UNCHANGED <<job, step, layer, parts, newNodes, todo, making, label>> /\ l \in Layer
      /\ Cardinality(S) # 1 /\ S \notin DOMAIN nodeOf
      /\ (step = "part" /\ l = layer) \/ (Building /\ l = layer + 1)
      /\ nodeOf' = [R \in {S} \cup DOMAIN nodeOf |-> IF R = S THEN n ELSE nodeOf[R]]
  BY DEF Making, Base, Makes, cursors
<1>2. /\ step # "idle"
      /\ n \notin alive /\ alive' = alive \cup {n} /\ alive \subseteq Node
      /\ \A m \in alive : m # n /\ newV'[m] = newV[m] /\ setOf'[m] = setOf[m]
      /\ newV'[n] = n
      /\ \A k : k # l => Present(k)' = Present(k)
      /\ Present(l)' = Present(l) \cup {n}
  BY MakingFacts
<1>3. Present(layer) \subseteq alive
  BY DEF Present
<1>4. Cursors'
  <2>1. Building' = Building
    BY <1>1 DEF Building
  <2>2. Present(layer) \subseteq Present(layer)'
    BY <1>1, <1>2 DEF Types
  <2>3. Unit(layer)' = Unit(layer)
    BY <1>1 DEF Unit
  <2> QED
    BY <1>1, <2>1, <2>2, <2>3 DEF Cursors
<1>5. ASSUME step \in {"part", "build", "above"}
      PROVE  /\ ToSet(newNodes) \subseteq Present(layer)'
             /\ \A i \in DOMAIN parts : parts[i] \subseteq Present(layer)'
             /\ \A m \in Present(layer)' :
                  \/ \E i \in DOMAIN parts : m \in parts[i]
                  \/ Fresh(m)'
                  \/ newV'[m] \in ToSet(newNodes) /\ setOf'[m] \subseteq setOf'[newV'[m]]
  <2>1. /\ ToSet(newNodes) \subseteq Present(layer)
        /\ \A i \in DOMAIN parts : parts[i] \subseteq Present(layer)
        /\ \A m \in Present(layer) :
             \/ \E i \in DOMAIN parts : m \in parts[i]
             \/ Fresh(m)
             \/ newV[m] \in ToSet(newNodes) /\ setOf[m] \subseteq setOf[newV[m]]
    BY <1>1, <1>5 DEF Leads
  <2>2. Present(layer) \subseteq Present(layer)'
    BY <1>1, <1>2 DEF Types
  <2>3. ASSUME NEW m \in Present(layer)
        PROVE  \/ \E i \in DOMAIN parts : m \in parts[i]
               \/ newV[m] \in ToSet(newNodes) /\ setOf[m] \subseteq setOf[newV[m]]
    <3>1. m \in alive /\ m \in Node
      BY <1>2, <1>3
    <3>2. ~Fresh(m)
      <4>1. CASE step = "part"
        <5>1. NodeFor(Units(Head(parts))) = Null
          BY <1>1, <4>1 DEF NodeFor
        <5> QED
          BY <3>1, <5>1, NullIsNoNode DEF Fresh
      <4>2. CASE step # "part"
        <5>1. parts = <<>>
          BY <1>1, <1>5, <4>2 DEF Cursors
        <5> QED
          BY <5>1 DEF Fresh
      <4> QED
        BY <4>1, <4>2
    <3> QED
      BY <2>1, <3>2
  <2>4. ASSUME NEW m \in Present(layer)
        PROVE  \/ \E i \in DOMAIN parts : m \in parts[i]
               \/ newV'[m] \in ToSet(newNodes) /\ setOf'[m] \subseteq setOf'[newV'[m]]
    <3>1. newV'[m] = newV[m] /\ setOf'[m] = setOf[m]
      BY <1>2, <1>3
    <3>2. newV[m] \in ToSet(newNodes) => setOf'[newV[m]] = setOf[newV[m]]
      BY <1>2, <1>3, <2>1
    <3> QED
      BY <2>3, <3>1, <3>2
  <2>5. step = "part" => Fresh(n)'
    <3> SUFFICES ASSUME step = "part"
                 PROVE  Fresh(n)'
      OBVIOUS
    <3>1. parts # <<>> /\ Head(parts) # {} /\ parts \in Seq(SUBSET Node)
      BY <1>1 DEF Cursors
    <3>2. Head(parts) \subseteq alive
      <4>1. 1 \in DOMAIN parts /\ Head(parts) = parts[1]
        BY <3>1
      <4> QED
        BY <1>3, <2>1, <4>1
    <3>3. Units(Head(parts))' = S
      BY <1>1, <3>2, UnitsKept
    <3>4. S \in DOMAIN nodeOf' /\ nodeOf'[S] = n
      BY <1>1
    <3>5. NodeFor(Units(Head(parts)))' = n
      BY <1>1, <3>3, <3>4 DEF NodeFor
    <3> QED
      BY <1>1, <1>2, <3>1, <3>5 DEF Fresh
  <2>6. \A m \in Present(layer)' : m \in Present(layer) \/ (m = n /\ step = "part")
    BY <1>1, <1>2, <1>5 DEF Types, Building
  <2> QED
    BY <2>1, <2>2, <2>4, <2>5, <2>6
<1>6. Leads'
  BY <1>1, <1>5 DEF Leads
<1> QED
  BY <1>4, <1>6

LEMMA MakingBase ==
  ASSUME NEW n \in Node, NEW S, NEW l, Making(n, S, l),
         step = "part" => parts # <<>> /\ Head(parts) # {} /\ S = Units(Head(parts))
  PROVE  Base'
BY MakingTypes, MakingLinked, MakingLists, MakingUnits, MakingLeads DEF Base

\* A node that keeps its arcs and its set covers what it did, and is backed as it was.
LEMMA CoversKept ==
  ASSUME Types, Linked, UNCHANGED job, NEW n \in Node, arcs'[n] = arcs[n],
         setOf'[n] = setOf[n], \A m \in alive : setOf[m] \subseteq setOf'[m], Covers(n)
  PROVE  Covers(n)'
<1>1. Stands(n)' = Stands(n)
  BY DEF Stands, Unit
<1> SUFFICES ASSUME NEW u \in Stands(n), NEW a \in ToSet(job.arcs[u])
             PROVE  \E b \in ToSet(arcs[n]) : b.value = a.value /\ a.end \in setOf'[b.end]
  BY <1>1 DEF Covers
<1>2. PICK b \in ToSet(arcs[n]) : b.value = a.value /\ a.end \in setOf[b.end]
  BY DEF Covers
<1>3. b.end \in alive
  BY ArcsOf
<1> QED
  BY <1>2, <1>3

LEMMA MakingCovered ==
  ASSUME NEW n \in Node, NEW S, NEW l, Making(n, S, l)
  PROVE  /\ Covered => Covered'
         /\ Narrow => Narrow'
         /\ Backed => Backed'
<1>1. /\ Types /\ Linked /\ Lists /\ Cursors /\ Leads
      /\ UNCHANGED <<job, step, layer, parts, newNodes, todo, making, label>> /\ l \in Layer
      /\ (step = "part" /\ l = layer) \/ (Building /\ l = layer + 1)
  BY DEF Making, Base, Makes, cursors
<1>2. /\ step # "idle" /\ Ahead = layer /\ Ahead' = Ahead /\ l \in Ahead..Size
      /\ n \notin alive /\ alive' = alive \cup {n} /\ alive \subseteq Node
      /\ \A m \in alive : /\ m # n /\ varIndex'[m] = varIndex[m] /\ arcs'[m] = arcs[m]
                          /\ nbIn'[m] = nbIn[m] /\ setOf'[m] = setOf[m]
      /\ arcs'[n] = <<>>
      /\ \A k \in Layer : k # l => nodes'[k] = nodes[k] /\ Listed(k)' = Listed(k)
      /\ \A k : Unit(k)' = Unit(k)
  BY MakingFacts
<1>3. \A m \in alive : Covers(m) => Covers(m)'
  BY <1>1, <1>2, CoversKept
<1>4. \A k \in 0..Ahead - 1 : k \in Layer /\ Listed(k)' = Listed(k) /\ Listed(k) \subseteq alive
  BY <1>1, <1>2, LayersAre DEF Lists, Types
<1>5. ASSUME Covered
      PROVE  Covered'
  <2>1. \A k \in 0..Ahead' - 1 : \A m \in Listed(k)' : Covers(m)'
    BY <1>2, <1>3, <1>4, <1>5 DEF Covered
  <2>2. ASSUME NEW m \in Node, IsMade(m)', m # making
        PROVE  arcs'[m] = <<>> \/ Covers(m)'
    <3>1. CASE m = n
      BY <1>2, <3>1
    <3>2. CASE m # n
      <4>1. m \in alive /\ IsMade(m)
        BY <1>2, <2>2, <3>2 DEF IsMade
      <4> QED
        BY <1>2, <1>3, <1>5, <2>2, <4>1 DEF Covered
    <3> QED
      BY <3>1, <3>2
  <2>3. ASSUME making # Null
        PROVE  \A u \in setOf'[making] : CoversBelow(making, u, label)'
    <3>1. Building /\ todo # <<>> /\ making = Head(todo) /\ making \in Present(layer)
      <4>1. Building /\ todo \in Seq(Node) /\ todo # <<>> /\ making = Head(todo)
            /\ ToSet(todo) \subseteq Present(layer)
        BY <1>1, <2>3 DEF Cursors
      <4>2. Head(todo) \in ToSet(todo)
        BY <4>1 DEF ToSet
      <4> QED
        BY <4>1, <4>2
    <3>2. making \in alive /\ making \in Node /\ setOf'[making] = setOf[making]
          /\ arcs'[making] = arcs[making]
      BY <1>2, <3>1 DEF Present
    <3> SUFFICES ASSUME NEW u \in setOf[making], NEW a \in ToSet(job.arcs[u]), a.value < label
                 PROVE  \E b \in ToSet(arcs[making]) :
                          b.value = a.value /\ a.end \in setOf'[b.end]
      BY <1>1, <3>2 DEF CoversBelow
    <3>3. PICK b \in ToSet(arcs[making]) : b.value = a.value /\ a.end \in setOf[b.end]
      BY <1>5, <2>3 DEF Covered, CoversBelow
    <3>4. b.end \in alive
      BY <1>1, <3>2, ArcsOf
    <3> QED
      BY <1>2, <3>3, <3>4
  <2>4. step \in {"build", "above"} =>
          \A m \in ToSet(newNodes) : m \in ToSet(todo) \/ Covers(m)'
    <3>1. step \in {"build", "above"} => ToSet(newNodes) \subseteq alive
      BY <1>1 DEF Leads, Present
    <3> QED
      BY <1>3, <1>5, <3>1 DEF Covered
  <2>5. step \in {"fill", "clean"} => layer \in Layer /\ Listed(layer)' = Listed(layer)
                                      /\ Listed(layer) \subseteq alive
    BY <1>1, <1>2, LayersAre DEF Lists, Types, Building
  <2>6. step = "fill" => \A m \in Listed(layer)' : m \in ToSet(todo) \/ Covers(m)'
    BY <1>3, <1>5, <2>5 DEF Covered
  <2>7. step # "clean"
    BY <1>1 DEF Building
  <2> QED
    BY <1>1, <2>1, <2>2, <2>3, <2>4, <2>6, <2>7 DEF Covered
<1>6. \A k \in 0..Ahead - 1 : EndsOf(k)' = EndsOf(k)
  <2> TAKE k \in 0..Ahead - 1
  <2>1. \A m \in Listed(k) : arcs'[m] = arcs[m]
    BY <1>2, <1>4
  <2>2. {ToSet(arcs'[m]) : m \in Listed(k)'} = {ToSet(arcs[m]) : m \in Listed(k)}
    BY <1>4, <2>1
  <2> QED
    BY <2>2 DEF EndsOf
<1>7. ASSUME Narrow
      PROVE  Narrow'
  <2>1. \A k \in 1..Ahead - 1 : EndsOf(k - 1)' = EndsOf(k - 1)
    BY <1>1, <1>2, <1>6 DEF Types
  <2>2. step # "clean" /\ (step = "fill" => nodes'[layer] = nodes[layer])
    BY <1>1, <1>2, LayersAre DEF Building, Types
  <2> QED
    BY <1>1, <1>2, <1>7, <2>1, <2>2 DEF Narrow
<1>8. ASSUME Backed
      PROVE  Backed'
  <2> SUFFICES ASSUME NEW m \in alive', NEW b \in ToSet(arcs'[m]), NEW u \in Stands(m)'
               PROVE  \E a \in ToSet(job.arcs[u]) : a.value = b.value /\ a.end \in setOf'[b.end]
    BY <1>1 DEF Backed
  <2>1. m # n
    BY <1>2 DEF ToSet
  <2>2. m \in alive /\ m \in Node /\ arcs'[m] = arcs[m] /\ setOf'[m] = setOf[m]
    BY <1>2, <2>1
  <2>3. Stands(m)' = Stands(m)
    BY <1>2, <2>2 DEF Stands
  <2>4. PICK a \in ToSet(job.arcs[u]) : a.value = b.value /\ a.end \in setOf[b.end]
    BY <1>8, <2>2, <2>3 DEF Backed
  <2>5. b.end \in alive
    BY <1>1, <2>2, ArcsOf
  <2> QED
    BY <1>2, <2>4, <2>5
<1> QED
  BY <1>5, <1>7, <1>8

-----------------------------------------------------------------------------
(***************************************************************************)
(* NamePart and NameEnds make the node of a set of units.                  *)
(***************************************************************************)
\* A node of the layer that is narrowed stands for units of it.
LEMMA PresentStands ==
  ASSUME Base, step # "idle", NEW n \in Present(layer)
  PROVE  /\ n \in Node /\ n \in alive /\ varIndex[n] = layer /\ Stands(n) = setOf[n]
         /\ setOf[n] \subseteq Unit(layer) /\ setOf[n] # {}
         /\ layer \in 1..Size - 1 /\ Ahead = layer
<1>1. /\ Types /\ Cursors /\ Originals /\ Made
  BY DEF Base
<1>2. layer \in 1..Size - 1 /\ Ahead = layer /\ layer \in Ahead..Size /\ 0 \in Layer /\ layer \in Layer
  <2>1. layer \in 0..Size - 1 /\ layer # 0
    BY <1>1 DEF Types, Cursors
  <2>2. Ahead = layer
    BY DEF Ahead
  <2> QED
    BY <2>1, <2>2, LayersAre
<1>3. n \in Node /\ n \in alive /\ varIndex[n] = layer
  BY <1>1 DEF Present, Types
<1>4. setOf[n] \subseteq Unit(layer) /\ setOf[n] # {}
  <2>1. CASE n \in Unit(layer)
    BY <1>1, <1>2, <2>1 DEF Originals
  <2>2. CASE n \notin Unit(layer)
    <3>1. IsMade(n)
      BY <1>2, <1>3, <2>2 DEF IsMade
    <3> QED
      BY <1>1, <1>3, <3>1 DEF Made
  <2> QED
    BY <2>1, <2>2
<1>5. n \notin Unit(0)
  <2>1. CASE n \in Unit(layer)
    <3>1. Unit(layer) \cap Unit(0) = {}
      BY <1>1, <1>2, JobFacts DEF Types
    <3> QED
      BY <2>1, <3>1
  <2>2. CASE n \notin Unit(layer)
    <3> SUFFICES ASSUME n \in Unit(0)
                 PROVE  FALSE
      OBVIOUS
    <3>1. nodes[0] = job.nodes[0] /\ \A m \in Listed(0) : varIndex[m] = 0
      BY <1>2 DEF Base, Lists
    <3>2. n \in Listed(0)
      BY <3>1, ListedIs DEF Unit
    <3> QED
      BY <1>2, <1>3, <3>1, <3>2
  <2> QED
    BY <2>1, <2>2
<1> QED
  BY <1>2, <1>3, <1>4, <1>5 DEF Stands

\* A given node that is still there covers itself.
LEMMA UnitCovers ==
  ASSUME Base, NEW l \in Ahead..Size - 1, NEW n \in Unit(l)
  PROVE  Covers(n) /\ Stands(n) = {n}
<1>1. Types /\ Originals /\ Ahead \in Nat
  BY LayersAre DEF Base, Types, Ahead
<1>2. l \in Ahead..Size /\ l + 1 \in Ahead..Size /\ l \in Layer
  BY <1>1, LayersAre
<1>3. arcs[n] = job.arcs[n] /\ setOf[n] = {n}
  BY <1>1, <1>2 DEF Originals
<1>4. \A a \in ToSet(job.arcs[n]) : a.end \in Unit(l + 1)
  BY <1>1, <1>2, JobFacts DEF Types
<1>5. \A a \in ToSet(job.arcs[n]) : setOf[a.end] = {a.end}
  BY <1>1, <1>2, <1>4 DEF Originals
<1>6. Stands(n) = {n}
  BY <1>3 DEF Stands
<1> QED
  BY <1>3, <1>5, <1>6 DEF Covers

\* The next part.
LEMMA PartFacts ==
  ASSUME Base, step = "part", parts # <<>>
  PROVE  /\ Head(parts) \subseteq Present(layer) /\ Head(parts) \subseteq Node
         /\ Units(Head(parts)) \subseteq Unit(layer)
         /\ Head(parts) # {} => Units(Head(parts)) # {}
<1>1. parts \in Seq(SUBSET Node) /\ \A i \in DOMAIN parts : parts[i] \subseteq Present(layer)
  BY DEF Base, Cursors, Leads
<1>2. 1 \in DOMAIN parts /\ Head(parts) = parts[1] /\ Head(parts) \subseteq Node
  BY <1>1
<1>3. Head(parts) \subseteq Present(layer)
  BY <1>1, <1>2
<1>4. \A n \in Head(parts) : setOf[n] \subseteq Unit(layer) /\ setOf[n] # {}
  BY <1>3, PresentStands
<1> QED
  BY <1>2, <1>3, <1>4 DEF Units

\* The node whose arcs are built, and its units.
LEMMA MakingStands ==
  ASSUME Base, making # Null
  PROVE  /\ Building /\ todo \in Seq(Node) /\ todo # <<>> /\ making = Head(todo)
         /\ making \in Present(layer) /\ making \in Node /\ making \in alive
         /\ varIndex[making] = layer /\ layer \in 1..Size - 1 /\ Ahead = layer
         /\ Stands(making) = setOf[making]
         /\ setOf[making] \subseteq Unit(layer) /\ setOf[making] # {}
         /\ \A u \in setOf[making] : u \in alive /\ arcs[u] = job.arcs[u]
<1>1. /\ Cursors /\ Building /\ todo \in Seq(Node) /\ todo # <<>> /\ making = Head(todo)
      /\ ToSet(todo) \subseteq Present(layer)
  BY DEF Base, Cursors
<1>2. Head(todo) \in ToSet(todo)
  BY <1>1 DEF ToSet
<1>3. making \in Present(layer) /\ step # "idle"
  BY <1>1, <1>2 DEF Building
<1>4. /\ making \in Node /\ making \in alive /\ varIndex[making] = layer
      /\ Stands(making) = setOf[making]
      /\ setOf[making] \subseteq Unit(layer) /\ setOf[making] # {}
      /\ layer \in 1..Size - 1 /\ Ahead = layer
  BY <1>3, PresentStands
<1>5. layer \in Ahead..Size
  BY <1>4, LayersAre
<1>6. \A u \in setOf[making] : u \in alive /\ arcs[u] = job.arcs[u]
  BY <1>4, <1>5 DEF Base, Originals
<1> QED
  BY <1>1, <1>3, <1>4, <1>6

\* The label that is treated, and its ends.
LEMMA LabelFacts ==
  ASSUME Base, making # Null, ArcsLeft # {}
  PROVE  /\ making \notin Unit(layer)
         /\ ArcsLeft \subseteq Arc /\ MinLabel \in Label /\ MinLabel \in Nat /\ label <= MinLabel
         /\ \A a \in ArcsLeft : MinLabel <= a.value
         /\ Ends \subseteq Unit(layer + 1) /\ Ends # {}
         /\ \A u \in setOf[making] : \A a \in ToSet(job.arcs[u]) :
              (a.value = MinLabel => a.end \in Ends) /\ (a.value < MinLabel => a.value < label)
<1>1. /\ layer \in 1..Size - 1 /\ layer \in Layer /\ setOf[making] \subseteq Unit(layer)
      /\ \A u \in setOf[making] : arcs[u] = job.arcs[u]
      /\ Types /\ label \in Nat
  BY MakingStands, LayersAre DEF Base, Cursors
<1>2. \A a : a \in ArcsLeft <=> /\ \E u \in setOf[making] : a \in ToSet(job.arcs[u])
                                /\ a.value >= label
  BY <1>1 DEF ArcsLeft
<1>3. ASSUME NEW a \in ArcsLeft
      PROVE  a \in Arc /\ a.value \in Label /\ a.value \in Nat /\ a.end \in Unit(layer + 1)
  <2>1. PICK u \in setOf[making] : a \in ToSet(job.arcs[u])
    BY <1>2
  <2>2. job \in DiagramJobs /\ u \in Unit(layer)
    BY <1>1 DEF Types
  <2>3. a \in Arc /\ a.end \in Unit(layer + 1)
    BY <1>1, <2>1, <2>2, JobFacts
  <2> QED
    BY <2>3, LabelsAreNats DEF Arc
<1> DEFINE V == {a.value : a \in ArcsLeft}
           v == Min(V)
<1>4. v \in V /\ \A w \in V : v <= w
  <2>1. V \in SUBSET Nat /\ V # {}
    BY <1>3
  <2> HIDE DEF V
  <2> QED
    BY <2>1, Least
<1>5. \E x \in Label : (\E a \in ArcsLeft : a.value = x) /\ \A a \in ArcsLeft : x <= a.value
  <2>1. v \in Label /\ (\E a \in ArcsLeft : a.value = v) /\ \A a \in ArcsLeft : v <= a.value
    BY <1>3, <1>4
  <2> QED
    BY <2>1
<1>6. /\ MinLabel \in Label /\ (\E a \in ArcsLeft : a.value = MinLabel)
      /\ \A a \in ArcsLeft : MinLabel <= a.value
  BY <1>5 DEF MinLabel
<1>7. MinLabel \in Nat /\ label <= MinLabel
  BY <1>1, <1>2, <1>3, <1>6
<1>8. Ends \subseteq Unit(layer + 1) /\ Ends # {}
  BY <1>3, <1>6 DEF Ends
<1>9. ASSUME NEW u \in setOf[making], NEW a \in ToSet(job.arcs[u])
      PROVE  (a.value = MinLabel => a.end \in Ends) /\ (a.value < MinLabel => a.value < label)
  <2>1. a \in Arc /\ a.value \in Nat
    BY <1>1, JobFacts, LabelsAreNats DEF Types, Arc
  <2>2. a.value >= label => a \in ArcsLeft
    BY <1>2
  <2> QED
    BY <1>1, <1>6, <1>7, <2>1, <2>2 DEF Ends
<1>10. making \notin Unit(layer)
  <2> SUFFICES ASSUME making \in Unit(layer)
               PROVE  FALSE
    OBVIOUS
  <2>1. job.arcs[making] = <<>>
    BY DEF Base, Cursors
  <2>2. setOf[making] = {making}
    BY MakingStands, LayersAre DEF Base, Originals
  <2>3. PICK a : a \in ArcsLeft
    OBVIOUS
  <2>4. a \in ToSet(job.arcs[making])
    BY <1>1, <1>2, <2>2, <2>3
  <2> QED
    BY <2>1, <2>4 DEF ToSet
<1> QED
  BY <1>3, <1>6, <1>7, <1>8, <1>9, <1>10

LEMMA NamePartRuns ==
  ASSUME Running, NamePart, UNCHANGED <<job, phase>>
  PROVE  Running'
<1> DEFINE S == Units(Head(parts))
<1>1. /\ Base /\ step = "part" /\ parts # <<>> /\ Head(parts) # {} /\ MakeNode(S)
      /\ UNCHANGED <<job, phase, step, layer, cursors, toDel, cleans, lost>>
  BY DEF Running, NamePart
<1>2. S \subseteq Unit(layer) /\ S # {}
  BY <1>1, PartFacts
<1>3. layer \in Layer
  BY <1>1, LayersAre DEF Base, Types
<1> HIDE DEF S
<1>4. PICK n \in Node : Making(n, S, layer)
  BY <1>1, <1>2, <1>3, MakeNodeMakes
<1>5. Base'
  BY <1>1, <1>4, MakingBase DEF S
<1>6. job' = job /\ (Covered => Covered') /\ (Narrow => Narrow') /\ (Backed => Backed')
  BY <1>1, <1>4, MakingCovered
<1> QED
  BY <1>5, <1>6 DEF Running

LEMMA NameEndsRuns ==
  ASSUME Running, NameEnds, UNCHANGED <<job, phase>>
  PROVE  Running'
<1> DEFINE S == Ends
<1>1. /\ Base /\ Building /\ making # Null /\ ArcsLeft # {} /\ MakeNode(S)
      /\ UNCHANGED <<job, phase, step, layer, cursors, toDel, cleans, lost>>
  BY DEF Running, NameEnds
<1>2. S \subseteq Unit(layer + 1) /\ S # {}
  BY <1>1, LabelFacts
<1>3. layer \in 1..Size - 1 /\ layer + 1 \in Layer
  BY <1>1, MakingStands, LayersAre
<1> HIDE DEF S
<1>4. PICK n \in Node : Making(n, S, layer + 1)
  BY <1>1, <1>2, <1>3, MakeNodeMakes
<1>5. Base'
  BY <1>1, <1>4, MakingBase DEF Building
<1>6. job' = job /\ (Covered => Covered') /\ (Narrow => Narrow') /\ (Backed => Backed')
  BY <1>1, <1>4, MakingCovered
<1> QED
  BY <1>5, <1>6 DEF Running

-----------------------------------------------------------------------------
(***************************************************************************)
(* Steps that only move a cursor.                                          *)
(***************************************************************************)
Still == UNCHANGED <<job, mddVars, free, sets, layer, toDel, cleans, lost>>

LEMMA StillKeeps ==
  ASSUME Base, Still, Ahead' >= Ahead
  PROVE  /\ Types' /\ Counted' /\ Linked' /\ Lists' /\ Waiting' /\ Originals' /\ Found' /\ CutOff'
         /\ Backed => Backed'
         /\ \A n : Covers(n)' <=> Covers(n)
         /\ \A n, u, v : CoversBelow(n, u, v)' <=> CoversBelow(n, u, v)
         /\ \A l : /\ Unit(l)' = Unit(l) /\ Listed(l)' = Listed(l) /\ Present(l)' = Present(l)
                   /\ EndsOf(l)' = EndsOf(l)
<1>1. UNCHANGED <<job, nodes, alive, varIndex, arcs, nbIn, newV, free, setOf, nodeOf, layer,
                  toDel, cleans, lost>>
  BY DEF Still, mddVars, sets
<1>2. Types /\ Counted /\ Linked /\ Lists /\ Waiting /\ Originals /\ Found /\ CutOff
  BY DEF Base
<1>3. \A l : /\ Unit(l)' = Unit(l) /\ Listed(l)' = Listed(l) /\ Present(l)' = Present(l)
             /\ EndsOf(l)' = EndsOf(l)
  BY <1>1 DEF Unit, Listed, Present, EndsOf
<1>4. Ahead \in Int /\ Ahead' \in Int /\ \A l \in Ahead'..Size : l \in Ahead..Size
  BY <1>1, <1>2, LayersAre DEF Ahead, Types
<1>5. Types'
  BY <1>1, <1>2 DEF Types
<1>6. Counted'
  BY <1>1, <1>2 DEF Counted, ArcsInto
<1>7. Linked'
  BY <1>1, <1>2 DEF Linked
<1>8. Lists'
  BY <1>1, <1>2, <1>3 DEF Lists
<1>9. Waiting'
  <2>1. \A k \in 1..Ahead : k \in 1..Ahead'
    BY <1>4
  <2> QED
    BY <1>1, <1>2, <1>3, <2>1 DEF Waiting
<1>10. Originals'
  BY <1>1, <1>2, <1>3, <1>4 DEF Originals
<1>11. Found'
  BY <1>1, <1>2, <1>3, <1>4 DEF Found
<1>12. CutOff'
  BY <1>1, <1>2, <1>3 DEF CutOff, IsChain
<1>13. \A n : Stands(n)' = Stands(n)
  BY <1>1, <1>3 DEF Stands
<1>14. Backed => Backed'
  BY <1>1, <1>13 DEF Backed
<1>15. \A n : Covers(n)' <=> Covers(n)
  BY <1>1, <1>13 DEF Covers
<1>16. \A n, u, v : CoversBelow(n, u, v)' <=> CoversBelow(n, u, v)
  BY <1>1 DEF CoversBelow
<1> QED
  BY <1>3, <1>5, <1>6, <1>7, <1>8, <1>9, <1>10, <1>11, <1>12, <1>14, <1>15, <1>16

\* While a layer is built, another cursor does no harm if what it points to is right.
LEMMA StillBuilding ==
  ASSUME Base, Still, Building, UNCHANGED <<phase, step, parts, newNodes>>, Cursors'
  PROVE  Base'
<1>1. Ahead' = Ahead /\ Ahead \in Int
  BY LayersAre DEF Still, Ahead, Base, Types
<1>2. /\ Types' /\ Counted' /\ Linked' /\ Lists' /\ Waiting' /\ Originals' /\ Found' /\ CutOff'
      /\ \A l : Unit(l)' = Unit(l) /\ Listed(l)' = Listed(l) /\ Present(l)' = Present(l)
  BY <1>1, StillKeeps
<1>3. UNCHANGED <<job, nodes, alive, varIndex, arcs, nbIn, newV, free, setOf, nodeOf, layer>>
  BY DEF Still, mddVars, sets
<1>4. Made'
  BY <1>1, <1>2, <1>3 DEF Base, Made, IsMade
<1>5. AllListed'
  BY <1>1, <1>2, <1>3 DEF Base, AllListed
<1>6. Leads'
  <2>1. \A n : Fresh(n)' <=> Fresh(n)
    BY <1>3 DEF Fresh, NodeFor, Units
  <2> QED
    BY <1>2, <1>3, <2>1 DEF Base, Leads
<1> QED
  BY <1>2, <1>4, <1>5, <1>6 DEF Base

\* What a cursor leaves behind.
LEMMA TailSet ==
  ASSUME NEW S, NEW s \in Seq(S), s # <<>>
  PROVE  /\ Head(s) \in ToSet(s) /\ Tail(s) \in Seq(S) /\ ToSet(Tail(s)) \subseteq ToSet(s)
         /\ \A x \in ToSet(s) : x \in ToSet(Tail(s)) \/ x = Head(s)
<1>1. Head(s) = s[1] /\ 1 \in DOMAIN s /\ Tail(s) \in Seq(S)
  OBVIOUS
<1>2. \A i \in DOMAIN Tail(s) : i + 1 \in DOMAIN s /\ Tail(s)[i] = s[i + 1]
  OBVIOUS
<1>3. \A i \in DOMAIN s : i # 1 => i - 1 \in DOMAIN Tail(s) /\ Tail(s)[i - 1] = s[i]
  OBVIOUS
<1>4. \A x : x \in ToSet(s) <=> \E i \in DOMAIN s : x = s[i]
  BY DEF ToSet
<1>5. \A x : x \in ToSet(Tail(s)) <=> \E i \in DOMAIN Tail(s) : x = Tail(s)[i]
  BY DEF ToSet
<1>6. \A x \in ToSet(Tail(s)) : x \in ToSet(s)
  BY <1>2, <1>4, <1>5
<1>7. \A x \in ToSet(s) : x \in ToSet(Tail(s)) \/ x = Head(s)
  <2> SUFFICES ASSUME NEW x \in ToSet(s), x # Head(s)
               PROVE  x \in ToSet(Tail(s))
    OBVIOUS
  <2>1. PICK i \in DOMAIN s : x = s[i]
    BY <1>4
  <2>2. i # 1
    BY <1>1, <2>1
  <2> QED
    BY <1>3, <1>5, <2>1, <2>2
<1> QED
  BY <1>1, <1>4, <1>6, <1>7

LEMMA BeginNodeRuns ==
  ASSUME Running, BeginNode, UNCHANGED <<job, phase>>
  PROVE  Running'
<1>1. /\ Base /\ Building /\ making = Null /\ todo # <<>>
      /\ UNCHANGED <<phase, step, parts, newNodes>> /\ Still
      /\ IF arcs[Head(todo)] = <<>>
         THEN making' = Head(todo) /\ label' = 0 /\ UNCHANGED todo
         ELSE todo' = Tail(todo) /\ UNCHANGED <<making, label>>
  BY DEF Running, BeginNode, Still
<1>2. /\ Cursors /\ todo \in Seq(Node) /\ ToSet(todo) \subseteq Present(layer)
      /\ layer' = layer /\ job' = job
  BY <1>1 DEF Base, Cursors, Still
<1>3. Head(todo) \in ToSet(todo) /\ Head(todo) \in Node /\ Tail(todo) \in Seq(Node)
  BY <1>1, <1>2 DEF ToSet
<1>4. \A n \in ToSet(todo) : n \in ToSet(Tail(todo)) \/ n = Head(todo)
  BY <1>1, <1>2, TailSet
<1>5. ToSet(Tail(todo)) \subseteq ToSet(todo)
  BY <1>1, <1>2, TailSet
<1>6. Ahead' = Ahead /\ Ahead \in Int
  BY <1>1, LayersAre DEF Still, Ahead, Base, Types
<1>7. /\ \A n : Covers(n)' <=> Covers(n)
      /\ \A l : /\ Unit(l)' = Unit(l) /\ Listed(l)' = Listed(l) /\ Present(l)' = Present(l)
                /\ EndsOf(l)' = EndsOf(l)
      /\ Backed => Backed'
  BY <1>1, <1>6, StillKeeps
<1>8. UNCHANGED <<nodes, alive, varIndex, arcs, nbIn, setOf>>
  BY <1>1 DEF Still, mddVars, sets
\* A node of the layer that has arcs already is a given one, or was built before.
<1>9. ASSUME Covered, arcs[Head(todo)] # <<>>
      PROVE  Covers(Head(todo))
  <2> DEFINE n == Head(todo)
  <2>1. /\ n \in Node /\ n \in alive /\ varIndex[n] = layer /\ Stands(n) = setOf[n]
        /\ layer \in 1..Size - 1 /\ Ahead = layer
    BY <1>1, <1>2, <1>3, PresentStands DEF Building
  <2>2. CASE n \in Unit(layer)
    <3>1. layer \in Ahead..Size - 1
      BY <2>1, LayersAre
    <3> QED
      BY <1>1, <2>2, <3>1, UnitCovers
  <2>3. CASE n \notin Unit(layer)
    <3>1. IsMade(n)
      BY <2>1, <2>3 DEF IsMade
    <3>2. n # making
      BY <1>1, <2>1, NullIsNoNode
    <3> QED
      BY <1>9, <2>1, <3>1, <3>2 DEF Covered
  <2> QED
    BY <2>2, <2>3
<1>10. CASE arcs[Head(todo)] = <<>>
  <2>1. making' = Head(todo) /\ label' = 0 /\ todo' = todo /\ making' # Null
    BY <1>1, <1>3, <1>10, NullIsNoNode
  <2>2. Head(todo) \in Unit(layer) => job.arcs[Head(todo)] = <<>>
    <3>1. layer \in Ahead..Size
      BY <1>1, LayersAre DEF Base, Types, Ahead, Building
    <3> QED
      BY <1>1, <1>10, <3>1 DEF Base, Originals
  <2>3. Cursors'
    BY <1>1, <1>2, <1>7, <2>1, <2>2 DEF Cursors, Building
  <2>4. Base'
    BY <1>1, <2>3, StillBuilding
  <2>5. Covered => Covered'
    <3> SUFFICES ASSUME Covered
                 PROVE  Covered'
      OBVIOUS
    <3>1. \A n \in Node : IsMade(n)' <=> IsMade(n)
      BY <1>6, <1>7, <1>8 DEF IsMade
    <3>2. \A n \in Node : n # making
      BY <1>1, NullIsNoNode
    <3>3. \A n \in Node : IsMade(n)' /\ n # making' => arcs'[n] = <<>> \/ Covers(n)'
      BY <1>7, <1>8, <3>1, <3>2 DEF Covered
    <3>4. \A u \in setOf'[making'] : CoversBelow(making, u, label)'
      <4> SUFFICES ASSUME NEW u \in setOf[Head(todo)], NEW a \in ToSet(job.arcs[u])
                   PROVE  ~ (a.value < 0)
        BY <1>2, <1>8, <2>1 DEF CoversBelow
      <4>1. setOf[Head(todo)] \subseteq Unit(layer) /\ layer \in 1..Size - 1
        BY <1>1, <1>2, <1>3, PresentStands DEF Building
      <4>2. layer \in Layer /\ Types
        BY <1>1, <4>1, LayersAre DEF Base
      <4>3. a \in Arc
        BY <4>1, <4>2, JobFacts DEF Types
      <4>4. a.value \in Nat
        BY <4>3, LabelsAreNats DEF Arc
      <4> QED
        BY <4>4
    <3> QED
      BY <1>1, <1>2, <1>6, <1>7, <1>8, <2>1, <3>3, <3>4 DEF Covered
  <2>6. Narrow => Narrow'
    BY <1>1, <1>2, <1>6, <1>7, <1>8 DEF Narrow
  <2> QED
    BY <1>2, <1>7, <2>4, <2>5, <2>6 DEF Running
<1>11. CASE arcs[Head(todo)] # <<>>
  <2>1. todo' = Tail(todo) /\ making' = making /\ label' = label
    BY <1>1, <1>11
  <2>2. Cursors'
    BY <1>1, <1>2, <1>3, <1>5, <1>7, <2>1 DEF Cursors, Building
  <2>3. Base'
    BY <1>1, <2>2, StillBuilding
  <2>4. Covered => Covered'
    <3> SUFFICES ASSUME Covered
                 PROVE  Covered'
      OBVIOUS
    <3>1. Covers(Head(todo))
      BY <1>9, <1>11
    <3>2. \A n \in Node : IsMade(n)' <=> IsMade(n)
      BY <1>6, <1>7, <1>8 DEF IsMade
    <3>3. \A n : n \in ToSet(todo) \/ Covers(n) => n \in ToSet(todo') \/ Covers(n)'
      BY <1>4, <1>7, <2>1, <3>1
    <3>4. \A n \in Node : IsMade(n)' /\ n # making' => arcs'[n] = <<>> \/ Covers(n)'
      BY <1>7, <1>8, <2>1, <3>2 DEF Covered
    <3>5. \A k \in 0..Ahead' - 1 : \A n \in Listed(k)' : Covers(n)'
      BY <1>6, <1>7 DEF Covered
    <3>6. step' \in {"build", "above"} => \A n \in ToSet(newNodes') : n \in ToSet(todo') \/ Covers(n)'
      BY <1>1, <3>3 DEF Covered
    <3>7. step' = "fill" => \A n \in Listed(layer)' : n \in ToSet(todo') \/ Covers(n)'
      BY <1>1, <1>2, <1>7, <3>3 DEF Covered
    <3> QED
      BY <1>1, <2>1, <3>4, <3>5, <3>6, <3>7 DEF Covered, Building
  <2>5. Narrow => Narrow'
    BY <1>1, <1>2, <1>6, <1>7, <1>8 DEF Narrow
  <2> QED
    BY <1>2, <1>7, <2>3, <2>4, <2>5 DEF Running
<1> QED
  BY <1>10, <1>11

LEMMA SkipLabelRuns ==
  ASSUME Running, SkipLabel, job.kind # "relax", UNCHANGED <<job, phase>>
  PROVE  Running'
<1>1. /\ Base /\ Building /\ making # Null /\ ArcsLeft # {} /\ label' = MinLabel + 1 /\ Still
      /\ UNCHANGED <<phase, step, parts, newNodes, todo, making>>
  BY DEF Running, SkipLabel, Still
<1>2. Ahead' = Ahead /\ Ahead \in Int
  BY <1>1, LayersAre DEF Still, Ahead, Base, Types
<1>3. MinLabel + 1 \in Nat
  BY <1>1, LabelFacts
<1>4. /\ \A l : Unit(l)' = Unit(l) /\ Present(l)' = Present(l)
      /\ Backed => Backed'
  BY <1>1, <1>2, StillKeeps
<1>5. Cursors'
  BY <1>1, <1>3, <1>4 DEF Base, Cursors, Building, Still
<1>6. Base'
  BY <1>1, <1>5, StillBuilding
<1> QED
  BY <1>4, <1>6 DEF Running

\* The arcs of the node are built.
LEMMA EndNodeRuns ==
  ASSUME Running, Building, making # Null, ArcsLeft = {},
         making' = Null, todo' = Tail(todo), Still,
         UNCHANGED <<phase, step, parts, newNodes, label>>
  PROVE  Running'
<1>1. Base /\ Cursors
  BY DEF Running, Base
<1>2. Ahead' = Ahead /\ Ahead \in Int
  BY <1>1, LayersAre DEF Still, Ahead, Base, Types
<1>3. /\ todo \in Seq(Node) /\ todo # <<>> /\ making = Head(todo) /\ making \in Node
      /\ layer \in 1..Size - 1 /\ Ahead = layer
      /\ Stands(making) = setOf[making] /\ setOf[making] \subseteq Unit(layer)
      /\ \A u \in setOf[making] : arcs[u] = job.arcs[u]
  BY <1>1, MakingStands
<1>4. /\ Tail(todo) \in Seq(Node) /\ ToSet(Tail(todo)) \subseteq ToSet(todo)
      /\ \A n \in ToSet(todo) : n \in ToSet(Tail(todo)) \/ n = making
  BY <1>3, TailSet
<1>5. /\ \A l : /\ Unit(l)' = Unit(l) /\ Listed(l)' = Listed(l) /\ Present(l)' = Present(l)
                /\ EndsOf(l)' = EndsOf(l)
      /\ \A n : Covers(n)' <=> Covers(n)
      /\ Backed => Backed'
  BY <1>1, <1>2, StillKeeps
<1>6. UNCHANGED <<job, layer, nodes, alive, varIndex, arcs, nbIn, setOf>>
  BY DEF Still, mddVars, sets
<1>7. Cursors'
  BY <1>1, <1>4, <1>5, <1>6 DEF Cursors, Building
<1>8. Base'
  BY <1>1, <1>7, StillBuilding
<1>9. Covered => Covered'
  <2> SUFFICES ASSUME Covered
               PROVE  Covered'
    OBVIOUS
  <2>1. Covers(making)
    <3> SUFFICES ASSUME NEW u \in setOf[making], NEW a \in ToSet(job.arcs[u])
                 PROVE  \E b \in ToSet(arcs[making]) : b.value = a.value /\ a.end \in setOf[b.end]
      BY <1>3 DEF Covers
    <3>1. a.value \in Nat /\ label \in Nat
      <4>1. u \in Unit(layer) /\ layer \in Layer /\ job \in DiagramJobs /\ label \in Nat
        <5>1. Types /\ Cursors
          BY <1>1 DEF Base
        <5>2. job \in DiagramJobs /\ label \in Nat
          BY <5>1 DEF Types, Cursors
        <5> QED
          BY <1>3, <5>2, LayersAre
      <4>2. a \in Arc
        BY <4>1, JobFacts
      <4> QED
        BY <4>1, <4>2, LabelsAreNats DEF Arc
    <3>2. ~ (a.value >= label)
      <4>1. a \in ToSet(arcs[u])
        BY <1>3
      <4>2. a.value >= label => a \in ArcsLeft
        BY <4>1 DEF ArcsLeft
      <4> QED
        BY <4>2
    <3>3. a.value < label
      BY <3>1, <3>2
    <3> QED
      BY <3>3 DEF Covered, CoversBelow
  <2>2. \A n \in Node : IsMade(n)' <=> IsMade(n)
    BY <1>2, <1>5, <1>6 DEF IsMade
  <2>3. \A n \in Node : IsMade(n)' /\ n # making' => arcs'[n] = <<>> \/ Covers(n)'
    BY <1>5, <1>6, <2>1, <2>2 DEF Covered
  <2>4. \A n : n \in ToSet(todo) \/ Covers(n) => n \in ToSet(todo') \/ Covers(n)'
    BY <1>4, <1>5, <2>1
  <2>5. \A k \in 0..Ahead' - 1 : \A n \in Listed(k)' : Covers(n)'
    BY <1>2, <1>5 DEF Covered
  <2>6. step' \in {"build", "above"} => \A n \in ToSet(newNodes') : n \in ToSet(todo') \/ Covers(n)'
    BY <2>4 DEF Covered
  <2>7. step' = "fill" => \A n \in Listed(layer)' : n \in ToSet(todo') \/ Covers(n)'
    BY <1>5, <1>6, <2>4 DEF Covered
  <2> QED
    BY <1>1, <2>3, <2>5, <2>6, <2>7 DEF Covered, Building
<1>10. Narrow => Narrow'
  BY <1>2, <1>5, <1>6 DEF Narrow, Building
<1> QED
  BY <1>6, <1>5, <1>8, <1>9, <1>10 DEF Running

LEMMA EndPartsRuns ==
  ASSUME Running, EndParts, UNCHANGED <<job, phase>>
  PROVE  Running'
<1>1. /\ Base /\ Still /\ step = "part" /\ parts = <<>> /\ step' = "build" /\ todo' = newNodes
      /\ UNCHANGED <<parts, newNodes, making, label>>
  BY DEF Running, EndParts, Still
<1>2. Ahead' = Ahead /\ Ahead = layer /\ layer \in Int
  BY <1>1, LayersAre DEF Still, Ahead, Base, Types
<1>3. /\ Types' /\ Counted' /\ Linked' /\ Lists' /\ Waiting' /\ Originals' /\ Found' /\ CutOff'
      /\ \A l : /\ Unit(l)' = Unit(l) /\ Listed(l)' = Listed(l) /\ Present(l)' = Present(l)
                /\ EndsOf(l)' = EndsOf(l)
      /\ \A n : Covers(n)' <=> Covers(n)
      /\ Backed => Backed'
  BY <1>1, <1>2, StillKeeps
<1>4. UNCHANGED <<job, nodes, alive, varIndex, arcs, nbIn, newV, free, setOf, nodeOf, layer>>
  BY <1>1 DEF Still, mddVars, sets
<1>5. making = Null
  BY <1>1 DEF Base, Cursors, Building
<1>6. ToSet(newNodes) \subseteq Present(layer)
  BY <1>1 DEF Base, Leads
<1>7. Cursors'
  BY <1>1, <1>3, <1>4, <1>5, <1>6 DEF Base, Cursors, Building
<1>8. \A n \in Node : IsMade(n)' <=> IsMade(n)
  BY <1>2, <1>3, <1>4 DEF IsMade
<1>9. Made'
  BY <1>1, <1>2, <1>3, <1>4, <1>8 DEF Base, Made
<1>10. AllListed'
  BY <1>1, <1>2, <1>3, <1>4 DEF Base, AllListed
<1>11. Leads'
  <2>1. \A n : ~Fresh(n)
    BY <1>1 DEF Fresh
  <2> QED
    BY <1>1, <1>3, <1>4, <2>1 DEF Base, Leads
<1>12. Base'
  BY <1>3, <1>7, <1>9, <1>10, <1>11 DEF Base
<1>13. Covered => Covered'
  BY <1>1, <1>2, <1>3, <1>4, <1>5, <1>8 DEF Covered
<1>14. Narrow => Narrow'
  BY <1>1, <1>2, <1>3, <1>4 DEF Narrow
<1> QED
  BY <1>3, <1>4, <1>12, <1>13, <1>14 DEF Running

-----------------------------------------------------------------------------
(***************************************************************************)
(* The ends of arcs.                                                       *)
(***************************************************************************)
\* Nodes have finitely many arcs,
LEMMA FewArcs ==
  ASSUME Types, NEW S \in SUBSET Node
  PROVE  IsFiniteSet(UNION {{<<n, i>> : i \in DOMAIN arcs[n]} : n \in S})
<1> DEFINE d == [n \in S |-> DOMAIN arcs[n]]
<1>1. \A n \in S : d[n] = DOMAIN arcs[n]
  OBVIOUS
<1> HIDE DEF d
<1>2. ASSUME NEW n \in S
      PROVE  IsFiniteSet(d[n])
  <2>1. DOMAIN arcs[n] = 1..Len(arcs[n]) /\ Len(arcs[n]) \in Int
    BY DEF Types
  <2> QED
    BY <1>1, <2>1, FS_Interval
<1>3. IsFiniteSet(S)
  BY NodeIsFinite
<1>4. IsFiniteSet(UNION {{<<n, i>> : i \in d[n]} : n \in S})
  BY <1>2, <1>3, PairsFinite
<1>5. {{<<n, i>> : i \in d[n]} : n \in S} = {{<<n, i>> : i \in DOMAIN arcs[n]} : n \in S}
  BY <1>1
<1> QED
  BY <1>4, <1>5

\* and finitely many arcs into them.
LEMMA FewInto ==
  ASSUME Types, NEW S \in SUBSET Node, NEW m
  PROVE  IsFiniteSet(ArcsInto(m, S)) /\ Cardinality(ArcsInto(m, S)) \in Nat
<1> DEFINE U == UNION {{<<n, i>> : i \in DOMAIN arcs[n]} : n \in S}
<1>1. ArcsInto(m, S) \subseteq U
  BY DEF ArcsInto
<1>2. IsFiniteSet(U)
  BY FewArcs
<1> HIDE DEF U
<1> QED
  BY <1>1, <1>2, FS_Subset, FS_CardinalityType

\* A node into which an arc leads has arcs into it.
LEMMA OneInto ==
  ASSUME NEW N \in SUBSET Node, NEW b \in [Node -> Seq(Arc)], NEW n \in N,
         NEW i \in DOMAIN b[n], NEW m, b[n][i].end = m
  PROVE  Cardinality(UNION {{<<k, j>> : j \in {h \in DOMAIN b[k] : b[k][h].end = m}} :
                            k \in N}) # 0
<1> DEFINE d == [k \in N |-> {h \in DOMAIN b[k] : b[k][h].end = m}]
           U == UNION {{<<k, j>> : j \in d[k]} : k \in N}
<1>1. \A k \in N : d[k] = {h \in DOMAIN b[k] : b[k][h].end = m}
  OBVIOUS
<1> HIDE DEF d
<1>2. ASSUME NEW k \in N
      PROVE  IsFiniteSet(d[k])
  <2>1. DOMAIN b[k] = 1..Len(b[k]) /\ Len(b[k]) \in Int
    OBVIOUS
  <2>2. IsFiniteSet(DOMAIN b[k])
    BY <2>1, FS_Interval
  <2>3. d[k] \subseteq DOMAIN b[k]
    BY <1>1
  <2> QED
    BY <2>2, <2>3, FS_Subset
<1>3. IsFiniteSet(N)
  BY NodeIsFinite
<1>4. IsFiniteSet(U)
  BY <1>2, <1>3, PairsFinite
<1>5. <<n, i>> \in U
  BY <1>1
<1>6. U = UNION {{<<k, j>> : j \in {h \in DOMAIN b[k] : b[k][h].end = m}} : k \in N}
  BY <1>1
<1> QED
  BY <1>4, <1>5, <1>6, FS_EmptySet

\* The end of an arc is counted, so that it does not wait for its deletion.
LEMMA EndsArePresent ==
  ASSUME Types, Linked, Counted, Waiting, NEW n \in Node, NEW a \in ToSet(arcs[n])
  PROVE  a.end \in Present(varIndex[n] + 1) /\ nbIn[a.end] # 0
<1>1. n \in alive /\ a.end \in alive /\ varIndex[a.end] = varIndex[n] + 1 /\ alive \in SUBSET Node
  BY ArcsOf DEF Types
<1>2. PICK i \in DOMAIN arcs[n] : a = arcs[n][i]
  BY DEF ToSet
<1>3. <<n, i>> \in ArcsInto(a.end, alive)
  BY <1>1, <1>2 DEF ArcsInto
<1>4. IsFiniteSet(ArcsInto(a.end, alive))
  BY <1>1, FewInto
<1>5. Cardinality(ArcsInto(a.end, alive)) # 0
  BY <1>3, <1>4, FS_EmptySet
<1>6. nbIn[a.end] # 0
  BY <1>1, <1>5 DEF Counted
<1>7. a.end \notin ToSet(toDel)
  BY <1>6 DEF Waiting
<1> QED
  BY <1>1, <1>6, <1>7 DEF Present

LEMMA EndBuildRuns ==
  ASSUME Running, EndBuild, UNCHANGED <<job, phase>>
  PROVE  Running'
<1>1. /\ Base /\ Still /\ Building /\ making = Null /\ todo = <<>>
      /\ step' = IF step = "fill" THEN "idle" ELSE "above"
      /\ UNCHANGED <<parts, newNodes, todo, making, label>>
  BY DEF Running, EndBuild, Still, cursors
<1>2. /\ Ahead = layer /\ layer \in Int /\ Ahead' = IF step = "fill" THEN layer + 1 ELSE layer
      /\ layer \in 1..Size - 1
  BY <1>1, LayersAre DEF Still, Ahead, Base, Types, Building, Cursors
<1>3. /\ Types' /\ Counted' /\ Linked' /\ Lists' /\ Waiting' /\ Originals' /\ Found' /\ CutOff'
      /\ \A l : /\ Unit(l)' = Unit(l) /\ Listed(l)' = Listed(l) /\ Present(l)' = Present(l)
                /\ EndsOf(l)' = EndsOf(l)
      /\ \A n : Covers(n)' <=> Covers(n)
      /\ Backed => Backed'
  BY <1>1, <1>2, StillKeeps
<1>4. UNCHANGED <<job, nodes, alive, varIndex, arcs, nbIn, newV, free, setOf, nodeOf, layer>>
  BY <1>1 DEF Still, mddVars, sets
<1>5. Cursors'
  BY <1>1, <1>3, <1>4 DEF Base, Cursors, Building
<1>6. \A n \in Node : varIndex[n] \in Int
  <2>1. varIndex \in [Node -> Layer]
    BY <1>1 DEF Base, Types
  <2> QED
    BY <2>1, LayersAre
<1>7. ASSUME NEW n \in Node, IsMade(n)'
      PROVE  IsMade(n)
  <2>1. n \in alive /\ varIndex[n] >= Ahead' /\ n \notin Unit(varIndex[n])
    BY <1>3, <1>4, <1>7 DEF IsMade
  <2>2. varIndex[n] >= Ahead
    BY <1>2, <1>6, <2>1
  <2> QED
    BY <2>1, <2>2 DEF IsMade
<1>8. Made'
  <2> SUFFICES ASSUME NEW n \in Node, IsMade(n)'
               PROVE  /\ setOf[n] \subseteq Unit(varIndex[n]) /\ setOf[n] # {}
                      /\ Cardinality(setOf[n]) # 1
                      /\ varIndex[n] <= Ahead' + 1
                      /\ step' \in {"idle", "part"} => varIndex[n] = Ahead'
                      /\ (step' \in {"idle", "part"} \/ varIndex[n] = Ahead' + 1) => arcs[n] = <<>>
    BY <1>3, <1>4 DEF Made
  <2>1. /\ setOf[n] \subseteq Unit(varIndex[n]) /\ setOf[n] # {} /\ Cardinality(setOf[n]) # 1
        /\ varIndex[n] <= layer + 1
        /\ varIndex[n] = layer + 1 => arcs[n] = <<>>
    BY <1>1, <1>2, <1>7 DEF Base, Made
  <2>2. varIndex[n] >= Ahead'
    BY <1>4 DEF IsMade
  <2> QED
    BY <1>1, <1>2, <1>6, <2>1, <2>2 DEF Building
<1>9. AllListed'
  <2> SUFFICES ASSUME NEW l \in Layer,
                      job.kind = "relax" \/ l > Ahead' \/ (l = Ahead' /\ step' \in {"idle", "part"})
               PROVE  Present(l) \subseteq Listed(l)
    BY <1>3, <1>4 DEF AllListed
  <2>1. job.kind = "relax" \/ l > layer
    BY <1>1, <1>2, LayersAre
  <2> QED
    BY <1>1, <1>2, <2>1 DEF Base, AllListed
<1>10. Leads'
  <2>1. step' \in {"part", "build", "above"} => step = "build" /\ parts = <<>>
    BY <1>1 DEF Building, Base, Cursors
  <2>2. parts = <<>> => \A n : ~Fresh(n)
    BY DEF Fresh
  <2> QED
    BY <1>1, <1>3, <1>4, <2>1, <2>2 DEF Base, Leads
<1>11. Base'
  BY <1>3, <1>5, <1>8, <1>9, <1>10 DEF Base
<1>12. Covered => Covered'
  <2> SUFFICES ASSUME Covered
               PROVE  Covered'
    OBVIOUS
  <2>1. \A n : n \notin ToSet(todo) /\ n \notin ToSet(todo')
    BY <1>1 DEF ToSet
  <2>2. \A n \in Node : n # making /\ n # making'
    BY <1>1, NullIsNoNode
  <2>3. \A n \in Node : IsMade(n)' /\ n # making' => arcs'[n] = <<>> \/ Covers(n)'
    BY <1>3, <1>4, <1>7, <2>2 DEF Covered
  <2>4. \A k \in 0..layer - 1 : \A n \in Listed(k) : Covers(n)
    BY <1>2 DEF Covered
  <2>5. step = "fill" => \A n \in Listed(layer) : Covers(n)
    BY <2>1 DEF Covered
  <2>6. step = "build" => \A n \in ToSet(newNodes) : Covers(n)
    BY <2>1 DEF Covered
  <2>7. \A k \in 0..Ahead' - 1 : \A n \in Listed(k) : Covers(n)
    <3>1. \A k \in 0..layer : k \in 0..layer - 1 \/ k = layer
      BY <1>2
    <3> QED
      BY <1>2, <2>4, <2>5, <3>1
  <2>8. step' \in {"build", "above"} => step = "build"
    BY <1>1 DEF Building
  <2>9. step' \notin {"fill", "clean"}
    BY <1>1
  <2> QED
    BY <1>1, <1>3, <2>3, <2>6, <2>7, <2>8, <2>9 DEF Covered
<1>13. job.kind = "relax" /\ Narrow => Narrow'
  <2> SUFFICES ASSUME job.kind = "relax", Narrow
               PROVE  Narrow'
    OBVIOUS
  <2>1. \A l \in 1..layer - 1 : Cardinality(EndsOf(l - 1)) <= Width
    BY <1>2 DEF Narrow
  <2>2. ASSUME step = "fill"
        PROVE  Cardinality(EndsOf(layer - 1)) <= Width
    <3>1. Len(nodes[layer]) <= Width
      BY <2>2 DEF Narrow
    <3>2. layer \in Layer /\ layer - 1 \in Layer /\ layer - 1 + 1 = layer
      BY <1>2, LayersAre
    <3>3. Types /\ Linked /\ Counted /\ Waiting /\ Lists /\ AllListed
      BY <1>1 DEF Base
    <3>4. EndsOf(layer - 1) \subseteq Listed(layer)
      <4> SUFFICES ASSUME NEW n \in Listed(layer - 1), NEW a \in ToSet(arcs[n])
                   PROVE  a.end \in Listed(layer)
        BY DEF EndsOf
      <4>1. n \in Node /\ varIndex[n] = layer - 1
        BY <3>2, <3>3 DEF Lists, Types
      <4>2. a.end \in Present(layer)
        BY <3>2, <3>3, <4>1, EndsArePresent
      <4> QED
        BY <3>2, <3>3, <4>2 DEF AllListed
    <3>5. nodes[layer] \in Seq(Node) /\ IsInjective(nodes[layer])
      BY <3>2, <3>3 DEF Types, Lists
    <3>6. Cardinality(Listed(layer)) = Len(nodes[layer]) /\ IsFiniteSet(Listed(layer))
      BY <3>5, InjectiveCardinality, ListFinite, ListedIs
    <3>7. Cardinality(EndsOf(layer - 1)) <= Cardinality(Listed(layer))
          /\ Cardinality(EndsOf(layer - 1)) \in Nat
      BY <3>4, <3>6, FS_Subset, FS_CardinalityType
    <3> QED
      BY <3>1, <3>5, <3>6, <3>7, WidthIsPositive
  <2>3. \A l \in 1..Ahead' - 1 : Cardinality(EndsOf(l - 1)) <= Width
    <3>1. \A l \in 1..layer : l \in 1..layer - 1 \/ l = layer
      BY <1>2
    <3> QED
      BY <1>2, <2>1, <2>2, <3>1
  <2> QED
    BY <1>1, <1>3, <2>3 DEF Narrow
<1> QED
  BY <1>3, <1>4, <1>11, <1>12, <1>13 DEF Running

-----------------------------------------------------------------------------
(***************************************************************************)
(* AddUnionArc and AddCommonArc.                                           *)
(***************************************************************************)
Adding(m) ==
  /\ Base /\ Building /\ making # Null /\ ArcsLeft # {}
  /\ m = NodeFor(Ends) /\ m # Null
  /\ AddArcLast(making, MinLabel, m)
  /\ label' = MinLabel + 1
  /\ UNCHANGED <<job, phase, free, step, layer, sets, parts, newNodes, todo, making, toDel,
                 cleans, lost>>

LEMMA AddingFacts ==
  ASSUME NEW m, Adding(m)
  PROVE  /\ m \in Node /\ m \in alive /\ varIndex[m] = layer + 1 /\ setOf[m] = Ends
         /\ UNCHANGED <<job, nodes, alive, varIndex, newV, free, setOf, nodeOf, layer, step,
                        toDel, cleans, lost>>
         /\ arcs' \in [Node -> Seq(Arc)] /\ nbIn' \in [Node -> Int]
         /\ \A n \in Node : n # making => arcs'[n] = arcs[n]
         /\ \A n \in Node : n # m => nbIn'[n] = nbIn[n]
         /\ nbIn'[m] = nbIn[m] + 1
         /\ Len(arcs'[making]) = Len(arcs[making]) + 1 /\ Len(arcs[making]) \in Nat
         /\ \A i \in 1..Len(arcs[making]) : arcs'[making][i] = arcs[making][i]
         /\ arcs'[making][Len(arcs[making]) + 1] = [value |-> MinLabel, end |-> m]
         /\ \A n \in Node : ToSet(arcs[n]) \subseteq ToSet(arcs'[n])
         /\ ToSet(arcs'[making]) = ToSet(arcs[making]) \cup {[value |-> MinLabel, end |-> m]}
<1> DEFINE s == arcs[making]
           e == [value |-> MinLabel, end |-> m]
<1>1. /\ Base /\ Types /\ Originals /\ Found /\ making \in Node /\ layer \in 1..Size - 1
      /\ Ahead = layer
  BY MakingStands DEF Adding, Base
<1>2. layer + 1 \in Ahead..Size /\ layer + 1 \in Layer
  BY <1>1, LayersAre
<1>3. MinLabel \in Label /\ Ends \subseteq Unit(layer + 1) /\ Ends # {}
  BY LabelFacts DEF Adding
<1>4. m \in Node /\ m \in alive /\ varIndex[m] = layer + 1 /\ setOf[m] = Ends
  BY <1>1, <1>2, <1>3, NodeForFacts DEF Adding
<1>5. /\ UNCHANGED <<job, nodes, alive, varIndex, newV, free, setOf, nodeOf, layer, step,
                     toDel, cleans, lost>>
      /\ arcs' = [arcs EXCEPT ![making] = InsertAt(s, Len(s) + 1, e)]
      /\ nbIn' = [nbIn EXCEPT ![m] = nbIn[m] + 1]
  <2>1. /\ AddArcLast(making, MinLabel, m)
        /\ UNCHANGED <<job, free, setOf, nodeOf, layer, step, toDel, cleans, lost>>
    BY DEF Adding, sets
  <2> QED
    BY <2>1 DEF AddArcLast, NewArcAt
<1>6. s \in Seq(Arc) /\ e \in Arc /\ Len(s) \in Nat /\ Len(s) + 1 \in 1..Len(s) + 1
  <2>1. s \in Seq(Arc)
    BY <1>1 DEF Types
  <2>2. e \in Arc
    BY <1>3, <1>4 DEF Arc
  <2> HIDE DEF s, e
  <2>3. Len(s) \in Nat
    BY <2>1
  <2> QED
    BY <2>1, <2>2, <2>3
<1>7. /\ InsertAt(s, Len(s) + 1, e) \in Seq(Arc)
      /\ Len(InsertAt(s, Len(s) + 1, e)) = Len(s) + 1
      /\ \A i \in 1..Len(s) + 1 :
           InsertAt(s, Len(s) + 1, e)[i] = IF i < Len(s) + 1 THEN s[i]
                                           ELSE IF i = Len(s) + 1 THEN e ELSE s[i - 1]
  <2> HIDE DEF s, e
  <2> QED
    BY <1>6, InsertAtFacts
<1>8. /\ arcs' \in [Node -> Seq(Arc)] /\ nbIn' \in [Node -> Int]
      /\ \A n \in Node : n # making => arcs'[n] = arcs[n]
      /\ \A n \in Node : n # m => nbIn'[n] = nbIn[n]
      /\ nbIn'[m] = nbIn[m] + 1 /\ arcs'[making] = InsertAt(s, Len(s) + 1, e)
  <2>1. /\ arcs \in [Node -> Seq(Arc)] /\ nbIn \in [Node -> Int]
        /\ making \in Node /\ m \in Node
    BY <1>1, <1>4 DEF Types
  <2> HIDE DEF s, e
  <2> QED
    BY <2>1, <1>5, <1>7
<1>9. /\ Len(arcs'[making]) = Len(s) + 1
      /\ \A i \in 1..Len(s) : arcs'[making][i] = s[i]
      /\ arcs'[making][Len(s) + 1] = e
  <2> HIDE DEF s, e
  <2>1. /\ \A i \in 1..Len(s) : i \in 1..Len(s) + 1 /\ i < Len(s) + 1
        /\ Len(s) + 1 \in 1..Len(s) + 1 /\ ~ (Len(s) + 1 < Len(s) + 1)
    BY <1>6
  <2> QED
    BY <2>1, <1>7, <1>8
<1>10. ToSet(arcs'[making]) = ToSet(s) \cup {e}
  <2> DEFINE r == arcs'[making]
  <2>1. r \in Seq(Arc) /\ s \in Seq(Arc)
    BY <1>1, <1>6, <1>8
  <2>2. DOMAIN r = 1..Len(s) + 1 /\ DOMAIN s = 1..Len(s)
    BY <1>9, <2>1
  <2> HIDE DEF r, s, e
  <2>3. (\A i \in 1..Len(s) : r[i] = s[i]) /\ r[Len(s) + 1] = e
    BY <1>9 DEF r
  <2>4. \A i \in 1..Len(s) + 1 : i \in 1..Len(s) \/ i = Len(s) + 1
    BY <1>6
  <2>5. \A i \in 1..Len(s) : i \in 1..Len(s) + 1
    BY <1>6
  <2>6. Len(s) + 1 \in 1..Len(s) + 1
    BY <1>6
  <2>7. \A x : x \in ToSet(r) <=> \E i \in 1..Len(s) + 1 : x = r[i]
    BY <2>2 DEF ToSet
  <2>8. \A x : x \in ToSet(s) <=> \E i \in 1..Len(s) : x = s[i]
    BY <2>2 DEF ToSet
  <2>9. \A x : x \in ToSet(r) <=> x \in ToSet(s) \/ x = e
    BY <2>3, <2>4, <2>5, <2>6, <2>7, <2>8
  <2> QED
    BY <2>9 DEF r
<1>11. \A n \in Node : ToSet(arcs[n]) \subseteq ToSet(arcs'[n])
  BY <1>8, <1>10
<1> QED
  BY <1>4, <1>5, <1>6, <1>8, <1>9, <1>10, <1>11

\* The arc is counted at its end, and leads to the layer below.
LEMMA AddingLinked ==
  ASSUME NEW m, Adding(m)
  PROVE  Types' /\ Linked' /\ Counted'
<1> DEFINE s == arcs[making]
           p == <<making, Len(s) + 1>>
<1>1. /\ Types /\ Linked /\ Counted /\ making \in Node /\ making \in alive
      /\ varIndex[making] = layer
  BY MakingStands DEF Adding, Base
<1>2. /\ m \in Node /\ m \in alive /\ varIndex[m] = layer + 1
      /\ UNCHANGED <<job, nodes, alive, varIndex, newV, free, setOf, nodeOf, layer, step,
                     toDel, cleans, lost>>
      /\ arcs' \in [Node -> Seq(Arc)] /\ nbIn' \in [Node -> Int]
      /\ \A n \in Node : n # making => arcs'[n] = arcs[n]
      /\ \A n \in Node : n # m => nbIn'[n] = nbIn[n]
      /\ nbIn'[m] = nbIn[m] + 1
      /\ Len(arcs'[making]) = Len(s) + 1 /\ Len(s) \in Nat
      /\ \A i \in 1..Len(s) : arcs'[making][i] = s[i]
      /\ arcs'[making][Len(s) + 1] = [value |-> MinLabel, end |-> m]
  BY AddingFacts
<1>3. Types'
  BY <1>1, <1>2 DEF Types
<1>4. DOMAIN arcs'[making] = 1..Len(s) + 1 /\ DOMAIN s = 1..Len(s)
  <2>1. arcs'[making] \in Seq(Arc) /\ s \in Seq(Arc)
    BY <1>1, <1>2 DEF Types
  <2> QED
    BY <1>2, <2>1
<1>5. \A i \in DOMAIN arcs'[making] : i \in DOMAIN s \/ i = Len(s) + 1
  BY <1>2, <1>4
<1>6. /\ \A i \in DOMAIN s : i \in DOMAIN arcs'[making] /\ arcs'[making][i] = s[i]
      /\ Len(s) + 1 \in DOMAIN arcs'[making] /\ Len(s) + 1 \notin DOMAIN s
      /\ arcs'[making][Len(s) + 1].end = m
  BY <1>2, <1>4
<1> HIDE DEF s
<1>7. Linked'
  <2> SUFFICES ASSUME NEW n \in Node, NEW i \in DOMAIN arcs'[n]
               PROVE  /\ n \in alive /\ arcs'[n][i].end \in alive
                      /\ varIndex[arcs'[n][i].end] = varIndex[n] + 1
    BY <1>2 DEF Linked
  <2>1. CASE n # making
    <3>1. arcs'[n] = arcs[n] /\ i \in DOMAIN arcs[n]
      BY <1>2, <2>1
    <3> QED
      BY <1>1, <3>1 DEF Linked
  <2>2. CASE n = making
    <3>1. CASE i \in DOMAIN s
      BY <1>1, <1>6, <2>2, <3>1 DEF Linked, s
    <3>2. CASE i = Len(s) + 1
      BY <1>1, <1>2, <1>6, <2>2, <3>2
    <3> QED
      BY <1>5, <2>2, <3>1, <3>2
  <2> QED
    BY <2>1, <2>2
<1>8. alive \in SUBSET Node
  BY <1>1 DEF Types
\* The arcs into a node are those it had, and the new one at m.
<1>9. ASSUME NEW k \in alive
      PROVE  ArcsInto(k, alive)' = IF k = m THEN ArcsInto(k, alive) \cup {p} ELSE ArcsInto(k, alive)
  <2>1. \A x : x \in ArcsInto(k, alive) <=>
                 \E n \in alive : \E i \in DOMAIN arcs[n] : x = <<n, i>> /\ arcs[n][i].end = k
    BY DEF ArcsInto
  <2>2. \A x : x \in ArcsInto(k, alive)' <=>
                 \E n \in alive : \E i \in DOMAIN arcs'[n] : x = <<n, i>> /\ arcs'[n][i].end = k
    BY <1>2 DEF ArcsInto
  <2>3. ASSUME NEW x \in ArcsInto(k, alive)
        PROVE  x \in ArcsInto(k, alive)'
    <3>1. PICK n \in alive : \E i \in DOMAIN arcs[n] : x = <<n, i>> /\ arcs[n][i].end = k
      BY <2>1
    <3>2. CASE n # making
      BY <1>2, <1>8, <2>2, <3>1, <3>2
    <3>3. CASE n = making
      BY <1>1, <1>6, <2>2, <3>1, <3>3 DEF s
    <3> QED
      BY <3>2, <3>3
  <2>4. ASSUME NEW x \in ArcsInto(k, alive)', x \notin ArcsInto(k, alive)
        PROVE  x = p /\ k = m
    <3>0. PICK n \in alive : \E i \in DOMAIN arcs'[n] : x = <<n, i>> /\ arcs'[n][i].end = k
      BY <2>2
    <3>1. PICK i \in DOMAIN arcs'[n] : x = <<n, i>> /\ arcs'[n][i].end = k
      BY <3>0
    <3>2. n = making
      <4> SUFFICES ASSUME n # making
                   PROVE  FALSE
        OBVIOUS
      <4>1. arcs'[n] = arcs[n]
        BY <1>2, <1>8
      <4> QED
        BY <2>1, <2>4, <3>1, <4>1
    <3>3. i \notin DOMAIN s
      <4> SUFFICES ASSUME i \in DOMAIN s
                   PROVE  FALSE
        OBVIOUS
      <4>1. s[i].end = k
        BY <1>6, <3>1, <3>2
      <4> QED
        BY <1>1, <2>1, <2>4, <3>1, <3>2, <4>1 DEF s
    <3> QED
      BY <1>5, <1>6, <3>1, <3>2, <3>3
  <2>5. k = m => p \in ArcsInto(k, alive)'
    BY <1>1, <1>6, <2>2
  <2> QED
    BY <2>3, <2>4, <2>5
<1>10. p \notin ArcsInto(m, alive)
  <2> SUFFICES ASSUME p \in ArcsInto(m, alive)
               PROVE  FALSE
    OBVIOUS
  <2>0. PICK n \in alive : \E i \in DOMAIN arcs[n] : p = <<n, i>>
    BY DEF ArcsInto
  <2>1. PICK i \in DOMAIN arcs[n] : p = <<n, i>>
    BY <2>0
  <2> QED
    BY <1>6, <2>1 DEF s
<1>11. Counted'
  <2> SUFFICES ASSUME NEW k \in alive
               PROVE  nbIn'[k] = Cardinality(ArcsInto(k, alive)')
    BY <1>2 DEF Counted
  <2>1. nbIn[k] = Cardinality(ArcsInto(k, alive)) /\ k \in Node
    BY <1>1, <1>8 DEF Counted
  <2>2. CASE k # m
    BY <1>2, <1>9, <2>1, <2>2
  <2>3. CASE k = m
    <3> DEFINE I == ArcsInto(m, alive)
    <3>1. IsFiniteSet(I)
      BY <1>1, <1>8, FewInto
    <3>2. p \notin I /\ ArcsInto(k, alive)' = I \cup {p}
      BY <1>9, <1>10, <2>3
    <3> HIDE DEF I, p
    <3>3. Cardinality(I \cup {p}) = Cardinality(I) + 1
      BY <3>1, <3>2, FS_AddElement
    <3> QED
      BY <1>2, <2>1, <2>3, <3>2, <3>3 DEF I
  <2> QED
    BY <2>2, <2>3
<1> QED
  BY <1>3, <1>7, <1>11

LEMMA AddingBase ==
  ASSUME NEW m, Adding(m)
  PROVE  Base'
<1>1. /\ Base /\ Building /\ label' = MinLabel + 1 /\ MinLabel \in Nat
      /\ UNCHANGED <<parts, newNodes, todo, making>>
      /\ layer \in 1..Size - 1 /\ Ahead = layer
      /\ making \in Node /\ making \in alive /\ making \in Present(layer)
      /\ varIndex[making] = layer /\ making \notin Unit(layer)
  BY MakingStands, LabelFacts DEF Adding
<1>2. /\ m \in Node /\ m \in alive /\ varIndex[m] = layer + 1
      /\ UNCHANGED <<job, nodes, alive, varIndex, newV, free, setOf, nodeOf, layer, step,
                     toDel, cleans, lost>>
      /\ \A n \in Node : n # making => arcs'[n] = arcs[n]
      /\ \A n \in Node : n # m => nbIn'[n] = nbIn[n]
  <2>1. m \in Node /\ m \in alive /\ varIndex[m] = layer + 1
    BY AddingFacts
  <2>3. ASSUME NEW n \in Node, n # making
        PROVE  arcs'[n] = arcs[n]
    BY AddingFacts, <2>3
  <2>4. ASSUME NEW n \in Node, n # m
        PROVE  nbIn'[n] = nbIn[n]
    BY <2>4 DEF Adding, AddArcLast, NewArcAt, Base, Types
  <2>2. UNCHANGED <<job, nodes, alive, varIndex, newV, free, setOf, nodeOf, layer, step,
                    toDel, cleans, lost>>
    BY AddingFacts
  <2> QED
    BY <2>1, <2>2, <2>3, <2>4
<1>3. \A l : Unit(l)' = Unit(l) /\ Listed(l)' = Listed(l) /\ Present(l)' = Present(l)
  BY <1>2 DEF Unit, Listed, Present
<1>4. Ahead' = Ahead
  BY <1>2 DEF Ahead
<1>5. Types' /\ Linked' /\ Counted'
  BY AddingLinked
<1>6. Cursors'
  BY <1>1, <1>2, <1>3 DEF Base, Cursors, Building
<1>7. Lists'
  BY <1>1, <1>2, <1>3 DEF Base, Lists
<1>8. Waiting'
  <2> SUFFICES ASSUME NEW n \in ToSet(toDel)
               PROVE  nbIn'[n] = 0 /\ arcs'[n] = arcs[n]
    BY <1>1, <1>2, <1>3, <1>4 DEF Base, Waiting
  <2>1. n \in alive /\ n \in Node /\ varIndex[n] \in 1..layer /\ nbIn[n] = 0
    BY <1>1 DEF Base, Waiting, Types
  <2>2. n # making
    BY <1>1 DEF Present
  <2>3. n # m
    BY <1>1, <1>2, <2>1
  <2> QED
    BY <1>2, <2>1, <2>2, <2>3
<1>9. Originals'
  <2> SUFFICES ASSUME NEW l \in Ahead..Size, NEW u \in Unit(l)
               PROVE  u \in Node /\ u # making
    BY <1>1, <1>2, <1>3, <1>4 DEF Base, Originals
  <2>1. u \in alive /\ varIndex[u] = l
    BY <1>1 DEF Base, Originals
  <2> QED
    BY <1>1, <2>1 DEF Base, Types
<1>10. Made'
  <2>1. \A n : IsMade(n)' <=> IsMade(n)
    BY <1>2, <1>3, <1>4 DEF IsMade
  <2>2. varIndex[making] # Ahead + 1 /\ step \notin {"idle", "part"}
    BY <1>1 DEF Building
  <2> QED
    BY <1>1, <1>2, <1>3, <1>4, <2>1, <2>2 DEF Base, Made
<1>11. Found'
  BY <1>1, <1>2, <1>3, <1>4 DEF Base, Found
<1>12. AllListed'
  BY <1>1, <1>2, <1>3, <1>4 DEF Base, AllListed
<1>13. Leads'
  <2>1. \A n : Fresh(n)' <=> Fresh(n)
    BY <1>1, <1>2 DEF Fresh, NodeFor, Units
  <2> QED
    BY <1>1, <1>2, <1>3, <2>1 DEF Base, Leads
<1>14. CutOff'
  BY <1>1, <1>2, <1>3 DEF Base, CutOff, IsChain
<1> QED
  BY <1>5, <1>6, <1>7, <1>8, <1>9, <1>10, <1>11, <1>12, <1>13, <1>14 DEF Base

\* The node covers its units up to the label that was treated.
LEMMA AddingCovered ==
  ASSUME NEW m, Adding(m), Covered, Narrow
  PROVE  Covered' /\ Narrow'
<1> DEFINE e == [value |-> MinLabel, end |-> m]
<1>1. /\ Base /\ Building /\ label' = MinLabel + 1 /\ MinLabel \in Nat
      /\ UNCHANGED <<parts, newNodes, todo, making>> /\ making # Null
      /\ layer \in 1..Size - 1 /\ Ahead = layer /\ varIndex[making] = layer
      /\ setOf[making] \subseteq Unit(layer)
      /\ \A u \in setOf[making] : \A a \in ToSet(job.arcs[u]) :
              (a.value = MinLabel => a.end \in Ends) /\ (a.value < MinLabel => a.value < label)
  BY MakingStands, LabelFacts DEF Adding
<1>2. /\ m \in Node /\ m \in alive /\ setOf[m] = Ends
      /\ UNCHANGED <<job, nodes, alive, varIndex, newV, free, setOf, nodeOf, layer, step,
                     toDel, cleans, lost>>
      /\ \A n \in Node : n # making => arcs'[n] = arcs[n]
      /\ \A n \in Node : ToSet(arcs[n]) \subseteq ToSet(arcs'[n])
      /\ ToSet(arcs'[making]) = ToSet(arcs[making]) \cup {e}
      /\ making \in Node
  BY AddingFacts, MakingStands DEF Adding
<1>3. \A l : Unit(l)' = Unit(l) /\ Listed(l)' = Listed(l)
  BY <1>2 DEF Unit, Listed
<1>4. Ahead' = Ahead
  BY <1>2 DEF Ahead
<1>5. \A n \in Node : Covers(n) => Covers(n)'
  <2>1. \A n : Stands(n)' = Stands(n)
    BY <1>2, <1>3 DEF Stands
  <2> QED
    BY <1>2, <2>1 DEF Covers
<1>6. \A l \in Layer : Listed(l) \subseteq Node
  BY <1>1 DEF Base, Lists, Types
<1>7. \A u \in setOf'[making'] : CoversBelow(making, u, label)'
  <2> SUFFICES ASSUME NEW u \in setOf[making], NEW a \in ToSet(job.arcs[u]), a.value < MinLabel + 1
               PROVE  \E b \in ToSet(arcs'[making]) : b.value = a.value /\ a.end \in setOf[b.end]
    BY <1>1, <1>2 DEF CoversBelow
  <2>1. a.value \in Nat
    <3>1. u \in Unit(layer) /\ layer \in Layer /\ job \in DiagramJobs
      BY <1>1, LayersAre DEF Base, Types
    <3>2. a \in Arc
      BY <3>1, JobFacts
    <3> QED
      BY <3>2, LabelsAreNats DEF Arc
  <2>2. CASE a.value = MinLabel
    <3>1. a.end \in Ends
      BY <1>1, <2>2
    <3>2. e.value = a.value /\ a.end \in setOf[e.end] /\ e \in ToSet(arcs'[making])
      BY <1>2, <2>2, <3>1
    <3> QED
      BY <3>2
  <2>3. CASE a.value < MinLabel
    <3>1. a.value < label
      BY <1>1, <2>3
    <3>2. PICK b \in ToSet(arcs[making]) : b.value = a.value /\ a.end \in setOf[b.end]
      BY <1>1, <3>1 DEF Covered, CoversBelow
    <3> QED
      BY <1>2, <3>2
  <2> QED
    BY <1>1, <2>1, <2>2, <2>3
<1>8. Covered'
  <2>1. \A k \in 0..Ahead' - 1 : \A n \in Listed(k)' : Covers(n)'
    <3>1. \A k \in 0..Ahead - 1 : k \in Layer
      BY <1>1, LayersAre
    <3> QED
      BY <1>3, <1>4, <1>5, <1>6, <3>1 DEF Covered
  <2>2. ASSUME NEW n \in Node, IsMade(n)', n # making'
        PROVE  arcs'[n] = <<>> \/ Covers(n)'
    <3>1. IsMade(n) /\ n # making
      BY <1>1, <1>2, <1>3, <1>4, <2>2 DEF IsMade
    <3> QED
      BY <1>2, <1>5, <3>1 DEF Covered
  <2>3. step' \in {"build", "above"} => \A n \in ToSet(newNodes') : n \in ToSet(todo') \/ Covers(n)'
    <3>1. step \in {"build", "above"} => ToSet(newNodes) \subseteq Node
      BY <1>1 DEF Base, Leads, Present, Types
    <3> QED
      BY <1>1, <1>2, <1>5, <3>1 DEF Covered
  <2>4. step' = "fill" => \A n \in Listed(layer)' : n \in ToSet(todo') \/ Covers(n)'
    <3>1. layer \in Layer
      BY <1>1, LayersAre
    <3> QED
      BY <1>1, <1>2, <1>3, <1>5, <1>6, <3>1 DEF Covered
  <2> QED
    BY <1>1, <1>2, <1>7, <2>1, <2>2, <2>3, <2>4 DEF Covered, Building
<1>9. Narrow'
  <2>1. ASSUME NEW l \in 1..Ahead - 1
        PROVE  EndsOf(l - 1)' = EndsOf(l - 1)
    <3>1. l - 1 \in Layer /\ l - 1 # layer
      BY <1>1, LayersAre
    <3>2. \A n \in Listed(l - 1) : n \in Node /\ varIndex[n] = l - 1
      BY <1>1, <1>6, <3>1 DEF Base, Lists
    <3>3. \A n \in Listed(l - 1) : arcs'[n] = arcs[n]
      BY <1>1, <1>2, <3>1, <3>2
    <3>4. {ToSet(arcs'[n]) : n \in Listed(l - 1)'} = {ToSet(arcs[n]) : n \in Listed(l - 1)}
      BY <1>3, <3>3
    <3> QED
      BY <3>4 DEF EndsOf
  <2> QED
    BY <1>1, <1>2, <1>4, <2>1 DEF Narrow, Building
<1> QED
  BY <1>8, <1>9

LEMMA AddUnionArcRuns ==
  ASSUME Running, AddUnionArc, job.kind = "restrict" => AllHave, UNCHANGED <<job, phase>>
  PROVE  Running'
<1> DEFINE m == NodeFor(Ends)
           e == [value |-> MinLabel, end |-> m]
<1>1. Adding(m)
  BY DEF Running, AddUnionArc, Adding
<1> HIDE DEF m
<1>2. Base' /\ job' = job /\ (Covered /\ Narrow => Covered' /\ Narrow')
  BY <1>1, AddingBase, AddingCovered, AddingFacts
<1>3. ASSUME Backed, AllHave
      PROVE  Backed'
  <2>1. /\ UNCHANGED <<job, alive, setOf>> /\ setOf[m] = Ends
        /\ \A n \in Node : n # making => arcs'[n] = arcs[n]
        /\ ToSet(arcs'[making]) = ToSet(arcs[making]) \cup {e}
        /\ Stands(making) = setOf[making] /\ making # Null /\ ArcsLeft # {} /\ Base
        /\ \A u \in setOf[making] : arcs[u] = job.arcs[u]
    BY <1>1, AddingFacts, MakingStands DEF Adding
  <2> SUFFICES ASSUME NEW n \in alive, NEW b \in ToSet(arcs'[n]), NEW u \in Stands(n)
               PROVE  \E a \in ToSet(job.arcs[u]) : a.value = b.value /\ a.end \in setOf[b.end]
    BY <2>1 DEF Backed, Stands, Unit
  <2>2. CASE b \in ToSet(arcs[n])
    BY <1>3, <2>2 DEF Backed
  <2>3. CASE b \notin ToSet(arcs[n])
    <3>1. n = making /\ b = e
      BY <2>1, <2>3 DEF Base, Types
    <3>2. u \in setOf[making]
      BY <2>1, <3>1
    <3>3. PICK a \in ToSet(job.arcs[u]) : a.value = MinLabel
      BY <1>3, <2>1, <3>2 DEF AllHave, Having
    <3>4. a.end \in Ends
      BY <2>1, <3>2, <3>3, LabelFacts
    <3> QED
      BY <2>1, <3>1, <3>3, <3>4
  <2> QED
    BY <2>2, <2>3
<1> QED
  BY <1>2, <1>3 DEF Running

-----------------------------------------------------------------------------
(***************************************************************************)
(* The parts of a layer.                                                   *)
(***************************************************************************)
\* Every node is in a part.
LEMMA PartsCover ==
  ASSUME job \in DiagramJobs, NEW s \in Seq(Node), Len(s) > Width, NEW p \in Partitions(s)
  PROVE  /\ p \in Seq(SUBSET Node) /\ Len(p) = Width
         /\ \A i \in DOMAIN p : p[i] \subseteq ToSet(s)
         /\ \A n \in ToSet(s) : \E i \in DOMAIN p : n \in p[i]
<1>0. Width \in Nat /\ Width >= 1 /\ Len(s) \in Nat /\ DOMAIN s = 1..Len(s)
  BY WidthIsPositive
<1>1. \A i \in DOMAIN s : s[i] \in ToSet(s) /\ s[i] \in Node
  BY DEF ToSet
<1> DEFINE Spreads(q) == /\ \A i \in 1..Width : q[i] \subseteq ToSet(s)
                         /\ \A j \in DOMAIN s : \E i \in 1..Width : s[j] \in q[i]
<1>2. ASSUME p \in DefaultPartitions(s, Width)
      PROVE  p \in [1..Width -> SUBSET Node] /\ Spreads(p)
  <2>1. p = [i \in 1..Width |-> IF i < Width THEN {s[j] : j \in {i} \cap DOMAIN s}
                                ELSE {s[j] : j \in {k \in DOMAIN s : k >= i}}]
    BY <1>2 DEF DefaultPartitions, KeepFirst
  <2>2. \A i \in 1..Width :
          p[i] = IF i < Width THEN {s[j] : j \in {i} \cap DOMAIN s}
                 ELSE {s[j] : j \in {k \in DOMAIN s : k >= i}}
    BY <2>1
  <2>3. ASSUME NEW i \in 1..Width
        PROVE  p[i] \subseteq ToSet(s) /\ p[i] \subseteq Node
    <3>1. CASE i < Width
      <4>1. p[i] = {s[j] : j \in {i} \cap DOMAIN s}
        BY <2>2, <3>1
      <4> QED
        BY <1>1, <4>1
    <3>2. CASE ~(i < Width)
      <4>1. p[i] = {s[j] : j \in {k \in DOMAIN s : k >= i}}
        BY <2>2, <3>2
      <4> QED
        BY <1>1, <4>1
    <3> QED
      BY <3>1, <3>2
  <2>4. p \in [1..Width -> SUBSET Node]
    BY <2>1, <2>3
  <2>5. ASSUME NEW j \in DOMAIN s
        PROVE  \E i \in 1..Width : s[j] \in p[i]
    <3>1. CASE j < Width
      <4>1. j \in 1..Width /\ j \in {j} \cap DOMAIN s
        BY <1>0, <3>1
      <4> QED
        BY <2>2, <3>1, <4>1
    <3>2. CASE ~(j < Width)
      <4>1. Width \in 1..Width /\ ~(Width < Width) /\ j \in {k \in DOMAIN s : k >= Width}
        BY <1>0, <3>2
      <4>2. p[Width] = {s[i] : i \in {k \in DOMAIN s : k >= Width}}
        BY <2>2, <4>1
      <4> QED
        BY <4>1, <4>2
    <3> QED
      BY <3>1, <3>2
  <2> QED
    BY <2>3, <2>4, <2>5
<1>3. ASSUME p \in RandomPartitions(s, Width)
      PROVE  p \in [1..Width -> SUBSET Node] /\ Spreads(p)
  <2>1. PICK f \in [DOMAIN s -> 1..Width] :
          p = [i \in 1..Width |-> {s[j] : j \in {k \in DOMAIN s : f[k] = i}}]
    BY <1>3 DEF RandomPartitions
  <2>2. \A i \in 1..Width : p[i] = {s[j] : j \in {k \in DOMAIN s : f[k] = i}}
    BY <2>1
  <2>3. \A i \in 1..Width : p[i] \subseteq ToSet(s) /\ p[i] \subseteq Node
    BY <1>1, <2>2
  <2>4. p \in [1..Width -> SUBSET Node]
    BY <2>1, <2>3
  <2>5. \A j \in DOMAIN s : f[j] \in 1..Width /\ s[j] \in p[f[j]]
    BY <2>1, <2>2
  <2> QED
    BY <2>3, <2>4, <2>5
<1>4. job.partitioner \in {"default", "random", "kmeans"}
  BY GivenAreDiagrams DEF IsDiagram
<1>5. p \in DefaultPartitions(s, Width) \/ p \in RandomPartitions(s, Width)
  <2>1. CASE job.partitioner = "default"
    BY <2>1 DEF Partitions
  <2>2. CASE job.partitioner = "random"
    BY <2>2 DEF Partitions
  <2>3. CASE job.partitioner = "kmeans"
    <3>1. p \in KMeansPartitions(s, Width, Ranks)
      BY <2>3 DEF Partitions
    <3> QED
      BY <3>1 DEF KMeansPartitions
  <2> QED
    BY <1>4, <2>1, <2>2, <2>3
<1>6. p \in [1..Width -> SUBSET Node] /\ Spreads(p)
  BY <1>2, <1>3, <1>5
<1>7. p \in Seq(SUBSET Node) /\ Len(p) = Width /\ DOMAIN p = 1..Width
  BY <1>0, <1>6
<1>8. \A n \in ToSet(s) : \E j \in DOMAIN s : n = s[j]
  BY DEF ToSet
<1> QED
  BY <1>6, <1>7, <1>8

LEMMA NextLayerRuns ==
  ASSUME Running, NextLayer, layer + 1 < Size
  PROVE  Running'
<1> DEFINE l == layer + 1
<1>1. /\ Base /\ step = "idle" /\ ReduceLayer(l, TRUE, Partitions(nodes[l])) /\ job' = job
  BY DEF Running, NextLayer
<1>2. /\ UNCHANGED <<nodes, alive, varIndex, arcs, nbIn, newV, free, setOf, nodeOf, making, label,
                     toDel, lost>>
      /\ layer' = l /\ cleans' = TRUE
      /\ IF Len(nodes[l]) <= Width
         THEN step' = "fill" /\ todo' = nodes[l] /\ UNCHANGED <<parts, newNodes>>
         ELSE /\ step' = "part" /\ parts' \in Partitions(nodes[l]) /\ newNodes' = <<>>
              /\ UNCHANGED todo
  BY <1>1 DEF ReduceLayer, Fits, mddVars, sets
<1>3. l \in 1..Size - 1 /\ l \in Layer /\ Ahead = l /\ Ahead' = l /\ layer \in 0..l
  BY <1>1, <1>2, LayersAre DEF Base, Types, Ahead
<1>4. /\ Types /\ Cursors /\ Lists /\ Waiting /\ AllListed /\ CutOff /\ making = Null
      /\ nodes[l] \in Seq(Node)
  BY <1>1, <1>3 DEF Base, Cursors, Building, Types
<1>5. \A k : Unit(k)' = Unit(k) /\ Listed(k)' = Listed(k) /\ Present(k)' = Present(k)
             /\ EndsOf(k)' = EndsOf(k)
  BY <1>1, <1>2 DEF Unit, Listed, Present, EndsOf
<1>6. Listed(l) = Present(l) /\ ToSet(nodes[l]) = Listed(l)
  <2>1. Present(l) \subseteq Listed(l)
    BY <1>1, <1>3, <1>4 DEF AllListed
  <2>2. Listed(l) \subseteq Present(l)
    BY <1>3, <1>4 DEF Lists, Waiting, Present
  <2> QED
    BY <2>1, <2>2, ListedIs
<1>7. Types'
  BY <1>1, <1>2, <1>3, <1>4 DEF Types
<1>8. ASSUME step' = "part"
      PROVE  /\ parts' \in Seq(SUBSET Node) /\ Len(parts') = Width
             /\ \A i \in DOMAIN parts' : parts'[i] \subseteq Present(l)
             /\ \A n \in Present(l) : \E i \in DOMAIN parts' : n \in parts'[i]
  <2>1. Len(nodes[l]) > Width /\ parts' \in Partitions(nodes[l])
    BY <1>2, <1>4, <1>8, WidthIsPositive
  <2>2. job \in DiagramJobs
    BY <1>4 DEF Types
  <2>3. /\ parts' \in Seq(SUBSET Node) /\ Len(parts') = Width
        /\ \A i \in DOMAIN parts' : parts'[i] \subseteq ToSet(nodes[l])
        /\ \A n \in ToSet(nodes[l]) : \E i \in DOMAIN parts' : n \in parts'[i]
    BY <1>4, <2>1, <2>2, PartsCover
  <2> QED
    BY <1>6, <2>3
<1>9. Cursors'
  <2>1. step' \in {"part", "fill"} /\ l # 0 /\ parts' \in Seq(SUBSET Node)
    BY <1>2, <1>3, <1>4, <1>8 DEF Cursors
  <2>2. newNodes' \in Seq(Node) /\ todo' \in Seq(Node) /\ label' \in Nat
    <3>1. /\ <<>> \in Seq(Node) /\ newNodes \in Seq(Node) /\ todo \in Seq(Node)
          /\ label \in Nat
      BY <1>4 DEF Cursors
    <3> QED
      BY <1>2, <1>4, <3>1
  <2>3. Building' => ToSet(todo') \subseteq Present(l)
    BY <1>2, <1>6 DEF Building
  <2>4. Building' => ToSet(todo)' \subseteq Present(layer)'
    BY <1>2, <1>5, <2>3 DEF Building
  <2>5. making' = Null /\ step' \notin {"build", "above", "clean"} /\ layer' # 0
    BY <1>2, <1>4, <2>1
  <2> QED
    BY <2>1, <2>2, <2>4, <2>5 DEF Cursors
<1>10. Counted' /\ Linked'
  <2>1. Counted /\ Linked
    BY <1>1 DEF Base
  <2>2. \A m : ArcsInto(m, alive)' = ArcsInto(m, alive)
    BY <1>2 DEF ArcsInto
  <2> QED
    BY <1>2, <2>1, <2>2 DEF Counted, Linked
<1>11. Lists'
  BY <1>1, <1>2, <1>5 DEF Base, Lists
<1>12. Waiting'
  BY <1>2, <1>3, <1>4, <1>5 DEF Waiting
<1>13. Originals' /\ Found'
  BY <1>1, <1>2, <1>3, <1>5 DEF Base, Originals, Found
<1>14. \A n \in Node : IsMade(n)' <=> IsMade(n)
  BY <1>2, <1>3, <1>5 DEF IsMade
<1>15. Made'
  <2>1. \A n \in Node : varIndex[n] \in Int
    BY <1>4, LayersAre DEF Types
  <2> QED
    BY <1>1, <1>2, <1>3, <1>5, <1>14, <2>1 DEF Base, Made
<1>16. AllListed'
  BY <1>1, <1>2, <1>3, <1>4, <1>5 DEF AllListed
<1>17. Leads'
  <2> SUFFICES ASSUME step' \in {"part", "build", "above"}
               PROVE  /\ ToSet(newNodes') \subseteq Present(l)
                      /\ \A i \in DOMAIN parts' : parts'[i] \subseteq Present(l)
                      /\ Len(newNodes') + Len(parts') <= Width
                      /\ \A n \in Present(l) : \E i \in DOMAIN parts' : n \in parts'[i]
    BY <1>2, <1>5 DEF Leads
  <2>1. step' = "part" /\ newNodes' = <<>>
    BY <1>2
  <2>2. ToSet(newNodes') = {} /\ Len(newNodes') = 0
    BY <2>1 DEF ToSet
  <2> QED
    BY <1>8, <2>1, <2>2, WidthIsPositive
<1>18. CutOff'
  <2>1. \A k \in 1..layer : k \in 1..l
    BY <1>3
  <2> QED
    BY <1>2, <1>4, <1>5, <2>1 DEF CutOff, IsChain
<1>19. Base'
  BY <1>7, <1>9, <1>10, <1>11, <1>12, <1>13, <1>15, <1>16, <1>17, <1>18 DEF Base
<1>20. \A n : Stands(n)' = Stands(n)
  BY <1>2, <1>5 DEF Stands
<1>21. \A n : Covers(n)' <=> Covers(n)
  BY <1>1, <1>2, <1>20 DEF Covers
<1>22. Backed => Backed'
  BY <1>1, <1>2, <1>20 DEF Backed
<1>23. Covered => Covered'
  <2> SUFFICES ASSUME Covered
               PROVE  Covered'
    OBVIOUS
  <2>1. \A k \in 0..Ahead' - 1 : \A n \in Listed(k)' : Covers(n)'
    BY <1>3, <1>5, <1>21 DEF Covered
  <2>2. \A n \in Node : IsMade(n)' /\ n # making' => arcs'[n] = <<>> \/ Covers(n)'
    BY <1>2, <1>14, <1>21 DEF Covered
  <2>3. step' = "fill" => \A n \in Listed(layer)' : n \in ToSet(todo')
    BY <1>2, <1>5, <1>6 DEF Listed
  <2> QED
    BY <1>2, <1>4, <2>1, <2>2, <2>3 DEF Covered
<1>24. Narrow => Narrow'
  BY <1>2, <1>3, <1>5 DEF Narrow
<1> QED
  BY <1>1, <1>19, <1>22, <1>23, <1>24 DEF Running

\* A part gets its node: here the node must not wait for its deletion.
LEMMA LeadPartRuns ==
  ASSUME Running, LeadPart, NotRevived, UNCHANGED <<job, phase>>
  PROVE  Running'
<1> DEFINE P == Head(parts)
           m == NodeFor(Units(P))
<1>1. /\ Base /\ step = "part" /\ parts # <<>> /\ parts' = Tail(parts)
      /\ IF P = {} THEN UNCHANGED <<newV, newNodes>>
         ELSE /\ m # Null /\ newV' = [n \in Node |-> IF n \in P THEN m ELSE newV[n]]
              /\ newNodes' = Append(newNodes, m)
      /\ UNCHANGED <<job, phase, nodes, alive, varIndex, arcs, nbIn, free, step, layer, setOf,
                     nodeOf, todo, making, label, toDel, cleans, lost>>
  BY DEF Running, LeadPart, sets
<1>2. /\ Types /\ Cursors /\ Leads /\ Waiting
      /\ parts \in Seq(SUBSET Node) /\ newNodes \in Seq(Node)
  BY <1>1 DEF Base, Cursors
<1>3. layer \in 1..Size - 1 /\ Ahead = layer /\ Ahead' = Ahead /\ layer \in Ahead..Size
      /\ layer \in Layer
  BY <1>1, LayersAre DEF Base, Types, Cursors, Ahead
<1>4. P \subseteq Present(layer) /\ P \subseteq Node /\ Units(P) \subseteq Unit(layer)
      /\ (P # {} => Units(P) # {})
  BY <1>1, PartFacts
<1>5. ASSUME P # {}
      PROVE  /\ m \in Node /\ m \in Present(layer) /\ setOf[m] = Units(P)
             /\ \A n \in P : setOf[n] \subseteq setOf[m]
  <2>1. m \in alive /\ m \in Node /\ varIndex[m] = layer /\ setOf[m] = Units(P)
    BY <1>1, <1>3, <1>4, <1>5, NodeForFacts DEF Base
  <2>2. m \notin ToSet(toDel)
    BY <1>1, <1>5 DEF NotRevived
  <2>3. \A n \in P : setOf[n] \subseteq Units(P)
    BY DEF Units
  <2> QED
    BY <2>1, <2>2, <2>3 DEF Present
<1>6. newV' \in [Node -> Node] /\ newNodes' \in Seq(Node)
  <2>1. newV \in [Node -> Node]
    BY <1>2 DEF Types
  <2> HIDE DEF m, P
  <2>2. CASE P = {}
    BY <1>1, <1>2, <2>1, <2>2
  <2>3. CASE P # {}
    <3>1. m \in Node /\ newNodes \in Seq(Node) /\ \A n \in Node : newV[n] \in Node
      BY <1>2, <1>5, <2>1, <2>3
    <3>2. newV' = [n \in Node |-> IF n \in P THEN m ELSE newV[n]] /\ newNodes' = Append(newNodes, m)
      BY <1>1, <2>3
    <3>3. newV' \in [Node -> Node]
      BY <3>1, <3>2
    <3>4. newNodes' \in Seq(Node)
      BY <3>1, <3>2
    <3> QED
      BY <3>3, <3>4
  <2> QED
    BY <2>2, <2>3
<1>7. \A l : Unit(l)' = Unit(l) /\ Listed(l)' = Listed(l) /\ Present(l)' = Present(l)
             /\ EndsOf(l)' = EndsOf(l)
  BY <1>1 DEF Unit, Listed, Present, EndsOf
<1>8. /\ Tail(parts) \in Seq(SUBSET Node) /\ Len(Tail(parts)) = Len(parts) - 1
      /\ Len(parts) \in Nat /\ Len(parts) >= 1 /\ P = parts[1]
      /\ \A i \in DOMAIN Tail(parts) : i + 1 \in DOMAIN parts /\ Tail(parts)[i] = parts[i + 1]
      /\ \A i \in DOMAIN parts : i = 1 \/ (i - 1 \in DOMAIN Tail(parts) /\ Tail(parts)[i - 1] = parts[i])
  BY <1>1, <1>2
<1>9. /\ P = {} => newNodes' = newNodes /\ newV' = newV
      /\ P # {} => /\ ToSet(newNodes') = ToSet(newNodes) \cup {m}
                   /\ Len(newNodes') = Len(newNodes) + 1
                   /\ \A n \in Node : newV'[n] = IF n \in P THEN m ELSE newV[n]
  <2>1. CASE P = {}
    BY <1>1, <2>1
  <2>2. CASE P # {}
    <3> DEFINE x == m
               s == newNodes
    <3>1. x \in Node /\ s \in Seq(Node) /\ newNodes' = Append(s, x)
      BY <1>1, <1>2, <1>5, <2>2
    <3> HIDE DEF x, s
    <3>2. Len(Append(s, x)) = Len(s) + 1 /\ ToSet(Append(s, x)) = ToSet(s) \cup {x}
      BY <3>1 DEF ToSet
    <3>3. \A n \in Node : newV'[n] = IF n \in P THEN m ELSE newV[n]
      BY <1>1, <2>2
    <3> QED
      BY <2>2, <3>1, <3>2, <3>3 DEF x, s
  <2> QED
    BY <2>1, <2>2
<1> HIDE DEF m, P
<1>10. Types'
  BY <1>1, <1>2, <1>6 DEF Types
<1>11. Cursors'
  <2>1. step' = "part" /\ ~Building /\ making = Null
    BY <1>1, <1>2 DEF Cursors, Building
  <2>2. layer' # 0
    BY <1>1, <1>3
  <2> QED
    BY <1>1, <1>2, <1>6, <1>8, <2>1, <2>2 DEF Cursors, Building
<1>12. Counted' /\ Linked' /\ Lists' /\ CutOff'
  <2>1. Counted /\ Linked /\ Lists /\ CutOff
    BY <1>1 DEF Base
  <2>2. \A k : ArcsInto(k, alive)' = ArcsInto(k, alive)
    BY <1>1 DEF ArcsInto
  <2>3. Counted' /\ Linked'
    BY <1>1, <2>1, <2>2 DEF Counted, Linked
  <2> QED
    BY <1>1, <1>7, <2>1, <2>3 DEF Lists, CutOff, IsChain
<1>13. Waiting' /\ Originals' /\ Found'
  <2>1. Waiting /\ Originals /\ Found
    BY <1>1 DEF Base
  <2>2. Waiting'
    BY <1>1, <1>3, <1>7, <2>1 DEF Waiting
  <2> QED
    BY <1>1, <1>3, <1>7, <2>1, <2>2 DEF Originals, Found
<1>14. \A n \in Node : IsMade(n)' <=> IsMade(n)
  BY <1>1, <1>3, <1>7 DEF IsMade
<1>15. Made' /\ AllListed'
  BY <1>1, <1>3, <1>7, <1>14 DEF Base, Made, AllListed
<1>16. ASSUME NEW n \in Present(layer)
       PROVE  \/ \E i \in DOMAIN parts' : n \in parts'[i]
              \/ newV'[n] \in ToSet(newNodes') /\ setOf[n] \subseteq setOf[newV'[n]]
  <2>1. n \in Node
    BY <1>2 DEF Present, Types
  <2>2. ToSet(newNodes) \subseteq ToSet(newNodes')
    BY <1>9
  <2>3. CASE n \in P
    BY <1>5, <1>9, <2>1, <2>3
  <2>4. CASE n \notin P
    <3>1. P = {} \/ newV'[n] = newV[n]
      BY <1>9, <2>1, <2>4
    <3>2. newV'[n] = newV[n]
      BY <1>9, <3>1
    <3>3. CASE \E i \in DOMAIN parts : n \in parts[i]
      <4>1. PICK i \in DOMAIN parts : n \in parts[i]
        BY <3>3
      <4>2. i # 1
        BY <1>8, <2>4, <4>1
      <4>3. i - 1 \in DOMAIN parts' /\ n \in parts'[i - 1]
        BY <1>1, <1>8, <4>1, <4>2
      <4> QED
        BY <4>3
    <3>4. CASE Fresh(n)
      <4>1. P # {} /\ n = m /\ newV[n] = n
        BY <3>4 DEF Fresh, P, m
      <4> QED
        BY <1>9, <3>2, <4>1
    <3>5. CASE newV[n] \in ToSet(newNodes) /\ setOf[n] \subseteq setOf[newV[n]]
      BY <2>2, <3>2, <3>5
    <3> QED
      BY <1>1, <1>2, <3>3, <3>4, <3>5 DEF Leads
  <2> QED
    BY <2>3, <2>4
<1>17. Leads'
  <2>1. ToSet(newNodes) \subseteq Present(layer) /\ Len(newNodes) + Len(parts) <= Width
        /\ \A i \in DOMAIN parts : parts[i] \subseteq Present(layer)
    BY <1>1, <1>2 DEF Leads
  <2>2. ToSet(newNodes') \subseteq Present(layer)
    BY <1>5, <1>9, <2>1
  <2>3. \A i \in DOMAIN parts' : parts'[i] \subseteq Present(layer)
    BY <1>1, <1>8, <2>1
  <2>4. Len(newNodes') + Len(parts') <= Width
    <3>1. Len(newNodes') = Len(newNodes) \/ Len(newNodes') = Len(newNodes) + 1
      BY <1>9
    <3>2. Len(newNodes) \in Nat /\ Len(parts') = Len(parts) - 1
      BY <1>1, <1>2, <1>8
    <3> QED
      BY <1>8, <2>1, <3>1, <3>2, WidthIsPositive
  <2> QED
    BY <1>1, <1>7, <1>16, <2>2, <2>3, <2>4 DEF Leads
<1>18. Base'
  BY <1>10, <1>11, <1>12, <1>13, <1>15, <1>17 DEF Base
<1>19. \A n : Stands(n)' = Stands(n)
  BY <1>1, <1>7 DEF Stands
<1>20. \A n : Covers(n)' <=> Covers(n)
  BY <1>1, <1>19 DEF Covers
<1>21. Backed => Backed'
  BY <1>1, <1>19 DEF Backed
<1>22. making = Null
  BY <1>1, <1>2 DEF Cursors, Building
<1>23. Covered => Covered'
  BY <1>1, <1>3, <1>7, <1>14, <1>20, <1>22 DEF Covered
<1>24. Narrow => Narrow'
  BY <1>1, <1>3, <1>7 DEF Narrow
<1> QED
  BY <1>1, <1>18, <1>21, <1>23, <1>24 DEF Running

-----------------------------------------------------------------------------
(***************************************************************************)
(* UpdateAbove.                                                            *)
(***************************************************************************)
LEMMA NodesAreMany == Node # {} => Cardinality(Node) \in Nat /\ Cardinality(Node) >= 1
BY NodeIsFinite, FS_CardinalityType, FS_EmptySet

\* The chain goes from a node to the next.
LEMMA ChainGoes ==
  ASSUME newV \in [Node -> Node], NEW n \in Node
  PROVE  /\ Chain(n)[0] = n
         /\ \A i \in 1..Cardinality(Node) : Chain(n)[i] = newV[Chain(n)[i - 1]]
<1> DEFINE N == Cardinality(Node)
           U == Node
           goes == [i \in 1..N |-> newV]
<1>1. N \in Nat /\ n \in U /\ goes \in [1..N -> [U -> U]] /\ \A i \in 1..N : goes[i] = newV
  BY NodesAreMany
<1>2. Chain(n) = CHOOSE f : f = [i \in 0..N |-> IF i = 0 THEN n ELSE newV[f[i - 1]]]
  BY DEF Chain
<1> HIDE DEF N, U, goes
<1>3. PICK g : g \in [0..N -> U] /\ Iterates(g, n, goes, N)
  BY <1>1, RecursionExists
<1>4. g[0] = n /\ \A i \in 1..N : g[i] = newV[g[i - 1]]
  BY <1>1, <1>3 DEF Iterates
<1>5. \A i \in 0..N : i # 0 => i \in 1..N
  BY <1>1
<1>6. g = [i \in 0..N |-> IF i = 0 THEN n ELSE newV[g[i - 1]]]
  BY <1>3, <1>4, <1>5
<1>7. Chain(n) = [i \in 0..N |-> IF i = 0 THEN n ELSE newV[Chain(n)[i - 1]]]
  BY <1>2, <1>6
<1> HIDE DEF Chain
<1>8. \A i \in 0..N : Chain(n)[i] = IF i = 0 THEN n ELSE newV[Chain(n)[i - 1]]
  BY <1>7
<1>9. 0 \in 0..N /\ \A i \in 1..N : i \in 0..N /\ i # 0
  BY <1>1
<1>10. Chain(n)[0] = n /\ \A i \in 1..N : Chain(n)[i] = newV[Chain(n)[i - 1]]
  BY <1>8, <1>9
<1> QED
  BY <1>10 DEF N

\* Each node of the layer ends at one of the parts, which stands for more.
LEMMA LeaderFacts ==
  ASSUME Base, step = "above", NEW n \in Present(layer)
  PROVE  /\ Leader(n) \in ToSet(newNodes) /\ setOf[n] \subseteq setOf[Leader(n)]
         /\ \A i \in 0..Cardinality(Node) : Chain(n)[i] \in Present(layer)
<1> DEFINE N == Cardinality(Node)
           up == Chain(n)
<1>1. /\ newV \in [Node -> Node] /\ Present(layer) \subseteq Node /\ n \in Node /\ N \in Nat /\ N >= 1
  BY NodesAreMany DEF Base, Types, Present
<1>2. up[0] = n /\ \A i \in 1..N : up[i] = newV[up[i - 1]]
  BY <1>1, ChainGoes
<1>3. /\ ToSet(newNodes) \subseteq Present(layer)
      /\ \A m \in Present(layer) : newV[m] \in ToSet(newNodes) /\ setOf[m] \subseteq setOf[newV[m]]
  <2>1. parts = <<>>
    BY DEF Base, Cursors
  <2> QED
    BY <2>1 DEF Base, Leads, Fresh
<1> DEFINE T == {i \in 0..N : /\ up[i] \in Present(layer) /\ setOf[n] \subseteq setOf[up[i]]
                              /\ i # 0 => up[i] \in ToSet(newNodes)}
<1> HIDE DEF up, N
<1>4. 0 \in T
  BY <1>1, <1>2
<1>5. ASSUME NEW i \in 0..N - 1, i \in T
      PROVE  i + 1 \in T
  <2>1. i + 1 \in 1..N /\ (i + 1) - 1 = i /\ i + 1 \in 0..N
    BY <1>1
  <2>2. up[i + 1] = newV[up[i]]
    BY <1>2, <2>1
  <2> QED
    BY <1>3, <1>5, <2>1, <2>2
<1> HIDE DEF T
<1>6. \A i \in 0..N : i \in T
  BY <1>1, <1>4, <1>5, UpTo
<1>7. N \in 0..N /\ N # 0
  BY <1>1
<1> QED
  BY <1>6, <1>7 DEF T, Leader, up, N

Raising == Base /\ UpdateAbove /\ UNCHANGED <<job, phase>>

LEMMA RaisingFacts ==
  ASSUME Raising
  PROVE  /\ layer \in 1..Size - 1 /\ layer - 1 \in Layer /\ layer \in Layer
         /\ Ahead = layer /\ Ahead' = layer /\ step = "above" /\ step' = "clean"
         /\ UNCHANGED <<job, nodes, alive, varIndex, free, layer, setOf, nodeOf, parts, newNodes,
                        todo, making, label, toDel, cleans, lost>>
         /\ making = Null /\ todo = <<>> /\ parts = <<>>
         /\ ToSet(newNodes) \subseteq Present(layer)
         /\ \A n \in Listed(layer - 1) : n \in Node /\ n \in alive /\ varIndex[n] = layer - 1
         /\ \A n \in Node : n \notin Listed(layer - 1) => arcs'[n] = arcs[n]
         /\ \A n \in Listed(layer - 1) :
              /\ DOMAIN arcs'[n] = DOMAIN arcs[n]
              /\ \A i \in DOMAIN arcs[n] :
                   /\ arcs'[n][i].value = arcs[n][i].value
                   /\ arcs'[n][i].end = Leader(arcs[n][i].end)
                   /\ arcs[n][i].end \in Present(layer)
                   /\ Leader(arcs[n][i].end) \in ToSet(newNodes)
                   /\ setOf[arcs[n][i].end] \subseteq setOf[Leader(arcs[n][i].end)]
         /\ arcs' \in [Node -> Seq(Arc)] /\ newV' \in [Node -> Node]
<1> DEFINE above == Listed(layer - 1)
           ends == UNION {{a.end : a \in ToSet(arcs[n])} : n \in above}
           met == {Chain(m)[i] : m \in ends, i \in 0..Cardinality(Node)}
<1>1. /\ Base /\ step = "above" /\ step' = IF cleans THEN "clean" ELSE "idle"
      /\ UNCHANGED <<job, nodes, alive, varIndex, free, layer, setOf, nodeOf, parts, newNodes,
                     todo, making, label, toDel, cleans, lost>>
      /\ arcs' = [n \in Node |-> IF n \notin above THEN arcs[n] ELSE
                    [i \in DOMAIN arcs[n] |-> [arcs[n][i] EXCEPT !.end = Leader(@)]]]
      /\ newV' = [n \in Node |-> IF n \in met THEN Leader(n) ELSE newV[n]]
  BY DEF Raising, UpdateAbove, sets, cursors
<1>2. Types /\ Cursors /\ Lists /\ Linked /\ Counted /\ Waiting /\ Leads
  BY <1>1 DEF Base
<1>3. /\ layer \in 1..Size - 1 /\ layer - 1 \in Layer /\ layer \in Layer /\ (layer - 1) + 1 = layer
      /\ Ahead = layer /\ step' = "clean"
  <2>1. layer \in 0..Size - 1 /\ layer # 0 /\ cleans = TRUE
    BY <1>1, <1>2 DEF Types, Cursors
  <2>2. Ahead = layer /\ step' = "clean"
    BY <1>1, <2>1 DEF Ahead
  <2> QED
    BY <2>1, <2>2, LayersAre
<1>4. Ahead' = layer
  BY <1>1, <1>3 DEF Ahead
<1>5. making = Null /\ todo = <<>> /\ parts = <<>> /\ ToSet(newNodes) \subseteq Present(layer)
  BY <1>1, <1>2 DEF Cursors, Building, Leads
<1>6. \A n \in above : n \in Node /\ n \in alive /\ varIndex[n] = layer - 1
  BY <1>2, <1>3 DEF Lists, Types
<1>7. ASSUME NEW n \in above, NEW a \in ToSet(arcs[n])
      PROVE  a.end \in Present(layer)
  BY <1>2, <1>3, <1>6, EndsArePresent
<1>8. \A n \in above : arcs[n] \in Seq(Arc) /\ \A i \in DOMAIN arcs[n] : arcs[n][i] \in Arc
                       /\ arcs[n][i] \in ToSet(arcs[n])
  BY <1>2, <1>6 DEF Types, ToSet
<1>9. ends \subseteq Present(layer) /\ Present(layer) \subseteq Node
  BY <1>2, <1>7 DEF Present, Types
<1> HIDE DEF above, ends
<1>10. ASSUME NEW n \in above, NEW i \in DOMAIN arcs[n]
       PROVE  /\ arcs[n][i].end \in Present(layer)
              /\ Leader(arcs[n][i].end) \in ToSet(newNodes)
              /\ Leader(arcs[n][i].end) \in Node
              /\ setOf[arcs[n][i].end] \subseteq setOf[Leader(arcs[n][i].end)]
  <2>1. arcs[n][i].end \in Present(layer)
    BY <1>7, <1>8
  <2> QED
    BY <1>1, <1>5, <1>9, <2>1, LeaderFacts
<1>11. ASSUME NEW n \in above
       PROVE  /\ arcs'[n] \in Seq(Arc) /\ DOMAIN arcs'[n] = DOMAIN arcs[n]
              /\ \A i \in DOMAIN arcs[n] : /\ arcs'[n][i].value = arcs[n][i].value
                                           /\ arcs'[n][i].end = Leader(arcs[n][i].end)
  <2> DEFINE s == arcs[n]
             r == [i \in DOMAIN s |-> [s[i] EXCEPT !.end = Leader(s[i].end)]]
  <2>1. arcs'[n] = r
    BY <1>1, <1>6
  <2>2. s \in Seq(Arc) /\ \A i \in DOMAIN s : s[i] \in Arc /\ Leader(s[i].end) \in Node
    BY <1>8, <1>10
  <2> HIDE DEF s
  <2>3. \A i \in DOMAIN s : /\ r[i] \in Arc /\ r[i].value = s[i].value
                            /\ r[i].end = Leader(s[i].end)
    BY <2>2 DEF Arc
  <2>4. DOMAIN s = 1..Len(s) /\ Len(s) \in Nat
    BY <2>2
  <2>5. r \in [1..Len(s) -> Arc]
    BY <2>3, <2>4
  <2> HIDE DEF r
  <2>6. r \in Seq(Arc) /\ DOMAIN r = DOMAIN s
    BY <2>4, <2>5
  <2> QED
    BY <2>1, <2>3, <2>6 DEF s
<1>12. \A n \in Node : n \notin above => arcs'[n] = arcs[n]
  BY <1>1
<1>13. arcs' \in [Node -> Seq(Arc)]
  <2>1. \A n \in Node : arcs'[n] \in Seq(Arc)
    BY <1>2, <1>11, <1>12 DEF Types
  <2>2. arcs' = [n \in Node |-> arcs'[n]]
    BY <1>1
  <2> QED
    BY <2>1, <2>2
<1>14. newV' \in [Node -> Node]
  <2>1. ASSUME NEW n \in met
        PROVE  Leader(n) \in Node
    <3>1. PICK m \in ends, i \in 0..Cardinality(Node) : n = Chain(m)[i]
      OBVIOUS
    <3>2. n \in Present(layer)
      BY <1>1, <1>9, <3>1, LeaderFacts
    <3> QED
      BY <1>1, <1>5, <1>9, <3>2, LeaderFacts
  <2> HIDE DEF met
  <2> QED
    BY <1>1, <1>2, <2>1 DEF Types
<1>15. /\ step = "above"
       /\ UNCHANGED <<job, nodes, alive, varIndex, free, layer, setOf, nodeOf, parts, newNodes,
                      todo, making, label, toDel, cleans, lost>>
  BY <1>1
<1>16. \A n \in above :
         /\ DOMAIN arcs'[n] = DOMAIN arcs[n]
         /\ \A i \in DOMAIN arcs[n] :
              /\ arcs'[n][i].value = arcs[n][i].value
              /\ arcs'[n][i].end = Leader(arcs[n][i].end)
              /\ arcs[n][i].end \in Present(layer)
              /\ Leader(arcs[n][i].end) \in ToSet(newNodes)
              /\ setOf[arcs[n][i].end] \subseteq setOf[Leader(arcs[n][i].end)]
  BY <1>10, <1>11
<1> HIDE DEF met
<1> QED
  BY <1>3, <1>4, <1>5, <1>6, <1>12, <1>13, <1>14, <1>15, <1>16 DEF above

\* The arcs are counted where they lead now.
LEMMA RaisingLinked ==
  ASSUME Raising
  PROVE  Types' /\ Linked' /\ Counted'
<1> DEFINE above == Listed(layer - 1)
           ends == UNION {{a.end : a \in ToSet(arcs[n])} : n \in above}
           Raised(m) == UNION {ArcsInto(k, above) : k \in {j \in ends : Leader(j) = m}}
<1>1. /\ Types /\ Linked /\ Counted /\ Lists
      /\ nbIn' = [m \in Node |-> nbIn[m] - Cardinality(ArcsInto(m, above))
                                 + Cardinality(Raised(m))]
  BY DEF Raising, Base, UpdateAbove
<1>2. /\ layer \in 1..Size - 1
      /\ UNCHANGED <<job, nodes, alive, varIndex, free, layer, setOf, nodeOf, cleans>>
      /\ ToSet(newNodes) \subseteq Present(layer)
      /\ \A n \in above : n \in Node /\ n \in alive /\ varIndex[n] = layer - 1
      /\ \A n \in Node : n \notin above => arcs'[n] = arcs[n]
      /\ \A n \in above :
              /\ DOMAIN arcs'[n] = DOMAIN arcs[n]
              /\ \A i \in DOMAIN arcs[n] :
                   /\ arcs'[n][i].end = Leader(arcs[n][i].end)
                   /\ Leader(arcs[n][i].end) \in ToSet(newNodes)
      /\ arcs' \in [Node -> Seq(Arc)] /\ newV' \in [Node -> Node]
  BY RaisingFacts
<1>3. alive \in SUBSET Node /\ above \in SUBSET Node /\ above \subseteq alive
  BY <1>1, <1>2 DEF Types
<1>4. \A n \in above : \A i \in DOMAIN arcs[n] : arcs[n][i].end \in ends
  BY DEF ToSet
<1>5. Linked'
  <2> SUFFICES ASSUME NEW n \in Node, NEW i \in DOMAIN arcs'[n]
               PROVE  /\ n \in alive /\ arcs'[n][i].end \in alive
                      /\ varIndex[arcs'[n][i].end] = varIndex[n] + 1
    BY <1>2 DEF Linked
  <2>1. CASE n \notin above
    BY <1>1, <1>2, <2>1 DEF Linked
  <2>2. CASE n \in above
    <3>1. i \in DOMAIN arcs[n] /\ arcs'[n][i].end \in ToSet(newNodes)
      BY <1>2, <2>2
    <3>2. arcs'[n][i].end \in alive /\ varIndex[arcs'[n][i].end] = layer
      BY <1>2, <3>1 DEF Present
    <3> QED
      BY <1>2, <2>2, <3>2
  <2> QED
    BY <2>1, <2>2
<1> HIDE DEF above, ends
<1>6. ASSUME NEW k \in alive
      PROVE  nbIn'[k] = Cardinality(ArcsInto(k, alive)')
  <2> DEFINE A == ArcsInto(k, alive)
             B == ArcsInto(k, above)
             U == Raised(k)
  <2>1. k \in Node /\ nbIn[k] = Cardinality(A) /\ nbIn'[k] = nbIn[k] - Cardinality(B) + Cardinality(U)
    BY <1>1, <1>3 DEF Counted
  <2>2. \A n \in Node : \A i : <<n, i>> \in A <=> n \in alive /\ i \in DOMAIN arcs[n] /\ arcs[n][i].end = k
    BY <1>3 DEF ArcsInto
  <2>3. \A n \in Node : \A i, j : <<n, i>> \in ArcsInto(j, above) <=>
                                n \in above /\ i \in DOMAIN arcs[n] /\ arcs[n][i].end = j
    BY <1>3 DEF ArcsInto
  <2>4. \A n \in Node : \A i : <<n, i>> \in ArcsInto(k, alive)' <=>
                             n \in alive /\ i \in DOMAIN arcs'[n] /\ arcs'[n][i].end = k
    BY <1>2, <1>3 DEF ArcsInto
  <2>5. /\ \A x \in A : \E n \in Node : \E i : x = <<n, i>>
        /\ \A x \in U : \E n \in Node : \E i : x = <<n, i>>
        /\ \A x \in ArcsInto(k, alive)' : \E n \in Node : \E i : x = <<n, i>>
    BY <1>2, <1>3 DEF ArcsInto
  <2>6. \A n \in Node : \A i : <<n, i>> \in U <=>
                             n \in above /\ i \in DOMAIN arcs[n] /\ Leader(arcs[n][i].end) = k
    BY <1>4, <2>3
  <2>7. B \subseteq A /\ \A n \in Node : \A i : <<n, i>> \in B <=> <<n, i>> \in A /\ n \in above
    BY <1>3, <2>2, <2>3 DEF ArcsInto
  <2> HIDE DEF A, B, U
  <2>8. \A n \in Node : \A i : <<n, i>> \in ArcsInto(k, alive)' <=> <<n, i>> \in (A \ B) \cup U
    <3> TAKE n \in Node
    <3> TAKE i
    <3>1. CASE n \in above
      BY <1>2, <1>3, <2>4, <2>6, <2>7, <3>1
    <3>2. CASE n \notin above
      BY <1>2, <2>2, <2>4, <2>6, <2>7, <3>2
    <3> QED
      BY <3>1, <3>2
  <2>9. ArcsInto(k, alive)' = (A \ B) \cup U
    BY <2>5, <2>8
  <2>10. (A \ B) \cap U = {}
    BY <2>5, <2>6, <2>7
  <2>11. IsFiniteSet(A)
    BY <1>1, <1>3, FewInto DEF A
  <2>12. IsFiniteSet(U)
    <3> DEFINE W == UNION {{<<n, i>> : i \in DOMAIN arcs[n]} : n \in above}
    <3>1. IsFiniteSet(W)
      BY <1>1, <1>3, FewArcs
    <3>2. U \subseteq W
      BY <2>5, <2>6
    <3> HIDE DEF W
    <3> QED
      BY <3>1, <3>2, FS_Subset
  <2>13. IsFiniteSet(A \ B) /\ Cardinality(A \ B) = Cardinality(A) - Cardinality(B)
    <3>1. A \cap B = B
      BY <2>7
    <3> QED
      BY <2>11, <3>1, FS_Difference
  <2>14. Cardinality((A \ B) \cup U) = Cardinality(A \ B) + Cardinality(U)
    <3>1. Cardinality((A \ B) \cup U) = Cardinality(A \ B) + Cardinality(U) - Cardinality({})
      BY <2>10, <2>12, <2>13, FS_Union
    <3>2. Cardinality({}) = 0 /\ Cardinality(A \ B) \in Nat /\ Cardinality(U) \in Nat
      BY <2>12, <2>13, FS_EmptySet, FS_CardinalityType
    <3> QED
      BY <3>1, <3>2
  <2>15. Cardinality(A) \in Nat /\ Cardinality(B) \in Nat /\ Cardinality(U) \in Nat
    <3>1. IsFiniteSet(B)
      BY <2>7, <2>11, FS_Subset
    <3> QED
      BY <2>11, <2>12, <3>1, FS_CardinalityType
  <2> QED
    BY <2>1, <2>9, <2>13, <2>14, <2>15
<1>7. Counted'
  BY <1>2, <1>6 DEF Counted
<1>8. nbIn' \in [Node -> Int]
  <2> SUFFICES ASSUME NEW m \in Node
               PROVE  nbIn[m] - Cardinality(ArcsInto(m, above)) + Cardinality(Raised(m)) \in Int
    BY <1>1
  <2>1. nbIn[m] \in Int /\ Cardinality(ArcsInto(m, above)) \in Nat
    BY <1>1, <1>3, FewInto DEF Types
  <2>2. IsFiniteSet(Raised(m))
    <3> DEFINE W == UNION {{<<n, i>> : i \in DOMAIN arcs[n]} : n \in above}
    <3>1. IsFiniteSet(W)
      BY <1>1, <1>3, FewArcs
    <3>2. Raised(m) \subseteq W
      BY DEF ArcsInto
    <3> HIDE DEF W
    <3> QED
      BY <3>1, <3>2, FS_Subset
  <2>3. Cardinality(Raised(m)) \in Nat
    BY <2>2, FS_CardinalityType
  <2> HIDE DEF Raised
  <2> QED
    BY <2>1, <2>3
<1>9. Types'
  BY <1>1, <1>2, <1>8 DEF Types
<1> QED
  BY <1>5, <1>7, <1>9

LEMMA RaisingBase ==
  ASSUME Raising
  PROVE  Base'
<1> DEFINE above == Listed(layer - 1)
<1>1. /\ Base /\ layer \in 1..Size - 1 /\ layer - 1 \in Layer /\ layer \in Layer
      /\ Ahead = layer /\ Ahead' = layer /\ step = "above" /\ step' = "clean"
      /\ UNCHANGED <<job, nodes, alive, varIndex, free, layer, setOf, nodeOf, parts, newNodes,
                     todo, making, label, toDel, cleans, lost>>
      /\ making = Null /\ todo = <<>> /\ parts = <<>>
      /\ ToSet(newNodes) \subseteq Present(layer)
      /\ \A n \in above : n \in Node /\ n \in alive /\ varIndex[n] = layer - 1
      /\ \A n \in Node : n \notin above => arcs'[n] = arcs[n]
  BY RaisingFacts DEF Raising
<1>2. \A l : Unit(l)' = Unit(l) /\ Listed(l)' = Listed(l) /\ Present(l)' = Present(l)
  BY <1>1 DEF Unit, Listed, Present
<1>3. Types' /\ Linked' /\ Counted'
  BY RaisingLinked
<1>4. Cursors'
  BY <1>1, <1>2 DEF Base, Cursors, Building
<1>5. Lists' /\ CutOff' /\ Found'
  BY <1>1, <1>2 DEF Base, Lists, CutOff, IsChain, Found
<1>6. \A n : IsMade(n)' <=> IsMade(n)
  BY <1>1, <1>2 DEF IsMade
<1>7. alive \subseteq Node
  BY <1>1 DEF Base, Types
<1>8. Originals'
  <2>1. \A l \in Ahead..Size : \A u \in Unit(l) : u \in Node /\ u \notin above
    <3> TAKE l \in Ahead..Size
    <3> TAKE u \in Unit(l)
    <3>1. u \in alive /\ varIndex[u] = l
      BY <1>1 DEF Base, Originals
    <3> QED
      BY <1>1, <1>7, <3>1
  <2> QED
    BY <1>1, <1>2, <2>1 DEF Base, Originals
<1>9. Made'
  <2>1. \A n \in Node : IsMade(n) => n \notin above
    BY <1>1 DEF IsMade
  <2> QED
    BY <1>1, <1>2, <1>6, <2>1 DEF Base, Made
<1>10. AllListed' /\ Leads'
  BY <1>1, <1>2 DEF Base, AllListed, Leads
<1>11. Waiting'
  <2> SUFFICES ASSUME NEW n \in ToSet(toDel)
               PROVE  nbIn'[n] = 0 /\ arcs'[n] = arcs[n]
    BY <1>1, <1>2 DEF Base, Waiting
  <2>1. n \in alive /\ n \in Node /\ n \notin Listed(varIndex[n]) /\ nbIn[n] = 0
    BY <1>1, <1>7 DEF Base, Waiting
  <2>2. arcs'[n] = arcs[n]
    BY <1>1, <2>1
  <2>3. ArcsInto(n, alive)' = {}
    <3> SUFFICES ASSUME NEW m \in alive, NEW i \in DOMAIN arcs'[m], arcs'[m][i].end = n
                 PROVE  FALSE
      BY <1>1 DEF ArcsInto
    <3>1. CASE m \in above
      <4>1. arcs'[m][i].end \in ToSet(newNodes)
        BY <3>1, RaisingFacts
      <4> QED
        BY <1>1, <4>1 DEF Present
    <3>2. CASE m \notin above
      <4>1. arcs'[m] = arcs[m] /\ m \in Node
        BY <1>1, <1>7, <3>2
      <4>2. arcs[m][i] \in ToSet(arcs[m])
        BY <4>1 DEF ToSet
      <4>3. nbIn[arcs[m][i].end] # 0
        BY <1>1, <4>1, <4>2, EndsArePresent DEF Base
      <4> QED
        BY <2>1, <4>1, <4>3
    <3> QED
      BY <3>1, <3>2
  <2>4. nbIn'[n] = 0
    BY <1>1, <1>3, <2>1, <2>3, FS_EmptySet DEF Counted
  <2> QED
    BY <2>2, <2>4
<1> QED
  BY <1>3, <1>4, <1>5, <1>8, <1>9, <1>10, <1>11 DEF Base

\* A list has no more members than places.
LEMMA AtMostLength ==
  ASSUME NEW S, NEW s \in Seq(S)
  PROVE  IsFiniteSet(ToSet(s)) /\ Cardinality(ToSet(s)) <= Len(s)
<1> DEFINE I == 1..Len(s)
           T == ToSet(s)
<1>1. Len(s) \in Nat /\ s \in Surjection(I, T)
  <2>1. Len(s) \in Nat /\ DOMAIN s = I /\ s \in [I -> T]
    BY DEF ToSet
  <2>2. \A x \in T : \E i \in I : s[i] = x
    BY <2>1 DEF ToSet
  <2> QED
    BY <2>1, <2>2 DEF Surjection
<1>2. IsFiniteSet(I) /\ Cardinality(I) = Len(s)
  <2> DEFINE n == Len(s)
  <2>1. n \in Int /\ 1 \in Int /\ (1 > n => n = 0)
    BY <1>1
  <2> HIDE DEF n
  <2>2. IsFiniteSet(1..n) /\ Cardinality(1..n) = IF 1 > n THEN 0 ELSE n - 1 + 1
    BY <2>1, FS_Interval
  <2> QED
    BY <2>1, <2>2 DEF n
<1> HIDE DEF I, T
<1>3. IsFiniteSet(T) /\ Cardinality(T) <= Cardinality(I)
  BY <1>1, <1>2, FS_Surjection
<1> QED
  BY <1>2, <1>3 DEF T

LEMMA RaisingCovered ==
  ASSUME Raising, job.kind = "relax", Covered, Narrow
  PROVE  Covered' /\ Narrow'
<1> DEFINE above == Listed(layer - 1)
<1>1. /\ Base /\ layer \in 1..Size - 1 /\ layer - 1 \in Layer /\ layer \in Layer
      /\ Ahead = layer /\ Ahead' = layer /\ step = "above" /\ step' = "clean"
      /\ UNCHANGED <<job, nodes, alive, varIndex, free, layer, setOf, nodeOf, parts, newNodes,
                     todo, making, label, toDel, cleans, lost>>
      /\ making = Null /\ todo = <<>> /\ parts = <<>>
      /\ ToSet(newNodes) \subseteq Present(layer)
      /\ \A n \in above : n \in Node /\ n \in alive /\ varIndex[n] = layer - 1
      /\ \A n \in Node : n \notin above => arcs'[n] = arcs[n]
  BY RaisingFacts DEF Raising
<1>2. /\ arcs' \in [Node -> Seq(Arc)]
      /\ \A n \in above :
              /\ DOMAIN arcs'[n] = DOMAIN arcs[n]
              /\ \A i \in DOMAIN arcs[n] :
                   /\ arcs'[n][i].value = arcs[n][i].value
                   /\ arcs'[n][i].end = Leader(arcs[n][i].end)
                   /\ Leader(arcs[n][i].end) \in ToSet(newNodes)
                   /\ setOf[arcs[n][i].end] \subseteq setOf[Leader(arcs[n][i].end)]
  BY RaisingFacts
<1>3. \A l : Unit(l)' = Unit(l) /\ Listed(l)' = Listed(l) /\ Present(l)' = Present(l)
  BY <1>1 DEF Unit, Listed, Present
<1>4. alive \subseteq Node /\ Types /\ Linked /\ Lists
  BY <1>1 DEF Base, Types
<1>5. \A n : Stands(n)' = Stands(n)
  BY <1>1, <1>3 DEF Stands
<1> HIDE DEF above
<1>6. ASSUME NEW n \in Node, n \notin above, Covers(n)
      PROVE  Covers(n)'
  BY <1>1, <1>4, <1>6, CoversKept
<1>7. ASSUME NEW n \in above, Covers(n)
      PROVE  Covers(n)'
  <2> SUFFICES ASSUME NEW u \in Stands(n), NEW a \in ToSet(job.arcs[u])
               PROVE  \E b \in ToSet(arcs'[n]) : b.value = a.value /\ a.end \in setOf[b.end]
    BY <1>1, <1>5 DEF Covers
  <2>1. PICK b \in ToSet(arcs[n]) : b.value = a.value /\ a.end \in setOf[b.end]
    BY <1>7 DEF Covers
  <2>2. PICK i \in DOMAIN arcs[n] : b = arcs[n][i]
    BY <2>1 DEF ToSet
  <2>3. /\ arcs'[n][i] \in ToSet(arcs'[n]) /\ arcs'[n][i].value = a.value
        /\ a.end \in setOf[arcs'[n][i].end]
    BY <1>2, <2>1, <2>2 DEF ToSet
  <2> QED
    BY <2>3
<1>8. \A n \in Node : Covers(n) => Covers(n)'
  BY <1>6, <1>7
\* A node of the layer that something leads to is that of a part, or a given one.
<1>9. ASSUME NEW m \in Listed(layer), nbIn'[m] # 0
      PROVE  Covers(m)
  <2>1. m \in alive /\ m \in Node /\ varIndex[m] = layer
    BY <1>1, <1>4 DEF Lists
  <2>2. PICK n \in alive : \E a \in ToSet(arcs'[n]) : a.end = m
    <3>1. Types' /\ Counted'
      BY RaisingLinked
    <3>2. ArcsInto(m, alive)' # {}
      BY <1>1, <1>9, <2>1, <3>1, FS_EmptySet DEF Counted
    <3> QED
      BY <1>1, <3>2 DEF ArcsInto, ToSet
  <2>3. PICK a \in ToSet(arcs'[n]) : a.end = m
    BY <2>2
  <2>4. CASE n \in above
    <3>1. PICK i \in DOMAIN arcs[n] : a = arcs'[n][i]
      BY <1>2, <2>3, <2>4 DEF ToSet
    <3>2. m \in ToSet(newNodes)
      BY <1>2, <2>3, <2>4, <3>1
    <3>3. m \notin ToSet(todo)
      BY <1>1 DEF ToSet
    <3> QED
      BY <1>1, <3>2, <3>3 DEF Covered
  <2>5. CASE n \notin above
    <3>1. arcs'[n] = arcs[n] /\ n \in Node
      BY <1>1, <1>4, <2>3, <2>5
    <3>2. varIndex[n] = layer - 1
      <4>1. varIndex[m] = varIndex[n] + 1 /\ varIndex[n] \in Int
        BY <1>4, <2>3, <3>1, ArcsOf, LayersAre DEF Types
      <4> QED
        BY <1>1, <2>1, <4>1
    <3>3. n \in ToSet(toDel)
      <4>1. Present(layer - 1) \subseteq Listed(layer - 1)
        BY <1>1 DEF Base, AllListed
      <4> QED
        BY <2>3, <2>5, <3>2, <4>1 DEF above, Present
    <3>4. m \in Unit(layer)
      <4>1. \A i \in DOMAIN arcs[n] : arcs[n][i].end \in Unit(varIndex[n] + 1)
        BY <1>1, <3>3 DEF Base, Waiting
      <4>2. PICK i \in DOMAIN arcs[n] : a = arcs[n][i]
        BY <2>3, <3>1 DEF ToSet
      <4>3. varIndex[n] + 1 = layer
        BY <1>1, <3>2
      <4> QED
        BY <2>3, <4>1, <4>2, <4>3
    <3>5. layer \in Ahead..Size - 1
      BY <1>1
    <3> QED
      BY <1>1, <3>4, <3>5, UnitCovers
  <2> QED
    BY <2>4, <2>5
<1>10. Covered'
  <2>1. \A k \in 0..Ahead' - 1 : \A n \in Listed(k)' : Covers(n)'
    <3>1. \A k \in 0..layer - 1 : k \in Layer /\ Listed(k) \subseteq Node
      BY <1>1, <1>4, LayersAre DEF Lists
    <3>2. \A k \in 0..layer - 1 : \A n \in Listed(k) : Covers(n)
      BY <1>1 DEF Covered
    <3> QED
      BY <1>1, <1>3, <1>8, <3>1, <3>2
  <2>2. ASSUME NEW n \in Node, IsMade(n)'
        PROVE  arcs'[n] = <<>> \/ Covers(n)'
    <3>1. IsMade(n)
      BY <1>1, <1>3, <2>2 DEF IsMade
    <3>2. n \notin above /\ n # making
      BY <1>1, <3>1, NullIsNoNode DEF IsMade
    <3>3. arcs[n] = <<>> \/ Covers(n)
      BY <3>1, <3>2 DEF Covered
    <3> QED
      BY <1>1, <1>8, <3>2, <3>3
  <2>3. \A n \in Listed(layer)' : nbIn'[n] = 0 \/ Covers(n)'
    <3>1. Listed(layer) \subseteq Node
      BY <1>1, <1>4 DEF Lists
    <3>2. ASSUME NEW n \in Listed(layer), nbIn'[n] # 0
          PROVE  Covers(n)'
      BY <1>8, <1>9, <3>1, <3>2
    <3>3. Listed(layer)' = Listed(layer)
      BY <1>1, <1>3
    <3> QED
      BY <3>2, <3>3
  <2> QED
    BY <1>1, <2>1, <2>2, <2>3 DEF Covered
<1>11. Narrow'
  <2>1. ASSUME NEW l \in 1..layer - 1
        PROVE  EndsOf(l - 1)' = EndsOf(l - 1)
    <3>1. l - 1 \in Layer /\ l - 1 # layer - 1
      BY <1>1, LayersAre
    <3>2. \A n \in Listed(l - 1) : n \in Node /\ varIndex[n] = l - 1
      BY <1>4, <3>1 DEF Lists
    <3>3. \A n \in Listed(l - 1) : n \notin above
      BY <1>1, <3>1, <3>2
    <3>4. \A n \in Listed(l - 1) : arcs'[n] = arcs[n]
      BY <1>1, <3>2, <3>3
    <3>5. {ToSet(arcs'[n]) : n \in Listed(l - 1)'} = {ToSet(arcs[n]) : n \in Listed(l - 1)}
      BY <1>3, <3>4
    <3> QED
      BY <3>5 DEF EndsOf
  <2>2. Cardinality(EndsOf(layer - 1)') <= Width
    <3>1. newNodes \in Seq(Node) /\ Len(newNodes) <= Width
      <4>1. newNodes \in Seq(Node) /\ Len(newNodes) + Len(parts) <= Width /\ Len(parts) = 0
        BY <1>1 DEF Base, Cursors, Leads
      <4> QED
        BY <4>1
    <3>2. EndsOf(layer - 1)' \subseteq ToSet(newNodes)
      <4> SUFFICES ASSUME NEW n \in above, NEW b \in ToSet(arcs'[n])
                   PROVE  b.end \in ToSet(newNodes)
        BY <1>1, <1>3 DEF EndsOf, above
      <4>1. PICK i \in DOMAIN arcs[n] : b = arcs'[n][i]
        BY <1>2 DEF ToSet
      <4> QED
        BY <1>2, <4>1
    <3>3. IsFiniteSet(ToSet(newNodes)) /\ Cardinality(ToSet(newNodes)) <= Len(newNodes)
          /\ Cardinality(ToSet(newNodes)) \in Nat
      BY <3>1, AtMostLength, FS_CardinalityType
    <3>4. Cardinality(EndsOf(layer - 1)') <= Cardinality(ToSet(newNodes))
          /\ Cardinality(EndsOf(layer - 1)') \in Nat
      BY <3>2, <3>3, FS_Subset, FS_CardinalityType
    <3> QED
      BY <3>1, <3>3, <3>4, WidthIsPositive
  <2>3. \A l \in 1..layer - 1 : Cardinality(EndsOf(l - 1)') <= Width
    BY <1>1, <2>1 DEF Narrow
  <2> QED
    BY <1>1, <2>2, <2>3 DEF Narrow
<1> QED
  BY <1>10, <1>11

LEMMA UpdateAboveRuns ==
  ASSUME Running, UpdateAbove, UNCHANGED <<job, phase>>
  PROVE  Running'
<1>1. Raising
  BY DEF Running, Raising
<1>2. Base' /\ job' = job
  BY <1>1, RaisingBase DEF Raising
<1>3. job.kind = "relax" /\ Covered /\ Narrow => Covered' /\ Narrow'
  BY <1>1, RaisingCovered
<1>4. ASSUME Backed
      PROVE  Backed'
  <2>1. /\ UNCHANGED <<job, alive, setOf>> /\ alive \subseteq Node
        /\ \A n \in Node : n \notin Listed(layer - 1) => arcs'[n] = arcs[n]
        /\ \A n \in Listed(layer - 1) :
              /\ DOMAIN arcs'[n] = DOMAIN arcs[n]
              /\ \A i \in DOMAIN arcs[n] :
                   /\ arcs'[n][i].value = arcs[n][i].value
                   /\ arcs'[n][i].end = Leader(arcs[n][i].end)
                   /\ setOf[arcs[n][i].end] \subseteq setOf[Leader(arcs[n][i].end)]
    BY <1>1, RaisingFacts DEF Raising, Base, Types
  <2> SUFFICES ASSUME NEW n \in alive, NEW b \in ToSet(arcs'[n]), NEW u \in Stands(n)
               PROVE  \E a \in ToSet(job.arcs[u]) : a.value = b.value /\ a.end \in setOf[b.end]
    BY <2>1 DEF Backed, Stands, Unit
  <2>2. CASE n \notin Listed(layer - 1)
    <3>1. b \in ToSet(arcs[n])
      BY <2>1, <2>2
    <3> QED
      BY <1>4, <3>1 DEF Backed
  <2>3. CASE n \in Listed(layer - 1)
    <3>1. PICK i \in DOMAIN arcs[n] : b = arcs'[n][i]
      BY <2>1, <2>3 DEF ToSet
    <3>2. arcs[n][i] \in ToSet(arcs[n])
      BY DEF ToSet
    <3>3. PICK a \in ToSet(job.arcs[u]) :
            a.value = arcs[n][i].value /\ a.end \in setOf[arcs[n][i].end]
      BY <1>4, <3>2 DEF Backed
    <3> QED
      BY <2>1, <2>3, <3>1, <3>3
  <2> QED
    BY <2>2, <2>3
<1> QED
  BY <1>2, <1>3, <1>4 DEF Running

-----------------------------------------------------------------------------
(***************************************************************************)
(* CleanLayer.                                                             *)
(***************************************************************************)
LEMMA AmongFacts ==
  ASSUME NEW S, NEW s \in Seq(S), NEW N
  PROVE  /\ Among(s, N) \in Seq(S) /\ ToSet(Among(s, N)) = ToSet(s) \cap N
         /\ IsInjective(s) => IsInjective(Among(s, N))
<1> DEFINE I == {i \in DOMAIN s : s[i] \in N}
<1>1. I \in SUBSET DOMAIN s
  OBVIOUS
<1>2. Among(s, N) = Selected(s, I)
  BY DEF Among, Kept, Selected, Ranked
<1>3. {s[i] : i \in I} = ToSet(s) \cap N
  BY DEF ToSet
<1>4. IsInjective(s) => \A i, j \in I : s[i] = s[j] => i = j
  BY DEF IsInjective
<1> HIDE DEF I
<1> QED
  BY <1>1, <1>2, <1>3, <1>4, SelectedOfList

Cleaning ==
  /\ Base /\ step = "clean" /\ CleanedLayer(layer) /\ step' = "idle"
  /\ UNCHANGED <<job, phase, layer, sets, cursors, cleans, lost>>

\* What is deleted, and what is left.
LEMMA CleaningFacts ==
  ASSUME Cleaning
  PROVE  /\ layer \in 1..Size - 1 /\ layer \in Layer /\ layer + 1 \in Layer
         /\ Ahead = layer /\ Ahead' = layer + 1 /\ making = Null
         /\ Deleted(layer) \in Seq(Node) /\ IsInjective(Deleted(layer))
         /\ ToSet(Deleted(layer)) = {n \in Listed(layer) : nbIn[n] = 0} \cup ToSet(toDel)
         /\ ToSet(Deleted(layer)) \subseteq alive
         /\ \A n \in ToSet(Deleted(layer)) : varIndex[n] \in 1..layer /\ nbIn[n] = 0
         /\ toDel' = Orphans(layer) /\ Orphans(layer) \in Seq(Node) /\ IsInjective(Orphans(layer))
         /\ \A n \in ToSet(Orphans(layer)) :
              n \in Listed(layer + 1) /\ nbIn'[n] = 0 /\ n \in alive /\ varIndex[n] = layer + 1
         /\ nodes' \in [Layer -> Seq(Node)]
         /\ \A l \in Layer :
              /\ IsInjective(nodes'[l]) /\ Listed(l)' \subseteq Listed(l)
              /\ l # layer + 1 => Listed(l)' = Listed(l) \ ToSet(Deleted(layer))
              /\ l = layer + 1 => Listed(l)' = Listed(l) \ ToSet(Orphans(layer))
              /\ l < layer => nodes'[l] = nodes[l]
         /\ alive' = alive \ ToSet(Deleted(layer)) /\ alive' \subseteq Node
         /\ \A n \in Node : arcs'[n] = IF n \in ToSet(Deleted(layer)) THEN <<>> ELSE arcs[n]
         /\ UNCHANGED <<job, varIndex, newV, layer, setOf, nodeOf, parts, newNodes, todo, making,
                        label, cleans, lost>>
<1> DEFINE Zero == {n \in Node : nbIn[n] = 0}
           Lost == {n \in Node : DegreesLeft(layer)[n] = 0}
           D == ToSet(Deleted(layer))
           O == ToSet(Orphans(layer))
           A == Among(nodes[layer], Zero)
           K == Node \ D
           L == Node \ O
<1>1. /\ Types /\ Cursors /\ Lists /\ Waiting /\ layer \in 1..Size - 1
      /\ layer \in Layer /\ layer + 1 \in Layer /\ Ahead = layer /\ Ahead' = layer + 1
      /\ making = Null /\ alive \subseteq Node
  <2>1. /\ Types /\ Cursors /\ Lists /\ Waiting
        /\ step = "clean" /\ step' = "idle" /\ layer' = layer
    BY DEF Cleaning, Base
  <2>2. layer \in 0..Size - 1 /\ layer # 0 /\ alive \subseteq Node
    BY <2>1 DEF Types, Cursors
  <2>3. making = Null
    BY <2>1 DEF Cursors, Building
  <2>4. Ahead = layer /\ Ahead' = layer + 1
    BY <2>1 DEF Ahead
  <2> QED
    BY <2>1, <2>2, <2>3, <2>4, LayersAre
<1>2. UNCHANGED <<job, varIndex, newV, layer, setOf, nodeOf, parts, newNodes, todo, making,
                  label, cleans, lost>>
  BY DEF Cleaning, CleanedLayer, sets, cursors
<1>3. \A l \in Layer : nodes[l] \in Seq(Node) /\ IsInjective(nodes[l]) /\ Listed(l) = ToSet(nodes[l])
  BY <1>1, ListedIs DEF Types, Lists
<1>4. \A l \in Layer : \A n \in Listed(l) : n \in alive /\ n \in Node /\ varIndex[n] = l
  BY <1>1 DEF Lists
<1>5. A \in Seq(Node) /\ IsInjective(A) /\ ToSet(A) = Listed(layer) \cap Zero
  BY <1>1, <1>3, AmongFacts
<1>6. ToSet(A) = {n \in Listed(layer) : nbIn[n] = 0}
  BY <1>1, <1>4, <1>5
<1>7. /\ toDel \in Seq(Node) /\ IsInjective(toDel)
      /\ \A n \in ToSet(toDel) : n \in alive /\ varIndex[n] \in 1..layer /\ nbIn[n] = 0
                                 /\ n \notin Listed(varIndex[n])
  BY <1>1 DEF Waiting
<1>8. ToSet(A) \cap ToSet(toDel) = {}
  BY <1>1, <1>4, <1>6, <1>7
<1>9. Deleted(layer) = A \o toDel
  BY DEF Deleted
<1> HIDE DEF A
<1>10. Deleted(layer) \in Seq(Node) /\ IsInjective(Deleted(layer)) /\ D = ToSet(A) \cup ToSet(toDel)
  BY <1>5, <1>7, <1>8, <1>9, ConcatFacts
<1>11. D \subseteq alive /\ \A n \in D : varIndex[n] \in 1..layer /\ nbIn[n] = 0
  <2>1. layer \in 1..layer
    BY <1>1
  <2> QED
    BY <1>1, <1>4, <1>6, <1>7, <1>10, <2>1
<1>12. /\ nbIn' = DegreesLeft(layer) /\ alive' = alive \ D
       /\ arcs' = [n \in Node |-> IF n \in D THEN <<>> ELSE arcs[n]]
       /\ nodes' = [nodes EXCEPT ![layer] = Among(@, K), ![layer + 1] = Among(@, L)]
       /\ toDel' = Orphans(layer)
  BY DEF Cleaning, CleanedLayer, ToDelete
<1> HIDE DEF D
<1>13. Orphans(layer) \in Seq(Node) /\ IsInjective(Orphans(layer))
       /\ \A n \in O : n \in Listed(layer + 1) /\ DegreesLeft(layer)[n] = 0
  <2>1. CASE layer + 1 = Size
    <3>1. Orphans(layer) = <<>>
      BY <2>1 DEF Orphans
    <3> QED
      BY <3>1 DEF IsInjective, ToSet
  <2>2. CASE layer + 1 # Size
    <3>1. Orphans(layer) = Among(nodes[layer + 1], Lost)
      BY <2>2 DEF Orphans
    <3> HIDE DEF Lost
    <3>2. Orphans(layer) \in Seq(Node) /\ IsInjective(Orphans(layer)) /\ O = Listed(layer + 1) \cap Lost
      BY <1>1, <1>3, <3>1, AmongFacts
    <3> QED
      BY <3>2 DEF Lost
  <2> QED
    BY <2>1, <2>2
<1> HIDE DEF O
<1>14. \A n \in O : n \in Listed(layer + 1) /\ nbIn'[n] = 0 /\ n \in alive /\ varIndex[n] = layer + 1
  BY <1>1, <1>4, <1>12, <1>13
<1>15. /\ Among(nodes[layer], K) \in Seq(Node) /\ IsInjective(Among(nodes[layer], K))
       /\ ToSet(Among(nodes[layer], K)) = Listed(layer) \cap K
       /\ Among(nodes[layer + 1], L) \in Seq(Node) /\ IsInjective(Among(nodes[layer + 1], L))
       /\ ToSet(Among(nodes[layer + 1], L)) = Listed(layer + 1) \cap L
  BY <1>1, <1>3, AmongFacts
<1>16. Listed(layer) \cap K = Listed(layer) \ D /\ Listed(layer + 1) \cap L = Listed(layer + 1) \ O
  BY <1>1, <1>4
<1> HIDE DEF K, L
<1>17. /\ nodes' \in [Layer -> Seq(Node)]
       /\ nodes'[layer] = Among(nodes[layer], K) /\ nodes'[layer + 1] = Among(nodes[layer + 1], L)
       /\ \A l \in Layer : l # layer /\ l # layer + 1 => nodes'[l] = nodes[l]
  <2>1. nodes \in [Layer -> Seq(Node)] /\ layer # layer + 1
    BY <1>1 DEF Types
  <2> QED
    BY <1>1, <1>12, <1>15, <2>1
<1>18. ASSUME NEW l \in Layer
       PROVE  /\ IsInjective(nodes'[l]) /\ Listed(l)' \subseteq Listed(l)
              /\ l # layer + 1 => Listed(l)' = Listed(l) \ D
              /\ l = layer + 1 => Listed(l)' = Listed(l) \ O
              /\ l < layer => nodes'[l] = nodes[l]
  <2>1. Listed(l)' = ToSet(nodes'[l])
    BY DEF Listed, ToSet
  <2>2. layer # layer + 1 /\ ~(layer < layer) /\ ~(layer + 1 < layer)
    BY <1>1
  <2>3. CASE l = layer
    BY <1>15, <1>16, <1>17, <2>1, <2>2, <2>3
  <2>4. CASE l = layer + 1
    BY <1>15, <1>16, <1>17, <2>1, <2>2, <2>4
  <2>5. CASE l # layer /\ l # layer + 1
    <3>1. nodes'[l] = nodes[l] /\ Listed(l)' = Listed(l)
      BY <1>3, <1>17, <2>1, <2>5
    <3>2. \A n \in Listed(l) : n \notin D
      <4> SUFFICES ASSUME NEW n \in Listed(l), n \in D
                   PROVE  FALSE
        OBVIOUS
      <4>1. varIndex[n] = l
        BY <1>4
      <4>2. n \notin ToSet(A)
        BY <1>1, <1>4, <1>6, <2>5, <4>1
      <4> QED
        BY <1>7, <1>10, <4>1, <4>2
    <3> QED
      BY <1>3, <2>5, <3>1, <3>2
  <2> QED
    BY <2>3, <2>4, <2>5
<1>19. alive' \subseteq Node /\ \A n \in Node : arcs'[n] = IF n \in D THEN <<>> ELSE arcs[n]
  BY <1>1, <1>12
<1> QED
  BY <1>1, <1>2, <1>6, <1>10, <1>11, <1>12, <1>13, <1>14, <1>17, <1>18, <1>19 DEF D, O

\* The counters of what is left.
LEMMA CleaningLinked ==
  ASSUME Cleaning
  PROVE  Types' /\ Linked' /\ Counted'
<1> DEFINE D == ToSet(Deleted(layer))
           r == Reverse(Deleted(layer))
<1>1. /\ layer \in Layer /\ Deleted(layer) \in Seq(Node) /\ IsInjective(Deleted(layer))
      /\ D \subseteq alive /\ \A n \in D : nbIn[n] = 0
      /\ nodes' \in [Layer -> Seq(Node)] /\ alive' = alive \ D /\ alive' \subseteq Node
      /\ \A n \in Node : arcs'[n] = IF n \in D THEN <<>> ELSE arcs[n]
      /\ UNCHANGED <<job, varIndex, newV, layer, setOf, nodeOf, parts, newNodes, todo, making,
                     label, cleans, lost>>
  BY CleaningFacts
<1>2. /\ Types /\ Linked /\ Counted /\ alive \subseteq Node
      /\ nbIn' = [m \in Node |-> nbIn[m] - Cardinality(ArcsInto(m, D))]
      /\ arcs' = [n \in Node |-> IF n \in D THEN <<>> ELSE arcs[n]]
      /\ free' = r \o free
  BY DEF Cleaning, Base, Types, CleanedLayer, DegreesLeft
<1>3. r \in Seq(Node) /\ ToSet(r) = D /\ IsInjective(r)
  BY <1>1, ReverseFacts
<1> HIDE DEF D, r
<1>4. free' \in Seq(Node) /\ IsInjective(free') /\ ToSet(free') = Node \ alive'
  <2>1. free \in Seq(Node) /\ IsInjective(free) /\ ToSet(free) = Node \ alive
    BY <1>2 DEF Types
  <2>2. ToSet(r) \cap ToSet(free) = {}
    BY <1>1, <1>3, <2>1
  <2>3. free' \in Seq(Node) /\ IsInjective(free') /\ ToSet(free') = D \cup ToSet(free)
    BY <1>2, <1>3, <2>1, <2>2, ConcatFacts
  <2> QED
    BY <1>1, <1>2, <2>1, <2>3
<1>5. D \in SUBSET Node
  BY <1>1, <1>2
<1>6. arcs' \in [Node -> Seq(Arc)] /\ nbIn' \in [Node -> Int]
  <2>1. \A n \in Node : arcs[n] \in Seq(Arc) /\ <<>> \in Seq(Arc) /\ nbIn[n] \in Int
    BY <1>2 DEF Types
  <2>2. \A m \in Node : Cardinality(ArcsInto(m, D)) \in Nat
    BY <1>2, <1>5, FewInto
  <2>3. ASSUME NEW m \in Node
        PROVE  nbIn[m] - Cardinality(ArcsInto(m, D)) \in Int
    <3> DEFINE c == Cardinality(ArcsInto(m, D))
    <3>1. nbIn[m] \in Int /\ c \in Nat
      BY <2>1, <2>2
    <3> HIDE DEF c
    <3>2. nbIn[m] - c \in Int
      BY <3>1
    <3> QED
      BY <3>2 DEF c
  <2> QED
    BY <1>2, <2>1, <2>3
<1>7. Types'
  BY <1>1, <1>2, <1>4, <1>6 DEF Types
<1>8. Linked'
  <2> SUFFICES ASSUME NEW n \in Node, NEW i \in DOMAIN arcs'[n]
               PROVE  /\ n \in alive' /\ arcs'[n][i].end \in alive'
                      /\ varIndex[arcs'[n][i].end] = varIndex[n] + 1
    BY <1>1 DEF Linked
  <2>1. n \notin D /\ arcs'[n] = arcs[n]
    BY <1>1
  <2>2. arcs[n][i] \in ToSet(arcs[n])
    BY <2>1 DEF ToSet
  <2>3. n \in alive /\ arcs[n][i].end \in alive /\ varIndex[arcs[n][i].end] = varIndex[n] + 1
    BY <1>2, <2>2, ArcsOf
  <2>4. nbIn[arcs[n][i].end] # 0
    <3>1. Waiting
      BY DEF Cleaning, Base
    <3> QED
      BY <1>2, <2>2, <3>1, EndsArePresent
  <2> QED
    BY <1>1, <2>1, <2>3, <2>4
<1>9. ASSUME NEW m \in alive'
      PROVE  nbIn'[m] = Cardinality(ArcsInto(m, alive)')
  <2> DEFINE all == ArcsInto(m, alive)
             gone == ArcsInto(m, D)
             left == ArcsInto(m, alive)'
  <2>1. m \in alive /\ m \in Node
    BY <1>1, <1>2
  <2>2. nbIn[m] = Cardinality(all) /\ nbIn'[m] = nbIn[m] - Cardinality(gone)
    BY <1>2, <2>1 DEF Counted
  <2>3. left = all \ gone
    <3>1. left = UNION {{<<n, i>> : i \in {j \in DOMAIN arcs'[n] : arcs'[n][j].end = m}} : n \in alive'}
      BY DEF ArcsInto
    <3>2. \A n \in alive' : n \in alive /\ n \notin D /\ arcs'[n] = arcs[n]
      BY <1>1
    <3>3. left \subseteq all \ gone
      <4> SUFFICES ASSUME NEW n \in alive', NEW i \in DOMAIN arcs[n], arcs[n][i].end = m
                   PROVE  <<n, i>> \in all \ gone
        BY <3>1, <3>2
      <4>1. <<n, i>> \in all
        BY <3>2 DEF ArcsInto
      <4>2. <<n, i>> \notin gone
        BY <3>2 DEF ArcsInto
      <4> QED
        BY <4>1, <4>2
    <3>4. all \ gone \subseteq left
      <4> SUFFICES ASSUME NEW n \in alive, NEW i \in DOMAIN arcs[n], arcs[n][i].end = m,
                          <<n, i>> \notin gone
                   PROVE  <<n, i>> \in left
        BY DEF ArcsInto
      <4>1. n \notin D
        BY DEF ArcsInto
      <4>2. n \in alive'
        BY <1>1, <4>1
      <4>3. i \in {j \in DOMAIN arcs'[n] : arcs'[n][j].end = m}
        BY <3>2, <4>2
      <4> QED
        BY <3>1, <4>2, <4>3
    <3> QED
      BY <3>3, <3>4
  <2>4. IsFiniteSet(all) /\ gone \subseteq all
    <3>1. IsFiniteSet(all)
      BY <1>2, FewInto
    <3>2. gone \subseteq all
      BY <1>1 DEF ArcsInto
    <3> QED
      BY <3>1, <3>2
  <2> HIDE DEF all, gone, left
  <2>5. Cardinality(left) = Cardinality(all) - Cardinality(all \cap gone)
    BY <2>3, <2>4, FS_Difference
  <2>6. all \cap gone = gone
    BY <2>4
  <2> QED
    BY <2>2, <2>5, <2>6 DEF left
<1>10. Counted'
  BY <1>9 DEF Counted
<1> QED
  BY <1>7, <1>8, <1>10

LEMMA CleaningBase ==
  ASSUME Cleaning
  PROVE  Base'
<1> DEFINE D == ToSet(Deleted(layer))
           O == ToSet(Orphans(layer))
<1>1. /\ layer \in 1..Size - 1 /\ layer \in Layer /\ layer + 1 \in Layer
      /\ Ahead = layer /\ Ahead' = layer + 1 /\ making = Null /\ step' = "idle"
      /\ D = {n \in Listed(layer) : nbIn[n] = 0} \cup ToSet(toDel)
      /\ D \subseteq alive /\ \A n \in D : varIndex[n] \in 1..layer
      /\ toDel' = Orphans(layer) /\ Orphans(layer) \in Seq(Node) /\ IsInjective(Orphans(layer))
      /\ \A n \in O : n \in Listed(layer + 1) /\ nbIn'[n] = 0 /\ n \in alive /\ varIndex[n] = layer + 1
      /\ \A l \in Layer :
              /\ IsInjective(nodes'[l]) /\ Listed(l)' \subseteq Listed(l)
              /\ l # layer + 1 => Listed(l)' = Listed(l) \ D
              /\ l = layer + 1 => Listed(l)' = Listed(l) \ O
              /\ l < layer => nodes'[l] = nodes[l]
      /\ alive' = alive \ D
      /\ \A n \in Node : arcs'[n] = IF n \in D THEN <<>> ELSE arcs[n]
      /\ UNCHANGED <<job, varIndex, newV, layer, setOf, nodeOf, parts, newNodes, todo, making,
                     label, cleans, lost>>
  BY CleaningFacts DEF Cleaning
<1>2. /\ Types /\ Cursors /\ Lists /\ Waiting /\ Originals /\ Made /\ Found /\ AllListed
      /\ CutOff /\ alive \subseteq Node
  BY DEF Cleaning, Base, Types
<1> HIDE DEF D, O
<1>3. Types' /\ Linked' /\ Counted'
  BY CleaningLinked
<1>4. \A n \in alive : /\ n \in Node /\ varIndex[n] \in Int
                       /\ varIndex[n] > layer => n \in alive' /\ arcs'[n] = arcs[n]
  <2>1. \A n \in Node : varIndex[n] \in Int
    BY <1>2, LayersAre DEF Types
  <2>2. \A n \in alive : varIndex[n] > layer => n \notin D
    BY <1>1, <2>1
  <2> QED
    BY <1>1, <1>2, <2>1, <2>2
<1>5. \A l : Unit(l)' = Unit(l)
  BY <1>1 DEF Unit
<1>6. Cursors'
  BY <1>1, <1>2 DEF Cursors, Building, Cleaning
<1>7. Lists'
  <2>1. ASSUME NEW l \in Layer, NEW n \in Listed(l)'
        PROVE  n \in alive' /\ varIndex[n] = l
    <3>1. n \in Listed(l) /\ n \in alive /\ varIndex[n] = l
      BY <1>1, <1>2, <2>1 DEF Lists
    <3>2. CASE l = layer + 1
      BY <1>1, <1>4, <3>1, <3>2
    <3>3. CASE l # layer + 1
      BY <1>1, <2>1, <3>1, <3>3
    <3> QED
      BY <3>1, <3>2, <3>3
  <2>2. nodes'[0] = job'.nodes[0]
    BY <1>1, <1>2, LayersAre DEF Lists
  <2> QED
    BY <1>1, <2>1, <2>2 DEF Lists
<1>8. Waiting'
  <2> SUFFICES ASSUME NEW n \in O
               PROVE  /\ n \in alive' /\ varIndex[n] \in 1..Ahead' /\ nbIn'[n] = 0
                      /\ n \notin Listed(varIndex[n])'
                      /\ \A i \in DOMAIN arcs'[n] : arcs'[n][i].end \in Unit(varIndex[n] + 1)
    BY <1>1, <1>5 DEF Waiting, O
  <2>1. /\ n \in Listed(layer + 1) /\ nbIn'[n] = 0 /\ n \in alive /\ varIndex[n] = layer + 1
        /\ n \in Node /\ n \in alive' /\ arcs'[n] = arcs[n]
    BY <1>1, <1>4
  <2>2. n \notin Listed(layer + 1)'
    BY <1>1
  <2>3. layer + 1 \in 1..Ahead'
    BY <1>1
  <2>4. ASSUME NEW i \in DOMAIN arcs[n]
        PROVE  arcs[n][i].end \in Unit(varIndex[n] + 1)
    <3>1. CASE n \in Unit(layer + 1)
      <4>1. arcs[n] = job.arcs[n]
        BY <1>1, <1>2, <3>1, LayersAre DEF Originals
      <4>2. arcs[n][i] \in ToSet(job.arcs[n])
        BY <4>1 DEF ToSet
      <4>3. arcs[n][i].end \in Unit(layer + 1 + 1)
        BY <1>1, <1>2, <3>1, <4>2, JobFacts DEF Types
      <4> QED
        BY <2>1, <4>3
    <3>2. CASE n \notin Unit(layer + 1)
      <4>1. IsMade(n)
        BY <1>1, <2>1, <3>2 DEF IsMade
      <4>2. arcs[n] = <<>>
        BY <1>1, <1>2, <2>1, <4>1 DEF Made
      <4> QED
        BY <4>2
    <3> QED
      BY <3>1, <3>2
  <2>5. n \notin Listed(varIndex[n])'
    <3>1. varIndex'[n] = layer' + 1
      BY <1>1, <2>1
    <3> QED
      BY <2>2, <3>1
  <2> QED
    BY <2>1, <2>3, <2>4, <2>5
<1>9. \A l \in Ahead'..Size : l \in Ahead..Size /\ l > layer
  BY <1>1, LayersAre
<1>10. Originals'
  <2> SUFFICES ASSUME NEW l \in Ahead'..Size, NEW u \in Unit(l)
               PROVE  /\ u \in alive' /\ varIndex[u] = l
                      /\ arcs'[u] = job.arcs[u] /\ setOf[u] = {u}
    BY <1>1, <1>5 DEF Originals
  <2>1. u \in alive /\ varIndex[u] = l /\ arcs[u] = job.arcs[u] /\ setOf[u] = {u}
    BY <1>2, <1>9 DEF Originals
  <2> QED
    BY <1>4, <1>9, <2>1
<1>11. Made'
  <2> SUFFICES ASSUME NEW n \in Node, IsMade(n)'
               PROVE  /\ setOf[n] \subseteq Unit(varIndex[n]) /\ setOf[n] # {}
                      /\ Cardinality(setOf[n]) # 1 /\ varIndex[n] = Ahead' /\ arcs'[n] = <<>>
    <3>1. Ahead' <= Ahead' + 1 /\ Ahead' # Ahead' + 1
      BY <1>1
    <3> QED
      BY <1>1, <1>5, <3>1 DEF Made
  <2>1. n \in alive /\ varIndex[n] >= layer + 1 /\ n \notin Unit(varIndex[n])
    BY <1>1, <1>5 DEF IsMade
  <2>2. IsMade(n) /\ varIndex[n] > layer
    BY <1>1, <1>4, <2>1 DEF IsMade
  <2>3. /\ setOf[n] \subseteq Unit(varIndex[n]) /\ setOf[n] # {} /\ Cardinality(setOf[n]) # 1
        /\ varIndex[n] <= layer + 1 /\ (varIndex[n] = layer + 1 => arcs[n] = <<>>)
    BY <1>1, <1>2, <2>2 DEF Made
  <2>4. varIndex[n] = layer + 1
    BY <1>1, <1>4, <2>1, <2>3
  <2> QED
    BY <1>1, <1>4, <2>1, <2>2, <2>3, <2>4
<1>12. Found'
  <2> SUFFICES ASSUME NEW S \in DOMAIN nodeOf, NEW l \in Ahead'..Size,
                      S \subseteq Unit(l), S # {}, Cardinality(S) # 1
               PROVE  nodeOf[S] \in alive' /\ varIndex[nodeOf[S]] = l /\ setOf[nodeOf[S]] = S
    BY <1>1, <1>5 DEF Found
  <2>1. nodeOf[S] \in alive /\ varIndex[nodeOf[S]] = l /\ setOf[nodeOf[S]] = S
    BY <1>2, <1>9 DEF Found
  <2> QED
    BY <1>4, <1>9, <2>1
<1>13. AllListed'
  <2> SUFFICES ASSUME NEW l \in Layer, job.kind = "relax" \/ l >= layer + 1,
                      NEW n \in Present(l)'
               PROVE  n \in Listed(l)'
    <3>1. \A l \in Layer : l > Ahead' \/ l = Ahead' => l >= layer + 1
      BY <1>1, LayersAre
    <3> QED
      BY <1>1, <3>1 DEF AllListed
  <2>1. n \in alive /\ n \notin D /\ varIndex[n] = l /\ n \notin O
    BY <1>1 DEF Present, O
  <2>2. n \in Present(l)
    BY <1>1, <2>1 DEF Present
  <2>3. job.kind = "relax" \/ l > Ahead
    BY <1>1, LayersAre
  <2>4. n \in Listed(l)
    BY <1>2, <2>2, <2>3 DEF AllListed
  <2> QED
    BY <1>1, <2>1, <2>4
<1>14. Leads'
  BY <1>1 DEF Leads
<1>15. CutOff'
  <2> SUFFICES ASSUME NEW c \in lost, NEW n \in ToSet(c), IsChain(c)
               PROVE  n \in alive' /\ n \notin Listed(varIndex[n])' /\ n \notin ToSet(toDel')
    BY <1>1, <1>2, CutOffKept, LayersAre
  <2>1. n \in alive /\ varIndex[n] \in 1..layer /\ n \notin Listed(varIndex[n])
        /\ n \notin ToSet(toDel)
    BY DEF IsChain
  <2>2. varIndex[n] \in Layer /\ varIndex[n] # layer + 1
    BY <1>1, <2>1, LayersAre
  <2>3. n \notin D
    <3>1. n \in Listed(layer) => varIndex[n] = layer
      BY <1>1, <1>2 DEF Lists
    <3> QED
      BY <1>1, <2>1, <3>1
  <2>4. n \notin ToSet(toDel')
    BY <1>1, <2>2 DEF O
  <2> QED
    BY <1>1, <2>1, <2>2, <2>3, <2>4
<1> QED
  BY <1>3, <1>6, <1>7, <1>8, <1>10, <1>11, <1>12, <1>13, <1>14, <1>15 DEF Base

\* What is deleted leads nowhere, and what is left is as it was.
LEMMA CleaningCovered ==
  ASSUME Cleaning, Covered, Narrow, job.kind = "relax"
  PROVE  Covered' /\ Narrow'
<1> DEFINE D == ToSet(Deleted(layer))
<1>1. /\ layer \in 1..Size - 1 /\ layer \in Layer
      /\ Ahead = layer /\ Ahead' = layer + 1 /\ making = Null /\ step' = "idle" /\ step = "clean"
      /\ D = {n \in Listed(layer) : nbIn[n] = 0} \cup ToSet(toDel)
      /\ D \subseteq alive /\ \A n \in D : varIndex[n] \in 1..layer
      /\ \A l \in Layer :
              /\ Listed(l)' \subseteq Listed(l)
              /\ l # layer + 1 => Listed(l)' = Listed(l) \ D
              /\ l < layer => nodes'[l] = nodes[l]
      /\ alive' = alive \ D
      /\ \A n \in Node : arcs'[n] = IF n \in D THEN <<>> ELSE arcs[n]
      /\ UNCHANGED <<job, varIndex, layer, setOf, making>>
  BY CleaningFacts DEF Cleaning
<1>2. /\ Types /\ Linked /\ Lists /\ Base' /\ alive \subseteq Node
  BY CleaningBase DEF Cleaning, Base, Types
<1> HIDE DEF D
<1>3. ASSUME NEW n \in Node, n \notin D, Covers(n)
      PROVE  Covers(n)'
  <2>1. arcs'[n] = arcs[n] /\ setOf' = setOf /\ job' = job
    BY <1>1, <1>3
  <2> QED
    BY <1>2, <1>3, <2>1, CoversKept
<1>4. ASSUME NEW k \in 0..layer, NEW n \in Listed(k)'
      PROVE  Covers(n)'
  <2>1. k \in Layer /\ k # layer + 1 /\ (k \in 0..layer - 1 \/ k = layer)
    BY <1>1, LayersAre
  <2>2. n \in Listed(k) /\ n \notin D /\ n \in Node
    BY <1>1, <1>2, <2>1 DEF Lists
  <2>3. k \in 0..layer - 1 => Covers(n)
    BY <1>1, <2>2 DEF Covered
  <2>4. k = layer => Covers(n)
    BY <1>1, <2>2 DEF Covered
  <2> QED
    BY <1>3, <2>1, <2>2, <2>3, <2>4
<1>5. ASSUME NEW n \in Node, IsMade(n)'
      PROVE  arcs'[n] = <<>>
  BY <1>1, <1>2, <1>5 DEF Base, Made
<1>6. Covered'
  <2>1. \A k \in 0..Ahead' - 1 : \A n \in Listed(k)' : Covers(n)'
    <3>1. \A k \in 0..Ahead' - 1 : k \in 0..layer
      BY <1>1
    <3> QED
      BY <1>4, <3>1
  <2> QED
    BY <1>1, <1>5, <2>1 DEF Covered
<1>7. ASSUME NEW l \in 1..layer
      PROVE  EndsOf(l - 1)' = EndsOf(l - 1)
  <2>1. l - 1 \in Layer /\ l - 1 < layer /\ l - 1 # layer + 1
    BY <1>1, LayersAre
  <2>2. Listed(l - 1)' = Listed(l - 1) /\ Listed(l - 1)' = Listed(l - 1) \ D
    BY <1>1, <2>1 DEF Listed
  <2>3. \A n \in Listed(l - 1) : n \in Node /\ n \notin D
    BY <1>2, <2>1, <2>2 DEF Lists
  <2>4. {ToSet(arcs'[n]) : n \in Listed(l - 1)'} = {ToSet(arcs[n]) : n \in Listed(l - 1)}
    BY <1>1, <2>2, <2>3
  <2> QED
    BY <2>4 DEF EndsOf
<1>8. Narrow'
  <2>1. ASSUME NEW l \in 1..layer
        PROVE  Cardinality(EndsOf(l - 1)) <= Width
    <3>1. l \in 1..layer - 1 \/ l = layer
      BY <1>1
    <3> QED
      BY <1>1, <3>1 DEF Narrow
  <2>2. \A l \in 1..Ahead' - 1 : l \in 1..layer
    BY <1>1
  <2> QED
    BY <1>1, <1>7, <2>1, <2>2 DEF Narrow
<1> QED
  BY <1>6, <1>8

LEMMA CleanLayerRuns ==
  ASSUME Running, CleanLayer, UNCHANGED <<job, phase>>
  PROVE  Running'
<1>1. Cleaning
  BY DEF Running, CleanLayer, Cleaning
<1>2. Base' /\ job' = job
  BY <1>1, CleaningBase
<1>3. job.kind = "relax" /\ Covered /\ Narrow => Covered' /\ Narrow'
  BY <1>1, CleaningCovered
<1>4. ASSUME Backed
      PROVE  Backed'
  <2>1. /\ UNCHANGED <<job, setOf>> /\ alive' = alive \ ToSet(Deleted(layer))
        /\ \A n \in Node : arcs'[n] = IF n \in ToSet(Deleted(layer)) THEN <<>> ELSE arcs[n]
        /\ alive \subseteq Node
    BY <1>1, CleaningFacts DEF Cleaning, Base, Types
  <2>2. \A n \in alive' : n \in alive /\ arcs'[n] = arcs[n]
    BY <2>1
  <2>3. \A n : Stands(n)' = Stands(n)
    BY <2>1 DEF Stands, Unit
  <2> QED
    BY <1>4, <2>1, <2>2, <2>3 DEF Backed
<1> QED
  BY <1>2, <1>3, <1>4 DEF Running

-----------------------------------------------------------------------------
(***************************************************************************)
(* EndRestrictedNode: a node that should have arcs and has none leaves its *)
(* list, which may be cut off with it.                                      *)
(***************************************************************************)
\* What Removed leaves in the list of the layer and outside of it.
LEMMA RemovedFacts ==
  ASSUME Base, making # Null, Removed(making), UNCHANGED <<alive, varIndex, layer, toDel>>
  PROVE  /\ nodes' \in [Layer -> Seq(Node)]
         /\ \A l \in Layer : l # layer => nodes'[l] = nodes[l]
         /\ IsInjective(nodes'[layer])
         /\ \A n \in Listed(layer)' :
              n \in alive /\ varIndex[n] = layer /\ n \notin ToSet(toDel)
         /\ CutOff'
<1>1. /\ varIndex[making] = layer /\ layer \in Layer /\ layer \in 1..layer
  BY MakingStands, LayersAre
<1>2. /\ Types /\ Lists /\ Waiting /\ CutOff /\ nodes \in [Layer -> Seq(Node)]
      /\ nodes[layer] \in Seq(Node) /\ IsInjective(nodes[layer])
      /\ Listed(layer) = ToSet(nodes[layer])
  BY <1>1, ListedIs DEF Base, Types, Lists
<1>3. \A n \in Listed(layer) : n \in alive /\ varIndex[n] = layer /\ n \notin ToSet(toDel)
  BY <1>1, <1>2 DEF Lists, Waiting
<1>4. \A c \in lost : /\ IsChain(c) /\ c \in Seq(Node) /\ c # <<>> /\ IsInjective(c)
                      /\ Head(c) \in ToSet(c) /\ ToSet(c) \cap Listed(layer) = {}
  <2> SUFFICES ASSUME NEW c \in lost
               PROVE  /\ IsChain(c) /\ c \in Seq(Node) /\ c # <<>> /\ IsInjective(c)
                      /\ Head(c) \in ToSet(c) /\ ToSet(c) \cap Listed(layer) = {}
    OBVIOUS
  <2>1. IsChain(c)
    BY <1>2 DEF CutOff
  <2>2. c \in Seq(Node) /\ c # <<>> /\ IsInjective(c)
        /\ \A n \in ToSet(c) : n \notin Listed(varIndex[n])
    BY <2>1 DEF IsChain
  <2>3. ToSet(c) \cap Listed(layer) = {}
    BY <1>3, <2>2
  <2> QED
    BY <2>1, <2>2, <2>3, TailSet
<1>5. \A l : Listed(l)' = ToSet(nodes'[l])
  BY DEF Listed, ToSet
\* A list that is chained in the layer, of nodes that are not listed any more.
<1>6. ASSUME NEW c \in Seq(Node), c # <<>>, IsInjective(c),
             \A n \in ToSet(c) : n \in alive /\ varIndex[n] = layer /\ n \notin ToSet(toDel),
             ToSet(c) \cap ToSet(nodes'[layer]) = {}
      PROVE  IsChain(c)'
  <2>1. \A n \in ToSet(c) : n \notin ToSet(nodes'[varIndex'[n]])
    BY <1>5, <1>6
  <2> QED
    BY <1>1, <1>5, <1>6, <2>1 DEF IsChain
\* A chain of which nothing is listed stays one.
<1>7. ASSUME NEW c \in lost, ToSet(c) \cap ToSet(nodes'[layer]) = {},
             \A l \in Layer : l # layer => nodes'[l] = nodes[l]
      PROVE  IsChain(c)'
  <2>1. IsChain(c)
    BY <1>4
  <2>2. ASSUME NEW n \in ToSet(c)
        PROVE  n \notin ToSet(nodes'[varIndex'[n]])
    <3>1. varIndex[n] \in 1..layer /\ n \notin Listed(varIndex[n])
      BY <2>1 DEF IsChain
    <3>2. varIndex[n] \in Layer
      BY <1>1, <3>1, LayersAre
    <3>3. CASE varIndex[n] = layer
      BY <1>5, <1>7, <3>3
    <3>4. CASE varIndex[n] # layer
      BY <1>5, <1>7, <3>1, <3>2, <3>4, ListedIs
    <3> QED
      BY <3>3, <3>4
  <2> QED
    BY <1>5, <2>1, <2>2 DEF IsChain
<1> DEFINE heads == {c \in lost : Head(c) = making}
           behind == IF heads = {} THEN <<>> ELSE Tail(CHOOSE c \in heads : TRUE)
<1>8. CASE making \in Listed(layer)
  <2>1. nodes' = [nodes EXCEPT ![layer] = RemoveFirst(nodes[layer], making)] /\ lost' = lost
    BY <1>1, <1>8 DEF Removed, Without
  <2>2. /\ RemoveFirst(nodes[layer], making) \in Seq(Node)
        /\ IsInjective(RemoveFirst(nodes[layer], making))
        /\ ToSet(RemoveFirst(nodes[layer], making)) = ToSet(nodes[layer]) \ {making}
    BY <1>2, <1>8, RemoveFirstSet
  <2>3. /\ nodes' \in [Layer -> Seq(Node)]
        /\ \A l \in Layer : l # layer => nodes'[l] = nodes[l]
        /\ nodes'[layer] = RemoveFirst(nodes[layer], making)
    BY <1>1, <1>2, <2>1, <2>2
  <2>4. \A c \in lost : ToSet(c) \cap ToSet(nodes'[layer]) = {}
    BY <1>2, <1>4, <2>2, <2>3
  <2>5. CutOff'
    BY <1>2, <1>7, <2>1, <2>3, <2>4 DEF CutOff
  <2> QED
    BY <1>2, <1>3, <1>5, <2>2, <2>3, <2>5
<1>9. CASE making \notin Listed(layer) /\ \E c \in lost \ heads : making \in ToSet(c)
  <2>1. nodes' = nodes /\ lost' = {Without(c, making) : c \in lost}
    BY <1>1, <1>9 DEF Removed
  <2>2. PICK d \in lost : making \in ToSet(d) /\ Head(d) # making
    BY <1>9
  <2>3. \A c \in lost : c # d => making \notin ToSet(c) /\ Without(c, making) = c
    <3> SUFFICES ASSUME NEW c \in lost, c # d
                 PROVE  making \notin ToSet(c) /\ Without(c, making) = c
      OBVIOUS
    <3>1. making \notin ToSet(c)
      BY <1>2, <2>2 DEF CutOff
    <3>2. \A i \in 1..Len(c) : c[i] # making
      BY <1>4, <3>1 DEF ToSet
    <3> QED
      BY <3>1, <3>2 DEF Without, RemoveFirst
  <2>3a. PICK w : w = Without(d, making)
    OBVIOUS
  <2>4. /\ w \in Seq(Node) /\ IsInjective(w)
        /\ ToSet(w) = ToSet(d) \ {making}
    BY <1>4, <2>2, <2>3a, RemoveFirstSet DEF Without
  <2>5. w # <<>>
    <3>1. Head(d) \in ToSet(w)
      BY <1>4, <2>2, <2>4
    <3>2. ToSet(<<>>) = {}
      BY DEF ToSet
    <3> QED
      BY <3>1, <3>2
  <2>6. \A c \in lost : IsChain(c)'
    BY <1>2, <1>4, <1>7, <2>1
  <2>7. IsChain(w)'
    <3>1. IsChain(d)'
      BY <2>6
    <3> QED
      BY <2>4, <2>5, <3>1 DEF IsChain
  <2>8. lost' = (lost \ {d}) \cup {w}
    BY <2>1, <2>3, <2>3a
  <2>9. \A c \in lost' : IsChain(c)'
    BY <2>6, <2>7, <2>8
  <2>10. ASSUME NEW a \in lost', NEW b \in lost', a # b
         PROVE  ToSet(a) \cap ToSet(b) = {}
    <3>1. PICK c \in lost : ToSet(a) \subseteq ToSet(c) /\ (a = c \/ (a = w /\ c = d))
      BY <2>4, <2>8
    <3>2. PICK e \in lost : ToSet(b) \subseteq ToSet(e) /\ (b = e \/ (b = w /\ e = d))
      BY <2>4, <2>8
    <3>3. c # e \/ (d \in {a, b})
      BY <2>10, <3>1, <3>2
    <3>4. d \in {a, b} => w = d
      BY <2>8
    <3>5. d \notin {a, b}
      BY <2>2, <2>4, <3>4
    <3> QED
      BY <1>2, <3>1, <3>2, <3>3, <3>5 DEF CutOff
  <2> QED
    BY <1>2, <1>3, <1>5, <2>1, <2>9, <2>10 DEF CutOff
<1>10. CASE making \notin Listed(layer) /\ ~\E c \in lost \ heads : making \in ToSet(c)
  <2>1. /\ nodes' = [nodes EXCEPT ![layer] = behind]
        /\ lost' = (lost \ heads) \cup ({nodes[layer]} \ {<<>>})
    BY <1>1, <1>10 DEF Removed
  <2>2. /\ behind \in Seq(Node) /\ IsInjective(behind)
        /\ \A n \in ToSet(behind) : n \in alive /\ varIndex[n] = layer /\ n \notin ToSet(toDel)
        /\ ToSet(behind) \cap Listed(layer) = {}
        /\ \A c \in lost \ heads : ToSet(c) \cap ToSet(behind) = {}
    <3>1. CASE heads = {}
      <4>1. behind = <<>> /\ ToSet(<<>>) = {} /\ <<>> \in Seq(Node)
        BY <3>1 DEF ToSet
      <4>2. IsInjective(<<>>)
        BY DEF IsInjective
      <4> QED
        BY <4>1, <4>2
    <3>2. CASE heads # {}
      <4> DEFINE c == CHOOSE c \in heads : TRUE
      <4>1. c \in heads /\ behind = Tail(c)
        BY <3>2
      <4> HIDE DEF c, behind
      <4>2. c \in lost /\ Head(c) = making
        BY <4>1
      <4> HIDE DEF heads
      <4>3. /\ IsChain(c) /\ c \in Seq(Node) /\ c # <<>> /\ IsInjective(c)
            /\ making \in ToSet(c) /\ ToSet(c) \cap Listed(layer) = {}
        BY <1>4, <4>2
      <4>4. Tail(c) \in Seq(Node) /\ ToSet(Tail(c)) \subseteq ToSet(c)
        BY <4>3, TailSet
      <4>5. IsInjective(Tail(c))
        BY <4>3 DEF IsInjective
      <4>6. \A n \in ToSet(c) : n \in alive /\ varIndex[n] = layer /\ n \notin ToSet(toDel)
        BY <1>1, <4>3 DEF IsChain
      <4>7. \A d \in lost \ heads : ToSet(c) \cap ToSet(d) = {}
        BY <1>2, <4>1, <4>2 DEF CutOff
      <4> QED
        BY <4>1, <4>3, <4>4, <4>5, <4>6, <4>7
    <3> QED
      BY <3>1, <3>2
  <2> HIDE DEF heads, behind
  <2>3. /\ nodes' \in [Layer -> Seq(Node)] /\ nodes'[layer] = behind
        /\ \A l \in Layer : l # layer => nodes'[l] = nodes[l]
    BY <1>1, <1>2, <2>1, <2>2
  <2>4. \A c \in lost \ heads : IsChain(c)'
    BY <1>7, <2>2, <2>3
  <2>5. ASSUME NEW c, c = nodes[layer], c # <<>>
        PROVE  IsChain(c)'
    <3>1. ToSet(c) = Listed(layer)
      BY <1>2, <2>5
    <3> QED
      BY <1>2, <1>3, <1>6, <2>2, <2>3, <2>5, <3>1
  <2>6. \A c \in lost' : IsChain(c)'
    BY <2>1, <2>4, <2>5
  <2>7. \A c, d \in lost' : c # d => ToSet(c) \cap ToSet(d) = {}
    BY <1>2, <1>4, <2>1 DEF CutOff
  <2> QED
    BY <1>5, <2>2, <2>3, <2>6, <2>7 DEF CutOff
<1> QED
  BY <1>8, <1>9, <1>10

LEMMA EndRestrictedNodeRuns ==
  ASSUME Running, job.kind = "restrict", EndRestrictedNode, UNCHANGED <<job, phase>>
  PROVE  Running'
<1>1. /\ Base /\ Backed /\ Building /\ making # Null /\ ArcsLeft = {} /\ making' = Null
      /\ UNCHANGED <<alive, varIndex, arcs, nbIn, newV, free, step, layer, setOf, nodeOf,
                     parts, newNodes, label, toDel, cleans>>
      /\ job' = job /\ phase' = phase
      /\ \/ UNCHANGED <<nodes, lost>> /\ todo' = Tail(todo)
         \/ Removed(making) /\ todo' \in {<<>>, Tail(todo)}
  BY DEF Running, EndRestrictedNode, sets
<1>2. CASE UNCHANGED <<nodes, lost>> /\ todo' = Tail(todo)
  <2>1. Still
    BY <1>1, <1>2 DEF Still, mddVars, sets
  <2> QED
    BY <1>1, <1>2, <2>1, EndNodeRuns
<1>3. CASE Removed(making) /\ todo' \in {<<>>, Tail(todo)}
  <2>1. /\ Types /\ Cursors /\ Counted /\ Linked /\ Lists /\ Waiting /\ Originals /\ Made
        /\ Found /\ AllListed /\ Leads /\ CutOff
    BY <1>1 DEF Base
  <2>2. /\ todo \in Seq(Node) /\ todo # <<>> /\ layer \in 1..Size - 1 /\ Ahead = layer
        /\ varIndex[making] = layer /\ layer \in Layer
    BY <1>1, MakingStands, LayersAre
  <2>3. Ahead' = Ahead /\ Ahead \in Int
    BY <1>1, <2>2 DEF Ahead
  <2>4. \A l : Unit(l)' = Unit(l) /\ Present(l)' = Present(l)
    BY <1>1 DEF Unit, Present
  <2>5. /\ nodes' \in [Layer -> Seq(Node)]
        /\ \A l \in Layer : l # layer => nodes'[l] = nodes[l]
        /\ IsInjective(nodes'[layer])
        /\ \A n \in Listed(layer)' :
             n \in alive /\ varIndex[n] = layer /\ n \notin ToSet(toDel)
        /\ CutOff'
    BY <1>1, <1>3, RemovedFacts
  <2>6. Listed(layer)' = ToSet(nodes'[layer]) /\ \A l \in Layer : l # layer => Listed(l)' = Listed(l)
    <3>1. \A l : Listed(l)' = ToSet(nodes'[l])
      BY DEF Listed, ToSet
    <3>2. layer' = layer
      BY <1>1
    <3> QED
      BY <2>5, <3>1, <3>2, ListedIs
  <2>8. Cursors'
    <3>1. todo' \in Seq(Node) /\ ToSet(todo') \subseteq ToSet(todo)
      <4>1. <<>> \in Seq(Node) /\ ToSet(<<>>) = {}
        BY DEF ToSet
      <4> QED
        BY <1>3, <2>2, <4>1, TailSet
    <3> QED
      BY <1>1, <2>1, <2>4, <3>1 DEF Cursors, Building
  <2>9. Types'
    BY <1>1, <2>1, <2>5 DEF Types
  <2>10. Counted' /\ Linked'
    BY <1>1, <2>1 DEF Counted, Linked, ArcsInto
  <2>11. Lists'
    <3>2. \A l \in Layer : \A n \in Listed(l)' : n \in alive /\ varIndex[n] = l
      BY <1>1, <2>1, <2>5, <2>6 DEF Lists
    <3>3. nodes'[0] = job.nodes[0]
      <4>1. 0 \in Layer /\ 0 # layer /\ nodes[0] = job.nodes[0]
        BY <2>1, <2>2, LayersAre DEF Lists
      <4> QED
        BY <2>5, <4>1
    <3>4. \A l \in Layer : IsInjective(nodes'[l])
      BY <2>1, <2>5 DEF Lists
    <3> QED
      BY <1>1, <3>2, <3>3, <3>4 DEF Lists
  <2>12. Waiting'
    <3> SUFFICES ASSUME NEW n \in ToSet(toDel)
                 PROVE  n \notin Listed(varIndex[n])'
      BY <1>1, <2>1, <2>3, <2>4 DEF Waiting
    <3>1. varIndex[n] \in 1..layer /\ n \notin Listed(varIndex[n])
      BY <2>1, <2>2 DEF Waiting
    <3>2. n \notin Listed(layer)'
      BY <2>5
    <3>3. varIndex[n] \in Layer
      BY <2>2, <3>1, LayersAre
    <3> QED
      <4>1. varIndex' = varIndex /\ layer' = layer
        BY <1>1
      <4>2. CASE varIndex[n] = layer
        BY <2>5, <2>6, <3>2, <4>1, <4>2
      <4>3. CASE varIndex[n] # layer
        BY <2>6, <3>1, <3>3, <4>1, <4>3
      <4> QED
        BY <4>2, <4>3
  <2>13. Originals' /\ Found'
    BY <1>1, <2>1, <2>3, <2>4 DEF Originals, Found
  <2>14. Made'
    BY <1>1, <2>1, <2>3, <2>4 DEF Made, IsMade
  <2>15. AllListed'
    <3>1. step \notin {"idle", "part"}
      BY <1>1 DEF Building
    <3>2. ASSUME NEW l \in Layer, l > layer
          PROVE  Present(l) \subseteq Listed(l)'
      <4>1. l # layer
        BY <2>2, <3>2
      <4> QED
        BY <2>1, <2>2, <2>6, <3>2, <4>1 DEF AllListed
    <3> QED
      BY <1>1, <2>2, <2>3, <2>4, <3>1, <3>2 DEF AllListed
  <2>16. Leads'
    <3>1. \A n : Fresh(n)' <=> Fresh(n)
      BY <1>1 DEF Fresh, NodeFor, Units
    <3> QED
      BY <1>1, <2>1, <2>4, <3>1 DEF Leads
  <2>18. Backed'
    BY <1>1, <2>4 DEF Backed, Stands
  <2> QED
    BY <1>1, <2>5, <2>8, <2>9, <2>10, <2>11, <2>12, <2>13, <2>14, <2>15, <2>16, <2>18
       DEF Running, Base
<1> QED
  BY <1>1, <1>2, <1>3

-----------------------------------------------------------------------------
(***************************************************************************)
(* The given diagram, before and after the constructor of the reducer.    *)
(***************************************************************************)
LEMMA ChunkFacts ==
  ASSUME NEW N, N \subseteq Node
  PROVE  Chunk(N) \in Seq(Node) /\ IsInjective(Chunk(N)) /\ ToSet(Chunk(N)) = N
<1> DEFINE c == Cardinality(Node)
           s == [i \in 1..c |-> i]
<1>1. c \in Nat /\ Node = 1..c
  BY NodesAreNumbered, FS_CardinalityType
<1>2. s \in Seq(Node) /\ IsInjective(s) /\ ToSet(s) = Node
  <2>1. s \in [1..c -> Node] /\ DOMAIN s = 1..c
    BY <1>1
  <2>2. s \in Seq(Node)
    BY <1>1, <2>1
  <2> QED
    BY <1>1, <2>1, <2>2 DEF IsInjective, ToSet
<1>3. Chunk(N) = Among(s, N)
  BY DEF Chunk
<1> HIDE DEF s
<1>4. Among(s, N) \in Seq(Node) /\ IsInjective(Among(s, N)) /\ ToSet(Among(s, N)) = ToSet(s) \cap N
  BY <1>2, AmongFacts
<1> QED
  BY <1>2, <1>3, <1>4

LEMMA GivenFacts ==
  ASSUME GivenInit
  PROVE  /\ Types /\ Linked /\ Counted /\ Lists
         /\ \A l \in Layer : Listed(l) = Unit(l)
         /\ \A n \in alive : varIndex[n] \in Layer /\ n \in Unit(varIndex[n])
         /\ arcs = job.arcs /\ setOf = [n \in Node |-> {}]
<1>1. /\ job \in DiagramJobs /\ nodes = job.nodes /\ arcs = job.arcs
      /\ alive = UNION {Listed(l) : l \in Layer}
      /\ varIndex = [n \in Node |-> IF n \in alive
                                    THEN CHOOSE l \in Layer : n \in Listed(l) ELSE 0]
      /\ nbIn = [n \in Node |-> Cardinality(ArcsInto(n, alive))]
      /\ newV = [n \in Node |-> n] /\ free = Chunk(Node \ alive)
      /\ layer = 0 /\ setOf = [n \in Node |-> {}] /\ cleans = TRUE
  BY DEF GivenInit, NoReducer
<1>2. IsDiagram(job)
  BY <1>1, GivenAreDiagrams
<1>3. /\ job.nodes \in [Layer -> Seq(Node)] /\ job.arcs \in [Node -> Seq(Arc)]
      /\ \A l \in Layer : IsInjective(job.nodes[l])
      /\ \A l, k \in Layer : l # k => Unit(l) \cap Unit(k) = {}
      /\ \A n \in Node : \A i \in DOMAIN job.arcs[n] :
           \E l \in 0..Size - 1 : n \in Unit(l) /\ job.arcs[n][i].end \in Unit(l + 1)
  BY <1>2 DEF IsDiagram, Unit
<1>4. \A l \in Layer : Listed(l) = Unit(l) /\ Unit(l) \subseteq Node
  BY <1>1, <1>3, ListedIs DEF Unit, ToSet
<1>5. alive \subseteq Node
  BY <1>1, <1>4
<1>6. ASSUME NEW l \in Layer, NEW n \in Unit(l)
      PROVE  n \in alive /\ n \in Node /\ varIndex[n] = l
  <2>1. n \in alive /\ n \in Node /\ n \in Listed(l)
    BY <1>1, <1>4
  <2>2. \A k \in Layer : n \in Listed(k) => k = l
    BY <1>3, <1>4
  <2>3. varIndex[n] = CHOOSE k \in Layer : n \in Listed(k)
    BY <1>1, <2>1
  <2> QED
    BY <2>1, <2>2, <2>3
<1>7. \A n \in alive : varIndex[n] \in Layer /\ n \in Unit(varIndex[n])
  <2> SUFFICES ASSUME NEW n \in alive
               PROVE  varIndex[n] \in Layer /\ n \in Unit(varIndex[n])
    OBVIOUS
  <2>1. PICK l \in Layer : n \in Unit(l)
    BY <1>1, <1>4
  <2> QED
    BY <1>6, <2>1
<1>8. varIndex \in [Node -> Layer]
  <2>1. 0 \in Layer
    BY LayersAre
  <2>2. \A n \in Node : varIndex[n] \in Layer
    BY <1>1, <1>7, <2>1
  <2>3. varIndex = [n \in Node |-> varIndex[n]]
    BY <1>1
  <2> QED
    BY <2>2, <2>3
<1>9. nbIn \in [Node -> Int] /\ Counted
  <2>1. \A m \in Node : Cardinality(ArcsInto(m, alive)) \in Nat
    <3> SUFFICES ASSUME NEW m \in Node
                 PROVE  Cardinality(ArcsInto(m, alive)) \in Nat
      OBVIOUS
    <3> DEFINE d == [n \in alive |-> DOMAIN arcs[n]]
               U == UNION {{<<n, i>> : i \in d[n]} : n \in alive}
    <3>1. ArcsInto(m, alive) \subseteq U
      BY DEF ArcsInto
    <3>2. \A n \in alive : d[n] = DOMAIN arcs[n]
      OBVIOUS
    <3> HIDE DEF d
    <3>3. \A n \in alive : IsFiniteSet(d[n])
      <4> SUFFICES ASSUME NEW n \in alive
                   PROVE  IsFiniteSet(DOMAIN arcs[n])
        BY <3>2
      <4>1. arcs[n] \in Seq(Arc)
        BY <1>1, <1>3, <1>5
      <4>2. DOMAIN arcs[n] = 1..Len(arcs[n]) /\ Len(arcs[n]) \in Int
        BY <4>1
      <4> QED
        BY <4>2, FS_Interval
    <3>4. IsFiniteSet(alive)
      BY <1>5, NodeIsFinite
    <3>5. IsFiniteSet(U)
      BY <3>3, <3>4, PairsFinite
    <3> HIDE DEF U
    <3> QED
      BY <3>1, <3>5, FS_Subset, FS_CardinalityType
  <2> QED
    BY <1>1, <1>5, <2>1 DEF Counted
<1>10. free \in Seq(Node) /\ IsInjective(free) /\ ToSet(free) = Node \ alive
  BY <1>1, ChunkFacts
<1>11. Types
  <2>1. layer \in 0..Size - 1
    BY <1>1, LayersAre
  <2>2. newV \in [Node -> Node] /\ setOf \in [Node -> SUBSET Node]
    BY <1>1
  <2>3. \A S \in DOMAIN nodeOf : nodeOf[S] \in Node
    BY DEF GivenInit, NoReducer
  <2> QED
    BY <1>1, <1>3, <1>5, <1>8, <1>9, <1>10, <2>1, <2>2, <2>3 DEF Types
<1>12. Linked
  <2> SUFFICES ASSUME NEW n \in Node, NEW i \in DOMAIN arcs[n]
               PROVE  /\ n \in alive /\ arcs[n][i].end \in alive
                      /\ varIndex[arcs[n][i].end] = varIndex[n] + 1
    BY DEF Linked
  <2>1. PICK l \in 0..Size - 1 : n \in Unit(l) /\ arcs[n][i].end \in Unit(l + 1)
    BY <1>1, <1>3
  <2>2. l \in Layer /\ l + 1 \in Layer
    BY LayersAre
  <2> QED
    BY <1>6, <2>1, <2>2
<1>13. Lists
  <2>1. \A l \in Layer : \A n \in Listed(l) : n \in alive /\ varIndex[n] = l
    BY <1>4, <1>6
  <2>2. \A l \in Layer : IsInjective(nodes[l])
    BY <1>1, <1>3
  <2>3. nodes[0] = job.nodes[0]
    BY <1>1
  <2> QED
    BY <2>1, <2>2, <2>3 DEF Lists
<1> QED
  BY <1>1, <1>4, <1>7, <1>9, <1>11, <1>12, <1>13

LEMMA ConstructRuns ==
  ASSUME GivenInit, GivenConstruct
  PROVE  Running' /\ phase' = "loop"
<1>1. /\ Types /\ Linked /\ Counted /\ Lists
      /\ \A l \in Layer : Listed(l) = Unit(l)
      /\ \A n \in alive : varIndex[n] \in Layer /\ n \in Unit(varIndex[n])
      /\ arcs = job.arcs
  BY GivenFacts
<1>2. /\ step = "idle" /\ layer = 0 /\ parts = <<>> /\ newNodes = <<>> /\ todo = <<>>
      /\ making = Null /\ label = 0 /\ lost = {} /\ job \in DiagramJobs
  BY DEF GivenInit, NoReducer
<1> DEFINE units == UNION {Listed(l) : l \in 1..Size}
<1>3. /\ setOf' = [n \in Node |-> IF n \in units THEN {n} ELSE {}]
      /\ nodeOf' = [S \in {{n} : n \in units} |-> CHOOSE n \in units : S = {n}]
      /\ toDel' = <<>>
      /\ UNCHANGED <<job, nodes, alive, varIndex, arcs, nbIn, newV, free, step, layer, parts,
                     newNodes, todo, making, label, cleans, lost>>
      /\ phase' = "loop"
  BY DEF GivenConstruct, Construct, mddVars, cursors
<1>4. Ahead' = 1 /\ \A l \in 1..Size : l \in Layer
  BY <1>2, <1>3, LayersAre DEF Ahead
<1>5. \A l \in 1..Size : \A u \in Unit(l) : u \in units /\ u \in Node /\ setOf'[u] = {u}
  <2>1. \A l \in 1..Size : \A u \in Unit(l) : u \in units /\ u \in Node
    BY <1>1, <1>2, <1>4, JobFacts
  <2> HIDE DEF units
  <2> QED
    BY <1>3, <2>1
<1>6. \A n \in Node : setOf'[n] \subseteq {n}
  BY <1>3
<1>7. \A S \in DOMAIN nodeOf' : Cardinality(S) = 1
  <2>1. \A S \in DOMAIN nodeOf' : \E n : S = {n}
    BY <1>3
  <2> QED
    BY <2>1, FS_Singleton
\* The node of a set of one is its member.
<1>7a. \A S \in DOMAIN nodeOf' : nodeOf'[S] \in Node
  <2>1. \A n \in units : n \in Node
    BY <1>1, <1>4, <1>2, JobFacts
  <2> HIDE DEF units
  <2> SUFFICES ASSUME NEW n \in units
               PROVE  (CHOOSE m \in units : {n} = {m}) \in Node
    BY <1>3
  <2>2. \E m \in units : {n} = {m}
    OBVIOUS
  <2> QED
    BY <2>1, <2>2
<1> HIDE DEF units
<1>8. /\ \A l : Unit(l)' = Unit(l) /\ Listed(l)' = Listed(l)
      /\ \A l : Present(l)' = {n \in alive : varIndex[n] = l}
  <2>1. ToSet(<<>>) = {}
    BY DEF ToSet
  <2> QED
    BY <1>3, <2>1 DEF Unit, Listed, Present
<1>9. Types' /\ Linked' /\ Counted' /\ Lists'
  <2>1. Types'
    <3>1. setOf' \in [Node -> SUBSET Node]
      BY <1>3
    <3> QED
      BY <1>1, <1>3, <1>7a, <3>1 DEF Types
  <2>2. Linked' /\ Lists'
    BY <1>1, <1>3, <1>8 DEF Linked, Lists
  <2>3. Counted'
    <3>1. \A m : ArcsInto(m, alive)' = ArcsInto(m, alive)
      BY <1>3 DEF ArcsInto
    <3> QED
      BY <1>1, <1>3, <3>1 DEF Counted
  <2> QED
    BY <2>1, <2>2, <2>3
<1>10. Cursors'
  <2>1. <<>> \in Seq(Node) /\ <<>> \in Seq(SUBSET Node) /\ 0 \in Nat
    OBVIOUS
  <2> QED
    BY <1>2, <1>3, <2>1 DEF Cursors, Building
<1>11. Waiting' /\ CutOff'
  <2>1. <<>> \in Seq(Node) /\ IsInjective(<<>>) /\ ToSet(<<>>) = {}
    BY DEF ToSet, IsInjective
  <2> QED
    BY <1>2, <1>3, <2>1 DEF Waiting, CutOff
<1>12. Originals'
  <2>1. \A l \in 1..Size : \A u \in Unit(l) : u \in alive /\ varIndex[u] = l
    BY <1>1, <1>4 DEF Lists
  <2> QED
    BY <1>1, <1>3, <1>4, <1>5, <1>8, <2>1 DEF Originals
<1>13. \A n \in Node : ~IsMade(n)'
  BY <1>1, <1>3, <1>8 DEF IsMade
<1>14. Made'
  BY <1>13 DEF Made
<1>15. Found'
  BY <1>7 DEF Found
<1>16. AllListed'
  BY <1>1, <1>3, <1>8 DEF AllListed
<1>17. Leads'
  BY <1>2, <1>3 DEF Leads
<1>18. Base'
  BY <1>9, <1>10, <1>11, <1>12, <1>14, <1>15, <1>16, <1>17 DEF Base
\* Every node stands for itself.
<1>19. ASSUME NEW n \in Node
       PROVE  Stands(n)' \subseteq {n}
  BY <1>6, <1>8 DEF Stands
<1>20. ASSUME NEW n \in Node, NEW a \in ToSet(arcs[n])
       PROVE  a.end \in setOf'[a.end]
  <2>1. n \in alive /\ a.end \in alive /\ varIndex[a.end] = varIndex[n] + 1
    BY <1>1, ArcsOf
  <2>2. varIndex[a.end] \in Layer /\ a.end \in Unit(varIndex[a.end]) /\ varIndex[n] \in Layer
    BY <1>1, <2>1
  <2>3. varIndex[a.end] \in 1..Size
    BY <2>1, <2>2, LayersAre
  <2> QED
    BY <1>5, <2>2, <2>3
<1>21. \A n \in Node : Covers(n)'
  <2> SUFFICES ASSUME NEW n \in Node, NEW u \in Stands(n)', NEW a \in ToSet(job.arcs[u])
               PROVE  \E b \in ToSet(arcs'[n]) : b.value = a.value /\ a.end \in setOf'[b.end]
    BY <1>3 DEF Covers
  <2>1. u = n /\ a \in ToSet(arcs[n]) /\ arcs' = arcs
    BY <1>1, <1>3, <1>19
  <2> QED
    BY <1>20, <2>1
<1>22. Covered' /\ Narrow'
  <2>1. \A k \in 0..Ahead' - 1 : k \in Layer /\ Listed(k)' \subseteq Node
    <3>1. \A k \in 0..Ahead' - 1 : k \in Layer
      BY <1>4, LayersAre
    <3> QED
      BY <1>9, <3>1 DEF Lists, Types
  <2>2. \A k \in 0..Ahead' - 1 : \A n \in Listed(k)' : Covers(n)'
    BY <1>21, <2>1
  <2>3. 1..Ahead' - 1 = {}
    BY <1>4
  <2> QED
    BY <1>2, <1>3, <1>13, <2>2, <2>3 DEF Covered, Narrow
<1>23. Backed'
  <2> SUFFICES ASSUME NEW n \in alive, NEW b \in ToSet(arcs[n]), NEW u \in Stands(n)'
               PROVE  \E a \in ToSet(job.arcs[u]) : a.value = b.value /\ a.end \in setOf'[b.end]
    BY <1>3 DEF Backed
  <2>1. n \in Node
    BY <1>1 DEF Types
  <2>2. u = n
    BY <1>19, <2>1
  <2> QED
    BY <1>1, <1>20, <2>1, <2>2
<1> QED
  BY <1>3, <1>18, <1>22, <1>23 DEF Running

-----------------------------------------------------------------------------
(***************************************************************************)
(* Every step of a call keeps the invariant.                               *)
(***************************************************************************)
LEMMA UnchangedRuns ==
  ASSUME Running, UNCHANGED <<job, mddVars, relaxVars>>
  PROVE  Running'
<1>1. /\ UNCHANGED <<job, nodes, alive, varIndex, arcs, nbIn, newV, free, step, layer, setOf,
                     nodeOf, parts, newNodes, todo, making, label, toDel, cleans, lost>>
      /\ Still
  BY DEF mddVars, relaxVars, sets, cursors, Still
<1>2. Base /\ Ahead' = Ahead /\ Ahead \in Int
  BY <1>1, LayersAre DEF Running, Base, Types, Ahead
<1>3. /\ Types' /\ Counted' /\ Linked' /\ Lists' /\ Waiting' /\ Originals' /\ Found' /\ CutOff'
      /\ Backed => Backed'
      /\ \A n : Covers(n)' <=> Covers(n)
      /\ \A n, u, v : CoversBelow(n, u, v)' <=> CoversBelow(n, u, v)
      /\ \A l : /\ Unit(l)' = Unit(l) /\ Listed(l)' = Listed(l) /\ Present(l)' = Present(l)
                /\ EndsOf(l)' = EndsOf(l)
  BY <1>1, <1>2, StillKeeps
<1>4. Cursors'
  BY <1>1, <1>2, <1>3 DEF Base, Cursors, Building
<1>5. \A n : IsMade(n)' <=> IsMade(n)
  BY <1>1, <1>2, <1>3 DEF IsMade
<1>6. Made' /\ AllListed'
  BY <1>1, <1>2, <1>3, <1>5 DEF Base, Made, AllListed
<1>7. Leads'
  <2>1. \A n : Fresh(n)' <=> Fresh(n)
    BY <1>1 DEF Fresh, NodeFor, Units
  <2> QED
    BY <1>1, <1>2, <1>3, <2>1 DEF Base, Leads
<1>8. Covered => Covered'
  <2> SUFFICES ASSUME Covered
               PROVE  Covered'
    OBVIOUS
  <2>1. \A k \in 0..Ahead' - 1 : \A n \in Listed(k)' : Covers(n)'
    BY <1>2, <1>3 DEF Covered
  <2>2. \A n \in Node : IsMade(n)' /\ n # making' => arcs'[n] = <<>> \/ Covers(n)'
    BY <1>1, <1>3, <1>5 DEF Covered
  <2>3. making' # Null => \A u \in setOf'[making'] : CoversBelow(making, u, label)'
    BY <1>1, <1>3 DEF Covered
  <2>4. step' \in {"build", "above"} => \A n \in ToSet(newNodes') : n \in ToSet(todo') \/ Covers(n)'
    BY <1>1, <1>3 DEF Covered
  <2>5. step' = "fill" => \A n \in Listed(layer)' : n \in ToSet(todo') \/ Covers(n)'
    BY <1>1, <1>3 DEF Covered
  <2>6. step' = "clean" => \A n \in Listed(layer)' : nbIn'[n] = 0 \/ Covers(n)'
    BY <1>1, <1>3 DEF Covered
  <2> QED
    BY <2>1, <2>2, <2>3, <2>4, <2>5, <2>6 DEF Covered
<1>9. Narrow => Narrow'
  BY <1>1, <1>2, <1>3 DEF Narrow
<1> QED
  BY <1>1, <1>3, <1>4, <1>6, <1>7, <1>8, <1>9, <1>2 DEF Running, Base

LEMMA EndNodeOfUnions ==
  ASSUME Running, EndNode, UNCHANGED <<job, phase>>
  PROVE  Running'
<1>1. /\ Building /\ making # Null /\ ArcsLeft = {} /\ making' = Null /\ todo' = Tail(todo)
      /\ UNCHANGED <<phase, step, parts, newNodes, label>> /\ Still
  BY DEF EndNode, Still
<1> QED
  BY <1>1, EndNodeRuns

LEMMA GivenStepRuns ==
  ASSUME Running, NotRevived, GivenStep
  PROVE  Running' /\ phase' = "loop"
<1>1. /\ UNCHANGED <<job, phase>> /\ phase = "loop"
      /\ job.kind \in {"relax", "restrict"}
  BY JobFacts DEF GivenStep, dpVars, Running, Base, Types
<1>2. CASE job.kind = "restrict"
  <2>1. \/ NamePart \/ LeadPart \/ EndParts \/ NameEnds \/ (AddUnionArc /\ AllHave)
        \/ SkipLabel \/ EndRestrictedNode \/ BeginNode \/ EndBuild \/ UpdateAbove \/ CleanLayer
    BY <1>2 DEF GivenStep, RestrictedReducing, RestrictedNamePart, RestrictedLeadPart,
                RestrictedNameEnds, AddCommonArc, RestrictedUpdateAbove, RestrictedCleanLayer
  <2>2. CASE NamePart
    BY <1>1, <2>2, NamePartRuns
  <2>3. CASE LeadPart
    BY <1>1, <2>3, LeadPartRuns
  <2>4. CASE EndParts
    BY <1>1, <2>4, EndPartsRuns
  <2>5. CASE NameEnds
    BY <1>1, <2>5, NameEndsRuns
  <2>6. CASE AddUnionArc /\ AllHave
    BY <1>1, <2>6, AddUnionArcRuns
  <2>7. CASE SkipLabel
    BY <1>1, <1>2, <2>7, SkipLabelRuns
  <2>8. CASE EndRestrictedNode
    BY <1>1, <1>2, <2>8, EndRestrictedNodeRuns
  <2>9. CASE BeginNode
    BY <1>1, <2>9, BeginNodeRuns
  <2>10. CASE EndBuild
    BY <1>1, <2>10, EndBuildRuns
  <2>11. CASE UpdateAbove
    BY <1>1, <2>11, UpdateAboveRuns
  <2>12. CASE CleanLayer
    BY <1>1, <2>12, CleanLayerRuns
  <2> QED
    BY <1>1, <2>1, <2>2, <2>3, <2>4, <2>5, <2>6, <2>7, <2>8, <2>9, <2>10, <2>11, <2>12
<1>3. CASE job.kind = "relax"
  <2>1. \/ NamePart \/ LeadPart \/ EndParts \/ BeginNode \/ NameEnds \/ EndBuild
        \/ UpdateAbove \/ CleanLayer \/ AddUnionArc \/ EndNode
    BY <1>3 DEF GivenStep, Reducing, Common
  <2>2. CASE NamePart
    BY <1>1, <2>2, NamePartRuns
  <2>3. CASE LeadPart
    BY <1>1, <2>3, LeadPartRuns
  <2>4. CASE EndParts
    BY <1>1, <2>4, EndPartsRuns
  <2>5. CASE BeginNode
    BY <1>1, <2>5, BeginNodeRuns
  <2>6. CASE NameEnds
    BY <1>1, <2>6, NameEndsRuns
  <2>7. CASE EndBuild
    BY <1>1, <2>7, EndBuildRuns
  <2>8. CASE UpdateAbove
    BY <1>1, <2>8, UpdateAboveRuns
  <2>9. CASE CleanLayer
    BY <1>1, <2>9, CleanLayerRuns
  <2>10. CASE AddUnionArc
    BY <1>1, <1>3, <2>10, AddUnionArcRuns
  <2>11. CASE EndNode
    BY <1>1, <2>11, EndNodeOfUnions
  <2> QED
    BY <1>1, <2>1, <2>2, <2>3, <2>4, <2>5, <2>6, <2>7, <2>8, <2>9, <2>10, <2>11
<1> QED
  BY <1>1, <1>2, <1>3

LEMMA NextKeeps ==
  ASSUME IInv, NotRevived, [Next]_vars
  PROVE  IInv'
<1>1. phase \in {"given", "loop", "done"}
  BY DEF IInv
<1>2. ~DPNext
  BY <1>1 DEF DPNext, OpenSubTree, NameState, NextValue, NextSubTree, EndSubTrees, NextLevel,
              RebuildState, Reduces, ReducerStep, Returned, CleanLast
<1>3. CASE GivenConstruct
  <2>1. GivenInit
    BY <1>3 DEF IInv, GivenConstruct
  <2>2. Running' /\ phase' = "loop"
    BY <1>3, <2>1, ConstructRuns
  <2> QED
    BY <2>2 DEF IInv
<1>4. CASE NextLayer
  <2>1. Running /\ phase = "loop" /\ step = "idle" /\ layer \in 0..Size - 1
    BY <1>4 DEF IInv, NextLayer, Running, Base, Types
  <2>2. CASE layer + 1 < Size
    <3>1. Running' /\ phase' = "loop"
      BY <1>4, <2>1, <2>2, NextLayerRuns DEF NextLayer
    <3> QED
      BY <3>1 DEF IInv
  <2>3. CASE ~(layer + 1 < Size)
    <3>1. phase' = "done" /\ UNCHANGED <<job, mddVars, relaxVars>>
      BY <1>4, <2>3 DEF NextLayer
    <3>2. Running'
      BY <2>1, <3>1, UnchangedRuns
    <3>3. layer + 1 = Size /\ layer' = layer /\ step' = "idle"
      BY <2>1, <2>3, <3>1, LayersAre DEF relaxVars
    <3> QED
      BY <3>1, <3>2, <3>3 DEF IInv
  <2> QED
    BY <2>2, <2>3
<1>5. CASE GivenStep
  <2>1. Running
    BY <1>5 DEF IInv, GivenStep
  <2>2. Running' /\ phase' = "loop"
    BY <1>5, <2>1, GivenStepRuns
  <2> QED
    BY <2>2 DEF IInv
<1>6. CASE UNCHANGED vars
  <2>1. UNCHANGED <<job, mddVars, relaxVars, phase>>
    BY <1>6 DEF vars, dpVars
  <2>2. CASE phase = "given"
    <3>1. GivenInit
      BY <2>2 DEF IInv
    <3>2. GivenInit'
      BY <1>6, <3>1 DEF GivenInit, vars, mddVars, relaxVars, dpVars, sets, cursors, NoReducer,
                        Listed, ArcsInto
    <3> QED
      BY <2>1, <2>2, <3>2 DEF IInv
  <2>3. CASE phase # "given"
    <3>1. Running
      BY <2>3 DEF IInv
    <3>2. Running'
      BY <2>1, <3>1, UnchangedRuns
    <3>3. phase' = phase /\ step' = step /\ layer' = layer
      BY <2>1 DEF relaxVars
    <3> QED
      BY <1>1, <2>3, <3>2, <3>3 DEF IInv
  <2> QED
    BY <2>2, <2>3
<1> QED
  BY <1>2, <1>3, <1>4, <1>5, <1>6 DEF Next, Done

-----------------------------------------------------------------------------
(***************************************************************************)
(* Why no part is given a node that waits for its deletion, when the given*)
(* diagram is steady: only given nodes wait.                               *)
(***************************************************************************)
\* No node is made for a layer to come where all the sets of ends are single nodes,
NoneMade ==
  \A n \in Node : IsMade(n) /\ Determined(job, varIndex[n]) =>
    varIndex[n] = Ahead /\ step \notin {"idle", "fill"}

\* and none that was made waits.
NoneWaits == \A n \in ToSet(toDel) : ~IsMade(n)

\* The arcs of the root are the given ones until those into the first layer are led on.
RootIsGiven ==
  Ahead = 1 /\ step # "clean" => \A r \in Unit(0) : arcs[r] = job.arcs[r]

\* An arc of a new node leads to m, or the next one will.
LedTo(m) == \E q \in ToSet(newNodes) : \E a \in ToSet(arcs[q]) : a.end = m

Named(m) ==
  /\ making # Null /\ ArcsLeft # {} /\ m = NodeFor(Ends)
  /\ job.kind = "restrict" => AllHave

Children ==
  /\ step \in {"build", "above", "clean"} =>
       \A m \in Node : IsMade(m) /\ varIndex[m] = layer + 1 => LedTo(m) \/ Named(m)
  /\ step = "build" => ToSet(todo) \subseteq ToSet(newNodes)

\* Where the parts are made of given nodes, each of them is entered from above.
Grounded(l) == Determined(job, l) /\ (job.kind = "relax" \/ l = 1)

Entered == step = "clean" /\ Grounded(layer) => \A q \in ToSet(newNodes) : nbIn[q] # 0

\* Then a new node is led to itself, and so is a given node.
Leading(q) ==
  /\ newV[q] = q
  /\ \A i \in DOMAIN parts : q \notin parts[i]
  /\ \E x \in Unit(layer) : newV[x] = q /\ \A i \in DOMAIN parts : x \notin parts[i]

Settled ==
  step \in {"part", "build", "above"} /\ Determined(job, layer) =>
    /\ \A i \in DOMAIN parts : parts[i] \subseteq Unit(layer)
    /\ \A i, j \in DOMAIN parts : i # j => parts[i] \cap parts[j] = {}
    /\ \A q \in ToSet(newNodes) : Leading(q)
    /\ step = "part" => \A m \in Node : IsMade(m) /\ varIndex[m] = layer => newV[m] = m
    /\ \A n \in alive : varIndex[n] = layer - 1 =>
         \A a \in ToSet(arcs[n]) : a.end \in Unit(layer)

Calm == NoneMade /\ NoneWaits /\ RootIsGiven /\ Children /\ Entered /\ Settled

\* A set that a part may find is not the set of a node that waits.
LEMMA CalmIsEnough ==
  ASSUME IInv, phase # "given" => NoneWaits
  PROVE  NotRevived
<1> SUFFICES ASSUME step = "part", parts # <<>>, Head(parts) # {},
                    NodeFor(Units(Head(parts))) \in ToSet(toDel)
             PROVE  FALSE
  BY DEF NotRevived
<1> DEFINE P == Head(parts)
           m == NodeFor(Units(P))
<1>1. phase # "given" /\ Base
  BY DEF IInv, Running, GivenInit, NoReducer
<1>2. layer \in 1..Size - 1 /\ Ahead = layer /\ layer \in Ahead..Size /\ layer \in Layer
  <2>1. layer \in 0..Size - 1 /\ layer # 0
    BY <1>1 DEF Base, Types, Cursors
  <2>2. Ahead = layer
    BY DEF Ahead
  <2> QED
    BY <2>1, <2>2, LayersAre
<1>3. P \subseteq Present(layer) /\ P \subseteq Node /\ Units(P) \subseteq Unit(layer)
      /\ P # {} /\ Units(P) # {}
  BY <1>1, PartFacts
<1>4. m \in ToSet(toDel) /\ m \in Node
  BY <1>1 DEF Base, Waiting, Types
<1>5. m \in alive /\ varIndex[m] = layer /\ setOf[m] = Units(P)
  BY <1>1, <1>2, <1>3, <1>4, NodeForFacts, NullIsNoNode DEF Base
<1> HIDE DEF P, m
<1>6. m \in Unit(layer)
  BY <1>1, <1>2, <1>4, <1>5 DEF NoneWaits, IsMade
<1>7. setOf[m] = {m}
  BY <1>1, <1>2, <1>6 DEF Base, Originals
<1>8. PICK k : k \in P
  BY <1>3
<1>9. /\ k \in alive /\ varIndex[k] = layer /\ k \notin ToSet(toDel) /\ k \in Node
      /\ setOf[k] \subseteq {m} /\ setOf[k] # {}
  BY <1>1, <1>3, <1>5, <1>7, <1>8, PresentStands DEF Present, Units
<1>10. setOf[k] = {m}
  BY <1>9
<1>11. CASE k \in Unit(layer)
  <2>1. setOf[k] = {k}
    BY <1>1, <1>2, <1>11 DEF Base, Originals
  <2> QED
    BY <1>4, <1>9, <1>10, <2>1
<1>12. CASE k \notin Unit(layer)
  <2>1. IsMade(k)
    BY <1>2, <1>9, <1>12 DEF IsMade
  <2>2. Cardinality(setOf[k]) # 1
    BY <1>1, <1>9, <2>1 DEF Base, Made
  <2> QED
    BY <1>10, <2>2, FS_Singleton
<1> QED
  BY <1>11, <1>12

\* No node is in two parts.
LEMMA PartsDiffer ==
  ASSUME job \in DiagramJobs, NEW s \in Seq(Node), IsInjective(s), NEW p \in Partitions(s),
         NEW i \in DOMAIN p, NEW j \in DOMAIN p, i # j, NEW n \in p[i], n \in p[j]
  PROVE  FALSE
<1>1. Width \in Nat /\ Width >= 1 /\ \A k, h \in DOMAIN s : s[k] = s[h] => k = h
  BY WidthIsPositive DEF IsInjective
<1>2. CASE p \in DefaultPartitions(s, Width)
  <2>1. p = [k \in 1..Width |-> IF k < Width THEN {s[h] : h \in {k} \cap DOMAIN s}
                                ELSE {s[h] : h \in {g \in DOMAIN s : g >= k}}]
    BY <1>2 DEF DefaultPartitions, KeepFirst
  <2>2. \A k \in 1..Width : \A x \in p[k] :
          \E h \in DOMAIN s : x = s[h] /\ (IF k < Width THEN h = k ELSE h >= Width)
    <3> TAKE k \in 1..Width
    <3>1. CASE k < Width
      BY <2>1, <3>1
    <3>2. CASE ~(k < Width)
      <4>1. k = Width
        BY <1>1, <3>2
      <4>2. p[k] = {s[h] : h \in {g \in DOMAIN s : g >= k}}
        BY <2>1, <3>2
      <4> QED
        BY <3>2, <4>1, <4>2
    <3> QED
      BY <3>1, <3>2
  <2>3. i \in 1..Width /\ j \in 1..Width
    BY <2>1
  <2>4. PICK h \in DOMAIN s : n = s[h] /\ (IF i < Width THEN h = i ELSE h >= Width)
    BY <2>2, <2>3
  <2>5. PICK g \in DOMAIN s : n = s[g] /\ (IF j < Width THEN g = j ELSE g >= Width)
    BY <2>2, <2>3
  <2>6. g = h /\ g \in Int
    <3>1. g = h
      BY <1>1, <2>4, <2>5
    <3>2. g \in Int
      OBVIOUS
    <3> QED
      BY <3>1, <3>2
  <2> QED
    BY <1>1, <2>3, <2>4, <2>5, <2>6
<1>3. CASE p \in RandomPartitions(s, Width)
  <2>1. PICK f \in [DOMAIN s -> 1..Width] :
          p = [k \in 1..Width |-> {s[h] : h \in {g \in DOMAIN s : f[g] = k}}]
    BY <1>3 DEF RandomPartitions
  <2>2. \A k \in DOMAIN p : \A x \in p[k] : \E h \in DOMAIN s : x = s[h] /\ f[h] = k
    BY <2>1
  <2> QED
    BY <1>1, <2>2
<1>4. job.partitioner \in {"default", "random", "kmeans"}
  BY GivenAreDiagrams DEF IsDiagram
<1> QED
  BY <1>2, <1>3, <1>4 DEF Partitions, KMeansPartitions

\* What is steady, of the diagram that is given.
LEMMA SteadyFacts ==
  ASSUME job \in DiagramJobs, Steady(job)
  PROVE  /\ \A l \in 1..Size : \A u \in Unit(l) :
              \E w \in Unit(l - 1) : \E a \in ToSet(job.arcs[w]) : a.end = u
         /\ \A l \in 1..Size - 2 : Determined(job, l + 1) \/ Grounded(l)
<1>1. \A l \in 1..Size : \A u \in Unit(l) :
        \E w \in Unit(l - 1) : \E a \in ToSet(job.arcs[w]) : a.end = u
  BY DEF Steady, Unit
<1>2. ASSUME Size >= 1
      PROVE  Determined(job, 1)
  <2>1. PICK r \in Node : Unit(0) = {r}
    BY JobFacts
  <2>2. \A i \in DOMAIN job.arcs[r] : \A k \in 1..i - 1 :
          job.arcs[r][k].value < job.arcs[r][i].value
    BY GivenAreDiagrams, <2>1 DEF IsDiagram
  <2>3. job.arcs[r] \in Seq(Arc)
    BY JobFacts
  <2>4. \A i \in DOMAIN job.arcs[r] : job.arcs[r][i].value \in Int
    <3>1. \A i \in DOMAIN job.arcs[r] : job.arcs[r][i] \in Arc
      BY <2>3
    <3>2. ASSUME NEW a \in Arc
          PROVE  a.value \in Nat
      BY LabelsAreNats DEF Arc
    <3> QED
      BY <3>1, <3>2
  <2> SUFFICES ASSUME NEW a \in ToSet(job.arcs[r]), NEW b \in ToSet(job.arcs[r]),
                      a.value = b.value
               PROVE  a.end = b.end
    BY <2>1 DEF Determined, Unit
  <2>5. PICK i \in DOMAIN job.arcs[r] : a = job.arcs[r][i]
    BY DEF ToSet
  <2>6. PICK k \in DOMAIN job.arcs[r] : b = job.arcs[r][k]
    BY DEF ToSet
  <2>7. i \in Nat /\ k \in Nat /\ i >= 1 /\ k >= 1
    BY <2>3
  <2>8. ~(i < k) /\ ~(k < i)
    <3>1. i < k => i \in 1..k - 1
      BY <2>7
    <3>2. k < i => k \in 1..i - 1
      BY <2>7
    <3> QED
      BY <2>2, <2>4, <2>5, <2>6, <3>1, <3>2
  <2> QED
    BY <2>5, <2>6, <2>7, <2>8
<1>3. ASSUME NEW l \in 1..Size - 2, ~Determined(job, l + 1)
      PROVE  Grounded(l)
  <2>1. CASE l = 1
    BY <1>2, <2>1, LayersAre DEF Grounded
  <2>2. CASE l # 1
    <3>1. l + 1 \in 3..Size - 1 /\ (l + 1) - 1 = l
      BY <2>2, LayersAre
    <3> QED
      BY <1>3, <3>1 DEF Steady, Grounded
  <2> QED
    BY <2>1, <2>2
<1> QED
  BY <1>1, <1>3

\* A step that only moves a cursor.
LEMMA CalmStill ==
  ASSUME Running, Calm,
         UNCHANGED <<job, alive, varIndex, arcs, nbIn, newV, layer, toDel, parts, newNodes>>,
         \A m \in Node : ~Named(m),
         \/ step = "part" /\ step' = "build"
         \/ step = "fill" /\ step' \in {"fill", "idle"}
         \/ step = "build" /\ step' \in {"build", "above"},
         step' = "build" => ToSet(todo') \subseteq ToSet(newNodes)
  PROVE  Calm'
<1>1. /\ Base /\ Types /\ Cursors /\ Made /\ layer \in 1..Size - 1
      /\ Ahead = layer /\ Ahead' = IF step' = "idle" THEN layer + 1 ELSE layer
      /\ NoneMade /\ NoneWaits /\ RootIsGiven /\ Children /\ Settled
  <2>1. Base /\ Types /\ Cursors /\ Made
    BY DEF Running, Base
  <2>2. step # "idle" /\ layer \in 0..Size - 1 /\ layer # 0
    BY <2>1 DEF Types, Cursors
  <2> QED
    BY <2>1, <2>2, LayersAre DEF Ahead, Calm
<1>2. \A l : Unit(l)' = Unit(l)
  BY DEF Unit
<1>3. \A n : IsMade(n)' => IsMade(n)
  <2>1. \A n \in alive : varIndex[n] \in Int
    BY <1>1, LayersAre DEF Types
  <2> QED
    BY <1>1, <1>2, <2>1 DEF IsMade
<1>4. NoneMade'
  BY <1>1, <1>3 DEF NoneMade
<1>5. NoneWaits'
  BY <1>1, <1>3 DEF NoneWaits
<1>6. RootIsGiven'
  BY <1>1, <1>2 DEF RootIsGiven
<1>7. Children'
  <2>1. ASSUME NEW m \in Node, IsMade(m)', varIndex[m] = layer + 1, step' \in {"build", "above"}
        PROVE  LedTo(m)'
    <3>1. IsMade(m)
      BY <1>3, <2>1
    <3>2. step # "part"
      BY <1>1, <2>1, <3>1 DEF Made
    <3>3. LedTo(m)
      BY <1>1, <2>1, <3>1, <3>2 DEF Children
    <3> QED
      BY <3>3 DEF LedTo
  <2> QED
    BY <2>1 DEF Children
<1>8. Entered'
  BY DEF Entered
<1>9. Settled'
  <2>1. \A q : Leading(q) => Leading(q)'
    BY <1>2 DEF Leading
  <2> QED
    BY <1>1, <1>2, <2>1 DEF Settled
<1> QED
  BY <1>4, <1>5, <1>6, <1>7, <1>8, <1>9 DEF Calm

\* A layer is begun: where sets of ends are single nodes, all of its nodes are given.
LEMMA CalmNextLayer ==
  ASSUME Running, Calm, NextLayer, layer + 1 < Size
  PROVE  Calm'
<1> DEFINE l == layer + 1
<1>1. /\ Base /\ step = "idle" /\ ReduceLayer(l, TRUE, Partitions(nodes[l])) /\ job' = job
  BY DEF Running, NextLayer
<1>2. /\ UNCHANGED <<job, alive, varIndex, arcs, nbIn, newV, toDel>>
      /\ layer' = l
      /\ IF Len(nodes[l]) <= Width
         THEN step' = "fill"
         ELSE step' = "part" /\ parts' \in Partitions(nodes[l]) /\ newNodes' = <<>>
  BY <1>1 DEF ReduceLayer, Fits, mddVars
<1>3. l \in 1..Size - 1 /\ l \in Layer /\ Ahead = l /\ Ahead' = l
  BY <1>1, <1>2, LayersAre DEF Base, Types, Ahead
<1>4. /\ Types /\ Lists /\ Linked /\ alive \subseteq Node /\ nodes[l] \in Seq(Node)
      /\ NoneMade /\ NoneWaits /\ RootIsGiven
      /\ IsInjective(nodes[l]) /\ \A n \in ToSet(nodes[l]) : n \in alive /\ varIndex[n] = l
  BY <1>1, <1>3, ListedIs DEF Base, Types, Lists, Calm
<1>5. \A k : Unit(k)' = Unit(k)
  BY <1>2 DEF Unit
<1>6. \A n : IsMade(n)' <=> IsMade(n)
  BY <1>2, <1>3, <1>5 DEF IsMade
<1>7. NoneMade' /\ NoneWaits' /\ RootIsGiven'
  BY <1>1, <1>2, <1>3, <1>4, <1>5, <1>6 DEF NoneMade, NoneWaits, RootIsGiven
<1>8. Children' /\ Entered'
  BY <1>2 DEF Children, Entered
<1>9. ASSUME step' = "part", Determined(job, l)
      PROVE  /\ \A i \in DOMAIN parts' : parts'[i] \subseteq Unit(l)
             /\ \A i, j \in DOMAIN parts' : i # j => parts'[i] \cap parts'[j] = {}
             /\ \A m \in Node : IsMade(m) => varIndex[m] # l
             /\ \A n \in alive : varIndex[n] = l - 1 =>
                  \A a \in ToSet(arcs[n]) : a.end \in Unit(l)
  <2>1. Len(nodes[l]) > Width /\ parts' \in Partitions(nodes[l]) /\ job \in DiagramJobs
    BY <1>2, <1>4, <1>9, WidthIsPositive DEF Types
  <2>2. \A n \in Node : IsMade(n) => varIndex[n] # l
    BY <1>1, <1>3, <1>4, <1>9 DEF NoneMade
  <2>3. \A n \in alive : varIndex[n] = l => n \in Unit(l)
    BY <1>3, <1>4, <2>2 DEF IsMade
  <2>4. \A i \in DOMAIN parts' : parts'[i] \subseteq ToSet(nodes[l])
    BY <1>4, <2>1, PartsCover
  <2>5. \A i, j \in DOMAIN parts' : i # j => parts'[i] \cap parts'[j] = {}
    BY <1>4, <2>1, PartsDiffer
  <2>6. ASSUME NEW n \in alive, varIndex[n] = l - 1, NEW a \in ToSet(arcs[n])
        PROVE  a.end \in Unit(l)
    <3>1. a.end \in alive /\ varIndex[a.end] = varIndex[n] + 1
      BY <1>4, ArcsOf
    <3> QED
      BY <1>3, <2>3, <2>6, <3>1
  <2> QED
    BY <1>4, <2>2, <2>3, <2>4, <2>5, <2>6
<1> HIDE DEF l
<1>10. Settled'
  <2> SUFFICES ASSUME step' \in {"part", "build", "above"}, Determined(job', layer')
               PROVE  /\ \A i \in DOMAIN parts' : parts'[i] \subseteq Unit(layer)'
                      /\ \A i, j \in DOMAIN parts' : i # j => parts'[i] \cap parts'[j] = {}
                      /\ \A q \in ToSet(newNodes') : Leading(q)'
                      /\ \A m \in Node : IsMade(m)' /\ varIndex'[m] = layer' => newV'[m] = m
                      /\ \A n \in alive' : varIndex'[n] = layer' - 1 =>
                           \A a \in ToSet(arcs'[n]) : a.end \in Unit(layer)'
    BY DEF Settled
  <2>1. step' = "part" /\ newNodes' = <<>> /\ Determined(job, l)
    BY <1>1, <1>2
  <2>2. ToSet(newNodes') = {}
    BY <2>1 DEF ToSet
  <2>3. Unit(layer)' = Unit(l)
    BY <1>2 DEF Unit
  <2> QED
    BY <1>2, <1>6, <1>9, <2>1, <2>2, <2>3
<1> QED
  BY <1>7, <1>8, <1>10 DEF Calm

\* A node is made.
LEMMA CalmMaking ==
  ASSUME Running, Calm, NEW n \in Node, NEW S, NEW l, Making(n, S, l),
         l = layer + 1 => /\ ~Determined(job, l)
                          /\ \A m \in Node : ~Named(m)
                          /\ Named(n)'
  PROVE  Calm'
<1>1. /\ step # "idle" /\ Ahead = layer /\ Ahead' = Ahead /\ l \in Ahead..Size /\ l <= Ahead + 1
      /\ n \notin alive /\ alive' = alive \cup {n} /\ alive \subseteq Node
      /\ \A m \in alive : /\ m # n /\ varIndex'[m] = varIndex[m] /\ arcs'[m] = arcs[m]
                          /\ newV'[m] = newV[m]
      /\ varIndex'[n] = l /\ newV'[n] = n
      /\ \A k : Unit(k)' = Unit(k)
      /\ n \notin ToSet(toDel)
  BY MakingFacts
<1>2. /\ UNCHANGED <<job, phase, step, layer, parts, newNodes, todo, toDel>>
      /\ \/ step = "part" /\ l = layer
         \/ step \in {"build", "fill"} /\ l = layer + 1
  BY DEF Making, cursors, Building
<1>3. /\ Base /\ Types /\ Cursors /\ Made /\ Lists /\ Waiting /\ Originals /\ Leads
      /\ layer \in 1..Size - 1 /\ layer \in Layer /\ layer \in Ahead..Size
      /\ NoneMade /\ NoneWaits /\ RootIsGiven /\ Children /\ Settled
  <2>1. Base /\ Types /\ Cursors /\ Made /\ Lists /\ Waiting /\ Originals /\ Leads
    BY DEF Running, Base
  <2>2. layer \in 0..Size - 1 /\ layer # 0
    BY <1>1, <2>1 DEF Types, Cursors
  <2> QED
    BY <1>1, <2>1, <2>2, LayersAre DEF Calm
<1>4. \A m \in Node : IsMade(m)' => m = n \/ (m \in alive /\ IsMade(m))
  BY <1>1 DEF IsMade
<1>5. NoneMade'
  <2> SUFFICES ASSUME NEW m \in Node, IsMade(m)', Determined(job', varIndex'[m])
               PROVE  varIndex'[m] = Ahead' /\ step' \notin {"idle", "fill"}
    BY DEF NoneMade
  <2>1. CASE m = n
    <3>1. Determined(job, l)
      BY <1>1, <1>2, <2>1
    <3> QED
      BY <1>1, <1>2, <2>1, <3>1
  <2>2. CASE m # n
    <3>1. m \in alive /\ IsMade(m) /\ Determined(job, varIndex[m])
      BY <1>1, <1>2, <1>4, <2>2
    <3> QED
      BY <1>1, <1>2, <1>3, <3>1 DEF NoneMade
  <2> QED
    BY <2>1, <2>2
<1>6. NoneWaits'
  BY <1>1, <1>2, <1>3, <1>4 DEF NoneWaits, Waiting, Types
<1>7. RootIsGiven'
  <2>1. \A r \in Unit(0) : r \in alive
    <3>1. Unit(0) = Listed(0) /\ 0 \in Layer
      BY <1>3, ListedIs, LayersAre DEF Lists, Unit
    <3> QED
      BY <1>3, <3>1 DEF Lists
  <2> QED
    BY <1>1, <1>2, <1>3, <2>1 DEF RootIsGiven
<1>8. step \in {"part", "build"} => ToSet(newNodes) \subseteq alive
  BY <1>3 DEF Leads, Present
<1>9. Children'
  <2>1. ASSUME NEW m \in Node, IsMade(m)', varIndex'[m] = layer + 1, step = "build"
        PROVE  LedTo(m)' \/ Named(m)'
    <3>1. CASE m = n
      BY <1>2, <2>1, <3>1
    <3>2. CASE m # n
      <4>1. m \in alive /\ IsMade(m) /\ varIndex[m] = layer + 1
        BY <1>1, <1>4, <2>1, <3>2
      <4>2. LedTo(m)
        BY <1>2, <1>3, <2>1, <4>1 DEF Children
      <4>3. LedTo(m)'
        BY <1>1, <1>2, <1>8, <2>1, <4>2 DEF LedTo
      <4> QED
        BY <4>3
    <3> QED
      BY <3>1, <3>2
  <2>2. step' = "build" => ToSet(todo)' \subseteq ToSet(newNodes)'
    BY <1>2, <1>3 DEF Children
  <2> QED
    BY <1>2, <2>1, <2>2 DEF Children
<1>10. Entered'
  BY <1>2 DEF Entered
<1>11. Settled'
  <2> SUFFICES ASSUME step \in {"part", "build", "above"}, Determined(job, layer)
               PROVE  /\ \A i \in DOMAIN parts : parts[i] \subseteq Unit(layer)
                      /\ \A i, j \in DOMAIN parts : i # j => parts[i] \cap parts[j] = {}
                      /\ \A q \in ToSet(newNodes) : Leading(q)'
                      /\ step = "part" =>
                           \A m \in Node : IsMade(m)' /\ varIndex'[m] = layer => newV'[m] = m
                      /\ \A m \in alive' : varIndex'[m] = layer - 1 =>
                           \A a \in ToSet(arcs'[m]) : a.end \in Unit(layer)
    <3>1. Unit(layer)' = Unit(layer)
      BY <1>2 DEF Unit
    <3> QED
      BY <1>2, <3>1 DEF Settled
  <2>1. \A q \in ToSet(newNodes) : Leading(q)'
    <3> TAKE q \in ToSet(newNodes)
    <3>1. q \in alive /\ Leading(q)
      BY <1>2, <1>3, <1>8 DEF Settled
    <3>2. PICK x \in Unit(layer) : newV[x] = q /\ \A i \in DOMAIN parts : x \notin parts[i]
      BY <3>1 DEF Leading
    <3>3. x \in alive
      BY <1>1, <1>3 DEF Originals
    <3>4. newV'[x] = q /\ newV'[q] = q /\ Unit(layer)' = Unit(layer)
      BY <1>1, <1>2, <3>1, <3>2, <3>3 DEF Leading, Unit
    <3> QED
      BY <1>2, <3>1, <3>2, <3>4 DEF Leading
  <2>2. step = "part" => \A m \in Node : IsMade(m)' /\ varIndex'[m] = layer => newV'[m] = m
    BY <1>1, <1>3, <1>4 DEF Settled
  <2>3. ASSUME NEW m \in alive', varIndex'[m] = layer - 1, NEW a \in ToSet(arcs'[m])
        PROVE  a.end \in Unit(layer)
    <3>1. m # n
      BY <1>1, <1>3, <2>3
    <3> QED
      BY <1>1, <1>3, <2>3, <3>1 DEF Settled
  <2> QED
    BY <1>3, <2>1, <2>2, <2>3 DEF Settled
<1> QED
  BY <1>5, <1>6, <1>7, <1>9, <1>10, <1>11 DEF Calm

\* An arc leads to the node that was named.
LEMMA CalmAdding ==
  ASSUME Running, Calm, NEW m, Adding(m)
  PROVE  Calm'
<1>1. /\ m \in Node /\ m = NodeFor(Ends) /\ step \in {"build", "fill"}
      /\ UNCHANGED <<job, alive, varIndex, newV, layer, step, toDel, parts, newNodes, todo>>
      /\ \A n \in Node : n # making => arcs'[n] = arcs[n]
      /\ \A n \in Node : ToSet(arcs[n]) \subseteq ToSet(arcs'[n])
      /\ ToSet(arcs'[making]) = ToSet(arcs[making]) \cup {[value |-> MinLabel, end |-> m]}
  BY AddingFacts DEF Adding, Building
<1>2. /\ Base /\ Types /\ Lists /\ Cursors /\ alive \subseteq Node
      /\ NoneMade /\ NoneWaits /\ RootIsGiven /\ Children /\ Settled
  BY DEF Running, Base, Types, Calm
<1>3. /\ making \in Node /\ varIndex[making] = layer /\ layer \in 1..Size - 1
      /\ making = Head(todo) /\ todo \in Seq(Node) /\ todo # <<>>
  BY MakingStands DEF Adding
<1>4. Ahead' = Ahead /\ \A l : Unit(l)' = Unit(l)
  BY <1>1 DEF Ahead, Unit
<1>5. \A n : IsMade(n)' <=> IsMade(n)
  BY <1>1, <1>4 DEF IsMade
<1>6. NoneMade' /\ NoneWaits'
  BY <1>1, <1>2, <1>4, <1>5 DEF NoneMade, NoneWaits
<1>7. RootIsGiven'
  <2>1. \A r \in Unit(0) : r \in Node /\ r # making
    <3>1. Unit(0) = Listed(0) /\ 0 \in Layer
      BY <1>2, ListedIs, LayersAre DEF Lists, Unit
    <3> QED
      BY <1>2, <1>3, <3>1 DEF Lists
  <2> QED
    BY <1>1, <1>2, <1>4, <2>1 DEF RootIsGiven
<1>8. Children'
  <2>1. ASSUME NEW k \in Node, IsMade(k), varIndex[k] = layer + 1, step = "build"
        PROVE  LedTo(k)'
    <3>1. ToSet(newNodes) \subseteq Node
      BY <1>2 DEF Cursors, ToSet
    <3>2. CASE LedTo(k)
      BY <1>1, <3>1, <3>2 DEF LedTo
    <3>3. CASE Named(k)
      <4>1. k = m
        BY <1>1, <3>3 DEF Named
      <4>2. making \in ToSet(newNodes)
        BY <1>2, <1>3, <2>1, TailSet DEF Children
      <4>3. \E a \in ToSet(arcs'[making]) : a.end = k
        <5> DEFINE e == [value |-> MinLabel, end |-> m]
        <5>1. e.end = k
          BY <4>1
        <5>2. e \in ToSet(arcs'[making])
          BY <1>1
        <5> QED
          BY <5>1, <5>2
      <4> QED
        BY <1>1, <4>2, <4>3 DEF LedTo
    <3> QED
      BY <1>2, <2>1, <3>2, <3>3 DEF Children
  <2>2. step' = "build" => ToSet(todo)' \subseteq ToSet(newNodes)'
    BY <1>1, <1>2 DEF Children
  <2> QED
    BY <1>1, <1>5, <2>1, <2>2 DEF Children
<1>9. Entered'
  BY <1>1 DEF Entered
<1>10. Settled'
  <2>1. \A q : Leading(q)' <=> Leading(q)
    BY <1>1, <1>4 DEF Leading
  <2>2. \A n \in alive : varIndex[n] = layer - 1 => arcs'[n] = arcs[n]
    BY <1>1, <1>2, <1>3
  <2> QED
    BY <1>1, <1>2, <1>4, <1>5, <2>1, <2>2 DEF Settled
<1> QED
  BY <1>6, <1>7, <1>8, <1>9, <1>10 DEF Calm

\* A part is led to its node.
LEMMA CalmLeadPart ==
  ASSUME Running, Calm, LeadPart, NotRevived, UNCHANGED <<job, phase>>
  PROVE  Calm'
<1> DEFINE P == Head(parts)
           m == NodeFor(Units(P))
<1>1. /\ Base /\ step = "part" /\ step' = "part" /\ parts # <<>> /\ parts' = Tail(parts)
      /\ IF P = {} THEN UNCHANGED <<newV, newNodes>>
         ELSE /\ m # Null /\ newV' = [n \in Node |-> IF n \in P THEN m ELSE newV[n]]
              /\ newNodes' = Append(newNodes, m)
      /\ UNCHANGED <<job, alive, varIndex, arcs, layer, toDel>>
  BY DEF Running, LeadPart
<1>2. /\ Types /\ Cursors /\ parts \in Seq(SUBSET Node) /\ newNodes \in Seq(Node)
      /\ newV \in [Node -> Node] /\ layer # 0 /\ layer \in 0..Size - 1
      /\ NoneMade /\ NoneWaits /\ RootIsGiven /\ Settled
  BY <1>1 DEF Base, Cursors, Types, Calm
<1>3. layer \in 1..Size - 1 /\ Ahead = layer /\ Ahead' = Ahead /\ layer \in Ahead..Size
      /\ layer \in Layer
  BY <1>1, <1>2, LayersAre DEF Ahead
<1>4. \A l : Unit(l)' = Unit(l)
  BY <1>1 DEF Unit
<1>5. \A n : IsMade(n)' <=> IsMade(n)
  BY <1>1, <1>3, <1>4 DEF IsMade
<1>6. NoneMade' /\ NoneWaits' /\ RootIsGiven'
  BY <1>1, <1>2, <1>3, <1>4, <1>5 DEF NoneMade, NoneWaits, RootIsGiven
<1>7. Children' /\ Entered'
  BY <1>1 DEF Children, Entered
<1>8. Settled'
  <2> SUFFICES ASSUME Determined(job, layer)
               PROVE  /\ \A i \in DOMAIN parts' : parts'[i] \subseteq Unit(layer)
                      /\ \A i, j \in DOMAIN parts' : i # j => parts'[i] \cap parts'[j] = {}
                      /\ \A q \in ToSet(newNodes') : Leading(q)'
                      /\ \A n \in Node : IsMade(n) /\ varIndex[n] = layer => newV'[n] = n
    BY <1>1, <1>2, <1>4, <1>5 DEF Settled
  <2>1. /\ \A i \in DOMAIN parts : parts[i] \subseteq Unit(layer)
        /\ \A i, j \in DOMAIN parts : i # j => parts[i] \cap parts[j] = {}
        /\ \A q \in ToSet(newNodes) : Leading(q)
        /\ \A n \in Node : IsMade(n) /\ varIndex[n] = layer => newV[n] = n
    BY <1>1, <1>2 DEF Settled
  <2>2. /\ P = parts[1] /\ 1 \in DOMAIN parts
        /\ \A i \in DOMAIN parts' : /\ i + 1 \in DOMAIN parts /\ i + 1 # 1
                                    /\ parts'[i] = parts[i + 1]
    BY <1>1, <1>2
  <2>3. P \subseteq Unit(layer) /\ \A i \in DOMAIN parts' : parts'[i] \cap P = {}
    BY <2>1, <2>2
  <2>4. /\ \A i \in DOMAIN parts' : parts'[i] \subseteq Unit(layer)
        /\ \A i, j \in DOMAIN parts' : i # j => parts'[i] \cap parts'[j] = {}
    <3>1. \A i, j \in DOMAIN parts' : i # j => i + 1 # j + 1
      BY <1>1, <1>2
    <3> QED
      BY <2>1, <2>2, <3>1
  <2>5. CASE P = {}
    <3>1. newV' = newV /\ newNodes' = newNodes
      BY <1>1, <2>5
    <3>2. \A q : Leading(q) => Leading(q)'
      BY <1>4, <1>1, <2>2, <3>1 DEF Leading
    <3> QED
      BY <2>1, <2>4, <3>1, <3>2
  <2>6. CASE P # {}
    <3>1. /\ P \subseteq Node /\ Units(P) \subseteq Unit(layer) /\ Units(P) # {}
          /\ P \subseteq Present(layer)
      BY <1>1, <2>6, PartFacts
    <3>2. m \in alive /\ m \in Node /\ varIndex[m] = layer /\ setOf[m] = Units(P)
      BY <1>1, <1>3, <2>6, <3>1, NodeForFacts DEF Base
    <3>3. \A k \in P : setOf[k] = {k}
      BY <1>1, <1>3, <2>3 DEF Base, Originals
    <3>4. Units(P) = P
      BY <3>3 DEF Units
    <3>5. newV' = [n \in Node |-> IF n \in P THEN m ELSE newV[n]] /\ newNodes' = Append(newNodes, m)
      BY <1>1, <2>6
    <3> HIDE DEF m, P
    <3>6. \A n \in Node : newV'[n] = IF n \in P THEN m ELSE newV[n]
      BY <3>5
    <3>7. \A q \in ToSet(newNodes') : q \in ToSet(newNodes) \/ q = m
      <4> DEFINE s == newNodes
      <4>1. s \in Seq(Node) /\ newNodes' = Append(s, m)
        BY <1>2, <3>5
      <4> HIDE DEF s
      <4>2. ToSet(Append(s, m)) = ToSet(s) \cup {m}
        BY <3>2, <4>1 DEF ToSet
      <4> QED
        BY <4>1, <4>2 DEF s
    <3>8. \A n \in Node : IsMade(n) /\ varIndex[n] = layer => newV'[n] = n /\ n \notin P
      BY <2>1, <2>3, <3>6 DEF IsMade
    <3>9. m \in Unit(layer) => m \in P
      <4> SUFFICES ASSUME m \in Unit(layer)
                   PROVE  m \in P
        OBVIOUS
      <4>1. setOf[m] = {m}
        BY <1>1, <1>3 DEF Base, Originals
      <4> QED
        BY <3>2, <3>4, <4>1
    <3>10. m \notin Unit(layer) => IsMade(m)
      BY <1>3, <3>2 DEF IsMade
    <3>11. newV'[m] = m /\ \A i \in DOMAIN parts' : m \notin parts'[i]
      BY <2>3, <2>4, <3>2, <3>6, <3>8, <3>9, <3>10
    <3>12. ASSUME NEW q, q = m
           PROVE  Leading(q)'
      <4>1. PICK x : x \in P
        BY <2>6
      <4>2. x \in Node /\ x \in Unit(layer) /\ newV'[x] = m /\ \A i \in DOMAIN parts' : x \notin parts'[i]
        BY <2>3, <3>1, <3>6, <4>1
      <4> QED
        BY <1>1, <1>4, <3>11, <3>12, <4>2 DEF Leading
    <3>13. ASSUME NEW q \in ToSet(newNodes)
           PROVE  Leading(q)'
      <4>1. /\ Leading(q) /\ q \in Node
        BY <1>2, <2>1 DEF ToSet
      <4>2. q \notin P /\ newV[q] = q /\ \A i \in DOMAIN parts' : q \notin parts'[i]
        BY <2>2, <4>1 DEF Leading
      <4>3. PICK x \in Unit(layer) : newV[x] = q /\ \A i \in DOMAIN parts : x \notin parts[i]
        BY <4>1 DEF Leading
      <4>4. x \in Node /\ x \notin P /\ \A i \in DOMAIN parts' : x \notin parts'[i]
        BY <1>2, <1>3, <2>2, <4>3, JobFacts DEF Types
      <4>5. newV'[x] = q /\ newV'[q] = q
        BY <3>6, <4>1, <4>2, <4>3, <4>4
      <4> QED
        BY <1>1, <1>4, <4>2, <4>4, <4>5 DEF Leading
    <3> QED
      BY <2>4, <3>7, <3>8, <3>12, <3>13
  <2> QED
    BY <2>5, <2>6
<1> QED
  BY <1>6, <1>7, <1>8 DEF Calm

\* Each unit above is still listed, or a node that stands for it is.
LEMMA Represented ==
  ASSUME Running, job.kind = "relax", Steady(job)
  PROVE  \A l \in 0..Ahead - 1 : \A u \in Unit(l) : \E n \in Listed(l) : u \in Stands(n)
<1>1. /\ Base /\ Covered /\ Types /\ Linked /\ Lists /\ Counted /\ Waiting /\ AllListed
      /\ job \in DiagramJobs /\ Ahead \in 1..Size
  <2>1. /\ Base /\ Covered /\ Types /\ Cursors
    BY DEF Running, Base
  <2>2. layer \in 0..Size - 1 /\ (step # "idle" => layer # 0)
    BY <2>1 DEF Types, Cursors
  <2> QED
    BY <2>1, <2>2, LayersAre DEF Base, Types, Ahead
<1> DEFINE Has(i) == \A u \in Unit(i) : \E n \in Listed(i) : u \in Stands(n)
           T == {i \in 0..Ahead - 1 : Has(i)}
<1>2. Unit(0) = Listed(0) /\ \A n \in Unit(0) : varIndex[n] = 0
  BY <1>1, ListedIs, LayersAre DEF Lists, Unit
<1>3. 0 \in T
  BY <1>1, <1>2 DEF Stands
<1>4. ASSUME NEW i \in 0..(Ahead - 1) - 1, i \in T
      PROVE  i + 1 \in T
  <2>1. /\ i + 1 \in 1..Size /\ i + 1 \in 0..Ahead - 1 /\ (i + 1) - 1 = i /\ i \in Layer
        /\ i + 1 \in Layer /\ i \in 0..Ahead - 1
    BY <1>1, LayersAre
  <2>2. ASSUME NEW w \in Unit(i + 1)
        PROVE  \E n \in Listed(i + 1) : w \in Stands(n)
    <3>1. PICK u \in Unit(i) : \E a \in ToSet(job.arcs[u]) : a.end = w
      BY <1>1, <2>1, SteadyFacts
    <3>2. PICK a \in ToSet(job.arcs[u]) : a.end = w
      BY <3>1
    <3>3. PICK n \in Listed(i) : u \in Stands(n)
      BY <1>4
    <3>4. PICK b \in ToSet(arcs[n]) : a.end \in setOf[b.end]
      BY <1>1, <2>1, <3>3 DEF Covered, Covers
    <3>5. n \in Node /\ varIndex[n] = i
      BY <1>1, <2>1, <3>3 DEF Lists, Types
    <3>6. b.end \in Present(i + 1)
      BY <1>1, <3>5, EndsArePresent
    <3>7. b.end \in Listed(i + 1)
      BY <1>1, <2>1, <3>6 DEF AllListed
    <3>8. b.end \notin Unit(0)
      BY <1>2, <2>1, <3>6 DEF Present
    <3> QED
      BY <3>2, <3>4, <3>7, <3>8 DEF Stands
  <2> QED
    BY <2>1, <2>2
<1> HIDE DEF T
<1>5. \A i \in 0..Ahead - 1 : i \in T
  BY <1>1, <1>3, <1>4, UpTo
<1> QED
  BY <1>5 DEF T

\* Where the parts are made of given nodes, a listed node leads to each of them.
LEMMA IsEntered ==
  ASSUME Running, Calm, Steady(job), step = "above", Grounded(layer), NEW x \in Unit(layer)
  PROVE  \E n \in Listed(layer - 1) : \E a \in ToSet(arcs[n]) : a.end = x
<1>1. /\ Base /\ Types /\ Lists /\ Linked /\ Originals /\ RootIsGiven /\ Settled
      /\ job \in DiagramJobs /\ Ahead = layer /\ layer \in 1..Size - 1 /\ layer \in Ahead..Size
      /\ Determined(job, layer)
  <2>1. /\ Base /\ Types /\ Cursors /\ RootIsGiven /\ Settled /\ Determined(job, layer)
    BY DEF Running, Base, Calm, Grounded
  <2>2. layer \in 0..Size - 1 /\ layer # 0
    BY <2>1 DEF Types, Cursors
  <2>3. /\ Types /\ Lists /\ Linked /\ Originals /\ job \in DiagramJobs
    BY <2>1 DEF Base, Types
  <2>4. Ahead = layer
    BY DEF Ahead
  <2> QED
    BY <2>1, <2>2, <2>3, <2>4, LayersAre
<1>2. PICK w \in Unit(layer - 1) : \E a \in ToSet(job.arcs[w]) : a.end = x
  BY <1>1, LayersAre, SteadyFacts
<1>3. PICK a \in ToSet(job.arcs[w]) : a.end = x
  BY <1>2
<1>4. CASE layer = 1
  <2>1. Unit(0) = Listed(0) /\ layer - 1 = 0
    BY <1>1, <1>4, ListedIs DEF Lists, Unit
  <2>2. arcs[w] = job.arcs[w]
    BY <1>1, <1>2, <1>4, <2>1 DEF RootIsGiven
  <2> QED
    BY <1>2, <1>3, <2>1, <2>2
<1>5. CASE job.kind = "relax"
  <2>1. layer - 1 \in 0..Ahead - 1 /\ layer - 1 \in Layer
    BY <1>1, LayersAre
  <2>2. PICK n \in Listed(layer - 1) : w \in Stands(n)
    BY <1>2, <1>5, <2>1, Represented
  <2>3. PICK b \in ToSet(arcs[n]) : x \in setOf[b.end]
    BY <1>3, <1>5, <2>1, <2>2 DEF Running, Covered, Covers
  <2>4. n \in alive /\ varIndex[n] = layer - 1
    BY <1>1, <2>1, <2>2 DEF Lists
  <2>5. b.end \in Unit(layer)
    BY <1>1, <2>3, <2>4 DEF Settled
  <2>6. setOf[b.end] = {b.end}
    BY <1>1, <2>5 DEF Originals
  <2> QED
    BY <2>2, <2>3, <2>6
<1> QED
  BY <1>4, <1>5 DEF Grounded

LEMMA LeaderIs ==
  ASSUME newV \in [Node -> Node], NEW x \in Node, NEW q \in Node, newV[x] = q, newV[q] = q
  PROVE  Leader(x) = q
<1> DEFINE N == Cardinality(Node)
           up == Chain(x)
           T == {i \in 0..N : i # 0 => up[i] = q}
<1>1. N \in Nat /\ N >= 1
  BY NodesAreMany
<1>2. up[0] = x /\ \A i \in 1..N : up[i] = newV[up[i - 1]]
  BY ChainGoes
<1> HIDE DEF up, N
<1>3. 0 \in T
  BY <1>1
<1>4. ASSUME NEW i \in 0..N - 1, i \in T
      PROVE  i + 1 \in T
  <2>1. i + 1 \in 1..N /\ (i + 1) - 1 = i /\ i + 1 \in 0..N
    BY <1>1
  <2>2. up[i + 1] = newV[up[i]] /\ (up[i] = x \/ up[i] = q)
    BY <1>2, <1>4, <2>1
  <2> QED
    BY <2>1, <2>2
<1> HIDE DEF T
<1>5. \A i \in 0..N : i \in T
  BY <1>1, <1>3, <1>4, UpTo
<1>6. N \in 0..N /\ N # 0
  BY <1>1
<1> QED
  BY <1>5, <1>6 DEF T, Leader, up, N

\* The arcs from above are led on: a new node gets one.
LEMMA CalmUpdateAbove ==
  ASSUME Running, Calm, Steady(job), UpdateAbove, UNCHANGED <<job, phase>>
  PROVE  Calm'
<1>1. /\ Base /\ Types /\ Cursors /\ layer \in 1..Size - 1 /\ step = "above" /\ step' = "clean"
      /\ NoneMade /\ NoneWaits /\ Children /\ Settled /\ Raising
  BY RaisingFacts DEF Running, Base, Calm, Raising
<1>2. /\ UNCHANGED <<job, nodes, alive, varIndex, layer, setOf, nodeOf, parts, newNodes, toDel>>
      /\ Ahead = layer /\ Ahead' = layer /\ making = Null
      /\ ToSet(newNodes) \subseteq Present(layer)
      /\ \A n \in Listed(layer - 1) : n \in Node /\ n \in alive /\ varIndex[n] = layer - 1
      /\ \A n \in Node : n \notin Listed(layer - 1) => arcs'[n] = arcs[n]
      /\ \A n \in Listed(layer - 1) :
              /\ DOMAIN arcs'[n] = DOMAIN arcs[n]
              /\ \A i \in DOMAIN arcs[n] : arcs'[n][i].end = Leader(arcs[n][i].end)
  BY <1>1, RaisingFacts
<1>3. Counted' /\ Types'
  BY UpdateAboveRuns DEF Running, Base
<1>4. \A l : Unit(l)' = Unit(l)
  BY <1>2 DEF Unit
<1>5. \A n : IsMade(n)' <=> IsMade(n)
  BY <1>2, <1>4 DEF IsMade
<1>6. NoneMade' /\ NoneWaits' /\ RootIsGiven' /\ Settled'
  BY <1>1, <1>2, <1>5 DEF NoneMade, NoneWaits, RootIsGiven, Settled
<1>7. Children'
  <2>1. \A q \in ToSet(newNodes) : arcs'[q] = arcs[q]
    <3>1. \A q \in ToSet(newNodes) : q \in Node /\ varIndex[q] = layer
      BY <1>1, <1>2 DEF Present, Types
    <3> QED
      BY <1>1, <1>2, <3>1
  <2>2. ASSUME NEW m \in Node, IsMade(m), varIndex[m] = layer + 1
        PROVE  LedTo(m)'
    <3>1. LedTo(m)
      BY <1>1, <1>2, <2>2 DEF Children, Named
    <3> QED
      BY <1>2, <2>1, <3>1 DEF LedTo
  <2> QED
    BY <1>1, <1>2, <1>5, <2>2 DEF Children
<1>8. ASSUME Grounded(layer), NEW q \in ToSet(newNodes)
      PROVE  nbIn'[q] # 0
  <2>1. Leading(q) /\ q \in alive /\ q \in Node
    BY <1>1, <1>2, <1>8 DEF Settled, Grounded, Present, Types
  <2>2. PICK x \in Unit(layer) : newV[x] = q
    BY <2>1 DEF Leading
  <2>3. x \in Node
    BY <1>1, JobFacts, LayersAre DEF Types
  <2>4. Leader(x) = q
    BY <1>1, <2>1, <2>2, <2>3, LeaderIs DEF Types, Leading
  <2>5. PICK n \in Listed(layer - 1) : \E a \in ToSet(arcs[n]) : a.end = x
    BY <1>1, <1>8, IsEntered
  <2>6. PICK i \in DOMAIN arcs[n] : arcs[n][i].end = x
    BY <2>5 DEF ToSet
  <2>7. n \in alive' /\ i \in DOMAIN arcs'[n] /\ arcs'[n][i].end = q
    BY <1>2, <2>4, <2>6
  <2>8. alive' \in SUBSET Node /\ arcs' \in [Node -> Seq(Arc)]
    BY <1>3 DEF Types
  <2>9. Cardinality(ArcsInto(q, alive)') # 0
    BY <2>7, <2>8, OneInto DEF ArcsInto
  <2>10. nbIn'[q] = Cardinality(ArcsInto(q, alive)')
    BY <1>2, <1>3, <2>1 DEF Counted
  <2> QED
    BY <2>9, <2>10
<1>9. Entered'
  <2>1. Grounded(layer)' => Grounded(layer)
    BY <1>2 DEF Grounded
  <2> QED
    BY <1>2, <1>8, <2>1 DEF Entered
<1> QED
  BY <1>6, <1>7, <1>9 DEF Calm

\* What waits from now on has lost the last node that led to it: no new node was deleted
\* that leads to a node that was made.
LEMMA CalmCleanLayer ==
  ASSUME Running, Calm, Steady(job), CleanLayer, UNCHANGED <<job, phase>>
  PROVE  Calm'
<1>1. /\ Cleaning /\ Base /\ Types /\ Linked /\ Lists /\ Waiting /\ Cursors /\ step = "clean"
      /\ step' = "idle" /\ NoneMade /\ Children /\ Entered
  BY DEF Running, Base, Calm, CleanLayer, Cleaning
<1>2. /\ layer \in 1..Size - 1 /\ Ahead = layer /\ Ahead' = layer + 1 /\ making = Null
      /\ ToSet(Deleted(layer)) = {n \in Listed(layer) : nbIn[n] = 0} \cup ToSet(toDel)
      /\ toDel' = Orphans(layer)
      /\ \A n \in ToSet(Orphans(layer)) :
           nbIn'[n] = 0 /\ n \in alive /\ varIndex[n] = layer + 1
      /\ alive' = alive \ ToSet(Deleted(layer)) /\ alive' \subseteq Node
      /\ \A n \in Node : arcs'[n] = IF n \in ToSet(Deleted(layer)) THEN <<>> ELSE arcs[n]
      /\ UNCHANGED <<job, varIndex, layer>>
  BY <1>1, CleaningFacts
<1>3. Types' /\ Counted' /\ Waiting'
  BY CleanLayerRuns DEF Running, Base
<1>4. \A l : Unit(l)' = Unit(l)
  BY <1>2 DEF Unit
<1>5. \A n : IsMade(n)' => IsMade(n) /\ n \in Node /\ varIndex[n] >= layer + 1
  <2>1. \A n \in alive : varIndex[n] \in Int
    BY <1>1, LayersAre DEF Types
  <2> QED
    BY <1>1, <1>2, <1>4, <2>1 DEF IsMade, Types
<1>6. NoneMade'
  <2> SUFFICES ASSUME NEW n \in Node, IsMade(n)', Determined(job, varIndex[n])
               PROVE  FALSE
    BY <1>2 DEF NoneMade
  <2>1. varIndex[n] = layer /\ varIndex[n] >= layer + 1
    BY <1>1, <1>2, <1>5 DEF NoneMade
  <2> QED
    BY <1>2, <2>1
<1>7. NoneWaits'
  <2> SUFFICES ASSUME NEW m \in ToSet(toDel'), IsMade(m)'
               PROVE  FALSE
    BY DEF NoneWaits
  <2>1. /\ IsMade(m) /\ m \in Node /\ varIndex[m] = layer + 1
        /\ nbIn'[m] = 0 /\ m \in alive'
    BY <1>2, <1>5 DEF IsMade
  <2>2. ~Determined(job, layer + 1)
    BY <1>1, <1>2, <2>1 DEF NoneMade
  <2>3. layer + 1 # Size
    <3>1. layer + 1 = Size => toDel' = <<>>
      BY <1>2 DEF Orphans
    <3>2. ToSet(<<>>) = {}
      BY DEF ToSet
    <3> QED
      BY <3>1, <3>2
  <2>4. Grounded(layer)
    <3>1. layer \in 1..Size - 2 /\ job \in DiagramJobs
      BY <1>1, <1>2, <2>3, LayersAre DEF Types
    <3> QED
      BY <2>2, <3>1, SteadyFacts
  <2>5. PICK q \in ToSet(newNodes) : \E a \in ToSet(arcs[q]) : a.end = m
    BY <1>1, <1>2, <2>1 DEF Children, LedTo, Named
  <2>6. q \in Node /\ nbIn[q] # 0
    BY <1>1, <2>4, <2>5 DEF Entered, Cursors, ToSet
  <2>7. PICK i \in DOMAIN arcs[q] : arcs[q][i].end = m
    BY <2>5 DEF ToSet
  <2>8. q \in alive /\ q \notin ToSet(Deleted(layer))
    BY <1>1, <1>2, <2>6, <2>7 DEF Linked, Waiting
  <2>9. q \in alive' /\ i \in DOMAIN arcs'[q] /\ arcs'[q][i].end = m
    BY <1>2, <2>6, <2>7, <2>8
  <2>10. alive' \in SUBSET Node /\ arcs' \in [Node -> Seq(Arc)]
    BY <1>3 DEF Types
  <2>11. Cardinality(ArcsInto(m, alive)') # 0
    BY <2>9, <2>10, OneInto DEF ArcsInto
  <2>12. nbIn'[m] = Cardinality(ArcsInto(m, alive)')
    BY <1>3, <2>1 DEF Counted
  <2> QED
    BY <2>1, <2>11, <2>12
<1>8. RootIsGiven' /\ Children' /\ Entered' /\ Settled'
  BY <1>1, <1>2 DEF RootIsGiven, Children, Entered, Settled
<1> QED
  BY <1>6, <1>7, <1>8 DEF Calm

\* A set of ends gets a node: there is more than one of them, and the next arc leads to it.
LEMMA CalmNameEnds ==
  ASSUME Running, Calm, NameEnds, job.kind = "restrict" => AllHave, UNCHANGED <<job, phase>>
  PROVE  Calm'
<1> DEFINE S == Ends
<1>1. /\ Base /\ Building /\ making # Null /\ ArcsLeft # {} /\ MakeNode(S)
      /\ UNCHANGED <<job, phase, step, layer, cursors, toDel, cleans, lost>>
  BY DEF Running, NameEnds
<1>2. S \subseteq Unit(layer + 1) /\ S # {}
  BY <1>1, LabelFacts
<1>3. /\ layer \in 1..Size - 1 /\ layer + 1 \in Layer /\ (layer + 1) - 1 = layer
      /\ setOf[making] \subseteq Unit(layer) /\ making \in alive
      /\ \A u \in setOf[making] : u \in alive /\ arcs[u] = job.arcs[u]
  BY <1>1, MakingStands, LayersAre
<1>4. \A m \in Node : ~Named(m)
  BY <1>1, NullIsNoNode DEF MakeNode, Named
<1>5. ASSUME Determined(job, layer + 1), NEW x \in S, NEW y \in S
      PROVE  x = y
  <2>1. PICK a \in ArcsLeft : a.value = MinLabel /\ a.end = x
    BY DEF Ends
  <2>2. PICK b \in ArcsLeft : b.value = MinLabel /\ b.end = y
    BY DEF Ends
  <2>3. PICK u \in setOf[making] : a \in ToSet(arcs[u])
    BY DEF ArcsLeft
  <2>4. PICK w \in setOf[making] : b \in ToSet(arcs[w])
    BY DEF ArcsLeft
  <2>5. u \in ToSet(job.nodes[layer]) /\ w \in ToSet(job.nodes[layer])
    BY <1>3 DEF Unit
  <2> QED
    BY <1>3, <1>5, <2>1, <2>2, <2>3, <2>4, <2>5 DEF Determined
<1> HIDE DEF S
<1>6. PICK n \in Node : Making(n, S, layer + 1)
  BY <1>1, <1>2, <1>3, MakeNodeMakes
<1>7. ~Determined(job, layer + 1)
  <2> SUFFICES ASSUME Determined(job, layer + 1)
               PROVE  FALSE
    OBVIOUS
  <2>1. PICK x : x \in S
    BY <1>2
  <2>2. S = {x}
    BY <1>5, <2>1
  <2> QED
    BY <1>6, <2>2, FS_Singleton DEF Making
<1>8. /\ making' = making /\ label' = label /\ setOf'[making] = setOf[making]
      /\ \A u \in setOf[making] : arcs'[u] = arcs[u]
      /\ nodeOf' = [R \in {S} \cup DOMAIN nodeOf |-> IF R = S THEN n ELSE nodeOf[R]]
      /\ Cardinality(S) # 1
  <2>1. \A m \in alive : arcs'[m] = arcs[m] /\ setOf'[m] = setOf[m]
    BY <1>6, MakingFacts
  <2> QED
    BY <1>1, <1>3, <1>6, <2>1 DEF Making, Makes, cursors
<1>9. ArcsLeft' = ArcsLeft
  BY <1>8 DEF ArcsLeft
<1>10. MinLabel' = MinLabel /\ Ends' = Ends
  BY <1>9 DEF MinLabel, Ends
<1>11. nodeOf'[S] = n /\ S \in DOMAIN nodeOf'
  BY <1>8
<1>12. n = NodeFor(Ends)'
  BY <1>8, <1>10, <1>11 DEF NodeFor, S
<1>13. AllHave => AllHave'
  BY <1>8, <1>10 DEF AllHave, Having
<1>14. Named(n)'
  BY <1>1, <1>8, <1>9, <1>12, <1>13 DEF Named
<1> QED
  BY <1>4, <1>6, <1>7, <1>14, CalmMaking

\* At first there are the given nodes only.
LEMMA CalmConstruct ==
  ASSUME GivenInit, GivenConstruct
  PROVE  Calm'
<1>1. /\ \A n \in alive : n \in Unit(varIndex[n])
      /\ arcs = job.arcs
  BY GivenFacts
<1>2. /\ UNCHANGED <<job, alive, varIndex, arcs, step, layer>> /\ step = "idle"
      /\ toDel' = <<>>
  BY DEF GivenInit, NoReducer, GivenConstruct, Construct, mddVars
<1>3. \A n : ~IsMade(n)'
  BY <1>1, <1>2 DEF IsMade, Unit
<1>4. NoneMade' /\ NoneWaits' /\ RootIsGiven'
  BY <1>1, <1>2, <1>3 DEF NoneMade, NoneWaits, RootIsGiven
<1>5. Children' /\ Entered' /\ Settled'
  BY <1>2 DEF Children, Entered, Settled
<1> QED
  BY <1>4, <1>5 DEF Calm

\* The steps of a call, those first that only move a cursor.
LEMMA CalmCursors ==
  ASSUME Running, Calm, UNCHANGED <<job, phase>>,
         \/ EndParts \/ BeginNode \/ EndNode \/ EndBuild
         \/ SkipLabel /\ job.kind = "restrict"
         \/ EndRestrictedNode
  PROVE  Calm'
<1>1. /\ UNCHANGED <<job, alive, varIndex, arcs, nbIn, newV, layer, toDel, parts, newNodes>>
      /\ step # "part" => Building
  BY DEF EndParts, BeginNode, EndNode, EndBuild, SkipLabel, EndRestrictedNode, Removed,
         mddVars, cursors
<1>2. /\ Cursors /\ newNodes \in Seq(Node) /\ todo \in Seq(Node)
      /\ step = "build" => ToSet(todo) \subseteq ToSet(newNodes)
  BY DEF Running, Base, Cursors, Calm, Children
<1>3. \A m \in Node : ~Named(m)
  <2>1. \/ making = Null \/ ArcsLeft = {} \/ (job.kind = "restrict" /\ ~AllHave)
    <3>1. EndParts => making = Null
      BY <1>2 DEF EndParts, Cursors, Building
    <3> QED
      BY <3>1 DEF BeginNode, EndNode, EndBuild, SkipLabel, EndRestrictedNode
  <2> QED
    BY <2>1 DEF Named
<1>4. \/ step = "part" /\ step' = "build"
      \/ step = "fill" /\ step' \in {"fill", "idle"}
      \/ step = "build" /\ step' \in {"build", "above"}
  BY DEF EndParts, BeginNode, EndNode, EndBuild, SkipLabel, EndRestrictedNode, Building
<1>5. step' = "build" => ToSet(todo') \subseteq ToSet(newNodes)
  <2> SUFFICES ASSUME step' = "build"
               PROVE  ToSet(todo') \subseteq ToSet(newNodes)
    OBVIOUS
  <2>1. CASE EndParts
    BY <2>1 DEF EndParts
  <2>2. CASE ~EndParts
    <3>1. step = "build"
      BY <1>4, <2>2 DEF EndParts, BeginNode, EndNode, EndBuild, SkipLabel, EndRestrictedNode,
                        Building
    <3>2. todo' = todo \/ todo' = Tail(todo) \/ todo' = <<>>
      BY <2>2 DEF BeginNode, EndNode, EndBuild, SkipLabel, EndRestrictedNode, cursors
    <3>3. todo # <<>> => ToSet(Tail(todo)) \subseteq ToSet(todo)
      BY <1>2, TailSet
    <3>4. ToSet(<<>>) = {}
      BY DEF ToSet
    <3>5. todo = <<>> => todo' = todo \/ todo' = <<>>
      BY <1>2, <2>2, <3>1 DEF BeginNode, EndNode, EndBuild, SkipLabel, EndRestrictedNode,
                              cursors, Cursors, Building
    <3> QED
      BY <1>2, <3>1, <3>2, <3>3, <3>4, <3>5
  <2> QED
    BY <2>1, <2>2
<1> QED
  BY <1>1, <1>3, <1>4, <1>5, CalmStill

LEMMA CalmNamePart ==
  ASSUME Running, Calm, NamePart, UNCHANGED <<job, phase>>
  PROVE  Calm'
<1> DEFINE S == Units(Head(parts))
<1>1. /\ Base /\ step = "part" /\ parts # <<>> /\ Head(parts) # {} /\ MakeNode(S)
      /\ UNCHANGED <<job, phase, step, layer, cursors, toDel, cleans, lost>>
  BY DEF Running, NamePart
<1>2. S \subseteq Unit(layer) /\ S # {}
  BY <1>1, PartFacts
<1>3. layer \in Layer /\ layer # layer + 1
  BY <1>1, LayersAre DEF Base, Types
<1> HIDE DEF S
<1>4. PICK n \in Node : Making(n, S, layer)
  BY <1>1, <1>2, <1>3, MakeNodeMakes
<1> QED
  BY <1>3, <1>4, CalmMaking

LEMMA CalmAddUnionArc ==
  ASSUME Running, Calm, AddUnionArc, UNCHANGED <<job, phase>>
  PROVE  Calm'
<1>1. Adding(NodeFor(Ends))
  BY DEF Adding, AddUnionArc, Running, cursors
<1> QED
  BY <1>1, CalmAdding

LEMMA CalmStays ==
  ASSUME Calm, UNCHANGED <<job, mddVars, relaxVars>>
  PROVE  Calm'
<1>1. UNCHANGED <<job, alive, varIndex, arcs, nbIn, newV, step, layer, setOf, nodeOf, parts,
                  newNodes, todo, making, label, toDel>>
  BY DEF mddVars, relaxVars, sets, cursors
<1>2. Ahead' = Ahead /\ \A l : Unit(l)' = Unit(l)
  BY <1>1 DEF Ahead, Unit
<1>3. \A m : (IsMade(m)' <=> IsMade(m)) /\ (LedTo(m)' <=> LedTo(m))
  BY <1>1, <1>2 DEF IsMade, LedTo
<1>4. \A q : Leading(q)' <=> Leading(q)
  BY <1>1, <1>2 DEF Leading
<1>5. ArcsLeft' = ArcsLeft
  BY <1>1 DEF ArcsLeft
<1>6. Ends' = Ends /\ MinLabel' = MinLabel
  BY <1>5 DEF Ends, MinLabel
<1>7. NodeFor(Ends)' = NodeFor(Ends)
  BY <1>1, <1>6 DEF NodeFor
<1>8. AllHave' <=> AllHave
  BY <1>1, <1>6 DEF AllHave, Having
<1>9. \A m : Named(m)' <=> Named(m)
  BY <1>1, <1>5, <1>7, <1>8 DEF Named
<1>10. NoneMade' /\ NoneWaits' /\ RootIsGiven'
  BY <1>1, <1>2, <1>3 DEF Calm, NoneMade, NoneWaits, RootIsGiven
<1>11. Children' /\ Entered'
  BY <1>1, <1>3, <1>9 DEF Calm, Children, Entered, Grounded
<1>12. Settled'
  BY <1>1, <1>2, <1>3, <1>4 DEF Calm, Settled
<1> QED
  BY <1>10, <1>11, <1>12 DEF Calm

\* A step of a call.
LEMMA CalmStep ==
  ASSUME Running, Calm, Steady(job), NotRevived, GivenStep
  PROVE  Calm'
<1>1. /\ UNCHANGED <<job, phase>> /\ phase = "loop"
      /\ job.kind \in {"relax", "restrict"}
  BY JobFacts DEF GivenStep, dpVars, Running, Base, Types
<1>2. CASE job.kind = "restrict"
  <2>1. \/ NamePart \/ LeadPart \/ EndParts \/ (NameEnds /\ AllHave) \/ (AddUnionArc /\ AllHave)
        \/ SkipLabel \/ EndRestrictedNode \/ BeginNode \/ EndBuild \/ UpdateAbove \/ CleanLayer
    BY <1>2 DEF GivenStep, RestrictedReducing, RestrictedNamePart, RestrictedLeadPart,
                RestrictedNameEnds, AddCommonArc, RestrictedUpdateAbove, RestrictedCleanLayer
  <2>2. CASE NamePart
    BY <1>1, <2>2, CalmNamePart
  <2>3. CASE LeadPart
    BY <1>1, <2>3, CalmLeadPart
  <2>4. CASE EndParts \/ SkipLabel \/ EndRestrictedNode \/ BeginNode \/ EndBuild
    BY <1>1, <1>2, <2>4, CalmCursors
  <2>5. CASE NameEnds /\ AllHave
    BY <1>1, <2>5, CalmNameEnds
  <2>6. CASE AddUnionArc /\ AllHave
    BY <1>1, <2>6, CalmAddUnionArc
  <2>7. CASE UpdateAbove
    BY <1>1, <2>7, CalmUpdateAbove
  <2>8. CASE CleanLayer
    BY <1>1, <2>8, CalmCleanLayer
  <2> QED
    BY <2>1, <2>2, <2>3, <2>4, <2>5, <2>6, <2>7, <2>8
<1>3. CASE job.kind = "relax"
  <2>1. \/ NamePart \/ LeadPart \/ EndParts \/ BeginNode \/ NameEnds \/ EndBuild
        \/ UpdateAbove \/ CleanLayer \/ AddUnionArc \/ EndNode
    BY <1>3 DEF GivenStep, Reducing, Common
  <2>2. CASE NamePart
    BY <1>1, <2>2, CalmNamePart
  <2>3. CASE LeadPart
    BY <1>1, <2>3, CalmLeadPart
  <2>4. CASE EndParts \/ BeginNode \/ EndBuild \/ EndNode
    BY <1>1, <2>4, CalmCursors
  <2>5. CASE NameEnds
    BY <1>1, <1>3, <2>5, CalmNameEnds
  <2>6. CASE AddUnionArc
    BY <1>1, <2>6, CalmAddUnionArc
  <2>7. CASE UpdateAbove
    BY <1>1, <2>7, CalmUpdateAbove
  <2>8. CASE CleanLayer
    BY <1>1, <2>8, CalmCleanLayer
  <2> QED
    BY <2>1, <2>2, <2>3, <2>4, <2>5, <2>6, <2>7, <2>8
<1> QED
  BY <1>1, <1>2, <1>3

\* What is kept by every step on a steady diagram.
SteadyInv == IInv /\ Steady(job) /\ (phase # "given" => Calm)

LEMMA NextIsCalm ==
  ASSUME SteadyInv, [Next]_vars
  PROVE  SteadyInv'
<1>1. IInv /\ Steady(job) /\ (phase # "given" => Calm) /\ phase \in {"given", "loop", "done"}
  BY DEF SteadyInv, IInv
<1>2. NotRevived
  BY <1>1, CalmIsEnough DEF Calm
<1>3. IInv'
  BY <1>1, <1>2, NextKeeps
<1>4. ~DPNext
  BY <1>1 DEF DPNext, OpenSubTree, NameState, NextValue, NextSubTree, EndSubTrees, NextLevel,
              RebuildState, Reduces, ReducerStep, Returned, CleanLast
<1>5. job' = job
  BY <1>4 DEF Next, GivenConstruct, NextLayer, GivenStep, Done, vars, dpVars
<1>6. Steady(job)'
  BY <1>1, <1>5
<1>7. phase' # "given" => Calm'
  <2>1. CASE GivenConstruct
    <3>1. GivenInit
      BY <1>1, <2>1 DEF IInv, GivenConstruct
    <3> QED
      BY <2>1, <3>1, CalmConstruct
  <2>2. CASE NextLayer
    <3>1. Running /\ Calm
      BY <1>1, <2>2 DEF IInv, NextLayer
    <3>2. CASE layer + 1 < Size
      BY <2>2, <3>1, <3>2, CalmNextLayer
    <3>3. CASE ~(layer + 1 < Size)
      <4>1. UNCHANGED <<job, mddVars, relaxVars>>
        BY <2>2, <3>3 DEF NextLayer
      <4> QED
        BY <3>1, <4>1, CalmStays
    <3> QED
      BY <3>2, <3>3
  <2>3. CASE GivenStep
    <3>1. Running /\ Calm
      BY <1>1, <2>3 DEF IInv, GivenStep
    <3> QED
      BY <1>1, <1>2, <2>3, <3>1, CalmStep
  <2>4. CASE UNCHANGED vars
    <3>1. UNCHANGED <<job, mddVars, relaxVars, phase>>
      BY <2>4 DEF vars, dpVars
    <3> QED
      BY <1>1, <3>1, CalmStays
  <2> QED
    BY <1>4, <2>1, <2>2, <2>3, <2>4 DEF Next, Done
<1> QED
  BY <1>3, <1>6, <1>7 DEF SteadyInv

-----------------------------------------------------------------------------
(***************************************************************************)
(* What can be read, layer by layer.                                       *)
(***************************************************************************)
Following(a, M, v) ==
  UNION {{a[n][j].end : j \in {i \in DOMAIN a[n] : a[n][i].value = v}} : n \in M}

ReachedBy(a, N, l, t) ==
  LET reach[i \in l..Size] == IF i = l THEN N ELSE Following(a, reach[i - 1], t[i])
  IN reach

LEMMA FollowingIs ==
  ASSUME NEW a \in [Node -> Seq(Arc)], NEW M \in SUBSET Node, NEW v
  PROVE  /\ Following(a, M, v) \in SUBSET Node
         /\ \A m : m \in Following(a, M, v) <=>
              \E n \in M : \E b \in ToSet(a[n]) : b.value = v /\ b.end = m
<1>1. \A n \in M : \A i \in DOMAIN a[n] : a[n][i].end \in Node
  <2> SUFFICES ASSUME NEW n \in M, NEW i \in DOMAIN a[n]
               PROVE  a[n][i].end \in Node
    OBVIOUS
  <2>1. a[n] \in Seq(Arc)
    OBVIOUS
  <2>2. a[n][i] \in Arc
    BY <2>1
  <2> QED
    BY <2>2 DEF Arc
<1>2. \A m : m \in Following(a, M, v) <=>
        \E n \in M : \E b \in ToSet(a[n]) : b.value = v /\ b.end = m
  BY DEF Following, ToSet
<1>3. Following(a, M, v) \subseteq Node
  BY <1>1 DEF Following
<1> QED
  BY <1>2, <1>3

\* R is what can be reached along a tuple, from r and arcs a.
IsRead(R, a, r, t) ==
  /\ R[0] = {r}
  /\ \A i \in 1..Size : \A m : m \in R[i] <=>
       \E n \in R[i - 1] : \E b \in ToSet(a[n]) : b.value = t[i] /\ b.end = m

LEMMA ReachedIs ==
  ASSUME NEW a \in [Node -> Seq(Arc)], NEW r \in Node, NEW t
  PROVE  IsRead(ReachedBy(a, {r}, 0, t), a, r, t)
<1> DEFINE U == SUBSET Node
           next == [i \in 1..Size |-> [M \in U |-> Following(a, M, t[i])]]
<1>1. Size \in Nat /\ {r} \in U
  BY LayersAre
<1>2. next \in [1..Size -> [U -> U]]
  BY FollowingIs
<1>3. \A i \in 1..Size : \A M \in U : next[i][M] = Following(a, M, t[i])
  OBVIOUS
<1> HIDE DEF U, next
<1>4. PICK g : g \in [0..Size -> U] /\ Iterates(g, {r}, next, Size)
  BY <1>1, <1>2, RecursionExists
<1>5. \A i \in 0..Size : i # 0 => i \in 1..Size /\ i - 1 \in 0..Size
  BY <1>1
<1>6. g[0] = {r} /\ \A i \in 1..Size : g[i] = Following(a, g[i - 1], t[i])
  <2>1. g[0] = {r} /\ \A i \in 1..Size : g[i] = next[i][g[i - 1]]
    BY <1>4 DEF Iterates
  <2>2. \A i \in 1..Size : i - 1 \in 0..Size
    BY <1>1
  <2> QED
    BY <1>3, <1>4, <2>1, <2>2
<1>7. g = [i \in 0..Size |-> IF i = 0 THEN {r} ELSE Following(a, g[i - 1], t[i])]
  BY <1>4, <1>5, <1>6
<1> DEFINE R == ReachedBy(a, {r}, 0, t)
<1>8. R = [i \in 0..Size |-> IF i = 0 THEN {r} ELSE Following(a, R[i - 1], t[i])]
  BY <1>7 DEF ReachedBy
<1> HIDE DEF R
<1>9. R[0] = {r} /\ \A i \in 1..Size : R[i] = Following(a, R[i - 1], t[i])
  <2>1. 0 \in 0..Size /\ \A i \in 1..Size : i \in 0..Size /\ i # 0
    BY <1>1
  <2> QED
    BY <1>8, <2>1
<1>10. R[0] = {r}
  BY <1>9
<1>11. \A i \in 0..Size : R[i] \in U
  <2> DEFINE T == {i \in 0..Size : R[i] \in U}
  <2>1. 0 \in T
    <3>1. 0 \in 0..Size
      BY <1>1
    <3> QED
      BY <1>1, <1>10, <3>1
  <2>2. \A i \in 0..Size - 1 : i \in T => i + 1 \in T
    <3> SUFFICES ASSUME NEW i \in 0..Size - 1, i \in T
                 PROVE  i + 1 \in T
      OBVIOUS
    <3>1. i + 1 \in 1..Size /\ i + 1 \in 0..Size /\ (i + 1) - 1 = i
      BY <1>1
    <3>2. R[i + 1] = Following(a, R[i], t[i + 1])
      <4> DEFINE k == i + 1
      <4>1. k \in 1..Size /\ k - 1 = i
        BY <3>1
      <4> HIDE DEF k
      <4>2. R[k] = Following(a, R[k - 1], t[k])
        BY <1>9, <4>1
      <4>3. R[k] = Following(a, R[i], t[k])
        BY <4>1, <4>2
      <4> QED
        BY <4>3 DEF k
    <3>3. R[i] \in SUBSET Node
      BY DEF U
    <3>4. Following(a, R[i], t[i + 1]) \in SUBSET Node
      BY <3>3, FollowingIs
    <3> QED
      BY <3>1, <3>2, <3>4 DEF U
  <2> HIDE DEF T
  <2>3. \A i \in 0..Size : i \in T
    BY <1>1, <2>1, <2>2, UpTo
  <2> QED
    BY <2>3 DEF T
<1>12. ASSUME NEW i \in 1..Size
       PROVE  \A m : m \in R[i] <=>
                \E n \in R[i - 1] : \E b \in ToSet(a[n]) : b.value = t[i] /\ b.end = m
  <2> DEFINE M == R[i - 1]
             v == t[i]
  <2>1. R[i] = Following(a, M, v)
    BY <1>9
  <2>2. i - 1 \in 0..Size
    BY <1>1
  <2>3. M \in SUBSET Node
    BY <1>11, <2>2 DEF U
  <2> HIDE DEF M, v
  <2>4. \A m : m \in Following(a, M, v) <=>
               \E n \in M : \E b \in ToSet(a[n]) : b.value = v /\ b.end = m
    BY <2>3, FollowingIs
  <2> QED
    BY <2>1, <2>4 DEF M, v
<1> QED
  BY <1>10, <1>12 DEF R, IsRead

\* The tuples of the given diagram and of the one it has become, read from the root.
LEMMA LanguagesAre ==
  ASSUME Base
  PROVE  \E r \in Node :
           /\ Unit(0) = {r} /\ Listed(0) = {r} /\ r \in alive /\ varIndex[r] = 0 /\ Stands(r) = {r}
           /\ Root = r
           /\ Language = {t \in [1..Size -> Label] : ReachedBy(arcs, {r}, 0, t)[Size] # {}}
           /\ Given!Language = {t \in [1..Size -> Label] : ReachedBy(job.arcs, {r}, 0, t)[Size] # {}}
<1>1. Types /\ Lists
  BY DEF Base
<1>2. PICK r \in Node : job.nodes[0] = <<r>> /\ Unit(0) = {r}
  BY <1>1, JobFacts DEF Types
<1>3. nodes[0] = <<r>>
  BY <1>1, <1>2 DEF Lists
<1>4. Listed(0) = {r} /\ Root = r /\ Given!Root = r /\ 0 \in Layer
  <2>1. <<r>> # <<>> /\ <<r>>[1] = r /\ DOMAIN <<r>> = {1}
    OBVIOUS
  <2> QED
    BY <1>2, <1>3, <2>1, LayersAre DEF Listed, Root, Given!Root
<1>5. r \in alive /\ varIndex[r] = 0 /\ Stands(r) = {r}
  BY <1>1, <1>2, <1>4 DEF Lists, Stands
<1>6. r # Null
  BY NullIsNoNode
<1>7. Language = Tails(r) /\ Given!Language = Given!Tails(r)
  BY <1>4, <1>6 DEF Language, Given!Language
<1>8. \A t : ReadFrom({r}, varIndex[r], t) = ReachedBy(arcs, {r}, varIndex[r], t)[Size]
  BY DEF ReadFrom, ReachedBy, Following
<1>9. \A t : Given!ReadFrom({r}, varIndex[r], t) = ReachedBy(job.arcs, {r}, varIndex[r], t)[Size]
  BY DEF Given!ReadFrom, ReachedBy, Following
<1>10. 0 + 1 = 1
  OBVIOUS
<1>11. Tails(r) = {t \in [1..Size -> Label] : ReachedBy(arcs, {r}, 0, t)[Size] # {}}
  BY <1>5, <1>8, <1>10 DEF Tails
<1>12. Given!Tails(r) = {t \in [1..Size -> Label] : ReachedBy(job.arcs, {r}, 0, t)[Size] # {}}
  BY <1>5, <1>9, <1>10 DEF Given!Tails
<1> QED
  BY <1>2, <1>4, <1>5, <1>7, <1>11, <1>12

-----------------------------------------------------------------------------
(***************************************************************************)
(* What narrowing promises, at its end.                                    *)
(***************************************************************************)
LEMMA NothingIsLost ==
  ASSUME Running, job.kind = "relax", step = "idle", layer + 1 = Size
  PROVE  Given!Language \subseteq Language
<1>1. /\ Base /\ Covered /\ Types /\ Linked /\ Lists /\ Counted /\ Waiting /\ AllListed
      /\ Ahead = Size /\ job \in DiagramJobs
  BY DEF Running, Base, Types, Ahead
<1>2. PICK r \in Node :
        /\ Unit(0) = {r} /\ Listed(0) = {r} /\ r \in alive /\ varIndex[r] = 0 /\ Stands(r) = {r}
        /\ Language = {t \in [1..Size -> Label] : ReachedBy(arcs, {r}, 0, t)[Size] # {}}
        /\ Given!Language = {t \in [1..Size -> Label] : ReachedBy(job.arcs, {r}, 0, t)[Size] # {}}
  BY <1>1, LanguagesAre
<1> SUFFICES ASSUME NEW t \in [1..Size -> Label], ReachedBy(job.arcs, {r}, 0, t)[Size] # {}
             PROVE  ReachedBy(arcs, {r}, 0, t)[Size] # {}
  BY <1>2
<1> DEFINE G == ReachedBy(job.arcs, {r}, 0, t)
           R == ReachedBy(arcs, {r}, 0, t)
           Kept1(i) == \A u \in G[i] : u \in Unit(i) /\ \E n \in R[i] : n \in Listed(i) /\ u \in Stands(n)
           T == {i \in 0..Size : Kept1(i)}
<1>3. IsRead(G, job.arcs, r, t)
  <2>1. job.arcs \in [Node -> Seq(Arc)]
    BY <1>1, JobFacts
  <2> QED
    BY <2>1, ReachedIs
<1>4. IsRead(R, arcs, r, t)
  <2>1. arcs \in [Node -> Seq(Arc)]
    BY <1>1 DEF Types
  <2> QED
    BY <2>1, ReachedIs
<1> HIDE DEF G, R
<1>5. 0 \in T
  BY <1>2, <1>3, <1>4, LayersAre DEF IsRead
\* The arc of a unit is followed by one of the node that stands for it.
<1>6. ASSUME NEW i \in 0..Size - 1, i \in T
      PROVE  i + 1 \in T
  <2>1. /\ i + 1 \in 1..Size /\ i + 1 \in 0..Size /\ (i + 1) - 1 = i /\ i \in Layer /\ i + 1 \in Layer
        /\ i \in 0..Ahead - 1
    BY <1>1, LayersAre
  <2>2. ASSUME NEW w \in G[i + 1]
        PROVE  w \in Unit(i + 1) /\ \E m \in R[i + 1] : m \in Listed(i + 1) /\ w \in Stands(m)
    <3>1. PICK u \in G[i] : \E a \in ToSet(job.arcs[u]) : a.value = t[i + 1] /\ a.end = w
      BY <1>3, <2>1 DEF IsRead
    <3>2. PICK a \in ToSet(job.arcs[u]) : a.value = t[i + 1] /\ a.end = w
      BY <3>1
    <3>3. u \in Unit(i) /\ \E n \in R[i] : n \in Listed(i) /\ u \in Stands(n)
      BY <1>6
    <3>4. PICK n \in R[i] : n \in Listed(i) /\ u \in Stands(n)
      BY <3>3
    <3>5. PICK b \in ToSet(arcs[n]) : b.value = a.value /\ a.end \in setOf[b.end]
      BY <1>1, <2>1, <3>4 DEF Covered, Covers
    <3>6. n \in Node /\ varIndex[n] = i
      BY <1>1, <2>1, <3>4 DEF Lists, Types
    <3>7. b.end \in Present(i + 1)
      BY <1>1, <3>6, EndsArePresent
    <3>8. b.end \in Listed(i + 1)
      BY <1>1, <2>1, <3>7 DEF Running, AllListed
    <3>9. b.end \notin Unit(0)
      <4>1. varIndex[b.end] = i + 1
        BY <3>7 DEF Present
      <4> QED
        BY <1>2, <2>1, <4>1
    <3>10. w \in Stands(b.end)
      BY <3>2, <3>5, <3>9 DEF Stands
    <3>11. b.end \in R[i + 1]
      BY <1>4, <2>1, <3>2, <3>4, <3>5 DEF IsRead
    <3>12. w \in Unit(i + 1)
      BY <1>1, <2>1, <3>2, <3>3, JobFacts
    <3> QED
      BY <3>8, <3>10, <3>11, <3>12
  <2> QED
    BY <2>1, <2>2
<1> HIDE DEF T
<1>7. \A i \in 0..Size : i \in T
  BY <1>5, <1>6, LayersAre, UpTo
<1>8. Kept1(Size)
  BY <1>7, LayersAre DEF T
<1> QED
  BY <1>8 DEF G, R

LEMMA NothingIsAdded ==
  ASSUME Running, job.kind = "restrict"
  PROVE  Language \subseteq Given!Language
<1>1. /\ Base /\ Backed /\ Types /\ Linked /\ Lists /\ job \in DiagramJobs
  BY DEF Running, Base, Types
<1>2. PICK r \in Node :
        /\ Unit(0) = {r} /\ Listed(0) = {r} /\ r \in alive /\ varIndex[r] = 0 /\ Stands(r) = {r}
        /\ Language = {t \in [1..Size -> Label] : ReachedBy(arcs, {r}, 0, t)[Size] # {}}
        /\ Given!Language = {t \in [1..Size -> Label] : ReachedBy(job.arcs, {r}, 0, t)[Size] # {}}
  BY <1>1, LanguagesAre
<1> SUFFICES ASSUME NEW t \in [1..Size -> Label], ReachedBy(arcs, {r}, 0, t)[Size] # {}
             PROVE  ReachedBy(job.arcs, {r}, 0, t)[Size] # {}
  BY <1>2
<1> DEFINE G == ReachedBy(job.arcs, {r}, 0, t)
           R == ReachedBy(arcs, {r}, 0, t)
           Backed1(i) == \A n \in R[i] : n \in alive /\ varIndex[n] = i /\ \E u \in Stands(n) : u \in G[i]
           T == {i \in 0..Size : Backed1(i)}
<1>3. IsRead(G, job.arcs, r, t)
  <2>1. job.arcs \in [Node -> Seq(Arc)]
    BY <1>1, JobFacts
  <2> QED
    BY <2>1, ReachedIs
<1>4. IsRead(R, arcs, r, t)
  <2>1. arcs \in [Node -> Seq(Arc)]
    BY <1>1 DEF Types
  <2> QED
    BY <2>1, ReachedIs
<1> HIDE DEF G, R
<1>5. 0 \in T
  BY <1>2, <1>3, <1>4, LayersAre DEF IsRead
\* The arc of a node is one of each of its units.
<1>6. ASSUME NEW i \in 0..Size - 1, i \in T
      PROVE  i + 1 \in T
  <2>1. i + 1 \in 1..Size /\ i + 1 \in 0..Size /\ (i + 1) - 1 = i /\ i + 1 # 0
    BY LayersAre
  <2>2. ASSUME NEW m \in R[i + 1]
        PROVE  m \in alive /\ varIndex[m] = i + 1 /\ \E w \in Stands(m) : w \in G[i + 1]
    <3>1. PICK n \in R[i] : \E b \in ToSet(arcs[n]) : b.value = t[i + 1] /\ b.end = m
      BY <1>4, <2>1 DEF IsRead
    <3>2. PICK b \in ToSet(arcs[n]) : b.value = t[i + 1] /\ b.end = m
      BY <3>1
    <3>3. n \in alive /\ varIndex[n] = i /\ \E u \in Stands(n) : u \in G[i]
      BY <1>6
    <3>4. PICK u \in Stands(n) : u \in G[i]
      BY <3>3
    <3>5. PICK a \in ToSet(job.arcs[u]) : a.value = b.value /\ a.end \in setOf[b.end]
      BY <1>1, <3>3 DEF Backed
    <3>6. m \in alive /\ varIndex[m] = i + 1
      <4>1. n \in Node
        BY <1>1, <3>3 DEF Types
      <4> QED
        BY <1>1, <3>2, <3>3, <4>1, ArcsOf
    <3>7. m \notin Unit(0)
      BY <1>2, <2>1, <3>6
    <3>8. a.end \in Stands(m)
      BY <3>2, <3>5, <3>7 DEF Stands
    <3>9. a.end \in G[i + 1]
      BY <1>3, <2>1, <3>2, <3>4, <3>5 DEF IsRead
    <3> QED
      BY <3>6, <3>8, <3>9
  <2> QED
    BY <2>1, <2>2
<1> HIDE DEF T
<1>7. \A i \in 0..Size : i \in T
  BY <1>5, <1>6, LayersAre, UpTo
<1>8. Backed1(Size)
  BY <1>7, LayersAre DEF T
<1> QED
  BY <1>8 DEF G, R

\* The nodes that a tuple can go through.
LEMMA ReachableIs ==
  ASSUME Base
  PROVE  /\ Reachable[0] = Listed(0)
         /\ \A i \in 1..Size : Reachable[i - 1] \subseteq Node =>
              \A m : m \in Reachable[i] <=> \E n \in Reachable[i - 1] : \E a \in ToSet(arcs[n]) : a.end = m
<1>1. Types /\ Size \in Nat /\ Layer = 0..Size
  BY LayersAre DEF Base
<1>2. PICK r \in Node : Listed(0) = {r} /\ Root = r
  BY LanguagesAre
<1> DEFINE U == SUBSET Node
           Below1(M) == UNION {{a.end : a \in ToSet(arcs[n])} : n \in M}
           next == [i \in 1..Size |-> [M \in U |-> Below1(M)]]
<1>3. ASSUME NEW M \in U
      PROVE  Below1(M) \in U
  <2>1. \A n \in M : \A a \in ToSet(arcs[n]) : a.end \in Node
    <3> SUFFICES ASSUME NEW n \in M, NEW a \in ToSet(arcs[n])
                 PROVE  a.end \in Node
      OBVIOUS
    <3>1. Linked
      BY DEF Base
    <3> QED
      BY <1>1, <3>1, ArcsOf
  <2> QED
    BY <2>1
<1>4. next \in [1..Size -> [U -> U]] /\ {Root} \in U
  BY <1>2, <1>3
<1>5. \A i \in 1..Size : \A M \in U : next[i][M] = Below1(M)
  OBVIOUS
<1> HIDE DEF U, next
<1>6. PICK g : g \in [0..Size -> U] /\ Iterates(g, {Root}, next, Size)
  BY <1>1, <1>4, RecursionExists
<1>7. \A i \in 0..Size : i # 0 => i \in 1..Size /\ i - 1 \in 0..Size
  BY <1>1
<1>8. g[0] = {Root} /\ \A i \in 1..Size : g[i] = Below1(g[i - 1])
  <2>1. g[0] = {Root} /\ \A i \in 1..Size : g[i] = next[i][g[i - 1]]
    BY <1>6 DEF Iterates
  <2>2. \A i \in 1..Size : i - 1 \in 0..Size
    BY <1>1
  <2> QED
    BY <1>5, <1>6, <2>1, <2>2
<1>9. g = [i \in Layer |-> IF i = 0 THEN {Root} ELSE Below1(g[i - 1])]
  BY <1>1, <1>6, <1>7, <1>8
<1>10. Reachable = [i \in Layer |-> IF i = 0 THEN {Root} ELSE Below1(Reachable[i - 1])]
  BY <1>9 DEF Reachable
<1>11. \A i \in 1..Size : i \in Layer /\ i # 0
  BY <1>1
<1>12. Reachable[0] = {Root} /\ \A i \in 1..Size : Reachable[i] = Below1(Reachable[i - 1])
  <2>1. 0 \in Layer
    BY <1>1
  <2> QED
    BY <1>10, <1>11, <2>1
<1>13. \A M, m : m \in Below1(M) <=> \E n \in M : \E a \in ToSet(arcs[n]) : a.end = m
  OBVIOUS
<1> HIDE DEF Below1
<1> QED
  BY <1>2, <1>12, <1>13

LEMMA LayersAreNarrow ==
  ASSUME Running, job.kind = "relax", step = "idle", layer + 1 = Size
  PROVE  \A l \in 1..Size - 1 : Cardinality(Reachable[l]) <= Width
<1>1. /\ Base /\ Narrow /\ Types /\ Linked /\ Lists /\ Counted /\ Waiting /\ AllListed
      /\ Ahead = Size
  BY DEF Running, Base, Ahead
<1>2. /\ Reachable[0] = Listed(0)
      /\ \A i \in 1..Size : Reachable[i - 1] \subseteq Node =>
           \A m : m \in Reachable[i] <=> \E n \in Reachable[i - 1] : \E a \in ToSet(arcs[n]) : a.end = m
  BY <1>1, ReachableIs
<1>3. \A l \in Layer : Listed(l) \subseteq Node
  BY <1>1 DEF Lists, Types
<1> DEFINE T == {i \in 0..Size : Reachable[i] \subseteq Listed(i)}
<1>4. 0 \in T
  BY <1>2, LayersAre
<1>5. ASSUME NEW i \in 0..Size - 1, i \in T
      PROVE  i + 1 \in T
  <2>1. i + 1 \in 1..Size /\ i + 1 \in 0..Size /\ (i + 1) - 1 = i /\ i \in Layer /\ i + 1 \in Layer
    BY LayersAre
  <2>2. ASSUME NEW m \in Reachable[i + 1]
        PROVE  m \in Listed(i + 1)
    <3>1. PICK n \in Reachable[i] : \E a \in ToSet(arcs[n]) : a.end = m
      <4>1. Reachable[i] \subseteq Node
        BY <1>3, <1>5, <2>1
      <4> QED
        BY <1>2, <2>1, <4>1
    <3>2. PICK a \in ToSet(arcs[n]) : a.end = m
      BY <3>1
    <3>3. n \in Node /\ varIndex[n] = i
      BY <1>1, <1>5, <2>1 DEF Lists, Types
    <3>4. m \in Present(i + 1)
      BY <1>1, <3>2, <3>3, EndsArePresent
    <3> QED
      BY <1>1, <2>1, <3>4 DEF Running, AllListed
  <2> QED
    BY <2>1, <2>2
<1> HIDE DEF T
<1>6. \A i \in 0..Size : i \in T
  BY <1>4, <1>5, LayersAre, UpTo
<1>7. \A i \in 0..Size : Reachable[i] \subseteq Listed(i)
  BY <1>6 DEF T
<1> SUFFICES ASSUME NEW l \in 1..Size - 1
             PROVE  Cardinality(Reachable[l]) <= Width
  OBVIOUS
<1>8. l \in 1..Size /\ l - 1 \in 0..Size /\ l - 1 \in Layer /\ l \in 1..Ahead - 1
  BY <1>1, LayersAre
<1>9. Reachable[l - 1] \subseteq Listed(l - 1) /\ Reachable[l - 1] \subseteq Node
  BY <1>3, <1>7, <1>8
<1>10. Reachable[l] \subseteq EndsOf(l - 1)
  BY <1>2, <1>8, <1>9 DEF EndsOf
<1>11. EndsOf(l - 1) \subseteq Node
  <2> SUFFICES ASSUME NEW n \in Listed(l - 1), NEW a \in ToSet(arcs[n])
               PROVE  a.end \in Node
    BY DEF EndsOf
  <2>1. n \in Node
    BY <1>3, <1>8
  <2> QED
    BY <1>1, <2>1, ArcsOf
<1>12. IsFiniteSet(EndsOf(l - 1))
  BY <1>11, NodeIsFinite
<1>13. /\ Cardinality(Reachable[l]) <= Cardinality(EndsOf(l - 1))
       /\ Cardinality(Reachable[l]) \in Nat /\ Cardinality(EndsOf(l - 1)) \in Nat
  BY <1>10, <1>12, FS_Subset, FS_CardinalityType
<1>14. Cardinality(EndsOf(l - 1)) <= Width
  BY <1>1, <1>8 DEF Narrow
<1> QED
  BY <1>13, <1>14, WidthIsPositive

\* A node that is used has not been deleted.
LEMMA UsedAreAlive ==
  ASSUME IInv
  PROVE  NoDeletedNodeUsed
<1>1. Types /\ Linked /\ Lists /\ phase \notin {"rebuild", "rebuilt"}
  <2>1. GivenInit => Types /\ Linked /\ Lists
    BY GivenFacts
  <2>2. Running => Types /\ Linked /\ Lists
    BY DEF Running, Base
  <2> QED
    BY <2>1, <2>2 DEF IInv
<1>2. ASSUME NEW l \in Layer, NEW n \in Listed(l), NEW a \in ToSet(arcs[n])
      PROVE  n \in alive /\ a.end \in alive /\ varIndex[a.end] = l + 1
  <2>1. n \in alive /\ n \in Node /\ varIndex[n] = l
    BY <1>1 DEF Lists, Types
  <2> QED
    BY <1>1, <2>1, ArcsOf
<1>3. \A l \in Layer : \A n \in Listed(l) : n \in alive
  BY <1>1 DEF Lists
<1>4. making # Null => setOf[making] # {} /\ setOf[making] \subseteq alive
  <2>1. GivenInit => making = Null
    BY DEF GivenInit, NoReducer
  <2>2. ASSUME Running, making # Null
        PROVE  setOf[making] # {} /\ setOf[making] \subseteq alive
    BY <2>2, MakingStands DEF Running
  <2> QED
    BY <2>1, <2>2 DEF IInv
<1> QED
  BY <1>1, <1>2, <1>3, <1>4 DEF NoDeletedNodeUsed

LEMMA TypesAreOK ==
  ASSUME IInv
  PROVE  TypeOK
<1>1. /\ Types /\ todo \in Seq(Node) /\ newNodes \in Seq(Node) /\ toDel \in Seq(Node)
      /\ making \in Node \cup {Null} /\ label \in Nat
  <2>1. ASSUME GivenInit
        PROVE  /\ Types /\ todo = <<>> /\ newNodes = <<>> /\ toDel = <<>>
               /\ making = Null /\ label = 0
    BY <2>1, GivenFacts DEF GivenInit, NoReducer
  <2>2. ASSUME Running
        PROVE  /\ Types /\ todo \in Seq(Node) /\ newNodes \in Seq(Node) /\ toDel \in Seq(Node)
               /\ making \in Node \cup {Null} /\ label \in Nat
    BY <2>2, MakingStands DEF Running, Base, Cursors, Waiting
  <2>3. GivenInit \/ Running
    BY DEF IInv
  <2>4. <<>> \in Seq(Node) /\ 0 \in Nat
    OBVIOUS
  <2>5. CASE GivenInit
    BY <2>1, <2>4, <2>5
  <2>6. CASE Running
    BY <2>2, <2>6
  <2> QED
    BY <2>3, <2>5, <2>6
<1>2. ToSet(todo) \cup ToSet(newNodes) \cup ToSet(toDel) \subseteq Node
  BY <1>1 DEF ToSet
<1>3. Range(free) = ToSet(free)
  BY DEF Range, ToSet
<1> QED
  BY <1>1, <1>2, <1>3 DEF TypeOK, MDDTypeOK, Types

-----------------------------------------------------------------------------
(***************************************************************************)
(* The theorems.                                                           *)
(***************************************************************************)
\* While a steady diagram is narrowed, the layers to come are as they were given, but for
\* the nodes that were made for sets of them; those above cover their units, or are backed
\* by all of them.
THEOREM NarrowingInvariant == GivenSpec /\ Steady(job) => []IInv
<1>1. GivenInit /\ Steady(job) => SteadyInv
  BY DEF SteadyInv, IInv, GivenInit
<1>2. SteadyInv /\ [Next]_vars => SteadyInv'
  BY NextIsCalm
<1>3. SteadyInv => IInv
  BY DEF SteadyInv
<1> QED
  BY <1>1, <1>2, <1>3, PTL DEF GivenSpec

\* No part of a steady diagram is led to a node that waits in to_del_nodes_, which the
\* next CleanLayer deletes: the cause of the loss that run relax_revived shows.
THEOREM NoNodeIsRevived == GivenSpec /\ Steady(job) => []NotRevived
<1>1. GivenInit /\ Steady(job) => SteadyInv
  BY DEF SteadyInv, IInv, GivenInit
<1>2. SteadyInv /\ [Next]_vars => SteadyInv'
  BY NextIsCalm
<1>3. SteadyInv => NotRevived
  BY CalmIsEnough DEF SteadyInv, Calm
<1> QED
  BY <1>1, <1>2, <1>3, PTL DEF GivenSpec

\* A reducer and a steady diagram keep their types: what is allocated and what is free
\* never overlap, whatever CleanLayer deletes.
THEOREM NarrowingIsTyped == GivenSpec /\ Steady(job) => []TypeOK
<1>1. IInv => TypeOK
  BY TypesAreOK
<1> QED
  BY <1>1, NarrowingInvariant, PTL

\* On a steady diagram ReduceLayer and CleanLayer use no node after its deletion, neither
\* as the end of an arc nor as a unit.
THEOREM NarrowingUsesLivingNodes == GivenSpec /\ Steady(job) => []NoDeletedNodeUsed
<1>1. IInv => NoDeletedNodeUsed
  BY UsedAreAlive
<1> QED
  BY <1>1, NarrowingInvariant, PTL

\* RelaxReduce loses no tuple of a steady diagram that it is given.
THEOREM RelaxationLosesNothing == GivenSpec /\ Steady(job) => []NothingLost
<1>1. IInv => NothingLost
  <2> SUFFICES ASSUME IInv, phase = "done", job.kind \in {"exact", "relax"}
               PROVE  Wanted \subseteq Language
    BY DEF NothingLost
  <2>1. Running /\ step = "idle" /\ layer + 1 = Size
    BY DEF IInv
  <2>2. job \in DiagramJobs
    BY <2>1 DEF Running, Base, Types
  <2>3. job.kind = "relax" /\ "problem" \notin DOMAIN job
    BY <2>2, GivenAreDiagrams DEF IsDiagram
  <2>4. Wanted = Given!Language
    BY <2>3 DEF Wanted
  <2> QED
    BY <2>1, <2>3, <2>4, NothingIsLost
<1> QED
  BY <1>1, NarrowingInvariant, PTL

\* RestrictedReduce adds no tuple to a steady diagram that it is given.
THEOREM RestrictionAddsNothing == GivenSpec /\ Steady(job) => []NothingAdded
<1>1. IInv => NothingAdded
  <2> SUFFICES ASSUME IInv, phase = "done", job.kind \in {"exact", "restrict"}
               PROVE  Language \subseteq Wanted
    BY DEF NothingAdded
  <2>1. Running
    BY DEF IInv
  <2>2. job \in DiagramJobs
    BY <2>1 DEF Running, Base, Types
  <2>3. job.kind = "restrict" /\ "problem" \notin DOMAIN job
    BY <2>2, GivenAreDiagrams DEF IsDiagram
  <2>4. Wanted = Given!Language
    BY <2>3 DEF Wanted
  <2> QED
    BY <2>1, <2>3, <2>4, NothingIsAdded
<1> QED
  BY <1>1, NarrowingInvariant, PTL

\* No layer of a steady diagram that was relaxed has more nodes that a tuple can go through
\* than the width (one that was restricted may: run restrict_width).
THEOREM RelaxationIsNarrow ==
  GivenSpec /\ Steady(job) => [](job.kind = "relax" => WithinWidth)
<1>1. IInv => (job.kind = "relax" => WithinWidth)
  <2> SUFFICES ASSUME IInv, job.kind = "relax", phase = "done"
               PROVE  \A l \in 1..Size - 1 : Cardinality(Reachable[l]) <= Width
    BY DEF WithinWidth
  <2>1. Running /\ step = "idle" /\ layer + 1 = Size
    BY DEF IInv
  <2> QED
    BY <2>1, LayersAreNarrow
<1> QED
  BY <1>1, NarrowingInvariant, PTL
=============================================================================
