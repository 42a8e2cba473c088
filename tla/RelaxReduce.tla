----------------------------- MODULE RelaxReduce -----------------------------
(***************************************************************************)
(* RelaxReduce: layer after layer, the nodes of a layer that is wider than*)
(* Width are merged in parts.  A merged node stands for the set of its    *)
(* units, nodes of the diagram given to the constructor; its arcs lead to *)
(* the sets of the ends of the arcs of its units, whose own arcs are built*)
(* when their layer is reached.  So units that left the diagram must live *)
(* on in to_del_nodes_ until the layer below was built.                    *)
(***************************************************************************)
EXTENDS MDD

CONSTANT Width   \* width_relax_

ASSUME WidthIsPositive == Width \in Nat \ {0}

VARIABLES
  free,       \* Node::allocated, the nodes to construct next
  step,       \* where ReduceLayer is: idle, part, build or fill, above, clean
  layer,      \* its argument
  setOf,      \* nodes_to_set_
  nodeOf,     \* sets_to_node_
  parts,      \* what is left of partition_
  newNodes,   \* new_nodes_, without the null pointers
  todo,       \* the nodes whose arcs are still to be built
  making,     \* the node whose arcs are built
  label,      \* the labels below have been treated
  toDel,      \* to_del_nodes_
  cleans,     \* the argument clean
  lost        \* chains of nodes cut off from the list of their layer

sets == <<setOf, nodeOf>>
cursors == <<parts, newNodes, todo, making, label>>
relaxVars == <<free, step, layer, sets, cursors, toDel, cleans, lost>>

\* A reducer before its constructor.
NoReducer ==
  /\ step = "idle" /\ layer = 0
  /\ setOf = [n \in Node |-> {}] /\ nodeOf = <<>>
  /\ parts = <<>> /\ newNodes = <<>> /\ todo = <<>>
  /\ making = Null /\ label = 0
  /\ toDel = <<>> /\ cleans = TRUE /\ lost = {}

\* Every node is its own unit.
Construct ==
  LET units == UNION {Listed(l) : l \in 1..Size} IN
  /\ setOf' = [n \in Node |-> IF n \in units THEN {n} ELSE {}]
  /\ nodeOf' = [S \in {{n} : n \in units} |-> CHOOSE n \in units : S = {n}]
  /\ toDel' = <<>>
  /\ UNCHANGED <<mddVars, free, step, layer, cursors, cleans, lost>>

-----------------------------------------------------------------------------
(***************************************************************************)
(* GetNodeForSet: a set that has no node yet gets one.                    *)
(***************************************************************************)
NodeFor(S) ==
  IF Cardinality(S) = 1 THEN CHOOSE n \in S : TRUE
  ELSE IF S \in DOMAIN nodeOf THEN nodeOf[S] ELSE Null

\* The model has a bounded number of nodes.
MakeNode(S) ==
  LET n == Head(free) IN
  /\ NodeFor(S) = Null /\ free # <<>>
  /\ CreateNode(n, varIndex[CHOOSE u \in S : TRUE])
  /\ free' = Tail(free)
  /\ nodeOf' = [T \in {S} \cup DOMAIN nodeOf |-> IF T = S THEN n ELSE nodeOf[T]]
  /\ setOf' = [setOf EXCEPT ![n] = S]

Units(S) == UNION {setOf[n] : n \in S}

\* Mutant: one node too many.
FitsBarely(l) == Len(nodes[l]) <= Width + 1

Fits(l) == Len(nodes[l]) <= Width

\* ReduceLayer, up to the first node that it builds.
ReduceLayer(l, clean, Partitions) ==
  /\ step = "idle"
  /\ layer' = l /\ cleans' = clean
  /\ IF Fits(l)
     THEN /\ step' = "fill"
          /\ todo' = nodes[l]
          /\ UNCHANGED <<parts, newNodes>>
     ELSE /\ step' = "part"
          /\ parts' \in Partitions
          /\ newNodes' = <<>>
          /\ UNCHANGED todo
  /\ UNCHANGED <<mddVars, free, sets, making, label, toDel, lost>>

\* BuildNodeForPartitions, part after part.
NamePart ==
  /\ step = "part" /\ parts # <<>> /\ Head(parts) # {}
  /\ MakeNode(Units(Head(parts)))
  /\ UNCHANGED <<step, layer, cursors, toDel, cleans, lost>>

LeadPart ==
  LET n == NodeFor(Units(Head(parts))) IN
  /\ step = "part" /\ parts # <<>>
  /\ IF Head(parts) = {}
     THEN UNCHANGED <<newV, newNodes>>
     ELSE /\ n # Null
          /\ newV' = [m \in Node |-> IF m \in Head(parts) THEN n ELSE newV[m]]
          /\ newNodes' = Append(newNodes, n)
  /\ parts' = Tail(parts)
  /\ UNCHANGED <<nodes, alive, varIndex, arcs, nbIn, free, step, layer, sets,
                 todo, making, label, toDel, cleans, lost>>

EndParts ==
  /\ step = "part" /\ parts = <<>>
  /\ step' = "build" /\ todo' = newNodes
  /\ UNCHANGED <<mddVars, free, layer, sets, parts, newNodes, making, label,
                 toDel, cleans, lost>>

-----------------------------------------------------------------------------
(***************************************************************************)
(* BuildOutgoingArcs: the union of the arcs of the units of `making',     *)
(* label by label.  The arcs of a unit are ordered: those that arcs_ has  *)
(* passed are those whose label is smaller than `label'.                   *)
(***************************************************************************)
Building == step \in {"build", "fill"}

BeginNode ==
  /\ Building /\ making = Null /\ todo # <<>>
  /\ IF arcs[Head(todo)] = <<>>
     THEN making' = Head(todo) /\ label' = 0 /\ UNCHANGED todo
     ELSE todo' = Tail(todo) /\ UNCHANGED <<making, label>>
  /\ UNCHANGED <<mddVars, free, step, layer, sets, parts, newNodes, toDel, cleans, lost>>

ArcsLeft == {a \in UNION {ToSet(arcs[u]) : u \in setOf[making]} : a.value >= label}

MinLabel == CHOOSE v \in Label : /\ \E a \in ArcsLeft : a.value = v
                                 /\ \A a \in ArcsLeft : v <= a.value

Ends == {a.end : a \in {b \in ArcsLeft : b.value = MinLabel}}

NameEnds ==
  /\ Building /\ making # Null /\ ArcsLeft # {}
  /\ MakeNode(Ends)
  /\ UNCHANGED <<step, layer, cursors, toDel, cleans, lost>>

AddUnionArc ==
  /\ Building /\ making # Null /\ ArcsLeft # {}
  /\ NodeFor(Ends) # Null
  /\ AddArcLast(making, MinLabel, NodeFor(Ends))
  /\ label' = MinLabel + 1
  /\ UNCHANGED <<free, step, layer, sets, parts, newNodes, todo, making, toDel, cleans, lost>>

EndNode ==
  /\ Building /\ making # Null /\ ArcsLeft = {}
  /\ making' = Null /\ todo' = Tail(todo)
  /\ UNCHANGED <<mddVars, free, step, layer, sets, parts, newNodes, label, toDel, cleans, lost>>

\* A layer that is not too wide is left as soon as it is filled.
EndBuild ==
  /\ Building /\ making = Null /\ todo = <<>>
  /\ step' = IF step = "fill" THEN "idle" ELSE "above"
  /\ UNCHANGED <<mddVars, free, layer, sets, cursors, toDel, cleans, lost>>

-----------------------------------------------------------------------------
\* Leader: the end of the chain of newV_, each node of which is led there.
Chain(n) ==
  LET up[i \in 0..Cardinality(Node)] == IF i = 0 THEN n ELSE newV[up[i - 1]] IN up
Leader(n) == Chain(n)[Cardinality(Node)]

UpdateAbove ==
  LET above == Listed(layer - 1)
      ends == UNION {{a.end : a \in ToSet(arcs[n])} : n \in above}
      met == {Chain(m)[i] : m \in ends, i \in 0..Cardinality(Node)}
  IN /\ step = "above"
     /\ arcs' = [n \in Node |-> IF n \notin above THEN arcs[n] ELSE
                   [i \in DOMAIN arcs[n] |-> [arcs[n][i] EXCEPT !.end = Leader(@)]]]
     /\ nbIn' = [m \in Node |-> nbIn[m] - Cardinality(ArcsInto(m, above))
                  + Cardinality(UNION {ArcsInto(k, above) :
                                       k \in {j \in ends : Leader(j) = m}})]
     /\ newV' = [n \in Node |-> IF n \in met THEN Leader(n) ELSE newV[n]]
     /\ step' = IF cleans THEN "clean" ELSE "idle"
     /\ UNCHANGED <<nodes, alive, varIndex, free, layer, sets, cursors, toDel, cleans, lost>>

(***************************************************************************)
(* CleanLayer: the nodes of layer l that lost their last arc are deleted, *)
(* and those of the layer that lost theirs before; those of the layer     *)
(* below that lose theirs now stay, out of the diagram, for the sets that *)
(* they are units of.                                                      *)
(***************************************************************************)
Among(s, N) == Kept(s, {i \in DOMAIN s : s[i] \in N})

Deleted(l) == Among(nodes[l], {n \in Node : nbIn[n] = 0}) \o toDel

DegreesLeft(l) ==
  [m \in Node |-> nbIn[m] - Cardinality(ArcsInto(m, ToSet(Deleted(l))))]

Orphans(l) ==
  IF l + 1 = Size THEN <<>>
  ELSE Among(nodes[l + 1], {n \in Node : DegreesLeft(l)[n] = 0})

\* Mutant: to_del_nodes_ is not cleared.
StillToDelete(l) == toDel \o Orphans(l)

ToDelete(l) == Orphans(l)

CleanedLayer(l) ==
  /\ nbIn' = DegreesLeft(l)
  /\ alive' = alive \ ToSet(Deleted(l))
  /\ arcs' = [n \in Node |-> IF n \in ToSet(Deleted(l)) THEN <<>> ELSE arcs[n]]
  /\ nodes' = [nodes EXCEPT ![l] = Among(@, Node \ ToSet(Deleted(l))),
                            ![l + 1] = Among(@, Node \ ToSet(Orphans(l)))]
  /\ toDel' = ToDelete(l)
  /\ free' = Reverse(Deleted(l)) \o free
  /\ UNCHANGED <<varIndex, newV>>

CleanLayer ==
  /\ step = "clean"
  /\ CleanedLayer(layer)
  /\ step' = "idle"
  /\ UNCHANGED <<layer, sets, cursors, cleans, lost>>

Common == NamePart \/ LeadPart \/ EndParts \/ BeginNode \/ NameEnds
          \/ EndBuild \/ UpdateAbove \/ CleanLayer

\* One step of a call of ReduceLayer.
Reducing == Common \/ AddUnionArc \/ EndNode
=============================================================================
