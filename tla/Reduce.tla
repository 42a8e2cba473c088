------------------------------- MODULE Reduce -------------------------------
(***************************************************************************)
(* Reduce(mdd): from the last layer up, the arcs of each node are led to  *)
(* the representatives found in the layer below, and the nodes of the     *)
(* layer are partitioned by their arc lists with a radix sort whose keys  *)
(* are, in turn, the label and the end of the next arc of each node.      *)
(* The nodes whose key is the escape value are done; `over' sends them to *)
(* the last bucket and the sort goes on with the others.                   *)
(*                                                                         *)
(* The two copies of the permutation and of the union-find swap roles in  *)
(* every pass.  Positions are 0-based as in the code, and the vectors keep *)
(* what earlier layers left in them.                                       *)
(***************************************************************************)
EXTENDS MDD

CONSTANTS MaxDomSize,  \* MDD::maxDomSize_
          Diagrams     \* the MDDs to reduce

ASSUME LabelsAreInDomain ==
  MaxDomSize \in Nat /\ Label \subseteq 0..MaxDomSize - 1

\* Each node is in one list, once; arcs lead from a list to the next one, in
\* the order of their labels; an MDD has one last node and at most one root, or
\* no node at all.
ASSUME DiagramsAreLinked ==
  \A d \in Diagrams :
    /\ d.nodes \in [Layer -> Seq(Node)] /\ d.arcs \in [Node -> Seq(Arc)]
    /\ \A l, m \in Layer : \A i \in DOMAIN d.nodes[l], j \in DOMAIN d.nodes[m] :
         d.nodes[l][i] = d.nodes[m][j] => l = m /\ i = j
    /\ \A n \in Node : \A i \in DOMAIN d.arcs[n] :
         /\ i > 1 => d.arcs[n][i - 1].value <= d.arcs[n][i].value
         /\ \E l \in 1..Size : /\ Contains(d.nodes[l - 1], n)
                               /\ Contains(d.nodes[l], d.arcs[n][i].end)
    /\ \/ Len(d.nodes[0]) <= 1 /\ Len(d.nodes[Size]) = 1
       \/ \A l \in Layer : d.nodes[l] = <<>>

VARIABLES
  input,                  \* the nodes and arcs given to the constructor
  pc,                     \* what the constructor does next
  layer, todo, e, k,      \* its loops over layers, nodes, arcs; that of Merge
  largestLayer,           \* largest_layer_
  info1,                  \* Node::info1_
  layerSize, current,     \* layer_size, currentLayerSize
  layerNodes, layerArcs,  \* layer_nodes_; layer_arcs_, 0 is &escape_edge_
  values,                 \* layer_values_
  ids, lead,              \* layer_ids_1_, layer_ids_2_; leaders_1_, leaders_2_
  count, cumulative,      \* raddix_count_, raddix_cumulative_
  nonNull,                \* non_null_raddix_
  labelMode, swap,        \* raddix_mode, swap_status
  over, delta

given == <<input, largestLayer>>
loops == <<layer, todo, e, k>>
layerVars == <<info1, layerSize, layerNodes, layerArcs, values>>
packs == <<ids, lead>>
radix == <<count, cumulative, nonNull>>
modes == <<current, labelMode, swap, over, delta>>
reduceVars == <<given, pc, loops, layerVars, packs, radix, modes>>
vars == <<mddVars, reduceVars>>

\* Mutants: no room is left for the escape values.
TightLayer == LargestLayerSize
TightDomain == MaxDomSize

\* What largest_layer_ is initialised with, and largest_domain_.
LargestLayer == LargestLayerSize + 1
LargestDomain == MaxDomSize + 1

Index == 0..largestLayer - 1
Radix == 0..MaxOf({largestLayer, LargestDomain}) - 1

\* The keys of escape_edge_ and of escape_node_: no label and no position in
\* a layer is as large.
EscapeLabel == LargestDomain - 1
EscapeNode == largestLayer - 1

\* LayerID() and Leader(), LayerIDNext() and LeaderNext(), under swap_status.
This(s) == IF s THEN 1 ELSE 2
Other(s) == IF s THEN 2 ELSE 1

\* unionFind::leader follows the chain to its end; path compression does
\* not change where it ends.
Leader(chain, i) ==
  LET up[j \in 0..largestLayer] == IF j = 0 THEN i ELSE chain[up[j - 1]]
  IN up[largestLayer]

\* The fields before the constructor allocates them.
Unallocated ==
  /\ pc = "idle"
  /\ layer = Size /\ todo = <<>> /\ e = 0 /\ k = 0
  /\ info1 = [n \in Node |-> 0]
  /\ largestLayer = 0 /\ layerSize = 0 /\ current = 0
  /\ layerNodes = <<>> /\ layerArcs = <<>> /\ values = <<>>
  /\ ids = <<>> /\ lead = <<>>
  /\ count = <<>> /\ cumulative = <<>> /\ nonNull = <<>>
  /\ labelMode = TRUE /\ swap = TRUE
  /\ over = 0 /\ delta = 0

Init ==
  /\ input \in Diagrams
  /\ nodes = input.nodes /\ arcs = input.arcs
  /\ alive = UNION {Listed(l) : l \in Layer}
  /\ varIndex = [n \in Node |-> IF n \in alive
                                THEN CHOOSE l \in Layer : n \in Listed(l) ELSE 0]
  /\ nbIn = [n \in Node |-> Cardinality(ArcsInto(n, alive))]
  /\ newV = [n \in Node |-> n]
  /\ Unallocated

\* The vectors are sized by the largest layer; an empty MDD is left alone.
Construct ==
  /\ pc = "idle"
  /\ input' = [nodes |-> nodes, arcs |-> arcs]
  /\ largestLayer' = LargestLayer
  /\ LET Zero(I) == [i \in I |-> 0] IN
     /\ layerNodes' = [i \in Index' |-> Null]
     /\ layerArcs' = [i \in Index' |-> -1]
     /\ values' = Zero(Index')
     /\ ids' = [s \in 1..2 |-> Zero(Index')]
     /\ lead' = [s \in 1..2 |-> Zero(Index')]
     /\ count' = Zero(Radix')
     /\ cumulative' = Zero(Radix')
  /\ IF Final = Null
     THEN /\ pc' = "done"
          /\ UNCHANGED <<layer, info1>>
     ELSE /\ pc' = "layer"
          /\ layer' = Size - 1
          /\ info1' = [info1 EXCEPT ![Final] = 0]
  /\ UNCHANGED <<mddVars, todo, e, k, layerSize, nonNull, modes>>

\* clearDel finds toDel empty.
Finish ==
  /\ pc = "layer" /\ layer < 0
  /\ pc' = "done"
  /\ UNCHANGED <<mddVars, given, loops, layerVars, packs, radix, modes>>

(***************************************************************************)
(* ArcsUpdateRadixInit.  n_next and e_next are read before a removal.     *)
(***************************************************************************)
OpenLayer ==
  /\ pc = "layer" /\ layer >= 0
  /\ pc' = "node"
  /\ todo' = nodes[layer]
  /\ layerSize' = 0
  /\ UNCHANGED <<mddVars, given, layer, e, k, info1, layerNodes, layerArcs,
                 values, packs, radix, modes>>

OpenNode ==
  /\ pc = "node" /\ todo # <<>>
  /\ pc' = "arc"
  /\ e' = 1
  /\ newV' = [newV EXCEPT ![Head(todo)] = Head(todo)]
  /\ UNCHANGED <<nodes, alive, varIndex, arcs, nbIn, given, layer, todo, k,
                 layerVars, packs, radix, modes>>

\* Mutant: the arc keeps its end when that was merged.
NextArcKeepsEnd ==
  LET n == Head(todo)
      end == IF newV[arcs[n][e].end] = Null THEN Null ELSE arcs[n][e].end
  IN /\ pc = "arc" /\ e <= Len(arcs[n])
     /\ UpdateArc(n, e, end)
     /\ e' = IF end = Null THEN e ELSE e + 1
     /\ UNCHANGED <<given, pc, layer, todo, k, layerVars, packs, radix, modes>>

NextArc ==
  LET n == Head(todo)
      end == newV[arcs[n][e].end]
  IN /\ pc = "arc" /\ e <= Len(arcs[n])
     /\ UpdateArc(n, e, end)
     /\ e' = IF end = Null THEN e ELSE e + 1
     /\ UNCHANGED <<given, pc, layer, todo, k, layerVars, packs, radix, modes>>

EnlistNode ==
  LET n == Head(todo) IN
  /\ pc = "arc" /\ e > Len(arcs[n]) /\ arcs[n] # <<>>
  /\ pc' = "node" /\ todo' = Tail(todo)
  /\ layerNodes' = [layerNodes EXCEPT ![layerSize] = n]
  /\ layerArcs' = [layerArcs EXCEPT ![layerSize] = 1]
  /\ values' = [values EXCEPT ![layerSize] = arcs[n][1].value]
  /\ ids' = [s \in 1..2 |-> [ids[s] EXCEPT ![layerSize] = layerSize]]
  /\ lead' = [s \in 1..2 |-> [lead[s] EXCEPT ![layerSize] = 0]]
  /\ info1' = [info1 EXCEPT ![n] = layerSize]
  /\ layerSize' = layerSize + 1
  /\ UNCHANGED <<mddVars, given, layer, e, k, radix, modes>>

\* Mutant: the layer above is not told that the node is out.
DropNodeSilently ==
  LET n == Head(todo) IN
  /\ pc = "arc" /\ arcs[n] = <<>>
  /\ pc' = "node" /\ todo' = Tail(todo)
  /\ Unlink(n)
  /\ UNCHANGED <<newV, alive, varIndex, arcs, nbIn, given, layer, e, k, layerVars,
                 packs, radix, modes>>

DropNode ==
  LET n == Head(todo) IN
  /\ pc = "arc" /\ arcs[n] = <<>>
  /\ pc' = "node" /\ todo' = Tail(todo)
  /\ Unlink(n)
  /\ newV' = [newV EXCEPT ![n] = Null]
  /\ UNCHANGED <<alive, varIndex, arcs, nbIn, given, layer, e, k, layerVars,
                 packs, radix, modes>>

BeginSort ==
  /\ pc = "node" /\ todo = <<>>
  /\ pc' = "sort"
  /\ current' = layerSize
  /\ labelMode' = TRUE /\ swap' = TRUE
  /\ over' = EscapeLabel
  /\ UNCHANGED <<mddVars, given, loops, layerVars, packs, radix, delta>>

-----------------------------------------------------------------------------
\* The key of the node at position j of the permutation of this pass.
Key(j) == values[ids[This(swap)][j]]

Active == 0..current - 1

RadixCount ==
  /\ pc = "sort" /\ current > 1
  /\ pc' = "cumulate"
  /\ count' = [v \in Radix |->
                 count[v] + Cardinality({j \in Active : Key(j) = v})]
  /\ LET first == {j \in Active : /\ count[Key(j)] = 0
                                 /\ \A i \in 0..j - 1 : Key(i) # Key(j)}
     IN nonNull' = nonNull \o Kept([j \in Active |-> Key(j)], first)
  /\ delta' = count'[over]
  /\ UNCHANGED <<mddVars, given, loops, layerVars, packs, cumulative,
                 current, labelMode, swap, over>>

\* `over' trades places with the last key.
RadixCumulative ==
  LET last == Len(nonNull)
      keys == [i \in 1..last |-> IF nonNull[i] = over THEN nonNull[last]
                                 ELSE IF i = last /\ over \in ToSet(nonNull)
                                      THEN over ELSE nonNull[i]]
      before[i \in 1..last] ==
        IF i = 1 THEN 0 ELSE before[i - 1] + count[keys[i - 1]]
  IN /\ pc = "cumulate"
     /\ pc' = "permute"
     /\ cumulative' = [v \in Radix |->
                         IF v \in ToSet(keys)
                         THEN before[CHOOSE i \in 1..last : keys[i] = v]
                         ELSE cumulative[v]]
     /\ count' = [v \in Radix |-> IF v \in ToSet(keys) THEN 0 ELSE count[v]]
     /\ nonNull' = <<>>
     /\ UNCHANGED <<mddVars, given, loops, layerVars, packs, modes>>

\* Nodes of one key keep their order.
Permutation ==
  LET place(j) == cumulative[Key(j)]
                  + Cardinality({i \in 0..j - 1 : Key(i) = Key(j)})
  IN /\ pc = "permute"
     /\ pc' = "lead"
     /\ ids' = [ids EXCEPT ![Other(swap)] =
                  [i \in Index |-> IF \E j \in Active : place(j) = i
                                   THEN ids[This(swap)][CHOOSE j \in Active :
                                                          place(j) = i]
                                   ELSE @[i]]]
     /\ cumulative' = [v \in Radix |->
                         cumulative[v] + Cardinality({j \in Active : Key(j) = v})]
     /\ swap' = ~swap
     /\ UNCHANGED <<mddVars, given, loops, layerVars, lead, count, nonNull,
                    current, labelMode, over, delta>>

\* Mutant: the packs of the pass before are forgotten.
SameKey(i, prev) == values[i] = values[prev]

\* Two neighbours stay in one pack.
SamePack(i, prev) ==
  /\ values[i] = values[prev]
  /\ Leader(lead[Other(swap)], i) = Leader(lead[Other(swap)], prev)

\* Mutant: the neighbour leads, whether or not it leads itself.
NeighbourLeads(prevHead, prev) == prev

\* What leads a node of the pack of prev: what leads prev.
PackLeader(prevHead, prev) == prevHead

\* The positions of the finished packs.
Ended == {j \in Active : j >= current - delta}

\* The finished packs are copied to the other pair of vectors.
LeadManagement ==
  LET this == This(swap)
      other == Other(swap)
      id == ids[this]
      head[j \in Active] ==
        IF j = 0 THEN id[0]
        ELSE IF SamePack(id[j], id[j - 1])
        THEN PackLeader(head[j - 1], id[j - 1])
        ELSE id[j]
      leadOf(i, J, old) == IF \E j \in J : id[j] = i
                           THEN head[CHOOSE j \in J : id[j] = i] ELSE old
  IN /\ pc = "lead"
     /\ lead' = [s \in 1..2 |-> [i \in Index |->
                   leadOf(i, IF s = this THEN Active ELSE Ended, lead[s][i])]]
     /\ ids' = [ids EXCEPT ![other] =
                  [j \in Index |-> IF j \in Ended THEN id[j] ELSE @[j]]]
     /\ current' = current - delta
     /\ pc' = IF current' = 0 THEN "merge" ELSE "prepare"
     /\ k' = 0
     /\ UNCHANGED <<mddVars, given, layer, todo, e, layerVars, radix,
                    labelMode, swap, over, delta>>

\* The node at position j is alone in its pack: nothing is left to compare.
Alone(j) ==
  LET chain == lead[This(swap)]
      id == ids[This(swap)]
  IN /\ Leader(chain, id[j]) = id[j]
     /\ j < current - 1 => Leader(chain, id[j + 1]) # id[j]

ActiveIds == {ids[This(swap)][j] : j \in Active}
AloneIds == {ids[This(swap)][j] : j \in {i \in Active : Alone(i)}}

\* The next keys are the ends of the arcs whose labels were sorted.
PrepareNextRadixLabel ==
  /\ pc = "prepare" /\ labelMode
  /\ layerArcs' = [i \in Index |-> IF i \in AloneIds THEN 0 ELSE layerArcs[i]]
  /\ values' = [i \in Index |->
                  IF i \notin ActiveIds THEN values[i]
                  ELSE IF layerArcs'[i] = 0 THEN EscapeNode
                  ELSE info1[arcs[layerNodes[i]][layerArcs[i]].end]]
  /\ over' = EscapeNode
  /\ labelMode' = FALSE
  /\ pc' = "sort"
  /\ UNCHANGED <<mddVars, given, loops, info1, layerSize, layerNodes, packs,
                 radix, current, swap, delta>>

\* Mutants: the sort stays at the same arc; it leaves the last arc out.
SameArc(i) == layerArcs[i]
NextButLast(i) ==
  IF layerArcs[i] = 0 \/ layerArcs[i] + 1 >= Len(arcs[layerNodes[i]])
  THEN 0 ELSE layerArcs[i] + 1

\* next_, the escape arc after the last one.
ArcAfter(i) ==
  IF layerArcs[i] = 0 \/ layerArcs[i] = Len(arcs[layerNodes[i]])
  THEN 0 ELSE layerArcs[i] + 1

\* The next keys are the labels of the next arcs.
PrepareNextRadixNode ==
  /\ pc = "prepare" /\ ~labelMode
  /\ layerArcs' = [i \in Index |-> IF i \in AloneIds THEN 0
                                   ELSE IF i \in ActiveIds THEN ArcAfter(i)
                                   ELSE layerArcs[i]]
  /\ values' = [i \in Index |->
                  IF i \notin ActiveIds THEN values[i]
                  ELSE IF layerArcs'[i] = 0 THEN EscapeLabel
                  ELSE arcs[layerNodes[i]][layerArcs'[i]].value]
  /\ over' = EscapeLabel
  /\ labelMode' = TRUE
  /\ pc' = "sort"
  /\ UNCHANGED <<mddVars, given, loops, info1, layerSize, layerNodes, packs,
                 radix, current, swap, delta>>

EndSort ==
  /\ pc = "sort" /\ current <= 1
  /\ pc' = "merge" /\ k' = 0
  /\ UNCHANGED <<mddVars, given, layer, todo, e, layerVars, packs, radix, modes>>

\* Mutant: the node is looked up by its position in the permutation.
MergeByPosition ==
  LET leader == Leader(lead[This(swap)], ids[This(swap)][k])
  IN /\ pc = "merge" /\ k < layerSize
     /\ newV' = [newV EXCEPT ![layerNodes[k]] = newV[layerNodes[leader]]]
     /\ IF k # leader THEN Unlink(layerNodes[k]) ELSE UNCHANGED nodes
     /\ k' = k + 1
     /\ UNCHANGED <<alive, varIndex, arcs, nbIn, given, pc, layer, todo, e,
                    layerVars, packs, radix, modes>>

\* One turn of the loop of Merge.
Merge ==
  LET id == ids[This(swap)][k]
      leader == Leader(lead[This(swap)], id)
  IN /\ pc = "merge" /\ k < layerSize
     /\ newV' = [newV EXCEPT ![layerNodes[id]] = newV[layerNodes[leader]]]
     /\ IF id # leader THEN Unlink(layerNodes[id]) ELSE UNCHANGED nodes
     /\ k' = k + 1
     /\ UNCHANGED <<alive, varIndex, arcs, nbIn, given, pc, layer, todo, e,
                    layerVars, packs, radix, modes>>

CloseLayer ==
  /\ pc = "merge" /\ k = layerSize
  /\ pc' = "layer" /\ layer' = layer - 1
  /\ UNCHANGED <<mddVars, given, todo, e, k, layerVars, packs, radix, modes>>

Next ==
  \/ Construct \/ OpenLayer \/ OpenNode \/ NextArc \/ EnlistNode \/ DropNode
  \/ BeginSort \/ RadixCount \/ RadixCumulative \/ Permutation
  \/ LeadManagement \/ PrepareNextRadixLabel \/ PrepareNextRadixNode
  \/ EndSort \/ Merge \/ CloseLayer \/ Finish

\* The constructor runs in one thread: it goes on as long as it can.
Spec == Init /\ [][Next]_vars /\ WF_vars(Next)
-----------------------------------------------------------------------------
\* The bounds of values, ids and leaders are those of the vectors that they
\* index.
TypeOK ==
  /\ MDDTypeOK
  /\ layer \in -1..Size /\ todo \in Seq(Node)
  /\ pc # "idle" =>
       /\ layerSize < largestLayer /\ current \in Index /\ delta \in Index
       /\ info1 \in [Node -> Index]
       /\ layerNodes \in [Index -> Node \cup {Null}]
       /\ layerArcs \in [Index -> Int] /\ values \in [Index -> Radix]
       /\ ids \in [1..2 -> [Index -> Index]] /\ lead \in [1..2 -> [Index -> Index]]
       /\ count \in [Radix -> Index] /\ cumulative \in [Radix -> Index]
       /\ nonNull \in Seq(Radix)

(***************************************************************************)
(* The escape value is a key of the nodes that are done and of no other:  *)
(* the labels and the positions of a layer stay below it, although both   *)
(* are sorted in the same counters (Reduce.cpp:28-44, 119-126).            *)
(***************************************************************************)
EscapeIsNoKey ==
  pc = "sort" => \A i \in ActiveIds : values[i] = over <=> layerArcs[i] = 0

(***************************************************************************)
(* Every chain of leaders that is followed ends after one step: leader()  *)
(* terminates although the leaders of earlier passes and layers are never *)
(* cleared (Reduce.cpp:159-180, union.hpp:39-44).                          *)
(***************************************************************************)
ChainsEnd ==
  LET Ends(s, I) == \A i \in I : lead[s][lead[s][i]] = lead[s][i]
  IN /\ pc = "lead" => Ends(Other(swap), ActiveIds)
     /\ pc = "prepare" => Ends(This(swap), ActiveIds)
     /\ pc = "merge" => Ends(This(swap), 0..layerSize - 1)

(***************************************************************************)
(* When a layer is merged its nodes are grouped into one pack for each    *)
(* list of arcs, and the permutation that Merge goes through has lost no  *)
(* node, although packs are finished in different passes, alone or not,   *)
(* on one or the other of the two copies (Reduce.cpp:55-80, 174-179).      *)
(***************************************************************************)
PacksAreClasses ==
  pc = "merge" =>
    LET s == This(swap)
        I == 0..layerSize - 1
    IN /\ {ids[s][i] : i \in I} = I
       /\ \A i, j \in I : Leader(lead[s], i) = Leader(lead[s], j)
                            <=> arcs[layerNodes[i]] = arcs[layerNodes[j]]

(***************************************************************************)
(* The constructor leaves the set of tuples of the MDD as it was.         *)
(***************************************************************************)
Before == INSTANCE MDD WITH nodes <- input.nodes, arcs <- input.arcs

TuplesKept == pc = "done" => Language = Before!Language

(***************************************************************************)
(* What is left is reduced: no two nodes of a layer can be read the same  *)
(* way, when no node has two arcs with one label.                          *)
(***************************************************************************)
Deterministic ==
  \A n \in Node : \A i, j \in DOMAIN input.arcs[n] :
    input.arcs[n][i].value = input.arcs[n][j].value => i = j

Canonical ==
  pc = "done" /\ Deterministic =>
    \A l \in Layer : \A n, m \in Listed(l) : Tails(n) = Tails(m) => n = m

(***************************************************************************)
(* No node is left from which the last layer cannot be reached, and no    *)
(* arc to a node that was taken out.                                       *)
(***************************************************************************)
NoDeadEnd ==
  pc = "done" =>
    \A l \in Layer : \A n \in Listed(l) :
      /\ l < Size => arcs[n] # <<>>
      /\ \A i \in DOMAIN arcs[n] : arcs[n][i].end \in Listed(l + 1)

(***************************************************************************)
(* Every pass of the sort finishes a pack or goes one arc further, so the *)
(* constructor returns.                                                    *)
(***************************************************************************)
Returns == <>(pc = "done")

\* The arcs of a node as Reduction sees them.
Out == [n \in Node |-> {<<arcs[n][i].value, arcs[n][i].end>> : i \in DOMAIN arcs[n]}]

Steps == INSTANCE Reduction WITH out <- Out

(***************************************************************************)
(* The merges that the radix sort finds, and all that the constructor     *)
(* does to arcs and representatives, are steps of Reduction.               *)
(***************************************************************************)
ImplementsReduction == Steps!Spec

(***************************************************************************)
(* "Return the number of incoming arcs" (MDD.hpp:250).                    *)
(***************************************************************************)
InDegreeCounts ==
  \A m \in alive : nbIn[m] = Cardinality(ArcsInto(m, alive))
=============================================================================
