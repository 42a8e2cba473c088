----------------------------- MODULE ReduceProofs -----------------------------
(***************************************************************************)
(* Reduce is correct for every set of diagrams, every domain and every    *)
(* size: the types, the bounds of the vectors, the packs of the radix     *)
(* sort, and that its steps are those of Reduction.                        *)
(*                                                                         *)
(* The inductive invariant IInv says what the diagram around the layer    *)
(* that is reduced is like, and, for each step of the constructor, what   *)
(* the vectors hold.  A pass of the sort is that of SequenceLemmas.        *)
(***************************************************************************)
EXTENDS Reduce, SequenceLemmas, ReadingLemmas

-----------------------------------------------------------------------------
(***************************************************************************)
(* The diagram.                                                            *)
(***************************************************************************)

\* The diagram that the constructor is given, and its nodes: others may be
\* alive, which it does not meet.
GivenNodes == IF pc = "idle" THEN nodes ELSE input.nodes
GivenArcs == IF pc = "idle" THEN arcs ELSE input.arcs
Part == UNION {ToSet(GivenNodes[l]) : l \in Layer}

\* The nodes that layer l had at first, those taken out included.
Was(l) == {n \in Part : varIndex[n] = l}

Types ==
  /\ nodes \in [Layer -> Seq(Node)]
  /\ alive \subseteq Node /\ Part \subseteq alive
  /\ varIndex \in [Node -> Layer]
  /\ arcs \in [Node -> Seq(Arc)]
  /\ nbIn \in [Node -> Int]
  /\ newV \in [Node -> Node \cup {Null}]

Lists == \A l \in Layer : IsInjective(nodes[l]) /\ ToSet(nodes[l]) \subseteq Was(l)

ArcsGoDown ==
  \A n \in Node : \A i \in DOMAIN arcs[n] :
    /\ n \in alive /\ arcs[n][i].end \in alive
    /\ varIndex[arcs[n][i].end] = varIndex[n] + 1
    /\ n \in Part => arcs[n][i].end \in Part

Frame == Types /\ Lists /\ ArcsGoDown

\* The arcs of n lead to nodes of the list of layer l.
LeadsTo(n, l) == \A i \in DOMAIN arcs[n] : arcs[n][i].end \in ToSet(nodes[l])

\* Layer l after its turn and before it.
Reduced(l) ==
  /\ \A n \in ToSet(nodes[l]) : newV[n] = n /\ (l < Size => arcs[n] # <<>> /\ LeadsTo(n, l + 1))
  /\ \A n \in Was(l) : newV[n] = Null \/ newV[n] \in ToSet(nodes[l])
  /\ l < Size => \A n, m \in ToSet(nodes[l]) : arcs[n] = arcs[m] => n = m

Untouched(l) == ToSet(nodes[l]) = Was(l) /\ \A n \in Was(l) : newV[n] = n

\* Arcs with one label may be next to each other.
Sorted(a) == \A i \in DOMAIN a : i > 1 => a[i - 1].value <= a[i].value

Rooted ==
  \/ Len(nodes[0]) <= 1 /\ Len(nodes[Size]) = 1
  \/ \A l \in Layer : nodes[l] = <<>>

\* Before the constructor starts.
AtRest ==
  /\ \A l \in Layer : Untouched(l)
  /\ Rooted /\ \A n \in Node : Sorted(arcs[n])
  /\ newV = [n \in Node |-> n]
  /\ layer = Size /\ info1 = [n \in Node |-> 0]
  /\ layerSize = 0 /\ current = 0 /\ delta = 0 /\ nonNull = <<>>

-----------------------------------------------------------------------------
(***************************************************************************)
(* The vectors, and the layers around the one that is reduced.             *)
(***************************************************************************)
Vectors ==
  /\ largestLayer \in Nat \ {0}
  /\ \A l \in 0..Size - 1 : Len(nodes[l]) < largestLayer
  /\ layerSize \in Index /\ current \in Index /\ delta \in Index
  /\ info1 \in [Node -> Index]
  /\ layerNodes \in [Index -> Node \cup {Null}]
  /\ layerArcs \in [Index -> Int] /\ values \in [Index -> Radix]
  /\ ids \in [1..2 -> [Index -> Index]] /\ lead \in [1..2 -> [Index -> Index]]
  /\ count \in [Radix -> Index] /\ cumulative \in [Radix -> Index]
  /\ nonNull \in Seq(Radix)

NoCounts == (\A v \in Radix : count[v] = 0) /\ nonNull = <<>>

\* The places of the representatives below are keys of their own.
PlacesBelow ==
  /\ \A n \in ToSet(nodes[layer + 1]) : info1[n] < EscapeNode \/ largestLayer = 1
  /\ \A n, m \in ToSet(nodes[layer + 1]) : info1[n] = info1[m] => n = m

Around ==
  /\ layer < Size /\ PlacesBelow
  /\ \A l \in Layer : l > layer => Reduced(l)
  /\ \A l \in Layer : l < layer => Untouched(l)

\* The nodes of the layer by their place.
Places == 0..layerSize - 1
ArcsOf == [i \in Places |-> arcs[layerNodes[i]]]

Enlisted ==
  \A i \in Places :
    /\ layerNodes[i] \in Was(layer) /\ info1[layerNodes[i]] = i
    /\ arcs[layerNodes[i]] # <<>> /\ LeadsTo(layerNodes[i], layer + 1)

\* A node of the layer is its own representative until it is taken out.
OwnOrDead ==
  \A n \in Was(layer) : newV[n] = IF n \in ToSet(nodes[layer]) THEN n ELSE Null

Collecting ==
  /\ IsInjective(todo)
  /\ ToSet(nodes[layer]) = ToSet(todo) \cup {layerNodes[i] : i \in Places}
  /\ \A i \in Places : layerNodes[i] \notin ToSet(todo)
  /\ layerSize + Len(todo) < largestLayer
  /\ OwnOrDead /\ Enlisted
  /\ \A i \in Places :
       /\ layerArcs[i] = 1 /\ values[i] = arcs[layerNodes[i]][1].value
       /\ \A s \in 1..2 : ids[s][i] = i /\ lead[s][i] = 0

\* The arcs before e were led to representatives.
AtArc ==
  /\ todo # <<>>
  /\ e \in 1..Len(arcs[Head(todo)]) + 1
  /\ \A i \in 1..e - 1 : arcs[Head(todo)][i].end \in ToSet(nodes[layer + 1])

-----------------------------------------------------------------------------
(***************************************************************************)
(* The sort.  In pass q the copy s of permutation and leaders is current. *)
(***************************************************************************)
Setting ==
  /\ OwnOrDead /\ Enlisted
  /\ ToSet(nodes[layer]) = {layerNodes[i] : i \in Places}
  /\ current \in 0..layerSize

\* The finished packs are in both copies.
Agree(s, t) ==
  \A j \in current..layerSize - 1 :
    ids[t][j] = ids[s][j] /\ lead[t][ids[s][j]] = lead[s][ids[s][j]]

\* What the key of the node at place i is read from: its arc q.
KeyAt(i, q) == IF labelMode THEN arcs[layerNodes[i]][q].value
               ELSE info1[arcs[layerNodes[i]][q].end]

Keyed(s, q) ==
  /\ over = IF labelMode THEN EscapeLabel ELSE EscapeNode
  /\ \A x \in Members(ids[s], current) :
       \/ /\ layerArcs[x] = q /\ Len(arcs[layerNodes[x]]) >= q
          /\ values[x] = KeyAt(x, q) /\ values[x] # over
       \/ /\ layerArcs[x] = 0 /\ values[x] = over
          /\ \/ labelMode /\ Len(arcs[layerNodes[x]]) = q - 1
             \/ \A y \in Members(ids[s], current) : lead[s][y] = lead[s][x] => y = x

\* What pass q starts from.
PassAt(s, t, q) ==
  /\ Packs(ArcsOf, ids[s], lead[s], layerSize, current, q, labelMode)
  /\ Agree(s, t) /\ Keyed(s, q)

Counted ==
  /\ \A v \in Radix : count[v] = Cardinality({j \in Active : Key(j) = v})
  /\ IsInjective(nonNull)
  /\ ToSet(nonNull) = {Key(j) : j \in Active}
  /\ delta = count[over]

\* The places from which the keys are distributed.
Cumulated ==
  LET key == [j \in Active |-> Key(j)] IN
  /\ Starts(key, cumulative, current)
  /\ \A i, j \in Active : key[i] = over /\ key[j] # over => cumulative[key[j]] < cumulative[key[i]]
  /\ delta = Cardinality({j \in Active : key[j] = over})

\* The packs after pass q, before the next keys are found.
PassedAt(s, t, q) ==
  /\ Packs(ArcsOf, ids[s], lead[s], layerSize, current,
           IF labelMode THEN q ELSE q + 1, ~labelMode)
  /\ Agree(s, t)
  /\ \A x \in Members(ids[s], current) :
       layerArcs[x] = q /\ Len(arcs[layerNodes[x]]) >= q

\* The turns of Merge before k are over.
Merging ==
  LET id == ids[This(swap)]
      ld == lead[This(swap)]
  IN /\ k \in 0..layerSize
     /\ Permutes(id, layerSize) /\ Led(ld, {}, layerSize)
     /\ \A i, j \in Places : ld[i] = ld[j] <=> ArcsOf[i] = ArcsOf[j]
     /\ Enlisted
     /\ ToSet(nodes[layer]) =
          {layerNodes[id[j]] : j \in {h \in Places : h >= k \/ ld[id[h]] = id[h]}}
     /\ \A j \in Places : newV[layerNodes[id[j]]] =
                            layerNodes[IF j < k THEN ld[id[j]] ELSE id[j]]
     /\ \A n \in Was(layer) : n \in {layerNodes[i] : i \in Places} \/ newV[n] = Null

Pass == Nat \ {0}

IInv ==
  /\ Frame
  /\ layer \in -1..Size /\ todo \in Seq(Node)
  /\ swap \in BOOLEAN /\ labelMode \in BOOLEAN
  /\ pc \in {"idle", "layer", "node", "arc", "sort", "cumulate", "permute", "lead",
             "prepare", "merge", "done"}
  /\ pc = "idle" => AtRest
  /\ pc # "idle" => Vectors
  /\ pc \notin {"idle", "done"} => Around
  /\ pc \notin {"idle", "cumulate"} => NoCounts
  /\ pc \notin {"idle", "layer", "done"} => layer >= 0
  /\ pc = "layer" /\ layer >= 0 => Untouched(layer)
  /\ pc \in {"node", "arc"} => Collecting
  /\ pc = "arc" => AtArc
  /\ pc \in {"sort", "cumulate", "permute", "lead", "prepare"} => Setting
  /\ pc \in {"cumulate", "permute", "lead"} => current > 1
  /\ pc \in {"sort", "cumulate", "permute"} =>
       \E q \in Pass : PassAt(This(swap), Other(swap), q)
  /\ pc = "cumulate" => Counted
  /\ pc = "permute" => Cumulated
  /\ pc = "lead" =>
       /\ delta \in 0..current
       /\ Distributed(ids[This(swap)], values, lead[Other(swap)], layerSize, current, delta, over)
       /\ \E q \in Pass : PassAt(Other(swap), This(swap), q)
  /\ pc = "prepare" =>
       current > 0 /\ \E q \in Pass : PassedAt(This(swap), Other(swap), q)
  /\ pc = "merge" => Merging
  /\ pc = "done" => \A l \in Layer : Reduced(l)
-----------------------------------------------------------------------------
(***************************************************************************)
(* Bounds.                                                                 *)
(***************************************************************************)

LEMMA LargerOfTwo ==
  ASSUME NEW a \in Nat, NEW b \in Nat
  PROVE  MaxOf({a, b}) \in Nat /\ a <= MaxOf({a, b}) /\ b <= MaxOf({a, b})
<1>1. \E x \in {a, b} : \A y \in {a, b} : y <= x
  OBVIOUS
<1>2. MaxOf({a, b}) \in {a, b} /\ \A y \in {a, b} : y <= MaxOf({a, b})
  BY <1>1 DEF MaxOf
<1> QED
  BY <1>2

\* Labels, places and the escape keys are keys.
LEMMA Keys ==
  ASSUME largestLayer \in Nat \ {0}
  PROVE  /\ Index \subseteq Radix /\ Label \subseteq Radix
         /\ EscapeLabel \in Radix /\ EscapeLabel \notin Label
         /\ EscapeNode \in Index /\ 0 \in Index
<1>1. MaxDomSize \in Nat /\ Label \subseteq 0..MaxDomSize - 1
  BY LabelsAreInDomain
<1>2. LargestDomain \in Nat /\ LargestDomain = MaxDomSize + 1
  BY <1>1 DEF LargestDomain
<1> DEFINE M == MaxOf({largestLayer, LargestDomain})
<1>3. M \in Nat /\ largestLayer <= M /\ LargestDomain <= M
  BY <1>2, LargerOfTwo
<1>4. Radix = 0..M - 1
  BY DEF Radix
<1> HIDE DEF M
<1> QED
  BY <1>1, <1>2, <1>3, <1>4 DEF Index, EscapeLabel, EscapeNode

\* No list is longer than the vectors.
LEMMA LargestLayerBounds ==
  ASSUME Types
  PROVE  /\ LargestLayer \in Nat \ {0}
         /\ \A l \in 0..Size - 1 : Len(nodes[l]) < LargestLayer
<1> DEFINE f == [l \in 0..Size - 1 |-> Len(nodes[l])]
           S == {Len(nodes[l]) : l \in 0..Size - 1}
<1>1. Size - 1 \in Nat /\ 0..Size - 1 \subseteq Layer
  BY SizeIsPositive DEF Layer
<1>2. f \in [0..Size - 1 -> Nat]
  BY <1>1 DEF Types
<1>3. \A l \in 0..Size - 1 : f[l] = Len(nodes[l])
  OBVIOUS
<1> HIDE DEF f
<1>4. PICK l \in 0..Size - 1 : \A j \in 0..Size - 1 : f[j] <= f[l]
  BY <1>1, <1>2, LargestExists
<1>5. f[l] \in S /\ \A y \in S : y <= f[l]
  BY <1>3, <1>4
<1>6. MaxOf(S) \in S /\ \A y \in S : y <= MaxOf(S)
  BY <1>5 DEF MaxOf
<1>7. S \subseteq Nat
  BY <1>2, <1>3
<1>8. LargestLayer = MaxOf(S) + 1
  BY DEF LargestLayer, LargestLayerSize
<1>9. \A j \in 0..Size - 1 : Len(nodes[j]) \in S
  OBVIOUS
<1> HIDE DEF S
<1>10. MaxOf(S) \in Nat
  BY <1>6, <1>7
<1>11. ASSUME NEW j \in 0..Size - 1
       PROVE  Len(nodes[j]) < LargestLayer
  <2>1. Len(nodes[j]) \in Nat /\ Len(nodes[j]) <= MaxOf(S)
    BY <1>6, <1>7, <1>9
  <2> QED
    BY <1>8, <1>10, <2>1
<1> QED
  BY <1>8, <1>10, <1>11

\* A node has finitely many incoming arcs.
LEMMA FewArcsInto ==
  ASSUME arcs \in [Node -> Seq(Arc)], NEW S \in SUBSET Node, IsFiniteSet(S), NEW m
  PROVE  IsFiniteSet(ArcsInto(m, S)) /\ Cardinality(ArcsInto(m, S)) \in Nat
<1> DEFINE d == [n \in S |-> {j \in DOMAIN arcs[n] : arcs[n][j].end = m}]
<1>1. \A n \in S : d[n] = {j \in DOMAIN arcs[n] : arcs[n][j].end = m}
  OBVIOUS
<1> HIDE DEF d
<1>2. ASSUME NEW n \in S
      PROVE  IsFiniteSet(d[n])
  <2>1. DOMAIN arcs[n] = 1..Len(arcs[n]) /\ Len(arcs[n]) \in Int
    OBVIOUS
  <2>2. IsFiniteSet(1..Len(arcs[n]))
    BY <2>1, FS_Interval
  <2>3. d[n] \subseteq 1..Len(arcs[n])
    BY <1>1, <2>1
  <2> QED
    BY <2>2, <2>3, FS_Subset
<1>3. IsFiniteSet(UNION {{<<n, i>> : i \in d[n]} : n \in S})
  BY <1>2, PairsFinite
<1>4. ArcsInto(m, S) = UNION {{<<n, i>> : i \in d[n]} : n \in S}
  BY <1>1 DEF ArcsInto
<1> QED
  BY <1>3, <1>4, FS_CardinalityType

-----------------------------------------------------------------------------
\* At first all that is known of a diagram is what DiagramsAreLinked says.
LEMMA InitIInv == Init => IInv
<1> SUFFICES ASSUME Init
             PROVE  IInv
  OBVIOUS
<1>1. /\ input \in Diagrams /\ nodes = input.nodes /\ arcs = input.arcs
      /\ alive = UNION {Listed(l) : l \in Layer}
      /\ varIndex = [n \in Node |-> IF n \in alive
                                    THEN CHOOSE l \in Layer : n \in Listed(l) ELSE 0]
      /\ newV = [n \in Node |-> n]
      /\ nbIn = [n \in Node |-> Cardinality(ArcsInto(n, alive))]
  BY DEF Init
<1>2. /\ nodes \in [Layer -> Seq(Node)] /\ arcs \in [Node -> Seq(Arc)]
      /\ \A l, m \in Layer : \A i \in DOMAIN nodes[l], j \in DOMAIN nodes[m] :
           nodes[l][i] = nodes[m][j] => l = m /\ i = j
      /\ \A n \in Node : \A i \in DOMAIN arcs[n] :
           \E l \in 1..Size : /\ Contains(nodes[l - 1], n)
                              /\ Contains(nodes[l], arcs[n][i].end)
  <2>1. nodes \in [Layer -> Seq(Node)] /\ arcs \in [Node -> Seq(Arc)]
    BY <1>1, DiagramsAreLinked
  <2>2. \A l, m \in Layer : \A i \in DOMAIN nodes[l], j \in DOMAIN nodes[m] :
          nodes[l][i] = nodes[m][j] => l = m /\ i = j
    BY <1>1, DiagramsAreLinked
  <2>3. \A n \in Node : \A i \in DOMAIN input.arcs[n] :
          \E l \in 1..Size : /\ Contains(input.nodes[l - 1], n)
                             /\ Contains(input.nodes[l], input.arcs[n][i].end)
    <3>1. input \in Diagrams
      BY <1>1
    <3> QED
      BY <3>1, DiagramsAreLinked
  <2> QED
    BY <1>1, <2>1, <2>2, <2>3
<1>3. \A l \in Layer : ToSet(nodes[l]) = Listed(l) /\ Listed(l) \in SUBSET Node
  <2> SUFFICES ASSUME NEW l \in Layer
               PROVE  ToSet(nodes[l]) = Listed(l) /\ Listed(l) \in SUBSET Node
    OBVIOUS
  <2>1. nodes[l] \in Seq(Node)
    BY <1>2
  <2> QED
    BY <2>1 DEF ToSet, Listed
<1>4. alive \in SUBSET Node /\ \A n \in alive : \E l \in Layer : n \in Listed(l)
  BY <1>1, <1>3
<1>5. \A l, m \in Layer : \A n \in Listed(l) : n \in Listed(m) => l = m
  BY <1>2 DEF Listed
<1>6. ASSUME NEW l \in Layer, NEW n \in Listed(l)
      PROVE  n \in alive /\ varIndex[n] = l
  <2>1. n \in alive /\ n \in Node
    BY <1>1, <1>3
  <2>2. varIndex[n] = CHOOSE m \in Layer : n \in Listed(m)
    BY <1>1, <2>1
  <2> QED
    BY <1>5, <2>1, <2>2
<1>14. Part = alive
  <2>1. pc = "idle"
    BY DEF Init, Unallocated
  <2>2. \A l \in Layer : ToSet(GivenNodes[l]) = Listed(l)
    BY <1>3, <2>1 DEF GivenNodes
  <2> QED
    BY <1>1, <2>2 DEF Part
<1>7. \A l \in Layer : Was(l) = Listed(l)
  <2> SUFFICES ASSUME NEW l \in Layer, NEW n
               PROVE  n \in Was(l) <=> n \in Listed(l)
    OBVIOUS
  <2>1. n \in Was(l) <=> n \in alive /\ varIndex[n] = l
    BY <1>14 DEF Was
  <2> QED
    BY <1>4, <1>6, <2>1
<1>8. 0 \in Layer /\ Size \in Layer /\ Size \in Nat
  BY SizeIsPositive DEF Layer
<1>9. Types
  <2>1. varIndex \in [Node -> Layer]
    <3>1. \A n \in alive : (CHOOSE l \in Layer : n \in Listed(l)) \in Layer
      BY <1>4
    <3> QED
      BY <1>1, <1>8, <3>1
  <2>2. IsFiniteSet(alive)
    <3> DEFINE g == [l \in Layer |-> Listed(l)]
    <3>1. IsFiniteSet(Layer)
      BY <1>8, FS_Interval DEF Layer
    <3>2. /\ g \in [Layer -> {Listed(l) : l \in Layer}]
          /\ \A l \in Layer : g[l] = Listed(l)
      OBVIOUS
    <3> HIDE DEF g
    <3>3. IsFiniteSet({g[l] : l \in Layer})
      BY <3>1, <3>2, ValuesFinite
    <3>4. {g[l] : l \in Layer} = {Listed(l) : l \in Layer}
      BY <3>2
    <3>5. ASSUME NEW l \in Layer
          PROVE  IsFiniteSet(Listed(l))
      <4>1. nodes[l] \in Seq(Node)
        BY <1>2
      <4>2. IsFiniteSet(ToSet(nodes[l]))
        BY <4>1, ListFinite
      <4> QED
        BY <1>3, <4>2
    <3>6. \A U \in {Listed(l) : l \in Layer} : IsFiniteSet(U)
      BY <3>5
    <3>7. IsFiniteSet(UNION {Listed(l) : l \in Layer})
      BY <3>3, <3>4, <3>6, FS_UNION
    <3> QED
      BY <1>1, <3>7
  <2>3. \A n \in Node : Cardinality(ArcsInto(n, alive)) \in Nat
    BY <1>2, <1>4, <2>2, FewArcsInto
  <2>4. nbIn \in [Node -> Int]
    BY <1>1, <2>3
  <2> QED
    BY <1>1, <1>2, <1>4, <1>14, <2>1, <2>4 DEF Types
<1>10. Lists
  <2> SUFFICES ASSUME NEW l \in Layer
               PROVE  IsInjective(nodes[l]) /\ ToSet(nodes[l]) \subseteq Was(l)
    BY DEF Lists
  <2>1. IsInjective(nodes[l])
    BY <1>2 DEF IsInjective
  <2> QED
    BY <1>3, <1>7, <2>1
<1>11. ArcsGoDown
  <2> SUFFICES ASSUME NEW n \in Node, NEW i \in DOMAIN arcs[n]
               PROVE  /\ n \in alive /\ arcs[n][i].end \in alive
                      /\ varIndex[arcs[n][i].end] = varIndex[n] + 1
    BY <1>14 DEF ArcsGoDown
  <2>1. PICK l \in 1..Size : /\ Contains(nodes[l - 1], n)
                             /\ Contains(nodes[l], arcs[n][i].end)
    BY <1>2
  <2>2. l \in Layer /\ l - 1 \in Layer /\ l = (l - 1) + 1
    BY <1>8 DEF Layer
  <2>3. n \in Listed(l - 1) /\ arcs[n][i].end \in Listed(l)
    <3>1. nodes[l] \in Seq(Node) /\ nodes[l - 1] \in Seq(Node)
      BY <1>2, <2>2
    <3> QED
      BY <2>1, <3>1 DEF Contains, Listed
  <2> QED
    BY <1>6, <2>2, <2>3
<1>12. AtRest
  <2>1. \A l \in Layer : Untouched(l)
    <3> SUFFICES ASSUME NEW l \in Layer
                 PROVE  Untouched(l)
      OBVIOUS
    <3>1. \A n \in Was(l) : n \in Node
      BY <1>4, <1>14 DEF Was
    <3> QED
      BY <1>1, <1>3, <1>7, <3>1 DEF Untouched
  <2>2. Rooted
    BY <1>1, DiagramsAreLinked DEF Rooted
  <2>3. \A n \in Node : Sorted(arcs[n])
    <3>1. input \in Diagrams /\ arcs = input.arcs
      BY <1>1
    <3>2. \A n \in Node : \A i \in DOMAIN input.arcs[n] :
            i > 1 => input.arcs[n][i - 1].value <= input.arcs[n][i].value
      BY <3>1, DiagramsAreLinked
    <3> QED
      BY <3>1, <3>2 DEF Sorted
  <2> QED
    BY <2>1, <2>2, <2>3 DEF AtRest, Init, Unallocated
<1>13. /\ pc = "idle" /\ layer = Size /\ todo = <<>> /\ swap = TRUE /\ labelMode = TRUE
  BY DEF Init, Unallocated
<1>15. layer \in -1..Size /\ todo \in Seq(Node)
  BY <1>8, <1>13
<1> QED
  BY <1>9, <1>10, <1>11, <1>12, <1>13, <1>15 DEF IInv, Frame

-----------------------------------------------------------------------------
(***************************************************************************)
(* The steps before the sort.                                              *)
(***************************************************************************)

SameGiven == GivenNodes' = GivenNodes /\ GivenArcs' = GivenArcs

\* No step gives the constructor another diagram.
LEMMA GivenKept == [Next]_vars => SameGiven
<1>1. ASSUME Construct
      PROVE  SameGiven
  <2>1. pc = "idle" /\ pc' # "idle" /\ input' = [nodes |-> nodes, arcs |-> arcs]
    BY <1>1 DEF Construct
  <2> QED
    BY <2>1 DEF SameGiven, GivenNodes, GivenArcs
<1>2. ASSUME pc # "idle", pc' # "idle", input' = input
      PROVE  SameGiven
  BY <1>2 DEF SameGiven, GivenNodes, GivenArcs
<1>3. ASSUME UNCHANGED vars
      PROVE  SameGiven
  <2>1. pc' = pc /\ input' = input /\ nodes' = nodes /\ arcs' = arcs
    BY <1>3 DEF vars, reduceVars, mddVars, given
  <2> QED
    BY <2>1 DEF SameGiven, GivenNodes, GivenArcs
<1>4. ASSUME Next, ~Construct
      PROVE  pc # "idle" /\ pc' # "idle" /\ input' = input
  BY <1>4 DEF Next, Finish, OpenLayer, OpenNode, NextArc, EnlistNode, DropNode, BeginSort,
              RadixCount, RadixCumulative, Permutation, LeadManagement,
              PrepareNextRadixLabel, PrepareNextRadixNode, EndSort, Merge, CloseLayer, given
<1> QED
  BY <1>1, <1>2, <1>3, <1>4

LEMMA SamePart ==
  ASSUME SameGiven
  PROVE  Part' = Part
BY DEF SameGiven, Part

LEMMA UnchangedDiagram ==
  ASSUME UNCHANGED mddVars, SameGiven
  PROVE  /\ Frame => Frame'
         /\ \A l : Was(l)' = Was(l)
         /\ \A l : Reduced(l) => Reduced(l)'
         /\ \A l : Untouched(l) => Untouched(l)'
<1>1. /\ nodes' = nodes /\ alive' = alive /\ varIndex' = varIndex
      /\ arcs' = arcs /\ nbIn' = nbIn /\ newV' = newV /\ Part' = Part
  BY SamePart DEF mddVars
<1>2. \A l : Was(l)' = Was(l)
  BY <1>1 DEF Was
<1>3. \A n, l : LeadsTo(n, l) => LeadsTo(n, l)'
  BY <1>1 DEF LeadsTo
<1>4. \A l : Untouched(l) => Untouched(l)'
  BY <1>1, <1>2 DEF Untouched
<1>5. \A l : Reduced(l) => Reduced(l)'
  BY <1>1, <1>2, <1>3 DEF Reduced
<1>6. Types => Types'
  BY <1>1 DEF Types
<1>7. Lists => Lists'
  BY <1>1, <1>2 DEF Lists
<1>8. ArcsGoDown => ArcsGoDown'
  BY <1>1 DEF ArcsGoDown
<1> QED
  BY <1>2, <1>4, <1>5, <1>6, <1>7, <1>8 DEF Frame

LEMMA UnchangedAround ==
  ASSUME UNCHANGED <<mddVars, layer, info1, largestLayer>>, SameGiven, Around
  PROVE  Around'
<1>1. nodes' = nodes /\ UNCHANGED mddVars
  BY DEF mddVars
<1>2. PlacesBelow'
  BY <1>1 DEF PlacesBelow, Around, EscapeNode
<1>3. \A l \in Layer : l > layer => Reduced(l)'
  BY <1>1, UnchangedDiagram DEF Around
<1>4. \A l \in Layer : l < layer => Untouched(l)'
  BY <1>1, UnchangedDiagram DEF Around
<1> QED
  BY <1>2, <1>3, <1>4 DEF Around

\* The first element of a list of different nodes and the others.
LEMMA HeadAndTail ==
  ASSUME NEW S, NEW s \in Seq(S), s # <<>>, IsInjective(s)
  PROVE  /\ Head(s) \in S /\ Head(s) \in ToSet(s)
         /\ Tail(s) \in Seq(S) /\ Len(Tail(s)) = Len(s) - 1 /\ Len(s) >= 1
         /\ IsInjective(Tail(s)) /\ ToSet(Tail(s)) = ToSet(s) \ {Head(s)}
<1>1. /\ Len(s) \in Nat /\ Len(s) >= 1 /\ DOMAIN s = 1..Len(s)
      /\ Head(s) = s[1] /\ \A i \in 1..Len(s) : s[i] \in S
  OBVIOUS
<1>2. /\ Tail(s) \in Seq(S) /\ Len(Tail(s)) = Len(s) - 1
      /\ DOMAIN Tail(s) = 1..Len(s) - 1
      /\ \A i \in 1..Len(s) - 1 : Tail(s)[i] = s[i + 1]
  OBVIOUS
<1>3. \A i, j \in 1..Len(s) : s[i] = s[j] => i = j
  BY <1>1 DEF IsInjective
<1>4. IsInjective(Tail(s))
  <2> SUFFICES ASSUME NEW i \in 1..Len(s) - 1, NEW j \in 1..Len(s) - 1,
                      Tail(s)[i] = Tail(s)[j]
               PROVE  i = j
    BY <1>2 DEF IsInjective
  <2>1. i + 1 \in 1..Len(s) /\ j + 1 \in 1..Len(s) /\ s[i + 1] = s[j + 1]
    BY <1>1, <1>2
  <2> QED
    BY <1>3, <2>1
<1>5. ToSet(Tail(s)) = ToSet(s) \ {Head(s)}
  <2>1. ASSUME NEW x \in ToSet(Tail(s))
        PROVE  x \in ToSet(s) \ {Head(s)}
    <3>1. PICK i \in 1..Len(s) - 1 : x = s[i + 1]
      BY <1>2 DEF ToSet
    <3>2. i + 1 \in 1..Len(s) /\ i + 1 # 1 /\ 1 \in 1..Len(s)
      BY <1>1
    <3>3. x # s[1]
      BY <1>3, <3>1, <3>2
    <3> QED
      BY <1>1, <3>1, <3>2, <3>3 DEF ToSet
  <2>2. ASSUME NEW x \in ToSet(s) \ {Head(s)}
        PROVE  x \in ToSet(Tail(s))
    <3>1. PICK i \in 1..Len(s) : x = s[i]
      BY <1>1 DEF ToSet
    <3>2. i # 1
      BY <1>1, <3>1
    <3>3. i - 1 \in 1..Len(s) - 1 /\ (i - 1) + 1 = i
      BY <1>1, <3>2
    <3>4. Tail(s)[i - 1] = x
      BY <1>2, <3>1, <3>3
    <3> QED
      BY <1>2, <3>3, <3>4 DEF ToSet
  <2> QED
    BY <2>1, <2>2
<1>6. Head(s) \in ToSet(s)
  BY <1>1 DEF ToSet
<1> QED
  BY <1>1, <1>2, <1>4, <1>5, <1>6

LEMMA ConstructStep == IInv /\ Construct => IInv'
<1> SUFFICES ASSUME IInv, Construct
             PROVE  IInv'
  OBVIOUS
<1>0. SameGiven
  BY GivenKept DEF Next
<1>1. /\ pc = "idle" /\ Frame /\ AtRest /\ todo \in Seq(Node)
      /\ swap \in BOOLEAN /\ labelMode \in BOOLEAN
  BY DEF IInv, Construct
<1>2. /\ UNCHANGED <<mddVars, todo, e, k, layerSize, nonNull, modes>>
      /\ UNCHANGED <<swap, labelMode, current, delta>>
      /\ nodes' = nodes /\ newV' = newV
  BY DEF Construct, modes, mddVars
<1>3. UNCHANGED mddVars /\ SameGiven /\ Frame'
  BY <1>0, <1>1, <1>2, UnchangedDiagram
<1>4. \A l \in Layer : Untouched(l)
  BY <1>1 DEF AtRest
<1>5. Size \in Nat \ {0} /\ Size \in Layer
  BY SizeIsPositive DEF Layer
<1>6. /\ nodes \in [Layer -> Seq(Node)]
      /\ \/ Len(nodes[0]) <= 1 /\ Len(nodes[Size]) = 1
         \/ \A l \in Layer : nodes[l] = <<>>
  BY <1>1 DEF AtRest, Rooted, Frame, Types
<1>7. nodes[Size] \in Seq(Node)
  BY <1>5, <1>6
<1>8. Vectors' /\ NoCounts'
  <2>1. /\ largestLayer' \in Nat \ {0}
        /\ \A l \in 0..Size - 1 : Len(nodes[l]) < largestLayer'
    BY <1>1, LargestLayerBounds DEF Construct, Frame
  <2>2. LargestDomain \in Nat
    BY LabelsAreInDomain DEF LargestDomain
  <2>3. /\ MaxOf({largestLayer', LargestDomain}) \in Nat
        /\ largestLayer' <= MaxOf({largestLayer', LargestDomain})
    BY <2>1, <2>2, LargerOfTwo
  <2>4. 0 \in Index' /\ 0 \in Radix'
    <3>1. Radix' = 0..MaxOf({largestLayer', LargestDomain}) - 1
      BY DEF Radix, LargestDomain
    <3>2. PICK M \in Nat : largestLayer' <= M /\ Radix' = 0..M - 1
      BY <2>3, <3>1
    <3>3. \A n \in Nat : n >= 1 => 0 \in 0..n - 1
      OBVIOUS
    <3>4. largestLayer' \in Nat /\ largestLayer' >= 1
      BY <2>1
    <3>5. M >= 1
      BY <3>2, <3>4
    <3>6. 0 \in 0..M - 1
      BY <3>3, <3>5
    <3>7. 0 \in 0..largestLayer' - 1
      BY <3>3, <3>4
    <3> QED
      BY <3>2, <3>6, <3>7 DEF Index
  <2>5. /\ layerNodes' = [i \in Index' |-> Null] /\ layerArcs' = [i \in Index' |-> -1]
        /\ values' = [i \in Index' |-> 0]
        /\ ids' = [s \in 1..2 |-> [i \in Index' |-> 0]]
        /\ lead' = [s \in 1..2 |-> [i \in Index' |-> 0]]
        /\ count' = [i \in Radix' |-> 0] /\ cumulative' = [i \in Radix' |-> 0]
    BY DEF Construct
  <2>6. layerSize' = 0 /\ current' = 0 /\ delta' = 0 /\ nonNull' = <<>>
    BY <1>1, <1>2 DEF AtRest
  <2>7. info1' \in [Node -> Index']
    <3>1. info1 = [n \in Node |-> 0]
      BY <1>1 DEF AtRest
    <3>2. info1' = info1 \/ info1' = [info1 EXCEPT ![Final] = 0]
      BY DEF Construct
    <3> QED
      BY <2>4, <3>1, <3>2
  <2>8. NoCounts'
    BY <2>5, <2>6 DEF NoCounts
  <2> QED
    BY <1>2, <2>1, <2>4, <2>5, <2>6, <2>7, <2>8 DEF Vectors
<1>9. CASE Final = Null
  <2>1. pc' = "done" /\ layer' = layer
    BY <1>9 DEF Construct
  <2>2. \A l \in Layer : nodes[l] = <<>>
    <3>1. ASSUME Len(nodes[Size]) = 1
          PROVE  FALSE
      <4>1. nodes[Size] # <<>>
        BY <1>7, <3>1
      <4>2. nodes[Size][1] \in Node
        BY <1>7, <3>1
      <4>3. Last(nodes[Size]) \in Node
        BY <3>1, <4>2 DEF Last
      <4> QED
        BY <1>9, <4>1, <4>3, NullIsNoNode DEF Final
    <3> QED
      BY <1>6, <3>1
  <2>3. ASSUME NEW l \in Layer
        PROVE  Reduced(l)
    <3>1. ToSet(nodes[l]) = {} /\ Was(l) = {}
      BY <1>4, <2>2 DEF Untouched, ToSet
    <3> QED
      BY <3>1 DEF Reduced
  <2>4. \A l \in Layer : Reduced(l)'
    BY <1>3, <2>3, UnchangedDiagram
  <2>5. layer' \in -1..Size /\ todo' \in Seq(Node)
    BY <1>1, <1>2, <2>1 DEF IInv
  <2> QED
    BY <1>1, <1>2, <1>3, <1>8, <2>1, <2>4, <2>5 DEF IInv
<1>10. CASE Final # Null
  <2>1. pc' = "layer" /\ layer' = Size - 1 /\ info1' = [info1 EXCEPT ![Final] = 0]
    BY <1>10 DEF Construct
  <2>2. Len(nodes[Size]) = 1 /\ ToSet(nodes[Size]) = {nodes[Size][1]}
    <3>1. nodes[Size] # <<>>
      BY <1>10 DEF Final
    <3>2. Len(nodes[Size]) = 1
      BY <1>5, <1>6, <3>1
    <3>3. DOMAIN nodes[Size] = {1}
      BY <1>7, <3>2
    <3> QED
      BY <3>2, <3>3 DEF ToSet
  <2>3. PlacesBelow'
    <3>1. /\ Size - 1 + 1 = Size
          /\ \A n \in ToSet(nodes[Size]) : n = nodes[Size][1]
          /\ nodes[Size][1] \in Node
      BY <1>5, <1>7, <2>2
    <3>2. Final = nodes[Size][1]
      BY <1>7, <1>10, <2>2 DEF Final, Last
    <3>3. info1'[nodes[Size][1]] = 0
      BY <1>1, <2>1, <3>1, <3>2 DEF AtRest
    <3>4. largestLayer' \in Nat \ {0} /\ (EscapeNode)' = largestLayer' - 1
      BY <1>8 DEF Vectors, EscapeNode
    <3> QED
      BY <1>2, <2>1, <3>1, <3>3, <3>4 DEF PlacesBelow
  <2>4. Untouched(Size) /\ \A n, m \in ToSet(nodes[Size]) : n = m
    BY <1>4, <1>5, <2>2
  <2>5. Reduced(Size)
    BY <1>5, <2>4 DEF Untouched, Reduced
  <2>6. \A l \in Layer : (l > layer' => l = Size) /\ layer' < Size /\ layer' \in -1..Size
    BY <1>5, <2>1 DEF Layer
  <2>7. \A l \in Layer : Untouched(l)'
    BY <1>3, <1>4, UnchangedDiagram
  <2>8. Reduced(Size)'
    BY <1>3, <2>5, UnchangedDiagram
  <2>9. Around' /\ layer' \in -1..Size
    BY <1>5, <2>3, <2>6, <2>7, <2>8 DEF Around
  <2>10. layer' \in Layer
    BY <1>5, <2>1 DEF Layer
  <2>11. todo' \in Seq(Node)
    BY <1>1, <1>2
  <2>12. (pc = "layer" /\ layer >= 0 => Untouched(layer))'
    BY <2>7, <2>10 DEF Untouched, Was
  <2> QED
    BY <1>1, <1>2, <1>3, <1>8, <2>1, <2>9, <2>11, <2>12 DEF IInv
<1> QED
  BY <1>9, <1>10

LEMMA FinishStep == IInv /\ Finish => IInv'
<1> SUFFICES ASSUME IInv, Finish
             PROVE  IInv'
  OBVIOUS
<1>0. SameGiven
  BY GivenKept DEF Next
<1>1. pc = "layer" /\ layer < 0 /\ pc' = "done"
  BY DEF Finish
<1>2. UNCHANGED <<mddVars, given, loops, layerVars, packs, radix, modes>>
  BY DEF Finish
<1>3. Frame /\ Vectors /\ Around /\ NoCounts
  BY <1>1 DEF IInv
<1>4. UNCHANGED mddVars /\ SameGiven /\ Frame'
  BY <1>0, <1>2, <1>3, UnchangedDiagram
<1>5. nodes' = nodes /\ largestLayer' = largestLayer
  BY <1>2 DEF mddVars, given
<1>6. Vectors' /\ NoCounts'
  BY <1>2, <1>3, <1>5 DEF Vectors, NoCounts, loops, layerVars, packs, radix, modes, Index, Radix
<1>7. layer \in -1..Size /\ todo \in Seq(Node) /\ swap \in BOOLEAN /\ labelMode \in BOOLEAN
  BY DEF IInv
<1>8. \A l \in Layer : l > layer
  BY <1>1, <1>7, SizeIsPositive DEF Layer
<1>9. \A l \in Layer : Reduced(l)'
  BY <1>3, <1>4, <1>8, UnchangedDiagram DEF Around
<1>10. /\ layer' = layer /\ todo' = todo /\ swap' = swap /\ labelMode' = labelMode
  BY <1>2 DEF loops, modes
<1> QED
  BY <1>1, <1>4, <1>6, <1>7, <1>9, <1>10 DEF IInv

\* What a step that only moves on leaves of the vectors.
LEMMA UnchangedVectors ==
  ASSUME Vectors,
         UNCHANGED <<nodes, largestLayer, layerSize, current, delta, info1, layerNodes,
                     layerArcs, values, ids, lead, count, cumulative, nonNull>>
  PROVE  Vectors'
BY DEF Vectors, Index, Radix

LEMMA OpenLayerStep == IInv /\ OpenLayer => IInv'
<1> SUFFICES ASSUME IInv, OpenLayer
             PROVE  IInv'
  OBVIOUS
<1>0. SameGiven /\ Part' = Part
  BY GivenKept, SamePart DEF Next
<1>1. pc = "layer" /\ layer >= 0 /\ pc' = "node" /\ todo' = nodes[layer] /\ layerSize' = 0
  BY DEF OpenLayer
<1>2. /\ UNCHANGED mddVars
      /\ UNCHANGED <<layer, info1, largestLayer, swap, labelMode>>
      /\ UNCHANGED <<current, delta, layerNodes, layerArcs, values, ids, lead, count,
                     cumulative, nonNull>>
  BY DEF OpenLayer, given, packs, radix, modes
<1>3. /\ Frame /\ Vectors /\ Around /\ NoCounts /\ Untouched(layer)
      /\ layer \in -1..Size /\ swap \in BOOLEAN /\ labelMode \in BOOLEAN
  BY <1>1 DEF IInv
<1>4. Frame' /\ Around'
  BY <1>0, <1>2, <1>3, UnchangedDiagram, UnchangedAround
<1>5. nodes' = nodes /\ newV' = newV /\ Was(layer)' = Was(layer)
  BY <1>0, <1>2 DEF mddVars, Was
<1>6. layer \in 0..Size - 1 /\ layer \in Layer
  BY <1>1, <1>3, SizeIsPositive DEF Layer, Around
<1>7. 0 \in Index
  BY <1>3, Keys DEF Vectors
<1>8. Vectors' /\ NoCounts'
  BY <1>1, <1>2, <1>3, <1>5, <1>7 DEF Vectors, NoCounts, Index, Radix
<1>9. todo' \in Seq(Node)
  BY <1>1, <1>3, <1>6 DEF Frame, Types
<1>10. Collecting'
  <2>1. Places' = {}
    BY <1>1 DEF Places
  <2>2. IsInjective(todo')
    BY <1>1, <1>3, <1>6 DEF Frame, Lists
  <2>3. Enlisted'
    BY <2>1 DEF Enlisted
  <2>4. OwnOrDead'
    BY <1>2, <1>3, <1>5 DEF OwnOrDead, Untouched
  <2>5. layerSize' + Len(todo') < largestLayer'
    <3>1. nodes[layer] \in Seq(Node)
      BY <1>3, <1>6 DEF Frame, Types
    <3>2. Len(nodes[layer]) \in Nat /\ Len(nodes[layer]) < largestLayer
      <4>1. Len(nodes[layer]) < largestLayer
        BY <1>3, <1>6 DEF Vectors
      <4> QED
        BY <3>1, <4>1
    <3> QED
      BY <1>1, <1>2, <3>2
  <2>6. ToSet(nodes'[layer']) = ToSet(todo') \cup {layerNodes'[i] : i \in Places'}
    BY <1>1, <1>2, <1>5, <2>1
  <2> QED
    BY <2>1, <2>2, <2>3, <2>4, <2>5, <2>6 DEF Collecting
<1> QED
  BY <1>1, <1>2, <1>3, <1>4, <1>8, <1>9, <1>10 DEF IInv

\* The node that is looked at: in the layer and not yet enlisted.
LEMMA HeadFacts ==
  ASSUME IInv, pc \in {"node", "arc"}, todo # <<>>, NEW n, n = Head(todo)
  PROVE  /\ n \in Node /\ n \in ToSet(todo) /\ n \in ToSet(nodes[layer]) /\ n \in Was(layer)
         /\ n \in alive /\ varIndex[n] = layer /\ newV[n] = n
         /\ \A i \in Places : layerNodes[i] # n
         /\ layer \in 0..Size - 1 /\ layer \in Layer /\ layer + 1 \in Layer
<1>1. Frame /\ Collecting /\ Around /\ layer >= 0 /\ layer \in -1..Size /\ todo \in Seq(Node)
  BY DEF IInv
<1>2. layer \in 0..Size - 1 /\ layer \in Layer /\ layer + 1 \in Layer
  BY <1>1, SizeIsPositive DEF Layer, Around
<1>3. n \in Node /\ n \in ToSet(todo)
  BY <1>1, HeadAndTail DEF Collecting
<1>4. n \in ToSet(nodes[layer])
  BY <1>1, <1>3 DEF Collecting
<1>5. n \in Was(layer)
  BY <1>1, <1>2, <1>4 DEF Frame, Lists
<1>6. newV[n] = n
  BY <1>1, <1>4, <1>5 DEF Collecting, OwnOrDead
<1>7. \A i \in Places : layerNodes[i] # n
  BY <1>1, <1>3 DEF Collecting
<1> QED
  BY <1>1, <1>2, <1>3, <1>4, <1>5, <1>6, <1>7 DEF Was, Frame, Types

LEMMA OpenNodeStep == IInv /\ OpenNode => IInv'
<1> SUFFICES ASSUME IInv, OpenNode
             PROVE  IInv'
  OBVIOUS
<1>0. SameGiven /\ Part' = Part
  BY GivenKept, SamePart DEF Next
<1>1. /\ pc = "node" /\ todo # <<>> /\ pc' = "arc" /\ e' = 1
      /\ newV' = [newV EXCEPT ![Head(todo)] = Head(todo)]
  BY DEF OpenNode
<1>2. /\ UNCHANGED <<nodes, alive, varIndex, arcs, nbIn>>
      /\ UNCHANGED <<layer, todo, info1, largestLayer, swap, labelMode>>
      /\ UNCHANGED <<layerSize, current, delta, layerNodes, layerArcs, values, ids, lead,
                     count, cumulative, nonNull>>
  BY DEF OpenNode, given, layerVars, packs, radix, modes
<1>3. /\ Frame /\ Vectors /\ Around /\ NoCounts /\ Collecting /\ layer >= 0
      /\ layer \in -1..Size /\ todo \in Seq(Node)
      /\ swap \in BOOLEAN /\ labelMode \in BOOLEAN
  BY <1>1 DEF IInv
<1>4. Head(todo) \in Node /\ newV[Head(todo)] = Head(todo)
  BY <1>1, HeadFacts
<1>5. newV' = newV
  BY <1>1, <1>3, <1>4 DEF Frame, Types
<1>6. UNCHANGED mddVars
  BY <1>2, <1>5 DEF mddVars
<1>7. Frame' /\ Around'
  BY <1>0, <1>2, <1>3, <1>6, UnchangedDiagram, UnchangedAround
<1>8. Vectors' /\ NoCounts'
  BY <1>2, <1>3, UnchangedVectors DEF NoCounts, Radix
<1>9. Collecting'
  <2>1. Places' = Places /\ Was(layer)' = Was(layer)
    BY <1>0, <1>2 DEF Places, Was
  <2>2. OwnOrDead'
    BY <1>2, <1>3, <1>5, <2>1 DEF Collecting, OwnOrDead
  <2>3. \A x : LeadsTo(x, layer + 1) => LeadsTo(x, layer + 1)'
    BY <1>2 DEF LeadsTo
  <2>4. Enlisted'
    BY <1>2, <1>3, <2>1, <2>3 DEF Collecting, Enlisted
  <2> QED
    BY <1>2, <1>3, <2>1, <2>2, <2>4 DEF Collecting
<1>10. AtArc'
  <2>1. arcs[Head(todo)] \in Seq(Arc)
    BY <1>3, <1>4 DEF Frame, Types
  <2>2. 1 \in 1..Len(arcs[Head(todo)]) + 1
    BY <2>1
  <2> QED
    BY <1>1, <1>2, <2>2 DEF AtArc
<1> QED
  BY <1>1, <1>2, <1>3, <1>7, <1>8, <1>9, <1>10 DEF IInv

-----------------------------------------------------------------------------
\* The arcs of one node of the layer do not matter to other layers.
LEMMA OtherLayersKept ==
  ASSUME Frame, NEW n, Part' = Part, UNCHANGED varIndex,
         \A x \in Node \ {n} : arcs'[x] = arcs[x] /\ newV'[x] = newV[x],
         \A l \in Layer \ {varIndex[n]} : nodes'[l] = nodes[l]
  PROVE  /\ \A l \in Layer : Was(l)' = Was(l)
         /\ \A l \in Layer \ {varIndex[n]} : Untouched(l) => Untouched(l)'
         /\ \A l \in Layer : l > varIndex[n] /\ Reduced(l) => Reduced(l)'
<1>1. \A l \in Layer : Was(l)' = Was(l)
  BY DEF Was
<1>2. ASSUME NEW l \in Layer, l # varIndex[n], NEW x \in Was(l)
      PROVE  x \in Node \ {n}
  BY <1>2 DEF Was, Frame, Types
<1>3. \A l \in Layer \ {varIndex[n]} : Untouched(l) => Untouched(l)'
  BY <1>1, <1>2 DEF Untouched
<1>4. ASSUME NEW l \in Layer, l > varIndex[n], Reduced(l)
      PROVE  Reduced(l)'
  <2>1. l # varIndex[n] /\ nodes'[l] = nodes[l]
    <3>1. l # varIndex[n]
      <4> SUFFICES ASSUME l = varIndex[n]
                   PROVE  FALSE
        OBVIOUS
      <4> QED
        BY <1>4, SizeIsPositive DEF Layer
    <3> QED
      BY <3>1
  <2>2. \A x \in ToSet(nodes[l]) : x \in Was(l)
    BY DEF Frame, Lists
  <2>3. \A x \in Was(l) : arcs'[x] = arcs[x] /\ newV'[x] = newV[x]
    BY <1>2, <2>1
  <2>4. l < Size => l + 1 \in Layer /\ nodes'[l + 1] = nodes[l + 1]
    <3> SUFFICES ASSUME l < Size
                 PROVE  l + 1 \in Layer \ {varIndex[n]}
      OBVIOUS
    <3>1. l \in 0..Size /\ Size \in Nat
      BY SizeIsPositive DEF Layer
    <3>2. l + 1 \in 0..Size /\ l + 1 # varIndex[n]
      <4>1. l + 1 \in 0..Size
        BY <3>1
      <4>2. ASSUME l + 1 = varIndex[n]
            PROVE  FALSE
        BY <1>4, <3>1, <4>2
      <4> QED
        BY <4>1, <4>2
    <3> QED
      BY <3>2 DEF Layer
  <2>5. \A x \in ToSet(nodes[l]) : l < Size /\ LeadsTo(x, l + 1) => LeadsTo(x, l + 1)'
    BY <2>2, <2>3, <2>4 DEF LeadsTo
  <2>6. \A x \in ToSet(nodes[l]) : newV'[x] = x /\ (l < Size => arcs'[x] # <<>> /\ LeadsTo(x, l + 1)')
    BY <1>4, <2>2, <2>3, <2>5 DEF Reduced
  <2>7. \A x \in Was(l) : newV'[x] = Null \/ newV'[x] \in ToSet(nodes[l])
    BY <1>4, <2>3 DEF Reduced
  <2>8. l < Size => \A x, y \in ToSet(nodes[l]) : arcs'[x] = arcs'[y] => x = y
    BY <1>4, <2>2, <2>3 DEF Reduced
  <2> QED
    BY <1>1, <2>1, <2>6, <2>7, <2>8 DEF Reduced
<1> QED
  BY <1>1, <1>3, <1>4

\* The list a with arc i led to m.
LedTo(a, i, m) == [a EXCEPT ![i].end = m]

LEMMA ArcLed ==
  ASSUME NEW a \in Seq(Arc), NEW i \in 1..Len(a), NEW m \in Node
  PROVE  /\ LedTo(a, i, m) \in Seq(Arc) /\ Len(LedTo(a, i, m)) = Len(a)
         /\ LedTo(a, i, m)[i].value = a[i].value /\ LedTo(a, i, m)[i].end = m
         /\ \A j \in 1..Len(a) : j # i => LedTo(a, i, m)[j] = a[j]
<1> DEFINE r == [a[i] EXCEPT !.end = m]
           b == LedTo(a, i, m)
<1>1. a[i] \in Arc
  OBVIOUS
<1>2. r \in Arc /\ r.value = a[i].value /\ r.end = m
  BY <1>1 DEF Arc
<1>3. b = [a EXCEPT ![i] = r]
  BY DEF LedTo
<1> HIDE DEF r, b
<1>4. /\ b \in Seq(Arc) /\ Len(b) = Len(a) /\ b[i] = r
      /\ \A j \in 1..Len(a) : j # i => b[j] = a[j]
  BY <1>2, <1>3
<1> QED
  BY <1>2, <1>4 DEF b

\* What NextArc does to the list a of the node n, whose arc e ends in `end'.
LEMMA NextArcFacts ==
  ASSUME IInv, NextArc
  PROVE  LET n == Head(todo)
             a == arcs[n]
             end == a[e].end
             r == newV[end]
         IN /\ a \in Seq(Arc) /\ e \in 1..Len(a)
            /\ end \in Was(layer + 1) /\ end \in Node
            /\ r = Null \/ (r \in Node /\ r \in ToSet(nodes[layer + 1]) /\ r \in Was(layer + 1))
            /\ arcs' = [arcs EXCEPT ![n] = IF r = Null THEN RemoveAt(a, e)
                                           ELSE LedTo(a, e, r)]
            /\ e' = IF r = Null THEN e ELSE e + 1
            /\ nbIn' \in [Node -> Int]
            /\ UNCHANGED <<nodes, alive, varIndex, newV>>
<1> DEFINE n == Head(todo)
           a == arcs[n]
           end == a[e].end
           r == newV[end]
<1>1. /\ pc = "arc" /\ e <= Len(arcs[n]) /\ UpdateArc(n, e, r)
      /\ e' = IF r = Null THEN e ELSE e + 1
  BY DEF NextArc
<1>2. Frame /\ Around /\ AtArc /\ todo # <<>>
  BY <1>1 DEF IInv, AtArc
<1>3. /\ n \in Node /\ n \in Was(layer) /\ varIndex[n] = layer
      /\ layer \in 0..Size - 1 /\ layer + 1 \in Layer
  BY <1>1, <1>2, HeadFacts
<1>4. a \in Seq(Arc) /\ Len(a) \in Nat
  BY <1>2, <1>3 DEF Frame, Types
<1>5. e \in 1..Len(a)
  BY <1>1, <1>2, <1>4 DEF AtArc
<1>6. a[e] \in Arc /\ e \in DOMAIN a
  BY <1>4, <1>5
<1>7. end \in Node
  BY <1>6 DEF Arc
<1>8. end \in Was(layer + 1)
  BY <1>2, <1>3, <1>6 DEF Frame, ArcsGoDown, Was
<1>9. layer + 1 > layer
  BY <1>3
<1>10. Reduced(layer + 1)
  BY <1>2, <1>3, <1>9 DEF Around
<1>11. r = Null \/ r \in ToSet(nodes[layer + 1])
  BY <1>8, <1>10 DEF Reduced
<1>12. ToSet(nodes[layer + 1]) \subseteq Was(layer + 1) /\ Was(layer + 1) \subseteq Node
  BY <1>2, <1>3 DEF Frame, Lists, Types, Was
<1>13. arcs' = [arcs EXCEPT ![n] = IF r = Null THEN RemoveAt(a, e)
                                  ELSE LedTo(a, e, r)]
  BY <1>1, <1>2, <1>3 DEF UpdateArc, Frame, Types, LedTo
<1>14. nbIn' \in [Node -> Int]
  <2>1. nbIn \in [Node -> Int] /\ nbIn[end] \in Int
    BY <1>2, <1>7 DEF Frame, Types
  <2>2. CASE r = Null
    <3>1. nbIn' = [nbIn EXCEPT ![end] = @ - 2]
      BY <1>1, <2>2 DEF UpdateArc
    <3>2. nbIn[end] - 2 \in Int
      BY <2>1
    <3> QED
      BY <2>1, <3>1, <3>2
  <2>3. CASE r # Null
    <3> DEFINE g == [nbIn EXCEPT ![end] = @ - 1]
    <3>1. nbIn' = [g EXCEPT ![r] = @ + 1]
      BY <1>1, <2>3 DEF UpdateArc
    <3>2. nbIn[end] - 1 \in Int
      BY <2>1
    <3>3. g \in [Node -> Int]
      BY <2>1, <3>2
    <3>4. r \in Node
      BY <1>11, <1>12, <2>3
    <3> HIDE DEF g
    <3>5. g[r] + 1 \in Int
      BY <3>3, <3>4
    <3> QED
      BY <3>1, <3>3, <3>5
  <2> QED
    BY <2>2, <2>3
<1>15. UNCHANGED <<nodes, alive, varIndex, newV>>
  BY <1>1 DEF UpdateArc
<1> QED
  BY <1>1, <1>4, <1>5, <1>7, <1>8, <1>11, <1>12, <1>13, <1>14, <1>15

\* The ends of the arcs afterwards, those before the next one being led.
LEMMA NextArcEnds ==
  ASSUME IInv, NextArc
  PROVE  LET n == Head(todo)
             b == arcs'[n]
         IN /\ b \in Seq(Arc)
            /\ \A i \in DOMAIN b : b[i].end \in Was(layer + 1)
            /\ e' \in 1..Len(b) + 1
            /\ \A i \in 1..e' - 1 : b[i].end \in ToSet(nodes[layer + 1])
<1> DEFINE n == Head(todo)
           a == arcs[n]
           end == a[e].end
           r == newV[end]
           b == arcs'[n]
<1>1. /\ a \in Seq(Arc) /\ e \in 1..Len(a) /\ Len(a) \in Nat
      /\ r = Null \/ (r \in Node /\ r \in ToSet(nodes[layer + 1]) /\ r \in Was(layer + 1))
      /\ arcs' = [arcs EXCEPT ![n] = IF r = Null THEN RemoveAt(a, e)
                                     ELSE LedTo(a, e, r)]
      /\ e' = IF r = Null THEN e ELSE e + 1
  BY NextArcFacts
<1>2. Frame /\ AtArc /\ pc = "arc" /\ todo # <<>>
  BY DEF IInv, NextArc, AtArc
<1>3. n \in Node /\ n \in Was(layer) /\ varIndex[n] = layer
  BY <1>2, HeadFacts
<1>4. \A i \in 1..Len(a) : a[i].end \in Was(layer + 1)
  BY <1>1, <1>2, <1>3 DEF Frame, ArcsGoDown, Was
<1>5. \A i \in 1..e - 1 : a[i].end \in ToSet(nodes[layer + 1])
  BY <1>2 DEF AtArc
<1>6. b = IF r = Null THEN RemoveAt(a, e) ELSE LedTo(a, e, r)
  BY <1>1, <1>2, <1>3 DEF Frame, Types
<1> HIDE DEF b
<1>7. CASE r = Null
  <2>1. /\ b \in Seq(Arc) /\ Len(b) = Len(a) - 1
        /\ \A i \in 1..Len(a) - 1 : b[i] = IF i < e THEN a[i] ELSE a[i + 1]
    BY <1>1, <1>6, <1>7, RemoveAtFacts
  <2>2. DOMAIN b = 1..Len(a) - 1 /\ e' = e
    BY <1>1, <1>7, <2>1
  <2>3. ASSUME NEW i \in DOMAIN b
        PROVE  b[i].end \in Was(layer + 1)
    <3>1. i \in 1..Len(a) /\ i + 1 \in 1..Len(a)
      BY <1>1, <2>2
    <3>2. b[i] = a[i] \/ b[i] = a[i + 1]
      BY <2>1, <2>2
    <3> QED
      BY <1>4, <3>1, <3>2
  <2>4. e \in 1..Len(b) + 1
    BY <1>1, <2>1
  <2>5. ASSUME NEW i \in 1..e - 1
        PROVE  b[i].end \in ToSet(nodes[layer + 1])
    <3>1. i \in 1..Len(a) - 1 /\ i < e
      BY <1>1
    <3> QED
      BY <1>5, <2>1, <3>1
  <2> QED
    BY <2>1, <2>2, <2>3, <2>4, <2>5 DEF b
<1>8. CASE r # Null
  <2>1. r \in Node /\ r \in ToSet(nodes[layer + 1]) /\ r \in Was(layer + 1) /\ e' = e + 1
    BY <1>1, <1>8
  <2>2. b = LedTo(a, e, r)
    BY <1>6, <1>8
  <2>3. /\ b \in Seq(Arc) /\ Len(b) = Len(a) /\ b[e].end = r
        /\ \A j \in 1..Len(a) : j # e => b[j] = a[j]
    <3>1. a \in Seq(Arc) /\ e \in 1..Len(a)
      BY <1>1
    <3> QED
      BY <2>1, <2>2, <3>1, ArcLed
  <2>4. DOMAIN b = 1..Len(a)
    BY <2>3
  <2>5. \A i \in DOMAIN b : b[i].end \in Was(layer + 1)
    BY <1>4, <2>1, <2>3, <2>4
  <2>6. e + 1 \in 1..Len(b) + 1
    BY <1>1, <2>3
  <2>7. ASSUME NEW i \in 1..(e + 1) - 1
        PROVE  b[i].end \in ToSet(nodes[layer + 1])
    <3>1. i \in 1..Len(a) /\ (i # e => i \in 1..e - 1)
      BY <1>1
    <3> QED
      BY <1>5, <2>1, <2>3, <3>1
  <2> QED
    BY <2>1, <2>3, <2>5, <2>6, <2>7 DEF b
<1> QED
  BY <1>7, <1>8

LEMMA NextArcStep == IInv /\ NextArc => IInv'
<1> SUFFICES ASSUME IInv, NextArc
             PROVE  IInv'
  OBVIOUS
<1>0. SameGiven /\ Part' = Part
  BY GivenKept, SamePart DEF Next
<1> DEFINE n == Head(todo)
<1>1. /\ pc = "arc" /\ pc' = pc
      /\ UNCHANGED <<layer, todo, info1, largestLayer, swap, labelMode>>
      /\ UNCHANGED <<layerSize, current, delta, layerNodes, layerArcs, values, ids, lead,
                     count, cumulative, nonNull>>
  BY DEF NextArc, given, layerVars, packs, radix, modes
<1>2. /\ Frame /\ Vectors /\ Around /\ NoCounts /\ Collecting /\ AtArc /\ layer >= 0
      /\ layer \in -1..Size /\ todo \in Seq(Node) /\ todo # <<>>
      /\ swap \in BOOLEAN /\ labelMode \in BOOLEAN
  BY <1>1 DEF IInv, AtArc
<1>3. /\ n \in Node /\ n \in Was(layer) /\ n \in alive /\ varIndex[n] = layer
      /\ \A i \in Places : layerNodes[i] # n
      /\ layer \in 0..Size - 1 /\ layer \in Layer /\ layer + 1 \in Layer
  BY <1>1, <1>2, HeadFacts
<1>4. UNCHANGED <<nodes, alive, varIndex, newV>> /\ nbIn' \in [Node -> Int]
  BY NextArcFacts
<1>5. \A x \in Node \ {n} : arcs'[x] = arcs[x]
  <2>1. PICK b : arcs' = [arcs EXCEPT ![n] = b]
    BY NextArcFacts
  <2> QED
    BY <1>2, <2>1 DEF Frame, Types
<1>6. /\ arcs'[n] \in Seq(Arc)
      /\ \A i \in DOMAIN arcs'[n] : arcs'[n][i].end \in Was(layer + 1)
      /\ e' \in 1..Len(arcs'[n]) + 1
      /\ \A i \in 1..e' - 1 : arcs'[n][i].end \in ToSet(nodes[layer + 1])
  BY NextArcEnds
<1>7. Types'
  <2>1. arcs' \in [Node -> Seq(Arc)]
    <3>1. PICK b : arcs' = [arcs EXCEPT ![n] = b]
      BY NextArcFacts
    <3>2. b = arcs'[n]
      BY <1>2, <1>3, <3>1 DEF Frame, Types
    <3> QED
      BY <1>2, <1>6, <3>1, <3>2 DEF Frame, Types
  <2> QED
    BY <1>0, <1>2, <1>4, <2>1 DEF Frame, Types
<1>8. \A l \in Layer : Was(l)' = Was(l)
  BY <1>0, <1>4 DEF Was
<1>9. Lists'
  BY <1>2, <1>4, <1>8 DEF Frame, Lists
<1>10. ArcsGoDown'
  <2> SUFFICES ASSUME NEW x \in Node, NEW i \in DOMAIN arcs'[x]
               PROVE  /\ x \in alive /\ arcs'[x][i].end \in alive
                      /\ varIndex[arcs'[x][i].end] = varIndex[x] + 1
                      /\ x \in Part => arcs'[x][i].end \in Part
    BY <1>0, <1>4 DEF ArcsGoDown
  <2>1. CASE x = n
    BY <1>2, <1>3, <1>6, <2>1 DEF Was, Frame, Types
  <2>2. CASE x # n
    BY <1>2, <1>5, <2>2 DEF Frame, ArcsGoDown
  <2> QED
    BY <2>1, <2>2
<1>11. /\ \A l \in Layer \ {layer} : Untouched(l) => Untouched(l)'
       /\ \A l \in Layer : l > layer /\ Reduced(l) => Reduced(l)'
  <2>1. /\ UNCHANGED <<alive, varIndex>>
        /\ \A x \in Node \ {n} : arcs'[x] = arcs[x] /\ newV'[x] = newV[x]
        /\ \A l \in Layer \ {varIndex[n]} : nodes'[l] = nodes[l]
    BY <1>4, <1>5
  <2> HIDE DEF n
  <2>2. /\ \A l \in Layer \ {varIndex[n]} : Untouched(l) => Untouched(l)'
        /\ \A l \in Layer : l > varIndex[n] /\ Reduced(l) => Reduced(l)'
    BY <1>0, <1>2, <2>1, OtherLayersKept
  <2> QED
    BY <1>3, <2>2
<1>12. Around'
  <2>1. PlacesBelow'
    BY <1>1, <1>2, <1>4 DEF Around, PlacesBelow, EscapeNode
  <2>2. \A l \in Layer : l < layer => l # layer
    BY <1>3, SizeIsPositive DEF Layer
  <2> QED
    BY <1>1, <1>2, <1>11, <2>1, <2>2 DEF Around
<1>13. Vectors' /\ NoCounts'
  BY <1>1, <1>2, <1>4, UnchangedVectors DEF NoCounts, Radix
<1>14. Places' = Places /\ Was(layer)' = Was(layer)
  BY <1>1, <1>3, <1>8 DEF Places
<1>15. \A i \in Places : layerNodes[i] \in Node /\ arcs'[layerNodes[i]] = arcs[layerNodes[i]]
  BY <1>0, <1>2, <1>3, <1>5 DEF Collecting, Enlisted, Was, Frame, Types
<1>16. Collecting'
  <2>1. OwnOrDead'
    BY <1>1, <1>2, <1>4, <1>14 DEF Collecting, OwnOrDead
  <2>2. \A i \in Places : LeadsTo(layerNodes[i], layer + 1)'
    BY <1>1, <1>2, <1>4, <1>15 DEF Collecting, Enlisted, LeadsTo
  <2>3. Enlisted'
    BY <1>1, <1>2, <1>14, <1>15, <2>2 DEF Collecting, Enlisted
  <2> QED
    BY <1>1, <1>2, <1>4, <1>14, <1>15, <2>1, <2>3 DEF Collecting
<1>17. AtArc'
  BY <1>1, <1>2, <1>4, <1>6 DEF AtArc
<1> QED
  BY <1>1, <1>2, <1>7, <1>9, <1>10, <1>12, <1>13, <1>16, <1>17 DEF IInv, Frame

LEMMA EnlistNodeStep == IInv /\ EnlistNode => IInv'
<1> SUFFICES ASSUME IInv, EnlistNode
             PROVE  IInv'
  OBVIOUS
<1>0. SameGiven /\ Part' = Part
  BY GivenKept, SamePart DEF Next
<1> DEFINE n == Head(todo)
<1>1. /\ pc = "arc" /\ e > Len(arcs[n]) /\ arcs[n] # <<>>
      /\ pc' = "node" /\ todo' = Tail(todo)
      /\ layerNodes' = [layerNodes EXCEPT ![layerSize] = n]
      /\ layerArcs' = [layerArcs EXCEPT ![layerSize] = 1]
      /\ values' = [values EXCEPT ![layerSize] = arcs[n][1].value]
      /\ ids' = [s \in 1..2 |-> [ids[s] EXCEPT ![layerSize] = layerSize]]
      /\ lead' = [s \in 1..2 |-> [lead[s] EXCEPT ![layerSize] = 0]]
      /\ info1' = [info1 EXCEPT ![n] = layerSize]
      /\ layerSize' = layerSize + 1
  BY DEF EnlistNode
<1>2. /\ UNCHANGED mddVars
      /\ UNCHANGED <<layer, largestLayer, swap, labelMode, current, delta, count, cumulative,
                     nonNull>>
  BY DEF EnlistNode, given, radix, modes
<1>3. /\ Frame /\ Vectors /\ Around /\ NoCounts /\ Collecting /\ AtArc /\ layer >= 0
      /\ layer \in -1..Size /\ todo \in Seq(Node) /\ todo # <<>>
      /\ swap \in BOOLEAN /\ labelMode \in BOOLEAN
  BY <1>1 DEF IInv, AtArc
<1>4. /\ n \in Node /\ n \in ToSet(todo) /\ n \in Was(layer) /\ n \in ToSet(nodes[layer])
      /\ \A i \in Places : layerNodes[i] # n
      /\ layer \in 0..Size - 1 /\ layer \in Layer /\ layer + 1 \in Layer
  BY <1>1, <1>3, HeadFacts
<1>5. Frame'
  BY <1>0, <1>2, <1>3, UnchangedDiagram
<1>6. /\ Tail(todo) \in Seq(Node) /\ Len(Tail(todo)) = Len(todo) - 1 /\ Len(todo) >= 1
      /\ IsInjective(Tail(todo)) /\ ToSet(Tail(todo)) = ToSet(todo) \ {n}
  BY <1>3, HeadAndTail DEF Collecting
<1>7. /\ layerSize \in Index /\ layerSize + 1 \in Index
      /\ layerSize + 1 + Len(Tail(todo)) < largestLayer
      /\ layerSize \in Nat /\ 0 \in Index
  <2>1. /\ layerSize \in 0..largestLayer - 1 /\ largestLayer \in Nat /\ largestLayer >= 1
        /\ layerSize + Len(todo) < largestLayer
    BY <1>3 DEF Vectors, Index, Collecting
  <2>2. Len(todo) \in Nat
    BY <1>3
  <2> QED
    BY <1>6, <2>1, <2>2 DEF Index
<1>8. Places' = Places \cup {layerSize} /\ layerSize \notin Places /\ Places \subseteq Index
  <2>1. \A m \in Nat : 0..(m + 1) - 1 = (0..m - 1) \cup {m} /\ m \notin 0..m - 1
    OBVIOUS
  <2>2. Places' = 0..(layerSize + 1) - 1
    BY <1>1 DEF Places
  <2>3. Places \subseteq Index
    BY <1>3, <1>7 DEF Places, Index, Vectors
  <2> QED
    BY <1>7, <2>1, <2>2, <2>3 DEF Places
<1>9. arcs[n] \in Seq(Arc) /\ arcs[n][1] \in Arc /\ Len(arcs[n]) >= 1
  BY <1>1, <1>3, <1>4 DEF Frame, Types
<1>10. arcs[n][1].value \in Radix
  <2>1. arcs[n][1].value \in Label
    BY <1>9 DEF Arc
  <2> QED
    BY <1>3, <2>1, Keys DEF Vectors
<1>11. Index' = Index /\ Radix' = Radix /\ EscapeNode' = EscapeNode
  BY <1>2 DEF Index, Radix, EscapeNode
<1>12. Vectors'
  <2>1. \A l \in 0..Size - 1 : Len(nodes'[l]) < largestLayer'
    BY <1>2, <1>3 DEF Vectors, mddVars
  <2>2. info1' \in [Node -> Index]
    BY <1>1, <1>3, <1>7 DEF Vectors
  <2>3. layerNodes' \in [Index -> Node \cup {Null}]
    BY <1>1, <1>3, <1>4 DEF Vectors
  <2>4. layerArcs' \in [Index -> Int]
    BY <1>1, <1>3 DEF Vectors
  <2>5. values' \in [Index -> Radix]
    BY <1>1, <1>3, <1>10 DEF Vectors
  <2>6. ids' \in [1..2 -> [Index -> Index]] /\ lead' \in [1..2 -> [Index -> Index]]
    BY <1>1, <1>3, <1>7 DEF Vectors
  <2> QED
    BY <1>1, <1>2, <1>3, <1>7, <1>11, <2>1, <2>2, <2>3, <2>4, <2>5, <2>6 DEF Vectors
<1>13. NoCounts'
  BY <1>2, <1>3, <1>11 DEF NoCounts
<1>14. nodes' = nodes /\ newV' = newV /\ arcs' = arcs /\ Was(layer)' = Was(layer)
  BY <1>0, <1>2 DEF mddVars, Was
<1>15. Around'
  <2>1. \A x \in ToSet(nodes[layer + 1]) : x # n /\ info1'[x] = info1[x]
    <3> SUFFICES ASSUME NEW x \in ToSet(nodes[layer + 1])
                 PROVE  x # n /\ info1'[x] = info1[x]
      OBVIOUS
    <3>1. x \in Node /\ varIndex[x] = layer + 1
      BY <1>0, <1>3, <1>4 DEF Frame, Lists, Types, Was
    <3>2. varIndex[n] = layer /\ layer + 1 # layer
      BY <1>0, <1>4 DEF Was
    <3> QED
      BY <1>1, <1>3, <3>1, <3>2 DEF Vectors
  <2>2. PlacesBelow'
    BY <1>2, <1>3, <1>11, <1>14, <2>1 DEF Around, PlacesBelow
  <2>3. \A l \in Layer : (Reduced(l) => Reduced(l)') /\ (Untouched(l) => Untouched(l)')
    BY <1>0, <1>2, UnchangedDiagram
  <2> QED
    BY <1>2, <1>3, <2>2, <2>3 DEF Around
<1>16. ASSUME NEW i \in Places
       PROVE  /\ layerNodes'[i] = layerNodes[i] /\ layerArcs'[i] = layerArcs[i]
              /\ values'[i] = values[i] /\ info1'[layerNodes[i]] = info1[layerNodes[i]]
              /\ \A s \in 1..2 : ids'[s][i] = ids[s][i] /\ lead'[s][i] = lead[s][i]
  <2>1. i # layerSize /\ i \in Index
    BY <1>8
  <2>2. layerNodes[i] # n /\ layerNodes[i] \in Node
    BY <1>0, <1>3, <1>4 DEF Collecting, Enlisted, Was, Frame, Types
  <2>3. info1'[layerNodes[i]] = info1[layerNodes[i]]
    BY <1>1, <1>3, <2>2 DEF Vectors
  <2> QED
    BY <1>1, <1>3, <2>1, <2>3 DEF Vectors
<1>17. /\ layerNodes'[layerSize] = n /\ layerArcs'[layerSize] = 1 /\ info1'[n] = layerSize
       /\ values'[layerSize] = arcs[n][1].value
       /\ \A s \in 1..2 : ids'[s][layerSize] = layerSize /\ lead'[s][layerSize] = 0
  BY <1>1, <1>3, <1>4, <1>7 DEF Vectors
<1>18. Collecting'
  <2>1. OwnOrDead'
    BY <1>2, <1>3, <1>14 DEF Collecting, OwnOrDead
  <2>2. \A x : LeadsTo(x, layer + 1) => LeadsTo(x, layer + 1)'
    BY <1>2, <1>14 DEF LeadsTo
  <2>3. LeadsTo(n, layer + 1)
    <3>1. \A i \in DOMAIN arcs[n] : i \in 1..e - 1
      <4>1. DOMAIN arcs[n] = 1..Len(arcs[n]) /\ Len(arcs[n]) \in Nat
        BY <1>9
      <4>2. e \in Nat /\ e > Len(arcs[n])
        BY <1>1, <1>3, <4>1 DEF AtArc
      <4> HIDE DEF n
      <4> QED
        BY <4>1, <4>2
    <3> QED
      BY <1>3, <3>1 DEF AtArc, LeadsTo
  <2>4. Enlisted'
    <3> SUFFICES ASSUME NEW i \in Places'
                 PROVE  /\ layerNodes'[i] \in Was(layer) /\ info1'[layerNodes'[i]] = i
                        /\ arcs[layerNodes'[i]] # <<>> /\ LeadsTo(layerNodes'[i], layer + 1)
      BY <1>2, <1>14, <2>2 DEF Enlisted
    <3>1. CASE i \in Places
      BY <1>3, <1>16, <3>1 DEF Collecting, Enlisted
    <3>2. CASE i = layerSize
      BY <1>1, <1>4, <1>17, <2>3, <3>2
    <3> QED
      BY <1>8, <3>1, <3>2
  <2>5. ASSUME NEW i \in Places'
        PROVE  /\ layerNodes'[i] \notin ToSet(Tail(todo))
               /\ layerArcs'[i] = 1 /\ values'[i] = arcs[layerNodes'[i]][1].value
               /\ \A s \in 1..2 : ids'[s][i] = i /\ lead'[s][i] = 0
    <3>1. CASE i \in Places
      BY <1>3, <1>6, <1>16, <3>1 DEF Collecting
    <3>2. CASE i = layerSize
      BY <1>6, <1>17, <3>2
    <3> QED
      BY <1>8, <3>1, <3>2
  <2>6. {layerNodes'[i] : i \in Places'} = {layerNodes[i] : i \in Places} \cup {n}
    BY <1>8, <1>16, <1>17
  <2>7. ToSet(nodes[layer]) = ToSet(Tail(todo)) \cup {layerNodes'[i] : i \in Places'}
    BY <1>3, <1>4, <1>6, <2>6 DEF Collecting
  <2> QED
    BY <1>1, <1>2, <1>6, <1>7, <1>14, <2>1, <2>4, <2>5, <2>7 DEF Collecting
<1> QED
  BY <1>1, <1>2, <1>3, <1>5, <1>6, <1>12, <1>13, <1>15, <1>18 DEF IInv

-----------------------------------------------------------------------------
\* A node is taken out of its list.
LEMMA UnlinkFacts ==
  ASSUME Types, Lists, NEW l \in Layer, NEW n \in ToSet(nodes[l]), varIndex[n] = l, Unlink(n)
  PROVE  /\ nodes' \in [Layer -> Seq(Node)]
         /\ IsInjective(nodes'[l]) /\ ToSet(nodes'[l]) = ToSet(nodes[l]) \ {n}
         /\ \A m \in Layer \ {l} : nodes'[m] = nodes[m]
         /\ \A m \in Layer : Len(nodes'[m]) <= Len(nodes[m])
<1> DEFINE s == nodes[l]
           t == RemoveFirst(s, n)
<1>1. nodes' = [nodes EXCEPT ![l] = t] /\ nodes \in [Layer -> Seq(Node)]
  BY DEF Unlink, Without, Types
<1>2. s \in Seq(Node) /\ IsInjective(s) /\ n \in ToSet(s)
  BY DEF Types, Lists
<1> HIDE DEF s
<1>3. t \in Seq(Node) /\ IsInjective(t) /\ ToSet(t) = ToSet(s) \ {n}
  BY <1>2, RemoveFirstSet
<1> HIDE DEF t
<1>4. Len(t) <= Len(s)
  <2>1. Cardinality(ToSet(t)) = Len(t) /\ Cardinality(ToSet(s)) = Len(s)
    BY <1>2, <1>3, InjectiveCardinality
  <2>2. IsFiniteSet(ToSet(s))
    BY <1>2, ListFinite
  <2>3. Cardinality(ToSet(t)) <= Cardinality(ToSet(s))
    BY <1>3, <2>2, FS_Subset
  <2> QED
    BY <2>1, <2>3
<1>5. nodes'[l] = t /\ \A m \in Layer \ {l} : nodes'[m] = nodes[m]
  BY <1>1
<1>6. nodes' \in [Layer -> Seq(Node)]
  BY <1>1, <1>3
<1>7. \A m \in Layer : Len(nodes'[m]) <= Len(nodes[m])
  <2> SUFFICES ASSUME NEW m \in Layer
               PROVE  Len(nodes'[m]) <= Len(nodes[m])
    OBVIOUS
  <2>1. nodes[m] \in Seq(Node) /\ Len(nodes[m]) \in Nat
    BY <1>1
  <2> QED
    BY <1>4, <1>5, <2>1 DEF s
<1> QED
  BY <1>3, <1>5, <1>6, <1>7 DEF s

LEMMA DropNodeStep == IInv /\ DropNode => IInv'
<1> SUFFICES ASSUME IInv, DropNode
             PROVE  IInv'
  OBVIOUS
<1>0. SameGiven /\ Part' = Part
  BY GivenKept, SamePart DEF Next
<1> DEFINE n == Head(todo)
<1>1. /\ pc = "arc" /\ arcs[n] = <<>> /\ pc' = "node" /\ todo' = Tail(todo)
      /\ Unlink(n) /\ newV' = [newV EXCEPT ![n] = Null]
  BY DEF DropNode
<1>2. /\ UNCHANGED <<alive, varIndex, arcs, nbIn>>
      /\ UNCHANGED <<layer, info1, largestLayer, swap, labelMode>>
      /\ UNCHANGED <<layerSize, current, delta, layerNodes, layerArcs, values, ids, lead,
                     count, cumulative, nonNull>>
  BY DEF DropNode, given, layerVars, packs, radix, modes
<1>3. /\ Frame /\ Vectors /\ Around /\ NoCounts /\ Collecting /\ AtArc /\ layer >= 0
      /\ layer \in -1..Size /\ todo \in Seq(Node) /\ todo # <<>>
      /\ swap \in BOOLEAN /\ labelMode \in BOOLEAN
  BY <1>1 DEF IInv, AtArc
<1>4. /\ n \in Node /\ n \in ToSet(todo) /\ n \in Was(layer) /\ n \in ToSet(nodes[layer])
      /\ varIndex[n] = layer /\ \A i \in Places : layerNodes[i] # n
      /\ layer \in 0..Size - 1 /\ layer \in Layer /\ layer + 1 \in Layer
  BY <1>1, <1>3, HeadFacts
<1>5. /\ Tail(todo) \in Seq(Node) /\ Len(Tail(todo)) = Len(todo) - 1 /\ Len(todo) >= 1
      /\ IsInjective(Tail(todo)) /\ ToSet(Tail(todo)) = ToSet(todo) \ {n}
  BY <1>3, HeadAndTail DEF Collecting
<1>6. /\ nodes' \in [Layer -> Seq(Node)]
      /\ IsInjective(nodes'[layer]) /\ ToSet(nodes'[layer]) = ToSet(nodes[layer]) \ {n}
      /\ \A m \in Layer \ {layer} : nodes'[m] = nodes[m]
      /\ \A m \in Layer : Len(nodes'[m]) <= Len(nodes[m])
  BY <1>1, <1>3, <1>4, UnlinkFacts DEF Frame
<1>7. /\ newV' \in [Node -> Node \cup {Null}] /\ newV'[n] = Null
      /\ \A x \in Node \ {n} : newV'[x] = newV[x]
  BY <1>1, <1>3, <1>4 DEF Frame, Types
<1>8. /\ \A l \in Layer : Was(l)' = Was(l)
      /\ \A l \in Layer \ {layer} : Untouched(l) => Untouched(l)'
      /\ \A l \in Layer : l > layer /\ Reduced(l) => Reduced(l)'
  <2>1. /\ UNCHANGED <<alive, varIndex>>
        /\ \A x \in Node \ {n} : arcs'[x] = arcs[x] /\ newV'[x] = newV[x]
        /\ \A l \in Layer \ {varIndex[n]} : nodes'[l] = nodes[l]
    BY <1>2, <1>4, <1>6, <1>7
  <2> HIDE DEF n
  <2>2. /\ \A l \in Layer : Was(l)' = Was(l)
        /\ \A l \in Layer \ {varIndex[n]} : Untouched(l) => Untouched(l)'
        /\ \A l \in Layer : l > varIndex[n] /\ Reduced(l) => Reduced(l)'
    BY <1>0, <1>3, <2>1, OtherLayersKept
  <2> QED
    BY <1>4, <2>2
<1>9. Types'
  BY <1>0, <1>2, <1>3, <1>6, <1>7 DEF Frame, Types
<1>10. Lists'
  <2> SUFFICES ASSUME NEW l \in Layer
               PROVE  IsInjective(nodes'[l]) /\ ToSet(nodes'[l]) \subseteq Was(l)
    BY <1>8 DEF Lists
  <2>1. IsInjective(nodes[l]) /\ ToSet(nodes[l]) \subseteq Was(l)
    BY <1>3 DEF Frame, Lists
  <2> QED
    BY <1>6, <2>1
<1>11. ArcsGoDown'
  BY <1>0, <1>2, <1>3 DEF Frame, ArcsGoDown
<1>12. layer + 1 # layer /\ layer' = layer /\ layer' + 1 = layer + 1 /\ layer + 1 > layer
  BY <1>2, <1>4
<1>13. nodes'[layer + 1] = nodes[layer + 1]
  BY <1>4, <1>6, <1>12
<1>14. Around'
  <2>1. PlacesBelow'
    BY <1>2, <1>3, <1>13 DEF Around, PlacesBelow, EscapeNode
  <2>2. \A l \in Layer : l < layer => l # layer
    BY <1>4, SizeIsPositive DEF Layer
  <2> QED
    BY <1>2, <1>3, <1>8, <2>1, <2>2 DEF Around
<1>15. Vectors' /\ NoCounts'
  <2>1. \A l \in 0..Size - 1 : Len(nodes'[l]) < largestLayer
    <3> SUFFICES ASSUME NEW l \in 0..Size - 1
                 PROVE  Len(nodes'[l]) < largestLayer
      OBVIOUS
    <3>1. l \in Layer
      BY SizeIsPositive DEF Layer
    <3>2. Len(nodes[l]) \in Nat /\ Len(nodes'[l]) \in Nat
      BY <1>3, <1>6, <3>1 DEF Frame, Types
    <3>3. Len(nodes'[l]) <= Len(nodes[l]) /\ Len(nodes[l]) < largestLayer
      BY <1>3, <1>6, <3>1 DEF Vectors
    <3>4. largestLayer \in Nat
      BY <1>3 DEF Vectors
    <3> QED
      BY <3>2, <3>3, <3>4
  <2> QED
    BY <1>2, <1>3, <2>1 DEF NoCounts, Vectors, Radix, Index
<1>16. Places' = Places /\ Was(layer)' = Was(layer)
  BY <1>2, <1>4, <1>8 DEF Places
<1>17. Collecting'
  <2>1. OwnOrDead'
    <3>1. \A x \in Was(layer) : x \in Node
      BY <1>0, <1>3 DEF Was, Frame, Types
    <3> QED
      BY <1>2, <1>3, <1>6, <1>7, <1>16, <3>1 DEF Collecting, OwnOrDead
  <2>2. \A x : LeadsTo(x, layer + 1) => LeadsTo(x, layer + 1)'
    BY <1>2, <1>13 DEF LeadsTo
  <2>3. Enlisted'
    BY <1>2, <1>3, <1>16, <2>2 DEF Collecting, Enlisted
  <2>4. layerSize' + Len(todo') < largestLayer'
    <3>1. layerSize \in Nat /\ Len(todo) \in Nat /\ largestLayer \in Nat
      BY <1>3 DEF Vectors, Index
    <3>2. layerSize + Len(todo) < largestLayer
      BY <1>3 DEF Collecting
    <3>3. layerSize + Len(Tail(todo)) < largestLayer
      BY <1>5, <3>1, <3>2
    <3> QED
      BY <1>1, <1>2, <3>3
  <2>5. ToSet(nodes'[layer]) = ToSet(Tail(todo)) \cup {layerNodes[i] : i \in Places}
    BY <1>3, <1>4, <1>5, <1>6 DEF Collecting
  <2> QED
    BY <1>1, <1>2, <1>3, <1>5, <1>16, <2>1, <2>3, <2>4, <2>5 DEF Collecting
<1> QED
  BY <1>1, <1>2, <1>3, <1>5, <1>9, <1>10, <1>11, <1>14, <1>15, <1>17 DEF IInv, Frame

-----------------------------------------------------------------------------
\* The first pass finds one pack, in the order of the list.
LEMMA BeginSortStep == IInv /\ BeginSort => IInv'
<1> SUFFICES ASSUME IInv, BeginSort
             PROVE  IInv'
  OBVIOUS
<1>0. SameGiven /\ Part' = Part
  BY GivenKept, SamePart DEF Next
<1>1. /\ pc = "node" /\ todo = <<>> /\ pc' = "sort" /\ current' = layerSize
      /\ labelMode' = TRUE /\ swap' = TRUE /\ over' = EscapeLabel
  BY DEF BeginSort
<1>2. /\ UNCHANGED mddVars
      /\ UNCHANGED <<layer, todo, info1, largestLayer, layerSize, delta, layerNodes, layerArcs,
                     values, ids, lead, count, cumulative, nonNull>>
  BY DEF BeginSort, given, loops, layerVars, packs, radix
<1>3. /\ Frame /\ Vectors /\ Around /\ NoCounts /\ Collecting /\ layer >= 0
      /\ layer \in -1..Size /\ todo \in Seq(Node)
  BY <1>1 DEF IInv
<1>4. Frame' /\ Around'
  BY <1>0, <1>2, <1>3, UnchangedDiagram, UnchangedAround
<1>5. nodes' = nodes /\ arcs' = arcs /\ newV' = newV /\ alive' = alive /\ varIndex' = varIndex
  BY <1>2 DEF mddVars
<1>6. Vectors' /\ NoCounts'
  BY <1>1, <1>2, <1>3, <1>5 DEF NoCounts, Vectors, Radix, Index
<1> DEFINE m == layerSize
<1>7. m \in Nat /\ m < largestLayer /\ largestLayer \in Nat /\ Places = 0..m - 1
      /\ Places \subseteq Index
  BY <1>3 DEF Vectors, Index, Places
<1>8. Places' = Places /\ Was(layer)' = Was(layer) /\ ArcsOf' = ArcsOf
  BY <1>0, <1>2, <1>5 DEF Places, Was, ArcsOf
<1>9. Setting'
  <2>1. OwnOrDead'
    BY <1>2, <1>3, <1>5, <1>8 DEF Collecting, OwnOrDead
  <2>2. \A x : LeadsTo(x, layer + 1) => LeadsTo(x, layer + 1)'
    BY <1>2, <1>5 DEF LeadsTo
  <2>3. Enlisted'
    BY <1>2, <1>3, <1>5, <1>8, <2>2 DEF Collecting, Enlisted
  <2>4. ToSet(todo) = {}
    BY <1>1 DEF ToSet
  <2>5. ToSet(nodes[layer]) = {layerNodes[i] : i \in Places}
    BY <1>3, <2>4 DEF Collecting
  <2>6. current' \in 0..layerSize'
    BY <1>1, <1>2, <1>7
  <2> QED
    BY <1>2, <1>5, <1>8, <2>1, <2>3, <2>5, <2>6 DEF Setting
<1> DEFINE A == ArcsOf
           id == ids[1]
           ld == lead[1]
<1>10. ASSUME NEW x \in 0..m - 1
       PROVE  /\ id[x] = x /\ ld[x] = 0 /\ A[x] = arcs[layerNodes[x]]
              /\ A[x] # <<>> /\ A[x] \in Seq(Arc)
              /\ layerArcs[x] = 1 /\ values[x] = A[x][1].value
  <2>1. layerNodes[x] \in Node
    BY <1>0, <1>3, <1>7 DEF Collecting, Enlisted, Was, Frame, Types
  <2>2. A[x] = arcs[layerNodes[x]]
    BY <1>7 DEF ArcsOf
  <2>3. A[x] # <<>> /\ A[x] \in Seq(Arc)
    BY <1>3, <1>7, <2>1, <2>2 DEF Collecting, Enlisted, Frame, Types
  <2>4. 1 \in 1..2
    OBVIOUS
  <2> QED
    BY <1>3, <1>7, <2>2, <2>3, <2>4 DEF Collecting
<1> HIDE DEF m, A, id, ld
<1>11. Members(id, m) = 0..m - 1
  BY <1>10 DEF Members
<1>12. Packs(A, id, ld, m, m, 1, TRUE)
  <2>1. Permutes(id, m)
    BY <1>10 DEF Permutes
  <2>2. \A x \in 0..m - 1 : ld[x] \in 0..m - 1 /\ ld[ld[x]] = ld[x]
    BY <1>7, <1>10
  <2>3. Led(ld, 0..m - 1, m)
    BY <2>2 DEF Led
  <2>4. FirstsLead(id, ld, m)
    <3> SUFFICES ASSUME NEW j \in 0..m - 1
                 PROVE  \E h \in 0..j : ld[id[j]] = id[h]
      BY DEF FirstsLead
    <3>1. 0 \in 0..j /\ 0 \in 0..m - 1
      BY <1>7
    <3> QED
      BY <1>10, <3>1
  <2>5. Contiguous(id, ld, m)
    BY <1>10 DEF Contiguous
  <2>6. Classes(A, ld, 0..m - 1, m, 1, TRUE)
    <3>1. ASSUME NEW x \in 0..m - 1
          PROVE  Len(A[x]) >= 0
      BY <1>10
    <3>2. \A x, y \in 0..m - 1 : ld[x] = ld[y]
      BY <1>10
    <3>3. \A x, y \in 0..m - 1 : SameSoFar(A[x], A[y], 1, TRUE)
      BY DEF SameSoFar
    <3>4. (0..m - 1) \ (0..m - 1) = {} /\ 1 - 1 = 0
      OBVIOUS
    <3>5. /\ \A x \in 0..m - 1 : Len(A[x]) >= 1 - 1
          /\ \A x, y \in 0..m - 1 : ld[x] = ld[y] <=> SameSoFar(A[x], A[y], 1, TRUE)
          /\ \A x \in (0..m - 1) \ (0..m - 1), y \in 0..m - 1 : ld[x] = ld[y] <=> A[x] = A[y]
      BY <3>1, <3>2, <3>3, <3>4
    <3> QED
      BY <3>5 DEF Classes
  <2> QED
    BY <1>11, <2>1, <2>3, <2>4, <2>5, <2>6 DEF Packs
<1>13. (PassAt(This(swap), Other(swap), 1))'
  <2>1. This(TRUE) = 1 /\ Other(TRUE) = 2
    BY DEF This, Other
  <2>2. ids' = ids /\ lead' = lead /\ current' = m /\ layerSize' = m /\ labelMode' = TRUE
    BY <1>1, <1>2 DEF m
  <2>3. Packs(ArcsOf', ids'[1], lead'[1], layerSize', current', 1, labelMode')
    BY <1>8, <1>12, <2>2 DEF A, id, ld
  <2>4. Agree(1, 2)'
    <3>1. m..m - 1 = {}
      BY <1>7
    <3> QED
      BY <2>2, <3>1 DEF Agree
  <2>5. ASSUME NEW x \in 0..m - 1
        PROVE  /\ layerArcs[x] = 1 /\ Len(arcs[layerNodes[x]]) >= 1
               /\ values[x] = arcs[layerNodes[x]][1].value /\ values[x] # EscapeLabel
    <3>1. Len(A[x]) >= 1 /\ A[x][1] \in Arc
      BY <1>10
    <3>2. values[x] \in Label
      BY <1>10, <3>1 DEF Arc
    <3>3. EscapeLabel \notin Label
      BY <1>3, Keys DEF Vectors
    <3>4. A[x] = arcs[layerNodes[x]] /\ layerArcs[x] = 1 /\ values[x] = A[x][1].value
      BY <1>10
    <3> QED
      BY <3>1, <3>2, <3>3, <3>4
  <2>6. Keyed(1, 1)'
    <3>1. Members(ids'[1], current') = 0..m - 1
      BY <1>11, <2>2 DEF id
    <3>2. over' = EscapeLabel'
      BY <1>1 DEF EscapeLabel, LargestDomain
    <3> QED
      BY <1>1, <1>2, <1>5, <2>2, <2>5, <3>1, <3>2 DEF Keyed, KeyAt
  <2> QED
    BY <1>1, <2>1, <2>3, <2>4, <2>6 DEF PassAt
<1>14. \E q \in Pass : (PassAt(This(swap), Other(swap), q))'
  BY <1>13 DEF Pass
<1> QED
  BY <1>1, <1>2, <1>3, <1>4, <1>6, <1>9, <1>14 DEF IInv

-----------------------------------------------------------------------------
(***************************************************************************)
(* The steps of the sort.                                                  *)
(***************************************************************************)

\* The layer that is sorted stays as it is.
LEMMA UnchangedSetting ==
  ASSUME Frame, Around, Setting, SameGiven,
         UNCHANGED <<mddVars, largestLayer, layer, info1, layerSize, layerNodes>>,
         current' \in 0..layerSize
  PROVE  /\ Frame' /\ Around' /\ Setting'
         /\ ArcsOf' = ArcsOf /\ Places' = Places /\ Index' = Index /\ Radix' = Radix
<1>1. Frame' /\ Around'
  BY UnchangedDiagram, UnchangedAround
<1>2. nodes' = nodes /\ arcs' = arcs /\ newV' = newV /\ Was(layer)' = Was(layer)
  BY SamePart DEF mddVars, Was
<1>3. Places' = Places /\ ArcsOf' = ArcsOf
  BY <1>2 DEF Places, ArcsOf
<1>4. \A x : LeadsTo(x, layer + 1) => LeadsTo(x, layer + 1)'
  BY <1>2 DEF LeadsTo
<1>5. OwnOrDead'
  BY <1>2 DEF Setting, OwnOrDead
<1>6. Enlisted'
  BY <1>2, <1>3, <1>4 DEF Setting, Enlisted
<1>7. Setting'
  BY <1>2, <1>3, <1>5, <1>6 DEF Setting
<1> QED
  BY <1>1, <1>3, <1>7 DEF Index, Radix

\* A pass is the same as long as its packs, arcs and keys are.
LEMMA UnchangedPass ==
  ASSUME NEW s, NEW t, NEW q, PassAt(s, t, q),
         UNCHANGED <<mddVars, largestLayer, info1, layerSize, layerNodes, layerArcs, values,
                     ids, lead, current, labelMode, over>>
  PROVE  (PassAt(s, t, q))'
<1>1. arcs' = arcs
  BY DEF mddVars
<1>2. ArcsOf' = ArcsOf
  BY <1>1 DEF Places, ArcsOf
<1>3. Agree(s, t)'
  BY DEF PassAt, Agree
<1>4. \A x : KeyAt(x, q)' = KeyAt(x, q)
  BY <1>1 DEF KeyAt
<1>5. EscapeLabel' = EscapeLabel /\ EscapeNode' = EscapeNode
  BY DEF EscapeLabel, EscapeNode, LargestDomain
<1>6. Keyed(s, q)'
  BY <1>1, <1>4, <1>5 DEF PassAt, Keyed
<1> QED
  BY <1>2, <1>3, <1>6 DEF PassAt

\* The copies that This and Other name.
LEMMA Copies ==
  ASSUME NEW b \in BOOLEAN
  PROVE  /\ This(b) \in 1..2 /\ Other(b) \in 1..2 /\ This(b) # Other(b)
         /\ This(~b) = Other(b) /\ Other(~b) = This(b)
         /\ \A s \in 1..2 : s = This(b) \/ s = Other(b)
BY DEF This, Other

\* What is in range in a pass.
LEMMA PassBounds ==
  ASSUME Vectors, current \in 0..layerSize, NEW s \in 1..2, Permutes(ids[s], layerSize)
  PROVE  /\ layerSize \in Nat /\ current \in Nat /\ largestLayer \in Nat
         /\ current <= layerSize /\ layerSize < largestLayer
         /\ Active = 0..current - 1 /\ Active \subseteq Places /\ Places = 0..layerSize - 1
         /\ Places \subseteq Index
         /\ \A j \in Places : ids[s][j] \in Places
         /\ Members(ids[s], current) \subseteq Places
         /\ \A j \in Active : ids[s][j] \in Members(ids[s], current)
         /\ \A j \in Active : values[ids[s][j]] \in Radix
<1>1. layerSize \in Nat /\ layerSize < largestLayer /\ largestLayer \in Nat
  BY DEF Vectors, Index
<1>2. current \in Nat /\ current <= layerSize /\ Active = 0..current - 1
  BY <1>1 DEF Active
<1>3. Active \subseteq Places /\ Places \subseteq Index /\ Places = 0..layerSize - 1
  BY <1>1, <1>2 DEF Places, Index
<1>4. \A j \in Places : ids[s][j] \in Places
  BY <1>3 DEF Permutes
<1>5. /\ Members(ids[s], current) \subseteq Places
      /\ \A j \in Active : ids[s][j] \in Members(ids[s], current)
  BY <1>2, <1>3, <1>4 DEF Members
<1>6. \A j \in Active : values[ids[s][j]] \in Radix
  BY <1>3, <1>4 DEF Vectors
<1> QED
  BY <1>1, <1>2, <1>3, <1>4, <1>5, <1>6

\* When all packs are finished or there is only one node left.
LEMMA LastPacks ==
  ASSUME NEW m \in Nat, NEW c \in 0..m, c <= 1, NEW A, NEW id, NEW ld, NEW q, NEW label,
         Packs(A, id, ld, m, c, q, label)
  PROVE  /\ Permutes(id, m) /\ Led(ld, {}, m)
         /\ \A i, j \in 0..m - 1 : ld[i] = ld[j] <=> A[i] = A[j]
<1> DEFINE M == Members(id, c)
<1>1. Permutes(id, m) /\ Led(ld, M, m) /\ Classes(A, ld, M, m, q, label)
  BY DEF Packs
<1>2. \A x, y \in M : x = y
  <2>1. c = 0 \/ c = 1
    OBVIOUS
  <2>2. \A x, y \in 0..c - 1 : x = y
    BY <2>1
  <2> QED
    BY <2>2 DEF Members
<1>3. Led(ld, {}, m)
  BY <1>1 DEF Led
<1> HIDE DEF M
<1>4. \A x \in (0..m - 1) \ M, y \in 0..m - 1 : ld[x] = ld[y] <=> A[x] = A[y]
  BY <1>1 DEF Classes
<1>5. ASSUME NEW i \in 0..m - 1, NEW j \in 0..m - 1
      PROVE  ld[i] = ld[j] <=> A[i] = A[j]
  <2>1. CASE i \notin M
    BY <1>4, <2>1
  <2>2. CASE j \notin M
    <3>1. ld[j] = ld[i] <=> A[j] = A[i]
      BY <1>4, <2>2
    <3> QED
      BY <3>1
  <2>3. CASE i \in M /\ j \in M
    BY <1>2, <2>3
  <2> QED
    BY <2>1, <2>2, <2>3
<1> QED
  BY <1>1, <1>3, <1>5

\* What Merge starts from.
SortedOut ==
  LET id == ids[This(swap)]
      ld == lead[This(swap)]
  IN /\ Setting /\ layerSize \in Nat /\ k = 0
     /\ Permutes(id, layerSize) /\ Led(ld, {}, layerSize)
     /\ \A i, j \in Places : ld[i] = ld[j] <=> ArcsOf[i] = ArcsOf[j]

LEMMA MergingStarts == SortedOut => Merging
<1> SUFFICES ASSUME SortedOut
             PROVE  Merging
  OBVIOUS
<1> DEFINE id == ids[This(swap)]
           ld == lead[This(swap)]
<1>1. /\ Setting /\ layerSize \in Nat /\ k = 0
      /\ Permutes(id, layerSize) /\ Led(ld, {}, layerSize)
      /\ \A i, j \in Places : ld[i] = ld[j] <=> ArcsOf[i] = ArcsOf[j]
  BY DEF SortedOut
<1> HIDE DEF id, ld
<1>2. /\ Enlisted /\ OwnOrDead /\ Places = 0..layerSize - 1
      /\ ToSet(nodes[layer]) = {layerNodes[i] : i \in Places}
  BY <1>1 DEF Setting, Places
<1>3. /\ \A j \in Places : id[j] \in Places
      /\ \A i \in Places : \E j \in Places : id[j] = i
  BY <1>1, <1>2 DEF Permutes
<1>4. k \in 0..layerSize /\ \A h \in Places : h >= k /\ ~(h < k)
  BY <1>1, <1>2
<1>5. ToSet(nodes[layer]) =
        {layerNodes[id[j]] : j \in {h \in Places : h >= k \/ ld[id[h]] = id[h]}}
  <2>1. {h \in Places : h >= k \/ ld[id[h]] = id[h]} = Places
    BY <1>4
  <2>2. {layerNodes[id[j]] : j \in Places} = {layerNodes[i] : i \in Places}
    BY <1>3
  <2> QED
    BY <1>2, <2>1, <2>2
<1>6. \A j \in Places : newV[layerNodes[id[j]]] = layerNodes[IF j < k THEN ld[id[j]] ELSE id[j]]
  <2> SUFFICES ASSUME NEW j \in Places
               PROVE  newV[layerNodes[id[j]]] = layerNodes[id[j]]
    BY <1>4
  <2>1. id[j] \in Places
    BY <1>3
  <2>2. layerNodes[id[j]] \in Was(layer) /\ layerNodes[id[j]] \in ToSet(nodes[layer])
    BY <1>2, <2>1 DEF Enlisted
  <2> QED
    BY <1>2, <2>2 DEF OwnOrDead
<1>7. \A n \in Was(layer) : n \in {layerNodes[i] : i \in Places} \/ newV[n] = Null
  BY <1>2 DEF OwnOrDead
<1> QED
  BY <1>1, <1>2, <1>4, <1>5, <1>6, <1>7 DEF Merging, id, ld

LEMMA EndSortStep == IInv /\ EndSort => IInv'
<1> SUFFICES ASSUME IInv, EndSort
             PROVE  IInv'
  OBVIOUS
<1>0. SameGiven /\ Part' = Part
  BY GivenKept, SamePart DEF Next
<1>1. pc = "sort" /\ current <= 1 /\ pc' = "merge" /\ k' = 0
  BY DEF EndSort
<1>2. UNCHANGED <<mddVars, given, layer, todo, e, layerVars, packs, radix, modes>>
  BY DEF EndSort
<1>3. UNCHANGED <<mddVars, largestLayer, layer, todo, info1, layerSize, layerNodes, layerArcs,
                  values, ids, lead, count, cumulative, nonNull, current, delta, swap, labelMode>>
  BY <1>2 DEF given, layerVars, packs, radix, modes
<1>4. /\ Frame /\ Vectors /\ Around /\ NoCounts /\ Setting /\ layer >= 0
      /\ layer \in -1..Size /\ todo \in Seq(Node)
      /\ swap \in BOOLEAN /\ labelMode \in BOOLEAN
  BY <1>1 DEF IInv
<1>5. PICK q \in Pass : PassAt(This(swap), Other(swap), q)
  BY <1>1 DEF IInv
<1>6. current \in 0..layerSize
  BY <1>4 DEF Setting
<1>7. Frame' /\ Around' /\ Setting' /\ ArcsOf' = ArcsOf /\ Places' = Places
  BY <1>0, <1>3, <1>4, <1>6, UnchangedSetting
<1>8. nodes' = nodes /\ newV' = newV /\ Was(layer)' = Was(layer)
  BY <1>0, <1>3 DEF mddVars, Was
<1>9. Vectors' /\ NoCounts'
  BY <1>3, <1>4, <1>8, UnchangedVectors DEF NoCounts, Radix
<1> DEFINE id == ids[This(swap)]
           ld == lead[This(swap)]
           m == layerSize
<1>10. Packs(ArcsOf, id, ld, m, current, q, labelMode)
  BY <1>5 DEF PassAt
<1>11. m \in Nat /\ current \in 0..m
  BY <1>4, <1>6 DEF Vectors, Index
<1> HIDE DEF id, ld, m
<1>12. /\ Permutes(id, m) /\ Led(ld, {}, m)
       /\ \A i, j \in 0..m - 1 : ld[i] = ld[j] <=> ArcsOf[i] = ArcsOf[j]
  BY <1>1, <1>10, <1>11, LastPacks
<1>13. ids'[This(swap')] = id /\ lead'[This(swap')] = ld /\ layerSize' = m
  BY <1>3 DEF id, ld, m
<1>14. Places = 0..m - 1
  BY DEF m, Places
<1>15. SortedOut'
  BY <1>1, <1>7, <1>11, <1>12, <1>13, <1>14 DEF SortedOut
<1>16. (SortedOut => Merging)'
  BY MergingStarts, PTL
<1>17. Merging'
  BY <1>15, <1>16
<1> QED
  BY <1>1, <1>3, <1>4, <1>7, <1>9, <1>17 DEF IInv

-----------------------------------------------------------------------------
\* The elements at given positions of a list that counts from 0.
LEMMA KeptFacts ==
  ASSUME NEW n \in Nat, NEW S, NEW s \in [0..n - 1 -> S], NEW I \in SUBSET (0..n - 1)
  PROVE  /\ Kept(s, I) \in Seq(S)
         /\ ToSet(Kept(s, I)) = {s[i] : i \in I}
         /\ (\A i, j \in I : s[i] = s[j] => i = j) => IsInjective(Kept(s, I))
<1>1. \A i \in I : s[i] \in S
  OBVIOUS
<1>2. Kept(s, I) = Selected(s, I)
  BY DEF Kept, Selected, Ranked
<1>3. /\ Selected(s, I) \in Seq(S)
      /\ ToSet(Selected(s, I)) = {s[i] : i \in I}
      /\ (\A i, j \in I : s[i] = s[j] => i = j) => IsInjective(Selected(s, I))
  BY <1>1, SelectedFacts
<1> QED
  BY <1>2, <1>3

\* They are all different when the list has them once.
LEMMA KeptInjective ==
  ASSUME NEW n \in Nat, NEW S, NEW s \in [0..n - 1 -> S], NEW I \in SUBSET (0..n - 1),
         \A i, j \in I : s[i] = s[j] => i = j
  PROVE  IsInjective(Kept(s, I))
<1>1. (\A i, j \in I : s[i] = s[j] => i = j) => IsInjective(Kept(s, I))
  BY KeptFacts
<1> QED
  BY <1>1

\* The places of the nodes that have one key.
WithKey(v) == {j \in Active : Key(j) = v}

\* The escape key is a key.
LEMMA OverIsKey ==
  ASSUME Vectors, NEW s, NEW t, NEW q, PassAt(s, t, q)
  PROVE  over \in Radix
<1>1. over = EscapeLabel \/ over = EscapeNode
  BY DEF PassAt, Keyed
<1>2. EscapeLabel \in Radix /\ EscapeNode \in Radix
  BY Keys DEF Vectors
<1> QED
  BY <1>1, <1>2

LEMMA RadixCountStep == IInv /\ RadixCount => IInv'
<1> SUFFICES ASSUME IInv, RadixCount
             PROVE  IInv'
  OBVIOUS
<1>0. SameGiven /\ Part' = Part
  BY GivenKept, SamePart DEF Next
<1> DEFINE first == {j \in Active : /\ count[Key(j)] = 0
                                    /\ \A i \in 0..j - 1 : Key(i) # Key(j)}
           key == [j \in Active |-> Key(j)]
<1>1. /\ pc = "sort" /\ current > 1 /\ pc' = "cumulate"
      /\ count' = [v \in Radix |-> count[v] + Cardinality({j \in Active : Key(j) = v})]
      /\ nonNull' = nonNull \o Kept(key, first)
      /\ delta' = count'[over]
  BY DEF RadixCount
<1>2. UNCHANGED <<mddVars, given, loops, layerVars, packs, cumulative, current, labelMode,
                  swap, over>>
  BY DEF RadixCount
<1>3. UNCHANGED <<mddVars, largestLayer, layer, todo, info1, layerSize, layerNodes, layerArcs,
                  values, ids, lead, cumulative, current, swap, labelMode, over>>
  BY <1>2 DEF given, loops, layerVars, packs
<1>4. /\ Frame /\ Vectors /\ Around /\ NoCounts /\ Setting /\ layer >= 0
      /\ layer \in -1..Size /\ todo \in Seq(Node)
      /\ swap \in BOOLEAN /\ labelMode \in BOOLEAN
  BY <1>1 DEF IInv
<1>5. PICK q \in Pass : PassAt(This(swap), Other(swap), q)
  BY <1>1 DEF IInv
<1>6. current \in 0..layerSize
  BY <1>4 DEF Setting
<1>7. /\ Frame' /\ Around' /\ Setting' /\ Index' = Index /\ Radix' = Radix
  BY <1>0, <1>3, <1>4, <1>6, UnchangedSetting
<1>8. (PassAt(This(swap), Other(swap), q))'
  <2>1. PassAt(This(swap), Other(swap), q)'
    BY <1>0, <1>3, <1>5, UnchangedPass
  <2> QED
    BY <1>3, <2>1
<1>9. /\ current \in Nat /\ current <= layerSize /\ layerSize < largestLayer
      /\ largestLayer \in Nat /\ layerSize \in Nat
      /\ Active = 0..current - 1 /\ \A j \in Active : Key(j) \in Radix
  <2>1. Permutes(ids[This(swap)], layerSize) /\ This(swap) \in 1..2
    BY <1>4, <1>5, Copies DEF PassAt, Packs
  <2> QED
    BY <1>4, <1>6, <2>1, PassBounds DEF Key
<1>10. ASSUME NEW v
       PROVE  /\ WithKey(v) \in SUBSET (0..current - 1) /\ IsFiniteSet(WithKey(v))
              /\ Cardinality(WithKey(v)) \in Nat /\ Cardinality(WithKey(v)) <= current
  <2>1. WithKey(v) \in SUBSET (0..current - 1)
    BY <1>9 DEF WithKey
  <2> QED
    BY <1>9, <2>1, BelowFinite
<1>11. \A v \in Radix : count'[v] = Cardinality(WithKey(v)) /\ count'[v] \in Index
  <2> SUFFICES ASSUME NEW v \in Radix
               PROVE  count'[v] = Cardinality(WithKey(v)) /\ count'[v] \in Index
    OBVIOUS
  <2>1. count'[v] = 0 + Cardinality(WithKey(v))
    BY <1>1, <1>4 DEF NoCounts, WithKey
  <2> QED
    BY <1>9, <1>10, <2>1 DEF Index
<1>12. count' \in [Radix -> Index]
  BY <1>1, <1>11
<1>13. over \in Radix
  BY <1>4, <1>5, OverIsKey
<1>14. first \in SUBSET (0..current - 1) /\ first = {j \in Active : \A i \in 0..j - 1 : Key(i) # Key(j)}
  BY <1>4, <1>9 DEF NoCounts
<1>15. key \in [0..current - 1 -> Radix] /\ \A j \in Active : key[j] = Key(j)
  BY <1>9
<1> HIDE DEF first, key
<1>16. nonNull' = Kept(key, first)
  <2>1. Kept(key, first) \in Seq(Radix)
    BY <1>9, <1>14, <1>15, KeptFacts
  <2> QED
    BY <1>1, <1>4, <2>1 DEF NoCounts
<1>17. \A i, j \in first : key[i] = key[j] => i = j
  <2> SUFFICES ASSUME NEW i \in first, NEW j \in first, key[i] = key[j], i # j
               PROVE  FALSE
    OBVIOUS
  <2>1. i \in 0..current - 1 /\ j \in 0..current - 1 /\ Key(i) = Key(j)
    BY <1>9, <1>14, <1>15
  <2>2. i \in 0..j - 1 \/ j \in 0..i - 1
    BY <2>1
  <2> QED
    BY <1>14, <2>1, <2>2
<1>18. /\ nonNull' \in Seq(Radix) /\ ToSet(nonNull') = {key[i] : i \in first}
       /\ IsInjective(nonNull')
  <2>1. Kept(key, first) \in Seq(Radix)
    BY <1>9, <1>14, <1>15, KeptFacts
  <2>3. ToSet(Kept(key, first)) = {key[i] : i \in first}
    BY <1>9, <1>14, <1>15, KeptFacts
  <2>2. IsInjective(Kept(key, first))
    BY <1>9, <1>14, <1>15, <1>17, KeptInjective
  <2> QED
    BY <1>16, <2>1, <2>2, <2>3
<1>19. {key[i] : i \in first} = {Key(j) : j \in Active}
  <2>1. ASSUME NEW j \in Active
        PROVE  \E i \in first : Key(i) = Key(j)
    <3> DEFINE T == {i \in Active : Key(i) = Key(j)}
    <3>1. T \in SUBSET Nat /\ j \in T
      BY <1>9
    <3>2. Min(T) \in T /\ \A i \in T : Min(T) <= i
      BY <3>1, Least
    <3>3. PICK i \in Active : Key(i) = Key(j) /\ \A h \in Active : Key(h) = Key(j) => i <= h
      BY <3>2
    <3>4. \A h \in 0..i - 1 : h \in Active /\ ~(i <= h)
      BY <1>9
    <3>5. i \in first
      BY <1>14, <3>3, <3>4
    <3> QED
      BY <3>3, <3>5
  <2>2. \A i \in first : i \in Active
    BY <1>14
  <2> QED
    BY <1>15, <2>1, <2>2
<1>20. \A j \in Active : Key(j)' = Key(j)
  BY <1>3 DEF Key
<1>21. Active' = Active
  BY <1>3 DEF Active
<1>22. Counted'
  <2>1. \A v \in Radix : WithKey(v) = {j \in Active : Key(j)' = v}
    BY <1>20 DEF WithKey
  <2>2. \A v \in Radix : count'[v] = Cardinality({j \in Active : Key(j)' = v})
    BY <1>11, <2>1
  <2>3. {Key(j)' : j \in Active} = {Key(j) : j \in Active}
    BY <1>20
  <2> QED
    BY <1>1, <1>3, <1>7, <1>18, <1>19, <1>21, <2>2, <2>3 DEF Counted
<1>23. Vectors'
  <2>1. nodes' = nodes
    BY <1>3 DEF mddVars
  <2>2. delta' \in Index
    BY <1>1, <1>11, <1>13
  <2> QED
    BY <1>3, <1>4, <1>7, <1>12, <1>18, <2>1, <2>2 DEF Vectors
<1> QED
  BY <1>1, <1>3, <1>4, <1>7, <1>8, <1>22, <1>23 DEF IInv

-----------------------------------------------------------------------------
\* s with o at the end, if s has o.
ToEnd(s, o) ==
  [i \in 1..Len(s) |-> IF s[i] = o THEN s[Len(s)]
                       ELSE IF i = Len(s) /\ o \in ToSet(s) THEN o ELSE s[i]]

\* It has the elements of s.
LEMMA MovedToEnd ==
  ASSUME NEW S, NEW s \in Seq(S), IsInjective(s), NEW o
  PROVE  /\ \A p, r \in 1..Len(s) : ToEnd(s, o)[p] = ToEnd(s, o)[r] => p = r
         /\ ToSet(ToEnd(s, o)) = ToSet(s)
         /\ \A p \in 1..Len(s) : ToEnd(s, o)[p] = o => p = Len(s)
<1> DEFINE l == Len(s)
           t == ToEnd(s, o)
<1>1. l \in Nat /\ DOMAIN s = 1..l /\ \A p, r \in 1..l : s[p] = s[r] => p = r
  BY DEF IsInjective
<1>2. \A i \in 1..l : t[i] = IF s[i] = o THEN s[l]
                             ELSE IF i = l /\ o \in ToSet(s) THEN o ELSE s[i]
  BY DEF ToEnd
<1>3. DOMAIN t = 1..l
  BY DEF ToEnd
<1> HIDE DEF l, t
<1>4. CASE o \in ToSet(s)
  <2>1. PICK h \in 1..l : s[h] = o
    BY <1>1, <1>4 DEF ToSet
  <2>2. \A i \in 1..l : t[i] = IF i = h THEN s[l] ELSE IF i = l THEN o ELSE s[i]
    BY <1>1, <1>2, <1>4, <2>1
  <2>3. l \in 1..l
    BY <1>1, <2>1
  <2> DEFINE from(i) == IF i = h THEN l ELSE IF i = l THEN h ELSE i
  <2>8. \A i \in 1..l : from(i) \in 1..l /\ t[i] = s[from(i)]
    BY <2>1, <2>2, <2>3
  <2>9. \A p, r \in 1..l : from(p) = from(r) => p = r
    OBVIOUS
  <2> HIDE DEF from
  <2>4. \A p, r \in 1..l : t[p] = t[r] => p = r
    <3> SUFFICES ASSUME NEW p \in 1..l, NEW r \in 1..l, t[p] = t[r]
                 PROVE  p = r
      OBVIOUS
    <3>1. s[from(p)] = s[from(r)] /\ from(p) \in 1..l /\ from(r) \in 1..l
      BY <2>8
    <3>2. from(p) = from(r)
      BY <1>1, <3>1
    <3> QED
      BY <2>9, <3>2
  <2>5. \A p \in 1..l : t[p] = o => p = l
    BY <1>1, <2>1, <2>2, <2>3
  <2>6. ASSUME NEW p \in 1..l
        PROVE  (\E r \in 1..l : t[p] = s[r]) /\ (\E r \in 1..l : s[p] = t[r])
    BY <2>1, <2>2, <2>3
  <2>7. ToSet(t) = ToSet(s)
    <3>1. ToSet(t) = {t[p] : p \in 1..l} /\ ToSet(s) = {s[p] : p \in 1..l}
      BY <1>1, <1>3 DEF ToSet
    <3>2. ASSUME NEW p \in 1..l
          PROVE  t[p] \in ToSet(s) /\ s[p] \in ToSet(t)
      <4>1. PICK r \in 1..l : t[p] = s[r]
        BY <2>6
      <4>2. PICK g \in 1..l : s[p] = t[g]
        BY <2>6
      <4> QED
        BY <3>1, <4>1, <4>2
    <3>3. ToSet(t) \subseteq ToSet(s)
      BY <3>1, <3>2
    <3>4. ToSet(s) \subseteq ToSet(t)
      BY <3>1, <3>2
    <3> QED
      BY <3>3, <3>4
  <2> QED
    BY <2>4, <2>5, <2>7 DEF l, t
<1>5. CASE o \notin ToSet(s)
  <2>1. \A i \in 1..l : s[i] # o
    BY <1>1, <1>5 DEF ToSet
  <2>2. \A i \in 1..l : t[i] = s[i]
    BY <1>2, <1>5, <2>1
  <2>3. ToSet(t) = ToSet(s)
    BY <1>1, <1>3, <2>2 DEF ToSet
  <2> QED
    BY <1>1, <2>1, <2>2, <2>3 DEF l, t
<1> QED
  BY <1>4, <1>5

\* The sums of the numbers before each place.
Sums(f, w, l) == f = [i \in 1..l |-> IF i = 1 THEN 0 ELSE f[i - 1] + w[i - 1]]

LEMMA SumsExist ==
  ASSUME NEW l \in Nat, NEW w \in [1..l -> Nat]
  PROVE  \E f : Sums(f, w, l)
<1> DEFINE step == [i \in 1..l |-> [x \in Nat |-> IF i = 1 THEN 0 ELSE x + w[i - 1]]]
<1>1. step \in [1..l -> [Nat -> Nat]]
  <2>1. \A i \in 1..l : i # 1 => i - 1 \in 1..l
    OBVIOUS
  <2> QED
    BY <2>1
<1>2. \A i \in 1..l, x \in Nat : step[i][x] = IF i = 1 THEN 0 ELSE x + w[i - 1]
  OBVIOUS
<1> HIDE DEF step
<1> DEFINE U == Nat
           none == 0
<1>8. l \in Nat /\ none \in U /\ step \in [1..l -> [U -> U]]
  BY <1>1
<1> HIDE DEF U, none
<1>9. \E f : f \in [0..l -> U] /\ Iterates(f, none, step, l)
  BY <1>8, RecursionExists
<1>3. PICK f \in [0..l -> Nat] : f[0] = 0 /\ \A i \in 1..l : f[i] = step[i][f[i - 1]]
  BY <1>9 DEF U, none, Iterates
<1> DEFINE g == [i \in 1..l |-> f[i]]
<1>4. \A i \in 1..l : f[i] = IF i = 1 THEN 0 ELSE f[i - 1] + w[i - 1]
  <2>1. \A i \in 1..l : i - 1 \in 0..l
    OBVIOUS
  <2> QED
    BY <1>2, <1>3, <2>1
<1>5. \A i \in 1..l : i # 1 => i - 1 \in 1..l
  OBVIOUS
<1>6. \A i \in 1..l : g[i] = IF i = 1 THEN 0 ELSE g[i - 1] + w[i - 1]
  BY <1>4, <1>5
<1>7. g = [i \in 1..l |-> IF i = 1 THEN 0 ELSE g[i - 1] + w[i - 1]]
  BY <1>6
<1> QED
  BY <1>7 DEF Sums

\* The keys in the order in which their places follow.
KeyList == ToEnd(nonNull, over)

\* Where the places of each begin.
Begins == CHOOSE f : f = [i \in 1..Len(nonNull) |->
                            IF i = 1 THEN 0 ELSE f[i - 1] + count[KeyList[i - 1]]]

LEMMA BeginsAreSums ==
  ASSUME nonNull \in Seq(Radix), ToSet(KeyList) = ToSet(nonNull),
         count \in [Radix -> Nat]
  PROVE  /\ Len(nonNull) > 0 => Begins[1] = 0
         /\ \A p \in 2..Len(nonNull) : Begins[p] = Begins[p - 1] + count[KeyList[p - 1]]
<1> DEFINE l == Len(nonNull)
           w == [i \in 1..l |-> count[KeyList[i]]]
<1>1. l \in Nat /\ DOMAIN KeyList = 1..l
  BY DEF KeyList, ToEnd
<1>2. \A i \in 1..l : KeyList[i] \in Radix
  <2>1. \A i \in 1..l : KeyList[i] \in ToSet(nonNull)
    BY <1>1 DEF ToSet
  <2> QED
    BY <2>1 DEF ToSet
<1>3. w \in [1..l -> Nat] /\ \A i \in 1..l : w[i] = count[KeyList[i]]
  BY <1>2
<1>4. Begins = CHOOSE f : f = [i \in 1..l |-> IF i = 1 THEN 0 ELSE f[i - 1] + count[KeyList[i - 1]]]
  BY DEF Begins
<1> HIDE DEF l, w
<1>5. PICK f : f = [i \in 1..l |-> IF i = 1 THEN 0 ELSE f[i - 1] + w[i - 1]]
  BY <1>1, <1>3, SumsExist DEF Sums
<1>6. \A i \in 1..l : i # 1 => i - 1 \in 1..l
  BY <1>1
<1>7. f = [i \in 1..l |-> IF i = 1 THEN 0 ELSE f[i - 1] + count[KeyList[i - 1]]]
  BY <1>3, <1>5, <1>6
<1>8. Begins = [i \in 1..l |-> IF i = 1 THEN 0 ELSE Begins[i - 1] + count[KeyList[i - 1]]]
  BY <1>4, <1>7
<1>9. \A i \in 1..l : Begins[i] = IF i = 1 THEN 0 ELSE Begins[i - 1] + count[KeyList[i - 1]]
  BY <1>8
<1>10. (l > 0 => 1 \in 1..l) /\ \A p \in 2..l : p \in 1..l /\ p # 1
  BY <1>1
<1> QED
  BY <1>9, <1>10 DEF l

\* What the keys are once they are counted.
LEMMA CountedKeys ==
  ASSUME Vectors, Counted, current \in Nat, \A j \in Active : Key(j) \in Radix
  PROVE  /\ \A p, r \in 1..Len(nonNull) : KeyList[p] = KeyList[r] => p = r
         /\ DOMAIN KeyList = 1..Len(nonNull)
         /\ ToSet(KeyList) = {Key(j) : j \in Active}
         /\ \A p \in 1..Len(nonNull) : /\ KeyList[p] \in Radix
                                       /\ KeyList[p] = over => p = Len(nonNull)
         /\ \A p \in 1..Len(nonNull) : \E j \in Active : KeyList[p] = Key(j)
         /\ \A j \in Active : \E p \in 1..Len(nonNull) : KeyList[p] = Key(j)
<1> DEFINE l == Len(nonNull)
           t == KeyList
<1>1. nonNull \in Seq(Radix) /\ IsInjective(nonNull) /\ ToSet(nonNull) = {Key(j) : j \in Active}
  BY DEF Vectors, Counted
<1>2. t = ToEnd(nonNull, over)
  BY DEF KeyList
<1>3. DOMAIN t = 1..l
  BY <1>2 DEF ToEnd
<1> HIDE DEF t
<1>4. \A p, r \in 1..Len(nonNull) : t[p] = t[r] => p = r
  BY <1>1, <1>2, MovedToEnd
<1>5. ToSet(t) = ToSet(nonNull)
  BY <1>1, <1>2, MovedToEnd
<1>6. \A p \in 1..Len(nonNull) : t[p] = over => p = Len(nonNull)
  BY <1>1, <1>2, MovedToEnd
<1> HIDE DEF l
<1>7. ToSet(t) = {t[p] : p \in 1..l}
  BY <1>3 DEF ToSet
<1>8. \A p \in 1..l : \E j \in Active : t[p] = Key(j)
  BY <1>1, <1>5, <1>7
<1>9. \A j \in Active : \E p \in 1..l : t[p] = Key(j)
  BY <1>1, <1>5, <1>7
<1>10. \A p \in 1..l : t[p] \in Radix
  BY <1>8
<1> QED
  BY <1>1, <1>3, <1>4, <1>5, <1>6, <1>8, <1>9, <1>10 DEF l, t

LEMMA RadixCumulativeStep == IInv /\ RadixCumulative => IInv'
<1> SUFFICES ASSUME IInv, RadixCumulative
             PROVE  IInv'
  OBVIOUS
<1>0. SameGiven /\ Part' = Part
  BY GivenKept, SamePart DEF Next
<1> DEFINE l == Len(nonNull)
           key == [j \in Active |-> Key(j)]
           c == current
<1>1. /\ pc = "cumulate" /\ pc' = "permute"
      /\ cumulative' = [v \in Radix |-> IF v \in ToSet(KeyList)
                                        THEN Begins[CHOOSE i \in 1..l : KeyList[i] = v]
                                        ELSE cumulative[v]]
      /\ count' = [v \in Radix |-> IF v \in ToSet(KeyList) THEN 0 ELSE count[v]]
      /\ nonNull' = <<>>
  BY DEF RadixCumulative, KeyList, ToEnd, Begins
<1>2. UNCHANGED <<mddVars, given, loops, layerVars, packs, modes>>
  BY DEF RadixCumulative
<1>3. UNCHANGED <<mddVars, largestLayer, layer, todo, info1, layerSize, layerNodes, layerArcs,
                  values, ids, lead, current, swap, labelMode, over, delta>>
  BY <1>2 DEF given, loops, layerVars, packs, modes
<1>4. /\ Frame /\ Vectors /\ Around /\ Setting /\ Counted /\ layer >= 0 /\ current > 1
      /\ layer \in -1..Size /\ todo \in Seq(Node)
      /\ swap \in BOOLEAN /\ labelMode \in BOOLEAN
  BY <1>1 DEF IInv
<1>5. PICK q \in Pass : PassAt(This(swap), Other(swap), q)
  BY <1>1 DEF IInv
<1>6. current \in 0..layerSize
  BY <1>4 DEF Setting
<1>7. /\ Frame' /\ Around' /\ Setting' /\ Index' = Index /\ Radix' = Radix
  BY <1>0, <1>3, <1>4, <1>6, UnchangedSetting
<1>8. (PassAt(This(swap), Other(swap), q))'
  <2>1. PassAt(This(swap), Other(swap), q)'
    BY <1>0, <1>3, <1>5, UnchangedPass
  <2> QED
    BY <1>3, <2>1
<1>9. /\ c \in Nat /\ c <= layerSize /\ layerSize < largestLayer
      /\ largestLayer \in Nat /\ layerSize \in Nat
      /\ Active = 0..c - 1 /\ \A j \in Active : Key(j) \in Radix
  <2>1. Permutes(ids[This(swap)], layerSize) /\ This(swap) \in 1..2
    BY <1>4, <1>5, Copies DEF PassAt, Packs
  <2> QED
    BY <1>4, <1>6, <2>1, PassBounds DEF Key
<1>10. /\ \A p, r \in 1..l : KeyList[p] = KeyList[r] => p = r
       /\ DOMAIN KeyList = 1..l
       /\ ToSet(KeyList) = {Key(j) : j \in Active}
       /\ \A p \in 1..l : KeyList[p] \in Radix /\ (KeyList[p] = over => p = l)
       /\ \A p \in 1..l : \E j \in Active : KeyList[p] = Key(j)
       /\ \A j \in Active : \E p \in 1..l : KeyList[p] = Key(j)
  BY <1>4, <1>9, CountedKeys
<1>11. /\ \A v \in Radix : count[v] = Cardinality({j \in Active : Key(j) = v})
       /\ ToSet(nonNull) = {Key(j) : j \in Active} /\ delta = count[over]
       /\ nonNull \in Seq(Radix) /\ l \in Nat
  <2>1. nonNull \in Seq(Radix)
    BY <1>4 DEF Vectors
  <2>2. l \in Nat
    BY <2>1
  <2> QED
    BY <1>4, <2>1, <2>2 DEF Counted
<1>12. \A j \in Active : key[j] = Key(j)
  OBVIOUS
<1> HIDE DEF key, c, l
<1>13. \A v \in Radix : count[v] = Cardinality(HavingKey(key, c, v))
  <2> SUFFICES ASSUME NEW v \in Radix
               PROVE  count[v] = Cardinality(HavingKey(key, c, v))
    OBVIOUS
  <2>1. {j \in Active : Key(j) = v} = HavingKey(key, c, v)
    BY <1>9, <1>12 DEF HavingKey
  <2> QED
    BY <1>11, <2>1
<1>14. AddsUp(Begins, KeyList, key, c, l)
  <2>1. count \in [Radix -> Nat]
    BY <1>4, <1>9 DEF Vectors, Index
  <2>2. /\ l > 0 => Begins[1] = 0
        /\ \A p \in 2..l : Begins[p] = Begins[p - 1] + count[KeyList[p - 1]]
    BY <1>10, <1>11, <2>1, BeginsAreSums DEF l
  <2>3. \A p \in 2..l : count[KeyList[p - 1]] = Cardinality(HavingKey(key, c, KeyList[p - 1]))
    <3>1. \A p \in 2..l : p - 1 \in 1..l
      BY <1>11
    <3> QED
      BY <1>10, <1>13, <3>1
  <2> QED
    BY <2>2, <2>3 DEF AddsUp
<1>15. \A p \in 1..l : cumulative'[KeyList[p]] = Begins[p]
  <2> SUFFICES ASSUME NEW p \in 1..l
               PROVE  cumulative'[KeyList[p]] = Begins[p]
    OBVIOUS
  <2>1. KeyList[p] \in ToSet(KeyList) /\ KeyList[p] \in Radix
    BY <1>10 DEF ToSet
  <2>2. (CHOOSE i \in 1..l : KeyList[i] = KeyList[p]) = p
    BY <1>10
  <2> QED
    BY <1>1, <2>1, <2>2
<1> DEFINE cum == cumulative'
<1>32. \A j \in 0..c - 1 : j \in Active /\ key[j] = Key(j)
  BY <1>9, <1>12
<1>16. \A j \in 0..c - 1 : \E p \in 1..l : KeyList[p] = key[j]
  BY <1>10, <1>32
<1>17. ASSUME NEW p \in 1..l
       PROVE  \E j \in 0..c - 1 : KeyList[p] = key[j]
  <2>1. PICK j \in Active : KeyList[p] = Key(j)
    BY <1>10
  <2> QED
    BY <1>9, <1>12, <2>1
<1>18. \A p \in 1..l : cum[KeyList[p]] = Begins[p]
  BY <1>15
<1> HIDE DEF cum
<1>19. /\ Starts(key, cum, c)
       /\ \A p, r \in 1..l : p < r => cum[KeyList[p]] < cum[KeyList[r]]
  <2>1. ListsKeys(KeyList, key, c, l)
    BY <1>10, <1>16, <1>17 DEF ListsKeys
  <2>2. c \in Nat /\ l \in Nat
    BY <1>9, <1>11
  <2>3. Starts(key, cum, c) /\ Ascends(cum, KeyList, l)
    BY <1>14, <1>18, <2>1, <2>2, SumsAreStarts
  <2> QED
    BY <2>3 DEF Ascends
<1>20. ASSUME NEW i \in Active, NEW j \in Active, key[i] = over, key[j] # over
       PROVE  cum[key[j]] < cum[key[i]]
  <2>1. PICK p \in 1..l : KeyList[p] = key[i]
    BY <1>9, <1>16
  <2>2. PICK r \in 1..l : KeyList[r] = key[j]
    BY <1>9, <1>16
  <2>3. p = l /\ r # p
    BY <1>10, <1>20, <2>1, <2>2
  <2>4. r < p
    BY <1>11, <2>3
  <2> QED
    BY <1>19, <2>1, <2>2, <2>4
<1>21. over \in Radix
  BY <1>4, <1>5, OverIsKey
<1>22. delta = Cardinality({j \in Active : key[j] = over})
  BY <1>9, <1>11, <1>13, <1>21 DEF HavingKey
<1>23. Active' = Active /\ \A j \in Active : Key(j)' = Key(j)
  BY <1>3 DEF Active, Key
<1>24. ([j \in Active |-> Key(j)])' = key
  BY <1>23 DEF key
<1>25. Cumulated'
  BY <1>3, <1>9, <1>19, <1>20, <1>22, <1>23, <1>24 DEF Cumulated, cum, c
<1>26. \A v \in Radix : v \notin ToSet(KeyList) => count[v] = 0
  <2> SUFFICES ASSUME NEW v \in Radix, v \notin ToSet(KeyList)
               PROVE  count[v] = 0
    OBVIOUS
  <2>1. {j \in Active : Key(j) = v} = {}
    BY <1>10
  <2> QED
    BY <1>11, <2>1, FS_EmptySet
<1>27. NoCounts'
  BY <1>1, <1>7, <1>26 DEF NoCounts
<1>28. \A v \in Radix : v \in ToSet(KeyList) => cumulative'[v] \in Index
  <2> SUFFICES ASSUME NEW v \in Radix, v \in ToSet(KeyList)
               PROVE  cum[v] \in Index
    BY DEF cum
  <2>1. PICK j \in Active : v = key[j]
    BY <1>10, <1>12
  <2>2. cum[v] = Cardinality({i \in 0..c - 1 : cum[key[i]] < cum[key[j]]})
    BY <1>9, <1>19, <2>1 DEF Starts
  <2>3. {i \in 0..c - 1 : cum[key[i]] < cum[key[j]]} \in SUBSET (0..c - 1)
    OBVIOUS
  <2>4. cum[v] \in Nat /\ cum[v] <= c
    BY <1>9, <2>2, <2>3, BelowFinite
  <2> QED
    BY <1>9, <2>4 DEF Index
<1>29. cumulative' \in [Radix -> Index]
  <2>1. \A v \in Radix : cumulative'[v] \in Index
    BY <1>1, <1>4, <1>28 DEF Vectors
  <2> QED
    BY <1>1, <2>1
<1>30. count' \in [Radix -> Index]
  <2>1. 0 \in Index
    BY <1>9 DEF Index
  <2> QED
    BY <1>1, <1>4, <2>1 DEF Vectors
<1>31. Vectors'
  <2>1. nodes' = nodes /\ nonNull' \in Seq(Radix)
    BY <1>1, <1>3 DEF mddVars
  <2> QED
    BY <1>3, <1>4, <1>7, <1>29, <1>30, <2>1 DEF Vectors
<1> QED
  BY <1>1, <1>3, <1>4, <1>7, <1>8, <1>25, <1>27, <1>31 DEF IInv, c

-----------------------------------------------------------------------------
\* What is written at the place of each j of J is found there, the rest is as it was.
LEMMA WrittenAt ==
  ASSUME NEW J, NEW I, NEW T, NEW w, \A j \in J : w[j] \in T, NEW old \in [I -> T],
         NEW P, \A i, j \in J : P[i] = P[j] => i = j, \A j \in J : P[j] \in I,
         NEW new, new = [i \in I |-> IF \E j \in J : P[j] = i
                                     THEN w[CHOOSE j \in J : P[j] = i] ELSE old[i]]
  PROVE  /\ new \in [I -> T]
         /\ \A j \in J : new[P[j]] = w[j]
         /\ \A i \in I : (\A j \in J : P[j] # i) => new[i] = old[i]
<1>1. ASSUME NEW j \in J
      PROVE  new[P[j]] = w[j]
  <2>1. (CHOOSE h \in J : P[h] = P[j]) = j
    OBVIOUS
  <2> QED
    BY <2>1
<1>2. ASSUME NEW i \in I
      PROVE  new[i] \in T /\ ((\A j \in J : P[j] # i) => new[i] = old[i])
  <2>1. CASE \E j \in J : P[j] = i
    BY <1>1, <2>1
  <2>2. CASE \A j \in J : P[j] # i
    BY <2>2
  <2> QED
    BY <2>1, <2>2
<1> QED
  BY <1>1, <1>2

\* The place of each node in the new permutation.
NewPlaces == [j \in Active |-> Slot([i \in Active |-> Key(i)], cumulative, j)]

\* The new permutation.
Distribution ==
  [i \in Index |-> IF \E j \in Active : NewPlaces[j] = i
                   THEN ids[This(swap)][CHOOSE j \in Active : NewPlaces[j] = i]
                   ELSE ids[Other(swap)][i]]

LEMMA PermutationDistributes ==
  ASSUME Permutation, current \in Nat, Active = 0..current - 1,
         ids \in [1..2 -> [Index -> Index]], swap \in BOOLEAN
  PROVE  ids' = [ids EXCEPT ![Other(swap)] = Distribution]
<1> DEFINE place(j) == cumulative[Key(j)] + Cardinality({i \in 0..j - 1 : Key(i) = Key(j)})
           D == [i \in Index |-> IF \E j \in Active : place(j) = i
                                 THEN ids[This(swap)][CHOOSE j \in Active : place(j) = i]
                                 ELSE ids[Other(swap)][i]]
<1>1. Other(swap) \in 1..2
  BY Copies
<1>2. ids' = [ids EXCEPT ![Other(swap)] = D]
  BY <1>1 DEF Permutation
<1>3. ASSUME NEW j \in Active
      PROVE  NewPlaces[j] = place(j)
  <2> DEFINE key == [i \in Active |-> Key(i)]
  <2>1. \A i \in 0..j - 1 : i \in Active
    OBVIOUS
  <2>2. key[j] = Key(j) /\ \A i \in 0..j - 1 : key[i] = Key(i)
    BY <2>1
  <2>3. NewPlaces[j] = Slot(key, cumulative, j)
    BY DEF NewPlaces
  <2> HIDE DEF key
  <2>4. {i \in 0..j - 1 : key[i] = key[j]} = {i \in 0..j - 1 : Key(i) = Key(j)}
    BY <2>2
  <2> QED
    BY <2>2, <2>3, <2>4 DEF Slot
<1> HIDE DEF place
<1>4. \A i : (\E j \in Active : NewPlaces[j] = i) <=> (\E j \in Active : place(j) = i)
  BY <1>3
<1>5. \A i : (CHOOSE j \in Active : NewPlaces[j] = i) = (CHOOSE j \in Active : place(j) = i)
  BY <1>3
<1>6. D = Distribution
  BY <1>4, <1>5 DEF Distribution
<1> QED
  BY <1>2, <1>6

\* A key starts before the nodes that have it.
LEMMA EndsInBounds ==
  ASSUME NEW c \in Nat, NEW key, NEW cum, Starts(key, cum, c), NEW v
  PROVE  LET n == Cardinality(HavingKey(key, c, v)) IN
         /\ n \in Nat
         /\ HavingKey(key, c, v) = {} => n = 0
         /\ HavingKey(key, c, v) # {} => cum[v] + n \in 0..c
<1> DEFINE H == HavingKey(key, c, v)
<1>1. H \in SUBSET (0..c - 1)
  BY DEF HavingKey
<1> HIDE DEF H
<1>2. IsFiniteSet(H) /\ Cardinality(H) \in Nat
  BY <1>1, BelowFinite
<1>3. H = {} => Cardinality(H) = 0
  BY FS_EmptySet
<1>4. ASSUME NEW h \in H
      PROVE  cum[v] + Cardinality(H) \in 0..c
  <2> DEFINE S == {i \in 0..c - 1 : cum[key[i]] < cum[key[h]]}
  <2>1. h \in 0..c - 1 /\ key[h] = v /\ \A i \in H : key[i] = v
    BY <1>4 DEF H, HavingKey
  <2>2. cum[v] \in Nat /\ cum[v] = Cardinality(S)
    BY <2>1 DEF Starts
  <2>3. S \in SUBSET (0..c - 1)
    OBVIOUS
  <2>4. S \cap H = {}
    BY <2>1, <2>2
  <2> HIDE DEF S
  <2>5. IsFiniteSet(S) /\ Cardinality(S) \in Nat
    BY <2>3, BelowFinite
  <2>6. Cardinality(S \cup H) = Cardinality(S) + Cardinality(H) - Cardinality(S \cap H)
    BY <1>2, <2>5, FS_Union
  <2>7. Cardinality(S \cap H) = 0
    BY <2>4, FS_EmptySet
  <2>8. S \cup H \in SUBSET (0..c - 1)
    BY <1>1, <2>3
  <2>9. Cardinality(S \cup H) <= c
    BY <2>8, BelowFinite
  <2> QED
    BY <1>2, <2>2, <2>5, <2>6, <2>7, <2>9
<1> QED
  BY <1>2, <1>3, <1>4 DEF H

LEMMA PermutationStep == IInv /\ Permutation => IInv'
<1> SUFFICES ASSUME IInv, Permutation
             PROVE  IInv'
  OBVIOUS
<1>0. SameGiven /\ Part' = Part
  BY GivenKept, SamePart DEF Next
<1> DEFINE c == current
           key == [j \in Active |-> Key(j)]
<1>1. /\ pc = "permute" /\ pc' = "lead" /\ swap' = ~swap
      /\ cumulative' = [v \in Radix |-> cumulative[v] + Cardinality({j \in Active : Key(j) = v})]
  BY DEF Permutation
<1>2. UNCHANGED <<mddVars, given, loops, layerVars, lead, count, nonNull, current, labelMode,
                  over, delta>>
  BY DEF Permutation
<1>3. UNCHANGED <<mddVars, largestLayer, layer, todo, info1, layerSize, layerNodes, layerArcs,
                  values, lead, count, nonNull, current, labelMode, over, delta>>
  BY <1>2 DEF given, loops, layerVars
<1>4. /\ Frame /\ Vectors /\ Around /\ Setting /\ NoCounts /\ Cumulated /\ layer >= 0
      /\ current > 1 /\ layer \in -1..Size /\ todo \in Seq(Node)
      /\ swap \in BOOLEAN /\ labelMode \in BOOLEAN
  BY <1>1 DEF IInv
<1>26. PICK t \in 1..2 : t = This(swap)
  BY <1>4, Copies
<1>27. PICK o \in 1..2 : o = Other(swap)
  BY <1>4, Copies
<1>5. PICK q \in Pass : PassAt(t, o, q)
  BY <1>1, <1>26, <1>27 DEF IInv
<1>6. current \in 0..layerSize
  BY <1>4 DEF Setting
<1>7. /\ Frame' /\ Around' /\ Setting' /\ ArcsOf' = ArcsOf /\ Index' = Index /\ Radix' = Radix
  BY <1>0, <1>3, <1>4, <1>6, UnchangedSetting
<1>8. /\ t \in 1..2 /\ o \in 1..2 /\ t # o /\ This(swap') = o /\ Other(swap') = t
      /\ \A s \in 1..2 : s = t \/ s = o
  BY <1>1, <1>4, <1>26, <1>27, Copies
<1>9. Permutes(ids[t], layerSize) /\ Contiguous(ids[t], lead[t], c) /\ Agree(t, o)
      /\ Packs(ArcsOf, ids[t], lead[t], layerSize, c, q, labelMode)
  BY <1>5 DEF PassAt, Packs
<1>10. /\ c \in Nat /\ c <= layerSize /\ layerSize < largestLayer
       /\ largestLayer \in Nat /\ layerSize \in Nat
       /\ Active = 0..c - 1 /\ Active \subseteq Places /\ Places \subseteq Index
       /\ Places = 0..layerSize - 1
       /\ \A j \in Active : Key(j) \in Radix /\ Key(j) = values[ids[t][j]]
  BY <1>4, <1>6, <1>9, <1>26, PassBounds DEF Key
<1>11. /\ Starts(key, cumulative, c)
       /\ \A i, j \in Active : key[i] = over /\ key[j] # over
                                 => cumulative[key[j]] < cumulative[key[i]]
       /\ delta = Cardinality({j \in Active : key[j] = over})
  BY <1>4 DEF Cumulated
<1>12. /\ ids \in [1..2 -> [Index -> Index]] /\ cumulative \in [Radix -> Index]
  BY <1>4 DEF Vectors
<1>13. ids' = [ids EXCEPT ![o] = Distribution]
  BY <1>4, <1>10, <1>12, <1>27, PermutationDistributes
<1>14. \A j \in Active : key[j] = Key(j) /\ NewPlaces[j] = Slot(key, cumulative, j)
  BY DEF NewPlaces
<1> HIDE DEF key, c
<1>15. /\ \A j \in Active : NewPlaces[j] \in Active
       /\ \A i, j \in Active : NewPlaces[i] = NewPlaces[j] => i = j
  <2>1. \A j \in 0..c - 1 : Slot(key, cumulative, j) \in 0..c - 1
    BY <1>10, <1>11, SlotsAreRanks
  <2>2. \A i, j \in 0..c - 1 : Slot(key, cumulative, i) = Slot(key, cumulative, j) => i = j
    BY <1>10, <1>11, SlotsAreRanks
  <2>3. Active = 0..c - 1 /\ \A j \in Active : NewPlaces[j] = Slot(key, cumulative, j)
    BY <1>10, <1>14
  <2>4. \A j \in Active : NewPlaces[j] \in Active
    BY <2>1, <2>3
  <2>5. ASSUME NEW i \in Active, NEW j \in Active, NewPlaces[i] = NewPlaces[j]
        PROVE  i = j
    BY <2>2, <2>3, <2>5
  <2> QED
    BY <2>4, <2>5
<1>16. /\ Distribution \in [Index -> Index]
       /\ \A j \in Active : Distribution[NewPlaces[j]] = ids[t][j]
       /\ \A i \in Index : (\A j \in Active : NewPlaces[j] # i) => Distribution[i] = ids[o][i]
  <2> DEFINE old == ids[o]
             w == ids[t]
             I == Index
             P == NewPlaces
             new == Distribution
  <2>1. old \in [I -> I] /\ \A j \in Active : w[j] \in I
    BY <1>8, <1>10, <1>12
  <2>2. /\ \A i, j \in Active : P[i] = P[j] => i = j
        /\ \A j \in Active : P[j] \in I
    BY <1>10, <1>15
  <2>3. new = [i \in I |-> IF \E j \in Active : P[j] = i
                           THEN w[CHOOSE j \in Active : P[j] = i] ELSE old[i]]
    BY <1>26, <1>27 DEF Distribution
  <2> HIDE DEF old, w, I, P, new
  <2>4. new \in [I -> I]
    BY <2>1, <2>2, <2>3, WrittenAt
  <2>5. \A j \in Active : new[P[j]] = w[j]
    BY <2>1, <2>2, <2>3, WrittenAt
  <2>6. \A i \in I : (\A j \in Active : P[j] # i) => new[i] = old[i]
    BY <2>1, <2>2, <2>3, WrittenAt
  <2> QED
    BY <2>4, <2>5, <2>6 DEF old, w, I, P, new
<1>17. ids'[o] = Distribution /\ ids'[t] = ids[t] /\ ids' \in [1..2 -> [Index -> Index]]
  BY <1>8, <1>12, <1>13, <1>16
<1>18. \A j \in c..layerSize - 1 : Distribution[j] = ids[t][j]
  <2> SUFFICES ASSUME NEW j \in c..layerSize - 1
               PROVE  Distribution[j] = ids[t][j]
    OBVIOUS
  <2>1. j \in Places /\ j \in Index /\ j \notin Active
    BY <1>10
  <2>2. Distribution[j] = ids[o][j]
    BY <1>15, <1>16, <2>1
  <2>3. ids[o][j] = ids[t][j]
    BY <1>9 DEF Agree, c
  <2> QED
    BY <2>2, <2>3
<1>19. delta \in 0..c /\ Distributed(Distribution, values, lead[t], layerSize, c, delta, over)
  <2> DEFINE m == layerSize
             id == Distribution
             id2 == ids[t]
             ld == lead[t]
  <2>1. m \in Nat /\ c \in 1..m
    BY <1>4, <1>10 DEF c
  <2>2. Permutes(id2, m) /\ Contiguous(id2, ld, c)
    BY <1>9
  <2>3. \A j \in 0..c - 1 : key[j] = values[id2[j]]
    BY <1>10, <1>14
  <2>4. \A i, j \in 0..c - 1 : key[i] = over /\ key[j] # over
                                 => cumulative[key[j]] < cumulative[key[i]]
    BY <1>10, <1>11
  <2>5. delta = Cardinality({j \in 0..c - 1 : key[j] = over})
    BY <1>10, <1>11
  <2>6. \A j \in 0..c - 1 : id[Slot(key, cumulative, j)] = id2[j]
    BY <1>10, <1>14, <1>16
  <2>7. \A j \in c..m - 1 : id[j] = id2[j]
    BY <1>18
  <2> HIDE DEF m, id, id2, ld
  <2>8. delta \in 0..c /\ Distributed(id, values, ld, m, c, delta, over)
    BY <1>11, <2>1, <2>2, <2>3, <2>4, <2>5, <2>6, <2>7, Distributes, SMTT(30)
  <2> QED
    BY <2>8 DEF m, id, id2, ld
<1>20. Distributed(ids[This(swap)], values, lead[Other(swap)], layerSize, current, delta, over)'
  BY <1>3, <1>8, <1>17, <1>19 DEF c
<1>21. (PassAt(Other(swap), This(swap), q))'
  <2>1. Packs(ArcsOf, ids[t], lead[t], layerSize, current, q, labelMode)'
    BY <1>3, <1>7, <1>9, <1>17 DEF c
  <2>2. Agree(t, o)'
    BY <1>3, <1>9, <1>17, <1>18 DEF Agree, c
  <2>3. Keyed(t, q)'
    <3>1. arcs' = arcs /\ Keyed(t, q)
      BY <1>3, <1>5 DEF mddVars, PassAt
    <3>2. \A x : KeyAt(x, q)' = KeyAt(x, q)
      BY <1>3, <3>1 DEF KeyAt
    <3>3. EscapeLabel' = EscapeLabel /\ EscapeNode' = EscapeNode
      BY <1>3 DEF EscapeLabel, EscapeNode, LargestDomain
    <3> QED
      BY <1>3, <1>17, <3>1, <3>2, <3>3 DEF Keyed
  <2> QED
    BY <1>8, <2>1, <2>2, <2>3 DEF PassAt
<1>22. \A v \in Radix : cumulative[v] + Cardinality({j \in Active : Key(j) = v}) \in Index
  <2> SUFFICES ASSUME NEW v \in Radix
               PROVE  cumulative[v] + Cardinality({j \in Active : Key(j) = v}) \in Index
    OBVIOUS
  <2>1. {j \in Active : Key(j) = v} = HavingKey(key, c, v)
    BY <1>10, <1>14 DEF HavingKey
  <2> DEFINE n == Cardinality(HavingKey(key, c, v))
  <2>2. /\ HavingKey(key, c, v) = {} => n = 0
        /\ HavingKey(key, c, v) # {} => cumulative[v] + n \in 0..c
    BY <1>10, <1>11, EndsInBounds
  <2>3. cumulative[v] \in Index
    BY <1>12
  <2> HIDE DEF n
  <2>4. cumulative[v] + n \in Index
    BY <1>10, <2>2, <2>3 DEF Index
  <2> QED
    BY <2>1, <2>4 DEF n
<1>23. cumulative' \in [Radix -> Index]
  BY <1>1, <1>22
<1>24. Vectors'
  <2>1. nodes' = nodes
    BY <1>3 DEF mddVars
  <2> QED
    BY <1>3, <1>4, <1>7, <1>17, <1>23, <2>1 DEF Vectors
<1>25. NoCounts' /\ swap' \in BOOLEAN /\ (delta \in 0..current)'
  BY <1>1, <1>3, <1>4, <1>7, <1>19 DEF NoCounts, c
<1> QED
  BY <1>1, <1>3, <1>4, <1>7, <1>20, <1>21, <1>24, <1>25 DEF IInv

-----------------------------------------------------------------------------

\* A chain that ends after one step is followed to that end.
LEMMA LeaderEnds ==
  ASSUME largestLayer \in Nat \ {0}, NEW chain, NEW i, chain[chain[i]] = chain[i]
  PROVE  Leader(chain, i) = chain[i]
<1> DEFINE L == largestLayer
           Follows(f) == f = [j \in 0..L |-> IF j = 0 THEN i ELSE chain[f[j - 1]]]
           up == CHOOSE f : Follows(f)
           g == [j \in 0..L |-> IF j = 0 THEN i ELSE chain[i]]
<1>1. Follows(g)
  <2>1. \A j \in 0..L : j # 0 => j - 1 \in 0..L /\ (j - 1 = 0 \/ j - 1 # 0)
    OBVIOUS
  <2>2. \A j \in 0..L : g[j] = IF j = 0 THEN i ELSE chain[i]
    OBVIOUS
  <2>3. \A j \in 0..L : j # 0 => chain[g[j - 1]] = chain[i]
    BY <2>1, <2>2
  <2> QED
    BY <2>2, <2>3
<1>2. Follows(up)
  <2> HIDE DEF Follows, g
  <2> QED
    BY <1>1
<1>3. Leader(chain, i) = up[L]
  BY DEF Leader
<1> HIDE DEF up
<1>4. up[0] = i /\ \A j \in 1..L : up[j] = chain[up[j - 1]]
  BY <1>2
<1> DEFINE T == {j \in 0..L : j = 0 \/ up[j] = chain[i]}
<1>5. 0 \in T
  OBVIOUS
<1>6. \A j \in 0..L - 1 : j \in T => j + 1 \in T
  <2> SUFFICES ASSUME NEW j \in 0..L - 1, j \in T
               PROVE  up[j + 1] = chain[i]
    OBVIOUS
  <2>1. j + 1 \in 1..L /\ (j + 1) - 1 = j
    OBVIOUS
  <2>2. up[j + 1] = chain[up[j]]
    BY <1>4, <2>1
  <2> QED
    BY <1>4, <2>2
<1> HIDE DEF T
<1>7. \A j \in 0..L : j \in T
  BY <1>5, <1>6, UpTo
<1>8. L \in 0..L /\ L # 0
  OBVIOUS
<1> QED
  BY <1>3, <1>7, <1>8 DEF T

\* The first nodes of the packs, found from neighbour to neighbour.
Heads ==
  CHOOSE f : f = [j \in Active |->
                    IF j = 0 THEN ids[This(swap)][0]
                    ELSE IF SamePack(ids[This(swap)][j], ids[This(swap)][j - 1])
                         THEN f[j - 1] ELSE ids[This(swap)][j]]

LEMMA HeadsFollow ==
  ASSUME NEW c \in Nat \ {0}, Active = 0..c - 1, NEW U, \A j \in Active : ids[This(swap)][j] \in U
  PROVE  /\ Heads[0] = ids[This(swap)][0]
         /\ \A j \in 1..c - 1 :
              Heads[j] = IF SamePack(ids[This(swap)][j], ids[This(swap)][j - 1])
                         THEN Heads[j - 1] ELSE ids[This(swap)][j]
         /\ \A j \in Active : Heads[j] \in U
<1> DEFINE id == ids[This(swap)]
           n == c - 1
           step == [j \in 1..n |-> [x \in U |-> IF SamePack(id[j], id[j - 1]) THEN x ELSE id[j]]]
           a == id[0]
<1>1. n \in Nat /\ 0 \in 0..n /\ Active = 0..n /\ \A j \in 1..n : j \in Active /\ j - 1 \in 0..n
  OBVIOUS
<1>2. a \in U
  BY <1>1
<1>3. step \in [1..n -> [U -> U]]
  BY <1>1
<1>4. \A j \in 1..n, x \in U : step[j][x] = IF SamePack(id[j], id[j - 1]) THEN x ELSE id[j]
  OBVIOUS
<1>5. Heads = CHOOSE f : f = [j \in Active |-> IF j = 0 THEN id[0]
                                               ELSE IF SamePack(id[j], id[j - 1])
                                                    THEN f[j - 1] ELSE id[j]]
  BY DEF Heads
<1> HIDE DEF id, n, step, a
<1>6. PICK g : g \in [0..n -> U] /\ Iterates(g, a, step, n)
  BY <1>1, <1>2, <1>3, RecursionExists
<1>7. g[0] = id[0] /\ \A j \in 1..n : g[j] = IF SamePack(id[j], id[j - 1]) THEN g[j - 1] ELSE id[j]
  BY <1>1, <1>4, <1>6 DEF Iterates, a
<1>8. \A j \in 0..n : j # 0 => j \in 1..n
  BY <1>1
<1>9. g = [j \in Active |-> IF j = 0 THEN id[0]
                            ELSE IF SamePack(id[j], id[j - 1]) THEN g[j - 1] ELSE id[j]]
  BY <1>1, <1>6, <1>7, <1>8
<1>10. Heads = [j \in Active |-> IF j = 0 THEN id[0]
                                 ELSE IF SamePack(id[j], id[j - 1])
                                      THEN Heads[j - 1] ELSE id[j]]
  BY <1>5, <1>9
<1>11. /\ Heads[0] = id[0]
       /\ \A j \in 1..n : Heads[j] = IF SamePack(id[j], id[j - 1]) THEN Heads[j - 1] ELSE id[j]
  <2>1. \A j \in Active : Heads[j] = IF j = 0 THEN id[0] ELSE IF SamePack(id[j], id[j - 1])
                                                        THEN Heads[j - 1] ELSE id[j]
    BY <1>10
  <2>2. \A j \in 1..n : j # 0
    OBVIOUS
  <2> QED
    BY <1>1, <2>1, <2>2
<1>12. \A j \in 0..n : Heads[j] \in U
  <2> DEFINE T == {j \in 0..n : Heads[j] \in U}
  <2>1. 0 \in T
    BY <1>1, <1>2, <1>11 DEF a
  <2>2. ASSUME NEW j \in 0..n - 1, j \in T
        PROVE  j + 1 \in T
    <3>1. j + 1 \in 1..n /\ (j + 1) - 1 = j /\ j + 1 \in 0..n
      BY <1>1
    <3>2. id[j + 1] \in U
      BY <1>1, <3>1 DEF id
    <3> QED
      BY <1>11, <2>2, <3>1, <3>2
  <2> HIDE DEF T
  <2>3. \A j \in 0..n : j \in T
    BY <1>1, <2>1, <2>2, UpTo
  <2> QED
    BY <2>3 DEF T
<1> QED
  BY <1>1, <1>11, <1>12 DEF id, n

\* What LeadManagement does to the leaders.
NewLead(s) ==
  [i \in Index |->
     IF \E j \in (IF s = This(swap) THEN Active ELSE Ended) : ids[This(swap)][j] = i
     THEN Heads[CHOOSE j \in (IF s = This(swap) THEN Active ELSE Ended) : ids[This(swap)][j] = i]
     ELSE lead[s][i]]

LEMMA LeadsAndIds ==
  ASSUME LeadManagement, ids \in [1..2 -> [Index -> Index]], swap \in BOOLEAN
  PROVE  /\ lead' = [s \in 1..2 |-> NewLead(s)]
         /\ ids' = [ids EXCEPT ![Other(swap)] =
                      [j \in Index |-> IF j \in Ended THEN ids[This(swap)][j]
                                       ELSE ids[Other(swap)][j]]]
<1>1. Other(swap) \in 1..2
  BY Copies
<1>2. lead' = [s \in 1..2 |-> NewLead(s)]
  BY DEF LeadManagement, PackLeader, NewLead, Heads
<1>3. ids' = [ids EXCEPT ![Other(swap)] =
                [j \in Index |-> IF j \in Ended THEN ids[This(swap)][j]
                                 ELSE ids[Other(swap)][j]]]
  BY <1>1 DEF LeadManagement
<1> QED
  BY <1>2, <1>3

\* The keys tell what the lemmas on a pass want of them.
LEMMA KeyedTells ==
  ASSUME Frame, Vectors, Around, Setting, NEW s, NEW q \in Pass, Keyed(s, q),
         Members(ids[s], current) \subseteq Places
  PROVE  /\ EscapesAreDone(ArcsOf, lead[s], Members(ids[s], current), values, over, q, labelMode)
         /\ KeysTell(ArcsOf, Members(ids[s], current), values, over, q, labelMode)
<1> DEFINE M == Members(ids[s], current)
<1>1. \A x \in M : x \in Places /\ ArcsOf[x] = arcs[layerNodes[x]]
  BY DEF ArcsOf
<1>2. \A x \in M :
        \/ /\ layerArcs[x] = q /\ Len(ArcsOf[x]) >= q
           /\ values[x] = KeyAt(x, q) /\ values[x] # over
        \/ /\ layerArcs[x] = 0 /\ values[x] = over
           /\ \/ labelMode /\ Len(ArcsOf[x]) = q - 1
              \/ \A y \in M : lead[s][y] = lead[s][x] => y = x
  BY <1>1 DEF Keyed
<1> HIDE DEF M
<1>3. EscapesAreDone(ArcsOf, lead[s], M, values, over, q, labelMode)
  BY <1>2 DEF EscapesAreDone
<1>4. ASSUME NEW x \in M, values[x] # over
      PROVE  /\ values[x] = KeyAt(x, q)
             /\ arcs[layerNodes[x]][q].end \in ToSet(nodes[layer + 1])
             /\ ArcsOf[x] = arcs[layerNodes[x]]
  <2>1. x \in Places /\ Len(arcs[layerNodes[x]]) >= q /\ values[x] = KeyAt(x, q)
    BY <1>1, <1>2, <1>4
  <2>2. layerNodes[x] \in Was(layer) /\ LeadsTo(layerNodes[x], layer + 1)
    BY <2>1 DEF Setting, Enlisted
  <2>3. layerNodes[x] \in Node
    BY <2>2 DEF Was, Frame, Types
  <2>4. arcs[layerNodes[x]] \in Seq(Arc)
    BY <2>3 DEF Frame, Types
  <2>5. q \in DOMAIN arcs[layerNodes[x]]
    BY <2>1, <2>4 DEF Pass
  <2> QED
    BY <1>1, <2>1, <2>2, <2>5 DEF LeadsTo
<1>5. ASSUME NEW x \in M, NEW y \in M, values[x] # over, values[y] # over
      PROVE  values[x] = values[y] <=> IF labelMode THEN ArcsOf[x][q].value = ArcsOf[y][q].value
                                                    ELSE ArcsOf[x][q].end = ArcsOf[y][q].end
  <2>1. /\ values[x] = KeyAt(x, q) /\ ArcsOf[x] = arcs[layerNodes[x]]
        /\ arcs[layerNodes[x]][q].end \in ToSet(nodes[layer + 1])
    BY <1>4, <1>5
  <2>2. /\ values[y] = KeyAt(y, q) /\ ArcsOf[y] = arcs[layerNodes[y]]
        /\ arcs[layerNodes[y]][q].end \in ToSet(nodes[layer + 1])
    BY <1>4, <1>5
  <2>3. \A n, m \in ToSet(nodes[layer + 1]) : info1[n] = info1[m] => n = m
    BY DEF Around, PlacesBelow
  <2> QED
    BY <2>1, <2>2, <2>3 DEF KeyAt
<1>6. KeysTell(ArcsOf, M, values, over, q, labelMode)
  BY <1>5 DEF KeysTell
<1> QED
  BY <1>3, <1>6 DEF M

\* In terms of the variables, all at once: what LeadManagement starts from.
Leading(t, o, q, c) ==
  /\ Frame /\ Vectors /\ Around /\ Setting
  /\ t \in 1..2 /\ o \in 1..2 /\ t # o /\ t = This(swap) /\ o = Other(swap)
  /\ labelMode \in BOOLEAN /\ q \in Pass /\ delta \in 0..c
  /\ Distributed(ids[t], values, lead[o], layerSize, c, delta, over)
  /\ PassAt(o, t, q)
  /\ c = current /\ layerSize \in Nat /\ c \in 1..layerSize /\ layerSize < largestLayer
  /\ Active = 0..c - 1 /\ Places = 0..layerSize - 1 /\ Places \subseteq Index
  /\ Permutes(ids[t], layerSize) /\ Permutes(ids[o], layerSize)

\* The heads are the first nodes of the packs to come.
LEMMA HeadsArePacks ==
  ASSUME NEW t, NEW o, NEW q, NEW c, Leading(t, o, q, c)
  PROVE  /\ FirstAlike(Heads, ids[t], values, lead[o], c)
         /\ \A j \in Active : Heads[j] \in Places
<1> DEFINE id == ids[t]
           ld == lead[o]
<1>1. /\ t = This(swap) /\ o = Other(swap) /\ c \in Nat \ {0} /\ c \in 1..layerSize
      /\ layerSize \in Nat /\ Active = 0..c - 1 /\ Places = 0..layerSize - 1 /\ Permutes(id, layerSize)
      /\ largestLayer \in Nat \ {0}
      /\ Distributed(id, values, ld, layerSize, c, delta, over)
  BY DEF Leading, Vectors
<1>2. Led(ld, Members(ids[o], current), layerSize)
  BY DEF Leading, PassAt, Packs
<1> HIDE DEF id, ld
<1>3. \A j \in Active : j \in Places /\ id[j] \in Places
  <2>1. \A j \in Active : j \in Places
    BY <1>1
  <2>2. \A j \in Places : id[j] \in Places
    BY <1>1 DEF Permutes
  <2> QED
    BY <2>1, <2>2
<1>4. ASSUME NEW x \in Places
      PROVE  Leader(ld, x) = ld[x]
  <2>1. ld[ld[x]] = ld[x]
    BY <1>1, <1>2 DEF Led
  <2> QED
    BY <1>1, <2>1, LeaderEnds
<1>5. \A x, y \in Places : SamePack(x, y) <=> Alike(values, ld, x, y)
  BY <1>1, <1>4 DEF SamePack, Alike, ld
<1>6. /\ Heads[0] = id[0]
      /\ \A j \in 1..c - 1 : Heads[j] = IF SamePack(id[j], id[j - 1]) THEN Heads[j - 1] ELSE id[j]
      /\ \A j \in Active : Heads[j] \in Places
  BY <1>1, <1>3, HeadsFollow DEF id
<1>7. \A j \in 1..c - 1 : id[j] \in Places /\ id[j - 1] \in Places
  <2>1. \A j \in 1..c - 1 : j \in 0..c - 1 /\ j - 1 \in 0..c - 1
    BY <1>1
  <2> QED
    BY <1>1, <1>3, <2>1
<1>8. \A j \in 1..c - 1 : Heads[j] = IF Alike(values, ld, id[j], id[j - 1])
                                     THEN Heads[j - 1] ELSE id[j]
  BY <1>5, <1>6, <1>7
<1>9. \A h, i, j \in 0..c - 1 :
        h <= i /\ i <= j /\ Alike(values, ld, id[h], id[j]) => Alike(values, ld, id[i], id[j])
  BY <1>1 DEF Distributed
<1>10. FirstAlike(Heads, id, values, ld, c)
  BY <1>1, <1>6, <1>8, <1>9, HeadsAreFirst
<1> QED
  BY <1>6, <1>10 DEF id, ld

\* The leaders that are written, in both copies.
LEMMA LeadersWritten ==
  ASSUME NEW t, NEW o, NEW q, NEW c, Leading(t, o, q, c), NEW s \in 1..2,
         NEW J \in SUBSET Active, J = IF s = t THEN Active ELSE Ended
  PROVE  /\ NewLead(s) \in [Index -> Index]
         /\ \A j \in J : NewLead(s)[ids[t][j]] = Heads[j]
         /\ \A i \in Index : (\A j \in J : ids[t][j] # i) => NewLead(s)[i] = lead[s][i]
<1> DEFINE I == Index
           P == ids[t]
           old == lead[s]
           new == NewLead(s)
           w == Heads
<1>1. /\ t = This(swap) /\ Active = 0..c - 1 /\ c \in 1..layerSize /\ layerSize \in Nat
      /\ Places = 0..layerSize - 1 /\ Places \subseteq I /\ Permutes(P, layerSize)
  BY DEF Leading
<1>2. \A j \in J : j \in Places
  BY <1>1
<1>3. \A j \in J : w[j] \in I
  <2>1. \A j \in Active : Heads[j] \in Places
    BY HeadsArePacks
  <2> QED
    BY <1>1, <2>1
<1>4. old \in [I -> I]
  BY DEF Leading, Vectors
<1>5. \A i, j \in J : P[i] = P[j] => i = j
  BY <1>1, <1>2 DEF Permutes
<1>6. \A j \in J : P[j] \in I
  <2>1. \A j \in Places : P[j] \in Places
    BY <1>1 DEF Permutes
  <2> QED
    BY <1>1, <1>2, <2>1
<1>7. new = [i \in I |-> IF \E j \in J : P[j] = i THEN w[CHOOSE j \in J : P[j] = i] ELSE old[i]]
  BY <1>1 DEF NewLead
<1> HIDE DEF I, P, old, new, w
<1>8. new \in [I -> I]
  BY <1>3, <1>4, <1>5, <1>6, <1>7, WrittenAt
<1>9. ASSUME NEW j \in J
      PROVE  new[P[j]] = w[j]
  BY <1>3, <1>4, <1>5, <1>6, <1>7, WrittenAt
<1>10. \A i \in I : (\A j \in J : P[j] # i) => new[i] = old[i]
  BY <1>3, <1>4, <1>5, <1>6, <1>7, WrittenAt
<1> QED
  BY <1>8, <1>9, <1>10 DEF I, P, old, new, w

\* After LeadManagement the packs are those one step further.
LEMMA LeadRefines ==
  ASSUME NEW t, NEW o, NEW q, NEW c, Leading(t, o, q, c)
  PROVE  /\ Packs(ArcsOf, ids[t], NewLead(t), layerSize, c - delta,
                  IF labelMode THEN q ELSE q + 1, ~labelMode)
         /\ \A x \in Members(ids[t], c - delta) :
              layerArcs[x] = q /\ Len(arcs[layerNodes[x]]) >= q
         /\ \A j \in (c - delta)..layerSize - 1 : NewLead(o)[ids[t][j]] = NewLead(t)[ids[t][j]]
         /\ \A j \in c..layerSize - 1 : ids[o][j] = ids[t][j]
<1> DEFINE m == layerSize
           id == ids[t]
           id2 == ids[o]
           ld == lead[o]
           ld1 == NewLead(t)
           A == ArcsOf
           d == delta
<1>1. /\ Frame /\ Vectors /\ Around /\ Setting
      /\ t \in 1..2 /\ o \in 1..2 /\ t # o
      /\ labelMode \in BOOLEAN /\ q \in Nat \ {0} /\ d \in 0..c
      /\ Distributed(id, values, ld, m, c, d, over)
      /\ Packs(A, id2, ld, m, c, q, labelMode) /\ Agree(o, t) /\ Keyed(o, q)
      /\ c = current /\ m \in Nat /\ c \in 1..m /\ m < largestLayer
      /\ Active = 0..c - 1 /\ Places = 0..m - 1 /\ Places \subseteq Index
      /\ Permutes(id, m) /\ Permutes(id2, m)
  BY DEF Leading, PassAt, Pass
<1>2. Ended \in SUBSET Active /\ Ended = {j \in Active : j >= c - d}
  BY <1>1 DEF Ended
<1>20. /\ t \in 1..2 /\ Active \in SUBSET Active
       /\ Active = IF t = t THEN Active ELSE Ended
  BY <1>1
<1>3. /\ \A j \in Active : ld1[id[j]] = Heads[j]
      /\ \A i \in Index : (\A j \in Active : id[j] # i) => ld1[i] = lead[t][i]
  BY <1>20, LeadersWritten
<1>4. /\ \A j \in Ended : NewLead(o)[id[j]] = Heads[j]
      /\ \A i \in Index : (\A j \in Ended : id[j] # i) => NewLead(o)[i] = ld[i]
  <2>1. o \in 1..2 /\ Ended \in SUBSET Active /\ Ended = IF o = t THEN Active ELSE Ended
    BY <1>1, <1>2
  <2>2. \A j \in Ended : NewLead(o)[ids[t][j]] = Heads[j]
    BY <2>1, LeadersWritten
  <2>3. \A i \in Index : (\A j \in Ended : ids[t][j] # i) => NewLead(o)[i] = lead[o][i]
    BY <2>1, LeadersWritten
  <2> QED
    BY <2>2, <2>3
<1> HIDE DEF m, id, id2, ld, ld1, d
<1>5. \A j \in c..m - 1 : id[j] = id2[j]
  BY <1>1 DEF Agree, m, id, id2
<1>6. \A j \in c..m - 1 : lead[t][id2[j]] = ld[id2[j]]
  BY <1>1 DEF Agree, m, id2, ld
<1>7. \A j \in 0..m - 1 : id[j] \in 0..m - 1
  BY <1>1 DEF Permutes
<1>8. \A j \in c..m - 1 : \A h \in Active : id[h] # id[j]
  <2> SUFFICES ASSUME NEW j \in c..m - 1, NEW h \in Active, id[h] = id[j]
               PROVE  FALSE
    OBVIOUS
  <2>1. h \in 0..m - 1 /\ j \in 0..m - 1 /\ h # j
    BY <1>1
  <2> QED
    BY <1>1, <2>1 DEF Permutes
<1>9. ASSUME NEW j \in c..m - 1
      PROVE  /\ ld1[id[j]] = ld[id[j]] /\ NewLead(o)[id[j]] = ld[id[j]]
  <2>1. j \in 0..m - 1
    BY <1>1
  <2>2. id[j] \in Index /\ \A h \in Active : id[h] # id[j]
    BY <1>1, <1>7, <1>8, <2>1
  <2>3. ld1[id[j]] = lead[t][id[j]] /\ NewLead(o)[id[j]] = ld[id[j]]
    BY <1>2, <1>3, <1>4, <2>2
  <2> QED
    BY <1>5, <1>6, <2>3
<1>10. Members(id2, c) \subseteq Places
  BY <1>1, MembersSplit
<1> DEFINE M == Members(id2, c)
<1>11. /\ EscapesAreDone(A, ld, M, values, over, q, labelMode)
       /\ KeysTell(A, M, values, over, q, labelMode)
  <2>1. q \in Pass /\ Members(ids[o], current) \subseteq Places
    BY <1>1, <1>10 DEF Pass, id2
  <2> QED
    BY <1>1, <2>1, KeyedTells DEF id2, ld
<1> HIDE DEF A, M
<1>12. \A x \in (0..m - 1) \ M : ld1[x] = ld[x]
  <2> SUFFICES ASSUME NEW x \in 0..m - 1, x \notin M
               PROVE  ld1[x] = ld[x]
    OBVIOUS
  <2>1. PICK j \in 0..m - 1 : id2[j] = x
    BY <1>1 DEF Permutes
  <2>2. ~(j \in 0..c - 1)
    BY <2>1 DEF M, Members
  <2>3. j \in c..m - 1
    BY <1>1, <2>2
  <2> QED
    BY <1>5, <1>9, <2>1, <2>3
<1>13. FirstAlike([j \in 0..c - 1 |-> ld1[id[j]]], id, values, ld, c)
  <2>1. FirstAlike(Heads, id, values, ld, c)
    BY HeadsArePacks DEF id, ld
  <2>2. \A j \in 0..c - 1 : ld1[id[j]] = Heads[j]
    BY <1>1, <1>3
  <2> QED
    BY <2>1, <2>2 DEF FirstAlike
<1>14. Passes(A, id2, ld, id, ld1, values, over, m, c, d, q, labelMode)
  BY <1>1, <1>5, <1>11, <1>12, <1>13 DEF Passes, M
<1>15. A \in [0..m - 1 -> Seq([value : Label, end : Node])]
  <2>1. \A x \in Places : arcs[layerNodes[x]] \in Seq([value : Label, end : Node])
    <3> SUFFICES ASSUME NEW x \in Places
                 PROVE  arcs[layerNodes[x]] \in Seq([value : Label, end : Node])
      OBVIOUS
    <3>1. layerNodes[x] \in Node
      BY <1>1 DEF Setting, Enlisted, Was, Frame, Types
    <3> QED
      BY <1>1, <3>1 DEF Frame, Types, Arc
  <2> QED
    BY <1>1, <2>1 DEF A, ArcsOf
<1>16. Packs(A, id, ld1, m, c - d, IF labelMode THEN q ELSE q + 1, ~labelMode)
  <2>1. m \in Nat /\ c \in 1..m /\ d \in 0..c /\ q \in Nat \ {0} /\ labelMode \in BOOLEAN
    BY <1>1
  <2> QED
    BY <1>14, <1>15, <2>1, PassRefines
<1>17. ASSUME NEW x \in Members(id, c - d)
       PROVE  layerArcs[x] = q /\ Len(arcs[layerNodes[x]]) >= q
  <2>1. Members(id, c - d) = {y \in Members(id, c) : values[y] # over}
    <3>1. c \in 0..m
      BY <1>1
    <3> QED
      BY <1>1, <3>1, FewerMembers
  <2>2. Members(id, c) = Members(id2, c)
    <3>1. c \in 0..m
      BY <1>1
    <3> QED
      BY <1>1, <1>5, <3>1, SameMembers
  <2>3. x \in Members(ids[o], current) /\ values[x] # over
    BY <1>1, <2>1, <2>2 DEF id2
  <2> QED
    BY <1>1, <2>3 DEF Keyed
<1>18. \A j \in (c - d)..m - 1 : NewLead(o)[id[j]] = ld1[id[j]]
  <2> SUFFICES ASSUME NEW j \in (c - d)..m - 1
               PROVE  NewLead(o)[id[j]] = ld1[id[j]]
    OBVIOUS
  <2>1. CASE j < c
    <3>1. j \in Active /\ j \in Ended
      BY <1>1, <1>2, <2>1
    <3> QED
      BY <1>3, <1>4, <3>1
  <2>2. CASE j >= c
    <3>1. j \in c..m - 1
      BY <1>1, <2>2
    <3> QED
      BY <1>9, <3>1
  <2> QED
    BY <1>1, <2>1, <2>2
<1> QED
  BY <1>5, <1>16, <1>17, <1>18 DEF m, id, id2, ld1, A, d

LEMMA LeadManagementStep == IInv /\ LeadManagement => IInv'
<1> SUFFICES ASSUME IInv, LeadManagement
             PROVE  IInv'
  OBVIOUS
<1>0. SameGiven /\ Part' = Part
  BY GivenKept, SamePart DEF Next
<1>1. /\ pc = "lead" /\ current' = current - delta /\ k' = 0
      /\ pc' = IF current' = 0 THEN "merge" ELSE "prepare"
  BY DEF LeadManagement
<1>2. UNCHANGED <<mddVars, given, layer, todo, e, layerVars, radix, labelMode, swap, over, delta>>
  BY DEF LeadManagement
<1>3. UNCHANGED <<mddVars, largestLayer, layer, todo, info1, layerSize, layerNodes, layerArcs,
                  values, count, cumulative, nonNull, labelMode, swap, over, delta>>
  BY <1>2 DEF given, layerVars, radix
<1>4. /\ Frame /\ Vectors /\ Around /\ Setting /\ NoCounts /\ layer >= 0
      /\ current > 1 /\ layer \in -1..Size /\ todo \in Seq(Node)
      /\ swap \in BOOLEAN /\ labelMode \in BOOLEAN /\ delta \in 0..current
      /\ Distributed(ids[This(swap)], values, lead[Other(swap)], layerSize, current, delta, over)
  BY <1>1 DEF IInv
<1>5. PICK t \in 1..2 : t = This(swap)
  BY <1>4, Copies
<1>6. PICK o \in 1..2 : o = Other(swap)
  BY <1>4, Copies
<1>7. PICK q \in Pass : PassAt(o, t, q)
  BY <1>1, <1>5, <1>6 DEF IInv
<1>8. PICK c \in Nat : c = current
  BY <1>4 DEF Setting, Vectors, Index
<1>9. t # o /\ \A s \in 1..2 : s = t \/ s = o
  BY <1>4, <1>5, <1>6, Copies
<1>10. Permutes(ids[t], layerSize) /\ Permutes(ids[o], layerSize)
  BY <1>4, <1>5, <1>7 DEF PassAt, Packs, Distributed
<1>11. current \in 0..layerSize
  BY <1>4 DEF Setting
<1>12. Leading(t, o, q, c)
  <2>1. /\ layerSize \in Nat /\ c <= layerSize /\ layerSize < largestLayer
        /\ Active = 0..c - 1 /\ Places = 0..layerSize - 1 /\ Places \subseteq Index
    BY <1>4, <1>8, <1>10, <1>11, PassBounds
  <2>2. c \in 1..layerSize
    BY <1>4, <1>8, <2>1
  <2> QED
    BY <1>4, <1>5, <1>6, <1>7, <1>8, <1>9, <1>10, <2>1, <2>2 DEF Leading
<1>13. /\ layerSize \in Nat /\ c \in 1..layerSize /\ layerSize < largestLayer
       /\ Active = 0..c - 1 /\ Places = 0..layerSize - 1 /\ Places \subseteq Index
  BY <1>12 DEF Leading
<1>14. Ended \in SUBSET Active /\ Ended = {j \in Active : j >= c - delta}
  BY <1>8 DEF Ended
<1>15. /\ lead' = [s \in 1..2 |-> NewLead(s)]
       /\ ids' = [ids EXCEPT ![o] = [j \in Index |-> IF j \in Ended THEN ids[t][j]
                                                   ELSE ids[o][j]]]
  BY <1>4, <1>5, <1>6, LeadsAndIds DEF Vectors
<1>16. /\ lead'[t] = NewLead(t) /\ lead'[o] = NewLead(o)
       /\ ids'[t] = ids[t]
       /\ \A j \in Index : ids'[o][j] = IF j \in Ended THEN ids[t][j] ELSE ids[o][j]
  BY <1>4, <1>9, <1>15 DEF Vectors
<1>17. lead' \in [1..2 -> [Index -> Index]]
  <2>1. NewLead(t) \in [Index -> Index]
    <3>1. Active \in SUBSET Active /\ Active = IF t = t THEN Active ELSE Ended
      OBVIOUS
    <3> QED
      BY <1>12, <3>1, LeadersWritten
  <2>2. NewLead(o) \in [Index -> Index]
    <3>1. Ended = IF o = t THEN Active ELSE Ended
      BY <1>9
    <3> QED
      BY <1>12, <1>14, <3>1, LeadersWritten
  <2> QED
    BY <1>9, <1>15, <2>1, <2>2
<1>18. ids' \in [1..2 -> [Index -> Index]]
  <2>1. ids \in [1..2 -> [Index -> Index]]
    BY <1>4 DEF Vectors
  <2> QED
    BY <1>15, <2>1
<1>19. c - delta \in 0..layerSize /\ current' = c - delta /\ c - delta \in Nat
  BY <1>1, <1>4, <1>8, <1>13
<1>20. /\ Frame' /\ Around' /\ Setting' /\ ArcsOf' = ArcsOf /\ Places' = Places
       /\ Index' = Index /\ Radix' = Radix
  BY <1>0, <1>3, <1>4, <1>19, UnchangedSetting
<1>21. Vectors'
  <2>1. nodes' = nodes
    BY <1>3 DEF mddVars
  <2>2. current' \in Index
    <3>1. largestLayer \in Nat
      BY <1>4 DEF Vectors
    <3>2. \A n \in 0..layerSize : n \in 0..largestLayer - 1
      BY <1>13, <3>1
    <3> QED
      BY <1>19, <3>2 DEF Index
  <2> QED
    BY <1>3, <1>4, <1>17, <1>18, <1>20, <2>1, <2>2 DEF Vectors
<1>22. NoCounts'
  BY <1>3, <1>4, <1>20 DEF NoCounts
<1>23. /\ Packs(ArcsOf, ids[t], NewLead(t), layerSize, c - delta,
                IF labelMode THEN q ELSE q + 1, ~labelMode)
       /\ \A x \in Members(ids[t], c - delta) :
            layerArcs[x] = q /\ Len(arcs[layerNodes[x]]) >= q
       /\ \A j \in (c - delta)..layerSize - 1 : NewLead(o)[ids[t][j]] = NewLead(t)[ids[t][j]]
       /\ \A j \in c..layerSize - 1 : ids[o][j] = ids[t][j]
  BY <1>12, LeadRefines
<1>24. CASE current' # 0
  <2>1. \A j \in (c - delta)..layerSize - 1 : ids'[o][j] = ids[t][j]
    <3> SUFFICES ASSUME NEW j \in (c - delta)..layerSize - 1
                 PROVE  ids'[o][j] = ids[t][j]
      OBVIOUS
    <3>1. j \in Places /\ j \in Index
      BY <1>13, <1>19
    <3>2. CASE j < c
      <4>1. j \in Ended
        BY <1>4, <1>8, <1>13, <1>14, <3>2
      <4> QED
        BY <1>16, <3>1, <4>1
    <3>3. CASE j >= c
      <4>1. j \in c..layerSize - 1 /\ j \notin Ended
        BY <1>13, <1>14, <3>3
      <4> QED
        BY <1>16, <1>23, <3>1, <4>1
    <3> QED
      BY <1>4, <1>8, <1>13, <3>2, <3>3
  <2>2. Agree(t, o)'
    BY <1>3, <1>16, <1>19, <1>23, <2>1 DEF Agree
  <2>3. arcs' = arcs
    BY <1>3 DEF mddVars
  <2>4. PassedAt(t, o, q)'
    BY <1>3, <1>16, <1>19, <1>20, <1>23, <2>2, <2>3 DEF PassedAt
  <2>5. t = This(swap') /\ o = Other(swap')
    BY <1>3, <1>5, <1>6
  <2>6. (PassedAt(This(swap), Other(swap), q))'
    BY <2>4, <2>5
  <2>7. current' > 0 /\ pc' = "prepare"
    BY <1>1, <1>19, <1>24
  <2> QED
    BY <1>3, <1>4, <1>20, <1>21, <1>22, <2>6, <2>7 DEF IInv
<1>25. CASE current' = 0
  <2> DEFINE m == layerSize
             id == ids[t]
             ld == NewLead(t)
             A == ArcsOf
             z == c - delta
             p == IF labelMode THEN q ELSE q + 1
             b == ~labelMode
  <2>1. m \in Nat /\ z \in 0..m /\ z <= 1 /\ Packs(A, id, ld, m, z, p, b)
    BY <1>13, <1>19, <1>23, <1>25
  <2> HIDE DEF m, id, ld, A, z, p, b
  <2>2. /\ Permutes(id, m) /\ Led(ld, {}, m)
        /\ \A i, j \in 0..m - 1 : ld[i] = ld[j] <=> A[i] = A[j]
    BY <2>1, LastPacks
  <2>3. ids'[This(swap')] = id /\ lead'[This(swap')] = ld /\ layerSize' = m
    BY <1>3, <1>5, <1>16 DEF id, ld, m
  <2>4. Places' = 0..m - 1 /\ ArcsOf' = A /\ m \in Nat
    BY <1>13, <1>20, <2>1 DEF m, A
  <2>5. SortedOut'
    BY <1>1, <1>20, <2>2, <2>3, <2>4 DEF SortedOut
  <2>6. (SortedOut => Merging)'
    BY MergingStarts, PTL
  <2>7. Merging' /\ pc' = "merge"
    BY <1>1, <1>25, <2>5, <2>6
  <2> QED
    BY <1>3, <1>4, <1>20, <1>21, <1>22, <2>7 DEF IInv
<1> QED
  BY <1>24, <1>25

-----------------------------------------------------------------------------
\* A node that is found to be alone in its pack is.
LEMMA AloneIsAlone ==
  ASSUME NEW s, s = This(swap), NEW m \in Nat, NEW c \in 0..m, NEW A, NEW q, NEW label,
         Packs(A, ids[s], lead[s], m, c, q, label), largestLayer \in Nat \ {0},
         current = c, NEW j \in 0..c - 1, Alone(j), NEW y \in Members(ids[s], c),
         lead[s][y] = lead[s][ids[s][j]]
  PROVE  y = ids[s][j]
<1> DEFINE id == ids[s]
           ld == lead[s]
<1>1. Leader(ld, id[j]) = id[j] /\ (j < c - 1 => Leader(ld, id[j + 1]) # id[j])
  BY DEF Alone
<1> HIDE DEF id, ld
<1>2. /\ Permutes(id, m) /\ Led(ld, Members(id, c), m)
      /\ FirstsLead(id, ld, c) /\ Contiguous(id, ld, c)
  BY DEF Packs, id, ld
<1>3. PICK h \in 0..c - 1 : y = id[h]
  BY DEF Members, id
<1>4. \A i \in 0..c - 1 : i \in 0..m - 1
  OBVIOUS
<1>5. \A i \in 0..m - 1 : id[i] \in 0..m - 1
  BY <1>2 DEF Permutes
<1>6. ASSUME NEW i \in 0..c - 1
      PROVE  Leader(ld, id[i]) = ld[id[i]]
  <2>1. id[i] \in 0..m - 1
    BY <1>4, <1>5
  <2>2. ld[ld[id[i]]] = ld[id[i]]
    BY <1>2, <2>1 DEF Led
  <2> QED
    BY <2>2, LeaderEnds
<1>7. ld[id[j]] = id[j] /\ ld[id[h]] = id[j]
  BY <1>1, <1>3, <1>6 DEF id, ld
<1>8. PICK g \in 0..h : ld[id[h]] = id[g]
  BY <1>2 DEF FirstsLead
<1>9. g = j
  <2>1. g \in 0..m - 1 /\ j \in 0..m - 1
    OBVIOUS
  <2>2. id[g] = id[j]
    BY <1>7, <1>8
  <2>3. \A v, w \in 0..m - 1 : id[v] = id[w] => v = w
    BY <1>2 DEF Permutes
  <2> QED
    BY <2>1, <2>2, <2>3
<1>10. CASE h > j
  <2>1. j + 1 \in 0..c - 1 /\ j < c - 1 /\ j <= j + 1 /\ j + 1 <= h
    BY <1>10
  <2>2. ld[id[j + 1]] = ld[id[h]]
    BY <1>2, <1>7, <2>1 DEF Contiguous
  <2>3. Leader(ld, id[j + 1]) = id[j]
    BY <1>6, <1>7, <2>1, <2>2
  <2> QED
    BY <1>1, <2>1, <2>3
<1>11. CASE h <= j
  BY <1>3, <1>9, <1>11 DEF id
<1> QED
  BY <1>10, <1>11

\* What the two functions that prepare the next pass start from.
Preparing(t, o, q) ==
  /\ Frame /\ Vectors /\ Around /\ Setting
  /\ t \in 1..2 /\ o \in 1..2 /\ t = This(swap) /\ o = Other(swap)
  /\ labelMode \in BOOLEAN /\ q \in Pass /\ PassedAt(t, o, q)
  /\ current \in Nat /\ layerSize \in Nat /\ current <= layerSize /\ layerSize < largestLayer
  /\ Active = 0..current - 1 /\ Places = 0..layerSize - 1 /\ Places \subseteq Index
  /\ Members(ids[t], current) \subseteq Places
  /\ ActiveIds = Members(ids[t], current)

LEMMA PreparingStarts ==
  ASSUME IInv, pc = "prepare"
  PROVE  \E t, o, q : Preparing(t, o, q)
<1>1. /\ Frame /\ Vectors /\ Around /\ Setting
      /\ swap \in BOOLEAN /\ labelMode \in BOOLEAN
  BY DEF IInv
<1>2. PICK t \in 1..2 : t = This(swap)
  BY <1>1, Copies
<1>3. PICK o \in 1..2 : o = Other(swap)
  BY <1>1, Copies
<1>4. PICK q \in Pass : PassedAt(t, o, q)
  BY <1>2, <1>3 DEF IInv
<1>5. Permutes(ids[t], layerSize)
  BY <1>4 DEF PassedAt, Packs
<1>6. current \in 0..layerSize
  BY <1>1 DEF Setting
<1>7. /\ layerSize \in Nat /\ current \in Nat /\ current <= layerSize /\ layerSize < largestLayer
      /\ Active = 0..current - 1 /\ Places = 0..layerSize - 1 /\ Places \subseteq Index
      /\ Members(ids[t], current) \subseteq Places
  BY <1>1, <1>5, <1>6, PassBounds
<1>8. ActiveIds = Members(ids[t], current)
  BY <1>2, <1>7 DEF ActiveIds, Members
<1> QED
  BY <1>1, <1>2, <1>3, <1>4, <1>7, <1>8 DEF Preparing

\* What they leave alone, and the nodes that they find alone.
LEMMA PreparedBounds ==
  ASSUME NEW t, NEW o, NEW q, Preparing(t, o, q)
  PROVE  /\ \A x \in ActiveIds :
              /\ layerArcs[x] = q /\ Len(arcs[layerNodes[x]]) >= q
              /\ arcs[layerNodes[x]] \in Seq(Arc)
              /\ x \in Places /\ x \in Index
              /\ arcs[layerNodes[x]][q].end \in ToSet(nodes[layer + 1])
         /\ \A x \in AloneIds : \A y \in ActiveIds : lead[t][y] = lead[t][x] => y = x
<1>1. /\ Frame /\ Setting /\ Vectors /\ t = This(swap) /\ q \in Nat \ {0} /\ PassedAt(t, o, q)
      /\ ActiveIds = Members(ids[t], current) /\ ActiveIds \subseteq Places /\ Places \subseteq Index
      /\ current \in Nat /\ layerSize \in Nat /\ current <= layerSize /\ Active = 0..current - 1
  BY DEF Preparing, Pass
<1>2. ASSUME NEW x \in ActiveIds
      PROVE  /\ layerArcs[x] = q /\ Len(arcs[layerNodes[x]]) >= q
             /\ arcs[layerNodes[x]] \in Seq(Arc)
             /\ arcs[layerNodes[x]][q].end \in ToSet(nodes[layer + 1])
  <2>1. layerArcs[x] = q /\ Len(arcs[layerNodes[x]]) >= q
    BY <1>1 DEF PassedAt
  <2>2. layerNodes[x] \in Was(layer) /\ LeadsTo(layerNodes[x], layer + 1)
    BY <1>1 DEF Setting, Enlisted
  <2>3. layerNodes[x] \in Node
    BY <1>1, <2>2 DEF Was, Frame, Types
  <2>4. arcs[layerNodes[x]] \in Seq(Arc)
    BY <1>1, <2>3 DEF Frame, Types
  <2>5. q \in DOMAIN arcs[layerNodes[x]]
    BY <1>1, <2>1, <2>4
  <2> QED
    BY <2>1, <2>2, <2>4, <2>5 DEF LeadsTo
<1>3. ASSUME NEW x \in AloneIds, NEW y \in ActiveIds, lead[t][y] = lead[t][x]
      PROVE  y = x
  <2>1. PICK j \in Active : Alone(j) /\ x = ids[t][j]
    BY <1>1 DEF AloneIds
  <2> DEFINE p == IF labelMode THEN q ELSE q + 1
             b == ~labelMode
             c == current
             m == layerSize
             A == ArcsOf
  <2>2. Packs(A, ids[t], lead[t], m, c, p, b)
    BY <1>1 DEF PassedAt
  <2>3. largestLayer \in Nat \ {0} /\ m \in Nat /\ c \in 0..m /\ j \in 0..c - 1
        /\ y \in Members(ids[t], c)
    BY <1>1 DEF Vectors
  <2>4. c = current
    OBVIOUS
  <2> HIDE DEF p, b, c, m, A
  <2> QED
    BY <1>1, <1>3, <2>1, <2>2, <2>3, <2>4, AloneIsAlone
<1> QED
  BY <1>1, <1>2, <1>3

LEMMA PrepareNextRadixLabelStep == IInv /\ PrepareNextRadixLabel => IInv'
<1> SUFFICES ASSUME IInv, PrepareNextRadixLabel
             PROVE  IInv'
  OBVIOUS
<1>0. SameGiven /\ Part' = Part
  BY GivenKept, SamePart DEF Next
<1>1. /\ pc = "prepare" /\ labelMode /\ pc' = "sort" /\ labelMode' = FALSE /\ over' = EscapeNode
      /\ layerArcs' = [i \in Index |-> IF i \in AloneIds THEN 0 ELSE layerArcs[i]]
      /\ values' = [i \in Index |->
                      IF i \notin ActiveIds THEN values[i]
                      ELSE IF layerArcs'[i] = 0 THEN EscapeNode
                      ELSE info1[arcs[layerNodes[i]][layerArcs[i]].end]]
  BY DEF PrepareNextRadixLabel
<1>2. UNCHANGED <<mddVars, given, loops, info1, layerSize, layerNodes, packs, radix, current,
                  swap, delta>>
  BY DEF PrepareNextRadixLabel
<1>3. UNCHANGED <<mddVars, largestLayer, layer, todo, info1, layerSize, layerNodes, ids, lead,
                  count, cumulative, nonNull, current, swap, delta>>
  BY <1>2 DEF given, loops, packs, radix
<1>4. /\ Frame /\ Vectors /\ Around /\ Setting /\ NoCounts /\ layer >= 0
      /\ layer \in -1..Size /\ todo \in Seq(Node) /\ swap \in BOOLEAN
  BY <1>1 DEF IInv
<1>5. PICK t, o, q : Preparing(t, o, q)
  BY <1>1, PreparingStarts
<1>6. /\ t = This(swap) /\ o = Other(swap) /\ q \in Nat \ {0} /\ q \in Pass
      /\ PassedAt(t, o, q) /\ current \in Nat /\ current <= layerSize
      /\ layerSize < largestLayer /\ layerSize \in Nat
      /\ ActiveIds = Members(ids[t], current) /\ current > 0
  BY <1>1, <1>5 DEF Preparing, Pass, IInv
<1>7. ASSUME NEW x \in ActiveIds
      PROVE  /\ layerArcs[x] = q /\ Len(arcs[layerNodes[x]]) >= q
             /\ x \in Index
             /\ arcs[layerNodes[x]][q].end \in ToSet(nodes[layer + 1])
  BY <1>5, PreparedBounds
<1>8. \A x \in AloneIds : \A y \in ActiveIds : lead[t][y] = lead[t][x] => y = x
  BY <1>5, PreparedBounds
<1>9. /\ Frame' /\ Around' /\ Setting' /\ ArcsOf' = ArcsOf /\ Index' = Index /\ Radix' = Radix
  <2>1. current' \in 0..layerSize
    BY <1>3, <1>6
  <2> QED
    BY <1>0, <1>3, <1>4, <2>1, UnchangedSetting
<1>10. arcs' = arcs /\ nodes' = nodes
  BY <1>3 DEF mddVars
<1>11. ASSUME NEW x \in ActiveIds
       PROVE  LET end == arcs[layerNodes[x]][q].end IN
              info1[end] \in Radix /\ info1[end] # EscapeNode
  <2> DEFINE end == arcs[layerNodes[x]][q].end
  <2>1. end \in ToSet(nodes[layer + 1])
    BY <1>7
  <2>2. info1[end] < EscapeNode \/ largestLayer = 1
    BY <1>4, <2>1 DEF Around, PlacesBelow
  <2>3. largestLayer # 1 /\ largestLayer \in Nat \ {0}
    BY <1>4, <1>6 DEF Vectors
  <2>4. end \in Node
    <3>1. layer \in Int /\ layer < Size /\ layer >= 0 /\ Size \in Nat
      BY <1>4, SizeIsPositive DEF Around
    <3>2. layer + 1 \in Layer
      BY <3>1 DEF Layer
    <3>3. end \in Was(layer + 1)
      BY <1>4, <2>1, <3>2 DEF Frame, Lists
    <3> QED
      BY <1>0, <1>4, <3>3 DEF Was, Frame, Types
  <2> HIDE DEF end
  <2>5. info1[end] \in Index /\ Index \subseteq Radix /\ EscapeNode \in Index
    BY <1>4, <2>3, <2>4, Keys DEF Vectors
  <2>6. info1[end] # EscapeNode
    <3>1. info1[end] \in 0..largestLayer - 1 /\ EscapeNode \in 0..largestLayer - 1
      BY <2>5 DEF Index
    <3> QED
      BY <2>2, <2>3, <3>1
  <2> QED
    BY <2>5, <2>6 DEF end
<1>12. ASSUME NEW x \in ActiveIds
       PROVE  \/ /\ layerArcs'[x] = q /\ Len(arcs[layerNodes[x]]) >= q
                 /\ values'[x] = info1[arcs[layerNodes[x]][q].end] /\ values'[x] # EscapeNode
              \/ /\ layerArcs'[x] = 0 /\ values'[x] = EscapeNode
                 /\ \A y \in ActiveIds : lead[t][y] = lead[t][x] => y = x
  <2>1. CASE x \in AloneIds
    BY <1>1, <1>7, <1>8, <2>1
  <2>2. CASE x \notin AloneIds
    <3>1. layerArcs'[x] = q /\ layerArcs[x] = q /\ q # 0
      BY <1>1, <1>6, <1>7, <2>2
    <3>2. values'[x] = info1[arcs[layerNodes[x]][q].end]
      BY <1>1, <1>7, <3>1
    <3> QED
      BY <1>7, <1>11, <3>1, <3>2
  <2> QED
    BY <2>1, <2>2
<1>13. EscapeLabel' = EscapeLabel /\ EscapeNode' = EscapeNode
  BY <1>3 DEF EscapeLabel, EscapeNode, LargestDomain
<1>14. Keyed(t, q)'
  <2>1. Members(ids'[t], current') = ActiveIds
    BY <1>3, <1>6
  <2>2. ASSUME NEW x \in ActiveIds
        PROVE  KeyAt(x, q)' = info1[arcs[layerNodes[x]][q].end]
    BY <1>1, <1>3, <1>10 DEF KeyAt
  <2>3. over' = EscapeNode /\ labelMode' = FALSE /\ EscapeNode' = EscapeNode
    BY <1>1, <1>13
  <2>4. ASSUME NEW x \in Members(ids'[t], current')
        PROVE  \/ /\ layerArcs'[x] = q /\ Len(arcs'[layerNodes'[x]]) >= q
                  /\ values'[x] = KeyAt(x, q)' /\ values'[x] # over'
               \/ /\ layerArcs'[x] = 0 /\ values'[x] = over'
                  /\ \A y \in Members(ids'[t], current') : lead'[t][y] = lead'[t][x] => y = x
    <3>1. x \in ActiveIds /\ arcs'[layerNodes'[x]] = arcs[layerNodes[x]] /\ lead' = lead
      BY <1>3, <1>10, <2>1
    <3> QED
      BY <1>12, <2>1, <2>2, <2>3, <3>1
  <2> QED
    BY <2>3, <2>4 DEF Keyed
<1>15. Packs(ArcsOf, ids[t], lead[t], layerSize, current, q, labelMode)'
  <2>1. Packs(ArcsOf, ids[t], lead[t], layerSize, current, q, FALSE)
    BY <1>1, <1>6 DEF PassedAt
  <2> QED
    BY <1>1, <1>3, <1>9, <2>1
<1>16. Agree(t, o)'
  BY <1>3, <1>6 DEF PassedAt, Agree
<1>17. (PassAt(This(swap), Other(swap), q))'
  <2>1. PassAt(t, o, q)'
    BY <1>14, <1>15, <1>16 DEF PassAt
  <2> QED
    BY <1>3, <1>6, <2>1
<1>18. values' \in [Index -> Radix] /\ layerArcs' \in [Index -> Int]
  <2>1. \A x \in Index : values[x] \in Radix /\ layerArcs[x] \in Int
    BY <1>4 DEF Vectors
  <2>2. EscapeNode \in Radix
    BY <1>4, Keys DEF Vectors
  <2>3. \A x \in ActiveIds : values'[x] \in Radix
    BY <1>11, <1>12, <2>2
  <2>4. \A x \in Index : values'[x] \in Radix
    BY <1>1, <2>1, <2>3
  <2> QED
    BY <1>1, <2>1, <2>4
<1>19. Vectors' /\ NoCounts'
  BY <1>3, <1>4, <1>9, <1>10, <1>18 DEF Vectors, NoCounts
<1> QED
  BY <1>1, <1>3, <1>4, <1>6, <1>9, <1>17, <1>19 DEF IInv

LEMMA PrepareNextRadixNodeStep == IInv /\ PrepareNextRadixNode => IInv'
<1> SUFFICES ASSUME IInv, PrepareNextRadixNode
             PROVE  IInv'
  OBVIOUS
<1>0. SameGiven /\ Part' = Part
  BY GivenKept, SamePart DEF Next
<1>1. /\ pc = "prepare" /\ ~labelMode /\ pc' = "sort" /\ labelMode' = TRUE /\ over' = EscapeLabel
      /\ layerArcs' = [i \in Index |-> IF i \in AloneIds THEN 0
                                       ELSE IF i \in ActiveIds THEN ArcAfter(i)
                                       ELSE layerArcs[i]]
      /\ values' = [i \in Index |->
                      IF i \notin ActiveIds THEN values[i]
                      ELSE IF layerArcs'[i] = 0 THEN EscapeLabel
                      ELSE arcs[layerNodes[i]][layerArcs'[i]].value]
  BY DEF PrepareNextRadixNode
<1>2. UNCHANGED <<mddVars, given, loops, info1, layerSize, layerNodes, packs, radix, current,
                  swap, delta>>
  BY DEF PrepareNextRadixNode
<1>3. UNCHANGED <<mddVars, largestLayer, layer, todo, info1, layerSize, layerNodes, ids, lead,
                  count, cumulative, nonNull, current, swap, delta>>
  BY <1>2 DEF given, loops, packs, radix
<1>4. /\ Frame /\ Vectors /\ Around /\ Setting /\ NoCounts /\ layer >= 0
      /\ layer \in -1..Size /\ todo \in Seq(Node) /\ swap \in BOOLEAN
  BY <1>1 DEF IInv
<1>5. PICK t, o, q : Preparing(t, o, q)
  BY <1>1, PreparingStarts
<1>6. /\ t = This(swap) /\ o = Other(swap) /\ q \in Nat \ {0} /\ q + 1 \in Pass
      /\ PassedAt(t, o, q) /\ current \in Nat /\ current <= layerSize /\ layerSize \in Nat
      /\ ActiveIds = Members(ids[t], current) /\ ActiveIds \subseteq Index
  BY <1>5 DEF Preparing, Pass
<1>7. ASSUME NEW x \in ActiveIds
      PROVE  /\ layerArcs[x] = q /\ Len(arcs[layerNodes[x]]) >= q
             /\ arcs[layerNodes[x]] \in Seq(Arc) /\ x \in Index
  BY <1>5, PreparedBounds
<1>8. \A x \in AloneIds : \A y \in ActiveIds : lead[t][y] = lead[t][x] => y = x
  BY <1>5, PreparedBounds
<1>9. /\ Frame' /\ Around' /\ Setting' /\ ArcsOf' = ArcsOf /\ Index' = Index /\ Radix' = Radix
  <2>1. current' \in 0..layerSize
    BY <1>3, <1>6
  <2> QED
    BY <1>0, <1>3, <1>4, <2>1, UnchangedSetting
<1>10. arcs' = arcs /\ nodes' = nodes
  BY <1>3 DEF mddVars
<1>11. EscapeLabel \in Radix /\ EscapeLabel \notin Label /\ Label \subseteq Radix
  BY <1>4, Keys DEF Vectors
<1>12. ASSUME NEW x \in ActiveIds
       PROVE  \/ /\ layerArcs'[x] = q + 1 /\ Len(arcs[layerNodes[x]]) >= q + 1
                 /\ values'[x] = arcs[layerNodes[x]][q + 1].value /\ values'[x] # EscapeLabel
                 /\ values'[x] \in Radix
              \/ /\ layerArcs'[x] = 0 /\ values'[x] = EscapeLabel
                 /\ \/ Len(arcs[layerNodes[x]]) = (q + 1) - 1
                    \/ \A y \in ActiveIds : lead[t][y] = lead[t][x] => y = x
  <2>1. CASE x \in AloneIds
    BY <1>1, <1>7, <1>8, <2>1
  <2>2. CASE x \notin AloneIds /\ Len(arcs[layerNodes[x]]) = q
    <3>1. layerArcs'[x] = 0
      BY <1>1, <1>7, <2>2 DEF ArcAfter
    <3>2. values'[x] = EscapeLabel
      BY <1>1, <1>7, <3>1
    <3>3. (q + 1) - 1 = q
      BY <1>6
    <3> QED
      BY <2>2, <3>1, <3>2, <3>3
  <2>3. CASE x \notin AloneIds /\ Len(arcs[layerNodes[x]]) # q
    <3> DEFINE a == arcs[layerNodes[x]]
    <3>1. a \in Seq(Arc) /\ Len(a) >= q + 1 /\ q + 1 # 0 /\ q # 0
      BY <1>6, <1>7, <2>3
    <3>2. layerArcs'[x] = q + 1
      BY <1>1, <1>6, <1>7, <2>3 DEF ArcAfter
    <3>3. values'[x] = a[q + 1].value
      BY <1>1, <1>7, <3>1, <3>2
    <3>4. q + 1 \in 1..Len(a)
      BY <1>6, <3>1
    <3> HIDE DEF a
    <3>5. a[q + 1] \in Arc
      BY <3>1, <3>4, ElementOfSeq
    <3>6. a[q + 1].value \in Label
      BY <3>5 DEF Arc
    <3> QED
      BY <1>11, <3>1, <3>2, <3>3, <3>6 DEF a
  <2> QED
    BY <2>1, <2>2, <2>3
<1>13. EscapeLabel' = EscapeLabel
  BY DEF EscapeLabel, LargestDomain
<1>14. Keyed(t, q + 1)'
  <2>1. Members(ids'[t], current') = ActiveIds
    BY <1>3, <1>6
  <2>2. ASSUME NEW x \in ActiveIds
        PROVE  KeyAt(x, q + 1)' = arcs[layerNodes[x]][q + 1].value
    BY <1>1, <1>3, <1>10 DEF KeyAt
  <2>3. over' = EscapeLabel /\ labelMode' = TRUE /\ EscapeLabel' = EscapeLabel
    BY <1>1, <1>13
  <2>4. ASSUME NEW x \in Members(ids'[t], current')
        PROVE  \/ /\ layerArcs'[x] = q + 1 /\ Len(arcs'[layerNodes'[x]]) >= q + 1
                  /\ values'[x] = KeyAt(x, q + 1)' /\ values'[x] # over'
               \/ /\ layerArcs'[x] = 0 /\ values'[x] = over'
                  /\ \/ labelMode' /\ Len(arcs'[layerNodes'[x]]) = (q + 1) - 1
                     \/ \A y \in Members(ids'[t], current') : lead'[t][y] = lead'[t][x] => y = x
    <3>1. x \in ActiveIds /\ arcs'[layerNodes'[x]] = arcs[layerNodes[x]] /\ lead' = lead
      BY <1>3, <1>10, <2>1
    <3> QED
      BY <1>12, <2>1, <2>2, <2>3, <3>1
  <2> QED
    BY <2>3, <2>4 DEF Keyed
<1>15. Packs(ArcsOf, ids[t], lead[t], layerSize, current, q + 1, labelMode)'
  <2>1. Packs(ArcsOf, ids[t], lead[t], layerSize, current, q + 1, TRUE)
    BY <1>1, <1>6 DEF PassedAt
  <2> QED
    BY <1>1, <1>3, <1>9, <2>1
<1>16. Agree(t, o)'
  BY <1>3, <1>6 DEF PassedAt, Agree
<1>17. (PassAt(This(swap), Other(swap), q + 1))'
  <2>1. PassAt(t, o, q + 1)'
    BY <1>14, <1>15, <1>16 DEF PassAt
  <2> QED
    BY <1>3, <1>6, <2>1
<1>18. values' \in [Index -> Radix] /\ layerArcs' \in [Index -> Int]
  <2>1. \A x \in Index : values[x] \in Radix /\ layerArcs[x] \in Int
    BY <1>4 DEF Vectors
  <2>2. \A x \in ActiveIds : values'[x] \in Radix /\ layerArcs'[x] \in Int
    BY <1>6, <1>11, <1>12
  <2>3. \A x \in Index : values'[x] \in Radix
    BY <1>1, <2>1, <2>2
  <2>4. \A x \in Index : layerArcs'[x] \in Int
    BY <1>1, <2>1, <2>2
  <2> QED
    BY <1>1, <2>3, <2>4
<1>19. Vectors' /\ NoCounts'
  BY <1>3, <1>4, <1>9, <1>10, <1>18 DEF Vectors, NoCounts
<1> QED
  BY <1>1, <1>3, <1>4, <1>6, <1>9, <1>17, <1>19 DEF IInv

-----------------------------------------------------------------------------
(***************************************************************************)
(* Merge.                                                                  *)
(***************************************************************************)

\* One turn: the k-th node of the permutation and its leader.
LEMMA TurnFacts ==
  ASSUME Frame, Vectors, Around, Merging, layer >= 0, k < layerSize,
         NEW x, x = ids[This(swap)][k], NEW l, l = Leader(lead[This(swap)], x)
  PROVE  /\ layerSize \in Nat /\ k \in Places /\ x \in Places /\ l \in Places
         /\ l = lead[This(swap)][x] /\ lead[This(swap)][l] = l
         /\ \A i, j \in Places : layerNodes[i] = layerNodes[j] => i = j
         /\ \A i \in Places : layerNodes[i] \in Was(layer) /\ layerNodes[i] \in Node
         /\ newV[layerNodes[x]] = layerNodes[x] /\ newV[layerNodes[l]] = layerNodes[l]
         /\ arcs[layerNodes[x]] = arcs[layerNodes[l]]
         /\ layerNodes[x] \in ToSet(nodes[layer]) /\ layerNodes[l] \in ToSet(nodes[layer])
         /\ varIndex[layerNodes[x]] = layer /\ varIndex[layerNodes[l]] = layer
         /\ layer \in Layer /\ layer + 1 \in Layer /\ layer + 1 > layer /\ layer < Size
<1> DEFINE id == ids[This(swap)]
           ld == lead[This(swap)]
<1>1. /\ layerSize \in Nat /\ largestLayer \in Nat \ {0} /\ Places = 0..layerSize - 1
  BY DEF Vectors, Index, Places
<1>2. /\ k \in 0..layerSize /\ Permutes(id, layerSize) /\ Led(ld, {}, layerSize) /\ Enlisted
      /\ \A i, j \in Places : ld[i] = ld[j] <=> ArcsOf[i] = ArcsOf[j]
      /\ ToSet(nodes[layer]) =
           {layerNodes[id[j]] : j \in {h \in Places : h >= k \/ ld[id[h]] = id[h]}}
      /\ \A j \in Places : newV[layerNodes[id[j]]] = layerNodes[IF j < k THEN ld[id[j]] ELSE id[j]]
  BY DEF Merging
<1>3. x = id[k]
  OBVIOUS
<1> HIDE DEF id
<1>4. k \in Places
  BY <1>1, <1>2
<1>5. x \in Places
  BY <1>1, <1>2, <1>3, <1>4 DEF Permutes
<1>6. ld[x] \in Places /\ ld[ld[x]] = ld[x]
  BY <1>1, <1>2, <1>5 DEF Led
<1>7. l = ld[x]
  BY <1>1, <1>6, LeaderEnds
<1>8. l \in Places /\ ld[l] = l
  BY <1>6, <1>7
<1>9. PICK g \in Places : id[g] = l
  BY <1>1, <1>2, <1>8 DEF Permutes
<1>10. newV[layerNodes[x]] = layerNodes[x]
  <2>1. ~(k < k)
    BY <1>1, <1>4
  <2> QED
    BY <1>2, <1>3, <1>4, <2>1
<1>11. newV[layerNodes[l]] = layerNodes[l]
  BY <1>2, <1>8, <1>9
<1>12. layerNodes[x] \in ToSet(nodes[layer]) /\ layerNodes[l] \in ToSet(nodes[layer])
  <2>1. k >= k
    BY <1>1, <1>4
  <2> QED
    BY <1>2, <1>3, <1>4, <1>8, <1>9, <2>1
<1>13. \A i, j \in Places : layerNodes[i] = layerNodes[j] => i = j
  BY <1>2 DEF Enlisted
<1>14. \A i \in Places : /\ layerNodes[i] \in Was(layer) /\ layerNodes[i] \in Node
                         /\ varIndex[layerNodes[i]] = layer
  BY <1>2 DEF Enlisted, Was, Frame, Types
<1>15. arcs[layerNodes[x]] = arcs[layerNodes[l]]
  <2>1. ArcsOf[x] = ArcsOf[l]
    BY <1>2, <1>5, <1>7, <1>8
  <2> QED
    BY <1>5, <1>8, <2>1 DEF ArcsOf
<1>16. layer \in Layer /\ layer + 1 \in Layer /\ layer + 1 > layer /\ layer < Size
  <2>1. varIndex[layerNodes[x]] \in Layer
    BY <1>5, <1>14 DEF Frame, Types
  <2>2. layer \in 0..Size /\ layer < Size /\ Size \in Nat
    BY <1>5, <1>14, <2>1, SizeIsPositive DEF Layer, Around
  <2> QED
    BY <2>2 DEF Layer
<1> QED
  BY <1>1, <1>4, <1>5, <1>7, <1>8, <1>10, <1>11, <1>12, <1>13, <1>14, <1>15, <1>16

LEMMA MergeStep == IInv /\ Merge => IInv'
<1> SUFFICES ASSUME IInv, Merge
             PROVE  IInv'
  OBVIOUS
<1>0. SameGiven /\ Part' = Part
  BY GivenKept, SamePart DEF Next
<1> DEFINE id == ids[This(swap)]
           ld == lead[This(swap)]
<1>1. PICK x : x = id[k]
  OBVIOUS
<1>2. PICK l : l = Leader(ld, x)
  OBVIOUS
<1>3. /\ pc = "merge" /\ k < layerSize
      /\ newV' = [newV EXCEPT ![layerNodes[x]] = newV[layerNodes[l]]]
      /\ IF x # l THEN Unlink(layerNodes[x]) ELSE UNCHANGED nodes
      /\ k' = k + 1
  BY <1>1, <1>2 DEF Merge
<1>4. /\ UNCHANGED <<alive, varIndex, arcs, nbIn>>
      /\ UNCHANGED <<pc, layer, todo, info1, largestLayer, swap, labelMode>>
      /\ UNCHANGED <<layerSize, current, delta, layerNodes, layerArcs, values, ids, lead,
                     count, cumulative, nonNull>>
  BY DEF Merge, given, layerVars, packs, radix, modes
<1>5. /\ Frame /\ Vectors /\ Around /\ NoCounts /\ Merging /\ layer >= 0
      /\ layer \in -1..Size /\ todo \in Seq(Node)
      /\ swap \in BOOLEAN /\ labelMode \in BOOLEAN
  BY <1>3 DEF IInv
<1>6. /\ layerSize \in Nat /\ k \in Places /\ x \in Places /\ l \in Places
      /\ l = ld[x] /\ ld[l] = l
      /\ \A i, j \in Places : layerNodes[i] = layerNodes[j] => i = j
      /\ \A i \in Places : layerNodes[i] \in Was(layer) /\ layerNodes[i] \in Node
      /\ newV[layerNodes[l]] = layerNodes[l]
      /\ layerNodes[x] \in ToSet(nodes[layer]) /\ layerNodes[l] \in ToSet(nodes[layer])
      /\ varIndex[layerNodes[x]] = layer
      /\ layer \in Layer /\ layer + 1 \in Layer /\ layer + 1 > layer
  BY <1>1, <1>2, <1>3, <1>5, TurnFacts
<1> DEFINE n == layerNodes[x]
<1>7. /\ k \in 0..layerSize /\ Permutes(id, layerSize) /\ Led(ld, {}, layerSize) /\ Enlisted
      /\ \A i, j \in Places : ld[i] = ld[j] <=> ArcsOf[i] = ArcsOf[j]
      /\ ToSet(nodes[layer]) =
           {layerNodes[id[j]] : j \in {h \in Places : h >= k \/ ld[id[h]] = id[h]}}
      /\ \A j \in Places : newV[layerNodes[id[j]]] = layerNodes[IF j < k THEN ld[id[j]] ELSE id[j]]
      /\ \A y \in Was(layer) : y \in {layerNodes[i] : i \in Places} \/ newV[y] = Null
  BY <1>5 DEF Merging
<1> HIDE DEF id, ld
<1>8. /\ nodes' \in [Layer -> Seq(Node)]
      /\ IsInjective(nodes'[layer])
      /\ ToSet(nodes'[layer]) = IF x # l THEN ToSet(nodes[layer]) \ {n} ELSE ToSet(nodes[layer])
      /\ \A m \in Layer \ {layer} : nodes'[m] = nodes[m]
      /\ \A m \in Layer : Len(nodes'[m]) <= Len(nodes[m])
  <2>1. CASE x # l
    BY <1>3, <1>5, <1>6, <2>1, UnlinkFacts DEF Frame
  <2>2. CASE x = l
    <3>1. nodes' = nodes /\ nodes \in [Layer -> Seq(Node)] /\ IsInjective(nodes[layer])
      BY <1>3, <1>5, <1>6, <2>2 DEF Frame, Types, Lists
    <3>2. \A m \in Layer : Len(nodes[m]) \in Nat
      BY <3>1
    <3> QED
      BY <2>2, <3>1, <3>2
  <2> QED
    BY <2>1, <2>2
<1>9. /\ newV' \in [Node -> Node \cup {Null}] /\ newV'[n] = layerNodes[l]
      /\ \A y \in Node \ {n} : newV'[y] = newV[y]
  BY <1>3, <1>5, <1>6 DEF Frame, Types
<1>10. /\ \A m \in Layer : Was(m)' = Was(m)
       /\ \A m \in Layer \ {layer} : Untouched(m) => Untouched(m)'
       /\ \A m \in Layer : m > layer /\ Reduced(m) => Reduced(m)'
  <2>1. /\ UNCHANGED <<alive, varIndex>>
        /\ \A y \in Node \ {n} : arcs'[y] = arcs[y] /\ newV'[y] = newV[y]
        /\ \A m \in Layer \ {varIndex[n]} : nodes'[m] = nodes[m]
    BY <1>4, <1>6, <1>8, <1>9
  <2>2. varIndex[n] = layer
    BY <1>6
  <2> HIDE DEF n
  <2>3. /\ \A m \in Layer : Was(m)' = Was(m)
        /\ \A m \in Layer \ {varIndex[n]} : Untouched(m) => Untouched(m)'
        /\ \A m \in Layer : m > varIndex[n] /\ Reduced(m) => Reduced(m)'
    BY <1>0, <1>5, <2>1, OtherLayersKept
  <2> QED
    BY <2>2, <2>3
<1>11. Types'
  BY <1>0, <1>4, <1>5, <1>8, <1>9 DEF Frame, Types
<1>12. Lists'
  <2> SUFFICES ASSUME NEW m \in Layer
               PROVE  IsInjective(nodes'[m]) /\ ToSet(nodes'[m]) \subseteq Was(m)
    BY <1>10 DEF Lists
  <2>1. IsInjective(nodes[m]) /\ ToSet(nodes[m]) \subseteq Was(m)
    BY <1>5 DEF Frame, Lists
  <2> QED
    BY <1>8, <2>1
<1>13. ArcsGoDown'
  BY <1>0, <1>4, <1>5 DEF Frame, ArcsGoDown
<1>14. layer' = layer /\ layer + 1 # layer /\ nodes'[layer + 1] = nodes[layer + 1]
  <2>1. layer + 1 # layer
    BY <1>6, SizeIsPositive DEF Layer
  <2> QED
    BY <1>4, <1>6, <1>8, <2>1
<1>15. Around'
  <2>1. PlacesBelow'
    BY <1>4, <1>5, <1>14 DEF Around, PlacesBelow, EscapeNode
  <2>2. \A m \in Layer : m < layer => m # layer
    BY <1>6, SizeIsPositive DEF Layer
  <2> QED
    BY <1>4, <1>5, <1>10, <1>14, <2>1, <2>2 DEF Around
<1>16. Vectors' /\ NoCounts'
  <2>1. \A m \in 0..Size - 1 : Len(nodes'[m]) < largestLayer
    <3> SUFFICES ASSUME NEW m \in 0..Size - 1
                 PROVE  Len(nodes'[m]) < largestLayer
      OBVIOUS
    <3>1. m \in Layer
      BY SizeIsPositive DEF Layer
    <3>2. Len(nodes[m]) \in Nat /\ Len(nodes'[m]) \in Nat
      BY <1>5, <1>8, <3>1 DEF Frame, Types
    <3>3. Len(nodes'[m]) <= Len(nodes[m]) /\ Len(nodes[m]) < largestLayer
      BY <1>5, <1>8, <3>1 DEF Vectors
    <3>4. largestLayer \in Nat
      BY <1>5 DEF Vectors
    <3> QED
      BY <3>2, <3>3, <3>4
  <2> QED
    BY <1>4, <1>5, <2>1 DEF NoCounts, Vectors, Radix, Index
<1>17. Places' = Places /\ Was(layer)' = Was(layer) /\ ArcsOf' = ArcsOf
  BY <1>4, <1>6, <1>10 DEF Places, ArcsOf
<1>18. Enlisted'
  <2>1. \A y : LeadsTo(y, layer + 1) => LeadsTo(y, layer + 1)'
    BY <1>4, <1>14 DEF LeadsTo
  <2> QED
    BY <1>4, <1>7, <1>17, <2>1 DEF Enlisted
<1>19. /\ Places = 0..layerSize - 1 /\ k + 1 \in 0..layerSize
       /\ \A j \in Places : id[j] \in Places
       /\ \A i, j \in Places : id[i] = id[j] => i = j
  <2>1. Places = 0..layerSize - 1
    BY DEF Places
  <2> QED
    <3>1. \A j \in 0..layerSize - 1 : j + 1 \in 0..layerSize
      BY <1>6
    <3>2. k + 1 \in 0..layerSize
      BY <1>6, <2>1, <3>1
    <3>3. \A j \in Places : id[j] \in Places
      BY <1>7, <2>1 DEF Permutes
    <3>4. \A i, j \in Places : id[i] = id[j] => i = j
      BY <1>7, <2>1 DEF Permutes
    <3> QED
      BY <2>1, <3>2, <3>3, <3>4
<1>20. \A j \in Places : /\ j < k + 1 <=> j < k \/ j = k
                         /\ j >= k <=> j >= k + 1 \/ j = k
                         /\ j >= k + 1 <=> ~(j < k + 1)
  BY <1>6, <1>19
<1>21. \A j \in Places : newV'[layerNodes[id[j]]]
                           = layerNodes[IF j < k + 1 THEN ld[id[j]] ELSE id[j]]
  <2> SUFFICES ASSUME NEW j \in Places
               PROVE  newV'[layerNodes[id[j]]] = layerNodes[IF j < k + 1 THEN ld[id[j]] ELSE id[j]]
    OBVIOUS
  <2>1. CASE j = k
    <3>1. id[j] = x
      BY <1>1, <2>1
    <3> QED
      BY <1>6, <1>9, <1>20, <2>1, <3>1
  <2>2. CASE j # k
    <3>1. id[j] # x /\ id[j] \in Places
      BY <1>1, <1>6, <1>19, <2>2
    <3>2. layerNodes[id[j]] # n /\ layerNodes[id[j]] \in Node
      BY <1>6, <3>1
    <3> QED
      BY <1>7, <1>9, <1>20, <2>2, <3>2
  <2> QED
    BY <2>1, <2>2
<1>22. ToSet(nodes'[layer]) =
         {layerNodes[id[j]] : j \in {h \in Places : h >= k + 1 \/ ld[id[h]] = id[h]}}
  <2> DEFINE Old == {h \in Places : h >= k \/ ld[id[h]] = id[h]}
             New == {h \in Places : h >= k + 1 \/ ld[id[h]] = id[h]}
  <2>1. id[k] = x /\ (ld[id[k]] = id[k] <=> x = l)
    BY <1>1, <1>6
  <2>2. CASE x = l
    <3>1. New = Old
      BY <1>20, <2>1, <2>2
    <3> QED
      BY <1>7, <1>8, <2>2, <3>1
  <2>3. CASE x # l
    <3>1. \A h \in Places : h \in New <=> h \in Old /\ h # k
      BY <1>20, <2>1, <2>3
    <3>2. \A h \in Places : layerNodes[id[h]] = n <=> h = k
      BY <1>6, <1>19, <2>1
    <3>3. ToSet(nodes'[layer]) = {layerNodes[id[j]] : j \in Old} \ {n}
      BY <1>7, <1>8, <2>3
    <3>4. Old \subseteq Places /\ New \subseteq Places
      OBVIOUS
    <3> HIDE DEF Old, New
    <3>5. {layerNodes[id[j]] : j \in Old} \ {n} = {layerNodes[id[j]] : j \in New}
      BY <3>1, <3>2, <3>4
    <3> QED
      BY <3>3, <3>5 DEF New
  <2> QED
    BY <2>2, <2>3
<1>23. \A y \in Was(layer) : y \in {layerNodes[i] : i \in Places} \/ newV'[y] = Null
  <2>1. \A y \in Was(layer) : y \in Node
    BY <1>0, <1>5 DEF Was, Frame, Types
  <2> QED
    BY <1>6, <1>7, <1>9, <2>1
<1>24. Merging'
  <2>1. ids'[This(swap')] = id /\ lead'[This(swap')] = ld
    BY <1>4 DEF id, ld
  <2> QED
    BY <1>3, <1>4, <1>7, <1>17, <1>18, <1>19, <1>21, <1>22, <1>23, <2>1 DEF Merging
<1> QED
  BY <1>3, <1>4, <1>5, <1>11, <1>12, <1>13, <1>15, <1>16, <1>24 DEF IInv, Frame

\* Merge has left one node of each pack.
LEMMA MergedIsReduced ==
  ASSUME Frame, Vectors, Around, Merging, k = layerSize
  PROVE  /\ Reduced(layer)
         /\ \A n \in ToSet(nodes[layer]) : info1[n] < EscapeNode
         /\ \A n, m \in ToSet(nodes[layer]) : info1[n] = info1[m] => n = m
<1> DEFINE id == ids[This(swap)]
           ld == lead[This(swap)]
           Heading == {j \in Places : ld[j] = j}
<1>1. /\ layerSize \in Nat /\ layerSize < largestLayer /\ largestLayer \in Nat
      /\ Places = 0..layerSize - 1
  BY DEF Vectors, Index, Places
<1>2. /\ Permutes(id, layerSize) /\ Led(ld, {}, layerSize) /\ Enlisted
      /\ \A i, j \in Places : ld[i] = ld[j] <=> ArcsOf[i] = ArcsOf[j]
      /\ ToSet(nodes[layer]) =
           {layerNodes[id[j]] : j \in {h \in Places : h >= k \/ ld[id[h]] = id[h]}}
      /\ \A j \in Places : newV[layerNodes[id[j]]] = layerNodes[IF j < k THEN ld[id[j]] ELSE id[j]]
      /\ \A n \in Was(layer) : n \in {layerNodes[i] : i \in Places} \/ newV[n] = Null
  BY DEF Merging
<1> HIDE DEF id, ld
<1>3. \A j \in Places : j < k /\ ~(j >= k)
  BY <1>1
<1>4. /\ \A j \in Places : id[j] \in Places
      /\ \A i \in Places : \E j \in Places : id[j] = i
  BY <1>1, <1>2 DEF Permutes
<1>5. \A i \in Places : newV[layerNodes[i]] = layerNodes[ld[i]]
  BY <1>2, <1>3, <1>4
<1>6. ToSet(nodes[layer]) = {layerNodes[j] : j \in Heading}
  <2> DEFINE Left == {h \in Places : h >= k \/ ld[id[h]] = id[h]}
  <2>1. \A h \in Left : id[h] \in Heading
    BY <1>3, <1>4
  <2>2. \A j \in Heading : \E h \in Left : id[h] = j
    BY <1>4
  <2>3. ToSet(nodes[layer]) = {layerNodes[id[j]] : j \in Left}
    BY <1>2
  <2> HIDE DEF Left, Heading
  <2> QED
    BY <2>1, <2>2, <2>3
<1>7. \A i \in Places : ld[i] \in Heading
  BY <1>1, <1>2 DEF Led
<1>8. \A n \in ToSet(nodes[layer]) : newV[n] = n /\ arcs[n] # <<>> /\ LeadsTo(n, layer + 1)
  <2> SUFFICES ASSUME NEW j \in Heading
               PROVE  /\ newV[layerNodes[j]] = layerNodes[j] /\ arcs[layerNodes[j]] # <<>>
                      /\ LeadsTo(layerNodes[j], layer + 1)
    BY <1>6
  <2> QED
    BY <1>2, <1>5 DEF Enlisted
<1>9. \A n \in Was(layer) : newV[n] = Null \/ newV[n] \in ToSet(nodes[layer])
  <2> SUFFICES ASSUME NEW i \in Places
               PROVE  newV[layerNodes[i]] \in ToSet(nodes[layer])
    BY <1>2
  <2> HIDE DEF Heading
  <2> QED
    BY <1>5, <1>6, <1>7
<1>10. \A i \in Heading : i \in Places /\ ld[i] = i
  OBVIOUS
<1> HIDE DEF Heading
<1>11. \A n, m \in ToSet(nodes[layer]) : arcs[n] = arcs[m] => n = m
  <2> SUFFICES ASSUME NEW i \in Heading, NEW j \in Heading,
                      arcs[layerNodes[i]] = arcs[layerNodes[j]]
               PROVE  i = j
    BY <1>6
  <2>1. ArcsOf[i] = ArcsOf[j]
    BY <1>10 DEF ArcsOf
  <2> QED
    BY <1>2, <1>10, <2>1
<1>12. \A j \in Places : info1[layerNodes[j]] = j /\ j < EscapeNode
  <2>1. \A j \in Places : j < EscapeNode
    BY <1>1 DEF EscapeNode
  <2> QED
    BY <1>2, <2>1 DEF Enlisted
<1>13. \A n \in ToSet(nodes[layer]) : info1[n] < EscapeNode
  BY <1>6, <1>10, <1>12
<1>14. \A n, m \in ToSet(nodes[layer]) : info1[n] = info1[m] => n = m
  BY <1>6, <1>10, <1>12
<1> QED
  BY <1>8, <1>9, <1>11, <1>13, <1>14 DEF Reduced

LEMMA CloseLayerStep == IInv /\ CloseLayer => IInv'
<1> SUFFICES ASSUME IInv, CloseLayer
             PROVE  IInv'
  OBVIOUS
<1>0. SameGiven /\ Part' = Part
  BY GivenKept, SamePart DEF Next
<1>1. pc = "merge" /\ k = layerSize /\ pc' = "layer" /\ layer' = layer - 1
  BY DEF CloseLayer
<1>2. /\ UNCHANGED mddVars
      /\ UNCHANGED <<todo, info1, largestLayer, layerSize, current, delta, layerNodes, layerArcs,
                     values, ids, lead, count, cumulative, nonNull, swap, labelMode>>
  BY DEF CloseLayer, given, layerVars, packs, radix, modes
<1>3. /\ Frame /\ Vectors /\ Around /\ NoCounts /\ Merging /\ layer >= 0
      /\ layer \in -1..Size /\ todo \in Seq(Node)
      /\ swap \in BOOLEAN /\ labelMode \in BOOLEAN
  BY <1>1 DEF IInv
<1>4. nodes' = nodes /\ arcs' = arcs /\ newV' = newV /\ alive' = alive /\ varIndex' = varIndex
  BY <1>2 DEF mddVars
<1>5. Frame'
  BY <1>0, <1>2, <1>3, UnchangedDiagram
<1>6. Vectors' /\ NoCounts'
  BY <1>2, <1>3, <1>4 DEF NoCounts, Vectors, Radix, Index
<1>7. /\ layer \in Int /\ Size \in Nat /\ layer < Size /\ layer' + 1 = layer
      /\ layer' \in -1..Size /\ layer' < Size
  BY <1>1, <1>3, SizeIsPositive DEF Around
<1>8. /\ Reduced(layer)
      /\ \A n \in ToSet(nodes[layer]) : info1[n] < EscapeNode
      /\ \A n, m \in ToSet(nodes[layer]) : info1[n] = info1[m] => n = m
  BY <1>1, <1>3, MergedIsReduced
<1>9. PlacesBelow'
  BY <1>2, <1>4, <1>7, <1>8 DEF PlacesBelow, EscapeNode
<1>10. \A l \in Layer : /\ l > layer' => l = layer \/ l > layer
                        /\ l < layer' => l < layer
                        /\ l = layer' => l < layer
  BY <1>1, <1>7 DEF Layer
<1>11. /\ \A l : Reduced(l) => Reduced(l)'
       /\ \A l : Untouched(l) => Untouched(l)'
  BY <1>0, <1>4 DEF Reduced, Untouched, Was, LeadsTo
<1>12. Around'
  BY <1>3, <1>7, <1>8, <1>9, <1>10, <1>11 DEF Around
<1>13. layer' >= 0 => Untouched(layer)'
  <2> SUFFICES ASSUME layer' >= 0
               PROVE  Untouched(layer)'
    OBVIOUS
  <2>1. PICK l \in Layer : l = layer'
    BY <1>7 DEF Layer
  <2>2. Untouched(l)
    BY <1>3, <1>10, <2>1 DEF Around
  <2>3. Untouched(l)'
    BY <1>11, <2>2
  <2> QED
    BY <1>0, <2>1, <2>3 DEF Untouched, Was
<1> QED
  BY <1>1, <1>2, <1>3, <1>5, <1>6, <1>7, <1>12, <1>13 DEF IInv

-----------------------------------------------------------------------------
(***************************************************************************)
(* The invariant.                                                          *)
(***************************************************************************)

LEMMA Stutter == IInv /\ UNCHANGED vars => IInv'
<1> SUFFICES ASSUME IInv, UNCHANGED vars
             PROVE  IInv'
  OBVIOUS
<1>0. SameGiven
  BY GivenKept
<1>1. /\ UNCHANGED mddVars
      /\ nodes' = nodes /\ alive' = alive /\ varIndex' = varIndex
      /\ arcs' = arcs /\ nbIn' = nbIn /\ newV' = newV
  BY DEF vars, mddVars
<1>2. /\ input' = input /\ largestLayer' = largestLayer /\ pc' = pc
      /\ layer' = layer /\ todo' = todo /\ e' = e /\ k' = k
  BY DEF vars, reduceVars, given, loops
<1>3. /\ info1' = info1 /\ layerSize' = layerSize /\ layerNodes' = layerNodes
      /\ layerArcs' = layerArcs /\ values' = values /\ ids' = ids /\ lead' = lead
  BY DEF vars, reduceVars, layerVars, packs
<1>4. /\ count' = count /\ cumulative' = cumulative /\ nonNull' = nonNull
      /\ current' = current /\ labelMode' = labelMode /\ swap' = swap
      /\ over' = over /\ delta' = delta
  BY DEF vars, reduceVars, radix, modes
<1>5. Frame' /\ \A l : Was(l)' = Was(l)
  BY <1>0, <1>1, UnchangedDiagram DEF IInv
<1>6. (\A l : Reduced(l) => Reduced(l)') /\ (\A l : Untouched(l) => Untouched(l)')
  BY <1>0, <1>1, UnchangedDiagram
<1>7. pc # "idle" => Vectors'
  BY <1>1, <1>2, <1>3, <1>4, UnchangedVectors DEF IInv
<1>8. pc \notin {"idle", "done"} => Around'
  BY <1>0, <1>1, <1>2, <1>3, UnchangedAround DEF IInv
<1>9. /\ Index' = Index /\ Radix' = Radix /\ Active' = Active /\ Places' = Places
      /\ ArcsOf' = ArcsOf /\ EscapeLabel' = EscapeLabel /\ EscapeNode' = EscapeNode
  BY <1>1, <1>2, <1>3, <1>4
     DEF Index, Radix, Active, Places, ArcsOf, EscapeLabel, EscapeNode, LargestDomain
<1>10. \A n, l : LeadsTo(n, l) => LeadsTo(n, l)'
  BY <1>1 DEF LeadsTo
<1>11. pc = "idle" => AtRest'
  BY <1>1, <1>2, <1>3, <1>4, <1>6 DEF IInv, AtRest, Rooted, Sorted
<1>12. pc \notin {"idle", "cumulate"} => NoCounts'
  BY <1>4, <1>9 DEF IInv, NoCounts
<1>13. (Enlisted => Enlisted') /\ (OwnOrDead => OwnOrDead')
  BY <1>1, <1>2, <1>3, <1>5, <1>9, <1>10 DEF Enlisted, OwnOrDead
<1>14. pc \in {"node", "arc"} => Collecting'
  BY <1>1, <1>2, <1>3, <1>9, <1>13 DEF IInv, Collecting
<1>15. pc = "arc" => AtArc'
  BY <1>1, <1>2 DEF IInv, AtArc
<1>16. Setting => Setting'
  BY <1>1, <1>2, <1>3, <1>4, <1>9, <1>13 DEF Setting
<1>17. \A s, t, q : PassAt(s, t, q) => (PassAt(s, t, q))'
  BY <1>1, <1>2, <1>3, <1>4, UnchangedPass
<1>18. Counted => Counted'
  <2>1. \A j : Key(j)' = Key(j)
    BY <1>3, <1>4 DEF Key
  <2> QED
    BY <1>4, <1>9, <2>1 DEF Counted
<1>19. Cumulated => Cumulated'
  <2>1. \A j : Key(j)' = Key(j)
    BY <1>3, <1>4 DEF Key
  <2> QED
    BY <1>4, <1>9, <2>1 DEF Cumulated
<1>20. \A s, t, q : PassedAt(s, t, q) => (PassedAt(s, t, q))'
  <2>1. \A s, t : Agree(s, t) => (Agree(s, t))'
    BY <1>3, <1>4 DEF Agree
  <2> QED
    BY <1>1, <1>3, <1>4, <1>9, <2>1 DEF PassedAt
<1>21. Merging => Merging'
  BY <1>1, <1>2, <1>3, <1>4, <1>5, <1>9, <1>13 DEF Merging
<1>23. pc \in {"sort", "cumulate", "permute"} =>
         (\E q \in Pass : PassAt(This(swap), Other(swap), q))'
  <2> SUFFICES ASSUME pc \in {"sort", "cumulate", "permute"}
               PROVE  (\E q \in Pass : PassAt(This(swap), Other(swap), q))'
    OBVIOUS
  <2>1. PICK q \in Pass : PassAt(This(swap), Other(swap), q)
    BY DEF IInv
  <2>2. PICK s : s = This(swap)
    OBVIOUS
  <2>3. PICK t : t = Other(swap)
    OBVIOUS
  <2>4. (PassAt(s, t, q))'
    BY <1>17, <2>1, <2>2, <2>3
  <2>5. This(swap)' = s /\ Other(swap)' = t
    BY <1>4, <2>2, <2>3
  <2> QED
    BY <2>4, <2>5
<1>24. pc = "lead" =>
         /\ (Distributed(ids[This(swap)], values, lead[Other(swap)], layerSize, current, delta, over))'
         /\ (\E q \in Pass : PassAt(Other(swap), This(swap), q))'
  <2> SUFFICES ASSUME pc = "lead"
               PROVE  /\ (Distributed(ids[This(swap)], values, lead[Other(swap)], layerSize, current, delta, over))'
                      /\ (\E q \in Pass : PassAt(Other(swap), This(swap), q))'
    OBVIOUS
  <2>1. PICK q \in Pass : PassAt(Other(swap), This(swap), q)
    BY DEF IInv
  <2>2. PICK s : s = This(swap)
    OBVIOUS
  <2>3. PICK t : t = Other(swap)
    OBVIOUS
  <2>4. (PassAt(t, s, q))'
    BY <1>17, <2>1, <2>2, <2>3
  <2>5. This(swap)' = s /\ Other(swap)' = t
    BY <1>4, <2>2, <2>3
  <2>6. Distributed(ids[This(swap)], values, lead[Other(swap)], layerSize, current, delta, over)
    BY DEF IInv
  <2>7. (Distributed(ids[This(swap)], values, lead[Other(swap)], layerSize, current, delta, over))'
    BY <1>3, <1>4, <2>6
  <2> QED
    BY <2>4, <2>5, <2>7
<1>25. pc = "prepare" => (\E q \in Pass : PassedAt(This(swap), Other(swap), q))'
  <2> SUFFICES ASSUME pc = "prepare"
               PROVE  (\E q \in Pass : PassedAt(This(swap), Other(swap), q))'
    OBVIOUS
  <2>1. PICK q \in Pass : PassedAt(This(swap), Other(swap), q)
    BY DEF IInv
  <2>2. PICK s : s = This(swap)
    OBVIOUS
  <2>3. PICK t : t = Other(swap)
    OBVIOUS
  <2>4. (PassedAt(s, t, q))'
    BY <1>20, <2>1, <2>2, <2>3
  <2>5. This(swap)' = s /\ Other(swap)' = t
    BY <1>4, <2>2, <2>3
  <2> QED
    BY <2>4, <2>5
<1> QED
  BY <1>2, <1>4, <1>5, <1>6, <1>7, <1>8, <1>11, <1>12, <1>14, <1>15, <1>16, <1>18, <1>19,
     <1>21, <1>23, <1>24, <1>25 DEF IInv

LEMMA Inductive == IInv /\ [Next]_vars => IInv'
BY Stutter, ConstructStep, FinishStep, OpenLayerStep, OpenNodeStep, NextArcStep,
   EnlistNodeStep, DropNodeStep, BeginSortStep, RadixCountStep, RadixCumulativeStep,
   PermutationStep, LeadManagementStep, PrepareNextRadixLabelStep,
   PrepareNextRadixNodeStep, EndSortStep, MergeStep, CloseLayerStep DEF Next

\* What every state of the constructor satisfies.
THEOREM Invariant == Spec => []IInv
BY InitIInv, Inductive, PTL DEF Spec

-----------------------------------------------------------------------------
(***************************************************************************)
(* What the invariant gives.                                               *)
(***************************************************************************)

LEMMA InvariantTypes == IInv => TypeOK
<1> SUFFICES ASSUME IInv PROVE TypeOK
  OBVIOUS
<1>1. MDDTypeOK
  BY DEF IInv, Frame, Types, MDDTypeOK
<1>2. ASSUME pc # "idle"
      PROVE  /\ layerSize < largestLayer /\ current \in Index /\ delta \in Index
             /\ info1 \in [Node -> Index]
             /\ layerNodes \in [Index -> Node \cup {Null}]
             /\ layerArcs \in [Index -> Int] /\ values \in [Index -> Radix]
             /\ ids \in [1..2 -> [Index -> Index]] /\ lead \in [1..2 -> [Index -> Index]]
             /\ count \in [Radix -> Index] /\ cumulative \in [Radix -> Index]
             /\ nonNull \in Seq(Radix)
  <2>1. Vectors
    BY <1>2 DEF IInv
  <2>2. layerSize < largestLayer
    BY <2>1 DEF Vectors, Index
  <2> QED
    BY <2>1, <2>2 DEF Vectors
<1> QED
  BY <1>1, <1>2 DEF IInv, TypeOK

\* Every place, position and counter is an index of the vector that it is used
\* for, whatever the diagram, the domains and the number of layers.
THEOREM TypesAreCorrect == Spec => []TypeOK
BY InvariantTypes, Invariant, PTL

\* No label of a domain and no place of a layer is taken for the escape value, for
\* every size of the domains and of the layers: the node whose key it is has no
\* arc left to compare, or nothing left to be told from.
THEOREM EscapeIsApart == Spec => []EscapeIsNoKey
<1>1. IInv => EscapeIsNoKey
  <2> SUFFICES ASSUME IInv, pc = "sort", NEW i \in ActiveIds
               PROVE  values[i] = over <=> layerArcs[i] = 0
    BY DEF EscapeIsNoKey
  <2>1. PICK q \in Pass : PassAt(This(swap), Other(swap), q)
    BY DEF IInv
  <2>2. i \in Members(ids[This(swap)], current)
    BY DEF ActiveIds, Active, Members
  <2> QED
    BY <2>1, <2>2 DEF PassAt, Keyed, Pass
<1> QED
  BY <1>1, Invariant, PTL

\* unionFind::leader terminates: no chain of leaders that it is asked to follow is
\* longer than one step, whatever earlier passes and layers left in the vectors.
THEOREM LeadersAreFound == Spec => []ChainsEnd
<1>1. IInv => ChainsEnd
  <2> SUFFICES ASSUME IInv
               PROVE  ChainsEnd
    OBVIOUS
  <2>1. ASSUME pc \in {"lead", "prepare"}, Permutes(ids[This(swap)], layerSize),
               NEW i \in ActiveIds
        PROVE  i \in 0..layerSize - 1
    <3>1. layerSize \in Nat /\ current \in 0..layerSize
      BY <2>1 DEF IInv, Setting, Vectors, Index
    <3>2. \A j \in Active : j \in 0..layerSize - 1
      BY <3>1 DEF Active
    <3> QED
      BY <2>1, <3>2 DEF ActiveIds, Permutes
  <2>2. ASSUME pc = "lead", NEW i \in ActiveIds
        PROVE  lead[Other(swap)][lead[Other(swap)][i]] = lead[Other(swap)][i]
    <3>1. Led(lead[Other(swap)], Members(ids[Other(swap)], current), layerSize)
      BY <2>2 DEF IInv, PassAt, Packs
    <3>2. Permutes(ids[This(swap)], layerSize)
      BY <2>2 DEF IInv, Distributed
    <3>3. i \in 0..layerSize - 1
      BY <2>1, <2>2, <3>2
    <3> QED
      BY <3>1, <3>3 DEF Led
  <2>3. ASSUME pc = "prepare", NEW i \in ActiveIds
        PROVE  lead[This(swap)][lead[This(swap)][i]] = lead[This(swap)][i]
    <3>1. /\ Led(lead[This(swap)], Members(ids[This(swap)], current), layerSize)
          /\ Permutes(ids[This(swap)], layerSize)
      BY <2>3 DEF IInv, PassedAt, Packs
    <3>2. i \in 0..layerSize - 1
      BY <2>1, <2>3, <3>1
    <3> QED
      BY <3>1, <3>2 DEF Led
  <2>4. ASSUME pc = "merge", NEW i \in Places
        PROVE  lead[This(swap)][lead[This(swap)][i]] = lead[This(swap)][i]
    <3>1. Merging
      BY <2>4 DEF IInv
    <3> QED
      BY <2>4, <3>1 DEF Merging, Led, Places
  <2> QED
    BY <2>2, <2>3, <2>4 DEF ChainsEnd, Places
<1> QED
  BY <1>1, Invariant, PTL

\* The leaders that Merge follows group the nodes of the layer by their arcs, and
\* the permutation it follows has all of them.
THEOREM PacksAreRight == Spec => []PacksAreClasses
<1>1. IInv => PacksAreClasses
  <2> SUFFICES ASSUME IInv, pc = "merge"
               PROVE  PacksAreClasses
    BY DEF PacksAreClasses
  <2>1. Merging /\ Vectors
    BY DEF IInv
  <2> DEFINE id == ids[This(swap)]
             ld == lead[This(swap)]
  <2>2. /\ Permutes(id, layerSize) /\ Led(ld, {}, layerSize)
        /\ \A i, j \in Places : ld[i] = ld[j] <=> ArcsOf[i] = ArcsOf[j]
    BY <2>1 DEF Merging
  <2>3. {id[i] : i \in Places} = Places
    <3>1. \A x \in {id[i] : i \in Places} : x \in Places
      BY <2>2 DEF Permutes, Places
    <3>2. \A x \in Places : x \in {id[i] : i \in Places}
      BY <2>2 DEF Permutes, Places
    <3> QED
      BY <3>1, <3>2
  <2>4. \A i \in Places : Leader(ld, i) = ld[i]
    BY <2>1, <2>2, LeaderEnds DEF Led, Places, Vectors
  <2>5. \A i \in Places : ArcsOf[i] = arcs[layerNodes[i]]
    BY DEF ArcsOf
  <2> HIDE DEF id, ld
  <2>6. \A i, j \in Places : Leader(ld, i) = Leader(ld, j)
                               <=> arcs[layerNodes[i]] = arcs[layerNodes[j]]
    BY <2>2, <2>4, <2>5
  <2> QED
    BY <2>3, <2>6 DEF PacksAreClasses, Places, id, ld
<1> QED
  BY <1>1, Invariant, PTL

LEMMA DeadEndsAreGone == IInv => NoDeadEnd
<1> SUFFICES ASSUME IInv, pc = "done", NEW l \in Layer, NEW n \in Listed(l)
             PROVE  /\ l < Size => arcs[n] # <<>>
                    /\ \A i \in DOMAIN arcs[n] : arcs[n][i].end \in Listed(l + 1)
  BY DEF NoDeadEnd
<1>1. Reduced(l) /\ Frame
  BY DEF IInv
<1>2. \A m : Listed(m) = ToSet(nodes[m])
  BY DEF Listed, ToSet
<1>3. CASE l < Size
  BY <1>1, <1>2, <1>3 DEF Reduced, LeadsTo
<1>4. CASE ~(l < Size)
  <2>1. l = Size /\ Size \in Nat
    BY <1>4, SizeIsPositive DEF Layer
  <2>2. n \in Node /\ varIndex[n] = Size
    BY <1>1, <1>2, <2>1 DEF Frame, Lists, Types, Was
  <2>3. ASSUME NEW i \in DOMAIN arcs[n] PROVE FALSE
    <3>1. arcs[n][i].end \in alive /\ varIndex[arcs[n][i].end] = Size + 1
      BY <1>1, <2>2, <2>3 DEF Frame, ArcsGoDown
    <3>2. varIndex[arcs[n][i].end] \in 0..Size
      BY <1>1, <3>1 DEF Frame, Types, Layer
    <3> QED
      BY <2>1, <3>1, <3>2
  <2> QED
    BY <1>4, <2>3
<1> QED
  BY <1>3, <1>4

\* A diagram that was reduced has no node that leads nowhere and no arc to a node
\* that was taken out.
THEOREM NoDeadEnds == Spec => []NoDeadEnd
BY DeadEndsAreGone, Invariant, PTL

-----------------------------------------------------------------------------
(***************************************************************************)
(* Reduce takes the steps of Reduction.                                    *)
(***************************************************************************)

\* The arcs of a list as pairs.
Pairs(a) == {<<a[i].value, a[i].end>> : i \in DOMAIN a}

LEMMA OutIsPairs == Out = [n \in Node |-> Pairs(arcs[n])]
BY DEF Out, Pairs

LEMMA PairsAreTyped ==
  ASSUME NEW a \in Seq(Arc)
  PROVE  Pairs(a) \in SUBSET (Label \X Node)
<1>1. \A i \in DOMAIN a : a[i] \in Arc
  OBVIOUS
<1>2. \A i \in DOMAIN a : a[i].value \in Label /\ a[i].end \in Node
  BY <1>1 DEF Arc
<1> QED
  BY <1>2 DEF Pairs

LEMMA RestIsInit == IInv /\ pc = "idle" => Steps!Init
<1> SUFFICES ASSUME IInv, pc = "idle"
             PROVE  Steps!Init
  OBVIOUS
<1>1. IInv /\ newV = [n \in Node |-> n]
  BY DEF IInv, AtRest
<1>2. Frame
  BY <1>1 DEF IInv
<1>3. varIndex \in [Node -> 0..Size]
  BY <1>2 DEF Frame, Types, Layer
<1>4. Out \in [Node -> SUBSET (Label \X Node)]
  BY <1>2, OutIsPairs, PairsAreTyped DEF Frame, Types
<1>5. ASSUME NEW n \in Node, NEW p \in Out[n]
      PROVE  varIndex[p[2]] = varIndex[n] + 1
  <2>1. PICK i \in DOMAIN arcs[n] : p = <<arcs[n][i].value, arcs[n][i].end>>
    BY <1>5 DEF Out
  <2> QED
    BY <1>2, <2>1 DEF Frame, ArcsGoDown
<1>6. Steps!Layered
  BY <1>5 DEF Steps!Layered
<1> QED
  BY <1>1, <1>3, <1>4, <1>6 DEF Steps!Init

\* The pairs of a list without one arc, or with one arc led elsewhere, are those
\* of the other arcs and of the new one.
OtherPairs(a, i) == {<<a[j].value, a[j].end>> : j \in (1..Len(a)) \ {i}}

LEMMA PairsOfOthers ==
  ASSUME NEW a \in Seq(Arc), NEW i \in 1..Len(a), NEW m \in Node
  PROVE  /\ Pairs(a) = OtherPairs(a, i) \cup {<<a[i].value, a[i].end>>}
         /\ Pairs(RemoveAt(a, i)) = OtherPairs(a, i)
         /\ Pairs(LedTo(a, i, m)) = OtherPairs(a, i) \cup {<<a[i].value, m>>}
<1> DEFINE S == OtherPairs(a, i)
           others == (1..Len(a)) \ {i}
           r == RemoveAt(a, i)
           b == LedTo(a, i, m)
           pair(x) == <<x.value, x.end>>
<1>1. Len(a) \in Nat /\ DOMAIN a = 1..Len(a)
  OBVIOUS
<1>2. Pairs(a) = S \cup {pair(a[i])}
  BY <1>1 DEF Pairs, OtherPairs
<1>3. /\ r \in Seq(Arc) /\ Len(r) = Len(a) - 1
      /\ \A j \in 1..Len(a) - 1 : r[j] = IF j < i THEN a[j] ELSE a[j + 1]
  BY RemoveAtFacts
<1>4. /\ b \in Seq(Arc) /\ Len(b) = Len(a) /\ b[i].value = a[i].value /\ b[i].end = m
      /\ \A j \in 1..Len(a) : j # i => b[j] = a[j]
  BY ArcLed
<1> HIDE DEF r, b
<1>5. DOMAIN r = 1..Len(a) - 1 /\ DOMAIN b = 1..Len(a)
  BY <1>3, <1>4
<1>6. Pairs(r) = S
  <2>1. \A j \in others : pair(a[j]) \in S
    BY DEF OtherPairs
  <2>2. ASSUME NEW j \in DOMAIN r
        PROVE  pair(r[j]) \in S
    <3>1. CASE j < i
      <4>1. j \in others /\ r[j] = a[j]
        BY <1>1, <1>3, <1>5, <3>1
      <4> QED
        BY <2>1, <4>1
    <3>2. CASE ~(j < i)
      <4>1. j + 1 \in others /\ r[j] = a[j + 1]
        BY <1>1, <1>3, <1>5, <3>2
      <4> QED
        BY <2>1, <4>1
    <3> QED
      BY <3>1, <3>2
  <2>3. ASSUME NEW j \in others
        PROVE  pair(a[j]) \in Pairs(r)
    <3>1. CASE j < i
      <4>1. j \in DOMAIN r /\ r[j] = a[j]
        BY <1>1, <1>3, <1>5, <3>1
      <4> QED
        BY <4>1 DEF Pairs
    <3>2. CASE ~(j < i)
      <4>1. j - 1 \in 1..Len(a) - 1 /\ ~(j - 1 < i) /\ (j - 1) + 1 = j
        BY <1>1, <3>2
      <4>2. j - 1 \in DOMAIN r /\ r[j - 1] = a[j]
        BY <1>3, <1>5, <4>1
      <4> QED
        BY <4>2 DEF Pairs
    <3> QED
      BY <3>1, <3>2
  <2> QED
    BY <2>2, <2>3 DEF Pairs, OtherPairs
<1>7. Pairs(b) = S \cup {<<a[i].value, m>>}
  <2>1. Pairs(b) = {pair(b[j]) : j \in 1..Len(a)}
    BY <1>5 DEF Pairs
  <2>2. \A j \in 1..Len(a) : pair(b[j]) = IF j = i THEN <<a[i].value, m>> ELSE pair(a[j])
    BY <1>4
  <2> QED
    BY <2>1, <2>2 DEF OtherPairs
<1> QED
  BY <1>2, <1>6, <1>7 DEF r, b

LEMMA NextArcReduces ==
  ASSUME IInv, NextArc
  PROVE  Steps!Next \/ UNCHANGED <<varIndex, Out, newV>>
<1> DEFINE n == Head(todo)
           a == arcs[n]
           v == a[e].value
           end == a[e].end
           r == newV[end]
           S == OtherPairs(a, e)
<1>1. /\ a \in Seq(Arc) /\ e \in 1..Len(a) /\ end \in Node
      /\ r = Null \/ r \in Node
      /\ arcs' = [arcs EXCEPT ![n] = IF r = Null THEN RemoveAt(a, e) ELSE LedTo(a, e, r)]
      /\ UNCHANGED <<varIndex, newV>>
  BY NextArcFacts
<1>2. n \in Node /\ arcs \in [Node -> Seq(Arc)]
  <2>1. pc = "arc" /\ todo # <<>> /\ Frame
    BY DEF NextArc, IInv, AtArc
  <2> QED
    BY <2>1, HeadFacts DEF Frame, Types
<1>3. v \in Label
  <2>1. a[e] \in Arc
    BY <1>1
  <2> QED
    BY <2>1 DEF Arc
<1>4. ASSUME NEW m \in Node
      PROVE  /\ Pairs(a) = S \cup {<<v, end>>} /\ Pairs(RemoveAt(a, e)) = S
             /\ Pairs(LedTo(a, e, m)) = S \cup {<<v, m>>}
  <2>1. a \in Seq(Arc) /\ e \in 1..Len(a)
    BY <1>1
  <2> HIDE DEF a
  <2> QED
    BY <2>1, PairsOfOthers
<1>5. Pairs(a) = S \cup {<<v, end>>} /\ Pairs(RemoveAt(a, e)) = S
  BY <1>1, <1>4
<1>6. Out[n] = Pairs(a) /\ Out = [x \in Node |-> Pairs(arcs[x])]
  BY <1>2, OutIsPairs
<1>7. Out' = [x \in Node |-> Pairs(arcs'[x])]
  BY DEF Out, Pairs
<1>8. \A x \in Node \ {n} : arcs'[x] = arcs[x]
  BY <1>1, <1>2
<1> HIDE DEF S, a, n
<1>9. Out' = [Out EXCEPT ![n] = Pairs(arcs'[n])]
  BY <1>2, <1>6, <1>7, <1>8
<1>10. CASE r = Null
  <2>1. Pairs(arcs'[n]) = S
    BY <1>1, <1>2, <1>5, <1>10
  <2>2. CASE <<v, end>> \in S
    <3>1. Pairs(arcs'[n]) = Out[n]
      BY <1>5, <1>6, <2>1, <2>2
    <3>2. Out' = Out
      BY <1>6, <1>9, <3>1
    <3> QED
      BY <1>1, <3>2
  <2>3. CASE <<v, end>> \notin S
    <3>1. Out' = [Out EXCEPT ![n] = @ \ {<<v, end>>}]
      BY <1>5, <1>6, <1>9, <2>1, <2>3
    <3>2. <<v, end>> \in Out[n]
      BY <1>5, <1>6
    <3>3. Steps!Prune(n, v, end)
      BY <1>1, <1>10, <3>1, <3>2 DEF Steps!Prune
    <3> QED
      BY <1>1, <1>2, <1>3, <3>3 DEF Steps!Next
  <2> QED
    BY <2>2, <2>3
<1>11. CASE r # Null
  <2>1. r \in Node
    BY <1>1, <1>11
  <2>2. Pairs(arcs'[n]) = S \cup {<<v, r>>}
    BY <1>1, <1>2, <1>4, <1>11, <2>1
  <2>3. PICK keep \in SUBSET {<<v, end>>} : keep = S \cap {<<v, end>>}
    OBVIOUS
  <2>4. Pairs(arcs'[n]) = (Out[n] \ {<<v, end>>}) \cup {<<v, r>>} \cup keep
    BY <1>5, <1>6, <2>2, <2>3
  <2>5. Out' = [Out EXCEPT ![n] = (@ \ {<<v, end>>}) \cup {<<v, r>>} \cup keep]
    BY <1>9, <2>4
  <2>6. <<v, end>> \in Out[n]
    BY <1>5, <1>6
  <2>7. Steps!Redirect(n, v, end)
    BY <1>1, <2>1, <2>3, <2>5, <2>6 DEF Steps!Redirect
  <2> QED
    BY <1>1, <1>2, <1>3, <2>7 DEF Steps!Next
<1> QED
  BY <1>10, <1>11

LEMMA DropNodeReduces ==
  ASSUME IInv, DropNode
  PROVE  Steps!Next
<1> DEFINE n == Head(todo)
<1>1. /\ pc = "arc" /\ arcs[n] = <<>> /\ newV' = [newV EXCEPT ![n] = Null]
      /\ varIndex' = varIndex /\ arcs' = arcs
  BY DEF DropNode
<1>2. n \in Node /\ varIndex[n] = layer /\ layer \in 0..Size - 1
  BY <1>1, HeadFacts DEF IInv, AtArc
<1>3. varIndex[n] < Size
  BY <1>2, SizeIsPositive
<1>4. Out[n] = {} /\ Out' = Out
  BY <1>1, <1>2 DEF Out
<1>5. Steps!Drop(n)
  BY <1>1, <1>3, <1>4 DEF Steps!Drop
<1> QED
  BY <1>2, <1>5 DEF Steps!Next

LEMMA MergeReduces ==
  ASSUME IInv, Merge
  PROVE  Steps!Next
<1>1. PICK x : x = ids[This(swap)][k]
  OBVIOUS
<1>2. PICK l : l = Leader(lead[This(swap)], x)
  OBVIOUS
<1>3. /\ pc = "merge" /\ k < layerSize
      /\ newV' = [newV EXCEPT ![layerNodes[x]] = newV[layerNodes[l]]]
      /\ varIndex' = varIndex /\ arcs' = arcs
  BY <1>1, <1>2 DEF Merge
<1>4. Frame /\ Vectors /\ Around /\ Merging /\ layer >= 0
  BY <1>3 DEF IInv
<1>5. /\ x \in Places /\ l \in Places
      /\ \A i \in Places : layerNodes[i] \in Node
      /\ newV[layerNodes[l]] = layerNodes[l]
      /\ arcs[layerNodes[x]] = arcs[layerNodes[l]]
      /\ varIndex[layerNodes[x]] = layer /\ varIndex[layerNodes[l]] = layer
  BY <1>1, <1>2, <1>3, <1>4, TurnFacts
<1>6. Out[layerNodes[x]] = Out[layerNodes[l]] /\ Out' = Out
  BY <1>3, <1>5 DEF Out
<1>7. Steps!Merge(layerNodes[x], layerNodes[l])
  BY <1>3, <1>5, <1>6 DEF Steps!Merge
<1> QED
  BY <1>5, <1>7 DEF Steps!Next

LEMMA OpenNodeReduces ==
  ASSUME IInv, OpenNode
  PROVE  UNCHANGED <<varIndex, Out, newV>>
<1> DEFINE n == Head(todo)
<1>1. /\ pc = "node" /\ todo # <<>> /\ newV' = [newV EXCEPT ![n] = n]
      /\ varIndex' = varIndex /\ arcs' = arcs
  BY DEF OpenNode
<1>2. n \in Node /\ newV[n] = n /\ newV \in [Node -> Node \cup {Null}]
  BY <1>1, HeadFacts DEF IInv, Frame, Types
<1>3. newV' = newV
  BY <1>1, <1>2
<1>4. Out' = Out
  BY <1>1 DEF Out
<1> QED
  BY <1>1, <1>3, <1>4

LEMMA StepsReduce == IInv /\ [Next]_vars => [Steps!Next]_(Steps!vars)
<1> SUFFICES ASSUME IInv, [Next]_vars
             PROVE  Steps!Next \/ UNCHANGED <<varIndex, Out, newV>>
  BY DEF Steps!vars
<1>1. CASE UNCHANGED mddVars
  BY <1>1 DEF mddVars, Out
<1>2. UNCHANGED vars => UNCHANGED mddVars
  BY DEF vars
<1>3. \/ UNCHANGED mddVars \/ NextArc \/ DropNode \/ Merge \/ OpenNode
  BY <1>2 DEF Next, Construct, OpenLayer, EnlistNode, BeginSort, RadixCount,
       RadixCumulative, Permutation, LeadManagement, PrepareNextRadixLabel,
       PrepareNextRadixNode, EndSort, CloseLayer, Finish
<1> QED
  BY <1>1, <1>3, NextArcReduces, DropNodeReduces, MergeReduces, OpenNodeReduces

\* The whole constructor, the radix sort included, only redirects and prunes arcs,
\* drops nodes without arcs and merges nodes with the same arcs.
THEOREM RefinesReduction == Spec => ImplementsReduction
<1>0. Init => Steps!Init
  BY InitIInv, RestIsInit DEF Init, Unallocated
<1>1. Spec => Steps!Init /\ [][Steps!Next]_(Steps!vars)
  BY <1>0, StepsReduce, Invariant, PTL DEF Spec
<1> QED
  BY <1>1 DEF ImplementsReduction, Steps!Spec

-----------------------------------------------------------------------------
(***************************************************************************)
(* The tuples of the diagram.                                              *)
(***************************************************************************)

\* The arcs a as pairs, and ReadFrom along them.
OutOf(a) == [n \in Node |-> Pairs(a[n])]

Following(a, M, v) == UNION {{a[n][j].end : j \in {i \in DOMAIN a[n] : a[n][i].value = v}} : n \in M}

ReachedBy(a, N, l, t) ==
  CHOOSE f : f = [i \in l..Size |-> IF i = l THEN N ELSE Following(a, f[i - 1], t[i])]

LEMMA FollowingIs ==
  ASSUME NEW a \in [Node -> Seq(Arc)], NEW M \in SUBSET Node, NEW v
  PROVE  /\ Following(a, M, v) \in SUBSET Node
         /\ Following(a, M, v) = {m \in Node : \E x \in M : <<v, m>> \in OutOf(a)[x]}
<1>1. \A x \in M : \A i \in DOMAIN a[x] : a[x][i] \in Arc
  OBVIOUS
<1>2. \A x \in M : \A i \in DOMAIN a[x] : a[x][i].end \in Node
  BY <1>1 DEF Arc
<1>3. \A x \in M : OutOf(a)[x] = {<<a[x][i].value, a[x][i].end>> : i \in DOMAIN a[x]}
  BY DEF OutOf, Pairs
<1>4. ASSUME NEW m \in Following(a, M, v)
      PROVE  m \in Node /\ \E x \in M : <<v, m>> \in OutOf(a)[x]
  <2>1. PICK x \in M : \E i \in DOMAIN a[x] : a[x][i].value = v /\ m = a[x][i].end
    BY <1>4 DEF Following
  <2> QED
    BY <1>2, <1>3, <2>1
<1>5. ASSUME NEW m \in Node, NEW x \in M, <<v, m>> \in OutOf(a)[x]
      PROVE  m \in Following(a, M, v)
  <2>1. PICK i \in DOMAIN a[x] : <<v, m>> = <<a[x][i].value, a[x][i].end>>
    BY <1>3, <1>5
  <2>2. v = a[x][i].value /\ m = a[x][i].end
    BY <2>1
  <2> QED
    BY <2>2 DEF Following
<1> QED
  BY <1>4, <1>5

\* Following the arcs that carry the labels of t leads to the last layer if t can be
\* read.
LEMMA ReachedReads ==
  ASSUME NEW vi, NEW a \in [Node -> Seq(Arc)], Typed(vi, OutOf(a)), NEW n \in Node, NEW t
  PROVE  ReachedBy(a, {n}, vi[n], t)[Size] # {} <=> ReadsIn(vi, OutOf(a), n, t)
<1> DEFINE l == vi[n]
           step == [i \in l + 1..Size |-> [M \in SUBSET Node |-> Following(a, M, t[i])]]
           reach == ReachedBy(a, {n}, l, t)
<1>1. l \in Nat /\ Size \in Nat /\ l <= Size
  BY SizeIsNat DEF Typed, LayersType
<1>2. step \in [l + 1..Size -> [SUBSET Node -> SUBSET Node]]
  BY FollowingIs
<1>3. \A i \in l + 1..Size : \A M \in SUBSET Node : step[i][M] = Following(a, M, t[i])
  OBVIOUS
<1>4. \A i \in l..Size : i # l => i \in l + 1..Size /\ i - 1 \in l..Size
  BY <1>1
<1> HIDE DEF step
<1>5. PICK g \in [l..Size -> SUBSET Node] : IteratesFrom(g, {n}, step, l, Size)
  BY <1>1, <1>2, RecursionExistsFrom
<1>6. \A i \in l..Size : g[i] = IF i = l THEN {n} ELSE Following(a, g[i - 1], t[i])
  BY <1>3, <1>4, <1>5 DEF IteratesFrom
<1>7. g = [i \in l..Size |-> IF i = l THEN {n} ELSE Following(a, g[i - 1], t[i])]
  BY <1>5, <1>6
<1>8. reach = [i \in l..Size |-> IF i = l THEN {n} ELSE Following(a, reach[i - 1], t[i])]
  BY <1>7 DEF ReachedBy
<1> HIDE DEF reach
<1>9. \A i \in l..Size : reach[i] = IF i = l THEN {n} ELSE Following(a, reach[i - 1], t[i])
  BY <1>8
<1>10. l \in l..Size /\ \A i \in l + 1..Size : i \in l..Size /\ i # l
  BY <1>1
<1>11. ASSUME NEW i \in l + 1..Size, reach[i - 1] \subseteq Node
       PROVE  reach[i] = {m \in Node : \E x \in reach[i - 1] : <<t[i], m>> \in OutOf(a)[x]}
  <2>1. reach[i] = Following(a, reach[i - 1], t[i])
    BY <1>9, <1>10
  <2> QED
    BY <1>11, <2>1, FollowingIs
<1>12. Reaches(OutOf(a), reach, n, l, t)
  BY <1>9, <1>10, <1>11 DEF Reaches
<1> HIDE DEF l
<1>13. reach[Size] # {} <=> ReadsIn(vi, OutOf(a), n, t)
  BY <1>12, ReachReads DEF l
<1> QED
  BY <1>13 DEF reach, l

TailsIn(vi, a, n) ==
  {t \in [vi[n] + 1..Size -> Label] : ReadsIn(vi, OutOf(a), n, t)}

LEMMA TailsAre ==
  ASSUME NEW n \in Node
  PROVE  /\ arcs \in [Node -> Seq(Arc)] /\ Typed(varIndex, OutOf(arcs)) =>
              Tails(n) = TailsIn(varIndex, arcs, n)
         /\ input.arcs \in [Node -> Seq(Arc)] /\ Typed(varIndex, OutOf(input.arcs)) =>
              Before!Tails(n) = TailsIn(varIndex, input.arcs, n)
<1>1. \A t : ReadFrom({n}, varIndex[n], t) = ReachedBy(arcs, {n}, varIndex[n], t)[Size]
  BY DEF ReadFrom, ReachedBy, Following
<1>2. \A t : Before!ReadFrom({n}, varIndex[n], t) = ReachedBy(input.arcs, {n}, varIndex[n], t)[Size]
  BY DEF Before!ReadFrom, ReachedBy, Following
<1>3. ASSUME arcs \in [Node -> Seq(Arc)], Typed(varIndex, OutOf(arcs))
      PROVE  Tails(n) = TailsIn(varIndex, arcs, n)
  <2>1. \A t : ReadFrom({n}, varIndex[n], t) # {} <=> ReadsIn(varIndex, OutOf(arcs), n, t)
    BY <1>1, <1>3, ReachedReads
  <2> QED
    BY <2>1 DEF Tails, TailsIn
<1>4. ASSUME input.arcs \in [Node -> Seq(Arc)], Typed(varIndex, OutOf(input.arcs))
      PROVE  Before!Tails(n) = TailsIn(varIndex, input.arcs, n)
  <2>1. \A t : Before!ReadFrom({n}, varIndex[n], t) # {} <=> ReadsIn(varIndex, OutOf(input.arcs), n, t)
    BY <1>2, <1>4, ReachedReads
  <2> QED
    BY <2>1 DEF Before!Tails, TailsIn
<1> QED
  BY <1>3, <1>4

\* The diagram that was given.
Source ==
  /\ GivenNodes \in [Layer -> Seq(Node)] /\ GivenArcs \in [Node -> Seq(Arc)]
  /\ \A l \in Layer : ToSet(GivenNodes[l]) = Was(l)
  /\ Typed(varIndex, OutOf(GivenArcs))
  /\ \/ Len(GivenNodes[0]) <= 1 /\ Len(GivenNodes[Size]) = 1
     \/ \A l \in Layer : GivenNodes[l] = <<>>

\* From each node the same can be read as at first.
ReadsAsBefore ==
  \A n \in Node : \A t \in Words :
    ReadsIn(varIndex, OutOf(arcs), n, t) <=> ReadsIn(varIndex, OutOf(GivenArcs), n, t)

KeptInv ==
  /\ Source
  /\ Typed(varIndex, OutOf(arcs)) /\ Represents(varIndex, OutOf(arcs), newV)
  /\ ReadsAsBefore

LEMMA OutIsOutOf == Out = OutOf(arcs) /\ Out' = OutOf(arcs')
BY DEF Out, OutOf, Pairs

LEMMA RestIsKept == IInv /\ pc = "idle" => KeptInv
<1> SUFFICES ASSUME IInv, pc = "idle"
             PROVE  KeptInv
  OBVIOUS
<1>1. /\ Frame /\ AtRest /\ GivenNodes = nodes /\ GivenArcs = arcs
      /\ newV = [n \in Node |-> n]
  BY DEF IInv, AtRest, GivenNodes, GivenArcs
<1>3. \A l \in Layer : ToSet(GivenNodes[l]) = Was(l)
  BY <1>1 DEF AtRest, Untouched
<1>4. Steps!Init
  BY RestIsInit
<1>5. Typed(varIndex, OutOf(arcs))
  BY <1>4, OutIsOutOf DEF Steps!Init, Steps!Layered, Typed, LayersType
<1>6. Represents(varIndex, OutOf(arcs), newV)
  <2>1. \A n \in Node : newV[n] = n /\ n # Null
    BY <1>1, NullIsNoNode
  <2>2. newV \in [Node -> Node \cup {Null}]
    BY <1>1
  <2> QED
    BY <2>1, <2>2 DEF Represents
<1>7. ReadsAsBefore
  BY <1>1 DEF ReadsAsBefore
<1>8. /\ GivenNodes \in [Layer -> Seq(Node)] /\ GivenArcs \in [Node -> Seq(Arc)]
      /\ \/ Len(GivenNodes[0]) <= 1 /\ Len(GivenNodes[Size]) = 1
         \/ \A l \in Layer : GivenNodes[l] = <<>>
  BY <1>1 DEF AtRest, Rooted, Frame, Types
<1> QED
  BY <1>1, <1>3, <1>5, <1>6, <1>7, <1>8 DEF KeptInv, Source

\* The steps of Reduction are those of ReadingLemmas.
LEMMA StepsAre ==
  ASSUME [Steps!Next]_(Steps!vars)
  PROVE  Shrinks(varIndex, Out, newV, Out', newV') /\ varIndex' = varIndex
<1>1. CASE UNCHANGED Steps!vars
  BY <1>1 DEF Steps!vars, Shrinks
<1>2. ASSUME NEW n \in Node, NEW v \in Label, NEW m \in Node, Steps!Redirect(n, v, m)
      PROVE  Redirects(Out, newV, Out', n, v, m) /\ UNCHANGED <<varIndex, newV>>
  BY <1>2 DEF Steps!Redirect, Redirects
<1>3. ASSUME NEW n \in Node, NEW v \in Label, NEW m \in Node, Steps!Prune(n, v, m)
      PROVE  Prunes(Out, newV, Out', n, v, m) /\ UNCHANGED <<varIndex, newV>>
  BY <1>3 DEF Steps!Prune, Prunes
<1>4. ASSUME NEW n \in Node, Steps!Drop(n)
      PROVE  Drops(varIndex, Out, newV, newV', n) /\ UNCHANGED <<varIndex, Out>>
  BY <1>4 DEF Steps!Drop, Drops
<1>5. ASSUME NEW n \in Node, NEW m \in Node, Steps!Merge(n, m)
      PROVE  Merges(varIndex, Out, newV, newV', n, m) /\ UNCHANGED <<varIndex, Out>>
  BY <1>5 DEF Steps!Merge, Merges
<1> QED
  BY <1>1, <1>2, <1>3, <1>4, <1>5 DEF Steps!Next, Shrinks

LEMMA KeptStep == IInv /\ KeptInv /\ [Next]_vars => KeptInv'
<1> SUFFICES ASSUME IInv, KeptInv, [Next]_vars
             PROVE  KeptInv'
  OBVIOUS
<1>1. Shrinks(varIndex, OutOf(arcs), newV, OutOf(arcs'), newV') /\ varIndex' = varIndex
  BY StepsReduce, StepsAre, OutIsOutOf
<1>2. Typed(varIndex, OutOf(arcs)) /\ Represents(varIndex, OutOf(arcs), newV) /\ Source
  BY DEF KeptInv
<1>3. Typed(varIndex, OutOf(arcs')) /\ Represents(varIndex, OutOf(arcs'), newV')
  BY <1>1, <1>2, StepKeepsTypes, StepKeepsRepresents
<1>4. GivenNodes' = GivenNodes /\ GivenArcs' = GivenArcs /\ Part' = Part
  BY GivenKept, SamePart DEF SameGiven
<1>5. \A l : Was(l)' = Was(l)
  BY <1>1, <1>4 DEF Was
<1>6. Source'
  BY <1>1, <1>2, <1>4, <1>5 DEF Source
<1>7. ASSUME NEW n \in Node, NEW t \in Words
      PROVE  ReadsIn(varIndex, OutOf(arcs'), n, t) <=> ReadsIn(varIndex, OutOf(GivenArcs), n, t)
  <2>1. ReadsIn(varIndex, OutOf(arcs), n, t) <=> ReadsIn(varIndex, OutOf(arcs'), n, t)
    BY <1>1, <1>2, StepKeepsReads
  <2>2. ReadsIn(varIndex, OutOf(arcs), n, t) <=> ReadsIn(varIndex, OutOf(GivenArcs), n, t)
    BY DEF KeptInv, ReadsAsBefore
  <2> QED
    BY <2>1, <2>2
<1>8. ReadsAsBefore'
  BY <1>1, <1>4, <1>7 DEF ReadsAsBefore, Words
<1> QED
  BY <1>1, <1>3, <1>6, <1>8 DEF KeptInv

LEMMA KeptInvariant == Spec => [](IInv /\ KeptInv)
<1>1. Init => KeptInv
  BY InitIInv, RestIsKept DEF Init, Unallocated
<1> QED
  BY <1>1, InitIInv, Inductive, KeptStep, PTL DEF Spec

\* The tuples of a diagram with the root r.
LEMMA LanguageOfRoot ==
  ASSUME NEW vi, NEW a, NEW r, vi[r] = 0
  PROVE  TailsIn(vi, a, r) = {t \in Words : ReadsIn(vi, OutOf(a), r, t)}
<1>1. vi[r] + 1 = 1
  OBVIOUS
<1> QED
  BY <1>1 DEF TailsIn, Words

\* The diagram that was given has the tuples that can be read from its root.
LEMMA GivenLanguage ==
  ASSUME IInv, KeptInv, pc # "idle", GivenNodes[0] # <<>>
  PROVE  LET r == GivenNodes[0][1] IN
         /\ r \in Node /\ r # Null /\ varIndex[r] = 0 /\ Was(0) = {r}
         /\ Before!Language = {t \in Words : ReadsIn(varIndex, OutOf(GivenArcs), r, t)}
<1> DEFINE r == GivenNodes[0][1]
<1>1. Source /\ Frame
  BY DEF IInv, KeptInv
<1>2. GivenNodes = input.nodes /\ GivenArcs = input.arcs
  BY DEF GivenNodes, GivenArcs
<1>3. 0 \in Layer
  BY SizeIsPositive DEF Layer
<1>4. /\ GivenNodes[0] \in Seq(Node) /\ ToSet(GivenNodes[0]) = Was(0)
      /\ GivenArcs \in [Node -> Seq(Arc)] /\ Len(GivenNodes[0]) <= 1
  BY <1>1, <1>3 DEF Source
<1>5. DOMAIN GivenNodes[0] = {1}
  <2>1. ASSUME NEW s \in Seq(Node), s # <<>>, Len(s) <= 1
        PROVE  DOMAIN s = 1..1
    <3>1. Len(s) \in Nat /\ DOMAIN s = 1..Len(s)
      OBVIOUS
    <3>2. Len(s) # 0
      BY <2>1, EmptySeq
    <3>3. Len(s) = 1
      BY <2>1, <3>1, <3>2
    <3> QED
      BY <3>1, <3>3
  <2>2. 1..1 = {1}
    OBVIOUS
  <2> QED
    BY <1>4, <2>1, <2>2
<1>6. Was(0) = {r}
  BY <1>4, <1>5 DEF ToSet
<1>7. r \in Node /\ varIndex[r] = 0 /\ r # Null
  BY <1>1, <1>6, NullIsNoNode DEF Was, Frame, Types
<1>8. Before!Root = r
  BY <1>2 DEF Before!Root
<1> HIDE DEF r
<1>9. Before!Language = Before!Tails(r)
  BY <1>7, <1>8 DEF Before!Language
<1>10. Before!Tails(r) = TailsIn(varIndex, GivenArcs, r)
  BY <1>1, <1>2, <1>4, <1>7, TailsAre DEF Source
<1>11. Before!Language = {t \in Words : ReadsIn(varIndex, OutOf(GivenArcs), r, t)}
  BY <1>7, <1>9, <1>10, LanguageOfRoot
<1> QED
  BY <1>6, <1>7, <1>11 DEF r

LEMMA KeptTuples == IInv /\ KeptInv => TuplesKept
<1> SUFFICES ASSUME IInv, KeptInv, pc = "done"
             PROVE  Language = Before!Language
  BY DEF TuplesKept
<1>1. /\ Source /\ ReadsAsBefore /\ Frame
      /\ Typed(varIndex, OutOf(arcs)) /\ Represents(varIndex, OutOf(arcs), newV)
  BY DEF IInv, KeptInv
<1>2. GivenNodes = input.nodes
  BY DEF GivenNodes
<1>3. 0 \in Layer
  BY SizeIsPositive DEF Layer
<1>4. /\ nodes[0] \in Seq(Node) /\ ToSet(nodes[0]) \subseteq Was(0)
      /\ ToSet(GivenNodes[0]) = Was(0) /\ arcs \in [Node -> Seq(Arc)]
  BY <1>1, <1>3 DEF Frame, Types, Lists, Source
<1>5. CASE GivenNodes[0] = <<>>
  <2>1. Was(0) = {}
    BY <1>4, <1>5 DEF ToSet
  <2>2. nodes[0] = <<>>
    <3>1. ASSUME nodes[0] # <<>> PROVE FALSE
      <4>1. nodes[0][1] \in ToSet(nodes[0])
        BY <1>4, <3>1 DEF ToSet
      <4> QED
        BY <1>4, <2>1, <4>1
    <3> QED
      BY <3>1
  <2>3. Root = Null /\ Before!Root = Null
    BY <1>5, <1>2, <2>2 DEF Root, Before!Root
  <2> QED
    BY <2>3 DEF Language, Before!Language
<1>6. CASE GivenNodes[0] # <<>>
  <2> DEFINE r == GivenNodes[0][1]
  <2>1. /\ r \in Node /\ r # Null /\ varIndex[r] = 0 /\ Was(0) = {r}
        /\ Before!Language = {t \in Words : ReadsIn(varIndex, OutOf(GivenArcs), r, t)}
    BY <1>6, GivenLanguage
  <2> HIDE DEF r
  <2>2. {t \in Words : ReadsIn(varIndex, OutOf(GivenArcs), r, t)}
          = {t \in Words : ReadsIn(varIndex, OutOf(arcs), r, t)}
    BY <1>1, <2>1 DEF ReadsAsBefore
  <2>3. CASE nodes[0] = <<>>
    <3>1. newV[r] = Null
      <4>1. Reduced(0)
        BY <1>3 DEF IInv
      <4>2. ToSet(nodes[0]) = {}
        BY <2>3 DEF ToSet
      <4> QED
        BY <2>1, <4>1, <4>2 DEF Reduced
    <3>2. \A t \in Words : ~ReadsIn(varIndex, OutOf(arcs), r, t)
      BY <1>1, <2>1, <3>1 DEF Represents
    <3>3. Language = {}
      BY <2>3 DEF Language, Root
    <3> QED
      BY <2>1, <2>2, <3>2, <3>3
  <2>4. CASE nodes[0] # <<>>
    <3>1. nodes[0][1] \in ToSet(nodes[0])
      BY <1>4, <2>4 DEF ToSet
    <3>2. Root = r
      BY <1>4, <2>1, <2>4, <3>1 DEF Root
    <3>3. Language = Tails(r)
      BY <2>1, <3>2 DEF Language
    <3>4. Tails(r) = TailsIn(varIndex, arcs, r)
      BY <1>1, <1>4, <2>1, TailsAre
    <3> QED
      BY <2>1, <2>2, <3>3, <3>4, LanguageOfRoot
  <2> QED
    BY <2>3, <2>4
<1> QED
  BY <1>5, <1>6

\* When the constructor returns the diagram has the tuples that it had when it was
\* called, whatever diagram it was: the sort has merged no two nodes from which
\* different tuples can be read, and no node that leads to the last layer is gone.
THEOREM TuplesAreKept == Spec => []TuplesKept
BY KeptTuples, KeptInvariant, PTL

-----------------------------------------------------------------------------
(***************************************************************************)
(* The reduced diagram is canonical.                                       *)
(***************************************************************************)

\* Each arc has a larger label than the one before.
Rises(a) == \A i, j \in DOMAIN a : i < j => a[i].value < a[j].value

LEMMA RisesThroughout ==
  ASSUME NEW a \in Seq(Arc),
         \A i \in DOMAIN a : i > 1 => a[i - 1].value <= a[i].value,
         \A i, j \in DOMAIN a : a[i].value = a[j].value => i = j
  PROVE  Rises(a)
<1> DEFINE n == Len(a)
           T == {i \in 0..n : \A p, q \in 1..i : p <= q => a[p].value <= a[q].value}
<1>1. n \in Nat /\ DOMAIN a = 1..n
  OBVIOUS
<1>2. \A i \in 1..n : a[i].value \in Nat
  <2>1. \A i \in 1..n : a[i] \in Arc
    OBVIOUS
  <2> QED
    BY <2>1, LabelsAreNats DEF Arc
<1> HIDE DEF n
<1>3. 0 \in T
  BY <1>1
<1>4. ASSUME NEW i \in 0..n - 1, i \in T
      PROVE  i + 1 \in T
  <2>1. /\ i + 1 \in 0..n /\ i + 1 \in 1..n /\ (i + 1) - 1 = i /\ (i + 1 > 1 <=> i \in 1..i)
        /\ \A q \in 1..i + 1 : q \in 1..n /\ (q \in 1..i \/ q = i + 1)
    BY <1>1
  <2>2. ASSUME NEW p \in 1..i + 1, NEW q \in 1..i + 1, p <= q
        PROVE  a[p].value <= a[q].value
    <3>1. CASE q \in 1..i
      <4>1. p \in 1..i
        BY <2>2, <3>1
      <4> QED
        BY <1>4, <2>2, <3>1, <4>1
    <3>2. CASE q = i + 1 /\ p = i + 1
      BY <1>2, <2>1, <3>2
    <3>3. CASE q = i + 1 /\ p \in 1..i
      <4>1. i \in 1..i /\ i \in 1..n /\ p <= i /\ i + 1 > 1
        BY <1>1, <3>3
      <4>2. a[p].value <= a[i].value /\ a[i].value <= a[i + 1].value
        BY <1>1, <1>4, <2>1, <3>3, <4>1
      <4>3. a[p].value \in Nat /\ a[i].value \in Nat /\ a[i + 1].value \in Nat
        BY <1>2, <2>1, <3>3, <4>1
      <4> QED
        BY <3>3, <4>2, <4>3
    <3> QED
      BY <2>1, <3>1, <3>2, <3>3
  <2> QED
    BY <2>1, <2>2
<1> HIDE DEF T
<1>5. \A i \in 0..n : i \in T
  BY <1>1, <1>3, <1>4, UpTo
<1>6. n \in T
  BY <1>1, <1>5
<1>7. ASSUME NEW i \in 1..n, NEW j \in 1..n, i < j
      PROVE  a[i].value < a[j].value
  <2>1. a[i].value <= a[j].value
    BY <1>6, <1>7 DEF T
  <2>2. a[i].value # a[j].value
    BY <1>1, <1>7
  <2> QED
    BY <1>2, <2>1, <2>2
<1> QED
  BY <1>1, <1>7 DEF Rises

\* Two such lists with the same arcs are the same: each arc of one has its place in
\* the other.
LEMMA SamePlaces ==
  ASSUME NEW a \in Seq(Arc), NEW b \in Seq(Arc), Rises(a), Rises(b), Pairs(a) = Pairs(b)
  PROVE  Len(a) <= Len(b) /\ \A i \in 1..Len(a) : a[i] = b[i]
<1> DEFINE T == {i \in 0..Len(a) : i <= Len(b) /\ \A p \in 1..i : a[p] = b[p]}
<1>1. /\ Len(a) \in Nat /\ Len(b) \in Nat /\ DOMAIN a = 1..Len(a) /\ DOMAIN b = 1..Len(b)
  OBVIOUS
<1>2. ASSUME NEW s \in Seq(Arc)
      PROVE  \A i \in 1..Len(s) : s[i].value \in Nat /\ s[i] = [value |-> s[i].value, end |-> s[i].end]
  <2>1. \A i \in 1..Len(s) : s[i] \in Arc
    OBVIOUS
  <2> QED
    BY <2>1, LabelsAreNats DEF Arc
<1>9. \A i \in 1..Len(a) : a[i].value \in Nat
  BY <1>2
<1>10. \A i \in 1..Len(b) : b[i].value \in Nat
  BY <1>2
<1>3. ASSUME NEW i \in 1..Len(a)
      PROVE  \E h \in 1..Len(b) : b[h] = a[i]
  <2>1. <<a[i].value, a[i].end>> \in Pairs(b)
    BY <1>1 DEF Pairs
  <2>2. PICK h \in 1..Len(b) : <<a[i].value, a[i].end>> = <<b[h].value, b[h].end>>
    BY <1>1, <2>1 DEF Pairs
  <2>3. a[i].value = b[h].value /\ a[i].end = b[h].end
    BY <2>2
  <2> QED
    BY <1>2, <2>3
<1>4. ASSUME NEW i \in 1..Len(b)
      PROVE  \E h \in 1..Len(a) : a[h] = b[i]
  <2>1. <<b[i].value, b[i].end>> \in Pairs(a)
    BY <1>1 DEF Pairs
  <2>2. PICK h \in 1..Len(a) : <<b[i].value, b[i].end>> = <<a[h].value, a[h].end>>
    BY <1>1, <2>1 DEF Pairs
  <2>3. b[i].value = a[h].value /\ b[i].end = a[h].end
    BY <2>2
  <2> QED
    BY <1>2, <2>3
<1>5. 0 \in T
  BY <1>1
<1>6. ASSUME NEW i \in 0..Len(a) - 1, i \in T
      PROVE  i + 1 \in T
  <2>1. i + 1 \in 1..Len(a) /\ i \in Nat /\ \A p \in 1..i : p \in 1..Len(a) /\ p \in 1..Len(b)
    BY <1>1, <1>6
  <2>2. PICK h \in 1..Len(b) : b[h] = a[i + 1]
    BY <1>3, <2>1
  <2>3. h \notin 1..i
    <3>1. ASSUME h \in 1..i PROVE FALSE
      <4>1. a[h] = a[i + 1] /\ h < i + 1
        BY <1>6, <2>1, <2>2, <3>1
      <4>2. a[h].value < a[i + 1].value
        BY <1>1, <2>1, <3>1, <4>1 DEF Rises
      <4>3. a[i + 1].value \in Nat /\ a[h].value = a[i + 1].value
        BY <1>9, <2>1, <4>1
      <4>4. a[i + 1].value < a[i + 1].value
        BY <4>2, <4>3
      <4> QED
        BY <4>3, <4>4
    <3> QED
      BY <3>1
  <2>4. i + 1 <= h /\ i + 1 \in 1..Len(b)
    BY <1>1, <2>1, <2>3
  <2>5. PICK g \in 1..Len(a) : a[g] = b[i + 1]
    BY <1>4, <2>4
  <2>6. g \notin 1..i
    <3>1. ASSUME g \in 1..i PROVE FALSE
      <4>1. b[g] = b[i + 1] /\ g < i + 1
        BY <1>6, <2>1, <2>5, <3>1
      <4>2. b[g].value < b[i + 1].value
        BY <1>1, <2>1, <2>4, <3>1, <4>1 DEF Rises
      <4>3. b[i + 1].value \in Nat /\ b[g].value = b[i + 1].value
        BY <1>10, <2>4, <4>1
      <4>4. b[i + 1].value < b[i + 1].value
        BY <4>2, <4>3
      <4> QED
        BY <4>3, <4>4
    <3> QED
      BY <3>1
  <2>7. i + 1 <= g
    BY <1>1, <2>1, <2>6
  <2>8. h = i + 1
    <3>1. ASSUME i + 1 < h PROVE FALSE
      <4>1. b[i + 1].value < b[h].value
        BY <1>1, <2>4, <3>1 DEF Rises
      <4>2. a[i + 1].value \in Nat /\ a[g].value \in Nat
        BY <1>9, <2>1
      <4>3. a[i + 1].value <= a[g].value
        <5>1. CASE i + 1 = g
          <6>1. a[i + 1].value = a[g].value
            BY <5>1
          <6> QED
            BY <4>2, <6>1
        <5>2. CASE i + 1 < g
          <6>1. a[i + 1].value < a[g].value
            BY <1>1, <2>1, <5>2 DEF Rises
          <6> QED
            BY <4>2, <6>1
        <5> QED
          BY <2>1, <2>7, <5>1, <5>2
      <4>4. a[g].value < a[i + 1].value
        BY <2>2, <2>5, <4>1
      <4> QED
        BY <4>2, <4>3, <4>4
    <3> QED
      BY <2>1, <2>4, <3>1
  <2>9. \A p \in 1..i + 1 : p \in 1..i \/ p = i + 1
    BY <2>1
  <2> QED
    BY <1>1, <1>6, <2>1, <2>2, <2>4, <2>8, <2>9
<1> HIDE DEF T
<1>7. \A i \in 0..Len(a) : i \in T
  BY <1>1, <1>5, <1>6, UpTo
<1>8. Len(a) \in T
  BY <1>1, <1>7
<1> QED
  BY <1>8 DEF T

LEMMA SameList ==
  ASSUME NEW a \in Seq(Arc), NEW b \in Seq(Arc), Rises(a), Rises(b), Pairs(a) = Pairs(b)
  PROVE  a = b
<1>1. /\ Len(a) <= Len(b) /\ \A i \in 1..Len(a) : a[i] = b[i]
  BY SamePlaces
<1>2. Len(b) <= Len(a)
  BY SamePlaces
<1>3. Len(a) = Len(b)
  BY <1>1, <1>2
<1> QED
  BY <1>1, <1>3

\* Removing an arc, or leading it elsewhere, keeps the order.
LEMMA RisesRemoved ==
  ASSUME NEW a \in Seq(Arc), Rises(a), NEW k0 \in 1..Len(a), NEW m \in Node
  PROVE  Rises(RemoveAt(a, k0)) /\ Rises(LedTo(a, k0, m))
<1> DEFINE r == RemoveAt(a, k0)
           b == LedTo(a, k0, m)
<1>1. Len(a) \in Nat /\ DOMAIN a = 1..Len(a)
  OBVIOUS
<1>2. /\ r \in Seq(Arc) /\ Len(r) = Len(a) - 1
      /\ \A i \in 1..Len(a) - 1 : r[i] = IF i < k0 THEN a[i] ELSE a[i + 1]
  BY RemoveAtFacts
<1>3. /\ b \in Seq(Arc) /\ Len(b) = Len(a)
      /\ \A i \in 1..Len(a) : b[i].value = a[i].value
  <2>1. /\ b \in Seq(Arc) /\ Len(b) = Len(a) /\ b[k0].value = a[k0].value
        /\ \A i \in 1..Len(a) : i # k0 => b[i] = a[i]
    BY ArcLed
  <2>2. ASSUME NEW i \in 1..Len(a), i = k0
        PROVE  b[i].value = a[i].value
    BY <2>1, <2>2
  <2>3. ASSUME NEW i \in 1..Len(a), i # k0
        PROVE  b[i].value = a[i].value
    BY <2>1, <2>3
  <2> QED
    BY <2>1, <2>2, <2>3
<1> HIDE DEF r, b
<1>4. DOMAIN r = 1..Len(a) - 1 /\ DOMAIN b = 1..Len(a)
  BY <1>2, <1>3
<1>5. Rises(b)
  BY <1>1, <1>3, <1>4 DEF Rises
<1>6. ASSUME NEW i \in 1..Len(a) - 1, NEW j \in 1..Len(a) - 1, i < j
      PROVE  r[i].value < r[j].value
  <2> DEFINE from(p) == IF p < k0 THEN p ELSE p + 1
  <2>1. /\ from(i) \in 1..Len(a) /\ from(j) \in 1..Len(a) /\ from(i) < from(j)
    BY <1>1, <1>6
  <2>2. r[i] = a[from(i)] /\ r[j] = a[from(j)]
    BY <1>2
  <2> HIDE DEF from
  <2> QED
    BY <1>1, <2>1, <2>2 DEF Rises
<1>7. Rises(r)
  BY <1>4, <1>6 DEF Rises
<1> QED
  BY <1>5, <1>7 DEF r, b

\* Deterministic diagrams have one arc for each label, in order.
GivenIsDeterministic ==
  \A n \in Node : \A i, j \in DOMAIN GivenArcs[n] :
    GivenArcs[n][i].value = GivenArcs[n][j].value => i = j

Ordered == GivenIsDeterministic => \A n \in Node : Rises(arcs[n])

LEMMA RestIsOrdered == IInv /\ pc = "idle" => Ordered
<1> SUFFICES ASSUME IInv, pc = "idle", GivenIsDeterministic, NEW n \in Node
             PROVE  Rises(arcs[n])
  BY DEF Ordered
<1>1. Frame /\ Sorted(arcs[n]) /\ GivenArcs = arcs
  BY DEF IInv, AtRest, GivenArcs
<1>2. arcs[n] \in Seq(Arc) /\ \A i \in DOMAIN arcs[n] : i > 1 => arcs[n][i - 1].value <= arcs[n][i].value
  BY <1>1 DEF Sorted, Frame, Types
<1>3. \A i, j \in DOMAIN arcs[n] : arcs[n][i].value = arcs[n][j].value => i = j
  BY <1>1 DEF GivenIsDeterministic
<1> QED
  BY <1>2, <1>3, RisesThroughout

LEMMA OrderedStep == IInv /\ Ordered /\ [Next]_vars => Ordered'
<1> SUFFICES ASSUME IInv, Ordered, [Next]_vars, GivenIsDeterministic', NEW n \in Node
             PROVE  Rises(arcs'[n])
  BY DEF Ordered, Rises
<1>1. GivenIsDeterministic
  BY GivenKept DEF SameGiven, GivenIsDeterministic
<1>2. Rises(arcs[n])
  BY <1>1 DEF Ordered
<1>3. CASE NextArc
  <2> DEFINE h == Head(todo)
             a == arcs[h]
             r == newV[a[e].end]
  <2>1. /\ a \in Seq(Arc) /\ e \in 1..Len(a) /\ a[e].end \in Node
        /\ r = Null \/ r \in Node
        /\ arcs' = [arcs EXCEPT ![h] = IF r = Null THEN RemoveAt(a, e) ELSE LedTo(a, e, r)]
    BY <1>3, NextArcFacts
  <2>2. arcs \in [Node -> Seq(Arc)]
    BY DEF IInv, Frame, Types
  <2>3. CASE n # h
    BY <1>2, <2>1, <2>2, <2>3
  <2>4. CASE n = h
    <3>1. Rises(RemoveAt(a, e))
      BY <1>2, <2>1, <2>4, RisesRemoved
    <3>2. r \in Node => Rises(LedTo(a, e, r))
      BY <1>2, <2>1, <2>4, RisesRemoved
    <3>3. arcs'[n] = IF r = Null THEN RemoveAt(a, e) ELSE LedTo(a, e, r)
      BY <2>1, <2>2, <2>4
    <3> QED
      BY <2>1, <3>1, <3>2, <3>3
  <2> QED
    BY <2>3, <2>4
<1>4. arcs' = arcs \/ NextArc
  BY DEF Next, vars, mddVars, OpenLayer, OpenNode, EnlistNode, DropNode, Construct,
     BeginSort, RadixCount, RadixCumulative, Permutation, LeadManagement,
     PrepareNextRadixLabel, PrepareNextRadixNode, EndSort, Merge, CloseLayer, Finish
<1> QED
  BY <1>2, <1>3, <1>4

LEMMA OrderedInvariant == Spec => [](IInv /\ KeptInv /\ Ordered)
<1>1. Init => Ordered
  BY InitIInv, RestIsOrdered DEF Init, Unallocated
<1> QED
  BY <1>1, OrderedStep, KeptInvariant, PTL DEF Spec

LEMMA PairsOfOut ==
  ASSUME NEW a, NEW n \in Node
  PROVE  OutOf(a)[n] = Pairs(a[n])
BY DEF OutOf

\* In increasing order no two arcs have one label.
LEMMA RisesSeparates ==
  ASSUME NEW a \in Seq(Arc), Rises(a), NEW p \in Pairs(a), NEW q \in Pairs(a), p[1] = q[1]
  PROVE  p = q
<1>1. DOMAIN a = 1..Len(a) /\ Len(a) \in Nat
  OBVIOUS
<1>2. \A i \in 1..Len(a) : a[i].value \in Nat
  <2>1. \A i \in 1..Len(a) : a[i] \in Arc
    OBVIOUS
  <2> QED
    BY <2>1, LabelsAreNats DEF Arc
<1>3. PICK i \in 1..Len(a) : p = <<a[i].value, a[i].end>>
  BY <1>1 DEF Pairs
<1>4. PICK j \in 1..Len(a) : q = <<a[j].value, a[j].end>>
  BY <1>1 DEF Pairs
<1>5. a[i].value = a[j].value /\ a[i].value \in Nat /\ a[j].value \in Nat
  BY <1>2, <1>3, <1>4
<1>6. ASSUME i < j PROVE FALSE
  <2>1. a[i].value < a[j].value
    BY <1>1, <1>6 DEF Rises
  <2> QED
    BY <1>5, <2>1
<1>7. ASSUME j < i PROVE FALSE
  <2>1. a[j].value < a[i].value
    BY <1>1, <1>7 DEF Rises
  <2> QED
    BY <1>5, <2>1
<1>8. i = j
  BY <1>6, <1>7
<1> QED
  BY <1>3, <1>4, <1>8

\* The nodes that are in a list.
Remaining == {n \in Node : \E l \in Layer : n \in ToSet(nodes[l])}

LEMMA RemainingInLayer ==
  ASSUME Frame, NEW n \in Remaining
  PROVE  varIndex[n] \in Layer /\ n \in ToSet(nodes[varIndex[n]])
<1>1. PICK l \in Layer : n \in ToSet(nodes[l])
  BY DEF Remaining
<1>2. varIndex[n] = l
  BY <1>1 DEF Frame, Lists, Was
<1> QED
  BY <1>1, <1>2

LEMMA LastIsOne ==
  ASSUME Frame, Source, NEW n \in ToSet(nodes[Size]), NEW m \in ToSet(nodes[Size])
  PROVE  n = m
<1> DEFINE s == GivenNodes[Size]
<1>1. Size \in Layer
  BY SizeIsPositive DEF Layer
<1>2. s \in Seq(Node) /\ n \in ToSet(s) /\ m \in ToSet(s)
  BY <1>1 DEF Frame, Lists, Source
<1>3. Len(s) = 1 \/ s = <<>>
  BY <1>1 DEF Source
<1> HIDE DEF s
<1>4. DOMAIN s = 1..Len(s)
  BY <1>2
<1>5. PICK i \in 1..Len(s), j \in 1..Len(s) : n = s[i] /\ m = s[j]
  BY <1>2, <1>4 DEF ToSet
<1>6. CASE Len(s) = 1
  <2>1. i = j
    BY <1>6
  <2> QED
    BY <1>5, <2>1
<1>7. CASE s = <<>>
  <2>1. Len(s) = 0
    BY <1>7
  <2> QED
    BY <2>1
<1> QED
  BY <1>3, <1>6, <1>7

LEMMA RemainingIsIrreducible ==
  ASSUME IInv, KeptInv, Ordered, pc = "done", GivenIsDeterministic
  PROVE  Irreducible(varIndex, OutOf(arcs), Remaining)
<1>1. /\ Frame /\ Source /\ arcs \in [Node -> Seq(Arc)] /\ Typed(varIndex, OutOf(arcs))
      /\ \A l \in Layer : Reduced(l)
      /\ \A n \in Node : Rises(arcs[n])
  BY DEF IInv, KeptInv, Ordered, Frame, Types
<1>2. NoDeadEnd
  BY DeadEndsAreGone
<1>3. \A l : Listed(l) = ToSet(nodes[l])
  BY DEF Listed, ToSet
<1>4. Remaining \subseteq Node
  BY DEF Remaining
<1>5. Size \in Nat /\ Layer = 0..Size
  BY SizeIsPositive DEF Layer
<1>6. ASSUME NEW n \in Remaining, varIndex[n] < Size
      PROVE  OutOf(arcs)[n] # {}
  <2>1. arcs[n] # <<>> /\ arcs[n] \in Seq(Arc)
    BY <1>1, <1>2, <1>3, <1>4, <1>6, RemainingInLayer DEF NoDeadEnd
  <2>2. Len(arcs[n]) # 0
    BY <2>1, EmptySeq
  <2>3. 1 \in DOMAIN arcs[n]
    BY <2>1, <2>2
  <2>4. <<arcs[n][1].value, arcs[n][1].end>> \in Pairs(arcs[n])
    BY <2>3 DEF Pairs
  <2> QED
    BY <1>4, <2>4, PairsOfOut
<1>7. ASSUME NEW n \in Remaining, NEW p \in OutOf(arcs)[n]
      PROVE  p[2] \in Remaining
  <2>1. PICK i \in DOMAIN arcs[n] : p = <<arcs[n][i].value, arcs[n][i].end>>
    BY <1>4, PairsOfOut DEF Pairs
  <2>2. p[2] \in ToSet(nodes[varIndex[n] + 1])
    BY <1>1, <1>2, <1>3, <2>1, RemainingInLayer DEF NoDeadEnd
  <2>3. p[2] \in Node /\ varIndex[p[2]] = varIndex[n] + 1
    BY <1>1, <1>4 DEF Typed
  <2>4. varIndex[p[2]] \in Layer
    BY <1>1, <2>3 DEF Frame, Types
  <2> QED
    BY <2>2, <2>3, <2>4 DEF Remaining
<1>8. ASSUME NEW n \in Remaining, NEW p \in OutOf(arcs)[n], NEW q \in OutOf(arcs)[n], p[1] = q[1]
      PROVE  p = q
  <2>1. arcs[n] \in Seq(Arc) /\ Rises(arcs[n]) /\ p \in Pairs(arcs[n]) /\ q \in Pairs(arcs[n])
    BY <1>1, <1>4, PairsOfOut
  <2> QED
    BY <1>8, <2>1, RisesSeparates
<1>9. ASSUME NEW n \in Remaining, NEW m \in Remaining, varIndex[n] = varIndex[m],
             varIndex[n] < Size => OutOf(arcs)[n] = OutOf(arcs)[m]
      PROVE  n = m
  <2> DEFINE l == varIndex[n]
  <2>1. l \in Layer /\ n \in ToSet(nodes[l]) /\ m \in ToSet(nodes[l])
    BY <1>1, <1>9, RemainingInLayer
  <2>2. CASE l < Size
    <3>1. Pairs(arcs[n]) = Pairs(arcs[m])
      BY <1>4, <1>9, <2>2, PairsOfOut
    <3>2. arcs[n] \in Seq(Arc) /\ arcs[m] \in Seq(Arc) /\ Rises(arcs[n]) /\ Rises(arcs[m])
      BY <1>1, <1>4
    <3>3. arcs[n] = arcs[m]
      BY <3>1, <3>2, SameList
    <3>4. Reduced(l)
      BY <1>1, <2>1
    <3> QED
      BY <2>1, <2>2, <3>3, <3>4 DEF Reduced
  <2>3. CASE l = Size
    BY <1>1, <2>1, <2>3, LastIsOne
  <2> QED
    BY <1>5, <2>1, <2>2, <2>3
<1> QED
  BY <1>4, <1>6, <1>7, <1>8, <1>9 DEF Irreducible

\* The tails of nodes of one layer are the same only if the same can be read.
LEMMA SameTailsSameReads ==
  ASSUME Frame, Typed(varIndex, OutOf(arcs)),
         NEW n \in Node, NEW m \in Node, varIndex[n] = varIndex[m], Tails(n) = Tails(m)
  PROVE  SameReads(varIndex, OutOf(arcs), n, m)
<1> DEFINE l == varIndex[n]
<1>1. l \in 0..Size /\ Size \in Nat /\ LayersType(varIndex) /\ arcs \in [Node -> Seq(Arc)]
  BY SizeIsPositive DEF Frame, Types, Layer, Typed
<1>2. ASSUME NEW t \in Words, NEW x \in Node, varIndex[x] = l
      PROVE  ReadsIn(varIndex, OutOf(arcs), x, t) <=> [i \in l + 1..Size |-> t[i]] \in Tails(x)
  <2> DEFINE u == [i \in l + 1..Size |-> t[i]]
  <2>1. Tails(x) = TailsIn(varIndex, arcs, x)
    BY <1>1, TailsAre
  <2>2. u \in [l + 1..Size -> Label] /\ \A i \in l + 1..Size : u[i] = t[i]
    <3>1. \A i \in l + 1..Size : i \in 1..Size
      BY <1>1
    <3> QED
      BY <3>1 DEF Words
  <2> HIDE DEF u, l
  <2>3. ReadsIn(varIndex, OutOf(arcs), x, u) <=> ReadsIn(varIndex, OutOf(arcs), x, t)
    BY <1>1, <1>2, <2>2, ReadsSuffix
  <2>4. u \in TailsIn(varIndex, arcs, x) <=> ReadsIn(varIndex, OutOf(arcs), x, u)
    BY <1>2, <2>2 DEF TailsIn
  <2>5. ReadsIn(varIndex, OutOf(arcs), x, t) <=> u \in Tails(x)
    BY <2>1, <2>3, <2>4
  <2> QED
    BY <2>5 DEF u
<1> QED
  BY <1>2 DEF SameReads

\* When the constructor returns, no two nodes that are left in a layer can be read the
\* same way, if no node has two arcs with one label: the radix sort has found all the
\* nodes that are to be merged, and the order of the arcs never hides that two nodes
\* have the same.
THEOREM ReducedIsCanonical == Spec => []Canonical
<1>1. IInv /\ KeptInv /\ Ordered => Canonical
  <2> SUFFICES ASSUME IInv, KeptInv, Ordered, pc = "done", Deterministic,
                      NEW l \in Layer, NEW n \in Listed(l), NEW m \in Listed(l),
                      Tails(n) = Tails(m)
               PROVE  n = m
    BY DEF Canonical
  <2>1. Frame /\ Typed(varIndex, OutOf(arcs)) /\ GivenIsDeterministic
    BY DEF IInv, KeptInv, Deterministic, GivenIsDeterministic, GivenArcs
  <2>2. n \in ToSet(nodes[l]) /\ m \in ToSet(nodes[l])
    BY DEF Listed, ToSet
  <2>3. n \in Node /\ m \in Node /\ varIndex[n] = l /\ varIndex[m] = l
    BY <2>1, <2>2 DEF Frame, Types, Lists, Was
  <2>4. n \in Remaining /\ m \in Remaining
    BY <2>2, <2>3 DEF Remaining
  <2>5. SameReads(varIndex, OutOf(arcs), n, m)
    BY <2>1, <2>3, SameTailsSameReads
  <2> QED
    BY <2>1, <2>3, <2>4, <2>5, RemainingIsIrreducible, IrreducibleIsCanonical
<1> QED
  BY <1>1, OrderedInvariant, PTL
=============================================================================
