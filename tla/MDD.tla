-------------------------------- MODULE MDD --------------------------------
(***************************************************************************)
(* The decision diagram of MDD/Core: the layers of nodes of MDD, the      *)
(* ordered outgoing arcs of each Node, and the counter nb_in_ by which its *)
(* clients (Grid, RelaxReduce, RestrictedReduce) recognise the nodes they *)
(* may take out and delete.                                                *)
(*                                                                         *)
(* The lists are sequences (module DblList shows that the pointers        *)
(* implement them); an arc is its position in the list of its start_.      *)
(* The actions are the methods; MDDClients and Reduce call them.           *)
(***************************************************************************)
EXTENDS Dimensions, Sequences, FiniteSets, SequencesExt

ASSUME SizeIsPositive == Size \in Nat \ {0}
ASSUME LabelsAreNats == Label \subseteq Nat

VARIABLES
  nodes,     \* MDD::nodes_, the list of each layer
  alive,     \* the nodes constructed and not yet deleted
  varIndex,  \* Node::var_index_
  arcs,      \* Node::arcs_
  nbIn,      \* Node::nb_in_
  newV       \* Node::newV_

mddVars == <<nodes, alive, varIndex, arcs, nbIn, newV>>

Layer == 0..Size
Arc == [value : Label, end : Node]

Listed(l) == {nodes[l][i] : i \in DOMAIN nodes[l]}

Root == IF nodes[0] = <<>> THEN Null ELSE nodes[0][1]
Final == IF nodes[Size] = <<>> THEN Null ELSE Last(nodes[Size])

\* Mutant: the first arc that is not smaller.
GetAtLeast(n, v) == SelectInSeq(arcs[n], LAMBDA a : a.value >= v)

\* Node::get: the position of the first arc labelled v, 0 for nullptr.
Get(n, v) == SelectInSeq(arcs[n], LAMBDA a : a.value = v)

\* Where DblOrderedList::Add stops.
PlaceOf(n, v) ==
  LET i == SelectInSeq(arcs[n], LAMBDA a : ~(a.value < v))
  IN IF i = 0 THEN Len(arcs[n]) + 1 ELSE i

\* Mutant: the end does not learn of the arc.
NewArcUncounted(n, k, v, m) ==
  /\ arcs' = [arcs EXCEPT ![n] = InsertAt(@, k, [value |-> v, end |-> m])]
  /\ UNCHANGED <<nodes, alive, varIndex, nbIn, newV>>

NewArcAt(n, k, v, m) ==
  /\ arcs' = [arcs EXCEPT ![n] = InsertAt(@, k, [value |-> v, end |-> m])]
  /\ nbIn' = [nbIn EXCEPT ![m] = @ + 1]
  /\ UNCHANGED <<nodes, alive, varIndex, newV>>

AddArc(n, v, m) == NewArcAt(n, PlaceOf(n, v), v, m)
AddArcLast(n, v, m) == NewArcAt(n, Len(arcs[n]) + 1, v, m)
AddArcFirst(n, v, m) == NewArcAt(n, 1, v, m)
AddArcAfter(n, v, m, i) == NewArcAt(n, i + 1, v, m)
AddArcBefore(n, v, m, i) == NewArcAt(n, i, v, m)

\* Mutant: the counter is decremented by the caller too.
DeleteArcTwice(n, i) ==
  /\ nbIn' = [nbIn EXCEPT ![arcs[n][i].end] = @ - 2]
  /\ arcs' = [arcs EXCEPT ![n] = RemoveAt(@, i)]
  /\ UNCHANGED <<nodes, alive, varIndex, newV>>

DeleteArc(n, i) ==
  /\ nbIn' = [nbIn EXCEPT ![arcs[n][i].end] = @ - 1]
  /\ arcs' = [arcs EXCEPT ![n] = RemoveAt(@, i)]
  /\ UNCHANGED <<nodes, alive, varIndex, newV>>

\* Mutant: the old end keeps the arc in its counter.
UpdateArcKeepsCount(n, i, m) ==
  /\ nbIn' = [nbIn EXCEPT ![m] = @ + 1]
  /\ arcs' = [arcs EXCEPT ![n][i].end = m]
  /\ UNCHANGED <<nodes, alive, varIndex, newV>>

\* The counter of the old end is decremented first, and once more by
\* deleteArc when there is no new end.
UpdateArc(n, i, m) ==
  LET end == arcs[n][i].end IN
  /\ IF m = Null
     THEN /\ nbIn' = [nbIn EXCEPT ![end] = @ - 2]
          /\ arcs' = [arcs EXCEPT ![n] = RemoveAt(@, i)]
     ELSE /\ nbIn' = [[nbIn EXCEPT ![end] = @ - 1] EXCEPT ![m] = @ + 1]
          /\ arcs' = [arcs EXCEPT ![n][i].end = m]
  /\ UNCHANGED <<nodes, alive, varIndex, newV>>

CreateNode(n, l) ==
  /\ n \notin alive
  /\ alive' = alive \cup {n}
  /\ varIndex' = [varIndex EXCEPT ![n] = l]
  /\ arcs' = [arcs EXCEPT ![n] = <<>>]
  /\ nbIn' = [nbIn EXCEPT ![n] = 0]
  /\ newV' = [newV EXCEPT ![n] = n]
  /\ nodes' = [nodes EXCEPT ![l] = <<n>> \o @]

AddList(n) ==
  /\ nodes' = [nodes EXCEPT ![varIndex[n]] = <<n>> \o @]
  /\ UNCHANGED <<alive, varIndex, arcs, nbIn, newV>>

Without(s, n) == RemoveFirst(s, n)

Unlink(n) == nodes' = [nodes EXCEPT ![varIndex[n]] = Without(@, n)]

RemoveList(n) ==
  /\ Unlink(n)
  /\ UNCHANGED <<alive, varIndex, arcs, nbIn, newV>>

\* delete n: neither the node's arcs nor the counters of their ends are
\* touched.
Forgotten(N) ==
  /\ alive' = alive \ N
  /\ arcs' = [n \in Node |-> IF n \in N THEN <<>> ELSE arcs[n]]
  /\ UNCHANGED <<varIndex, nbIn, newV>>

\* Mutant: the node is deleted without being taken out of its layer.
DeleteListedNode(n) == Forgotten({n}) /\ UNCHANGED nodes

DeleteNode(n) == Unlink(n) /\ Forgotten({n})

Dispose(n) == Forgotten({n}) /\ UNCHANGED nodes

Clear ==
  /\ nodes' = [l \in Layer |-> <<>>]
  /\ Forgotten(UNION {Listed(l) : l \in Layer})

\* The elements of s at the positions I, in their order.
Kept(s, I) ==
  LET rank(i) == Cardinality({j \in I : j <= i})
  IN [p \in 1..Cardinality(I) |-> s[CHOOSE i \in I : rank(i) = p]]

\* What is left of the list s when the nodes of which newV_ is another are removed.
Representatives(s) == Kept(s, {i \in DOMAIN s : newV[s[i]] = s[i]})

Clean ==
  /\ nodes' = [l \in Layer |-> IF l = Size THEN nodes[l] ELSE Representatives(nodes[l])]
  /\ UNCHANGED <<alive, varIndex, arcs, nbIn, newV>>

\* The nodes contains() goes through, Null once there is no arc to follow.
Visited(t) ==
  LET at[i \in 0..Len(t)] ==
        IF i = 0 THEN Root
        ELSE LET n == at[i - 1]
                 a == IF n = Null THEN 0 ELSE Get(n, t[i])
             IN IF a = 0 THEN Null ELSE arcs[n][a].end
  IN at

ContainsTuple(t) == t # <<>> /\ Visited(t)[Len(t)] # Null

MaxOf(S) == CHOOSE x \in S : \A y \in S : y <= x

LargestLayerSize == MaxOf({Len(nodes[l]) : l \in 0..Size - 1})

-----------------------------------------------------------------------------
MDDTypeOK ==
  /\ nodes \in [Layer -> Seq(Node)]
  /\ alive \subseteq Node
  /\ varIndex \in [Node -> Layer]
  /\ arcs \in [Node -> Seq(Arc)]
  /\ nbIn \in [Node -> Int]
  /\ newV \in [Node -> Node \cup {Null}]

\* The arcs that the nodes of from have into m.
ArcsInto(m, from) ==
  UNION {{<<n, i>> : i \in {j \in DOMAIN arcs[n] : arcs[n][j].end = m}} :
         n \in from}

\* The nodes at which t ends when it is read from layer l and the nodes N,
\* whatever list the nodes on the way are in.
ReadFrom(N, l, t) ==
  LET Step(M, v) == UNION {{arcs[n][j].end : j \in {i \in DOMAIN arcs[n] :
                                                     arcs[n][i].value = v}} : n \in M}
      reach[i \in l..Size] == IF i = l THEN N ELSE Step(reach[i - 1], t[i])
  IN reach[Size]

\* The tuples that can be read from n, and those of the diagram.
Tails(n) ==
  {t \in [varIndex[n] + 1..Size -> Label] : ReadFrom({n}, varIndex[n], t) # {}}

Language == IF Root = Null THEN {} ELSE Tails(Root)
=============================================================================
