------------------------------ MODULE Narrowing ------------------------------
(***************************************************************************)
(* What narrowing a diagram promises, as it grows from a dynamic program  *)
(* (DPCreation) or once it is there: Reduce of RelaxReduce and of         *)
(* RestrictedReduce on a given diagram.                                    *)
(***************************************************************************)
EXTENDS DPCreation

CONSTANT DiagramJobs   \* kind, partitioner, and the nodes and arcs of a diagram

\* What a reducer is given: arcs ordered and from a layer to the next, a root alone
\* in its layer and an end alone in its own, and a partitioner that needs no state.
IsDiagram(j) ==
  /\ j.kind \in {"relax", "restrict"} /\ "problem" \notin DOMAIN j
  /\ j.partitioner \in {"default", "random", "kmeans"}
  /\ j.nodes \in [Layer -> Seq(Node)] /\ j.arcs \in [Node -> Seq(Arc)]
  /\ Len(j.nodes[0]) = 1 /\ Len(j.nodes[Size]) = 1
  /\ \A l \in Layer : IsInjective(j.nodes[l])
  /\ \A l, k \in Layer : l # k => ToSet(j.nodes[l]) \cap ToSet(j.nodes[k]) = {}
  /\ \A n \in Node : \A i \in DOMAIN j.arcs[n] :
       /\ \E l \in 0..Size - 1 : /\ n \in ToSet(j.nodes[l])
                                /\ j.arcs[n][i].end \in ToSet(j.nodes[l + 1])
       /\ \A k \in 1..i - 1 : j.arcs[n][k].value < j.arcs[n][i].value

ASSUME GivenAreDiagrams == \A j \in DiagramJobs : IsDiagram(j)

vars == <<mddVars, relaxVars, dpVars>>

GivenInit ==
  /\ job \in DiagramJobs
  /\ nodes = job.nodes /\ arcs = job.arcs
  /\ alive = UNION {Listed(l) : l \in Layer}
  /\ varIndex = [n \in Node |-> IF n \in alive
                                THEN CHOOSE l \in Layer : n \in Listed(l) ELSE 0]
  /\ nbIn = [n \in Node |-> Cardinality(ArcsInto(n, alive))]
  /\ newV = [n \in Node |-> n]
  /\ free = Chunk(Node \ alive)
  /\ NoReducer
  /\ phase = "given" /\ depth = 0 /\ level = 0 /\ list = <<>> /\ stack = <<>>
  /\ states = [n \in Node |-> NoState]
  /\ node4 = [l \in Layer |-> <<>>] /\ memory = <<>>

Init == DPInit \/ GivenInit

GivenConstruct ==
  /\ phase = "given" /\ Construct /\ phase' = "loop"
  /\ UNCHANGED <<job, depth, level, list, stack, states, node4, memory>>

\* The loop of Reduce.
NextLayer ==
  /\ phase = "loop" /\ step = "idle"
  /\ IF layer + 1 < Size
     THEN ReduceLayer(layer + 1, TRUE, Partitions(nodes[layer + 1])) /\ UNCHANGED phase
     ELSE phase' = "done" /\ UNCHANGED <<mddVars, relaxVars>>
  /\ UNCHANGED <<job, depth, level, list, stack, states, node4, memory>>

GivenStep ==
  /\ phase = "loop"
  /\ IF job.kind = "restrict" THEN RestrictedReducing ELSE Reducing
  /\ UNCHANGED dpVars

Done == phase = "done" /\ UNCHANGED vars

Next == DPNext \/ GivenConstruct \/ NextLayer \/ GivenStep \/ Done

Spec == Init /\ [][Next]_vars

\* The behaviours of Spec that narrow a diagram that is given.
GivenSpec == GivenInit /\ [][Next]_vars

\* Arcs with one label lead to one node of layer l: a set of ends is never merged there.
Determined(j, l) ==
  \A u, w \in ToSet(j.nodes[l - 1]) : \A a \in ToSet(j.arcs[u]), b \in ToSet(j.arcs[w]) :
    a.value = b.value => a.end = b.end

\* A diagram whose merged nodes keep an arc into them while they can be found: every
\* node can be entered, and from layer 3 on, the last label that was read, or the one
\* before it where a layer is relaxed, tells the node.
Steady(j) ==
  /\ \A l \in 1..Size : \A u \in ToSet(j.nodes[l]) :
       \E w \in ToSet(j.nodes[l - 1]) : \E a \in ToSet(j.arcs[w]) : a.end = u
  /\ \A l \in 3..Size - 1 :
       Determined(j, l) \/ (j.kind = "relax" /\ Determined(j, l - 1))
-----------------------------------------------------------------------------
TypeOK ==
  /\ MDDTypeOK
  /\ Range(free) = Node \ alive /\ IsInjective(free)
  /\ setOf \in [Node -> SUBSET Node]
  /\ \A S \in DOMAIN nodeOf : nodeOf[S] \in Node
  /\ ToSet(todo) \cup ToSet(newNodes) \cup ToSet(toDel) \subseteq Node
  /\ making \in Node \cup {Null} /\ label \in Nat

(***************************************************************************)
(* The tuples that the problem asks for, or those of the given diagram.   *)
(***************************************************************************)
Tuples == [1..Size -> 0..Problem.domain - 1]

SumOf(t) == LET sum[i \in 0..Size] == IF i = 0 THEN 0 ELSE sum[i - 1] + t[i] IN sum[Size]

ReadIn(p, root) ==
  {t \in Tuples :
     LET at[i \in 0..Size] == IF i = 0 THEN {root} ELSE Follow(p, at[i - 1], t[i])
     IN at[Size] # {}}

InOperands(p, t) ==
  <<IF t \in ReadIn(p, p.roots[1]) THEN "yes" ELSE "not",
    IF t \in ReadIn(p, p.roots[2]) THEN "yes" ELSE "not">>

Solutions(p) ==
  {t \in Tuples :
     CASE p.kind = "sum" -> SumOf(t) <= p.max
       [] p.kind = "alldifferent" -> IsInjective(t)
       [] p.kind = "misp" -> \A i, j \in 1..Size :
                               t[i] = 1 /\ t[j] = 1 => i - 1 \notin p.neighbors[j - 1]
       [] p.kind = "setcover" -> \A r \in 0..p.rows - 1 : \E i \in 1..Size :
                                   t[i] = 1 /\ r \in p.membership[i - 1]
       [] p.kind = "apply" -> InOperands(p, t) \in p.wanted}

Given == INSTANCE MDD WITH nodes <- job.nodes, arcs <- job.arcs

Wanted == IF "problem" \in DOMAIN job THEN Solutions(Problem) ELSE Given!Language

(***************************************************************************)
(* A relaxed diagram keeps every tuple: "CHECK(mdd->contains(tuple))"     *)
(* (test/Relax/testRelaxDPCreation.cpp, testRelaxReduce.cpp).             *)
(***************************************************************************)
NothingLost ==
  phase = "done" /\ job.kind \in {"exact", "relax"} => Wanted \subseteq Language

(***************************************************************************)
(* A restricted diagram holds solutions only: "CHECK(mdde->contains(      *)
(* tuple))" (test/Restricted/testRestrictedDPCreation.cpp).               *)
(***************************************************************************)
NothingAdded ==
  phase = "done" /\ job.kind \in {"exact", "restrict"} => Language \subseteq Wanted

Reachable ==
  LET at[l \in Layer] == IF l = 0 THEN {Root}
                         ELSE UNION {{a.end : a \in ToSet(arcs[n])} : n \in at[l - 1]}
  IN at

(***************************************************************************)
(* "this operation enforces that no more than @param nodes are present in *)
(* each layer of the MDD" (Relax/Reduction/reduce.hpp:43,                  *)
(* Restricted/reduce.hpp:44), of the nodes that a tuple can go through,    *)
(* whether a layer was merged or was small when it was met.                *)
(***************************************************************************)
WithinWidth ==
  phase = "done" /\ job.kind # "exact" =>
    \A l \in 1..Size - 1 : Cardinality(Reachable[l]) <= Width

(***************************************************************************)
(* No node is used after its deletion: neither as the end of an arc of a  *)
(* listed node, nor as a unit of a node whose arcs or state are built.     *)
(***************************************************************************)
NoDeletedNodeUsed ==
  /\ \A l \in Layer : \A n \in Listed(l) :
       n \in alive /\ \A a \in ToSet(arcs[n]) : a.end \in alive /\ varIndex[a.end] = l + 1
  /\ making # Null => setOf[making] # {} /\ setOf[making] \subseteq alive
  /\ phase \in {"rebuild", "rebuilt"} =>
       \A n \in ToSet(list) : \A u \in setOf[n] : u \in alive /\ states[u] # NoState

(***************************************************************************)
(* The rank of a MISP state bounds the cost of every path to its nodes,   *)
(* when layers are merged as soon as they are built: states are shared and*)
(* merged, and their sp_ is raised after a node was given to them.        *)
(***************************************************************************)
CostsBounded ==
  "problem" \in DOMAIN job /\ Problem.kind = "misp" /\ Depth = 0
  /\ phase = "build" /\ stack = <<>> =>
    LET Above(n) == {m \in Reachable[varIndex[n] - 1] :
                       \E a \in ToSet(arcs[m]) : a.end = n}
        cost(m, n) == IF \E a \in ToSet(arcs[m]) : a.end = n /\ a.value = 1
                      THEN Problem.costs[varIndex[m]] ELSE 0
        most[n \in UNION {Reachable[l] : l \in 0..depth}] ==
          IF n = Root THEN 0
          ELSE MaxOf({most[m] + cost(m, n) : m \in Above(n)})
    IN \A n \in Reachable[depth] :
         most[n] <= SPOf(memory, states[n], IntMin) - IntMin
=============================================================================
