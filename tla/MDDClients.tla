----------------------------- MODULE MDDClients -----------------------------
(***************************************************************************)
(* The decision diagram under its clients: any sequence of the calls that *)
(* the builders and relaxations make, with what they owe to each method.  *)
(***************************************************************************)
EXTENDS MDD

CONSTANT MaxArcs   \* the bound of the model: how many arcs a node may get
ASSUME MaxArcsIsNat == MaxArcs \in Nat

\* BuildRootAndFinalNodes on a new MDD.
Init ==
  \E r, f \in Node :
    /\ r # f
    /\ nodes = [l \in Layer |-> IF l = 0 THEN <<r>>
                                ELSE IF l = Size THEN <<f>> ELSE <<>>]
    /\ alive = {r, f}
    /\ varIndex = [n \in Node |-> IF n = f THEN Size ELSE 0]
    /\ arcs = [n \in Node |-> <<>>]
    /\ nbIn = [n \in Node |-> 0]
    /\ newV = [n \in Node |-> n]

-----------------------------------------------------------------------------
(***************************************************************************)
(* The clients.  They link nodes of neighbouring layers without asking    *)
(* whether the label is there already, insert a label in its order, take a *)
(* node out when InDegree() is 0, delete it once its arcs are deleted, and *)
(* clear a diagram when no node is out of it.                              *)
(***************************************************************************)
InMdd(n) == n \in alive /\ n \in Listed(varIndex[n])

Linkable(n, m) == InMdd(n) /\ InMdd(m) /\ varIndex[m] = varIndex[n] + 1

\* "ORDORED list of outgoing arcs" (MDD.hpp:286): v fits at position k.
Fits(n, k, v) ==
  \A i \in DOMAIN arcs[n] : IF i < k THEN arcs[n][i].value <= v
                                     ELSE arcs[n][i].value >= v

Inner(n) == varIndex[n] \in 1..Size - 1

\* What RelaxReduce::CleanLayer and GridMDDBuilder::deleteBadNode test.
Unreached(n) == n \in alive /\ Inner(n) /\ nbIn[n] = 0

Link(n, v, m) ==
  /\ Linkable(n, m) /\ Len(arcs[n]) < MaxArcs
  /\ \/ AddArc(n, v, m)
     \/ Fits(n, Len(arcs[n]) + 1, v) /\ AddArcLast(n, v, m)
     \/ Fits(n, 1, v) /\ AddArcFirst(n, v, m)
     \/ \E i \in DOMAIN arcs[n] :
          \/ Fits(n, i + 1, v) /\ AddArcAfter(n, v, m, i)
          \/ Fits(n, i, v) /\ AddArcBefore(n, v, m, i)

Relink(n, m) ==
  /\ Linkable(n, m)
  /\ \E i \in DOMAIN arcs[n] : UpdateArc(n, i, m)

Next ==
  \/ \E n \in Node, l \in 1..Size - 1 : CreateNode(n, l)
  \/ \E n, m \in Node : Relink(n, m) \/ \E v \in Label : Link(n, v, m)
  \/ \E n \in alive : \E i \in DOMAIN arcs[n] : DeleteArc(n, i)
  \/ \E n \in Node :
       \/ Unreached(n) /\ InMdd(n) /\ arcs[n] = <<>> /\ DeleteNode(n)
       \/ Unreached(n) /\ InMdd(n) /\ RemoveList(n)
       \/ Unreached(n) /\ ~InMdd(n) /\ arcs[n] = <<>> /\ Dispose(n)
       \/ Unreached(n) /\ ~InMdd(n) /\ AddList(n)
  \/ Clean
  \/ (\A n \in alive : InMdd(n)) /\ Clear

Spec == Init /\ [][Next]_mddVars
-----------------------------------------------------------------------------
TypeOK == MDDTypeOK /\ nbIn \in [Node -> Nat]

(***************************************************************************)
(* "Return the number of incoming arcs" (MDD.hpp:250): the counter that   *)
(* decides which nodes are deleted counts the arcs that exist, those of   *)
(* the nodes taken out and not yet deleted included.                       *)
(***************************************************************************)
InDegreeExact ==
  \A m \in alive : nbIn[m] = Cardinality(ArcsInto(m, alive))

(***************************************************************************)
(* An arc of a node of the diagram leads to a node that is still in the   *)
(* next layer: what the clients delete on the word of InDegree() is never *)
(* the end of an arc (MDD.cpp:111-125, 149-156).                           *)
(***************************************************************************)
NoDanglingArc ==
  \A n \in alive : InMdd(n) =>
    \A i \in DOMAIN arcs[n] :
      LET m == arcs[n][i].end IN InMdd(m) /\ varIndex[m] = varIndex[n] + 1

\* No node has two arcs with one label; nothing in AddArc ensures it.
LabelsDiffer ==
  \A n \in alive : \A i, j \in DOMAIN arcs[n] :
    arcs[n][i].value = arcs[n][j].value => i = j

(***************************************************************************)
(* contains follows one arc per value and never comes back ("Return true  *)
(* if this MDD contains tuple", MDD.hpp:466).  It never accepts a tuple    *)
(* that cannot be read, and finds each one that can, whatever was done to  *)
(* the arcs before, unless some node got a label twice: AddArc then adds a *)
(* second arc and get stops at the first (MDD.cpp:82-87).                  *)
(***************************************************************************)
ContainsIsMembership ==
  Root # Null =>
    \A t \in [1..Size -> Label] :
      /\ ContainsTuple(t) => t \in Language
      /\ LabelsDiffer /\ t \in Language => ContainsTuple(t)

(***************************************************************************)
(* Each layer holds its own nodes, each once, and no deleted one, so that *)
(* the loops over a layer meet every node they must.                       *)
(***************************************************************************)
LayersHoldTheirNodes ==
  \A l \in Layer : /\ \A n \in Listed(l) : n \in alive /\ varIndex[n] = l
                   /\ Cardinality(Listed(l)) = Len(nodes[l])
=============================================================================
