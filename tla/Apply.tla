------------------------------- MODULE Apply -------------------------------
(***************************************************************************)
(* Apply: the product of two MDDs, layer by layer, reduced at the end.    *)
(*                                                                         *)
(* A node of the result stands for a couple of nodes of the operands.     *)
(* While the arcs of a layer are built, an arc ends in the second node of *)
(* its couple, a node of the right operand, and is chained through        *)
(* red_arc_ to the other arcs with the same first node; BuildLayer then   *)
(* makes one node for all the arcs with one couple and leads them to it.  *)
(* The operands and the result live in the same variables of MDD; nodes  *)
(* lists the layers of the result.  The indices by the ids of the nodes   *)
(* are indices by the nodes: the ids of an operand differ, and that of    *)
(* FakeNode, 0, is the id of a root, which no arc ends in.                *)
(***************************************************************************)
EXTENDS Reduce

CONSTANTS FakeNode,  \* Apply::fakeNode, the node without arcs
          Operands,  \* the pairs of MDDs that Apply is called with
          Operations \* the values of op_

Flags == {"not_not", "not_yes", "yes_not", "yes_yes"} \X {"all", "last"}

ASSUME OperationsAreFlags == Operations \subseteq SUBSET Flags

\* Null is the label that is read where there is no arc, too.
ASSUME NullIsNoLabel == Null \notin Label

\* The operands have the same number of variables; a node has at most one arc
\* for a label.
ASSUME OperandsAreMDDs ==
  \A o \in Operands :
    LET own == DOMAIN o.arcs IN
    /\ own \subseteq Node \ {FakeNode} /\ IsFiniteSet(own)
    /\ o.roots \in own \X own /\ \A i \in 1..2 : o.layer[o.roots[i]] = 0
    /\ \A n \in own : o.layer[n] \in Layer /\ o.arcs[n] \in Seq(Arc)
    /\ \A n \in own : \A i \in DOMAIN o.arcs[n] :
         /\ o.arcs[n][i].end \in own
         /\ o.layer[o.arcs[n][i].end] = o.layer[n] + 1
         /\ i > 1 => o.arcs[n][i - 1].value < o.arcs[n][i].value

\* createNode finds room for FakeNode and for the ends of the result.
ASSUME ResultFits ==
  /\ FakeNode \in Node
  /\ \A o \in Operands : \E root, final \in Node \ (DOMAIN o.arcs \cup {FakeNode}) :
       root # final

Above(conds) == conds \X {"all"}
AtLast(conds) == conds \X {"last"}

Intersection == Above({"yes_yes"}) \cup AtLast({"yes_yes"})
Union == Intersection \cup Above({"not_yes", "yes_not"}) \cup AtLast({"not_yes", "yes_not"})
Difference == Above({"yes_not", "yes_yes"}) \cup AtLast({"yes_not"})
Xor == Above({"yes_yes", "not_yes", "yes_not"}) \cup AtLast({"not_yes", "yes_not"})
NotUnion == Above({"not_not", "not_yes", "yes_not", "yes_yes"}) \cup AtLast({"not_not"})
NotIntersection == NotUnion \cup AtLast({"not_yes", "yes_not"})

VARIABLES
  op,         \* op_
  operands,   \* mdd1_, mdd2_: roots, layers and arcs
  phase,      \* outgoing: BuildOutgoingArcs, layer: BuildLayer, reduce, crash
  triplets,   \* L
  chains,     \* index_mdd1_a and red_arc_: the chained arcs of a first node
  firsts,     \* index_mdd1_non_null
  seconds     \* index_mdd2

applyVars == <<op, operands, phase, triplets, chains, firsts, seconds>>

Fresh == CHOOSE n \in Node : n \notin alive

\* Run enters its loop: the result has a root and a final node.
ApplyInit ==
  /\ op \in Operations
  /\ operands \in Operands
  /\ LET own == DOMAIN operands.arcs
         root == CHOOSE n \in Node : n \notin own \cup {FakeNode}
         final == CHOOSE n \in Node : n \notin own \cup {FakeNode, root}
     IN /\ alive = own \cup {FakeNode, root, final}
        /\ varIndex = [n \in Node |-> IF n \in own THEN operands.layer[n]
                                      ELSE IF n = final THEN Size ELSE 0]
        /\ arcs = [n \in Node |-> IF n \in own THEN operands.arcs[n] ELSE <<>>]
        /\ nodes = [l \in Layer |-> IF l = 0 THEN <<root>>
                                    ELSE IF l = Size THEN <<final>> ELSE <<>>]
        /\ triplets = << <<root, operands.roots[1], operands.roots[2]>> >>
        /\ nbIn = [n \in Node |-> Cardinality(ArcsInto(n, own))]
  /\ newV = [n \in Node |-> n]
  /\ input = [nodes |-> nodes, arcs |-> arcs]
  /\ Unallocated
  /\ phase = "outgoing"
  /\ chains = [n \in Node |-> <<>>]
  /\ firsts = <<>>
  /\ seconds = [n \in Node |-> Null]

-----------------------------------------------------------------------------
\* The flags of op_ for a layer.
Where(n) == IF varIndex[n] = Size - 1 THEN "last" ELSE "all"
Wanted(cond, n) == <<cond, Where(n)>> \in op

\* The call of addArcAndNode for one flag: label and couple.
Call(cond, n, v, m1, m2) ==
  IF Wanted(cond, n) THEN << <<v, m1, m2>> >> ELSE <<>>

\* Mutant: the arcs of the second node after the last of the first are left.
MergedWithoutRest(n, a1, a2) ==
  LET calls[i \in 1..Len(a1) + 1, j \in 1..Len(a2) + 1] ==
        IF i > Len(a1) THEN <<>>
        ELSE IF j <= Len(a2) /\ a1[i].value > a2[j].value
        THEN Call("not_yes", n, a2[j].value, FakeNode, a2[j].end) \o calls[i, j + 1]
        ELSE IF j <= Len(a2) /\ a1[i].value = a2[j].value
        THEN Call("yes_yes", n, a1[i].value, a1[i].end, a2[j].end) \o calls[i + 1, j + 1]
        ELSE Call("yes_not", n, a1[i].value, a1[i].end, FakeNode) \o calls[i + 1, j]
  IN calls[1, 1]

\* BuildOutgoingArcs: the two lists of arcs are merged by label; p holds the
\* positions of ex1 and ex2.
Merged(n, a1, a2) ==
  LET calls[p \in (1..Len(a1) + 1) \X (1..Len(a2) + 1)] ==
        LET i == p[1]
            j == p[2]
        IN IF i > Len(a1) /\ j > Len(a2) THEN <<>>
           ELSE IF i > Len(a1) \/ (j <= Len(a2) /\ a1[i].value > a2[j].value)
           THEN Call("not_yes", n, a2[j].value, FakeNode, a2[j].end) \o calls[<<i, j + 1>>]
           ELSE IF j <= Len(a2) /\ a1[i].value = a2[j].value
           THEN Call("yes_yes", n, a1[i].value, a1[i].end, a2[j].end)
                \o calls[<<i + 1, j + 1>>]
           ELSE Call("yes_not", n, a1[i].value, a1[i].end, FakeNode) \o calls[<<i + 1, j>>]
  IN calls[<<1, 1>>]

\* BuildOutgoingArcsValueBased goes through the domain.  An arc that none of
\* the two nodes has gets the label of the arc ex1 has reached; there may be
\* no such arc (BadCall).
ValueBased(n, a1, a2) ==
  LET At(a, i, v) == i <= Len(a) /\ a[i].value = v
      calls[v \in 0..MaxDomSize, i \in 1..Len(a1) + 1, j \in 1..Len(a2) + 1] ==
        IF v = MaxDomSize THEN <<>>
        ELSE IF At(a1, i, v)
        THEN IF At(a2, j, v)
             THEN Call("yes_yes", n, v, a1[i].end, a2[j].end) \o calls[v + 1, i + 1, j + 1]
             ELSE Call("yes_not", n, v, a1[i].end, FakeNode) \o calls[v + 1, i + 1, j]
        ELSE IF At(a2, j, v)
        THEN Call("not_yes", n, v, FakeNode, a2[j].end) \o calls[v + 1, i, j + 1]
        ELSE Call("not_not", n, IF i > Len(a1) THEN Null ELSE a1[i].value,
                  FakeNode, FakeNode) \o calls[v + 1, i, j]
  IN calls[0, 1, 1]

Calls(n, n1, n2) ==
  IF Wanted("not_not", n) THEN ValueBased(n, arcs[n1], arcs[n2])
                          ELSE Merged(n, arcs[n1], arcs[n2])

BadCall(calls) == \E i \in DOMAIN calls : calls[i][1] = Null

\* addArcAndNode for the calls of the node n, in their order.
AddArcsAndNodes(n, calls) ==
  LET last == Where(n) = "last"
      end(i) == IF last THEN Final ELSE calls[i][3]
      with(m) == {i \in DOMAIN calls : calls[i][2] = m}
      new == {i \in DOMAIN calls : /\ chains[calls[i][2]] = <<>>
                                  /\ \A j \in 1..i - 1 : calls[j][2] # calls[i][2]}
  IN /\ arcs' = [arcs EXCEPT ![n] = [i \in DOMAIN calls |->
                                       [value |-> calls[i][1], end |-> end(i)]]]
     /\ nbIn' = [m \in Node |->
                   nbIn[m] + Cardinality({i \in DOMAIN calls : end(i) = m})]
     /\ IF last
        THEN UNCHANGED <<chains, firsts>>
        ELSE /\ chains' = [m \in Node |->
                             Reverse(Kept([i \in DOMAIN calls |-> <<n, i>>], with(m)))
                             \o chains[m]]
             /\ firsts' = firsts \o Kept([i \in DOMAIN calls |-> calls[i][2]], new)

\* One triplet of L.
OutgoingArcs ==
  LET n == Head(triplets)[1]
      n2 == Head(triplets)[3]
      calls == Calls(n, Head(triplets)[2], n2)
  IN /\ phase = "outgoing" /\ triplets # <<>>
     /\ triplets' = Tail(triplets)
     /\ newV' = [newV EXCEPT ![n2] = n2]
     /\ IF BadCall(calls)
        THEN /\ phase' = "crash"
             /\ UNCHANGED <<arcs, nbIn, chains, firsts>>
        ELSE /\ phase' = IF triplets' = <<>> THEN "layer" ELSE phase
             /\ AddArcsAndNodes(n, calls)
     /\ UNCHANGED <<nodes, alive, varIndex, reduceVars, op, operands, seconds>>

(***************************************************************************)
(* BuildLayer: the arcs with one first node are grouped by their second.  *)
(***************************************************************************)
Chain == chains[Head(firsts)]
Second == LET arc == Head(Chain) IN arcs[arc[1]][arc[2]].end

\* The model has a bounded number of nodes.
NewCouple ==
  /\ phase = "layer" /\ firsts # <<>> /\ Chain # <<>>
  /\ seconds[Second] = Null /\ alive # Node
  /\ CreateNode(Fresh, varIndex[Head(Chain)[1]] + 1)
  /\ seconds' = [seconds EXCEPT ![Second] = Fresh]
  /\ triplets' = << <<Fresh, Head(firsts), Second>> >> \o triplets
  /\ UNCHANGED <<reduceVars, op, operands, phase, chains, firsts>>

\* Mutant: the second nodes are forgotten after every arc.
LinkCoupleForgets ==
  /\ phase = "layer" /\ firsts # <<>> /\ Chain # <<>>
  /\ seconds[Second] # Null
  /\ UpdateArc(Head(Chain)[1], Head(Chain)[2], seconds[Second])
  /\ chains' = [chains EXCEPT ![Head(firsts)] = Tail(@)]
  /\ seconds' = [n \in Node |-> Null]
  /\ UNCHANGED <<reduceVars, op, operands, phase, triplets, firsts>>

LinkCouple ==
  /\ phase = "layer" /\ firsts # <<>> /\ Chain # <<>>
  /\ seconds[Second] # Null
  /\ UpdateArc(Head(Chain)[1], Head(Chain)[2], seconds[Second])
  /\ chains' = [chains EXCEPT ![Head(firsts)] = Tail(@)]
  /\ UNCHANGED <<reduceVars, op, operands, phase, triplets, firsts, seconds>>

\* Mutant: the second nodes met with one first node stay for the next.
NextFirstKeepsSeconds ==
  /\ phase = "layer" /\ firsts # <<>> /\ Chain = <<>>
  /\ firsts' = Tail(firsts)
  /\ UNCHANGED <<mddVars, reduceVars, op, operands, phase, triplets, chains, seconds>>

NextFirst ==
  /\ phase = "layer" /\ firsts # <<>> /\ Chain = <<>>
  /\ firsts' = Tail(firsts)
  /\ seconds' = [n \in Node |-> Null]
  /\ UNCHANGED <<mddVars, reduceVars, op, operands, phase, triplets, chains>>

\* Mutant: there is always a next layer.
EndLayerGoesOn ==
  /\ phase = "layer" /\ firsts = <<>>
  /\ phase' = "outgoing"
  /\ UNCHANGED <<mddVars, reduceVars, op, operands, triplets, chains, firsts, seconds>>

EndLayer ==
  /\ phase = "layer" /\ firsts = <<>>
  /\ phase' = IF triplets = <<>> THEN "reduce" ELSE "outgoing"
  /\ UNCHANGED <<mddVars, reduceVars, op, operands, triplets, chains, firsts, seconds>>

\* Run ends with Reduce r(mdd).
Reducing == phase = "reduce" /\ Next /\ UNCHANGED applyVars

ApplyNext ==
  OutgoingArcs \/ NewCouple \/ LinkCouple \/ NextFirst \/ EndLayer \/ Reducing

applyAll == <<vars, applyVars>>

\* Run is called in one thread: it goes on as long as it can.
ApplySpec == ApplyInit /\ [][ApplyNext]_applyAll /\ WF_applyAll(ApplyNext)
-----------------------------------------------------------------------------
Couple == Node \X Node \X Node

ApplyTypeOK ==
  /\ TypeOK
  /\ triplets \in Seq(Couple)
  /\ chains \in [Node -> Seq(Node \X Nat)]
  /\ firsts \in Seq(Node)
  /\ seconds \in [Node -> Node \cup {Null}]

\* What op_ says of a tuple that is, or is not, in the operands.
Operand(i) == Tails(operands.roots[i])

Expected ==
  CASE op = Intersection -> Operand(1) \cap Operand(2)
    [] op = Union -> Operand(1) \cup Operand(2)
    [] op = Difference -> Operand(1) \ Operand(2)
    [] op = Xor -> (Operand(1) \ Operand(2)) \cup (Operand(2) \ Operand(1))
    [] op = NotUnion -> [1..Size -> Label] \ (Operand(1) \cup Operand(2))
    [] op = NotIntersection -> [1..Size -> Label] \ (Operand(1) \cap Operand(2))

(***************************************************************************)
(* The reduced result holds the tuples that the operation on sets would:  *)
(* what the flags decide arc by arc, layer by layer, with FakeNode for an *)
(* operand that is left, amounts to the operation (Apply.cpp:45-142,      *)
(* 184-206).                                                               *)
(***************************************************************************)
AppliesOperation == phase = "reduce" /\ pc = "done" => Language = Expected

(***************************************************************************)
(* There is one node for a couple: all the arcs that mean one couple, from*)
(* whatever node, were chained together (Apply.cpp:77-105).                *)
(***************************************************************************)
OneNodePerCouple ==
  phase = "outgoing" =>
    \A i, j \in DOMAIN triplets :
      Tail(triplets[i]) = Tail(triplets[j]) => i = j

(***************************************************************************)
(* No arc of the result is left at a node of the right operand, and the   *)
(* operands get back the numbers of incoming arcs that they had.          *)
(***************************************************************************)
OperandsLeftAlone ==
  phase \in {"outgoing", "reduce"} /\ firsts = <<>> =>
    LET own == DOMAIN operands.arcs
    IN /\ \A n \in own : nbIn[n] = Cardinality(ArcsInto(n, own))
       /\ \A n \in alive \ own : \A i \in DOMAIN arcs[n] : arcs[n][i].end \notin own

(***************************************************************************)
(* Apply returns.                                                          *)
(***************************************************************************)
ApplyReturns == <>(phase = "reduce" /\ pc = "done")

(***************************************************************************)
(* "The creation of an arc labeled by 'a', given (ni,nj), with ni from the*)
(* first MDD ad nj from the second, for a given operation is given by the *)
(* following flags" (Apply.hpp:137-140): a node gets an arc for a value   *)
(* when the flag of that value is one of op_'s, and only then.             *)
(***************************************************************************)
Has(n, v) == \E i \in DOMAIN arcs[n] : arcs[n][i].value = v

Flag(n1, n2, v) ==
  CASE Has(n1, v) /\ Has(n2, v) -> "yes_yes"
    [] Has(n1, v) /\ ~Has(n2, v) -> "yes_not"
    [] ~Has(n1, v) /\ Has(n2, v) -> "not_yes"
    [] ~Has(n1, v) /\ ~Has(n2, v) -> "not_not"

FlagsDecide ==
  [][\A n \in alive, v \in 0..MaxDomSize - 1 :
       phase = "outgoing" /\ n = Head(triplets)[1] =>
         (Has(n, v)' <=> Wanted(Flag(Head(triplets)[2], Head(triplets)[3], v), n))]_applyAll
=============================================================================
