----------------------------- MODULE Reduction -----------------------------
(***************************************************************************)
(* What reducing an MDD may do to it, one arc or one node at a time and in *)
(* any order: an arc is led to the representative of its end, or deleted  *)
(* when its end is dead; a node without arcs is declared dead; a node is  *)
(* merged into another one with the same outgoing arcs.                    *)
(*                                                                         *)
(* None of these steps changes what can be read from any node             *)
(* (SuffixesKept).  The module Reduce, which computes the merges of a     *)
(* layer by a radix sort, takes no other step.                             *)
(***************************************************************************)
EXTENDS Dimensions

VARIABLES
  varIndex,  \* the layer of a node
  out,       \* its outgoing arcs: pairs of a label and an end
  newV       \* its representative, Null once it is dead

vars == <<varIndex, out, newV>>

\* An arc leads from its layer to the next one.
Layered ==
  \A n \in Node : \A a \in out[n] : varIndex[a[2]] = varIndex[n] + 1

Init ==
  /\ varIndex \in [Node -> 0..Size]
  /\ out \in [Node -> SUBSET (Label \X Node)]
  /\ Layered
  /\ newV = [n \in Node |-> n]

\* keep: the node has a second arc <<v, e>>.
Redirect(n, v, e) ==
  /\ <<v, e>> \in out[n]
  /\ newV[e] \in Node
  /\ \E keep \in SUBSET {<<v, e>>} :
       out' = [out EXCEPT ![n] = (@ \ {<<v, e>>}) \cup {<<v, newV[e]>>} \cup keep]
  /\ UNCHANGED <<varIndex, newV>>

\* Mutant: arcs to living ends are deleted.
PruneAny(n, v, e) ==
  /\ <<v, e>> \in out[n]
  /\ out' = [out EXCEPT ![n] = @ \ {<<v, e>>}]
  /\ UNCHANGED <<varIndex, newV>>

Prune(n, v, e) ==
  /\ <<v, e>> \in out[n]
  /\ newV[e] = Null
  /\ out' = [out EXCEPT ![n] = @ \ {<<v, e>>}]
  /\ UNCHANGED <<varIndex, newV>>

\* Mutant: the node may still have arcs.
DropAny(n) ==
  /\ varIndex[n] < Size
  /\ newV' = [newV EXCEPT ![n] = Null]
  /\ UNCHANGED <<varIndex, out>>

Drop(n) ==
  /\ varIndex[n] < Size
  /\ out[n] = {}
  /\ newV' = [newV EXCEPT ![n] = Null]
  /\ UNCHANGED <<varIndex, out>>

\* Mutant: nodes of different layers are merged.
MergeAnywhere(n, m) ==
  /\ out[n] = out[m]
  /\ newV[m] = m
  /\ newV' = [newV EXCEPT ![n] = m]
  /\ UNCHANGED <<varIndex, out>>

Merge(n, m) ==
  /\ varIndex[n] = varIndex[m]
  /\ out[n] = out[m]
  /\ newV[m] = m
  /\ newV' = [newV EXCEPT ![n] = m]
  /\ UNCHANGED <<varIndex, out>>

Next ==
  \E n \in Node :
    \/ \E v \in Label, e \in Node : Redirect(n, v, e) \/ Prune(n, v, e)
    \/ Drop(n)
    \/ \E m \in Node : Merge(n, m)

Spec == Init /\ [][Next]_vars
-----------------------------------------------------------------------------
TypeOK ==
  /\ varIndex \in [Node -> 0..Size]
  /\ out \in [Node -> SUBSET (Label \X Node)]
  /\ newV \in [Node -> Node \cup {Null}]
  /\ Layered

Tuple == [1..Size -> Label]

\* p goes down layer by layer from layer l and reads t.
Path(p, l, t) ==
  \A i \in l..Size - 1 : /\ <<t[i + 1], p[i + 1]>> \in out[p[i]]
                         /\ varIndex[p[i + 1]] = i + 1

\* t can be read from n to the last layer; n has the variable l.
Reads(n, l, t) == \E p \in [l..Size -> Node] : p[l] = n /\ Path(p, l, t)

(***************************************************************************)
(* A dead node leads nowhere, and a node and its representative can be    *)
(* read the same way.  This is what makes it sound to redirect the arcs   *)
(* of the layer above later, when arcs below may have changed.            *)
(***************************************************************************)
RepresentativesAgree ==
  \A n \in Node :
    IF newV[n] = Null
    THEN \A t \in Tuple : ~Reads(n, varIndex[n], t)
    ELSE /\ varIndex[newV[n]] = varIndex[n]
         /\ \A t \in Tuple :
              Reads(n, varIndex[n], t) <=> Reads(newV[n], varIndex[newV[n]], t)

(***************************************************************************)
(* Reduction preserves the set of tuples of the MDD, and of every node of *)
(* it (Reduce.cpp:28-237).                                                 *)
(***************************************************************************)
SuffixesKept ==
  [][\A n \in Node : \A t \in Tuple :
       Reads(n, varIndex[n], t) <=> Reads(n, varIndex[n], t)']_vars
=============================================================================
