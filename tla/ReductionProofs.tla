-------------------------- MODULE ReductionProofs --------------------------
(***************************************************************************)
(* Reduction never changes what can be read from a node, for every size   *)
(* of the diagram.  A step is one of ReadingLemmas, which shows what it   *)
(* keeps; here its invariant becomes that of Reduction.                    *)
(***************************************************************************)
EXTENDS Reduction, ReadingLemmas

\* Arcs lead to the next layer and representatives can be read like their nodes.
IInv == Typed(varIndex, out) /\ Represents(varIndex, out, newV)

\* The readings of a state, and those of its successor.
LEMMA ReadsAsIn ==
  ASSUME NEW n \in Node, NEW t
  PROVE  /\ Reads(n, varIndex[n], t) <=> ReadsIn(varIndex, out, n, t)
         /\ Reads(n, varIndex[n], t)' <=> ReadsIn(varIndex', out', n, t)
BY DEF Reads, ReadsIn, Path, PathIn

\* The steps are those of ReadingLemmas.
LEMMA StepsAre ==
  ASSUME [Next]_vars
  PROVE  Shrinks(varIndex, out, newV, out', newV') /\ varIndex' = varIndex
<1>1. CASE UNCHANGED vars
  BY <1>1 DEF vars, Shrinks
<1>2. ASSUME NEW n \in Node, NEW v \in Label, NEW e \in Node, Redirect(n, v, e)
      PROVE  Redirects(out, newV, out', n, v, e) /\ UNCHANGED <<varIndex, newV>>
  BY <1>2 DEF Redirect, Redirects
<1>3. ASSUME NEW n \in Node, NEW v \in Label, NEW e \in Node, Prune(n, v, e)
      PROVE  Prunes(out, newV, out', n, v, e) /\ UNCHANGED <<varIndex, newV>>
  BY <1>3 DEF Prune, Prunes
<1>4. ASSUME NEW n \in Node, Drop(n)
      PROVE  Drops(varIndex, out, newV, newV', n) /\ UNCHANGED <<varIndex, out>>
  BY <1>4 DEF Drop, Drops
<1>5. ASSUME NEW n \in Node, NEW m \in Node, Merge(n, m)
      PROVE  Merges(varIndex, out, newV, newV', n, m) /\ UNCHANGED <<varIndex, out>>
  BY <1>5 DEF Merge, Merges
<1> QED
  BY <1>1, <1>2, <1>3, <1>4, <1>5 DEF Next, Shrinks

\* A node represents itself at first.
LEMMA InitIInv == Init => IInv
<1> SUFFICES ASSUME Init
             PROVE  IInv
  OBVIOUS
<1>1. Typed(varIndex, out)
  BY DEF Init, Typed, LayersType, Layered
<1>2. \A n \in Node : newV[n] = n /\ n # Null
  BY NullIsNoNode DEF Init
<1>3. newV \in [Node -> Node \cup {Null}]
  BY DEF Init
<1> QED
  BY <1>1, <1>2, <1>3 DEF IInv, Represents

LEMMA InvariantStep == IInv /\ [Next]_vars => IInv'
<1> SUFFICES ASSUME IInv, [Next]_vars
             PROVE  IInv'
  OBVIOUS
<1>1. Typed(varIndex, out') /\ Represents(varIndex, out', newV')
  BY StepsAre, StepKeepsTypes, StepKeepsRepresents DEF IInv
<1>2. varIndex' = varIndex
  BY StepsAre
<1> QED
  BY <1>1, <1>2 DEF IInv

(***************************************************************************)
(* Types, layers and representatives are right in every reachable state.  *)
(***************************************************************************)
THEOREM Inductive == Spec => []IInv
BY InitIInv, InvariantStep, PTL DEF Spec

(***************************************************************************)
(* An arc leads to the next layer, whatever is redirected, and the        *)
(* representative of a node is a node or Null.                             *)
(***************************************************************************)
THEOREM TypeCorrect == Spec => []TypeOK
<1>1. IInv => TypeOK
  BY DEF IInv, Typed, LayersType, Represents, TypeOK, Layered
<1> QED
  BY <1>1, Inductive, PTL

(***************************************************************************)
(* A dead node leads nowhere, a node and its representative can be read   *)
(* the same way.                                                           *)
(***************************************************************************)
THEOREM RepresentativesCorrect == Spec => []RepresentativesAgree
<1>1. IInv => RepresentativesAgree
  <2> SUFFICES ASSUME IInv, NEW n \in Node
               PROVE  IF newV[n] = Null
                      THEN \A t \in Tuple : ~Reads(n, varIndex[n], t)
                      ELSE /\ varIndex[newV[n]] = varIndex[n]
                           /\ \A t \in Tuple :
                                Reads(n, varIndex[n], t) <=> Reads(newV[n], varIndex[newV[n]], t)
    BY DEF RepresentativesAgree
  <2>1. Words = Tuple
    BY DEF Words, Tuple
  <2>2. \A t : Reads(n, varIndex[n], t) <=> ReadsIn(varIndex, out, n, t)
    BY ReadsAsIn
  <2>3. CASE newV[n] = Null
    BY <2>1, <2>2, <2>3 DEF IInv, Represents
  <2>4. CASE newV[n] # Null
    <3>1. newV[n] \in Node
      BY <2>4 DEF IInv, Represents
    <3>2. \A t : Reads(newV[n], varIndex[newV[n]], t) <=> ReadsIn(varIndex, out, newV[n], t)
      BY <3>1, ReadsAsIn
    <3> QED
      BY <2>1, <2>2, <2>4, <3>2 DEF IInv, Represents
  <2> QED
    BY <2>3, <2>4
<1> QED
  BY <1>1, Inductive, PTL

(***************************************************************************)
(* Reduction keeps the tuples of every node, those of the root included:  *)
(* the MDD after Reduce accepts what it accepted before.                   *)
(***************************************************************************)
THEOREM ReductionKeepsSuffixes == Spec => SuffixesKept
<1> DEFINE ReadsKept == \A n \in Node : \A t \in Tuple :
                       Reads(n, varIndex[n], t) <=> Reads(n, varIndex[n], t)'
<1>1. IInv /\ [Next]_vars => [ReadsKept]_vars
  <2> SUFFICES ASSUME IInv, [Next]_vars, NEW n \in Node, NEW t \in Tuple
               PROVE  Reads(n, varIndex[n], t) <=> Reads(n, varIndex[n], t)'
    OBVIOUS
  <2>1. t \in Words
    BY DEF Words, Tuple
  <2>2. Shrinks(varIndex, out, newV, out', newV') /\ varIndex' = varIndex
    BY StepsAre
  <2>3. ReadsIn(varIndex, out, n, t) <=> ReadsIn(varIndex', out', n, t)
    BY <2>1, <2>2, StepKeepsReads DEF IInv
  <2> QED
    BY <2>3, ReadsAsIn
<1> QED
  BY <1>1, Inductive, PTL DEF Spec, SuffixesKept
=============================================================================
