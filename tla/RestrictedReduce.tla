-------------------------- MODULE RestrictedReduce --------------------------
(***************************************************************************)
(* RestrictedReduce: RelaxReduce's code, but for BuildOutgoingArcs, which *)
(* keeps the labels that every unit has, and takes a merged node that gets*)
(* no arc out of its layer; the arcs into it stay (to_del_nodes_2 is never*)
(* read).                                                                  *)
(***************************************************************************)
EXTENDS RelaxReduce

RestrictedConstruct == Construct
RestrictedReduceLayer(l, clean, Partitions) == ReduceLayer(l, clean, Partitions)
RestrictedNamePart == NamePart
RestrictedLeadPart == LeadPart \/ EndParts
RestrictedUpdateAbove == UpdateAbove
RestrictedCleanLayer == CleanLayer

\* The units that have an arc with the smallest label left (nb_ends).
Having == {u \in setOf[making] : \E a \in ToSet(arcs[u]) : a.value = MinLabel}

\* Mutant: an arc of one unit is enough.
SomeHave == Having # {}

AllHave == Having = setOf[making]

RestrictedNameEnds == NameEnds /\ AllHave

AddCommonArc == AddUnionArc /\ AllHave

SkipLabel ==
  /\ Building /\ making # Null /\ ArcsLeft # {} /\ ~AllHave
  /\ label' = MinLabel + 1
  /\ UNCHANGED <<mddVars, free, step, layer, sets, parts, newNodes, todo, making,
                 toDel, cleans, lost>>

\* DblList::Remove: the links of n are those of the list of the layer or of a chain that
\* was cut off.  Without a node before it, what is behind n becomes the list, and what
\* was listed is cut off (nothing is behind a node without links).
Removed(n) ==
  LET l == varIndex[n]
      heads == {c \in lost : Head(c) = n}
      behind == IF heads = {} THEN <<>> ELSE Tail(CHOOSE c \in heads : TRUE)
  IN IF n \in Listed(l)
     THEN nodes' = [nodes EXCEPT ![l] = Without(@, n)] /\ UNCHANGED lost
     ELSE IF \E c \in lost \ heads : n \in ToSet(c)
     THEN lost' = {Without(c, n) : c \in lost} /\ UNCHANGED nodes
     ELSE /\ nodes' = [nodes EXCEPT ![l] = behind]
          /\ lost' = (lost \ heads) \cup ({nodes[l]} \ {<<>>})

\* empty # should_be_empty.  A node that was removed has no next: the loop that
\* fills the layer stops there.
EndRestrictedNode ==
  LET empty == arcs[making] = <<>>
      shouldBeEmpty == \A u \in setOf[making] : arcs[u] = <<>>
  IN /\ Building /\ making # Null /\ ArcsLeft = {}
     /\ making' = Null
     /\ IF empty # shouldBeEmpty
        THEN /\ Removed(making)
             /\ todo' = IF step = "fill" THEN <<>> ELSE Tail(todo)
        ELSE /\ UNCHANGED <<nodes, lost>>
             /\ todo' = Tail(todo)
     /\ UNCHANGED <<alive, varIndex, arcs, nbIn, newV, free, step, layer, sets,
                    parts, newNodes, label, toDel, cleans>>

\* One step of a call of ReduceLayer.
RestrictedReducing ==
  \/ RestrictedNamePart \/ RestrictedLeadPart \/ RestrictedNameEnds
  \/ AddCommonArc \/ SkipLabel \/ EndRestrictedNode
  \/ BeginNode \/ EndBuild \/ RestrictedUpdateAbove \/ RestrictedCleanLayer
=============================================================================
