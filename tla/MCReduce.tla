------------------------------ MODULE MCReduce ------------------------------
(***************************************************************************)
(* Reduce on diagrams of three variables: all those whose nodes have one  *)
(* of a few lists of arcs, in layers of four and two nodes, with dead     *)
(* ends, unreached nodes and repeated labels; diagrams whose layers are   *)
(* smaller than the domain; the empty diagram, with and without last node.*)
(***************************************************************************)
EXTENDS Reduce

MCNode == 1..8
MCLabel == 0..2

To(v, n) == [value |-> v, end |-> n]

Layered(l1, l2) == [l \in 0..3 |-> CASE l = 0 -> <<1>> [] l = 1 -> l1
                                     [] l = 2 -> l2 [] l = 3 -> <<8>>]

Diagram(layers, root, a, b) ==
  [nodes |-> layers,
   arcs |-> [n \in MCNode |->
               CASE n = 1 -> root [] n \in DOMAIN a -> a[n]
                 [] n \in DOMAIN b -> b[n] [] OTHER -> <<>>]]

Upper == {<<To(0, 6)>>, <<To(0, 6), To(1, 6)>>,
          <<To(0, 6), To(1, 7)>>, <<To(0, 7), To(1, 6)>>}
Lower == {<<>>, <<To(0, 8)>>, <<To(0, 8), To(1, 8)>>}

Large == {Diagram(Layered(<<5, 4, 3, 2>>, <<7, 6>>), <<To(0, 2), To(1, 5)>>, a, b) :
            a \in [2..5 -> Upper], b \in [6..7 -> Lower]}

RepeatedLabels ==
  {Diagram(Layered(<<5, 4, 3, 2>>, <<7, 6>>),
           <<To(0, 2), To(0, 3), To(1, 4), To(1, 5)>>, a, b) :
     a \in [2..5 -> {<<To(0, 6), To(0, 7)>>, <<To(0, 7)>>}], b \in [6..7 -> Lower]}

Small == {Diagram(Layered(<<3, 2>>, <<6>>), <<To(1, 2), To(2, 3)>>, a, b) :
            a \in [2..3 -> {<<To(0, 6), To(1, 6), To(2, 6)>>, <<To(1, 6), To(2, 6)>>,
                          <<To(0, 6), To(2, 6)>>, <<To(2, 6)>>, <<>>}], b \in [6..6 -> Lower]}

Empty == [nodes |-> [l \in 0..3 |-> <<>>], arcs |-> [n \in MCNode |-> <<>>]]

\* What is left of a diagram that reading ends nowhere in.
Exhausted == [Empty EXCEPT !.nodes[3] = <<8>>]

MCDiagrams == Large \cup RepeatedLabels \cup Small \cup {Empty, Exhausted}
=============================================================================
