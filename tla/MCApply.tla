------------------------------ MODULE MCApply ------------------------------
(***************************************************************************)
(* Apply on pairs of MDDs of three variables whose nodes meet in couples  *)
(* of every kind: reached by several arcs of one node or of two, with the *)
(* same first node and different second nodes and the other way round, and*)
(* with FakeNode on one side or the other; and on an MDD with itself.      *)
(***************************************************************************)
EXTENDS Apply

MCNode == 1..24
MCLabel == 0..2
MCFakeNode == 13

To(v, n) == [value |-> v, end |-> n]

\* An operand: its root, two layers of two nodes and its final node, from
\* the number base on.
MDDNode(base) == base..base + 5

Shifted(base, list) == [i \in DOMAIN list |-> To(list[i][1], base + list[i][2] - 1)]

Diagram(base, root, upper, lower) ==
  LET of == <<root, upper[1], upper[2], lower[1], lower[2], <<>> >>
  IN [n \in MDDNode(base) |-> Shifted(base, of[n - base + 1])]

Roots == {<< <<0, 2>>, <<1, 3>> >>, << <<1, 3>>, <<2, 2>> >>}
Uppers == {<< << <<0, 4>>, <<1, 5>> >>, << <<1, 4>> >> >>,
           << << <<0, 5>> >>, << <<0, 5>>, <<1, 4>> >> >>}
Lowers == {<< << <<0, 6>> >>, << <<1, 6>> >> >>,
           << << <<0, 6>>, <<1, 6>> >>, << <<0, 6>> >> >>}

Diagrams1 == {Diagram(1, r, u, l) : r \in Roots, u \in Uppers, l \in Lowers}
Diagrams2 == {Diagram(7, r, u, l) : r \in Roots, u \in Uppers, l \in Lowers}

MDDLayer == [n \in 1..12 |-> <<0, 1, 1, 2, 2, 3, 0, 1, 1, 2, 2, 3>>[n]]

MCOperands ==
  {[roots |-> <<1, 7>>, layer |-> MDDLayer, arcs |-> d1 @@ d2] :
     d1 \in Diagrams1, d2 \in Diagrams2}
  \cup {[roots |-> <<1, 1>>, layer |-> MDDLayer, arcs |-> d] : d \in Diagrams1}

MCOperations == {Intersection, Union, Difference, Xor}
MCComplement == {NotUnion}
MCDiagrams == {}
=============================================================================
