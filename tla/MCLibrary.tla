------------------------------ MODULE MCLibrary ------------------------------
(***************************************************************************)
(* Diagrams of three variables: all small tables and a few longer ones,    *)
(* transition graphs, many of whose nodes have the same tails, and         *)
(* automata with states that cannot be reached or left.                    *)
(***************************************************************************)
EXTENDS Library

MCNode == 1..14
MCLabel == 0..2
MCDiagrams == {}

Table(tuples_) == [kind |-> "table", tuples |-> tuples_]
Graph(transitions_) == [kind |-> "transitions", transitions |-> transitions_]
Automaton(transitions_, start_, finals_) ==
  [kind |-> "automaton", transitions |-> transitions_, start |-> start_, finals |-> finals_]

Tables_ ==
  {Table(<< <<1, 1, 1>>, <<0, 0, 1>>, <<0, 1, 0>>, <<0, 0, 0>> >>),
   Table(<< <<2, 0, 1>>, <<0, 2, 2>>, <<2, 0, 0>>, <<0, 1, 2>>, <<1, 0, 1>>, <<0, 2, 1>> >>),
   Table(<<>>)}

Graphs ==
  {Graph(<< <<0, 0, 1>>, <<0, 1, 2>>, <<1, 0, 3>>, <<1, 1, 3>>, <<2, 2, 3>>, <<2, 1, 4>>,
            <<3, 0, 5>>, <<3, 1, 5>>, <<4, 0, 5>> >>),
   Graph(<< <<0, 2, 1>>, <<0, 0, 2>>, <<0, 1, 7>>, <<1, 1, 3>>, <<2, 1, 4>>, <<7, 1, 6>>,
            <<7, 0, 4>>, <<3, 0, 5>>, <<4, 0, 5>>, <<6, 2, 5>>, <<6, 0, 5>> >>)}

\* Every way of nodes 1 and 2 to nodes 3 and 4, and a few of these to the end.
Ways == {w \in [0..1 -> {3, 4, 0}] : \E v \in 0..1 : w[v] # 0}
Arcs(n, w) == SelectSeq(<< <<n, 0, w[0]>>, <<n, 1, w[1]>> >>, LAMBDA t : t[3] # 0)
Ends(n, V) == SelectSeq(<< <<n, 0, 5>>, <<n, 1, 5>> >>, LAMBDA t : t[2] \in V)
Met(w1, w2, n) == \E v \in 0..1 : n \in {w1[v], w2[v]}

Woven ==
  {Graph(<< <<0, 0, 1>>, <<0, 1, 2>> >> \o Arcs(1, w1) \o Arcs(2, w2)
         \o (IF Met(w1, w2, 3) THEN Ends(3, V3) ELSE <<>>)
         \o (IF Met(w1, w2, 4) THEN Ends(4, V4) ELSE <<>>)) :
     w1 \in Ways, w2 \in Ways, V3 \in {{0}, {0, 1}}, V4 \in {{0}, {1}, {0, 1}}}

Automata ==
  {Automaton(<< <<0, 0, 0>>, <<0, 1, 1>>, <<0, 2, 2>>, <<1, 0, 1>>, <<1, 1, 2>>, <<2, 0, 2>> >>,
             0, {0, 1, 2}),
   Automaton(<< <<1, 2, 0>>, <<0, 1, 2>>, <<2, 0, 1>>, <<1, 0, 1>>, <<2, 2, 3>> >>, 1, {0, 2})}

MCTasks ==
  Tables_ \cup Graphs \cup Woven \cup Automata \cup {[kind |-> "empty"]}
  \cup {[kind |-> "random", domains |-> <<2, 2, 2>>, most |-> 3],
         [kind |-> "random", domains |-> <<3, 1, 3>>, most |-> 2]}

MCSearches == {"count", "map", "longest", "shortest", "fill"}
=============================================================================
