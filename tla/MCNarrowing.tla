----------------------------- MODULE MCNarrowing -----------------------------
(***************************************************************************)
(* Diagrams of four variables: each dynamic program built whole, relaxed, *)
(* or restricted (SetCover, whose merge keeps every row to cover), merged *)
(* after every layer, every other layer or every third, under each        *)
(* partitioner; and given diagrams whose merged nodes meet again in the   *)
(* layer below, some of them Steady.                                       *)
(***************************************************************************)
EXTENDS Narrowing

MCNode == 1..40
MCLabel == 0..4

To(v, n) == [value |-> v, end |-> n]

Sum == [kind |-> "sum", domain |-> 3, max |-> 4]
Small == [kind |-> "alldifferent", domain |-> 4, values |-> 4]
Large == [kind |-> "alldifferent", domain |-> 5, values |-> 5]

MISP == [kind |-> "misp", domain |-> 2,
         neighbors |-> [i \in 0..3 |-> IF i = 0 THEN {1, 3} ELSE IF i = 1 THEN {0, 2}
                                       ELSE IF i = 2 THEN {1} ELSE {0}],
         costs |-> [i \in 0..3 |-> IF i = 2 THEN 2 ELSE 1]]

Cover == [kind |-> "setcover", domain |-> 2, rows |-> 4,
          membership |-> [i \in 0..3 |-> CASE i = 0 -> {0, 1} [] i = 1 -> {1, 2}
                                           [] i = 2 -> {0, 2} [] i = 3 -> {1, 3}],
          costs |-> [i \in 0..3 |-> 1 + (i % 2)]]

\* Operands of four variables that share some tuples.
Operand(base, root, two, three, four) ==
  [n \in base..base + 4 |->
     LET to == CASE n = base -> root [] n = base + 1 -> two
                 [] n = base + 2 -> three [] n = base + 3 -> four [] n = base + 4 -> {}
     IN SetToSortSeq({To(v, n + 1) : v \in to}, LAMBDA a, b : a.value < b.value)]

Product(op, wanted) ==
  [kind |-> "apply", domain |-> 2, roots |-> <<1, 6>>,
   arcs |-> Operand(1, {0, 1}, {0, 1}, {1}, {0, 1}) @@ Operand(6, {0, 1}, {1}, {0, 1}, {0}),
   layer |-> [n \in 1..10 |-> (n - 1) % 5], op |-> op, wanted |-> wanted]

Both == {<<"yes_yes", "all">>, <<"yes_yes", "last">>}
Either == {"yes_yes", "yes_not", "not_yes"} \X {"all", "last"}
OnlyFirst == {<<"yes_not", "all">>, <<"yes_yes", "all">>, <<"yes_not", "last">>}

Meet == Product(Both, {<<"yes", "yes">>})
Join == Product(Either, {<<"yes", "yes">>, <<"yes", "not">>, <<"not", "yes">>})
Minus == Product(OnlyFirst, {<<"yes", "not">>})

\* Small enough for every partition of every layer.
Few == [kind |-> "alldifferent", domain |-> 3, values |-> 4]
Ladder == [kind |-> "sum", domain |-> 2, max |-> 3]

DPJob(k, p, part, d) == [kind |-> k, problem |-> p, partitioner |-> part, depth |-> d]

MCJobs ==
  {DPJob("exact", p, "default", 0) : p \in {Sum, Small, Large, MISP, Cover, Meet, Join, Minus}}
  \cup {DPJob("relax", p, part, d) : p \in {Sum, MISP, Meet, Join},
                                     part \in {"default", "max", "min", "pack"}, d \in 0..2}
  \cup {DPJob("relax", p, "default", d) : p \in {Small, Large}, d \in 0..2}
  \cup {DPJob("relax", Small, "max", d) : d \in 0..2}
  \cup {DPJob("relax", p, "random", d) : p \in {MISP, Meet, Ladder}, d \in 0..2}
  \cup {DPJob("relax", Few, "kmeans", d) : d \in 1..2}
  \cup {DPJob("restrict", Cover, part, d) : part \in {"default", "random", "max", "min", "pack"},
                                            d \in 0..2}

-----------------------------------------------------------------------------
\* Diagrams: root 1, end 2, and the arcs of the other nodes.
Diagram(k, part, one, two, three, out) ==
  [kind |-> k, partitioner |-> part,
   nodes |-> [l \in 0..4 |-> <<<<1>>, one, two, three, <<2>>>>[l + 1]],
   arcs |-> [n \in MCNode |-> IF n \in DOMAIN out THEN out[n] ELSE <<>>]]

\* The nodes of a layer share their ends with their neighbours.
Woven(k, part) ==
  Diagram(k, part, <<3, 4, 5>>, <<6, 7, 8, 9>>, <<10, 11, 12>>,
    1 :> <<To(0, 3), To(1, 4), To(2, 5)>> @@ 3 :> <<To(0, 6), To(1, 7)>>
    @@ 4 :> <<To(0, 7), To(1, 8)>> @@ 5 :> <<To(0, 8), To(1, 9), To(2, 6)>>
    @@ 6 :> <<To(0, 10)>> @@ 7 :> <<To(0, 10), To(1, 11)>>
    @@ 8 :> <<To(0, 11), To(1, 12)>> @@ 9 :> <<To(1, 12)>>
    @@ 10 :> <<To(0, 2), To(1, 2)>> @@ 11 :> <<To(1, 2)>> @@ 12 :> <<To(2, 2)>>)

\* A layer that is small when it is met, between two that are not.
Waist(k, part) ==
  Diagram(k, part, <<3, 4, 5>>, <<6, 7>>, <<8, 9, 10>>,
    1 :> <<To(0, 3), To(1, 4), To(2, 5)>> @@ 3 :> <<To(0, 6), To(1, 7)>>
    @@ 4 :> <<To(0, 6), To(1, 7)>> @@ 5 :> <<To(0, 7), To(2, 6)>>
    @@ 6 :> <<To(0, 8), To(1, 9)>> @@ 7 :> <<To(0, 9), To(1, 10)>>
    @@ 8 :> <<To(0, 2)>> @@ 9 :> <<To(1, 2)>> @@ 10 :> <<To(2, 2)>>)

\* Nodes that have no label in common with some of their layer.
Apart(k, part) ==
  Diagram(k, part, <<3, 4, 5>>, <<6, 7, 8, 9>>, <<10, 11, 12>>,
    1 :> <<To(0, 3), To(1, 4), To(2, 5)>> @@ 3 :> <<To(0, 6), To(1, 7), To(2, 8)>>
    @@ 4 :> <<To(0, 7), To(1, 8), To(2, 9)>> @@ 5 :> <<To(1, 6)>>
    @@ 6 :> <<To(0, 10)>> @@ 7 :> <<To(1, 10), To(2, 11)>>
    @@ 8 :> <<To(0, 12), To(2, 12)>> @@ 9 :> <<To(1, 12), To(2, 10)>>
    @@ 10 :> <<To(0, 2), To(1, 2)>> @@ 11 :> <<To(1, 2)>> @@ 12 :> <<To(2, 2)>>)

\* Merged nodes and their units in one layer, without a label in common.
Twice(k, part) ==
  Diagram(k, part, <<4, 3, 5, 6>>, <<9, 7, 8>>, <<10, 11, 12, 13>>,
    1 :> <<To(0, 3), To(1, 4), To(2, 5), To(3, 6)>> @@ 3 :> <<To(0, 7), To(1, 8)>>
    @@ 4 :> <<To(0, 9)>> @@ 5 :> <<To(0, 7)>> @@ 6 :> <<To(0, 8)>>
    @@ 7 :> <<To(0, 10)>> @@ 8 :> <<To(1, 11)>>
    @@ 9 :> <<To(0, 10), To(1, 11), To(2, 12), To(3, 13)>>
    @@ 10 :> <<To(0, 2), To(1, 2)>> @@ 11 :> <<To(1, 2)>>
    @@ 12 :> <<To(2, 2)>> @@ 13 :> <<To(3, 2)>>)

\* A layer that is small when it is met, above one in which a merged node waits for its
\* deletion when its set comes back (five variables).
Revived(k, part) ==
  [kind |-> k, partitioner |-> part,
   nodes |-> [l \in 0..5 |-> <<<<1>>, <<3, 4, 5, 6, 7>>, <<8, 9, 10>>, <<11, 12, 13, 14, 15>>,
                              <<16, 17, 18, 19, 20>>, <<2>>>>[l + 1]],
   arcs |-> [n \in MCNode |->
     CASE n = 1 -> <<To(0, 3), To(1, 4), To(2, 5), To(3, 6), To(4, 7)>>
       [] n \in 3..5 -> <<To(0, 8)>>
       [] n = 6 -> <<To(0, 9)>>
       [] n = 7 -> <<To(0, 10)>>
       [] n = 8 -> <<To(0, 11)>>
       [] n = 9 -> <<To(0, 12), To(1, 13)>>
       [] n = 10 -> <<To(0, 14), To(1, 15)>>
       [] n = 11 -> <<To(0, 16), To(1, 17), To(2, 18)>>
       [] n \in {12, 14} -> <<To(0, 19)>>
       [] n \in {13, 15} -> <<To(0, 20)>>
       [] n \in 16..20 -> <<To(0, 2)>>
       [] OTHER -> <<>>]]

\* A label of layer 3 tells the node, those of layer 2 do not.
Told(k, part) ==
  Diagram(k, part, <<3, 4, 5>>, <<6, 7, 8, 9>>, <<10, 11, 12>>,
    1 :> <<To(0, 3), To(1, 4), To(2, 5)>> @@ 3 :> <<To(0, 6), To(1, 7)>>
    @@ 4 :> <<To(0, 7), To(1, 8)>> @@ 5 :> <<To(0, 8), To(1, 9), To(2, 6)>>
    @@ 6 :> <<To(0, 10), To(1, 11)>> @@ 7 :> <<To(0, 10), To(2, 12)>>
    @@ 8 :> <<To(1, 11), To(2, 12)>> @@ 9 :> <<To(2, 12)>>
    @@ 10 :> <<To(0, 2), To(1, 2)>> @@ 11 :> <<To(1, 2)>> @@ 12 :> <<To(2, 2)>>)

\* A label of layer 2 tells the node, those of layer 3 do not: nodes wait there for their
\* deletion beside the merged nodes that they are units of.
ToldBefore(part) ==
  Diagram("relax", part, <<3, 4, 5>>, <<6, 7, 8>>, <<10, 11, 12, 13>>,
    1 :> <<To(0, 3), To(1, 4), To(2, 5)>> @@ 3 :> <<To(0, 6), To(1, 7)>>
    @@ 4 :> <<To(1, 7), To(2, 8)>> @@ 5 :> <<To(2, 8)>>
    @@ 6 :> <<To(0, 10)>> @@ 7 :> <<To(0, 11), To(1, 12)>>
    @@ 8 :> <<To(0, 12), To(1, 13)>>
    @@ 10 :> <<To(0, 2), To(1, 2)>> @@ 11 :> <<To(1, 2)>>
    @@ 12 :> <<To(2, 2)>> @@ 13 :> <<To(3, 2)>>)

MCNoJob == {}
MCRevived == {Revived("relax", "default")}
MCTwice == {Twice("restrict", "default")}
MCSteadyJobs == {Told(k, "default") : k \in {"relax", "restrict"}}
                \cup {ToldBefore(part) : part \in {"default", "random"}}
MCDiagramJobs == {Woven(k, part) : k \in {"relax", "restrict"}, part \in {"default", "random"}}
                 \cup {Apart("restrict", part) : part \in {"default", "random"}}
                 \cup {Waist(k, "default") : k \in {"relax", "restrict"}}
                 \cup MCSteadyJobs

\* Of the given diagrams these and Twice are those that the theorems are about.
ASSUME WhichAreSteady == \A j \in DiagramJobs : Steady(j) <=> j \in MCSteadyJobs \cup MCTwice
=============================================================================
