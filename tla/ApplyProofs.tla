----------------------------- MODULE ApplyProofs -----------------------------
(***************************************************************************)
(* Apply computes the operation that op_ stands for on the tuples of any  *)
(* two MDDs, makes one node for each couple of a layer and leaves its     *)
(* operands as they were, for every size, domain and set of operands, as  *)
(* long as no arc is wanted where both nodes have none (Positive).         *)
(*                                                                         *)
(* c is the couple of operand nodes that each node of the result was made *)
(* for.  While the layers are built, an arc of the result either ends in  *)
(* the node made for the couple it means, or it waits in the chain of the *)
(* first node of that couple with the second one as its end.               *)
(***************************************************************************)
EXTENDS Apply, ReduceProofs

Positive ==
  \A o \in Operations : <<"not_not", "all">> \notin o /\ <<"not_not", "last">> \notin o

-----------------------------------------------------------------------------
(***************************************************************************)
(* The operands.                                                           *)
(***************************************************************************)
Own == DOMAIN operands.arcs
Side == Own \cup {FakeNode}

\* The nodes of the result.
Made == alive \ Side

\* The label v from position i of the list a on, and the end of its arc.
HasLabel(a, i, v) == \E x \in i..Len(a) : a[x].value = v

EndFrom(a, i, v) ==
  IF HasLabel(a, i, v) THEN a[CHOOSE x \in i..Len(a) : a[x].value = v].end ELSE FakeNode

\* The arcs of a node of a couple, for the operands o.
SideArcs(o, m) == IF m = FakeNode THEN <<>> ELSE o.arcs[m]
Goes(o, m, v) == HasLabel(SideArcs(o, m), 1, v)

\* The couple that an arc labelled v means in a node made for the couple p.
Goal(o, m, v) == EndFrom(SideArcs(o, m), 1, v)
Goals(o, p, v) == <<Goal(o, p[1], v), Goal(o, p[2], v)>>

\* What the flags f say of a label in layer l.
Cond(h1, h2) == IF h1 THEN IF h2 THEN "yes_yes" ELSE "yes_not"
                ELSE IF h2 THEN "not_yes" ELSE "not_not"
WhereIn(l) == IF l = Size - 1 THEN "last" ELSE "all"
Wants(f, o, p, l, v) == <<Cond(Goes(o, p[1], v), Goes(o, p[2], v)), WhereIn(l)>> \in f

\* The operands have what they had.
OwnKept ==
  /\ op \in Operations /\ operands \in Operands
  /\ Own \subseteq alive /\ FakeNode \in alive /\ arcs[FakeNode] = <<>>
  /\ \A n \in Own : arcs[n] = operands.arcs[n] /\ varIndex[n] = operands.layer[n]

-----------------------------------------------------------------------------
(***************************************************************************)
(* The layers of the result while they are built.                         *)
(***************************************************************************)
Shape ==
  /\ nodes \in [Layer -> Seq(Node)] /\ alive \subseteq Node /\ IsFiniteSet(alive)
  /\ varIndex \in [Node -> Layer] /\ arcs \in [Node -> Seq(Arc)]
  /\ nbIn \in [Node -> Int] /\ newV = [n \in Node |-> n]
  /\ \A l \in Layer : /\ IsInjective(nodes[l])
                      /\ ToSet(nodes[l]) = {n \in Made : varIndex[n] = l}
  /\ Len(nodes[0]) = 1 /\ Len(nodes[Size]) = 1
  /\ \A n \in Node \ alive : arcs[n] = <<>>
  /\ \A n \in Made : varIndex[n] = Size => arcs[n] = <<>>

ListTypes ==
  /\ triplets \in Seq(Couple)
  /\ chains \in [Node -> Seq(Node \X Nat)]
  /\ firsts \in Seq(Node)
  /\ seconds \in [Node -> Node \cup {Null}]

\* The counters of the operands count the arcs that wait, too.
InCounted == \A m \in Own : nbIn[m] = Cardinality(ArcsInto(m, alive))

\* The node of a triplet gets its arcs later.
Waiting == {triplets[i][1] : i \in DOMAIN triplets}

\* Arc i of n ends in the node made for its couple, or it is still to be led there.
Leads(c, n, i) ==
  LET a == arcs[n][i]
      p == Goals(operands, c[n], a.value)
  IN IF varIndex[n] = Size - 1
     THEN a.end \in ToSet(nodes[Size])
     ELSE \/ a.end \in Made /\ varIndex[a.end] = varIndex[n] + 1 /\ c[a.end] = p
          \/ a.end = p[2] /\ <<n, i>> \in ToSet(chains[p[1]])

Described(c, n) ==
  /\ Rises(arcs[n])
  /\ \A v \in Label :
       HasLabel(arcs[n], 1, v) <=> Wants(op, operands, c[n], varIndex[n], v)
  /\ \A i \in DOMAIN arcs[n] : Leads(c, n, i)

\* The couple of a node is in the layer of the node.
Coupled(c, n) ==
  \A i \in 1..2 : c[n][i] \in Side /\ (c[n][i] \in Own => varIndex[c[n][i]] = varIndex[n])

Couples(c) ==
  /\ c \in [Node -> Node \X Node]
  /\ c[nodes[0][1]] = operands.roots
  /\ \A n \in Made : varIndex[n] < Size => Coupled(c, n)
  /\ \A n \in Made \ Waiting : varIndex[n] < Size => Described(c, n)

-----------------------------------------------------------------------------
(***************************************************************************)
(* The work that is left.  d is the layer of the arcs in the chains.       *)
(***************************************************************************)
TripletLayer(d) == IF phase = "outgoing" THEN d ELSE d + 1

Listings(c, d) ==
  /\ \A i \in DOMAIN triplets :
       LET t == triplets[i] IN
       /\ t[1] \in Made /\ varIndex[t[1]] = TripletLayer(d) /\ TripletLayer(d) < Size
       /\ arcs[t[1]] = <<>> /\ c[t[1]] = <<t[2], t[3]>>
  /\ \A i, j \in DOMAIN triplets :
       triplets[i][1] = triplets[j][1] \/ Tail(triplets[i]) = Tail(triplets[j]) => i = j

\* An arc in a chain means a couple with the first node of that chain.
Chained(c, d, m, r) ==
  /\ r[1] \in Made /\ varIndex[r[1]] = d /\ d < Size - 1
  /\ r[2] \in DOMAIN arcs[r[1]]
  /\ arcs[r[1]][r[2]].end \in Side
  /\ m = Goal(operands, c[r[1]][1], arcs[r[1]][r[2]].value)

Chainings(c, d) ==
  /\ IsInjective(firsts)
  /\ \A m \in Node : IsInjective(chains[m])
  /\ \A m \in Node : chains[m] # <<>> => m \in ToSet(firsts)
  /\ \A m \in Node : \A r \in ToSet(chains[m]) : Chained(c, d, m, r)

NoSeconds == \A m \in Node : seconds[m] = Null

\* In BuildOutgoingArcs, and in BuildLayer.
Outgoing == NoSeconds /\ \A m \in ToSet(firsts) : chains[m] # <<>>

Layering(c, d) ==
  /\ firsts = <<>> => NoSeconds
  /\ firsts # <<>> =>
       /\ \A i \in DOMAIN triplets :
            /\ triplets[i][2] \notin ToSet(Tail(firsts))
            /\ triplets[i][2] = Head(firsts) => seconds[triplets[i][3]] # Null
       /\ \A m \in Node : seconds[m] # Null =>
            /\ seconds[m] \in Made /\ varIndex[seconds[m]] = d + 1
            /\ c[seconds[m]] = <<Head(firsts), m>>

Work(c, d) ==
  /\ Listings(c, d) /\ Chainings(c, d)
  /\ phase = "outgoing" => Outgoing
  /\ phase = "layer" => Layering(c, d)

Build ==
  /\ phase \in {"outgoing", "layer"}
  /\ OwnKept /\ Shape /\ ListTypes /\ Unallocated /\ InCounted
  /\ \E c : Couples(c) /\ \E d \in Layer : Work(c, d)

-----------------------------------------------------------------------------
(***************************************************************************)
(* Reduce works on the result.                                             *)
(***************************************************************************)

\* The diagram that Reduce is given is the product of the operands.
Product(c) ==
  /\ c \in [Node -> Node \X Node]
  /\ Len(GivenNodes[0]) = 1 /\ c[GivenNodes[0][1]] = operands.roots
  /\ \A n \in Part : varIndex[n] < Size =>
       /\ Coupled(c, n) /\ Rises(GivenArcs[n])
       /\ \A v \in Label :
            HasLabel(GivenArcs[n], 1, v) <=> Wants(op, operands, c[n], varIndex[n], v)
       /\ \A i \in DOMAIN GivenArcs[n] :
            LET a == GivenArcs[n][i] IN
            a.end \in Part /\ (varIndex[n] < Size - 1 => c[a.end] = Goals(operands, c[n], a.value))

Apart ==
  /\ alive = Side \cup Part /\ Part \cap Side = {}
  /\ \A n \in Own : /\ GivenArcs[n] = operands.arcs[n]
                    /\ nbIn[n] = Cardinality(ArcsInto(n, Own))

Reducible ==
  /\ OwnKept /\ ListTypes /\ IInv /\ KeptInv /\ Apart
  /\ \E c : Product(c)

ApplyInv == Build \/ (phase = "reduce" /\ Reducible)

-----------------------------------------------------------------------------
(***************************************************************************)
(* Lists.                                                                  *)
(***************************************************************************)

\* Kept of a list that counts from 1.
LEMMA KeptOfList ==
  ASSUME NEW S, NEW s \in Seq(S), NEW I \in SUBSET DOMAIN s
  PROVE  /\ Kept(s, I) \in Seq(S)
         /\ ToSet(Kept(s, I)) = {s[i] : i \in I}
         /\ (\A i, j \in I : s[i] = s[j] => i = j) => IsInjective(Kept(s, I))
<1>1. Kept(s, I) = Selected(s, I)
  BY DEF Kept, Selected, Ranked
<1> QED
  BY <1>1, SelectedOfList

\* Neighbours tell that all arcs are in order.
LEMMA NeighboursRise ==
  ASSUME NEW a \in Seq(Arc), \A i \in DOMAIN a : i > 1 => a[i - 1].value < a[i].value
  PROVE  Rises(a)
<1> DEFINE n == Len(a)
           T == {i \in 0..n : \A p, q \in 1..i : p < q => a[p].value < a[q].value}
<1>1. n \in Nat /\ DOMAIN a = 1..n
  OBVIOUS
<1>2. \A i \in 1..n : a[i].value \in Nat
  <2>1. \A i \in 1..n : a[i] \in Arc
    OBVIOUS
  <2> QED
    BY <2>1, LabelsAreNats DEF Arc
<1> HIDE DEF n
<1>3. 0 \in T
  BY <1>1
<1>4. ASSUME NEW i \in 0..n - 1, i \in T
      PROVE  i + 1 \in T
  <2>1. i + 1 \in 0..n /\ i + 1 \in 1..n
    BY <1>1
  <2> SUFFICES ASSUME NEW p \in 1..i + 1, NEW q \in 1..i + 1, p < q
               PROVE  a[p].value < a[q].value
    BY <2>1
  <2>2. CASE q \in 1..i
    <3>1. p \in 1..i
      BY <2>2
    <3> QED
      BY <1>4, <2>2, <3>1
  <2>3. CASE q = i + 1
    <3>1. p \in 1..i /\ i \in 1..i /\ i \in 1..n /\ p \in 1..n
      BY <1>1, <2>3
    <3>2. a[i].value < a[i + 1].value
      <4>1. i + 1 > 1 /\ (i + 1) - 1 = i
        BY <3>1
      <4> QED
        BY <1>1, <2>1, <4>1
    <3>3. p = i \/ a[p].value < a[i].value
      BY <1>4, <3>1
    <3> QED
      BY <1>2, <2>1, <2>3, <3>1, <3>2, <3>3
  <2> QED
    BY <2>2, <2>3
<1>5. \A i \in 0..n : i \in T
  <2> HIDE DEF T
  <2> QED
    BY <1>1, <1>3, <1>4, UpTo
<1>6. n \in T
  BY <1>1, <1>5
<1> QED
  BY <1>1, <1>6 DEF Rises

-----------------------------------------------------------------------------
(***************************************************************************)
(* Labels of ordered lists of arcs.                                        *)
(***************************************************************************)
LEMMA ArcIs ==
  ASSUME NEW a \in Seq(Arc), NEW x \in 1..Len(a)
  PROVE  a[x] \in Arc /\ a[x].value \in Label /\ a[x].value \in Nat /\ a[x].end \in Node
<1>1. a[x] \in Arc
  OBVIOUS
<1> QED
  BY <1>1, LabelsAreNats DEF Arc

\* The end of an arc is found by its label.
LEMMA EndIs ==
  ASSUME NEW a \in Seq(Arc), Rises(a), NEW i \in Nat \ {0}, NEW x \in i..Len(a)
  PROVE  HasLabel(a, i, a[x].value) /\ EndFrom(a, i, a[x].value) = a[x].end
<1> DEFINE v == a[x].value
           y == CHOOSE z \in i..Len(a) : a[z].value = v
<1>1. Len(a) \in Nat /\ DOMAIN a = 1..Len(a) /\ \A z \in i..Len(a) : z \in 1..Len(a)
  OBVIOUS
<1>2. HasLabel(a, i, v)
  BY DEF HasLabel
<1>3. y \in i..Len(a) /\ a[y].value = v
  OBVIOUS
<1>4. y = x
  <2> HIDE DEF y
  <2>1. x \in 1..Len(a) /\ y \in 1..Len(a)
    BY <1>1, <1>3
  <2>2. a[x].value \in Nat /\ a[y].value \in Nat
    BY <2>1, ArcIs
  <2>3. ~(x < y) /\ ~(y < x)
    BY <1>1, <1>3, <2>1, <2>2 DEF Rises
  <2> QED
    BY <2>1, <2>3
<1> QED
  BY <1>2, <1>4 DEF EndFrom

LEMMA EndTyped ==
  ASSUME NEW a \in Seq(Arc), NEW i \in Nat \ {0}, NEW v
  PROVE  EndFrom(a, i, v) \in Node /\ (HasLabel(a, i, v) => v \in Label /\ v \in Nat)
<1>1. Len(a) \in Nat /\ \A z \in i..Len(a) : z \in 1..Len(a)
  OBVIOUS
<1>2. FakeNode \in Node
  BY ResultFits
<1>3. ASSUME HasLabel(a, i, v)
      PROVE  EndFrom(a, i, v) \in Node /\ v \in Label /\ v \in Nat
  <2> DEFINE y == CHOOSE z \in i..Len(a) : a[z].value = v
  <2>1. y \in i..Len(a) /\ a[y].value = v
    BY <1>3 DEF HasLabel
  <2>2. EndFrom(a, i, v) = a[y].end
    BY <1>3 DEF EndFrom
  <2> HIDE DEF y
  <2>3. y \in 1..Len(a)
    BY <1>1, <2>1
  <2> QED
    BY <2>1, <2>2, <2>3, ArcIs
<1> QED
  BY <1>2, <1>3 DEF EndFrom

\* The first arc and the rest.
LEMMA FirstAndRest ==
  ASSUME NEW a \in Seq(Arc), Rises(a), NEW i \in 1..Len(a)
  PROVE  /\ \A v : HasLabel(a, i, v) <=> v = a[i].value \/ HasLabel(a, i + 1, v)
         /\ \A v : HasLabel(a, i + 1, v) => a[i].value < v
         /\ EndFrom(a, i, a[i].value) = a[i].end
         /\ \A v : v # a[i].value => EndFrom(a, i, v) = EndFrom(a, i + 1, v)
<1>1. /\ Len(a) \in Nat /\ DOMAIN a = 1..Len(a) /\ i \in i..Len(a) /\ i + 1 \in Nat \ {0}
      /\ \A x \in i..Len(a) : x = i \/ x \in i + 1..Len(a)
      /\ \A x \in i + 1..Len(a) : x \in i..Len(a) /\ x \in 1..Len(a) /\ i < x
      /\ i \in Nat \ {0}
  OBVIOUS
<1>2. \A v : HasLabel(a, i, v) <=> v = a[i].value \/ HasLabel(a, i + 1, v)
  BY <1>1 DEF HasLabel
<1>3. \A v : HasLabel(a, i + 1, v) => a[i].value < v
  BY <1>1 DEF HasLabel, Rises
<1>4. EndFrom(a, i, a[i].value) = a[i].end
  BY <1>1, EndIs
<1>5. ASSUME NEW v, v # a[i].value
      PROVE  EndFrom(a, i, v) = EndFrom(a, i + 1, v)
  <2>1. CASE HasLabel(a, i + 1, v)
    <3>1. PICK x \in i + 1..Len(a) : a[x].value = v
      BY <2>1 DEF HasLabel
    <3>2. EndFrom(a, i + 1, v) = a[x].end
      BY <1>1, <3>1, EndIs
    <3>3. EndFrom(a, i, v) = a[x].end
      <4>1. x \in i..Len(a)
        BY <1>1
      <4> QED
        BY <1>1, <3>1, <4>1, EndIs
    <3> QED
      BY <3>2, <3>3
  <2>2. CASE ~HasLabel(a, i + 1, v)
    <3>1. ~HasLabel(a, i, v)
      BY <1>2, <1>5, <2>2
    <3> QED
      BY <2>2, <3>1 DEF EndFrom
  <2> QED
    BY <2>1, <2>2
<1> QED
  BY <1>2, <1>3, <1>4, <1>5

\* Past the end there is no label.
LEMMA NoSuffix ==
  ASSUME NEW a \in Seq(Arc), NEW i \in Nat, i > Len(a)
  PROVE  \A v : ~HasLabel(a, i, v) /\ EndFrom(a, i, v) = FakeNode
<1>1. Len(a) \in Nat /\ i..Len(a) = {}
  OBVIOUS
<1> QED
  BY <1>1 DEF HasLabel, EndFrom

-----------------------------------------------------------------------------
(***************************************************************************)
(* BuildOutgoingArcs.                                                      *)
(***************************************************************************)

\* A recursion that goes down has a value.
Descends(D, H, next) == \A x \in D : H[x] # 0 => H[next[x]] < H[x]

WalksTo(f, D, H, front, next) ==
  \A x \in D : f[x] = IF H[x] = 0 THEN <<>> ELSE front[x] \o f[next[x]]

LEMMA WalkExists ==
  ASSUME NEW D, NEW M \in Nat, NEW H \in [D -> 0..M], NEW V,
         NEW front \in [D -> Seq(V)], NEW next \in [D -> D], Descends(D, H, next)
  PROVE  \E f \in [D -> Seq(V)] : WalksTo(f, D, H, front, next)
<1> DEFINE Below(h) == {x \in D : H[x] <= h}
           Walks(f, h) == /\ f \in [Below(h) -> Seq(V)]
                          /\ \A x \in Below(h) :
                               f[x] = IF H[x] = 0 THEN <<>> ELSE front[x] \o f[next[x]]
           T == {h \in 0..M : \E f : Walks(f, h)}
<1>1. \A x \in D : H[x] \in 0..M /\ next[x] \in D /\ front[x] \in Seq(V)
             /\ (H[x] # 0 => H[next[x]] < H[x])
  BY DEF Descends
<1>2. 0 \in T
  <2> DEFINE f == [x \in Below(0) |-> <<>>]
  <2>1. \A x \in Below(0) : H[x] = 0
    BY <1>1
  <2>2. f \in [Below(0) -> Seq(V)]
    OBVIOUS
  <2>3. Walks(f, 0)
    BY <2>1, <2>2
  <2> HIDE DEF Walks, f
  <2> QED
    BY <2>3
<1>3. ASSUME NEW h \in 0..M - 1, h \in T
      PROVE  h + 1 \in T
  <2>1. PICK f : Walks(f, h)
    BY <1>3
  <2>2. \A x \in Below(h + 1) : x \in D /\ (x \in Below(h) \/ H[x] = h + 1)
    BY <1>1
  <2>3. ASSUME NEW x \in Below(h + 1), H[x] # 0
        PROVE  next[x] \in Below(h)
    <3>1. x \in D /\ H[x] <= h + 1 /\ H[next[x]] < H[x] /\ next[x] \in D
      BY <1>1, <2>3
    <3>2. H[x] \in 0..M /\ H[next[x]] \in 0..M
      BY <1>1, <3>1
    <3>3. H[next[x]] <= h
      BY <3>1, <3>2
    <3> QED
      BY <3>1, <3>3
  <2> DEFINE g == [x \in Below(h + 1) |-> IF x \in Below(h) THEN f[x]
                                          ELSE front[x] \o f[next[x]]]
  <2>4. \A x \in Below(h) : x \in Below(h + 1)
    BY <1>1
  <2>5. \A x \in Below(h) : f[x] \in Seq(V)
    BY <2>1
  <2>6. \A x \in Below(h + 1) : H[x] = 0 => x \in Below(h)
    BY <1>1
  <2> HIDE DEF Below
  <2>7. \A x \in Below(h + 1) : x \notin Below(h) => front[x] \o f[next[x]] \in Seq(V)
    <3> SUFFICES ASSUME NEW x \in Below(h + 1), x \notin Below(h)
                 PROVE  front[x] \o f[next[x]] \in Seq(V)
      OBVIOUS
    <3>1. front[x] \in Seq(V) /\ f[next[x]] \in Seq(V)
      BY <1>1, <2>2, <2>3, <2>5, <2>6
    <3> QED
      BY <3>1
  <2>8. g \in [Below(h + 1) -> Seq(V)]
    BY <2>5, <2>7
  <2>9. \A x \in Below(h) : g[x] = f[x]
    BY <2>4
  <2>10. \A x \in Below(h + 1) : x \notin Below(h) => g[x] = front[x] \o f[next[x]]
    OBVIOUS
  <2> HIDE DEF g
  <2>11. \A x \in Below(h) : f[x] = IF H[x] = 0 THEN <<>> ELSE front[x] \o f[next[x]]
    BY <2>1
  <2>12. ASSUME NEW x \in Below(h + 1)
         PROVE  g[x] = IF H[x] = 0 THEN <<>> ELSE front[x] \o g[next[x]]
    <3>1. H[x] # 0 => g[next[x]] = f[next[x]]
      BY <2>3, <2>9
    <3>2. CASE x \in Below(h)
      BY <2>9, <2>11, <3>1, <3>2
    <3>3. CASE x \notin Below(h)
      BY <2>6, <2>10, <3>1, <3>3
    <3> QED
      BY <3>2, <3>3
  <2>13. Walks(g, h + 1)
    BY <2>8, <2>12
  <2> HIDE DEF Walks
  <2> QED
    BY <2>13
<1>4. \A h \in 0..M : h \in T
  <2> HIDE DEF T
  <2> QED
    BY <1>2, <1>3, UpTo
<1>5. PICK f : Walks(f, M)
  <2>1. M \in T
    <3>1. M \in 0..M
      OBVIOUS
    <3> HIDE DEF T
    <3> QED
      BY <1>4, <3>1
  <2> HIDE DEF Walks
  <2> QED
    BY <2>1
<1>6. Below(M) = D
  BY <1>1
<1> QED
  BY <1>5, <1>6 DEF WalksTo

\* Where the walk through both lists goes from p.
Spots(a1, a2) == (1..Len(a1) + 1) \X (1..Len(a2) + 1)

TakesSecond(a1, a2, p) ==
  p[1] > Len(a1) \/ (p[2] <= Len(a2) /\ a1[p[1]].value > a2[p[2]].value)

TakesBoth(a1, a2, p) == p[2] <= Len(a2) /\ a1[p[1]].value = a2[p[2]].value

AtEnd(a1, a2, p) == p[1] > Len(a1) /\ p[2] > Len(a2)

Onward(a1, a2, p) ==
  IF TakesSecond(a1, a2, p) THEN <<p[1], p[2] + 1>>
  ELSE IF TakesBoth(a1, a2, p) THEN <<p[1] + 1, p[2] + 1>> ELSE <<p[1] + 1, p[2]>>

CallAt(n, a1, a2, p) ==
  IF TakesSecond(a1, a2, p) THEN Call("not_yes", n, a2[p[2]].value, FakeNode, a2[p[2]].end)
  ELSE IF TakesBoth(a1, a2, p)
  THEN Call("yes_yes", n, a1[p[1]].value, a1[p[1]].end, a2[p[2]].end)
  ELSE Call("yes_not", n, a1[p[1]].value, a1[p[1]].end, FakeNode)

Walk(n, a1, a2) ==
  CHOOSE f : f = [p \in Spots(a1, a2) |->
                    IF AtEnd(a1, a2, p) THEN <<>>
                    ELSE CallAt(n, a1, a2, p) \o f[Onward(a1, a2, p)]]

LEMMA MergedIsWalk ==
  ASSUME NEW n, NEW a1, NEW a2
  PROVE  Merged(n, a1, a2) = Walk(n, a1, a2)[<<1, 1>>]
<1> DEFINE Body(f, p) ==
             LET i == p[1]
                 j == p[2]
             IN IF i > Len(a1) /\ j > Len(a2) THEN <<>>
                ELSE IF i > Len(a1) \/ (j <= Len(a2) /\ a1[i].value > a2[j].value)
                THEN Call("not_yes", n, a2[j].value, FakeNode, a2[j].end) \o f[<<i, j + 1>>]
                ELSE IF j <= Len(a2) /\ a1[i].value = a2[j].value
                THEN Call("yes_yes", n, a1[i].value, a1[i].end, a2[j].end)
                     \o f[<<i + 1, j + 1>>]
                ELSE Call("yes_not", n, a1[i].value, a1[i].end, FakeNode) \o f[<<i + 1, j>>]
           Turn(f, p) == IF AtEnd(a1, a2, p) THEN <<>>
                          ELSE CallAt(n, a1, a2, p) \o f[Onward(a1, a2, p)]
           D == (1..Len(a1) + 1) \X (1..Len(a2) + 1)
<1>1. Merged(n, a1, a2) = (CHOOSE f : f = [p \in D |-> Body(f, p)])[<<1, 1>>]
  BY DEF Merged
<1>2. \A f, p : Body(f, p) = Turn(f, p)
  <2> SUFFICES ASSUME NEW f, NEW p
               PROVE  Body(f, p) = Turn(f, p)
    OBVIOUS
  <2>1. CASE AtEnd(a1, a2, p)
    BY <2>1 DEF AtEnd
  <2>2. CASE ~AtEnd(a1, a2, p) /\ TakesSecond(a1, a2, p)
    BY <2>2 DEF AtEnd, TakesSecond, Onward, CallAt
  <2>3. CASE ~AtEnd(a1, a2, p) /\ ~TakesSecond(a1, a2, p) /\ TakesBoth(a1, a2, p)
    BY <2>3 DEF AtEnd, TakesSecond, TakesBoth, Onward, CallAt
  <2>4. CASE ~AtEnd(a1, a2, p) /\ ~TakesSecond(a1, a2, p) /\ ~TakesBoth(a1, a2, p)
    BY <2>4 DEF AtEnd, TakesSecond, TakesBoth, Onward, CallAt
  <2> QED
    BY <2>1, <2>2, <2>3, <2>4
<1> HIDE DEF Body
<1>3. \A f : [p \in D |-> Body(f, p)] = [p \in D |-> Turn(f, p)]
  BY <1>2
<1>4. (CHOOSE f : f = [p \in D |-> Body(f, p)]) = (CHOOSE f : f = [p \in D |-> Turn(f, p)])
  BY <1>3
<1>5. Walk(n, a1, a2) = (CHOOSE f : f = [p \in D |-> Turn(f, p)])
  BY DEF Walk, Spots
<1> QED
  BY <1>1, <1>4, <1>5

\* The calls for the arcs of a1 from i on and of a2 from j on.
CallType == Label \X Node \X Node

MergesFrom(n, a1, a2, i, j, s) ==
  /\ s \in Seq(CallType)
  /\ \A x, y \in DOMAIN s : x < y => s[x][1] < s[y][1]
  /\ \A x \in DOMAIN s :
       /\ s[x][2] = EndFrom(a1, i, s[x][1])
       /\ s[x][3] = EndFrom(a2, j, s[x][1])
  /\ \A v : (\E x \in DOMAIN s : s[x][1] = v) <=>
              /\ HasLabel(a1, i, v) \/ HasLabel(a2, j, v)
              /\ Wanted(Cond(HasLabel(a1, i, v), HasLabel(a2, j, v)), n)

\* One turn takes the arcs with the smallest label.
LEMMA MergeOne ==
  ASSUME NEW n, NEW a1 \in Seq(Arc), NEW a2 \in Seq(Arc),
         NEW i \in Nat \ {0}, NEW j \in Nat \ {0}, NEW i1 \in Nat \ {0}, NEW j1 \in Nat \ {0},
         NEW s, MergesFrom(n, a1, a2, i1, j1, s),
         NEW v0 \in Label, NEW h1 \in BOOLEAN, NEW h2 \in BOOLEAN, h1 \/ h2,
         \A v : HasLabel(a1, i, v) <=> (h1 /\ v = v0) \/ HasLabel(a1, i1, v),
         \A v : HasLabel(a2, j, v) <=> (h2 /\ v = v0) \/ HasLabel(a2, j1, v),
         \A v : HasLabel(a1, i1, v) \/ HasLabel(a2, j1, v) => v0 < v,
         \A v : v # v0 => /\ EndFrom(a1, i, v) = EndFrom(a1, i1, v)
                          /\ EndFrom(a2, j, v) = EndFrom(a2, j1, v)
  PROVE  MergesFrom(n, a1, a2, i, j,
                    Call(Cond(h1, h2), n, v0, EndFrom(a1, i, v0), EndFrom(a2, j, v0)) \o s)
<1> DEFINE first == <<v0, EndFrom(a1, i, v0), EndFrom(a2, j, v0)>>
           w == Wanted(Cond(h1, h2), n)
           r == Call(Cond(h1, h2), n, v0, EndFrom(a1, i, v0), EndFrom(a2, j, v0)) \o s
           Has1(v) == HasLabel(a1, i1, v)
           Has2(v) == HasLabel(a2, j1, v)
<1>1. v0 \in Nat /\ first \in CallType /\ first[1] = v0
  BY LabelsAreNats, EndTyped DEF CallType
<1>2. ~Has1(v0) /\ ~Has2(v0)
  BY <1>1
<1>3. s \in Seq(CallType) /\ Len(s) \in Nat /\ DOMAIN s = 1..Len(s)
  BY DEF MergesFrom
<1>4. \A x \in DOMAIN s : s[x][1] \in Nat /\ v0 < s[x][1] /\ s[x][1] # v0
  <2> SUFFICES ASSUME NEW x \in DOMAIN s
               PROVE  s[x][1] \in Nat /\ v0 < s[x][1] /\ s[x][1] # v0
    OBVIOUS
  <2>1. s[x] \in CallType
    BY <1>3
  <2>2. s[x][1] \in Nat
    BY <2>1, LabelsAreNats DEF CallType
  <2>3. Has1(s[x][1]) \/ Has2(s[x][1])
    BY DEF MergesFrom
  <2>4. v0 < s[x][1]
    BY <2>3
  <2> QED
    BY <1>1, <2>2, <2>4
<1>5. (HasLabel(a1, i, v0) <=> h1) /\ (HasLabel(a2, j, v0) <=> h2)
  BY <1>2
<1>6. \A v : v # v0 => (HasLabel(a1, i, v) <=> Has1(v)) /\ (HasLabel(a2, j, v) <=> Has2(v))
  OBVIOUS
<1>7. Cond(HasLabel(a1, i, v0), HasLabel(a2, j, v0)) = Cond(h1, h2)
  BY <1>5 DEF Cond
<1>8. ASSUME NEW v, v # v0
      PROVE  Cond(HasLabel(a1, i, v), HasLabel(a2, j, v)) = Cond(Has1(v), Has2(v))
  BY <1>6, <1>8 DEF Cond
<1>9. \A x \in DOMAIN s : /\ s[x][2] = EndFrom(a1, i, s[x][1])
                          /\ s[x][3] = EndFrom(a2, j, s[x][1])
  BY <1>4 DEF MergesFrom
<1>10. \A v : v # v0 => ((\E x \in DOMAIN s : s[x][1] = v) <=>
               /\ HasLabel(a1, i, v) \/ HasLabel(a2, j, v)
               /\ Wanted(Cond(HasLabel(a1, i, v), HasLabel(a2, j, v)), n))
  <2> SUFFICES ASSUME NEW v, v # v0
               PROVE  (\E x \in DOMAIN s : s[x][1] = v) <=>
                        /\ HasLabel(a1, i, v) \/ HasLabel(a2, j, v)
                        /\ Wanted(Cond(HasLabel(a1, i, v), HasLabel(a2, j, v)), n)
    OBVIOUS
  <2>1. (\E x \in DOMAIN s : s[x][1] = v) <=>
          (Has1(v) \/ Has2(v)) /\ Wanted(Cond(Has1(v), Has2(v)), n)
    BY DEF MergesFrom
  <2> QED
    BY <1>6, <1>8, <2>1
<1>11. CASE ~w
  <2>1. Call(Cond(h1, h2), n, v0, EndFrom(a1, i, v0), EndFrom(a2, j, v0)) = <<>>
    BY <1>11 DEF Call
  <2>2. r = s
    BY <1>3, <2>1
  <2>3. ~\E x \in DOMAIN s : s[x][1] = v0
    BY <1>4
  <2>4. ~Wanted(Cond(HasLabel(a1, i, v0), HasLabel(a2, j, v0)), n)
    BY <1>7, <1>11
  <2>5. \A x, y \in DOMAIN s : x < y => s[x][1] < s[y][1]
    BY DEF MergesFrom
  <2>6. \A v : (\E x \in DOMAIN s : s[x][1] = v) <=>
               /\ HasLabel(a1, i, v) \/ HasLabel(a2, j, v)
               /\ Wanted(Cond(HasLabel(a1, i, v), HasLabel(a2, j, v)), n)
    <3> SUFFICES ASSUME NEW v
                 PROVE  (\E x \in DOMAIN s : s[x][1] = v) <=>
                          /\ HasLabel(a1, i, v) \/ HasLabel(a2, j, v)
                          /\ Wanted(Cond(HasLabel(a1, i, v), HasLabel(a2, j, v)), n)
      OBVIOUS
    <3>1. CASE v = v0
      BY <2>3, <2>4, <3>1
    <3>2. CASE v # v0
      BY <1>10, <3>2
    <3> QED
      BY <3>1, <3>2
  <2>7. MergesFrom(n, a1, a2, i, j, s)
    BY <1>3, <1>9, <2>5, <2>6 DEF MergesFrom
  <2> QED
    BY <2>2, <2>7
<1>12. CASE w
  <2>1. r = <<first>> \o s
    BY <1>12 DEF Call
  <2> HIDE DEF first, r
  <2>2. /\ r \in Seq(CallType) /\ Len(r) = Len(s) + 1 /\ r[1] = first
        /\ \A x \in 1..Len(s) + 1 : x # 1 => x - 1 \in 1..Len(s) /\ r[x] = s[x - 1]
    BY <1>1, <1>3, <2>1, ConsFacts
  <2>3. /\ DOMAIN r = 1..Len(s) + 1
        /\ \A x \in DOMAIN r : x = 1 \/ (x - 1 \in DOMAIN s /\ r[x] = s[x - 1])
        /\ \A x \in DOMAIN s : x + 1 \in DOMAIN r /\ r[x + 1] = s[x] /\ x + 1 # 1
    <3>1. DOMAIN r = 1..Len(s) + 1
      BY <1>3, <2>2
    <3>2. \A x \in 1..Len(s) : x + 1 \in 1..Len(s) + 1 /\ x + 1 # 1 /\ (x + 1) - 1 = x
      BY <1>3
    <3> QED
      BY <1>3, <2>2, <3>1, <3>2
  <2>4. ASSUME NEW x \in DOMAIN r, NEW y \in DOMAIN r, x < y
        PROVE  r[x][1] < r[y][1]
    <3>1. y # 1 /\ y - 1 \in DOMAIN s /\ r[y] = s[y - 1] /\ x \in Nat /\ y \in Nat
      BY <1>3, <2>3, <2>4
    <3>2. CASE x = 1
      BY <1>1, <1>4, <2>2, <3>1, <3>2
    <3>3. CASE x # 1
      <4>1. x - 1 \in DOMAIN s /\ r[x] = s[x - 1] /\ x - 1 < y - 1
        BY <2>3, <2>4, <3>1, <3>3
      <4> QED
        BY <3>1, <4>1 DEF MergesFrom
    <3> QED
      BY <3>2, <3>3
  <2>5. ASSUME NEW x \in DOMAIN r
        PROVE  r[x][2] = EndFrom(a1, i, r[x][1]) /\ r[x][3] = EndFrom(a2, j, r[x][1])
    <3>1. CASE x = 1
      BY <2>2, <3>1 DEF first
    <3>2. CASE x # 1
      BY <1>9, <2>3, <3>2
    <3> QED
      BY <3>1, <3>2
  <2>6. \A v : (\E x \in DOMAIN r : r[x][1] = v) <=>
               /\ HasLabel(a1, i, v) \/ HasLabel(a2, j, v)
               /\ Wanted(Cond(HasLabel(a1, i, v), HasLabel(a2, j, v)), n)
    <3> SUFFICES ASSUME NEW v
                 PROVE  (\E x \in DOMAIN r : r[x][1] = v) <=>
                          /\ HasLabel(a1, i, v) \/ HasLabel(a2, j, v)
                          /\ Wanted(Cond(HasLabel(a1, i, v), HasLabel(a2, j, v)), n)
      OBVIOUS
    <3>1. CASE v = v0
      <4>1. 1 \in DOMAIN r /\ r[1][1] = v0
        BY <1>1, <1>3, <2>2, <2>3
      <4>2. Wanted(Cond(HasLabel(a1, i, v0), HasLabel(a2, j, v0)), n)
        BY <1>7, <1>12
      <4> QED
        BY <1>5, <3>1, <4>1, <4>2
    <3>2. CASE v # v0
      <4>1. (\E x \in DOMAIN r : r[x][1] = v) <=> \E x \in DOMAIN s : s[x][1] = v
        <5>1. ASSUME NEW x \in DOMAIN r, r[x][1] = v
              PROVE  \E y \in DOMAIN s : s[y][1] = v
          <6>1. x # 1
            BY <1>1, <2>2, <3>2, <5>1
          <6> QED
            BY <2>3, <5>1, <6>1
        <5>2. ASSUME NEW x \in DOMAIN s, s[x][1] = v
              PROVE  \E y \in DOMAIN r : r[y][1] = v
          BY <2>3, <5>2
        <5> QED
          BY <5>1, <5>2
      <4> QED
        BY <1>10, <3>2, <4>1
    <3> QED
      BY <3>1, <3>2
  <2>7. MergesFrom(n, a1, a2, i, j, r)
    BY <2>2, <2>4, <2>5, <2>6 DEF MergesFrom
  <2> QED
    BY <2>7 DEF r
<1> QED
  BY <1>11, <1>12

\* The walk from p to the end of both lists.
LEMMA SpotFacts ==
  ASSUME NEW n, NEW a1 \in Seq(Arc), NEW a2 \in Seq(Arc), NEW p \in Spots(a1, a2)
  PROVE  /\ Len(a1) \in Nat /\ Len(a2) \in Nat
         /\ p[1] \in 1..Len(a1) + 1 /\ p[2] \in 1..Len(a2) + 1 /\ p = <<p[1], p[2]>>
         /\ ~AtEnd(a1, a2, p) =>
              /\ Onward(a1, a2, p) \in Spots(a1, a2) /\ CallAt(n, a1, a2, p) \in Seq(CallType)
              /\ \/ TakesSecond(a1, a2, p) /\ p[2] \in 1..Len(a2)
                 \/ ~TakesSecond(a1, a2, p) /\ p[1] \in 1..Len(a1)
<1>1. /\ Len(a1) \in Nat /\ Len(a2) \in Nat
      /\ p[1] \in 1..Len(a1) + 1 /\ p[2] \in 1..Len(a2) + 1 /\ p = <<p[1], p[2]>>
  BY DEF Spots
<1>2. FakeNode \in Node
  BY ResultFits
<1>3. ASSUME NEW v \in Label, NEW m1 \in Node, NEW m2 \in Node, NEW cond
      PROVE  Call(cond, n, v, m1, m2) \in Seq(CallType)
  <2>1. <<v, m1, m2>> \in CallType
    BY DEF CallType
  <2>2. << <<v, m1, m2>> >> \in Seq(CallType) /\ <<>> \in Seq(CallType)
    BY <2>1
  <2> QED
    BY <2>2 DEF Call
<1>4. ASSUME ~AtEnd(a1, a2, p), TakesSecond(a1, a2, p)
      PROVE  /\ Onward(a1, a2, p) \in Spots(a1, a2) /\ CallAt(n, a1, a2, p) \in Seq(CallType)
             /\ p[2] \in 1..Len(a2)
  <2>1. p[2] \in 1..Len(a2) /\ p[2] + 1 \in 1..Len(a2) + 1
    BY <1>1, <1>4 DEF AtEnd, TakesSecond
  <2>2. a2[p[2]].value \in Label /\ a2[p[2]].end \in Node
    BY <2>1, ArcIs
  <2>3. Onward(a1, a2, p) \in Spots(a1, a2)
    BY <1>1, <1>4, <2>1 DEF Onward, Spots
  <2>4. CallAt(n, a1, a2, p) \in Seq(CallType)
    BY <1>2, <1>3, <1>4, <2>2 DEF CallAt
  <2> QED
    BY <2>1, <2>3, <2>4
<1>5. ASSUME ~TakesSecond(a1, a2, p)
      PROVE  /\ Onward(a1, a2, p) \in Spots(a1, a2) /\ CallAt(n, a1, a2, p) \in Seq(CallType)
             /\ p[1] \in 1..Len(a1)
  <2>1. p[1] \in 1..Len(a1) /\ p[1] + 1 \in 1..Len(a1) + 1
    BY <1>1, <1>5 DEF TakesSecond
  <2>2. a1[p[1]].value \in Label /\ a1[p[1]].end \in Node
    BY <2>1, ArcIs
  <2>3. TakesBoth(a1, a2, p) => p[2] \in 1..Len(a2) /\ p[2] + 1 \in 1..Len(a2) + 1
    BY <1>1 DEF TakesBoth
  <2>4. TakesBoth(a1, a2, p) => a2[p[2]].end \in Node
    BY <2>3, ArcIs
  <2>5. Onward(a1, a2, p) \in Spots(a1, a2)
    BY <1>1, <1>5, <2>1, <2>3 DEF Onward, Spots
  <2>6. CallAt(n, a1, a2, p) \in Seq(CallType)
    BY <1>2, <1>3, <1>5, <2>2, <2>4 DEF CallAt
  <2> QED
    BY <2>1, <2>5, <2>6
<1> QED
  BY <1>1, <1>4, <1>5

\* One turn of the walk is one of MergeOne.
LEMMA WalkStep ==
  ASSUME NEW n, NEW a1 \in Seq(Arc), NEW a2 \in Seq(Arc), Rises(a1), Rises(a2),
         NEW p \in Spots(a1, a2), ~AtEnd(a1, a2, p), NEW s, NEW q, q = Onward(a1, a2, p),
         MergesFrom(n, a1, a2, q[1], q[2], s)
  PROVE  MergesFrom(n, a1, a2, p[1], p[2], CallAt(n, a1, a2, p) \o s)
<1> DEFINE i == p[1]
           j == p[2]
<1>1. /\ Len(a1) \in Nat /\ Len(a2) \in Nat
      /\ i \in 1..Len(a1) + 1 /\ j \in 1..Len(a2) + 1 /\ p = <<i, j>>
      /\ \/ TakesSecond(a1, a2, p) /\ j \in 1..Len(a2)
         \/ ~TakesSecond(a1, a2, p) /\ i \in 1..Len(a1)
  BY SpotFacts
<1>2. i \in Nat \ {0} /\ j \in Nat \ {0} /\ i + 1 \in Nat \ {0} /\ j + 1 \in Nat \ {0}
  BY <1>1
<1>3. i \notin 1..Len(a1) => \A v : ~HasLabel(a1, i, v) /\ EndFrom(a1, i, v) = FakeNode
  <2> SUFFICES ASSUME i \notin 1..Len(a1)
               PROVE  \A v : ~HasLabel(a1, i, v) /\ EndFrom(a1, i, v) = FakeNode
    OBVIOUS
  <2>1. i \in Nat /\ i > Len(a1)
    BY <1>1
  <2> QED
    BY <2>1, NoSuffix
<1>4. j \notin 1..Len(a2) => \A v : ~HasLabel(a2, j, v) /\ EndFrom(a2, j, v) = FakeNode
  <2> SUFFICES ASSUME j \notin 1..Len(a2)
               PROVE  \A v : ~HasLabel(a2, j, v) /\ EndFrom(a2, j, v) = FakeNode
    OBVIOUS
  <2>1. j \in Nat /\ j > Len(a2)
    BY <1>1
  <2> QED
    BY <2>1, NoSuffix
<1> HIDE DEF i, j
\* The first labels, and those behind them.
<1>5. i \in 1..Len(a1) => /\ a1[i].value \in Label /\ a1[i].value \in Nat
                          /\ \A v : HasLabel(a1, i, v) <=> v = a1[i].value \/ HasLabel(a1, i + 1, v)
                          /\ \A v : HasLabel(a1, i + 1, v) => a1[i].value < v
                          /\ EndFrom(a1, i, a1[i].value) = a1[i].end
                          /\ \A v : v # a1[i].value => EndFrom(a1, i, v) = EndFrom(a1, i + 1, v)
  BY ArcIs, FirstAndRest
<1>6. j \in 1..Len(a2) => /\ a2[j].value \in Label /\ a2[j].value \in Nat
                          /\ \A v : HasLabel(a2, j, v) <=> v = a2[j].value \/ HasLabel(a2, j + 1, v)
                          /\ \A v : HasLabel(a2, j + 1, v) => a2[j].value < v
                          /\ EndFrom(a2, j, a2[j].value) = a2[j].end
                          /\ \A v : v # a2[j].value => EndFrom(a2, j, v) = EndFrom(a2, j + 1, v)
  BY ArcIs, FirstAndRest
<1>7. \A v : /\ HasLabel(a1, i, v) \/ HasLabel(a1, i + 1, v) => v \in Nat
             /\ HasLabel(a2, j, v) \/ HasLabel(a2, j + 1, v) => v \in Nat
  BY <1>2, EndTyped
<1>8. CASE TakesSecond(a1, a2, p)
  <2> DEFINE v0 == a2[j].value
  <2>1. j \in 1..Len(a2) /\ q[1] = i /\ q[2] = j + 1
    BY <1>1, <1>8 DEF Onward, i, j
  <2>2. i \notin 1..Len(a1) \/ (i \in 1..Len(a1) /\ a1[i].value > v0)
    BY <1>1, <1>8 DEF TakesSecond, i, j
  <2>3. \A v : HasLabel(a1, i, v) => v0 < v
    <3>1. CASE i \notin 1..Len(a1)
      BY <1>3, <3>1
    <3>2. CASE i \in 1..Len(a1)
      <4> SUFFICES ASSUME NEW v, HasLabel(a1, i, v)
                   PROVE  v0 < v
        OBVIOUS
      <4>1. v \in Nat /\ v0 \in Nat /\ a1[i].value \in Nat /\ v0 < a1[i].value
        BY <1>5, <1>6, <1>7, <2>1, <2>2, <3>2
      <4>2. v = a1[i].value \/ a1[i].value < v
        BY <1>5, <3>2
      <4> QED
        BY <4>1, <4>2
    <3> QED
      BY <3>1, <3>2
  <2>4. EndFrom(a1, i, v0) = FakeNode /\ EndFrom(a2, j, v0) = a2[j].end
    <3>1. ~HasLabel(a1, i, v0)
      BY <1>6, <2>1, <2>3
    <3> QED
      BY <1>6, <2>1, <3>1 DEF EndFrom
  <2>5. CallAt(n, a1, a2, p) = Call(Cond(FALSE, TRUE), n, v0, EndFrom(a1, i, v0), EndFrom(a2, j, v0))
    BY <1>8, <2>4 DEF CallAt, Cond, i, j
  <2>6. /\ \A v : HasLabel(a1, i, v) <=> (FALSE /\ v = v0) \/ HasLabel(a1, i, v)
        /\ \A v : HasLabel(a2, j, v) <=> (TRUE /\ v = v0) \/ HasLabel(a2, j + 1, v)
        /\ \A v : HasLabel(a1, i, v) \/ HasLabel(a2, j + 1, v) => v0 < v
        /\ \A v : v # v0 => /\ EndFrom(a1, i, v) = EndFrom(a1, i, v)
                            /\ EndFrom(a2, j, v) = EndFrom(a2, j + 1, v)
        /\ v0 \in Label
    BY <1>6, <2>1, <2>3
  <2>7. MergesFrom(n, a1, a2, i, j + 1, s)
    BY <2>1
  <2> HIDE DEF v0
  <2>8. MergesFrom(n, a1, a2, i, j,
                   Call(Cond(FALSE, TRUE), n, v0, EndFrom(a1, i, v0), EndFrom(a2, j, v0)) \o s)
    BY <1>2, <2>6, <2>7, MergeOne
  <2> QED
    BY <2>5, <2>8 DEF i, j
<1>9. CASE ~TakesSecond(a1, a2, p) /\ TakesBoth(a1, a2, p)
  <2> DEFINE v0 == a1[i].value
  <2>1. /\ i \in 1..Len(a1) /\ j \in 1..Len(a2) /\ a2[j].value = v0
        /\ q[1] = i + 1 /\ q[2] = j + 1
    BY <1>1, <1>9 DEF Onward, TakesBoth, i, j
  <2>2. EndFrom(a1, i, v0) = a1[i].end /\ EndFrom(a2, j, v0) = a2[j].end
    BY <1>5, <1>6, <2>1
  <2>3. CallAt(n, a1, a2, p) = Call(Cond(TRUE, TRUE), n, v0, EndFrom(a1, i, v0), EndFrom(a2, j, v0))
    BY <1>9, <2>2 DEF CallAt, Cond, i, j
  <2>4. /\ \A v : HasLabel(a1, i, v) <=> (TRUE /\ v = v0) \/ HasLabel(a1, i + 1, v)
        /\ \A v : HasLabel(a2, j, v) <=> (TRUE /\ v = v0) \/ HasLabel(a2, j + 1, v)
        /\ \A v : HasLabel(a1, i + 1, v) \/ HasLabel(a2, j + 1, v) => v0 < v
        /\ \A v : v # v0 => /\ EndFrom(a1, i, v) = EndFrom(a1, i + 1, v)
                            /\ EndFrom(a2, j, v) = EndFrom(a2, j + 1, v)
        /\ v0 \in Label
    BY <1>5, <1>6, <2>1
  <2>5. MergesFrom(n, a1, a2, i + 1, j + 1, s)
    BY <2>1
  <2> HIDE DEF v0
  <2>6. MergesFrom(n, a1, a2, i, j,
                   Call(Cond(TRUE, TRUE), n, v0, EndFrom(a1, i, v0), EndFrom(a2, j, v0)) \o s)
    BY <1>2, <2>4, <2>5, MergeOne
  <2> QED
    BY <2>3, <2>6 DEF i, j
<1>10. CASE ~TakesSecond(a1, a2, p) /\ ~TakesBoth(a1, a2, p)
  <2> DEFINE v0 == a1[i].value
  <2>1. i \in 1..Len(a1) /\ q[1] = i + 1 /\ q[2] = j
    BY <1>1, <1>10 DEF Onward, i, j
  <2>2. j \notin 1..Len(a2) \/ (j \in 1..Len(a2) /\ v0 < a2[j].value)
    <3> SUFFICES ASSUME j \in 1..Len(a2)
                 PROVE  v0 < a2[j].value
      OBVIOUS
    <3>1. j <= Len(a2) /\ ~(i > Len(a1))
      BY <2>1
    <3>2. ~(v0 > a2[j].value) /\ v0 # a2[j].value
      BY <1>10, <3>1 DEF TakesSecond, TakesBoth, i, j
    <3>3. v0 \in Nat /\ a2[j].value \in Nat
      BY <1>5, <1>6, <2>1
    <3> HIDE DEF v0
    <3> QED
      BY <3>2, <3>3
  <2>3. \A v : HasLabel(a2, j, v) => v0 < v
    <3>1. CASE j \notin 1..Len(a2)
      BY <1>4, <3>1
    <3>2. CASE j \in 1..Len(a2)
      <4> SUFFICES ASSUME NEW v, HasLabel(a2, j, v)
                   PROVE  v0 < v
        OBVIOUS
      <4>1. v \in Nat /\ v0 \in Nat /\ a2[j].value \in Nat /\ v0 < a2[j].value
        BY <1>5, <1>6, <1>7, <2>1, <2>2, <3>2
      <4>2. v = a2[j].value \/ a2[j].value < v
        BY <1>6, <3>2
      <4> QED
        BY <4>1, <4>2
    <3> QED
      BY <3>1, <3>2
  <2>4. EndFrom(a2, j, v0) = FakeNode /\ EndFrom(a1, i, v0) = a1[i].end
    <3>1. ~HasLabel(a2, j, v0)
      BY <1>5, <2>1, <2>3
    <3> QED
      BY <1>5, <2>1, <3>1 DEF EndFrom
  <2>5. CallAt(n, a1, a2, p) = Call(Cond(TRUE, FALSE), n, v0, EndFrom(a1, i, v0), EndFrom(a2, j, v0))
    BY <1>10, <2>4 DEF CallAt, Cond, i, j
  <2>6. /\ \A v : HasLabel(a1, i, v) <=> (TRUE /\ v = v0) \/ HasLabel(a1, i + 1, v)
        /\ \A v : HasLabel(a2, j, v) <=> (FALSE /\ v = v0) \/ HasLabel(a2, j, v)
        /\ \A v : HasLabel(a1, i + 1, v) \/ HasLabel(a2, j, v) => v0 < v
        /\ \A v : v # v0 => /\ EndFrom(a1, i, v) = EndFrom(a1, i + 1, v)
                            /\ EndFrom(a2, j, v) = EndFrom(a2, j, v)
        /\ v0 \in Label
    BY <1>5, <2>1, <2>3
  <2>7. MergesFrom(n, a1, a2, i + 1, j, s)
    BY <2>1
  <2> HIDE DEF v0
  <2>8. MergesFrom(n, a1, a2, i, j,
                   Call(Cond(TRUE, FALSE), n, v0, EndFrom(a1, i, v0), EndFrom(a2, j, v0)) \o s)
    BY <1>2, <2>6, <2>7, MergeOne
  <2> QED
    BY <2>5, <2>8 DEF i, j
<1> QED
  BY <1>8, <1>9, <1>10

\* The calls of addArcAndNode for two ordered lists: in the order of the labels, one
\* for each label that one of the nodes has and of which the flag is wanted.
LEMMA MergedFacts ==
  ASSUME NEW n, NEW a1 \in Seq(Arc), NEW a2 \in Seq(Arc), Rises(a1), Rises(a2)
  PROVE  MergesFrom(n, a1, a2, 1, 1, Merged(n, a1, a2))
<1> DEFINE D == Spots(a1, a2)
           M == Len(a1) + Len(a2)
           H == [p \in D |-> (Len(a1) + 1 - p[1]) + (Len(a2) + 1 - p[2])]
           front == [p \in D |-> IF AtEnd(a1, a2, p) THEN <<>> ELSE CallAt(n, a1, a2, p)]
           next == [p \in D |-> IF AtEnd(a1, a2, p) THEN p ELSE Onward(a1, a2, p)]
<1>1. M \in Nat /\ Len(a1) \in Nat /\ Len(a2) \in Nat
  OBVIOUS
<1>2. ASSUME NEW p \in D
      PROVE  /\ H[p] \in 0..M /\ (H[p] = 0 <=> AtEnd(a1, a2, p))
             /\ ~AtEnd(a1, a2, p) => H[Onward(a1, a2, p)] < H[p]
             /\ ~AtEnd(a1, a2, p) => Onward(a1, a2, p) \in D /\ CallAt(n, a1, a2, p) \in Seq(CallType)
  <2>1. /\ p[1] \in 1..Len(a1) + 1 /\ p[2] \in 1..Len(a2) + 1
        /\ ~AtEnd(a1, a2, p) => Onward(a1, a2, p) \in D /\ CallAt(n, a1, a2, p) \in Seq(CallType)
    BY SpotFacts
  <2>2. \A q \in D : H[q] = (Len(a1) + 1 - q[1]) + (Len(a2) + 1 - q[2])
    OBVIOUS
  <2>3. H[p] \in 0..M /\ (H[p] = 0 <=> AtEnd(a1, a2, p))
    <3>1. ASSUME NEW x \in Nat, NEW y \in Nat, NEW i \in 1..x + 1, NEW j \in 1..y + 1
          PROVE  /\ (x + 1 - i) + (y + 1 - j) \in 0..x + y
                 /\ (x + 1 - i) + (y + 1 - j) = 0 <=> i > x /\ j > y
      OBVIOUS
    <3>2. H[p] = (Len(a1) + 1 - p[1]) + (Len(a2) + 1 - p[2])
      BY <2>2
    <3>3. Len(a1) \in Nat /\ Len(a2) \in Nat /\ M = Len(a1) + Len(a2)
      BY <1>1
    <3> HIDE DEF H, M, D
    <3>4. H[p] \in 0..M
      <4>1. (Len(a1) + 1 - p[1]) + (Len(a2) + 1 - p[2]) \in 0..Len(a1) + Len(a2)
        BY <2>1, <3>1, <3>3
      <4> QED
        BY <3>2, <3>3, <4>1
    <3>5. H[p] = 0 <=> p[1] > Len(a1) /\ p[2] > Len(a2)
      <4>1. /\ Len(a1) \in Nat /\ Len(a2) \in Nat
            /\ p[1] \in 1..Len(a1) + 1 /\ p[2] \in 1..Len(a2) + 1
        BY <2>1, <3>3
      <4>2. (Len(a1) + 1 - p[1]) + (Len(a2) + 1 - p[2]) = 0 <=> p[1] > Len(a1) /\ p[2] > Len(a2)
        BY <3>1, <4>1
      <4> QED
        BY <3>2, <4>2
    <3> QED
      BY <3>4, <3>5 DEF AtEnd
  <2>4. ASSUME ~AtEnd(a1, a2, p)
        PROVE  H[Onward(a1, a2, p)] < H[p]
    <3>1. Onward(a1, a2, p) \in {<<p[1], p[2] + 1>>, <<p[1] + 1, p[2] + 1>>, <<p[1] + 1, p[2]>>}
      BY DEF Onward
    <3>2. /\ <<p[1], p[2] + 1>>[1] = p[1] /\ <<p[1], p[2] + 1>>[2] = p[2] + 1
          /\ <<p[1] + 1, p[2] + 1>>[1] = p[1] + 1 /\ <<p[1] + 1, p[2] + 1>>[2] = p[2] + 1
          /\ <<p[1] + 1, p[2]>>[1] = p[1] + 1 /\ <<p[1] + 1, p[2]>>[2] = p[2]
      OBVIOUS
    <3> DEFINE q == Onward(a1, a2, p)
    <3>3. q \in D
      BY <2>1, <2>4
    <3>4. \/ q[1] = p[1] /\ q[2] = p[2] + 1
          \/ q[1] = p[1] + 1 /\ q[2] = p[2] + 1
          \/ q[1] = p[1] + 1 /\ q[2] = p[2]
      BY <3>1, <3>2
    <3> HIDE DEF q, H
    <3>5. /\ H[q] = (Len(a1) + 1 - q[1]) + (Len(a2) + 1 - q[2])
          /\ H[p] = (Len(a1) + 1 - p[1]) + (Len(a2) + 1 - p[2])
      BY <2>2, <3>3
    <3>6. H[q] < H[p]
      <4>1. ASSUME NEW x \in Nat, NEW y \in Nat, NEW i \in 1..x + 1, NEW j \in 1..y + 1
            PROVE  /\ (x + 1 - i) + (y + 1 - (j + 1)) < (x + 1 - i) + (y + 1 - j)
                   /\ (x + 1 - (i + 1)) + (y + 1 - (j + 1)) < (x + 1 - i) + (y + 1 - j)
                   /\ (x + 1 - (i + 1)) + (y + 1 - j) < (x + 1 - i) + (y + 1 - j)
        OBVIOUS
      <4>2. Len(a1) \in Nat /\ Len(a2) \in Nat
        BY <1>1
      <4> QED
        BY <2>1, <3>4, <3>5, <4>1, <4>2
    <3> QED
      BY <3>6 DEF q
  <2> QED
    BY <2>1, <2>3, <2>4
<1>3. H \in [D -> 0..M]
  <2>1. \A p \in D : (Len(a1) + 1 - p[1]) + (Len(a2) + 1 - p[2]) \in 0..M
    BY <1>2
  <2> QED
    BY <2>1
<1> HIDE DEF H, M, D
<1>4. front \in [D -> Seq(CallType)] /\ next \in [D -> D]
  BY <1>2
<1>5. \A p \in D : /\ next[p] = IF AtEnd(a1, a2, p) THEN p ELSE Onward(a1, a2, p)
                   /\ front[p] = IF AtEnd(a1, a2, p) THEN <<>> ELSE CallAt(n, a1, a2, p)
  OBVIOUS
<1> HIDE DEF front, next
<1>6. \A p \in D : H[p] # 0 => H[next[p]] < H[p]
  BY <1>2, <1>5
<1>7. PICK g \in [D -> Seq(CallType)] :
             \A p \in D : g[p] = IF H[p] = 0 THEN <<>> ELSE front[p] \o g[next[p]]
  <2>1. M \in Nat
    BY <1>1
  <2>2. front \in [D -> Seq(CallType)]
    BY <1>4
  <2>3. next \in [D -> D]
    BY <1>4
  <2>4. H \in [D -> 0..M]
    BY <1>3
  <2>5. Descends(D, H, next)
    BY <1>6 DEF Descends
  <2>6. \E g \in [D -> Seq(CallType)] : WalksTo(g, D, H, front, next)
    BY <2>1, <2>2, <2>3, <2>4, <2>5, WalkExists
  <2> QED
    BY <2>6 DEF WalksTo
<1> DEFINE f == Walk(n, a1, a2)
<1>8. f = [p \in D |-> IF AtEnd(a1, a2, p) THEN <<>>
                       ELSE CallAt(n, a1, a2, p) \o f[Onward(a1, a2, p)]]
  <2>1. \A p \in D : g[p] = IF AtEnd(a1, a2, p) THEN <<>>
                            ELSE CallAt(n, a1, a2, p) \o g[Onward(a1, a2, p)]
    BY <1>2, <1>5, <1>7
  <2>2. g = [p \in D |-> IF AtEnd(a1, a2, p) THEN <<>>
                         ELSE CallAt(n, a1, a2, p) \o g[Onward(a1, a2, p)]]
    BY <1>7, <2>1
  <2> QED
    BY <2>2 DEF Walk, D
<1> HIDE DEF f
<1>9. \A p \in D : f[p] = IF AtEnd(a1, a2, p) THEN <<>>
                          ELSE CallAt(n, a1, a2, p) \o f[Onward(a1, a2, p)]
  BY <1>8
<1> DEFINE T == {h \in 0..M : \A p \in D : H[p] <= h => MergesFrom(n, a1, a2, p[1], p[2], f[p])}
<1>10. ASSUME NEW p \in D, AtEnd(a1, a2, p)
       PROVE  MergesFrom(n, a1, a2, p[1], p[2], f[p])
  <2>1. f[p] = <<>>
    BY <1>9, <1>10
  <2>2. p[1] \in Nat /\ p[1] > Len(a1) /\ p[2] \in Nat /\ p[2] > Len(a2)
    <3>1. p[1] \in 1..Len(a1) + 1 /\ p[2] \in 1..Len(a2) + 1
      BY SpotFacts DEF D
    <3> QED
      BY <1>1, <1>10, <3>1 DEF AtEnd
  <2>3. \A v : ~HasLabel(a1, p[1], v) /\ ~HasLabel(a2, p[2], v)
    BY <2>2, NoSuffix
  <2>4. <<>> \in Seq(CallType) /\ DOMAIN <<>> = {}
    OBVIOUS
  <2> QED
    BY <2>1, <2>3, <2>4 DEF MergesFrom
<1>11. 0 \in T
  BY <1>1, <1>2, <1>10 DEF M
<1>12. ASSUME NEW h \in 0..M - 1, h \in T
       PROVE  h + 1 \in T
  <2> SUFFICES ASSUME NEW p \in D, H[p] <= h + 1, ~AtEnd(a1, a2, p)
               PROVE  MergesFrom(n, a1, a2, p[1], p[2], f[p])
    BY <1>1, <1>10 DEF M
  <2> DEFINE q == Onward(a1, a2, p)
  <2>1. q \in D /\ H[q] < H[p] /\ H[q] \in 0..M /\ H[p] \in 0..M
    BY <1>2
  <2>2. H[q] <= h
    BY <1>1, <2>1 DEF M
  <2>3. MergesFrom(n, a1, a2, q[1], q[2], f[q])
    BY <1>12, <2>1, <2>2
  <2>4. f[p] = CallAt(n, a1, a2, p) \o f[q]
    BY <1>9
  <2> HIDE DEF q
  <2>5. q = Onward(a1, a2, p)
    BY DEF q
  <2>6. MergesFrom(n, a1, a2, p[1], p[2], CallAt(n, a1, a2, p) \o f[q])
    BY <2>3, <2>5, WalkStep DEF D
  <2> QED
    BY <2>4, <2>6
<1>13. M \in T
  <2>1. M \in Nat /\ M \in 0..M
    BY <1>1 DEF M
  <2> HIDE DEF T
  <2> QED
    BY <1>11, <1>12, <2>1, UpTo
<1>14. <<1, 1>> \in D /\ <<1, 1>>[1] = 1 /\ <<1, 1>>[2] = 1
  BY <1>1 DEF D, Spots
<1>15. MergesFrom(n, a1, a2, 1, 1, f[<<1, 1>>])
  <2>1. H[<<1, 1>>] <= M
    BY <1>1, <1>2, <1>14 DEF M
  <2> QED
    BY <1>13, <1>14, <2>1
<1> QED
  BY <1>15, MergedIsWalk DEF f

-----------------------------------------------------------------------------
(***************************************************************************)
(* The operands and the start.                                             *)
(***************************************************************************)
LEMMA OperandFacts ==
  ASSUME operands \in Operands
  PROVE  /\ Own \subseteq Node /\ FakeNode \notin Own /\ IsFiniteSet(Own) /\ FakeNode \in Node
         /\ Side \subseteq Node /\ IsFiniteSet(Side)
         /\ operands.roots \in Own \X Own /\ \A i \in 1..2 : operands.layer[operands.roots[i]] = 0
         /\ \A n \in Own : /\ operands.layer[n] \in Layer /\ operands.arcs[n] \in Seq(Arc)
                           /\ Rises(operands.arcs[n])
                           /\ \A i \in DOMAIN operands.arcs[n] :
                                /\ operands.arcs[n][i].end \in Own
                                /\ operands.layer[operands.arcs[n][i].end] = operands.layer[n] + 1
<1>1. /\ Own \subseteq Node \ {FakeNode} /\ IsFiniteSet(Own)
      /\ operands.roots \in Own \X Own /\ \A i \in 1..2 : operands.layer[operands.roots[i]] = 0
      /\ \A n \in Own : operands.layer[n] \in Layer /\ operands.arcs[n] \in Seq(Arc)
      /\ \A n \in Own : \A i \in DOMAIN operands.arcs[n] :
           /\ operands.arcs[n][i].end \in Own
           /\ operands.layer[operands.arcs[n][i].end] = operands.layer[n] + 1
           /\ i > 1 => operands.arcs[n][i - 1].value < operands.arcs[n][i].value
  BY OperandsAreMDDs DEF Own
<1>2. FakeNode \in Node
  BY ResultFits
<1>3. ASSUME NEW n \in Own
      PROVE  Rises(operands.arcs[n])
  BY <1>1, NeighboursRise
<1>4. IsFiniteSet(Own \cup {FakeNode})
  BY <1>1, FS_AddElement
<1> QED
  BY <1>1, <1>2, <1>3, <1>4 DEF Side

\* The arcs of a node of a couple.
LEMMA SideFacts ==
  ASSUME operands \in Operands, NEW m \in Side
  PROVE  /\ m \in Node /\ SideArcs(operands, m) \in Seq(Arc) /\ Rises(SideArcs(operands, m))
         /\ \A v : Goal(operands, m, v) \in Side
         /\ \A v : Goes(operands, m, v) => v \in Label /\ m \in Own /\ Goal(operands, m, v) \in Own
         /\ \A v : ~Goes(operands, m, v) => Goal(operands, m, v) = FakeNode
         /\ \A v : Goal(operands, m, v) \in Own =>
              Goes(operands, m, v) /\ m \in Own /\ operands.layer[Goal(operands, m, v)] = operands.layer[m] + 1
<1> USE OperandFacts
<1>1. CASE m = FakeNode
  <2>1. SideArcs(operands, m) = <<>> /\ <<>> \in Seq(Arc) /\ DOMAIN <<>> = {} /\ Len(<<>>) = 0
    BY <1>1 DEF SideArcs
  <2>2. 1 \in Nat /\ 1 > Len(SideArcs(operands, m))
    BY <2>1
  <2>3. \A v : ~Goes(operands, m, v) /\ Goal(operands, m, v) = FakeNode
    BY <2>1, <2>2, NoSuffix DEF Goes, Goal
  <2>4. Rises(SideArcs(operands, m))
    BY <2>1 DEF Rises
  <2> QED
    BY <1>1, <2>1, <2>3, <2>4 DEF Side
<1>2. CASE m # FakeNode
  <2>1. m \in Own /\ SideArcs(operands, m) = operands.arcs[m]
    BY <1>2 DEF Side, SideArcs
  <2>2. SideArcs(operands, m) \in Seq(Arc) /\ Rises(SideArcs(operands, m))
    BY <2>1
  <2>3. ASSUME NEW v, Goes(operands, m, v)
        PROVE  /\ v \in Label /\ Goal(operands, m, v) \in Own
               /\ operands.layer[Goal(operands, m, v)] = operands.layer[m] + 1
    <3>1. PICK x \in 1..Len(SideArcs(operands, m)) : SideArcs(operands, m)[x].value = v
      BY <2>3 DEF Goes, HasLabel
    <3>2. Goal(operands, m, v) = SideArcs(operands, m)[x].end
      <4>1. 1 \in Nat \ {0}
        OBVIOUS
      <4> QED
        BY <2>2, <3>1, <4>1, EndIs DEF Goal
    <3>3. x \in DOMAIN operands.arcs[m]
      BY <2>1, <2>2
    <3>4. v \in Label
      BY <2>2, <3>1, ArcIs
    <3> QED
      BY <2>1, <3>2, <3>3, <3>4
  <2>4. ASSUME NEW v, ~Goes(operands, m, v)
        PROVE  Goal(operands, m, v) = FakeNode
    BY <2>4 DEF Goes, Goal, EndFrom
  <2> QED
    BY <2>1, <2>2, <2>3, <2>4 DEF Side
<1> QED
  BY <1>1, <1>2

\* The nodes that Run starts with.
LEMMA InitialNodes ==
  ASSUME ApplyInit
  PROVE  \E root, final \in Node :
           /\ root # final /\ root \notin Side /\ final \notin Side
           /\ alive = Own \cup {FakeNode, root, final}
           /\ varIndex = [n \in Node |-> IF n \in Own THEN operands.layer[n]
                                         ELSE IF n = final THEN Size ELSE 0]
           /\ arcs = [n \in Node |-> IF n \in Own THEN operands.arcs[n] ELSE <<>>]
           /\ nodes = [l \in Layer |-> IF l = 0 THEN <<root>>
                                       ELSE IF l = Size THEN <<final>> ELSE <<>>]
           /\ triplets = << <<root, operands.roots[1], operands.roots[2]>> >>
           /\ nbIn = [n \in Node |-> Cardinality(ArcsInto(n, Own))]
<1> DEFINE root == CHOOSE n \in Node : n \notin Own \cup {FakeNode}
           final == CHOOSE n \in Node : n \notin Own \cup {FakeNode, root}
<1>1. operands \in Operands
  BY DEF ApplyInit
<1>2. PICK x, y \in Node \ (Own \cup {FakeNode}) : x # y
  BY <1>1, ResultFits DEF Own
<1>3. root \in Node /\ root \notin Own \cup {FakeNode}
  <2>1. \E n \in Node : n \notin Own \cup {FakeNode}
    BY <1>2
  <2> QED
    BY <2>1
<1>4. final \in Node /\ final \notin Own \cup {FakeNode, root}
  <2> HIDE DEF root
  <2>1. \E n \in Node : n \notin Own \cup {FakeNode, root}
    BY <1>2
  <2> QED
    BY <2>1
<1>5. /\ alive = Own \cup {FakeNode, root, final}
      /\ varIndex = [n \in Node |-> IF n \in Own THEN operands.layer[n]
                                    ELSE IF n = final THEN Size ELSE 0]
      /\ arcs = [n \in Node |-> IF n \in Own THEN operands.arcs[n] ELSE <<>>]
      /\ nodes = [l \in Layer |-> IF l = 0 THEN <<root>>
                                  ELSE IF l = Size THEN <<final>> ELSE <<>>]
      /\ triplets = << <<root, operands.roots[1], operands.roots[2]>> >>
      /\ nbIn = [n \in Node |-> Cardinality(ArcsInto(n, Own))]
  BY DEF ApplyInit, Own
<1> HIDE DEF root, final
<1> QED
  BY <1>3, <1>4, <1>5 DEF Side

\* Nodes without arcs end no arc's counting.
LEMMA SameInto ==
  ASSUME NEW m, NEW S, NEW T \in SUBSET S, \A n \in S \ T : arcs[n] = <<>>
  PROVE  ArcsInto(m, S) = ArcsInto(m, T)
<1>1. \A n \in S \ T : DOMAIN arcs[n] = {}
  OBVIOUS
<1> QED
  BY <1>1 DEF ArcsInto

LEMMA InitBuild == ApplyInit => Build
<1> SUFFICES ASSUME ApplyInit
             PROVE  Build
  OBVIOUS
<1>1. /\ op \in Operations /\ operands \in Operands /\ phase = "outgoing"
      /\ newV = [n \in Node |-> n] /\ Unallocated
      /\ chains = [n \in Node |-> <<>>] /\ firsts = <<>> /\ seconds = [n \in Node |-> Null]
  BY DEF ApplyInit
<1>2. PICK root, final \in Node :
           /\ root # final /\ root \notin Side /\ final \notin Side
           /\ alive = Own \cup {FakeNode, root, final}
           /\ varIndex = [n \in Node |-> IF n \in Own THEN operands.layer[n]
                                         ELSE IF n = final THEN Size ELSE 0]
           /\ arcs = [n \in Node |-> IF n \in Own THEN operands.arcs[n] ELSE <<>>]
           /\ nodes = [l \in Layer |-> IF l = 0 THEN <<root>>
                                       ELSE IF l = Size THEN <<final>> ELSE <<>>]
           /\ triplets = << <<root, operands.roots[1], operands.roots[2]>> >>
           /\ nbIn = [n \in Node |-> Cardinality(ArcsInto(n, Own))]
  BY InitialNodes
<1>3. /\ Own \subseteq Node /\ FakeNode \notin Own /\ IsFiniteSet(Own) /\ FakeNode \in Node
      /\ operands.roots \in Own \X Own /\ \A i \in 1..2 : operands.layer[operands.roots[i]] = 0
      /\ \A n \in Own : operands.layer[n] \in Layer /\ operands.arcs[n] \in Seq(Arc)
  BY <1>1, OperandFacts
<1>4. 0 \in Layer /\ Size \in Layer /\ 0 # Size /\ 0 < Size /\ ~(Size < Size)
  BY SizeIsPositive DEF Layer
<1>5. Made = {root, final} /\ alive = Side \cup {root, final}
  BY <1>2 DEF Made, Side
<1>6. OwnKept
  BY <1>1, <1>2, <1>3 DEF OwnKept
<1>7. Shape
  <2>1. alive \subseteq Node /\ IsFiniteSet(alive)
    <3>1. IsFiniteSet(Own \cup {FakeNode})
      BY <1>3, FS_AddElement
    <3>2. IsFiniteSet((Own \cup {FakeNode}) \cup {root})
      BY <3>1, FS_AddElement
    <3>3. IsFiniteSet(((Own \cup {FakeNode}) \cup {root}) \cup {final})
      BY <3>2, FS_AddElement
    <3>4. alive = ((Own \cup {FakeNode}) \cup {root}) \cup {final}
      BY <1>2
    <3> QED
      BY <1>2, <1>3, <3>3, <3>4
  <2>2. nodes \in [Layer -> Seq(Node)]
    <3>1. <<root>> \in Seq(Node) /\ <<final>> \in Seq(Node) /\ <<>> \in Seq(Node)
      OBVIOUS
    <3> QED
      BY <1>2, <3>1
  <2>3. varIndex \in [Node -> Layer]
    BY <1>2, <1>3, <1>4
  <2>4. arcs \in [Node -> Seq(Arc)]
    <3>1. <<>> \in Seq(Arc)
      OBVIOUS
    <3> QED
      BY <1>2, <1>3, <3>1
  <2>5. nbIn \in [Node -> Int]
    <3>1. \A n \in Node : Cardinality(ArcsInto(n, Own)) \in Nat
      BY <1>3, <2>4, FewArcsInto
    <3> QED
      BY <1>2, <3>1
  <2>6. varIndex[root] = 0 /\ varIndex[final] = Size
    BY <1>2 DEF Side
  <2>7. ASSUME NEW l \in Layer
        PROVE  IsInjective(nodes[l]) /\ ToSet(nodes[l]) = {n \in Made : varIndex[n] = l}
    <3>1. nodes[l] = IF l = 0 THEN <<root>> ELSE IF l = Size THEN <<final>> ELSE <<>>
      BY <1>2
    <3>2. \A x \in Node : IsInjective(<<x>>) /\ ToSet(<<x>>) = {x}
      BY DEF IsInjective, ToSet
    <3>3. IsInjective(<<>>) /\ ToSet(<<>>) = {}
      BY DEF IsInjective, ToSet
    <3>4. {n \in Made : varIndex[n] = l} = IF l = 0 THEN {root} ELSE IF l = Size THEN {final} ELSE {}
      BY <1>2, <1>4, <1>5, <2>6
    <3> QED
      BY <3>1, <3>2, <3>3, <3>4
  <2>8. Len(nodes[0]) = 1 /\ Len(nodes[Size]) = 1
    BY <1>2, <1>4
  <2>9. \A n \in Node \ Own : arcs[n] = <<>>
    BY <1>2
  <2>10. \A n \in Node \ alive : n \notin Own
    BY <1>2
  <2>11. \A n \in Made : n \notin Own /\ n \in Node
    BY <1>2, <1>5 DEF Side
  <2> QED
    BY <1>1, <2>1, <2>2, <2>3, <2>4, <2>5, <2>7, <2>8, <2>9, <2>10, <2>11 DEF Shape
<1>8. ListTypes
  <2>1. operands.roots[1] \in Node /\ operands.roots[2] \in Node
    BY <1>3
  <2>2. triplets \in Seq(Couple)
    <3>1. <<root, operands.roots[1], operands.roots[2]>> \in Couple
      BY <2>1 DEF Couple
    <3> QED
      BY <1>2, <3>1
  <2>3. <<>> \in Seq(Node \X Nat) /\ <<>> \in Seq(Node)
    OBVIOUS
  <2> QED
    BY <1>1, <2>2, <2>3 DEF ListTypes
<1>9. InCounted
  <2> SUFFICES ASSUME NEW m \in Own
               PROVE  nbIn[m] = Cardinality(ArcsInto(m, alive))
    BY DEF InCounted
  <2>1. nbIn[m] = Cardinality(ArcsInto(m, Own))
    BY <1>2, <1>3
  <2>2. Own \in SUBSET alive /\ \A n \in alive \ Own : arcs[n] = <<>>
    BY <1>2, <1>3
  <2> QED
    BY <2>1, <2>2, SameInto
<1> DEFINE c == [n \in Node |-> operands.roots]
<1>10. c \in [Node -> Node \X Node] /\ \A n \in Node : c[n] = operands.roots
  BY <1>3
<1>11. DOMAIN triplets = {1} /\ triplets[1] = <<root, operands.roots[1], operands.roots[2]>>
  BY <1>2
<1>12. root \in Made /\ varIndex[root] = 0 /\ arcs[root] = <<>> /\ varIndex[final] = Size
  BY <1>2, <1>5 DEF Side
<1>13. Couples(c)
  <2>1. Waiting = {root}
    BY <1>11 DEF Waiting
  <2>2. nodes[0][1] = root
    BY <1>2, <1>4
  <2>3. Coupled(c, root)
    <3>1. \A i \in 1..2 : operands.roots[i] \in Own
      BY <1>3
    <3>2. \A n \in Own : varIndex[n] = operands.layer[n]
      BY <1>2, <1>3
    <3> QED
      BY <1>3, <1>10, <1>12, <3>1, <3>2 DEF Coupled, Side
  <2>4. \A n \in Made : varIndex[n] < Size => n = root
    BY <1>4, <1>5, <1>12
  <2> QED
    BY <1>10, <1>12, <2>1, <2>2, <2>3, <2>4 DEF Couples
<1>14. Work(c, 0)
  <2>1. Listings(c, 0)
    <3>1. TripletLayer(0) = 0
      BY <1>1 DEF TripletLayer
    <3>2. operands.roots = <<operands.roots[1], operands.roots[2]>>
      BY <1>3
    <3> QED
      BY <1>4, <1>10, <1>11, <1>12, <3>1, <3>2 DEF Listings
  <2>2. Chainings(c, 0)
    <3>1. \A m \in Node : chains[m] = <<>>
      BY <1>1
    <3>2. IsInjective(<<>>) /\ ToSet(<<>>) = {}
      BY DEF IsInjective, ToSet
    <3> QED
      BY <1>1, <3>1, <3>2 DEF Chainings
  <2>3. Outgoing
    <3>1. ToSet(firsts) = {}
      BY <1>1 DEF ToSet
    <3> QED
      BY <1>1, <3>1 DEF Outgoing, NoSeconds
  <2> QED
    BY <1>1, <2>1, <2>2, <2>3 DEF Work
<1> HIDE DEF c
<1> QED
  BY <1>1, <1>4, <1>6, <1>7, <1>8, <1>9, <1>13, <1>14 DEF Build

-----------------------------------------------------------------------------
(***************************************************************************)
(* The steps of BuildLayer that leave the diagram alone.                   *)
(***************************************************************************)
LEMMA SameDiagram ==
  ASSUME UNCHANGED <<mddVars, op, operands>>
  PROVE  /\ Own' = Own /\ Side' = Side /\ Made' = Made
         /\ OwnKept => OwnKept'
         /\ Shape => Shape'
         /\ InCounted => InCounted'
<1>1. /\ nodes' = nodes /\ alive' = alive /\ varIndex' = varIndex /\ arcs' = arcs
      /\ nbIn' = nbIn /\ newV' = newV /\ op' = op /\ operands' = operands
  BY DEF mddVars
<1>2. Own' = Own /\ Side' = Side /\ Made' = Made
  BY <1>1 DEF Own, Side, Made
<1>3. OwnKept => OwnKept'
  BY <1>1, <1>2 DEF OwnKept
<1>4. Shape => Shape'
  BY <1>1, <1>2 DEF Shape
<1>5. InCounted => InCounted'
  BY <1>1, <1>2 DEF InCounted, ArcsInto
<1> QED
  BY <1>2, <1>3, <1>4, <1>5

LEMMA SameRest ==
  ASSUME UNCHANGED reduceVars
  PROVE  Unallocated => Unallocated'
BY DEF reduceVars, given, loops, layerVars, packs, radix, modes, Unallocated

\* What is said of the nodes and arcs of the result.
LEMMA SameCouples ==
  ASSUME UNCHANGED <<mddVars, op, operands, triplets, chains>>, NEW c
  PROVE  Couples(c) => Couples(c)'
<1>1. /\ nodes' = nodes /\ alive' = alive /\ varIndex' = varIndex /\ arcs' = arcs
      /\ triplets' = triplets /\ chains' = chains /\ op' = op /\ operands' = operands
  BY DEF mddVars
<1>2. Made' = Made /\ Own' = Own /\ Side' = Side /\ Waiting' = Waiting
  BY <1>1 DEF Own, Side, Made, Waiting
<1>3. \A n, i : Leads(c, n, i)' <=> Leads(c, n, i)
  BY <1>1, <1>2 DEF Leads
<1>4. \A n : Described(c, n)' <=> Described(c, n)
  BY <1>1, <1>3 DEF Described
<1>5. \A n : Coupled(c, n)' <=> Coupled(c, n)
  BY <1>1, <1>2 DEF Coupled
<1> QED
  BY <1>1, <1>2, <1>4, <1>5 DEF Couples

LEMMA NextFirstBuild == Build /\ NextFirst => Build'
<1> SUFFICES ASSUME Build, NextFirst
             PROVE  Build'
  OBVIOUS
<1>1. /\ phase = "layer" /\ firsts # <<>> /\ chains[Head(firsts)] = <<>>
      /\ firsts' = Tail(firsts) /\ seconds' = [n \in Node |-> Null]
      /\ phase' = phase /\ op' = op /\ operands' = operands /\ UNCHANGED mddVars
      /\ UNCHANGED reduceVars /\ triplets' = triplets /\ chains' = chains
  BY DEF NextFirst, Chain
<1>2. /\ OwnKept /\ Shape /\ ListTypes /\ Unallocated /\ InCounted
  BY DEF Build
<1>3. PICK c : Couples(c) /\ \E d \in Layer : Work(c, d)
  BY DEF Build
<1>4. PICK d \in Layer : Work(c, d)
  BY <1>3
<1>5. OwnKept' /\ Shape' /\ InCounted' /\ Made' = Made /\ Side' = Side
  BY <1>1, <1>2, SameDiagram
<1>6. Unallocated'
  BY <1>1, <1>2, SameRest
<1>7. Couples(c)'
  BY <1>1, <1>3, SameCouples
<1>8. /\ nodes' = nodes /\ alive' = alive /\ varIndex' = varIndex /\ arcs' = arcs
  BY <1>1 DEF mddVars
<1>9. Listings(c, d) /\ Chainings(c, d) /\ Layering(c, d)
  BY <1>1, <1>4 DEF Work
<1>10. firsts \in Seq(Node) /\ IsInjective(firsts)
  BY <1>2, <1>9 DEF ListTypes, Chainings
<1>11. /\ Tail(firsts) \in Seq(Node) /\ IsInjective(Tail(firsts))
       /\ ToSet(Tail(firsts)) = ToSet(firsts) \ {Head(firsts)}
  BY <1>1, <1>10, HeadAndTail
<1>12. ListTypes'
  <2>1. [n \in Node |-> Null] \in [Node -> Node \cup {Null}]
    OBVIOUS
  <2> QED
    BY <1>1, <1>2, <1>11, <2>1 DEF ListTypes
<1>13. Listings(c, d)'
  <2>1. TripletLayer(d)' = TripletLayer(d)
    BY <1>1 DEF TripletLayer
  <2> QED
    BY <1>1, <1>5, <1>8, <1>9, <2>1 DEF Listings
<1>14. Chainings(c, d)'
  <2>1. \A m, r : Chained(c, d, m, r)' <=> Chained(c, d, m, r)
    BY <1>1, <1>5, <1>8 DEF Chained
  <2>2. \A m \in Node : chains[m] # <<>> => m \in ToSet(firsts) \ {Head(firsts)}
    BY <1>1, <1>9 DEF Chainings
  <2> QED
    BY <1>1, <1>9, <1>11, <2>1, <2>2 DEF Chainings
<1>15. Layering(c, d)'
  <2>1. \A m \in Node : seconds'[m] = Null
    BY <1>1
  <2>2. ASSUME firsts' # <<>>, NEW i \in DOMAIN triplets
        PROVE  triplets[i][2] \notin ToSet(Tail(firsts')) /\ triplets[i][2] # Head(firsts')
    <3>1. triplets[i][2] \notin ToSet(Tail(firsts))
      BY <1>1, <1>9 DEF Layering
    <3>2. Head(firsts') \in ToSet(Tail(firsts)) /\ ToSet(Tail(firsts')) \subseteq ToSet(Tail(firsts))
      <4>1. firsts' = Tail(firsts) /\ Tail(firsts) # <<>>
        BY <1>1, <2>2
      <4>2. Head(Tail(firsts)) \in ToSet(Tail(firsts))
            /\ ToSet(Tail(Tail(firsts))) = ToSet(Tail(firsts)) \ {Head(Tail(firsts))}
        BY <1>11, <4>1, HeadAndTail
      <4> QED
        BY <4>1, <4>2
    <3> QED
      BY <3>1, <3>2
  <2> QED
    BY <1>1, <2>1, <2>2 DEF Layering, NoSeconds
<1>16. Work(c, d)'
  BY <1>1, <1>13, <1>14, <1>15 DEF Work
<1>17. phase' \in {"outgoing", "layer"}
  BY <1>1
<1> QED
  BY <1>4, <1>5, <1>6, <1>7, <1>12, <1>16, <1>17 DEF Build, Layer

\* The next layer is that of the nodes that were made.
LEMMA EndLayerBuild == Build /\ EndLayer /\ triplets # <<>> => Build'
<1> SUFFICES ASSUME Build, EndLayer, triplets # <<>>
             PROVE  Build'
  OBVIOUS
<1>1. /\ phase = "layer" /\ firsts = <<>> /\ phase' = "outgoing"
      /\ firsts' = firsts /\ seconds' = seconds
      /\ op' = op /\ operands' = operands /\ UNCHANGED mddVars
      /\ UNCHANGED reduceVars /\ triplets' = triplets /\ chains' = chains
  BY DEF EndLayer
<1>2. /\ OwnKept /\ Shape /\ ListTypes /\ Unallocated /\ InCounted
  BY DEF Build
<1>3. PICK c : Couples(c) /\ \E d \in Layer : Work(c, d)
  BY DEF Build
<1>4. PICK d \in Layer : Work(c, d)
  BY <1>3
<1>5. OwnKept' /\ Shape' /\ InCounted' /\ Made' = Made /\ Side' = Side
  BY <1>1, <1>2, SameDiagram
<1>6. Unallocated'
  BY <1>1, <1>2, SameRest
<1>7. Couples(c)'
  BY <1>1, <1>3, SameCouples
<1>8. /\ nodes' = nodes /\ alive' = alive /\ varIndex' = varIndex /\ arcs' = arcs
  BY <1>1 DEF mddVars
<1>9. Listings(c, d) /\ Chainings(c, d) /\ Layering(c, d)
  BY <1>1, <1>4 DEF Work
<1>10. ListTypes'
  BY <1>1, <1>2 DEF ListTypes
<1>11. TripletLayer(d + 1)' = TripletLayer(d) /\ TripletLayer(d) = d + 1
  BY <1>1 DEF TripletLayer
<1>12. d + 1 \in Layer
  <2>1. triplets \in Seq(Couple) /\ 1 \in DOMAIN triplets
    <3>1. triplets \in Seq(Couple)
      BY <1>2 DEF ListTypes
    <3> QED
      BY <3>1
  <2>2. d + 1 < Size
    BY <1>9, <1>11, <2>1 DEF Listings
  <2> QED
    BY <2>2, SizeIsPositive DEF Layer
<1>13. Listings(c, d + 1)'
  BY <1>1, <1>5, <1>8, <1>9, <1>11 DEF Listings
<1>14. Chainings(c, d + 1)'
  <2>1. ToSet(firsts) = {}
    BY <1>1 DEF ToSet
  <2>2. ASSUME NEW m \in Node
        PROVE  chains[m] = <<>>
    <3>1. chains[m] # <<>> => m \in ToSet(firsts)
      BY <1>9 DEF Chainings
    <3> QED
      BY <2>1, <3>1
  <2>3. ToSet(<<>>) = {}
    BY DEF ToSet
  <2> QED
    BY <1>1, <1>9, <2>1, <2>2, <2>3 DEF Chainings
<1>15. Outgoing'
  <2>1. ToSet(firsts) = {}
    BY <1>1 DEF ToSet
  <2> QED
    BY <1>1, <1>9, <2>1 DEF Outgoing, Layering, NoSeconds
<1>16. Work(c, d + 1)'
  BY <1>1, <1>13, <1>14, <1>15 DEF Work
<1> QED
  BY <1>1, <1>5, <1>6, <1>7, <1>10, <1>12, <1>16 DEF Build, Layer

-----------------------------------------------------------------------------
(***************************************************************************)
(* BuildLayer leads the first arc of a chain to the node of its couple.   *)
(***************************************************************************)

\* The arcs of a node that was given its arcs lead to the couples they mean.
LEMMA GoalFacts ==
  ASSUME OwnKept, NEW c, NEW n \in Made, Coupled(c, n), NEW v
  PROVE  \A i \in 1..2 :
           /\ Goals(operands, c[n], v)[i] \in Side
           /\ Goals(operands, c[n], v)[i] \in Own =>
                varIndex[Goals(operands, c[n], v)[i]] = varIndex[n] + 1
<1>1. operands \in Operands /\ \A x \in Own : varIndex[x] = operands.layer[x]
  BY DEF OwnKept
<1>2. ASSUME NEW m \in Side, m \in Own => varIndex[m] = varIndex[n]
      PROVE  /\ Goal(operands, m, v) \in Side
             /\ Goal(operands, m, v) \in Own =>
                  varIndex[Goal(operands, m, v)] = varIndex[n] + 1
  <2>1. /\ Goal(operands, m, v) \in Side
        /\ Goal(operands, m, v) \in Own =>
             m \in Own /\ operands.layer[Goal(operands, m, v)] = operands.layer[m] + 1
    BY <1>1, SideFacts
  <2> QED
    BY <1>1, <1>2, <2>1
<1>3. /\ c[n][1] \in Side /\ (c[n][1] \in Own => varIndex[c[n][1]] = varIndex[n])
      /\ c[n][2] \in Side /\ (c[n][2] \in Own => varIndex[c[n][2]] = varIndex[n])
  BY DEF Coupled
<1>4. /\ Goals(operands, c[n], v)[1] = Goal(operands, c[n][1], v)
      /\ Goals(operands, c[n], v)[2] = Goal(operands, c[n][2], v)
  BY DEF Goals
<1> QED
  BY <1>2, <1>3, <1>4

\* The arc at the head of the chain, and its couple.
Building(c, d) ==
  /\ OwnKept /\ Shape /\ ListTypes /\ Unallocated /\ InCounted /\ Couples(c)
  /\ d \in Layer /\ Listings(c, d) /\ Chainings(c, d) /\ Layering(c, d)
  /\ phase = "layer" /\ firsts # <<>> /\ Chain # <<>>

LEMMA ChainHead ==
  ASSUME NEW c, NEW d, Building(c, d)
  PROVE  LET r == Head(Chain)
             a == arcs[r[1]]
             m == Head(firsts)
         IN /\ r = <<r[1], r[2]>> /\ r[1] \in Made /\ varIndex[r[1]] = d /\ d < Size - 1
            /\ r[1] \in Node /\ r[1] \notin Waiting
            /\ a \in Seq(Arc) /\ r[2] \in 1..Len(a) /\ Second = a[r[2]].end
            /\ m \in Node /\ chains[m] = Chain /\ m \in ToSet(firsts)
            /\ Second \in Side /\ Second \in Node /\ m \in Side
            /\ Goals(operands, c[r[1]], a[r[2]].value) = <<m, Second>>
            /\ Described(c, r[1]) /\ Coupled(c, r[1])
            /\ m \in Own => varIndex[m] = d + 1
            /\ Second \in Own => varIndex[Second] = d + 1
            /\ Tail(Chain) \in Seq(Node \X Nat) /\ IsInjective(Tail(Chain))
            /\ ToSet(Tail(Chain)) = ToSet(Chain) \ {r} /\ r \in ToSet(Chain)
            /\ d + 1 \in Layer /\ d + 1 # 0 /\ d + 1 < Size
<1> DEFINE m == Head(firsts)
           r == Head(Chain)
           n == r[1]
           i == r[2]
           a == arcs[n]
           x == Second
<1>1. /\ OwnKept /\ Shape /\ ListTypes /\ Couples(c)
      /\ d \in Layer /\ Listings(c, d) /\ Chainings(c, d)
      /\ phase = "layer" /\ firsts # <<>> /\ Chain # <<>>
  BY DEF Building
<1>2. firsts \in Seq(Node) /\ chains \in [Node -> Seq(Node \X Nat)]
  BY <1>1 DEF ListTypes
<1>3. m \in Node /\ m \in ToSet(firsts)
  BY <1>1, <1>2, HeadAndTail DEF Chainings
<1>4. chains[m] = Chain /\ Chain \in Seq(Node \X Nat) /\ IsInjective(Chain)
  BY <1>1, <1>2, <1>3 DEF Chain, Chainings
<1>5. /\ r \in Node \X Nat /\ r \in ToSet(Chain)
      /\ Tail(Chain) \in Seq(Node \X Nat) /\ IsInjective(Tail(Chain))
      /\ ToSet(Tail(Chain)) = ToSet(Chain) \ {r}
  BY <1>1, <1>4, HeadAndTail
<1>6. Chained(c, d, m, r)
  BY <1>1, <1>3, <1>4, <1>5 DEF Chainings
<1>7. x = a[i].end
  BY DEF Second
<1> HIDE DEF m, r, x
<1>8. /\ n \in Made /\ varIndex[n] = d /\ d < Size - 1 /\ i \in DOMAIN a /\ a[i].end \in Side
      /\ m = Goal(operands, c[n][1], a[i].value)
  BY <1>6 DEF Chained
<1>9. r = <<n, i>> /\ n \in Node
  BY <1>5
<1>10. a \in Seq(Arc) /\ i \in 1..Len(a)
  BY <1>1, <1>8, <1>9 DEF Shape
<1>11. d \in Nat /\ Size \in Nat /\ d + 1 # Size /\ d # d + 1 /\ d # Size - 1
       /\ d < Size /\ d + 1 < Size /\ d + 1 # 0 /\ d + 1 \in Layer
  BY <1>1, <1>8, SizeIsPositive DEF Layer
<1>12. n \notin Waiting
  <2>1. TripletLayer(d) = d + 1
    BY <1>1 DEF TripletLayer
  <2>2. \A q \in DOMAIN triplets : varIndex[triplets[q][1]] = d + 1
    BY <1>1, <2>1 DEF Listings
  <2> QED
    BY <1>8, <1>11, <2>2 DEF Waiting
<1>13. Described(c, n) /\ Coupled(c, n)
  BY <1>1, <1>8, <1>11, <1>12 DEF Couples
<1>14. x = Goal(operands, c[n][2], a[i].value)
  <2>1. Leads(c, n, i)
    BY <1>8, <1>13 DEF Described
  <2>2. a[i].end \notin Made
    BY <1>8 DEF Made
  <2>3. a[i].end = Goals(operands, c[n], a[i].value)[2]
    BY <1>8, <1>11, <2>1, <2>2 DEF Leads
  <2>4. Goals(operands, c[n], a[i].value)[2] = Goal(operands, c[n][2], a[i].value)
    BY DEF Goals
  <2> QED
    BY <1>7, <2>3, <2>4
<1>15. Goals(operands, c[n], a[i].value) = <<m, x>>
  BY <1>8, <1>14 DEF Goals
<1>16. /\ m \in Side /\ (m \in Own => varIndex[m] = d + 1)
       /\ x \in Side /\ (x \in Own => varIndex[x] = d + 1)
  <2>1. \A j \in 1..2 :
           /\ <<m, x>>[j] \in Side
           /\ <<m, x>>[j] \in Own => varIndex[<<m, x>>[j]] = d + 1
    BY <1>1, <1>8, <1>13, <1>15, GoalFacts
  <2> QED
    BY <2>1
<1>17. x \in Node
  <2>1. Side \subseteq alive /\ alive \subseteq Node
    BY <1>1 DEF OwnKept, Shape, Side
  <2> QED
    BY <1>16, <2>1
<1> QED
  BY <1>3, <1>4, <1>5, <1>7, <1>8, <1>9, <1>10, <1>11, <1>12, <1>13, <1>15, <1>16, <1>17
  DEF m, r, x

\* One arc changes its end.
LEMMA CountsMove ==
  ASSUME Shape, InCounted, OwnKept, NEW n \in Made, NEW i \in 1..Len(arcs[n]),
         NEW s \in Node, s \notin Own,
         arcs' = [arcs EXCEPT ![n] = LedTo(arcs[n], i, s)],
         nbIn' = [[nbIn EXCEPT ![arcs[n][i].end] = @ - 1] EXCEPT ![s] = @ + 1],
         alive' = alive, operands' = operands
  PROVE  InCounted' /\ nbIn' \in [Node -> Int] /\ arcs' \in [Node -> Seq(Arc)]
<1> DEFINE x == arcs[n][i].end
           b == LedTo(arcs[n], i, s)
<1>1. /\ arcs \in [Node -> Seq(Arc)] /\ nbIn \in [Node -> Int]
      /\ alive \subseteq Node /\ IsFiniteSet(alive)
  BY DEF Shape
<1>2. n \in alive /\ n \in Node /\ arcs[n] \in Seq(Arc) /\ x \in Node
  <2>1. n \in alive
    BY DEF Made
  <2> QED
    BY <1>1, <2>1, ArcIs
<1>3. /\ b \in Seq(Arc) /\ Len(b) = Len(arcs[n]) /\ b[i].end = s
      /\ \A j \in 1..Len(arcs[n]) : j # i => b[j] = arcs[n][j]
  <2> DEFINE a == arcs[n]
  <2>1. a \in Seq(Arc) /\ i \in 1..Len(a) /\ b = LedTo(a, i, s)
    BY <1>2
  <2> HIDE DEF a, b
  <2>2. /\ LedTo(a, i, s) \in Seq(Arc) /\ Len(LedTo(a, i, s)) = Len(a)
        /\ LedTo(a, i, s)[i].end = s
        /\ \A j \in 1..Len(a) : j # i => LedTo(a, i, s)[j] = a[j]
    BY <2>1, ArcLed
  <2> QED
    BY <2>1, <2>2 DEF a
<1>4. arcs' = [arcs EXCEPT ![n] = b]
  OBVIOUS
<1>5. nbIn' = [[nbIn EXCEPT ![x] = @ - 1] EXCEPT ![s] = @ + 1]
  OBVIOUS
<1> HIDE DEF b, x
<1>6. arcs' \in [Node -> Seq(Arc)]
  BY <1>1, <1>3, <1>4
<1>7. nbIn' \in [Node -> Int]
  BY <1>1, <1>2, <1>5
<1>8. ASSUME NEW m \in Own
      PROVE  nbIn'[m] = Cardinality(ArcsInto(m, alive)')
  <2> DEFINE I == ArcsInto(m, alive)
             J == ArcsInto(m, alive)'
             Into(q, j) == q \in alive /\ j \in DOMAIN arcs[q] /\ arcs[q][j].end = m
             IntoNow(q, j) == q \in alive /\ j \in DOMAIN arcs'[q] /\ arcs'[q][j].end = m
  <2>1. m \in Node /\ m # s /\ m \in alive
    BY <1>1 DEF OwnKept
  <2>2. nbIn[m] = Cardinality(I) /\ nbIn[m] \in Int
    BY <1>1, <2>1 DEF InCounted
  <2>3. nbIn'[m] = IF m = x THEN nbIn[m] - 1 ELSE nbIn[m]
    BY <1>1, <1>2, <1>5, <2>1
  <2>4. /\ \A p \in I : p = <<p[1], p[2]>> /\ Into(p[1], p[2])
        /\ \A q, j : Into(q, j) => <<q, j>> \in I
    BY DEF ArcsInto
  <2>5. /\ \A p \in J : p = <<p[1], p[2]>> /\ IntoNow(p[1], p[2])
        /\ \A q, j : IntoNow(q, j) => <<q, j>> \in J
    BY DEF ArcsInto
  <2> HIDE DEF I, J
  <2>6. ASSUME NEW q, NEW j
        PROVE  IntoNow(q, j) <=> Into(q, j) /\ <<q, j>> # <<n, i>>
    <3>1. CASE q \notin alive
      BY <3>1
    <3>2. CASE q \in alive /\ q # n
      <4>1. arcs'[q] = arcs[q]
        BY <1>1, <1>4, <3>2
      <4> QED
        BY <3>2, <4>1
    <3>3. CASE q = n
      <4>1. arcs'[n] = b /\ DOMAIN b = 1..Len(arcs[n]) /\ DOMAIN arcs[n] = 1..Len(arcs[n])
        BY <1>1, <1>2, <1>3, <1>4
      <4>2. CASE j = i
        BY <1>3, <2>1, <3>3, <4>1, <4>2
      <4>3. CASE j # i
        BY <1>2, <1>3, <3>3, <4>1, <4>3
      <4> QED
        BY <4>2, <4>3
    <3> QED
      BY <3>1, <3>2, <3>3
  <2>7. Into(n, i) <=> m = x
    <3>1. i \in DOMAIN arcs[n]
      BY <1>2
    <3> QED
      BY <1>2, <3>1 DEF x
  <2> HIDE DEF Into, IntoNow
  <2>8. J = I \ {<<n, i>>}
    <3>1. ASSUME NEW p \in J
          PROVE  p \in I \ {<<n, i>>}
      BY <2>4, <2>5, <2>6
    <3>2. ASSUME NEW p \in I \ {<<n, i>>}
          PROVE  p \in J
      BY <2>4, <2>5, <2>6
    <3> QED
      BY <3>1, <3>2
  <2>9. <<n, i>> \in I <=> m = x
    <3>1. <<n, i>> \in I => Into(n, i)
      <4>1. ASSUME <<n, i>> \in I
            PROVE  Into(n, i)
        <5>1. Into(<<n, i>>[1], <<n, i>>[2])
          BY <2>4, <4>1
        <5> QED
          BY <5>1
      <4> QED
        BY <4>1
    <3> QED
      BY <2>4, <2>7, <3>1
  <2>10. IsFiniteSet(I) /\ Cardinality(I) \in Nat
    BY <1>1, FewArcsInto DEF I
  <2>11. Cardinality(J) = IF <<n, i>> \in I THEN Cardinality(I) - 1 ELSE Cardinality(I)
    BY <2>8, <2>10, FS_RemoveElement
  <2> QED
    BY <2>2, <2>3, <2>9, <2>11 DEF J
<1>9. InCounted'
  <2>1. Own' = Own /\ alive' = alive
    BY DEF Own
  <2> QED
    BY <1>8, <2>1 DEF InCounted
<1> QED
  BY <1>6, <1>7, <1>9

\* LinkCouple: the arc is led to the node made for its couple.
LEMMA LinkCoupleBuild ==
  ASSUME NEW c, NEW d, Building(c, d), LinkCouple
  PROVE  Build'
<1> DEFINE m == Head(firsts)
           r == Head(Chain)
           n == r[1]
           i == r[2]
           a == arcs[n]
           x == Second
           s == seconds[x]
           b == LedTo(a, i, s)
<1>1. /\ OwnKept /\ Shape /\ ListTypes /\ Unallocated /\ InCounted /\ Couples(c)
      /\ d \in Layer /\ Listings(c, d) /\ Chainings(c, d) /\ Layering(c, d)
      /\ phase = "layer" /\ firsts # <<>> /\ Chain # <<>>
  BY DEF Building
<1>2. /\ r = <<n, i>> /\ n \in Made /\ varIndex[n] = d /\ d < Size - 1
      /\ n \in Node /\ n \notin Waiting
      /\ a \in Seq(Arc) /\ i \in 1..Len(a) /\ x = a[i].end
      /\ m \in Node /\ chains[m] = Chain /\ m \in ToSet(firsts)
      /\ x \in Side /\ x \in Node /\ m \in Side
      /\ Goals(operands, c[n], a[i].value) = <<m, x>>
      /\ Described(c, n) /\ Coupled(c, n)
      /\ Tail(Chain) \in Seq(Node \X Nat) /\ IsInjective(Tail(Chain))
      /\ ToSet(Tail(Chain)) = ToSet(Chain) \ {r} /\ r \in ToSet(Chain)
      /\ d + 1 < Size
  BY ChainHead
<1>3. /\ s # Null /\ UpdateArc(n, i, s) /\ chains' = [chains EXCEPT ![m] = Tail(Chain)]
      /\ UNCHANGED reduceVars /\ op' = op /\ operands' = operands /\ phase' = phase
      /\ triplets' = triplets /\ firsts' = firsts /\ seconds' = seconds
  <2>1. /\ s # Null /\ UpdateArc(n, i, s) /\ chains' = [chains EXCEPT ![m] = Tail(chains[m])]
        /\ UNCHANGED reduceVars /\ op' = op /\ operands' = operands /\ phase' = phase
        /\ triplets' = triplets /\ firsts' = firsts /\ seconds' = seconds
    BY DEF LinkCouple
  <2>2. chains[m] = Chain
    BY DEF Chain
  <2> QED
    BY <2>1, <2>2
<1>4. s \in Made /\ varIndex[s] = d + 1 /\ c[s] = <<m, x>>
  <2>1. \A y \in Node : seconds[y] # Null =>
          seconds[y] \in Made /\ varIndex[seconds[y]] = d + 1 /\ c[seconds[y]] = <<m, y>>
    BY <1>1 DEF Layering
  <2> HIDE DEF m, x
  <2>2. x \in Node
    BY <1>2
  <2>3. seconds[x] # Null
    BY <1>3
  <2> QED
    BY <2>1, <2>2, <2>3
<1> HIDE DEF m, r, x, s
<1>5. alive \subseteq Node /\ Side \subseteq alive /\ arcs \in [Node -> Seq(Arc)]
  BY <1>1 DEF Shape, OwnKept, Side
<1>6. s \in Node /\ s \notin Own /\ s \notin Side
  BY <1>4, <1>5 DEF Made, Side
<1>7. /\ arcs' = [arcs EXCEPT ![n] = b]
      /\ nbIn' = [[nbIn EXCEPT ![x] = @ - 1] EXCEPT ![s] = @ + 1]
      /\ nodes' = nodes /\ alive' = alive /\ varIndex' = varIndex /\ newV' = newV
  BY <1>2, <1>3, <1>5 DEF UpdateArc, LedTo
<1>8. /\ b \in Seq(Arc) /\ Len(b) = Len(a) /\ b[i].value = a[i].value /\ b[i].end = s
      /\ \A j \in 1..Len(a) : j # i => b[j] = a[j]
  <2>1. a \in Seq(Arc) /\ i \in 1..Len(a) /\ s \in Node
    BY <1>2, <1>6
  <2> HIDE DEF a, i
  <2> QED
    BY <2>1, ArcLed
<1>9. InCounted' /\ nbIn' \in [Node -> Int] /\ arcs' \in [Node -> Seq(Arc)]
  <2>1. i \in 1..Len(arcs[n]) /\ arcs' = [arcs EXCEPT ![n] = LedTo(arcs[n], i, s)]
        /\ nbIn' = [[nbIn EXCEPT ![arcs[n][i].end] = @ - 1] EXCEPT ![s] = @ + 1]
    BY <1>2, <1>7
  <2> HIDE DEF n, i
  <2> QED
    BY <1>1, <1>2, <1>3, <1>6, <1>7, <2>1, CountsMove
<1> HIDE DEF b
<1>10. arcs'[n] = b /\ \A q \in Node \ {n} : arcs'[q] = arcs[q]
  BY <1>2, <1>5, <1>7
<1> HIDE DEF n, i, a
<1>11. Own' = Own /\ Side' = Side /\ Made' = Made /\ Waiting' = Waiting
  BY <1>3, <1>7 DEF Own, Side, Made, Waiting
<1>12. OwnKept'
  <2>1. \A q \in Side : q # n /\ q \in Node
    BY <1>2, <1>5 DEF Made
  <2>2. \A q \in Side : arcs'[q] = arcs[q]
    BY <1>10, <2>1
  <2> QED
    BY <1>1, <1>3, <1>7, <1>11, <2>2 DEF OwnKept, Side
<1>13. d \in Int /\ Size \in Int /\ varIndex[n] # Size /\ varIndex[n] # Size - 1 /\ d # d + 1
  BY <1>1, <1>2, SizeIsPositive DEF Layer
<1>14. Shape'
  <2>1. \A q \in Node \ alive : arcs'[q] = <<>>
    <3>1. n \in alive
      BY <1>2 DEF Made
    <3> QED
      BY <1>1, <1>10, <3>1 DEF Shape
  <2>2. \A q \in Made : varIndex[q] = Size => arcs'[q] = <<>>
    BY <1>1, <1>5, <1>10, <1>13 DEF Shape, Made
  <2> QED
    BY <1>1, <1>7, <1>9, <1>11, <2>1, <2>2 DEF Shape
<1>15. /\ chains' \in [Node -> Seq(Node \X Nat)] /\ chains'[m] = Tail(Chain)
       /\ \A q \in Node \ {m} : chains'[q] = chains[q]
  BY <1>1, <1>2, <1>3 DEF ListTypes
<1>16. ListTypes'
  BY <1>1, <1>3, <1>15 DEF ListTypes
<1>17. Unallocated'
  BY <1>1, <1>3, SameRest
<1>18. \A q \in Node : ToSet(chains'[q]) = ToSet(chains[q]) \ {r}
  <2> SUFFICES ASSUME NEW q \in Node
               PROVE  ToSet(chains'[q]) = ToSet(chains[q]) \ {r}
    OBVIOUS
  <2>1. CASE q = m
    BY <1>2, <1>15, <2>1
  <2>2. CASE q # m
    <3>1. r \notin ToSet(chains[q])
      <4> SUFFICES ASSUME r \in ToSet(chains[q])
                   PROVE  FALSE
        OBVIOUS
      <4>1. Chained(c, d, q, r)
        BY <1>1 DEF Chainings
      <4>2. q = Goal(operands, c[n][1], a[i].value)
        BY <4>1 DEF Chained, n, i, a
      <4>3. Goals(operands, c[n], a[i].value)[1] = Goal(operands, c[n][1], a[i].value)
        BY DEF Goals
      <4> QED
        BY <1>2, <2>2, <4>2, <4>3
    <3> QED
      BY <1>15, <2>2, <3>1
  <2> QED
    BY <2>1, <2>2
\* The arcs lead where they should.
<1>19. ASSUME NEW q \in Node, NEW j \in DOMAIN arcs'[q]
       PROVE  /\ j \in DOMAIN arcs[q] /\ arcs'[q][j].value = arcs[q][j].value
              /\ <<q, j>> # r => arcs'[q][j] = arcs[q][j]
  <2>1. CASE q = n
    <3>1. DOMAIN b = 1..Len(b) /\ DOMAIN arcs[n] = 1..Len(a)
      BY <1>2, <1>8 DEF a
    <3>2. CASE j = i
      BY <1>2, <1>8, <1>10, <2>1, <3>1, <3>2 DEF a
    <3>3. CASE j # i
      BY <1>2, <1>8, <1>10, <2>1, <3>1, <3>3 DEF a
    <3> QED
      BY <3>2, <3>3
  <2>2. CASE q # n
    BY <1>10, <2>2
  <2> QED
    BY <2>1, <2>2
<1>20. \A q \in Node : DOMAIN arcs'[q] = DOMAIN arcs[q] /\ Len(arcs'[q]) = Len(arcs[q])
  <2> SUFFICES ASSUME NEW q \in Node
               PROVE  DOMAIN arcs'[q] = DOMAIN arcs[q] /\ Len(arcs'[q]) = Len(arcs[q])
    OBVIOUS
  <2>1. CASE q = n
    BY <1>2, <1>8, <1>10, <2>1 DEF a
  <2>2. CASE q # n
    BY <1>10, <2>2
  <2> QED
    BY <2>1, <2>2
<1>21. ASSUME NEW q \in Node, NEW j \in DOMAIN arcs[q], Leads(c, q, j)
       PROVE  Leads(c, q, j)'
  <2>1. arcs'[q][j].value = arcs[q][j].value /\ (<<q, j>> # r => arcs'[q][j] = arcs[q][j])
    BY <1>19, <1>20
  <2>2. CASE <<q, j>> = r
    <3>1. q = n /\ j = i
      BY <1>2, <2>2
    <3>2. /\ arcs'[q][j].end = s /\ arcs'[q][j].value = a[i].value /\ varIndex'[q] = d
          /\ s \in Made' /\ varIndex'[s] = varIndex'[q] + 1
      BY <1>2, <1>4, <1>7, <1>8, <1>10, <1>11, <3>1
    <3>3. c[s] = Goals(operands', c[q], arcs'[q][j].value)
      BY <1>2, <1>3, <1>4, <3>1, <3>2
    <3>4. varIndex'[q] # Size - 1
      BY <1>7, <1>13, <3>1
    <3> QED
      BY <3>2, <3>3, <3>4 DEF Leads
  <2>3. CASE <<q, j>> # r
    <3> DEFINE p == Goals(operands, c[q], arcs[q][j].value)
    <3>1. arcs'[q][j] = arcs[q][j] /\ varIndex' = varIndex /\ nodes' = nodes /\ operands' = operands
      BY <1>3, <1>7, <2>1, <2>3
    <3>2. CASE varIndex[q] = Size - 1
      <4>1. arcs[q][j].end \in ToSet(nodes[Size])
        BY <1>21, <3>2 DEF Leads
      <4> QED
        BY <3>1, <3>2, <4>1 DEF Leads
    <3>3. CASE varIndex[q] # Size - 1
      <4>1. \/ /\ arcs[q][j].end \in Made /\ varIndex[arcs[q][j].end] = varIndex[q] + 1
               /\ c[arcs[q][j].end] = p
            \/ arcs[q][j].end = p[2] /\ <<q, j>> \in ToSet(chains[p[1]])
        BY <1>21, <3>3 DEF Leads
      <4>2. CASE /\ arcs[q][j].end \in Made /\ varIndex[arcs[q][j].end] = varIndex[q] + 1
                 /\ c[arcs[q][j].end] = p
        BY <1>11, <3>1, <3>3, <4>2 DEF Leads
      <4>3. CASE arcs[q][j].end = p[2] /\ <<q, j>> \in ToSet(chains[p[1]])
        <5>1. <<q, j>> \in ToSet(chains'[p[1]])
          <6>1. CASE p[1] \in Node
            BY <1>18, <2>3, <4>3, <6>1
          <6>2. CASE p[1] \notin Node
            <7>1. p[1] # m
              BY <1>2, <6>2
            <7>2. chains'[p[1]] = chains[p[1]]
              BY <1>3, <7>1, <6>2
            <7> QED
              BY <4>3, <7>2
          <6> QED
            BY <6>1, <6>2
        <5> QED
          BY <3>1, <3>3, <4>3, <5>1 DEF Leads
      <4> QED
        BY <4>1, <4>2, <4>3
    <3> QED
      BY <3>2, <3>3
  <2> QED
    BY <2>2, <2>3
<1>22. ASSUME NEW q \in Node, Described(c, q)
       PROVE  Described(c, q)'
  <2>1. Rises(arcs'[q])
    <3>1. Rises(arcs[q]) /\ DOMAIN arcs'[q] = DOMAIN arcs[q]
      BY <1>20, <1>22 DEF Described
    <3>2. \A j \in DOMAIN arcs'[q] : arcs'[q][j].value = arcs[q][j].value
      BY <1>19
    <3> QED
      BY <3>1, <3>2 DEF Rises
  <2>2. \A v : HasLabel(arcs'[q], 1, v) <=> HasLabel(arcs[q], 1, v)
    <3>1. Len(arcs'[q]) = Len(arcs[q]) /\ DOMAIN arcs'[q] = 1..Len(arcs[q])
      BY <1>5, <1>20
    <3>2. \A j \in 1..Len(arcs[q]) : arcs'[q][j].value = arcs[q][j].value
      BY <1>19, <3>1
    <3> QED
      BY <3>1, <3>2 DEF HasLabel
  <2>3. \A v \in Label :
          HasLabel(arcs'[q], 1, v) <=> Wants(op', operands', c[q], varIndex'[q], v)
    BY <1>3, <1>7, <1>22, <2>2 DEF Described
  <2>4. \A j \in DOMAIN arcs'[q] : Leads(c, q, j)'
    BY <1>20, <1>21, <1>22 DEF Described
  <2> QED
    BY <2>1, <2>3, <2>4 DEF Described
<1>23. Couples(c)'
  <2>1. \A q \in Made : q \in Node
    BY <1>5 DEF Made
  <2>2. \A q : Coupled(c, q) => Coupled(c, q)'
    BY <1>7, <1>11 DEF Coupled
  <2> QED
    BY <1>1, <1>3, <1>7, <1>11, <1>22, <2>1, <2>2 DEF Couples
<1>24. Listings(c, d)'
  <2>1. TripletLayer(d)' = TripletLayer(d)
    BY <1>3 DEF TripletLayer
  <2>2. \A q \in DOMAIN triplets : arcs'[triplets[q][1]] = arcs[triplets[q][1]]
    <3> SUFFICES ASSUME NEW q \in DOMAIN triplets
                 PROVE  arcs'[triplets[q][1]] = arcs[triplets[q][1]]
      OBVIOUS
    <3>1. triplets[q][1] \in Waiting /\ triplets[q][1] \in Made
      BY <1>1 DEF Waiting, Listings
    <3> QED
      BY <1>2, <1>5, <1>10, <3>1 DEF Made
  <2> QED
    BY <1>1, <1>3, <1>7, <1>11, <2>1, <2>2 DEF Listings
<1>25. Chainings(c, d)'
  <2>1. IsInjective(firsts') /\ \A q \in Node : IsInjective(chains'[q])
    BY <1>1, <1>2, <1>3, <1>15 DEF Chainings
  <2>2. ASSUME NEW q \in Node, chains'[q] # <<>>
        PROVE  q \in ToSet(firsts')
    BY <1>1, <1>2, <1>3, <1>15, <2>2 DEF Chainings
  <2>3. ASSUME NEW q \in Node, NEW t \in ToSet(chains'[q])
        PROVE  Chained(c, d, q, t)'
    <3>1. t # r /\ t \in ToSet(chains[q])
      BY <1>18
    <3>2. Chained(c, d, q, t)
      BY <1>1, <3>1 DEF Chainings
    <3>3. t \in Node \X Nat
      <4>1. chains[q] \in Seq(Node \X Nat)
        BY <1>1 DEF ListTypes
      <4> QED
        BY <3>1, <4>1 DEF ToSet
    <3>4. /\ t[1] \in Made /\ varIndex[t[1]] = d /\ d < Size - 1
          /\ t[2] \in DOMAIN arcs[t[1]]
          /\ arcs[t[1]][t[2]].end \in Side
          /\ q = Goal(operands, c[t[1]][1], arcs[t[1]][t[2]].value)
      BY <3>2 DEF Chained
    <3>5. arcs'[t[1]][t[2]] = arcs[t[1]][t[2]] /\ DOMAIN arcs'[t[1]] = DOMAIN arcs[t[1]]
      <4>1. t[1] \in Node /\ t = <<t[1], t[2]>> /\ DOMAIN arcs'[t[1]] = DOMAIN arcs[t[1]]
        BY <1>20, <3>3
      <4> QED
        BY <1>19, <3>1, <3>4, <4>1
    <3> QED
      BY <1>3, <1>7, <1>11, <3>4, <3>5 DEF Chained
  <2> QED
    BY <2>1, <2>2, <2>3 DEF Chainings
<1>26. Layering(c, d)'
  BY <1>1, <1>3, <1>7, <1>11 DEF Layering, NoSeconds
<1>27. Work(c, d)'
  BY <1>1, <1>3, <1>24, <1>25, <1>26 DEF Work
<1>28. phase' \in {"outgoing", "layer"}
  BY <1>1, <1>3
<1> QED
  BY <1>1, <1>9, <1>12, <1>14, <1>16, <1>17, <1>23, <1>27, <1>28 DEF Build, Layer

LEMMA TailOfCouple ==
  ASSUME NEW t \in Couple
  PROVE  t = <<t[1], t[2], t[3]>> /\ Tail(t) = <<t[2], t[3]>>
<1>1. PICK p, q, s \in Node : t = <<p, q, s>>
  BY DEF Couple
<1>2. Tail(<<p, q, s>>) = <<q, s>>
  OBVIOUS
<1> QED
  BY <1>1, <1>2

\* NewCouple: a node is made for a couple that has none.
LEMMA NewCoupleBuild ==
  ASSUME NEW c, NEW d, Building(c, d), NewCouple
  PROVE  Build'
<1> DEFINE m == Head(firsts)
           r == Head(Chain)
           x == Second
<1>1. /\ OwnKept /\ Shape /\ ListTypes /\ Unallocated /\ InCounted /\ Couples(c)
      /\ d \in Layer /\ Listings(c, d) /\ Chainings(c, d) /\ Layering(c, d)
      /\ phase = "layer" /\ firsts # <<>> /\ Chain # <<>>
  BY DEF Building
<1>2. /\ varIndex[r[1]] = d /\ m \in Node /\ m \in ToSet(firsts)
      /\ x \in Side /\ x \in Node /\ m \in Side
      /\ m \in Own => varIndex[m] = d + 1
      /\ x \in Own => varIndex[x] = d + 1
      /\ d + 1 \in Layer /\ d + 1 # 0 /\ d + 1 < Size
  BY ChainHead
<1>33. PICK f : f = Fresh
  OBVIOUS
<1>3. /\ seconds[x] = Null /\ alive # Node /\ CreateNode(f, varIndex[r[1]] + 1)
      /\ seconds' = [seconds EXCEPT ![x] = f]
      /\ triplets' = << <<f, m, x>> >> \o triplets
      /\ UNCHANGED reduceVars /\ op' = op /\ operands' = operands /\ phase' = phase
      /\ chains' = chains /\ firsts' = firsts
  BY <1>33 DEF NewCouple
<1>4. alive \subseteq Node /\ Side \subseteq alive /\ arcs \in [Node -> Seq(Arc)]
  BY <1>1 DEF Shape, OwnKept, Side
<1>5. f \in Node /\ f \notin alive
  <2>1. \E n \in Node : n \notin alive
    <3>1. alive # Node
      BY <1>3
    <3> QED
      BY <1>4, <3>1
  <2> QED
    BY <1>33, <2>1 DEF Fresh
<1> HIDE DEF m, r, x
<1>6. /\ alive' = alive \cup {f} /\ varIndex' = [varIndex EXCEPT ![f] = d + 1]
      /\ arcs' = [arcs EXCEPT ![f] = <<>>] /\ nbIn' = [nbIn EXCEPT ![f] = 0]
      /\ newV' = [newV EXCEPT ![f] = f] /\ nodes' = [nodes EXCEPT ![d + 1] = <<f>> \o nodes[d + 1]]
  BY <1>2, <1>3 DEF CreateNode
<1>7. f \notin Side /\ f \notin Made /\ f # x /\ f # m /\ f # Null
  BY <1>2, <1>4, <1>5, NullIsNoNode DEF Made
<1>8. arcs' = arcs /\ arcs[f] = <<>> /\ newV' = newV /\ newV = [n \in Node |-> n]
  <2>1. arcs[f] = <<>> /\ newV = [n \in Node |-> n]
    BY <1>1, <1>5 DEF Shape
  <2>2. arcs' = arcs
    BY <1>4, <1>5, <1>6, <2>1
  <2>3. newV' = newV
    BY <1>5, <1>6, <2>1
  <2> QED
    BY <2>1, <2>2, <2>3
<1>9. /\ varIndex' \in [Node -> Layer] /\ varIndex'[f] = d + 1
      /\ \A n \in Node \ {f} : varIndex'[n] = varIndex[n]
  BY <1>1, <1>2, <1>5, <1>6 DEF Shape
<1>10. Own' = Own /\ Side' = Side /\ Made' = Made \cup {f}
  <2>1. Own' = Own /\ Side' = Side
    BY <1>3 DEF Own, Side
  <2> QED
    BY <1>6, <1>7, <2>1 DEF Made
<1>11. d \in Int /\ Size \in Int /\ d + 1 # Size /\ d # d + 1
  BY <1>1, <1>2, SizeIsPositive DEF Layer
<1>12. OwnKept'
  <2>1. \A n \in Own : n \in Node /\ n # f
    BY <1>4, <1>7 DEF Side
  <2>2. \A n \in Own : varIndex'[n] = varIndex[n]
    BY <1>9, <2>1
  <2> QED
    BY <1>1, <1>3, <1>6, <1>8, <1>10, <2>2 DEF OwnKept
<1>13. /\ nodes' \in [Layer -> Seq(Node)]
       /\ IsInjective(nodes'[d + 1]) /\ ToSet(nodes'[d + 1]) = ToSet(nodes[d + 1]) \cup {f}
       /\ \A l \in Layer \ {d + 1} : nodes'[l] = nodes[l]
  <2>1. /\ nodes \in [Layer -> Seq(Node)] /\ IsInjective(nodes[d + 1])
        /\ ToSet(nodes[d + 1]) \subseteq Made
    BY <1>1, <1>2 DEF Shape
  <2> DEFINE s == nodes[d + 1]
  <2>2. s \in Seq(Node) /\ IsInjective(s) /\ f \notin ToSet(s)
    BY <1>2, <1>7, <2>1
  <2> HIDE DEF s
  <2>3. /\ <<f>> \o s \in Seq(Node) /\ IsInjective(<<f>> \o s)
        /\ ToSet(<<f>> \o s) = ToSet(s) \cup {f}
    BY <1>5, <2>2, ConsSet
  <2>4. nodes' = [nodes EXCEPT ![d + 1] = <<f>> \o s]
    BY <1>6 DEF s
  <2> DEFINE u == <<f>> \o s
  <2> HIDE DEF u
  <2>5. nodes' = [nodes EXCEPT ![d + 1] = u] /\ u \in Seq(Node)
    BY <2>3, <2>4 DEF u
  <2>6. /\ nodes' \in [Layer -> Seq(Node)] /\ nodes'[d + 1] = u
        /\ \A l \in Layer \ {d + 1} : nodes'[l] = nodes[l]
    BY <1>2, <2>1, <2>5
  <2> QED
    BY <2>3, <2>6 DEF u, s
<1>14. Shape'
  <2>1. alive' \subseteq Node /\ IsFiniteSet(alive')
    <3>1. IsFiniteSet(alive)
      BY <1>1 DEF Shape
    <3> QED
      BY <1>4, <1>5, <1>6, <3>1, FS_AddElement
  <2>2. nbIn' \in [Node -> Int]
    <3>1. nbIn \in [Node -> Int] /\ 0 \in Int
      BY <1>1 DEF Shape
    <3> QED
      BY <1>6, <3>1
  <2>3. \A n \in Made : n \in Node /\ n # f /\ varIndex'[n] = varIndex[n]
    BY <1>4, <1>7, <1>9 DEF Made
  <2>4. ASSUME NEW l \in Layer
        PROVE  IsInjective(nodes'[l]) /\ ToSet(nodes'[l]) = {n \in Made' : varIndex'[n] = l}
    <3>1. IsInjective(nodes[l]) /\ ToSet(nodes[l]) = {n \in Made : varIndex[n] = l}
      BY <1>1 DEF Shape
    <3>2. {n \in Made' : varIndex'[n] = l} =
            {n \in Made : varIndex[n] = l} \cup (IF l = d + 1 THEN {f} ELSE {})
      BY <1>9, <1>10, <2>3
    <3>3. CASE l = d + 1
      BY <1>13, <3>1, <3>2, <3>3
    <3>4. CASE l # d + 1
      BY <1>13, <3>1, <3>2, <3>4
    <3> QED
      BY <3>3, <3>4
  <2>5. nodes'[0] = nodes[0] /\ nodes'[Size] = nodes[Size]
    <3>1. 0 \in Layer \ {d + 1} /\ Size \in Layer \ {d + 1}
      BY <1>2, <1>11, SizeIsPositive DEF Layer
    <3> QED
      BY <1>13, <3>1
  <2>6. \A n \in Node \ alive' : arcs'[n] = <<>>
    BY <1>1, <1>6, <1>8 DEF Shape
  <2>7. \A n \in Made' : varIndex'[n] = Size => arcs'[n] = <<>>
    BY <1>1, <1>8, <1>10, <2>3 DEF Shape
  <2> QED
    BY <1>1, <1>8, <1>9, <1>13, <2>1, <2>2, <2>4, <2>5, <2>6, <2>7 DEF Shape
<1>15. InCounted'
  <2> SUFFICES ASSUME NEW n \in Own
               PROVE  nbIn'[n] = Cardinality(ArcsInto(n, alive)')
    BY <1>10 DEF InCounted
  <2>1. nbIn[n] = Cardinality(ArcsInto(n, alive)) /\ n \in Node /\ n # f
    BY <1>1, <1>4, <1>7 DEF InCounted, Side
  <2>2. nbIn'[n] = nbIn[n]
    <3>1. nbIn \in [Node -> Int]
      BY <1>1 DEF Shape
    <3> QED
      BY <1>6, <2>1, <3>1
  <2>3. ArcsInto(n, alive)' = ArcsInto(n, alive)
    <3>1. ArcsInto(n, alive \cup {f}) = ArcsInto(n, alive)
      <4>1. \A q \in (alive \cup {f}) \ alive : arcs[q] = <<>>
        BY <1>8
      <4>2. alive \in SUBSET (alive \cup {f})
        OBVIOUS
      <4> DEFINE S == alive \cup {f}
      <4> HIDE DEF S
      <4>3. alive \in SUBSET S /\ \A q \in S \ alive : arcs[q] = <<>>
        BY <4>1, <4>2 DEF S
      <4>4. ArcsInto(n, S) = ArcsInto(n, alive)
        BY <4>3, SameInto
      <4> QED
        BY <4>4 DEF S
    <3>2. ArcsInto(n, alive)' = ArcsInto(n, alive \cup {f})
      BY <1>6, <1>8 DEF ArcsInto
    <3> QED
      BY <3>1, <3>2
  <2> QED
    BY <2>1, <2>2, <2>3
<1>16. /\ triplets' \in Seq(Couple) /\ DOMAIN triplets = 1..Len(triplets) /\ Len(triplets) \in Nat
       /\ DOMAIN triplets' = 1..Len(triplets) + 1 /\ triplets'[1] = <<f, m, x>>
       /\ \A i \in 1..Len(triplets) + 1 : i # 1 =>
            i - 1 \in 1..Len(triplets) /\ triplets'[i] = triplets[i - 1]
  <2> DEFINE t == <<f, m, x>>
             s == triplets
  <2>1. t \in Couple /\ s \in Seq(Couple)
    BY <1>1, <1>2, <1>5 DEF Couple, ListTypes
  <2> DEFINE u == <<t>> \o s
  <2>2. triplets' = u
    BY <1>3
  <2> HIDE DEF t, s
  <2>3. /\ u \in Seq(Couple) /\ Len(u) = Len(s) + 1 /\ u[1] = t
        /\ \A i \in 1..Len(s) + 1 : i # 1 => i - 1 \in 1..Len(s) /\ u[i] = s[i - 1]
    BY <2>1, ConsFacts
  <2> HIDE DEF u
  <2>4. DOMAIN u = 1..Len(s) + 1 /\ DOMAIN s = 1..Len(s) /\ Len(s) \in Nat
    BY <2>1, <2>3
  <2> QED
    BY <2>2, <2>3, <2>4 DEF t, s
<1>17. ListTypes'
  <2>1. seconds' \in [Node -> Node \cup {Null}]
    BY <1>1, <1>2, <1>3, <1>5 DEF ListTypes
  <2> QED
    BY <1>1, <1>3, <1>16, <2>1 DEF ListTypes
<1>18. Unallocated'
  BY <1>1, <1>3, SameRest
<1>19. PICK g : /\ g \in [Node -> Node \X Node] /\ g[f] = <<m, x>>
                /\ \A n \in Node \ {f} : g[n] = c[n]
  <2> DEFINE h == [c EXCEPT ![f] = <<m, x>>]
  <2>1. /\ h \in [Node -> Node \X Node] /\ h[f] = <<m, x>>
        /\ \A n \in Node \ {f} : h[n] = c[n]
    BY <1>1, <1>2, <1>5 DEF Couples
  <2> HIDE DEF h
  <2> QED
    BY <2>1
<1>20. ASSUME NEW n \in Made
       PROVE  n \in Node /\ n # f /\ n \in Made' /\ g[n] = c[n] /\ varIndex'[n] = varIndex[n]
  <2>1. n \in Node /\ n # f
    BY <1>4, <1>7 DEF Made
  <2> QED
    BY <1>9, <1>10, <1>19, <2>1
<1>21. \A q \in Side : q \in Node /\ q # f /\ varIndex'[q] = varIndex[q]
  BY <1>4, <1>7, <1>9
<1>22. ASSUME NEW n \in Made, Coupled(c, n)
       PROVE  Coupled(g, n)'
  BY <1>10, <1>20, <1>21, <1>22 DEF Coupled, Side
<1>23. Coupled(g, f)'
  <2>1. g[f][1] = m /\ g[f][2] = x
    BY <1>19
  <2>2. /\ m \in Side' /\ (m \in Own' => varIndex'[m] = varIndex'[f])
        /\ x \in Side' /\ (x \in Own' => varIndex'[x] = varIndex'[f])
    BY <1>2, <1>9, <1>10, <1>21
  <2> QED
    BY <2>1, <2>2 DEF Coupled
<1>24. Waiting' = Waiting \cup {f}
  <2>1. ASSUME NEW n \in Waiting'
        PROVE  n \in Waiting \cup {f}
    <3>1. PICK i \in DOMAIN triplets' : n = triplets'[i][1]
      BY DEF Waiting
    <3>2. CASE i = 1
      BY <1>16, <3>1, <3>2
    <3>3. CASE i # 1
      <4>1. i - 1 \in DOMAIN triplets /\ triplets'[i] = triplets[i - 1]
        BY <1>16, <3>3
      <4> QED
        BY <3>1, <4>1 DEF Waiting
    <3> QED
      BY <3>2, <3>3
  <2>2. f \in Waiting'
    <3>1. 1 \in DOMAIN triplets' /\ triplets'[1][1] = f
      BY <1>16
    <3> QED
      BY <3>1 DEF Waiting
  <2>3. ASSUME NEW n \in Waiting
        PROVE  n \in Waiting'
    <3>1. PICK i \in DOMAIN triplets : n = triplets[i][1]
      BY DEF Waiting
    <3>2. i + 1 \in DOMAIN triplets' /\ i + 1 # 1 /\ (i + 1) - 1 = i
      BY <1>16
    <3>3. triplets'[i + 1] = triplets[i]
      BY <1>16, <3>2
    <3> QED
      BY <3>1, <3>2, <3>3 DEF Waiting
  <2> QED
    BY <2>1, <2>2, <2>3
<1>25. ASSUME NEW n \in Made, NEW i \in DOMAIN arcs[n], Leads(c, n, i)
       PROVE  Leads(g, n, i)'
  <2> DEFINE a == arcs[n][i]
             p == Goals(operands, c[n], a.value)
  <2>1. /\ arcs'[n][i] = a /\ operands' = operands /\ g[n] = c[n] /\ varIndex'[n] = varIndex[n]
        /\ chains' = chains /\ nodes'[Size] = nodes[Size]
    <3>1. Size \in Layer \ {d + 1}
      BY <1>11, SizeIsPositive DEF Layer
    <3> QED
      BY <1>3, <1>8, <1>13, <1>20, <3>1
  <2>2. CASE varIndex[n] = Size - 1
    <3>1. a.end \in ToSet(nodes[Size])
      BY <1>25, <2>2 DEF Leads
    <3> QED
      BY <2>1, <2>2, <3>1 DEF Leads
  <2>3. CASE varIndex[n] # Size - 1
    <3>1. \/ a.end \in Made /\ varIndex[a.end] = varIndex[n] + 1 /\ c[a.end] = p
          \/ a.end = p[2] /\ <<n, i>> \in ToSet(chains[p[1]])
      BY <1>25, <2>3 DEF Leads
    <3>2. CASE a.end \in Made /\ varIndex[a.end] = varIndex[n] + 1 /\ c[a.end] = p
      <4>1. a.end \in Made' /\ g[a.end] = p /\ varIndex'[a.end] = varIndex'[n] + 1
        BY <1>20, <2>1, <3>2
      <4> QED
        BY <2>1, <2>3, <4>1 DEF Leads
    <3>3. CASE a.end = p[2] /\ <<n, i>> \in ToSet(chains[p[1]])
      BY <2>1, <2>3, <3>3 DEF Leads
    <3> QED
      BY <3>1, <3>2, <3>3
  <2> QED
    BY <2>2, <2>3
<1>26. ASSUME NEW n \in Made, Described(c, n)
       PROVE  Described(g, n)'
  BY <1>3, <1>8, <1>20, <1>25, <1>26 DEF Described
<1>27. Couples(g)'
  <2>1. nodes'[0] = nodes[0] /\ nodes[0][1] \in Made
    <3>1. 0 \in Layer \ {d + 1}
      BY <1>2, SizeIsPositive DEF Layer
    <3>2. Len(nodes[0]) = 1 /\ nodes[0] \in Seq(Node) /\ ToSet(nodes[0]) \subseteq Made
      BY <1>1, <3>1 DEF Shape
    <3>3. nodes[0][1] \in ToSet(nodes[0])
      BY <3>2 DEF ToSet
    <3> QED
      BY <1>13, <3>1, <3>2, <3>3
  <2>2. g[nodes'[0][1]] = operands'.roots
    BY <1>1, <1>3, <1>20, <2>1 DEF Couples
  <2>3. \A n \in Made' : varIndex'[n] < Size => Coupled(g, n)'
    <3> SUFFICES ASSUME NEW n \in Made', varIndex'[n] < Size
                 PROVE  Coupled(g, n)'
      OBVIOUS
    <3>1. CASE n = f
      BY <1>23, <3>1
    <3>2. CASE n # f
      <4>1. n \in Made /\ varIndex[n] < Size
        BY <1>10, <1>20, <3>2
      <4> QED
        BY <1>1, <1>22, <4>1 DEF Couples
    <3> QED
      BY <3>1, <3>2
  <2>4. \A n \in Made' \ Waiting' : varIndex'[n] < Size => Described(g, n)'
    <3> SUFFICES ASSUME NEW n \in Made' \ Waiting', varIndex'[n] < Size
                 PROVE  Described(g, n)'
      OBVIOUS
    <3>1. n # f /\ n \notin Waiting
      BY <1>24
    <3>2. n \in Made /\ varIndex[n] < Size
      BY <1>10, <1>20, <3>1
    <3> QED
      BY <1>1, <1>26, <3>1, <3>2 DEF Couples
  <2> QED
    BY <1>19, <2>2, <2>3, <2>4 DEF Couples
<1>28. Listings(g, d)'
  <2>1. TripletLayer(d)' = d + 1 /\ TripletLayer(d) = d + 1
    BY <1>1, <1>3 DEF TripletLayer
  <2>2. ASSUME NEW i \in DOMAIN triplets
        PROVE  LET t == triplets[i] IN
               /\ t[1] \in Made /\ varIndex[t[1]] = d + 1 /\ arcs[t[1]] = <<>>
               /\ c[t[1]] = <<t[2], t[3]>>
               /\ t[2] = m => t[3] # x
               /\ t = <<t[1], t[2], t[3]>> /\ Tail(t) = <<t[2], t[3]>>
    <3>1. triplets[i] \in Couple
      BY <1>1 DEF ListTypes
    <3>2. triplets[i] = <<triplets[i][1], triplets[i][2], triplets[i][3]>>
      BY <3>1 DEF Couple
    <3>4. Tail(triplets[i]) = <<triplets[i][2], triplets[i][3]>>
      BY <3>1, TailOfCouple
    <3>5. triplets[i][2] = Head(firsts) => seconds[triplets[i][3]] # Null
      BY <1>1 DEF Layering
    <3>6. triplets[i][2] = m => triplets[i][3] # x
      BY <1>3, <3>5 DEF m
    <3> QED
      BY <1>1, <2>1, <3>2, <3>4, <3>6 DEF Listings
  <2>3. ASSUME NEW i \in DOMAIN triplets'
        PROVE  LET t == triplets'[i] IN
               /\ t[1] \in Made' /\ varIndex'[t[1]] = TripletLayer(d)' /\ TripletLayer(d)' < Size
               /\ arcs'[t[1]] = <<>> /\ g[t[1]] = <<t[2], t[3]>>
    <3>1. CASE i = 1
      BY <1>2, <1>8, <1>9, <1>10, <1>16, <1>19, <2>1, <3>1
    <3>2. CASE i # 1
      <4>1. i - 1 \in DOMAIN triplets /\ triplets'[i] = triplets[i - 1]
        BY <1>16, <3>2
      <4> DEFINE t == triplets[i - 1]
      <4>2. t[1] \in Made /\ varIndex[t[1]] = d + 1 /\ arcs[t[1]] = <<>> /\ c[t[1]] = <<t[2], t[3]>>
        BY <2>2, <4>1
      <4> HIDE DEF t
      <4>3. triplets'[i] = t
        BY <4>1 DEF t
      <4>4. t[1] \in Made' /\ varIndex'[t[1]] = d + 1 /\ arcs'[t[1]] = <<>> /\ g[t[1]] = <<t[2], t[3]>>
        BY <1>8, <1>20, <4>2
      <4> QED
        BY <1>2, <2>1, <4>3, <4>4
    <3> QED
      BY <3>1, <3>2
  <2>4. ASSUME NEW i \in DOMAIN triplets', i # 1
        PROVE  /\ triplets'[i][1] # triplets'[1][1]
               /\ Tail(triplets'[i]) # Tail(triplets'[1])
    <3>1. i - 1 \in DOMAIN triplets /\ triplets'[i] = triplets[i - 1]
      BY <1>16, <2>4
    <3> DEFINE t == triplets[i - 1]
    <3>2. t[1] \in Made /\ (t[2] = m => t[3] # x) /\ Tail(t) = <<t[2], t[3]>>
      BY <2>2, <3>1
    <3> HIDE DEF t
    <3>3. triplets'[i] = t
      BY <3>1 DEF t
    <3>4. triplets'[1][1] = f /\ Tail(triplets'[1]) = <<m, x>>
      <4>1. triplets'[1] = <<f, m, x>> /\ \A p, q, s : Tail(<<p, q, s>>) = <<q, s>>
        BY <1>16
      <4> QED
        BY <4>1
    <3>5. t[1] # f
      BY <1>20, <3>2
    <3>6. <<t[2], t[3]>> # <<m, x>>
      BY <3>2
    <3> QED
      BY <3>2, <3>3, <3>4, <3>5, <3>6
  <2>5. ASSUME NEW i \in DOMAIN triplets', NEW j \in DOMAIN triplets',
               triplets'[i][1] = triplets'[j][1] \/ Tail(triplets'[i]) = Tail(triplets'[j])
        PROVE  i = j
    <3>1. CASE i = 1 \/ j = 1
      <4>1. CASE i = 1
        BY <2>4, <2>5, <4>1
      <4>2. CASE j = 1
        BY <2>4, <2>5, <4>2
      <4> QED
        BY <3>1, <4>1, <4>2
    <3>2. CASE i # 1 /\ j # 1
      <4>1. /\ i - 1 \in DOMAIN triplets /\ triplets'[i] = triplets[i - 1]
            /\ j - 1 \in DOMAIN triplets /\ triplets'[j] = triplets[j - 1]
        BY <1>16, <3>2
      <4>2. \/ triplets[i - 1][1] = triplets[j - 1][1]
            \/ Tail(triplets[i - 1]) = Tail(triplets[j - 1])
        BY <2>5, <4>1
      <4>3. i - 1 = j - 1
        BY <1>1, <4>1, <4>2 DEF Listings
      <4> QED
        BY <1>16, <4>3
    <3> QED
      BY <3>1, <3>2
  <2> QED
    BY <2>3, <2>5 DEF Listings
<1>29. Chainings(g, d)'
  <2>1. ASSUME NEW q \in Node, NEW t \in ToSet(chains[q])
        PROVE  Chained(g, d, q, t)'
    <3>1. Chained(c, d, q, t)
      BY <1>1 DEF Chainings
    <3> QED
      BY <1>3, <1>8, <1>10, <1>20, <3>1 DEF Chained
  <2> QED
    BY <1>1, <1>3, <2>1 DEF Chainings
<1>30. Layering(g, d)'
  <2>1. ASSUME NEW i \in DOMAIN triplets'
        PROVE  /\ triplets'[i][2] \notin ToSet(Tail(firsts))
               /\ triplets'[i][2] = m => seconds'[triplets'[i][3]] # Null
    <3>1. seconds \in [Node -> Node \cup {Null}] /\ firsts \in Seq(Node) /\ IsInjective(firsts)
      BY <1>1 DEF ListTypes, Chainings
    <3>2. CASE i = 1
      <4>1. triplets'[i][2] = m /\ triplets'[i][3] = x
        BY <1>16, <3>2
      <4>2. m \notin ToSet(Tail(firsts))
        BY <1>1, <3>1, HeadAndTail DEF m
      <4>3. seconds'[x] = f
        BY <1>2, <1>3, <3>1
      <4> QED
        BY <1>7, <4>1, <4>2, <4>3
    <3>3. CASE i # 1
      <4>1. i - 1 \in DOMAIN triplets /\ triplets'[i] = triplets[i - 1]
        BY <1>16, <3>3
      <4> DEFINE t == triplets[i - 1]
      <4>2. t[2] \notin ToSet(Tail(firsts)) /\ (t[2] = m => seconds[t[3]] # Null)
        BY <1>1, <4>1 DEF Layering, m
      <4>3. t[3] \in Node
        <5>1. t \in Couple
          BY <1>1, <4>1 DEF ListTypes
        <5> QED
          BY <5>1 DEF Couple
      <4>4. seconds'[t[3]] = IF t[3] = x THEN f ELSE seconds[t[3]]
        BY <1>2, <1>3, <3>1, <4>3
      <4> HIDE DEF t
      <4>5. triplets'[i] = t
        BY <4>1 DEF t
      <4> QED
        BY <1>7, <4>2, <4>4, <4>5
    <3> QED
      BY <3>2, <3>3
  <2>2. ASSUME NEW q \in Node, seconds'[q] # Null
        PROVE  /\ seconds'[q] \in Made' /\ varIndex'[seconds'[q]] = d + 1
               /\ g[seconds'[q]] = <<m, q>>
    <3>1. seconds \in [Node -> Node \cup {Null}]
      BY <1>1 DEF ListTypes
    <3>2. seconds'[q] = IF q = x THEN f ELSE seconds[q]
      BY <1>2, <1>3, <3>1
    <3>3. CASE q = x
      BY <1>9, <1>10, <1>19, <3>2, <3>3
    <3>4. CASE q # x
      <4>1. seconds'[q] = seconds[q] /\ seconds[q] # Null
        BY <2>2, <3>2, <3>4
      <4>2. /\ seconds[q] \in Made /\ varIndex[seconds[q]] = d + 1
            /\ c[seconds[q]] = <<m, q>>
        BY <1>1, <4>1 DEF Layering, m
      <4> QED
        BY <1>20, <4>1, <4>2
    <3> QED
      BY <3>3, <3>4
  <2>3. firsts' = firsts /\ firsts # <<>>
    BY <1>1, <1>3
  <2> QED
    BY <2>1, <2>2, <2>3 DEF Layering, m
<1>31. Work(g, d)'
  BY <1>1, <1>3, <1>28, <1>29, <1>30 DEF Work
<1>32. phase' \in {"outgoing", "layer"}
  BY <1>1, <1>3
<1> QED
  BY <1>1, <1>12, <1>14, <1>15, <1>17, <1>18, <1>27, <1>31, <1>32 DEF Build, Layer

-----------------------------------------------------------------------------
(***************************************************************************)
(* BuildOutgoingArcs.                                                      *)
(***************************************************************************)

\* What addArcAndNode is called for in a node of the couple p in layer l.
CallsFor(f, o, p, l, s) ==
  /\ s \in Seq(CallType)
  /\ \A x, y \in DOMAIN s : x < y => s[x][1] < s[y][1]
  /\ \A x \in DOMAIN s : s[x][2] = Goal(o, p[1], s[x][1]) /\ s[x][3] = Goal(o, p[2], s[x][1])
  /\ \A v : (\E x \in DOMAIN s : s[x][1] = v) <=> Wants(f, o, p, l, v)

Opening(c, d) ==
  /\ Positive
  /\ OwnKept /\ Shape /\ ListTypes /\ Unallocated /\ InCounted /\ Couples(c)
  /\ d \in Layer /\ Listings(c, d) /\ Chainings(c, d) /\ Outgoing
  /\ phase = "outgoing" /\ triplets # <<>>

\* The first triplet.
LEMMA TripletHead ==
  ASSUME NEW c, NEW d, Opening(c, d)
  PROVE  LET t == Head(triplets) IN
         /\ t \in Couple /\ triplets[1] = t /\ 1 \in DOMAIN triplets /\ t[1] \in Waiting
         /\ t[1] \in Made /\ t[1] \in Node /\ t[1] \notin Side
         /\ varIndex[t[1]] = d /\ d < Size /\ arcs[t[1]] = <<>>
         /\ c[t[1]] = <<t[2], t[3]>> /\ Coupled(c, t[1]) /\ t[2] \in Side /\ t[3] \in Side
<1> DEFINE t == Head(triplets)
<1>1. /\ triplets \in Seq(Couple) /\ triplets # <<>> /\ Listings(c, d) /\ Couples(c)
      /\ phase = "outgoing" /\ alive \subseteq Node
  BY DEF Opening, ListTypes, Shape
<1>2. t = triplets[1] /\ 1 \in DOMAIN triplets /\ t \in Couple
  BY <1>1
<1> HIDE DEF t
<1>3. TripletLayer(d) = d
  BY <1>1 DEF TripletLayer
<1>4. /\ t[1] \in Made /\ varIndex[t[1]] = d /\ d < Size /\ arcs[t[1]] = <<>>
      /\ c[t[1]] = <<t[2], t[3]>>
  BY <1>1, <1>2, <1>3 DEF Listings
<1>5. t[1] \in Waiting
  BY <1>2 DEF Waiting
<1>6. Coupled(c, t[1])
  BY <1>1, <1>4 DEF Couples
<1>7. t[2] \in Side /\ t[3] \in Side
  <2>1. c[t[1]][1] = t[2] /\ c[t[1]][2] = t[3]
    BY <1>4
  <2> QED
    BY <1>6, <2>1 DEF Coupled
<1>8. t[1] \in Node /\ t[1] \notin Side
  BY <1>1, <1>4 DEF Made
<1> QED
  BY <1>2, <1>4, <1>5, <1>6, <1>7, <1>8 DEF t

LEMMA SideArcsAre ==
  ASSUME OwnKept, NEW m \in Side
  PROVE  /\ arcs[m] = SideArcs(operands, m) /\ arcs[m] \in Seq(Arc) /\ Rises(arcs[m])
<1>1. operands \in Operands
  BY DEF OwnKept
<1>2. arcs[m] = SideArcs(operands, m)
  BY OperandFacts, <1>1 DEF OwnKept, Side, SideArcs
<1> QED
  BY <1>1, <1>2, SideFacts

LEMMA OutgoingCalls ==
  ASSUME NEW c, NEW d, Opening(c, d)
  PROVE  LET t == Head(triplets)
             calls == Calls(t[1], t[2], t[3])
         IN /\ CallsFor(op, operands, c[t[1]], d, calls) /\ ~BadCall(calls)
            /\ Where(t[1]) = WhereIn(d)
<1> DEFINE t == Head(triplets)
           n == t[1]
           m1 == t[2]
           m2 == t[3]
           a1 == arcs[m1]
           a2 == arcs[m2]
           s == Merged(n, a1, a2)
<1>1. /\ Positive /\ OwnKept /\ op \in Operations
  BY DEF Opening, OwnKept
<1>2. varIndex[n] = d /\ c[n] = <<m1, m2>> /\ m1 \in Side /\ m2 \in Side
  BY TripletHead
<1> HIDE DEF t
<1>3. Where(n) = WhereIn(d)
  BY <1>2 DEF Where, WhereIn
<1>4. ~Wanted("not_not", n)
  <2>1. <<"not_not", "all">> \notin op /\ <<"not_not", "last">> \notin op
    BY <1>1 DEF Positive
  <2> QED
    BY <2>1 DEF Wanted, Where
<1>5. Calls(n, m1, m2) = s
  BY <1>4 DEF Calls
<1>6. /\ a1 = SideArcs(operands, m1) /\ a1 \in Seq(Arc) /\ Rises(a1)
      /\ a2 = SideArcs(operands, m2) /\ a2 \in Seq(Arc) /\ Rises(a2)
  BY <1>1, <1>2, SideArcsAre
<1> HIDE DEF n, m1, m2
<1>7. MergesFrom(n, a1, a2, 1, 1, s)
  <2> HIDE DEF a1, a2
  <2> QED
    BY <1>6, MergedFacts
<1> HIDE DEF s, a1, a2
<1>8. /\ s \in Seq(CallType)
      /\ \A x, y \in DOMAIN s : x < y => s[x][1] < s[y][1]
      /\ \A x \in DOMAIN s : /\ s[x][2] = EndFrom(a1, 1, s[x][1])
                             /\ s[x][3] = EndFrom(a2, 1, s[x][1])
      /\ \A v : (\E x \in DOMAIN s : s[x][1] = v) <=>
                  /\ HasLabel(a1, 1, v) \/ HasLabel(a2, 1, v)
                  /\ Wanted(Cond(HasLabel(a1, 1, v), HasLabel(a2, 1, v)), n)
  BY <1>7 DEF MergesFrom
<1>9. c[n][1] = m1 /\ c[n][2] = m2
  BY <1>2
<1>10. \A x \in DOMAIN s : /\ s[x][2] = Goal(operands, c[n][1], s[x][1])
                           /\ s[x][3] = Goal(operands, c[n][2], s[x][1])
  BY <1>6, <1>8, <1>9 DEF Goal
<1>11. ASSUME NEW v
       PROVE  (\E x \in DOMAIN s : s[x][1] = v) <=> Wants(op, operands, c[n], d, v)
  <2> DEFINE h1 == HasLabel(a1, 1, v)
             h2 == HasLabel(a2, 1, v)
  <2>1. Goes(operands, c[n][1], v) = h1 /\ Goes(operands, c[n][2], v) = h2
    BY <1>6, <1>9 DEF Goes
  <2>2. (\E x \in DOMAIN s : s[x][1] = v) <=> (h1 \/ h2) /\ Wanted(Cond(h1, h2), n)
    BY <1>8
  <2> HIDE DEF h1, h2
  <2>3. Wants(op, operands, c[n], d, v) <=> Wanted(Cond(h1, h2), n)
    BY <1>3, <2>1 DEF Wants, Wanted
  <2>4. ~h1 /\ ~h2 => ~Wanted(Cond(h1, h2), n)
    BY <1>4 DEF Cond
  <2> QED
    BY <2>2, <2>3, <2>4
<1>12. CallsFor(op, operands, c[n], d, s)
  BY <1>8, <1>10, <1>11 DEF CallsFor
<1>13. ~BadCall(s)
  <2>1. \A x \in DOMAIN s : s[x][1] \in Label
    <3>1. \A x \in DOMAIN s : s[x] \in CallType
      BY <1>8
    <3> QED
      BY <3>1 DEF CallType
  <2> QED
    BY <2>1, NullIsNoLabel DEF BadCall
<1> QED
  BY <1>3, <1>5, <1>12, <1>13 DEF t, n, m1, m2

\* What OutgoingArcs does for the calls s in the node n of layer d.
EndOfCall(d, call) == IF d = Size - 1 THEN nodes[Size][1] ELSE call[3]

CallsOf(s, m) == {i \in DOMAIN s : s[i][2] = m}

NewFirsts(s) ==
  {i \in DOMAIN s : chains[s[i][2]] = <<>> /\ \A j \in 1..i - 1 : s[j][2] # s[i][2]}

Opened(n, s, d) ==
  /\ arcs' = [arcs EXCEPT ![n] = [i \in DOMAIN s |-> [value |-> s[i][1], end |-> EndOfCall(d, s[i])]]]
  /\ nbIn' = [m \in Node |-> nbIn[m] + Cardinality({i \in DOMAIN s : EndOfCall(d, s[i]) = m})]
  /\ IF d = Size - 1
     THEN UNCHANGED <<chains, firsts>>
     ELSE /\ chains' = [m \in Node |-> Reverse(Kept([i \in DOMAIN s |-> <<n, i>>], CallsOf(s, m)))
                                       \o chains[m]]
          /\ firsts' = firsts \o Kept([i \in DOMAIN s |-> s[i][2]], NewFirsts(s))

OpenedRest ==
  /\ triplets' = Tail(triplets)
  /\ phase' = IF Tail(triplets) = <<>> THEN "layer" ELSE "outgoing"
  /\ nodes' = nodes /\ alive' = alive /\ varIndex' = varIndex /\ newV' = newV
  /\ op' = op /\ operands' = operands /\ seconds' = seconds /\ UNCHANGED reduceVars

\* The final node of the result.
LEMMA FinalIs ==
  ASSUME Shape
  PROVE  /\ Final = nodes[Size][1] /\ Final \in ToSet(nodes[Size]) /\ Final \in Made
         /\ Final \in Node
<1>1. Size \in Layer
  BY SizeIsPositive DEF Layer
<1>2. nodes[Size] \in Seq(Node) /\ Len(nodes[Size]) = 1 /\ ToSet(nodes[Size]) \subseteq Made
  BY <1>1 DEF Shape
<1> DEFINE s == nodes[Size]
<1> HIDE DEF s
<1>3. s \in Seq(Node) /\ Len(s) = 1
  BY <1>2 DEF s
<1>4. s # <<>> /\ Last(s) = s[1] /\ s[1] \in Node /\ 1 \in DOMAIN s
  BY <1>3 DEF Last
<1>5. Final = s[1]
  BY <1>4 DEF Final, s
<1>6. s[1] \in ToSet(s)
  BY <1>4 DEF ToSet
<1> QED
  BY <1>2, <1>4, <1>5, <1>6 DEF s

LEMMA OutgoingEffect ==
  ASSUME NEW c, NEW d, Opening(c, d), OutgoingArcs
  PROVE  LET t == Head(triplets) IN
         Opened(t[1], Calls(t[1], t[2], t[3]), d) /\ OpenedRest
<1> DEFINE t == Head(triplets)
           n == t[1]
           s == Calls(n, t[2], t[3])
<1>1. phase = "outgoing" /\ Shape /\ d \in Layer
  BY DEF Opening
<1>2. ~BadCall(s) /\ Where(n) = WhereIn(d)
  BY OutgoingCalls
<1>3. /\ triplets' = Tail(triplets) /\ newV' = [newV EXCEPT ![t[3]] = t[3]]
      /\ phase' = IF triplets' = <<>> THEN "layer" ELSE phase
      /\ AddArcsAndNodes(n, s)
      /\ UNCHANGED <<nodes, alive, varIndex, reduceVars, op, operands, seconds>>
  <2>1. /\ triplets' = Tail(triplets) /\ newV' = [newV EXCEPT ![t[3]] = t[3]]
        /\ UNCHANGED <<nodes, alive, varIndex, reduceVars, op, operands, seconds>>
    BY DEF OutgoingArcs
  <2>2. IF BadCall(s)
        THEN phase' = "crash"
        ELSE /\ phase' = IF triplets' = <<>> THEN "layer" ELSE phase
             /\ AddArcsAndNodes(n, s)
    BY DEF OutgoingArcs
  <2> QED
    BY <1>2, <2>1, <2>2
<1>4. newV' = newV
  <2>1. newV = [q \in Node |-> q]
    BY <1>1 DEF Shape
  <2> HIDE DEF t
  <2> QED
    BY <1>3, <2>1
<1>5. OpenedRest
  BY <1>1, <1>3, <1>4 DEF OpenedRest
<1> HIDE DEF t, n, s
<1> DEFINE last == Where(n) = "last"
           fin(i) == IF last THEN Final ELSE s[i][3]
           with(m) == {i \in DOMAIN s : s[i][2] = m}
           new == {i \in DOMAIN s : /\ chains[s[i][2]] = <<>>
                                   /\ \A j \in 1..i - 1 : s[j][2] # s[i][2]}
<1>6. /\ arcs' = [arcs EXCEPT ![n] = [i \in DOMAIN s |-> [value |-> s[i][1], end |-> fin(i)]]]
      /\ nbIn' = [m \in Node |-> nbIn[m] + Cardinality({i \in DOMAIN s : fin(i) = m})]
      /\ IF last
         THEN UNCHANGED <<chains, firsts>>
         ELSE /\ chains' = [m \in Node |->
                              Reverse(Kept([i \in DOMAIN s |-> <<n, i>>], with(m))) \o chains[m]]
              /\ firsts' = firsts \o Kept([i \in DOMAIN s |-> s[i][2]], new)
  BY <1>3 DEF AddArcsAndNodes
<1>7. last <=> d = Size - 1
  BY <1>2 DEF WhereIn
<1>8. \A i : fin(i) = EndOfCall(d, s[i])
  BY <1>1, <1>7, FinalIs DEF EndOfCall
<1>9. \A m : with(m) = CallsOf(s, m)
  BY DEF CallsOf
<1>10. new = NewFirsts(s)
  BY DEF NewFirsts
<1> HIDE DEF with, new, last, fin
<1>11. arcs' = [arcs EXCEPT ![n] = [i \in DOMAIN s |-> [value |-> s[i][1], end |-> EndOfCall(d, s[i])]]]
  BY <1>6, <1>8
<1>12. nbIn' = [m \in Node |-> nbIn[m] + Cardinality({i \in DOMAIN s : EndOfCall(d, s[i]) = m})]
  <2>1. \A m : {i \in DOMAIN s : fin(i) = m} = {i \in DOMAIN s : EndOfCall(d, s[i]) = m}
    BY <1>8
  <2> QED
    BY <1>6, <2>1
<1>13. IF d = Size - 1
       THEN UNCHANGED <<chains, firsts>>
       ELSE /\ chains' = [m \in Node |->
                            Reverse(Kept([i \in DOMAIN s |-> <<n, i>>], CallsOf(s, m))) \o chains[m]]
            /\ firsts' = firsts \o Kept([i \in DOMAIN s |-> s[i][2]], NewFirsts(s))
  <2>1. CASE d = Size - 1
    BY <1>6, <1>7, <2>1
  <2>2. CASE d # Size - 1
    <3>1. /\ chains' = [m \in Node |->
                         Reverse(Kept([i \in DOMAIN s |-> <<n, i>>], with(m))) \o chains[m]]
          /\ firsts' = firsts \o Kept([i \in DOMAIN s |-> s[i][2]], new)
      BY <1>6, <1>7, <2>2
    <3> QED
      BY <1>9, <1>10, <2>2, <3>1
  <2> QED
    BY <2>1, <2>2
<1>14. Opened(n, s, d)
  BY <1>11, <1>12, <1>13 DEF Opened
<1> QED
  BY <1>5, <1>14 DEF t, n, s

OpeningStep(c, d, n, s) ==
  /\ Opening(c, d) /\ n = Head(triplets)[1]
  /\ CallsFor(op, operands, c[n], d, s) /\ Opened(n, s, d) /\ OpenedRest

LEMMA OpenedArcs ==
  ASSUME NEW c, NEW d, NEW n, NEW s, OpeningStep(c, d, n, s)
  PROVE  /\ s \in Seq(CallType) /\ DOMAIN s = 1..Len(s) /\ Len(s) \in Nat
         /\ n \in Made /\ n \in Node /\ n \notin Side /\ n \in alive /\ arcs[n] = <<>>
         /\ varIndex[n] = d /\ d < Size /\ Coupled(c, n)
         /\ arcs' \in [Node -> Seq(Arc)] /\ DOMAIN arcs'[n] = DOMAIN s /\ Len(arcs'[n]) = Len(s)
         /\ \A i \in DOMAIN s :
              /\ arcs'[n][i].value = s[i][1] /\ arcs'[n][i].end = EndOfCall(d, s[i])
              /\ s[i][1] \in Label /\ s[i][2] \in Side /\ s[i][3] \in Side
         /\ \A q \in Node \ {n} : arcs'[q] = arcs[q]
<1>1. /\ OwnKept /\ Shape /\ n = Head(triplets)[1] /\ Opening(c, d)
      /\ CallsFor(op, operands, c[n], d, s) /\ Opened(n, s, d)
  BY DEF OpeningStep, Opening
<1>2. /\ n \in Made /\ n \in Node /\ n \notin Side /\ varIndex[n] = d /\ d < Size
      /\ arcs[n] = <<>> /\ Coupled(c, n)
  BY <1>1, TripletHead
<1>3. s \in Seq(CallType) /\ DOMAIN s = 1..Len(s) /\ Len(s) \in Nat
  BY <1>1 DEF CallsFor
<1>4. ASSUME NEW i \in DOMAIN s
      PROVE  /\ s[i][1] \in Label /\ s[i][2] \in Side /\ s[i][3] \in Side
             /\ s[i][3] \in Node
  <2>1. s[i] \in CallType
    BY <1>3
  <2>2. s[i][1] \in Label /\ s[i][3] \in Node
    BY <2>1 DEF CallType
  <2>3. s[i][2] = Goal(operands, c[n][1], s[i][1]) /\ s[i][3] = Goal(operands, c[n][2], s[i][1])
    BY <1>1 DEF CallsFor
  <2>4. operands \in Operands /\ c[n][1] \in Side /\ c[n][2] \in Side
    BY <1>1, <1>2 DEF OwnKept, Coupled
  <2> QED
    BY <2>2, <2>3, <2>4, SideFacts
<1>5. \A i \in DOMAIN s : EndOfCall(d, s[i]) \in Node
  BY <1>1, <1>4, FinalIs DEF EndOfCall
<1> DEFINE a == [i \in DOMAIN s |-> [value |-> s[i][1], end |-> EndOfCall(d, s[i])]]
<1>6. a \in Seq(Arc) /\ DOMAIN a = DOMAIN s /\ Len(a) = Len(s)
  <2>1. \A i \in DOMAIN s : [value |-> s[i][1], end |-> EndOfCall(d, s[i])] \in Arc
    BY <1>4, <1>5 DEF Arc
  <2> QED
    BY <1>3, <2>1
<1>7. \A i \in DOMAIN s : a[i].value = s[i][1] /\ a[i].end = EndOfCall(d, s[i])
  OBVIOUS
<1>8. arcs' = [arcs EXCEPT ![n] = a] /\ arcs \in [Node -> Seq(Arc)]
  BY <1>1 DEF Opened, Shape
<1> HIDE DEF a
<1>9. arcs'[n] = a /\ arcs' \in [Node -> Seq(Arc)] /\ \A q \in Node \ {n} : arcs'[q] = arcs[q]
  BY <1>2, <1>6, <1>8
<1>10. n \in alive
  BY <1>2 DEF Made
<1> QED
  BY <1>2, <1>3, <1>4, <1>6, <1>7, <1>9, <1>10

\* The chains get the new arcs, and the first nodes are known once.
LEMMA OpenedChains ==
  ASSUME NEW c, NEW d, NEW n, NEW s, OpeningStep(c, d, n, s), d # Size - 1
  PROVE  /\ chains' \in [Node -> Seq(Node \X Nat)]
         /\ \A m \in Node : /\ IsInjective(chains'[m])
                            /\ ToSet(chains'[m]) = ToSet(chains[m]) \cup {<<n, i>> : i \in CallsOf(s, m)}
<1>1. /\ chains \in [Node -> Seq(Node \X Nat)] /\ Chainings(c, d) /\ Opened(n, s, d)
  BY DEF OpeningStep, Opening, ListTypes
<1>2. /\ s \in Seq(CallType) /\ DOMAIN s = 1..Len(s) /\ Len(s) \in Nat
      /\ n \in Node /\ arcs[n] = <<>>
  BY OpenedArcs
<1> DEFINE r == [i \in DOMAIN s |-> <<n, i>>]
           N(m) == Reverse(Kept(r, CallsOf(s, m)))
<1>3. chains' = [m \in Node |-> N(m) \o chains[m]]
  BY <1>1 DEF Opened
<1>4. r \in Seq(Node \X Nat) /\ DOMAIN r = DOMAIN s /\ \A i \in DOMAIN s : r[i] = <<n, i>>
  <2>1. \A i \in DOMAIN s : <<n, i>> \in Node \X Nat
    BY <1>2
  <2> QED
    BY <1>2, <2>1
<1> HIDE DEF r
<1>5. ASSUME NEW m \in Node
      PROVE  /\ N(m) \o chains[m] \in Seq(Node \X Nat) /\ IsInjective(N(m) \o chains[m])
             /\ ToSet(N(m) \o chains[m]) = ToSet(chains[m]) \cup {<<n, i>> : i \in CallsOf(s, m)}
  <2> DEFINE I == CallsOf(s, m)
             k0 == Kept(r, I)
             v == Reverse(k0)
             w == chains[m]
  <2>1. I \in SUBSET DOMAIN r
    BY <1>4 DEF CallsOf
  <2>2. \A i, j \in I : r[i] = r[j] => i = j
    BY <1>4, <2>1
  <2>3. {r[i] : i \in I} = {<<n, i>> : i \in I}
    BY <1>4, <2>1
  <2> HIDE DEF I
  <2>4. k0 \in Seq(Node \X Nat) /\ ToSet(k0) = {r[i] : i \in I} /\ IsInjective(k0)
    BY <1>4, <2>1, <2>2, KeptOfList
  <2> HIDE DEF k0
  <2>5. v \in Seq(Node \X Nat) /\ ToSet(v) = ToSet(k0) /\ IsInjective(v)
    BY <2>4, ReverseFacts
  <2> HIDE DEF v
  <2>6. w \in Seq(Node \X Nat) /\ IsInjective(w)
    BY <1>1 DEF Chainings
  <2>7. ToSet(v) \cap ToSet(w) = {}
    <3> SUFFICES ASSUME NEW x \in ToSet(v), x \in ToSet(w)
                 PROVE  FALSE
      OBVIOUS
    <3>1. PICK i \in I : x = <<n, i>>
      BY <2>3, <2>4, <2>5
    <3>2. Chained(c, d, m, x)
      BY <1>1 DEF Chainings
    <3>3. x[2] \in DOMAIN arcs[x[1]] /\ x[1] = n
      BY <3>1, <3>2 DEF Chained
    <3>4. DOMAIN arcs[n] = {}
      BY <1>2
    <3> QED
      BY <3>3, <3>4
  <2> HIDE DEF w
  <2>8. v \o w \in Seq(Node \X Nat) /\ ToSet(v \o w) = ToSet(v) \cup ToSet(w) /\ IsInjective(v \o w)
    BY <2>5, <2>6, <2>7, ConcatFacts
  <2>9. ToSet(v \o w) = ToSet(w) \cup {<<n, i>> : i \in I}
    BY <2>3, <2>4, <2>5, <2>8
  <2> QED
    BY <2>8, <2>9 DEF v, w, k0, I
<1> HIDE DEF N
<1>6. \A m \in Node : chains'[m] = N(m) \o chains[m]
  BY <1>3
<1>7. chains' \in [Node -> Seq(Node \X Nat)]
  BY <1>3, <1>5
<1> QED
  BY <1>5, <1>6, <1>7

LEMMA OpenedFirsts ==
  ASSUME NEW c, NEW d, NEW n, NEW s, OpeningStep(c, d, n, s), d # Size - 1
  PROVE  /\ firsts' \in Seq(Node) /\ IsInjective(firsts')
         /\ ToSet(firsts') = ToSet(firsts) \cup {s[i][2] : i \in DOMAIN s}
<1>1. /\ firsts \in Seq(Node) /\ Chainings(c, d) /\ Opened(n, s, d) /\ Outgoing
  BY DEF OpeningStep, Opening, ListTypes
<1>2. /\ s \in Seq(CallType) /\ DOMAIN s = 1..Len(s) /\ Len(s) \in Nat
  BY OpenedArcs
<1> DEFINE r == [i \in DOMAIN s |-> s[i][2]]
           I == NewFirsts(s)
           w == Kept(r, I)
<1>3. firsts' = firsts \o w
  BY <1>1 DEF Opened
<1>4. r \in Seq(Node) /\ DOMAIN r = DOMAIN s /\ \A i \in DOMAIN s : r[i] = s[i][2] /\ r[i] \in Node
  <2>1. \A i \in DOMAIN s : s[i] \in CallType
    BY <1>2
  <2>2. \A i \in DOMAIN s : s[i][2] \in Node
    BY <2>1 DEF CallType
  <2> QED
    BY <1>2, <2>2
<1> HIDE DEF r
<1>5. I \in SUBSET DOMAIN r
  BY <1>4 DEF NewFirsts
<1>6. \A i \in I : chains[r[i]] = <<>> /\ \A j \in 1..i - 1 : r[j] # r[i]
  <2> SUFFICES ASSUME NEW i \in I
               PROVE  chains[r[i]] = <<>> /\ \A j \in 1..i - 1 : r[j] # r[i]
    OBVIOUS
  <2>1. i \in DOMAIN s /\ chains[s[i][2]] = <<>> /\ \A j \in 1..i - 1 : s[j][2] # s[i][2]
    BY DEF NewFirsts
  <2>2. \A j \in 1..i - 1 : j \in DOMAIN s
    BY <1>2, <2>1
  <2> QED
    BY <1>4, <2>1, <2>2
<1>7. \A i, j \in I : r[i] = r[j] => i = j
  <2> SUFFICES ASSUME NEW i \in I, NEW j \in I, r[i] = r[j]
               PROVE  i = j
    OBVIOUS
  <2>1. i \in Nat \ {0} /\ j \in Nat \ {0}
    BY <1>2, <1>4, <1>5
  <2>2. ~(i < j) /\ ~(j < i)
    BY <1>6, <2>1
  <2> QED
    BY <2>1, <2>2
<1>8. w \in Seq(Node) /\ ToSet(w) = {r[i] : i \in I} /\ IsInjective(w)
  <2> HIDE DEF I
  <2> QED
    BY <1>4, <1>5, <1>7, KeptOfList
<1> HIDE DEF w
<1>9. ToSet(firsts) \cap ToSet(w) = {}
  <2> SUFFICES ASSUME NEW m \in ToSet(w), m \in ToSet(firsts)
               PROVE  FALSE
    OBVIOUS
  <2>1. PICK i \in I : m = r[i]
    BY <1>8
  <2> QED
    BY <1>1, <1>6, <2>1 DEF Outgoing
<1>10. /\ firsts \o w \in Seq(Node) /\ IsInjective(firsts \o w)
       /\ ToSet(firsts \o w) = ToSet(firsts) \cup ToSet(w)
  BY <1>1, <1>8, <1>9, ConcatFacts DEF Chainings
<1>11. ASSUME NEW i \in DOMAIN s
       PROVE  s[i][2] \in ToSet(firsts) \cup ToSet(w)
  <2>1. CASE chains[s[i][2]] # <<>>
    <3>1. s[i][2] \in Node
      BY <1>4
    <3> QED
      BY <1>1, <2>1, <3>1 DEF Chainings
  <2>2. CASE chains[s[i][2]] = <<>>
    <3> DEFINE T == {j \in DOMAIN s : s[j][2] = s[i][2]}
               l == Min(T)
    <3>1. T \in SUBSET Nat /\ i \in T
      BY <1>2
    <3>2. l \in T /\ \A j \in T : l <= j
      <4> HIDE DEF T
      <4> QED
        BY <3>1, Least
    <3> HIDE DEF l
    <3>3. l \in DOMAIN s /\ s[l][2] = s[i][2]
      BY <3>2
    <3>4. \A j \in 1..l - 1 : s[j][2] # s[l][2]
      <4> SUFFICES ASSUME NEW j \in 1..l - 1, s[j][2] = s[l][2]
                   PROVE  FALSE
        OBVIOUS
      <4>1. j \in DOMAIN s /\ j < l /\ l \in Nat /\ j \in Nat
        BY <1>2, <3>3
      <4>2. j \in T
        BY <3>3, <4>1
      <4> QED
        BY <3>2, <4>1, <4>2
    <3>5. l \in I
      BY <2>2, <3>3, <3>4 DEF NewFirsts
    <3>6. r[l] = s[i][2]
      BY <1>4, <3>3
    <3> QED
      BY <1>8, <3>5, <3>6
  <2> QED
    BY <2>1, <2>2
<1>12. \A i \in I : i \in DOMAIN s /\ r[i] = s[i][2]
  BY <1>4, <1>5
<1>13. ToSet(firsts) \cup ToSet(w) = ToSet(firsts) \cup {s[i][2] : i \in DOMAIN s}
  <2> HIDE DEF I
  <2>1. ASSUME NEW m \in ToSet(w)
        PROVE  m \in {s[i][2] : i \in DOMAIN s}
    BY <1>8, <1>12
  <2> QED
    BY <1>11, <2>1
<1> QED
  BY <1>3, <1>10, <1>13

LEMMA OpenedCounts ==
  ASSUME NEW c, NEW d, NEW n, NEW s, OpeningStep(c, d, n, s)
  PROVE  InCounted' /\ nbIn' \in [Node -> Int]
<1>1. /\ Shape /\ OwnKept /\ InCounted /\ Opened(n, s, d) /\ OpenedRest
  BY DEF OpeningStep, Opening
<1>2. /\ DOMAIN s = 1..Len(s) /\ Len(s) \in Nat
      /\ n \in alive /\ n \in Node /\ arcs[n] = <<>> /\ DOMAIN arcs'[n] = DOMAIN s
      /\ \A i \in DOMAIN s : arcs'[n][i].end = EndOfCall(d, s[i])
      /\ \A q \in Node \ {n} : arcs'[q] = arcs[q]
  BY OpenedArcs
<1> DEFINE E(m) == {i \in DOMAIN s : EndOfCall(d, s[i]) = m}
<1>3. nbIn' = [m \in Node |-> nbIn[m] + Cardinality(E(m))]
  BY <1>1 DEF Opened
<1>4. nbIn \in [Node -> Int] /\ arcs \in [Node -> Seq(Arc)] /\ alive \subseteq Node /\ IsFiniteSet(alive)
  BY <1>1 DEF Shape
<1>5. alive' = alive /\ Own' = Own
  BY <1>1 DEF OpenedRest, Own
<1>6. \A m : IsFiniteSet(E(m)) /\ Cardinality(E(m)) \in Nat
  <2> SUFFICES ASSUME NEW m
               PROVE  IsFiniteSet(E(m)) /\ Cardinality(E(m)) \in Nat
    OBVIOUS
  <2>1. E(m) \in SUBSET (1..Len(s)) /\ 1 \in Int /\ Len(s) \in Int
    BY <1>2
  <2> HIDE DEF E
  <2>2. IsFiniteSet(1..Len(s))
    BY <2>1, FS_Interval
  <2>3. IsFiniteSet(E(m))
    BY <2>1, <2>2, FS_Subset
  <2> QED
    BY <2>3, FS_CardinalityType
<1>7. nbIn' \in [Node -> Int] /\ \A m \in Node : nbIn'[m] = nbIn[m] + Cardinality(E(m))
  <2> HIDE DEF E
  <2>1. \A m \in Node : nbIn[m] + Cardinality(E(m)) \in Int
    BY <1>4, <1>6
  <2> QED
    BY <1>3, <2>1
<1>8. ASSUME NEW m \in Own
      PROVE  nbIn'[m] = Cardinality(ArcsInto(m, alive)')
  <2> DEFINE I == ArcsInto(m, alive)
             J == ArcsInto(m, alive)'
             K == E(m)
             F == {<<n, i>> : i \in K}
  <2>1. m \in Node /\ nbIn[m] = Cardinality(I)
    BY <1>1, <1>4 DEF OwnKept, InCounted
  <2>2. /\ \A p \in I : p = <<p[1], p[2]>> /\ p[1] \in alive /\ p[2] \in DOMAIN arcs[p[1]]
                        /\ arcs[p[1]][p[2]].end = m
        /\ \A q \in alive : \A j \in DOMAIN arcs[q] : arcs[q][j].end = m => <<q, j>> \in I
    BY DEF ArcsInto
  <2>3. /\ \A p \in J : p = <<p[1], p[2]>> /\ p[1] \in alive /\ p[2] \in DOMAIN arcs'[p[1]]
                        /\ arcs'[p[1]][p[2]].end = m
        /\ \A q \in alive : \A j \in DOMAIN arcs'[q] : arcs'[q][j].end = m => <<q, j>> \in J
    BY <1>5 DEF ArcsInto
  <2>4. IsFiniteSet(I) /\ Cardinality(I) \in Nat
    BY <1>4, FewArcsInto
  <2> HIDE DEF I, J
  <2>5. DOMAIN arcs[n] = {}
    BY <1>2
  <2>6. \A i : i \in K <=> i \in DOMAIN arcs'[n] /\ arcs'[n][i].end = m
    BY <1>2
  <2> HIDE DEF K
  <2>7. J = I \cup F
    <3>1. ASSUME NEW p \in J
          PROVE  p \in I \cup F
      <4>1. /\ p = <<p[1], p[2]>> /\ p[1] \in alive /\ p[2] \in DOMAIN arcs'[p[1]]
            /\ arcs'[p[1]][p[2]].end = m
        BY <2>3
      <4>2. CASE p[1] = n
        <5>1. p[2] \in K
          BY <2>6, <4>1, <4>2
        <5> QED
          BY <4>1, <4>2, <5>1
      <4>3. CASE p[1] # n
        <5>1. arcs'[p[1]] = arcs[p[1]]
          BY <1>2, <1>4, <4>1, <4>3
        <5> QED
          BY <2>2, <4>1, <5>1
      <4> QED
        BY <4>2, <4>3
    <3>2. ASSUME NEW p \in I
          PROVE  p \in J
      <4>1. /\ p = <<p[1], p[2]>> /\ p[1] \in alive /\ p[2] \in DOMAIN arcs[p[1]]
            /\ arcs[p[1]][p[2]].end = m
        BY <2>2
      <4>2. p[1] # n
        BY <2>5, <4>1
      <4>3. arcs'[p[1]] = arcs[p[1]]
        BY <1>2, <1>4, <4>1, <4>2
      <4> QED
        BY <2>3, <4>1, <4>3
    <3>3. ASSUME NEW i \in K
          PROVE  <<n, i>> \in J
      BY <1>2, <2>3, <2>6
    <3> QED
      BY <3>1, <3>2, <3>3
  <2>8. I \cap F = {}
    <3> SUFFICES ASSUME NEW i \in K, <<n, i>> \in I
                 PROVE  FALSE
      OBVIOUS
    <3>1. <<n, i>>[2] \in DOMAIN arcs[<<n, i>>[1]]
      BY <2>2
    <3> QED
      BY <2>5, <3>1
  <2>9. IsFiniteSet(F) /\ Cardinality(F) = Cardinality(K)
    <3> DEFINE b == [i \in K |-> <<n, i>>]
    <3>1. b \in [K -> F] /\ \A i \in K : b[i] = <<n, i>>
      OBVIOUS
    <3>2. \A i, j \in K : b[i] = b[j] => i = j
      BY <3>1
    <3>3. \A x \in F : \E i \in K : b[i] = x
      BY <3>1
    <3> HIDE DEF b, F
    <3>4. b \in Bijection(K, F)
      BY <3>1, <3>2, <3>3, Fun_IsBij
    <3>5. ExistsBijection(K, F)
      BY <3>4 DEF ExistsBijection
    <3>6. IsFiniteSet(K)
      BY <1>6 DEF K
    <3> QED
      BY <3>5, <3>6, FS_Bijection
  <2> HIDE DEF F
  <2>10. Cardinality(I \cup F) = Cardinality(I) + Cardinality(F) - Cardinality(I \cap F)
    BY <2>4, <2>9, FS_Union
  <2>11. Cardinality(I \cap F) = 0
    BY <2>8, FS_EmptySet
  <2>12. nbIn'[m] = nbIn[m] + Cardinality(K) /\ Cardinality(K) \in Nat
    BY <1>6, <1>7, <2>1 DEF K
  <2>13. Cardinality(J) = Cardinality(I) + Cardinality(K)
    <3> HIDE DEF E
    <3> QED
      BY <2>4, <2>7, <2>9, <2>10, <2>11, <2>12
  <2> QED
    BY <2>1, <2>12, <2>13 DEF J
<1>9. InCounted'
  BY <1>5, <1>8 DEF InCounted
<1> QED
  BY <1>7, <1>9

LEMMA OutgoingBuild ==
  ASSUME NEW c, NEW d, Opening(c, d), OutgoingArcs
  PROVE  Build'
<1> DEFINE t == Head(triplets)
<1>1. PICK n, s : n = t[1] /\ s = Calls(t[1], t[2], t[3])
  OBVIOUS
<1>2. CallsFor(op, operands, c[n], d, s) /\ Opened(n, s, d) /\ OpenedRest
  <2> HIDE DEF t
  <2>1. CallsFor(op, operands, c[t[1]], d, Calls(t[1], t[2], t[3]))
    BY OutgoingCalls DEF t
  <2>2. Opened(t[1], Calls(t[1], t[2], t[3]), d) /\ OpenedRest
    BY OutgoingEffect DEF t
  <2> QED
    BY <1>1, <2>1, <2>2
<1>3. OpeningStep(c, d, n, s)
  BY <1>1, <1>2 DEF OpeningStep
<1> HIDE DEF t
<1>4. /\ OwnKept /\ Shape /\ ListTypes /\ Unallocated /\ InCounted /\ Couples(c)
      /\ d \in Layer /\ Listings(c, d) /\ Chainings(c, d) /\ Outgoing
      /\ phase = "outgoing" /\ triplets # <<>>
  BY DEF Opening
<1>5. /\ triplets' = Tail(triplets)
      /\ phase' = IF Tail(triplets) = <<>> THEN "layer" ELSE "outgoing"
      /\ nodes' = nodes /\ alive' = alive /\ varIndex' = varIndex /\ newV' = newV
      /\ op' = op /\ operands' = operands /\ seconds' = seconds /\ UNCHANGED reduceVars
  BY <1>2 DEF OpenedRest
<1>6. /\ s \in Seq(CallType) /\ DOMAIN s = 1..Len(s) /\ Len(s) \in Nat
      /\ n \in Made /\ n \in Node /\ n \notin Side /\ n \in alive /\ arcs[n] = <<>>
      /\ varIndex[n] = d /\ d < Size /\ Coupled(c, n)
      /\ arcs' \in [Node -> Seq(Arc)] /\ DOMAIN arcs'[n] = DOMAIN s /\ Len(arcs'[n]) = Len(s)
      /\ \A i \in DOMAIN s :
           /\ arcs'[n][i].value = s[i][1] /\ arcs'[n][i].end = EndOfCall(d, s[i])
           /\ s[i][1] \in Label /\ s[i][2] \in Side /\ s[i][3] \in Side
      /\ \A q \in Node \ {n} : arcs'[q] = arcs[q]
  BY <1>3, OpenedArcs
<1>7. InCounted' /\ nbIn' \in [Node -> Int]
  BY <1>3, OpenedCounts
<1>8. Own' = Own /\ Side' = Side /\ Made' = Made
  BY <1>5 DEF Own, Side, Made
<1>9. alive \subseteq Node /\ Side \subseteq alive /\ Side \subseteq Node
  BY <1>4 DEF Shape, OwnKept, Side
<1>10. OwnKept'
  <2>1. \A q \in Side : arcs'[q] = arcs[q]
    BY <1>6, <1>9
  <2> QED
    BY <1>4, <1>5, <1>8, <2>1 DEF OwnKept, Side
<1>11. d \in Int /\ Size \in Int /\ d # Size
  BY <1>4, <1>6, SizeIsPositive DEF Layer
<1>12. Shape'
  <2>1. \A q \in Node \ alive : arcs'[q] = <<>>
    BY <1>4, <1>6 DEF Shape
  <2>2. \A q \in Made : varIndex[q] = Size => arcs'[q] = <<>>
    BY <1>4, <1>6, <1>9, <1>11 DEF Shape, Made
  <2> QED
    BY <1>4, <1>5, <1>6, <1>7, <1>8, <2>1, <2>2 DEF Shape
<1>13. Unallocated'
  BY <1>4, <1>5, SameRest
\* The triplets that are left.
<1>14. /\ Tail(triplets) \in Seq(Couple) /\ triplets[1] = t
       /\ 1 \in DOMAIN triplets
       /\ \A i \in DOMAIN Tail(triplets) : i + 1 \in DOMAIN triplets /\ Tail(triplets)[i] = triplets[i + 1]
       /\ \A i \in DOMAIN triplets : i # 1 =>
            i - 1 \in DOMAIN Tail(triplets) /\ Tail(triplets)[i - 1] = triplets[i]
       /\ \A i \in DOMAIN triplets : i \in Nat
       /\ \A i \in DOMAIN Tail(triplets) : i \in Nat \ {0}
  <2>1. triplets \in Seq(Couple) /\ triplets # <<>>
    BY <1>4 DEF ListTypes
  <2> QED
    BY <2>1 DEF t
<1>15. TripletLayer(d) = d
  BY <1>4 DEF TripletLayer
<1>16. \A i \in DOMAIN Tail(triplets) : triplets[i + 1][1] # n
  <2> SUFFICES ASSUME NEW i \in DOMAIN Tail(triplets), triplets[i + 1][1] = n
               PROVE  FALSE
    OBVIOUS
  <2>1. i + 1 \in DOMAIN triplets /\ i + 1 # 1 /\ triplets[1][1] = n
    BY <1>1, <1>14
  <2>2. i + 1 = 1
    BY <1>4, <1>14, <2>1 DEF Listings
  <2> QED
    BY <2>1, <2>2
<1>17. Waiting \subseteq Waiting' \cup {n}
  <2> SUFFICES ASSUME NEW q \in Waiting, q # n
               PROVE  q \in Waiting'
    OBVIOUS
  <2>1. PICK i \in DOMAIN triplets : q = triplets[i][1]
    BY DEF Waiting
  <2>2. i # 1
    BY <1>1, <1>14, <2>1
  <2>3. i - 1 \in DOMAIN triplets' /\ triplets'[i - 1] = triplets[i]
    BY <1>5, <1>14, <2>2
  <2> QED
    BY <2>1, <2>3 DEF Waiting
<1>18. n \in Waiting
  BY <1>1, <1>14 DEF Waiting
<1>19. Listings(c, d)'
  <2>1. ASSUME NEW i \in DOMAIN triplets'
        PROVE  /\ triplets'[i][1] \in Made' /\ varIndex'[triplets'[i][1]] = TripletLayer(d)'
               /\ TripletLayer(d)' < Size /\ arcs'[triplets'[i][1]] = <<>>
               /\ c[triplets'[i][1]] = <<triplets'[i][2], triplets'[i][3]>>
    <3>1. /\ i + 1 \in DOMAIN triplets /\ triplets'[i] = triplets[i + 1]
          /\ triplets[i + 1][1] # n
      BY <1>5, <1>14, <1>16
    <3>2. Tail(triplets) # <<>>
      BY <1>5
    <3>3. TripletLayer(d)' = d
      BY <1>5, <3>2 DEF TripletLayer
    <3> DEFINE u == triplets[i + 1]
    <3>4. /\ u[1] \in Made /\ varIndex[u[1]] = d /\ arcs[u[1]] = <<>> /\ c[u[1]] = <<u[2], u[3]>>
      BY <1>4, <1>15, <3>1 DEF Listings
    <3>5. u[1] # n /\ triplets'[i] = u
      BY <3>1
    <3> HIDE DEF u
    <3>6. u[1] \in Node
      BY <1>9, <3>4 DEF Made
    <3>7. arcs'[u[1]] = <<>>
      BY <1>6, <3>4, <3>5, <3>6
    <3> QED
      BY <1>5, <1>6, <1>8, <3>3, <3>4, <3>5, <3>7
  <2>2. ASSUME NEW i \in DOMAIN triplets', NEW j \in DOMAIN triplets',
               triplets'[i][1] = triplets'[j][1] \/ Tail(triplets'[i]) = Tail(triplets'[j])
        PROVE  i = j
    <3>1. /\ i + 1 \in DOMAIN triplets /\ triplets'[i] = triplets[i + 1]
          /\ j + 1 \in DOMAIN triplets /\ triplets'[j] = triplets[j + 1]
      BY <1>5, <1>14
    <3>2. \/ triplets[i + 1][1] = triplets[j + 1][1]
          \/ Tail(triplets[i + 1]) = Tail(triplets[j + 1])
      BY <2>2, <3>1
    <3>3. i + 1 = j + 1
      BY <1>4, <3>1, <3>2 DEF Listings
    <3>4. i \in Nat /\ j \in Nat
      BY <1>5, <1>14
    <3> QED
      BY <3>3, <3>4
  <2> QED
    BY <2>1, <2>2 DEF Listings
\* The chains.
<1>20. /\ chains' \in [Node -> Seq(Node \X Nat)] /\ firsts' \in Seq(Node) /\ IsInjective(firsts')
       /\ \A m \in Node :
            /\ IsInjective(chains'[m])
            /\ ToSet(chains'[m]) = ToSet(chains[m]) \cup
                                   (IF d = Size - 1 THEN {} ELSE {<<n, i>> : i \in CallsOf(s, m)})
       /\ ToSet(firsts') = ToSet(firsts) \cup (IF d = Size - 1 THEN {} ELSE {s[i][2] : i \in DOMAIN s})
  <2>1. CASE d = Size - 1
    <3>1. chains' = chains /\ firsts' = firsts
      BY <1>2, <2>1 DEF Opened
    <3> QED
      BY <1>4, <2>1, <3>1 DEF Chainings, ListTypes
  <2>2. CASE d # Size - 1
    <3>1. /\ chains' \in [Node -> Seq(Node \X Nat)]
          /\ \A m \in Node : /\ IsInjective(chains'[m])
                             /\ ToSet(chains'[m]) = ToSet(chains[m]) \cup {<<n, i>> : i \in CallsOf(s, m)}
      BY <1>3, <2>2, OpenedChains
    <3>2. /\ firsts' \in Seq(Node) /\ IsInjective(firsts')
          /\ ToSet(firsts') = ToSet(firsts) \cup {s[i][2] : i \in DOMAIN s}
      BY <1>3, <2>2, OpenedFirsts
    <3> QED
      BY <2>2, <3>1, <3>2
  <2> QED
    BY <2>1, <2>2
<1>21. ListTypes'
  BY <1>4, <1>5, <1>14, <1>20 DEF ListTypes
<1>22. \A m \in Node : \A i : <<n, i>> \notin ToSet(chains[m])
  <2> SUFFICES ASSUME NEW m \in Node, NEW i, <<n, i>> \in ToSet(chains[m])
               PROVE  FALSE
    OBVIOUS
  <2> DEFINE r == <<n, i>>
  <2>1. Chained(c, d, m, r)
    BY <1>4 DEF Chainings
  <2>2. r[2] \in DOMAIN arcs[r[1]] /\ r[1] = n
    BY <2>1 DEF Chained
  <2> HIDE DEF r
  <2>3. DOMAIN arcs[n] = {}
    BY <1>6
  <2> QED
    BY <2>2, <2>3
<1>23. Chainings(c, d)'
  <2>1. ASSUME NEW m \in Node, NEW r \in ToSet(chains[m])
        PROVE  Chained(c, d, m, r)'
    <3>1. Chained(c, d, m, r)
      BY <1>4 DEF Chainings
    <3>2. r[1] # n
      <4>1. r[2] \in DOMAIN arcs[r[1]]
        BY <3>1 DEF Chained
      <4> QED
        BY <1>6, <4>1
    <3>3. r[1] \in Node
      BY <1>9, <3>1 DEF Chained, Made
    <3>4. arcs'[r[1]] = arcs[r[1]]
      BY <1>6, <3>2, <3>3
    <3> QED
      BY <1>5, <1>8, <3>1, <3>4 DEF Chained
  <2>2. ASSUME NEW m \in Node, d # Size - 1, NEW i \in CallsOf(s, m)
        PROVE  Chained(c, d, m, <<n, i>>)'
    <3>1. i \in DOMAIN s /\ s[i][2] = m
      BY DEF CallsOf
    <3>2. /\ arcs'[n][i].value = s[i][1] /\ arcs'[n][i].end = s[i][3] /\ s[i][3] \in Side
          /\ i \in DOMAIN arcs'[n]
      BY <1>6, <2>2, <3>1 DEF EndOfCall
    <3>3. s[i][2] = Goal(operands, c[n][1], s[i][1])
      BY <1>2, <3>1 DEF CallsFor
    <3>4. d < Size - 1
      BY <1>6, <1>11, <2>2
    <3>5. /\ n \in Made' /\ varIndex'[n] = d /\ i \in DOMAIN arcs'[n] /\ arcs'[n][i].end \in Side'
          /\ m = Goal(operands', c[n][1], arcs'[n][i].value)
      BY <1>5, <1>6, <1>8, <3>1, <3>2, <3>3
    <3> DEFINE r == <<n, i>>
    <3>6. r[1] = n /\ r[2] = i
      OBVIOUS
    <3> QED
      BY <3>4, <3>5, <3>6 DEF Chained
  <2>3. \A m \in Node : \A r \in ToSet(chains'[m]) : Chained(c, d, m, r)'
    <3> SUFFICES ASSUME NEW m \in Node, NEW r \in ToSet(chains'[m])
                 PROVE  Chained(c, d, m, r)'
      OBVIOUS
    <3>1. r \in ToSet(chains[m]) \/ (d # Size - 1 /\ \E i \in CallsOf(s, m) : r = <<n, i>>)
      BY <1>20
    <3> QED
      BY <2>1, <2>2, <3>1
  <2>4. ASSUME NEW m \in Node, chains'[m] # <<>>
        PROVE  m \in ToSet(firsts')
    <3>1. CASE chains[m] # <<>>
      BY <1>4, <1>20, <3>1 DEF Chainings
    <3>2. CASE chains[m] = <<>>
      <4>1. ToSet(chains[m]) = {}
        BY <3>2 DEF ToSet
      <4>2. PICK r : r \in ToSet(chains'[m])
        <5>1. chains'[m] \in Seq(Node \X Nat)
          BY <1>20
        <5>2. Len(chains'[m]) # 0
          BY <2>4, <5>1, EmptySeq
        <5>3. 1 \in DOMAIN chains'[m]
          BY <5>1, <5>2
        <5> QED
          BY <5>3 DEF ToSet
      <4>3. PICK i \in CallsOf(s, m) : d # Size - 1
        BY <1>20, <4>1, <4>2
      <4>4. i \in DOMAIN s /\ s[i][2] = m
        BY DEF CallsOf
      <4> QED
        BY <1>20, <4>3, <4>4
    <3> QED
      BY <3>1, <3>2
  <2> QED
    BY <1>20, <2>3, <2>4 DEF Chainings
<1>24. Outgoing'
  <2>1. NoSeconds'
    BY <1>4, <1>5 DEF Outgoing, NoSeconds
  <2>2. ASSUME NEW m \in ToSet(firsts')
        PROVE  chains'[m] # <<>>
    <3>1. m \in Node
      <4>1. firsts' \in Seq(Node)
        BY <1>20
      <4> QED
        BY <4>1 DEF ToSet
    <3>2. PICK r : r \in ToSet(chains'[m])
      <4>1. CASE m \in ToSet(firsts)
        <5>1. chains[m] # <<>> /\ chains[m] \in Seq(Node \X Nat)
          BY <1>4, <3>1, <4>1 DEF Outgoing, ListTypes
        <5>2. 1 \in DOMAIN chains[m]
          <6>1. Len(chains[m]) # 0
            BY <5>1, EmptySeq
          <6> QED
            BY <5>1, <6>1
        <5>3. chains[m][1] \in ToSet(chains[m])
          BY <5>2 DEF ToSet
        <5> QED
          BY <1>20, <3>1, <5>3
      <4>2. CASE m \notin ToSet(firsts)
        <5>1. PICK i \in DOMAIN s : d # Size - 1 /\ m = s[i][2]
          BY <1>20, <4>2
        <5>2. i \in CallsOf(s, m)
          BY <5>1 DEF CallsOf
        <5>3. ToSet(chains'[m]) = ToSet(chains[m]) \cup {<<n, j>> : j \in CallsOf(s, m)}
          BY <1>20, <3>1, <5>1
        <5>4. <<n, i>> \in {<<n, j>> : j \in CallsOf(s, m)}
          BY <5>2
        <5>5. <<n, i>> \in ToSet(chains'[m])
          BY <5>3, <5>4
        <5> QED
          BY <5>5
      <4> QED
        BY <4>1, <4>2
    <3> QED
      BY <3>2 DEF ToSet
  <2> QED
    BY <2>1, <2>2 DEF Outgoing
<1>25. phase' = "layer" => Layering(c, d)'
  <2> SUFFICES ASSUME phase' = "layer"
               PROVE  Layering(c, d)'
    OBVIOUS
  <2>1. triplets' = <<>>
    BY <1>5
  <2>2. \A m \in Node : seconds'[m] = Null
    BY <1>24 DEF Outgoing, NoSeconds
  <2>3. DOMAIN triplets' = {}
    BY <2>1
  <2> QED
    BY <2>2, <2>3 DEF Layering, NoSeconds
<1>26. Work(c, d)'
  BY <1>19, <1>23, <1>24, <1>25 DEF Work
\* The node has its arcs.
<1>27. Described(c, n)'
  <2> DEFINE a == arcs'[n]
  <2>1. /\ DOMAIN a = DOMAIN s /\ Len(a) = Len(s) /\ a \in Seq(Arc)
        /\ \A i \in DOMAIN s : a[i].value = s[i][1] /\ a[i].end = EndOfCall(d, s[i])
    BY <1>6
  <2>2. /\ \A x, y \in DOMAIN s : x < y => s[x][1] < s[y][1]
        /\ \A x \in DOMAIN s : /\ s[x][2] = Goal(operands, c[n][1], s[x][1])
                               /\ s[x][3] = Goal(operands, c[n][2], s[x][1])
        /\ \A v : (\E x \in DOMAIN s : s[x][1] = v) <=> Wants(op, operands, c[n], d, v)
    BY <1>2 DEF CallsFor
  <2> HIDE DEF a
  <2>3. Rises(a)
    BY <2>1, <2>2 DEF Rises
  <2>4. \A v : HasLabel(a, 1, v) <=> \E x \in DOMAIN s : s[x][1] = v
    <3> SUFFICES ASSUME NEW v
                 PROVE  HasLabel(a, 1, v) <=> \E x \in DOMAIN s : s[x][1] = v
      OBVIOUS
    <3>1. DOMAIN s = 1..Len(a) /\ \A x \in DOMAIN s : a[x].value = s[x][1]
      BY <1>6, <2>1
    <3> QED
      BY <3>1 DEF HasLabel
  <2>5. \A v \in Label : HasLabel(a, 1, v) <=> Wants(op', operands', c[n], varIndex'[n], v)
    BY <1>5, <1>6, <2>2, <2>4
  <2>6. ASSUME NEW i \in DOMAIN a
        PROVE  Leads(c, n, i)'
    <3> DEFINE p == Goals(operands, c[n], a[i].value)
    <3>1. i \in DOMAIN s /\ a[i].value = s[i][1] /\ a[i].end = EndOfCall(d, s[i])
      BY <2>1
    <3>2. p[1] = s[i][2] /\ p[2] = s[i][3]
      BY <2>2, <3>1 DEF Goals
    <3>3. p = Goals(operands', c[n], a[i].value) /\ varIndex'[n] = d /\ nodes' = nodes
      BY <1>5, <1>6
    <3> HIDE DEF p
    <3>4. CASE d = Size - 1
      <4>1. a[i].end \in ToSet(nodes'[Size])
        BY <1>4, <3>1, <3>3, <3>4, FinalIs DEF EndOfCall
      <4> QED
        BY <3>3, <3>4, <4>1 DEF Leads, a
    <3>5. CASE d # Size - 1
      <4>1. a[i].end = p[2]
        BY <3>1, <3>2, <3>5 DEF EndOfCall
      <4>2. p[1] \in Node /\ i \in CallsOf(s, p[1])
        BY <1>6, <1>9, <3>1, <3>2 DEF CallsOf
      <4>3. <<n, i>> \in ToSet(chains'[p[1]])
        BY <1>20, <3>5, <4>2
      <4> QED
        BY <3>3, <3>5, <4>1, <4>3 DEF Leads, a
    <3> QED
      BY <3>4, <3>5
  <2> QED
    BY <2>3, <2>5, <2>6 DEF Described, a
<1>28. ASSUME NEW q \in Made \ Waiting, varIndex[q] < Size
       PROVE  Described(c, q)'
  <2>1. Described(c, q) /\ Coupled(c, q) /\ q # n /\ q \in Node
    BY <1>4, <1>9, <1>18, <1>28 DEF Couples, Made
  <2>2. arcs'[q] = arcs[q]
    BY <1>6, <2>1
  <2>3. ASSUME NEW i \in DOMAIN arcs[q]
        PROVE  Leads(c, q, i)'
    <3> DEFINE p == Goals(operands, c[q], arcs[q][i].value)
    <3>1. Leads(c, q, i)
      BY <2>1 DEF Described
    <3>2. p[1] \in Side
      BY <1>4, <2>1, GoalFacts
    <3>3. \A x \in ToSet(chains[p[1]]) : x \in ToSet(chains'[p[1]])
      <4>1. p[1] \in Node
        BY <1>9, <3>2
      <4> HIDE DEF p
      <4> QED
        BY <1>20, <4>1
    <3>4. /\ arcs'[q][i] = arcs[q][i] /\ p = Goals(operands', c[q], arcs'[q][i].value)
          /\ varIndex' = varIndex /\ nodes' = nodes
      BY <1>5, <2>2
    <3>5. CASE varIndex[q] = Size - 1
      <4>1. arcs[q][i].end \in ToSet(nodes[Size])
        BY <3>1, <3>5 DEF Leads
      <4> QED
        BY <3>4, <3>5, <4>1 DEF Leads
    <3>6. CASE varIndex[q] # Size - 1
      <4> DEFINE x == arcs[q][i].end
      <4>1. \/ x \in Made /\ varIndex[x] = varIndex[q] + 1 /\ c[x] = p
            \/ x = p[2] /\ <<q, i>> \in ToSet(chains[p[1]])
        BY <3>1, <3>6 DEF Leads
      <4>2. \/ x \in Made' /\ varIndex'[x] = varIndex'[q] + 1 /\ c[x] = p
            \/ x = p[2] /\ <<q, i>> \in ToSet(chains'[p[1]])
        <5> HIDE DEF x, p
        <5> QED
          BY <1>8, <3>3, <3>4, <4>1
      <4> QED
        BY <3>4, <3>6, <4>2 DEF Leads
    <3> QED
      BY <3>5, <3>6
  <2> QED
    BY <1>5, <2>1, <2>2, <2>3 DEF Described
<1>29. Couples(c)'
  <2>1. \A q \in Made : Coupled(c, q) => Coupled(c, q)'
    BY <1>5, <1>8 DEF Coupled
  <2>2. \A q \in Made' \ Waiting' : varIndex'[q] < Size => Described(c, q)'
    <3> SUFFICES ASSUME NEW q \in Made' \ Waiting', varIndex'[q] < Size
                 PROVE  Described(c, q)'
      OBVIOUS
    <3>1. q \in Made /\ varIndex[q] < Size /\ (q = n \/ q \notin Waiting)
      BY <1>5, <1>8, <1>17
    <3>2. CASE q = n
      BY <1>27, <3>2
    <3>3. CASE q # n
      BY <1>28, <3>1, <3>3
    <3> QED
      BY <3>2, <3>3
  <2> QED
    BY <1>4, <1>5, <1>8, <2>1, <2>2 DEF Couples
<1>30. phase' \in {"outgoing", "layer"}
  BY <1>5
<1> QED
  BY <1>4, <1>7, <1>10, <1>12, <1>13, <1>21, <1>26, <1>29, <1>30 DEF Build, Layer

-----------------------------------------------------------------------------
(***************************************************************************)
(* Reduce takes the layers over.                                           *)
(***************************************************************************)

\* When no arc is in a chain the arcs of the result lead to the nodes of the couples
\* that they mean.
LEMMA ArcsArrive ==
  ASSUME OwnKept, Shape, ListTypes, NEW c, NEW d, Couples(c), Listings(c, d), Chainings(c, d),
         firsts = <<>>, NEW n \in Made, NEW i \in DOMAIN arcs[n]
  PROVE  LET a == arcs[n][i] IN
         /\ varIndex[n] < Size /\ n \notin Waiting
         /\ a.end \in Made /\ varIndex[a.end] = varIndex[n] + 1
         /\ varIndex[n] < Size - 1 => c[a.end] = Goals(operands, c[n], a.value)
<1> DEFINE a == arcs[n][i]
           p == Goals(operands, c[n], a.value)
<1>1. n \in Node /\ varIndex[n] \in Layer /\ arcs[n] # <<>>
  <2>1. n \in Node
    BY DEF Made, Shape
  <2>2. arcs[n] # <<>>
    OBVIOUS
  <2> QED
    BY <2>1, <2>2 DEF Shape
<1>2. varIndex[n] \in Int /\ Size \in Int /\ varIndex[n] < Size
  <2>1. varIndex[n] # Size
    BY <1>1 DEF Shape
  <2> QED
    BY <1>1, <2>1, SizeIsPositive DEF Layer
<1>3. n \notin Waiting
  BY <1>1 DEF Waiting, Listings
<1>4. Described(c, n) /\ Coupled(c, n)
  BY <1>2, <1>3 DEF Couples
<1>5. Leads(c, n, i)
  BY <1>4 DEF Described
<1>6. CASE varIndex[n] = Size - 1
  <2>1. a.end \in ToSet(nodes[Size])
    BY <1>5, <1>6 DEF Leads
  <2>2. Size \in Layer
    BY SizeIsPositive DEF Layer
  <2>3. a.end \in Made /\ varIndex[a.end] = Size
    BY <2>1, <2>2 DEF Shape
  <2> QED
    BY <1>2, <1>3, <1>6, <2>3
<1>7. CASE varIndex[n] # Size - 1
  <2>1. \/ a.end \in Made /\ varIndex[a.end] = varIndex[n] + 1 /\ c[a.end] = p
        \/ <<n, i>> \in ToSet(chains[p[1]])
    BY <1>5, <1>7 DEF Leads
  <2>2. p[1] \in Side
    BY <1>4, GoalFacts
  <2>3. p[1] \in Node
    BY <2>2 DEF Side, OwnKept, Shape
  <2> HIDE DEF p
  <2>4. chains[p[1]] = <<>>
    <3>1. ToSet(firsts) = {}
      BY DEF ToSet
    <3> QED
      BY <2>3, <3>1 DEF Chainings
  <2>5. ToSet(chains[p[1]]) = {}
    BY <2>4 DEF ToSet
  <2>6. a.end \in Made /\ varIndex[a.end] = varIndex[n] + 1 /\ c[a.end] = p
    BY <2>1, <2>5
  <2> QED
    BY <1>2, <1>3, <2>6 DEF p
<1> QED
  BY <1>6, <1>7

LEMMA LayersAreDone ==
  ASSUME Build, phase = "layer", firsts = <<>>, triplets = <<>>
  PROVE  Reducible
<1>1. OwnKept /\ Shape /\ ListTypes /\ Unallocated /\ InCounted
  BY DEF Build
<1>2. PICK c : Couples(c) /\ \E d \in Layer : Work(c, d)
  BY DEF Build
<1>3. PICK d \in Layer : Work(c, d)
  BY <1>2
<1>4. Listings(c, d) /\ Chainings(c, d)
  BY <1>3 DEF Work
<1>5. /\ pc = "idle" /\ GivenNodes = nodes /\ GivenArcs = arcs
      /\ Size \in Nat /\ 0 \in Layer /\ Size \in Layer
  BY <1>1, SizeIsPositive DEF Unallocated, GivenNodes, GivenArcs, Layer
<1>6. /\ operands \in Operands /\ Side \subseteq Node /\ Side \subseteq alive /\ Own \subseteq Side
      /\ FakeNode \in Node /\ arcs[FakeNode] = <<>> /\ Side = Own \cup {FakeNode}
      /\ \A n \in Own : arcs[n] = operands.arcs[n] /\ varIndex[n] = operands.layer[n]
  BY <1>1, OperandFacts DEF OwnKept, Side
<1>7. /\ nodes \in [Layer -> Seq(Node)] /\ alive \subseteq Node /\ IsFiniteSet(alive)
      /\ varIndex \in [Node -> Layer] /\ arcs \in [Node -> Seq(Arc)]
      /\ nbIn \in [Node -> Int] /\ newV = [n \in Node |-> n]
      /\ \A l \in Layer : /\ IsInjective(nodes[l])
                          /\ ToSet(nodes[l]) = {n \in Made : varIndex[n] = l}
      /\ Len(nodes[0]) = 1 /\ Len(nodes[Size]) = 1
      /\ \A n \in Node \ alive : arcs[n] = <<>>
  BY <1>1 DEF Shape
<1>8. \A n \in Node : n \in Side \/ n \in Made \/ n \notin alive
  BY DEF Made
<1>9. Made \subseteq alive /\ Made \cap Side = {} /\ alive = Side \cup Made
  BY <1>6 DEF Made
<1>10. Part = Made
  <2>1. \A l \in Layer : ToSet(GivenNodes[l]) \subseteq Made
    BY <1>5, <1>7
  <2>2. ASSUME NEW n \in Made
        PROVE  \E l \in Layer : n \in ToSet(GivenNodes[l])
    <3>1. varIndex[n] \in Layer
      BY <1>7, <1>9
    <3> QED
      BY <1>5, <1>7, <3>1
  <2> QED
    BY <2>1, <2>2 DEF Part
<1>11. \A l \in Layer : Was(l) = ToSet(nodes[l])
  BY <1>7, <1>10 DEF Was
<1>12. ASSUME NEW n \in Made, NEW i \in DOMAIN arcs[n]
       PROVE  /\ varIndex[n] < Size /\ n \notin Waiting
              /\ arcs[n][i].end \in Made /\ varIndex[arcs[n][i].end] = varIndex[n] + 1
              /\ varIndex[n] < Size - 1 =>
                   c[arcs[n][i].end] = Goals(operands, c[n], arcs[n][i].value)
  BY <1>1, <1>2, <1>4, ArcsArrive
<1>13. Waiting = {}
  BY DEF Waiting
<1>14. Types
  <2>1. newV \in [Node -> Node \cup {Null}]
    BY <1>7
  <2> QED
    BY <1>7, <1>9, <1>10, <2>1 DEF Types
<1>15. Lists
  BY <1>7, <1>11 DEF Lists
<1>16. ArcsGoDown
  <2> SUFFICES ASSUME NEW n \in Node, NEW i \in DOMAIN arcs[n]
               PROVE  /\ n \in alive /\ arcs[n][i].end \in alive
                      /\ varIndex[arcs[n][i].end] = varIndex[n] + 1
                      /\ n \in Part => arcs[n][i].end \in Part
    BY DEF ArcsGoDown
  <2>1. arcs[n] # <<>>
    OBVIOUS
  <2>2. CASE n \in Made
    BY <1>9, <1>10, <1>12, <2>2
  <2>3. CASE n \in Own
    <3>1. /\ arcs[n] = operands.arcs[n] /\ operands.arcs[n][i].end \in Own
          /\ operands.layer[operands.arcs[n][i].end] = operands.layer[n] + 1
      BY <1>6, <2>3, OperandFacts
    <3>2. n \in alive /\ arcs[n][i].end \in alive /\ n \notin Part
      BY <1>6, <1>9, <1>10, <2>3, <3>1
    <3> QED
      BY <1>6, <2>3, <3>1, <3>2
  <2> QED
    BY <1>6, <1>7, <1>8, <2>1, <2>2, <2>3
<1>17. ASSUME NEW n \in Made, varIndex[n] < Size
       PROVE  Coupled(c, n) /\ Described(c, n)
  BY <1>2, <1>13, <1>17 DEF Couples
<1>18. ASSUME NEW n \in Node
       PROVE  Rises(arcs[n])
  <2>1. Rises(<<>>)
    BY DEF Rises
  <2>2. CASE n \in Made
    <3>1. varIndex[n] = Size => arcs[n] = <<>>
      BY <1>1, <2>2 DEF Shape
    <3>2. varIndex[n] < Size => Described(c, n)
      BY <1>17, <2>2
    <3>3. varIndex[n] < Size \/ varIndex[n] = Size
      BY <1>5, <1>7 DEF Layer
    <3> QED
      BY <2>1, <3>1, <3>2, <3>3 DEF Described
  <2>3. CASE n \in Own
    BY <1>6, <2>3, OperandFacts
  <2> QED
    BY <1>6, <1>7, <1>8, <2>1, <2>2, <2>3
<1>19. \A n \in Node : Sorted(arcs[n])
  <2> SUFFICES ASSUME NEW n \in Node, NEW i \in DOMAIN arcs[n], i > 1
               PROVE  arcs[n][i - 1].value <= arcs[n][i].value
    BY DEF Sorted
  <2> DEFINE a == arcs[n]
  <2>1. a \in Seq(Arc) /\ Rises(a)
    BY <1>7, <1>18
  <2>2. i \in 1..Len(a) /\ DOMAIN a = 1..Len(a) /\ Len(a) \in Nat
    BY <2>1
  <2>3. i - 1 \in DOMAIN a /\ i - 1 < i
    BY <2>2
  <2> HIDE DEF a
  <2>4. a[i - 1].value < a[i].value
    BY <2>1, <2>2, <2>3 DEF Rises
  <2>5. a[i - 1] \in Arc /\ a[i] \in Arc
    BY <2>1, <2>2, <2>3
  <2>6. a[i - 1].value \in Nat /\ a[i].value \in Nat
    BY <2>5, LabelsAreNats DEF Arc
  <2>7. a[i - 1].value <= a[i].value
    BY <2>4, <2>6
  <2> QED
    BY <2>7 DEF a
<1>20. AtRest
  <2>1. \A l \in Layer : Untouched(l)
    <3> SUFFICES ASSUME NEW l \in Layer
                 PROVE  Untouched(l)
      OBVIOUS
    <3>1. \A n \in Was(l) : n \in Made
      BY <1>10 DEF Was
    <3>2. ASSUME NEW q \in Made
          PROVE  q \in Node /\ newV[q] = q
      <4>1. newV = [n \in Node |-> n]
        BY <1>7
      <4>2. Made \subseteq Node
        BY <1>7, <1>9
      <4>3. q \in Node
        BY <4>2
      <4>4. newV[q] = q
        BY <4>1, <4>3
      <4> QED
        BY <4>3, <4>4
    <3>3. ToSet(nodes[l]) = Was(l)
      BY <1>11
    <3> QED
      BY <3>1, <3>2, <3>3 DEF Untouched
  <2>2. Rooted
    BY <1>7 DEF Rooted
  <2> QED
    BY <1>1, <1>7, <1>19, <2>1, <2>2 DEF AtRest, Unallocated
<1>21. IInv
  <2>1. /\ layer \in -1..Size /\ todo \in Seq(Node)
        /\ swap \in BOOLEAN /\ labelMode \in BOOLEAN
    <3>1. layer = Size /\ todo = <<>> /\ swap = TRUE /\ labelMode = TRUE
      BY <1>1 DEF Unallocated
    <3>2. <<>> \in Seq(Node)
      OBVIOUS
    <3> QED
      BY <1>5, <3>1, <3>2
  <2> QED
    BY <1>5, <1>14, <1>15, <1>16, <1>20, <2>1 DEF IInv, Frame
<1>22. KeptInv
  BY <1>5, <1>21, RestIsKept
<1>23. Apart
  <2>1. ASSUME NEW n \in Own
        PROVE  nbIn[n] = Cardinality(ArcsInto(n, Own))
    <3>1. nbIn[n] = Cardinality(ArcsInto(n, alive))
      BY <1>1, <2>1 DEF InCounted
    <3>2. \A x \in alive \ Own : \A i \in DOMAIN arcs[x] : arcs[x][i].end # n
      <4> SUFFICES ASSUME NEW x \in alive \ Own, NEW i \in DOMAIN arcs[x]
                   PROVE  arcs[x][i].end # n
        OBVIOUS
      <4>1. x \in Made
        <5>1. x # FakeNode
          BY <1>6
        <5> QED
          BY <1>6, <1>9, <5>1
      <4> QED
        BY <1>6, <1>9, <1>12, <2>1, <4>1
    <3>3. ArcsInto(n, alive) = ArcsInto(n, Own)
      BY <1>6, <3>2 DEF ArcsInto
    <3> QED
      BY <3>1, <3>3
  <2> QED
    BY <1>5, <1>6, <1>9, <1>10, <2>1 DEF Apart
<1>24. Product(c)
  <2>1. ASSUME NEW n \in Part, varIndex[n] < Size
        PROVE  /\ Coupled(c, n) /\ Rises(GivenArcs[n])
               /\ \A v \in Label :
                    HasLabel(GivenArcs[n], 1, v) <=> Wants(op, operands, c[n], varIndex[n], v)
    BY <1>5, <1>10, <1>17, <2>1 DEF Described
  <2>2. c \in [Node -> Node \X Node] /\ c[nodes[0][1]] = operands.roots
    BY <1>2 DEF Couples
  <2> QED
    BY <1>5, <1>7, <1>10, <1>12, <2>1, <2>2 DEF Product
<1> QED
  BY <1>1, <1>21, <1>22, <1>23, <1>24 DEF Reducible

-----------------------------------------------------------------------------
(***************************************************************************)
(* Every step.                                                             *)
(***************************************************************************)

\* A step of Reduce changes the arcs and the counters of the nodes that it is given
\* only.
LEMMA OthersUntouched ==
  ASSUME IInv, [Next]_vars
  PROVE  /\ alive' = alive /\ varIndex' = varIndex
         /\ \A n \in Node \ Part : arcs'[n] = arcs[n] /\ nbIn'[n] = nbIn[n]
<1>1. CASE NextArc
  <2> DEFINE h == Head(todo)
             a == arcs[h]
             x == a[e].end
             r == newV[x]
  <2>1. /\ a \in Seq(Arc) /\ e \in 1..Len(a) /\ x \in Was(layer + 1) /\ x \in Node
        /\ r = Null \/ (r \in Node /\ r \in Was(layer + 1))
        /\ arcs' = [arcs EXCEPT ![h] = IF r = Null THEN RemoveAt(a, e) ELSE LedTo(a, e, r)]
        /\ UNCHANGED <<nodes, alive, varIndex, newV>>
    BY <1>1, NextArcFacts
  <2>2. /\ pc = "arc" /\ UpdateArc(h, e, r)
    BY <1>1 DEF NextArc
  <2>3. Frame /\ Around /\ todo # <<>>
    BY <2>2 DEF IInv, AtArc
  <2>4. h \in Node /\ h \in Was(layer)
    BY <2>2, <2>3, HeadFacts
  <2>5. h \in Part /\ x \in Part /\ (r # Null => r \in Part)
    BY <2>1, <2>4 DEF Was
  <2>6. arcs \in [Node -> Seq(Arc)] /\ nbIn \in [Node -> Int]
    BY <2>3 DEF Frame, Types
  <2>7. nbIn' = IF r = Null THEN [nbIn EXCEPT ![x] = @ - 2]
                ELSE [[nbIn EXCEPT ![x] = @ - 1] EXCEPT ![r] = @ + 1]
    BY <2>2 DEF UpdateArc
  <2>8. ASSUME NEW n \in Node \ Part
        PROVE  arcs'[n] = arcs[n] /\ nbIn'[n] = nbIn[n]
    <3>1. n # h /\ n # x /\ (r # Null => n # r)
      BY <2>5
    <3> HIDE DEF h, a, x, r
    <3>2. arcs'[n] = arcs[n]
      BY <2>1, <2>6, <3>1
    <3>3. nbIn'[n] = nbIn[n]
      BY <2>6, <2>7, <3>1
    <3> QED
      BY <3>2, <3>3
  <2> QED
    BY <2>1, <2>8
<1>2. CASE ~NextArc
  <2>1. CASE UNCHANGED mddVars
    BY <2>1 DEF mddVars
  <2>2. CASE OpenNode \/ DropNode \/ Merge
    BY <2>2 DEF OpenNode, DropNode, Merge
  <2>3. UNCHANGED mddVars \/ OpenNode \/ DropNode \/ Merge
    <3>1. CASE UNCHANGED vars
      BY <3>1 DEF vars
    <3>2. Construct \/ OpenLayer \/ EnlistNode \/ BeginSort \/ RadixCount => UNCHANGED mddVars
      BY DEF OpenLayer, EnlistNode, Construct, BeginSort, RadixCount
    <3>3. RadixCumulative \/ Permutation \/ LeadManagement => UNCHANGED mddVars
      BY DEF RadixCumulative, Permutation, LeadManagement
    <3>4. PrepareNextRadixLabel \/ PrepareNextRadixNode \/ EndSort \/ CloseLayer \/ Finish
            => UNCHANGED mddVars
      BY DEF PrepareNextRadixLabel, PrepareNextRadixNode, EndSort, CloseLayer, Finish
    <3> QED
      BY <1>2, <3>1, <3>2, <3>3, <3>4 DEF Next
  <2> QED
    BY <2>1, <2>2, <2>3
<1> QED
  BY <1>1, <1>2

\* Reduce leaves the product as it is.
LEMMA ReducibleKept ==
  ASSUME Reducible, [Next]_vars, UNCHANGED <<op, operands, triplets, chains, firsts, seconds>>
  PROVE  Reducible'
<1>1. OwnKept /\ ListTypes /\ IInv /\ KeptInv /\ Apart
  BY DEF Reducible
<1>2. PICK c : Product(c)
  BY DEF Reducible
<1>3. IInv' /\ KeptInv'
  BY <1>1, Inductive, KeptStep
<1>4. ListTypes'
  BY <1>1 DEF ListTypes
<1>5. /\ alive' = alive /\ varIndex' = varIndex
      /\ \A n \in Node \ Part : arcs'[n] = arcs[n] /\ nbIn'[n] = nbIn[n]
  BY <1>1, OthersUntouched
<1>6. GivenNodes' = GivenNodes /\ GivenArcs' = GivenArcs /\ Part' = Part
  BY GivenKept, SamePart DEF SameGiven
<1>7. Own' = Own /\ Side' = Side
  BY DEF Own, Side
<1>8. \A n \in Side : arcs'[n] = arcs[n] /\ nbIn'[n] = nbIn[n]
  <2>1. Side \cap Part = {} /\ Side \subseteq Node
    BY <1>1, OperandFacts DEF Apart, OwnKept
  <2> QED
    BY <1>5, <2>1
<1>9. OwnKept'
  BY <1>1, <1>5, <1>7, <1>8 DEF OwnKept, Side
<1>10. Apart'
  <2>1. \A n : ArcsInto(n, Own)' = ArcsInto(n, Own)
    <3>1. \A x \in Own : arcs'[x] = arcs[x]
      BY <1>8 DEF Side
    <3> QED
      BY <1>7, <3>1 DEF ArcsInto
  <2>2. \A n \in Own : nbIn'[n] = nbIn[n]
    BY <1>8 DEF Side
  <2> QED
    BY <1>1, <1>5, <1>6, <1>7, <2>1, <2>2 DEF Apart
<1>11. Product(c)'
  <2>1. \A n : Coupled(c, n)' <=> Coupled(c, n)
    BY <1>5, <1>7 DEF Coupled
  <2> QED
    BY <1>2, <1>5, <1>6, <2>1 DEF Product
<1> QED
  BY <1>3, <1>4, <1>9, <1>10, <1>11 DEF Reducible

LEMMA BuildStep ==
  ASSUME Positive, Build, ApplyNext
  PROVE  ApplyInv'
<1>1. /\ phase \in {"outgoing", "layer"}
      /\ OwnKept /\ Shape /\ ListTypes /\ Unallocated /\ InCounted
  BY DEF Build
<1>2. PICK c : Couples(c) /\ \E d \in Layer : Work(c, d)
  BY DEF Build
<1>3. PICK d \in Layer : Work(c, d)
  BY <1>2
<1>4. Listings(c, d) /\ Chainings(c, d)
  BY <1>3 DEF Work
<1>5. CASE OutgoingArcs
  <2>1. phase = "outgoing" /\ triplets # <<>>
    BY <1>5 DEF OutgoingArcs
  <2>2. Outgoing
    BY <1>3, <2>1 DEF Work
  <2>3. Opening(c, d)
    BY <1>1, <1>2, <1>4, <2>1, <2>2 DEF Opening
  <2> QED
    BY <1>5, <2>3, OutgoingBuild DEF ApplyInv
<1>6. ASSUME phase = "layer", firsts # <<>>, Chain # <<>>
      PROVE  Building(c, d)
  BY <1>1, <1>2, <1>3, <1>4, <1>6 DEF Building, Work
<1>7. CASE NewCouple
  <2>1. phase = "layer" /\ firsts # <<>> /\ Chain # <<>>
    BY <1>7 DEF NewCouple
  <2> QED
    BY <1>6, <1>7, <2>1, NewCoupleBuild DEF ApplyInv
<1>8. CASE LinkCouple
  <2>1. phase = "layer" /\ firsts # <<>> /\ Chain # <<>>
    BY <1>8 DEF LinkCouple
  <2> QED
    BY <1>6, <1>8, <2>1, LinkCoupleBuild DEF ApplyInv
<1>9. CASE NextFirst
  BY <1>9, NextFirstBuild DEF ApplyInv
<1>10. CASE EndLayer /\ triplets # <<>>
  BY <1>10, EndLayerBuild DEF ApplyInv
<1>11. CASE EndLayer /\ triplets = <<>>
  <2>1. /\ phase = "layer" /\ firsts = <<>> /\ triplets = <<>> /\ phase' = "reduce"
        /\ UNCHANGED <<mddVars, reduceVars>>
        /\ UNCHANGED <<op, operands, triplets, chains, firsts, seconds>>
    BY <1>11 DEF EndLayer
  <2>2. Reducible
    BY <2>1, LayersAreDone
  <2>3. [Next]_vars
    BY <2>1 DEF vars
  <2>4. Reducible'
    BY <2>1, <2>2, <2>3, ReducibleKept
  <2> QED
    BY <2>1, <2>4 DEF ApplyInv
<1>12. CASE Reducing
  BY <1>1, <1>12 DEF Reducing
<1> QED
  BY <1>5, <1>7, <1>8, <1>9, <1>10, <1>11, <1>12 DEF ApplyNext

LEMMA ReducingStep ==
  ASSUME phase = "reduce", Reducible, ApplyNext
  PROVE  ApplyInv'
<1>1. Reducing
  BY DEF ApplyNext, OutgoingArcs, NewCouple, LinkCouple, NextFirst, EndLayer
<1>2. Next /\ phase' = phase /\ UNCHANGED <<op, operands, triplets, chains, firsts, seconds>>
  BY <1>1 DEF Reducing, applyVars
<1>3. Reducible'
  BY <1>2, ReducibleKept
<1> QED
  BY <1>2, <1>3 DEF ApplyInv

LEMMA ApplyStutters == ApplyInv /\ UNCHANGED applyAll => ApplyInv'
<1> SUFFICES ASSUME ApplyInv, UNCHANGED applyAll
             PROVE  ApplyInv'
  OBVIOUS
<1>1. /\ UNCHANGED vars /\ phase' = phase
      /\ UNCHANGED <<op, operands, triplets, chains, firsts, seconds>>
  BY DEF applyAll, applyVars
<1>2. UNCHANGED mddVars /\ UNCHANGED reduceVars
  BY <1>1 DEF vars
<1>3. CASE phase = "reduce" /\ Reducible
  <2>1. Reducible'
    BY <1>1, <1>3, ReducibleKept
  <2> QED
    BY <1>1, <1>3, <2>1 DEF ApplyInv
<1>4. CASE Build
  <2>1. /\ nodes' = nodes /\ alive' = alive /\ varIndex' = varIndex /\ arcs' = arcs
        /\ nbIn' = nbIn /\ newV' = newV /\ op' = op /\ operands' = operands
        /\ triplets' = triplets /\ chains' = chains /\ firsts' = firsts /\ seconds' = seconds
    BY <1>1, <1>2 DEF mddVars
  <2>2. PICK c : Couples(c) /\ \E d \in Layer : Work(c, d)
    BY <1>4 DEF Build
  <2>3. PICK d \in Layer : Work(c, d)
    BY <2>2
  <2>4. Own' = Own /\ Side' = Side /\ Made' = Made /\ OwnKept' /\ Shape' /\ InCounted'
    BY <1>1, <1>2, <1>4, SameDiagram DEF Build
  <2>5. Unallocated'
    BY <1>2, <1>4, SameRest DEF Build
  <2>6. Couples(c)'
    BY <1>1, <1>2, <2>2, SameCouples
  <2>7. ListTypes'
    BY <1>4, <2>1 DEF Build, ListTypes
  <2>8. TripletLayer(d)' = TripletLayer(d)
    BY <1>1 DEF TripletLayer
  <2>9. Listings(c, d)'
    BY <2>1, <2>3, <2>4, <2>8 DEF Work, Listings
  <2>10. \A m, r : Chained(c, d, m, r)' <=> Chained(c, d, m, r)
    BY <2>1, <2>4 DEF Chained
  <2>11. Chainings(c, d)'
    BY <2>1, <2>3, <2>10 DEF Work, Chainings
  <2>12. phase' = "outgoing" => Outgoing'
    BY <1>1, <2>1, <2>3 DEF Work, Outgoing, NoSeconds
  <2>13. phase' = "layer" => Layering(c, d)'
    BY <1>1, <2>1, <2>3, <2>4 DEF Work, Layering, NoSeconds
  <2>14. Work(c, d)'
    BY <2>9, <2>11, <2>12, <2>13 DEF Work
  <2>15. phase' \in {"outgoing", "layer"}
    BY <1>1, <1>4 DEF Build
  <2> QED
    BY <2>4, <2>5, <2>6, <2>7, <2>14, <2>15 DEF ApplyInv, Build, Layer
<1> QED
  BY <1>3, <1>4 DEF ApplyInv

LEMMA ApplyInductive ==
  ASSUME Positive, ApplyInv, [ApplyNext]_applyAll
  PROVE  ApplyInv'
BY BuildStep, ReducingStep, ApplyStutters DEF ApplyInv

\* What every state of Apply satisfies, when op_ wants no arc where both nodes have
\* none.
THEOREM ApplyInvariant ==
  ASSUME Positive
  PROVE  ApplySpec => []ApplyInv
<1>1. ApplyInit => ApplyInv
  BY InitBuild DEF ApplyInv
<1>2. ApplyInv /\ [ApplyNext]_applyAll => ApplyInv'
  BY ApplyInductive
<1> QED
  BY <1>1, <1>2, PTL DEF ApplySpec

-----------------------------------------------------------------------------
(***************************************************************************)
(* What the invariant gives.                                               *)
(***************************************************************************)

\* The lists of BuildOutgoingArcs and BuildLayer, and all that Reduce uses, hold nodes,
\* positions and labels, for every pair of operands.
THEOREM ApplyTypesAreCorrect ==
  ASSUME Positive
  PROVE  ApplySpec => []ApplyTypeOK
<1>1. ApplyInv => ApplyTypeOK
  <2>1. ASSUME Build
        PROVE  ApplyTypeOK
    <3>1. Shape /\ ListTypes /\ Unallocated
      BY <2>1 DEF Build
    <3>2. newV \in [Node -> Node \cup {Null}]
      BY <3>1 DEF Shape
    <3>3. MDDTypeOK
      BY <3>1, <3>2 DEF Shape, MDDTypeOK
    <3>4. pc = "idle" /\ layer = Size /\ todo = <<>> /\ Size \in Nat
      BY <3>1, SizeIsPositive DEF Unallocated
    <3>5. layer \in -1..Size /\ todo \in Seq(Node)
      BY <3>4
    <3> QED
      BY <3>1, <3>3, <3>4, <3>5 DEF ApplyTypeOK, TypeOK, ListTypes
  <2>2. ASSUME Reducible
        PROVE  ApplyTypeOK
    BY <2>2, InvariantTypes DEF Reducible, ApplyTypeOK, ListTypes
  <2> QED
    BY <2>1, <2>2 DEF ApplyInv
<1> QED
  BY <1>1, ApplyInvariant, PTL

\* Two nodes that wait for their arcs stand for different couples: the arcs of all the
\* nodes of a layer that mean one couple were led to one node.
THEOREM CouplesAreShared ==
  ASSUME Positive
  PROVE  ApplySpec => []OneNodePerCouple
<1>1. ApplyInv => OneNodePerCouple
  <2> SUFFICES ASSUME ApplyInv, phase = "outgoing"
               PROVE  OneNodePerCouple
    BY DEF OneNodePerCouple
  <2>1. Build
    BY DEF ApplyInv
  <2>2. PICK c, d : Listings(c, d)
    BY <2>1 DEF Build, Work
  <2> QED
    BY <2>2 DEF Listings, OneNodePerCouple
<1> QED
  BY <1>1, ApplyInvariant, PTL

\* The operands have the counters that they had whenever no arc is in a chain, and no
\* arc of the result ends in one of their nodes: BuildLayer has led all of them away.
THEOREM OperandsAreLeftAlone ==
  ASSUME Positive
  PROVE  ApplySpec => []OperandsLeftAlone
<1>1. ASSUME Build, phase = "outgoing", firsts = <<>>, NEW n \in Own
      PROVE  nbIn[n] = Cardinality(ArcsInto(n, Own))
  <2>1. OwnKept /\ Shape /\ ListTypes /\ InCounted /\ operands \in Operands
    BY <1>1 DEF Build, OwnKept
  <2>2. nbIn[n] = Cardinality(ArcsInto(n, alive))
    BY <2>1 DEF InCounted
  <2>3. \E c, d : Couples(c) /\ Listings(c, d) /\ Chainings(c, d)
    BY <1>1 DEF Build, Work
  <2>4. ASSUME NEW x \in alive \ Own, NEW i \in DOMAIN arcs[x]
        PROVE  arcs[x][i].end # n
    <3>1. x \in Made
      BY <2>1 DEF Made, Side, OwnKept
    <3>2. arcs[x][i].end \in Made
      BY <1>1, <2>1, <2>3, <3>1, ArcsArrive
    <3> QED
      BY <3>2 DEF Made, Side
  <2>5. Own \subseteq alive
    BY <2>1 DEF OwnKept
  <2>6. ArcsInto(n, alive) = ArcsInto(n, Own)
    BY <2>4, <2>5 DEF ArcsInto
  <2> QED
    BY <2>2, <2>6
<1>2. ASSUME Build, phase = "outgoing", firsts = <<>>, NEW n \in alive \ Own,
             NEW i \in DOMAIN arcs[n]
      PROVE  arcs[n][i].end \notin Own
  <2>1. OwnKept /\ Shape /\ ListTypes
    BY <1>2 DEF Build
  <2>2. \E c, d : Couples(c) /\ Listings(c, d) /\ Chainings(c, d)
    BY <1>2 DEF Build, Work
  <2>3. n \in Made
    BY <1>2, <2>1 DEF Made, Side, OwnKept
  <2>4. arcs[n][i].end \in Made
    BY <1>2, <2>1, <2>2, <2>3, ArcsArrive
  <2> QED
    BY <2>4 DEF Made, Side
<1>3. ASSUME Reducible, NEW n \in Own
      PROVE  nbIn[n] = Cardinality(ArcsInto(n, Own))
  BY <1>3 DEF Reducible, Apart
<1>4. ASSUME Reducible, NEW n \in alive \ Own, NEW i \in DOMAIN arcs[n]
      PROVE  arcs[n][i].end \notin Own
  <2>1. OwnKept /\ Apart /\ Frame
    BY <1>4 DEF Reducible, IInv
  <2>2. n # FakeNode
    BY <2>1 DEF OwnKept
  <2>3. n \in Part /\ n \in Node
    BY <2>1, <2>2 DEF Apart, Side, Frame, Types
  <2>4. arcs[n][i].end \in Part
    BY <2>1, <2>3 DEF Frame, ArcsGoDown
  <2> QED
    BY <2>1, <2>4 DEF Apart, Side
<1>5. ApplyInv => OperandsLeftAlone
  <2> SUFFICES ASSUME ApplyInv, phase \in {"outgoing", "reduce"}, firsts = <<>>
               PROVE  /\ \A n \in Own : nbIn[n] = Cardinality(ArcsInto(n, Own))
                      /\ \A n \in alive \ Own : \A i \in DOMAIN arcs[n] : arcs[n][i].end \notin Own
    BY DEF OperandsLeftAlone, Own
  <2>1. CASE Build /\ phase = "outgoing"
    BY <1>1, <1>2, <2>1
  <2>2. CASE Reducible
    BY <1>3, <1>4, <2>2
  <2> QED
    BY <2>1, <2>2 DEF ApplyInv, Build
<1> QED
  BY <1>5, ApplyInvariant, PTL

\* The labels that the first node of L is given.
LEMMA OutgoingLabels ==
  ASSUME NEW c, NEW d, Opening(c, d), OutgoingArcs, NEW n, n = Head(triplets)[1], NEW v
  PROVE  Has(n, v)' <=> Wants(op, operands, c[n], d, v)
<1> DEFINE t == Head(triplets)
<1>1. PICK s : n = t[1] /\ s = Calls(t[1], t[2], t[3])
  OBVIOUS
<1>2. CallsFor(op, operands, c[n], d, s) /\ Opened(n, s, d) /\ OpenedRest
  <2> HIDE DEF t
  <2>1. CallsFor(op, operands, c[t[1]], d, Calls(t[1], t[2], t[3]))
    BY OutgoingCalls DEF t
  <2>2. Opened(t[1], Calls(t[1], t[2], t[3]), d) /\ OpenedRest
    BY OutgoingEffect DEF t
  <2> QED
    BY <1>1, <2>1, <2>2
<1>3. OpeningStep(c, d, n, s)
  BY <1>1, <1>2 DEF OpeningStep
<1> HIDE DEF t
<1>4. DOMAIN arcs'[n] = DOMAIN s /\ \A i \in DOMAIN s : arcs'[n][i].value = s[i][1]
  BY <1>3, OpenedArcs
<1>5. (\E x \in DOMAIN s : s[x][1] = v) <=> Wants(op, operands, c[n], d, v)
  BY <1>2 DEF CallsFor
<1> QED
  BY <1>4, <1>5 DEF Has

\* BuildOutgoingArcs gives a node an arc for a value when the flag for what the two
\* nodes of its couple have is one of op_'s, and only then, in every layer.
THEOREM FlagsAreFollowed ==
  ASSUME Positive
  PROVE  ApplySpec => FlagsDecide
<1> DEFINE Decided == \A n \in alive, v \in 0..MaxDomSize - 1 :
             phase = "outgoing" /\ n = Head(triplets)[1] =>
               (Has(n, v)' <=> Wanted(Flag(Head(triplets)[2], Head(triplets)[3], v), n))
<1>1. ASSUME ApplyInv, ApplyNext
      PROVE  Decided
  <2> SUFFICES ASSUME NEW n \in alive, NEW v \in 0..MaxDomSize - 1,
                      phase = "outgoing", n = Head(triplets)[1]
               PROVE  Has(n, v)' <=> Wanted(Flag(Head(triplets)[2], Head(triplets)[3], v), n)
    OBVIOUS
  <2> DEFINE t == Head(triplets)
  <2>1. OutgoingArcs
    BY <1>1 DEF ApplyNext, NewCouple, LinkCouple, NextFirst, EndLayer, Reducing
  <2>2. Build /\ triplets # <<>>
    BY <1>1, <2>1 DEF ApplyInv, OutgoingArcs
  <2>3. PICK c : Couples(c) /\ \E d \in Layer : Work(c, d)
    BY <2>2 DEF Build
  <2>4. PICK d \in Layer : Work(c, d)
    BY <2>3
  <2>5. Opening(c, d)
    BY <2>2, <2>3, <2>4 DEF Build, Work, Opening
  <2>6. Has(n, v)' <=> Wants(op, operands, c[n], d, v)
    BY <2>1, <2>5, OutgoingLabels
  <2>7. varIndex[n] = d /\ c[n][1] = t[2] /\ c[n][2] = t[3] /\ t[2] \in Side /\ t[3] \in Side
    BY <2>5, TripletHead
  <2>8. ASSUME NEW m \in Side
        PROVE  Has(m, v) <=> Goes(operands, m, v)
    <3>1. arcs[m] = SideArcs(operands, m) /\ SideArcs(operands, m) \in Seq(Arc)
      BY <2>5, SideFacts DEF Opening, OwnKept, Side, SideArcs
    <3> QED
      BY <3>1 DEF Has, Goes, HasLabel
  <2>9. Flag(t[2], t[3], v) = Cond(Goes(operands, c[n][1], v), Goes(operands, c[n][2], v))
    BY <2>7, <2>8 DEF Flag, Cond
  <2>10. Where(n) = WhereIn(d)
    BY <2>7 DEF Where, WhereIn
  <2> QED
    BY <2>6, <2>9, <2>10 DEF Wanted, Wants
<1>2. ApplyInv /\ [ApplyNext]_applyAll => [Decided]_applyAll
  BY <1>1
<1> QED
  BY <1>2, ApplyInvariant, PTL DEF ApplySpec, FlagsDecide

-----------------------------------------------------------------------------
(***************************************************************************)
(* The flags amount to the operation.                                      *)
(***************************************************************************)
SetOperations == {Intersection, Union, Difference, Xor}

\* What an operation says of a tuple that the operands have or have not.
Combines(o, r1, r2) ==
  \/ o = Intersection /\ r1 /\ r2
  \/ o = Union /\ (r1 \/ r2)
  \/ o = Difference /\ r1 /\ ~r2
  \/ o = Xor /\ (r1 \/ r2) /\ ~(r1 /\ r2)

\* The flags of the operations, for a label that the nodes of a couple have or have not.
LEMMA FlagsOfOperations ==
  ASSUME NEW h1 \in BOOLEAN, NEW h2 \in BOOLEAN, NEW w \in {"all", "last"}
  PROVE  LET f == <<Cond(h1, h2), w>> IN
         /\ f \in Intersection <=> h1 /\ h2
         /\ f \in Union <=> h1 \/ h2
         /\ f \in Difference <=> h1 /\ (w = "last" => ~h2)
         /\ f \in Xor <=> (h1 \/ h2) /\ (w = "last" => ~(h1 /\ h2))
         /\ f \in NotUnion <=> (w = "last" => ~h1 /\ ~h2)
         /\ f \in NotIntersection <=> (w = "last" => ~(h1 /\ h2))
BY DEF Cond, Above, AtLast, Intersection, Union, Difference, Xor, NotUnion, NotIntersection

LEMMA OperationsDiffer ==
  /\ Intersection \notin {Union, Difference, Xor, NotUnion, NotIntersection}
  /\ Union \notin {Difference, Xor, NotUnion, NotIntersection}
  /\ Difference \notin {Xor, NotUnion, NotIntersection}
  /\ Xor \notin {NotUnion, NotIntersection}
<1> DEFINE f(h1, h2, w) == <<Cond(h1, h2), w>>
<1>1. /\ f(TRUE, FALSE, "all") \notin Intersection /\ f(TRUE, FALSE, "all") \in Union
      /\ f(TRUE, FALSE, "all") \in Difference /\ f(TRUE, FALSE, "all") \in Xor
  BY FlagsOfOperations
<1>2. /\ f(FALSE, FALSE, "all") \in NotUnion /\ f(FALSE, FALSE, "all") \in NotIntersection
      /\ f(FALSE, FALSE, "all") \notin Intersection /\ f(FALSE, FALSE, "all") \notin Union
      /\ f(FALSE, FALSE, "all") \notin Difference /\ f(FALSE, FALSE, "all") \notin Xor
  BY FlagsOfOperations
<1>3. /\ f(FALSE, TRUE, "all") \in Union /\ f(FALSE, TRUE, "all") \notin Difference
      /\ f(FALSE, TRUE, "all") \in Xor
  BY FlagsOfOperations
<1>4. f(TRUE, TRUE, "last") \in Union /\ f(TRUE, TRUE, "last") \notin Xor
  BY FlagsOfOperations
<1> HIDE DEF f
<1> QED
  BY <1>1, <1>2, <1>3, <1>4

\* Above the last layer the flags ask for every arc that the operation may need, and
\* in the last layer they ask for what it says.
LEMMA FlagsCombine ==
  ASSUME NEW o \in SetOperations, NEW h1 \in BOOLEAN, NEW h2 \in BOOLEAN,
         NEW r1 \in BOOLEAN, NEW r2 \in BOOLEAN
  PROVE  /\ <<Cond(h1, h2), "last">> \in o <=> Combines(o, h1, h2)
         /\ (r1 => h1) /\ (r2 => h2) /\ Combines(o, r1, r2) => <<Cond(h1, h2), "all">> \in o
<1> DEFINE f(w) == <<Cond(h1, h2), w>>
<1>1. \A w \in {"all", "last"} :
         /\ f(w) \in Intersection <=> h1 /\ h2
         /\ f(w) \in Union <=> h1 \/ h2
         /\ f(w) \in Difference <=> h1 /\ (w = "last" => ~h2)
         /\ f(w) \in Xor <=> (h1 \/ h2) /\ (w = "last" => ~(h1 /\ h2))
  BY FlagsOfOperations
<1> HIDE DEF f
<1>2. "all" # "last"
  OBVIOUS
<1>3. CASE o = Intersection
  <2>1. Combines(o, h1, h2) <=> h1 /\ h2
    BY <1>3, OperationsDiffer DEF Combines
  <2>2. Combines(o, r1, r2) <=> r1 /\ r2
    BY <1>3, OperationsDiffer DEF Combines
  <2> QED
    BY <1>1, <1>3, <2>1, <2>2 DEF f
<1>4. CASE o = Union
  <2>1. Combines(o, h1, h2) <=> h1 \/ h2
    BY <1>4, OperationsDiffer DEF Combines
  <2>2. Combines(o, r1, r2) <=> r1 \/ r2
    BY <1>4, OperationsDiffer DEF Combines
  <2> QED
    BY <1>1, <1>4, <2>1, <2>2 DEF f
<1>5. CASE o = Difference
  <2>1. Combines(o, h1, h2) <=> h1 /\ ~h2
    BY <1>5, OperationsDiffer DEF Combines
  <2>2. Combines(o, r1, r2) <=> r1 /\ ~r2
    BY <1>5, OperationsDiffer DEF Combines
  <2> QED
    BY <1>1, <1>2, <1>5, <2>1, <2>2 DEF f
<1>6. CASE o = Xor
  <2>1. Combines(o, h1, h2) <=> (h1 \/ h2) /\ ~(h1 /\ h2)
    BY <1>6, OperationsDiffer DEF Combines
  <2>2. Combines(o, r1, r2) <=> (r1 \/ r2) /\ ~(r1 /\ r2)
    BY <1>6, OperationsDiffer DEF Combines
  <2> QED
    BY <1>1, <1>2, <1>6, <2>1, <2>2 DEF f
<1> QED
  BY <1>3, <1>4, <1>5, <1>6 DEF SetOperations

LEMMA SetOperationsArePositive ==
  ASSUME Operations \subseteq SetOperations
  PROVE  Positive
<1> SUFFICES ASSUME NEW o \in SetOperations, NEW w \in {"all", "last"}
             PROVE  <<"not_not", w>> \notin o
  BY DEF Positive
<1>1. Cond(FALSE, FALSE) = "not_not"
  BY DEF Cond
<1>2. LET f == <<Cond(FALSE, FALSE), w>>
      IN f \notin Intersection /\ f \notin Union /\ f \notin Difference /\ f \notin Xor
  BY FlagsOfOperations
<1>3. /\ <<"not_not", w>> \notin Intersection /\ <<"not_not", w>> \notin Union
      /\ <<"not_not", w>> \notin Difference /\ <<"not_not", w>> \notin Xor
  BY <1>1, <1>2
<1> QED
  BY <1>3 DEF SetOperations

-----------------------------------------------------------------------------
(***************************************************************************)
(* The tuples of the result.                                               *)
(***************************************************************************)

\* From a node without two arcs for a label what follows its arc for the first label
\* can be read.
LEMMA ReadsByLabel ==
  ASSUME NEW vi, NEW a, Typed(vi, OutOf(a)), NEW n \in Node, vi[n] < Size,
         a[n] \in Seq(Arc), Rises(a[n]), NEW v, NEW t, v = t[vi[n] + 1]
  PROVE  /\ ReadsIn(vi, OutOf(a), n, t) <=>
              HasLabel(a[n], 1, v) /\ ReadsIn(vi, OutOf(a), EndFrom(a[n], 1, v), t)
         /\ HasLabel(a[n], 1, v) =>
              EndFrom(a[n], 1, v) \in Node /\ vi[EndFrom(a[n], 1, v)] = vi[n] + 1
<1> DEFINE b == a[n]
           f == OutOf(a)
           m == EndFrom(b, 1, v)
<1>1. DOMAIN b = 1..Len(b) /\ 1 \in Nat \ {0} /\ b \in Seq(Arc) /\ Rises(b)
  OBVIOUS
<1>2. f[n] = {<<b[i].value, b[i].end>> : i \in 1..Len(b)}
  BY <1>1, PairsOfOut DEF Pairs
<1>3. LayersType(vi) /\ \A p \in f[n] : vi[p[2]] = vi[n] + 1
  BY DEF Typed
<1> HIDE DEF b, f
<1>4. \A x \in 1..Len(b) : /\ HasLabel(b, 1, b[x].value) /\ EndFrom(b, 1, b[x].value) = b[x].end
                           /\ b[x].end \in Node
  BY <1>1, EndIs, ArcIs
<1>5. HasLabel(b, 1, v) => \E x \in 1..Len(b) : b[x].value = v
  BY DEF HasLabel
<1> HIDE DEF m
<1>6. ASSUME HasLabel(b, 1, v)
      PROVE  m \in Node /\ vi[m] = vi[n] + 1 /\ <<v, m>> \in f[n]
  <2>1. PICK x \in 1..Len(b) : b[x].value = v
    BY <1>5, <1>6
  <2>2. m = b[x].end /\ m \in Node
    BY <1>4, <2>1 DEF m
  <2>3. <<v, m>> \in f[n]
    BY <1>2, <2>1, <2>2
  <2>4. vi[<<v, m>>[2]] = vi[n] + 1
    BY <1>3, <2>3
  <2> QED
    BY <2>2, <2>3, <2>4
<1>7. ASSUME NEW q \in Node, <<v, q>> \in f[n]
      PROVE  HasLabel(b, 1, v) /\ q = m
  <2>1. PICK x \in 1..Len(b) : <<v, q>> = <<b[x].value, b[x].end>>
    BY <1>2, <1>7
  <2>2. v = b[x].value /\ q = b[x].end
    BY <2>1
  <2> QED
    BY <1>4, <2>2 DEF m
<1>8. ReadsIn(vi, f, n, t) <=>
        \E q \in Node : vi[q] = vi[n] + 1 /\ <<v, q>> \in f[n] /\ ReadsIn(vi, f, q, t)
  <2>1. ReadsIn(vi, f, n, t) <=>
          \E q \in Node : vi[q] = vi[n] + 1 /\ <<t[vi[n] + 1], q>> \in f[n] /\ ReadsIn(vi, f, q, t)
    BY <1>3, ReadsOn
  <2> QED
    BY <2>1
<1>9. ReadsIn(vi, f, n, t) <=> HasLabel(b, 1, v) /\ ReadsIn(vi, f, m, t)
  BY <1>6, <1>7, <1>8
<1> QED
  BY <1>6, <1>9 DEF b, f, m

\* A tuple can be read from a node of an operand.
Had(m, t) == m \in Own /\ ReadsIn(varIndex, OutOf(GivenArcs), m, t)

\* The next couple tells what the couple does.
LEMMA HadOn ==
  ASSUME Reducible, NEW t \in Words, NEW m \in Side, NEW l \in 0..Size - 1,
         m \in Own => varIndex[m] = l
  PROVE  LET v == t[l + 1] IN
         /\ Had(m, t) <=> Had(Goal(operands, m, v), t)
         /\ Had(m, t) => Goes(operands, m, v)
         /\ l = Size - 1 => (Had(m, t) <=> Goes(operands, m, v))
<1> DEFINE v == t[l + 1]
           g == Goal(operands, m, v)
<1>1. /\ operands \in Operands /\ Apart /\ Typed(varIndex, OutOf(GivenArcs))
      /\ GivenArcs \in [Node -> Seq(Arc)]
  BY DEF Reducible, OwnKept, KeptInv, Source
<1>2. LayersType(varIndex)
  BY <1>1 DEF Typed
<1>3. /\ ~Goes(operands, m, v) => g = FakeNode
      /\ Goes(operands, m, v) => m \in Own /\ g \in Own
  BY <1>1, SideFacts
<1>4. FakeNode \notin Own
  BY <1>1, OperandFacts
<1>5. CASE m \in Own
  <2>1. /\ m \in Node /\ GivenArcs[m] = SideArcs(operands, m) /\ SideArcs(operands, m) \in Seq(Arc)
        /\ Rises(SideArcs(operands, m)) /\ varIndex[m] = l /\ l < Size
    <3>1. m # FakeNode
      BY <1>4, <1>5
    <3>2. SideArcs(operands, m) = operands.arcs[m]
      BY <3>1 DEF SideArcs
    <3>3. GivenArcs[m] = operands.arcs[m]
      BY <1>1, <1>5 DEF Apart
    <3>4. m \in Node /\ SideArcs(operands, m) \in Seq(Arc) /\ Rises(SideArcs(operands, m))
      BY <1>1, SideFacts
    <3>5. varIndex[m] = l /\ l < Size
      BY <1>5, SizeIsNat
    <3> QED
      BY <3>2, <3>3, <3>4, <3>5
  <2>2. /\ ReadsIn(varIndex, OutOf(GivenArcs), m, t) <=>
             Goes(operands, m, v) /\ ReadsIn(varIndex, OutOf(GivenArcs), g, t)
        /\ Goes(operands, m, v) => g \in Node /\ varIndex[g] = l + 1
    BY <1>1, <2>1, ReadsByLabel DEF Goes, Goal
  <2>3. ASSUME l = Size - 1, Goes(operands, m, v)
        PROVE  ReadsIn(varIndex, OutOf(GivenArcs), g, t)
    <3>1. g \in Node /\ varIndex[g] = Size
      BY <2>2, <2>3, SizeIsNat
    <3> HIDE DEF g, v
    <3> QED
      BY <1>2, <3>1, ReadsLast
  <2> HIDE DEF g, v
  <2> QED
    BY <1>3, <1>4, <1>5, <2>2, <2>3 DEF Had, g, v
<1>6. CASE m \notin Own
  BY <1>3, <1>4, <1>6 DEF Had
<1> QED
  BY <1>5, <1>6

\* From a node that was made for a couple the operation of the couple can be read.
LEMMA ProductReads ==
  ASSUME Reducible, op \in SetOperations, NEW c, Product(c), NEW t \in Words,
         NEW n \in Part, varIndex[n] < Size
  PROVE  ReadsIn(varIndex, OutOf(GivenArcs), n, t) <=>
           Combines(op, Had(c[n][1], t), Had(c[n][2], t))
<1> DEFINE Good(l) == \A q \in Part : varIndex[q] = l =>
             (ReadsIn(varIndex, OutOf(GivenArcs), q, t) <=>
                Combines(op, Had(c[q][1], t), Had(c[q][2], t)))
           T == {l \in 0..Size - 1 : Good(l)}
<1>1. /\ Typed(varIndex, OutOf(GivenArcs)) /\ GivenArcs \in [Node -> Seq(Arc)]
      /\ Part \subseteq Node
  BY DEF Reducible, KeptInv, Source, IInv, Frame, Types
<1>2. Size \in Nat \ {0} /\ varIndex \in [Node -> 0..Size]
  BY <1>1, SizeIsPositive DEF Typed, LayersType
<1>3. ASSUME NEW q \in Part, NEW l \in 0..Size - 1, varIndex[q] = l
      PROVE  LET v == t[l + 1]
                 g == EndFrom(GivenArcs[q], 1, v)
                 h1 == Goes(operands, c[q][1], v)
                 h2 == Goes(operands, c[q][2], v)
                 p == Goals(operands, c[q], v)
             IN /\ ReadsIn(varIndex, OutOf(GivenArcs), q, t) <=>
                     /\ <<Cond(h1, h2), WhereIn(l)>> \in op
                     /\ ReadsIn(varIndex, OutOf(GivenArcs), g, t)
                /\ <<Cond(h1, h2), WhereIn(l)>> \in op =>
                     /\ g \in Node /\ varIndex[g] = l + 1
                     /\ l < Size - 1 => g \in Part /\ c[g] = p
                /\ Had(c[q][1], t) <=> Had(p[1], t)
                /\ Had(c[q][2], t) <=> Had(p[2], t)
                /\ Had(c[q][1], t) => h1
                /\ Had(c[q][2], t) => h2
                /\ l = Size - 1 => (Had(c[q][1], t) <=> h1) /\ (Had(c[q][2], t) <=> h2)
  <2> DEFINE v == t[l + 1]
             b == GivenArcs[q]
             g == EndFrom(b, 1, v)
  <2>1. varIndex[q] < Size /\ q \in Node /\ v \in Label /\ b \in Seq(Arc)
    <3>1. l + 1 \in 1..Size /\ l < Size
      BY <1>2
    <3>2. q \in Node
      BY <1>1
    <3> QED
      BY <1>1, <1>3, <3>1, <3>2 DEF Words
  <2>2. /\ Coupled(c, q) /\ Rises(b)
        /\ \A x \in Label : HasLabel(b, 1, x) <=> Wants(op, operands, c[q], varIndex[q], x)
        /\ \A i \in DOMAIN b :
             b[i].end \in Part /\ (varIndex[q] < Size - 1 => c[b[i].end] = Goals(operands, c[q], b[i].value))
    BY <2>1 DEF Product
  <2>3. /\ ReadsIn(varIndex, OutOf(GivenArcs), q, t) <=>
             HasLabel(b, 1, v) /\ ReadsIn(varIndex, OutOf(GivenArcs), g, t)
        /\ HasLabel(b, 1, v) => g \in Node /\ varIndex[g] = l + 1
    <3>1. /\ q \in Node /\ varIndex[q] < Size /\ v = t[varIndex[q] + 1]
          /\ GivenArcs[q] \in Seq(Arc) /\ Rises(GivenArcs[q])
      BY <1>3, <2>1, <2>2
    <3> HIDE DEF v, b, g
    <3>2. LET g0 == EndFrom(GivenArcs[q], 1, v)
          IN /\ ReadsIn(varIndex, OutOf(GivenArcs), q, t) <=>
                  HasLabel(GivenArcs[q], 1, v) /\ ReadsIn(varIndex, OutOf(GivenArcs), g0, t)
             /\ HasLabel(GivenArcs[q], 1, v) => g0 \in Node /\ varIndex[g0] = varIndex[q] + 1
      BY <1>1, <3>1, ReadsByLabel
    <3> QED
      BY <1>3, <3>2 DEF b, g
  <2>4. /\ c[q][1] \in Side /\ (c[q][1] \in Own => varIndex[c[q][1]] = l)
        /\ c[q][2] \in Side /\ (c[q][2] \in Own => varIndex[c[q][2]] = l)
    BY <1>3, <2>2 DEF Coupled
  <2>5. \A m \in {c[q][1], c[q][2]} :
          /\ Had(m, t) <=> Had(Goal(operands, m, v), t)
          /\ Had(m, t) => Goes(operands, m, v)
          /\ l = Size - 1 => (Had(m, t) <=> Goes(operands, m, v))
    BY <2>4, HadOn
  <2>6. ASSUME HasLabel(b, 1, v), l < Size - 1
        PROVE  g \in Part /\ c[g] = Goals(operands, c[q], v)
    <3>1. PICK i \in 1..Len(b) : b[i].value = v
      BY <2>6 DEF HasLabel
    <3>2. g = b[i].end /\ i \in DOMAIN b
      <4>1. g = EndFrom(b, 1, v)
        OBVIOUS
      <4> HIDE DEF b, g
      <4>2. 1 \in Nat \ {0} /\ b \in Seq(Arc) /\ Rises(b)
        BY <2>1, <2>2
      <4>3. EndFrom(b, 1, b[i].value) = b[i].end
        BY <4>2, EndIs
      <4>4. i \in DOMAIN b
        BY <4>2
      <4> QED
        BY <3>1, <4>1, <4>3, <4>4
    <3> HIDE DEF b, g
    <3> QED
      BY <1>3, <2>2, <2>6, <3>1, <3>2
  <2>7. HasLabel(b, 1, v) <=>
          <<Cond(Goes(operands, c[q][1], v), Goes(operands, c[q][2], v)), WhereIn(l)>> \in op
    BY <1>3, <2>1, <2>2 DEF Wants
  <2>8. /\ Goals(operands, c[q], v)[1] = Goal(operands, c[q][1], v)
        /\ Goals(operands, c[q], v)[2] = Goal(operands, c[q][2], v)
    BY DEF Goals
  <2> HIDE DEF b, g, v
  <2> QED
    BY <2>3, <2>5, <2>6, <2>7, <2>8 DEF b, g, v
<1>4. Good(Size - 1)
  <2> SUFFICES ASSUME NEW q \in Part, varIndex[q] = Size - 1
               PROVE  ReadsIn(varIndex, OutOf(GivenArcs), q, t) <=>
                        Combines(op, Had(c[q][1], t), Had(c[q][2], t))
    OBVIOUS
  <2>1. PICK l \in 0..Size - 1 : l = Size - 1
    BY <1>2
  <2> DEFINE v == t[l + 1]
             g == EndFrom(GivenArcs[q], 1, v)
             h1 == Goes(operands, c[q][1], v)
             h2 == Goes(operands, c[q][2], v)
  <2>2. /\ ReadsIn(varIndex, OutOf(GivenArcs), q, t) <=>
             /\ <<Cond(h1, h2), WhereIn(l)>> \in op
             /\ ReadsIn(varIndex, OutOf(GivenArcs), g, t)
        /\ <<Cond(h1, h2), WhereIn(l)>> \in op => g \in Node /\ varIndex[g] = l + 1
        /\ (Had(c[q][1], t) <=> h1) /\ (Had(c[q][2], t) <=> h2)
    BY <1>3, <2>1
  <2>3. WhereIn(l) = "last" /\ l + 1 = Size
    BY <1>2, <2>1 DEF WhereIn
  <2>4. h1 \in BOOLEAN /\ h2 \in BOOLEAN
    BY DEF Goes, HasLabel
  <2>5. Had(c[q][1], t) \in BOOLEAN /\ Had(c[q][2], t) \in BOOLEAN
    BY DEF Had
  <2> HIDE DEF g, h1, h2
  <2>6. ASSUME g \in Node, varIndex[g] = Size
        PROVE  ReadsIn(varIndex, OutOf(GivenArcs), g, t)
    BY <1>1, <2>6, ReadsLast DEF Typed
  <2>7. <<Cond(h1, h2), "last">> \in op <=> Combines(op, h1, h2)
    BY <2>4, FlagsCombine
  <2>8. Had(c[q][1], t) = h1 /\ Had(c[q][2], t) = h2
    BY <2>2, <2>4, <2>5
  <2> QED
    BY <2>2, <2>3, <2>6, <2>7, <2>8
<1>5. ASSUME NEW k0 \in 1..Size - 1, Good(k0)
      PROVE  Good(k0 - 1)
  <2> SUFFICES ASSUME NEW q \in Part, varIndex[q] = k0 - 1
               PROVE  ReadsIn(varIndex, OutOf(GivenArcs), q, t) <=>
                        Combines(op, Had(c[q][1], t), Had(c[q][2], t))
    OBVIOUS
  <2>1. PICK l \in 0..Size - 1 : l = k0 - 1 /\ l + 1 = k0 /\ l < Size - 1
    BY <1>2
  <2> DEFINE v == t[l + 1]
             g == EndFrom(GivenArcs[q], 1, v)
             h1 == Goes(operands, c[q][1], v)
             h2 == Goes(operands, c[q][2], v)
             p == Goals(operands, c[q], v)
             r1 == Had(c[q][1], t)
             r2 == Had(c[q][2], t)
  <2>2. /\ ReadsIn(varIndex, OutOf(GivenArcs), q, t) <=>
             /\ <<Cond(h1, h2), WhereIn(l)>> \in op
             /\ ReadsIn(varIndex, OutOf(GivenArcs), g, t)
        /\ <<Cond(h1, h2), WhereIn(l)>> \in op => varIndex[g] = l + 1 /\ g \in Part /\ c[g] = p
        /\ (r1 <=> Had(p[1], t)) /\ (r2 <=> Had(p[2], t)) /\ (r1 => h1) /\ (r2 => h2)
    BY <1>3, <2>1
  <2>3. WhereIn(l) = "all"
    BY <1>2, <2>1 DEF WhereIn
  <2>4. h1 \in BOOLEAN /\ h2 \in BOOLEAN
    BY DEF Goes, HasLabel
  <2>5. /\ r1 \in BOOLEAN /\ r2 \in BOOLEAN
        /\ Had(p[1], t) \in BOOLEAN /\ Had(p[2], t) \in BOOLEAN
    BY DEF Had
  <2> HIDE DEF g, h1, h2, p, r1, r2
  <2>6. r1 = Had(p[1], t) /\ r2 = Had(p[2], t)
    BY <2>2, <2>5
  <2>7. Combines(op, r1, r2) => <<Cond(h1, h2), "all">> \in op
    BY <2>2, <2>4, <2>5, FlagsCombine
  <2>8. ASSUME <<Cond(h1, h2), "all">> \in op
        PROVE  ReadsIn(varIndex, OutOf(GivenArcs), g, t) <=> Combines(op, r1, r2)
    <3>1. varIndex[g] = k0 /\ g \in Part /\ c[g][1] = p[1] /\ c[g][2] = p[2]
      BY <2>1, <2>2, <2>3, <2>8
    <3>2. ReadsIn(varIndex, OutOf(GivenArcs), g, t) <=>
            Combines(op, Had(c[g][1], t), Had(c[g][2], t))
      BY <1>5, <3>1
    <3> QED
      BY <2>6, <3>1, <3>2
  <2>9. ReadsIn(varIndex, OutOf(GivenArcs), q, t) <=> Combines(op, r1, r2)
    BY <2>2, <2>3, <2>7, <2>8
  <2> QED
    BY <2>9 DEF r1, r2
<1> HIDE DEF Good
<1>6. \A i \in 0..Size - 1 : i \in T
  <2>1. Size - 1 \in Nat /\ Size - 1 \in T
    BY <1>2, <1>4
  <2>2. \A i \in 1..Size - 1 : i \in T => i - 1 \in T
    BY <1>2, <1>5
  <2> HIDE DEF T
  <2> QED
    BY <2>1, <2>2, DownFrom
<1>7. varIndex[n] \in 0..Size - 1
  BY <1>1, <1>2
<1>8. Good(varIndex[n])
  BY <1>6, <1>7
<1> QED
  BY <1>8 DEF Good

\* The tuples of an operand.
LEMMA OperandIs ==
  ASSUME Reducible, NEW i \in 1..2
  PROVE  Operand(i) = {t \in Words : Had(operands.roots[i], t)}
<1> DEFINE r == operands.roots[i]
<1>1. /\ operands \in Operands /\ \A m \in Own : varIndex[m] = operands.layer[m]
      /\ Typed(varIndex, OutOf(arcs)) /\ ReadsAsBefore /\ arcs \in [Node -> Seq(Arc)]
  BY DEF Reducible, OwnKept, KeptInv, IInv, Frame, Types
<1>2. r \in Own /\ r \in Node /\ varIndex[r] = 0
  BY <1>1, OperandFacts
<1> HIDE DEF r
<1>3. Tails(r) = {t \in Words : ReadsIn(varIndex, OutOf(arcs), r, t)}
  <2>1. Tails(r) = TailsIn(varIndex, arcs, r)
    BY <1>1, <1>2, TailsAre
  <2> QED
    BY <1>2, <2>1, LanguageOfRoot
<1>4. \A t \in Words : ReadsIn(varIndex, OutOf(arcs), r, t) <=> Had(r, t)
  BY <1>1, <1>2 DEF ReadsAsBefore, Had
<1>5. Tails(r) = {t \in Words : Had(r, t)}
  BY <1>3, <1>4
<1> QED
  BY <1>5 DEF Operand, r

LEMMA ResultIsExpected ==
  ASSUME Reducible, op \in SetOperations, pc = "done"
  PROVE  Language = Expected
<1> DEFINE A == {t \in Words : Had(operands.roots[1], t)}
           B == {t \in Words : Had(operands.roots[2], t)}
<1>1. PICK c : Product(c)
  BY DEF Reducible
<1>2. IInv /\ KeptInv /\ TuplesKept
  BY KeptTuples DEF Reducible
<1>3. Len(GivenNodes[0]) = 1 /\ c[GivenNodes[0][1]] = operands.roots
  BY <1>1 DEF Product
<1>4. GivenNodes[0] # <<>>
  <2>1. Len(<<>>) = 0
    OBVIOUS
  <2> QED
    BY <1>3, <2>1
<1> DEFINE r == GivenNodes[0][1]
<1>5. /\ varIndex[r] = 0 /\ Was(0) = {r}
      /\ Before!Language = {t \in Words : ReadsIn(varIndex, OutOf(GivenArcs), r, t)}
  BY <1>2, <1>4, GivenLanguage
<1>6. r \in Part /\ varIndex[r] < Size /\ c[r] = operands.roots
  <2>1. r \in Was(0)
    BY <1>5
  <2> QED
    BY <1>3, <1>5, <2>1, SizeIsPositive DEF Was
<1> HIDE DEF r
<1>7. \A t \in Words : ReadsIn(varIndex, OutOf(GivenArcs), r, t) <=>
                         Combines(op, Had(operands.roots[1], t), Had(operands.roots[2], t))
  BY <1>1, <1>6, ProductReads
<1>8. Language = {t \in Words : Combines(op, t \in A, t \in B)}
  <2>1. Language = Before!Language
    BY <1>2 DEF TuplesKept
  <2>2. Language = {t \in Words : ReadsIn(varIndex, OutOf(GivenArcs), r, t)}
    BY <1>5, <2>1
  <2>3. ASSUME NEW t \in Words
        PROVE  ReadsIn(varIndex, OutOf(GivenArcs), r, t) <=> Combines(op, t \in A, t \in B)
    <3>1. (t \in A) = Had(operands.roots[1], t) /\ (t \in B) = Had(operands.roots[2], t)
      BY DEF Had
    <3> QED
      BY <1>7, <3>1
  <2> HIDE DEF A, B
  <2> QED
    BY <2>2, <2>3
<1>9. Operand(1) = A /\ Operand(2) = B /\ A \subseteq Words /\ B \subseteq Words
  BY OperandIs
<1> HIDE DEF A, B
<1>10. CASE op = Intersection
  <2>1. Expected = A \cap B
    BY <1>9, <1>10, OperationsDiffer DEF Expected
  <2>2. \A t : Combines(op, t \in A, t \in B) <=> t \in A /\ t \in B
    BY <1>10, OperationsDiffer DEF Combines
  <2> QED
    BY <1>8, <1>9, <2>1, <2>2
<1>11. CASE op = Union
  <2>1. Expected = A \cup B
    BY <1>9, <1>11, OperationsDiffer DEF Expected
  <2>2. \A t : Combines(op, t \in A, t \in B) <=> t \in A \/ t \in B
    BY <1>11, OperationsDiffer DEF Combines
  <2> QED
    BY <1>8, <1>9, <2>1, <2>2
<1>12. CASE op = Difference
  <2>1. Expected = A \ B
    BY <1>9, <1>12, OperationsDiffer DEF Expected
  <2>2. \A t : Combines(op, t \in A, t \in B) <=> t \in A /\ t \notin B
    BY <1>12, OperationsDiffer DEF Combines
  <2> QED
    BY <1>8, <1>9, <2>1, <2>2
<1>13. CASE op = Xor
  <2>1. Expected = (A \ B) \cup (B \ A)
    BY <1>9, <1>13, OperationsDiffer DEF Expected
  <2>2. \A t : Combines(op, t \in A, t \in B) <=> (t \in A \/ t \in B) /\ ~(t \in A /\ t \in B)
    BY <1>13, OperationsDiffer DEF Combines
  <2> QED
    BY <1>8, <1>9, <2>1, <2>2
<1> QED
  BY <1>10, <1>11, <1>12, <1>13 DEF SetOperations

\* Intersection, union, difference and symmetric difference of any two MDDs: when Apply
\* returns, the result holds the tuples that the operation on sets gives.
THEOREM OperationIsApplied ==
  ASSUME Operations \subseteq SetOperations
  PROVE  ApplySpec => []AppliesOperation
<1>1. Positive
  BY SetOperationsArePositive
<1>2. ApplyInv => AppliesOperation
  <2> SUFFICES ASSUME ApplyInv, phase = "reduce", pc = "done"
               PROVE  Language = Expected
    BY DEF AppliesOperation
  <2>1. Reducible /\ op \in SetOperations
    BY DEF ApplyInv, Build, Reducible, OwnKept
  <2> QED
    BY <2>1, ResultIsExpected
<1> QED
  BY <1>1, <1>2, ApplyInvariant, PTL
=============================================================================
