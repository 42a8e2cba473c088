----------------------------- MODULE ReadingLemmas -----------------------------
(***************************************************************************)
(* What can be read from the nodes of a layered diagram, and what the     *)
(* steps of a reduction leave of it, for every diagram: vi is the layer of *)
(* each node, f its outgoing arcs as pairs of a label and an end, rep its *)
(* representative.                                                         *)
(*                                                                         *)
(* A path is cut where it uses the arcs that a step changes and continued *)
(* with a path of the representative: since an arc leads from a layer to  *)
(* the next one, a path meets the changed node at most once, and the part *)
(* below is not affected by the change.                                    *)
(***************************************************************************)
EXTENDS Dimensions, SequenceLemmas

\* Path and Reads for any layers and arcs.
PathIn(vi, f, p, l, t) ==
  \A i \in l..Size - 1 : /\ <<t[i + 1], p[i + 1]>> \in f[p[i]]
                         /\ vi[p[i + 1]] = i + 1

ReadsIn(vi, f, n, t) ==
  \E p \in [vi[n]..Size -> Node] : p[vi[n]] = n /\ PathIn(vi, f, p, vi[n], t)

LayersType(vi) == vi \in [Node -> 0..Size]

\* f and g differ in the arcs of x only.
OnlyAt(f, g, x) == \A y \in Node \ {x} : f[y] = g[y]

-----------------------------------------------------------------------------
\* The nodes of a path are in their layers.
LEMMA PathLayers ==
  ASSUME NEW vi, LayersType(vi), NEW f, NEW n \in Node, NEW t,
         NEW p \in [vi[n]..Size -> Node], p[vi[n]] = n, PathIn(vi, f, p, vi[n], t),
         NEW i \in vi[n]..Size
  PROVE  p[i] \in Node /\ vi[p[i]] = i
<1>0. vi[n] \in 0..Size /\ Size \in Nat
  BY SizeIsNat DEF LayersType
<1>1. p[i] \in Node
  OBVIOUS
<1>2. CASE i = vi[n]
  BY <1>1, <1>2
<1>3. CASE i # vi[n]
  <2>1. i - 1 \in vi[n]..Size - 1 /\ (i - 1) + 1 = i
    BY <1>0, <1>3
  <2>. QED
    BY <2>1, <1>1 DEF PathIn
<1>. QED
  BY <1>2, <1>3

\* A path that does not meet x before the last layer is one after a change
\* of the arcs of x.
LEMMA PathKept ==
  ASSUME NEW vi, LayersType(vi), NEW f, NEW g, NEW x \in Node, OnlyAt(f, g, x),
         NEW n \in Node, NEW t,
         NEW p \in [vi[n]..Size -> Node], p[vi[n]] = n, PathIn(vi, f, p, vi[n], t),
         \A i \in vi[n]..Size - 1 : p[i] # x
  PROVE  ReadsIn(vi, g, n, t)
<1>0. vi[n] \in 0..Size /\ Size \in Nat
  BY SizeIsNat DEF LayersType
<1>1. ASSUME NEW i \in vi[n]..Size - 1
      PROVE  g[p[i]] = f[p[i]]
  <2>1. i \in vi[n]..Size
    BY <1>0
  <2>. QED
    BY <2>1 DEF OnlyAt
<1>2. PathIn(vi, g, p, vi[n], t)
  BY <1>1 DEF PathIn
<1>. QED
  BY <1>2 DEF ReadsIn

\* Nodes of the layers below that of x do not see the change.
LEMMA Unaffected ==
  ASSUME NEW vi, LayersType(vi), NEW f, NEW g, NEW x \in Node, OnlyAt(f, g, x),
         NEW n \in Node, vi[n] > vi[x], NEW t, ReadsIn(vi, f, n, t)
  PROVE  ReadsIn(vi, g, n, t)
<1>0. vi[n] \in 0..Size /\ vi[x] \in 0..Size /\ Size \in Nat
  BY SizeIsNat DEF LayersType
<1>1. PICK p \in [vi[n]..Size -> Node] :
        p[vi[n]] = n /\ PathIn(vi, f, p, vi[n], t)
  BY DEF ReadsIn
<1>2. ASSUME NEW i \in vi[n]..Size - 1
      PROVE  p[i] # x
  <2>1. i \in vi[n]..Size /\ i # vi[x]
    BY <1>0
  <2>2. vi[p[i]] = i
    BY <1>1, <2>1, PathLayers
  <2>. QED
    BY <2>1, <2>2
<1>. QED
  BY <1>1, <1>2, PathKept

\* A path through x can be continued below x by any path that starts with an
\* arc of x under the new arcs.
LEMMA Splice ==
  ASSUME NEW vi, LayersType(vi), NEW f, NEW g, NEW x \in Node, OnlyAt(f, g, x),
         NEW t, NEW n \in Node,
         NEW p \in [vi[n]..Size -> Node], p[vi[n]] = n, PathIn(vi, f, p, vi[n], t),
         vi[n] <= vi[x], vi[x] < Size, p[vi[x]] = x,
         NEW m \in Node, vi[m] = vi[x] + 1, <<t[vi[x] + 1], m>> \in g[x],
         ReadsIn(vi, f, m, t)
  PROVE  ReadsIn(vi, g, n, t)
<1> DEFINE l == vi[n]
           k == vi[x]
<1>0. l \in 0..Size /\ k \in 0..Size - 1 /\ Size \in Nat /\ l <= k
  BY SizeIsNat DEF LayersType
<1>1. PICK q \in [k + 1..Size -> Node] : q[k + 1] = m /\ PathIn(vi, f, q, k + 1, t)
  BY DEF ReadsIn
<1> DEFINE r == [i \in l..Size |-> IF i <= k THEN p[i] ELSE q[i]]
<1>2. /\ r \in [l..Size -> Node]
      /\ \A i \in l..k : r[i] = p[i]
      /\ \A i \in k + 1..Size : r[i] = q[i]
  BY <1>0
<1>3. r[l] = n
  BY <1>0, <1>2
<1>4. ASSUME NEW i \in l..Size - 1
      PROVE  <<t[i + 1], r[i + 1]>> \in g[r[i]] /\ vi[r[i + 1]] = i + 1
  <2>1. CASE i < k
    <3>1. i \in l..Size /\ i \in l..k /\ i + 1 \in l..k /\ i # k
      BY <1>0, <2>1
    <3>2. r[i] = p[i] /\ r[i + 1] = p[i + 1]
      BY <1>2, <3>1
    <3>3. p[i] \in Node /\ vi[p[i]] = i
      BY <3>1, PathLayers
    <3>4. g[p[i]] = f[p[i]]
      BY <3>1, <3>3 DEF OnlyAt
    <3>5. <<t[i + 1], p[i + 1]>> \in f[p[i]] /\ vi[p[i + 1]] = i + 1
      BY DEF PathIn
    <3>. QED
      BY <3>2, <3>4, <3>5
  <2>2. CASE i = k
    <3>1. k \in l..k /\ k + 1 \in k + 1..Size
      BY <1>0
    <3>2. r[k] = x /\ r[k + 1] = m
      BY <1>1, <1>2, <3>1
    <3>. QED
      BY <2>2, <3>2
  <2>3. CASE i > k
    <3>1. i \in k + 1..Size - 1 /\ i \in k + 1..Size /\ i + 1 \in k + 1..Size /\ i # k
      BY <1>0, <2>3
    <3>2. r[i] = q[i] /\ r[i + 1] = q[i + 1]
      BY <1>2, <3>1
    <3>3. q[i] \in Node /\ vi[q[i]] = i
      <4>1. /\ q \in [vi[m]..Size -> Node] /\ q[vi[m]] = m
            /\ PathIn(vi, f, q, vi[m], t) /\ i \in vi[m]..Size
        BY <1>1, <3>1
      <4>. HIDE DEF k
      <4>. QED
        BY <4>1, PathLayers
    <3>4. g[q[i]] = f[q[i]]
      BY <3>1, <3>3 DEF OnlyAt
    <3>5. <<t[i + 1], q[i + 1]>> \in f[q[i]] /\ vi[q[i + 1]] = i + 1
      BY <1>1, <3>1 DEF PathIn
    <3>. QED
      BY <3>2, <3>4, <3>5
  <2>. QED
    BY <1>0, <2>1, <2>2, <2>3
<1>5. PathIn(vi, g, r, l, t)
  BY <1>4 DEF PathIn
<1>. QED
  BY <1>2, <1>3, <1>5 DEF ReadsIn

\* What can be read from a node stays readable when each arc of x has a
\* counterpart, with the same label, among the new ones.
LEMMA Replaced ==
  ASSUME NEW vi, LayersType(vi), NEW f, NEW g, NEW x \in Node, OnlyAt(f, g, x),
         NEW t,
         \A e \in Node :
           /\ vi[e] = vi[x] + 1
           /\ <<t[vi[x] + 1], e>> \in f[x]
           /\ ReadsIn(vi, f, e, t)
           => \E m \in Node : /\ vi[m] = vi[x] + 1
                              /\ <<t[vi[x] + 1], m>> \in g[x]
                              /\ ReadsIn(vi, f, m, t),
         NEW n \in Node, ReadsIn(vi, f, n, t)
  PROVE  ReadsIn(vi, g, n, t)
<1>0. vi[n] \in 0..Size /\ vi[x] \in 0..Size /\ Size \in Nat
  BY SizeIsNat DEF LayersType
<1>1. PICK p \in [vi[n]..Size -> Node] :
        p[vi[n]] = n /\ PathIn(vi, f, p, vi[n], t)
  BY DEF ReadsIn
<1>2. CASE \A i \in vi[n]..Size - 1 : p[i] # x
  BY <1>1, <1>2, PathKept
<1>3. CASE \E i \in vi[n]..Size - 1 : p[i] = x
  <2>1. PICK i \in vi[n]..Size - 1 : p[i] = x
    BY <1>3
  <2>2. i \in vi[n]..Size
    BY <1>0
  <2>3. vi[x] = i
    BY <1>1, <2>1, <2>2, PathLayers
  <2>4. i + 1 \in vi[n]..Size
    BY <1>0
  <2>5. p[i + 1] \in Node /\ vi[p[i + 1]] = i + 1
    <3>1. p \in [vi[n]..Size -> Node] /\ p[vi[n]] = n /\ PathIn(vi, f, p, vi[n], t)
      BY <1>1
    <3> DEFINE j == i + 1
    <3>2. j \in vi[n]..Size
      BY <2>4
    <3> HIDE DEF j
    <3>3. p[j] \in Node /\ vi[p[j]] = j
      BY <3>1, <3>2, PathLayers
    <3> QED
      BY <3>3 DEF j
  <2>6. <<t[i + 1], p[i + 1]>> \in f[x]
    BY <1>1, <2>1 DEF PathIn
  <2>7. ReadsIn(vi, f, p[i + 1], t)
    <3> DEFINE q == [j \in i + 1..Size |-> p[j]]
    <3>1. \A j \in i + 1..Size : j \in vi[n]..Size
      BY <1>0
    <3>2. q \in [i + 1..Size -> Node]
      BY <3>1
    <3>3. \A j \in i + 1..Size - 1 :
            j \in vi[n]..Size - 1 /\ j \in i + 1..Size /\ j + 1 \in i + 1..Size
      BY <1>0
    <3>4. PathIn(vi, f, q, i + 1, t)
      BY <1>1, <3>3 DEF PathIn
    <3>5. i + 1 \in i + 1..Size
      BY <1>0
    <3>. QED
      BY <2>5, <3>2, <3>4, <3>5 DEF ReadsIn
  <2>8. PICK m \in Node : /\ vi[m] = vi[x] + 1
                          /\ <<t[vi[x] + 1], m>> \in g[x]
                          /\ ReadsIn(vi, f, m, t)
    BY <2>3, <2>5, <2>6, <2>7
  <2>9. vi[n] <= vi[x] /\ vi[x] < Size /\ p[vi[x]] = x
    BY <1>0, <2>1, <2>3
  <2>. QED
    BY <1>1, <2>8, <2>9, Splice
<1>. QED
  BY <1>2, <1>3
-----------------------------------------------------------------------------
(***************************************************************************)
(* The steps of a reduction.                                               *)
(***************************************************************************)

\* The tuples.
Words == [1..Size -> Label]

\* Arcs lead from a layer to the next one.
Typed(vi, f) ==
  /\ LayersType(vi) /\ f \in [Node -> SUBSET (Label \X Node)]
  /\ \A n \in Node : \A a \in f[n] : vi[a[2]] = vi[n] + 1

\* A dead node leads nowhere; a node and its representative can be read the same
\* way.
Represents(vi, f, rep) ==
  /\ rep \in [Node -> Node \cup {Null}]
  /\ \A n \in Node :
       IF rep[n] = Null
       THEN \A t \in Words : ~ReadsIn(vi, f, n, t)
       ELSE /\ vi[rep[n]] = vi[n]
            /\ \A t \in Words : ReadsIn(vi, f, n, t) <=> ReadsIn(vi, f, rep[n], t)

Redirects(f, rep, g, x, v, e) ==
  /\ <<v, e>> \in f[x] /\ rep[e] \in Node
  /\ \E keep \in SUBSET {<<v, e>>} :
       g = [f EXCEPT ![x] = (@ \ {<<v, e>>}) \cup {<<v, rep[e]>>} \cup keep]

Prunes(f, rep, g, x, v, e) ==
  /\ <<v, e>> \in f[x] /\ rep[e] = Null
  /\ g = [f EXCEPT ![x] = @ \ {<<v, e>>}]

Drops(vi, f, rep, new, x) ==
  vi[x] < Size /\ f[x] = {} /\ new = [rep EXCEPT ![x] = Null]

Merges(vi, f, rep, new, x, m) ==
  vi[x] = vi[m] /\ f[x] = f[m] /\ rep[m] = m /\ new = [rep EXCEPT ![x] = m]

\* What a step makes of the arcs f and the representatives rep.
Shrinks(vi, f, rep, g, new) ==
  \/ /\ new = rep
     /\ \/ g = f
        \/ \E x \in Node, v \in Label, e \in Node :
             Redirects(f, rep, g, x, v, e) \/ Prunes(f, rep, g, x, v, e)
  \/ /\ g = f
     /\ \E x \in Node : \/ Drops(vi, f, rep, new, x)
                        \/ \E m \in Node : Merges(vi, f, rep, new, x, m)

\* Leading an arc to the representative of its end.
LEMMA RedirectReads ==
  ASSUME NEW vi, NEW f, NEW rep, NEW g, Typed(vi, f), Represents(vi, f, rep),
         NEW x \in Node, NEW v \in Label, NEW e \in Node, Redirects(f, rep, g, x, v, e),
         NEW n \in Node, NEW t \in Words
  PROVE  ReadsIn(vi, f, n, t) <=> ReadsIn(vi, g, n, t)
<1> DEFINE k == vi[x]
           m == rep[e]
<1>1. LayersType(vi) /\ k \in Nat
  BY DEF Typed, LayersType
<1>2. OnlyAt(f, g, x) /\ OnlyAt(g, f, x)
  BY DEF OnlyAt, Redirects, Typed
<1>3. m \in Node /\ <<v, e>> \in f[x] /\ vi[e] = k + 1 /\ vi[m] = k + 1
  <2>1. m \in Node /\ <<v, e>> \in f[x]
    BY DEF Redirects
  <2>2. vi[e] = k + 1
    BY <2>1 DEF Typed
  <2>3. m # Null
    BY <2>1, NullIsNoNode
  <2> QED
    BY <2>1, <2>2, <2>3 DEF Represents
<1>4. ReadsIn(vi, f, e, t) <=> ReadsIn(vi, f, m, t)
  BY <1>3, NullIsNoNode DEF Represents
<1>5. <<v, m>> \in g[x]
  BY DEF Redirects, Typed
<1>6. \A w, d : <<w, d>> \in f[x] => <<w, d>> = <<v, e>> \/ <<w, d>> \in g[x]
  BY DEF Redirects, Typed
<1>7. \A w, d : <<w, d>> \in g[x] => <<w, d>> = <<v, m>> \/ <<w, d>> \in f[x]
  BY DEF Redirects, Typed
<1>8. \A d \in Node : vi[d] = k + 1 => (ReadsIn(vi, f, d, t) <=> ReadsIn(vi, g, d, t))
  <2>1. \A d \in Node : vi[d] = k + 1 => vi[d] > vi[x]
    BY <1>1
  <2> QED
    BY <1>1, <1>2, <2>1, Unaffected
<1>9. ASSUME ReadsIn(vi, f, n, t)
      PROVE  ReadsIn(vi, g, n, t)
  <2>1. ASSUME NEW d \in Node, vi[d] = k + 1, <<t[k + 1], d>> \in f[x], ReadsIn(vi, f, d, t)
        PROVE  \E c \in Node : vi[c] = k + 1 /\ <<t[k + 1], c>> \in g[x] /\ ReadsIn(vi, f, c, t)
    <3>1. CASE <<t[k + 1], d>> = <<v, e>>
      <4>1. t[k + 1] = v /\ d = e
        BY <3>1
      <4> QED
        BY <1>3, <1>4, <1>5, <2>1, <4>1
    <3>2. CASE <<t[k + 1], d>> \in g[x]
      BY <2>1, <3>2
    <3> QED
      BY <1>6, <2>1, <3>1, <3>2
  <2> QED
    BY <1>1, <1>2, <1>9, <2>1, Replaced
<1>10. ASSUME ReadsIn(vi, g, n, t)
       PROVE  ReadsIn(vi, f, n, t)
  <2>1. ASSUME NEW d \in Node, vi[d] = k + 1, <<t[k + 1], d>> \in g[x], ReadsIn(vi, g, d, t)
        PROVE  \E c \in Node : vi[c] = k + 1 /\ <<t[k + 1], c>> \in f[x] /\ ReadsIn(vi, g, c, t)
    <3>1. CASE <<t[k + 1], d>> = <<v, m>>
      <4>1. t[k + 1] = v /\ d = m
        BY <3>1
      <4>2. ReadsIn(vi, g, e, t)
        BY <1>3, <1>4, <1>8, <2>1, <4>1
      <4> QED
        BY <1>3, <4>1, <4>2
    <3>2. CASE <<t[k + 1], d>> \in f[x]
      BY <2>1, <3>2
    <3> QED
      BY <1>7, <2>1, <3>1, <3>2
  <2> QED
    BY <1>1, <1>2, <1>10, <2>1, Replaced
<1> QED
  BY <1>9, <1>10

\* Deleting an arc to a dead node.
LEMMA PruneReads ==
  ASSUME NEW vi, NEW f, NEW rep, NEW g, Typed(vi, f), Represents(vi, f, rep),
         NEW x \in Node, NEW v \in Label, NEW e \in Node, Prunes(f, rep, g, x, v, e),
         NEW n \in Node, NEW t \in Words
  PROVE  ReadsIn(vi, f, n, t) <=> ReadsIn(vi, g, n, t)
<1> DEFINE k == vi[x]
<1>1. LayersType(vi)
  BY DEF Typed
<1>2. OnlyAt(f, g, x) /\ OnlyAt(g, f, x)
  BY DEF OnlyAt, Prunes, Typed
<1>3. ~ReadsIn(vi, f, e, t)
  BY DEF Prunes, Represents
<1>4. \A w, d : <<w, d>> \in f[x] => <<w, d>> = <<v, e>> \/ <<w, d>> \in g[x]
  BY DEF Prunes, Typed
<1>5. \A w, d : <<w, d>> \in g[x] => <<w, d>> \in f[x]
  BY DEF Prunes, Typed
<1>6. ASSUME NEW d \in Node, vi[d] = k + 1, <<t[k + 1], d>> \in f[x], ReadsIn(vi, f, d, t)
      PROVE  \E c \in Node : vi[c] = k + 1 /\ <<t[k + 1], c>> \in g[x] /\ ReadsIn(vi, f, c, t)
  <2>1. <<t[k + 1], d>> # <<v, e>>
    BY <1>3, <1>6
  <2> QED
    BY <1>4, <1>6, <2>1
<1>7. ASSUME NEW d \in Node, vi[d] = k + 1, <<t[k + 1], d>> \in g[x], ReadsIn(vi, g, d, t)
      PROVE  \E c \in Node : vi[c] = k + 1 /\ <<t[k + 1], c>> \in f[x] /\ ReadsIn(vi, g, c, t)
  BY <1>5, <1>7
<1>8. ReadsIn(vi, f, n, t) => ReadsIn(vi, g, n, t)
  BY <1>1, <1>2, <1>6, Replaced
<1>9. ReadsIn(vi, g, n, t) => ReadsIn(vi, f, n, t)
  BY <1>1, <1>2, <1>7, Replaced
<1> QED
  BY <1>8, <1>9

-----------------------------------------------------------------------------
\* From a node of the last layer the empty rest can be read.
LEMMA ReadsLast ==
  ASSUME NEW vi, LayersType(vi), NEW f, NEW n \in Node, vi[n] = Size, NEW t
  PROVE  ReadsIn(vi, f, n, t)
<1> DEFINE p == [i \in Size..Size |-> n]
<1>1. p \in [Size..Size -> Node] /\ p[Size] = n /\ Size..Size - 1 = {}
  BY SizeIsNat
<1>2. PathIn(vi, f, p, Size, t)
  BY <1>1 DEF PathIn
<1> QED
  BY <1>1, <1>2 DEF ReadsIn

\* From another node what follows one of its arcs can be read.
LEMMA ReadsOn ==
  ASSUME NEW vi, LayersType(vi), NEW f, NEW n \in Node, vi[n] < Size, NEW t
  PROVE  ReadsIn(vi, f, n, t) <=>
           \E m \in Node : /\ vi[m] = vi[n] + 1 /\ <<t[vi[n] + 1], m>> \in f[n]
                           /\ ReadsIn(vi, f, m, t)
<1> DEFINE l == vi[n]
<1>1. l \in 0..Size - 1 /\ Size \in Nat /\ l \in l..Size /\ l + 1 \in l + 1..Size
  BY SizeIsNat DEF LayersType
<1>2. \A i \in l + 1..Size : i \in l..Size /\ i # l
  BY <1>1
<1>3. \A i \in l + 1..Size - 1 : i \in l..Size - 1 /\ i \in l + 1..Size /\ i + 1 \in l + 1..Size
  BY <1>1
<1>4. ASSUME ReadsIn(vi, f, n, t)
      PROVE  \E m \in Node : /\ vi[m] = l + 1 /\ <<t[l + 1], m>> \in f[n] /\ ReadsIn(vi, f, m, t)
  <2>1. PICK p \in [l..Size -> Node] : p[l] = n /\ PathIn(vi, f, p, l, t)
    BY <1>4 DEF ReadsIn
  <2> DEFINE q == [i \in l + 1..Size |-> p[i]]
             m == p[l + 1]
  <2>2. m \in Node
    BY <1>1, <1>2, <2>1
  <2>3. l \in l..Size - 1
    BY <1>1
  <2>4. vi[m] = l + 1 /\ <<t[l + 1], m>> \in f[n]
    BY <2>1, <2>3 DEF PathIn
  <2>5. q \in [l + 1..Size -> Node] /\ q[l + 1] = m
    BY <1>1, <1>2, <2>1
  <2>6. PathIn(vi, f, q, l + 1, t)
    BY <1>3, <2>1 DEF PathIn
  <2>7. ReadsIn(vi, f, m, t)
    <3> HIDE DEF m, q
    <3> QED
      BY <2>4, <2>5, <2>6 DEF ReadsIn
  <2> QED
    BY <2>2, <2>4, <2>7
<1>5. ASSUME NEW m \in Node, vi[m] = l + 1, <<t[l + 1], m>> \in f[n], ReadsIn(vi, f, m, t)
      PROVE  ReadsIn(vi, f, n, t)
  <2>1. PICK q \in [l + 1..Size -> Node] : q[l + 1] = m /\ PathIn(vi, f, q, l + 1, t)
    BY <1>5 DEF ReadsIn
  <2> DEFINE p == [i \in l..Size |-> IF i = l THEN n ELSE q[i]]
  <2>2. \A i \in l..Size : i = l \/ i \in l + 1..Size
    BY <1>1
  <2>3. p \in [l..Size -> Node]
    BY <2>1, <2>2
  <2>4. p[l] = n /\ \A i \in l + 1..Size : p[i] = q[i]
    BY <1>1, <1>2
  <2> HIDE DEF p
  <2>5. ASSUME NEW i \in l..Size - 1
        PROVE  <<t[i + 1], p[i + 1]>> \in f[p[i]] /\ vi[p[i + 1]] = i + 1
    <3>1. CASE i = l
      BY <1>1, <1>5, <2>1, <2>4, <3>1
    <3>2. CASE i # l
      <4>1. i \in l + 1..Size - 1
        BY <1>1, <3>2
      <4>2. p[i] = q[i] /\ p[i + 1] = q[i + 1]
        BY <1>3, <2>4, <4>1
      <4> QED
        BY <2>1, <4>1, <4>2 DEF PathIn
    <3> QED
      BY <3>1, <3>2
  <2>6. PathIn(vi, f, p, l, t)
    BY <2>5 DEF PathIn
  <2> QED
    BY <2>3, <2>4, <2>6 DEF ReadsIn
<1> QED
  BY <1>4, <1>5

\* Nothing can be read from a node without arcs above the last layer.
LEMMA NoArcsNoReads ==
  ASSUME NEW vi, LayersType(vi), NEW f, NEW n \in Node, vi[n] < Size, f[n] = {}, NEW t
  PROVE  ~ReadsIn(vi, f, n, t)
BY ReadsOn

\* Two nodes of a layer with the same arcs can be read the same way.
LEMMA SameArcsSameReads ==
  ASSUME NEW vi, LayersType(vi), NEW f, NEW n \in Node, NEW m \in Node, vi[n] = vi[m],
         f[n] = f[m], NEW t
  PROVE  ReadsIn(vi, f, n, t) <=> ReadsIn(vi, f, m, t)
<1>1. CASE vi[n] < Size
  BY <1>1, ReadsOn
<1>2. CASE ~(vi[n] < Size)
  <2>1. vi[n] = Size
    BY <1>2, SizeIsNat DEF LayersType
  <2> QED
    BY <2>1, ReadsLast
<1> QED
  BY <1>1, <1>2

\* The readings of every node are the same after any step.
LEMMA StepKeepsReads ==
  ASSUME NEW vi, NEW f, NEW rep, NEW g, NEW new, Typed(vi, f), Represents(vi, f, rep),
         Shrinks(vi, f, rep, g, new), NEW n \in Node, NEW t \in Words
  PROVE  ReadsIn(vi, f, n, t) <=> ReadsIn(vi, g, n, t)
BY RedirectReads, PruneReads DEF Shrinks

LEMMA StepKeepsTypes ==
  ASSUME NEW vi, NEW f, NEW rep, NEW g, NEW new, Typed(vi, f), Represents(vi, f, rep),
         Shrinks(vi, f, rep, g, new)
  PROVE  Typed(vi, g)
<1>1. ASSUME NEW x \in Node, NEW v \in Label, NEW e \in Node, Redirects(f, rep, g, x, v, e)
      PROVE  Typed(vi, g)
  <2>1. rep[e] \in Node /\ rep[e] # Null /\ <<v, e>> \in f[x]
    BY <1>1, NullIsNoNode DEF Redirects
  <2>2. vi[rep[e]] = vi[e] /\ vi[e] = vi[x] + 1
    BY <2>1 DEF Represents, Typed
  <2>3. g \in [Node -> SUBSET (Label \X Node)]
    BY <1>1, <2>1 DEF Redirects, Typed
  <2>4. \A y \in Node : \A a \in g[y] : a \in f[y] \/ (y = x /\ a = <<v, rep[e]>>)
    BY <1>1 DEF Redirects, Typed
  <2> QED
    BY <2>2, <2>3, <2>4 DEF Typed
<1>2. ASSUME NEW x \in Node, NEW v \in Label, NEW e \in Node, Prunes(f, rep, g, x, v, e)
      PROVE  Typed(vi, g)
  BY <1>2 DEF Prunes, Typed
<1> QED
  BY <1>1, <1>2 DEF Shrinks

LEMMA StepKeepsRepresents ==
  ASSUME NEW vi, NEW f, NEW rep, NEW g, NEW new, Typed(vi, f), Represents(vi, f, rep),
         Shrinks(vi, f, rep, g, new)
  PROVE  Represents(vi, g, new)
<1>1. ASSUME NEW n \in Node, NEW t \in Words
      PROVE  ReadsIn(vi, f, n, t) <=> ReadsIn(vi, g, n, t)
  BY StepKeepsReads
<1>2. LayersType(vi) /\ rep \in [Node -> Node \cup {Null}]
  BY DEF Typed, Represents
<1>3. new \in [Node -> Node \cup {Null}]
  BY <1>2 DEF Shrinks, Drops, Merges
<1>4. SUFFICES ASSUME NEW n \in Node
               PROVE  /\ new[n] = Null => \A t \in Words : ~ReadsIn(vi, f, n, t)
                      /\ new[n] # Null =>
                           /\ vi[new[n]] = vi[n]
                           /\ \A t \in Words : ReadsIn(vi, f, n, t) <=> ReadsIn(vi, f, new[n], t)
  BY <1>1, <1>3 DEF Represents
<1>5. CASE new[n] = rep[n]
  BY <1>5 DEF Represents
<1>6. CASE Drops(vi, f, rep, new, n)
  BY <1>2, <1>6, NoArcsNoReads DEF Drops
<1>7. ASSUME NEW m \in Node, Merges(vi, f, rep, new, n, m)
      PROVE  /\ new[n] = m /\ vi[m] = vi[n]
             /\ \A t \in Words : ReadsIn(vi, f, n, t) <=> ReadsIn(vi, f, m, t)
  <2>1. new[n] = m /\ vi[n] = vi[m] /\ f[n] = f[m]
    BY <1>2, <1>7 DEF Merges
  <2> QED
    BY <1>2, <2>1, SameArcsSameReads
<1>8. new[n] = rep[n] \/ Drops(vi, f, rep, new, n) \/ \E m \in Node : Merges(vi, f, rep, new, n, m)
  BY <1>2 DEF Shrinks, Drops, Merges
<1>9. CASE \E m \in Node : Merges(vi, f, rep, new, n, m)
  <2>1. PICK m \in Node : Merges(vi, f, rep, new, n, m)
    BY <1>9
  <2>2. m # Null
    BY NullIsNoNode
  <2> QED
    BY <1>7, <2>1, <2>2
<1> QED
  BY <1>5, <1>6, <1>8, <1>9

-----------------------------------------------------------------------------
(***************************************************************************)
(* Reading a tuple layer by layer.                                         *)
(***************************************************************************)

\* Recursion that starts at l.
IteratesFrom(f, a, step, l, n) ==
  f[l] = a /\ \A i \in l + 1..n : f[i] = step[i][f[i - 1]]

LEMMA RecursionExistsFrom ==
  ASSUME NEW l \in Nat, NEW n \in Nat, l <= n,
         NEW S, NEW a \in S, NEW step \in [l + 1..n -> [S -> S]]
  PROVE  \E f \in [l..n -> S] : IteratesFrom(f, a, step, l, n)
<1> DEFINE d == n - l
           shifted == [i \in 1..d |-> step[i + l]]
<1>1. d \in Nat /\ \A i \in 1..d : i + l \in l + 1..n
  OBVIOUS
<1>2. shifted \in [1..d -> [S -> S]]
  BY <1>1
<1>3. \A i \in 1..d : shifted[i] = step[i + l]
  OBVIOUS
<1> HIDE DEF d, shifted
<1>4. PICK h \in [0..d -> S] : Iterates(h, a, shifted, d)
  BY <1>1, <1>2, RecursionExists
<1> DEFINE f == [i \in l..n |-> h[i - l]]
<1>5. \A i \in l..n : i - l \in 0..d
  BY DEF d
<1>6. f \in [l..n -> S]
  BY <1>4, <1>5
<1>7. f[l] = a
  <2>1. l \in l..n /\ l - l = 0
    OBVIOUS
  <2> QED
    BY <1>4, <2>1 DEF Iterates
<1>8. ASSUME NEW i \in l + 1..n
      PROVE  f[i] = step[i][f[i - 1]]
  <2>1. /\ i \in l..n /\ i - 1 \in l..n /\ i - l \in 1..d /\ (i - l) + l = i
        /\ (i - 1) - l = (i - l) - 1
    BY DEF d
  <2>2. f[i] = h[i - l] /\ f[i - 1] = h[(i - l) - 1]
    BY <2>1
  <2>3. h[i - l] = shifted[i - l][h[(i - l) - 1]]
    BY <1>4, <2>1 DEF Iterates
  <2> QED
    BY <1>3, <2>1, <2>2, <2>3
<1> HIDE DEF f
<1> QED
  BY <1>6, <1>7, <1>8 DEF IteratesFrom

\* reach[i] is the set of nodes where the first labels of t lead.
Reaches(f, reach, n, l, t) ==
  /\ reach[l] = {n}
  /\ \A i \in l + 1..Size :
       reach[i - 1] \subseteq Node =>
         reach[i] = {m \in Node : \E x \in reach[i - 1] : <<t[i], m>> \in f[x]}

LEMMA ReachReads ==
  ASSUME NEW vi, NEW f, Typed(vi, f), NEW n \in Node, NEW t, NEW reach,
         Reaches(f, reach, n, vi[n], t)
  PROVE  reach[Size] # {} <=> ReadsIn(vi, f, n, t)
<1> DEFINE l == vi[n]
           d == Size - l
           Holds(i) == /\ \A x \in reach[i] : x \in Node /\ vi[x] = i
                       /\ (\E x \in reach[i] : ReadsIn(vi, f, x, t)) <=> ReadsIn(vi, f, n, t)
           T == {i \in 0..d : Holds(l + i)}
<1>1. LayersType(vi) /\ l \in 0..Size /\ Size \in Nat /\ d \in Nat
  BY SizeIsNat DEF Typed, LayersType
<1>2. 0 \in T
  <2>1. l + 0 = l /\ 0 \in 0..d
    BY <1>1
  <2>2. Holds(l)
    BY DEF Reaches
  <2> HIDE DEF Holds
  <2> QED
    BY <2>1, <2>2
<1>3. ASSUME NEW i \in 0..d - 1, i \in T
      PROVE  i + 1 \in T
  <2> DEFINE j == l + i
  <2>1. /\ j \in l..Size - 1 /\ j < Size /\ j + 1 \in l + 1..Size /\ (j + 1) - 1 = j
        /\ i + 1 \in 0..d /\ l + (i + 1) = j + 1
    BY <1>1
  <2>2. Holds(j)
    BY <1>3
  <2>3. reach[j + 1] = {m \in Node : \E x \in reach[j] : <<t[j + 1], m>> \in f[x]}
    BY <2>1, <2>2 DEF Reaches
  <2> HIDE DEF j, d, l
  <2>4. ASSUME NEW x \in reach[j]
        PROVE  /\ x \in Node /\ vi[x] = j
               /\ ReadsIn(vi, f, x, t) <=>
                    \E m \in Node : /\ vi[m] = j + 1 /\ <<t[j + 1], m>> \in f[x]
                                    /\ ReadsIn(vi, f, m, t)
    <3>1. x \in Node /\ vi[x] = j
      BY <2>2
    <3> QED
      BY <1>1, <2>1, <3>1, ReadsOn
  <2>5. ASSUME NEW m \in reach[j + 1]
        PROVE  m \in Node /\ vi[m] = j + 1
    <3>1. PICK x \in reach[j] : <<t[j + 1], m>> \in f[x]
      BY <2>3
    <3> QED
      BY <2>3, <2>4, <3>1 DEF Typed
  <2>6. (\E m \in reach[j + 1] : ReadsIn(vi, f, m, t)) <=> \E x \in reach[j] : ReadsIn(vi, f, x, t)
    <3>1. ASSUME NEW m \in reach[j + 1], ReadsIn(vi, f, m, t)
          PROVE  \E x \in reach[j] : ReadsIn(vi, f, x, t)
      <4>1. PICK x \in reach[j] : <<t[j + 1], m>> \in f[x]
        BY <2>3
      <4> QED
        BY <2>4, <2>5, <3>1, <4>1
    <3>2. ASSUME NEW x \in reach[j], ReadsIn(vi, f, x, t)
          PROVE  \E m \in reach[j + 1] : ReadsIn(vi, f, m, t)
      <4>1. PICK m \in Node : vi[m] = j + 1 /\ <<t[j + 1], m>> \in f[x] /\ ReadsIn(vi, f, m, t)
        BY <2>4, <3>2
      <4> QED
        BY <2>3, <4>1
    <3> QED
      BY <3>1, <3>2
  <2>7. Holds(j + 1)
    BY <2>2, <2>5, <2>6
  <2> HIDE DEF Holds
  <2> QED
    BY <2>1, <2>7
<1> HIDE DEF T
<1>4. \A i \in 0..d : i \in T
  <2> HIDE DEF d
  <2> QED
    BY <1>1, <1>2, <1>3, UpTo
<1>5. d \in 0..d /\ l + d = Size
  BY <1>1
<1>6. Holds(Size)
  BY <1>4, <1>5 DEF T
<1>7. \A x \in reach[Size] : ReadsIn(vi, f, x, t)
  BY <1>1, <1>6, ReadsLast
<1> QED
  BY <1>6, <1>7

-----------------------------------------------------------------------------
(***************************************************************************)
(* Reduced diagrams are canonical.                                         *)
(***************************************************************************)

\* Only the labels of the layers below matter.
LEMMA ReadsSuffix ==
  ASSUME NEW vi, LayersType(vi), NEW f, NEW n \in Node, NEW t, NEW u,
         \A i \in vi[n] + 1..Size : t[i] = u[i]
  PROVE  ReadsIn(vi, f, n, t) <=> ReadsIn(vi, f, n, u)
<1> DEFINE l == vi[n]
<1>1. \A i \in l..Size - 1 : i + 1 \in l + 1..Size
  BY SizeIsNat DEF LayersType
<1>2. \A p : PathIn(vi, f, p, l, t) <=> PathIn(vi, f, p, l, u)
  BY <1>1 DEF PathIn
<1> QED
  BY <1>2 DEF ReadsIn

\* K is a set of nodes without dead ends and without two alike, with one arc for
\* each label.
Irreducible(vi, f, K) ==
  /\ K \subseteq Node
  /\ \A n \in K : /\ vi[n] < Size => f[n] # {}
                  /\ \A a \in f[n] : a[2] \in K
                  /\ \A a, b \in f[n] : a[1] = b[1] => a = b
  /\ \A n, m \in K : vi[n] = vi[m] /\ (vi[n] < Size => f[n] = f[m]) => n = m

\* t with another label at place i.
Changed(t, i, v) == [t EXCEPT ![i] = v]

\* What is read after an arc is what is read with its label in front.
LEMMA ReadsThrough ==
  ASSUME NEW vi, NEW f, Typed(vi, f), NEW K, Irreducible(vi, f, K), NEW n \in K,
         NEW v \in Label, NEW c \in Node, <<v, c>> \in f[n], NEW t \in Words,
         NEW u, u = Changed(t, vi[n] + 1, v)
  PROVE  /\ u \in Words /\ (ReadsIn(vi, f, n, u) <=> ReadsIn(vi, f, c, t))
         /\ vi[c] = vi[n] + 1 /\ vi[n] < Size /\ u[vi[n] + 1] = v
<1> DEFINE l == vi[n]
<1>1. LayersType(vi) /\ n \in Node /\ vi[c] = l + 1
  BY DEF Typed, Irreducible
<1>2. l \in 0..Size /\ l + 1 \in 0..Size /\ Size \in Nat
  BY <1>1, SizeIsNat DEF LayersType
<1>3. l < Size /\ l + 1 \in 1..Size
  BY <1>2
<1>4. u \in Words /\ u[l + 1] = v /\ \A i \in 1..Size : i # l + 1 => u[i] = t[i]
  BY <1>3 DEF Words, Changed
<1>5. \A i \in vi[c] + 1..Size : t[i] = u[i]
  <2>1. \A i \in (l + 1) + 1..Size : i \in 1..Size /\ i # l + 1
    BY <1>2
  <2> QED
    BY <1>1, <1>4, <2>1
<1>6. ReadsIn(vi, f, c, t) <=> ReadsIn(vi, f, c, u)
  BY <1>1, <1>5, ReadsSuffix
<1>7. ReadsIn(vi, f, n, u) <=>
        \E m \in Node : vi[m] = l + 1 /\ <<v, m>> \in f[n] /\ ReadsIn(vi, f, m, u)
  BY <1>1, <1>3, <1>4, ReadsOn
<1>8. ASSUME NEW m \in Node, <<v, m>> \in f[n]
      PROVE  m = c
  <2>1. <<v, m>> = <<v, c>>
    BY <1>8 DEF Irreducible
  <2> QED
    BY <2>1
<1> QED
  BY <1>1, <1>3, <1>4, <1>6, <1>7, <1>8

\* Something can be read from each node.
LEMMA SomethingRead ==
  ASSUME NEW vi, NEW f, Typed(vi, f), NEW K, Irreducible(vi, f, K), Label # {}, NEW n \in K
  PROVE  \E t \in Words : ReadsIn(vi, f, n, t)
<1> DEFINE T == {d \in 0..Size : \A x \in K : vi[x] = Size - d =>
                                   \E t \in Words : ReadsIn(vi, f, x, t)}
<1>1. LayersType(vi) /\ Size \in Nat /\ K \subseteq Node
  BY SizeIsNat DEF Typed, Irreducible
<1>2. 0 \in T
  <2>1. PICK v \in Label : TRUE
    OBVIOUS
  <2>2. [i \in 1..Size |-> v] \in Words
    BY DEF Words
  <2>3. 0 \in 0..Size /\ Size - 0 = Size
    BY <1>1
  <2> QED
    BY <1>1, <2>2, <2>3, ReadsLast
<1>3. ASSUME NEW d \in 0..Size - 1, d \in T
      PROVE  d + 1 \in T
  <2>1. d + 1 \in 0..Size /\ (Size - (d + 1)) + 1 = Size - d /\ Size - (d + 1) < Size
    BY <1>1
  <2>2. ASSUME NEW x \in K, vi[x] = Size - (d + 1)
        PROVE  \E t \in Words : ReadsIn(vi, f, x, t)
    <3>1. x \in Node /\ f[x] # {} /\ f[x] \in SUBSET (Label \X Node)
      BY <1>1, <2>1, <2>2 DEF Irreducible, Typed
    <3>2. PICK v \in Label, c \in Node : <<v, c>> \in f[x]
      BY <3>1
    <3>3. c \in K
      BY <3>2 DEF Irreducible
    <3>4. vi[c] = Size - d
      BY <2>1, <2>2, <3>1, <3>2 DEF Typed
    <3>5. PICK t \in Words : ReadsIn(vi, f, c, t)
      BY <1>3, <3>3, <3>4
    <3> QED
      BY <3>2, <3>5, ReadsThrough
  <2> QED
    BY <2>1, <2>2
<1> HIDE DEF T
<1>4. \A d \in 0..Size : d \in T
  BY <1>1, <1>2, <1>3, UpTo
<1>5. Size - vi[n] \in 0..Size /\ vi[n] = Size - (Size - vi[n])
  BY <1>1 DEF LayersType
<1> QED
  BY <1>4, <1>5 DEF T

SameReads(vi, f, n, m) == \A t \in Words : ReadsIn(vi, f, n, t) <=> ReadsIn(vi, f, m, t)

\* The arcs of nodes that can be read the same way are the same, if this is so of
\* the ends.
LEMMA SameReadsSameArcs ==
  ASSUME NEW vi, NEW f, Typed(vi, f), NEW K, Irreducible(vi, f, K),
         NEW n \in K, NEW m \in K, vi[n] = vi[m], SameReads(vi, f, n, m),
         \A c, b \in K : vi[c] = vi[n] + 1 /\ vi[b] = vi[n] + 1 /\ SameReads(vi, f, c, b) => c = b
  PROVE  f[n] \subseteq f[m]
<1>1. LayersType(vi) /\ n \in Node /\ m \in Node
  BY DEF Typed, Irreducible
<1>2. f[n] \in SUBSET (Label \X Node) /\ f[m] \in SUBSET (Label \X Node)
  BY <1>1 DEF Typed
<1>3. SUFFICES ASSUME NEW v \in Label, NEW c \in Node, <<v, c>> \in f[n]
               PROVE  <<v, c>> \in f[m]
  BY <1>2
<1>4. c \in K
  BY <1>3 DEF Irreducible
<1>5. PICK t \in Words : ReadsIn(vi, f, c, t)
  <2>1. Label # {}
    OBVIOUS
  <2> QED
    BY <1>4, <2>1, SomethingRead
<1>6. PICK u : u = Changed(t, vi[n] + 1, v)
  OBVIOUS
<1>7. /\ u \in Words /\ ReadsIn(vi, f, n, u) /\ vi[c] = vi[n] + 1 /\ vi[n] < Size
      /\ u[vi[n] + 1] = v
  BY <1>3, <1>5, <1>6, ReadsThrough
<1>8. ReadsIn(vi, f, m, u)
  BY <1>7 DEF SameReads
<1>9. PICK b \in Node : vi[b] = vi[n] + 1 /\ <<v, b>> \in f[m]
  BY <1>1, <1>7, <1>8, ReadsOn
<1>10. b \in K
  BY <1>9 DEF Irreducible
<1>11. ASSUME NEW w \in Words
       PROVE  ReadsIn(vi, f, c, w) <=> ReadsIn(vi, f, b, w)
  <2>1. PICK x : x = Changed(w, vi[n] + 1, v)
    OBVIOUS
  <2>2. x \in Words /\ (ReadsIn(vi, f, n, x) <=> ReadsIn(vi, f, c, w))
    BY <1>3, <2>1, ReadsThrough
  <2>3. ReadsIn(vi, f, m, x) <=> ReadsIn(vi, f, b, w)
    BY <1>9, <2>1, ReadsThrough
  <2> QED
    BY <2>2, <2>3 DEF SameReads
<1>12. c = b
  BY <1>4, <1>7, <1>9, <1>10, <1>11 DEF SameReads
<1> QED
  BY <1>9, <1>12

\* No two nodes of a layer can be read the same way.
LEMMA IrreducibleIsCanonical ==
  ASSUME NEW vi, NEW f, Typed(vi, f), NEW K, Irreducible(vi, f, K),
         NEW n \in K, NEW m \in K, vi[n] = vi[m], SameReads(vi, f, n, m)
  PROVE  n = m
<1> DEFINE Told(l) == \A x, y \in K : vi[x] = l /\ vi[y] = l /\ SameReads(vi, f, x, y) => x = y
           T == {d \in 0..Size : Told(Size - d)}
<1>1. LayersType(vi) /\ Size \in Nat /\ K \subseteq Node
  BY SizeIsNat DEF Typed, Irreducible
<1>2. 0 \in T
  <2>1. Told(Size)
    BY <1>1 DEF Irreducible
  <2>2. 0 \in 0..Size /\ Size - 0 = Size
    BY <1>1
  <2> HIDE DEF Told
  <2> QED
    BY <2>1, <2>2
<1>3. ASSUME NEW d \in 0..Size - 1, d \in T
      PROVE  d + 1 \in T
  <2>1. d + 1 \in 0..Size /\ (Size - (d + 1)) + 1 = Size - d
    BY <1>1
  <2>2. Told(Size - d)
    BY <1>3
  <2>3. ASSUME NEW x \in K, NEW y \in K, vi[x] = Size - (d + 1), vi[y] = Size - (d + 1),
               SameReads(vi, f, x, y)
        PROVE  x = y
    <3>1. \A c, b \in K : vi[c] = vi[x] + 1 /\ vi[b] = vi[x] + 1 /\ SameReads(vi, f, c, b) => c = b
      BY <2>1, <2>2, <2>3
    <3>2. f[x] \subseteq f[y]
      BY <2>3, <3>1, SameReadsSameArcs
    <3>3. SameReads(vi, f, y, x)
      BY <2>3 DEF SameReads
    <3>4. f[y] \subseteq f[x]
      <4>1. \A c, b \in K : vi[c] = vi[y] + 1 /\ vi[b] = vi[y] + 1 /\ SameReads(vi, f, c, b) => c = b
        BY <2>3, <3>1
      <4> QED
        BY <2>3, <3>3, <4>1, SameReadsSameArcs
    <3>5. vi[x] = vi[y] /\ f[x] = f[y]
      BY <2>3, <3>2, <3>4
    <3> QED
      BY <3>5 DEF Irreducible
  <2> QED
    BY <2>1, <2>3
<1> HIDE DEF T
<1>4. \A d \in 0..Size : d \in T
  BY <1>1, <1>2, <1>3, UpTo
<1>5. Size - vi[n] \in 0..Size /\ vi[n] = Size - (Size - vi[n])
  BY <1>1 DEF LayersType
<1> QED
  BY <1>4, <1>5 DEF T
=============================================================================
