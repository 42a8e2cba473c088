-------------------------- MODULE MDDClientsProofs --------------------------
(***************************************************************************)
(* Whatever the clients of an MDD of any size do, in any order, nb_in_    *)
(* counts the arcs into a node, arcs of the diagram lead to nodes of the  *)
(* next layer, and every layer lists its own nodes, each once.            *)
(*                                                                         *)
(* The counters are exact because an arc is inserted, removed or led      *)
(* elsewhere in one place of one list: the arcs into a node before and    *)
(* after are in bijection, but for that one.  Then a node of which the    *)
(* counter is 0 ends no arc, and taking it out leaves no arc dangling.    *)
(* What contains follows can be reached, and is all that can be reached   *)
(* where no node has two arcs with one label.                              *)
(***************************************************************************)
EXTENDS MDDClients, SequenceLemmas

\* ArcsInto for any arcs.
EndAt(s, i) == s[i].end
Into(f, m, from) ==
  UNION {{<<n, i>> : i \in {j \in DOMAIN f[n] : EndAt(f[n], j) = m}} : n \in from}

ArcLists == [Node -> Seq(Arc)]

\* The arcs into m, as pairs of a node and a position.
LEMMA IntoMembers ==
  ASSUME NEW f, NEW m, NEW from, NEW p
  PROVE  p \in Into(f, m, from) <=>
           \E n \in from : \E i \in DOMAIN f[n] : p = <<n, i>> /\ EndAt(f[n], i) = m
BY DEF Into

\* The same, of one pair.
LEMMA IntoPairs ==
  ASSUME NEW f, NEW m, NEW from, NEW n, NEW i
  PROVE  <<n, i>> \in Into(f, m, from) <=>
           n \in from /\ i \in DOMAIN f[n] /\ EndAt(f[n], i) = m
BY IntoMembers

-----------------------------------------------------------------------------
\* An arc is inserted: those behind it move on by one.
Inserts(f, g, n, k, a) == g = [f EXCEPT ![n] = InsertAt(f[n], k, a)]

\* The arcs into m before and after are in bijection, but for the new one.
LEMMA InsertBijects ==
  ASSUME NEW f \in ArcLists, NEW g \in ArcLists, NEW from \in SUBSET Node,
         NEW n \in from, NEW k \in 1..Len(f[n]) + 1, NEW a \in Arc, NEW m,
         Inserts(f, g, n, k, a)
  PROVE  /\ ExistsBijection(Into(f, m, from), Into(g, m, from) \ {<<n, k>>})
         /\ <<n, k>> \in Into(g, m, from) <=> a.end = m
<1> DEFINE S == Into(f, m, from)
           T == Into(g, m, from) \ {<<n, k>>}
           To(x, i) == IF x = n /\ i >= k THEN <<n, i + 1>> ELSE <<x, i>>
           h == [p \in S |-> To(p[1], p[2])]
<1> HIDE DEF S, T, h, To
<1> DEFINE s == f[n]
           t == g[n]
           len == Len(s)
<1>1. /\ len \in Nat /\ k \in 1..len + 1 /\ n \in Node
      /\ DOMAIN s = 1..len /\ DOMAIN t = 1..len + 1
      /\ \A i \in 1..len : i < k => EndAt(t, i) = EndAt(s, i)
      /\ \A i \in 1..len : i >= k => EndAt(t, i + 1) = EndAt(s, i)
      /\ EndAt(t, k) = a.end
  <2>1. s \in Seq(Arc) /\ t = InsertAt(s, k, a) /\ n \in Node
    BY DEF ArcLists, Inserts
  <2>0. k \in 1..Len(s) + 1
    OBVIOUS
  <2> HIDE DEF s, t
  <2>2. /\ t \in Seq(Arc) /\ Len(t) = Len(s) + 1
        /\ \A i \in 1..Len(s) + 1 :
             t[i] = IF i < k THEN s[i] ELSE IF i = k THEN a ELSE s[i - 1]
    <3> DEFINE u == InsertAt(s, k, a)
    <3>1. /\ u \in Seq(Arc) /\ Len(u) = Len(s) + 1
          /\ \A i \in 1..Len(s) + 1 :
               u[i] = IF i < k THEN s[i] ELSE IF i = k THEN a ELSE s[i - 1]
      <4>1. s \in Seq(Arc)
        BY <2>1
      <4> QED
        BY <2>0, <4>1, InsertAtFacts
    <3> QED
      BY <2>1, <3>1
  <2>3. Len(s) \in Nat /\ DOMAIN s = 1..Len(s) /\ DOMAIN t = 1..Len(s) + 1
    BY <2>1, <2>2
  <2>4. \A i \in 1..Len(s) : i >= k => t[i + 1] = s[i]
    <3> SUFFICES ASSUME NEW i \in 1..Len(s), i >= k
                 PROVE  t[i + 1] = s[i]
      OBVIOUS
    <3>1. i + 1 \in 1..Len(s) + 1 /\ ~(i + 1 < k) /\ i + 1 # k /\ (i + 1) - 1 = i
      BY <2>0, <2>3
    <3>2. t[i + 1] = s[(i + 1) - 1]
      BY <2>2, <3>1
    <3> QED
      BY <3>1, <3>2
  <2> QED
    BY <2>0, <2>1, <2>2, <2>3, <2>4 DEF EndAt
<1>2. \A x \in Node : x # n => g[x] = f[x]
  BY DEF ArcLists, Inserts
<1> HIDE DEF len, s, t
<1>3. /\ \A x \in from : x # n => \A i : <<x, i>> \in S <=> i \in DOMAIN f[x] /\ EndAt(f[x], i) = m
      /\ \A i : <<n, i>> \in S <=> i \in 1..len /\ EndAt(s, i) = m
      /\ \A p \in S : \E x \in from : \E i : p = <<x, i>>
  BY <1>1, IntoPairs, IntoMembers DEF S, s
<1>4. /\ \A x \in from : x # n => \A i : <<x, i>> \in T <=> i \in DOMAIN f[x] /\ EndAt(f[x], i) = m
      /\ \A i : <<n, i>> \in T <=> i \in 1..len + 1 /\ i # k /\ EndAt(t, i) = m
      /\ \A p \in T : \E x \in from : \E i : p = <<x, i>>
  <2>1. \A i : <<n, i>> \in Into(g, m, from) <=> i \in 1..len + 1 /\ EndAt(t, i) = m
    <3>1. \A i : <<n, i>> \in Into(g, m, from) <=> i \in DOMAIN g[n] /\ EndAt(g[n], i) = m
      BY IntoPairs
    <3> QED
      BY <1>1, <3>1 DEF t
  <2>2. \A x \in from : x # n => \A i : <<x, i>> \in Into(g, m, from)
                                        <=> i \in DOMAIN f[x] /\ EndAt(f[x], i) = m
    <3> SUFFICES ASSUME NEW x \in from, x # n, NEW i
                 PROVE  <<x, i>> \in Into(g, m, from)
                          <=> i \in DOMAIN f[x] /\ EndAt(f[x], i) = m
      OBVIOUS
    <3>1. <<x, i>> \in Into(g, m, from) <=> i \in DOMAIN g[x] /\ EndAt(g[x], i) = m
      BY IntoPairs
    <3> QED
      BY <1>2, <3>1
  <2>3. \A p \in T : \E x \in from : \E i : p = <<x, i>>
    BY IntoMembers DEF T
  <2> QED
    BY <2>1, <2>2, <2>3 DEF T
<1>5. \A x \in from : \A i : <<x, i>> \in S =>
        h[<<x, i>>] = To(x, i) /\ To(x, i) \in T
  <2> SUFFICES ASSUME NEW x \in from, NEW i, <<x, i>> \in S
               PROVE  h[<<x, i>>] = To(x, i) /\ To(x, i) \in T
    OBVIOUS
  <2>1. h[<<x, i>>] = To(x, i)
    BY DEF h
  <2>2. CASE x = n
    <3>1. i \in 1..len /\ EndAt(s, i) = m
      BY <1>3, <2>2
    <3>2. CASE i >= k
      <4>1. i + 1 \in 1..len + 1 /\ i + 1 # k /\ EndAt(t, i + 1) = m
        BY <1>1, <3>1, <3>2
      <4>2. To(x, i) = <<n, i + 1>>
        BY <2>2, <3>2 DEF To
      <4> QED
        BY <1>4, <2>1, <4>1, <4>2
    <3>3. CASE ~(i >= k)
      <4>1. i \in 1..len + 1 /\ i # k /\ EndAt(t, i) = m
        BY <1>1, <3>1, <3>3
      <4>2. To(x, i) = <<n, i>>
        BY <2>2, <3>3 DEF To
      <4> QED
        BY <1>4, <2>1, <4>1, <4>2
    <3> QED
      BY <3>2, <3>3
  <2>3. CASE x # n
    <3>1. To(x, i) = <<x, i>>
      BY <2>3 DEF To
    <3> QED
      BY <1>3, <1>4, <2>1, <2>3, <3>1
  <2> QED
    BY <2>1, <2>2, <2>3
<1>6. h \in [S -> T]
  <2>1. h = [p \in S |-> h[p]]
    BY DEF h
  <2>2. \A p \in S : h[p] \in T
    BY <1>3, <1>5
  <2> QED
    BY <2>1, <2>2
<1>7. \A p, q \in S : h[p] = h[q] => p = q
  <2> SUFFICES ASSUME NEW p \in S, NEW q \in S, h[p] = h[q]
               PROVE  p = q
    OBVIOUS
  <2>3. PICK x \in from : \E i : p = <<x, i>>
    BY <1>3
  <2>4. PICK i : p = <<x, i>>
    BY <2>3
  <2>5. PICK y \in from : \E j : q = <<y, j>>
    BY <1>3
  <2>6. PICK j : q = <<y, j>>
    BY <2>5
  <2>7. To(x, i) = To(y, j) /\ <<x, i>> \in S /\ <<y, j>> \in S
    BY <1>5, <2>4, <2>6
  <2>1. x = y
    BY <2>7 DEF To
  <2>2. CASE x = n
    <3>1. i \in Nat /\ j \in Nat /\ k \in Nat
      BY <1>1, <1>3, <2>1, <2>2, <2>7
    <3>2. i = j
      BY <2>1, <2>2, <2>7, <3>1 DEF To
    <3> QED
      BY <2>1, <2>4, <2>6, <3>2
  <2>8. CASE x # n
    BY <2>1, <2>4, <2>6, <2>7, <2>8 DEF To
  <2> QED
    BY <2>2, <2>8
<1>8. \A q \in T : \E p \in S : h[p] = q
  <2> SUFFICES ASSUME NEW x \in from, NEW i, <<x, i>> \in T
               PROVE  \E j : <<x, j>> \in S /\ To(x, j) = <<x, i>>
    <3> SUFFICES ASSUME NEW q \in T
                 PROVE  \E p \in S : h[p] = q
      OBVIOUS
    <3>1. PICK x \in from : \E i : q = <<x, i>>
      BY <1>4
    <3>2. PICK i : q = <<x, i>>
      BY <3>1
    <3>3. PICK j : <<x, j>> \in S /\ To(x, j) = <<x, i>>
      BY <3>2
    <3> QED
      BY <1>5, <3>2, <3>3
  <2>1. CASE x = n
    <3>1. i \in 1..len + 1 /\ i # k /\ EndAt(t, i) = m
      BY <1>4, <2>1
    <3>2. CASE i > k
      <4>1. i - 1 \in 1..len /\ i - 1 >= k /\ (i - 1) + 1 = i
        BY <1>1, <3>1, <3>2
      <4>2. EndAt(t, i) = EndAt(s, i - 1)
        BY <1>1, <4>1
      <4> QED
        BY <1>3, <2>1, <3>1, <4>1, <4>2 DEF To
    <3>3. CASE i < k
      <4>1. i \in 1..len /\ EndAt(t, i) = EndAt(s, i) /\ ~(i >= k)
        BY <1>1, <3>1, <3>3
      <4> QED
        BY <1>3, <2>1, <3>1, <4>1 DEF To
    <3> QED
      BY <1>1, <3>1, <3>2, <3>3
  <2>2. CASE x # n
    BY <1>3, <1>4, <2>2 DEF To
  <2> QED
    BY <2>1, <2>2
<1>9. h \in Bijection(S, T)
  BY <1>6, <1>7, <1>8, Fun_IsBij
<1>10. <<n, k>> \in Into(g, m, from) <=> a.end = m
  <2>1. <<n, k>> \in Into(g, m, from) <=> k \in DOMAIN g[n] /\ EndAt(g[n], k) = m
    BY IntoPairs
  <2> QED
    BY <1>1, <2>1 DEF t
<1> QED
  BY <1>9, <1>10 DEF ExistsBijection, S, T

\* degree counts the arcs that the nodes of from have into each of them.
Counts(f, from, degree) ==
  \A m \in from : /\ IsFiniteSet(Into(f, m, from))
                  /\ degree[m] = Cardinality(Into(f, m, from))

\* Counting the new arc at its end keeps the counters exact.
LEMMA InsertCounts ==
  ASSUME NEW f \in ArcLists, NEW g \in ArcLists, NEW from \in SUBSET Node,
         NEW n \in from, NEW k \in 1..Len(f[n]) + 1, NEW a \in Arc, a.end \in from,
         Inserts(f, g, n, k, a), NEW degree \in [Node -> Nat], Counts(f, from, degree)
  PROVE  Counts(g, from, [degree EXCEPT ![a.end] = @ + 1])
<1> SUFFICES ASSUME NEW m \in from
             PROVE  /\ IsFiniteSet(Into(g, m, from))
                    /\ Cardinality(Into(g, m, from)) =
                         IF a.end = m THEN degree[m] + 1 ELSE degree[m]
  BY DEF Counts
<1> DEFINE S == Into(f, m, from)
           T == Into(g, m, from)
           p == <<n, k>>
<1>1. IsFiniteSet(S) /\ Cardinality(S) = degree[m]
  BY DEF Counts
<1>2. ExistsBijection(S, T \ {p}) /\ (p \in T <=> a.end = m)
  BY InsertBijects
<1> HIDE DEF S, T, p
<1>3. IsFiniteSet(T \ {p}) /\ Cardinality(T \ {p}) = degree[m]
  BY <1>1, <1>2, FS_Bijection
<1>4. CASE a.end = m
  <2>1. T = (T \ {p}) \cup {p}
    BY <1>2, <1>4
  <2>2. IsFiniteSet(T) /\ Cardinality(T) = degree[m] + 1
    <3> DEFINE U == T \ {p}
    <3>1. IsFiniteSet(U) /\ Cardinality(U) = degree[m] /\ p \notin U /\ T = U \cup {p}
      BY <1>3, <2>1
    <3> HIDE DEF U
    <3>2. IsFiniteSet(U \cup {p}) /\ Cardinality(U \cup {p}) = Cardinality(U) + 1
      BY <3>1, FS_AddElement
    <3> QED
      BY <3>1, <3>2
  <2> QED
    BY <1>4, <2>2 DEF T
<1>5. CASE a.end # m
  <2>1. T = T \ {p}
    BY <1>2, <1>5
  <2>2. IsFiniteSet(T) /\ Cardinality(T) = degree[m]
    BY <1>3, <2>1
  <2> QED
    BY <1>5, <2>2 DEF T
<1> QED
  BY <1>4, <1>5

\* An arc is removed: inserting it again would give the arcs back.
Removes(f, g, n, k) == g = [f EXCEPT ![n] = RemoveAt(f[n], k)]

\* The arcs before are those after with the removed one inserted.
LEMMA RemovesInserts ==
  ASSUME NEW f \in ArcLists, NEW n \in Node, NEW k \in 1..Len(f[n]), NEW g,
         Removes(f, g, n, k)
  PROVE  /\ g \in ArcLists /\ Inserts(g, f, n, k, f[n][k])
         /\ k \in 1..Len(g[n]) + 1 /\ f[n][k] \in Arc
<1> DEFINE s == f[n]
           r == RemoveAt(s, k)
<1>1. s \in Seq(Arc) /\ k \in 1..Len(s)
  BY DEF ArcLists
<1> HIDE DEF s
<1>2. r \in Seq(Arc) /\ Len(r) = Len(s) - 1 /\ InsertAt(r, k, s[k]) = s
  <2> DEFINE e == s[k]
  <2>1. e \in Arc /\ s = [s EXCEPT ![k] = e]
    BY <1>1
  <2> HIDE DEF e
  <2>2. InsertAt(r, k, e) = [s EXCEPT ![k] = e]
    BY <1>1, <2>1, InsertRemoved
  <2>3. InsertAt(r, k, e) = s
    BY <2>1, <2>2
  <2> QED
    BY <1>1, <2>3, RemoveAtFacts DEF e
<1> HIDE DEF r
<1>3. g = [f EXCEPT ![n] = r] /\ g[n] = r
  BY DEF ArcLists, Removes, r, s
<1>4. g \in ArcLists
  BY <1>2, <1>3 DEF ArcLists
<1>5. f = [g EXCEPT ![n] = s]
  BY <1>3 DEF ArcLists, s
<1>6. k \in 1..Len(g[n]) + 1 /\ s[k] \in Arc
  BY <1>1, <1>2, <1>3
<1> QED
  BY <1>2, <1>3, <1>4, <1>5, <1>6 DEF Inserts, s

\* The end of the removed arc was counted; counting it no more is exact.
LEMMA RemoveCounts ==
  ASSUME NEW f \in ArcLists, NEW g \in ArcLists, NEW from \in SUBSET Node,
         NEW n \in from, NEW k \in 1..Len(f[n]), f[n][k].end \in from,
         Removes(f, g, n, k), NEW degree \in [Node -> Nat], Counts(f, from, degree)
  PROVE  /\ degree[f[n][k].end] > 0
         /\ Counts(g, from, [degree EXCEPT ![f[n][k].end] = @ - 1])
<1> DEFINE a == f[n][k]
<1>1. Inserts(g, f, n, k, a) /\ k \in 1..Len(g[n]) + 1 /\ a \in Arc
  BY RemovesInserts
<1>2. a.end \in from
  OBVIOUS
<1> HIDE DEF a
<1>3. \A m \in from :
        /\ IsFiniteSet(Into(g, m, from))
        /\ degree[m] = IF a.end = m THEN Cardinality(Into(g, m, from)) + 1
                                    ELSE Cardinality(Into(g, m, from))
        /\ Cardinality(Into(g, m, from)) \in Nat
  <2> TAKE m \in from
  <2> DEFINE S == Into(g, m, from)
             T == Into(f, m, from)
             p == <<n, k>>
  <2>1. IsFiniteSet(T) /\ degree[m] = Cardinality(T) /\ degree[m] \in Nat
    BY DEF Counts
  <2>2. ExistsBijection(S, T \ {p}) /\ (p \in T <=> a.end = m)
    BY <1>1, InsertBijects
  <2> HIDE DEF S, T, p
  <2>3. /\ IsFiniteSet(T \ {p})
        /\ Cardinality(T \ {p}) = IF a.end = m THEN Cardinality(T) - 1 ELSE Cardinality(T)
    BY <2>1, <2>2, FS_RemoveElement
  <2>4. IsFiniteSet(S) /\ Cardinality(S) = Cardinality(T \ {p})
    <3>1. ExistsBijection(T \ {p}, S)
      BY <2>2, Fun_ExistsBijSymmetric
    <3> QED
      BY <2>3, <3>1, FS_Bijection
  <2>5. Cardinality(S) \in Nat
    BY <2>4, FS_CardinalityType
  <2> QED
    BY <2>1, <2>3, <2>4, <2>5 DEF S
<1>4. degree[a.end] > 0
  BY <1>2, <1>3
<1>5. Counts(g, from, [degree EXCEPT ![a.end] = @ - 1])
  BY <1>3 DEF Counts
<1> QED
  BY <1>4, <1>5 DEF a

\* The end of an arc is changed: an arc is removed and another inserted there.
LEMMA UpdateInserts ==
  ASSUME NEW f \in ArcLists, NEW n \in Node, NEW k \in 1..Len(f[n]), NEW m \in Node
  PROVE  LET g == [f EXCEPT ![n] = RemoveAt(f[n], k)]
             h == [f EXCEPT ![n][k].end = m]
             a == [value |-> f[n][k].value, end |-> m]
         IN /\ h \in ArcLists /\ a \in Arc
            /\ Removes(f, g, n, k) /\ Inserts(g, h, n, k, a)
<1> DEFINE s == f[n]
           a == [value |-> s[k].value, end |-> m]
           r == RemoveAt(s, k)
           w == [s EXCEPT ![k] = a]
<1>1. s \in Seq(Arc) /\ k \in 1..Len(s)
  BY DEF ArcLists
<1>2. a \in Arc /\ [s[k] EXCEPT !.end = m] = a
  <2>1. PICK v \in Label, e \in Node : s[k] = [value |-> v, end |-> e]
    <3>1. s[k] \in Arc
      BY <1>1
    <3> QED
      BY <3>1 DEF Arc
  <2> QED
    BY <2>1 DEF Arc
<1>3. [f EXCEPT ![n][k].end = m] = [f EXCEPT ![n] = [s EXCEPT ![k] = [s[k] EXCEPT !.end = m]]]
  OBVIOUS
<1>4. [f EXCEPT ![n][k].end = m] = [f EXCEPT ![n] = w]
  BY <1>2, <1>3
<1> HIDE DEF a, s
<1>5. r \in Seq(Arc) /\ InsertAt(r, k, a) = w /\ w \in Seq(Arc)
  <2>1. a \in Arc
    BY <1>2
  <2>2. InsertAt(r, k, a) = w
    BY <1>1, <2>1, InsertRemoved
  <2>3. r \in Seq(Arc)
    BY <1>1, RemoveAtFacts
  <2>4. w \in Seq(Arc)
    BY <1>1, <2>1
  <2> QED
    BY <2>2, <2>3, <2>4
<1> HIDE DEF r, w
<1> DEFINE g == [f EXCEPT ![n] = r]
           h == [f EXCEPT ![n] = w]
<1>6. g[n] = r /\ h = [g EXCEPT ![n] = w] /\ h \in ArcLists
  BY <1>5 DEF ArcLists
<1>7. Inserts(g, h, n, k, a)
  BY <1>5, <1>6 DEF Inserts
<1>8. Removes(f, g, n, k)
  BY DEF Removes, r, s
<1> QED
  BY <1>2, <1>4, <1>6, <1>7, <1>8 DEF a, r, s

\* Where arcs lead to: nothing but an insertion adds an end.
LEMMA InsertedEnds ==
  ASSUME NEW f \in ArcLists, NEW g, NEW n \in Node, NEW k \in 1..Len(f[n]) + 1,
         NEW a \in Arc, Inserts(f, g, n, k, a)
  PROVE  /\ g \in ArcLists
         /\ \A x \in Node : \A i \in DOMAIN g[x] :
              \/ x = n /\ EndAt(g[x], i) = a.end
              \/ \E j \in DOMAIN f[x] : EndAt(g[x], i) = EndAt(f[x], j)
<1> DEFINE s == f[n]
           u == InsertAt(s, k, a)
<1>1. s \in Seq(Arc) /\ k \in 1..Len(s) + 1
  BY DEF ArcLists
<1> HIDE DEF s
<1>2. /\ u \in Seq(Arc) /\ Len(u) = Len(s) + 1
      /\ \A i \in 1..Len(s) + 1 :
           u[i] = IF i < k THEN s[i] ELSE IF i = k THEN a ELSE s[i - 1]
  BY <1>1, InsertAtFacts
<1> HIDE DEF u
<1>3. DOMAIN s = 1..Len(s) /\ DOMAIN u = 1..Len(s) + 1 /\ Len(s) \in Nat
  BY <1>1, <1>2
<1>4. g \in ArcLists /\ g[n] = u /\ \A x \in Node : x # n => g[x] = f[x]
  <2>1. g = [f EXCEPT ![n] = u]
    BY DEF Inserts, u, s
  <2> QED
    BY <1>2, <2>1 DEF ArcLists
<1>5. \A i \in 1..Len(s) + 1 :
        \/ EndAt(u, i) = a.end
        \/ \E j \in 1..Len(s) : EndAt(u, i) = EndAt(s, j)
  <2> SUFFICES ASSUME NEW i \in 1..Len(s) + 1
               PROVE  \/ EndAt(u, i) = a.end
                      \/ \E j \in 1..Len(s) : EndAt(u, i) = EndAt(s, j)
    OBVIOUS
  <2>1. CASE i < k
    <3>1. i \in 1..Len(s) /\ u[i] = s[i]
      BY <1>1, <1>2, <1>3, <2>1
    <3> QED
      BY <3>1 DEF EndAt
  <2>2. CASE i = k
    <3>1. u[i] = a
      BY <1>2, <2>2
    <3> QED
      BY <3>1 DEF EndAt
  <2>3. CASE i > k
    <3>1. i - 1 \in 1..Len(s) /\ u[i] = s[i - 1]
      BY <1>1, <1>2, <1>3, <2>3
    <3> QED
      BY <3>1 DEF EndAt
  <2> QED
    BY <1>1, <1>3, <2>1, <2>2, <2>3
<1>6. \A x \in Node : \A i \in DOMAIN g[x] :
        \/ x = n /\ EndAt(g[x], i) = a.end
        \/ \E j \in DOMAIN f[x] : EndAt(g[x], i) = EndAt(f[x], j)
  <2> TAKE x \in Node
  <2> TAKE i \in DOMAIN g[x]
  <2>1. CASE x = n
    <3>1. i \in 1..Len(s) + 1
      BY <1>3, <1>4, <2>1
    <3>2. \/ EndAt(u, i) = a.end
          \/ \E j \in DOMAIN s : EndAt(u, i) = EndAt(s, j)
      BY <1>3, <1>5, <3>1
    <3> QED
      BY <1>4, <2>1, <3>2 DEF s
  <2>2. CASE x # n
    BY <1>4, <2>2
  <2> QED
    BY <2>1, <2>2
<1> QED
  BY <1>4, <1>6

\* A removal adds no end.
LEMMA RemainingEnds ==
  ASSUME NEW f \in ArcLists, NEW g, NEW n \in Node, NEW k \in 1..Len(f[n]),
         Removes(f, g, n, k)
  PROVE  \A x \in Node : \A i \in DOMAIN g[x] :
           \E j \in DOMAIN f[x] : EndAt(g[x], i) = EndAt(f[x], j)
<1> DEFINE s == f[n]
           u == RemoveAt(s, k)
<1>1. s \in Seq(Arc) /\ k \in 1..Len(s)
  BY DEF ArcLists
<1> HIDE DEF s
<1>2. /\ u \in Seq(Arc) /\ Len(u) = Len(s) - 1
      /\ \A i \in 1..Len(s) - 1 : u[i] = IF i < k THEN s[i] ELSE s[i + 1]
  BY <1>1, RemoveAtFacts
<1> HIDE DEF u
<1>3. DOMAIN s = 1..Len(s) /\ DOMAIN u = 1..Len(s) - 1 /\ Len(s) \in Nat
  BY <1>1, <1>2
<1>4. g[n] = u /\ \A x \in Node : x # n => g[x] = f[x]
  BY DEF ArcLists, Removes, u, s
<1>5. \A i \in 1..Len(s) - 1 : \E j \in 1..Len(s) : EndAt(u, i) = EndAt(s, j)
  <2> SUFFICES ASSUME NEW i \in 1..Len(s) - 1
               PROVE  \E j \in 1..Len(s) : EndAt(u, i) = EndAt(s, j)
    OBVIOUS
  <2>1. i \in 1..Len(s) /\ i + 1 \in 1..Len(s)
    BY <1>3
  <2>2. u[i] = s[i] \/ u[i] = s[i + 1]
    BY <1>2
  <2> QED
    BY <2>1, <2>2 DEF EndAt
<1> TAKE x \in Node
<1> TAKE i \in DOMAIN g[x]
<1>6. CASE x = n
  <2>1. i \in 1..Len(s) - 1
    BY <1>3, <1>4, <1>6
  <2>2. \E j \in DOMAIN s : EndAt(u, i) = EndAt(s, j)
    BY <1>3, <1>5, <2>1
  <2> QED
    BY <1>4, <1>6, <2>2 DEF s
<1>7. CASE x # n
  BY <1>4, <1>7
<1> QED
  BY <1>6, <1>7

-----------------------------------------------------------------------------
(***************************************************************************)
(* The inductive invariant.                                                *)
(***************************************************************************)
Types ==
  /\ nodes \in [Layer -> Seq(Node)]
  /\ alive \in SUBSET Node
  /\ varIndex \in [Node -> Layer]
  /\ arcs \in ArcLists
  /\ nbIn \in [Node -> Nat]
  /\ newV = [n \in Node |-> n]

\* A layer lists nodes of its own, each once.
Lists ==
  \A l \in Layer :
    /\ IsInjective(nodes[l])
    /\ \A n \in ToSet(nodes[l]) : n \in alive /\ varIndex[n] = l

\* m is in the layer that follows that of n.
Follows(n, m) ==
  m \in alive /\ varIndex[m] = varIndex[n] + 1 /\ m \in ToSet(nodes[varIndex[m]])

\* Also the arcs of the nodes taken out, which may be added again.
ArcsGoDown ==
  \A n \in alive : \A i \in DOMAIN arcs[n] : Follows(n, EndAt(arcs[n], i))

InDegrees == Counts(arcs, alive, nbIn)

IInv == Types /\ Lists /\ ArcsGoDown /\ InDegrees

\* What the clients owe to Link, in the words of the invariant.
LEMMA LinkableFollows ==
  ASSUME NEW n \in Node, NEW m \in Node
  PROVE  Linkable(n, m) <=> InMdd(n) /\ Follows(n, m)
BY DEF Linkable, InMdd, Follows, Listed, ToSet

-----------------------------------------------------------------------------
\* A step that only changes arcs and counters.
LEMMA ArcStep ==
  ASSUME Types, Lists, UNCHANGED <<nodes, alive, varIndex, newV>>,
         arcs' \in ArcLists, nbIn' \in [Node -> Nat],
         \A n \in alive : \A i \in DOMAIN arcs'[n] : Follows(n, EndAt(arcs'[n], i)),
         Counts(arcs', alive, nbIn')
  PROVE  IInv'
<1>1. Types' /\ Lists'
  BY DEF Types, Lists
<1>2. ArcsGoDown'
  BY DEF ArcsGoDown, Follows
<1>3. InDegrees'
  BY DEF InDegrees
<1> QED
  BY <1>1, <1>2, <1>3 DEF IInv

\* addArc and the other four insertions.
LEMMA NewArcStep ==
  ASSUME IInv, NEW n \in Node, NEW m \in Node, Linkable(n, m),
         NEW v \in Label, NEW k \in 1..Len(arcs[n]) + 1, NewArcAt(n, k, v, m)
  PROVE  IInv'
<1> DEFINE a == [value |-> v, end |-> m]
<1>1. n \in alive /\ m \in alive /\ Follows(n, m)
  BY LinkableFollows DEF InMdd, Follows
<1>2. a \in Arc /\ a.end = m
  BY DEF Arc
<1> HIDE DEF a
<1>3. arcs \in ArcLists /\ alive \in SUBSET Node /\ nbIn \in [Node -> Nat]
      /\ Counts(arcs, alive, nbIn)
  BY DEF IInv, Types, InDegrees
<1>4. Inserts(arcs, arcs', n, k, a) /\ nbIn' = [nbIn EXCEPT ![a.end] = @ + 1]
  <2>1. arcs' = [arcs EXCEPT ![n] = InsertAt(@, k, a)] /\ nbIn' = [nbIn EXCEPT ![m] = @ + 1]
    BY DEF NewArcAt, a
  <2> QED
    BY <1>2, <2>1 DEF Inserts
<1>5. /\ arcs' \in ArcLists
      /\ \A x \in Node : \A i \in DOMAIN arcs'[x] :
           \/ x = n /\ EndAt(arcs'[x], i) = a.end
           \/ \E j \in DOMAIN arcs[x] : EndAt(arcs'[x], i) = EndAt(arcs[x], j)
  <2>1. a \in Arc /\ arcs \in ArcLists /\ Inserts(arcs, arcs', n, k, a)
    BY <1>2, <1>3, <1>4
  <2> DEFINE f == arcs
             g == arcs'
  <2>2. n \in Node /\ k \in 1..Len(f[n]) + 1 /\ a \in Arc
    BY <2>1
  <2>3. f \in ArcLists /\ Inserts(f, g, n, k, a)
    BY <2>1
  <2> HIDE DEF f, g
  <2>4. /\ g \in ArcLists
        /\ \A x \in Node : \A i \in DOMAIN g[x] :
             \/ x = n /\ EndAt(g[x], i) = a.end
             \/ \E j \in DOMAIN f[x] : EndAt(g[x], i) = EndAt(f[x], j)
    <3>1. g \in ArcLists
      BY <2>2, <2>3, InsertedEnds
    <3>2. \A x \in Node : \A i \in DOMAIN g[x] :
             \/ x = n /\ EndAt(g[x], i) = a.end
             \/ \E j \in DOMAIN f[x] : EndAt(g[x], i) = EndAt(f[x], j)
      BY <2>2, <2>3, InsertedEnds
    <3> QED
      BY <3>1, <3>2
  <2> QED
    BY <2>4 DEF f, g
<1>6. Counts(arcs', alive, [nbIn EXCEPT ![a.end] = @ + 1])
  <2>1. a.end \in alive
    BY <1>1, <1>2
  <2> QED
    BY <1>1, <1>2, <1>3, <1>4, <1>5, <2>1, InsertCounts
<1>7. \A x \in alive : \A i \in DOMAIN arcs'[x] : Follows(x, EndAt(arcs'[x], i))
  BY <1>1, <1>2, <1>3, <1>5 DEF IInv, ArcsGoDown
<1>8. nbIn' \in [Node -> Nat]
  BY <1>2, <1>3, <1>4
<1>9. UNCHANGED <<nodes, alive, varIndex, newV>>
  BY DEF NewArcAt
<1> QED
  BY <1>4, <1>5, <1>6, <1>7, <1>8, <1>9, ArcStep DEF IInv

\* deleteArc.
LEMMA DeleteArcStep ==
  ASSUME IInv, NEW n \in alive, NEW k \in DOMAIN arcs[n], DeleteArc(n, k)
  PROVE  IInv'
<1> DEFINE e == arcs[n][k].end
<1>1. /\ arcs \in ArcLists /\ alive \in SUBSET Node /\ nbIn \in [Node -> Nat]
      /\ Counts(arcs, alive, nbIn)
  BY DEF IInv, Types, InDegrees
<1>2. n \in Node /\ k \in 1..Len(arcs[n])
  BY <1>1 DEF ArcLists
<1>3. e \in alive
  BY DEF IInv, ArcsGoDown, EndAt, Follows
<1>4. Removes(arcs, arcs', n, k) /\ nbIn' = [nbIn EXCEPT ![e] = @ - 1]
  BY DEF DeleteArc, Removes
<1>5. arcs' \in ArcLists
  BY <1>1, <1>2, <1>4, RemovesInserts
<1>6. nbIn[e] > 0 /\ Counts(arcs', alive, [nbIn EXCEPT ![e] = @ - 1])
  BY <1>1, <1>2, <1>3, <1>4, <1>5, RemoveCounts
<1>7. \A x \in Node : \A i \in DOMAIN arcs'[x] :
        \E j \in DOMAIN arcs[x] : EndAt(arcs'[x], i) = EndAt(arcs[x], j)
  BY <1>1, <1>2, <1>4, RemainingEnds
<1>8. \A x \in alive : \A i \in DOMAIN arcs'[x] : Follows(x, EndAt(arcs'[x], i))
  BY <1>1, <1>7 DEF IInv, ArcsGoDown
<1> HIDE DEF e
<1>9. nbIn' \in [Node -> Nat]
  BY <1>1, <1>3, <1>4, <1>6
<1>10. UNCHANGED <<nodes, alive, varIndex, newV>>
  BY DEF DeleteArc
<1> QED
  BY <1>4, <1>5, <1>6, <1>8, <1>9, <1>10, ArcStep DEF IInv

\* updateArc, with a new end.
LEMMA UpdateArcStep ==
  ASSUME IInv, NEW n \in Node, NEW m \in Node, Linkable(n, m),
         NEW k \in DOMAIN arcs[n], UpdateArc(n, k, m)
  PROVE  IInv'
<1> DEFINE e == arcs[n][k].end
           a == [value |-> arcs[n][k].value, end |-> m]
           g == [arcs EXCEPT ![n] = RemoveAt(arcs[n], k)]
           d == [nbIn EXCEPT ![e] = @ - 1]
<1>0. n \in alive /\ m \in alive /\ Follows(n, m) /\ a.end = m
  BY LinkableFollows DEF InMdd, Follows
<1>1. /\ arcs \in ArcLists /\ alive \in SUBSET Node /\ nbIn \in [Node -> Nat]
      /\ Counts(arcs, alive, nbIn)
  BY DEF IInv, Types, InDegrees
<1>2. k \in 1..Len(arcs[n])
  BY <1>1 DEF ArcLists
<1>3. e \in alive
  BY <1>0 DEF IInv, ArcsGoDown, EndAt, Follows
<1>4. /\ arcs' = [arcs EXCEPT ![n][k].end = m]
      /\ nbIn' = [d EXCEPT ![m] = @ + 1]
      /\ UNCHANGED <<nodes, alive, varIndex, newV>>
  BY NullIsNoNode DEF UpdateArc
<1>5. arcs' \in ArcLists /\ a \in Arc /\ Removes(arcs, g, n, k) /\ Inserts(g, arcs', n, k, a)
  BY <1>1, <1>2, <1>4, UpdateInserts
<1> HIDE DEF g, a
<1>6. g \in ArcLists /\ k \in 1..Len(g[n]) + 1
  BY <1>1, <1>2, <1>5, RemovesInserts
<1>7. nbIn[e] > 0 /\ Counts(g, alive, d)
  BY <1>0, <1>1, <1>2, <1>3, <1>5, <1>6, RemoveCounts
<1> HIDE DEF e
<1>8. d \in [Node -> Nat]
  BY <1>1, <1>3, <1>7
<1> HIDE DEF d
<1>9. Counts(arcs', alive, [d EXCEPT ![a.end] = @ + 1])
  <2>1. a.end \in alive /\ n \in alive
    BY <1>0
  <2> QED
    BY <1>1, <1>5, <1>6, <1>7, <1>8, <2>1, InsertCounts
<1>10. \A x \in Node : \A i \in DOMAIN arcs'[x] :
         \/ x = n /\ EndAt(arcs'[x], i) = a.end
         \/ \E j \in DOMAIN g[x] : EndAt(arcs'[x], i) = EndAt(g[x], j)
  BY <1>5, <1>6, InsertedEnds
<1>11. \A x \in Node : \A i \in DOMAIN g[x] :
         \E j \in DOMAIN arcs[x] : EndAt(g[x], i) = EndAt(arcs[x], j)
  BY <1>1, <1>2, <1>5, RemainingEnds
<1>12. \A x \in alive : \A i \in DOMAIN arcs'[x] : Follows(x, EndAt(arcs'[x], i))
  <2> TAKE x \in alive
  <2> TAKE i \in DOMAIN arcs'[x]
  <2>1. x \in Node /\ \A j \in DOMAIN arcs[x] : Follows(x, EndAt(arcs[x], j))
    BY <1>1 DEF IInv, ArcsGoDown
  <2>2. CASE x = n /\ EndAt(arcs'[x], i) = a.end
    BY <1>0, <2>2
  <2>3. CASE \E j \in DOMAIN g[x] : EndAt(arcs'[x], i) = EndAt(g[x], j)
    <3>1. PICK j \in DOMAIN g[x] : EndAt(arcs'[x], i) = EndAt(g[x], j)
      BY <2>3
    <3>2. PICK y \in DOMAIN arcs[x] : EndAt(g[x], j) = EndAt(arcs[x], y)
      BY <1>11, <2>1
    <3> QED
      BY <2>1, <3>1, <3>2
  <2> QED
    BY <1>10, <2>1, <2>2, <2>3
<1>13. nbIn' \in [Node -> Nat] /\ nbIn' = [d EXCEPT ![a.end] = @ + 1]
  BY <1>0, <1>4, <1>8
<1> QED
  BY <1>4, <1>5, <1>9, <1>12, <1>13, ArcStep DEF IInv

-----------------------------------------------------------------------------
\* A node is put in front of the list of a layer, or taken out of it.
PutIn(l, n) == nodes' = [nodes EXCEPT ![l] = <<n>> \o @]

\* addList leaves the other layers alone.
LEMMA PutInLists ==
  ASSUME nodes \in [Layer -> Seq(Node)], \A l \in Layer : IsInjective(nodes[l]),
         NEW l \in Layer, NEW n \in Node, n \notin ToSet(nodes[l]), PutIn(l, n)
  PROVE  /\ nodes' \in [Layer -> Seq(Node)]
         /\ \A k \in Layer :
              /\ IsInjective(nodes'[k])
              /\ ToSet(nodes'[k]) = IF k = l THEN ToSet(nodes[k]) \cup {n}
                                            ELSE ToSet(nodes[k])
<1> DEFINE s == nodes[l]
           u == <<n>> \o s
<1>1. s \in Seq(Node) /\ IsInjective(s) /\ n \notin ToSet(s)
  OBVIOUS
<1> HIDE DEF s
<1>2. u \in Seq(Node) /\ IsInjective(u) /\ ToSet(u) = ToSet(s) \cup {n}
  BY <1>1, ConsSet
<1>3. nodes' = [nodes EXCEPT ![l] = u]
  BY DEF PutIn, s
<1> HIDE DEF u
<1>4. nodes' \in [Layer -> Seq(Node)]
  BY <1>2, <1>3
<1>5. nodes'[l] = u /\ \A k \in Layer : k # l => nodes'[k] = nodes[k]
  BY <1>3
<1> QED
  BY <1>2, <1>4, <1>5 DEF s

\* removeList leaves the other layers alone.
LEMMA UnlinkLists ==
  ASSUME nodes \in [Layer -> Seq(Node)], \A l \in Layer : IsInjective(nodes[l]),
         NEW n \in Node, varIndex[n] \in Layer, n \in ToSet(nodes[varIndex[n]]), Unlink(n)
  PROVE  /\ nodes' \in [Layer -> Seq(Node)]
         /\ \A k \in Layer :
              /\ IsInjective(nodes'[k])
              /\ ToSet(nodes'[k]) = IF k = varIndex[n] THEN ToSet(nodes[k]) \ {n}
                                                      ELSE ToSet(nodes[k])
<1> DEFINE l == varIndex[n]
           s == nodes[l]
           u == RemoveFirst(s, n)
<1>0. l \in Layer /\ varIndex[n] = l
  OBVIOUS
<1>3. nodes' = [nodes EXCEPT ![l] = u]
  BY DEF Unlink, Without
<1>1. s \in Seq(Node) /\ IsInjective(s) /\ n \in ToSet(s)
  OBVIOUS
<1> HIDE DEF s
<1>2. u \in Seq(Node) /\ IsInjective(u) /\ ToSet(u) = ToSet(s) \ {n}
  BY <1>1, RemoveFirstSet
<1> HIDE DEF u, l
<1>4. nodes' \in [Layer -> Seq(Node)]
  BY <1>0, <1>2, <1>3
<1>5. nodes'[l] = u /\ \A k \in Layer : k # l => nodes'[k] = nodes[k]
  BY <1>0, <1>3
<1> QED
  BY <1>0, <1>2, <1>4, <1>5 DEF s

\* No arc leads to a node of which the counter is 0.
LEMMA NoArcIntoUnreached ==
  ASSUME IInv, NEW m \in alive, nbIn[m] = 0
  PROVE  \A n \in alive : \A i \in DOMAIN arcs[n] : EndAt(arcs[n], i) # m
<1>1. IsFiniteSet(Into(arcs, m, alive)) /\ Cardinality(Into(arcs, m, alive)) = 0
  BY DEF IInv, InDegrees, Counts
<1>2. Into(arcs, m, alive) = {}
  BY <1>1, FS_EmptySet
<1> QED
  BY <1>2, IntoPairs

\* The invariant, conjunct by conjunct.
LEMMA InvariantParts ==
  ASSUME IInv
  PROVE  /\ nodes \in [Layer -> Seq(Node)] /\ \A l \in Layer : IsInjective(nodes[l])
         /\ \A l \in Layer : \A n \in ToSet(nodes[l]) : n \in alive /\ varIndex[n] = l
         /\ alive \in SUBSET Node /\ varIndex \in [Node -> Layer]
         /\ arcs \in ArcLists /\ nbIn \in [Node -> Nat] /\ newV = [n \in Node |-> n]
         /\ \A n \in alive : \A i \in DOMAIN arcs[n] : Follows(n, EndAt(arcs[n], i))
         /\ Counts(arcs, alive, nbIn)
BY DEF IInv, Types, Lists, ArcsGoDown, InDegrees

\* A node taken out is put back.
LEMMA AddListStep ==
  ASSUME IInv, NEW n \in alive, ~InMdd(n), AddList(n)
  PROVE  IInv'
<1> DEFINE l == varIndex[n]
<1>1. l \in Layer /\ n \in Node /\ n \notin ToSet(nodes[l])
  BY InvariantParts DEF InMdd, Listed, ToSet
<1>2. PutIn(l, n) /\ UNCHANGED <<alive, varIndex, arcs, nbIn, newV>>
  BY DEF AddList, PutIn
<1>3. /\ nodes' \in [Layer -> Seq(Node)]
      /\ \A k \in Layer :
           /\ IsInjective(nodes'[k])
           /\ ToSet(nodes'[k]) = IF k = l THEN ToSet(nodes[k]) \cup {n}
                                         ELSE ToSet(nodes[k])
  <2> HIDE DEF l
  <2> QED
    BY <1>1, <1>2, InvariantParts, PutInLists
<1>4. Types' /\ Lists'
  <2>1. Types'
    BY <1>2, <1>3, InvariantParts DEF Types
  <2>2. \A k \in Layer : \A x \in ToSet(nodes'[k]) : x \in alive /\ varIndex[x] = k
    <3>1. n \in alive /\ varIndex[n] = l
      OBVIOUS
    <3>2. \A k \in Layer : \A x \in ToSet(nodes[k]) : x \in alive /\ varIndex[x] = k
      BY InvariantParts
    <3> HIDE DEF l
    <3>3. \A k \in Layer : \A x \in ToSet(nodes'[k]) :
            x \in ToSet(nodes[k]) \/ (k = l /\ x = n)
      BY <1>3
    <3> QED
      BY <3>1, <3>2, <3>3
  <2> QED
    BY <1>2, <1>3, <2>1, <2>2 DEF Lists
<1>5. ArcsGoDown'
  <2>1. \A x, m \in Node : Follows(x, m) => Follows(x, m)'
    BY <1>2, <1>3, InvariantParts DEF Follows
  <2>2. \A x \in alive : \A i \in DOMAIN arcs[x] : EndAt(arcs[x], i) \in Node
    BY InvariantParts DEF Follows
  <2> QED
    BY <1>2, <2>1, <2>2, InvariantParts DEF ArcsGoDown
<1>6. InDegrees'
  BY <1>2, InvariantParts DEF InDegrees
<1> QED
  BY <1>4, <1>5, <1>6 DEF IInv

\* A node of which InDegree() is 0 is taken out.
LEMMA RemoveListStep ==
  ASSUME IInv, NEW n \in Node, InMdd(n), nbIn[n] = 0, RemoveList(n)
  PROVE  IInv'
<1>1. varIndex[n] \in Layer /\ n \in alive /\ n \in ToSet(nodes[varIndex[n]])
  BY InvariantParts DEF InMdd, Listed, ToSet
<1>2. Unlink(n) /\ UNCHANGED <<alive, varIndex, arcs, nbIn, newV>>
  BY DEF RemoveList
<1>3. /\ nodes' \in [Layer -> Seq(Node)]
      /\ \A k \in Layer :
           /\ IsInjective(nodes'[k])
           /\ ToSet(nodes'[k]) = IF k = varIndex[n] THEN ToSet(nodes[k]) \ {n}
                                                   ELSE ToSet(nodes[k])
  BY <1>1, <1>2, InvariantParts, UnlinkLists
<1>4. Types' /\ Lists'
  BY <1>2, <1>3, InvariantParts DEF Types, Lists
<1>5. ArcsGoDown'
  <2>1. \A x, m \in Node : Follows(x, m) /\ m # n => Follows(x, m)'
    BY <1>2, <1>3, InvariantParts DEF Follows
  <2>2. \A x \in alive : \A i \in DOMAIN arcs[x] :
          EndAt(arcs[x], i) \in Node /\ EndAt(arcs[x], i) # n
    BY <1>1, InvariantParts, NoArcIntoUnreached DEF Follows
  <2> QED
    BY <1>2, <2>1, <2>2, InvariantParts DEF ArcsGoDown
<1>6. InDegrees'
  BY <1>2, InvariantParts DEF InDegrees
<1> QED
  BY <1>4, <1>5, <1>6 DEF IInv

\* Nodes without arcs, to which no arc leads, are constructed or deleted.
LEMMA SameArcsInto ==
  ASSUME NEW f, NEW g, NEW S, NEW T, NEW m,
         \A n \in S \cup T :
           \/ n \in S /\ n \in T /\ f[n] = g[n]
           \/ n \in S /\ n \notin T /\ DOMAIN f[n] = {}
           \/ n \in T /\ n \notin S /\ DOMAIN g[n] = {}
  PROVE  Into(f, m, S) = Into(g, m, T)
<1>1. \A p \in Into(f, m, S) : p \in Into(g, m, T)
  <2> TAKE p \in Into(f, m, S)
  <2>1. PICK n \in S : \E i \in DOMAIN f[n] : p = <<n, i>> /\ EndAt(f[n], i) = m
    BY IntoMembers
  <2>2. n \in T /\ f[n] = g[n]
    BY <2>1
  <2> QED
    BY <2>1, <2>2, IntoPairs
<1>2. \A p \in Into(g, m, T) : p \in Into(f, m, S)
  <2> TAKE p \in Into(g, m, T)
  <2>1. PICK n \in T : \E i \in DOMAIN g[n] : p = <<n, i>> /\ EndAt(g[n], i) = m
    BY IntoMembers
  <2>2. n \in S /\ f[n] = g[n]
    BY <2>1
  <2> QED
    BY <2>1, <2>2, IntoPairs
<1> QED
  BY <1>1, <1>2

\* A new node has no arcs and ends none, whatever its memory held before.
LEMMA CreateNodeStep ==
  ASSUME IInv, NEW n \in Node, NEW l \in 1..Size - 1, CreateNode(n, l)
  PROVE  IInv'
<1>1. l \in Layer /\ n \notin alive /\ n \notin ToSet(nodes[l])
  BY SizeIsPositive, InvariantParts DEF CreateNode, Layer
<1>2. /\ PutIn(l, n) /\ alive' = alive \cup {n} /\ varIndex' = [varIndex EXCEPT ![n] = l]
      /\ arcs' = [arcs EXCEPT ![n] = <<>>] /\ nbIn' = [nbIn EXCEPT ![n] = 0]
      /\ newV' = [newV EXCEPT ![n] = n]
  BY DEF CreateNode, PutIn
<1>3. /\ nodes' \in [Layer -> Seq(Node)]
      /\ \A k \in Layer :
           /\ IsInjective(nodes'[k])
           /\ ToSet(nodes'[k]) = IF k = l THEN ToSet(nodes[k]) \cup {n}
                                         ELSE ToSet(nodes[k])
  BY <1>1, <1>2, InvariantParts, PutInLists
<1>4. Types'
  <2>1. arcs' \in ArcLists
    BY <1>2, InvariantParts DEF ArcLists
  <2>2. varIndex' \in [Node -> Layer] /\ nbIn' \in [Node -> Nat]
    BY <1>1, <1>2, InvariantParts
  <2>3. newV' = [x \in Node |-> x]
    BY <1>2, InvariantParts
  <2> QED
    BY <1>2, <1>3, <2>1, <2>2, <2>3, InvariantParts DEF Types
<1>5. Lists'
  <2>1. \A k \in Layer : \A x \in ToSet(nodes[k]) : x \in alive /\ varIndex[x] = k
    BY InvariantParts
  <2>2. \A k \in Layer : \A x \in ToSet(nodes'[k]) :
          x \in ToSet(nodes[k]) \/ (k = l /\ x = n)
    BY <1>3
  <2>3. varIndex'[n] = l /\ \A x \in alive : varIndex'[x] = varIndex[x]
    BY <1>1, <1>2, InvariantParts
  <2>4. \A k \in Layer : \A x \in ToSet(nodes'[k]) : x \in alive' /\ varIndex'[x] = k
    BY <1>2, <2>1, <2>2, <2>3
  <2> QED
    BY <1>3, <2>4 DEF Lists
<1>6. ArcsGoDown'
  <2>1. \A x, m \in alive : Follows(x, m) => Follows(x, m)'
    <3>1. \A x \in alive : varIndex'[x] = varIndex[x] /\ varIndex[x] \in Layer /\ x \in alive'
      BY <1>1, <1>2, InvariantParts
    <3>2. \A k \in Layer : \A x \in ToSet(nodes[k]) : x \in ToSet(nodes'[k])
      BY <1>3
    <3> QED
      BY <3>1, <3>2 DEF Follows
  <2>2. DOMAIN arcs'[n] = {} /\ \A x \in alive : arcs'[x] = arcs[x]
    <3>1. arcs'[n] = <<>> /\ \A x \in alive : arcs'[x] = arcs[x]
      BY <1>1, <1>2, InvariantParts DEF ArcLists
    <3> QED
      BY <3>1
  <2>3. \A x \in alive : \A i \in DOMAIN arcs[x] :
          EndAt(arcs[x], i) \in alive /\ Follows(x, EndAt(arcs[x], i))
    BY InvariantParts DEF Follows
  <2>4. \A x \in alive' : \A i \in DOMAIN arcs'[x] :
          x \in alive /\ arcs'[x] = arcs[x] /\ i \in DOMAIN arcs[x]
    BY <1>2, <2>2
  <2>5. SUFFICES ASSUME NEW x \in alive', NEW i \in DOMAIN arcs'[x],
                        NEW m, m = EndAt(arcs'[x], i)
                 PROVE  Follows(x, m)'
    BY DEF ArcsGoDown
  <2>6. x \in alive /\ i \in DOMAIN arcs[x] /\ m = EndAt(arcs[x], i)
    BY <2>4, <2>5
  <2> QED
    BY <2>1, <2>3, <2>6
<1>7. InDegrees'
  <2>1. arcs'[n] = <<>> /\ \A x \in alive : arcs'[x] = arcs[x]
    BY <1>1, <1>2, InvariantParts DEF ArcLists
  <2>2. ASSUME NEW m PROVE Into(arcs, m, alive) = Into(arcs', m, alive')
    <3>1. DOMAIN arcs'[n] = {}
      BY <2>1
    <3>2. \A x \in alive \cup alive' :
            \/ x \in alive /\ x \in alive' /\ arcs[x] = arcs'[x]
            \/ x \in alive' /\ x \notin alive /\ DOMAIN arcs'[x] = {}
      BY <1>1, <1>2, <2>1, <3>1
    <3> DEFINE f == arcs
               g == arcs'
               S == alive
               T == alive'
    <3>3. \A x \in S \cup T :
            \/ x \in S /\ x \in T /\ f[x] = g[x]
            \/ x \in S /\ x \notin T /\ DOMAIN f[x] = {}
            \/ x \in T /\ x \notin S /\ DOMAIN g[x] = {}
      BY <3>2
    <3> HIDE DEF f, g, S, T
    <3>4. Into(f, m, S) = Into(g, m, T)
      BY <3>3, SameArcsInto
    <3> QED
      BY <3>4 DEF f, g, S, T
  <2>3. Into(arcs', n, alive') = {}
    <3>1. \A x \in alive : \A i \in DOMAIN arcs[x] : EndAt(arcs[x], i) # n
      BY <1>1, InvariantParts DEF Follows
    <3>2. Into(arcs, n, alive) = {}
      BY <3>1, IntoMembers
    <3> QED
      BY <2>2, <3>2
  <2>4. nbIn'[n] = 0 /\ \A m \in alive : nbIn'[m] = nbIn[m]
    BY <1>1, <1>2, InvariantParts
  <2>5. /\ IsFiniteSet(Into(arcs', n, alive'))
        /\ nbIn'[n] = Cardinality(Into(arcs', n, alive'))
    BY <2>3, <2>4, FS_EmptySet
  <2>6. \A m \in alive : /\ IsFiniteSet(Into(arcs', m, alive'))
                         /\ nbIn'[m] = Cardinality(Into(arcs', m, alive'))
    BY <2>2, <2>4, InvariantParts DEF Counts
  <2> QED
    BY <1>2, <2>5, <2>6 DEF InDegrees, Counts
<1> QED
  BY <1>4, <1>5, <1>6, <1>7 DEF IInv

\* What is deleted is listed nowhere, has no arcs and ends none.
LEMMA ForgottenStep ==
  ASSUME IInv, NEW n \in alive, arcs[n] = <<>>, nbIn[n] = 0, Forgotten({n}),
         nodes' \in [Layer -> Seq(Node)],
         \A k \in Layer : IsInjective(nodes'[k]) /\ ToSet(nodes'[k]) = ToSet(nodes[k]) \ {n}
  PROVE  IInv'
<1>1. /\ alive' = alive \ {n} /\ arcs' = [x \in Node |-> IF x \in {n} THEN <<>> ELSE arcs[x]]
      /\ UNCHANGED <<varIndex, nbIn, newV>> /\ n \in Node
  BY InvariantParts DEF Forgotten
<1>2. arcs' = arcs
  <2>1. arcs = [x \in Node |-> arcs[x]]
    BY InvariantParts DEF ArcLists
  <2> QED
    BY <1>1, <2>1
<1>3. Types' /\ Lists'
  BY <1>1, <1>2, InvariantParts DEF Types, Lists
<1>4. ArcsGoDown'
  <2>1. \A x, m \in alive : Follows(x, m) /\ m # n => Follows(x, m)'
    BY <1>1, InvariantParts DEF Follows
  <2>2. \A x \in alive : \A i \in DOMAIN arcs[x] :
          /\ EndAt(arcs[x], i) \in alive /\ EndAt(arcs[x], i) # n
          /\ Follows(x, EndAt(arcs[x], i))
    BY InvariantParts, NoArcIntoUnreached DEF Follows
  <2> QED
    BY <1>1, <1>2, <2>1, <2>2 DEF ArcsGoDown
<1>5. InDegrees'
  <2>1. ASSUME NEW m PROVE Into(arcs, m, alive) = Into(arcs', m, alive')
    <3>1. DOMAIN arcs[n] = {}
      OBVIOUS
    <3> DEFINE f == arcs
               g == arcs'
               S == alive
               T == alive'
    <3>2. \A x \in S \cup T :
            \/ x \in S /\ x \in T /\ f[x] = g[x]
            \/ x \in S /\ x \notin T /\ DOMAIN f[x] = {}
            \/ x \in T /\ x \notin S /\ DOMAIN g[x] = {}
      BY <1>1, <1>2, <3>1
    <3> HIDE DEF f, g, S, T
    <3>3. Into(f, m, S) = Into(g, m, T)
      BY <3>2, SameArcsInto
    <3> QED
      BY <3>3 DEF f, g, S, T
  <2>2. \A m \in alive' : nbIn'[m] = nbIn[m] /\ m \in alive
    BY <1>1
  <2> QED
    BY <2>1, <2>2, InvariantParts DEF InDegrees, Counts
<1> QED
  BY <1>3, <1>4, <1>5 DEF IInv

\* A listed node is taken out and deleted.
LEMMA DeleteNodeStep ==
  ASSUME IInv, NEW n \in Node, InMdd(n), nbIn[n] = 0, arcs[n] = <<>>, DeleteNode(n)
  PROVE  IInv'
<1>1. n \in alive /\ varIndex[n] \in Layer /\ n \in ToSet(nodes[varIndex[n]])
  BY InvariantParts DEF InMdd, Listed, ToSet
<1>2. Unlink(n) /\ Forgotten({n})
  BY DEF DeleteNode
<1>3. /\ nodes' \in [Layer -> Seq(Node)]
      /\ \A k \in Layer :
           /\ IsInjective(nodes'[k])
           /\ ToSet(nodes'[k]) = IF k = varIndex[n] THEN ToSet(nodes[k]) \ {n}
                                                   ELSE ToSet(nodes[k])
  BY <1>1, <1>2, InvariantParts, UnlinkLists
<1>4. \A k \in Layer : k # varIndex[n] => n \notin ToSet(nodes[k])
  BY InvariantParts
<1> QED
  BY <1>1, <1>2, <1>3, <1>4, ForgottenStep

\* A node taken out before is deleted.
LEMMA DisposeStep ==
  ASSUME IInv, NEW n \in alive, ~InMdd(n), nbIn[n] = 0, arcs[n] = <<>>, Dispose(n)
  PROVE  IInv'
<1>1. n \notin ToSet(nodes[varIndex[n]])
  BY DEF InMdd, Listed, ToSet
<1>2. \A k \in Layer : n \notin ToSet(nodes[k])
  BY <1>1, InvariantParts
<1>3. Forgotten({n}) /\ nodes' = nodes
  BY DEF Dispose
<1>4. /\ nodes' \in [Layer -> Seq(Node)]
      /\ \A k \in Layer : IsInjective(nodes'[k]) /\ ToSet(nodes'[k]) = ToSet(nodes[k]) \ {n}
  BY <1>2, <1>3, InvariantParts
<1> QED
  BY <1>3, <1>4, ForgottenStep

\* No node stands for another here, so clean() leaves the layers as they are.
LEMMA CleanStep ==
  ASSUME IInv, Clean
  PROVE  IInv'
<1>1. \A l \in Layer : Representatives(nodes[l]) = nodes[l]
  <2> TAKE l \in Layer
  <2> DEFINE s == nodes[l]
             kept == {i \in DOMAIN s : newV[s[i]] = s[i]}
             rank(i) == Cardinality({j \in kept : j <= i})
  <2>1. s \in Seq(Node)
    BY InvariantParts
  <2>2. kept = 1..Len(s) /\ Len(s) \in Nat
    BY <2>1, InvariantParts
  <2>3. \A i \in 1..Len(s) : rank(i) = i
    <3> SUFFICES ASSUME NEW i \in 1..Len(s)
                 PROVE  Cardinality({j \in kept : j <= i}) = i
      OBVIOUS
    <3>1. {j \in kept : j <= i} = 1..i
      BY <2>2
    <3>2. Cardinality(1..i) = i
      <4>1. 1 \in Int /\ i \in Int /\ ~(1 > i) /\ i - 1 + 1 = i
        OBVIOUS
      <4>2. Cardinality(1..i) = IF 1 > i THEN 0 ELSE i - 1 + 1
        BY <4>1, FS_Interval
      <4> HIDE DEF s
      <4> QED
        BY <4>1, <4>2
    <3> QED
      BY <3>1, <3>2
  <2>4. Cardinality(kept) = Len(s)
    <3> DEFINE n == Len(s)
    <3>1. kept = 1..n /\ n \in Nat
      BY <2>2
    <3> HIDE DEF n, kept
    <3>2. 1 \in Int /\ n \in Int
      BY <3>1
    <3>3. Cardinality(1..n) = IF 1 > n THEN 0 ELSE n - 1 + 1
      BY <3>2, FS_Interval
    <3>4. Cardinality(1..n) = n
      BY <3>1, <3>3
    <3> QED
      BY <3>1, <3>4 DEF n
  <2>5. Representatives(s) = [p \in 1..Cardinality(kept) |-> s[CHOOSE i \in kept : rank(i) = p]]
    BY DEF Representatives, Kept
  <2> HIDE DEF s, kept, rank
  <2>6. \A p \in 1..Len(s) : (CHOOSE i \in kept : rank(i) = p) = p
    BY <2>2, <2>3
  <2>7. Representatives(s) = [p \in 1..Len(s) |-> s[p]]
    BY <2>4, <2>5, <2>6
  <2>8. s = [p \in 1..Len(s) |-> s[p]]
    BY <2>1
  <2> QED
    BY <2>7, <2>8 DEF s
<1>2. nodes' = nodes
  <2>1. nodes' = [l \in Layer |-> IF l = Size THEN nodes[l] ELSE Representatives(nodes[l])]
    BY DEF Clean
  <2>2. nodes = [l \in Layer |-> nodes[l]]
    BY InvariantParts
  <2> QED
    BY <1>1, <2>1, <2>2
<1>3. UNCHANGED <<nodes, alive, varIndex, arcs, nbIn, newV>>
  BY <1>2 DEF Clean
<1> QED
  BY <1>3 DEF IInv, Types, Lists, ArcsGoDown, Follows, InDegrees

\* With every node in a layer, clear() deletes them all.
LEMMA ClearStep ==
  ASSUME IInv, \A n \in alive : InMdd(n), Clear
  PROVE  IInv'
<1> DEFINE N == UNION {Listed(l) : l \in Layer}
<1>1. /\ nodes' = [l \in Layer |-> <<>>] /\ alive' = alive \ N
      /\ arcs' = [n \in Node |-> IF n \in N THEN <<>> ELSE arcs[n]]
      /\ UNCHANGED <<varIndex, nbIn, newV>>
  BY DEF Clear, Forgotten
<1>2. alive' = {}
  <2>1. \A n \in alive : varIndex[n] \in Layer /\ n \in Listed(varIndex[n])
    BY InvariantParts DEF InMdd
  <2> QED
    BY <1>1, <2>1
<1> HIDE DEF N
<1>3. Types'
  <2>1. nodes' \in [Layer -> Seq(Node)]
    BY <1>1
  <2>2. arcs' \in ArcLists
    BY <1>1, InvariantParts DEF ArcLists
  <2> QED
    BY <1>1, <1>2, <2>1, <2>2, InvariantParts DEF Types
<1>4. Lists'
  BY <1>1 DEF Lists, IsInjective, ToSet
<1>5. ArcsGoDown' /\ InDegrees'
  BY <1>2 DEF ArcsGoDown, InDegrees, Counts
<1> QED
  BY <1>3, <1>4, <1>5 DEF IInv

\* Add finds a place in the list of arcs.
LEMMA PlaceOfRange ==
  ASSUME arcs \in ArcLists, NEW n \in Node, NEW v
  PROVE  PlaceOf(n, v) \in 1..Len(arcs[n]) + 1
<1> DEFINE I == {i \in 1..Len(arcs[n]) : ~(arcs[n][i].value < v)}
           p == SelectInSeq(arcs[n], LAMBDA a : ~(a.value < v))
<1>1. Len(arcs[n]) \in Nat /\ I \in SUBSET Nat
  BY DEF ArcLists
<1>2. p = IF I # {} THEN Min(I) ELSE 0
  BY DEF SelectInSeq
<1>3. I # {} => Min(I) \in I
  BY <1>1, Least
<1>4. p \in 1..Len(arcs[n]) \/ p = 0
  BY <1>2, <1>3
<1>5. PlaceOf(n, v) = IF p = 0 THEN Len(arcs[n]) + 1 ELSE p
  BY DEF PlaceOf
<1> HIDE DEF p
<1> QED
  BY <1>1, <1>4, <1>5

\* Every way to insert an arc is an insertion at a position of the list.
LEMMA LinkStep ==
  ASSUME IInv, NEW n \in Node, NEW m \in Node, NEW v \in Label, Link(n, v, m)
  PROVE  IInv'
<1>1. arcs \in ArcLists /\ DOMAIN arcs[n] = 1..Len(arcs[n]) /\ Len(arcs[n]) \in Nat
  BY InvariantParts DEF ArcLists
<1>2. Linkable(n, m)
  BY DEF Link
<1>3. ASSUME NEW k, NewArcAt(n, k, v, m), k \in 1..Len(arcs[n]) + 1
      PROVE  IInv'
  BY <1>2, <1>3, NewArcStep
<1>4. CASE AddArc(n, v, m)
  BY <1>1, <1>3, <1>4, PlaceOfRange DEF AddArc
<1>5. CASE AddArcLast(n, v, m)
  BY <1>1, <1>3, <1>5 DEF AddArcLast
<1>6. CASE AddArcFirst(n, v, m)
  BY <1>1, <1>3, <1>6 DEF AddArcFirst
<1>7. ASSUME NEW i \in DOMAIN arcs[n], AddArcAfter(n, v, m, i) \/ AddArcBefore(n, v, m, i)
      PROVE  IInv'
  <2>1. i \in 1..Len(arcs[n]) + 1 /\ i + 1 \in 1..Len(arcs[n]) + 1
    BY <1>1, <1>7
  <2> QED
    BY <1>3, <1>7, <2>1 DEF AddArcAfter, AddArcBefore
<1> QED
  BY <1>4, <1>5, <1>6, <1>7 DEF Link

\* BuildRootAndFinalNodes gives two nodes without arcs.
LEMMA InitIInv == Init => IInv
<1> SUFFICES ASSUME Init
             PROVE  IInv
  OBVIOUS
<1>1. PICK r, f \in Node :
        /\ r # f
        /\ nodes = [l \in Layer |-> IF l = 0 THEN <<r>> ELSE IF l = Size THEN <<f>> ELSE <<>>]
        /\ alive = {r, f}
        /\ varIndex = [n \in Node |-> IF n = f THEN Size ELSE 0]
        /\ arcs = [n \in Node |-> <<>>]
        /\ nbIn = [n \in Node |-> 0]
        /\ newV = [n \in Node |-> n]
  BY DEF Init
<1>2. 0 \in Layer /\ Size \in Layer /\ Size # 0
  BY SizeIsPositive DEF Layer
<1>3. Types
  BY <1>1, <1>2 DEF Types, ArcLists
<1>4. Lists
  <2> SUFFICES ASSUME NEW l \in Layer
               PROVE  /\ IsInjective(nodes[l])
                      /\ \A n \in ToSet(nodes[l]) : n \in alive /\ varIndex[n] = l
    BY DEF Lists
  <2>0. ASSUME NEW n \in Node
        PROVE  IsInjective(<<n>>) /\ \A m \in ToSet(<<n>>) : m = n
    <3>1. DOMAIN <<n>> = {1} /\ <<n>>[1] = n
      OBVIOUS
    <3> QED
      BY <3>1 DEF IsInjective, ToSet
  <2>1. CASE l = 0
    <3>1. nodes[l] = <<r>> /\ varIndex[r] = 0 /\ r \in alive
      BY <1>1, <1>2, <2>1
    <3> QED
      BY <2>0, <2>1, <3>1
  <2>2. CASE l = Size
    <3>1. nodes[l] = <<f>> /\ varIndex[f] = Size /\ f \in alive
      BY <1>1, <1>2, <2>2
    <3> QED
      BY <2>0, <2>2, <3>1
  <2>3. CASE l # 0 /\ l # Size
    <3>1. nodes[l] = <<>>
      BY <1>1, <2>3
    <3> QED
      BY <3>1 DEF IsInjective, ToSet
  <2> QED
    BY <2>1, <2>2, <2>3
<1>5. \A n \in Node : DOMAIN arcs[n] = {}
  <2>1. \A n \in Node : arcs[n] = <<>>
    BY <1>1
  <2>2. DOMAIN << >> = {}
    OBVIOUS
  <2> QED
    BY <2>1, <2>2
<1>6. ArcsGoDown
  BY <1>1, <1>5 DEF ArcsGoDown
<1>7. InDegrees
  <2>1. \A m : Into(arcs, m, alive) = {}
    BY <1>1, <1>5, IntoMembers
  <2> QED
    BY <1>1, <2>1, FS_EmptySet DEF InDegrees, Counts
<1> QED
  BY <1>3, <1>4, <1>6, <1>7 DEF IInv

\* Every call of the clients keeps the invariant.
LEMMA NextIInv == IInv /\ [Next]_mddVars => IInv'
<1> SUFFICES ASSUME IInv, [Next]_mddVars
             PROVE  IInv'
  OBVIOUS
<1>1. alive \in SUBSET Node
  BY InvariantParts
<1>2. ASSUME NEW n \in Node, NEW l \in 1..Size - 1, CreateNode(n, l)
      PROVE  IInv'
  BY <1>2, CreateNodeStep
<1>3. ASSUME NEW n \in Node, NEW m \in Node, Relink(n, m)
      PROVE  IInv'
  <2>1. PICK i \in DOMAIN arcs[n] : UpdateArc(n, i, m)
    BY <1>3 DEF Relink
  <2>2. Linkable(n, m)
    BY <1>3 DEF Relink
  <2> QED
    BY <2>1, <2>2, UpdateArcStep
<1>4. ASSUME NEW n \in Node, NEW m \in Node, NEW v \in Label, Link(n, v, m)
      PROVE  IInv'
  BY <1>4, LinkStep
<1>5. ASSUME NEW n \in alive, NEW i \in DOMAIN arcs[n], DeleteArc(n, i)
      PROVE  IInv'
  BY <1>5, DeleteArcStep
<1>6. ASSUME NEW n \in Node, Unreached(n), InMdd(n), arcs[n] = <<>>, DeleteNode(n)
      PROVE  IInv'
  BY <1>6, DeleteNodeStep DEF Unreached
<1>7. ASSUME NEW n \in Node, Unreached(n), InMdd(n), RemoveList(n)
      PROVE  IInv'
  BY <1>7, RemoveListStep DEF Unreached
<1>8. ASSUME NEW n \in Node, Unreached(n), ~InMdd(n), arcs[n] = <<>>, Dispose(n)
      PROVE  IInv'
  BY <1>8, DisposeStep DEF Unreached
<1>9. ASSUME NEW n \in Node, Unreached(n), ~InMdd(n), AddList(n)
      PROVE  IInv'
  BY <1>9, AddListStep DEF Unreached
<1>10. CASE Clean
  BY <1>10, CleanStep
<1>11. CASE (\A n \in alive : InMdd(n)) /\ Clear
  BY <1>11, ClearStep
<1>12. CASE UNCHANGED mddVars
  BY <1>12 DEF mddVars, IInv, Types, Lists, ArcsGoDown, Follows, InDegrees
<1> QED
  BY <1>2, <1>3, <1>4, <1>5, <1>6, <1>7, <1>8, <1>9, <1>10, <1>11, <1>12 DEF Next

-----------------------------------------------------------------------------
(***************************************************************************)
(* Whatever the clients do, the diagram stays well formed: the four        *)
(* conjuncts of IInv hold of every reachable state.                         *)
(***************************************************************************)
THEOREM WellFormed == Spec => []IInv
<1>1. Init => IInv
  BY InitIInv
<1>2. IInv /\ [Next]_mddVars => IInv'
  BY NextIInv
<1> QED
  BY <1>1, <1>2, PTL DEF Spec

\* The fields keep their types; nb_in_ never goes below 0.
THEOREM TypeCorrect == Spec => []TypeOK
<1>1. IInv => TypeOK
  <2> SUFFICES ASSUME IInv
               PROVE  TypeOK
    OBVIOUS
  <2>1. newV \in [Node -> Node \cup {Null}] /\ nbIn \in [Node -> Int]
    BY InvariantParts
  <2> QED
    BY <2>1, InvariantParts DEF TypeOK, MDDTypeOK, ArcLists
<1> QED
  BY <1>1, WellFormed, PTL

\* InDegree() is the number of arcs into the node (MDD.hpp:250).
THEOREM InDegreesAreExact == Spec => []InDegreeExact
<1>1. IInv => InDegreeExact
  <2> SUFFICES ASSUME IInv, NEW m \in alive
               PROVE  nbIn[m] = Cardinality(ArcsInto(m, alive))
    BY DEF InDegreeExact
  <2>1. nbIn[m] = Cardinality(Into(arcs, m, alive))
    BY InvariantParts DEF Counts
  <2>2. Into(arcs, m, alive) = ArcsInto(m, alive)
    BY DEF Into, ArcsInto, EndAt
  <2> QED
    BY <2>1, <2>2
<1> QED
  BY <1>1, WellFormed, PTL

\* What the clients delete is never the end of an arc of the diagram
\* (MDD.cpp:111-125, 149-156).
THEOREM NoArcDangles == Spec => []NoDanglingArc
<1>1. IInv => NoDanglingArc
  <2> SUFFICES ASSUME IInv, NEW n \in alive, NEW i \in DOMAIN arcs[n]
               PROVE  LET m == arcs[n][i].end
                      IN InMdd(m) /\ varIndex[m] = varIndex[n] + 1
    BY DEF NoDanglingArc
  <2>1. Follows(n, arcs[n][i].end)
    BY InvariantParts DEF EndAt
  <2> QED
    BY <2>1 DEF Follows, InMdd, Listed, ToSet
<1> QED
  BY <1>1, WellFormed, PTL

\* The loops over a layer meet each of its nodes, once.
THEOREM LayersAreExact == Spec => []LayersHoldTheirNodes
<1>1. IInv => LayersHoldTheirNodes
  <2> SUFFICES ASSUME IInv, NEW l \in Layer
               PROVE  /\ \A n \in Listed(l) : n \in alive /\ varIndex[n] = l
                      /\ Cardinality(Listed(l)) = Len(nodes[l])
    BY DEF LayersHoldTheirNodes
  <2> DEFINE s == nodes[l]
  <2>1. Listed(l) = ToSet(s)
    BY DEF Listed, ToSet
  <2>2. s \in Seq(Node) /\ IsInjective(s)
    BY InvariantParts
  <2>3. \A n \in ToSet(s) : n \in alive /\ varIndex[n] = l
    BY InvariantParts
  <2> HIDE DEF s
  <2>4. Cardinality(ToSet(s)) = Len(s)
    BY <2>2, InjectiveCardinality
  <2> QED
    BY <2>1, <2>3, <2>4 DEF s
<1> QED
  BY <1>1, WellFormed, PTL

-----------------------------------------------------------------------------
(***************************************************************************)
(* What contains follows, the first arc with a label, against all there is *)
(* to follow.                                                              *)
(***************************************************************************)
OneForEach(a) == \A i, j \in DOMAIN a : a[i].value = a[j].value => i = j

\* get gives the place of the first arc with a label, or 0 if there is none.
LEMMA GetFinds ==
  ASSUME NEW n \in Node, arcs[n] \in Seq(Arc), NEW v
  PROVE  \/ Get(n, v) \in 1..Len(arcs[n]) /\ arcs[n][Get(n, v)].value = v
         \/ Get(n, v) = 0 /\ \A i \in 1..Len(arcs[n]) : arcs[n][i].value # v
<1> DEFINE I == {i \in 1..Len(arcs[n]) : arcs[n][i].value = v}
<1>1. Get(n, v) = IF I # {} THEN Min(I) ELSE 0
  BY DEF Get, SelectInSeq
<1>2. I \in SUBSET Nat
  OBVIOUS
<1>3. I # {} => Min(I) \in I
  BY <1>2, Least
<1> QED
  BY <1>1, <1>3

\* Where contains gets along t from the node r.
FirstAlong(n, v) == LET a == IF n = Null THEN 0 ELSE Get(n, v)
                    IN IF a = 0 THEN Null ELSE arcs[n][a].end

FollowsFirst(f, r, t) ==
  f = [i \in 0..Size |-> IF i = 0 THEN r ELSE FirstAlong(f[i - 1], t[i])]

\* All the nodes that can be reached along t from the nodes M.
AllAlong(M, v) == UNION {{arcs[n][j].end : j \in {i \in DOMAIN arcs[n] : arcs[n][i].value = v}} : n \in M}

FollowsAll(f, N, t) ==
  f = [i \in 0..Size |-> IF i = 0 THEN N ELSE AllAlong(f[i - 1], t[i])]

LEMMA FirstIsNode ==
  ASSUME arcs \in ArcLists, NEW n \in Node \cup {Null}, NEW v
  PROVE  FirstAlong(n, v) \in Node \cup {Null}
<1>1. CASE n \in Node /\ Get(n, v) # 0 /\ n # Null
  <2>1. arcs[n] \in Seq(Arc)
    BY <1>1 DEF ArcLists
  <2>2. Get(n, v) \in 1..Len(arcs[n])
    BY <1>1, <2>1, GetFinds
  <2>3. arcs[n][Get(n, v)] \in Arc
    BY <2>1, <2>2
  <2>4. arcs[n][Get(n, v)].end \in Node
    BY <2>3 DEF Arc
  <2>5. FirstAlong(n, v) = arcs[n][Get(n, v)].end
    BY <1>1 DEF FirstAlong
  <2> QED
    BY <2>4, <2>5
<1>2. CASE ~(n \in Node /\ Get(n, v) # 0 /\ n # Null)
  BY <1>2 DEF FirstAlong
<1> QED
  BY <1>1, <1>2

LEMMA AllAreNodes ==
  ASSUME arcs \in ArcLists, NEW M \in SUBSET Node, NEW v
  PROVE  AllAlong(M, v) \in SUBSET Node
<1>1. \A n \in M : \A i \in DOMAIN arcs[n] : arcs[n][i] \in Arc
  BY DEF ArcLists
<1> QED
  BY <1>1 DEF AllAlong, Arc

\* The first arc is one of the arcs, and with one arc for each label the only one.
LEMMA FirstIsAll ==
  ASSUME arcs \in ArcLists, NEW n \in Node, NEW v
  PROVE  /\ FirstAlong(n, v) \in AllAlong({n}, v) \cup {Null}
         /\ OneForEach(arcs[n]) => AllAlong({n}, v) = {FirstAlong(n, v)} \ {Null}
<1> DEFINE g == Get(n, v)
           I == {i \in DOMAIN arcs[n] : arcs[n][i].value = v}
<1>1. arcs[n] \in Seq(Arc) /\ DOMAIN arcs[n] = 1..Len(arcs[n])
  BY DEF ArcLists
<1>2. AllAlong({n}, v) = {arcs[n][j].end : j \in I}
  BY DEF AllAlong
<1>3. n # Null
  BY NullIsNoNode
<1>4. CASE g = 0
  <2>1. I = {}
    <3>1. \A i \in 1..Len(arcs[n]) : arcs[n][i].value # v
      BY <1>1, <1>4, GetFinds
    <3> QED
      BY <1>1, <3>1
  <2>2. FirstAlong(n, v) = Null
    BY <1>4 DEF FirstAlong
  <2> QED
    BY <1>2, <2>1, <2>2
<1>5. CASE g # 0
  <2>1. g \in I
    BY <1>1, <1>5, GetFinds
  <2>2. OneForEach(arcs[n]) => \A j \in I : j = g
    BY <2>1 DEF OneForEach
  <2>3. FirstAlong(n, v) = arcs[n][g].end
    BY <1>3, <1>5 DEF FirstAlong
  <2>4. arcs[n][g] \in Arc
    BY <1>1, <2>1
  <2>5. arcs[n][g].end \in Node
    BY <2>4 DEF Arc
  <2> HIDE DEF g, I
  <2>6. OneForEach(arcs[n]) => {arcs[n][j].end : j \in I} = {arcs[n][g].end}
    BY <2>1, <2>2
  <2>7. arcs[n][g].end \in {arcs[n][j].end : j \in I}
    BY <2>1
  <2> QED
    BY <1>2, <2>3, <2>5, <2>6, <2>7, NullIsNoNode
<1> QED
  BY <1>4, <1>5

\* Both recursions are defined.
LEMMA FirstExists ==
  ASSUME arcs \in ArcLists, NEW r \in Node, NEW t
  PROVE  \E f \in [0..Size -> Node \cup {Null}] : FollowsFirst(f, r, t)
<1> DEFINE S == Node \cup {Null}
           step == [i \in 1..Size |-> [n \in S |-> FirstAlong(n, t[i])]]
<1>1. Size \in Nat /\ r \in S
  BY SizeIsPositive
<1>2. step \in [1..Size -> [S -> S]]
  BY FirstIsNode
<1>3. \A i \in 1..Size : \A n \in S : step[i][n] = FirstAlong(n, t[i])
  OBVIOUS
<1>4. \A i \in 0..Size : i # 0 => i \in 1..Size /\ i - 1 \in 0..Size
  BY <1>1
<1> HIDE DEF step, S
<1>5. PICK f : f \in [0..Size -> S] /\ Iterates(f, r, step, Size)
  BY <1>1, <1>2, RecursionExists
<1>6. \A i \in 0..Size : f[i] = IF i = 0 THEN r ELSE FirstAlong(f[i - 1], t[i])
  BY <1>3, <1>4, <1>5 DEF Iterates
<1>7. FollowsFirst(f, r, t)
  BY <1>5, <1>6 DEF FollowsFirst
<1> QED
  BY <1>5, <1>7 DEF S

LEMMA AllExists ==
  ASSUME arcs \in ArcLists, NEW N \in SUBSET Node, NEW t
  PROVE  \E f \in [0..Size -> SUBSET Node] : FollowsAll(f, N, t)
<1> DEFINE S == SUBSET Node
           step == [i \in 1..Size |-> [M \in S |-> AllAlong(M, t[i])]]
<1>1. Size \in Nat /\ N \in S
  BY SizeIsPositive
<1>2. step \in [1..Size -> [S -> S]]
  BY AllAreNodes
<1>3. \A i \in 1..Size : \A M \in S : step[i][M] = AllAlong(M, t[i])
  OBVIOUS
<1>4. \A i \in 0..Size : i # 0 => i \in 1..Size /\ i - 1 \in 0..Size
  BY <1>1
<1> HIDE DEF step, S
<1>5. PICK f : f \in [0..Size -> S] /\ Iterates(f, N, step, Size)
  BY <1>1, <1>2, RecursionExists
<1>6. \A i \in 0..Size : f[i] = IF i = 0 THEN N ELSE AllAlong(f[i - 1], t[i])
  BY <1>3, <1>4, <1>5 DEF Iterates
<1>7. FollowsAll(f, N, t)
  BY <1>5, <1>6 DEF FollowsAll
<1> QED
  BY <1>5, <1>7 DEF S

\* What contains follows can be reached, and where the labels of a node differ it is
\* all that can be.
LEMMA ReachedIsVisited ==
  ASSUME IInv, NEW r \in alive, NEW t,
         NEW f, FollowsFirst(f, r, t), NEW g, FollowsAll(g, {r}, t)
  PROVE  /\ f[Size] # Null => g[Size] # {}
         /\ LabelsDiffer /\ g[Size] # {} => f[Size] # Null
<1> DEFINE P(i) == /\ f[i] \in g[i] \cup {Null}
                   /\ g[i] \in SUBSET alive
                   /\ LabelsDiffer => g[i] = {f[i]} \ {Null}
           T == {i \in 0..Size : P(i)}
<1>1. Size \in Nat
  BY SizeIsPositive
<1>2. /\ \A i \in 0..Size : f[i] = IF i = 0 THEN r ELSE FirstAlong(f[i - 1], t[i])
      /\ \A i \in 0..Size : g[i] = IF i = 0 THEN {r} ELSE AllAlong(g[i - 1], t[i])
  BY DEF FollowsFirst, FollowsAll
<1>3. arcs \in ArcLists /\ alive \in SUBSET Node
  BY InvariantParts
<1>4. \A n \in alive : \A j \in DOMAIN arcs[n] : arcs[n][j].end \in alive
  BY InvariantParts DEF Follows, EndAt
<1>5. 0 \in T
  <2>1. P(0)
    BY <1>1, <1>2, <1>3, NullIsNoNode
  <2> HIDE DEF P
  <2> QED
    BY <1>1, <2>1
<1>6. ASSUME NEW i \in 0..Size - 1, i \in T
      PROVE  i + 1 \in T
  <2>1. i + 1 \in 0..Size /\ i + 1 # 0 /\ (i + 1) - 1 = i /\ i \in 0..Size
    BY <1>1
  <2>2. f[i + 1] = FirstAlong(f[i], t[i + 1]) /\ g[i + 1] = AllAlong(g[i], t[i + 1])
    BY <1>2, <2>1
  <2>7. P(i)
    <3> HIDE DEF P
    <3> QED
      BY <1>6
  <2>3. f[i] \in g[i] \cup {Null} /\ g[i] \in SUBSET alive
    BY <2>7
  <2>8. LabelsDiffer => g[i] = {f[i]} \ {Null}
    BY <2>7
  <2>4. g[i + 1] \in SUBSET alive
    BY <1>4, <2>2, <2>3 DEF AllAlong
  <2>5. CASE f[i] = Null
    <3>1. f[i + 1] = Null
      BY <2>2, <2>5 DEF FirstAlong
    <3>2. LabelsDiffer => g[i + 1] = {}
      BY <2>2, <2>5, <2>8 DEF AllAlong
    <3>3. P(i + 1)
      BY <2>4, <3>1, <3>2
    <3> HIDE DEF P
    <3> QED
      BY <2>1, <3>3
  <2>6. CASE f[i] # Null
    <3>1. f[i] \in g[i] /\ f[i] \in alive /\ f[i] \in Node
      BY <1>3, <2>3, <2>6
    <3>2. /\ f[i + 1] \in AllAlong({f[i]}, t[i + 1]) \cup {Null}
          /\ OneForEach(arcs[f[i]]) => AllAlong({f[i]}, t[i + 1]) = {f[i + 1]} \ {Null}
      BY <1>3, <2>2, <3>1, FirstIsAll
    <3>3. AllAlong({f[i]}, t[i + 1]) \subseteq g[i + 1]
      BY <2>2, <3>1 DEF AllAlong
    <3>4. LabelsDiffer => OneForEach(arcs[f[i]]) /\ g[i] = {f[i]}
      BY <2>6, <2>8, <3>1 DEF LabelsDiffer, OneForEach
    <3>5. LabelsDiffer => g[i + 1] = {f[i + 1]} \ {Null}
      BY <2>2, <3>2, <3>4
    <3>6. P(i + 1)
      BY <2>4, <3>2, <3>3, <3>5
    <3> HIDE DEF P
    <3> QED
      BY <2>1, <3>6
  <2> QED
    BY <2>5, <2>6
<1> HIDE DEF T
<1>7. \A i \in 0..Size : i \in T
  BY <1>1, <1>5, <1>6, UpTo
<1>8. P(Size)
  <2> HIDE DEF P
  <2> QED
    BY <1>1, <1>7 DEF T
<1> QED
  BY <1>8

LEMMA ContainsFollows ==
  ASSUME arcs \in ArcLists, NEW r \in Node, Root = r, NEW t \in [1..Size -> Label]
  PROVE  \E f : FollowsFirst(f, r, t) /\ (ContainsTuple(t) <=> f[Size] # Null)
<1>1. Size \in Nat \ {0} /\ t \in Seq(Label) /\ Len(t) = Size
  BY SizeIsPositive
<1>2. t # <<>>
  BY <1>1
<1>3. Visited(t) = CHOOSE h : FollowsFirst(h, r, t)
  BY <1>1 DEF Visited, FollowsFirst, FirstAlong
<1>4. \E h : FollowsFirst(h, r, t)
  BY FirstExists
<1>5. FollowsFirst(Visited(t), r, t)
  BY <1>3, <1>4
<1>6. ContainsTuple(t) <=> Visited(t)[Size] # Null
  BY <1>1, <1>2 DEF ContainsTuple
<1> QED
  BY <1>5, <1>6

LEMMA LanguageFollows ==
  ASSUME arcs \in ArcLists, NEW r \in Node, Root = r, varIndex[r] = 0,
         NEW t \in [1..Size -> Label]
  PROVE  \E g : FollowsAll(g, {r}, t) /\ (t \in Language <=> g[Size] # {})
<1> DEFINE G == CHOOSE h : FollowsAll(h, {r}, t)
<1>1. \E h : FollowsAll(h, {r}, t)
  BY AllExists
<1>2. FollowsAll(G, {r}, t)
  BY <1>1
<1>3. ReadFrom({r}, 0, t) = G[Size]
  BY DEF ReadFrom, FollowsAll, AllAlong
<1>4. t \in Tails(r) <=> ReadFrom({r}, 0, t) # {}
  <2>1. t \in [varIndex[r] + 1..Size -> Label]
    OBVIOUS
  <2> QED
    BY <2>1 DEF Tails
<1>5. Language = Tails(r)
  BY NullIsNoNode DEF Language
<1> HIDE DEF G
<1> QED
  BY <1>2, <1>3, <1>4, <1>5

\* contains answers for tuples of the diagram only, and for all of them where no node
\* has two arcs with one label, whatever the clients did before.
THEOREM ContainsDecides == Spec => []ContainsIsMembership
<1>1. IInv => ContainsIsMembership
  <2> SUFFICES ASSUME IInv, Root # Null, NEW t \in [1..Size -> Label]
               PROVE  /\ ContainsTuple(t) => t \in Language
                      /\ LabelsDiffer /\ t \in Language => ContainsTuple(t)
    BY DEF ContainsIsMembership
  <2> DEFINE r == Root
  <2>1. arcs \in ArcLists /\ 0 \in Layer
    BY InvariantParts, SizeIsPositive DEF Layer
  <2>2. nodes[0] # <<>> /\ r = nodes[0][1] /\ nodes[0] \in Seq(Node)
    BY <2>1, InvariantParts DEF Root
  <2>3. r \in ToSet(nodes[0])
    <3>1. Len(nodes[0]) # 0
      BY <2>2, EmptySeq
    <3> QED
      BY <2>2, <3>1 DEF ToSet
  <2>4. r \in Node /\ r \in alive /\ varIndex[r] = 0
    BY <2>1, <2>3, InvariantParts
  <2>5. PICK f : FollowsFirst(f, r, t) /\ (ContainsTuple(t) <=> f[Size] # Null)
    BY <2>1, <2>4, ContainsFollows
  <2>6. PICK g : FollowsAll(g, {r}, t) /\ (t \in Language <=> g[Size] # {})
    BY <2>1, <2>4, LanguageFollows
  <2> QED
    BY <2>4, <2>5, <2>6, ReachedIsVisited
<1> QED
  BY <1>1, InitIInv, NextIInv, PTL DEF Spec
=============================================================================
