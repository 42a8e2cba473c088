--------------------------- MODULE DblListProofs ---------------------------
(***************************************************************************)
(* For any number of lists, elements and labels, the pointer algorithms   *)
(* of DblList keep LinksRepresentOrder and SortedLists.                    *)
(*                                                                         *)
(* Every insertion assigns the pointers LinkAt describes, whatever tests  *)
(* it makes to get there (lemmas named ...Links), and LinkAt inserts into *)
(* the sequence (LinkAtRepresents).  The other operations are proved to   *)
(* preserve the representation one by one (lemmas ...Represents).          *)
(***************************************************************************)
EXTENDS DblList, SequenceLemmas

-----------------------------------------------------------------------------
\* What every insertion of e at position k of l amounts to.
LinkAt(l, e, k) ==
  /\ order' = [order EXCEPT ![l] = InsertAt(@, k, e)]
  /\ next' \in [Elem -> Pointer] /\ prev' \in [Elem -> Pointer]
  /\ \A d \in Elem :
       next'[d] = IF d = e THEN IF k <= Len(order[l]) THEN order[l][k] ELSE NULL
                  ELSE IF k > 1 /\ d = order[l][k - 1] THEN e ELSE next[d]
  /\ \A d \in Elem :
       prev'[d] = IF d = e THEN IF k > 1 THEN order[l][k - 1] ELSE NULL
                  ELSE IF k <= Len(order[l]) /\ d = order[l][k] THEN e ELSE prev[d]
  /\ first' \in [List -> Pointer] /\ last' \in [List -> Pointer]
  /\ \A m \in List :
       /\ first'[m] = IF m = l /\ k = 1 THEN e ELSE first[m]
       /\ last'[m] = IF m = l /\ k = Len(order[l]) + 1 THEN e ELSE last[m]
  /\ size' = [size EXCEPT ![l] = @ + 1]
  /\ UNCHANGED <<value, allocated, tmp>>

\* The type of everything but the cursor of Add.
ListsTypeOK ==
  /\ order \in [Place -> Seq(Elem)]
  /\ value \in [Elem -> Value]
  /\ next \in [Elem -> Pointer] /\ prev \in [Elem -> Pointer]
  /\ first \in [List -> Pointer] /\ last \in [List -> Pointer]
  /\ size \in [List -> Nat]
  /\ allocated \in Pointer /\ tmp \in Pointer

\* Whatever assigns the pointers as LinkAt says has inserted e at position k.
LEMMA LinkAtRepresents ==
  ASSUME ListsTypeOK, LinksRepresentOrder,
         NEW l \in List, NEW e \in Elem, Loose(e),
         NEW k \in 1..Len(order[l]) + 1, LinkAt(l, e, k)
  PROVE  ListsTypeOK' /\ LinksRepresentOrder'
<1> DEFINE s == order[l]
           t == InsertAt(s, k, e)
<1>1. /\ l \in Place /\ s \in Seq(Elem) /\ Len(s) \in Nat
      /\ \A i \in 1..Len(s) : s[i] \in Elem
  BY DEF ListsTypeOK, Place
<1> HIDE DEF s
<1>2. /\ t \in Seq(Elem) /\ Len(t) = Len(s) + 1
      /\ \A i \in 1..Len(s) + 1 :
           t[i] = IF i < k THEN s[i] ELSE IF i = k THEN e ELSE s[i - 1]
  <2>1. k \in 1..Len(s) + 1
    BY DEF s
  <2> QED
    BY <1>1, <2>1, InsertAtFacts
<1> HIDE DEF t
<1>k. k \in 1..Len(s) + 1
  BY DEF s
<1>t. /\ \A i \in 1..Len(s) : i < k => t[i] = s[i]
      /\ t[k] = e
      /\ \A i \in 1..Len(s) : i >= k => t[i + 1] = s[i]
      /\ \A i \in 1..Len(t) : i > k => i - 1 \in 1..Len(s) /\ t[i] = s[i - 1]
      /\ \A i \in 1..Len(t) : i < k => i \in 1..Len(s)
  BY <1>1, <1>2, <1>k
<1>l. Len(s) \in Nat /\ Len(t) = Len(s) + 1 /\ k \in Int
  BY <1>1, <1>2, <1>k
<1>v. \A i \in 1..Len(t) :
        \/ i < k /\ i \in 1..Len(s) /\ t[i] = s[i]
        \/ i = k /\ t[i] = e
        \/ i > k /\ i - 1 \in 1..Len(s) /\ t[i] = s[i - 1]
  BY <1>l, <1>k, <1>t
<1>3. /\ order'[l] = t
      /\ \A p \in Place : p # l => order'[p] = order[p]
      /\ order[l] = s
  BY <1>1, <1>2 DEF LinkAt, ListsTypeOK, s, t
<1>o. order' \in [Place -> Seq(Elem)]
  BY <1>1, <1>2 DEF LinkAt, ListsTypeOK, s, t
<1>N. \A d \in Elem :
        next'[d] = IF d = e THEN IF k <= Len(s) THEN s[k] ELSE NULL
                   ELSE IF k > 1 /\ d = s[k - 1] THEN e ELSE next[d]
  BY <1>3 DEF LinkAt
<1>P. \A d \in Elem :
        prev'[d] = IF d = e THEN IF k > 1 THEN s[k - 1] ELSE NULL
                   ELSE IF k <= Len(s) /\ d = s[k] THEN e ELSE prev[d]
  BY <1>3 DEF LinkAt
<1>4. \A p \in Place : /\ Len(order[p]) \in Nat
                       /\ \A i \in 1..Len(order[p]) :
                            order[p][i] \in Elem /\ order[p][i] # e
  BY DEF ListsTypeOK, Loose, In
<1>5. \A p, q \in Place : \A i \in 1..Len(order[p]), j \in 1..Len(order[q]) :
         order[p][i] = order[q][j] => p = q /\ i = j
  BY DEF LinksRepresentOrder, OnePlace
<1>n. \A p \in Place : \A i \in 1..Len(order[p]) :
         next[order[p][i]] = AfterIn(order[p], i)
  BY DEF LinksRepresentOrder, ForwardLinks
<1>p. \A m \in List : \A i \in 1..Len(order[m]) :
         prev[order[m][i]] = BeforeIn(order[m], i)
  BY DEF LinksRepresentOrder, BackwardLinks
<1>d. /\ \A m, n \in 1..Len(s) : s[m] = s[n] => m = n
      /\ \A m \in 1..Len(s) : s[m] # e /\ s[m] \in Elem
  BY <1>1, <1>4, <1>5 DEF s
<1>6. ListsTypeOK'
  BY <1>1, <1>o, <1>k, <1>3 DEF LinkAt, ListsTypeOK, Pointer
<1>7. OnePlace'
  <2> SUFFICES ASSUME NEW p \in Place, NEW q \in Place,
                      NEW i \in 1..Len(order'[p]), NEW j \in 1..Len(order'[q]),
                      order'[p][i] = order'[q][j]
               PROVE  p = q /\ i = j
    BY DEF OnePlace
  <2>1. CASE p # l /\ q # l
    BY <2>1, <1>3, <1>5
  <2>2. \A r \in Place : r # l =>
          \A m \in 1..Len(t), n \in 1..Len(order[r]) : t[m] # order[r][n]
    <3> SUFFICES ASSUME NEW r \in Place, r # l, NEW m \in 1..Len(t),
                        NEW n \in 1..Len(order[r]), t[m] = order[r][n]
                 PROVE  FALSE
      OBVIOUS
    <3>1. order[r][n] # e
      BY <1>4
    <3>2. \A i1 \in 1..Len(s) : s[i1] # order[r][n]
      BY <1>1, <1>3, <1>5
    <3> QED
      BY <3>1, <3>2, <1>v
  <2>3. CASE p = l /\ q # l
    BY <2>2, <2>3, <1>3
  <2>4. CASE p # l /\ q = l
    BY <2>2, <2>4, <1>3
  <2>5. CASE p = l /\ q = l
    <3>1. i \in 1..Len(t) /\ j \in 1..Len(t) /\ t[i] = t[j]
      BY <2>5, <1>3
    <3>2. CASE i = k \/ j = k
      <4>1. ASSUME NEW m \in 1..Len(t)
            PROVE  t[m] = e <=> m = k
        <5>1. CASE m = k
          BY <5>1, <1>t
        <5>2. CASE m # k
          <6>1. t[m] \in {s[n] : n \in 1..Len(s)}
            BY <5>2, <1>v
          <6> QED
            BY <5>2, <6>1, <1>d
        <5> QED
          BY <5>1, <5>2
      <4> QED
        BY <2>5, <3>1, <3>2, <4>1
    <3>3. CASE i # k /\ j # k
      <4> DEFINE a == IF i < k THEN i ELSE i - 1
                 b == IF j < k THEN j ELSE j - 1
      <4>1. a \in 1..Len(s) /\ b \in 1..Len(s) /\ s[a] = s[b]
        BY <3>1, <3>3, <1>v
      <4>2. a = b
        BY <4>1, <1>d
      <4> QED
        BY <2>5, <3>1, <3>3, <4>2, <1>l
    <3> QED
      BY <3>2, <3>3
  <2> QED
    BY <2>1, <2>3, <2>4, <2>5
<1>8. ForwardLinks'
  <2> SUFFICES ASSUME NEW p \in Place, NEW i \in 1..Len(order'[p])
               PROVE  next'[order'[p][i]] = AfterIn(order'[p], i)
    BY DEF ForwardLinks, AfterIn
  <2>1. CASE p # l
    <3>1. order'[p] = order[p] /\ i \in 1..Len(order[p])
      BY <2>1, <1>3
    <3>2. /\ order[p][i] \in Elem /\ order[p][i] # e
          /\ \A n \in 1..Len(s) : order[p][i] # s[n]
      BY <2>1, <3>1, <1>1, <1>3, <1>4, <1>5
    <3>3. next'[order[p][i]] = next[order[p][i]]
      BY <3>2, <1>3, <1>k, <1>l, <1>N
    <3> QED
      BY <3>1, <3>3, <1>n DEF AfterIn
  <2>2. CASE p = l
    <3>1. \A n \in 1..Len(s) : next[s[n]] = AfterIn(s, n)
      BY <1>1, <1>3, <1>n
    <3>2. CASE i < k
      <4>1. i \in 1..Len(s) /\ t[i] = s[i] /\ i + 1 <= Len(t)
        BY <3>2, <2>2, <1>1, <1>2, <1>3, <1>k, <1>t
      <4>2. next'[s[i]] = IF i = k - 1 THEN e ELSE next[s[i]]
        BY <4>1, <1>1, <1>3, <1>d, <1>k, <3>2, <1>N
      <4>3. t[i + 1] = IF i = k - 1 THEN e ELSE s[i + 1]
        <5>1. i + 1 \in 1..Len(t) /\ i + 1 <= k
          BY <3>2, <4>1, <1>l, <1>k
        <5> QED
          BY <5>1, <4>1, <1>l, <1>v
      <4> QED
        BY <2>2, <3>1, <3>2, <4>1, <4>2, <4>3, <1>1, <1>2, <1>3, <1>k DEF AfterIn
    <3>3. CASE i = k
      BY <2>2, <3>3, <1>1, <1>2, <1>3, <1>k, <1>t, <1>N DEF AfterIn
    <3>4. CASE i > k
      <4>1. i - 1 \in 1..Len(s) /\ i - 1 >= k /\ t[i] = s[i - 1]
        BY <3>4, <2>2, <1>1, <1>2, <1>3, <1>k, <1>t
      <4>2. \A n \in 1..Len(s) : s[n] = s[i - 1] => n = i - 1
        BY <4>1, <1>d
      <4>3. next'[s[i - 1]] = next[s[i - 1]]
        <5>1. k > 1 => s[k - 1] # s[i - 1]
          BY <4>1, <4>2, <1>k, <1>l
        <5> QED
          BY <4>1, <5>1, <1>d, <1>N
      <4>4. i < Len(t) => t[i + 1] = s[i]
        BY <3>4, <4>1, <1>l, <1>k, <1>t
      <4>5. i \in 1..Len(t) /\ order'[p] = t
        BY <2>2, <1>3
      <4>6. AfterIn(t, i) = AfterIn(s, i - 1)
        BY <4>4, <4>5, <1>l DEF AfterIn
      <4> QED
        BY <3>1, <4>1, <4>3, <4>5, <4>6 DEF AfterIn
    <3> QED
      BY <3>2, <3>3, <3>4, <1>2, <1>3, <1>k, <2>2
  <2> QED
    BY <2>1, <2>2
<1>9. BackwardLinks'
  <2> SUFFICES ASSUME NEW m \in List, NEW i \in 1..Len(order'[m])
               PROVE  prev'[order'[m][i]] = BeforeIn(order'[m], i)
    BY DEF BackwardLinks, BeforeIn
  <2>1. m \in Place
    BY DEF Place
  <2>2. CASE m # l
    <3>1. order'[m] = order[m] /\ i \in 1..Len(order[m])
      BY <2>1, <2>2, <1>3
    <3>2. /\ order[m][i] \in Elem /\ order[m][i] # e
          /\ \A n \in 1..Len(s) : order[m][i] # s[n]
      BY <2>1, <2>2, <3>1, <1>1, <1>3, <1>4, <1>5
    <3>3. prev'[order[m][i]] = prev[order[m][i]]
      BY <3>2, <1>k, <1>l, <1>P
    <3> QED
      BY <3>1, <3>3, <1>p DEF BeforeIn
  <2>3. CASE m = l
    <3>1. \A n \in 1..Len(s) : prev[s[n]] = BeforeIn(s, n)
      BY <1>1, <1>3, <1>p
    <3>2. CASE i < k
      <4>1. i \in 1..Len(s) /\ t[i] = s[i]
        BY <3>2, <2>3, <1>1, <1>2, <1>3, <1>k, <1>t
      <4>2. \A n \in 1..Len(s) : s[n] = s[i] => n = i
        BY <4>1, <1>d
      <4>3. prev'[s[i]] = prev[s[i]]
        BY <3>2, <4>1, <4>2, <1>1, <1>3, <1>d, <1>k, <1>P
      <4>4. i > 1 => t[i - 1] = s[i - 1]
        BY <3>2, <4>1, <1>l, <1>k, <1>t
      <4> QED
        BY <2>3, <3>1, <4>1, <4>3, <4>4, <1>1, <1>2, <1>3 DEF BeforeIn
    <3>3. CASE i = k
      <4>1. t[i] = e /\ (i > 1 => t[i - 1] = s[i - 1])
        BY <3>3, <1>l, <1>k, <1>t
      <4>2. prev'[e] = IF k > 1 THEN s[k - 1] ELSE NULL
        BY <1>3, <1>P
      <4> QED
        BY <2>3, <3>3, <4>1, <4>2, <1>3, <1>l, <1>k DEF BeforeIn
    <3>4. CASE i > k
      <4>1. i - 1 \in 1..Len(s) /\ i - 1 >= k /\ t[i] = s[i - 1]
        BY <3>4, <2>3, <1>1, <1>2, <1>3, <1>k, <1>t
      <4>2. \A n \in 1..Len(s) : s[n] = s[i - 1] => n = i - 1
        BY <4>1, <1>d
      <4>3. prev'[s[i - 1]] = IF i - 1 = k THEN e ELSE prev[s[i - 1]]
        BY <3>4, <4>1, <4>2, <1>1, <1>3, <1>d, <1>k, <1>P
      <4>4. t[i - 1] = IF i - 1 = k THEN e ELSE s[i - 2]
        BY <3>4, <4>1, <1>l, <1>k, <1>t
      <4>5. i \in 1..Len(t) /\ order'[m] = t
        BY <2>3, <1>3
      <4>6. i # 1 /\ (i - 1 = k \/ i - 1 # 1)
        BY <3>4, <4>1, <4>5, <1>l, <1>k
      <4>7. BeforeIn(t, i) = IF i - 1 = k THEN e ELSE BeforeIn(s, i - 1)
        BY <4>4, <4>6, <4>5, <1>l DEF BeforeIn
      <4> QED
        BY <3>1, <4>1, <4>3, <4>5, <4>7 DEF BeforeIn
    <3> QED
      BY <3>2, <3>3, <3>4, <1>2, <1>3, <1>k, <2>3
  <2> QED
    BY <2>2, <2>3
<1>10. Ends'
  BY <1>1, <1>2, <1>3, PlacesDistinct
     DEF LinkAt, Ends, FirstOf, LastOf, LinksRepresentOrder, ListsTypeOK, Place
<1>11. LooseIsUnlinked'
  <2> SUFFICES ASSUME NEW d \in Elem, Loose(d)'
               PROVE  Unlinked(d)'
    BY DEF LooseIsUnlinked
  <2>1. /\ \A p \in Place : \A i \in 1..Len(order'[p]) : order'[p][i] # d
    BY DEF Loose, In
  <2>2. d # e
    BY <2>1, <1>1, <1>2, <1>3
  <2>3. \A i \in 1..Len(s) : s[i] # d
    <3>1. \A i \in 1..Len(s) : IF i < k THEN i \in 1..Len(t) /\ t[i] = s[i]
                               ELSE i + 1 \in 1..Len(t) /\ t[i + 1] = s[i]
      BY <1>1, <1>2, <1>k, <1>t
    <3> QED
      BY <3>1, <2>1, <1>1, <1>3
  <2>4. Loose(d)
    BY <2>1, <2>3, <1>3 DEF Loose, In
  <2> QED
    BY <2>2, <2>3, <2>4, <1>1, <1>3, <1>k
       DEF LinkAt, LinksRepresentOrder, LooseIsUnlinked, Unlinked
<1> QED
  BY <1>6, <1>7, <1>8, <1>9, <1>10, <1>11 DEF LinksRepresentOrder

\* DblListElement::RemoveList relinks the neighbours of e past it.
LEMMA RemoveRepresents ==
  ASSUME ListsTypeOK, LinksRepresentOrder,
         NEW l \in List, NEW e \in Elem, RemoveElem(l, e)
  PROVE  ListsTypeOK' /\ LinksRepresentOrder'
<1> DEFINE s == order[l]
           k == IndexOf(s, e)
           t == RemoveAt(s, k)
<1>1. /\ l \in Place /\ s \in Seq(Elem) /\ Len(s) \in Nat
      /\ \A i \in 1..Len(s) : s[i] \in Elem
  BY DEF ListsTypeOK, Place
<1>k. k \in 1..Len(s) /\ s[k] = e
  BY DEF RemoveElem, TakeOut, In, IndexOf
<1> HIDE DEF k
<1>2. /\ t \in Seq(Elem) /\ Len(t) = Len(s) - 1
      /\ \A i \in 1..Len(s) - 1 : t[i] = IF i < k THEN s[i] ELSE s[i + 1]
  <2> HIDE DEF s
  <2> QED
    BY <1>1, <1>k, RemoveAtFacts
<1> HIDE DEF t
<1>3. /\ order'[l] = t
      /\ \A p \in Place : p # l => order'[p] = order[p]
      /\ order[l] = s
  BY <1>1 DEF RemoveElem, TakeOut, ListsTypeOK, k, t
<1>o. order' \in [Place -> Seq(Elem)]
  BY <1>1, <1>2 DEF RemoveElem, TakeOut, ListsTypeOK, k, t
<1> HIDE DEF s
<1>l. Len(s) \in Nat /\ Len(t) = Len(s) - 1 /\ k \in Int
  BY <1>1, <1>2, <1>k
<1>v. \A i \in 1..Len(t) :
        \/ i < k /\ i \in 1..Len(s) /\ t[i] = s[i]
        \/ i >= k /\ i + 1 \in 1..Len(s) /\ t[i] = s[i + 1]
  BY <1>l, <1>k, <1>2
<1>4. \A p \in Place : /\ Len(order[p]) \in Nat
                       /\ \A i \in 1..Len(order[p]) : order[p][i] \in Elem
  BY DEF ListsTypeOK
<1>5. \A p, q \in Place : \A i \in 1..Len(order[p]), j \in 1..Len(order[q]) :
         order[p][i] = order[q][j] => p = q /\ i = j
  BY DEF LinksRepresentOrder, OnePlace
<1>n. \A p \in Place : \A i \in 1..Len(order[p]) :
         next[order[p][i]] = AfterIn(order[p], i)
  BY DEF LinksRepresentOrder, ForwardLinks
<1>p. \A m \in List : \A i \in 1..Len(order[m]) :
         prev[order[m][i]] = BeforeIn(order[m], i)
  BY DEF LinksRepresentOrder, BackwardLinks
<1>d. \A m, n \in 1..Len(s) : s[m] = s[n] => m = n
  BY <1>1, <1>3, <1>5
<1>e. next[e] = AfterIn(s, k) /\ prev[e] = BeforeIn(s, k)
  BY <1>k, <1>1, <1>3, <1>n, <1>p
<1>w. /\ \A d \in Elem : next'[d] = IF d = e THEN NULL
                          ELSE IF d = prev[e] THEN next[e] ELSE next[d]
      /\ \A d \in Elem : prev'[d] = IF d = e THEN NULL
                          ELSE IF d = next[e] THEN prev[e] ELSE prev[d]
  BY DEF RemoveElem
<1>0. \A d \in Elem : d # NULL
  BY ChunkSize DEF Elem, NULL
\* What another list holds is not touched.
<1>x. \A p \in Place : p # l => \A i \in 1..Len(order[p]) :
         /\ next'[order[p][i]] = next[order[p][i]]
         /\ prev'[order[p][i]] = prev[order[p][i]]
  <2> SUFFICES ASSUME NEW p \in Place, p # l, NEW i \in 1..Len(order[p])
               PROVE  /\ next'[order[p][i]] = next[order[p][i]]
                      /\ prev'[order[p][i]] = prev[order[p][i]]
    OBVIOUS
  <2>1. order[p][i] \in Elem /\ \A n \in 1..Len(s) : order[p][i] # s[n]
    BY <1>1, <1>3, <1>4, <1>5
  <2>2. /\ k # Len(s) => k + 1 \in 1..Len(s)
        /\ k # 1 => k - 1 \in 1..Len(s)
    BY <1>k, <1>l
  <2>3. order[p][i] # e /\ order[p][i] # next[e] /\ order[p][i] # prev[e]
    BY <2>1, <2>2, <1>0, <1>e, <1>k DEF AfterIn, BeforeIn
  <2> QED
    BY <2>1, <2>3, <1>w
<1>6. ListsTypeOK'
  <2>1. size[l] \in Nat \ {0}
    BY <1>3, <1>k, <1>l DEF LinksRepresentOrder, Ends
  <2>2. size' \in [List -> Nat]
    BY <2>1 DEF RemoveElem, ListsTypeOK
  <2>3. /\ next' \in [Elem -> Pointer] /\ prev' \in [Elem -> Pointer]
        /\ first' \in [List -> Pointer] /\ last' \in [List -> Pointer]
    BY DEF RemoveElem, ListsTypeOK, Pointer
  <2> QED
    BY <1>o, <2>2, <2>3 DEF RemoveElem, TakeOut, ListsTypeOK, cursors
<1>7. OnePlace'
  <2> SUFFICES ASSUME NEW p \in Place, NEW q \in Place,
                      NEW i \in 1..Len(order'[p]), NEW j \in 1..Len(order'[q]),
                      order'[p][i] = order'[q][j]
               PROVE  p = q /\ i = j
    BY DEF OnePlace
  <2>1. CASE p # l /\ q # l
    BY <2>1, <1>3, <1>5
  <2>2. \A r \in Place : r # l =>
          \A m \in 1..Len(t), n \in 1..Len(order[r]) : t[m] # order[r][n]
    <3> SUFFICES ASSUME NEW r \in Place, r # l, NEW m \in 1..Len(t),
                        NEW n \in 1..Len(order[r]), t[m] = order[r][n]
                 PROVE  FALSE
      OBVIOUS
    <3>1. \A i1 \in 1..Len(s) : s[i1] # order[r][n]
      BY <1>1, <1>3, <1>5
    <3> QED
      BY <3>1, <1>v
  <2>3. CASE p = l /\ q # l
    BY <2>2, <2>3, <1>3
  <2>4. CASE p # l /\ q = l
    BY <2>2, <2>4, <1>3
  <2>5. CASE p = l /\ q = l
    <3> DEFINE a == IF i < k THEN i ELSE i + 1
               b == IF j < k THEN j ELSE j + 1
    <3>1. i \in 1..Len(t) /\ j \in 1..Len(t) /\ t[i] = t[j]
      BY <2>5, <1>3
    <3>2. a \in 1..Len(s) /\ b \in 1..Len(s) /\ s[a] = s[b]
      BY <3>1, <1>l, <1>v
    <3>3. a = b
      BY <3>2, <1>d
    <3> QED
      BY <2>5, <3>1, <3>3, <1>l
  <2> QED
    BY <2>1, <2>3, <2>4, <2>5
<1>8. ForwardLinks'
  <2> SUFFICES ASSUME NEW p \in Place, NEW i \in 1..Len(order'[p])
               PROVE  next'[order'[p][i]] = AfterIn(order'[p], i)
    BY DEF ForwardLinks, AfterIn
  <2>1. CASE p # l
    BY <2>1, <1>3, <1>n, <1>x DEF AfterIn
  <2>2. CASE p = l
    <3>0. i \in 1..Len(t)
      BY <2>2, <1>3
    <3>1. CASE i < k - 1
      <4>1. /\ i \in 1..Len(s) /\ t[i] = s[i] /\ i # k /\ i + 1 <= Len(t)
            /\ t[i + 1] = s[i + 1] /\ s[i] \in Elem
        BY <3>0, <3>1, <1>1, <1>2, <1>l, <1>k, SMTT(30)
      <4>2. s[i] # e /\ s[i] # prev[e]
        BY <3>1, <4>1, <1>0, <1>d, <1>e, <1>k, <1>l DEF BeforeIn
      <4>3. next[s[i]] = AfterIn(s, i)
        BY <1>1, <1>3, <1>n, <4>1
      <4>4. AfterIn(s, i) = s[i + 1] /\ AfterIn(t, i) = t[i + 1]
        BY <3>1, <4>1, <1>l, <1>k DEF AfterIn
      <4>5. next'[s[i]] = next[s[i]]
        BY <1>w, <4>1, <4>2
      <4> QED
        BY <1>3, <2>2, <4>1, <4>3, <4>4, <4>5
    <3>2. CASE i = k - 1
      <4>1. /\ i \in 1..Len(s) /\ t[i] = s[i] /\ i # k /\ s[i] \in Elem
            /\ i < Len(t) => t[i + 1] = s[k + 1]
        BY <3>0, <3>2, <1>1, <1>2, <1>l, <1>k
      <4>2. s[i] # e /\ s[i] = prev[e]
        BY <3>2, <4>1, <1>d, <1>e, <1>k, <1>l DEF BeforeIn
      <4> QED
        BY <2>2, <3>2, <4>1, <4>2, <1>3, <1>l, <1>k, <1>e, <1>w DEF AfterIn
    <3>3. CASE i >= k
      <4>1. /\ i + 1 \in 1..Len(s) /\ t[i] = s[i + 1] /\ s[i + 1] \in Elem
            /\ i < Len(t) => t[i + 1] = s[i + 2]
        BY <3>0, <3>3, <1>1, <1>2, <1>l, <1>k
      <4>2. s[i + 1] # e /\ s[i + 1] # prev[e]
        BY <3>3, <4>1, <1>0, <1>d, <1>e, <1>k, <1>l DEF BeforeIn
      <4>3. next[s[i + 1]] = AfterIn(s, i + 1)
        BY <4>1, <1>1, <1>3, <1>n
      <4> QED
        BY <2>2, <3>3, <4>1, <4>2, <4>3, <1>3, <1>l, <1>w DEF AfterIn
    <3> QED
      BY <3>0, <3>1, <3>2, <3>3, <1>l
  <2> QED
    BY <2>1, <2>2
<1>9. BackwardLinks'
  <2> SUFFICES ASSUME NEW m \in List, NEW i \in 1..Len(order'[m])
               PROVE  prev'[order'[m][i]] = BeforeIn(order'[m], i)
    BY DEF BackwardLinks, BeforeIn
  <2>1. m \in Place
    BY DEF Place
  <2>2. CASE m # l
    BY <2>1, <2>2, <1>3, <1>p, <1>x DEF BeforeIn
  <2>3. CASE m = l
    <3>0. i \in 1..Len(t)
      BY <2>3, <1>3
    <3>1. CASE i < k
      <4>1. /\ i \in 1..Len(s) /\ t[i] = s[i] /\ s[i] \in Elem
            /\ i > 1 => t[i - 1] = s[i - 1]
        BY <3>0, <3>1, <1>1, <1>2, <1>l, <1>k, SMTT(30)
      <4>2. s[i] # e /\ s[i] # next[e]
        BY <3>1, <4>1, <1>0, <1>d, <1>e, <1>k, <1>l DEF AfterIn
      <4>3. prev[s[i]] = BeforeIn(s, i)
        BY <4>1, <1>3, <1>p
      <4> QED
        BY <2>3, <4>1, <4>2, <4>3, <1>3, <1>l, <1>w DEF BeforeIn
    <3>2. CASE i = k
      <4>1. /\ i + 1 \in 1..Len(s) /\ t[i] = s[i + 1] /\ s[i + 1] \in Elem
            /\ i > 1 => t[i - 1] = s[i - 1]
        BY <3>0, <3>2, <1>1, <1>2, <1>l, <1>k
      <4>2. s[i + 1] # e /\ s[i + 1] = next[e]
        BY <3>2, <4>1, <1>d, <1>e, <1>k, <1>l DEF AfterIn
      <4> QED
        BY <2>3, <3>2, <4>1, <4>2, <1>3, <1>l, <1>e, <1>w DEF BeforeIn
    <3>3. CASE i > k
      <4>1. /\ i + 1 \in 1..Len(s) /\ t[i] = s[i + 1] /\ s[i + 1] \in Elem
            /\ t[i - 1] = s[i]
        BY <3>0, <3>3, <1>1, <1>2, <1>l, <1>k
      <4>2. s[i + 1] # e /\ s[i + 1] # next[e]
        BY <3>3, <4>1, <1>0, <1>d, <1>e, <1>k, <1>l, SMTT(30) DEF AfterIn
      <4>3. prev[s[i + 1]] = BeforeIn(s, i + 1)
        BY <4>1, <1>3, <1>p
      <4> QED
        BY <2>3, <3>3, <4>1, <4>2, <4>3, <1>3, <1>k, <1>l, <1>w DEF BeforeIn
    <3> QED
      BY <3>0, <3>1, <3>2, <3>3, <1>l
  <2> QED
    BY <2>2, <2>3
<1>10. Ends'
  <2>1. /\ first[l] = FirstOf(s) /\ last[l] = LastOf(s) /\ size[l] = Len(s)
    BY <1>3 DEF LinksRepresentOrder, Ends
  <2>2. next[e] = NULL <=> k = Len(s)
    BY <1>0, <1>1, <1>e, <1>k, <1>l DEF AfterIn
  <2>3. prev[e] = NULL <=> k = 1
    BY <1>0, <1>1, <1>e, <1>k, <1>l DEF BeforeIn
  <2>4. first'[l] = FirstOf(t)
    BY <2>1, <2>3, <1>2, <1>e, <1>k, <1>l, SMTT(30)
       DEF RemoveElem, FirstOf, AfterIn, ListsTypeOK
  <2>5. last'[l] = LastOf(t)
    BY <2>1, <2>2, <1>2, <1>e, <1>k, <1>l
       DEF RemoveElem, LastOf, BeforeIn, ListsTypeOK
  <2>6. size'[l] = Len(t)
    BY <2>1, <1>l DEF RemoveElem, ListsTypeOK
  <2>7. \A m \in List : m # l => /\ first'[m] = first[m]
                                /\ last'[m] = last[m] /\ size'[m] = size[m]
    BY DEF RemoveElem, ListsTypeOK
  <2> QED
    BY <2>4, <2>5, <2>6, <2>7, <1>3, PlacesDistinct
       DEF Ends, LinksRepresentOrder, Place, RemoveElem, cursors, FirstOf, LastOf
<1>11. LooseIsUnlinked'
  <2> SUFFICES ASSUME NEW d \in Elem, Loose(d)'
               PROVE  Unlinked(d)'
    BY DEF LooseIsUnlinked
  <2>1. CASE d = e
    BY <2>1, <1>w DEF Unlinked
  <2>2. CASE d # e
    <3>1. \A p \in Place : \A i \in 1..Len(order'[p]) : order'[p][i] # d
      BY DEF Loose, In
    <3>2. \A i \in 1..Len(s) : s[i] # d
      <4>1. \A i \in 1..Len(s) :
              \/ i = k
              \/ i < k /\ i \in 1..Len(t) /\ t[i] = s[i]
              \/ i > k /\ i - 1 \in 1..Len(t) /\ t[i - 1] = s[i]
        BY <1>2, <1>k, <1>l
      <4>2. \A j \in 1..Len(t) : t[j] # d
        BY <3>1, <1>1, <1>3
      <4>3. s[k] # d
        BY <2>2, <1>k
      <4> QED
        BY <4>1, <4>2, <4>3
    <3>3. Loose(d)
      BY <3>1, <3>2, <1>3 DEF Loose, In
    <3>4. d # next[e] /\ d # prev[e]
      BY <3>2, <1>0, <1>e, <1>k, <1>l DEF AfterIn, BeforeIn
    <3> QED
      BY <2>2, <3>3, <3>4, <1>w
         DEF LinksRepresentOrder, LooseIsUnlinked, Unlinked
  <2> QED
    BY <2>1, <2>2
<1> QED
  BY <1>6, <1>7, <1>8, <1>9, <1>10, <1>11 DEF LinksRepresentOrder
-----------------------------------------------------------------------------
\* The pointers of the elements next to a position of a list.
LEMMA Neighbours ==
  ASSUME ListsTypeOK, LinksRepresentOrder, NEW l \in List
  PROVE  /\ Len(order[l]) \in Nat /\ size[l] = Len(order[l])
         /\ first[l] = FirstOf(order[l]) /\ last[l] = LastOf(order[l])
         /\ \A i \in 1..Len(order[l]) :
              /\ order[l][i] \in Elem /\ order[l][i] # NULL
              /\ next[order[l][i]] = AfterIn(order[l], i)
              /\ prev[order[l][i]] = BeforeIn(order[l], i)
              /\ \A e \in Elem : Loose(e) => order[l][i] # e
         /\ \A i, j \in 1..Len(order[l]) : order[l][i] = order[l][j] => i = j
         /\ \A e \in Elem : Loose(e) => next[e] = NULL /\ prev[e] = NULL
<1>1. l \in Place
  BY DEF Place
<1>2. order[l] \in Seq(Elem)
  BY <1>1 DEF ListsTypeOK
<1>3. \A e \in Elem : e # NULL
  BY ChunkSize DEF Elem, NULL
<1>4. \A i \in 1..Len(order[l]) : order[l][i] \in Elem /\ order[l][i] # NULL
  BY <1>2, <1>3
<1>5. Len(order[l]) \in Nat
  BY <1>2
<1>6. \A i \in 1..Len(order[l]) : \A e \in Elem : Loose(e) => order[l][i] # e
  BY <1>1 DEF Loose, In
<1> QED
  BY <1>1, <1>4, <1>5, <1>6
     DEF LinksRepresentOrder, OnePlace, ForwardLinks, BackwardLinks, Ends,
         LooseIsUnlinked, Unlinked

\* DblList::AddFirst inserts at position 1.
LEMMA AddFirstLinks ==
  ASSUME ListsTypeOK, LinksRepresentOrder, NEW l \in List, NEW e \in Elem,
         AddFirst(l, e)
  PROVE  Loose(e) /\ 1 \in 1..Len(order[l]) + 1 /\ LinkAt(l, e, 1)
<1>1. Loose(e)
  BY DEF AddFirst, PushFirst
<1>2. 1 \in 1..Len(order[l]) + 1
  BY Neighbours
<1>3. /\ size[l] = 0 <=> Len(order[l]) = 0
      /\ first[l] = IF Len(order[l]) = 0 THEN NULL ELSE order[l][1]
      /\ next[e] = NULL /\ prev[e] = NULL
      /\ Len(order[l]) # 0 => order[l][1] \in Elem /\ order[l][1] # e
      /\ Len(order[l]) \in Nat
  BY <1>1, Neighbours DEF FirstOf
<1>t. next' \in [Elem -> Pointer] /\ prev' \in [Elem -> Pointer]
  BY <1>3 DEF Pointer, AddFirst, ListsTypeOK
<1>n. \A d \in Elem : next'[d] =
          IF d = e THEN IF 1 <= Len(order[l]) THEN order[l][1] ELSE NULL
          ELSE IF 1 > 1 /\ d = order[l][1 - 1] THEN e ELSE next[d]
  BY <1>3 DEF AddFirst, ListsTypeOK
<1>p. \A d \in Elem : prev'[d] =
          IF d = e THEN IF 1 > 1 THEN order[l][1 - 1] ELSE NULL
          ELSE IF 1 <= Len(order[l]) /\ d = order[l][1] THEN e ELSE prev[d]
  BY <1>3 DEF AddFirst, ListsTypeOK
<1>f. /\ first' \in [List -> Pointer] /\ last' \in [List -> Pointer]
      /\ \A m \in List :
           /\ first'[m] = IF m = l /\ 1 = 1 THEN e ELSE first[m]
           /\ last'[m] = IF m = l /\ 1 = Len(order[l]) + 1 THEN e ELSE last[m]
  BY <1>3 DEF Pointer, AddFirst, ListsTypeOK
<1> QED
  BY <1>1, <1>2, <1>t, <1>n, <1>p, <1>f DEF AddFirst, PushFirst, LinkAt, cursors

\* DblList::AddLast inserts behind the last position.
LEMMA AddLastLinks ==
  ASSUME ListsTypeOK, LinksRepresentOrder, NEW l \in List, NEW e \in Elem,
         AddLast(l, e)
  PROVE  LET k == Len(order[l]) + 1
         IN  Loose(e) /\ k \in 1..Len(order[l]) + 1 /\ LinkAt(l, e, k)
<1> DEFINE n == Len(order[l])
<1>1. Loose(e)
  BY DEF AddLast, PushLast
<1>2. n + 1 \in 1..n + 1
  BY Neighbours
<1>3. /\ size[l] = 0 <=> n = 0
      /\ last[l] = IF n = 0 THEN NULL ELSE order[l][n]
      /\ next[e] = NULL /\ prev[e] = NULL
      /\ n # 0 => order[l][n] \in Elem /\ order[l][n] # e
      /\ n \in Nat
  BY <1>1, Neighbours DEF LastOf
<1>4. order' = [order EXCEPT ![l] = InsertAt(@, n + 1, e)]
  BY DEF AddLast, PushLast
<1> HIDE DEF n
<1>t. next' \in [Elem -> Pointer] /\ prev' \in [Elem -> Pointer]
  BY <1>3 DEF Pointer, AddLast, ListsTypeOK, n
<1>n. \A d \in Elem : next'[d] =
          IF d = e THEN IF (n + 1) <= Len(order[l]) THEN order[l][(n + 1)] ELSE NULL
          ELSE IF (n + 1) > 1 /\ d = order[l][(n + 1) - 1] THEN e ELSE next[d]
  BY <1>3 DEF AddLast, ListsTypeOK, n
<1>p. \A d \in Elem : prev'[d] =
          IF d = e THEN IF (n + 1) > 1 THEN order[l][(n + 1) - 1] ELSE NULL
          ELSE IF (n + 1) <= Len(order[l]) /\ d = order[l][(n + 1)] THEN e ELSE prev[d]
  BY <1>3 DEF AddLast, ListsTypeOK, n
<1>f. /\ first' \in [List -> Pointer] /\ last' \in [List -> Pointer]
      /\ \A m \in List :
           /\ first'[m] = IF m = l /\ (n + 1) = 1 THEN e ELSE first[m]
           /\ last'[m] = IF m = l /\ (n + 1) = Len(order[l]) + 1 THEN e ELSE last[m]
  BY <1>3 DEF Pointer, AddLast, ListsTypeOK, n
<1>5. LinkAt(l, e, n + 1)
  BY <1>4, <1>t, <1>n, <1>p, <1>f DEF AddLast, PushLast, LinkAt, cursors
<1> QED
  BY <1>1, <1>2, <1>5 DEF n

\* DblList::AddAfter inserts behind f, at the end of the list or inside it.
LEMMA AddAfterLinks ==
  ASSUME ListsTypeOK, LinksRepresentOrder, NEW l \in List, NEW e \in Elem,
         NEW f \in Elem, AddAfter(l, e, f)
  PROVE  LET k == IndexOf(order[l], f) + 1
         IN  Loose(e) /\ k \in 1..Len(order[l]) + 1 /\ LinkAt(l, e, k)
<1> DEFINE n == Len(order[l])
           i == IndexOf(order[l], f)
<1>1. Loose(e)
  BY DEF AddAfter, InsertAfter
<1>2. i \in 1..n /\ order[l][i] = f
  BY DEF AddAfter, InsertAfter, In, IndexOf
<1> HIDE DEF i
<1>0. /\ n \in Nat /\ last[l] = order[l][n]
      /\ \A j \in 1..n : order[l][j] = f => j = i
  BY <1>2, Neighbours DEF LastOf
<1>3. /\ f = last[l] <=> i = n
      /\ next[f] = IF i = n THEN NULL ELSE order[l][i + 1]
      /\ next[e] = NULL /\ prev[e] = NULL /\ f # e
      /\ i < n => order[l][i + 1] \in Elem /\ order[l][i + 1] # e
                  /\ order[l][i + 1] # f
      /\ n \in Nat
  BY <1>0, <1>1, <1>2, Neighbours DEF AfterIn
<1>4. order' = [order EXCEPT ![l] = InsertAt(@, i + 1, e)]
  BY DEF AddAfter, InsertAfter, i
<1>t. next' \in [Elem -> Pointer] /\ prev' \in [Elem -> Pointer]
  BY <1>2, <1>3 DEF Pointer, AddAfter, ListsTypeOK
<1>n. \A d \in Elem : next'[d] =
          IF d = e THEN IF (i + 1) <= Len(order[l]) THEN order[l][(i + 1)] ELSE NULL
          ELSE IF (i + 1) > 1 /\ d = order[l][(i + 1) - 1] THEN e ELSE next[d]
  BY <1>2, <1>3 DEF AddAfter, ListsTypeOK
<1>p. \A d \in Elem : prev'[d] =
          IF d = e THEN IF (i + 1) > 1 THEN order[l][(i + 1) - 1] ELSE NULL
          ELSE IF (i + 1) <= Len(order[l]) /\ d = order[l][(i + 1)] THEN e ELSE prev[d]
  BY <1>2, <1>3 DEF AddAfter, ListsTypeOK
<1>f. /\ first' \in [List -> Pointer] /\ last' \in [List -> Pointer]
      /\ \A m \in List :
           /\ first'[m] = IF m = l /\ (i + 1) = 1 THEN e ELSE first[m]
           /\ last'[m] = IF m = l /\ (i + 1) = Len(order[l]) + 1 THEN e ELSE last[m]
  <2>1. i + 1 # 1 /\ (f = last[l] <=> i + 1 = n + 1)
    BY <1>2, <1>3
  <2>2. /\ first' = first
        /\ last' = IF f = last[l] THEN [last EXCEPT ![l] = e] ELSE last
    BY DEF AddAfter
  <2> QED
    BY <2>1, <2>2 DEF Pointer, ListsTypeOK
<1>5. LinkAt(l, e, i + 1)
  BY <1>4, <1>t, <1>n, <1>p, <1>f DEF AddAfter, InsertAfter, LinkAt, cursors
<1> QED
  BY <1>1, <1>2, <1>3, <1>5 DEF i

\* DblList::AddBefore inserts at f, at the front of the list or inside it.
LEMMA AddBeforeLinks ==
  ASSUME ListsTypeOK, LinksRepresentOrder, NEW l \in List, NEW e \in Elem,
         NEW f \in Elem, AddBefore(l, e, f)
  PROVE  LET k == IndexOf(order[l], f)
         IN  Loose(e) /\ k \in 1..Len(order[l]) + 1 /\ LinkAt(l, e, k)
<1> DEFINE n == Len(order[l])
           i == IndexOf(order[l], f)
<1>1. Loose(e)
  BY DEF AddBefore, InsertBefore
<1>2. i \in 1..n /\ order[l][i] = f
  BY DEF AddBefore, InsertBefore, In, IndexOf
<1> HIDE DEF i
<1>0. /\ n \in Nat /\ first[l] = order[l][1]
      /\ \A j \in 1..n : order[l][j] = f => j = i
  BY <1>2, Neighbours DEF FirstOf
<1>3. /\ f = first[l] <=> i = 1
      /\ prev[f] = IF i = 1 THEN NULL ELSE order[l][i - 1]
      /\ next[e] = NULL /\ prev[e] = NULL /\ f # e
      /\ i > 1 => order[l][i - 1] \in Elem /\ order[l][i - 1] # e
                  /\ order[l][i - 1] # f
      /\ n \in Nat
  BY <1>0, <1>1, <1>2, Neighbours DEF BeforeIn
<1>4. order' = [order EXCEPT ![l] = InsertAt(@, i, e)]
  BY DEF AddBefore, InsertBefore, i
<1>t. next' \in [Elem -> Pointer] /\ prev' \in [Elem -> Pointer]
  BY <1>2, <1>3 DEF Pointer, AddBefore, ListsTypeOK
<1>n. \A d \in Elem : next'[d] =
          IF d = e THEN IF i <= Len(order[l]) THEN order[l][i] ELSE NULL
          ELSE IF i > 1 /\ d = order[l][i - 1] THEN e ELSE next[d]
  BY <1>2, <1>3 DEF AddBefore, ListsTypeOK
<1>p. \A d \in Elem : prev'[d] =
          IF d = e THEN IF i > 1 THEN order[l][i - 1] ELSE NULL
          ELSE IF i <= Len(order[l]) /\ d = order[l][i] THEN e ELSE prev[d]
  BY <1>2, <1>3 DEF AddBefore, ListsTypeOK
<1>f. /\ first' \in [List -> Pointer] /\ last' \in [List -> Pointer]
      /\ \A m \in List :
           /\ first'[m] = IF m = l /\ i = 1 THEN e ELSE first[m]
           /\ last'[m] = IF m = l /\ i = Len(order[l]) + 1 THEN e ELSE last[m]
  BY <1>2, <1>3 DEF Pointer, AddBefore, ListsTypeOK
<1>5. LinkAt(l, e, i)
  BY <1>4, <1>t, <1>n, <1>p, <1>f DEF AddBefore, InsertBefore, LinkAt, cursors
<1> QED
  BY <1>1, <1>2, <1>3, <1>5 DEF i

\* DblOrderedList::Add on an empty list makes the element both its ends.
LEMMA AddToEmptyLinks ==
  ASSUME ListsTypeOK, LinksRepresentOrder, NEW l \in List, NEW e \in Elem,
         AddToEmpty(l, e)
  PROVE  Loose(e) /\ 1 \in 1..Len(order[l]) + 1 /\ LinkAt(l, e, 1)
<1>1. Loose(e)
  BY DEF AddToEmpty, Insert
<1>2. Len(order[l]) = 0 /\ next[e] = NULL /\ prev[e] = NULL
  BY <1>1, Neighbours DEF AddToEmpty
<1>3. /\ \A d \in Elem : next'[d] = next[d] /\ prev'[d] = prev[d]
      /\ next' \in [Elem -> Pointer] /\ prev' \in [Elem -> Pointer]
      /\ first' \in [List -> Pointer] /\ last' \in [List -> Pointer]
      /\ \A m \in List : /\ first'[m] = IF m = l THEN e ELSE first[m]
                        /\ last'[m] = IF m = l THEN e ELSE last[m]
  BY DEF AddToEmpty, ListsTypeOK, links, Pointer
<1>4. UNCHANGED <<value, allocated, tmp>>
  BY DEF AddToEmpty, Insert, cursors
<1>5. /\ order' = [order EXCEPT ![l] = InsertAt(@, 1, e)]
      /\ size' = [size EXCEPT ![l] = @ + 1]
  BY DEF AddToEmpty, Insert
<1> QED
  BY <1>1, <1>2, <1>3, <1>4, <1>5 DEF LinkAt

\* DblOrderedList::Add, its search stopped: e goes where the cursor stands.
LEMMA AddInFrontLinks ==
  ASSUME ListsTypeOK, LinksRepresentOrder, SeekInv, adding \in Pointer,
         into \in List, AddInFront
  PROVE  LET k == IndexOf(order[into], at)
         IN  /\ adding \in Elem /\ Loose(adding)
             /\ k \in 1..Len(order[into]) + 1 /\ LinkAt(into, adding, k)
<1> DEFINE n == Len(order[into])
           i == IndexOf(order[into], at)
<1>1. adding \in Elem /\ Loose(adding)
  BY DEF AddInFront, SeekInv, Pointer
<1>2. \E k \in 1..n : order[into][k] = at
  BY Neighbours DEF AddInFront, SeekInv
<1>3. i \in 1..n /\ order[into][i] = at
  BY <1>2 DEF IndexOf
<1> HIDE DEF i
<1>4. /\ prev[at] = IF i = 1 THEN NULL ELSE order[into][i - 1]
      /\ next[adding] = NULL /\ prev[adding] = NULL /\ at # adding
      /\ at \in Elem
      /\ i > 1 => order[into][i - 1] \in Elem /\ order[into][i - 1] # adding
                  /\ order[into][i - 1] # at /\ order[into][i - 1] # NULL
      /\ n \in Nat
  BY <1>1, <1>3, Neighbours DEF BeforeIn
<1>5. order' = [order EXCEPT ![into] = InsertAt(@, i, adding)]
  BY DEF AddInFront, Insert, i
<1>t. next' \in [Elem -> Pointer] /\ prev' \in [Elem -> Pointer]
  BY <1>1, <1>3, <1>4 DEF Pointer, AddInFront, ListsTypeOK
<1>n. \A d \in Elem : next'[d] =
          IF d = adding THEN IF i <= Len(order[into]) THEN order[into][i] ELSE NULL
          ELSE IF i > 1 /\ d = order[into][i - 1] THEN adding ELSE next[d]
  BY <1>1, <1>3, <1>4 DEF AddInFront, ListsTypeOK
<1>p. \A d \in Elem : prev'[d] =
          IF d = adding THEN IF i > 1 THEN order[into][i - 1] ELSE NULL
          ELSE IF i <= Len(order[into]) /\ d = order[into][i] THEN adding ELSE prev[d]
  BY <1>1, <1>3, <1>4 DEF AddInFront, ListsTypeOK
<1>f. /\ first' \in [List -> Pointer] /\ last' \in [List -> Pointer]
      /\ \A m \in List :
           /\ first'[m] = IF m = into /\ i = 1 THEN adding ELSE first[m]
           /\ last'[m] = IF m = into /\ i = Len(order[into]) + 1 THEN adding ELSE last[m]
  BY <1>1, <1>3, <1>4 DEF Pointer, AddInFront, ListsTypeOK
<1>6. LinkAt(into, adding, i)
  BY <1>5, <1>t, <1>n, <1>p, <1>f DEF AddInFront, Insert, LinkAt
<1> QED
  BY <1>1, <1>3, <1>4, <1>6 DEF i

\* DblOrderedList::Add, its search at the end: e becomes the last element.
LEMMA AddBehindLinks ==
  ASSUME ListsTypeOK, LinksRepresentOrder, SeekInv, adding \in Pointer,
         into \in List, AddBehind
  PROVE  LET k == Len(order[into]) + 1
         IN  /\ adding \in Elem /\ Loose(adding)
             /\ k \in 1..Len(order[into]) + 1 /\ LinkAt(into, adding, k)
<1> DEFINE n == Len(order[into])
<1>1. adding \in Elem /\ Loose(adding)
  BY DEF AddBehind, SeekInv, Pointer
<1>2. /\ n \in Nat \ {0}
      /\ last[into] = order[into][n]
      /\ order[into][n] \in Elem /\ order[into][n] # adding
      /\ next[adding] = NULL /\ prev[adding] = NULL
  BY <1>1, Neighbours DEF AddBehind, SeekInv, LastOf
<1>3. order' = [order EXCEPT ![into] = InsertAt(@, n + 1, adding)]
  BY DEF AddBehind, Insert
<1> HIDE DEF n
<1>t. next' \in [Elem -> Pointer] /\ prev' \in [Elem -> Pointer]
  BY <1>1, <1>2 DEF Pointer, AddBehind, ListsTypeOK, n
<1>n. \A d \in Elem : next'[d] =
          IF d = adding THEN IF (n + 1) <= Len(order[into]) THEN order[into][(n + 1)] ELSE NULL
          ELSE IF (n + 1) > 1 /\ d = order[into][(n + 1) - 1] THEN adding ELSE next[d]
  BY <1>1, <1>2 DEF AddBehind, ListsTypeOK, n
<1>p. \A d \in Elem : prev'[d] =
          IF d = adding THEN IF (n + 1) > 1 THEN order[into][(n + 1) - 1] ELSE NULL
          ELSE IF (n + 1) <= Len(order[into]) /\ d = order[into][(n + 1)] THEN adding ELSE prev[d]
  BY <1>1, <1>2 DEF AddBehind, ListsTypeOK, n
<1>f. /\ first' \in [List -> Pointer] /\ last' \in [List -> Pointer]
      /\ \A m \in List :
           /\ first'[m] = IF m = into /\ (n + 1) = 1 THEN adding ELSE first[m]
           /\ last'[m] = IF m = into /\ (n + 1) = Len(order[into]) + 1 THEN adding ELSE last[m]
  BY <1>1, <1>2 DEF Pointer, AddBehind, ListsTypeOK, n
<1>4. LinkAt(into, adding, n + 1)
  BY <1>3, <1>t, <1>n, <1>p, <1>f DEF AddBehind, Insert, LinkAt
<1> QED
  BY <1>1, <1>2, <1>4 DEF n
-----------------------------------------------------------------------------
\* The allocator: the head of the free list leaves it and is constructed.
LEMMA AllocateRepresents ==
  ASSUME ListsTypeOK, LinksRepresentOrder,
         NEW e \in Elem, NEW v \in Value, Allocate(e, v)
  PROVE  ListsTypeOK' /\ LinksRepresentOrder'
<1> DEFINE s == order[Pool]
           t == Tail(s)
<1>1. Pool \in Place /\ s \in Seq(Elem) /\ s # <<>> /\ e = s[1]
  BY DEF ListsTypeOK, Place, Allocate, New
<1>2. /\ Len(s) \in Nat \ {0} /\ t \in Seq(Elem) /\ Len(t) = Len(s) - 1
      /\ \A i \in 1..Len(t) : t[i] = s[i + 1] /\ i + 1 \in 1..Len(s)
  BY <1>1, HeadTailProperties, EmptySeq
<1>l. Len(s) \in Nat \ {0}
  BY <1>1, EmptySeq
<1> HIDE DEF t
<1>s. \A i \in 1..Len(s) : i # 1 => i - 1 \in 1..Len(t) /\ t[i - 1] = s[i]
  <2> SUFFICES ASSUME NEW i \in 1..Len(s), i # 1
               PROVE  i - 1 \in 1..Len(t) /\ t[i - 1] = s[i]
    OBVIOUS
  <2>1. i - 1 \in 1..Len(t) /\ (i - 1) + 1 = i
    BY <1>2
  <2>2. t[i - 1] = s[(i - 1) + 1]
    BY <2>1, <1>2
  <2> QED
    BY <2>1, <2>2
<1>3. /\ order'[Pool] = t
      /\ \A p \in Place : p # Pool => order'[p] = order[p]
      /\ \A l \in List : order'[l] = order[l]
      /\ order' \in [Place -> Seq(Elem)]
  BY <1>1, <1>2, PlacesDistinct DEF Allocate, New, ListsTypeOK, Place, t
<1>4. \A p \in Place : /\ Len(order[p]) \in Nat
                       /\ \A i \in 1..Len(order[p]) : order[p][i] \in Elem
  BY DEF ListsTypeOK
<1>5. \A p, q \in Place : \A i \in 1..Len(order[p]), j \in 1..Len(order[q]) :
         order[p][i] = order[q][j] => p = q /\ i = j
  BY DEF LinksRepresentOrder, OnePlace
<1>n. \A p \in Place : \A i \in 1..Len(order[p]) :
         next[order[p][i]] = AfterIn(order[p], i)
  BY DEF LinksRepresentOrder, ForwardLinks
<1>p. \A m \in List : \A i \in 1..Len(order[m]) :
         prev[order[m][i]] = BeforeIn(order[m], i)
  BY DEF LinksRepresentOrder, BackwardLinks
<1>w. \A d \in Elem : /\ next'[d] = IF d = e THEN NULL ELSE next[d]
                      /\ prev'[d] = IF d = e THEN NULL ELSE prev[d]
  BY DEF Allocate, ListsTypeOK
<1>6. ListsTypeOK'
  BY <1>3 DEF Allocate, New, ListsTypeOK, Pointer, heads, cursors
\* order' is order without e.
<1>7. \A p \in Place : \A i \in 1..Len(order'[p]) :
        \E j \in 1..Len(order[p]) :
          /\ order'[p][i] = order[p][j] /\ order[p][j] # e
          /\ j = IF p = Pool THEN i + 1 ELSE i
  <2> SUFFICES ASSUME NEW p \in Place, NEW i \in 1..Len(order'[p])
               PROVE  \E j \in 1..Len(order[p]) :
                        /\ order'[p][i] = order[p][j] /\ order[p][j] # e
                        /\ j = IF p = Pool THEN i + 1 ELSE i
    OBVIOUS
  <2>1. CASE p = Pool
    <3>1. i + 1 \in 1..Len(s) /\ t[i] = s[i + 1] /\ i \in 1..Len(t)
      BY <2>1, <1>2, <1>3
    <3>2. s[i + 1] # s[1]
      BY <3>1, <1>1, <1>2, <1>5
    <3> QED
      BY <2>1, <3>1, <3>2, <1>1, <1>3
  <2>2. CASE p # Pool
    BY <2>2, <1>1, <1>2, <1>3, <1>5
  <2> QED
    BY <2>1, <2>2
<1>8. OnePlace'
  <2> SUFFICES ASSUME NEW p \in Place, NEW q \in Place,
                      NEW i \in 1..Len(order'[p]), NEW j \in 1..Len(order'[q]),
                      order'[p][i] = order'[q][j]
               PROVE  p = q /\ i = j
    BY DEF OnePlace
  <2> QED
    BY <1>5, <1>7, SMTT(30)
<1>9. ForwardLinks'
  <2> SUFFICES ASSUME NEW p \in Place, NEW i \in 1..Len(order'[p])
               PROVE  next'[order'[p][i]] = AfterIn(order'[p], i)
    BY DEF ForwardLinks, AfterIn
  <2>1. CASE p = Pool
    <3>1. /\ i \in 1..Len(t) /\ i + 1 \in 1..Len(s) /\ t[i] = s[i + 1]
          /\ s[i + 1] # e /\ s[i + 1] \in Elem
      BY <2>1, <1>1, <1>2, <1>3, <1>4, <1>7
    <3>2. next'[t[i]] = AfterIn(s, i + 1)
      BY <3>1, <1>1, <1>n, <1>w
    <3>3. i < Len(t) => t[i + 1] = s[i + 2]
      BY <3>1, <1>2
    <3> QED
      BY <2>1, <3>1, <3>2, <3>3, <1>2, <1>3 DEF AfterIn
  <2>2. CASE p # Pool
    <3>1. /\ order'[p] = order[p] /\ i \in 1..Len(order[p])
          /\ order[p][i] # e /\ order[p][i] \in Elem
      BY <2>2, <1>3, <1>4, <1>7
    <3> QED
      BY <3>1, <1>n, <1>w DEF AfterIn
  <2> QED
    BY <2>1, <2>2
<1>10. BackwardLinks'
  <2> SUFFICES ASSUME NEW m \in List, NEW i \in 1..Len(order'[m])
               PROVE  prev'[order'[m][i]] = BeforeIn(order'[m], i)
    BY DEF BackwardLinks, BeforeIn
  <2>1. m \in Place /\ m # Pool
    BY PlacesDistinct DEF Place
  <2>2. /\ order'[m] = order[m] /\ i \in 1..Len(order[m])
        /\ order[m][i] # e /\ order[m][i] \in Elem
    BY <2>1, <1>3, <1>4, <1>7
  <2> QED
    BY <2>2, <1>p, <1>w DEF BeforeIn
<1>11. Ends'
  <2>1. allocated' = FirstOf(t)
    <3>1. allocated' = AfterIn(s, 1)
      BY <1>1, <1>2, <1>n, SMTT(30) DEF Allocate
    <3>2. 2 \in 1..Len(s) => t[1] = s[2]
      BY <1>s
    <3>3. AfterIn(s, 1) = IF Len(s) = 1 THEN NULL ELSE s[2]
      BY DEF AfterIn
    <3>4. CASE Len(s) = 1
      BY <3>1, <3>3, <3>4, <1>2 DEF FirstOf
    <3>5. CASE Len(s) # 1
      <4>1. \A n \in Nat \ {0} : n # 1 => 2 \in 1..n
        OBVIOUS
      <4>2. 2 \in 1..Len(s)
        BY <3>5, <1>l, <4>1, Zenon
      <4> QED
        BY <3>1, <3>2, <3>3, <3>5, <4>2, <1>2 DEF FirstOf
    <3> QED
      BY <3>4, <3>5
  <2>2. order'[Doomed] = order[Doomed]
    BY <1>3, PlacesDistinct DEF Place
  <2> QED
    BY <2>1, <2>2, <1>3
       DEF Allocate, Ends, LinksRepresentOrder, heads, cursors, FirstOf, LastOf
<1>12. LooseIsUnlinked'
  <2> SUFFICES ASSUME NEW d \in Elem, Loose(d)'
               PROVE  Unlinked(d)'
    BY DEF LooseIsUnlinked
  <2>1. CASE d = e
    BY <2>1, <1>w DEF Unlinked
  <2>2. CASE d # e
    <3>1. \A p \in Place : \A i \in 1..Len(order'[p]) : order'[p][i] # d
      BY DEF Loose, In
    <3>2. ASSUME NEW i \in 1..Len(s)
          PROVE  s[i] # d
      <4>1. CASE i = 1
        BY <4>1, <2>2, <1>1
      <4>2. CASE i # 1
        <5>1. i - 1 \in 1..Len(order'[Pool]) /\ order'[Pool][i - 1] = s[i]
          BY <4>2, <1>s, <1>3
        <5> QED
          BY <5>1, <3>1, <1>1
      <4> QED
        BY <4>1, <4>2
    <3>3. Loose(d)
      BY <3>1, <3>2, <1>3 DEF Loose, In
    <3> QED
      BY <2>2, <3>3, <1>w DEF LinksRepresentOrder, LooseIsUnlinked, Unlinked
  <2> QED
    BY <2>1, <2>2
<1> QED
  BY <1>6, <1>8, <1>9, <1>10, <1>11, <1>12 DEF LinksRepresentOrder

\* delete puts a loose element in front of the free list.
LEMMA FreeRepresents ==
  ASSUME ListsTypeOK, LinksRepresentOrder, NEW e \in Elem, Free(e)
  PROVE  ListsTypeOK' /\ LinksRepresentOrder'
<1> DEFINE s == order[Pool]
           t == <<e>> \o s
<1>1. Pool \in Place /\ s \in Seq(Elem) /\ Len(s) \in Nat
  BY DEF ListsTypeOK, Place
<1>2. /\ t \in Seq(Elem) /\ Len(t) = Len(s) + 1 /\ t[1] = e
      /\ \A i \in 1..Len(s) + 1 :
           i # 1 => i - 1 \in 1..Len(s) /\ t[i] = s[i - 1]
  BY <1>1, ConsFacts
<1> HIDE DEF t
<1>3. /\ order'[Pool] = t
      /\ \A p \in Place : p # Pool => order'[p] = order[p]
      /\ \A l \in List : order'[l] = order[l] /\ l # Pool /\ l \in Place
      /\ order'[Doomed] = order[Doomed]
      /\ order' \in [Place -> Seq(Elem)]
  BY <1>1, <1>2, PlacesDistinct DEF Free, Delete, ListsTypeOK, Place, t
<1>4. \A p \in Place : /\ Len(order[p]) \in Nat
                       /\ \A i \in 1..Len(order[p]) : order[p][i] \in Elem
  BY DEF ListsTypeOK
<1>5. \A p, q \in Place : \A i \in 1..Len(order[p]), j \in 1..Len(order[q]) :
         order[p][i] = order[q][j] => p = q /\ i = j
  BY DEF LinksRepresentOrder, OnePlace
<1>n. \A p \in Place : \A i \in 1..Len(order[p]) :
         next[order[p][i]] = AfterIn(order[p], i)
  BY DEF LinksRepresentOrder, ForwardLinks
<1>p. \A m \in List : \A i \in 1..Len(order[m]) :
         prev[order[m][i]] = BeforeIn(order[m], i)
  BY DEF LinksRepresentOrder, BackwardLinks
<1>e. \A p \in Place : \A i \in 1..Len(order[p]) : order[p][i] # e
  BY DEF Free, Delete, Loose, In
<1>w. /\ \A d \in Elem : next'[d] = IF d = e THEN allocated ELSE next[d]
      /\ prev' = prev
  BY DEF Free, ListsTypeOK
<1>6. ListsTypeOK'
  BY <1>3 DEF Free, Delete, ListsTypeOK, Pointer, heads, cursors
<1>7. OnePlace'
  <2> SUFFICES ASSUME NEW p \in Place, NEW q \in Place,
                      NEW i \in 1..Len(order'[p]), NEW j \in 1..Len(order'[q]),
                      order'[p][i] = order'[q][j]
               PROVE  p = q /\ i = j
    BY DEF OnePlace
  \* Where an element of order' was before, e excepted.
  <2> DEFINE was(r, m) == IF r = Pool THEN m - 1 ELSE m
  <2>1. \A r \in Place : \A m \in 1..Len(order'[r]) :
          \/ r = Pool /\ m = 1 /\ order'[r][m] = e
          \/ /\ was(r, m) \in 1..Len(order[r])
             /\ order'[r][m] = order[r][was(r, m)]
    BY <1>2, <1>3
  <2>2. CASE order'[p][i] = e
    <3>1. \A r \in Place : \A m \in 1..Len(order'[r]) :
            order'[r][m] = e => r = Pool /\ m = 1
      BY <2>1, <1>e
    <3> QED
      <4>1. p = Pool /\ i = 1
        BY <2>2, <3>1
      <4>2. q = Pool /\ j = 1
        BY <2>2, <3>1
      <4> QED
        BY <4>1, <4>2
  <2>3. CASE order'[p][i] # e
    <3>1. /\ was(p, i) \in 1..Len(order[p]) /\ order'[p][i] = order[p][was(p, i)]
          /\ was(q, j) \in 1..Len(order[q]) /\ order'[q][j] = order[q][was(q, j)]
      BY <2>1, <2>3
    <3>2. p = q /\ was(p, i) = was(q, j)
      <4> DEFINE a == was(p, i)
                 b == was(q, j)
      <4>1. a \in 1..Len(order[p]) /\ b \in 1..Len(order[q])
            /\ order[p][a] = order[q][b]
        BY <3>1
      <4> HIDE DEF a, b
      <4>2. p = q /\ a = b
        BY <4>1, <1>5
      <4> QED
        BY <4>2 DEF a, b
    <3>3. i \in Int /\ j \in Int
      BY <1>2, <1>3, <1>4
    <3> QED
      BY <3>2, <3>3
  <2> QED
    BY <2>2, <2>3
<1>8. ForwardLinks'
  <2> SUFFICES ASSUME NEW p \in Place, NEW i \in 1..Len(order'[p])
               PROVE  next'[order'[p][i]] = AfterIn(order'[p], i)
    BY DEF ForwardLinks, AfterIn
  <2>1. CASE p # Pool
    <3>1. order'[p] = order[p] /\ i \in 1..Len(order[p])
      BY <2>1, <1>3
    <3>2. order[p][i] # e /\ order[p][i] \in Elem
      BY <3>1, <1>4, <1>e
    <3> QED
      BY <3>1, <3>2, <1>n, <1>w DEF AfterIn
  <2>2. CASE p = Pool /\ i = 1
    <3>1. next'[t[1]] = FirstOf(s)
      BY <1>2, <1>w DEF LinksRepresentOrder, Ends
    <3>2. Len(s) # 0 => t[2] = s[1]
      BY <1>1, <1>2
    <3>3. AfterIn(t, 1) = IF Len(t) = 1 THEN NULL ELSE t[2]
      BY DEF AfterIn
    <3>4. CASE Len(s) = 0
      BY <2>2, <3>1, <3>3, <3>4, <1>2, <1>3 DEF FirstOf, AfterIn
    <3>5. CASE Len(s) > 0
      BY <2>2, <3>1, <3>2, <3>3, <3>5, <1>1, <1>2, <1>3 DEF FirstOf, AfterIn
    <3> QED
      BY <3>4, <3>5, <1>1
  <2>3. CASE p = Pool /\ i # 1
    <3>1. /\ i - 1 \in 1..Len(s) /\ t[i] = s[i - 1]
          /\ s[i - 1] # e /\ s[i - 1] \in Elem
      BY <2>3, <1>1, <1>2, <1>3, <1>4, <1>e
    <3>2. next'[t[i]] = AfterIn(s, i - 1)
      BY <3>1, <1>1, <1>n, <1>w
    <3>3. i < Len(t) => t[i + 1] = s[i]
      BY <3>1, <1>1, <1>2
    <3> QED
      BY <2>3, <3>1, <3>2, <3>3, <1>1, <1>2, <1>3 DEF AfterIn
  <2> QED
    BY <2>1, <2>2, <2>3
<1>9. BackwardLinks'
  BY <1>3, <1>p, <1>w DEF BackwardLinks, BeforeIn
<1>10. Ends'
  BY <1>1, <1>2, <1>3
     DEF Free, Ends, LinksRepresentOrder, heads, cursors, FirstOf, LastOf
<1>11. LooseIsUnlinked'
  <2> SUFFICES ASSUME NEW d \in Elem, Loose(d)'
               PROVE  Unlinked(d)'
    BY DEF LooseIsUnlinked
  <2>1. \A p \in Place : \A i \in 1..Len(order'[p]) : order'[p][i] # d
    BY DEF Loose, In
  <2>2. d # e
    BY <2>1, <1>1, <1>2, <1>3
  <2>3. \A i \in 1..Len(s) : s[i] # d
    <3>1. \A i \in 1..Len(s) : i + 1 \in 1..Len(t) /\ t[i + 1] = s[i]
      BY <1>1, <1>2
    <3> QED
      BY <3>1, <2>1, <1>1, <1>3
  <2>4. Loose(d)
    BY <2>1, <2>3, <1>3 DEF Loose, In
  <2> QED
    BY <2>2, <2>4, <1>w DEF LinksRepresentOrder, LooseIsUnlinked, Unlinked
<1> QED
  BY <1>6, <1>7, <1>8, <1>9, <1>10, <1>11 DEF LinksRepresentOrder

\* MDD::clear moves a whole list to the doomed.
LEMMA ClearBeginRepresents ==
  ASSUME ListsTypeOK, LinksRepresentOrder, NEW l \in List, ClearBegin(l)
  PROVE  ListsTypeOK' /\ LinksRepresentOrder'
<1>1. /\ l \in Place /\ Doomed \in Place /\ Pool \in Place /\ l # Doomed
      /\ l # Pool /\ Pool # Doomed /\ order[Doomed] = <<>>
      /\ \A m \in List : m \in Place /\ m # Doomed
  BY PlacesDistinct DEF Place, ClearBegin, Condemn
<1>2. <<>> \in Seq(Elem) /\ Len(<<>>) = 0
  OBVIOUS
<1>3. /\ order'[l] = <<>> /\ order'[Doomed] = order[l]
      /\ \A p \in Place : p # l /\ p # Doomed => order'[p] = order[p]
      /\ order' \in [Place -> Seq(Elem)]
      /\ next' = next /\ prev' = prev
  BY <1>1, <1>2 DEF ClearBegin, Condemn, ListsTypeOK, links
<1>4. \A p \in Place : /\ Len(order[p]) \in Nat
                       /\ \A i \in 1..Len(order[p]) : order[p][i] \in Elem
  BY DEF ListsTypeOK
<1>5. \A p, q \in Place : \A i \in 1..Len(order[p]), j \in 1..Len(order[q]) :
         order[p][i] = order[q][j] => p = q /\ i = j
  BY DEF LinksRepresentOrder, OnePlace
<1>n. \A p \in Place : \A i \in 1..Len(order[p]) :
         next[order[p][i]] = AfterIn(order[p], i)
  BY DEF LinksRepresentOrder, ForwardLinks
<1>p. \A m \in List : \A i \in 1..Len(order[m]) :
         prev[order[m][i]] = BeforeIn(order[m], i)
  BY DEF LinksRepresentOrder, BackwardLinks
<1>6. ListsTypeOK'
  BY <1>3 DEF ClearBegin, Condemn, ListsTypeOK, Pointer, links
\* Where the content of p was before.
<1> DEFINE was(p) == IF p = Doomed THEN l ELSE p
<1>7. \A p \in Place : \A i \in 1..Len(order'[p]) :
        /\ was(p) \in Place /\ order'[p] = order[was(p)] /\ p # l
  BY <1>1, <1>2, <1>3
<1>8. OnePlace'
  <2> SUFFICES ASSUME NEW p \in Place, NEW q \in Place,
                      NEW i \in 1..Len(order'[p]), NEW j \in 1..Len(order'[q]),
                      order'[p][i] = order'[q][j]
               PROVE  p = q /\ i = j
    BY DEF OnePlace
  <2>1. was(p) = was(q) /\ i = j
    BY <1>5, <1>7
  <2> QED
    BY <2>1, <1>7
<1>9. ForwardLinks'
  BY <1>3, <1>7, <1>n DEF ForwardLinks, AfterIn
<1>10. BackwardLinks'
  BY <1>1, <1>2, <1>3, <1>p, SMTT(30) DEF BackwardLinks, BeforeIn
<1>11. Ends'
  <2>1. /\ first' = [first EXCEPT ![l] = NULL] /\ last' = [last EXCEPT ![l] = NULL]
        /\ size' = [size EXCEPT ![l] = 0]
        /\ tmp' = first[l] /\ allocated' = allocated
    BY DEF ClearBegin
  <2> QED
    BY <2>1, <1>1, <1>2, <1>3
       DEF Ends, LinksRepresentOrder, FirstOf, LastOf, ListsTypeOK
<1>12. LooseIsUnlinked'
  <2>1. \A d \in Elem : Loose(d)' => Loose(d)
    <3> SUFFICES ASSUME NEW d \in Elem, Loose(d)', NEW p \in Place,
                        NEW i \in 1..Len(order[p]), order[p][i] = d
                 PROVE  FALSE
      BY DEF Loose, In
    <3>1. \A q \in Place : \A j \in 1..Len(order'[q]) : order'[q][j] # d
      BY DEF Loose, In
    <3> QED
      BY <3>1, <1>1, <1>2, <1>3
  <2> QED
    BY <2>1, <1>3 DEF LinksRepresentOrder, LooseIsUnlinked, Unlinked
<1> QED
  BY <1>6, <1>8, <1>9, <1>10, <1>11, <1>12 DEF LinksRepresentOrder

\* A nonempty sequence without its head, by position.
LEMMA TailFacts ==
  ASSUME NEW S, NEW s \in Seq(S), s # <<>>
  PROVE  /\ Len(s) \in Nat \ {0} /\ s[1] = Head(s) /\ s[1] \in S
         /\ Tail(s) \in Seq(S) /\ Len(Tail(s)) = Len(s) - 1
         /\ \A i \in 1..Len(s) - 1 : i + 1 \in 1..Len(s) /\ Tail(s)[i] = s[i + 1]
         /\ \A i \in 1..Len(s) : i # 1 =>
              i - 1 \in 1..Len(s) - 1 /\ Tail(s)[i - 1] = s[i]
<1>1. Len(s) \in Nat \ {0}
  BY EmptySeq
<1> DEFINE t == Tail(s)
<1>2. /\ t \in Seq(S) /\ Len(t) = Len(s) - 1 /\ Head(s) = s[1]
      /\ \A i \in 1..Len(t) : t[i] = s[i + 1]
  BY HeadTailProperties
<1> HIDE DEF t
<1>3. \A i \in 1..Len(s) - 1 : i + 1 \in 1..Len(s) /\ t[i] = s[i + 1]
  BY <1>1, <1>2
<1>4. \A i \in 1..Len(s) : i # 1 => i - 1 \in 1..Len(s) - 1 /\ t[i - 1] = s[i]
  <2> SUFFICES ASSUME NEW i \in 1..Len(s), i # 1
               PROVE  i - 1 \in 1..Len(s) - 1 /\ t[i - 1] = s[i]
    OBVIOUS
  <2>1. i - 1 \in 1..Len(s) - 1 /\ (i - 1) + 1 = i
    BY <1>1
  <2>2. t[i - 1] = s[(i - 1) + 1]
    BY <2>1, <1>3
  <2> QED
    BY <2>1, <2>2
<1>5. s[1] \in S
  BY <1>1
<1> QED
  BY <1>1, <1>2, <1>3, <1>4, <1>5 DEF t

\* MDD::clear deletes one node: the head of the doomed goes to the front of
\* the free list, after its next_ has been read.
LEMMA ClearStepRepresents ==
  ASSUME ListsTypeOK, LinksRepresentOrder, tmp # NULL, ClearStep
  PROVE  ListsTypeOK' /\ LinksRepresentOrder'
<1> DEFINE s == order[Doomed]
           c == order[Pool]
           e == s[1]
           t == Tail(s)
           u == <<e>> \o c
<1>1. /\ Pool \in Place /\ Doomed \in Place /\ Pool # Doomed
      /\ s \in Seq(Elem) /\ s # <<>> /\ c \in Seq(Elem)
      /\ \A m \in List : m \in Place /\ m # Pool /\ m # Doomed
  BY PlacesDistinct DEF ListsTypeOK, Place, ClearStep, Execute
<1>2. /\ Len(s) \in Nat \ {0} /\ e \in Elem /\ e = Head(s)
      /\ t \in Seq(Elem) /\ Len(t) = Len(s) - 1
      /\ \A i \in 1..Len(s) - 1 : i + 1 \in 1..Len(s) /\ t[i] = s[i + 1]
      /\ \A i \in 1..Len(s) : i # 1 => i - 1 \in 1..Len(s) - 1 /\ t[i - 1] = s[i]
  BY <1>1, TailFacts
<1>c. Len(c) \in Nat /\ \A i \in 1..Len(c) : c[i] \in Elem
  BY <1>1
<1> HIDE DEF t, e
<1>3. /\ u \in Seq(Elem) /\ Len(u) = Len(c) + 1 /\ u[1] = e
      /\ \A i \in 1..Len(c) + 1 :
           i # 1 => i - 1 \in 1..Len(c) /\ u[i] = c[i - 1]
  BY <1>1, <1>2, ConsFacts
<1> HIDE DEF u
<1>4. order' = [order EXCEPT ![Doomed] = t, ![Pool] = u]
  BY <1>1, <1>2 DEF ClearStep, Execute, t, u, ListsTypeOK
<1>5. /\ order'[Pool] = u /\ order'[Doomed] = t
      /\ \A p \in Place : p # Pool /\ p # Doomed => order'[p] = order[p]
      /\ order' \in [Place -> Seq(Elem)]
  BY <1>1, <1>2, <1>3, <1>4 DEF ListsTypeOK
<1> HIDE DEF s, c
<1>s. order[Doomed] = s /\ order[Pool] = c
  BY DEF s, c
<1>6. \A p \in Place : /\ Len(order[p]) \in Nat
                       /\ \A i \in 1..Len(order[p]) : order[p][i] \in Elem
  BY DEF ListsTypeOK
<1>7. \A p, q \in Place : \A i \in 1..Len(order[p]), j \in 1..Len(order[q]) :
         order[p][i] = order[q][j] => p = q /\ i = j
  BY DEF LinksRepresentOrder, OnePlace
<1>n. \A p \in Place : \A i \in 1..Len(order[p]) :
         next[order[p][i]] = AfterIn(order[p], i)
  BY DEF LinksRepresentOrder, ForwardLinks
<1>p. \A m \in List : \A i \in 1..Len(order[m]) :
         prev[order[m][i]] = BeforeIn(order[m], i)
  BY DEF LinksRepresentOrder, BackwardLinks
<1>e. /\ 1 \in 1..Len(s) /\ tmp = e
      /\ \A p \in Place : \A i \in 1..Len(order[p]) :
           order[p][i] = e => p = Doomed /\ i = 1
  <2>1. 1 \in 1..Len(s) /\ s[1] = e
    BY <1>2 DEF e
  <2>2. tmp = e
    BY <2>1, <1>2, <1>s DEF LinksRepresentOrder, Ends, FirstOf
  <2> QED
    BY <2>1, <2>2, <1>1, <1>7, <1>s
<1>w. /\ \A d \in Elem : next'[d] = IF d = e THEN allocated ELSE next[d]
      /\ prev' = prev /\ tmp' = next[e] /\ allocated' = e
      /\ first' = first /\ last' = last /\ size' = size /\ value' = value
  BY <1>e DEF ClearStep, Execute, heads, ListsTypeOK
<1>8. ListsTypeOK'
  <2>1. next' \in [Elem -> Pointer]
    BY <1>e DEF ClearStep, ListsTypeOK
  <2>2. tmp' \in Pointer /\ allocated' \in Pointer
    BY <1>w, <1>2 DEF ListsTypeOK, Pointer
  <2> QED
    BY <2>1, <2>2, <1>5, <1>w DEF ListsTypeOK
\* Where an element of order' was before.
<1> DEFINE wp(p, i) == IF p = Pool /\ i = 1 THEN Doomed ELSE p
           wi(p, i) == IF p = Pool THEN IF i = 1 THEN 1 ELSE i - 1
                       ELSE IF p = Doomed THEN i + 1 ELSE i
<1>9. \A p \in Place : \A i \in 1..Len(order'[p]) :
        /\ wp(p, i) \in Place /\ wi(p, i) \in 1..Len(order[wp(p, i)])
        /\ order'[p][i] = order[wp(p, i)][wi(p, i)]
  <2> SUFFICES ASSUME NEW p \in Place, NEW i \in 1..Len(order'[p])
               PROVE  /\ wp(p, i) \in Place
                      /\ wi(p, i) \in 1..Len(order[wp(p, i)])
                      /\ order'[p][i] = order[wp(p, i)][wi(p, i)]
    OBVIOUS
  <2>1. CASE p = Pool /\ i = 1
    <3>1. order'[p][i] = s[1] /\ 1 \in 1..Len(s)
      BY <2>1, <1>3, <1>5, <1>e DEF e
    <3> QED
      BY <2>1, <3>1, <1>1, <1>s
  <2>2. CASE p = Pool /\ i # 1
    <3>1. i - 1 \in 1..Len(c) /\ order'[p][i] = c[i - 1]
      BY <2>2, <1>3, <1>5
    <3> QED
      BY <2>2, <3>1, <1>1, <1>s
  <2>3. CASE p = Doomed
    <3>1. i \in 1..Len(s) - 1
      BY <2>3, <1>2, <1>5
    <3>2. i + 1 \in 1..Len(s) /\ order'[p][i] = s[i + 1]
      BY <2>3, <3>1, <1>2, <1>5
    <3> QED
      BY <2>3, <3>2, <1>1, <1>s
  <2>4. CASE p # Pool /\ p # Doomed
    BY <2>4, <1>5
  <2> QED
    BY <2>1, <2>2, <2>3, <2>4
<1>10. OnePlace'
  <2> SUFFICES ASSUME NEW p \in Place, NEW q \in Place,
                      NEW i \in 1..Len(order'[p]), NEW j \in 1..Len(order'[q]),
                      order'[p][i] = order'[q][j]
               PROVE  p = q /\ i = j
    BY DEF OnePlace
  <2> DEFINE a == wi(p, i)
             b == wi(q, j)
             pp == wp(p, i)
             qq == wp(q, j)
  <2>1. pp \in Place /\ a \in 1..Len(order[pp]) /\ order'[p][i] = order[pp][a]
    BY <1>9
  <2>2. qq \in Place /\ b \in 1..Len(order[qq]) /\ order'[q][j] = order[qq][b]
    BY <1>9
  <2> HIDE DEF a, b, pp, qq
  <2>3. pp = qq /\ a = b
    <3>1. order[pp][a] = order[qq][b]
      BY <2>1, <2>2, Zenon
    <3> QED
      BY <2>1, <2>2, <3>1, <1>7
  <2>4. i \in Nat \ {0} /\ j \in Nat \ {0}
    <3>1. Len(order'[p]) \in Nat /\ Len(order'[q]) \in Nat
      BY <1>5
    <3> QED
      BY <3>1
  <2> QED
    BY <2>3, <2>4, <1>1 DEF a, b, pp, qq
<1>11. ForwardLinks'
  <2> SUFFICES ASSUME NEW p \in Place, NEW i \in 1..Len(order'[p])
               PROVE  next'[order'[p][i]] = AfterIn(order'[p], i)
    BY DEF ForwardLinks, AfterIn
  <2>1. CASE p = Pool /\ i = 1
    <3>1. next'[u[1]] = FirstOf(c)
      BY <1>2, <1>3, <1>w, <1>s DEF LinksRepresentOrder, Ends
    <3>2. Len(c) # 0 => u[2] = c[1]
      BY <1>c, <1>3
    <3>3. AfterIn(u, 1) = IF Len(u) = 1 THEN NULL ELSE u[2]
      BY DEF AfterIn
    <3>4. FirstOf(c) = AfterIn(u, 1)
      BY <3>2, <3>3, <1>3, <1>c DEF FirstOf
    <3> QED
      BY <2>1, <3>1, <3>4, <1>5 DEF AfterIn
  <2>2. CASE p = Pool /\ i # 1
    <3>1. /\ i - 1 \in 1..Len(c) /\ u[i] = c[i - 1] /\ c[i - 1] \in Elem
      BY <2>2, <1>3, <1>5, <1>c
    <3>e. c[i - 1] # e
      BY <3>1, <1>e, <1>1, <1>s
    <3>2. next'[u[i]] = AfterIn(c, i - 1)
      BY <3>1, <3>e, <1>1, <1>s, <1>n, <1>w
    <3>3. i < Len(u) => u[i + 1] = c[i]
      BY <3>1, <1>c, <1>3
    <3> QED
      BY <2>2, <3>1, <3>2, <3>3, <1>c, <1>3, <1>5 DEF AfterIn
  <2>3. CASE p = Doomed
    <3>1. i \in 1..Len(s) - 1
      BY <2>3, <1>2, <1>5
    <3>2. /\ i + 1 \in 1..Len(s) /\ t[i] = s[i + 1] /\ s[i + 1] \in Elem
      BY <3>1, <1>1, <1>2, <1>6, <1>s
    <3>e. s[i + 1] # e
      BY <3>1, <3>2, <1>e, <1>1, <1>2, <1>s
    <3>3. next'[t[i]] = AfterIn(s, i + 1)
      BY <3>2, <3>e, <1>1, <1>n, <1>s, <1>w
    <3>4. i + 1 # Len(s) => t[i + 1] = s[i + 2]
      BY <3>1, <1>2
    <3> QED
      BY <2>3, <3>1, <3>3, <3>4, <1>2, <1>5 DEF AfterIn
  <2>4. CASE p # Pool /\ p # Doomed
    <3>1. order'[p] = order[p] /\ i \in 1..Len(order[p])
      BY <2>4, <1>5
    <3>2. order[p][i] # e /\ order[p][i] \in Elem
      BY <2>4, <3>1, <1>6, <1>e
    <3> QED
      BY <3>1, <3>2, <1>n, <1>w DEF AfterIn
  <2> QED
    BY <2>1, <2>2, <2>3, <2>4
<1>12. BackwardLinks'
  BY <1>1, <1>5, <1>p, <1>w, SMTT(30) DEF BackwardLinks, BeforeIn
<1>13. Ends'
  <2>1. tmp' = FirstOf(t)
    <3>1. tmp' = AfterIn(s, 1)
      BY <1>e, <1>1, <1>n, <1>w, <1>s DEF e
    <3>2. \A n \in Nat \ {0} : n # 1 => 2 \in 1..n
      OBVIOUS
    <3>3. Len(s) # 1 => t[1] = s[2]
      BY <3>2, <1>2
    <3> QED
      BY <3>1, <3>3, <1>2 DEF AfterIn, FirstOf
  <2>2. \A m \in List : order'[m] = order[m]
    BY <1>1, <1>5
  <2>3. allocated' = FirstOf(u)
    BY <1>3, <1>c, <1>w DEF FirstOf
  <2>4. \A m \in List : /\ first[m] = FirstOf(order[m])
                        /\ last[m] = LastOf(order[m])
                        /\ size[m] = Len(order[m])
    BY DEF LinksRepresentOrder, Ends
  <2> QED
    BY <2>1, <2>2, <2>3, <2>4, <1>5, <1>w DEF Ends, FirstOf, LastOf
<1>14. LooseIsUnlinked'
  <2> SUFFICES ASSUME NEW d \in Elem, Loose(d)'
               PROVE  Unlinked(d)'
    BY DEF LooseIsUnlinked
  <2>1. \A p \in Place : \A i \in 1..Len(order'[p]) : order'[p][i] # d
    BY DEF Loose, In
  <2>2. d # e
    BY <2>1, <1>1, <1>3, <1>5, <1>c
  <2>3. \A i \in 1..Len(c) : c[i] # d
    <3>1. \A i \in 1..Len(c) : i + 1 \in 1..Len(u) /\ u[i + 1] = c[i]
      BY <1>c, <1>3
    <3> QED
      BY <3>1, <2>1, <1>1, <1>5
  <2>4. \A i \in 1..Len(s) : s[i] # d
    <3>1. \A i \in 1..Len(s) : i # 1 => i - 1 \in 1..Len(t) /\ t[i - 1] = s[i]
      BY <1>2
    <3> QED
      BY <3>1, <2>1, <2>2, <1>1, <1>5 DEF e
  <2>5. Loose(d)
    BY <2>1, <2>3, <2>4, <1>5, <1>s DEF Loose, In
  <2> QED
    BY <2>2, <2>5, <1>w DEF LinksRepresentOrder, LooseIsUnlinked, Unlinked
<1> QED
  BY <1>8, <1>10, <1>11, <1>12, <1>13, <1>14 DEF LinksRepresentOrder

\* Append, when l is empty or m has no second element to lose.
LEMMA AppendRepresents ==
  ASSUME ListsTypeOK, LinksRepresentOrder, NEW l \in List, NEW m \in List,
         size[l] = 0 \/ size[m] <= 1, AppendList(l, m)
  PROVE  ListsTypeOK' /\ LinksRepresentOrder'
<1> DEFINE a == order[l]
           b == order[m]
           c == a \o b
           n == Len(a)
           k == Len(b)
<1>1. /\ l \in Place /\ m \in Place /\ l # m
      /\ a \in Seq(Elem) /\ b \in Seq(Elem) /\ n \in Nat /\ k \in Nat
      /\ l # Pool /\ l # Doomed /\ m # Pool /\ m # Doomed
      /\ \A q \in List : q \in Place
      /\ Pool \in Place /\ Doomed \in Place
  BY PlacesDistinct DEF ListsTypeOK, Place, AppendList, Concat
<1>2. /\ c \in Seq(Elem) /\ Len(c) = n + k
      /\ \A i \in 1..n + k : c[i] = IF i <= n THEN a[i] ELSE b[i - n]
  BY <1>1, ConcatProperties
<1> HIDE DEF c
<1>3. /\ order'[l] = c /\ order'[m] = <<>>
      /\ \A p \in Place : p # l /\ p # m => order'[p] = order[p]
      /\ order' \in [Place -> Seq(Elem)]
  <2>1. order' = [order EXCEPT ![l] = c, ![m] = <<>>]
    BY DEF AppendList, Concat, c
  <2>2. <<>> \in Seq(Elem)
    OBVIOUS
  <2> QED
    BY <2>1, <2>2, <1>1, <1>2 DEF ListsTypeOK
<1>4. \A p \in Place : /\ Len(order[p]) \in Nat
                       /\ \A i \in 1..Len(order[p]) : order[p][i] \in Elem
  BY DEF ListsTypeOK
<1>5. \A p, q \in Place : \A i \in 1..Len(order[p]), j \in 1..Len(order[q]) :
         order[p][i] = order[q][j] => p = q /\ i = j
  BY DEF LinksRepresentOrder, OnePlace
<1>n. \A p \in Place : \A i \in 1..Len(order[p]) :
         next[order[p][i]] = AfterIn(order[p], i)
  BY DEF LinksRepresentOrder, ForwardLinks
<1>p. \A q \in List : \A i \in 1..Len(order[q]) :
         prev[order[q][i]] = BeforeIn(order[q], i)
  BY DEF LinksRepresentOrder, BackwardLinks
<1>e. /\ size[l] = n /\ size[m] = k
      /\ first[l] = FirstOf(a) /\ last[l] = LastOf(a)
      /\ first[m] = FirstOf(b) /\ last[m] = LastOf(b)
  BY <1>1 DEF LinksRepresentOrder, Ends
<1> HIDE DEF a, b
<1>s. order[l] = a /\ order[m] = b
  BY DEF a, b
<1>i. /\ \A i \in 1..n : a[i] \in Elem
      /\ \A i \in 1..k : b[i] \in Elem
      /\ n > 0 => n \in 1..n
      /\ k > 0 => 1 \in 1..k
  BY <1>1
<1>x. n \in Nat /\ k \in Nat
  BY <1>1
<1>c. /\ Len(order'[l]) = n + k
      /\ \A i \in 1..n : order'[l][i] = a[i]
      /\ \A i \in 1..k : order'[l][n + i] = b[i]
  <2>1. \A i \in 1..k : n + i \in 1..n + k /\ ~(n + i <= n) /\ (n + i) - n = i
    BY <1>x
  <2>2. \A i \in 1..n : i \in 1..n + k /\ i <= n
    BY <1>x
  <2> QED
    BY <2>1, <2>2, <1>2, <1>3
<1>w. \A d \in Elem :
        /\ next'[d] = IF n > 0 /\ k > 0
                      THEN IF d = b[1] THEN NULL
                           ELSE IF d = a[n] THEN b[1] ELSE next[d]
                      ELSE next[d]
        /\ prev'[d] = IF n > 0 /\ k > 0 /\ d = b[1] THEN a[n] ELSE prev[d]
  <2>1. CASE n > 0 /\ k > 0
    <3>1. /\ first[m] = b[1] /\ last[l] = a[n] /\ size[l] # 0 /\ size[m] # 0
          /\ b[1] \in Elem /\ a[n] \in Elem
      BY <2>1, <1>e, <1>i DEF FirstOf, LastOf
    <3>2. next[a[n]] = NULL
      BY <2>1, <1>1, <1>i, <1>n, <1>s DEF AfterIn
    <3>3. a[n] # b[1]
      BY <2>1, <1>1, <1>5, <1>i, <1>s
    <3> QED
      BY <2>1, <3>1, <3>2, <3>3 DEF AppendList, ListsTypeOK
  <2>2. CASE ~(n > 0 /\ k > 0)
    <3>1. ~(size[l] # 0 /\ size[m] # 0)
      BY <2>2, <1>1, <1>e
    <3> QED
      BY <2>2, <3>1 DEF AppendList
  <2> QED
    BY <2>1, <2>2
<1>6. ListsTypeOK'
  <2>1. next' \in [Elem -> Pointer] /\ prev' \in [Elem -> Pointer]
    <3>1. last[l] \in Pointer /\ first[m] \in Pointer
      BY DEF ListsTypeOK
    <3>2. size[l] # 0 /\ size[m] # 0 => next[last[l]] \in Pointer
      <4>1. size[l] # 0 => last[l] \in Elem
        BY <1>e, <1>i, <1>x DEF LastOf
      <4> QED
        BY <4>1 DEF ListsTypeOK
    <3> QED
      BY <3>1, <3>2 DEF AppendList, ListsTypeOK
  <2>2. first' \in [List -> Pointer] /\ last' \in [List -> Pointer]
    BY DEF AppendList, ListsTypeOK, Pointer
  <2>3. size' \in [List -> Nat]
    BY SMTT(30) DEF AppendList, ListsTypeOK
  <2> QED
    BY <2>1, <2>2, <2>3, <1>3 DEF AppendList, Concat, ListsTypeOK, cursors
\* Where an element of order' was before.
<1> DEFINE wp(p, i) == IF p = l /\ i > n THEN m ELSE p
           wi(p, i) == IF p = l /\ i > n THEN i - n ELSE i
<1>7. \A p \in Place : \A i \in 1..Len(order'[p]) :
        /\ p # m /\ wp(p, i) \in Place /\ wi(p, i) \in 1..Len(order[wp(p, i)])
        /\ order'[p][i] = order[wp(p, i)][wi(p, i)]
  <2> SUFFICES ASSUME NEW p \in Place, NEW i \in 1..Len(order'[p])
               PROVE  /\ p # m /\ wp(p, i) \in Place
                      /\ wi(p, i) \in 1..Len(order[wp(p, i)])
                      /\ order'[p][i] = order[wp(p, i)][wi(p, i)]
    OBVIOUS
  <2>0. p # m
    BY <1>3
  <2>1. CASE p = l /\ i <= n
    <3>1. i \in 1..n /\ order'[p][i] = a[i]
      BY <2>1, <1>1, <1>2, <1>3
    <3> QED
      BY <2>0, <2>1, <3>1, <1>1, <1>s
  <2>2. CASE p = l /\ ~(i <= n)
    <3>1. i > n /\ i - n \in 1..k /\ order'[p][i] = b[i - n]
      BY <2>2, <1>1, <1>2, <1>3
    <3> QED
      BY <2>0, <2>2, <3>1, <1>1, <1>s
  <2>3. CASE p # l
    BY <2>0, <2>3, <1>3
  <2> QED
    BY <2>1, <2>2, <2>3
<1>8. OnePlace'
  <2> SUFFICES ASSUME NEW p \in Place, NEW q \in Place,
                      NEW i \in 1..Len(order'[p]), NEW j \in 1..Len(order'[q]),
                      order'[p][i] = order'[q][j]
               PROVE  p = q /\ i = j
    BY DEF OnePlace
  <2> DEFINE x == wi(p, i)
             y == wi(q, j)
             pp == wp(p, i)
             qq == wp(q, j)
  <2>1. p # m /\ pp \in Place /\ x \in 1..Len(order[pp]) /\ order'[p][i] = order[pp][x]
    BY <1>7
  <2>2. q # m /\ qq \in Place /\ y \in 1..Len(order[qq]) /\ order'[q][j] = order[qq][y]
    BY <1>7
  <2> HIDE DEF x, y, pp, qq
  <2>3. pp = qq /\ x = y
    <3>1. order[pp][x] = order[qq][y]
      BY <2>1, <2>2, Zenon
    <3> QED
      BY <2>1, <2>2, <3>1, <1>5
  <2>4. i \in Nat \ {0} /\ j \in Nat \ {0}
    <3>1. Len(order'[p]) \in Nat /\ Len(order'[q]) \in Nat
      BY <1>3
    <3> QED
      BY <3>1
  <2> QED
    BY <2>1, <2>2, <2>3, <2>4, <1>1 DEF x, y, pp, qq
<1>9. ForwardLinks'
  <2> SUFFICES ASSUME NEW p \in Place, NEW i \in 1..Len(order'[p])
               PROVE  next'[order'[p][i]] = AfterIn(order'[p], i)
    BY DEF ForwardLinks, AfterIn
  <2>1. CASE p # l
    <3>1. p # m /\ order'[p] = order[p] /\ i \in 1..Len(order[p])
      BY <2>1, <1>3, <1>7
    <3>2. order[p][i] \in Elem
      BY <3>1, <1>4
    <3>3. (k > 0 => order[p][i] # b[1]) /\ (n > 0 => order[p][i] # a[n])
      BY <2>1, <3>1, <1>1, <1>5, <1>i, <1>s
    <3> QED
      BY <3>1, <3>2, <3>3, <1>n, <1>w DEF AfterIn
  <2>2. CASE p = l /\ i < n
    <3>0. i \in 1..n /\ i + 1 \in 1..n /\ i # n + k
      BY <2>2, <1>x, <1>c
    <3>1. /\ i \in 1..n /\ i + 1 \in 1..n /\ i # n + k
          /\ c[i] = a[i] /\ c[i + 1] = a[i + 1]
      BY <3>0, <1>c, <1>3
    <3>2. (k > 0 => a[i] # b[1]) /\ a[i] # a[n]
      BY <2>2, <3>1, <1>1, <1>5, <1>i, <1>s
    <3>3. next'[a[i]] = a[i + 1]
      BY <2>2, <3>1, <3>2, <1>1, <1>i, <1>n, <1>s, <1>w, SMTT(30) DEF AfterIn
    <3> QED
      BY <2>2, <3>1, <3>3, <1>2, <1>3 DEF AfterIn
  <2>3. CASE p = l /\ i = n
    <3>0. n > 0 /\ n \in 1..n
      BY <2>3, <1>x, <1>c
    <3>1. n > 0 /\ c[n] = a[n] /\ (k > 0 => c[n + 1] = b[1]) /\ a[n] \in Elem
      BY <3>0, <1>c, <1>3, <1>i
    <3>2. next[a[n]] = NULL
      BY <3>1, <1>1, <1>i, <1>n, <1>s DEF AfterIn
    <3>3. k > 0 => a[n] # b[1]
      BY <3>1, <1>1, <1>5, <1>i, <1>s
    <3>4. next'[a[n]] = IF k > 0 THEN b[1] ELSE NULL
      BY <3>1, <3>2, <3>3, <1>w
    <3> QED
      BY <2>3, <3>1, <3>4, <1>1, <1>2, <1>3 DEF AfterIn
  <2>4. CASE p = l /\ i > n /\ n = 0
    <3>0. i \in 1..k /\ n + i = i /\ (i # k => i + 1 \in 1..k /\ n + (i + 1) = i + 1)
      BY <2>4, <1>x, <1>c
    <3>1. i \in 1..k /\ c[i] = b[i] /\ (i # k => c[i + 1] = b[i + 1])
      BY <3>0, <1>c, <1>3
    <3>2. next'[b[i]] = AfterIn(b, i)
      BY <2>4, <3>1, <1>1, <1>i, <1>n, <1>s, <1>w
    <3> QED
      BY <2>4, <3>1, <3>2, <1>1, <1>2, <1>3 DEF AfterIn
  <2>5. CASE p = l /\ i > n /\ n # 0
    <3>0. k = 1 /\ i = n + 1 /\ n > 0
      <4>1. i \in 1..n + k
        BY <2>5, <1>c
      <4>2. k <= 1
        BY <2>5, <1>e
      <4>3. \A x, y \in Nat : \A j \in 1..x + y :
              y <= 1 /\ j > x /\ x # 0 => y = 1 /\ j = x + 1 /\ x > 0
        OBVIOUS
      <4> QED
        BY <2>5, <4>1, <4>2, <4>3, <1>x, Zenon
    <3>1. k = 1 /\ i = n + 1 /\ c[i] = b[1] /\ n > 0 /\ b[1] \in Elem
      BY <3>0, <1>c, <1>3, <1>i
    <3>2. next'[b[1]] = NULL
      BY <3>1, <1>w
    <3> QED
      BY <2>5, <3>1, <3>2, <1>1, <1>2, <1>3 DEF AfterIn
  <2>6. i < n \/ i = n \/ i > n
    <3>1. \A x, y \in Int : x < y \/ x = y \/ x > y
      OBVIOUS
    <3> QED
      BY <3>1, <1>x
  <2> QED
    BY <2>1, <2>2, <2>3, <2>4, <2>5, <2>6
<1>10. BackwardLinks'
  <2> SUFFICES ASSUME NEW q \in List, NEW i \in 1..Len(order'[q])
               PROVE  prev'[order'[q][i]] = BeforeIn(order'[q], i)
    BY DEF BackwardLinks, BeforeIn
  <2>1. CASE q # l
    <3>1. q \in Place /\ q # m /\ order'[q] = order[q] /\ i \in 1..Len(order[q])
      BY <2>1, <1>1, <1>3, <1>7
    <3>2. order[q][i] \in Elem
      BY <3>1, <1>4
    <3>3. k > 0 => order[q][i] # b[1]
      BY <3>1, <1>1, <1>5, <1>i, <1>s
    <3> QED
      BY <3>1, <3>2, <3>3, <1>p, <1>w DEF BeforeIn
  <2>2. CASE q = l /\ i <= n
    <3>0. i \in 1..n /\ (i # 1 => i - 1 \in 1..n)
      BY <2>2, <1>x, <1>c
    <3>1. i \in 1..n /\ c[i] = a[i] /\ (i # 1 => c[i - 1] = a[i - 1])
      BY <3>0, <1>c, <1>3
    <3>2. k > 0 => a[i] # b[1]
      BY <3>1, <1>1, <1>5, <1>i, <1>s
    <3>3. prev'[a[i]] = BeforeIn(a, i)
      BY <3>1, <3>2, <1>i, <1>p, <1>s, <1>w
    <3> QED
      BY <2>2, <3>1, <3>3, <1>3 DEF BeforeIn
  <2>3. CASE q = l /\ i > n /\ n = 0
    <3>0. i \in 1..k /\ n + i = i /\ (i # 1 => i - 1 \in 1..k /\ n + (i - 1) = i - 1)
      BY <2>3, <1>x, <1>c
    <3>1. i \in 1..k /\ c[i] = b[i] /\ (i # 1 => c[i - 1] = b[i - 1])
      BY <3>0, <1>c, <1>3
    <3>2. prev'[b[i]] = BeforeIn(b, i)
      BY <2>3, <3>1, <1>i, <1>p, <1>s, <1>w
    <3> QED
      BY <2>3, <3>1, <3>2, <1>3 DEF BeforeIn
  <2>4. CASE q = l /\ i > n /\ n # 0
    <3>1. k = 1 /\ i = n + 1 /\ c[i] = b[1] /\ n > 0 /\ b[1] \in Elem /\ c[n] = a[n]
          /\ i # 1 /\ i - 1 = n
      <4>1. i \in 1..n + k
        BY <2>4, <1>c
      <4>2. k <= 1
        BY <2>4, <1>e
      <4>3. k = 1 /\ i = n + 1 /\ n > 0 /\ i # 1 /\ i - 1 = n /\ n \in 1..n
        <5>1. \A x, y \in Nat : \A j \in 1..x + y :
                y <= 1 /\ j > x /\ x # 0 =>
                y = 1 /\ j = x + 1 /\ x > 0 /\ j # 1 /\ j - 1 = x /\ x \in 1..x
          OBVIOUS
        <5> QED
          BY <2>4, <4>1, <4>2, <5>1, <1>x, Zenon
      <4> QED
        BY <4>3, <1>c, <1>3, <1>i
    <3>2. prev'[b[1]] = a[n]
      BY <3>1, <1>w
    <3> QED
      BY <2>4, <3>1, <3>2, <1>3 DEF BeforeIn
  <2>5. i <= n \/ i > n
    <3>1. \A x, y \in Int : x <= y \/ x > y
      OBVIOUS
    <3> QED
      BY <3>1, <1>x
  <2> QED
    BY <2>1, <2>2, <2>3, <2>4, <2>5
<1>11. Ends'
  <2>1. FirstOf(c) = IF n # 0 THEN FirstOf(a) ELSE FirstOf(b)
    BY <1>1, <1>2 DEF FirstOf
  <2>2. LastOf(c) = IF n # 0 /\ k = 0 THEN LastOf(a) ELSE LastOf(b)
    BY <1>1, <1>2 DEF LastOf
  <2>3. /\ first'[l] = FirstOf(c) /\ last'[l] = LastOf(c) /\ size'[l] = Len(c)
    BY <2>1, <2>2, <1>1, <1>2, <1>e DEF AppendList, ListsTypeOK
  <2>4. first'[m] = NULL /\ last'[m] = NULL /\ size'[m] = 0
    BY <1>1 DEF AppendList, ListsTypeOK
  <2>5. \A q \in List : q # l /\ q # m =>
          /\ first'[q] = first[q] /\ last'[q] = last[q] /\ size'[q] = size[q]
          /\ order'[q] = order[q]
    BY <1>1, <1>3 DEF AppendList, ListsTypeOK
  <2>6. /\ order'[Pool] = order[Pool] /\ order'[Doomed] = order[Doomed]
        /\ tmp' = tmp /\ allocated' = allocated
    BY <1>1, <1>3 DEF AppendList, cursors
  <2>7. Ends /\ Len(<<>>) = 0
    BY DEF LinksRepresentOrder
  <2>8. \A q \in List : /\ first'[q] = FirstOf(order'[q])
                        /\ last'[q] = LastOf(order'[q])
                        /\ size'[q] = Len(order'[q])
    BY <2>3, <2>4, <2>5, <2>7, <1>3 DEF Ends, FirstOf, LastOf
  <2> QED
    BY <2>6, <2>7, <2>8 DEF Ends, FirstOf, LastOf
<1>12. LooseIsUnlinked'
  <2> SUFFICES ASSUME NEW d \in Elem, Loose(d)'
               PROVE  Unlinked(d)'
    BY DEF LooseIsUnlinked
  <2>1. \A p \in Place : \A i \in 1..Len(order'[p]) : order'[p][i] # d
    BY DEF Loose, In
  <2>2. \A i \in 1..n : a[i] # d
    <3>1. \A i \in 1..n : i \in 1..Len(c) /\ c[i] = a[i]
      BY <1>1, <1>2
    <3> QED
      BY <3>1, <2>1, <1>1, <1>3
  <2>3. \A i \in 1..k : b[i] # d
    <3>1. \A i \in 1..k : i + n \in 1..Len(c) /\ c[i + n] = b[i]
      BY <1>1, <1>2
    <3> QED
      BY <3>1, <2>1, <1>1, <1>3
  <2>4. Loose(d)
    BY <2>1, <2>2, <2>3, <1>3, <1>s DEF Loose, In
  <2>5. n > 0 /\ k > 0 => d # b[1] /\ d # a[n]
    BY <2>2, <2>3, <1>i
  <2> QED
    BY <2>4, <2>5, <1>w DEF LinksRepresentOrder, LooseIsUnlinked, Unlinked
<1> QED
  BY <1>6, <1>8, <1>9, <1>10, <1>11, <1>12 DEF LinksRepresentOrder
-----------------------------------------------------------------------------
\* What every step preserves.  LinksRepresentOrder alone does not: the search
\* of Add must know that its element is still loose when the search ends.
IInv == TypeOK /\ LinksRepresentOrder /\ SeekInv

\* The new chunk is threaded into one free list and every list is empty.
LEMMA InitIInv ==
  ASSUME Init
  PROVE  IInv
<1> DEFINE chunk == [e \in Elem |-> e]
<1>1. NBALLOC \in Nat \ {0} /\ Elem = 1..NBALLOC
  BY ChunkSize DEF Elem
<1>2. chunk \in Seq(Elem) /\ Len(chunk) = NBALLOC /\ \A e \in Elem : chunk[e] = e
  BY <1>1
<1>3. /\ Pool \in Place /\ order[Pool] = chunk
      /\ \A p \in Place : p # Pool => order[p] = <<>>
      /\ order \in [Place -> Seq(Elem)]
  <2>1. order = [p \in Place |-> IF p = Pool THEN chunk ELSE <<>>]
    BY DEF Init, SeqInit
  <2> HIDE DEF chunk
  <2>2. Pool \in Place /\ <<>> \in Seq(Elem)
    BY DEF Place
  <2> QED
    BY <2>1, <2>2, <1>2
<1> HIDE DEF chunk
<1>4. Len(<<>>) = 0
  OBVIOUS
<1>5. \A l \in List : l \in Place /\ l # Pool /\ order[l] = <<>>
  BY <1>3, PlacesDistinct DEF Place
<1>6. order[Doomed] = <<>>
  BY <1>3, PlacesDistinct DEF Place
<1>7. TypeOK
  <2>1. next \in [Elem -> Pointer]
    <3>1. \A e \in Elem : e # NBALLOC => e + 1 \in Elem
      BY <1>1
    <3> QED
      BY <3>1 DEF Init, Pointer
  <2>2. allocated \in Pointer
    BY <1>1 DEF Init, Pointer
  <2> QED
    BY <2>1, <2>2, <1>3 DEF Init, SeqInit, TypeOK, Pointer
<1>8. \A p \in Place : \A i \in 1..Len(order[p]) :
        p = Pool /\ i \in Elem /\ order[p][i] = i
  BY <1>1, <1>2, <1>3, <1>4
<1>9. OnePlace
  <2> SUFFICES ASSUME NEW p \in Place, NEW q \in Place,
                      NEW i \in 1..Len(order[p]), NEW j \in 1..Len(order[q]),
                      order[p][i] = order[q][j]
               PROVE  p = q /\ i = j
    BY DEF OnePlace
  <2> QED
    BY <1>8
<1>10. ForwardLinks
  <2> SUFFICES ASSUME NEW p \in Place, NEW i \in 1..Len(order[p])
               PROVE  next[order[p][i]] = AfterIn(order[p], i)
    BY DEF ForwardLinks, AfterIn
  <2>1. p = Pool /\ i \in Elem /\ order[p][i] = i
    BY <1>8
  <2>2. i # NBALLOC => i + 1 \in Elem
    BY <2>1, <1>1
  <2> QED
    BY <2>1, <2>2, <1>2, <1>3 DEF AfterIn, Init
<1>11. BackwardLinks
  BY <1>4, <1>5 DEF BackwardLinks
<1>12. Ends
  <2>1. allocated = FirstOf(chunk)
    BY <1>1, <1>2 DEF Init, FirstOf
  <2> QED
    BY <2>1, <1>3, <1>4, <1>5, <1>6 DEF Ends, Init, FirstOf, LastOf
<1>13. LooseIsUnlinked
  <2>1. \A e \in Elem : e \in 1..Len(order[Pool]) /\ order[Pool][e] = e
    BY <1>1, <1>2, <1>3
  <2> QED
    BY <2>1, <1>3 DEF LooseIsUnlinked, Loose, In
<1>14. SeekInv
  BY DEF SeekInv, Init
<1> QED
  BY <1>7, <1>9, <1>10, <1>11, <1>12, <1>13, <1>14 DEF IInv, LinksRepresentOrder

\* Every step, by the representation lemma of its action.
LEMMA NextRepresents ==
  ASSUME IInv, Next
  PROVE  ListsTypeOK' /\ LinksRepresentOrder'
<1> USE DEF IInv
<1>t. /\ ListsTypeOK /\ adding \in Pointer /\ into \in List
      /\ LinksRepresentOrder /\ SeekInv
  BY DEF TypeOK, ListsTypeOK
<1> USE <1>t
<1>1. CASE \E e \in Elem : Free(e)
  BY <1>1, FreeRepresents
<1>2. CASE \E e \in Elem, v \in Value : Allocate(e, v)
  BY <1>2, AllocateRepresents
<1>3. ASSUME NEW l \in List, NEW e \in Elem, AddFirst(l, e)
      PROVE  ListsTypeOK' /\ LinksRepresentOrder'
  <2>1. 1 \in 1..Len(order[l]) + 1 /\ LinkAt(l, e, 1)
    BY <1>3, AddFirstLinks
  <2> QED
    BY <2>1, <1>3, LinkAtRepresents DEF AddFirst, PushFirst
<1>4. ASSUME NEW l \in List, NEW e \in Elem, AddLast(l, e)
      PROVE  ListsTypeOK' /\ LinksRepresentOrder'
  <2>1. /\ Len(order[l]) + 1 \in 1..Len(order[l]) + 1
        /\ LinkAt(l, e, Len(order[l]) + 1)
    BY <1>4, AddLastLinks
  <2> QED
    BY <2>1, <1>4, LinkAtRepresents DEF AddLast, PushLast
<1>5. ASSUME NEW l \in List, NEW e \in Elem, RemoveElem(l, e)
      PROVE  ListsTypeOK' /\ LinksRepresentOrder'
  BY <1>5, RemoveRepresents
<1>6. ASSUME NEW l \in List, NEW e \in Elem, AddToEmpty(l, e)
      PROVE  ListsTypeOK' /\ LinksRepresentOrder'
  <2>1. 1 \in 1..Len(order[l]) + 1 /\ LinkAt(l, e, 1)
    BY <1>6, AddToEmptyLinks
  <2> QED
    BY <2>1, <1>6, LinkAtRepresents DEF AddToEmpty, Insert
<1>7. ASSUME NEW l \in List, NEW e \in Elem, NEW f \in Elem, AddAfter(l, e, f)
      PROVE  ListsTypeOK' /\ LinksRepresentOrder'
  <2>1. /\ IndexOf(order[l], f) + 1 \in 1..Len(order[l]) + 1
        /\ LinkAt(l, e, IndexOf(order[l], f) + 1)
    BY <1>7, AddAfterLinks
  <2> QED
    BY <2>1, <1>7, LinkAtRepresents DEF AddAfter, InsertAfter
<1>8. ASSUME NEW l \in List, NEW e \in Elem, NEW f \in Elem, AddBefore(l, e, f)
      PROVE  ListsTypeOK' /\ LinksRepresentOrder'
  <2>1. /\ IndexOf(order[l], f) \in 1..Len(order[l]) + 1
        /\ LinkAt(l, e, IndexOf(order[l], f))
    BY <1>8, AddBeforeLinks
  <2> QED
    BY <2>1, <1>8, LinkAtRepresents DEF AddBefore, InsertBefore
<1>9. CASE AddInFront
  BY <1>9, AddInFrontLinks, LinkAtRepresents
<1>10. CASE AddBehind
  BY <1>10, AddBehindLinks, LinkAtRepresents
<1>11. CASE AddSeek \/ \E l \in List, e \in Elem : AddBegin(l, e)
  <2>1. UNCHANGED <<order, value, next, prev, first, last, size, allocated, tmp>>
    BY <1>11 DEF AddSeek, AddBegin, links, heads
  <2>2. ListsTypeOK'
    BY <2>1 DEF ListsTypeOK
  <2>3. LinksRepresentOrder'
    BY <2>1 DEF LinksRepresentOrder, OnePlace, ForwardLinks, BackwardLinks, Ends,
                LooseIsUnlinked, Loose, In, Unlinked, AfterIn, BeforeIn,
                FirstOf, LastOf
  <2> QED
    BY <2>2, <2>3
<1>12. CASE \E l \in List : ClearBegin(l)
  BY <1>12, ClearBeginRepresents
<1>13. CASE ClearStep
  BY <1>13, ClearStepRepresents DEF ClearStep
<1>14. CASE \E l, m \in List : (size[l] = 0 \/ size[m] <= 1) /\ AppendList(l, m)
  BY <1>14, AppendRepresents
<1> QED
  BY <1>1, <1>2, <1>3, <1>4, <1>5, <1>6, <1>7, <1>8, <1>9, <1>10, <1>11, <1>12,
     <1>13, <1>14 DEF Next, ListOps, AddSteps

\* The cursor of a running Add.
LEMMA NextSeeks ==
  ASSUME IInv, Next
  PROVE  /\ SeekInv'
         /\ adding' \in Pointer /\ into' \in List /\ at' \in Pointer
<1> USE DEF IInv
<1>t. /\ ListsTypeOK /\ adding \in Pointer /\ into \in List /\ at \in Pointer
      /\ LinksRepresentOrder /\ SeekInv
  BY DEF TypeOK, ListsTypeOK
<1>1. ASSUME NEW l \in List, NEW e \in Elem, AddBegin(l, e)
      PROVE  /\ SeekInv'
             /\ adding' \in Pointer /\ into' \in List /\ at' \in Pointer
  <2>1. /\ adding' = e /\ into' = l /\ at' = first[l] /\ Loose(e) /\ tmp = NULL
        /\ size[l] # 0
        /\ UNCHANGED <<order, value, next, prev, first, last, size, allocated, tmp>>
    BY <1>1 DEF AddBegin, Idle, links, heads
  <2>2. Loose(e)'
    BY <2>1 DEF Loose, In
  <2>3. /\ Len(order[l]) \in Nat /\ size[l] = Len(order[l])
        /\ first[l] = FirstOf(order[l])
    BY <1>t, Neighbours
  <2>4. /\ size[l] > 0 /\ 1 \in 1..Len(order[l]) + 1 /\ 1 # Len(order[l]) + 1
        /\ first[l] = order[l][1]
    BY <2>1, <2>3 DEF FirstOf
  <2>5. at' = IF 1 = Len(order'[l]) + 1 THEN NULL ELSE order'[l][1]
    BY <2>1, <2>4
  <2>6. \A i \in 1..1 - 1 : value'[order'[l][i]] < value'[e]
    OBVIOUS
  <2>7. SeekInv'
    BY <2>1, <2>2, <2>4, <2>5, <2>6 DEF SeekInv
  <2> QED
    BY <2>1, <2>7, <1>t DEF Pointer, ListsTypeOK
<1>2. CASE AddSeek
  <2>1. /\ adding # NULL /\ at # NULL /\ value[at] < value[adding] /\ at' = next[at]
        /\ UNCHANGED <<order, value, next, prev, first, last, size, allocated,
                       adding, into, tmp>>
    BY <1>2 DEF AddSeek, links, heads
  <2>2. Loose(adding)' /\ tmp' = NULL /\ size'[into'] > 0
    BY <2>1, <1>t DEF SeekInv, Loose, In
  <2>3. PICK k \in 1..Len(order[into]) + 1 :
          /\ at = IF k = Len(order[into]) + 1 THEN NULL ELSE order[into][k]
          /\ \A i \in 1..k - 1 : value[order[into][i]] < value[adding]
    BY <2>1, <1>t DEF SeekInv
  <2>n. Len(order[into]) \in Nat
    BY <1>t, Neighbours
  <2>4. k \in 1..Len(order[into]) /\ at = order[into][k]
    BY <2>1, <2>3, <2>n
  <2>5. at' = AfterIn(order[into], k)
    BY <2>1, <2>4, <1>t, Neighbours
  <2>6. /\ k + 1 \in 1..Len(order[into]) + 1
        /\ k + 1 = Len(order[into]) + 1 <=> k = Len(order[into])
        /\ \A i \in 1..(k + 1) - 1 : i \in 1..k - 1 \/ i = k
    BY <2>4, <2>n
  <2>7. \A i \in 1..(k + 1) - 1 : value[order[into][i]] < value[adding]
    BY <2>1, <2>3, <2>4, <2>6
  <2>8. at' = IF k + 1 = Len(order[into]) + 1 THEN NULL ELSE order[into][k + 1]
    BY <2>5, <2>6 DEF AfterIn
  <2>9. SeekInv'
    BY <2>1, <2>2, <2>6, <2>7, <2>8 DEF SeekInv
  <2>10. at' \in Pointer
    BY <2>1, <1>t DEF ListsTypeOK, Pointer
  <2> QED
    BY <2>1, <2>9, <2>10, <1>t
<1>3. CASE ClearStep
  <2>1. /\ tmp # NULL /\ adding' = adding /\ into' = into /\ at' = at
    BY <1>3 DEF ClearStep
  <2>2. adding = NULL
    BY <2>1, <1>t DEF SeekInv
  <2> QED
    BY <2>1, <2>2, <1>t DEF SeekInv
<1>4. CASE AddInFront \/ AddBehind
  BY <1>4, <1>t DEF AddInFront, AddBehind, SeekInv, Pointer
<1>5. CASE adding = NULL /\ adding' = adding /\ into' = into /\ at' = at
  BY <1>5, <1>t DEF SeekInv
<1>6. ASSUME NEW l \in List, NEW e \in Elem, NEW f \in Elem,
             AddAfter(l, e, f) \/ AddBefore(l, e, f)
      PROVE  adding = NULL /\ adding' = adding /\ into' = into /\ at' = at
  BY <1>6 DEF AddAfter, AddBefore, Idle, cursors
<1>7. ASSUME NEW l \in List, NEW e \in Elem,
             AddFirst(l, e) \/ AddLast(l, e) \/ RemoveElem(l, e) \/ AddToEmpty(l, e)
      PROVE  adding = NULL /\ adding' = adding /\ into' = into /\ at' = at
  BY <1>7 DEF AddFirst, AddLast, RemoveElem, AddToEmpty, Idle, cursors
<1>8. ASSUME NEW e \in Elem, Free(e) \/ \E v \in Value : Allocate(e, v)
      PROVE  adding = NULL /\ adding' = adding /\ into' = into /\ at' = at
  BY <1>8 DEF Free, Allocate, Idle, cursors
<1>9. ASSUME NEW l \in List, ClearBegin(l) \/ \E m \in List : AppendList(l, m)
      PROVE  adding = NULL /\ adding' = adding /\ into' = into /\ at' = at
  BY <1>9 DEF ClearBegin, AppendList, Idle, cursors
<1> QED
  BY <1>1, <1>2, <1>3, <1>4, <1>5, <1>6, <1>7, <1>8, <1>9 DEF Next, ListOps, AddSteps

\* The inductive step.
LEMMA NextIInv ==
  ASSUME IInv, [Next]_vars
  PROVE  IInv'
<1>1. CASE Next
  BY <1>1, NextRepresents, NextSeeks DEF IInv, TypeOK, ListsTypeOK
<1>2. CASE UNCHANGED vars
  <2>1. TypeOK'
    BY <1>2 DEF IInv, TypeOK, vars
  <2>2. LinksRepresentOrder'
    BY <1>2 DEF IInv, LinksRepresentOrder, OnePlace, ForwardLinks, BackwardLinks,
                Ends, LooseIsUnlinked, Loose, In, Unlinked, AfterIn, BeforeIn,
                FirstOf, LastOf, vars
  <2>3. SeekInv'
    BY <1>2 DEF IInv, SeekInv, Loose, In, vars
  <2> QED
    BY <2>1, <2>2, <2>3 DEF IInv
<1> QED
  BY <1>1, <1>2

\* The invariant the other theorems follow from.
THEOREM Inductive == Spec => []IInv
<1>1. Init => IInv
  BY InitIInv
<1>2. IInv /\ [Next]_vars => IInv'
  BY NextIInv
<1> QED
  BY <1>1, <1>2, PTL DEF Spec

(***************************************************************************)
(* For any number of lists, elements and labels, every variable keeps its *)
(* type: no pointer ever leaves the chunk.                                 *)
(***************************************************************************)
THEOREM TypeCorrect == Spec => []TypeOK
<1>1. IInv => TypeOK
  BY DEF IInv
<1> QED
  BY <1>1, Inductive, PTL

(***************************************************************************)
(* The pointer manipulations of DblListElement, DblList, DblOrderedList   *)
(* and the allocators of Arc and Node keep spelling the clients' sequences *)
(* for any number of lists, elements and labels.                           *)
(***************************************************************************)
THEOREM LinksCorrect == Spec => []LinksRepresentOrder
<1>1. IInv => LinksRepresentOrder
  BY DEF IInv
<1> QED
  BY <1>1, Inductive, PTL

(***************************************************************************)
(* While Add seeks its place the element stays out of every list, the      *)
(* cursor stays in the list, and what it has passed is smaller, so what    *)
(* Add assigns where it stops can be neither stale nor a second insertion  *)
(* (orderedList.hpp:51-72).                                                *)
(***************************************************************************)
THEOREM SeekCorrect == Spec => []SeekInv
<1>1. IInv => SeekInv
  BY DEF IInv
<1> QED
  BY <1>1, Inductive, PTL
-----------------------------------------------------------------------------
Increasing(s) == \A i, j \in 1..Len(s) : i < j => value[s[i]] <= value[s[j]]

\* An element put where the search of Add stops leaves a list sorted.
LEMMA InsertSorted ==
  ASSUME value \in [Elem -> Value], NEW s \in Seq(Elem), Increasing(s),
         NEW e \in Elem, NEW k \in 1..Len(s) + 1,
         \A i \in 1..k - 1 : value[s[i]] <= value[e],
         k <= Len(s) => value[e] <= value[s[k]]
  PROVE  Increasing(InsertAt(s, k, e))
<1> DEFINE t == InsertAt(s, k, e)
<1>1. /\ Len(t) = Len(s) + 1
      /\ \A i \in 1..Len(s) + 1 :
           t[i] = IF i < k THEN s[i] ELSE IF i = k THEN e ELSE s[i - 1]
  BY InsertAtFacts
<1> HIDE DEF t
<1>2. Len(s) \in Nat /\ \A i \in 1..Len(s) : s[i] \in Elem
  OBVIOUS
<1>3. \A d \in Elem : value[d] \in Int
  BY ValuesAreInts
<1>4. \A i \in 1..Len(s) : i < k => value[s[i]] <= value[e]
  OBVIOUS
<1>5. \A i \in 1..Len(s) : i >= k => value[e] <= value[s[i]]
  <2> SUFFICES ASSUME NEW i \in 1..Len(s), i >= k
               PROVE  value[e] <= value[s[i]]
    OBVIOUS
  <2>1. k \in 1..Len(s) /\ (k < i \/ k = i)
    BY <1>2
  <2>2. value[e] <= value[s[k]]
    BY <2>1
  <2>3. k < i => value[s[k]] <= value[s[i]]
    BY <2>1 DEF Increasing
  <2> QED
    BY <2>1, <2>2, <2>3, <1>2, <1>3
<1>6. \A i \in 1..Len(t) :
        \/ i < k /\ i \in 1..Len(s) /\ t[i] = s[i]
        \/ i = k /\ t[i] = e
        \/ i > k /\ i - 1 \in 1..Len(s) /\ i - 1 >= k /\ t[i] = s[i - 1]
  BY <1>1, <1>2
<1> SUFFICES ASSUME NEW i \in 1..Len(t), NEW j \in 1..Len(t), i < j
             PROVE  value[t[i]] <= value[t[j]]
  BY DEF Increasing, t
<1>i. i \in Int /\ j \in Int /\ k \in Int
  BY <1>1, <1>2
<1>7. CASE i < k
  <2>1. i \in 1..Len(s) /\ t[i] = s[i] /\ value[t[i]] <= value[e]
    BY <1>7, <1>i, <1>6, <1>4
  <2>2. CASE j < k
    BY <2>1, <2>2, <1>i, <1>6 DEF Increasing
  <2>3. CASE j = k
    BY <2>1, <2>3, <1>i, <1>6
  <2>4. CASE j > k
    <3>1. j - 1 \in 1..Len(s) /\ t[j] = s[j - 1] /\ i < j - 1
      BY <2>4, <1>7, <1>i, <1>6
    <3> QED
      BY <3>1, <2>1 DEF Increasing
  <2> QED
    BY <2>2, <2>3, <2>4, <1>i
<1>8. CASE i = k
  BY <1>8, <1>i, <1>5, <1>6
<1>9. CASE i > k
  <2>1. /\ i - 1 \in 1..Len(s) /\ t[i] = s[i - 1]
        /\ j - 1 \in 1..Len(s) /\ t[j] = s[j - 1] /\ i - 1 < j - 1
    BY <1>9, <1>i, <1>6
  <2> QED
    BY <2>1 DEF Increasing
<1> QED
  BY <1>7, <1>8, <1>9, <1>i

\* So does removing one.
LEMMA RemoveSorted ==
  ASSUME NEW s \in Seq(Elem), Increasing(s), NEW k \in 1..Len(s)
  PROVE  Increasing(RemoveAt(s, k))
<1> DEFINE t == RemoveAt(s, k)
           was(i) == IF i < k THEN i ELSE i + 1
<1>1. /\ Len(t) = Len(s) - 1
      /\ \A i \in 1..Len(s) - 1 : t[i] = IF i < k THEN s[i] ELSE s[i + 1]
  BY RemoveAtFacts
<1> HIDE DEF t
<1>2. Len(s) \in Nat
  OBVIOUS
<1>3. \A i \in 1..Len(t) : was(i) \in 1..Len(s) /\ t[i] = s[was(i)]
  BY <1>1, <1>2
<1>4. \A i, j \in 1..Len(t) : i < j => was(i) < was(j)
  BY <1>1, <1>2
<1> QED
  BY <1>3, <1>4 DEF Increasing, t

\* Add puts its element where SeqLists promises: a label in front of the
\* place is smaller, the one behind it is not.
LEMMA AddIsSorted ==
  ASSUME IInv
  PROVE  /\ \A l \in List, e \in Elem : AddToEmpty(l, e) => AddSorted(l, e, 1)
         /\ AddInFront => AddSorted(into, adding, IndexOf(order[into], at))
         /\ AddBehind => AddSorted(into, adding, Len(order[into]) + 1)
<1>t. /\ ListsTypeOK /\ LinksRepresentOrder /\ SeekInv
      /\ adding \in Pointer /\ into \in List
  BY DEF IInv, TypeOK, ListsTypeOK
<1>n. \A l \in List : Len(order[l]) \in Nat /\ size[l] = Len(order[l])
  BY <1>t, Neighbours
<1>1. ASSUME NEW l \in List, NEW e \in Elem, AddToEmpty(l, e)
      PROVE  AddSorted(l, e, 1)
  BY <1>1, <1>n DEF AddToEmpty, AddSorted
<1>2. ASSUME AddInFront
      PROVE  AddSorted(into, adding, IndexOf(order[into], at))
  <2> DEFINE i == IndexOf(order[into], at)
  <2>1. /\ adding # NULL /\ at # NULL /\ ~(value[at] < value[adding])
        /\ Insert(into, adding, i)
    BY <1>2 DEF AddInFront
  <2>2. PICK k \in 1..Len(order[into]) + 1 :
          /\ at = IF k = Len(order[into]) + 1 THEN NULL ELSE order[into][k]
          /\ \A j \in 1..k - 1 : value[order[into][j]] < value[adding]
    BY <2>1, <1>t DEF SeekInv
  <2>3. k \in 1..Len(order[into]) /\ order[into][k] = at
    BY <2>1, <2>2, <1>n, <1>t
  <2>4. i \in 1..Len(order[into]) /\ order[into][i] = at
    BY <2>3 DEF IndexOf
  <2> HIDE DEF i
  <2>5. i = k
    BY <2>3, <2>4, <1>t DEF LinksRepresentOrder, OnePlace, Place
  <2>6. at \in Elem /\ adding \in Elem /\ value \in [Elem -> Value]
    BY <2>1, <2>3, <1>t DEF IInv, TypeOK, Pointer, Place
  <2>7. value[at] \in Int /\ value[adding] \in Int
    BY <2>6, ValuesAreInts
  <2>8. value[at] >= value[adding]
    BY <2>1, <2>7
  <2>9. i \in 1..Len(order[into]) + 1
    BY <2>4, <1>n, <1>t
  <2>10. Loose(adding)
    BY <2>1, <1>t DEF SeekInv
  <2>11. AddSorted(into, adding, i)
    BY <2>1, <2>2, <2>4, <2>5, <2>8, <2>9, <2>10 DEF AddSorted
  <2> QED
    BY <2>11 DEF i
<1>3. ASSUME AddBehind
      PROVE  AddSorted(into, adding, Len(order[into]) + 1)
  <2>1. adding # NULL /\ at = NULL /\ Insert(into, adding, Len(order[into]) + 1)
    BY <1>3 DEF AddBehind
  <2>2. PICK k \in 1..Len(order[into]) + 1 :
          /\ at = IF k = Len(order[into]) + 1 THEN NULL ELSE order[into][k]
          /\ \A j \in 1..k - 1 : value[order[into][j]] < value[adding]
    BY <2>1, <1>t DEF SeekInv
  <2>3. Len(order[into]) \in Nat /\ \A j \in 1..Len(order[into]) : order[into][j] # NULL
    BY <1>t, <1>n, Neighbours
  <2>4. k = Len(order[into]) + 1
    BY <2>1, <2>2, <2>3
  <2>5. Loose(adding)
    BY <2>1, <1>t DEF SeekInv
  <2> QED
    BY <2>1, <2>2, <2>3, <2>4, <2>5 DEF AddSorted
<1> QED
  BY <1>1, <1>2, <1>3

\* Every step keeps the sorted lists sorted: only insertions and removals
\* touch them, and new relabels no element a list holds.
LEMMA NextSorted ==
  ASSUME IInv, SortedLists, Next
  PROVE  SortedLists'
<1>t. /\ ListsTypeOK /\ LinksRepresentOrder
      /\ value \in [Elem -> Value]
      /\ \A l \in Ordered : l \in List /\ l \in Place /\ order[l] \in Seq(Elem)
                            /\ Len(order[l]) \in Nat
                            /\ l # Pool /\ l # Doomed /\ Increasing(order[l])
  BY OrderedAreLists, PlacesDistinct
     DEF IInv, TypeOK, ListsTypeOK, Place, SortedLists, Increasing
<1>g. ASSUME NEW l \in Ordered, value' = value, Increasing(order'[l])
      PROVE  \A i, j \in 1..Len(order'[l]) :
               i < j => value'[order'[l][i]] <= value'[order'[l][j]]
  BY <1>g DEF Increasing
\* Steps that leave the labels and the sorted lists alone.
<1>s. ASSUME value' = value, \A l \in Ordered : order'[l] = order[l]
      PROVE  SortedLists'
  BY <1>s, <1>g, <1>t DEF SortedLists
\* Steps that change one list.
<1>o. ASSUME NEW l \in List, NEW s \in Seq(Elem), value' = value,
             order' = [order EXCEPT ![l] = s], l \in Ordered => Increasing(s)
      PROVE  SortedLists'
  <2> SUFFICES ASSUME NEW m \in Ordered
               PROVE  Increasing(order'[m])
    BY <1>g, <1>o DEF SortedLists
  <2>1. order'[m] = IF m = l THEN s ELSE order[m]
    BY <1>o, <1>t DEF ListsTypeOK
  <2> QED
    BY <2>1, <1>o, <1>t
<1>1. ASSUME NEW e \in Elem, Free(e)
      PROVE  SortedLists'
  BY <1>1, <1>s, <1>t DEF Free, Delete, ListsTypeOK
<1>2. ASSUME NEW e \in Elem, NEW v \in Value, Allocate(e, v)
      PROVE  SortedLists'
  <2>1. /\ \A l \in Ordered : order'[l] = order[l]
        /\ \A d \in Elem : d # e => value'[d] = value[d]
    BY <1>2, <1>t DEF Allocate, New, ListsTypeOK
  <2>2. \A l \in Ordered : \A i \in 1..Len(order[l]) :
          order[l][i] # e /\ order[l][i] \in Elem
    <3>1. Pool \in Place /\ order[Pool] \in Seq(Elem) /\ order[Pool] # <<>>
          /\ e = Head(order[Pool])
      BY <1>2, <1>t DEF Allocate, New, ListsTypeOK, Place
    <3>2. e = order[Pool][1] /\ 1 \in 1..Len(order[Pool])
      BY <3>1, TailFacts
    <3> QED
      BY <3>1, <3>2, <1>t DEF LinksRepresentOrder, OnePlace
  <2> QED
    BY <2>1, <2>2, <1>t DEF SortedLists, Increasing
<1>3. ASSUME NEW l \in List, NEW e \in Elem, AddFirst(l, e)
      PROVE  SortedLists'
  BY <1>3, <1>s, <1>t DEF AddFirst, PushFirst, ListsTypeOK
<1>4. ASSUME NEW l \in List, NEW e \in Elem, AddLast(l, e)
      PROVE  SortedLists'
  <2> DEFINE s == InsertAt(order[l], Len(order[l]) + 1, e)
  <2>1. order' = [order EXCEPT ![l] = s] /\ value' = value /\ FitsLast(l, e)
    BY <1>4 DEF AddLast, PushLast
  <2>2. order[l] \in Seq(Elem) /\ Len(order[l]) \in Nat
    BY <1>t DEF ListsTypeOK, Place
  <2>3. s \in Seq(Elem)
    BY <2>2, InsertAtFacts
  <2>4. l \in Ordered => Increasing(s)
    <3>1. ASSUME l \in Ordered
          PROVE  /\ \A i \in 1..(Len(order[l]) + 1) - 1 :
                      value[order[l][i]] <= value[e]
                 /\ ~(Len(order[l]) + 1 <= Len(order[l]))
      BY <2>1, <2>2, <3>1 DEF FitsLast
    <3> QED
      BY <3>1, <2>2, <1>t, InsertSorted
  <2> HIDE DEF s
  <2> QED
    BY <2>1, <2>3, <2>4, <1>o
<1>5. ASSUME NEW l \in List, NEW e \in Elem, RemoveElem(l, e)
      PROVE  SortedLists'
  <2> DEFINE k == IndexOf(order[l], e)
             s == RemoveAt(order[l], k)
  <2>1. order' = [order EXCEPT ![l] = s] /\ value' = value /\ In(l, e)
    BY <1>5 DEF RemoveElem, TakeOut
  <2>2. order[l] \in Seq(Elem)
    BY <1>t DEF ListsTypeOK, Place
  <2>3. k \in 1..Len(order[l])
    BY <2>1 DEF IndexOf, In
  <2> HIDE DEF k
  <2>4. s \in Seq(Elem)
    BY <2>2, <2>3, RemoveAtFacts
  <2>5. l \in Ordered => Increasing(s)
    BY <2>2, <2>3, <1>t, RemoveSorted
  <2> HIDE DEF s
  <2> QED
    BY <2>1, <2>4, <2>5, <1>o
<1>6. ASSUME NEW l \in List, NEW e \in Elem, NEW k \in 1..Len(order[l]) + 1,
             AddSorted(l, e, k)
      PROVE  SortedLists'
  <2> DEFINE s == InsertAt(order[l], k, e)
  <2>1. /\ order' = [order EXCEPT ![l] = s] /\ value' = value
        /\ \A i \in 1..k - 1 : value[order[l][i]] < value[e]
        /\ k <= Len(order[l]) => value[order[l][k]] >= value[e]
    BY <1>6 DEF AddSorted, Insert
  <2>2. order[l] \in Seq(Elem) /\ Len(order[l]) \in Nat
    BY <1>t DEF ListsTypeOK, Place
  <2>3. s \in Seq(Elem)
    BY <2>2, InsertAtFacts
  <2>4. \A d \in Elem : value[d] \in Int
    BY <1>t, ValuesAreInts
  <2>5. \A i \in 1..Len(order[l]) : order[l][i] \in Elem
    BY <2>2
  <2>6. \A i \in 1..k - 1 : value[order[l][i]] <= value[e]
    <3>1. \A i \in 1..k - 1 : i \in 1..Len(order[l])
      BY <2>2
    <3> QED
      BY <3>1, <2>1, <2>4, <2>5
  <2>7. k <= Len(order[l]) => value[e] <= value[order[l][k]]
    <3>1. k <= Len(order[l]) => k \in 1..Len(order[l])
      BY <2>2
    <3> QED
      BY <3>1, <2>1, <2>4, <2>5
  <2>8. l \in Ordered => Increasing(s)
    BY <2>2, <2>6, <2>7, <1>t, InsertSorted
  <2> HIDE DEF s
  <2> QED
    BY <2>1, <2>3, <2>8, <1>o
<1>7. ASSUME NEW l \in List, NEW e \in Elem, NEW f \in Elem,
             AddAfter(l, e, f) \/ AddBefore(l, e, f)
      PROVE  SortedLists'
  BY <1>7, <1>s, <1>t DEF AddAfter, AddBefore, InsertAfter, InsertBefore, ListsTypeOK
<1>8. CASE AddSeek \/ \E l \in List, e \in Elem : AddBegin(l, e)
  BY <1>8, <1>s DEF AddSeek, AddBegin
<1>9. ASSUME NEW l \in List, NEW e \in Elem, AddToEmpty(l, e)
      PROVE  SortedLists'
  <2>1. 1 \in 1..Len(order[l]) + 1
    BY <1>9, <1>t, AddToEmptyLinks
  <2> QED
    BY <2>1, <1>9, <1>6, AddIsSorted
<1>10. CASE AddInFront
  <2>1. /\ adding \in Elem /\ into \in List
        /\ IndexOf(order[into], at) \in 1..Len(order[into]) + 1
    BY <1>10, <1>t, AddInFrontLinks DEF IInv, TypeOK
  <2> QED
    BY <2>1, <1>10, <1>6, AddIsSorted
<1>11. CASE AddBehind
  <2>1. /\ adding \in Elem /\ into \in List
        /\ Len(order[into]) + 1 \in 1..Len(order[into]) + 1
    BY <1>11, <1>t, AddBehindLinks DEF IInv, TypeOK
  <2> QED
    BY <2>1, <1>11, <1>6, AddIsSorted
<1>12. ASSUME NEW l \in List, ClearBegin(l)
       PROVE  SortedLists'
  BY <1>12, <1>s, <1>t DEF ClearBegin, Condemn, ListsTypeOK
<1>13. CASE ClearStep
  BY <1>13, <1>s, <1>t DEF ClearStep, Execute, ListsTypeOK
<1>14. ASSUME NEW l \in List, NEW m \in List, AppendList(l, m)
       PROVE  SortedLists'
  <2>1. /\ order' = [order EXCEPT ![l] = order[l] \o order[m], ![m] = <<>>]
        /\ value' = value /\ l \notin Ordered
    BY <1>14 DEF AppendList, Concat
  <2> SUFFICES ASSUME NEW q \in Ordered
               PROVE  Increasing(order'[q])
    BY <2>1, <1>g DEF SortedLists
  <2>2. order'[q] = IF q = m THEN <<>> ELSE order[q]
    BY <2>1, <1>t DEF ListsTypeOK
  <2>3. Increasing(<<>>)
    BY DEF Increasing
  <2> QED
    BY <2>2, <2>3, <1>t
<1> QED
  BY <1>1, <1>2, <1>3, <1>4, <1>5, <1>7, <1>8, <1>9, <1>10, <1>11, <1>12,
     <1>13, <1>14 DEF Next, ListOps, AddSteps

(***************************************************************************)
(* The arcs of a node are always in increasing order of their labels, for *)
(* any number of nodes, arcs and labels.                                   *)
(***************************************************************************)
THEOREM SortedCorrect == Spec => []SortedLists
<1>1. Init => SortedLists
  <2> SUFFICES ASSUME Init, NEW l \in Ordered
               PROVE  \A i, j \in 1..Len(order[l]) :
                        i < j => value[order[l][i]] <= value[order[l][j]]
    BY DEF SortedLists
  <2>1. l \in Place /\ l # Pool
    BY OrderedAreLists, PlacesDistinct DEF Place
  <2>2. order[l] = <<>>
    BY <2>1 DEF Init, SeqInit
  <2> QED
    BY <2>2
<1>2. IInv /\ SortedLists /\ [Next]_vars => SortedLists'
  <2> SUFFICES ASSUME IInv, SortedLists, [Next]_vars
               PROVE  SortedLists'
    OBVIOUS
  <2>1. CASE Next
    BY <2>1, NextSorted
  <2>2. CASE UNCHANGED vars
    BY <2>2 DEF SortedLists, vars
  <2> QED
    BY <2>1, <2>2
<1> QED
  BY <1>1, <1>2, Inductive, PTL DEF Spec

(***************************************************************************)
(* The pointers implement the sequences: with LinksCorrect, every         *)
(* operation of the lists and of the allocator does to what a client sees *)
(* what SeqLists promises, for any number of lists and elements.           *)
(***************************************************************************)
THEOREM ImplementsSequences == Spec => SeqSpec
<1>1. Init => SeqInit
  BY DEF Init
<1>2. ASSUME IInv, [Next]_vars
      PROVE  [SeqNext]_<<order, value>>
  <2>1. ASSUME NEW e \in Elem, Free(e) \/ \E v \in Value : Allocate(e, v)
        PROVE  SeqNext
    BY <2>1 DEF Free, Allocate, SeqNext
  <2>2. ASSUME NEW l \in List, NEW e \in Elem,
               AddFirst(l, e) \/ AddLast(l, e) \/ RemoveElem(l, e)
        PROVE  SeqNext
    BY <2>2 DEF AddFirst, AddLast, RemoveElem, SeqNext
  <2>3. ASSUME NEW l \in List, NEW e \in Elem, NEW f \in Elem,
               AddAfter(l, e, f) \/ AddBefore(l, e, f)
        PROVE  SeqNext
    BY <2>3 DEF AddAfter, AddBefore, SeqNext
  <2>4. ASSUME NEW l \in List, NEW e \in Elem, NEW k, AddSorted(l, e, k)
        PROVE  SeqNext
    BY <2>4 DEF SeqNext, AddSorted
  <2>5. ASSUME NEW l \in List, NEW e \in Elem, AddToEmpty(l, e)
        PROVE  SeqNext
    BY <1>2, <2>4, <2>5, AddIsSorted
  <2>6. CASE AddInFront \/ AddBehind
    <3>1. adding \in Elem /\ into \in List
      BY <1>2, <2>6 DEF IInv, TypeOK, Pointer, AddInFront, AddBehind
    <3>. QED
      BY <1>2, <2>4, <2>6, <3>1, AddIsSorted
  <2>7. ASSUME NEW l \in List, ClearBegin(l) \/ \E m \in List : AppendList(l, m)
        PROVE  SeqNext
    BY <2>7 DEF ClearBegin, AppendList, SeqNext
  <2>8. CASE ClearStep
    BY <2>8 DEF ClearStep, SeqNext
  <2>9. CASE AddSeek \/ \E l \in List, e \in Elem : AddBegin(l, e)
    BY <2>9 DEF AddSeek, AddBegin
  <2>10. CASE UNCHANGED vars
    BY <2>10 DEF vars
  <2>. QED
    BY <1>2, <2>1, <2>2, <2>3, <2>5, <2>6, <2>7, <2>8, <2>9, <2>10
       DEF Next, ListOps, AddSteps
<1>. QED
  BY <1>1, <1>2, Inductive, PTL DEF Spec, SeqSpec
=============================================================================
