--------------------------- MODULE SequenceLemmas ---------------------------
(***************************************************************************)
(* The lists of the models are sequences: what their insertions and        *)
(* removals leave where.  Then induction over an interval, recursion along *)
(* it, counting in it, and what a pass of a radix sort does to the packs.  *)
(***************************************************************************)
EXTENDS Integers, Sequences, SequencesExt, SequenceTheorems,
        FunctionTheorems, FiniteSetTheorems, TLAPS

\* A sequence with an element inserted, by position.
LEMMA InsertAtFacts ==
  ASSUME NEW S, NEW s \in Seq(S), NEW e \in S, NEW k \in 1..Len(s) + 1
  PROVE  /\ InsertAt(s, k, e) \in Seq(S)
         /\ Len(InsertAt(s, k, e)) = Len(s) + 1
         /\ \A i \in 1..Len(s) + 1 :
              InsertAt(s, k, e)[i] = IF i < k THEN s[i]
                                     ELSE IF i = k THEN e ELSE s[i - 1]
<1> DEFINE a == SubSeq(s, 1, k - 1)
           b == SubSeq(s, k, Len(s))
<1>1. a \in Seq(S) /\ Len(a) = k - 1 /\ \A i \in 1..k - 1 : a[i] = s[i]
  OBVIOUS
<1>2. /\ b \in Seq(S) /\ Len(b) = Len(s) - k + 1
      /\ \A i \in 1..Len(s) - k + 1 : b[i] = s[k + i - 1]
  OBVIOUS
<1> HIDE DEF a, b
<1> DEFINE u == a \o <<e>>
<1>3. /\ u \in Seq(S) /\ Len(u) = k
      /\ \A i \in 1..k : u[i] = IF i < k THEN s[i] ELSE e
  BY <1>1
<1> HIDE DEF u
<1>4. /\ u \o b \in Seq(S) /\ Len(u \o b) = Len(s) + 1
      /\ \A i \in 1..Len(s) + 1 :
           (u \o b)[i] = IF i <= k THEN u[i] ELSE b[i - k]
  <2>1. Len(u) + Len(b) = Len(s) + 1
    BY <1>2, <1>3
  <2>2. u \in Seq(S) /\ b \in Seq(S) /\ Len(u) = k
    BY <1>2, <1>3
  <2>3. /\ u \o b \in Seq(S) /\ Len(u \o b) = Len(u) + Len(b)
        /\ \A i \in 1..Len(u) + Len(b) :
             (u \o b)[i] = IF i <= Len(u) THEN u[i] ELSE b[i - Len(u)]
    BY <2>2, ConcatProperties
  <2> QED
    BY <2>1, <2>2, <2>3
<1>5. \A i \in 1..Len(s) + 1 : i > k => b[i - k] = s[i - 1]
  BY <1>2
<1>6. InsertAt(s, k, e) = u \o b
  BY DEF InsertAt, a, b, u
<1>7. \A i \in 1..Len(s) + 1 :
        (u \o b)[i] = IF i < k THEN s[i] ELSE IF i = k THEN e ELSE s[i - 1]
  <2> SUFFICES ASSUME NEW i \in 1..Len(s) + 1
               PROVE  (u \o b)[i] = IF i < k THEN s[i]
                                    ELSE IF i = k THEN e ELSE s[i - 1]
    OBVIOUS
  <2> DEFINE c == u \o b
  <2>1. c[i] = IF i <= k THEN u[i] ELSE b[i - k]
    BY <1>4
  <2>2. i <= k => u[i] = IF i < k THEN s[i] ELSE e
    BY <1>3
  <2>3. i > k => b[i - k] = s[i - 1]
    BY <1>5
  <2> HIDE DEF c
  <2>4. c[i] = IF i < k THEN s[i] ELSE IF i = k THEN e ELSE s[i - 1]
    BY <2>1, <2>2, <2>3
  <2> QED
    BY <2>4 DEF c
<1> QED
  BY <1>4, <1>6, <1>7

\* A sequence with an element removed, by position.
LEMMA RemoveAtFacts ==
  ASSUME NEW S, NEW s \in Seq(S), NEW k \in 1..Len(s)
  PROVE  /\ RemoveAt(s, k) \in Seq(S)
         /\ Len(RemoveAt(s, k)) = Len(s) - 1
         /\ \A i \in 1..Len(s) - 1 :
              RemoveAt(s, k)[i] = IF i < k THEN s[i] ELSE s[i + 1]
<1> DEFINE a == SubSeq(s, 1, k - 1)
           b == SubSeq(s, k + 1, Len(s))
<1>1. a \in Seq(S) /\ Len(a) = k - 1 /\ \A i \in 1..k - 1 : a[i] = s[i]
  OBVIOUS
<1>2. /\ b \in Seq(S) /\ Len(b) = Len(s) - k
      /\ \A i \in 1..Len(s) - k : b[i] = s[k + i]
  OBVIOUS
<1> HIDE DEF a, b
<1>3. RemoveAt(s, k) = a \o b
  BY DEF RemoveAt, a, b
<1>4. Len(a) + Len(b) = Len(s) - 1
  BY <1>1, <1>2
<1>c. a \o b \in Seq(S) /\ Len(a \o b) = Len(a) + Len(b)
  BY <1>1, <1>2, ConcatProperties
<1>l. a \o b \in Seq(S) /\ Len(a \o b) = Len(s) - 1
  BY <1>c, <1>4
<1>5. \A i \in 1..Len(s) - 1 :
        (a \o b)[i] = IF i <= k - 1 THEN a[i] ELSE b[i - (k - 1)]
  <2> SUFFICES ASSUME NEW i \in 1..Len(s) - 1
               PROVE  (a \o b)[i] = IF i <= k - 1 THEN a[i] ELSE b[i - (k - 1)]
    OBVIOUS
  <2>1. i \in 1..Len(a) + Len(b)
    BY <1>4
  <2> QED
    BY <1>1, <1>2, <2>1
<1>6. \A i \in 1..Len(s) - 1 : i > k - 1 => b[i - (k - 1)] = s[i + 1]
  BY <1>2
<1> QED
  BY <1>1, <1>3, <1>l, <1>5, <1>6
\* A sequence with an element put in front, by position.
LEMMA ConsFacts ==
  ASSUME NEW S, NEW s \in Seq(S), NEW e \in S
  PROVE  /\ <<e>> \o s \in Seq(S) /\ Len(<<e>> \o s) = Len(s) + 1
         /\ (<<e>> \o s)[1] = e
         /\ \A i \in 1..Len(s) + 1 : i # 1 =>
              i - 1 \in 1..Len(s) /\ (<<e>> \o s)[i] = s[i - 1]
<1>1. <<e>> \in Seq(S) /\ Len(<<e>>) = 1 /\ <<e>>[1] = e /\ Len(s) \in Nat
  OBVIOUS
<1>2. /\ <<e>> \o s \in Seq(S) /\ Len(<<e>> \o s) = 1 + Len(s)
      /\ \A i \in 1..1 + Len(s) :
           (<<e>> \o s)[i] = IF i <= 1 THEN <<e>>[i] ELSE s[i - 1]
  BY <1>1, ConcatProperties
<1> QED
  BY <1>1, <1>2

-----------------------------------------------------------------------------
\* A set of naturals has a least element: the intervals up to its elements are
\* finite sets, and strict inclusion of those is well founded.
LEMMA Least ==
  ASSUME NEW T \in SUBSET Nat, T # {}
  PROVE  Min(T) \in T /\ \A n \in T : Min(T) <= n
<1> DEFINE R == StrictSubsetOrdering(Nat)
           I == {U \in SUBSET Nat : \E n \in T : U = 0..n}
<1>1. \E U \in I : \A V \in I : <<V, U>> \notin R
  <2>1. IsWellFoundedOn(R, FiniteSubsetsOf(Nat))
    BY FS_StrictSubsetOrderingWellFounded
  <2>2. I \subseteq FiniteSubsetsOf(Nat)
    <3> SUFFICES ASSUME NEW n \in T
                 PROVE  IsFiniteSet(0..n)
      BY DEF FiniteSubsetsOf
    <3> QED
      BY FS_Interval
  <2>3. I # {}
    <3>1. PICK n \in T : TRUE
      OBVIOUS
    <3>2. 0..n \in SUBSET Nat
      OBVIOUS
    <3> QED
      BY <3>1, <3>2
  <2> HIDE DEF R, I
  <2> QED
    BY <2>1, <2>2, <2>3, WFMin
<1>2. PICK x \in T : \A V \in I : <<V, 0..x>> \notin R
  BY <1>1
<1>3. \A y \in T : x <= y
  <2> SUFFICES ASSUME NEW y \in T, y < x
               PROVE  FALSE
    OBVIOUS
  <2>1. 0..y \in I
    OBVIOUS
  <2>2. 0..y \subseteq 0..x /\ x \in 0..x /\ x \notin 0..y
    OBVIOUS
  <2>3. <<0..y, 0..x>> \in R
    BY <2>2 DEF StrictSubsetOrdering
  <2> QED
    BY <1>2, <2>1, <2>3
<1> QED
  BY <1>3 DEF Min

\* An element that is there once is removed from its position.
LEMMA RemoveFirstFacts ==
  ASSUME NEW S, NEW s \in Seq(S), NEW k \in 1..Len(s),
         \A i \in 1..Len(s) : s[i] = s[k] => i = k
  PROVE  RemoveFirst(s, s[k]) = RemoveAt(s, k)
<1> DEFINE I == {i \in 1..Len(s) : s[i] = s[k]}
<1>1. I = {k}
  OBVIOUS
<1>2. Min({k}) = k
  BY DEF Min
<1>3. SelectInSeq(s, LAMBDA v : v = s[k]) = k
  BY <1>1, <1>2 DEF SelectInSeq
<1> QED
  BY <1>3 DEF RemoveFirst

\* A sequence that has these elements at these positions is the insertion.
LEMMA IsInsertAt ==
  ASSUME NEW S, NEW r \in Seq(S), NEW e \in S, NEW k \in 1..Len(r) + 1,
         NEW w \in Seq(S), Len(w) = Len(r) + 1,
         \A i \in 1..Len(r) + 1 :
           w[i] = IF i < k THEN r[i] ELSE IF i = k THEN e ELSE r[i - 1]
  PROVE  InsertAt(r, k, e) = w
<1> DEFINE u == InsertAt(r, k, e)
<1>1. /\ u \in Seq(S) /\ Len(u) = Len(r) + 1
      /\ \A i \in 1..Len(r) + 1 :
           u[i] = IF i < k THEN r[i] ELSE IF i = k THEN e ELSE r[i - 1]
  <2>1. r \in Seq(S) /\ e \in S /\ k \in 1..Len(r) + 1
    OBVIOUS
  <2>2. u \in Seq(S)
    BY <2>1, InsertAtFacts
  <2>3. Len(u) = Len(r) + 1
    BY <2>1, InsertAtFacts
  <2>4. \A i \in 1..Len(r) + 1 :
          u[i] = IF i < k THEN r[i] ELSE IF i = k THEN e ELSE r[i - 1]
    BY <2>1, InsertAtFacts
  <2> QED
    BY <2>2, <2>3, <2>4
<1> HIDE DEF u
<1>2. Len(u) = Len(w) /\ \A i \in 1..Len(u) : u[i] = w[i]
  BY <1>1
<1>3. u = w
  BY <1>1, <1>2, SeqEqual
<1> QED
  BY <1>3 DEF u

\* Removing an element and inserting another there replaces it.
LEMMA InsertRemoved ==
  ASSUME NEW S, NEW s \in Seq(S), NEW k \in 1..Len(s), NEW e \in S
  PROVE  InsertAt(RemoveAt(s, k), k, e) = [s EXCEPT ![k] = e]
<1> DEFINE r == RemoveAt(s, k)
           w == [s EXCEPT ![k] = e]
<1>1. /\ r \in Seq(S) /\ Len(r) = Len(s) - 1
      /\ \A i \in 1..Len(s) - 1 : r[i] = IF i < k THEN s[i] ELSE s[i + 1]
  BY RemoveAtFacts
<1>2. /\ w \in Seq(S) /\ Len(w) = Len(s) /\ Len(s) \in Nat
      /\ \A i \in 1..Len(s) : w[i] = IF i = k THEN e ELSE s[i]
  OBVIOUS
<1> HIDE DEF r, w
<1>3. \A i \in 1..Len(r) + 1 :
        w[i] = IF i < k THEN r[i] ELSE IF i = k THEN e ELSE r[i - 1]
  <2> SUFFICES ASSUME NEW i \in 1..Len(s)
               PROVE  w[i] = IF i < k THEN r[i] ELSE IF i = k THEN e ELSE r[i - 1]
    BY <1>1, <1>2
  <2>1. CASE i < k
    <3>1. i \in 1..Len(s) - 1
      BY <1>2, <2>1
    <3>2. r[i] = s[i]
      BY <1>1, <2>1, <3>1
    <3> QED
      BY <1>2, <2>1, <3>2
  <2>2. CASE i = k
    BY <1>2, <2>2
  <2>3. CASE i > k
    <3>1. i - 1 \in 1..Len(s) - 1 /\ ~(i - 1 < k) /\ (i - 1) + 1 = i
      BY <1>2, <2>3
    <3>2. r[i - 1] = s[(i - 1) + 1]
      BY <1>1, <3>1
    <3> QED
      BY <1>2, <2>3, <3>1, <3>2
  <2> QED
    BY <2>1, <2>2, <2>3
<1>4. Len(w) = Len(r) + 1 /\ k \in 1..Len(r) + 1
  BY <1>1, <1>2
<1>5. InsertAt(r, k, e) = w
  BY <1>1, <1>2, <1>3, <1>4, IsInsertAt
<1> QED
  BY <1>5 DEF r, w

-----------------------------------------------------------------------------
(***************************************************************************)
(* Sequences without repetition stand for sets.                            *)
(***************************************************************************)

\* Putting a new element in front adds it to the set.
LEMMA ConsSet ==
  ASSUME NEW S, NEW s \in Seq(S), NEW e \in S, IsInjective(s), e \notin ToSet(s)
  PROVE  /\ <<e>> \o s \in Seq(S) /\ IsInjective(<<e>> \o s)
         /\ ToSet(<<e>> \o s) = ToSet(s) \cup {e}
<1> DEFINE u == <<e>> \o s
<1>1. /\ u \in Seq(S) /\ Len(u) = Len(s) + 1 /\ u[1] = e /\ Len(s) \in Nat
      /\ \A i \in 1..Len(s) + 1 : i # 1 => i - 1 \in 1..Len(s) /\ u[i] = s[i - 1]
  BY ConsFacts
<1>2. DOMAIN s = 1..Len(s) /\ \A i \in 1..Len(s) : s[i] # e
  BY DEF ToSet
<1>3. \A i, j \in 1..Len(s) : s[i] = s[j] => i = j
  BY <1>2 DEF IsInjective
<1> HIDE DEF u
<1>4. DOMAIN u = 1..Len(s) + 1
  BY <1>1
<1>5. IsInjective(u)
  <2> SUFFICES ASSUME NEW i \in 1..Len(s) + 1, NEW j \in 1..Len(s) + 1, u[i] = u[j]
               PROVE  i = j
    BY <1>4 DEF IsInjective
  <2>1. CASE i = 1 \/ j = 1
    BY <1>1, <1>2, <2>1
  <2>2. CASE i # 1 /\ j # 1
    <3>1. i - 1 \in 1..Len(s) /\ j - 1 \in 1..Len(s) /\ s[i - 1] = s[j - 1]
      BY <1>1, <2>2
    <3>2. i - 1 = j - 1
      BY <1>3, <3>1
    <3> QED
      BY <1>1, <3>2
  <2> QED
    BY <2>1, <2>2
<1>6. ToSet(u) \subseteq ToSet(s) \cup {e}
  <2> SUFFICES ASSUME NEW i \in 1..Len(s) + 1
               PROVE  u[i] \in ToSet(s) \cup {e}
    BY <1>4 DEF ToSet
  <2> QED
    BY <1>1, <1>2 DEF ToSet
<1>7. ToSet(s) \cup {e} \subseteq ToSet(u)
  <2>1. e \in ToSet(u)
    BY <1>1, <1>4 DEF ToSet
  <2>2. SUFFICES ASSUME NEW i \in 1..Len(s)
                 PROVE  s[i] \in ToSet(u)
    BY <1>2, <2>1 DEF ToSet
  <2>3. i + 1 \in 1..Len(s) + 1 /\ i + 1 # 1 /\ (i + 1) - 1 = i
    BY <1>1
  <2>4. u[i + 1] = s[(i + 1) - 1]
    BY <1>1, <2>3
  <2> QED
    BY <1>4, <2>3, <2>4 DEF ToSet
<1> QED
  BY <1>1, <1>5, <1>6, <1>7 DEF u

\* Removing an element from it removes it from the set.
LEMMA RemoveFirstSet ==
  ASSUME NEW S, NEW s \in Seq(S), NEW e \in ToSet(s), IsInjective(s)
  PROVE  /\ RemoveFirst(s, e) \in Seq(S) /\ IsInjective(RemoveFirst(s, e))
         /\ ToSet(RemoveFirst(s, e)) = ToSet(s) \ {e}
<1>0. DOMAIN s = 1..Len(s) /\ Len(s) \in Nat
  OBVIOUS
<1>1. PICK k \in 1..Len(s) : s[k] = e
  BY <1>0 DEF ToSet
<1>2. \A i, j \in 1..Len(s) : s[i] = s[j] => i = j
  BY <1>0 DEF IsInjective
<1> DEFINE u == RemoveAt(s, k)
<1>3. RemoveFirst(s, e) = u
  BY <1>1, <1>2, RemoveFirstFacts
<1>4. /\ u \in Seq(S) /\ Len(u) = Len(s) - 1
      /\ \A i \in 1..Len(s) - 1 : u[i] = IF i < k THEN s[i] ELSE s[i + 1]
  BY RemoveAtFacts
<1> HIDE DEF u
<1>5. DOMAIN u = 1..Len(s) - 1
  BY <1>0, <1>4
<1>6. \A i \in 1..Len(s) - 1 :
        \E j \in 1..Len(s) : /\ u[i] = s[j] /\ j # k
                             /\ ((j = i /\ i < k) \/ (j = i + 1 /\ i >= k))
  <2> SUFFICES ASSUME NEW i \in 1..Len(s) - 1
               PROVE  \E j \in 1..Len(s) :
                        /\ u[i] = s[j] /\ j # k
                        /\ ((j = i /\ i < k) \/ (j = i + 1 /\ i >= k))
    OBVIOUS
  <2>1. CASE i < k
    <3>1. i \in 1..Len(s) /\ i # k
      BY <1>0, <2>1
    <3>2. u[i] = s[i]
      BY <1>4, <2>1
    <3> QED
      BY <2>1, <3>1, <3>2
  <2>2. CASE i >= k
    <3>1. i + 1 \in 1..Len(s) /\ i + 1 # k /\ ~(i < k)
      BY <1>0, <2>2
    <3> QED
      BY <1>4, <2>2, <3>1
  <2> QED
    BY <2>1, <2>2
<1>7. IsInjective(u)
  <2> SUFFICES ASSUME NEW i \in 1..Len(s) - 1, NEW j \in 1..Len(s) - 1, u[i] = u[j]
               PROVE  i = j
    BY <1>5 DEF IsInjective
  <2>1. PICK x \in 1..Len(s) : u[i] = s[x] /\ ((x = i /\ i < k) \/ (x = i + 1 /\ i >= k))
    BY <1>6
  <2>2. PICK y \in 1..Len(s) : u[j] = s[y] /\ ((y = j /\ j < k) \/ (y = j + 1 /\ j >= k))
    BY <1>6
  <2>3. x = y
    BY <1>2, <2>1, <2>2
  <2> QED
    BY <2>1, <2>2, <2>3
<1>8. ToSet(u) \subseteq ToSet(s) \ {e}
  <2> SUFFICES ASSUME NEW i \in 1..Len(s) - 1
               PROVE  u[i] \in ToSet(s) \ {e}
    BY <1>5 DEF ToSet
  <2>1. PICK j \in 1..Len(s) : u[i] = s[j] /\ j # k
    BY <1>6
  <2> QED
    BY <1>0, <1>1, <1>2, <2>1 DEF ToSet
<1>9. ToSet(s) \ {e} \subseteq ToSet(u)
  <2> SUFFICES ASSUME NEW i \in 1..Len(s), s[i] # e
               PROVE  s[i] \in ToSet(u)
    BY <1>0 DEF ToSet
  <2>1. CASE i < k
    <3>1. i \in 1..Len(s) - 1
      BY <1>0, <2>1
    <3>2. u[i] = s[i]
      BY <1>4, <2>1, <3>1
    <3> QED
      BY <1>5, <3>1, <3>2 DEF ToSet
  <2>2. CASE i > k
    <3>1. i - 1 \in 1..Len(s) - 1 /\ ~(i - 1 < k) /\ (i - 1) + 1 = i
      BY <1>0, <2>2
    <3>2. u[i - 1] = s[(i - 1) + 1]
      BY <1>4, <3>1
    <3> QED
      BY <1>5, <3>1, <3>2 DEF ToSet
  <2> QED
    BY <1>0, <1>1, <2>1, <2>2
<1> QED
  BY <1>3, <1>4, <1>7, <1>8, <1>9

\* It has as many elements as positions.
LEMMA InjectiveCardinality ==
  ASSUME NEW S, NEW s \in Seq(S), IsInjective(s)
  PROVE  Cardinality(ToSet(s)) = Len(s)
<1> DEFINE T == ToSet(s)
<1>1. s = [i \in 1..Len(s) |-> s[i]] /\ Len(s) \in Nat /\ DOMAIN s = 1..Len(s)
  OBVIOUS
<1>2. \A i \in 1..Len(s) : s[i] \in T
  BY <1>1 DEF ToSet
<1>3. s \in [1..Len(s) -> T]
  BY <1>1, <1>2
<1>4. \A i, j \in 1..Len(s) : s[i] = s[j] => i = j
  BY <1>1 DEF IsInjective
<1>5. \A e \in T : \E i \in 1..Len(s) : s[i] = e
  BY <1>1 DEF ToSet
<1> HIDE DEF T
<1>6. s \in Bijection(1..Len(s), T)
  BY <1>3, <1>4, <1>5, Fun_IsBij
<1>7. ExistsBijection(1..Len(s), T)
  BY <1>6 DEF ExistsBijection
<1>8. Cardinality(T) = Len(s)
  BY <1>1, <1>7, FS_CountingElements
<1> QED
  BY <1>8 DEF T
-----------------------------------------------------------------------------
(***************************************************************************)
(* Induction over the naturals and what follows from it: that functions   *)
(* defined by recursion exist, and that counting the elements before each *)
(* element of a finite order numbers them.                                 *)
(*                                                                         *)
(* The induction is one over the members of a set, since no prover here   *)
(* can instantiate a theorem about an operator.                            *)
(***************************************************************************)

\* What holds of 0 and of the successor of each number holds up to n.
LEMMA UpTo ==
  ASSUME NEW n \in Nat, NEW T, 0 \in T, \A i \in 0..n - 1 : i \in T => i + 1 \in T
  PROVE  \A i \in 0..n : i \in T
<1> DEFINE Bad == {i \in 0..n : i \notin T}
<1> SUFFICES ASSUME Bad # {}
             PROVE  FALSE
  OBVIOUS
<1> DEFINE b == Min(Bad)
<1>1. Bad \in SUBSET Nat
  OBVIOUS
<1>2. b \in Bad /\ \A i \in Bad : b <= i
  <2> HIDE DEF Bad
  <2> QED
    BY <1>1, Least
<1> HIDE DEF b
<1>4. b \in 1..n
  BY <1>2
<1>5. b - 1 \in 0..n - 1 /\ (b - 1) + 1 = b
  BY <1>4
<1>6. b - 1 \in T
  BY <1>2, <1>4, <1>5
<1> QED
  BY <1>2, <1>5, <1>6

\* What holds of n and of the predecessor of each number holds down to 0.
LEMMA DownFrom ==
  ASSUME NEW n \in Nat, NEW T, n \in T, \A i \in 1..n : i \in T => i - 1 \in T
  PROVE  \A i \in 0..n : i \in T
<1> DEFINE U == {i \in 0..n : n - i \in T}
<1>1. 0 \in U
  OBVIOUS
<1>2. \A i \in 0..n - 1 : i \in U => i + 1 \in U
  <2> SUFFICES ASSUME NEW i \in 0..n - 1, n - i \in T
               PROVE  n - (i + 1) \in T
    OBVIOUS
  <2>1. n - i \in 1..n /\ (n - i) - 1 = n - (i + 1)
    OBVIOUS
  <2> QED
    BY <2>1
<1> HIDE DEF U
<1>3. \A i \in 0..n : i \in U
  BY <1>1, <1>2, UpTo
<1> SUFFICES ASSUME NEW i \in 0..n
             PROVE  i \in T
  OBVIOUS
<1>4. n - i \in 0..n /\ n - (n - i) = i
  OBVIOUS
<1>5. n - i \in U
  BY <1>3, <1>4
<1> QED
  BY <1>4, <1>5 DEF U

\* f begins with a and goes on by steps.
Iterates(f, a, step, n) == f[0] = a /\ \A i \in 1..n : f[i] = step[i][f[i - 1]]

\* A function given by its first value and the step to the next one exists.
LEMMA RecursionExists ==
  ASSUME NEW n \in Nat, NEW S, NEW a \in S, NEW step \in [1..n -> [S -> S]]
  PROVE  \E f : f \in [0..n -> S] /\ Iterates(f, a, step, n)
<1> DEFINE Upto(f, k) == f \in [0..k -> S] /\ f[0] = a
                         /\ \A i \in 1..k : f[i] = step[i][f[i - 1]]
           T == {k \in 0..n : \E f : Upto(f, k)}
<1>1. 0 \in T
  <2> DEFINE f == [i \in 0..0 |-> a]
  <2>1. Upto(f, 0)
    OBVIOUS
  <2> HIDE DEF Upto, f
  <2> QED
    BY <2>1
<1>2. ASSUME NEW k \in 0..n - 1, k \in T
      PROVE  k + 1 \in T
  <2>1. PICK f : Upto(f, k)
    BY <1>2
  <2> DEFINE g == [i \in 0..k + 1 |-> IF i = k + 1 THEN step[k + 1][f[k]] ELSE f[i]]
  <2>2. k \in 0..k /\ k + 1 \in 1..n /\ f[k] \in S
    BY <2>1
  <2>3. step[k + 1][f[k]] \in S
    <3>1. step[k + 1] \in [S -> S]
      BY <2>2
    <3> QED
      BY <2>2, <3>1
  <2>4. g \in [0..k + 1 -> S]
    BY <2>1, <2>3
  <2>5. g[0] = a
    BY <2>1
  <2>6. ASSUME NEW i \in 1..k + 1
        PROVE  g[i] = step[i][g[i - 1]]
    <3>1. CASE i = k + 1
      <4>1. i \in 0..k + 1 /\ i - 1 = k /\ k \in 0..k + 1 /\ k # k + 1
        BY <3>1
      <4>2. g[i] = step[k + 1][f[k]] /\ g[k] = f[k]
        BY <3>1, <4>1
      <4> QED
        BY <3>1, <4>1, <4>2
    <3>2. CASE i # k + 1
      <4>1. i \in 1..k /\ i \in 0..k + 1 /\ i - 1 \in 0..k + 1 /\ i - 1 # k + 1
        BY <3>2
      <4>2. g[i] = f[i] /\ g[i - 1] = f[i - 1]
        BY <3>2, <4>1
      <4> QED
        BY <2>1, <4>1, <4>2
    <3> QED
      BY <3>1, <3>2
  <2>7. Upto(g, k + 1)
    BY <2>4, <2>5, <2>6
  <2> HIDE DEF Upto, g
  <2> QED
    BY <2>7
<1> HIDE DEF T
<1>3. n \in 0..n
  OBVIOUS
<1>4. n \in T
  BY <1>1, <1>2, <1>3, UpTo
<1>5. PICK f : f \in [0..n -> S] /\ f[0] = a /\ \A i \in 1..n : f[i] = step[i][f[i - 1]]
  BY <1>4 DEF T
<1> QED
  BY <1>5 DEF Iterates

-----------------------------------------------------------------------------
(***************************************************************************)
(* Counting.                                                               *)
(***************************************************************************)

\* The numbers below n, and any of them.
LEMMA BelowFinite ==
  ASSUME NEW n \in Nat
  PROVE  /\ IsFiniteSet(0..n - 1) /\ Cardinality(0..n - 1) = n
         /\ \A S \in SUBSET (0..n - 1) : /\ IsFiniteSet(S) /\ Cardinality(S) \in Nat
                                         /\ Cardinality(S) <= n
<1>1. 0 \in Int /\ n - 1 \in Int /\ (IF 0 > n - 1 THEN 0 ELSE (n - 1) - 0 + 1) = n
  OBVIOUS
<1>2. IsFiniteSet(0..n - 1) /\ Cardinality(0..n - 1) = n
  BY <1>1, FS_Interval
<1>3. ASSUME NEW S \in SUBSET (0..n - 1)
      PROVE  IsFiniteSet(S) /\ Cardinality(S) \in Nat /\ Cardinality(S) <= n
  <2>1. IsFiniteSet(S) /\ Cardinality(S) <= Cardinality(0..n - 1)
    BY <1>2, FS_Subset
  <2>2. Cardinality(S) \in Nat
    BY <2>1, FS_CardinalityType
  <2> QED
    BY <1>2, <2>1, <2>2
<1> QED
  BY <1>2, <1>3

\* The values of a function on a finite set.
LEMMA ValuesFinite ==
  ASSUME NEW S, IsFiniteSet(S), NEW T, NEW f \in [S -> T]
  PROVE  IsFiniteSet({f[x] : x \in S})
<1> DEFINE V == {f[x] : x \in S}
<1>1. f \in Surjection(S, V)
  BY Fun_IsSurj
<1> HIDE DEF V
<1> QED
  BY <1>1, FS_Surjection DEF V

LEMMA ListFinite ==
  ASSUME NEW S, NEW s \in Seq(S)
  PROVE  IsFiniteSet(ToSet(s))
<1> DEFINE I == 1..Len(s)
<1>1. Len(s) \in Int /\ DOMAIN s = I
  OBVIOUS
<1>2. IsFiniteSet(I)
  BY <1>1, FS_Interval
<1>3. s \in [I -> S]
  BY <1>1
<1>4. ToSet(s) = {s[i] : i \in I}
  BY <1>1 DEF ToSet
<1> HIDE DEF I
<1>5. IsFiniteSet({s[i] : i \in I})
  BY <1>2, <1>3, ValuesFinite
<1> QED
  BY <1>4, <1>5

\* The pairs of an element and a member of its own finite set.
LEMMA PairedFinite ==
  ASSUME NEW n, NEW D, IsFiniteSet(D)
  PROVE  IsFiniteSet({<<n, i>> : i \in D})
<1>1. {<<n, i>> : i \in D} = {n} \X D
  OBVIOUS
<1>2. IsFiniteSet({n})
  BY FS_Singleton
<1> QED
  BY <1>1, <1>2, FS_Product

LEMMA PairsFinite ==
  ASSUME NEW S, IsFiniteSet(S), NEW d, \A n \in S : IsFiniteSet(d[n])
  PROVE  IsFiniteSet(UNION {{<<n, i>> : i \in d[n]} : n \in S})
<1> DEFINE U == {{<<n, i>> : i \in d[n]} : n \in S}
           g == [n \in S |-> {<<n, i>> : i \in d[n]}]
<1>1. \A n \in S : IsFiniteSet({<<n, i>> : i \in d[n]})
  BY PairedFinite
<1>2. g \in [S -> U] /\ \A V \in U : \E n \in S : g[n] = V
  OBVIOUS
<1>3. \A V \in U : IsFiniteSet(V)
  BY <1>1
<1> HIDE DEF U, g
<1>4. g \in Surjection(S, U)
  BY <1>2 DEF Surjection
<1>5. IsFiniteSet(U)
  BY <1>4, FS_Surjection
<1> QED
  BY <1>3, <1>5, FS_UNION DEF U

\* A larger set has more elements.
LEMMA MoreElements ==
  ASSUME NEW T, IsFiniteSet(T), NEW S \in SUBSET T, NEW x \in T, x \notin S
  PROVE  Cardinality(S) < Cardinality(T)
<1>1. IsFiniteSet(S) /\ Cardinality(S) <= Cardinality(T)
  BY FS_Subset
<1>2. Cardinality(S) # Cardinality(T)
  BY FS_Subset
<1>3. Cardinality(S) \in Nat /\ Cardinality(T) \in Nat
  BY <1>1, FS_CardinalityType
<1> QED
  BY <1>1, <1>2, <1>3

\* Different members of 0..n - 1 for the members of 0..n - 1 are all of it.
LEMMA InjectiveIsOnto ==
  ASSUME NEW n \in Nat, NEW f \in [0..n - 1 -> 0..n - 1],
         \A i, j \in 0..n - 1 : f[i] = f[j] => i = j
  PROVE  \A p \in 0..n - 1 : \E i \in 0..n - 1 : f[i] = p
<1> DEFINE D == 0..n - 1
<1>1. IsFiniteSet(D)
  BY BelowFinite
<1>2. f \in Injection(D, D)
  BY Fun_IsInj
<1> HIDE DEF D
<1>3. f \in Surjection(D, D)
  BY <1>1, <1>2, FS_Injection
<1>4. \A p \in D : \E i \in D : f[i] = p
  BY <1>3 DEF Surjection
<1> QED
  BY <1>4 DEF D

\* The members of 0..n - 1 that the relation R puts before j.
Predecessors(R, n, j) == {i \in 0..n - 1 : <<i, j>> \in R}

\* A strict total order of the members of 0..n - 1.
Orders(R, n) ==
  /\ \A i, j \in 0..n - 1 : <<i, j>> \in R => <<j, i>> \notin R
  /\ \A i, j \in 0..n - 1 : i # j => <<i, j>> \in R \/ <<j, i>> \in R
  /\ \A i, j, l \in 0..n - 1 : <<i, j>> \in R /\ <<j, l>> \in R => <<i, l>> \in R

\* The number of members before it is a new place for each one, in this order.
LEMMA Ranking ==
  ASSUME NEW n \in Nat, NEW R, Orders(R, n)
  PROVE  /\ \A j \in 0..n - 1 : Cardinality(Predecessors(R, n, j)) \in 0..n - 1
         /\ \A i, j \in 0..n - 1 : <<i, j>> \in R =>
              Cardinality(Predecessors(R, n, i)) < Cardinality(Predecessors(R, n, j))
         /\ \A i, j \in 0..n - 1 :
              Cardinality(Predecessors(R, n, i)) = Cardinality(Predecessors(R, n, j)) => i = j
         /\ \A p \in 0..n - 1 : \E j \in 0..n - 1 : Cardinality(Predecessors(R, n, j)) = p
<1> DEFINE D == 0..n - 1
           rank(j) == Cardinality(Predecessors(R, n, j))
<1>1. IsFiniteSet(D) /\ Cardinality(D) = n
  BY BelowFinite
<1>2. ASSUME NEW j \in D
      PROVE  /\ Predecessors(R, n, j) \in SUBSET D /\ IsFiniteSet(Predecessors(R, n, j))
             /\ rank(j) \in 0..n - 1
  <2>1. Predecessors(R, n, j) \in SUBSET D /\ j \notin Predecessors(R, n, j)
    BY DEF Predecessors, Orders
  <2>2. IsFiniteSet(Predecessors(R, n, j)) /\ rank(j) \in Nat
    BY <2>1, BelowFinite
  <2>3. rank(j) < n
    <3> HIDE DEF D
    <3> QED
      BY <1>1, <2>1, MoreElements
  <2> QED
    BY <2>1, <2>2, <2>3
<1>3. ASSUME NEW i \in D, NEW j \in D, <<i, j>> \in R
      PROVE  rank(i) < rank(j)
  <2>1. Predecessors(R, n, i) \in SUBSET Predecessors(R, n, j)
    BY <1>3 DEF Predecessors, Orders
  <2>2. i \in Predecessors(R, n, j) /\ i \notin Predecessors(R, n, i)
    BY <1>3 DEF Predecessors, Orders
  <2> QED
    BY <1>2, <2>1, <2>2, MoreElements
<1>4. ASSUME NEW i \in D, NEW j \in D, rank(i) = rank(j)
      PROVE  i = j
  <2> HIDE DEF rank
  <2>1. ~(<<i, j>> \in R) /\ ~(<<j, i>> \in R)
    BY <1>2, <1>3, <1>4
  <2> QED
    BY <2>1 DEF Orders
<1>5. ASSUME NEW p \in D
      PROVE  \E j \in D : rank(j) = p
  <2> DEFINE f == [j \in D |-> rank(j)]
  <2>1. f \in [0..n - 1 -> 0..n - 1]
    BY <1>2
  <2>2. \A i, j \in 0..n - 1 : f[i] = f[j] => i = j
    BY <1>4
  <2> HIDE DEF f
  <2>3. \A q \in 0..n - 1 : \E i \in 0..n - 1 : f[i] = q
    BY <2>1, <2>2, InjectiveIsOnto
  <2> QED
    BY <2>3 DEF f
<1> QED
  BY <1>2, <1>3, <1>4, <1>5

\* The largest of finitely many numbers.
LEMMA LargestExists ==
  ASSUME NEW n \in Nat, NEW f \in [0..n -> Nat]
  PROVE  \E i \in 0..n : \A j \in 0..n : f[j] <= f[i]
<1> DEFINE T == {k \in 0..n : \E i \in 0..k : \A j \in 0..k : f[j] <= f[i]}
<1>1. 0 \in T
  OBVIOUS
<1>2. ASSUME NEW k \in 0..n - 1, k \in T
      PROVE  k + 1 \in T
  <2>1. PICK i \in 0..k : \A j \in 0..k : f[j] <= f[i]
    BY <1>2
  <2>2. i \in 0..n /\ k + 1 \in 0..n /\ f[i] \in Nat /\ f[k + 1] \in Nat
    OBVIOUS
  <2>3. \A j \in 0..k + 1 : j \in 0..k \/ j = k + 1
    OBVIOUS
  <2>4. \A j \in 0..k : f[j] \in Nat
    OBVIOUS
  <2>5. CASE f[k + 1] <= f[i]
    <3>1. i \in 0..k + 1 /\ \A j \in 0..k + 1 : f[j] <= f[i]
      BY <2>1, <2>3, <2>5
    <3> QED
      BY <2>2, <3>1
  <2>6. CASE ~(f[k + 1] <= f[i])
    <3>1. k + 1 \in 0..k + 1 /\ \A j \in 0..k + 1 : f[j] <= f[k + 1]
      BY <2>1, <2>2, <2>3, <2>4, <2>6
    <3> QED
      BY <2>2, <3>1
  <2> QED
    BY <2>5, <2>6
<1> HIDE DEF T
<1>3. n \in 0..n
  OBVIOUS
<1>4. n \in T
  BY <1>1, <1>2, <1>3, UpTo
<1> QED
  BY <1>4 DEF T

\* The members of I that are not larger than i.
Ranked(I, i) == Cardinality({j \in I : j <= i})

\* They tell the members of I apart and are numbers from 1 to that of its members.
LEMMA RanksOf ==
  ASSUME NEW n \in Nat, NEW I \in SUBSET (0..n - 1)
  PROVE  /\ IsFiniteSet(I) /\ Cardinality(I) \in Nat
         /\ \A i \in I : Ranked(I, i) \in 1..Cardinality(I)
         /\ \A i, j \in I : Ranked(I, i) = Ranked(I, j) => i = j
         /\ \A p \in 1..Cardinality(I) : \E i \in I : Ranked(I, i) = p
<1> DEFINE B(i) == {j \in I : j <= i}
           N == Cardinality(I)
           f == [i \in I |-> Ranked(I, i)]
<1>1. \A S \in SUBSET (0..n - 1) : IsFiniteSet(S) /\ Cardinality(S) \in Nat
  BY BelowFinite
<1>2. IsFiniteSet(I) /\ N \in Nat
  BY <1>1
<1>3. ASSUME NEW i \in I
      PROVE  /\ B(i) \in SUBSET I /\ i \in B(i) /\ IsFiniteSet(B(i)) /\ Cardinality(B(i)) \in Nat
             /\ Ranked(I, i) = Cardinality(B(i))
  <2>1. B(i) \in SUBSET I /\ i \in B(i)
    OBVIOUS
  <2>2. B(i) \in SUBSET (0..n - 1)
    OBVIOUS
  <2> HIDE DEF B
  <2>3. IsFiniteSet(B(i)) /\ Cardinality(B(i)) \in Nat
    BY <1>1, <2>2
  <2>4. Ranked(I, i) = Cardinality(B(i))
    BY DEF Ranked, B
  <2> QED
    BY <2>1, <2>3, <2>4
<1>4. ASSUME NEW i \in I, NEW j \in I, i < j
      PROVE  Ranked(I, i) < Ranked(I, j)
  <2>4. \A x \in I : x \in Int
    OBVIOUS
  <2>5. ASSUME NEW x \in B(i)
        PROVE  x \in B(j)
    <3>1. x \in I /\ x <= i /\ x \in Int /\ i \in Int /\ j \in Int
      BY <2>4
    <3>2. x <= j
      BY <1>4, <3>1
    <3> QED
      BY <3>1, <3>2
  <2>6. j \in B(j) /\ j \notin B(i)
    BY <1>4, <2>4
  <2>1. B(i) \in SUBSET B(j) /\ j \in B(j) /\ j \notin B(i)
    BY <2>5, <2>6
  <2>2. IsFiniteSet(B(j))
    BY <1>3
  <2> HIDE DEF B
  <2>3. Cardinality(B(i)) < Cardinality(B(j))
    BY <2>1, <2>2, MoreElements
  <2> QED
    BY <1>3, <2>3
<1>5. ASSUME NEW i \in I
      PROVE  Ranked(I, i) \in 1..N
  <2>1. Cardinality(B(i)) <= N
    BY <1>2, <1>3, FS_Subset
  <2>2. Cardinality(B(i)) # 0
    BY <1>3, FS_EmptySet
  <2> HIDE DEF B, N
  <2> QED
    BY <1>2, <1>3, <2>1, <2>2
<1>6. ASSUME NEW i \in I, NEW j \in I, Ranked(I, i) = Ranked(I, j)
      PROVE  i = j
  <2>1. Ranked(I, i) \in Nat
    BY <1>3
  <2>2. ~(i < j) /\ ~(j < i)
    BY <1>4, <1>6, <2>1
  <2> QED
    BY <2>2
<1> HIDE DEF N
<1>7. f \in [I -> 1..N] /\ \A i \in I : f[i] = Ranked(I, i)
  BY <1>5
<1> HIDE DEF f
<1>8. f \in Injection(I, 1..N)
  BY <1>6, <1>7, Fun_IsInj
<1>9. IsFiniteSet(1..N) /\ Cardinality(1..N) = N
  <2>1. 1 \in Int /\ N \in Int
    BY <1>2
  <2>2. IsFiniteSet(1..N) /\ Cardinality(1..N) = IF 1 > N THEN 0 ELSE N - 1 + 1
    BY <2>1, FS_Interval
  <2> QED
    BY <1>2, <2>2
<1>10. f \in Surjection(I, 1..N)
  <2> DEFINE T == 1..N
  <2>1. f \in Injection(I, T) /\ IsFiniteSet(T) /\ Cardinality(I) = Cardinality(T)
    BY <1>8, <1>9 DEF N
  <2> HIDE DEF T
  <2>2. f \in Surjection(I, T)
    BY <2>1, FS_Injection
  <2> QED
    BY <2>2 DEF T
<1>11. \A p \in 1..N : \E i \in I : f[i] = p
  BY <1>10 DEF Surjection
<1> QED
  BY <1>2, <1>5, <1>6, <1>7, <1>11 DEF N

\* The elements of s at the positions I, in their order.
Selected(s, I) == [p \in 1..Cardinality(I) |-> s[CHOOSE i \in I : Ranked(I, i) = p]]

LEMMA SelectedFacts ==
  ASSUME NEW n \in Nat, NEW I \in SUBSET (0..n - 1), NEW S, NEW s, \A i \in I : s[i] \in S
  PROVE  /\ Selected(s, I) \in Seq(S)
         /\ ToSet(Selected(s, I)) = {s[i] : i \in I}
         /\ (\A i, j \in I : s[i] = s[j] => i = j) => IsInjective(Selected(s, I))
<1> DEFINE N == Cardinality(I)
           at == [p \in 1..N |-> CHOOSE i \in I : Ranked(I, i) = p]
           r == Selected(s, I)
<1>1. /\ N \in Nat
      /\ \A i \in I : Ranked(I, i) \in 1..N
      /\ \A i, j \in I : Ranked(I, i) = Ranked(I, j) => i = j
      /\ \A p \in 1..N : \E i \in I : Ranked(I, i) = p
  BY RanksOf
<1>2. r = [p \in 1..N |-> s[CHOOSE i \in I : Ranked(I, i) = p]]
  BY DEF Selected
<1> HIDE DEF N, r
<1>3. ASSUME NEW p \in 1..N
      PROVE  at[p] \in I /\ Ranked(I, at[p]) = p /\ r[p] = s[at[p]]
  <2>1. at[p] = CHOOSE i \in I : Ranked(I, i) = p
    OBVIOUS
  <2>2. at[p] \in I /\ Ranked(I, at[p]) = p
    BY <1>1, <2>1
  <2> QED
    BY <1>2, <2>1, <2>2
<1> HIDE DEF at
<1>5. r \in Seq(S) /\ DOMAIN r = 1..N
  <2>1. \A p \in 1..N : r[p] \in S
    BY <1>3
  <2>2. r = [p \in 1..N |-> r[p]]
    BY <1>2
  <2> QED
    BY <1>1, <2>1, <2>2
<1>6. ASSUME NEW i \in I
      PROVE  r[Ranked(I, i)] = s[i] /\ Ranked(I, i) \in 1..N
  BY <1>1, <1>3
<1>7. ToSet(r) = {s[i] : i \in I}
  <2>1. ASSUME NEW x \in ToSet(r)
        PROVE  x \in {s[i] : i \in I}
    <3>1. PICK p \in 1..N : x = r[p]
      BY <1>5 DEF ToSet
    <3> QED
      BY <1>3, <3>1
  <2>2. ASSUME NEW i \in I
        PROVE  s[i] \in ToSet(r)
    <3>1. Ranked(I, i) \in DOMAIN r /\ r[Ranked(I, i)] = s[i]
      BY <1>5, <1>6
    <3> QED
      BY <3>1 DEF ToSet
  <2> QED
    BY <2>1, <2>2
<1>8. ASSUME \A i, j \in I : s[i] = s[j] => i = j
      PROVE  IsInjective(r)
  <2> SUFFICES ASSUME NEW a \in 1..N, NEW b \in 1..N, r[a] = r[b]
               PROVE  a = b
    BY <1>5 DEF IsInjective
  <2>1. s[at[a]] = s[at[b]] /\ at[a] \in I /\ at[b] \in I
    BY <1>3
  <2>2. at[a] = at[b]
    BY <1>8, <2>1
  <2> QED
    BY <1>3, <2>2
<1> QED
  BY <1>5, <1>7, <1>8 DEF r

\* The same of a list that counts from 1.
LEMMA SelectedOfList ==
  ASSUME NEW S, NEW s \in Seq(S), NEW I \in SUBSET DOMAIN s
  PROVE  /\ Selected(s, I) \in Seq(S)
         /\ ToSet(Selected(s, I)) = {s[i] : i \in I}
         /\ (\A i, j \in I : s[i] = s[j] => i = j) => IsInjective(Selected(s, I))
<1> DEFINE n == Len(s) + 1
<1>1. n \in Nat /\ I \in SUBSET (0..n - 1) /\ \A i \in I : s[i] \in S
  <2>1. Len(s) \in Nat /\ DOMAIN s = 1..Len(s) /\ \A i \in 1..Len(s) : s[i] \in S
    OBVIOUS
  <2>2. 1..Len(s) \subseteq 0..(Len(s) + 1) - 1
    BY <2>1
  <2> QED
    BY <2>1, <2>2
<1> HIDE DEF n
<1> QED
  BY <1>1, SelectedFacts

\* A list the other way round, and a list behind another.
LEMMA ReverseFacts ==
  ASSUME NEW S, NEW s \in Seq(S)
  PROVE  /\ Reverse(s) \in Seq(S) /\ ToSet(Reverse(s)) = ToSet(s)
         /\ IsInjective(s) => IsInjective(Reverse(s))
<1> DEFINE n == Len(s)
           r == Reverse(s)
<1>1. n \in Nat /\ DOMAIN s = 1..n /\ \A i \in 1..n : (n - i) + 1 \in 1..n
  OBVIOUS
<1>2. r = [i \in 1..n |-> s[(n - i) + 1]]
  BY DEF Reverse
<1>3. \A i \in 1..n : r[i] = s[(n - i) + 1]
  BY <1>2
<1>4. r \in Seq(S) /\ DOMAIN r = 1..n
  <2>1. \A i \in 1..n : s[(n - i) + 1] \in S
    BY <1>1
  <2> QED
    BY <1>1, <1>2, <2>1
<1> HIDE DEF n, r
<1>5. ToSet(r) = ToSet(s)
  <2>1. ASSUME NEW i \in 1..n
        PROVE  r[i] \in ToSet(s)
    BY <1>1, <1>3 DEF ToSet
  <2>2. ASSUME NEW i \in 1..n
        PROVE  s[i] \in ToSet(r)
    <3>1. (n - i) + 1 \in 1..n /\ (n - ((n - i) + 1)) + 1 = i
      BY <1>1
    <3>2. r[(n - i) + 1] = s[i]
      BY <1>3, <3>1
    <3> QED
      BY <1>4, <3>1, <3>2 DEF ToSet
  <2>3. ToSet(r) = {r[i] : i \in 1..n} /\ ToSet(s) = {s[i] : i \in 1..n}
    BY <1>1, <1>4 DEF ToSet
  <2> QED
    BY <2>1, <2>2, <2>3
<1>6. ASSUME IsInjective(s)
      PROVE  IsInjective(r)
  <2> SUFFICES ASSUME NEW a \in 1..n, NEW b \in 1..n, r[a] = r[b]
               PROVE  a = b
    BY <1>4 DEF IsInjective
  <2>1. (n - a) + 1 = (n - b) + 1
    BY <1>1, <1>3, <1>6 DEF IsInjective
  <2> QED
    BY <1>1, <2>1
<1> QED
  BY <1>4, <1>5, <1>6 DEF r

LEMMA ConcatFacts ==
  ASSUME NEW S, NEW s \in Seq(S), NEW t \in Seq(S)
  PROVE  /\ s \o t \in Seq(S) /\ ToSet(s \o t) = ToSet(s) \cup ToSet(t)
         /\ IsInjective(s) /\ IsInjective(t) /\ ToSet(s) \cap ToSet(t) = {}
              => IsInjective(s \o t)
<1> DEFINE n == Len(s)
           m == Len(t)
           r == s \o t
<1>1. /\ n \in Nat /\ m \in Nat /\ DOMAIN s = 1..n /\ DOMAIN t = 1..m
      /\ r \in Seq(S) /\ Len(r) = n + m /\ DOMAIN r = 1..n + m
      /\ \A i \in 1..n : r[i] = s[i]
      /\ \A i \in 1..m : r[n + i] = t[i]
  OBVIOUS
<1> HIDE DEF n, m, r
<1>2. \A i \in 1..n + m : i \in 1..n \/ (i - n \in 1..m /\ n + (i - n) = i)
  BY <1>1
<1>3. \A i \in 1..n : i \in 1..n + m
  BY <1>1
<1>4. \A i \in 1..m : n + i \in 1..n + m
  BY <1>1
<1>5. ToSet(r) = ToSet(s) \cup ToSet(t)
  <2>1. /\ ToSet(r) = {r[i] : i \in 1..n + m} /\ ToSet(s) = {s[i] : i \in 1..n}
        /\ ToSet(t) = {t[i] : i \in 1..m}
    BY <1>1 DEF ToSet
  <2>2. ASSUME NEW i \in 1..n + m
        PROVE  r[i] \in ToSet(s) \/ r[i] \in ToSet(t)
    <3>1. CASE i \in 1..n
      BY <1>1, <2>1, <3>1
    <3>2. CASE i - n \in 1..m /\ n + (i - n) = i
      <4>1. r[n + (i - n)] = t[i - n]
        BY <1>1, <3>2
      <4> QED
        BY <2>1, <3>2, <4>1
    <3> QED
      BY <1>2, <3>1, <3>2
  <2>3. \A i \in 1..n : s[i] \in ToSet(r)
    BY <1>1, <1>3, <2>1
  <2>4. \A i \in 1..m : t[i] \in ToSet(r)
    BY <1>1, <1>4, <2>1
  <2> QED
    BY <2>1, <2>2, <2>3, <2>4
<1>6. ASSUME IsInjective(s), IsInjective(t), ToSet(s) \cap ToSet(t) = {}
      PROVE  IsInjective(r)
  <2> SUFFICES ASSUME NEW a \in 1..n + m, NEW b \in 1..n + m, r[a] = r[b]
               PROVE  a = b
    BY <1>1 DEF IsInjective
  <2>1. \A i \in 1..n, j \in 1..m : s[i] # t[j]
    BY <1>1, <1>6 DEF ToSet
  <2>2. CASE a \in 1..n /\ b \in 1..n
    BY <1>1, <1>6, <2>2 DEF IsInjective
  <2>3. CASE a \notin 1..n /\ b \notin 1..n
    <3>1. a - n \in 1..m /\ b - n \in 1..m /\ t[a - n] = t[b - n]
      BY <1>1, <1>2, <2>3
    <3>2. a - n = b - n
      BY <1>1, <1>6, <3>1 DEF IsInjective
    <3> QED
      BY <1>1, <3>2
  <2>4. CASE a \in 1..n /\ b \notin 1..n
    <3>1. b - n \in 1..m /\ r[b] = t[b - n] /\ r[a] = s[a]
      BY <1>1, <1>2, <2>4
    <3> QED
      BY <2>1, <2>4, <3>1
  <2>5. CASE a \notin 1..n /\ b \in 1..n
    <3>1. a - n \in 1..m /\ r[a] = t[a - n] /\ r[b] = s[b]
      BY <1>1, <1>2, <2>5
    <3> QED
      BY <2>1, <2>5, <3>1
  <2> QED
    BY <2>2, <2>3, <2>4, <2>5
<1> QED
  BY <1>1, <1>5, <1>6 DEF r

-----------------------------------------------------------------------------
(***************************************************************************)
(* One pass of a radix sort that refines a partition: m nodes 0..m - 1     *)
(* with the arc lists A, a permutation id of them, the leader ld of the    *)
(* pack of each, and the nodes at the first c places, which are not        *)
(* finished.  What the distribution by keys and the search for the new     *)
(* leaders do to permutation and packs, without the variables of Reduce.   *)
(***************************************************************************)
Permutes(id, m) ==
  /\ \A j \in 0..m - 1 : id[j] \in 0..m - 1
  /\ \A i, j \in 0..m - 1 : id[i] = id[j] => i = j
  /\ \A i \in 0..m - 1 : \E j \in 0..m - 1 : id[j] = i

\* The nodes at the first c places of the permutation, those still sorted.
Members(id, c) == {id[j] : j \in 0..c - 1}

\* Leaders lead themselves, and those of unfinished packs are unfinished.
Led(ld, Act, m) ==
  \A x \in 0..m - 1 : /\ ld[x] \in 0..m - 1 /\ ld[ld[x]] = ld[x]
                      /\ ld[x] \in Act <=> x \in Act

\* The first node of a pack leads it.
FirstsLead(id, ld, c) == \A j \in 0..c - 1 : \E h \in 0..j : ld[id[j]] = id[h]

\* Packs are intervals.
Contiguous(id, ld, c) ==
  \A h, i, j \in 0..c - 1 :
    h <= i /\ i <= j /\ ld[id[h]] = ld[id[j]] => ld[id[i]] = ld[id[j]]

\* The arcs before the q-th are the same, and the label of that one once it was sorted.
SameSoFar(a, b, q, label) ==
  /\ \A h \in 1..q - 1 : a[h] = b[h]
  /\ ~label => a[q].value = b[q].value

Classes(A, ld, Act, m, q, label) ==
  /\ \A x \in Act : Len(A[x]) >= IF label THEN q - 1 ELSE q
  /\ \A x, y \in Act : ld[x] = ld[y] <=> SameSoFar(A[x], A[y], q, label)
  /\ \A x \in (0..m - 1) \ Act, y \in 0..m - 1 : ld[x] = ld[y] <=> A[x] = A[y]

Packs(A, id, ld, m, c, q, label) ==
  /\ Permutes(id, m) /\ Led(ld, Members(id, c), m)
  /\ FirstsLead(id, ld, c) /\ Contiguous(id, ld, c)
  /\ Classes(A, ld, Members(id, c), m, q, label)

-----------------------------------------------------------------------------
(***************************************************************************)
(* The new leaders.                                                        *)
(***************************************************************************)

\* Nodes of one key and one pack.
Alike(val, ld, x, y) == val[x] = val[y] /\ ld[x] = ld[y]

\* head has for each place the first node that is alike.
FirstAlike(head, id, val, ld, c) ==
  \A j \in 0..c - 1 : \E h \in 0..j :
    /\ head[j] = id[h] /\ Alike(val, ld, id[h], id[j])
    /\ \A g \in 0..h - 1 : ~Alike(val, ld, id[g], id[j])

\* What was passed on from neighbour to neighbour is the first node that is alike.
LEMMA HeadsAreFirst ==
  ASSUME NEW c \in Nat \ {0}, NEW id, NEW val, NEW ld, NEW head,
         \A h, i, j \in 0..c - 1 :
           h <= i /\ i <= j /\ Alike(val, ld, id[h], id[j]) => Alike(val, ld, id[i], id[j]),
         head[0] = id[0],
         \A j \in 1..c - 1 : head[j] = IF Alike(val, ld, id[j], id[j - 1])
                                       THEN head[j - 1] ELSE id[j]
  PROVE  FirstAlike(head, id, val, ld, c)
<1> DEFINE First(h, j) == /\ head[j] = id[h] /\ Alike(val, ld, id[h], id[j])
                          /\ \A g \in 0..h - 1 : ~Alike(val, ld, id[g], id[j])
           T == {j \in 0..c - 1 : \E h \in 0..j : First(h, j)}
<1>1. 0 \in T
  <2>1. First(0, 0)
    BY DEF Alike
  <2> HIDE DEF First
  <2> QED
    BY <2>1
<1>2. ASSUME NEW j \in 0..(c - 1) - 1, j \in T
      PROVE  j + 1 \in T
  <2>1. PICK h \in 0..j : First(h, j)
    BY <1>2
  <2>2. j + 1 \in 1..c - 1 /\ (j + 1) - 1 = j /\ j + 1 \in 0..c - 1 /\ h \in 0..j + 1
    OBVIOUS
  <2>3. CASE Alike(val, ld, id[j + 1], id[j])
    <3>1. head[j + 1] = id[h]
      BY <2>1, <2>2, <2>3
    <3>2. \A x : Alike(val, ld, x, id[j + 1]) <=> Alike(val, ld, x, id[j])
      BY <2>3 DEF Alike
    <3>3. First(h, j + 1)
      BY <2>1, <3>1, <3>2
    <3> HIDE DEF First
    <3> QED
      BY <2>2, <3>3
  <2>4. CASE ~Alike(val, ld, id[j + 1], id[j])
    <3>1. head[j + 1] = id[j + 1]
      BY <2>2, <2>4
    <3>2. ASSUME NEW g \in 0..(j + 1) - 1, Alike(val, ld, id[g], id[j + 1])
          PROVE  FALSE
      <4>1. g \in 0..c - 1 /\ j \in 0..c - 1 /\ g <= j /\ j <= j + 1
        BY <2>2
      <4>2. Alike(val, ld, id[j], id[j + 1])
        BY <2>2, <3>2, <4>1
      <4> QED
        BY <2>4, <4>2 DEF Alike
    <3>3. First(j + 1, j + 1)
      BY <3>1, <3>2 DEF Alike
    <3> HIDE DEF First
    <3> QED
      BY <2>2, <3>3
  <2> QED
    BY <2>3, <2>4
<1> HIDE DEF T
<1>3. c - 1 \in Nat
  OBVIOUS
<1>4. \A j \in 0..c - 1 : j \in T
  BY <1>1, <1>2, <1>3, UpTo
<1> QED
  BY <1>4 DEF T, FirstAlike

\* So two nodes have one new leader when they are alike, and a leader leads itself.
LEMMA HeadsTell ==
  ASSUME NEW c \in Nat \ {0}, NEW id, NEW val, NEW ld, NEW head,
         \A i, j \in 0..c - 1 : id[i] = id[j] => i = j,
         FirstAlike(head, id, val, ld, c),
         NEW i \in 0..c - 1, NEW j \in 0..c - 1
  PROVE  head[i] = head[j] <=> Alike(val, ld, id[i], id[j])
<1>1. PICK h \in 0..i : /\ head[i] = id[h] /\ Alike(val, ld, id[h], id[i])
                        /\ \A g \in 0..h - 1 : ~Alike(val, ld, id[g], id[i])
  BY DEF FirstAlike
<1>2. PICK l \in 0..j : /\ head[j] = id[l] /\ Alike(val, ld, id[l], id[j])
                        /\ \A g \in 0..l - 1 : ~Alike(val, ld, id[g], id[j])
  BY DEF FirstAlike
<1>3. h \in 0..c - 1 /\ l \in 0..c - 1
  OBVIOUS
<1>4. ASSUME Alike(val, ld, id[i], id[j])
      PROVE  h = l
  <2>1. ~(h < l)
    <3> SUFFICES ASSUME h < l
                 PROVE  FALSE
      OBVIOUS
    <3>1. h \in 0..l - 1
      BY <1>3
    <3>2. Alike(val, ld, id[h], id[j])
      BY <1>1, <1>4 DEF Alike
    <3> QED
      BY <1>2, <3>1, <3>2
  <2>2. ~(l < h)
    <3> SUFFICES ASSUME l < h
                 PROVE  FALSE
      OBVIOUS
    <3>1. l \in 0..h - 1
      BY <1>3
    <3>2. Alike(val, ld, id[l], id[i])
      BY <1>2, <1>4 DEF Alike
    <3> QED
      BY <1>1, <3>1, <3>2
  <2> QED
    BY <1>3, <2>1, <2>2
<1>5. ASSUME head[i] = head[j]
      PROVE  Alike(val, ld, id[i], id[j])
  <2>1. h = l
    BY <1>1, <1>2, <1>3, <1>5
  <2> QED
    BY <1>1, <1>2, <2>1 DEF Alike
<1> QED
  BY <1>1, <1>2, <1>4, <1>5
-----------------------------------------------------------------------------
(***************************************************************************)
(* The packs after a pass.                                                 *)
(***************************************************************************)

\* The d nodes with the escape key come last, and the nodes that are alike are
\* neighbours.
Distributed(id, val, ld, m, c, d, over) ==
  /\ Permutes(id, m)
  /\ \A j \in 0..c - 1 : val[id[j]] = over <=> j >= c - d
  /\ \A h, i, j \in 0..c - 1 :
       h <= i /\ i <= j /\ Alike(val, ld, id[h], id[j]) => Alike(val, ld, id[i], id[j])

\* A node with the escape key has no arc left to compare or is alone in its pack.
EscapesAreDone(A, ld, Act, val, over, q, label) ==
  \A x \in Act : IF val[x] = over
                 THEN \/ label /\ Len(A[x]) = q - 1
                      \/ \A y \in Act : ld[y] = ld[x] => y = x
                 ELSE Len(A[x]) >= q

\* The keys of the others tell the labels, or the ends, of the q-th arcs.
KeysTell(A, Act, val, over, q, label) ==
  \A x, y \in Act : val[x] # over /\ val[y] # over =>
    (val[x] = val[y] <=> IF label THEN A[x][q].value = A[y][q].value
                                  ELSE A[x][q].end = A[y][q].end)

\* What a permutation does beyond place c it does not do before it.
LEMMA MembersSplit ==
  ASSUME NEW m \in Nat, NEW c \in 0..m, NEW id, Permutes(id, m)
  PROVE  /\ Members(id, c) \subseteq 0..m - 1
         /\ \A j \in 0..m - 1 : id[j] \in Members(id, c) <=> j < c
BY DEF Permutes, Members

LEMMA SameMembers ==
  ASSUME NEW m \in Nat, NEW c \in 0..m, NEW id, Permutes(id, m),
         NEW id2, Permutes(id2, m), \A j \in c..m - 1 : id[j] = id2[j]
  PROVE  Members(id, c) = Members(id2, c)
<1>1. ASSUME NEW j \in 0..c - 1
      PROVE  id[j] \in Members(id2, c) /\ id2[j] \in Members(id, c)
  <2>1. j \in 0..m - 1
    OBVIOUS
  <2>2. PICK i \in 0..m - 1 : id2[i] = id[j]
    BY <2>1 DEF Permutes
  <2>3. PICK l \in 0..m - 1 : id[l] = id2[j]
    BY <2>1 DEF Permutes
  <2>4. ~(i >= c)
    <3> SUFFICES ASSUME i >= c
                 PROVE  FALSE
      OBVIOUS
    <3>1. id[i] = id[j]
      BY <2>2
    <3>2. i = j
      BY <2>1, <3>1 DEF Permutes
    <3> QED
      BY <3>2
  <2>5. ~(l >= c)
    <3> SUFFICES ASSUME l >= c
                 PROVE  FALSE
      OBVIOUS
    <3>1. id2[l] = id2[j]
      BY <2>3
    <3>2. l = j
      BY <2>1, <3>1 DEF Permutes
    <3> QED
      BY <3>2
  <2>6. i \in 0..c - 1 /\ l \in 0..c - 1
    BY <2>4, <2>5
  <2> QED
    BY <2>2, <2>3, <2>6 DEF Members
<1> QED
  BY <1>1 DEF Members

LEMMA FewerMembers ==
  ASSUME NEW m \in Nat, NEW c \in 0..m, NEW d \in 0..c, NEW id, NEW val, NEW ld, NEW over,
         Distributed(id, val, ld, m, c, d, over)
  PROVE  Members(id, c - d) = {x \in Members(id, c) : val[x] # over}
<1>1. \A j \in 0..(c - d) - 1 : j \in 0..c - 1 /\ ~(j >= c - d)
  OBVIOUS
<1>2. \A j \in 0..c - 1 : ~(j >= c - d) => j \in 0..(c - d) - 1
  OBVIOUS
<1> QED
  BY <1>1, <1>2 DEF Distributed, Members

\* The packs that a pass starts from, the new permutation and the new leaders.
Passes(A, id2, ld, id, ld1, val, over, m, c, d, q, label) ==
  /\ Packs(A, id2, ld, m, c, q, label)
  /\ Distributed(id, val, ld, m, c, d, over)
  /\ EscapesAreDone(A, ld, Members(id2, c), val, over, q, label)
  /\ KeysTell(A, Members(id2, c), val, over, q, label)
  /\ \A j \in c..m - 1 : id[j] = id2[j]
  /\ FirstAlike([j \in 0..c - 1 |-> ld1[id[j]]], id, val, ld, c)
  /\ \A x \in (0..m - 1) \ Members(id2, c) : ld1[x] = ld[x]

LEMMA PassTells ==
  ASSUME NEW m \in Nat, NEW c \in 1..m, NEW d \in 0..c,
         NEW A, NEW id2, NEW ld, NEW id, NEW ld1, NEW val, NEW over, NEW q, NEW label,
         Passes(A, id2, ld, id, ld1, val, over, m, c, d, q, label)
  PROVE  /\ Members(id, c) = Members(id2, c)
         /\ \A x, y \in Members(id, c) : ld1[x] = ld1[y] <=> Alike(val, ld, x, y)
         /\ \A x \in Members(id, c) : /\ ld1[x] \in Members(id, c)
                                      /\ ld1[ld1[x]] = ld1[x]
                                      /\ Alike(val, ld, ld1[x], x)
<1> DEFINE head == [j \in 0..c - 1 |-> ld1[id[j]]]
<1>1. Members(id, c) = Members(id2, c)
  <2>1. Permutes(id, m) /\ Permutes(id2, m) /\ \A j \in c..m - 1 : id[j] = id2[j]
    BY DEF Passes, Distributed, Packs
  <2>2. c \in 0..m
    OBVIOUS
  <2> QED
    BY <2>1, <2>2, SameMembers
<1>2. \A i, j \in 0..c - 1 : id[i] = id[j] => i = j
  <2>1. Permutes(id, m)
    BY DEF Passes, Distributed
  <2> QED
    BY <2>1 DEF Permutes
<1>3. FirstAlike(head, id, val, ld, c)
  BY DEF Passes
<1>4. c \in Nat \ {0}
  OBVIOUS
<1>5. \A i, j \in 0..c - 1 : head[i] = head[j] <=> Alike(val, ld, id[i], id[j])
  <2> HIDE DEF head
  <2> SUFFICES ASSUME NEW i \in 0..c - 1, NEW j \in 0..c - 1
               PROVE  head[i] = head[j] <=> Alike(val, ld, id[i], id[j])
    OBVIOUS
  <2> QED
    BY <1>2, <1>3, <1>4, HeadsTell
<1>6. \A i, j \in 0..c - 1 : ld1[id[i]] = ld1[id[j]] <=> Alike(val, ld, id[i], id[j])
  BY <1>5
<1>7. ASSUME NEW j \in 0..c - 1
      PROVE  /\ ld1[id[j]] \in Members(id, c) /\ ld1[ld1[id[j]]] = ld1[id[j]]
             /\ Alike(val, ld, ld1[id[j]], id[j])
  <2>1. PICK h \in 0..j : ld1[id[j]] = id[h] /\ Alike(val, ld, id[h], id[j])
    BY <1>3 DEF FirstAlike
  <2>2. h \in 0..c - 1
    OBVIOUS
  <2>3. ld1[id[h]] = ld1[id[j]]
    BY <1>6, <2>1, <2>2
  <2> QED
    BY <2>1, <2>2, <2>3 DEF Members
<1>8. \A x \in Members(id, c) : \E j \in 0..c - 1 : x = id[j]
  BY DEF Members
<1>9. \A x, y \in Members(id, c) : ld1[x] = ld1[y] <=> Alike(val, ld, x, y)
  BY <1>6, <1>8
<1>10. \A x \in Members(id, c) : /\ ld1[x] \in Members(id, c) /\ ld1[ld1[x]] = ld1[x]
                                 /\ Alike(val, ld, ld1[x], x)
  BY <1>7, <1>8
<1> QED
  BY <1>1, <1>9, <1>10
LEMMA SameFields ==
  ASSUME NEW V, NEW E, NEW a \in [value : V, end : E], NEW b \in [value : V, end : E],
         a.value = b.value, a.end = b.end
  PROVE  a = b
OBVIOUS

\* After a pass the packs are those of the nodes that are the same one step further.
LEMMA PassRefines ==
  ASSUME NEW m \in Nat, NEW c \in 1..m, NEW d \in 0..c,
         NEW V, NEW E, NEW A \in [0..m - 1 -> Seq([value : V, end : E])],
         NEW id2, NEW ld, NEW id, NEW ld1, NEW val, NEW over,
         NEW q \in Nat \ {0}, NEW label \in BOOLEAN,
         Passes(A, id2, ld, id, ld1, val, over, m, c, d, q, label)
  PROVE  Packs(A, id, ld1, m, c - d, IF label THEN q ELSE q + 1, ~label)
<1> DEFINE Act == Members(id, c)
           Rest == Members(id, c - d)
           All == 0..m - 1
           q1 == IF label THEN q ELSE q + 1
<1>2. /\ Members(id2, c) = Act
      /\ \A x, y \in Act : ld1[x] = ld1[y] <=> Alike(val, ld, x, y)
      /\ \A x \in Act : ld1[x] \in Act /\ ld1[ld1[x]] = ld1[x] /\ Alike(val, ld, ld1[x], x)
  BY PassTells
<1>1. /\ Packs(A, id2, ld, m, c, q, label)
      /\ Distributed(id, val, ld, m, c, d, over)
      /\ EscapesAreDone(A, ld, Act, val, over, q, label)
      /\ KeysTell(A, Act, val, over, q, label)
      /\ \A j \in c..m - 1 : id[j] = id2[j]
      /\ FirstAlike([j \in 0..c - 1 |-> ld1[id[j]]], id, val, ld, c)
      /\ \A x \in All \ Act : ld1[x] = ld[x]
  BY <1>2 DEF Passes
<1>3. Permutes(id, m)
  BY <1>1 DEF Distributed
<1>4. Rest = {x \in Act : val[x] # over}
  <2>1. c \in 0..m
    OBVIOUS
  <2> QED
    BY <1>1, <2>1, FewerMembers
<1>5. /\ Act \subseteq All
      /\ \A j \in All : id[j] \in Act <=> j < c
  BY <1>3, MembersSplit
<1>6. Led(ld, Act, m) /\ Classes(A, ld, Act, m, q, label)
  BY <1>1, <1>2 DEF Packs
<1> HIDE DEF Act, Rest
<1>7. Led(ld1, Rest, m)
  <2> SUFFICES ASSUME NEW x \in All
               PROVE  /\ ld1[x] \in All /\ ld1[ld1[x]] = ld1[x]
                      /\ ld1[x] \in Rest <=> x \in Rest
    BY DEF Led
  <2>1. CASE x \in Act
    BY <1>2, <1>4, <1>5, <2>1 DEF Alike
  <2>2. CASE x \notin Act
    <3>1. ld1[x] = ld[x] /\ ld[x] \in All \ Act /\ ld[ld[x]] = ld[x]
      BY <1>1, <1>6, <2>2 DEF Led
    <3> QED
      BY <1>1, <1>4, <2>2, <3>1
  <2> QED
    BY <2>1, <2>2
<1>8. FirstsLead(id, ld1, c - d)
  <2> SUFFICES ASSUME NEW j \in 0..(c - d) - 1
               PROVE  \E h \in 0..j : ld1[id[j]] = id[h]
    BY DEF FirstsLead
  <2>1. j \in 0..c - 1
    OBVIOUS
  <2> QED
    BY <1>1, <2>1 DEF FirstAlike
<1>9. Contiguous(id, ld1, c - d)
  <2> SUFFICES ASSUME NEW h \in 0..(c - d) - 1, NEW i \in 0..(c - d) - 1,
                      NEW j \in 0..(c - d) - 1, h <= i, i <= j, ld1[id[h]] = ld1[id[j]]
               PROVE  ld1[id[i]] = ld1[id[j]]
    BY DEF Contiguous
  <2>1. h \in 0..c - 1 /\ i \in 0..c - 1 /\ j \in 0..c - 1
    OBVIOUS
  <2>2. id[h] \in Act /\ id[i] \in Act /\ id[j] \in Act
    BY <2>1 DEF Act, Members
  <2>3. Alike(val, ld, id[i], id[j])
    BY <1>1, <1>2, <2>1, <2>2 DEF Distributed
  <2> QED
    BY <1>2, <2>2, <2>3
<1>10. \A x \in Rest : Len(A[x]) >= IF ~label THEN q1 - 1 ELSE q1
  <2> SUFFICES ASSUME NEW x \in Rest
               PROVE  Len(A[x]) >= q
    OBVIOUS
  <2> QED
    BY <1>1, <1>4 DEF EscapesAreDone
<1>11. ASSUME NEW x \in Rest, NEW y \in Rest
       PROVE  ld1[x] = ld1[y] <=> SameSoFar(A[x], A[y], q1, ~label)
  <2>1. /\ x \in Act /\ y \in Act /\ val[x] # over /\ val[y] # over
        /\ Len(A[x]) >= q /\ Len(A[y]) >= q
    BY <1>1, <1>4 DEF EscapesAreDone
  <2>2. ld1[x] = ld1[y] <=> val[x] = val[y] /\ SameSoFar(A[x], A[y], q, label)
    BY <1>2, <1>6, <2>1 DEF Alike, Classes
  <2>3. val[x] = val[y] <=> IF label THEN A[x][q].value = A[y][q].value
                            ELSE A[x][q].end = A[y][q].end
    BY <1>1, <2>1 DEF KeysTell
  <2>4. CASE label
    BY <2>2, <2>3, <2>4 DEF SameSoFar
  <2>5. CASE ~label
    <3>1. A[x] \in Seq([value : V, end : E]) /\ A[y] \in Seq([value : V, end : E])
      BY <1>5, <2>1
    <3>2. q \in 1..Len(A[x]) /\ q \in 1..Len(A[y])
      BY <2>1, <3>1
    <3>3. A[x][q] \in [value : V, end : E] /\ A[y][q] \in [value : V, end : E]
      BY <3>1, <3>2, ElementOfSeq
    <3>4. A[x][q] = A[y][q] <=> A[x][q].value = A[y][q].value /\ A[x][q].end = A[y][q].end
      BY <3>3, SameFields
    <3>5. \A h : h \in 1..(q + 1) - 1 <=> h \in 1..q - 1 \/ h = q
      OBVIOUS
    <3>6. SameSoFar(A[x], A[y], q + 1, TRUE) <=>
            /\ \A h \in 1..q - 1 : A[x][h] = A[y][h]
            /\ A[x][q] = A[y][q]
      BY <3>5 DEF SameSoFar
    <3>7. SameSoFar(A[x], A[y], q, FALSE) <=>
            /\ \A h \in 1..q - 1 : A[x][h] = A[y][h]
            /\ A[x][q].value = A[y][q].value
      BY DEF SameSoFar
    <3> QED
      BY <2>2, <2>3, <2>5, <3>4, <3>6, <3>7
  <2> QED
    BY <2>4, <2>5
<1>12. ASSUME NEW x \in All \ Rest, NEW y \in All
       PROVE  ld1[x] = ld1[y] <=> A[x] = A[y]
  <2>1. ASSUME NEW a \in All \ Act, NEW b \in Act
        PROVE  ld1[a] # ld1[b] /\ A[a] # A[b]
    <3>1. ld[a] \notin Act /\ ld[b] \in Act /\ ld1[a] = ld[a] /\ ld1[b] \in Act
      BY <1>1, <1>2, <1>5, <1>6 DEF Led
    <3>2. ld[a] = ld[b] <=> A[a] = A[b]
      BY <1>5, <1>6 DEF Classes
    <3> QED
      BY <3>1, <3>2
  <2>2. CASE x \notin Act /\ y \notin Act
    <3>1. x \in All /\ y \in All /\ ld1[x] = ld[x] /\ ld1[y] = ld[y]
      BY <1>1, <2>2
    <3>2. ld[x] = ld[y] <=> A[x] = A[y]
      BY <1>6, <2>2, <3>1 DEF Classes
    <3> QED
      BY <3>1, <3>2
  <2>3. CASE x \notin Act /\ y \in Act
    BY <2>1, <2>3
  <2>4. CASE x \in Act /\ y \notin Act
    BY <2>1, <2>4
  <2>5. CASE x \in Act /\ y \in Act
    <3>1. val[x] = over
      BY <1>4, <2>5
    <3>2. ld1[x] = ld1[y] <=> val[y] = over /\ ld[x] = ld[y]
      BY <1>2, <2>5, <3>1 DEF Alike
    <3>3. ld[x] = ld[y] <=> SameSoFar(A[x], A[y], q, label)
      BY <1>6, <2>5 DEF Classes
    <3>4. A[x] = A[y] => ld[x] = ld[y]
      BY <3>3 DEF SameSoFar
    <3>5. \/ label /\ Len(A[x]) = q - 1
          \/ \A z \in Act : ld[z] = ld[x] => z = x
      BY <1>1, <2>5, <3>1 DEF EscapesAreDone
    <3>6. CASE \A z \in Act : ld[z] = ld[x] => z = x
      BY <2>5, <3>1, <3>2, <3>4, <3>6
    <3>7. CASE label /\ Len(A[x]) = q - 1 /\ ~(\A z \in Act : ld[z] = ld[x] => z = x)
      <4>1. A[x] \in Seq([value : V, end : E]) /\ A[y] \in Seq([value : V, end : E])
        BY <1>5, <2>5
      <4>2. Len(A[y]) \in Nat
        BY <4>1
      <4>3. ASSUME A[x] = A[y]
            PROVE  val[y] = over
        <5>1. ~(Len(A[y]) >= q)
          BY <3>7, <4>2, <4>3
        <5> QED
          BY <1>1, <2>5, <5>1 DEF EscapesAreDone
      <4>4. ASSUME val[y] = over, ld[x] = ld[y]
            PROVE  A[x] = A[y]
        <5>1. CASE \A z \in Act : ld[z] = ld[y] => z = y
          BY <2>5, <4>4, <5>1
        <5>2. CASE Len(A[y]) = q - 1
          <6>1. \A h \in 1..q - 1 : A[x][h] = A[y][h]
            BY <3>3, <4>4 DEF SameSoFar
          <6> QED
            BY <3>7, <4>1, <5>2, <6>1, SeqEqual
        <5> QED
          BY <1>1, <2>5, <4>4, <5>1, <5>2 DEF EscapesAreDone
      <4> QED
        BY <3>2, <3>4, <4>3, <4>4
    <3> QED
      BY <3>5, <3>6, <3>7
  <2> QED
    BY <2>2, <2>3, <2>4, <2>5
<1>13. Classes(A, ld1, Rest, m, q1, ~label)
  BY <1>10, <1>11, <1>12 DEF Classes
<1> QED
  BY <1>3, <1>7, <1>8, <1>9, <1>13 DEF Packs, Rest
-----------------------------------------------------------------------------
(***************************************************************************)
(* The distribution: key gives the key of each place, cum where the nodes *)
(* of a key start.                                                         *)
(***************************************************************************)
Slot(key, cum, j) == cum[key[j]] + Cardinality({i \in 0..j - 1 : key[i] = key[j]})

\* A key starts after all those that start before it.
Starts(key, cum, c) ==
  /\ \A j \in 0..c - 1 :
       /\ cum[key[j]] \in Nat
       /\ cum[key[j]] = Cardinality({i \in 0..c - 1 : cum[key[i]] < cum[key[j]]})
  /\ \A i, j \in 0..c - 1 : cum[key[i]] = cum[key[j]] => key[i] = key[j]

\* By the start of the key and, for one key, by place.
KeyOrder(key, cum, c) ==
  {r \in (0..c - 1) \X (0..c - 1) :
     \/ cum[key[r[1]]] < cum[key[r[2]]]
     \/ key[r[1]] = key[r[2]] /\ r[1] < r[2]}

LEMMA KeyOrderOrders ==
  ASSUME NEW c \in Nat, NEW key, NEW cum, Starts(key, cum, c)
  PROVE  Orders(KeyOrder(key, cum, c), c)
<1> DEFINE D == 0..c - 1
           less(i, j) == cum[key[i]] < cum[key[j]] \/ (key[i] = key[j] /\ i < j)
           R == KeyOrder(key, cum, c)
<1>1. \A i, j \in D : <<i, j>> \in R <=> less(i, j)
  BY DEF KeyOrder
<1>2. \A i \in D : cum[key[i]] \in Nat
  BY DEF Starts
<1>3. \A i, j \in D : cum[key[i]] = cum[key[j]] <=> key[i] = key[j]
  BY DEF Starts
<1> HIDE DEF R
<1>4. \A i, j \in D : <<i, j>> \in R => <<j, i>> \notin R
  BY <1>1, <1>2
<1>5. \A i, j \in D : i # j => <<i, j>> \in R \/ <<j, i>> \in R
  BY <1>1, <1>2, <1>3
<1>6. \A i, j, l \in D : <<i, j>> \in R /\ <<j, l>> \in R => <<i, l>> \in R
  <2> SUFFICES ASSUME NEW i \in D, NEW j \in D, NEW l \in D, less(i, j), less(j, l)
               PROVE  less(i, l)
    BY <1>1
  <2> QED
    BY <1>2, <1>3
<1> QED
  BY <1>4, <1>5, <1>6 DEF Orders, R

\* The place of a node is the number of nodes before it in that order.
LEMMA SlotIsRank ==
  ASSUME NEW c \in Nat, NEW key, NEW cum, Starts(key, cum, c), NEW j \in 0..c - 1
  PROVE  Slot(key, cum, j) = Cardinality(Predecessors(KeyOrder(key, cum, c), c, j))
<1> DEFINE D == 0..c - 1
           S == {i \in D : cum[key[i]] < cum[key[j]]}
           T == {i \in 0..j - 1 : key[i] = key[j]}
           B == Predecessors(KeyOrder(key, cum, c), c, j)
<1>1. B = S \cup T
  BY DEF Predecessors, KeyOrder
<1>2. S \cap T = {}
  <2> SUFFICES ASSUME NEW i \in D, cum[key[i]] < cum[key[j]], key[i] = key[j]
               PROVE  FALSE
    OBVIOUS
  <2>1. cum[key[j]] \in Nat
    BY DEF Starts
  <2> QED
    BY <2>1
<1>3. S \in SUBSET D /\ T \in SUBSET D
  OBVIOUS
<1> HIDE DEF S, T
<1>4. IsFiniteSet(S) /\ IsFiniteSet(T)
  BY <1>3, BelowFinite
<1>5. Cardinality(S \cup T) = Cardinality(S) + Cardinality(T) - Cardinality(S \cap T)
  BY <1>4, FS_Union
<1>6. Cardinality(S \cap T) = 0
  BY <1>2, FS_EmptySet
<1>7. Cardinality(S) \in Nat /\ Cardinality(T) \in Nat
  BY <1>4, FS_CardinalityType
<1>8. cum[key[j]] = Cardinality(S)
  BY DEF Starts, S
<1> QED
  BY <1>1, <1>5, <1>6, <1>7, <1>8 DEF Slot, T

\* Each place is that of one node, and the places follow the order.
LEMMA SlotsAreRanks ==
  ASSUME NEW c \in Nat, NEW key, NEW cum, Starts(key, cum, c)
  PROVE  /\ \A j \in 0..c - 1 : Slot(key, cum, j) \in 0..c - 1
         /\ \A i, j \in 0..c - 1 :
              Slot(key, cum, i) < Slot(key, cum, j) <=>
                \/ cum[key[i]] < cum[key[j]]
                \/ key[i] = key[j] /\ i < j
         /\ \A i, j \in 0..c - 1 : Slot(key, cum, i) = Slot(key, cum, j) => i = j
         /\ \A p \in 0..c - 1 : \E j \in 0..c - 1 : Slot(key, cum, j) = p
<1> DEFINE D == 0..c - 1
           R == KeyOrder(key, cum, c)
           rank(j) == Cardinality(Predecessors(R, c, j))
<1>1. Orders(R, c)
  BY KeyOrderOrders
<1>2. \A j \in D : Slot(key, cum, j) = rank(j)
  BY SlotIsRank
<1>3. \A i, j \in D : <<i, j>> \in R <=> \/ cum[key[i]] < cum[key[j]]
                                         \/ key[i] = key[j] /\ i < j
  BY DEF KeyOrder
<1> HIDE DEF R
<1>4. /\ \A j \in D : rank(j) \in D
      /\ \A i, j \in D : <<i, j>> \in R => rank(i) < rank(j)
      /\ \A i, j \in D : rank(i) = rank(j) => i = j
      /\ \A p \in D : \E j \in D : rank(j) = p
  BY <1>1, Ranking
<1> HIDE DEF rank
<1>5. \A i, j \in D : rank(i) < rank(j) => <<i, j>> \in R
  <2> SUFFICES ASSUME NEW i \in D, NEW j \in D, rank(i) < rank(j), <<i, j>> \notin R
               PROVE  FALSE
    OBVIOUS
  <2>1. rank(i) \in D /\ rank(j) \in D
    BY <1>4
  <2>2. i # j
    BY <2>1
  <2>3. <<j, i>> \in R
    BY <1>1, <2>2 DEF Orders
  <2> QED
    BY <1>4, <2>1, <2>3
<1>6. \A i, j \in D : Slot(key, cum, i) < Slot(key, cum, j) <=> <<i, j>> \in R
  <2> SUFFICES ASSUME NEW i \in D, NEW j \in D
               PROVE  rank(i) < rank(j) <=> <<i, j>> \in R
    BY <1>2
  <2> QED
    BY <1>4, <1>5
<1>7. \A i, j \in D : Slot(key, cum, i) < Slot(key, cum, j) <=>
        \/ cum[key[i]] < cum[key[j]]
        \/ key[i] = key[j] /\ i < j
  BY <1>3, <1>6
<1> QED
  BY <1>2, <1>4, <1>7
\* The nodes that are distributed come out in blocks of one key, the escape key
\* last, and those of one pack that have one key stay neighbours.
LEMMA Distributes ==
  ASSUME NEW m \in Nat, NEW c \in 1..m, NEW id2, Permutes(id2, m), NEW ld,
         Contiguous(id2, ld, c),
         NEW val, NEW key, \A j \in 0..c - 1 : key[j] = val[id2[j]],
         NEW cum, Starts(key, cum, c), NEW over,
         \A i, j \in 0..c - 1 : key[i] = over /\ key[j] # over => cum[key[j]] < cum[key[i]],
         NEW d, d = Cardinality({j \in 0..c - 1 : key[j] = over}),
         NEW id, \A j \in 0..c - 1 : id[Slot(key, cum, j)] = id2[j],
         \A j \in c..m - 1 : id[j] = id2[j]
  PROVE  d \in 0..c /\ Distributed(id, val, ld, m, c, d, over)
<1> DEFINE D == 0..c - 1
           slot(j) == Slot(key, cum, j)
           Over == {j \in D : key[j] = over}
           Others == {j \in D : key[j] # over}
<1>1. /\ \A j \in D : slot(j) \in D
      /\ \A i, j \in D : slot(i) < slot(j) <=> \/ cum[key[i]] < cum[key[j]]
                                               \/ key[i] = key[j] /\ i < j
      /\ \A i, j \in D : slot(i) = slot(j) => i = j
      /\ \A p \in D : \E j \in D : slot(j) = p
  <2>1. c \in Nat
    OBVIOUS
  <2> QED
    BY <2>1, SlotsAreRanks
<1>2. \A j \in D : id[slot(j)] = id2[j]
  OBVIOUS
<1>3. /\ \A i \in D : cum[key[i]] \in Nat
      /\ \A i, j \in D : cum[key[i]] = cum[key[j]] => key[i] = key[j]
  BY DEF Starts
<1>4. /\ \A j \in 0..m - 1 : id2[j] \in 0..m - 1
      /\ \A i, j \in 0..m - 1 : id2[i] = id2[j] => i = j
      /\ \A i \in 0..m - 1 : \E j \in 0..m - 1 : id2[j] = i
  BY DEF Permutes
<1> HIDE DEF slot
<1>15. \A p \in D : \E j \in D : slot(j) = p /\ id[p] = id2[j]
  <2> SUFFICES ASSUME NEW p \in D
               PROVE  \E j \in D : slot(j) = p /\ id[p] = id2[j]
    OBVIOUS
  <2>1. PICK j \in D : slot(j) = p
    BY <1>1
  <2> QED
    BY <1>2, <2>1
<1>5. Permutes(id, m)
  <2>1. \A j \in 0..m - 1 : j \in D \/ j \in c..m - 1
    OBVIOUS
  <2>2. \A j \in D : j \in 0..m - 1 /\ j \notin c..m - 1
    OBVIOUS
  <2>3. \A j \in c..m - 1 : j \in 0..m - 1 /\ id[j] = id2[j]
    OBVIOUS
  <2>4. \A p \in 0..m - 1 : \E j \in 0..m - 1 :
          id[p] = id2[j] /\ (IF p \in D THEN j \in D /\ slot(j) = p ELSE j = p)
    BY <1>15, <2>1, <2>2, <2>3
  <2>5. \A j \in 0..m - 1 : id[j] \in 0..m - 1
    <3> SUFFICES ASSUME NEW j \in 0..m - 1
                 PROVE  id[j] \in 0..m - 1
      OBVIOUS
    <3>1. PICK a \in 0..m - 1 : id[j] = id2[a]
      BY <2>4
    <3> QED
      BY <1>4, <3>1
  <2>6. ASSUME NEW i \in 0..m - 1, NEW j \in 0..m - 1, id[i] = id[j]
        PROVE  i = j
    <3>1. PICK a \in 0..m - 1 :
            id[i] = id2[a] /\ (IF i \in D THEN a \in D /\ slot(a) = i ELSE a = i)
      BY <2>4
    <3>2. PICK b \in 0..m - 1 :
            id[j] = id2[b] /\ (IF j \in D THEN b \in D /\ slot(b) = j ELSE b = j)
      BY <2>4
    <3>3. id2[a] = id2[b]
      BY <2>6, <3>1, <3>2
    <3>4. a = b
      BY <1>4, <3>3
    <3> QED
      BY <3>1, <3>2, <3>4
  <2>7. ASSUME NEW i \in 0..m - 1
        PROVE  \E j \in 0..m - 1 : id[j] = i
    <3>1. PICK j \in 0..m - 1 : id2[j] = i
      BY <1>4
    <3>2. CASE j \in D
      BY <1>1, <1>2, <2>2, <3>1, <3>2
    <3>3. CASE j \in c..m - 1
      BY <2>3, <3>1, <3>3
    <3> QED
      BY <2>1, <3>2, <3>3
  <2> QED
    BY <2>5, <2>6, <2>7 DEF Permutes
<1>6. IsFiniteSet(D) /\ Cardinality(D) = c
  BY BelowFinite
<1>7. /\ d \in 0..c /\ Cardinality(Others) = c - d
      /\ IsFiniteSet(Others) /\ IsFiniteSet(Over) /\ Cardinality(Over) = d
  <2>1. Over \in SUBSET (0..c - 1) /\ Others \in SUBSET (0..c - 1) /\ c \in Nat
    OBVIOUS
  <2>2. Over \cup Others = D /\ Over \cap Others = {}
    OBVIOUS
  <2>3. Cardinality(Over) = d
    OBVIOUS
  <2>9. Over \in SUBSET (0..c - 1) => Cardinality(Over) <= c
    BY <2>1, BelowFinite
  <2> HIDE DEF Over, Others, D
  <2>4. IsFiniteSet(Over) /\ IsFiniteSet(Others) /\ Cardinality(Over) \in Nat
        /\ Cardinality(Others) \in Nat /\ Cardinality(Over) <= c
    BY <2>1, BelowFinite
  <2>5. Cardinality(Over \cup Others)
          = Cardinality(Over) + Cardinality(Others) - Cardinality(Over \cap Others)
    BY <2>4, FS_Union
  <2>6. Cardinality(Over \cap Others) = 0
    BY <2>2, FS_EmptySet
  <2>7. Cardinality(Over \cup Others) = c
    BY <1>6, <2>2
  <2>8. d \in Nat /\ d <= c /\ c = d + Cardinality(Others)
    BY <2>3, <2>4, <2>5, <2>6, <2>7
  <2> QED
    BY <2>1, <2>3, <2>4, <2>8
<1>8. ASSUME NEW j \in D
      PROVE  /\ slot(j) = Cardinality(Predecessors(KeyOrder(key, cum, c), c, j))
             /\ \A i \in D : i \in Predecessors(KeyOrder(key, cum, c), c, j) <=>
                               \/ cum[key[i]] < cum[key[j]]
                               \/ key[i] = key[j] /\ i < j
             /\ Predecessors(KeyOrder(key, cum, c), c, j) \in SUBSET D
  BY SlotIsRank DEF Predecessors, KeyOrder, slot
<1>9. ASSUME NEW j \in D
      PROVE  key[j] = over <=> slot(j) >= c - d
  <2> DEFINE B == Predecessors(KeyOrder(key, cum, c), c, j)
  <2>1. slot(j) = Cardinality(B) /\ B \in SUBSET D
    BY <1>8
  <2>2. IsFiniteSet(B) /\ Cardinality(B) \in Nat
    BY <1>6, <2>1, BelowFinite
  <2>3. CASE key[j] = over
    <3>1. Others \in SUBSET B
      BY <1>8, <2>3
    <3> HIDE DEF B, Others
    <3>2. Cardinality(Others) <= Cardinality(B)
      BY <2>2, <3>1, FS_Subset
    <3> QED
      BY <1>7, <2>1, <2>2, <2>3, <3>2
  <2>4. CASE key[j] # over
    <3>1. B \in SUBSET Others /\ j \in Others /\ j \notin B
      <4>1. ASSUME NEW i \in B
            PROVE  i \in Others
        <5>1. i \in D /\ (cum[key[i]] < cum[key[j]] \/ (key[i] = key[j] /\ i < j))
          BY <1>8
        <5>2. key[i] # over
          <6> SUFFICES ASSUME key[i] = over
                       PROVE  FALSE
            OBVIOUS
          <6>1. cum[key[j]] < cum[key[i]] /\ cum[key[j]] \in Nat /\ cum[key[i]] \in Nat
            BY <1>3, <2>4, <5>1
          <6> QED
            BY <2>4, <5>1, <6>1
        <5> QED
          BY <5>1, <5>2
      <4>2. j \notin B
        BY <1>3, <1>8
      <4> QED
        BY <2>4, <4>1, <4>2
    <3> HIDE DEF B, Others
    <3>2. Cardinality(B) < Cardinality(Others)
      BY <1>7, <3>1, MoreElements
    <3> QED
      BY <1>7, <2>1, <2>2, <2>4, <3>2
  <2> QED
    BY <2>3, <2>4
<1>10. ASSUME NEW p \in D
       PROVE  val[id[p]] = over <=> p >= c - d
  <2>1. PICK j \in D : slot(j) = p /\ id[p] = id2[j]
    BY <1>15
  <2> QED
    BY <1>9, <2>1
<1>11. ASSUME NEW h \in D, NEW i \in D, NEW j \in D, h <= i, i <= j,
              Alike(val, ld, id[h], id[j])
       PROVE  Alike(val, ld, id[i], id[j])
  <2>1. PICK a \in D : slot(a) = h /\ id[h] = id2[a]
    BY <1>15
  <2>2. PICK b \in D : slot(b) = i /\ id[i] = id2[b]
    BY <1>15
  <2>3. PICK e \in D : slot(e) = j /\ id[j] = id2[e]
    BY <1>15
  <2>4. key[a] = key[e] /\ ld[id2[a]] = ld[id2[e]]
    BY <1>11, <2>1, <2>3 DEF Alike
  <2>5. CASE h = i
    BY <1>11, <2>5
  <2>6. CASE i = j
    BY <2>6 DEF Alike
  <2>7. CASE h < i /\ i < j
    <3>1. /\ cum[key[a]] < cum[key[b]] \/ (key[a] = key[b] /\ a < b)
          /\ cum[key[b]] < cum[key[e]] \/ (key[b] = key[e] /\ b < e)
      BY <1>1, <2>1, <2>2, <2>3, <2>7
    <3>2. cum[key[a]] \in Nat /\ cum[key[b]] \in Nat /\ cum[key[e]] \in Nat
      BY <1>3
    <3>3. key[b] = key[e] /\ a < b /\ b < e
      BY <2>4, <3>1, <3>2
    <3>4. ld[id2[b]] = ld[id2[e]]
      BY <2>4, <3>3 DEF Contiguous
    <3> QED
      BY <2>2, <2>3, <3>3, <3>4 DEF Alike
  <2> QED
    BY <1>11, <2>5, <2>6, <2>7
<1> QED
  BY <1>5, <1>7, <1>10, <1>11 DEF Distributed

\* The places at which a key has nodes.
HavingKey(key, c, v) == {j \in 0..c - 1 : key[j] = v}

\* Adding up the numbers of nodes that each key has, from one key to the next.
AddsUp(before, keys, key, c, l) ==
  /\ l > 0 => before[1] = 0
  /\ \A p \in 2..l : before[p] = before[p - 1] + Cardinality(HavingKey(key, c, keys[p - 1]))

\* keys lists the keys of the nodes, once each.
ListsKeys(keys, key, c, l) ==
  /\ \A p, r \in 1..l : keys[p] = keys[r] => p = r
  /\ \A j \in 0..c - 1 : \E p \in 1..l : keys[p] = key[j]
  /\ \A p \in 1..l : \E j \in 0..c - 1 : keys[p] = key[j]

Ascends(cum, keys, l) == \A p, r \in 1..l : p < r => cum[keys[p]] < cum[keys[r]]

\* The sums are the places at which the keys start.
LEMMA SumsAreStarts ==
  ASSUME NEW c \in Nat, NEW key, NEW l \in Nat, NEW keys, NEW before,
         ListsKeys(keys, key, c, l), AddsUp(before, keys, key, c, l),
         NEW cum, \A p \in 1..l : cum[keys[p]] = before[p]
  PROVE  Starts(key, cum, c) /\ Ascends(cum, keys, l)
<1> DEFINE D == 0..c - 1
           B(p) == {j \in D : \E r \in 1..l : r < p /\ keys[r] = key[j]}
           N(p) == Cardinality(B(p))
           H(p) == HavingKey(key, c, keys[p])
<1>18. /\ \A p, r \in 1..l : keys[p] = keys[r] => p = r
       /\ \A j \in 0..c - 1 : \E p \in 1..l : keys[p] = key[j]
       /\ \A p \in 1..l : \E j \in 0..c - 1 : keys[p] = key[j]
  BY DEF ListsKeys
<1>1. \A S \in SUBSET D : IsFiniteSet(S) /\ Cardinality(S) \in Nat
  BY BelowFinite
<1>2. \A p : B(p) \in SUBSET D /\ H(p) \in SUBSET D
  BY DEF HavingKey
<1>3. \A p : IsFiniteSet(B(p)) /\ N(p) \in Nat /\ IsFiniteSet(H(p)) /\ Cardinality(H(p)) \in Nat
  <2> HIDE DEF B, H, D
  <2> QED
    BY <1>1, <1>2
<1>4. ASSUME NEW p \in 1..l
      PROVE  N(p + 1) = N(p) + Cardinality(H(p)) /\ Cardinality(H(p)) > 0
  <2>1. B(p + 1) = B(p) \cup H(p)
    <3>1. \A r \in 1..l : r < p + 1 <=> r < p \/ r = p
      OBVIOUS
    <3> QED
      BY <3>1 DEF HavingKey
  <2>2. B(p) \cap H(p) = {}
    BY <1>18 DEF HavingKey
  <2>3. PICK j \in D : keys[p] = key[j]
    BY <1>18
  <2>4. j \in H(p)
    BY <2>3 DEF HavingKey
  <2> HIDE DEF B, H
  <2>5. Cardinality(B(p) \cup H(p))
          = Cardinality(B(p)) + Cardinality(H(p)) - Cardinality(B(p) \cap H(p))
    BY <1>3, FS_Union
  <2>6. Cardinality(B(p) \cap H(p)) = 0
    BY <2>2, FS_EmptySet
  <2>7. Cardinality(H(p)) # 0
    BY <1>3, <2>4, FS_EmptySet
  <2>8. Cardinality(H(p)) > 0
    BY <1>3, <2>7
  <2>9. N(p + 1) = Cardinality(B(p)) + Cardinality(H(p)) - 0
    BY <2>1, <2>5, <2>6
  <2> QED
    BY <1>3, <2>8, <2>9
<1>5. N(1) = 0
  <2>1. B(1) = {}
    OBVIOUS
  <2> QED
    BY <2>1, FS_EmptySet
<1>6. \A p \in 2..l : before[p] = before[p - 1] + Cardinality(H(p - 1))
  BY DEF AddsUp
<1>7. l > 0 => before[1] = 0
  BY DEF AddsUp
<1> HIDE DEF B, N, H
<1>8. ASSUME NEW p \in 1..l
      PROVE  before[p] = N(p)
  <2> DEFINE T == {i \in 0..l - 1 : before[i + 1] = N(i + 1)}
  <2>1. 0 \in T
    BY <1>5, <1>7
  <2>2. ASSUME NEW i \in 0..(l - 1) - 1, i \in T
        PROVE  i + 1 \in T
    <3>1. i + 1 \in 1..l /\ (i + 1) + 1 \in 2..l /\ ((i + 1) + 1) - 1 = i + 1 /\ i + 1 \in 0..l - 1
      OBVIOUS
    <3>2. before[(i + 1) + 1] = before[i + 1] + Cardinality(H(i + 1))
      BY <1>6, <3>1
    <3>3. N((i + 1) + 1) = N(i + 1) + Cardinality(H(i + 1))
      BY <1>4, <3>1
    <3> QED
      BY <2>2, <3>1, <3>2, <3>3
  <2> HIDE DEF T
  <2>3. l - 1 \in Nat /\ p - 1 \in 0..l - 1 /\ (p - 1) + 1 = p
    OBVIOUS
  <2>4. \A i \in 0..l - 1 : i \in T
    BY <2>1, <2>2, <2>3, UpTo
  <2>5. p - 1 \in T
    BY <2>3, <2>4
  <2> QED
    BY <2>3, <2>5 DEF T
<1>9. ASSUME NEW p \in 1..l, NEW r \in 1..l, p < r
      PROVE  N(p) < N(r)
  <2>1. N(p + 1) > N(p)
    BY <1>3, <1>4
  <2>2. B(p + 1) \subseteq B(r)
    <3>1. \A x \in 1..l : x < p + 1 => x < r
      BY <1>9
    <3> QED
      BY <3>1 DEF B
  <2>3. N(p + 1) <= N(r)
    BY <1>3, <2>2, FS_Subset DEF N
  <2> QED
    BY <1>3, <2>1, <2>3
<1>10. \A p \in 1..l : cum[keys[p]] = N(p)
  BY <1>8
<1>11. \A p, r \in 1..l : p < r => cum[keys[p]] < cum[keys[r]]
  BY <1>9, <1>10
<1>12. \A p \in 1..l : cum[keys[p]] \in Nat
  BY <1>3, <1>10
<1>13. \A p, r \in 1..l : cum[keys[p]] < cum[keys[r]] <=> p < r
  <2> SUFFICES ASSUME NEW p \in 1..l, NEW r \in 1..l, cum[keys[p]] < cum[keys[r]]
               PROVE  p < r
    BY <1>11
  <2>1. cum[keys[p]] \in Nat /\ cum[keys[r]] \in Nat
    BY <1>12
  <2>2. p # r /\ ~(r < p)
    BY <1>11, <2>1
  <2> QED
    BY <2>2
<1>14. ASSUME NEW j \in D
       PROVE  cum[key[j]] = Cardinality({i \in D : cum[key[i]] < cum[key[j]]})
  <2>1. PICK p \in 1..l : keys[p] = key[j]
    BY <1>18
  <2>2. {i \in D : cum[key[i]] < cum[key[j]]} = B(p)
    <3>1. ASSUME NEW i \in D
          PROVE  cum[key[i]] < cum[key[j]] <=> \E r \in 1..l : r < p /\ keys[r] = key[i]
      <4>1. PICK r \in 1..l : keys[r] = key[i]
        BY <1>18
      <4>2. cum[key[i]] < cum[key[j]] <=> r < p
        BY <1>13, <2>1, <4>1
      <4>3. \A x \in 1..l : keys[x] = key[i] => x = r
        BY <1>18, <4>1
      <4> QED
        BY <4>1, <4>2, <4>3
    <3> QED
      BY <3>1 DEF B
  <2> QED
    BY <1>10, <2>1, <2>2 DEF N
<1>15. ASSUME NEW i \in D, NEW j \in D, cum[key[i]] = cum[key[j]]
       PROVE  key[i] = key[j]
  <2>1. PICK p \in 1..l : keys[p] = key[i]
    BY <1>18
  <2>2. PICK r \in 1..l : keys[r] = key[j]
    BY <1>18
  <2>3. ~(p < r) /\ ~(r < p)
    <3>1. cum[keys[p]] = cum[keys[r]] /\ cum[keys[p]] \in Nat /\ cum[keys[r]] \in Nat
      BY <1>12, <1>15, <2>1, <2>2
    <3> QED
      BY <1>11, <3>1
  <2> QED
    BY <2>1, <2>2, <2>3
<1>16. \A j \in D : cum[key[j]] \in Nat
  <2> SUFFICES ASSUME NEW j \in D
               PROVE  cum[key[j]] \in Nat
    OBVIOUS
  <2>1. PICK p \in 1..l : keys[p] = key[j]
    BY <1>18
  <2> QED
    BY <1>12, <2>1
<1>17. Starts(key, cum, c)
  BY <1>14, <1>15, <1>16 DEF Starts
<1> QED
  BY <1>11, <1>17 DEF Ascends
=============================================================================
