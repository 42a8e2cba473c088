---------------------------- MODULE Partitioners ----------------------------
(***************************************************************************)
(* How the nodes of a layer that is too wide are split: what a call of    *)
(* Partitioner::Partition may leave in a vector of `width' sets, for the  *)
(* layer s, a sequence of nodes.  Each partitioner is the set of its      *)
(* results; rank[n] is the Rank() of the state of n, NoRank without one.  *)
(***************************************************************************)
EXTENDS Integers, FiniteSets, Sequences, SequencesExt

CONSTANT NoRank

LOCAL MinNat(a, b) == IF a <= b THEN a ELSE b

\* The first width - 1 nodes of an order are alone, the others together.
KeepFirst(s, width) ==
  [i \in 1..width |-> IF i < width THEN {s[j] : j \in {i} \cap DOMAIN s}
                                   ELSE {s[j] : j \in {k \in DOMAIN s : k >= i}}]

\* Partitioner.
DefaultPartitions(s, width) == {KeepFirst(s, width)}

\* RandomPartitioner: any node in any part.
RandomPartitions(s, width) ==
  {[i \in 1..width |-> {s[j] : j \in {k \in DOMAIN s : f[k] = i}}] :
     f \in [DOMAIN s -> 1..width]}

\* A priority queue gives the nodes of S, those with the smallest key first: `pack'
\* of them to the first part, one to each of the next, the others to the last.
Splits(S, width, pack, key) ==
  LET size(i, T) == MinNat(IF i = 1 THEN pack ELSE 1, Cardinality(T))
      first(i, T) == {U \in kSubset(size(i, T), T) :
                        \A n \in U, m \in T \ U : key[n] <= key[m]}
      splits[i \in 1..width, T \in SUBSET S] ==
        IF i = width THEN {<<T>>}
        ELSE UNION {{<<U>> \o rest : rest \in splits[i + 1, T \ U]} : U \in first(i, T)}
  IN splits[1, S]

\* MaxRankPartitioner: greater-than makes the queue give the smallest first.
MaxRankPartitions(s, width, rank) == Splits(ToSet(s), width, 1, rank)

LOCAL Opposite(s, rank) == [n \in ToSet(s) |-> -rank[n]]

MinRankPartitions(s, width, rank) == Splits(ToSet(s), width, 1, Opposite(s, rank))

\* MinRankPackPartitioner: p_size is never reset, so that only the first part
\* is a pack.
MinRankPackPartitions(s, width, rank, maxPackSize) ==
  Splits(ToSet(s), width, MinNat(Len(s) \div width, maxPackSize), Opposite(s, rank))

\* SmallKMeansPartitioner: the nodes without a state are put at random, the
\* others one by one when they are fewer than the parts; the clusters of dkm
\* are any.
KMeansPartitions(s, width, rank) ==
  LET known == SelectSeq(s, LAMBDA n : rank[n] # NoRank)
      oneByOne(p) == \A i \in DOMAIN known : known[i] \in p[i]
  IN IF Len(s) < width THEN DefaultPartitions(s, width)
     ELSE {p \in RandomPartitions(s, width) : Len(known) < width => oneByOne(p)}
=============================================================================
