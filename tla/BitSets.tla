------------------------------- MODULE BitSets -------------------------------
(***************************************************************************)
(* Words and BitSets: a word is the set of its bits that are 1, a BitSet  *)
(* the set of the positions of its 1 bits, word after word of WordSize    *)
(* bits.  The last word of a BitSet has room for elements that it must    *)
(* never show: the tail mask keeps them out.                               *)
(***************************************************************************)
LOCAL INSTANCE Integers
LOCAL INSTANCE FiniteSets

CONSTANT WordSize   \* 64

Bits == 0..WordSize - 1
OneBit(pos) == {pos}
UnsetBit(word, pos) == word \ OneBit(pos)
NbOfBitSets(word) == Cardinality(word)

WordIndex(pos) == pos \div WordSize
BitIndex(pos) == pos % WordSize
NbWords(n) == WordIndex(n) + 1

\* The positions of the words, those that the tail mask hides left out.
Unhidden(n, positions) ==
  {p \in positions : WordIndex(p) = NbWords(n) - 1 => BitIndex(p) < BitIndex(n)}

Positions(n) == 0..NbWords(n) * WordSize - 1

\* BitSet(n, full); n > 0.
NewBitSet(n, full) == IF full THEN Unhidden(n, Positions(n)) ELSE {}

Contains(s, k) == k \in s
AddBit(s, k) == s \cup {k}
RemoveBit(s, k) == s \ {k}
RestrictTo(k) == {k}
Intersection(s, t) == s \cap t
UnionOf(s, t) == s \cup t
XorOf(s, t) == (s \ t) \cup (t \ s)
Not(n, s) == Unhidden(n, Positions(n) \ s)
NbActives(s) == Cardinality(s)
=============================================================================
