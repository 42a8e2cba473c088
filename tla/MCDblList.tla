----------------------------- MODULE MCDblList -----------------------------
EXTENDS DblList, FiniteSets

\* What a client sees who starts at head and takes Next() until nullptr;
\* a walk of NBALLOC + 1 elements has met a cycle and is cut there.
Walk(head) ==
  LET Next_(e) == IF e = NULL THEN NULL ELSE next[e]
      at_[i \in 1..NBALLOC + 1] ==
        IF i = 1 THEN head ELSE Next_(at_[i - 1])
      steps == {i \in 1..NBALLOC + 1 : at_[i] # NULL}
  IN [i \in 1..Cardinality(steps) |-> at_[i]]

Walked == [p \in Place |-> Walk(IF p \in List THEN first[p] ELSE
                                IF p = Pool THEN allocated ELSE tmp)]

Abstract == INSTANCE SeqLists WITH order <- Walked

\* Read through First() and Next(), the lists take only steps of SeqLists.
ImplementsSeqLists == Abstract!SeqSpec

(***************************************************************************)
(* "Append the list l at the end of this list" (list.hpp:227): afterwards *)
(* this list holds its own elements and then those of l.                   *)
(***************************************************************************)
AppendAppends ==
  [][\A l, m \in List :
       AppendList(l, m) => Walked'[l] = Walked[l] \o Walked[m]]_vars
=============================================================================
