------------------------------- MODULE Tables -------------------------------
(***************************************************************************)
(* TableOfTuple, a sequence of tuples, and the counting sort of           *)
(* TableSortCount, column after column from the last.  Columns and lines  *)
(* count from 1.  The sort has counters for the values of the first       *)
(* domain only: its tables have no larger value in another column.        *)
(***************************************************************************)
LOCAL INSTANCE Naturals
LOCAL INSTANCE FiniteSets
LOCAL INSTANCE Sequences

AddTuple(table, t) == Append(table, t)
TableContains(table, t) == \E i \in DOMAIN table : table[i] = t

\* A turn of the loop of MakeRandomTable.
AddRandomTuple(table, t) == IF TableContains(table, t) THEN table ELSE AddTuple(table, t)

\* The counters of a column, summed up: where the lines with value v begin.
FirstPlace(table, column, v) == Cardinality({i \in DOMAIN table : table[i][column] < v})

\* Mutant: the lines are dealt out from the last.
DistributedBackwards(table, order, column) ==
  LET key(i) == table[order[i]][column]
      place(i) == FirstPlace(table, column, key(i))
                  + Cardinality({h \in i..Len(order) : key(h) = key(i)})
  IN [p \in DOMAIN order |-> order[CHOOSE i \in DOMAIN order : place(i) = p]]

\* A pass: the lines are dealt out in their order, so that it is stable.
Distributed(table, order, column) ==
  LET key(i) == table[order[i]][column]
      place(i) == FirstPlace(table, column, key(i))
                  + Cardinality({h \in 1..i : key(h) = key(i)})
  IN [p \in DOMAIN order |-> order[CHOOSE i \in DOMAIN order : place(i) = p]]

SortedIndex(table, columns) ==
  LET res[j \in 1..columns + 1] ==
        IF j = columns + 1 THEN [i \in DOMAIN table |-> i]
        ELSE Distributed(table, res[j + 1], j)
  IN res[1]
=============================================================================
