------------------------------ MODULE SeqLists ------------------------------
(***************************************************************************)
(* What the linked lists and the node/arc allocator of DDLib promise:     *)
(* every element is either loose (constructed, in no list) or in exactly  *)
(* one sequence, and every operation moves elements between sequences.    *)
(*                                                                         *)
(* The sequences are the lists of List, the free list Pool out of which   *)
(* Arc::operator new and Node::operator new serve elements, and Doomed,   *)
(* what a running MDD::clear has unlinked from its layer but not yet      *)
(* deleted.  The guards are the contract of the callers: an element is    *)
(* only inserted when it is loose, only removed from the list it is in.   *)
(***************************************************************************)
EXTENDS Integers, Sequences, SequencesExt

CONSTANTS List,     \* the lists: arcs_ of each Node, nodes_ of each MDD
          Ordered,  \* the lists kept sorted by their clients (Node::arcs_)
          NBALLOC,  \* how many elements (Arcs or Nodes) the allocator has
          Value,    \* the labels (Arc::value_)
          Pool, Doomed

ASSUME OrderedAreLists == Ordered \subseteq List
ASSUME PlacesDistinct == Pool \notin List /\ Doomed \notin List /\ Pool # Doomed
ASSUME ValuesAreInts == Value \subseteq Int
ASSUME ChunkSize == NBALLOC \in Nat \ {0}

\* An element is its position in the chunk.
Elem == 1..NBALLOC

VARIABLES order,  \* the content of each list, of the pool, of the doomed
          value   \* the label of each element

Place == List \cup {Pool, Doomed}

In(p, e) == \E i \in 1..Len(order[p]) : order[p][i] = e

Loose(e) == \A p \in Place : ~In(p, e)

IndexOf(s, e) == CHOOSE i \in 1..Len(s) : s[i] = e

(***************************************************************************)
(* The client of a sorted list may put an element last only if no label   *)
(* of the list is larger.                                                  *)
(***************************************************************************)
FitsLast(l, e) ==
  l \in Ordered => \A i \in 1..Len(order[l]) : value[order[l][i]] <= value[e]

\* The chunk is handed out from its first element on.
SeqInit ==
  /\ order = [p \in Place |-> IF p = Pool THEN [e \in Elem |-> e] ELSE <<>>]
  /\ value \in [Elem -> Value]

\* new: the most recently deleted element is served first.
New(e, v) ==
  /\ order[Pool] # <<>>
  /\ e = Head(order[Pool])
  /\ order' = [order EXCEPT ![Pool] = Tail(@)]
  /\ value' = [value EXCEPT ![e] = v]

\* delete of an element that has left its list.
Delete(e) ==
  /\ Loose(e)
  /\ order' = [order EXCEPT ![Pool] = <<e>> \o @]
  /\ UNCHANGED value

PushFirst(l, e) ==
  /\ Loose(e) /\ l \notin Ordered
  /\ order' = [order EXCEPT ![l] = InsertAt(@, 1, e)]
  /\ UNCHANGED value

PushLast(l, e) ==
  /\ Loose(e) /\ FitsLast(l, e)
  /\ order' = [order EXCEPT ![l] = InsertAt(@, Len(@) + 1, e)]
  /\ UNCHANGED value

InsertAfter(l, e, f) ==
  /\ Loose(e) /\ In(l, f) /\ l \notin Ordered
  /\ order' = [order EXCEPT ![l] = InsertAt(@, IndexOf(@, f) + 1, e)]
  /\ UNCHANGED value

InsertBefore(l, e, f) ==
  /\ Loose(e) /\ In(l, f) /\ l \notin Ordered
  /\ order' = [order EXCEPT ![l] = InsertAt(@, IndexOf(@, f), e)]
  /\ UNCHANGED value

\* e takes position k of l.
Insert(l, e, k) ==
  /\ order' = [order EXCEPT ![l] = InsertAt(@, k, e)]
  /\ UNCHANGED value

\* Add of an ordered list: e goes before the first element whose label is
\* not smaller, at position k.
AddSorted(l, e, k) ==
  /\ Loose(e)
  /\ k \in 1..Len(order[l]) + 1
  /\ \A i \in 1..k - 1 : value[order[l][i]] < value[e]
  /\ k <= Len(order[l]) => value[order[l][k]] >= value[e]
  /\ Insert(l, e, k)

TakeOut(l, e) ==
  /\ In(l, e)
  /\ order' = [order EXCEPT ![l] = RemoveAt(@, IndexOf(@, e))]
  /\ UNCHANGED value

\* l takes everything m holds, after its own elements.
Concat(l, m) ==
  /\ l # m /\ l \notin Ordered
  /\ order' = [order EXCEPT ![l] = order[l] \o order[m], ![m] = <<>>]
  /\ UNCHANGED value

\* MDD::clear empties a layer of nodes ...
Condemn(l) ==
  /\ order[Doomed] = <<>> /\ l \notin Ordered
  /\ order' = [order EXCEPT ![l] = <<>>, ![Doomed] = order[l]]
  /\ UNCHANGED value

\* ... and deletes its nodes one after the other.
Execute ==
  /\ order[Doomed] # <<>>
  /\ order' = [order EXCEPT ![Doomed] = Tail(@),
                            ![Pool] = <<Head(order[Doomed])>> \o @]
  /\ UNCHANGED value

SeqNext ==
  \/ \E e \in Elem : Delete(e) \/ \E v \in Value : New(e, v)
  \/ \E l \in List, e \in Elem :
       \/ PushFirst(l, e) \/ PushLast(l, e) \/ TakeOut(l, e)
       \/ \E f \in Elem : InsertAfter(l, e, f) \/ InsertBefore(l, e, f)
       \/ \E k \in 1..Len(order[l]) + 1 : AddSorted(l, e, k)
  \/ \E l \in List : Condemn(l) \/ \E m \in List : Concat(l, m)
  \/ Execute

SeqSpec == SeqInit /\ [][SeqNext]_<<order, value>>
=============================================================================
