------------------------------ MODULE DblList ------------------------------
(***************************************************************************)
(* DblListElement, DblList, DblOrderedList and the free-list allocators of*)
(* Arc and Node, pointer by pointer.                                       *)
(*                                                                         *)
(* Everything is threaded through the same two fields: next_ links an     *)
(* element into its list and, once it is deleted, into the free list of   *)
(* its class; lists are emptied without touching their elements.  The     *)
(* variable order is the abstract state of SeqLists carried beside the    *)
(* pointers: each operation assigns the pointers as the code does and     *)
(* takes the step it promises, and the invariant LinksRepresentOrder says *)
(* that the pointers still spell the sequences.  order is read only by    *)
(* the callers' contract, never by the code of an operation.               *)
(*                                                                         *)
(* The search of DblOrderedList::Add and the loop of MDD::clear take one  *)
(* step per iteration.  The library is sequential, so no other operation  *)
(* starts while one of them runs.                                          *)
(***************************************************************************)
EXTENDS SeqLists

NULL == 0  \* nullptr, the position of no element

VARIABLES
  next, prev,         \* DblListElement::next_, prev_
  first, last, size,  \* DblList::first_, last_, size_
  allocated,          \* head of the free list of the class
  adding, into, at,   \* the running Add: elem, its list, the cursor e
  tmp                 \* the cursor of the running MDD::clear

links == <<next, prev>>
heads == <<first, last, size>>
cursors == <<adding, into, at, tmp>>
vars == <<order, value, next, prev, first, last, size, allocated,
          adding, into, at, tmp>>

Pointer == Elem \cup {NULL}

Idle == adding = NULL /\ tmp = NULL

Init ==
  /\ SeqInit
  /\ prev = [e \in Elem |-> NULL]
  /\ first = [l \in List |-> NULL]
  /\ last = [l \in List |-> NULL]
  /\ size = [l \in List |-> 0]
  /\ next = [e \in Elem |-> IF e = NBALLOC THEN NULL ELSE e + 1]
  /\ allocated = 1
  /\ adding = NULL /\ at = NULL /\ tmp = NULL
  /\ into \in List

(***************************************************************************)
(* operator new serves the head of the free list; the constructor of      *)
(* DblListElement then clears both links.                                  *)
(***************************************************************************)
Allocate(e, v) ==
  /\ Idle
  /\ New(e, v)
  /\ allocated # NULL /\ e = allocated
  /\ allocated' = next[e]
  /\ next' = [next EXCEPT ![e] = NULL]
  /\ prev' = [prev EXCEPT ![e] = NULL]
  /\ UNCHANGED <<heads, cursors>>

Free(e) ==
  /\ Idle
  /\ Delete(e)
  /\ next' = [next EXCEPT ![e] = allocated]
  /\ allocated' = e
  /\ UNCHANGED <<prev, heads, cursors>>

\* The assertions every insertion starts with.
Unlinked(e) == next[e] = NULL /\ prev[e] = NULL

\* Mutant: the new element is not counted.
AddFirstUncounted(l, e) ==
  /\ Idle /\ Unlinked(e)
  /\ PushFirst(l, e)
  /\ next' = [next EXCEPT ![e] = first[l]]
  /\ prev' = IF size[l] # 0 THEN [prev EXCEPT ![first[l]] = e] ELSE prev
  /\ last' = IF size[l] # 0 THEN last ELSE [last EXCEPT ![l] = e]
  /\ first' = [first EXCEPT ![l] = e]
  /\ UNCHANGED <<size, allocated, cursors>>

AddFirst(l, e) ==
  /\ Idle /\ Unlinked(e)
  /\ PushFirst(l, e)
  /\ next' = [next EXCEPT ![e] = first[l]]
  /\ prev' = IF size[l] # 0 THEN [prev EXCEPT ![first[l]] = e] ELSE prev
  /\ last' = IF size[l] # 0 THEN last ELSE [last EXCEPT ![l] = e]
  /\ first' = [first EXCEPT ![l] = e]
  /\ size' = [size EXCEPT ![l] = @ + 1]
  /\ UNCHANGED <<allocated, cursors>>

AddLast(l, e) ==
  /\ Idle /\ Unlinked(e)
  /\ PushLast(l, e)
  /\ prev' = IF size[l] # 0 THEN [prev EXCEPT ![e] = last[l]] ELSE prev
  /\ next' = IF size[l] # 0 THEN [next EXCEPT ![last[l]] = e] ELSE next
  /\ first' = IF size[l] # 0 THEN first ELSE [first EXCEPT ![l] = e]
  /\ last' = [last EXCEPT ![l] = e]
  /\ size' = [size EXCEPT ![l] = @ + 1]
  /\ UNCHANGED <<allocated, cursors>>

AddAfter(l, e, f) ==
  /\ Idle /\ Unlinked(e) /\ size[l] > 0
  /\ InsertAfter(l, e, f)
  /\ next' = [next EXCEPT ![e] = next[f], ![f] = e]
  /\ prev' = IF f = last[l] THEN [prev EXCEPT ![e] = f]
                            ELSE [prev EXCEPT ![e] = f, ![next[f]] = e]
  /\ last' = IF f = last[l] THEN [last EXCEPT ![l] = e] ELSE last
  /\ size' = [size EXCEPT ![l] = @ + 1]
  /\ UNCHANGED <<first, allocated, cursors>>

\* Mutant: an element put before the first one does not become the first.
AddBeforeKeepsFirst(l, e, f) ==
  /\ Idle /\ Unlinked(e) /\ size[l] > 0
  /\ InsertBefore(l, e, f)
  /\ prev' = [prev EXCEPT ![e] = prev[f], ![f] = e]
  /\ next' = IF f = first[l] THEN [next EXCEPT ![e] = f]
                             ELSE [next EXCEPT ![e] = f, ![prev[f]] = e]
  /\ size' = [size EXCEPT ![l] = @ + 1]
  /\ UNCHANGED <<first, last, allocated, cursors>>

AddBefore(l, e, f) ==
  /\ Idle /\ Unlinked(e) /\ size[l] > 0
  /\ InsertBefore(l, e, f)
  /\ prev' = [prev EXCEPT ![e] = prev[f], ![f] = e]
  /\ next' = IF f = first[l] THEN [next EXCEPT ![e] = f]
                             ELSE [next EXCEPT ![e] = f, ![prev[f]] = e]
  /\ first' = IF f = first[l] THEN [first EXCEPT ![l] = e] ELSE first
  /\ size' = [size EXCEPT ![l] = @ + 1]
  /\ UNCHANGED <<last, allocated, cursors>>

\* Mutant: a list whose last element leaves keeps it as its last.
RemoveElemKeepsLast(l, e) ==
  /\ Idle
  /\ TakeOut(l, e)
  /\ prev' = [d \in Elem |-> IF d = e THEN NULL
                             ELSE IF d = next[e] THEN prev[e] ELSE prev[d]]
  /\ next' = [d \in Elem |-> IF d = e THEN NULL
                             ELSE IF d = prev[e] THEN next[e] ELSE next[d]]
  /\ first' = IF prev[e] = NULL THEN [first EXCEPT ![l] = next[e]] ELSE first
  /\ size' = [size EXCEPT ![l] = @ - 1]
  /\ UNCHANGED <<last, allocated, cursors>>

\* Each neighbour is relinked past e, or the list's end moves when there
\* is none.
RemoveElem(l, e) ==
  /\ Idle
  /\ TakeOut(l, e)
  /\ prev' = [d \in Elem |-> IF d = e THEN NULL
                             ELSE IF d = next[e] THEN prev[e] ELSE prev[d]]
  /\ next' = [d \in Elem |-> IF d = e THEN NULL
                             ELSE IF d = prev[e] THEN next[e] ELSE next[d]]
  /\ last' = IF next[e] = NULL THEN [last EXCEPT ![l] = prev[e]] ELSE last
  /\ first' = IF prev[e] = NULL THEN [first EXCEPT ![l] = next[e]] ELSE first
  /\ size' = [size EXCEPT ![l] = @ - 1]
  /\ UNCHANGED <<allocated, cursors>>

\* l.Append(m), which ends by clearing m.  AddNextList(m.first_) assigns
\* m.first_->next_ the next_ of l's last element.
AppendList(l, m) ==
  /\ Idle
  /\ Concat(l, m)
  /\ LET splice == size[l] # 0 /\ size[m] # 0 IN
     /\ next' = IF splice THEN [next EXCEPT ![first[m]] = next[last[l]],
                                            ![last[l]] = first[m]]
                          ELSE next
     /\ prev' = IF splice THEN [prev EXCEPT ![first[m]] = last[l]] ELSE prev
  /\ first' = [first EXCEPT ![l] = IF size[l] # 0 THEN @ ELSE first[m],
                            ![m] = NULL]
  /\ last' = [last EXCEPT ![l] = IF size[l] # 0 /\ size[m] = 0 THEN @
                                 ELSE last[m],
                          ![m] = NULL]
  /\ size' = [size EXCEPT ![l] = @ + size[m], ![m] = 0]
  /\ UNCHANGED <<allocated, cursors>>

(***************************************************************************)
(* DblOrderedList::Add: an empty list takes the element at once, in the   *)
(* others the cursor looks for the first label that is not smaller.  That *)
(* this is the place AddSorted promises is part of the refinement.         *)
(***************************************************************************)
AddToEmpty(l, e) ==
  /\ Idle /\ size[l] = 0 /\ Loose(e)
  /\ Insert(l, e, 1)
  /\ first' = [first EXCEPT ![l] = e]
  /\ last' = [last EXCEPT ![l] = e]
  /\ size' = [size EXCEPT ![l] = @ + 1]
  /\ UNCHANGED <<links, allocated, cursors>>

\* Mutant: the search starts behind the first element.
AddBeginAtSecond(l, e) ==
  /\ Idle /\ size[l] # 0 /\ Loose(e)
  /\ adding' = e /\ into' = l /\ at' = next[first[l]]
  /\ UNCHANGED <<order, value, links, heads, allocated, tmp>>

AddBegin(l, e) ==
  /\ Idle /\ size[l] # 0 /\ Loose(e)
  /\ adding' = e /\ into' = l /\ at' = first[l]
  /\ UNCHANGED <<order, value, links, heads, allocated, tmp>>

\* Mutant: the search passes the elements with the same label.
AddSeekPastEqual ==
  /\ adding # NULL /\ at # NULL
  /\ value[at] <= value[adding]
  /\ at' = next[at]
  /\ UNCHANGED <<order, value, links, heads, allocated, adding, into, tmp>>

AddSeek ==
  /\ adding # NULL /\ at # NULL
  /\ value[at] < value[adding]
  /\ at' = next[at]
  /\ UNCHANGED <<order, value, links, heads, allocated, adding, into, tmp>>

\* The loop stopped on an element: AddPrevList.
AddInFront ==
  /\ adding # NULL /\ at # NULL
  /\ ~(value[at] < value[adding])
  /\ prev' = [prev EXCEPT ![adding] = prev[at], ![at] = adding]
  /\ next' = IF prev[at] = NULL
             THEN [next EXCEPT ![adding] = at]
             ELSE [next EXCEPT ![adding] = at, ![prev[at]] = adding]
  /\ first' = IF prev[at] = NULL THEN [first EXCEPT ![into] = adding]
                                 ELSE first
  /\ size' = [size EXCEPT ![into] = @ + 1]
  /\ Insert(into, adding, IndexOf(order[into], at))
  /\ adding' = NULL /\ at' = NULL
  /\ UNCHANGED <<last, allocated, into, tmp>>

\* The loop ran off the list.
AddBehind ==
  /\ adding # NULL /\ at = NULL
  /\ prev' = [prev EXCEPT ![adding] = last[into]]
  /\ next' = [next EXCEPT ![last[into]] = adding]
  /\ last' = [last EXCEPT ![into] = adding]
  /\ size' = [size EXCEPT ![into] = @ + 1]
  /\ Insert(into, adding, Len(order[into]) + 1)
  /\ adding' = NULL
  /\ UNCHANGED <<first, allocated, into, at, tmp>>

(***************************************************************************)
(* MDD::clear for one layer: the cursor is read, the list cleared, and    *)
(* each element's next_ is read before delete overwrites it.               *)
(***************************************************************************)
ClearBegin(l) ==
  /\ Idle
  /\ Condemn(l)
  /\ tmp' = first[l]
  /\ first' = [first EXCEPT ![l] = NULL]
  /\ last' = [last EXCEPT ![l] = NULL]
  /\ size' = [size EXCEPT ![l] = 0]
  /\ UNCHANGED <<links, allocated, adding, into, at>>

\* Mutant: next_ is read after delete has overwritten it.
ClearStepReadsLate ==
  /\ tmp # NULL
  /\ tmp' = allocated
  /\ next' = [next EXCEPT ![tmp] = allocated]
  /\ allocated' = tmp
  /\ Execute
  /\ UNCHANGED <<prev, heads, adding, into, at>>

ClearStep ==
  /\ tmp # NULL
  /\ tmp' = next[tmp]
  /\ next' = [next EXCEPT ![tmp] = allocated]
  /\ allocated' = tmp
  /\ Execute
  /\ UNCHANGED <<prev, heads, adding, into, at>>

AddSteps == AddSeek \/ AddInFront \/ AddBehind

\* Every operation but Append.
ListOps ==
  \/ \E e \in Elem : Free(e) \/ \E v \in Value : Allocate(e, v)
  \/ \E l \in List, e \in Elem :
       \/ AddFirst(l, e) \/ AddLast(l, e) \/ RemoveElem(l, e)
       \/ AddToEmpty(l, e) \/ AddBegin(l, e)
       \/ \E f \in Elem : AddAfter(l, e, f) \/ AddBefore(l, e, f)
  \/ AddSteps
  \/ \E l \in List : ClearBegin(l)
  \/ ClearStep

(***************************************************************************)
(* Append loses the tail of m when both lists hold elements and m holds   *)
(* more than one (run list_append).  Next restricts the clients to the    *)
(* calls for which it works; NextAnyAppend does not.                       *)
(***************************************************************************)
Next ==
  \/ ListOps
  \/ \E l, m \in List : (size[l] = 0 \/ size[m] <= 1) /\ AppendList(l, m)

NextAnyAppend == ListOps \/ \E l, m \in List : AppendList(l, m)

Spec == Init /\ [][Next]_vars

\* The loops run in the calling thread: nothing can keep one from its next
\* iteration.
FairSpec == Spec /\ WF_vars(AddSteps) /\ WF_vars(ClearStep)

SpecAnyAppend == Init /\ [][NextAnyAppend]_vars
-----------------------------------------------------------------------------
TypeOK ==
  /\ order \in [Place -> Seq(Elem)]
  /\ value \in [Elem -> Value]
  /\ next \in [Elem -> Pointer] /\ prev \in [Elem -> Pointer]
  /\ first \in [List -> Pointer] /\ last \in [List -> Pointer]
  /\ size \in [List -> Nat]
  /\ allocated \in Pointer
  /\ adding \in Pointer /\ into \in List /\ at \in Pointer /\ tmp \in Pointer

\* No element is twice in a sequence or in two sequences.
OnePlace ==
  \A p, q \in Place : \A i \in 1..Len(order[p]), j \in 1..Len(order[q]) :
    order[p][i] = order[q][j] => p = q /\ i = j

FirstOf(s) == IF Len(s) = 0 THEN NULL ELSE s[1]
LastOf(s) == IF Len(s) = 0 THEN NULL ELSE s[Len(s)]
AfterIn(s, i) == IF i = Len(s) THEN NULL ELSE s[i + 1]
BeforeIn(s, i) == IF i = 1 THEN NULL ELSE s[i - 1]

ForwardLinks ==
  \A p \in Place : \A i \in 1..Len(order[p]) :
    next[order[p][i]] = AfterIn(order[p], i)

BackwardLinks ==
  \A l \in List : \A i \in 1..Len(order[l]) :
    prev[order[l][i]] = BeforeIn(order[l], i)

Ends ==
  /\ \A l \in List : /\ first[l] = FirstOf(order[l])
                     /\ last[l] = LastOf(order[l])
                     /\ size[l] = Len(order[l])
  /\ allocated = FirstOf(order[Pool])
  /\ tmp = FirstOf(order[Doomed])

LooseIsUnlinked == \A e \in Elem : Loose(e) => Unlinked(e)

(***************************************************************************)
(* The pointers of the lists, of the free list and of a list being        *)
(* deleted spell exactly the sequences their clients expect: no element   *)
(* is lost, shared or reachable after its deletion, no cycle forms, both  *)
(* ends and the size agree, and an element outside every list passes the  *)
(* assertions of the insertions (list.hpp, orderedList.hpp, MDD.cpp       *)
(* 37-80).                                                                 *)
(***************************************************************************)
LinksRepresentOrder ==
  OnePlace /\ ForwardLinks /\ BackwardLinks /\ Ends /\ LooseIsUnlinked

\* The cursor of a running Add stands behind labels that are all smaller.
SeekInv ==
  adding # NULL =>
    /\ Loose(adding) /\ tmp = NULL /\ size[into] > 0
    /\ \E k \in 1..Len(order[into]) + 1 :
         /\ at = IF k = Len(order[into]) + 1 THEN NULL ELSE order[into][k]
         /\ \A i \in 1..k - 1 : value[order[into][i]] < value[adding]

(***************************************************************************)
(* The arcs of a node stay in increasing order of their labels while its  *)
(* clients use Add, Remove and AddLast with a largest label ("ORDORED     *)
(* list of outgoing arcs"), although Add finds its place by a search that *)
(* only looks forward.                                                     *)
(***************************************************************************)
SortedLists ==
  \A l \in Ordered : \A i, j \in 1..Len(order[l]) :
    i < j => value[order[l][i]] <= value[order[l][j]]

(***************************************************************************)
(* Every Add ends, since the chain it follows has no cycle, and every     *)
(* MDD::clear deletes its last node.                                       *)
(***************************************************************************)
LoopsEnd == (adding # NULL ~> adding = NULL) /\ (tmp # NULL ~> tmp = NULL)
=============================================================================
