------------------------------- MODULE Library -------------------------------
(***************************************************************************)
(* What a user of the library does with a builder: build the diagram,     *)
(* merge its equivalent nodes by ReduceDFSMap or not, and then count its  *)
(* tuples, list them, or look for the longest or the shortest path.       *)
(***************************************************************************)
EXTENDS Builders, Search

CONSTANT Searches   \* what is done with a diagram

libraryVars == <<vars, builderVars, searchVars>>

LibraryInit == BuildInit /\ NoSearch

Building == BuildNext /\ UNCHANGED searchVars

\* Reduce takes the root out of an empty diagram: there is nothing to search.
StartSearch ==
  /\ stage = "built" /\ Returned /\ Root # Null
  /\ \/ /\ search \in {"none", "map"}
        /\ \/ \E kind \in Searches \cap {"count"} : RunDFS(kind)
           \/ \E kind \in Searches \cap {"longest", "shortest"} : RunBFS(kind)
           \/ "fill" \in Searches /\ RunFill
     \/ search = "none" /\ "map" \in Searches /\ RunDFS("map")
  /\ UNCHANGED <<reduceVars, builderVars>>

DoSearch == Searching /\ UNCHANGED <<reduceVars, builderVars>>

Done ==
  /\ stage = "built" /\ Returned /\ (search \notin {"none", "map"} \/ Root = Null)
  /\ UNCHANGED libraryVars

LibraryNext == Building \/ StartSearch \/ DoSearch \/ Done

LibrarySpec == LibraryInit /\ [][LibraryNext]_libraryVars
-----------------------------------------------------------------------------
Tuples == [1..Size -> Label]

\* Is there a run of the transitions T that reads t?
Reads(T, start, t) ==
  LET state[i \in 0..Size] ==
        IF i = 0 THEN {start}
        ELSE {tr[3] : tr \in {u \in T : u[1] \in state[i - 1] /\ u[2] = t[i]}}
  IN state[Size]

Described ==
  CASE task.kind \in {"table", "random"} -> ToSet(table)
    [] task.kind = "transitions" ->
         {t \in Tuples : Reads(ToSet(task.transitions), 0, t) # {}}
    [] task.kind = "automaton" ->
         {t \in Tuples : Reads(ToSet(task.transitions), task.start, t) \cap task.finals # {}}
    [] task.kind = "empty" -> {}

(***************************************************************************)
(* The diagram holds the tuples that its builder was given a description  *)
(* of: "CHECK(mdd->contains({0, 0, 0}))", "CHECK(!mdd->contains({1, 1, 0}))"*)
(* (test/Builder/testBuilder.cpp).  A table is sorted first, column by    *)
(* column, and a tuple out of order would be led along another one.       *)
(***************************************************************************)
BuildsDescription == stage = "built" /\ Returned => Language = Described

ReachedNodes ==
  LET reach[l \in Layer] == IF l = 0 THEN {Root}
                         ELSE UNION {{a.end : a \in ToSet(arcs[n])} : n \in reach[l - 1]}
  IN reach

(***************************************************************************)
(* "Maintain the map of equivalent node" (ReduceDFSMap.hpp:45): in a      *)
(* diagram without dead ends no two nodes that a tuple can go through have*)
(* the same tails, and no tuple is gained or lost, although arcs are moved*)
(* while they are walked.                                                  *)
(***************************************************************************)
MapReduces ==
  search = "map" /\ Returned =>
    /\ Language = Described
    /\ \A l \in Layer : \A n, m \in ReachedNodes[l] : Tails(n) = Tails(m) => n = m

(***************************************************************************)
(* "Return the number of tuples processed" (MDDInfos.hpp:72): every path  *)
(* is counted once, through however many nodes it shares with others.     *)
(***************************************************************************)
CountIsExact ==
  search = "count" /\ Returned => paths[Root] = Cardinality(Language)

(***************************************************************************)
(* A path is as long as the sum of its values.  The best one is known at  *)
(* the final node when each node was opened after all that lead to it.    *)
(***************************************************************************)
SumOf(t) == LET sum[i \in 0..Size] == IF i = 0 THEN 0 ELSE sum[i - 1] + t[i] IN sum[Size]

PathsAreBest ==
  Returned /\ Language # {} =>
    /\ search = "longest" => paths[Final] = MaxOf({SumOf(t) : t \in Language})
    /\ search = "shortest" => /\ \E t \in Language : paths[Final] = SumOf(t)
                              /\ \A t \in Language : paths[Final] <= SumOf(t)

(***************************************************************************)
(* FillTable gives every tuple of the diagram once, in their order, so    *)
(* that a table made into a diagram comes back sorted.                     *)
(***************************************************************************)
Precedes(s, t) == \E i \in 1..Size : s[i] < t[i] /\ \A j \in 1..i - 1 : s[j] = t[j]

TableComesBack ==
  search = "fill" /\ Returned =>
    /\ ToSet(tuples) = Described
    /\ \A i, j \in DOMAIN tuples : i < j => Precedes(tuples[i], tuples[j])
=============================================================================
