------------------------------- MODULE Search -------------------------------
(***************************************************************************)
(* DepthFirstSearch and BreadthFirstSearch, with the callbacks of their   *)
(* users: CountTuplesDFS, ReduceDFSMap, LongestPathBFS, ShortestPathBFS;  *)
(* and FillTable, which walks the diagram on its own stack.                *)
(***************************************************************************)
EXTENDS MDD

VARIABLES
  search,    \* none, count, map, longest, shortest, fill
  visited,   \* visited_
  frames,    \* the calls of ExploreNode, the node of Run, or stEdges
  queue,     \* nodes_ of a BreadthFirstSearch
  paths,     \* nb_outgoing_paths_, longest_past_ or shortest_past_
  same,      \* same_
  tuple,     \* vals
  tuples     \* the table to fill

searchVars == <<search, visited, frames, queue, paths, same, tuple, tuples>>

Frame(n) == [node |-> n, arc |-> 1]
Top == Head(frames)
HasArc == Top.arc <= Len(arcs[Top.node])
TopArc == arcs[Top.node][Top.arc]
NextArcOfTop == [frames EXCEPT ![1].arc = @ + 1]

NoSearch ==
  /\ search = "none" /\ visited = {} /\ frames = <<>> /\ queue = <<>>
  /\ paths = <<>> /\ same = <<>> /\ tuple = <<>> /\ tuples = <<>>

Returned == frames = <<>> /\ queue = <<>>

-----------------------------------------------------------------------------
(***************************************************************************)
(* DepthFirstSearch::Run and ExploreNode: an arc is closed once its end   *)
(* is visited, at the latest by the call of ExploreNode for it.            *)
(***************************************************************************)
DFS == search \in {"count", "map"} /\ frames # <<>>

RunDFS(kind) ==
  /\ search' = kind /\ visited' = {Root}
  /\ frames' = <<Frame(Root)>>
  /\ paths' = [n \in Node |-> IF n = Final THEN 1 ELSE 0]
  /\ same' = <<>>
  /\ UNCHANGED <<mddVars, queue, tuple, tuples>>

ExploreNode ==
  /\ DFS /\ HasArc /\ TopArc.end \notin visited
  /\ visited' = visited \cup {TopArc.end}
  /\ frames' = <<Frame(TopArc.end)>> \o frames
  /\ UNCHANGED <<mddVars, search, queue, paths, same, tuple, tuples>>

\* Mutant: the start is counted into the end.
CountDown == [paths EXCEPT ![TopArc.end] = @ + paths[Top.node]]

\* CountTuplesDFS::OnCloseArc.
CountUp == [paths EXCEPT ![Top.node] = @ + paths[TopArc.end]]

CloseArc ==
  /\ DFS /\ HasArc /\ TopArc.end \in visited
  /\ IF search = "count"
     THEN paths' = CountUp /\ UNCHANGED mddVars
     ELSE UpdateArc(Top.node, Top.arc, newV[TopArc.end]) /\ UNCHANGED paths
  /\ frames' = NextArcOfTop
  /\ UNCHANGED <<search, visited, queue, same, tuple, tuples>>

\* Mutant: the labels alone make the string.
Labels(n) == [i \in DOMAIN arcs[n] |-> arcs[n][i].value]

\* Node::to_string: the labels and the ids of the ends.
String(n) == arcs[n]

CloseNode ==
  LET n == Top.node IN
  /\ DFS /\ ~HasArc
  /\ IF search = "map"
     THEN /\ same' = IF String(n) \in DOMAIN same THEN same ELSE (String(n) :> n) @@ same
          /\ newV' = [newV EXCEPT ![n] = same'[String(n)]]
          /\ UNCHANGED <<nodes, alive, varIndex, arcs, nbIn>>
     ELSE UNCHANGED <<mddVars, same>>
  /\ frames' = Tail(frames)
  /\ UNCHANGED <<search, visited, queue, paths, tuple, tuples>>

-----------------------------------------------------------------------------
(***************************************************************************)
(* BreadthFirstSearch::Run; frames is the node whose arcs are gone        *)
(* through.                                                                *)
(***************************************************************************)
BFS == search \in {"longest", "shortest"}

RunBFS(kind) ==
  /\ search' = kind /\ visited' = {} /\ queue' = <<Root>>
  /\ paths' = IF kind = "longest" THEN [n \in Node |-> 0] ELSE <<>>
  /\ UNCHANGED <<mddVars, frames, same, tuple, tuples>>

OpenQueued ==
  /\ BFS /\ frames = <<>> /\ queue # <<>>
  /\ frames' = <<Frame(Head(queue))>>
  /\ queue' = Tail(queue)
  /\ UNCHANGED <<mddVars, search, visited, paths, same, tuple, tuples>>

\* A node that is not in the map is put there with 0.
PathOf(n) == IF n \in DOMAIN paths THEN paths[n] ELSE 0

BetterPath(end, path) ==
  IF search = "longest" THEN IF path > paths[end] THEN path ELSE paths[end]
  ELSE IF end \in DOMAIN paths /\ paths[end] < path THEN paths[end] ELSE path

\* Mutant: the queue is a stack.
PushedFirst(n) == <<n>> \o queue

Pushed(n) == Append(queue, n)

OnArc ==
  LET end == TopArc.end IN
  /\ BFS /\ frames # <<>> /\ HasArc
  /\ paths' = (end :> BetterPath(end, PathOf(Top.node) + TopArc.value)) @@ paths
  /\ queue' = IF end \in visited THEN queue ELSE Pushed(end)
  /\ visited' = visited \cup {end}
  /\ frames' = NextArcOfTop
  /\ UNCHANGED <<mddVars, search, same, tuple, tuples>>

CloseQueued ==
  /\ BFS /\ frames # <<>> /\ ~HasArc
  /\ frames' = <<>>
  /\ UNCHANGED <<mddVars, search, visited, queue, paths, same, tuple, tuples>>

-----------------------------------------------------------------------------
(***************************************************************************)
(* FillTable: vals holds what was read on the way to the current arc, and *)
(* older values behind.                                                    *)
(***************************************************************************)
RunFill ==
  /\ search' = "fill" /\ frames' = <<Frame(Root)>>
  /\ tuple' = [i \in 1..Size |-> 0] /\ tuples' = <<>>
  /\ UNCHANGED <<mddVars, visited, queue, paths, same>>

\* Mutant: the arcs after the one that was followed are forgotten.
DescendOnly == <<Frame(TopArc.end)>> \o Tail(frames)

Descend == <<Frame(TopArc.end)>> \o NextArcOfTop

FillArc ==
  /\ search = "fill" /\ frames # <<>> /\ HasArc
  /\ tuple' = [tuple EXCEPT ![varIndex[Top.node] + 1] = TopArc.value]
  /\ IF varIndex[TopArc.end] = Size
     THEN tuples' = Append(tuples, tuple') /\ frames' = NextArcOfTop
     ELSE frames' = Descend /\ UNCHANGED tuples
  /\ UNCHANGED <<mddVars, search, visited, queue, paths, same>>

FillBack ==
  /\ search = "fill" /\ frames # <<>> /\ ~HasArc
  /\ frames' = Tail(frames)
  /\ UNCHANGED <<mddVars, search, visited, queue, paths, same, tuple, tuples>>

Searching ==
  ExploreNode \/ CloseArc \/ CloseNode \/ OpenQueued \/ OnArc \/ CloseQueued
  \/ FillArc \/ FillBack
=============================================================================
