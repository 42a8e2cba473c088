----------------------------- MODULE DPCreation -----------------------------
(***************************************************************************)
(* DynProgMDDBuilder, DynamicProgRelaxCreation and                        *)
(* DynamicProgRestrictedCreation: the diagram of a dynamic program, whole,*)
(* or narrowed as it grows.  From the nodes of a layer, depth + 1 layers  *)
(* are built depth first; then a new reducer merges them one by one, and  *)
(* the states of the nodes that it made are the merges of those of their  *)
(* units.                                                                  *)
(***************************************************************************)
EXTENDS RestrictedReduce, Partitioners, Models

CONSTANT Jobs   \* the builders that are run, with their problems

ASSUME NodesAreNumbered == IsFiniteSet(Node) /\ Node = 1..Cardinality(Node)

VARIABLES
  job,      \* kind: exact, relax, restrict; problem; partitioner; depth
  phase,    \* build, layer, rebuild, reduce, clean, done
  depth,    \* the layer whose nodes the subtrees are built from
  level,    \* the layers of the subtrees that are reduced, counted from 0
  list,     \* the nodes of a loop over a layer that are still to be met
  stack,    \* the calls of BuildSubTree
  states,   \* states_
  node4,    \* node_4_state_
  memory    \* what the program keeps beside the states

dpVars == <<job, phase, depth, level, list, stack, states, node4, memory>>

Problem == job.problem
Depth == IF job.kind = "exact" THEN 0 ELSE job.depth
LocalDepth == depth + 1 + level

\* The free list of the chunk that holds the nodes of N.
Chunk(N) == Among([i \in 1..Cardinality(Node) |-> i], N)

\* Build, before its loop.
DPInit ==
  /\ job \in Jobs
  /\ \E root, final \in Node :
       /\ root = 1 /\ final = 2
       /\ nodes = [l \in Layer |-> IF l = 0 THEN <<root>>
                                   ELSE IF l = Size THEN <<final>> ELSE <<>>]
       /\ alive = {root, final}
       /\ varIndex = [n \in Node |-> IF n = final THEN Size ELSE 0]
       /\ free = Chunk(Node \ alive)
       /\ states = [n \in Node |-> IF n = root THEN MakeInitialState(Problem) ELSE NoState]
  /\ arcs = [n \in Node |-> <<>>]
  /\ nbIn = [n \in Node |-> 0]
  /\ newV = [n \in Node |-> n]
  /\ NoReducer
  /\ phase = "build" /\ depth = 0 /\ level = 0
  /\ list = nodes[0] /\ stack = <<>>
  /\ node4 = [l \in Layer |-> <<>>]
  /\ memory = InitialMemory(Problem)

-----------------------------------------------------------------------------
(***************************************************************************)
(* BuildSubTree.  A frame is a node, how deep to go, and the loop over its*)
(* values (up to DomSize) and then over its arcs.                          *)
(***************************************************************************)
Frame(n, left) ==
  [node |-> n, left |-> left, arc |-> 1,
   value |-> IF arcs[n] = <<>> /\ varIndex[n] < Size THEN 0 ELSE Problem.domain]

Top == Head(stack)

OpenSubTree ==
  /\ phase = "build" /\ stack = <<>> /\ list # <<>>
  /\ stack' = <<Frame(Head(list), Depth + 1)>>
  /\ list' = Tail(list)
  /\ UNCHANGED <<mddVars, relaxVars, job, phase, depth, level, states, node4, memory>>

Reached == TransitionFunction(Problem, memory, states[Top.node], Top.value)
Below == varIndex[Top.node] + 1

NodeForState(s, l) == IF s \in DOMAIN node4[l] THEN node4[l][s] ELSE Null

\* BuildNodeForState of a state that has no node in this layer.
NameState ==
  /\ phase = "build" /\ stack # <<>> /\ Top.value < Problem.domain
  /\ Reached # NoState /\ NodeForState(Reached, Below) = Null
  /\ IF Below = Size
     THEN /\ node4' = [node4 EXCEPT ![Size] = (Reached :> Final) @@ @]
          /\ UNCHANGED <<mddVars, free, states>>
     ELSE /\ free # <<>>
          /\ CreateNode(Head(free), Below)
          /\ free' = Tail(free)
          /\ node4' = [node4 EXCEPT ![Below] = (Reached :> Head(free)) @@ @]
          /\ states' = [states EXCEPT ![Head(free)] = NoState]
  /\ UNCHANGED <<step, layer, sets, cursors, toDel, cleans, lost, job, phase, depth,
                 level, list, stack, memory>>

\* The rest of a turn of BuildOutgoingArcs.
NextValue ==
  LET end == NodeForState(Reached, Below) IN
  /\ phase = "build" /\ stack # <<>> /\ Top.value < Problem.domain
  /\ IF Reached = NoState
     THEN UNCHANGED <<mddVars, states>>
     ELSE /\ end # Null
          /\ AddArcLast(Top.node, Top.value, end)
          /\ states' = [states EXCEPT ![end] = Reached]
  /\ memory' = AfterTransition(Problem, memory, states[Top.node], Top.value, Reached)
  /\ stack' = [stack EXCEPT ![1].value = @ + 1]
  /\ UNCHANGED <<relaxVars, job, phase, depth, level, list, node4>>

\* A call for the next arc, and the return after the last.
NextSubTree ==
  LET a == arcs[Top.node] IN
  /\ phase = "build" /\ stack # <<>> /\ Top.value = Problem.domain
  /\ stack' = IF Top.left > 1 /\ Top.arc <= Len(a)
              THEN <<Frame(a[Top.arc].end, Top.left - 1)>>
                   \o [stack EXCEPT ![1].arc = @ + 1]
              ELSE Tail(stack)
  /\ UNCHANGED <<mddVars, relaxVars, job, phase, depth, level, list, states,
                 node4, memory>>

\* The loop of Build: a new reducer, or the next layer of the exact builder.
EndSubTrees ==
  /\ phase = "build" /\ stack = <<>> /\ list = <<>>
  /\ IF job.kind = "exact"
     THEN /\ phase' = IF depth + 1 < Size THEN "build" ELSE "done"
          /\ depth' = depth + 1
          /\ list' = nodes[depth + 1]
          /\ UNCHANGED <<mddVars, relaxVars, level>>
     ELSE /\ Construct
          /\ phase' = "layer" /\ level' = 0
          /\ UNCHANGED <<depth, list>>
  /\ UNCHANGED <<job, stack, states, node4, memory>>

-----------------------------------------------------------------------------
(***************************************************************************)
(* The loop over the layers of the subtrees.                              *)
(***************************************************************************)
Ranks == [n \in Node |-> IF states[n] = NoState THEN NoRank
                         ELSE Rank(Problem, memory, states[n])]

\* What partitioner_ may answer for a layer.
Partitions(s) ==
  CASE job.partitioner = "default" -> DefaultPartitions(s, Width)
    [] job.partitioner = "random" -> RandomPartitions(s, Width)
    [] job.partitioner = "max" -> MaxRankPartitions(s, Width, Ranks)
    [] job.partitioner = "min" -> MinRankPartitions(s, Width, Ranks)
    [] job.partitioner = "pack" -> MinRankPackPartitions(s, Width, Ranks, 2)
    [] job.partitioner = "kmeans" -> KMeansPartitions(s, Width, Ranks)

\* A layer that is met, or the end of the subtrees.
NextLevel ==
  /\ phase = "layer"
  /\ IF level > Depth \/ LocalDepth >= Size
     THEN /\ depth' = depth + Depth + 1
          /\ phase' = IF depth' < Size THEN "build" ELSE "done"
          /\ list' = IF depth' < Size THEN nodes[depth'] ELSE <<>>
     ELSE /\ phase' = "rebuild"
          /\ list' = IF level > 0 THEN nodes[LocalDepth] ELSE <<>>
          /\ UNCHANGED depth
  /\ UNCHANGED <<mddVars, relaxVars, job, level, stack, states, node4, memory>>

\* Mutant: the state of a merged node is that of one unit.
RebuildStateOfOne ==
  LET S == {states[u] : u \in setOf[Head(list)]} IN
  /\ phase \in {"rebuild", "rebuilt"} /\ list # <<>>
  /\ states' = [states EXCEPT ![Head(list)] = CHOOSE s \in S : TRUE]
  /\ list' = Tail(list)
  /\ UNCHANGED <<mddVars, relaxVars, job, phase, depth, level, stack, node4, memory>>

\* One turn of rebuildStates.
RebuildState ==
  LET S == {states[u] : u \in setOf[Head(list)]}
      merges == Cardinality(setOf[Head(list)]) > 1
  IN /\ phase \in {"rebuild", "rebuilt"} /\ list # <<>>
     /\ states' = [states EXCEPT ![Head(list)] =
                     IF merges THEN MergeStates(Problem, S) ELSE CHOOSE s \in S : TRUE]
     /\ memory' = IF merges THEN AfterMerge(Problem, memory, S) ELSE memory
     /\ list' = Tail(list)
     /\ UNCHANGED <<mddVars, relaxVars, job, phase, depth, level, stack, node4>>

\* Mutant: the layer is cleaned before its states are rebuilt.
CleansAlways == TRUE

CleansInside == level < Depth

Reduces ==
  /\ phase = "rebuild" /\ list = <<>>
  /\ phase' = "reduce"
  /\ ReduceLayer(LocalDepth, CleansInside, Partitions(nodes[LocalDepth]))
  /\ UNCHANGED <<job, depth, level, list, stack, states, node4, memory>>

\* A node that the reducer creates has an id of its own, and no state.
ReducerStep ==
  /\ phase = "reduce"
  /\ IF job.kind = "restrict" THEN RestrictedReducing ELSE Reducing
  /\ states' = [n \in Node |-> IF n \in alive' \ alive THEN NoState ELSE states[n]]
  /\ UNCHANGED <<job, phase, depth, level, list, stack, node4, memory>>

\* The last layer of the subtrees is cleaned when its states are rebuilt.
Returned ==
  /\ phase = "reduce" /\ step = "idle"
  /\ IF level < Depth
     THEN phase' = "layer" /\ level' = level + 1 /\ UNCHANGED list
     ELSE phase' = "rebuilt" /\ list' = nodes[LocalDepth] /\ UNCHANGED level
  /\ UNCHANGED <<mddVars, relaxVars, job, depth, stack, states, node4, memory>>

CleanLast ==
  /\ phase = "rebuilt" /\ list = <<>>
  /\ CleanedLayer(LocalDepth)
  /\ phase' = "layer" /\ level' = level + 1
  /\ UNCHANGED <<step, layer, sets, cursors, cleans, lost, job, depth, list, stack,
                 states, node4, memory>>

DPNext ==
  \/ OpenSubTree \/ NameState \/ NextValue \/ NextSubTree \/ EndSubTrees
  \/ NextLevel \/ RebuildState \/ Reduces \/ ReducerStep \/ Returned \/ CleanLast
=============================================================================
