------------------------------ MODULE Builders ------------------------------
(***************************************************************************)
(* TableMDDBuilder on a given or a random table, TransitionMDDBuilder,    *)
(* AutomatonMDDBuilder with its GridMDDBuilder, and EmptyBuilder: from    *)
(* their input to the diagram, and through Reduce where they call it.     *)
(* What setDomSize is given is MaxDomSize.                                 *)
(***************************************************************************)
EXTENDS Reduce, Tables

CONSTANT Tasks   \* the builders that are run: their kind and their input

VARIABLES
  task,    \* one of Tasks
  stage,   \* random, table, transitions, grid, automaton, bad, reduce, built
  table,   \* the tuples of a TableOfTuple
  order,   \* order_
  row,     \* the tuples or transitions that are done
  col,     \* var in a tuple, or the calls made for a transition
  at,      \* the node that the prefix of the tuple leads to
  made,    \* a node that was created for the next arc
  named    \* the nodes of the transitions, or grid_

builderVars == <<task, stage, table, order, row, col, at, made, named>>

\* createNode takes a node that is not used.
NewNode == CHOOSE n \in Node \ alive : \A m \in Node \ alive : n <= m

\* BuildRootAndFinalNodes; EmptyBuilder creates the same two nodes.
BuildInit ==
  /\ task \in Tasks
  /\ \E root, final \in Node :
       /\ root = 1 /\ final = 2
       /\ nodes = [l \in Layer |-> IF l = 0 THEN <<root>>
                                   ELSE IF l = Size THEN <<final>> ELSE <<>>]
       /\ alive = {root, final}
       /\ varIndex = [n \in Node |-> IF n = final THEN Size ELSE 0]
       /\ at = root
       /\ named = IF task.kind = "transitions" THEN 0 :> root ELSE <<>>
  /\ arcs = [n \in Node |-> <<>>]
  /\ nbIn = [n \in Node |-> 0]
  /\ newV = [n \in Node |-> n]
  /\ input = [nodes |-> nodes, arcs |-> arcs] /\ Unallocated
  /\ stage = CASE task.kind = "empty" -> "built"
               [] task.kind = "automaton" -> "grid"
               [] OTHER -> task.kind
  /\ table = IF task.kind = "table" THEN task.tuples ELSE <<>>
  /\ order = SortedIndex(table, Size)
  /\ row = 0 /\ col = 0 /\ made = Null

-----------------------------------------------------------------------------
\* MakeRandomTable: at most task.most tuples of task.domains.
DrawTuple ==
  /\ stage = "random" /\ row < task.most
  /\ \E t \in {u \in [1..Size -> Label] : \A i \in 1..Size : u[i] < task.domains[i]} :
       table' = AddRandomTuple(table, t)
  /\ row' = row + 1
  /\ UNCHANGED <<mddVars, reduceVars, task, stage, order, col, at, made, named>>

SortTable ==
  /\ stage = "random" /\ row = task.most
  /\ stage' = "table" /\ row' = 0
  /\ order' = SortedIndex(table, Size)
  /\ UNCHANGED <<mddVars, reduceVars, task, table, col, at, made, named>>

(***************************************************************************)
(* TableMDDBuilder::Build, value after value of a tuple.                  *)
(***************************************************************************)
InTuple == stage = "table" /\ row < Len(table) /\ col < Size
Value == table[order[row + 1]][col + 1]
HasLast == arcs[at] # <<>> /\ Last(arcs[at]).value >= Value

CreateEnd ==
  /\ InTuple /\ ~HasLast /\ col + 1 < Size /\ made = Null
  /\ CreateNode(NewNode, col + 1)
  /\ made' = NewNode
  /\ UNCHANGED <<reduceVars, task, stage, table, order, row, col, at, named>>

AddValue ==
  LET end == IF col + 1 = Size THEN Final ELSE made IN
  /\ InTuple /\ ~HasLast /\ end # Null
  /\ AddArcLast(at, Value, end)
  /\ at' = end /\ col' = col + 1 /\ made' = Null
  /\ UNCHANGED <<reduceVars, task, stage, table, order, row, named>>

FollowValue ==
  /\ InTuple /\ HasLast
  /\ at' = Last(arcs[at]).end /\ col' = col + 1
  /\ UNCHANGED <<mddVars, reduceVars, task, stage, table, order, row, made, named>>

NextTuple ==
  /\ stage = "table" /\ (col = Size \/ row = Len(table))
  /\ IF row = Len(table) THEN stage' = "reduce" /\ UNCHANGED <<row, col, at>>
     ELSE row' = row + 1 /\ col' = 0 /\ at' = Root /\ UNCHANGED stage
  /\ UNCHANGED <<mddVars, reduceVars, task, table, order, made, named>>

-----------------------------------------------------------------------------
(***************************************************************************)
(* TransitionMDDBuilder::Build: <<start, value, end>>, in the order of a  *)
(* search.  What the last variable leads to is the final node, whatever it*)
(* is called.                                                              *)
(***************************************************************************)
Transition == task.transitions[row + 1]
StartNode == named[Transition[1]]

EndNode ==
  IF varIndex[StartNode] + 1 = Size THEN Final
  ELSE IF Transition[3] \in DOMAIN named THEN named[Transition[3]] ELSE Null

CreateNamed ==
  /\ stage = "transitions" /\ row < Len(task.transitions) /\ EndNode = Null
  /\ CreateNode(NewNode, varIndex[StartNode] + 1)
  /\ named' = (Transition[3] :> NewNode) @@ named
  /\ UNCHANGED <<reduceVars, task, stage, table, order, row, col, at, made>>

AddTransitionArc ==
  /\ stage = "transitions" /\ row < Len(task.transitions) /\ EndNode # Null
  /\ AddArc(StartNode, Transition[2], EndNode)
  /\ row' = row + 1
  /\ UNCHANGED <<reduceVars, task, stage, table, order, col, at, made, named>>

EndTransitions ==
  /\ stage = "transitions" /\ row = Len(task.transitions)
  /\ stage' = "built"
  /\ UNCHANGED <<mddVars, reduceVars, task, table, order, row, col, at, made, named>>

-----------------------------------------------------------------------------
(***************************************************************************)
(* AutomatonMDDBuilder::Build: a grid of all states for each variable but *)
(* the first, named <<layer, state>>, of which deleteBadNode takes out the*)
(* nodes that cannot be reached.                                           *)
(***************************************************************************)
NbStates ==
  1 + MaxOf(UNION {{t[1], t[3]} : t \in ToSet(task.transitions)})

GridSize == (Size - 1) * NbStates
CellAt(c) == <<1 + (c \div NbStates), c % NbStates>>

CreateCell ==
  LET c == Cardinality(DOMAIN named) IN
  /\ stage = "grid" /\ c < GridSize
  /\ CreateNode(NewNode, CellAt(c)[1])
  /\ named' = (CellAt(c) :> NewNode) @@ named
  /\ stage' = IF c + 1 = GridSize THEN "automaton" ELSE stage
  /\ UNCHANGED <<reduceVars, task, table, order, row, col, at, made>>

\* addStartingTransition, if the transition leaves the initial state.
AddStarting ==
  /\ stage = "automaton" /\ row < Len(task.transitions) /\ col = 0
  /\ IF Transition[1] = task.start
     THEN AddArc(Root, Transition[2], named[<<1, Transition[3]>>])
     ELSE UNCHANGED mddVars
  /\ col' = 1
  /\ UNCHANGED <<reduceVars, task, stage, table, order, row, at, made, named>>

\* addTransition: an arc between each two layers of the grid.
AddInner ==
  LET Start(d) == named[<<d, Transition[1]>>]
      End(d) == named[<<d + 1, Transition[3]>>]
      Depth == 1..Size - 2
      arc(d) == [value |-> Transition[2], end |-> End(d)]
  IN /\ stage = "automaton" /\ row < Len(task.transitions) /\ col = 1
     /\ arcs' = [n \in Node |->
                   IF \E d \in Depth : n = Start(d)
                   THEN InsertAt(arcs[n], PlaceOf(n, Transition[2]), arc(varIndex[n]))
                   ELSE arcs[n]]
     /\ nbIn' = [n \in Node |-> IF \E d \in Depth : n = End(d) THEN nbIn[n] + 1 ELSE nbIn[n]]
     /\ col' = 2
     /\ UNCHANGED <<nodes, alive, varIndex, newV, reduceVars, task, stage, table,
                    order, row, at, made, named>>

\* addEndingTransition, if the transition enters a final state.
AddEnding ==
  /\ stage = "automaton" /\ row < Len(task.transitions) /\ col = 2
  /\ IF Transition[3] \in task.finals
     THEN AddArc(named[<<Size - 1, Transition[1]>>], Transition[2], Final)
     ELSE UNCHANGED mddVars
  /\ row' = row + 1 /\ col' = 0
  /\ UNCHANGED <<reduceVars, task, stage, table, order, at, made, named>>

EndAutomaton ==
  /\ stage = "automaton" /\ row = Len(task.transitions)
  /\ stage' = "bad"
  /\ UNCHANGED <<mddVars, reduceVars, task, table, order, row, col, at, made, named>>

\* deleteBadNode, node after node; col counts them.
DeleteBadNode ==
  LET n == named[CellAt(col)] IN
  /\ stage = "bad" /\ col < GridSize
  /\ IF nbIn[n] = 0
     THEN /\ nbIn' = [m \in Node |-> nbIn[m] - Cardinality(ArcsInto(m, {n}))]
          /\ arcs' = [arcs EXCEPT ![n] = <<>>]
          /\ Unlink(n)
          /\ UNCHANGED <<alive, varIndex, newV>>
     ELSE UNCHANGED mddVars
  /\ col' = col + 1
  /\ UNCHANGED <<reduceVars, task, stage, table, order, row, at, made, named>>

EndBadNodes ==
  /\ stage = "bad" /\ col = GridSize
  /\ stage' = "reduce"
  /\ UNCHANGED <<mddVars, reduceVars, task, table, order, row, col, at, made, named>>

-----------------------------------------------------------------------------
\* Reduce r(*mdd), then the builder returns.
ReduceBuilt == stage = "reduce" /\ pc # "done" /\ Next /\ UNCHANGED builderVars

Return ==
  /\ stage = "reduce" /\ pc = "done"
  /\ stage' = "built"
  /\ UNCHANGED <<mddVars, reduceVars, task, table, order, row, col, at, made, named>>

BuildNext ==
  \/ DrawTuple \/ SortTable \/ CreateEnd \/ AddValue \/ FollowValue \/ NextTuple
  \/ CreateNamed \/ AddTransitionArc \/ EndTransitions
  \/ CreateCell \/ AddStarting \/ AddInner \/ AddEnding \/ EndAutomaton
  \/ DeleteBadNode \/ EndBadNodes \/ ReduceBuilt \/ Return
=============================================================================
