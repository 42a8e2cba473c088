# Verification of DDLib in TLA+

TLA+ models of the multi-valued decision diagrams (MDDs) of DDLib: the linked structures
they are made of, their reduction, the operations on them, the dynamic programs and
builders that make them, and their relaxation and restriction to a width. All of it is
model-checked with TLC; the linked lists, the diagram under its clients, the whole of
`Reduce`, the set operations of `Apply`, and the relaxation and restriction of a given
diagram are also proved correct with TLAPS, for every size (narrowing for the diagrams
that section 4 calls steady).

DDLib is a sequential C++ library (its only `thread_local` state are free lists, one
per thread), so there are no interleavings of threads. What is hard here is what long
sequences of legal calls do to shared pointers and counters, loops over structures
that change under them, and algorithms that keep state from one layer to the next
without clearing it.

## 1. Inventory

| Component | State | Operations | What makes it correct |
|---|---|---|---|
| Lists: `MDD/DataStructures/list.hpp`, `orderedList.hpp` | `next_`, `prev_` of the elements; `first_`, `last_`, `size_` of a list | `AddFirst`, `AddLast`, `AddAfter`, `AddBefore`, `Remove`, `Append`, `Clear`, ordered `Add`, `Find` | the pointers spell one sequence per list; ordered lists stay sorted |
| Allocators of `Arc`, `Node` (`MDD/Core/MDD.cpp` 33-80), `Triplet` | a free list threaded through `next_` | `operator new`, `operator delete` | nothing is served twice, nothing in use is reachable from the free list |
| `Node`, `Arc`, `MDD` (`MDD/Core`) | lists of nodes by layer, ordered arcs, `nb_in_`, `newV_`, `info1_` | arcs: add (five ways), `get`, `updateArc`, `deleteArc`; nodes: create, delete, `addList`, `removeList`, `clean`, `clear`, `addLayer`, `contains` | `nb_in_` counts the arcs, arcs lead to the next layer, `contains` is membership |
| `Reduce` (`Utils/Operations`), `unionFind` | vectors indexed by position in the layer, two copies of permutation and union-find, radix counters | the constructor: bottom-up, one radix sort per layer | the tuples stay, no two equal nodes are left, it terminates |
| `Apply`, `Triplet` | list of triplets, the couples of the layer being built, chains of arcs with one first node | `Run`: outgoing arcs, then one node per couple, layer by layer; `Reduce` at the end | the result is the set operation of the operands |
| `Search`, `ReduceDFSMap`, `paths`, `MDDInfos` | visited map, values by node id | DFS and BFS with callbacks; merge by string; longest, shortest path; number of tuples | every node once, after its arcs; the results match their definitions |
| `RelaxReduce`, `Partitioner`, `StatePartitioner`, `setPartitioner` | maps between nodes and sets of nodes, nodes to delete | partition, merge, rebuild arcs, clean a layer | no tuple is lost, the width is kept, no deleted node is used |
| `RestrictedReduce` | the same | the same with intersection of arcs | no tuple is added |
| `Builders/DynProg`, `Relax/Creation/DPRelaxCreation`, `Restricted/DPCreation` | states by node id, nodes by state and layer | expand a layer, reduce it, rebuild states | the diagram holds the solutions of the program, or more, or fewer |
| `ApplyDP` | states, flags of the operation | transition, merge | the same result as `Apply` |
| Builders: `Table`, `Transitions`, `Automaton`, `Grid` | the MDD, maps from states to nodes | build | the diagram holds the tuples given |
| `Table`, `TableBuilder`, `TableSort` | tuples, counters | sort, add | the order is lexicographic |
| `BitSets` | words | set operations | a finite set, whatever the words hold behind its last element |
| `SparseSet` | arrays | | included by four headers, used by none |
| `models` | parameters of a constraint; the states made so far, with their `sp_` | transition, merge, rank | the constraint |
| `Proba`, `ChronoP`, `apps`, `benchmarks` | | | not modelled: floating point, clocks, command lines |

How they interact. Everything works on the same `Node` and `Arc` objects. A builder
or an operation creates nodes in an `MDD`, which allocates them from the free list and
puts them in the list of a layer; arcs are put in the list of their start and counted
in their end. `Apply`, the table builder and the grid builder end with `Reduce`;
relaxation and restriction delete nodes whose `InDegree()` is 0. `newV_` carries the
representatives of a merge from a layer to the layer above; `info1_` carries positions.

The list of hazards, with the line where each one bites, is in `PROJECT.json`.

## 2. Modules

    SeqLists               sequences: what lists and allocators promise
      DblList              the pointers that implement them      MCDblList   DblListProofs
    Dimensions             nodes, variables, labels
      Reduction            what a reduction may do               MCReduction ReductionProofs
      MDD                  nodes, arcs, layers: one action per method
        MDDClients         any sequence of calls by the clients  MCMDD       MDDClientsProofs
        Reduce             the radix-sort reduction              MCReduce    ReduceProofs
          Apply            the product of two MDDs, then Reduce  MCApply     ApplyProofs
          Builders         from tables, transitions, automata, then Reduce   (uses Tables)
            Library        a builder, then a Search              MCLibrary
        Search             both searches and their callbacks
        RelaxReduce        merging the nodes of a layer
          RestrictedReduce the same, keeping common arcs only
            DPCreation     a dynamic program, whole or narrowed as it grows
                           (uses Partitioners, Models, BitSets)
              Narrowing    or narrowing a given diagram          MCNarrowing NarrowingProofs

    SequenceLemmas         sequences, counting, recursion        (cited by all the proofs)
      ReadingLemmas        what can be read from a node          (by ReductionProofs, ReduceProofs,
                                                                  ApplyProofs, NarrowingProofs)

**SeqLists** states the promise: an element is loose, in one list, or in the pool.
`FitsLast` and the other guards are what the callers owe.

**DblList** has the fields of `DblListElement`, `DblList` and the allocator as
variables. An element is its number in the chunk, 0 is `nullptr`. An action assigns
what the code assigns; the search of `Add` and the loop of `MDD::clear` take one step
per iteration (`AddBegin`, `AddSeek`, `AddInFront`/`AddBehind`; `ClearBegin`,
`ClearStep`). The abstract sequences are carried beside the pointers in `order`, which
the pointer assignments never read. `MCDblList` does without `order`: it reads the
lists back through `first_` and `next_` as a client would, and checks that this takes
only steps of `SeqLists`. The restriction of `Next` on `Append` is the finding of run
`list_append`. After the first allocation there is one chunk; a client that would
need a second one is not modelled.

**MDD** takes lists as sequences, which the module above justifies, and has one action
per method of `Node` and `MDD`. `delete n` forgets the node's arcs without touching
the counters of their ends, as the code does. **MDDClients** lets clients call the
methods in any order, with the obligations found in the clients: link neighbouring
layers, keep arcs ordered, delete a node only when `InDegree()` is 0 and its arcs are
deleted (`RelaxReduce::CleanLayer`, `GridMDDBuilder::deleteBadNode`). They call `AddArc`
without asking whether the label is there (`Transitions.cpp:51`, `Grid.cpp:44`), so a node
may get several arcs with one label; `MaxArcs` bounds the number of its arcs. `addLayer`
is not an action there: it is `Append`, which does not work.

**Reduction** is the abstract specification of a reduction: redirect an arc to the
representative of its end, prune an arc to a dead end, declare a node without arcs
dead, merge a node into one of its layer with the same arcs, in any order.

**Reduce** is the constructor of `Reduce`, phase by phase: `ArcsUpdateRadixInit` one
arc per step, then `RadixCount`, `RadixCumulative`, `Permutation`, `LeadManagement`
and one of the two preparations per pass, then `Merge` one node per step. Positions
are 0-based; `ids[1]`, `ids[2]` and `lead[1]`, `lead[2]` are the two copies that
`swap_status` selects. The vectors are never cleared between layers, as in the code.
Path compression in `unionFind::leader` is left out: it does not change where a chain
ends. `ImplementsReduction` instantiates `Reduction` with the arcs of a node taken as a set
and says that all of this takes only steps of `Reduction`.

**Apply** extends `Reduce`: operands and result live in the variables of `MDD`. One
step handles one triplet (`BuildOutgoingArcs` and all its calls of `addArcAndNode`);
`BuildLayer` creates a node or leads one arc per step; then the steps of `Reduce`.
A flag such as `op_yes_not_last_` is the pair of its condition and its place. Vectors
indexed by node ids are functions on nodes. `ex1->Value()` with `ex1 == nullptr` leads
to the phase `crash`.

**RelaxReduce** and **RestrictedReduce** take `ReduceLayer` apart: a step names a part
of the partition or leads its nodes to the new one (`NamePart`, `LeadPart`), adds one
arc to a node that is built (`NameEnds`, `AddUnionArc`), moves the arcs of the layer
above (`UpdateAbove`) or cleans (`CleanLayer`). `free` is the stack of the allocator, so
that a deleted node is the next to be created and whoever still refers to it meets
another node; `setOf`, `nodeOf` and `toDel` are `nodes_to_set_`, `sets_to_node_` and
`to_del_nodes_`, which live as long as the reducer does. `RestrictedReduce` changes what
its class changes: a label is kept when every unit has it, and a node that gets no arc is
taken out of its layer, in the middle of the loop over that layer. `lost` is what happens
when it is taken out twice: `DblList::Remove` of an element without neighbours empties
the list, and the chain of elements that is cut off keeps its links, also beside others,
so that removing the first of a chain later makes what is behind it the list again. **Partitioners** gives for each
partitioner the set of results it may return; the order of equals in a priority queue,
the random generator and the clusters of dkm (code of another project) are choices.

**DPCreation** is the loop of `Build` of the three builders. `stack` holds one frame per
call of `BuildSubTree`, and a step is one value of one node; then a new reducer is
constructed and the layers of the subtrees are met one by one: rebuild states, reduce,
rebuild again in the last one, clean. The exact builder (`DynProgMDDBuilder`) is the case
where no reducer runs. **Models** has the transition, the merge and the rank of each
program. The code finds a state again by its `to_string()`, so a state is what that
string tells; `sp_` and the flags of `ApplyDP`, which the string leaves out and which
change after a state was made, are `memory`. Sums of `int` wrap at `IntSize` bits, words
have `WordSize` bits (**BitSets**). **Narrowing** adds `Reduce` of both reducers on a
given diagram, and the properties.

**Builders** has a step for each node or arc that a `Build` creates, then the steps of
`Reduce` where the builder calls it. **Tables** is the counting sort, one operator per
pass. **Search** keeps the calls of `ExploreNode`, or the queue, and handles one arc per
step, with the callback of whoever searches: `CountTuplesDFS`, `ReduceDFSMap`,
`LongestPathBFS`, `ShortestPathBFS`; `FillTable` walks on a stack of its own.
`ReduceDFSMap` moves the arc it closes, under the feet of the search. **Library**
composes them as a user does: build, merge by map or not, then ask.

Operators named in a comment starting with "Mutant:" are faulty variants of the
definition below them. No specification uses them; each breaks one property, which
shows that the property depends on the code.

## 3. Runs

| Run | Bounds | Shows |
|---|---|---|
| `list_links` | two lists, one ordered; three elements; two labels | pointers spell the sequences; `Add` finds its place; both loops end |
| `list_append` (violated) | two lists, three elements | `Append` loses elements |
| `mdd_clients` | five nodes (symmetric), three variables, two labels, two arcs per node (`MaxArcs`) | counters are exact, no arc dangles; `contains` accepts only what can be read, and all of it unless a node has a label twice |
| `reduction` | four nodes, two layers below the root | any order of steps keeps what can be read |
| `reduce` | about 2,500 diagrams of three variables: layers of four and two nodes, dead ends, unreached nodes, repeated labels, a domain larger than the layers and smaller, the empty diagram | the sort finds exactly the equal nodes, and ends |
| `reduce_indegree` (violated) | the same | counters are wrong after pruning |
| `apply` | 72 pairs of operands (an operand with itself included), four operations, three labels | the result is the set operation; one node per couple; operands unharmed |
| `apply_not` (violated) | the same operands, `op_not_union` | the arcs that neither operand has are wrong |
| `width` | four variables, width 2, 40 nodes, words of 4 bits, `int`s of 5; 103 jobs (below) | relaxing loses no tuple, restricting adds none, no layer is wider than asked, nothing deleted is read |
| `restrict_width` (violated) | width 3, one diagram of four variables | a node removed twice empties its layer, and the width is exceeded |
| `relax_revived` (violated) | width 4, one diagram of five variables | a part is given a node that is about to be deleted, and tuples are lost |
| `library` | three variables, three labels, 14 nodes; 331 tables, graphs and automata | builders build what they are given; merging by map, counting, paths and listing agree with their definitions |

Why the bounds are enough to be of interest. Three elements give a list a first, a
middle and a last element, and both lists can be in use while the pool is not empty.
Five nodes let two nodes of a layer share ends and be deleted and created again, and two
arcs per node are enough for a label that is there twice. Four
nodes in a layer are needed for two packs of two; the passes go through up to three arcs
per node, so packs end alone and as equals, in passes over labels and over nodes. The
operands of `Apply` make couples that are reached by arcs of one node and of two, that
share their first node or their second, and that have `fakeNode` on either side.

The jobs of `width`. Each program is built whole: a sum, `AllDifferent` with values that
fit a word and with one more than fits, an independent set, a set cover, and
`ApplyDP` for intersection, union and difference. Sum, independent set, intersection and
union are relaxed under every deterministic partitioner and after one, two or three
layers; `AllDifferent` under the default one, the small form also by rank; random and
k-means partitions take every partition of every layer, on programs small enough for
it. The set cover is restricted under five partitioners. Diagrams whose merged nodes
meet again in the layer below, have no label in common, or whose layers are alternately
wide and small, are narrowed by `Reduce`; so are four that are steady, as the theorems of
NarrowingProofs ask: in two a label of layer 3 tells the node, in two a label of layer 2 does,
and sets of ends are merged in layer 3 while their units wait for their deletion. Four variables and three layers per subtree are
the least for which a reducer meets, in a later layer, sets of nodes it made and deleted
in an earlier one; width 2 leaves one node alone and merges the rest. With an `int` of 5 bits the sums of the independent
set do not overflow and those of the set cover do.

Left out of `width` on purpose: relaxing the set cover (its merge keeps the union of the
rows to cover, which is a restriction) and restricting the others (theirs is a
relaxation); relaxing the difference (the union of the second operands is no relaxation
of it). `NothingLost` is asked of exact and relaxed diagrams, `NothingAdded` of
exact and restricted ones, `CostsBounded` of independent sets merged after every layer,
where the states of a layer were all reached before they are ranked. `WithinWidth` counts
the nodes that can be reached: a layer that is left early because it is small still lists
nodes that nothing leads to.

The inputs of `library`: tables in any order, with a domain in which the first column has
the largest values (the counting sort has counters for the first domain only) and every
random table of up to three tuples; all ways in which two nodes lead to two others, the
nodes below having equal or different arcs; automata with states that cannot be reached
and states that cannot be left. `MapReduces` reads the merge by strings on diagrams whose
dead ends were removed by their builder: the string of a dead end is that of the
final node.

`CHECK_DEADLOCK FALSE` is said where a constructor or `Run` returns: the model then
has no further step. No other run turns the check off; in `width` and `library` the only
step of a job that is finished is `Done`, so that TLC shows that every job finishes or
goes on.

Fairness. `LoopsEnd`, `Returns` and `ApplyReturns` assume weak fairness of the steps of
a loop or a call that has begun: the code runs in one thread, and nothing in it waits.
Clients are never assumed to make another call.

## 4. Proofs

The modules of lemmas are about values, not states. **SequenceLemmas** has the facts on
sequences (what an insertion or a removal leaves at each position, when a sequence is its
set), on counting (ranks, injections of an interval into itself) and induction over an
interval, `UpTo`, stated of a set of numbers: with it a recursive function that follows
arcs layer by layer can be proved to exist and to be what its definition says
(`RecursionExists`). Its last part is a pass of the radix sort on plain functions: `Packs`
says what a permutation, its leaders and the number of arcs compared so far are worth,
`Distributed` what the counting sort leaves. **ReadingLemmas** is about what can be read
from the nodes of any layered diagram.

**DblListProofs** proves, for any set of lists, any labels and any chunk size:
`TypeCorrect`, `LinksCorrect` (the pointers spell the sequences), `SortedCorrect`
(ordered lists stay sorted) and `ImplementsSequences` (every step is a step of
`SeqLists` or a stutter). The invariant `IInv` adds `SeekInv` to the first two: while
`Add` searches, the cursor is at a position of the list before which all labels are
smaller; without it neither the place where `Add` inserts nor its links could be
justified. The argument has one lemma per operation on "these pointers represent this
sequence": inserting at a position (`LinkAtRepresents`) and removing one
(`RemoveRepresents`) carry most of them. Sortedness is a second induction on top of
`IInv`.

**MDDClientsProofs** proves, for any number of nodes, variables and labels and any
sequence of calls: `InDegreesAreExact`, `NoArcDangles`, `LayersAreExact`,
`TypeCorrect` and `ContainsDecides`. None of the first four properties is inductive alone. The counters stay exact
only if no arc leads to a node that was deleted (its memory, and its counter, start again
with the next node), and none does because a node is taken out when its counter is 0.
`IInv` holds both together, of all nodes that exist: those that were taken out and may be
added again keep their arcs, and the counters count these. The counting is done once, for
an insertion (`InsertBijects`: the arcs into a node before and after are in bijection, but
for the new one); a removal is an insertion read backwards (`RemovesInserts`), and
`updateArc` is a removal and an insertion (`UpdateInserts`). In this module `clean()`
removes nothing, since only `Reduce` sets `newV_`. `ContainsDecides`: the node that
`contains` visits is, layer by layer, among those that can be reached along the tuple, so
that it answers for tuples of the diagram only, whatever labels are there twice. That it
answers for all of them needs one fact that `AddArc` does not ensure, that no node has two
arcs with one label (`LabelsDiffer`): then there is only one node to reach. This is part of
the property, not a guard of the model.

**ReductionProofs** proves, for any diagram: `TypeCorrect`, `RepresentativesCorrect`
and `ReductionKeepsSuffixes`. `SuffixesKept` alone is not inductive: redirecting an arc
to a representative is sound only if that one can be read as the old end could, which
is `RepresentativesAgree`. Both follow from splicing paths (`Splice`, `Replaced`): a
path through the changed arc is cut at the node and continued by one that the
representative has, and layers never meet again, so the rest of the path is untouched.

**ReduceProofs** proves every safety property of the run `reduce`, for any set of diagrams,
any domain and any size, and that `Reduce` implements `Reduction`.

* The inductive invariant `IInv` has three parts. `Frame` and `Around` are about the
  diagram: arcs lead to the next layer, the layers below are `Reduced` (their nodes
  represent themselves, lead to representatives and have different arcs), those above
  `Untouched`. `Vectors` bounds every index by the vector it goes into. The rest says what
  the vectors hold in each phase: `Collecting` while the layer is enlisted, `PassAt` before,
  `Counted`, `Cumulated` and `Distributed` during, and `PassedAt` after a pass of the sort,
  `Merging` while packs are merged. What the vectors of earlier layers hold is not
  mentioned, so nothing depends on it.
* Why the sort is right: `Packs` says that two active nodes have one leader exactly when
  the arcs compared so far are equal, that the nodes of a pack are neighbours, and that
  those which left the active part are in packs of nodes with equal lists. A pass splits
  packs by the next key. The escape value keeps those that are done apart because no
  label, and no place of a representative, is as large; the last bucket then holds
  exactly them. A node whose pack it is alone in gets the escape value too, which is why
  `Keyed` has two cases. `Agree` says that both copies hold the same of the finished packs,
  so that the end of the sort may find either one current.
* From `IInv` follow `TypesAreCorrect`, `EscapeIsApart`, `LeadersAreFound`,
  `PacksAreRight` and `NoDeadEnds`. `RefinesReduction` maps each step to a step of `Reduction` or a
  stutter; the arc that goes with a merged end is a `Redirect`, or a stutter when the
  representative is the end itself.
* `TuplesAreKept`: since every step is one of `Reduction`, the lemmas on steps of
  ReadingLemmas apply. `KeptInv` carries, beside `IInv`, that each node can be read as in
  the diagram that was given; at the end the root, or no root, represents the old one.
* `ReducedIsCanonical`: `Ordered` carries that the labels of a node rise strictly when they
  did at first. A list of arcs is then determined by its set of arcs (`SameList`), so
  different lists are different sets, and the layers left are irreducible
  (`RemainingIsIrreducible`); that no two nodes of an irreducible diagram can be read the
  same way is `IrreducibleIsCanonical`, by induction from the last layer up.

`IInv` was evaluated by TLC in all 168,969 states of the run `reduce` before it was proved.

**ApplyProofs** proves every safety property of the run `apply`, for any operands, domain
and number of variables, on top of ReduceProofs.

* Hypotheses. `Positive`: op_ never wants an arc for a value that neither node has. Without
  it the result is wrong, as run `apply_not` shows: `ex1->Value()` is then read through
  `nullptr` or gives the label of another arc. `op_not_union` and `op_not_intersection` are
  therefore what is left out, and under `Positive` the phase `crash` is unreachable.
  `OperationIsApplied` is about the four operations that are set operations and satisfy it.
  A step that makes a node has the guard `alive # Node`: the theorems are about runs in which
  memory is not exhausted.
* The invariant `Build` of the two loops. A witness c gives the couple of operand nodes each
  node of the result was made for. `Described` says that a node whose triplet was handled
  has exactly the labels op_ wants for its couple, and `Leads` where its arcs are: in the
  node of the couple they mean, or still in the chain of that couple's first node with its
  second node as their end. So the counters of the operands are exact (`InCounted`) only if
  arcs that wait are counted too. `Layering` says that while the
  chain of one first node is handled, `seconds` (`index_mdd2`) holds only
  nodes that were made for that first node: this is why a couple has one node, and
  `NoSeconds` is what the reset before the next one must leave.
* From `Build` to `Reducible`. When no triplet is left, no arc waits, so the nodes of the
  result have no arc into the operands (`ArcsArrive`), and they meet what `Reduce` asks of a
  diagram (`LayersAreDone`). The invariant of ReduceProofs is stated for a diagram `Part` in
  a memory that holds other nodes; `Apart` adds that those are the operands, with the arcs
  and counters they had, and `OthersUntouched` that no step of `Reduce` reaches them.
* Why the tuples are those of the operation: above the last layer the flags ask for every
  arc that may still be needed, and the last layer decides (`FlagsCombine`). `ProductReads`
  goes from the last layer up: a tuple can be read from a node of the product exactly when
  the operation holds of whether it can be read from each node of its couple. What is read
  after `Reduce` is what was read before (`KeptInv`).
* `BuildOutgoingArcs` walks the two ordered lists of arcs together. That it makes one call
  for each label the flags ask for, in the order of the labels and with the right ends
  (`MergedFacts`, `OutgoingCalls`), is proved of the walk as a recursive function, whose
  existence is a lemma as well (`WalkExists`). The other way, `BuildOutgoingArcsValueBased`,
  runs only when op_ wants arcs that neither node has, and is left to TLC.

`ApplyInv` was evaluated by TLC in all 23,430 states of the run `apply` before it was proved.

**NarrowingProofs** proves the safety properties of the run `width` for `Reduce` of both
reducers on a given diagram (`GivenSpec`): any number of variables, labels and width, any
way of dividing a layer (`RandomPartitioner`), since all that is used of `Partitions` is that
a result has `Width` parts which together hold the layer (`PartsCover`) and share no node
(`PartsDiffer`), and every diagram that is `Steady`.

* Hypothesis. A diagram is `Steady` when every node can be entered and, from layer 3 on,
  arcs with one label lead to one node (`Determined`), in the layer or, where it is relaxed,
  in the layer before. Each theorem has the form `GivenSpec /\ Steady(job) => []Inv`: a
  condition on the diagram that is given, none on what the reducer does. The code does not
  ask for it, and it is not idle: in run `relax_revived`, on a diagram that is not steady, a
  part is given a node that waits in `to_del_nodes_`, which `CleanLayer` then deletes with the
  tuples that were just led through it, so `RelaxationLosesNothing` is false there. It is
  sufficient and not necessary: `width` narrows diagrams that are not steady as well and finds
  nothing wrong with them. `MCNarrowing` says which are (`WhichAreSteady`, which TLC
  evaluates). A step that makes a node has the guard `free # <<>>`, so the theorems are about
  runs in which memory is not exhausted.
* Why steady is enough. `NotRevived`, that no part is given a node that waits, is a lemma's
  hypothesis for the invariant below and a theorem for steady diagrams (`NoNodeIsRevived`).
  It follows from `NoneWaits` (`CalmIsEnough`): if only given nodes wait, the set of a part,
  which has another node in it, is not theirs. That none of the nodes made for a set waits
  is part of the invariant `Calm`. Such a node is led to from a new node of the layer above
  from its first arc on (`Children`), and waits only if all of those are deleted. In a layer
  whose labels tell its nodes no set is ever made (`NoneMade`); so when a node was made for
  layer l + 1, it is layer l whose labels do, the parts of l hold given nodes only, each
  new node of l is led to itself (`Settled`), and by the arcs of the units above, all of
  which are still represented (`Represented`), something enters it (`Entered`): it is not
  deleted. The root covers what happens in the first two layers, since its labels differ.
* The invariant `IInv`, in three parts. `Base` is about memory: arcs lead from a living node
  to one of the next layer and the counters count them (`Linked`, `Counted`); the layers to
  come hold the given nodes with the given arcs (`Originals`) and nodes made for sets of them
  (`Made`), which `nodeOf` finds again (`Found`); what waits for its deletion has no arc into
  it (`Waiting`); every node of the layer that is narrowed is led to one of `newNodes` that
  stands for more, or its part is to come (`Leads`). `CutOff` describes the chains of nodes
  that leave the list of a layer when `DblList::Remove` replaces it, so the second removal
  of run `restrict_width`, and any that follow, are inside the proof, not assumed away.
* `Covered` (relaxed): a node whose arcs are built has, for each of its units and each arc of
  that unit, an arc with its label to a node that stands for its end. None of the properties
  is inductive without it, and it is only kept because a node that stands for more takes the
  place of one that stands for less (`Leads`), and because a node that is cleaned away leads
  nowhere (`Counted`). `Backed` (restricted) is the converse: an arc exists only if every unit
  has one. `Narrow` bounds the ends of the arcs into each finished layer by the width.
* From there. A tuple of the given diagram is followed in the relaxed one node by node, each
  standing for the given node it replaces (`NothingIsLost`); a tuple of the restricted one is
  followed back, from any unit of each node (`NothingIsAdded`); the nodes of a finished layer
  that can be reached are the ends of arcs into it (`LayersAreNarrow`).
* `RelaxationIsNarrow` is about relaxation: run `restrict_width` shows that a restriction can
  exceed the width.

TLC evaluated `IInv`, `NotRevived` and, for the steady ones, `SteadyInv` in all 15,182 states
of the given diagrams of the run `width`.

Assumptions: those in the modules, named. `Null` is no node, `Size` is a natural and
positive, labels are naturals below `MaxDomSize`, the names of the places are different.
Of the diagrams given to `Reduce`, `DiagramsAreLinked`: each node is in one list, once;
arcs lead from a list to the next and are in the order of their labels, repetitions
allowed; there are one last node and at most one root, or no node. That is what
the builders and `Apply` hand over: for `Apply` this is proved, not assumed. Of the operands
of `Apply`, `OperandsAreMDDs`, with roots and over one domain, and of the result that it fits
the memory (`ResultFits`); `Null` is no label either (`NullIsNoLabel`): it is what is
read for the label of an arc that does not exist. Of the diagrams that are narrowed,
`GivenAreDiagrams`: a root and an end alone in their layers, each node in one list, once, arcs
from a layer to the next in the order of their labels, and a partitioner that needs no state.
Nodes are numbered from 1 (`NodesAreNumbered`), which is how the chunk of the allocator lists
them. TLC evaluates all of them in the runs.

Only model-checked are dynamic programs, exact or narrowed as they grow (the properties of
run `width` for those jobs, and `CostsBounded`), and builders and searches (the properties of
run `library`). So is all liveness (`Returns` and `ApplyReturns`: that the sort and the
product end), which is beyond the prover, as is `ENABLED`. No module declares a RECURSIVE
operator: recursion is by functions, so that all of them can be proved about.

## 5. What disagrees with its documentation

* `DblList::Append` keeps only the first element of the appended list when neither
  list is empty (`list_append`).
* `Node::updateArc(e, nullptr)` decrements the in-degree twice (`reduce_indegree`).
* `op_not_union` and `op_not_intersection` label arcs through `ex1` (`apply_not`).

* `RestrictedReduce` lets a layer grow past the width: two parts with the same units
  share a node, which is removed from its layer twice when it gets no arc; the second
  removal empties the list of the layer (`restrict_width`).
* `RelaxReduce` can lose tuples, with the default partitioner too: the node of a set that
  comes back may be one that left the diagram and waits for its deletion, and `CleanLayer`
  deletes it without looking whether something leads to it again (`relax_revived`).

Seen while reading, without a run:

* `Node::AddArc` adds a second arc when there is one with the label already: `DblOrderedList::
  Add` puts it in front of the other. The comment says "If an arc with label @p value already
  exists, its destination is updated." (`MDD.hpp:119`), and no client asks first. The model
  does what the code does, so that `contains` may miss a tuple of such a diagram: this is
  why `ContainsIsMembership` asks for all tuples only where `LabelsDiffer`.
* `MDD::clear` deletes nodes and not their arcs; `contains` accepts a prefix of a tuple;
  `Reduce` leaves the counters of the ends of merged nodes as they were, and keeps nodes
  that the root does not reach; `contains` and `Apply` assume a root, which reducing an
  MDD without tuples removes; `Apply` takes the domain sizes of its left operand.
* `RestrictedReduce::CleanDeadEnd` has no body and `to_del_nodes_2` is never read: arcs
  into a node without arcs stay.
* `ReduceDFSMap` gives a dead end the string of the final node and leads its arcs there.
* `p_size` of `MinRankPackPartitioner` is not reset, so only the first part is a pack; the
  comments of `MaxRankPartitioner` and `MinRankPartitioner` describe each other.
* The initial path of `SetCoverDP` is `INT_MAX`, and the first cost added to it overflows.
* The longest path starts from 0, which is wrong when `value_` may be negative.
* The counting sort of tables has counters for the first domain only.

## 6. Not modelled

* `SparseSet`: nothing uses it. Probabilities and timers: floating point and clocks.
* Text: `diff`, `printInfo`, `to_string` but for what identifies a state or a node,
  graphs, applications and benchmarks. `FillTableFromFile` reads a file.
* A further chunk of an allocator, `setDomSize`, `addLayer` (the `Append` of run
  `list_append`), `addLastTransition` and `addEndingLastTransition`, which nothing calls,
  and a table whose order the user gives.
* Tables whose later domains exceed the first, and operands of `Apply` with different
  domains: the code indexes past its counters, and what happens is not defined.
* `InfInt`, a library of big numbers, is taken as the naturals, and dkm as any clusters.

## 7. Plan

What is left to prove: narrowing a dynamic program as it grows. The layers of a subtree are
expanded before they are merged, so that the states, and not only the arcs, of a merged node
must stand for those of its units; `Covered` and `Backed` would be stated of the transitions of
the program instead of the arcs of a given diagram, with one assumption on the merge of each
program. `Steady` could be weakened: what the proof needs is that a node made for a set keeps
an arc into it, and there are other diagrams of which that is true.
