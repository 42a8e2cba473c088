------------------------------- MODULE Models -------------------------------
(***************************************************************************)
(* The dynamic programs: SumDynProg, AllDifferentDP, MISPDP, SetCoverDP   *)
(* and ApplyDP.  A state is found again by its string, so a state is what *)
(* its string tells: the fields that the string leaves out, sp_, live in a*)
(* memory of the program, with the flags of ApplyDP.                       *)
(*                                                                         *)
(* A problem is a record; its field kind names the program.                *)
(***************************************************************************)
EXTENDS Integers, Sequences, FiniteSets, SequencesExt

CONSTANTS NoState,  \* nullptr
          NbVars,   \* the number of variables
          WordSize, \* the bits of a uint64_t
          IntSize   \* the bits of an int

ASSUME WordHasBits == WordSize \in Nat \ {0}
ASSUME IntHasBits == IntSize \in Nat \ {0}

LOCAL B == INSTANCE BitSets

IntMax == 2^(IntSize - 1) - 1
IntMin == -IntMax - 1

\* An addition of ints as the processor makes it.
Plus(a, b) == ((a + b - IntMin) % (2^IntSize)) + IntMin

-----------------------------------------------------------------------------
(***************************************************************************)
(* SumDynProg: the sum of the values so far, at most max.                 *)
(***************************************************************************)
SumInitial == 0
SumTransition(p, s, v) == IF s + v <= p.max THEN s + v ELSE NoState
SumMerge(S) == Min(S)

(***************************************************************************)
(* AllDifferentDP: the values that may still be taken, a word when they   *)
(* fit and a SetState otherwise.                                           *)
(***************************************************************************)
IsSmall(p) == p.values <= WordSize

AllDifferentInitial(p) == IF IsSmall(p) THEN B!Bits ELSE B!NewBitSet(p.values, TRUE)

AllDifferentTransition(p, s, v) ==
  IF IsSmall(p)
  THEN IF s \cap B!OneBit(v) # {} THEN B!UnsetBit(s, v) ELSE NoState
  ELSE IF B!Contains(s, v)
       THEN B!RemoveBit(B!Intersection(B!NewBitSet(p.values, TRUE), s), v)
       ELSE NoState

AllDifferentMerge(S) == UNION S

-----------------------------------------------------------------------------
(***************************************************************************)
(* GetBufferState of MISPDP and SetCoverDP: the state with this string,   *)
(* whose sp_ may only get better.  sp is the memory: the sp_ of the states*)
(* that exist.                                                             *)
(***************************************************************************)
SPOf(sp, s, initial) == IF s \in DOMAIN sp THEN sp[s] ELSE initial

UpdateSP(sp, s, value) == (s :> value) @@ sp
Longest(sp, s, paths) == Max(paths \cup {SPOf(sp, s, IntMin)})
Shortest(sp, s, paths) == Min(paths \cup {SPOf(sp, s, IntMax)})

(***************************************************************************)
(* MISPDP: the variable to decide and the nodes that are out: neighbours  *)
(* of those taken, and those decided.                                      *)
(***************************************************************************)
MISPInitial == [node |-> 0, set |-> {}]

MISPTransition(p, s, v) ==
  IF v = 0
  THEN [node |-> s.node + 1, set |-> B!AddBit(s.set, s.node)]
  ELSE IF B!Contains(s.set, s.node) THEN NoState
  ELSE [node |-> s.node + 1,
        set |-> B!AddBit(B!UnionOf(s.set, p.neighbors[s.node]), s.node)]

MISPMerge(S) ==
  [node |-> (CHOOSE s \in S : TRUE).node,
   set |-> {e \in UNION {s.set : s \in S} : \A s \in S : e \in s.set}]

MISPCost(p, sp, s, v) ==
  LET path == SPOf(sp, s, IntMin)
  IN IF v = 0 THEN path ELSE Plus(path, p.costs[s.node])

(***************************************************************************)
(* SetCoverDP: the variable to decide and the rows not covered.  A        *)
(* variable cannot be 0 when it is the last that covers one of them.       *)
(***************************************************************************)
RowsNot(p, var) == B!Not(p.rows, p.membership[var])

LastSupport(p, r) ==
  LET in == {i \in DOMAIN p.membership : B!Contains(p.membership[i], r)}
  IN IF in = {} THEN 0 ELSE CHOOSE i \in in : \A j \in in : j <= i

CanBeZero(p, var, set) == \A r \in set : LastSupport(p, r) # var

SetCoverInitial(p) == [node |-> 0, set |-> B!NewBitSet(p.rows, TRUE)]

SetCoverTransition(p, s, v) ==
  IF v # 0
  THEN [node |-> s.node + 1, set |-> B!Intersection(s.set, RowsNot(p, s.node))]
  ELSE IF CanBeZero(p, s.node, s.set)
       THEN [node |-> s.node + 1, set |-> s.set] ELSE NoState

SetCoverMerge(S) ==
  [node |-> (CHOOSE s \in S : TRUE).node, set |-> UNION {s.set : s \in S}]

SetCoverCost(p, sp, s, v) ==
  LET path == SPOf(sp, s, IntMax)
  IN IF v = 0 THEN path ELSE Plus(path, p.costs[s.node])

-----------------------------------------------------------------------------
(***************************************************************************)
(* ApplyDP: the nodes reached in the two operands.  The memory is the     *)
(* layers whose flags are used; it changes when the last one is met.       *)
(***************************************************************************)
ApplyInitial(p) == [s1 |-> {p.roots[1]}, s2 |-> {p.roots[2]}]

\* The ends of the arcs labelled v.
Follow(p, N, v) ==
  {p.arcs[n][SelectInSeq(p.arcs[n], LAMBDA a : a.value = v)].end :
     n \in {m \in N : SelectInSeq(p.arcs[m], LAMBDA a : a.value = v) # 0}}

AtLastLayer(p, s) == \E n \in s.s1 \cup s.s2 : p.layer[n] = NbVars - 1

FlagsAt(p, memory, s) == IF AtLastLayer(p, s) THEN "last" ELSE memory

ApplyTransition(p, memory, s, v) ==
  LET s1 == Follow(p, s.s1, v)
      s2 == Follow(p, s.s2, v)
      cond == CASE s1 = {} /\ s2 = {} -> "not_not" [] s1 = {} /\ s2 # {} -> "not_yes"
                [] s1 # {} /\ s2 = {} -> "yes_not" [] s1 # {} /\ s2 # {} -> "yes_yes"
  IN IF <<cond, FlagsAt(p, memory, s)>> \in p.op THEN [s1 |-> s1, s2 |-> s2] ELSE NoState

ApplyMerge(S) ==
  [s1 |-> UNION {s.s1 : s \in S}, s2 |-> UNION {s.s2 : s \in S}]

-----------------------------------------------------------------------------
(***************************************************************************)
(* The virtual methods of DynamicProgram and State, and what they leave in*)
(* the memory.                                                             *)
(***************************************************************************)
MakeInitialState(p) ==
  CASE p.kind = "sum" -> SumInitial
    [] p.kind = "alldifferent" -> AllDifferentInitial(p)
    [] p.kind = "misp" -> MISPInitial
    [] p.kind = "setcover" -> SetCoverInitial(p)
    [] p.kind = "apply" -> ApplyInitial(p)

InitialMemory(p) == IF p.kind = "apply" THEN "all" ELSE <<>>

TransitionFunction(p, memory, s, v) ==
  CASE p.kind = "sum" -> SumTransition(p, s, v)
    [] p.kind = "alldifferent" -> AllDifferentTransition(p, s, v)
    [] p.kind = "misp" -> MISPTransition(p, s, v)
    [] p.kind = "setcover" -> SetCoverTransition(p, s, v)
    [] p.kind = "apply" -> ApplyTransition(p, memory, s, v)

\* The memory after that call, which returned r.
AfterTransition(p, memory, s, v, r) ==
  IF p.kind = "apply" THEN FlagsAt(p, memory, s)
  ELSE IF p.kind = "misp" /\ r # NoState
  THEN UpdateSP(memory, r, Longest(memory, r, {MISPCost(p, memory, s, v)}))
  ELSE IF p.kind = "setcover" /\ r # NoState
  THEN UpdateSP(memory, r, Shortest(memory, r, {SetCoverCost(p, memory, s, v)}))
  ELSE memory

MergeStates(p, S) ==
  CASE p.kind = "sum" -> SumMerge(S)
    [] p.kind = "alldifferent" -> AllDifferentMerge(S)
    [] p.kind = "misp" -> MISPMerge(S)
    [] p.kind = "setcover" -> SetCoverMerge(S)
    [] p.kind = "apply" -> ApplyMerge(S)

\* Mutant: the merged state starts anew.
AfterMergeForgets(p, memory, S) == memory

AfterMerge(p, memory, S) ==
  IF p.kind = "misp"
  THEN UpdateSP(memory, MISPMerge(S),
                Longest(memory, MISPMerge(S), {SPOf(memory, s, IntMin) : s \in S}))
  ELSE IF p.kind = "setcover"
  THEN UpdateSP(memory, SetCoverMerge(S),
                Shortest(memory, SetCoverMerge(S), {SPOf(memory, s, IntMax) : s \in S}))
  ELSE memory

Rank(p, memory, s) ==
  CASE p.kind = "sum" -> s
    [] p.kind = "alldifferent" -> IF IsSmall(p) THEN B!NbOfBitSets(s) ELSE B!NbActives(s)
    [] p.kind = "misp" -> SPOf(memory, s, IntMin)
    [] p.kind = "setcover" -> SPOf(memory, s, IntMax)
    [] p.kind = "apply" -> 0
=============================================================================
