SPECIFICATION Spec
CONSTANTS
  Node = {a, b, c, d, e}
  Null = null
  Size = 3
  Label = {0, 1}
  MaxArcs = 2
SYMMETRY Permuted
INVARIANTS TypeOK InDegreeExact NoDanglingArc ContainsIsMembership LayersHoldTheirNodes
