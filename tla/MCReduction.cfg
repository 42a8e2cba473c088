SPECIFICATION Spec
CONSTANTS
  Node = {a, b, c, d}
  Null = null
  Size = 2
  Label = {0}
INVARIANTS TypeOK RepresentativesAgree
PROPERTY SuffixesKept
