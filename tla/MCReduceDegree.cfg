SPECIFICATION Spec
CONSTANTS
  Node <- MCNode
  Null = null
  Size = 3
  Label <- MCLabel
  MaxDomSize = 3
  Diagrams <- MCDiagrams
CHECK_DEADLOCK FALSE
INVARIANT InDegreeCounts
