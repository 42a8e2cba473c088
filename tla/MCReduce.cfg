SPECIFICATION Spec
CONSTANTS
  Node <- MCNode
  Null = null
  Size = 3
  Label <- MCLabel
  MaxDomSize = 3
  Diagrams <- MCDiagrams
CHECK_DEADLOCK FALSE
INVARIANTS TypeOK EscapeIsNoKey ChainsEnd PacksAreClasses TuplesKept Canonical NoDeadEnd
PROPERTIES ImplementsReduction Returns
