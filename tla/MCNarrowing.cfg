SPECIFICATION Spec
CONSTANTS
  Node <- MCNode
  Null = null
  NoState = nostate
  NoRank = norank
  Size = 4
  NbVars = 4
  Width = 2
  WordSize = 4
  IntSize = 5
  Label <- MCLabel
  Jobs <- MCJobs
  DiagramJobs <- MCDiagramJobs
INVARIANTS TypeOK NothingLost NothingAdded WithinWidth NoDeletedNodeUsed CostsBounded
