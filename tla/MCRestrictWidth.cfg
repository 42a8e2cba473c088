SPECIFICATION Spec
CONSTANTS
  Node <- MCNode
  Null = null
  NoState = nostate
  NoRank = norank
  Size = 4
  NbVars = 4
  Width = 3
  WordSize = 4
  IntSize = 5
  Label <- MCLabel
  Jobs <- MCNoJob
  DiagramJobs <- MCTwice
INVARIANTS WithinWidth
