SPECIFICATION Spec
CONSTANTS
  Node <- MCNode
  Null = null
  NoState = nostate
  NoRank = norank
  Size = 5
  NbVars = 5
  Width = 4
  WordSize = 5
  IntSize = 5
  Label <- MCLabel
  Jobs <- MCNoJob
  DiagramJobs <- MCRevived
INVARIANTS NothingLost
