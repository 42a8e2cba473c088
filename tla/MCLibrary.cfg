SPECIFICATION LibrarySpec
CONSTANTS
  Node <- MCNode
  Null = null
  Size = 3
  Label <- MCLabel
  MaxDomSize = 3
  Diagrams <- MCDiagrams
  Tasks <- MCTasks
  Searches <- MCSearches
INVARIANTS BuildsDescription MapReduces CountIsExact PathsAreBest TableComesBack
