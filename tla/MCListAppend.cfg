SPECIFICATION SpecAnyAppend
CONSTANTS
  List = {l1, l2}
  Ordered = {}
  NBALLOC = 3
  Value = {1}
  Pool = pool
  Doomed = doomed
PROPERTY AppendAppends
