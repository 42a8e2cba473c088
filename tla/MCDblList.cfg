SPECIFICATION FairSpec
CONSTANTS
  List = {l1, l2}
  Ordered = {l1}
  NBALLOC = 3
  Value = {1, 2}
  Pool = pool
  Doomed = doomed
INVARIANTS TypeOK LinksRepresentOrder SeekInv SortedLists
PROPERTIES ImplementsSeqLists LoopsEnd
