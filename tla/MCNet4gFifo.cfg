SPECIFICATION FairSpec
CONSTANTS
  SIZE = 11
  WIDTH = 4
  MaxBurst = 3
  Header <- MCHeader
  End <- MCEnd
  Lines <- MCLines
  MaxLines = 2
INVARIANTS
  StoredFaithfully
  SearchRight
  CommandsInOrder
PROPERTY SeenIsCut
CHECK_DEADLOCK FALSE
