SPECIFICATION FairSpec
CONSTANTS
  Docs = {1, 2, 3, 4, 5}
  PageSize = 2
  MaxEdits = 3
  MaxEnds = 2
  None = None
INVARIANTS TypeOK PagesInOrder NothingMissed
PROPERTIES Fused KeepAskingEnds
CHECK_DEADLOCK FALSE
