SPECIFICATION FairSpec
CONSTANTS
  Calls = {c1, c2}
  Keys = {k1}
  Results = {ok}
  Droppable = {c1}
  None = None
  BroadcastError = BroadcastError
PROPERTIES EveryCallReturns
CHECK_DEADLOCK FALSE
