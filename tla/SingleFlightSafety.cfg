SPECIFICATION FairSpec
CONSTANTS
  Calls = {c1, c2, c3}
  Keys = {k1, k2}
  Results = {ok, err}
  Droppable = {c1, c2, c3}
  None = None
  BroadcastError = BroadcastError
INVARIANTS TypeOK OneExecution FollowersShareResult NoReceiverClosed
PROPERTIES JoinsOpenFlight Coalesces OnlyOrphansHang
CHECK_DEADLOCK FALSE
