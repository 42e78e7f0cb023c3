SPECIFICATION FairSpec
CONSTANTS
  Calls = {c1, c2, c3}
  Keys = {k1}
  ErrorKinds = {NotFound}
  Droppable = {}
  CacheModes = {TRUE, FALSE}
  FlightModes = {TRUE, FALSE}
  Capacity = 1
  MaxDerived = 1
  Ttl = 0
  Horizon = 1
  MaxEpoch = 0
  None = None
PROPERTIES SearchReturns
CHECK_DEADLOCK FALSE
