SPECIFICATION Spec
CONSTANTS
  Calls = {c1, c2}
  Keys = {k1}
  ErrorKinds = {NotFound}
  Droppable = {}
  CacheModes = {TRUE}
  FlightModes = {TRUE}
  Capacity = 1
  MaxDerived = 0
  Ttl = 1
  Horizon = 1
  MaxEpoch = 1
  None = None
INVARIANTS InvalidationIsFinal
CHECK_DEADLOCK FALSE
