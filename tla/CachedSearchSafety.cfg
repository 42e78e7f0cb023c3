SPECIFICATION Spec
CONSTANTS
  Calls = {c1, c2, c3}
  Keys = {k1, k2}
  ErrorKinds = {NotFound}
  Droppable = {c1, c2, c3}
  CacheModes = {TRUE, FALSE}
  FlightModes = {TRUE, FALSE}
  Capacity = 1
  MaxDerived = 1
  Ttl = 0
  Horizon = 1
  MaxEpoch = 1
  None = None
SYMMETRY Symmetry
INVARIANTS TypeOK OwnAnswers MonotoneReads QuietInvalidation DerivedReadsFresh
  FailuresAreReal
CHECK_DEADLOCK FALSE
