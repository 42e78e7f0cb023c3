SPECIFICATION Spec
CONSTANTS
  Keys = {k1, k2, k3}
  Values = {v1, v2}
  Capacity = 2
  Ttl = 1
  Horizon = 4
  None = None
INVARIANTS TypeOK WorkingSetKept
PROPERTIES ImplementsMap
