SPECIFICATION Spec
CONSTANTS
  c1 = c1
  c2 = c2
  None = None
  Calls = {c1, c2}
  MaxRetries = 1
  Kilo = 10
  Org <- MCOrg
  Unreserved = {"a", "."}
  QueryDelimiters = {"&", "#"}
  PathDelimiters = {"/", "#"}
  DotSegments <- MCDotSegments
  Scenarios <- MCScenarios
CHECK_DEADLOCK FALSE
INVARIANTS
  TypeOK
  AnswersAreAboutOthers
  AcknowledgedWritesStand
  CreatesCounted
  PartialUpdatesStand
  OlderServersServed
  OlderRepliesDecode
  RequestsArrive
PROPERTY CallsImplementRpc
