CONSTANTS
  Requests = {r1, r2}
  Callers = {u1}
  None = None
  MaxBodySize = 2
  Sizes <- MCSizes
  MaxCancels = 2
SPECIFICATION FairSpec
INVARIANTS
  TypeOK
  OneResponse
  ToolsRunForWholeVerifiedCalls
  RefusedExactlyPastTheLimit
  EndsInOrder
PROPERTIES
  EveryRequestEnds
  CancellationEnds
CHECK_DEADLOCK FALSE
