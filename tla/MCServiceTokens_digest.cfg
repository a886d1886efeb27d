CONSTANTS
  MaxLifetimeSeconds = 2
  ClockToleranceSeconds = 1
  FarFuture = 1000
  Departments = {d1}
  Host = host
  Users = {u1}
  Scopes = {read}
  TaskIds <- MCTaskIds
  LoneSurrogates <- MCLoneSurrogates
  None = None
  Skews = {0}
  Steps = {500}
  Begin = 2500
  Horizon = 5000
  SignBy = 3000
  Lifetimes <- MCLifetimes
  IdLists <- MCIdLists
  MaxSent = 1
SPECIFICATION Spec
INVARIANT SignedReadIsCovered
CHECK_DEADLOCK FALSE
