CONSTANTS
  MaxLifetimeSeconds = 2
  ClockToleranceSeconds = 1
  FarFuture = 1000
  Departments = {d1, d2}
  Host = host
  Users = {u1}
  Scopes = {read}
  TaskIds <- MCTaskIds
  LoneSurrogates <- MCLoneSurrogates
  None = None
  Skews <- MCSkews
  Steps = {500}
  Begin = 2500
  Horizon = 7500
  Lifetimes <- MCLifetimes
  IdLists <- MCIdLists
  MaxSent = 1
  SignBy = 3000
SPECIFICATION Spec
INVARIANTS
  TypeOK
  AcceptedIsFresh
  HonestIsAccepted
  BothSdksAgree
  CallerIsWhoTheHostNamed
  CoveredIsWhatWasSigned
CHECK_DEADLOCK FALSE
