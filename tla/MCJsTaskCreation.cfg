CONSTANTS
  Calls = {c1, c2, c3}
  Keys = {k1, k2}
  Users = {u1, u2}
  None = None
SPECIFICATION FairSpec
INVARIANTS
  TypeOK
  OneCreationPerKey
  NoForgottenWaiter
  ToldOfItsOwnKey
  AbortIsNotShared
  TakenOverOnce
PROPERTIES
  EveryWaiterIsAnswered
  ImplementsMergedCreation
