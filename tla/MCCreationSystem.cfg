CONSTANTS
  Calls = {c1, c2, c3}
  Keys = {k1, k2}
  Users = {u1}
  None = None
  Scenarios <- SoundScenarios
SPECIFICATION SysSpec
SYMMETRY Symmetry
INVARIANTS
  SysTypeOK
  OneTaskPerKey
  SuccessesAgree
  WriterHoldsTheKey
PROPERTIES
  ImplementsIdempotentCreation
