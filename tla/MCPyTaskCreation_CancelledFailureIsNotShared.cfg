CONSTANTS
  Calls = {c1, c2, c3}
  Keys = {k1}
  Users = {u1}
  None = None
SPECIFICATION Spec
SYMMETRY Symmetry
INVARIANT CancelledFailureIsNotShared
