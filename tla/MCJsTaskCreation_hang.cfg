CONSTANTS
  Calls = {c1, c2}
  Keys = {k1}
  Users = {u1}
  None = None
SPECIFICATION LoopSpec
PROPERTY AbortedIsStartedAgain
