CONSTANTS
  Stamps = {1, 2}
  MaxCalls = 2
  Ops = {"new", "login"}
SPECIFICATION Spec
INVARIANT LoginKeepsRunning
