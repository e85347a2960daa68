CONSTANTS
  Stamps = {1, 2}
  MaxCalls = 3
  Ops = {"new", "login", "free"}
SPECIFICATION Spec
INVARIANT NoLostBlock
