CONSTANTS
  Stamps = {1, 2}
  MaxCalls = 2
  Ops = {"new", "user_register"}
SPECIFICATION Spec
INVARIANT ResultReflectsOutcome
