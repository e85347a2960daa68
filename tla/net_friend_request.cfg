CONSTANTS
  Stamps = {1, 2}
  MaxCalls = 2
  Ops = {"new", "send_friend_request"}
SPECIFICATION Spec
INVARIANT ResultReflectsOutcome
