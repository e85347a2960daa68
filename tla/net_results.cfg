\* Every net_* call, up to five calls in a behaviour.
CONSTANTS
  Stamps = {1, 2}
  MaxCalls = 5
  Ops <- AllOps
SPECIFICATION Spec
INVARIANT TypeOK
