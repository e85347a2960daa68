\* The links after the adds of the test.
CONSTANTS
  s = s  a1 = a1  a2 = a2  a3 = a3
  Addrs <- MCAddrs
  Sentinel = s
  Names = {n1, n2}
  Null = Null
SPECIFICATION TestSpec
INVARIANT Linked
CHECK_DEADLOCK FALSE
