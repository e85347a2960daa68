\* Removing a friend that is not the first one.
CONSTANTS
  s = s  a1 = a1  a2 = a2  a3 = a3
  Addrs <- MCAddrs
  Sentinel = s
  Names = {n1, n2}
  Null = Null
SPECIFICATION Spec
PROPERTY ImplementsFriendDirectory
CHECK_DEADLOCK FALSE
