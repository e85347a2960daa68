\* The calls main() of test_client_friend_list.c makes: adds, then free.
CONSTANTS
  s = s  a1 = a1  a2 = a2  a3 = a3
  Addrs <- MCAddrs
  Sentinel = s
  Names = {n1, n2}
  Null = Null
SPECIFICATION TestSpec
INVARIANT TypeOK
INVARIANT NoLostNode
INVARIANT ForwardChainClosed
PROPERTY ImplementsFriendDirectory
