\* cha_GET_MEMBER_NAME after friend removals and chats with a non-friend.
CONSTANTS
  n1 = n1  n2 = n2  n3 = n3  a1 = a1  a2 = a2
  Null = Null
  Names <- MCNames
  Addrs <- MCAddrs
  InitLenght = 1
SPECIFICATION Spec
INVARIANT MemberNamesResolve
