\* Two chats, one other user, four server changes, one transport failure.
CONSTANTS
  c1 = c1  c2 = c2  u1 = u1
  ChatIds <- MCChatIds
  Users <- MCUsers
  MaxTs = 4
  MaxFailures = 1
SPECIFICATION Spec
INVARIANT NotifiedMessagesPending
