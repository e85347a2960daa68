--------------------------- MODULE MCSyncChatList ---------------------------
EXTENDS SyncChatList

CONSTANTS c1, c2, u1

MCChatIds == {c1, c2}
MCUsers == {u1}
=============================================================================
