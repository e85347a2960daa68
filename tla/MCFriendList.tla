--------------------------- MODULE MCFriendList ---------------------------
(* Instantiates FriendList for TLC: the sentinel and three nodes.          *)
EXTENDS FriendList

CONSTANTS s, a1, a2, a3
MCAddrs == {s, a1, a2, a3}
=============================================================================
