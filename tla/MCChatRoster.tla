---------------------------- MODULE MCChatRoster ----------------------------
EXTENDS ChatRoster

CONSTANTS n1, n2, n3, a1, a2

\* Three names: an admin and two roster members, so the roster can fill.
MCNames == {n1, n2, n3}

\* Two friend_info addresses: a freed one can be handed out again.
MCAddrs == {a1, a2}
=============================================================================
