----------------------------- MODULE SyncAtomic -----------------------------
(***************************************************************************)
(* What the client core promises about its mirror of the server (spec      *)
(* §4.3, §5): each resource class (friends, chats) changes in whole steps. *)
(* A notification merge is applied to the friend lists in one step and to  *)
(* the chat registry in one step, which also advances the notification     *)
(* cursor; opening a chat appends the messages fetched, counts them unread *)
(* and clears pending in one step.  No reader of a class ever sees part of *)
(* a merge.                                                                *)
(***************************************************************************)
EXTENDS ImsServer, FiniteSetsExt

VARIABLES
  reg,       \* client->chats, as a registry value
  friends,   \* client->friends
  received,  \* received friend requests
  cursor     \* client->last_notif_timestamp

local == <<reg, friends, received, cursor>>
vars == <<server, local>>

Init ==
  /\ ServerInit
  /\ reg = EmptyRegistry /\ friends = {} /\ received = {} /\ cursor = 0

\* Notification merge, friend lists: (b) deleted_friends, (c) friend_request.
ApplyFriendLists(n) ==
  /\ friends' = friends \ n.deleted_friends
  /\ received' = received \cup n.friend_request

\* Notification merge, chat lists: (a) deleted_chats, (d) new_chats as
\* placeholders, (e) pending + 1 for every chat with messages.
ApplyChatLists(r, n) ==
  LET a == FoldSet(LAMBDA c, acc : DelChat(acc, c), r, n.deleted_chats)
      d == FoldSet(LAMBDA c, acc : AddChat(acc, c), a, n.new_chats)
  IN  FoldSet(LAMBDA c, acc : UpdatePending(acc, c, 1), d, n.chats_with_messages)

\* The friend lists take in the notifications of a window (cursor, t] that
\* the server has already produced.
MergeFriends ==
  /\ \E t \in cursor..now : ApplyFriendLists(Window(cursor, t))
  /\ UNCHANGED <<server, reg, cursor>>

\* The registry takes in the notifications of such a window, and the
\* cursor moves to its end.
MergeChats ==
  /\ \E t \in cursor..now :
       /\ reg' = ApplyChatLists(reg, Window(cursor, t))
       /\ cursor' = t
  /\ UNCHANGED <<server, friends, received>>

\* Opening chat c: some messages after the last one stored (a prefix of
\* those the server has now) are appended and counted unread; pending is 0.
RefreshChat(c) ==
  /\ c \in DOMAIN reg
  /\ \E k \in 0..Len(ChatMessages(c, LastMessageDate(reg, c))) :
       LET got == SubSeq(ChatMessages(c, LastMessageDate(reg, c)), 1, k)
       IN  reg' = [AddMessages(reg, c, got) EXCEPT ![c].unread = @ + k,
                                                  ![c].pending = 0]
  /\ UNCHANGED <<server, friends, received, cursor>>

\* The user has read chat c.
ReadChat(c) ==
  /\ c \in DOMAIN reg
  /\ reg' = SetUnread(reg, c, 0)
  /\ UNCHANGED <<server, friends, received, cursor>>

\* A received request is resolved locally (the server was told before).
ResolveLocal(u, accept) ==
  /\ u \in received
  /\ received' = received \ {u}
  /\ friends' = IF accept THEN friends \cup {u} ELSE friends
  /\ UNCHANGED <<server, reg, cursor>>

\* The server changes on its own, or answers a resolve request.
ServerStep ==
  /\ \/ ServerNext
     \/ \E u \in Users, a \in BOOLEAN : ResolveRequest(u, a)
  /\ UNCHANGED local

Next ==
  \/ ServerStep
  \/ MergeFriends
  \/ MergeChats
  \/ \E c \in ChatIds : RefreshChat(c) \/ ReadChat(c)
  \/ \E u \in Users, a \in BOOLEAN : ResolveLocal(u, a)

Spec == Init /\ [][Next]_vars
=============================================================================
