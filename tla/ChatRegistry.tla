---------------------------- MODULE ChatRegistry ----------------------------
(***************************************************************************)
(* The chat registry of chats.h as operators on a registry value: a        *)
(* function from the ids of the chats in the list to their chat_info       *)
(* (chats.h:47-56).  A chat keeps its two counters and its message store,  *)
(* abstracted to the send dates of its messages.  chats.c is not in the    *)
(* repository: the operations follow spec §4.2 and the comments of chats.h.*)
(***************************************************************************)
EXTENDS Integers, Sequences, Functions, TLC

CONSTANT ChatIds

\* struct chat_info: unread_messages, pending_messages, messages.
ChatInfo == [unread : Nat, pending : Nat, msgs : Seq(Nat)]

IsRegistry(reg) ==
  DOMAIN reg \subseteq ChatIds /\ \A c \in DOMAIN reg : reg[c] \in ChatInfo

EmptyRegistry == [c \in {} |-> 0]

Present(reg) == DOMAIN reg

\* A chat registered from a notification: no members, no messages.
Placeholder == [unread |-> 0, pending |-> 0, msgs |-> << >>]

\* cha_add_chat: -1 (DuplicateKey, nothing changed) if the id exists.
AddChat(reg, id) ==
  IF id \in DOMAIN reg THEN reg ELSE reg @@ (id :> Placeholder)

\* cha_del_chat: -1 (NotFound) if the id does not exist.
DelChat(reg, id) == Restrict(reg, DOMAIN reg \ {id})

\* Counter updates apply the delta, then clamp at zero (spec §3, §4.2).
Clamp(n) == IF n < 0 THEN 0 ELSE n

\* cha_update_pending(chats, id, n): -1 (NotFound) if the id does not exist.
UpdatePending(reg, id, n) ==
  IF id \notin DOMAIN reg THEN reg
  ELSE [reg EXCEPT ![id].pending = Clamp(@ + n)]

\* cha_get_last_message_date: the send date of the last message, or 0 if
\* the store is empty.
LastMessageDate(reg, id) ==
  IF id \notin DOMAIN reg \/ reg[id].msgs = << >> THEN 0
  ELSE reg[id].msgs[Len(reg[id].msgs)]

\* cha_add_messages: append in the order the server delivered them.
AddMessages(reg, id, dates) ==
  IF id \notin DOMAIN reg THEN reg
  ELSE [reg EXCEPT ![id].msgs = @ \o dates]

\* cha_set_unread(chats, id, n).
SetUnread(reg, id, n) ==
  IF id \notin DOMAIN reg THEN reg ELSE [reg EXCEPT ![id].unread = Clamp(n)]
=============================================================================
