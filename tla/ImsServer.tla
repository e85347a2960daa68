------------------------------ MODULE ImsServer ------------------------------
(***************************************************************************)
(* The server side of the psdims interface (src/src/rpc/ims.h), as seen by *)
(* one client: its chats, their messages, its friends and the friend       *)
(* requests sent to it.  Every change the server makes is logged with a    *)
(* timestamp; get_pending_notifications(timestamp) returns the changes     *)
(* after the given timestamp, sorted into the five lists of struct         *)
(* psdims__notifications, and the last timestamp.                          *)
(***************************************************************************)
EXTENDS ChatRegistry, SequencesExt

\* ChatIds (ChatRegistry): the chat ids the server may create.
CONSTANTS
  Users,      \* other users who may befriend the client
  MaxTs       \* the server's clock stops here

VARIABLES
  now,        \* the timestamp of the server's last change
  srvChat,    \* per chat id: "none", "live" or "gone"
  srvMsgs,    \* per chat id: the send dates of its messages
  srvFriends, \* the client's friends
  srvReqs,    \* friend requests the client has received and not resolved
  log         \* every change: [kind, id, ts]

server == <<now, srvChat, srvMsgs, srvFriends, srvReqs, log>>

ServerInit ==
  /\ now = 0
  /\ srvChat = [c \in ChatIds |-> "none"]
  /\ srvMsgs = [c \in ChatIds |-> << >>]
  /\ srvFriends = {}
  /\ srvReqs = {}
  /\ log = << >>

\* A change at the next timestamp.
Tick(kind, id) ==
  /\ now < MaxTs
  /\ now' = now + 1
  /\ log' = Append(log, [kind |-> kind, id |-> id, ts |-> now + 1])

\* Another user creates a chat with the client in it.
NewChat(c) ==
  /\ srvChat[c] = "none"
  /\ Tick("new_chat", c)
  /\ srvChat' = [srvChat EXCEPT ![c] = "live"]
  /\ UNCHANGED <<srvMsgs, srvFriends, srvReqs>>

\* The chat is deleted (its admin removes it).
DeleteChat(c) ==
  /\ srvChat[c] = "live"
  /\ Tick("deleted_chat", c)
  /\ srvChat' = [srvChat EXCEPT ![c] = "gone"]
  /\ UNCHANGED <<srvMsgs, srvFriends, srvReqs>>

\* Another member sends a message; its send date is the timestamp.
SendMessage(c) ==
  /\ srvChat[c] = "live"
  /\ Tick("message", c)
  /\ srvMsgs' = [srvMsgs EXCEPT ![c] = Append(@, now + 1)]
  /\ UNCHANGED <<srvChat, srvFriends, srvReqs>>

SendFriendRequest(u) ==
  /\ u \notin srvFriends \cup srvReqs
  /\ Tick("friend_request", u)
  /\ srvReqs' = srvReqs \cup {u}
  /\ UNCHANGED <<srvChat, srvMsgs, srvFriends>>

DeleteFriend(u) ==
  /\ u \in srvFriends
  /\ Tick("deleted_friend", u)
  /\ srvFriends' = srvFriends \ {u}
  /\ UNCHANGED <<srvChat, srvMsgs, srvReqs>>

\* accept_request / decline_request from the client.
ResolveRequest(u, accept) ==
  /\ u \in srvReqs
  /\ srvReqs' = srvReqs \ {u}
  /\ srvFriends' = IF accept THEN srvFriends \cup {u} ELSE srvFriends
  /\ UNCHANGED <<now, log, srvChat, srvMsgs>>

ServerNext ==
  \E c \in ChatIds, u \in Users :
    NewChat(c) \/ DeleteChat(c) \/ SendMessage(c)
    \/ SendFriendRequest(u) \/ DeleteFriend(u)

\* struct psdims__notifications for the changes in (since, upto];
\* get_pending_notifications(login, timestamp) answers Window(timestamp, now).
Window(since, upto) ==
  LET after == {e \in ToSet(log) : since < e.ts /\ e.ts <= upto}
      ids(k) == {e.id : e \in {x \in after : x.kind = k}}
  IN  [friend_request      |-> ids("friend_request"),
       deleted_friends     |-> ids("deleted_friend"),
       new_chats           |-> ids("new_chat"),
       deleted_chats       |-> ids("deleted_chat"),
       chats_with_messages |-> ids("message"),
       last_timestamp      |-> upto]

\* get_chats(login, timestamp): the chats created after the timestamp that
\* the server still has, and its last timestamp (struct psdims__chat_list).
ChatsSince(since) ==
  [chats |-> {e.id : e \in {x \in ToSet(log) : x.kind = "new_chat" /\ x.ts > since}}
               \cap {c \in ChatIds : srvChat[c] = "live"},
   last_timestamp |-> now]

\* get_chat_messages(login, chat_id, timestamp): the messages sent after it.
ChatMessages(c, since) == SelectSeq(srvMsgs[c], LAMBDA d : d > since)
=============================================================================
