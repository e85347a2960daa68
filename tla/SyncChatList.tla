---------------------------- MODULE SyncChatList ----------------------------
(***************************************************************************)
(* SyncEngine with the chat-list refresh the login runs: psd_recv_chats    *)
(* (psd_ims_client.h:143-147), called by retrieve_user_data.  It sends     *)
(* client->chats_timestamp to get_chats, upserts every chat of the answer  *)
(* with cha_add_chat under the chats lock and moves chats_timestamp to the *)
(* answer's last_timestamp (spec §4.3).  It runs beside the poller's       *)
(* notification merge, which keeps its own cursor.                         *)
(***************************************************************************)
EXTENDS SyncEngine

VARIABLES
  chatsTs,    \* client->chats_timestamp
  ugot        \* the psdims__chat_list get_chats returned

ext == <<chatsTs, ugot>>
all == <<vars, ext>>

NoChats == [chats |-> {}, last_timestamp |-> 0]

ListInit == Init /\ chatsTs = 0 /\ ugot = NoChats

\* psd_recv_chats, first half: get_chats(login, chats_timestamp) outside
\* any lock; a transport failure abandons the call.
FetchChats ==
  /\ upc = "idle"
  /\ \/ /\ ugot' = ChatsSince(chatsTs) /\ upc' = "chats"
        /\ UNCHANGED failures
     \/ TransportFailure /\ UNCHANGED <<upc, ugot>>
  /\ UNCHANGED <<server, local, chatsTs, poller, uchat, ufetched, ureq>>

\* psd_recv_chats, second half, under the chats lock: cha_add_chat for
\* each chat of the answer (DuplicateKey for one already there), then
\* chats_timestamp takes the answer's last_timestamp.
ApplyChats ==
  /\ upc = "chats"
  /\ reg' = FoldSet(LAMBDA c, acc : AddChat(acc, c), reg, ugot.chats)
  /\ chatsTs' = ugot.last_timestamp
  /\ upc' = "idle" /\ ugot' = NoChats
  /\ UNCHANGED <<server, friends, received, cursor, poller, uchat, ufetched,
                 ureq, failures>>

ListNext == (Next /\ UNCHANGED ext) \/ FetchChats \/ ApplyChats

ListSpec == ListInit /\ [][ListNext]_all /\ WF_all(PollerStep /\ UNCHANGED ext)
=============================================================================
