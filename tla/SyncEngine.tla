----------------------------- MODULE SyncEngine -----------------------------
(***************************************************************************)
(* The client core's synchronisation with the server (spec §4.3, §5): the  *)
(* poller thread's psd_recv_notifications and the interactive caller's     *)
(* refresh of an opened chat and friend-request resolution, run against    *)
(* the server of ImsServer.  psd_ims_client.c is not in the repository;    *)
(* the state is that of struct psd_ims_client (psd_ims_client.h:44-64),    *)
(* the steps follow the spec.                                              *)
(*                                                                         *)
(* Each critical section (the friends lock or the chats lock held around   *)
(* one update) is one step; an RPC is made outside any lock and is a step  *)
(* of its own, so the other actor may run between the call and the update *)
(* that uses its answer.                                                   *)
(***************************************************************************)
EXTENDS ImsServer, FiniteSetsExt

CONSTANT MaxFailures   \* transport failures in one behaviour

VARIABLES
  reg,        \* client->chats
  friends,    \* client->friends
  received,   \* received friend requests
  cursor,     \* client->last_notif_timestamp
  ppc,        \* poller: "sleep", "friends" (notifications in hand), "chats"
  pnotif,     \* the notifications the poller fetched
  upc,        \* interactive caller: "idle", "refresh", "resolve"
  uchat,      \* the chat being refreshed
  ufetched,   \* the send dates get_chat_messages returned
  ureq,       \* the request being resolved: [user, accept]
  failures

local == <<reg, friends, received, cursor>>
poller == <<ppc, pnotif>>
caller == <<upc, uchat, ufetched, ureq>>
vars == <<server, local, poller, caller, failures>>

SA == INSTANCE SyncAtomic
        WITH reg <- reg, friends <- friends, received <- received,
             cursor <- cursor

NoNotif == Window(0, 0)
NoReq == [user |-> CHOOSE u \in Users : TRUE, accept |-> FALSE]

Init ==
  /\ ServerInit
  /\ reg = EmptyRegistry /\ friends = {} /\ received = {} /\ cursor = 0
  /\ ppc = "sleep" /\ pnotif = NoNotif
  /\ upc = "idle" /\ uchat = CHOOSE c \in ChatIds : TRUE
  /\ ufetched = << >> /\ ureq = NoReq
  /\ failures = 0

\* A call of the RPC gateway fails in transport; the operation is abandoned.
TransportFailure ==
  /\ failures < MaxFailures
  /\ failures' = failures + 1

-----------------------------------------------------------------------------
(* The poller: psd_recv_notifications, once per wake-up.                   *)

\* Mutant: a transport failure ends the poller instead of being retried.
PollerFetchGivesUp ==
  /\ ppc = "sleep"
  /\ \/ /\ pnotif' = Window(cursor, now)
        /\ ppc' = "friends"
        /\ UNCHANGED failures
     \/ TransportFailure /\ ppc' = "stopped" /\ UNCHANGED pnotif
  /\ UNCHANGED <<server, local, caller>>

\* get_pending_notifications(last_notif_timestamp), outside any lock.
PollerFetch ==
  /\ ppc = "sleep"
  /\ \/ /\ pnotif' = Window(cursor, now)
        /\ ppc' = "friends"
        /\ UNCHANGED failures
     \/ TransportFailure /\ UNCHANGED poller
  /\ UNCHANGED <<server, local, caller>>

\* Under the friends lock: (b) deleted_friends, (c) friend_request.
PollerApplyFriends ==
  /\ ppc = "friends"
  /\ SA!ApplyFriendLists(pnotif)
  /\ ppc' = "chats"
  /\ UNCHANGED <<server, reg, cursor, pnotif, caller, failures>>

\* Mutant: the deleted chats are removed in a critical section of their
\* own, before the rest of the chat lists.
PollerApplyChatsSplit ==
  /\ ppc = "chats"
  /\ IF pnotif.deleted_chats # {}
       THEN /\ reg' = FoldSet(LAMBDA c, acc : DelChat(acc, c), reg, pnotif.deleted_chats)
            /\ pnotif' = [pnotif EXCEPT !.deleted_chats = {}]
            /\ UNCHANGED <<cursor, ppc>>
       ELSE /\ reg' = SA!ApplyChatLists(reg, pnotif)
            /\ cursor' = pnotif.last_timestamp
            /\ ppc' = "sleep" /\ pnotif' = NoNotif
  /\ UNCHANGED <<server, friends, received, caller, failures>>

\* Under the chats lock: (a), (d), (e); then the cursor takes the
\* notifications' last_timestamp.
PollerApplyChats ==
  /\ ppc = "chats"
  /\ reg' = SA!ApplyChatLists(reg, pnotif)
  /\ cursor' = pnotif.last_timestamp
  /\ ppc' = "sleep" /\ pnotif' = NoNotif
  /\ UNCHANGED <<server, friends, received, caller, failures>>

-----------------------------------------------------------------------------
(* The interactive caller, one operation at a time.                        *)

\* Mutant: the fetch asks for the messages from the last stored date on,
\* that message included.
OpenChatInclusive(c) ==
  /\ upc = "idle" /\ c \in DOMAIN reg
  /\ \/ /\ srvChat[c] = "live"
        /\ ufetched' = SelectSeq(srvMsgs[c], LAMBDA d : d >= LastMessageDate(reg, c))
        /\ upc' = "refresh" /\ uchat' = c
        /\ UNCHANGED failures
     \/ TransportFailure /\ UNCHANGED <<upc, uchat, ufetched>>
  /\ UNCHANGED <<server, local, poller, ureq>>

\* refreshChat(c), first half: read the last message date under the chats
\* lock, then get_chat_messages(c, date) outside it.
OpenChat(c) ==
  /\ upc = "idle" /\ c \in DOMAIN reg
  /\ \/ /\ srvChat[c] = "live"
        /\ ufetched' = ChatMessages(c, LastMessageDate(reg, c))
        /\ upc' = "refresh" /\ uchat' = c
        /\ UNCHANGED failures
     \/ TransportFailure /\ UNCHANGED <<upc, uchat, ufetched>>
  /\ UNCHANGED <<server, local, poller, ureq>>

\* Mutant: pending is decremented by the number fetched, without clamping.
RefreshApplyDecrements ==
  /\ upc = "refresh"
  /\ reg' = IF uchat \notin DOMAIN reg THEN reg
            ELSE [AddMessages(reg, uchat, ufetched)
                    EXCEPT ![uchat].unread = @ + Len(ufetched),
                           ![uchat].pending = @ - Len(ufetched)]
  /\ upc' = "idle" /\ ufetched' = << >>
  /\ UNCHANGED <<server, friends, received, cursor, poller, uchat, ureq, failures>>

\* refreshChat, second half, under the chats lock: append, unread += k,
\* pending = 0 (NotFound if the chat was deleted meanwhile).
RefreshApply ==
  /\ upc = "refresh"
  /\ reg' = IF uchat \notin DOMAIN reg THEN reg
            ELSE [AddMessages(reg, uchat, ufetched)
                    EXCEPT ![uchat].unread = @ + Len(ufetched),
                           ![uchat].pending = 0]
  /\ upc' = "idle" /\ ufetched' = << >>
  /\ UNCHANGED <<server, friends, received, cursor, poller, uchat, ureq, failures>>

\* The user has read the opened chat: cha_set_unread(chats, c, 0).
ReadChat(c) ==
  /\ upc = "idle"
  /\ reg' = SetUnread(reg, c, 0)
  /\ UNCHANGED <<server, friends, received, cursor, poller, caller, failures>>

\* accept_request / decline_request for a received request.
ResolveSend(u, accept) ==
  /\ upc = "idle" /\ u \in received
  /\ \/ /\ ResolveRequest(u, accept)
        /\ upc' = "resolve" /\ ureq' = [user |-> u, accept |-> accept]
        /\ UNCHANGED failures
     \/ /\ TransportFailure
        /\ UNCHANGED <<server, upc, ureq>>
  /\ UNCHANGED <<local, poller, uchat, ufetched>>

\* resolveRequest under the friends lock.
ResolveApply ==
  /\ upc = "resolve"
  /\ IF ureq.user \in received
       THEN /\ received' = received \ {ureq.user}
            /\ friends' = IF ureq.accept THEN friends \cup {ureq.user} ELSE friends
       ELSE UNCHANGED <<friends, received>>
  /\ upc' = "idle"
  /\ UNCHANGED <<server, reg, cursor, poller, uchat, ufetched, ureq, failures>>

-----------------------------------------------------------------------------
ServerStep == ServerNext /\ UNCHANGED <<local, poller, caller, failures>>

PollerStep == PollerFetch \/ PollerApplyFriends \/ PollerApplyChats

CallerStep ==
  \/ \E c \in ChatIds : OpenChat(c) \/ ReadChat(c)
  \/ RefreshApply
  \/ \E u \in Users, a \in BOOLEAN : ResolveSend(u, a)
  \/ ResolveApply

Next == ServerStep \/ PollerStep \/ CallerStep

\* The poller wakes every second until it is stopped: weak fairness.  The
\* user and the server act when they like.
Spec == Init /\ [][Next]_vars /\ WF_vars(PollerStep)
-----------------------------------------------------------------------------
TypeOK ==
  /\ IsRegistry(reg)
  /\ friends \subseteq Users /\ received \subseteq Users
  /\ cursor \in 0..now
  /\ ppc \in {"sleep", "friends", "chats"}
  /\ upc \in {"idle", "refresh", "resolve"}
  /\ uchat \in ChatIds
  /\ failures \in 0..MaxFailures

\* Every chat's message store is a prefix of the chat's messages on the
\* server: refreshChat fetches only after the last stored send date, so
\* nothing is stored twice, skipped or reordered, whatever the poller and
\* the server do between the fetch and the append.
StoreIsServerPrefix ==
  \A c \in Present(reg) : IsPrefix(reg[c].msgs, srvMsgs[c])

\* The client's friend lists and chat registry change only in whole steps
\* of the SyncAtomic specification: no reader holding the friends lock or
\* the chats lock sees part of a notification merge or of a refresh.
ImplementsSyncAtomic == SA!Spec

\* Once the server stops changing, the notification cursor reaches the
\* server's last timestamp and stays there (the poller's retries after
\* transport failures catch up).
CursorCatchesUp == <>[](cursor = now)

\* Every message the poller has been notified of (its date is at most the
\* cursor) is either in the chat's store or still counted in pending, so
\* the user is told the chat has something new (spec §4.3 lazy fetch).
NotifiedMessagesPending ==
  \A c \in Present(reg) :
    (\E i \in 1..Len(srvMsgs[c]) :
        LastMessageDate(reg, c) < srvMsgs[c][i] /\ srvMsgs[c][i] <= cursor)
      => reg[c].pending > 0

\* When both actors are idle and the poller has caught up with the server,
\* the client's friends and received requests are the server's: accepting
\* or declining a request and the poller's deleted_friends, in whatever
\* order they reach the friends lock, leave the friend list as the server
\* has it.
FriendsMatchServer ==
  (ppc = "sleep" /\ upc = "idle" /\ cursor = now)
    => friends = srvFriends /\ received = srvReqs

\* When both actors are idle and the poller has caught up with the server,
\* the client's chats, friends and received requests are the server's.
MirrorMatchesServer ==
  (ppc = "sleep" /\ upc = "idle" /\ cursor = now)
    => /\ Present(reg) = {c \in ChatIds : srvChat[c] = "live"}
       /\ friends = srvFriends
       /\ received = srvReqs
=============================================================================
