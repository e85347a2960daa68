------------------------------ MODULE Network ------------------------------
(***************************************************************************)
(* The RPC wrappers of src/src/client/network.c: the `network` object's    *)
(* lifetime and heap fields, and the result each net_* call hands back to  *)
(* its caller for every outcome of its mallocs and of the SOAP call.       *)
(*                                                                         *)
(* A SOAP call ends with a transport status (SOAP_OK or a fault) and, when *)
(* it is OK, the server's out-parameter: an error code for user_register,  *)
(* a timestamp (the new cursor, spec §6) for send_message and the friend   *)
(* request calls.  Strings and structs are abstracted to where a pointer   *)
(* points: "null" or "heap".                                               *)
(***************************************************************************)
EXTENDS Naturals

CONSTANTS
  Ops,        \* the net_* functions the caller uses
  Stamps,     \* timestamps the server may return
  MaxCalls    \* calls in one behaviour

RecvOps   == {"recv_notifications", "recv_pending_messages", "recv_new_chats"}
SendOps   == {"user_register", "send_message"}
FriendOps == {"send_friend_request", "send_request_accept", "send_request_decline"}
FreeOps   == {"free_user", "free_notification_list", "free_message_list",
              "free_chat_list"}
AllOps    == {"new", "free", "login"} \cup RecvOps \cup SendOps \cup FriendOps
             \cup FreeOps
ASSUME Ops \subseteq AllOps /\ Stamps \subseteq Nat \ {0} /\ MaxCalls \in Nat

Ptr == {"null", "heap"}

VARIABLES
  net,       \* the network object: "none", "live", or "crashed" after a
             \* write through a NULL pointer
  url,       \* network->serverURL
  name,      \* network->login_info.name
  password,  \* network->login_info.password
  lost,      \* heap blocks no pointer refers to any more
  held,      \* result blocks (user_info, lists) the caller holds
  last,      \* the last call: what happened and what it returned
  calls

vars == <<net, url, name, password, lost, held, last, calls>>

Init ==
  /\ net = "none"
  /\ url = "null" /\ name = "null" /\ password = "null"
  /\ lost = 0 /\ held = 0
  /\ last = [op |-> "none", done |-> TRUE, ok |-> TRUE]
  /\ calls = 0

\* A call returns ok (a result, or 0) or failure (NULL, or -1); `done`
\* records whether the requested operation really took place.
Return(op, done, ok) == last' = [op |-> op, done |-> done, ok |-> ok]

Call(op) == op \in Ops /\ calls < MaxCalls /\ calls' = calls + 1

\* net_new: malloc the struct, then the URL copy; the login fields start NULL.
NetNew(structOk, urlOk) ==
  /\ Call("new") /\ net = "none"
  /\ IF structOk /\ urlOk
       THEN /\ net' = "live" /\ url' = "heap"
            /\ name' = "null" /\ password' = "null"
       ELSE UNCHANGED <<net, url, name, password>>
  /\ Return("new", structOk /\ urlOk, structOk /\ urlOk)
  /\ UNCHANGED <<lost, held>>

\* Mutant: the freed pointers are not reset to NULL.
NetFreeNoReset ==
  /\ Call("free") /\ net = "live"
  /\ net' = "none" /\ url' = "dangling" /\ name' = "null" /\ password' = "null"
  /\ Return("free", TRUE, TRUE)
  /\ UNCHANGED <<lost, held>>

\* net_free: free the three strings (free(NULL) is a no-op) and the struct.
NetFree ==
  /\ Call("free") /\ net = "live"
  /\ net' = "none" /\ url' = "null" /\ name' = "null" /\ password' = "null"
  /\ Return("free", TRUE, TRUE)
  /\ UNCHANGED <<lost, held>>

\* net_login: malloc user_info; call get_user; malloc the name into
\* network->login_info.name; malloc the password buffer into the LOCAL
\* login_info.password; strcpy the password into network->login_info.password.
NetLogin(infoOk, transportOk, nameOk, passOk) ==
  /\ Call("login") /\ net = "live"
  /\ CASE ~infoOk \/ ~transportOk ->
            /\ Return("login", FALSE, FALSE)
            /\ UNCHANGED <<net, name, password, lost, held>>
       [] ~nameOk ->
            \* user_info is not freed; the old name is overwritten by NULL
            /\ name' = "null"
            /\ lost' = lost + 1 + (IF name = "heap" THEN 1 ELSE 0)
            /\ Return("login", FALSE, FALSE)
            /\ UNCHANGED <<net, password, held>>
       [] ~passOk ->
            /\ name' = "null"
            /\ lost' = lost + 1 + (IF name = "heap" THEN 1 ELSE 0)
            /\ Return("login", FALSE, FALSE)
            /\ UNCHANGED <<net, password, held>>
       [] OTHER ->
            \* the local password buffer is lost; strcpy writes through
            \* network->login_info.password, which stays what it was
            /\ name' = "heap"
            /\ lost' = lost + 1 + (IF name = "heap" THEN 1 ELSE 0)
            /\ held' = held + 1
            /\ net' = IF password = "null" THEN "crashed" ELSE net
            /\ Return("login", TRUE, password # "null")
            /\ UNCHANGED password
  /\ UNCHANGED url

\* net_recv_*: malloc the result list, then the SOAP call; NULL on either
\* failure, the list freed on a fault.
NetRecv(op, listOk, transportOk) ==
  /\ Call(op) /\ op \in RecvOps /\ net = "live"
  /\ Return(op, listOk /\ transportOk, listOk /\ transportOk)
  /\ held' = IF listOk /\ transportOk THEN held + 1 ELSE held
  /\ UNCHANGED <<net, url, name, password, lost>>

\* net_user_register: -1 on a fault; otherwise 0, the server's ERRCODE
\* out-parameter unread ("Comprobar error del servidor").
NetUserRegister(transportOk, serverOk) ==
  /\ Call("user_register") /\ net = "live"
  /\ Return("user_register", transportOk /\ serverOk, transportOk)
  /\ UNCHANGED <<net, url, name, password, lost, held>>

\* net_send_message: -1 on a fault, otherwise 0; the server reports a
\* refused message by a fault, its timestamp out-parameter is unread.
NetSendMessage(transportOk) ==
  /\ Call("send_message") /\ net = "live"
  /\ Return("send_message", transportOk, transportOk)
  /\ UNCHANGED <<net, url, name, password, lost, held>>

\* net_send_friend_request/accept/decline: soap_response starts at 0, the
\* call's own status is dropped, and the out-parameter (the timestamp,
\* left untouched on a fault) is compared with SOAP_OK (0).  The server
\* refuses a request by a fault.
NetSendFriendOp(op, transportOk, stamp) ==
  /\ Call(op) /\ op \in FriendOps /\ net = "live"
  /\ LET soap_response == IF transportOk THEN stamp ELSE 0
     IN  Return(op, transportOk, soap_response = 0)
  /\ UNCHANGED <<net, url, name, password, lost, held>>

\* net_free_user, net_free_notification_list, net_free_message_list,
\* net_free_chat_list: empty bodies.  The caller lets go of the block it
\* passed, which stays allocated with nothing pointing to it.
NetFreeResult(op) ==
  /\ Call(op) /\ op \in FreeOps /\ held > 0
  /\ held' = held - 1 /\ lost' = lost + 1
  /\ Return(op, FALSE, TRUE)
  /\ UNCHANGED <<net, url, name, password>>

Stopped == (net = "crashed" \/ calls = MaxCalls) /\ UNCHANGED vars

Next ==
  \/ \E a, b \in BOOLEAN : NetNew(a, b)
  \/ NetFree
  \/ \E a, b, c, d \in BOOLEAN : NetLogin(a, b, c, d)
  \/ \E op \in RecvOps, a, b \in BOOLEAN : NetRecv(op, a, b)
  \/ \E a, b \in BOOLEAN : NetUserRegister(a, b)
  \/ \E a \in BOOLEAN : NetSendMessage(a)
  \/ \E op \in FriendOps, a \in BOOLEAN, s \in Stamps : NetSendFriendOp(op, a, s)
  \/ \E op \in FreeOps : NetFreeResult(op)
  \/ Stopped

Spec == Init /\ [][Next]_vars

-----------------------------------------------------------------------------
TypeOK ==
  /\ net \in {"none", "live", "crashed"}
  /\ {url, name, password} \subseteq Ptr
  /\ lost \in Nat /\ held \in Nat
  /\ last \in [op : AllOps \cup {"none"}, done : BOOLEAN, ok : BOOLEAN]
  /\ calls \in 0..MaxCalls

\* What a net_* call in `ops` returns tells its caller whether the
\* operation took place: ok exactly when the allocations, the transport and
\* the server all succeeded (spec §6: each operation returns its result or
\* an Error).
ReportsOutcome(ops) ==
  (net # "crashed" /\ last.op \in ops) => (last.ok <=> last.done)

\* Every net_* call that returns a result reports its outcome (the
\* net_free_* releasers are void).
ResultReflectsOutcome == ReportsOutcome(AllOps \ FreeOps)

\* No net_* call, net_login on any failing step and the net_free_* result
\* releasers included, leaves a heap block behind that nothing points to.
NoLostBlock == lost = 0

\* A successful net_login leaves the process running with the credentials
\* stored for the later calls that send network->login_info.
LoginKeepsRunning == net # "crashed"
=============================================================================
