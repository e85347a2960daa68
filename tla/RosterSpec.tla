----------------------------- MODULE RosterSpec -----------------------------
(***************************************************************************)
(* What a chat's membership promises (spec §3, §4.2): a chat has one admin *)
(* and a roster of other members, each a name; the friend directory is a   *)
(* set of names.  addMember refuses a name already in the chat,            *)
(* changeAdmin swaps the admin with a roster member, promoteToAdmin        *)
(* drops the outgoing admin.  Removing a friend leaves the chat alone.     *)
(***************************************************************************)
CONSTANT Names

VARIABLES exists,     \* the chat is in the registry
          adminName,  \* the admin's name
          roster,     \* the names of the other members
          friends     \* the names in the friend directory

Init ==
  /\ exists = FALSE /\ roster = {} /\ friends = {}
  /\ adminName \in Names

AddFriend(n) ==
  /\ n \notin friends
  /\ friends' = friends \cup {n}
  /\ UNCHANGED <<exists, adminName, roster>>

DelFriend(n) ==
  /\ n \in friends
  /\ friends' = friends \ {n}
  /\ UNCHANGED <<exists, adminName, roster>>

CreateChat(n) ==
  /\ ~exists
  /\ exists' = TRUE /\ adminName' = n /\ roster' = {}
  /\ UNCHANGED friends

DeleteChat ==
  /\ exists
  /\ exists' = FALSE /\ roster' = {}
  /\ UNCHANGED <<adminName, friends>>

AddMember(n) ==
  /\ exists /\ n \notin roster \cup {adminName}
  /\ roster' = roster \cup {n}
  /\ UNCHANGED <<exists, adminName, friends>>

RemoveMember(n) ==
  /\ exists /\ n \in roster
  /\ roster' = roster \ {n}
  /\ UNCHANGED <<exists, adminName, friends>>

ChangeAdmin(n) ==
  /\ exists /\ n \in roster
  /\ adminName' = n
  /\ roster' = (roster \ {n}) \cup {adminName}
  /\ UNCHANGED <<exists, friends>>

PromoteToAdmin(n) ==
  /\ exists /\ n \in roster
  /\ adminName' = n
  /\ roster' = roster \ {n}
  /\ UNCHANGED <<exists, friends>>

Next ==
  \/ DeleteChat
  \/ \E n \in Names :
       \/ AddFriend(n) \/ DelFriend(n) \/ CreateChat(n)
       \/ AddMember(n) \/ RemoveMember(n) \/ ChangeAdmin(n) \/ PromoteToAdmin(n)

Spec == Init /\ [][Next]_<<exists, adminName, roster, friends>>
=============================================================================
