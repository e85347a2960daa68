----------------------------- MODULE ChatRoster -----------------------------
(***************************************************************************)
(* One chat's membership as chats.h lays it out: an admin chat_member kept *)
(* outside the roster, and the roster as a growable array of chat_member   *)
(* pointers with n_members and list_lenght (chats.h:33-56).  A chat_member *)
(* holds its name and a friend_info pointer into the friend directory.     *)
(* The friend directory is the set of allocated friend_info addresses and  *)
(* the name stored in each.  chats.c and friends.c are not in the          *)
(* repository: each operation follows the comment on its prototype in      *)
(* chats.h and psd_ims_client.h and spec §4.1-4.2.  A malloc or realloc    *)
(* that fails makes the call return -1 with nothing changed, a stutter.    *)
(***************************************************************************)
EXTENDS Integers, Sequences, SequencesExt

CONSTANTS Names,        \* user names
          Addrs,        \* addresses a friend_info can be allocated at
          Null,         \* the NULL pointer
          InitLenght    \* list_lenght of a new member list

ASSUME Null \notin Addrs /\ InitLenght \in Nat \ {0}

VARIABLES exists,       \* the chat is in the chat list
          admin,        \* chat_info.admin
          members,      \* members->members[0 .. n_members-1]
          list_lenght,  \* members->list_lenght, the array's capacity
          alloc,        \* allocated friend_info addresses
          fname         \* the name stored in each friend_info

vars == <<exists, admin, members, list_lenght, alloc, fname>>

\* struct chat_member: a name and a friend_info pointer.
Member == [name : Names, info : Addrs \cup {Null}]

MemberNames == {members[i].name : i \in DOMAIN members}

\* The friend_info of the friend called n, NULL if n is no friend.
FriendInfo(n) ==
  IF \E a \in alloc : fname[a] = n THEN CHOOSE a \in alloc : fname[a] = n
  ELSE Null

\* The index of the first member called n, 0 if there is none.
FindMember(n) == SelectInSeq(members, LAMBDA m : m.name = n)

GrownLenghtLate ==
  IF Len(members) > list_lenght THEN 2 * list_lenght ELSE list_lenght

\* cha_memberlst_add grows a full array by doubling list_lenght.
GrownLenght ==
  IF Len(members) = list_lenght THEN 2 * list_lenght ELSE list_lenght

\* cha_memberlst_add: grow the array if it is full, then append.
AddToList(m) ==
  /\ list_lenght' = GrownLenght
  /\ members' = Append(members, m)

Init ==
  /\ exists = FALSE /\ members = << >> /\ list_lenght = InitLenght
  /\ alloc = {} /\ fname \in [Addrs -> Names]
  /\ admin \in {[name |-> n, info |-> Null] : n \in Names}

\* psd_add_friend: fails on a name already in the directory; malloc may
\* return any address not in use, a freed one included.
AddFriend(n, a) ==
  /\ FriendInfo(n) = Null /\ a \notin alloc
  /\ alloc' = alloc \cup {a}
  /\ fname' = [fname EXCEPT ![a] = n]
  /\ UNCHANGED <<exists, admin, members, list_lenght>>

\* psd_del_friend: frees the friend's friend_info; chats are not touched.
DelFriend(n) ==
  /\ FriendInfo(n) # Null
  /\ alloc' = alloc \ {FriendInfo(n)}
  /\ UNCHANGED <<exists, admin, members, list_lenght, fname>>

\* cha_add_chat from a chat summary with no members yet: the admin's
\* friend_info is looked up by name.
CreateChat(n) ==
  /\ ~exists
  /\ exists' = TRUE
  /\ admin' = [name |-> n, info |-> FriendInfo(n)]
  /\ members' = << >> /\ list_lenght' = InitLenght
  /\ UNCHANGED <<alloc, fname>>

\* cha_del_chat: the chat and its member list are freed.
DeleteChat ==
  /\ exists
  /\ exists' = FALSE /\ members' = << >>
  /\ UNCHANGED <<admin, list_lenght, alloc, fname>>

AddMemberNoAdminCheck(n) ==
  /\ exists
  /\ FindMember(n) = 0
  /\ AddToList([name |-> n, info |-> FriendInfo(n)])
  /\ UNCHANGED <<exists, admin, alloc, fname>>

\* cha_add_member (psd_add_friend_to_chat): -1 on a name already in the
\* chat, the admin's included (spec §4.2 DuplicateKey).
AddMember(n) ==
  /\ exists
  /\ n # admin.name /\ FindMember(n) = 0
  /\ AddToList([name |-> n, info |-> FriendInfo(n)])
  /\ UNCHANGED <<exists, admin, alloc, fname>>

\* cha_del_member: deletes the first member called n, -1 if none.
DelMember(n) ==
  /\ exists /\ FindMember(n) # 0
  /\ members' = RemoveAt(members, FindMember(n))
  /\ UNCHANGED <<exists, admin, list_lenght, alloc, fname>>

ChangeAdminKeepsNew(n) ==
  /\ exists /\ FindMember(n) # 0
  /\ admin' = members[FindMember(n)]
  /\ list_lenght' = GrownLenght
  /\ members' = Append(members, admin)
  /\ UNCHANGED <<exists, alloc, fname>>

\* cha_change_admin: the current admin is appended to the roster and the
\* member called n is taken out of it and becomes the admin.
ChangeAdmin(n) ==
  /\ exists /\ FindMember(n) # 0
  /\ admin' = members[FindMember(n)]
  /\ list_lenght' = GrownLenght
  /\ members' = RemoveAt(Append(members, admin), FindMember(n))
  /\ UNCHANGED <<exists, alloc, fname>>

\* cha_info_promote_to_admin: as cha_change_admin, but the previous admin
\* is not put into the roster.
PromoteToAdmin(n) ==
  /\ exists /\ FindMember(n) # 0
  /\ admin' = members[FindMember(n)]
  /\ members' = RemoveAt(members, FindMember(n))
  /\ UNCHANGED <<exists, list_lenght, alloc, fname>>

Next ==
  \/ DeleteChat
  \/ \E n \in Names :
       \/ \E a \in Addrs : AddFriend(n, a)
       \/ DelFriend(n) \/ CreateChat(n)
       \/ AddMember(n) \/ DelMember(n) \/ ChangeAdmin(n) \/ PromoteToAdmin(n)

Spec == Init /\ [][Next]_vars

-----------------------------------------------------------------------------

TypeOK ==
  /\ exists \in BOOLEAN
  /\ admin \in Member
  /\ members \in Seq(Member)
  /\ list_lenght \in Nat /\ Len(members) <= list_lenght
  /\ alloc \subseteq Addrs /\ fname \in [Addrs -> Names]

\* Roster well-formed (spec §3): in a chat, whatever sequence of adds,
\* deletes, admin changes and promotions cha_* ran, the admin is not in
\* the roster and no name is in the roster twice.
RosterWellFormed ==
  exists =>
    /\ admin.name \notin MemberNames
    /\ \A i, j \in DOMAIN members : members[i].name = members[j].name => i = j

\* Name-level view of the chat: the detailed operations on the member
\* array and the friend_info heap implement RosterSpec.
RS == INSTANCE RosterSpec WITH
        adminName <- admin.name,
        roster <- MemberNames,
        friends <- {fname[a] : a \in alloc}

ImplementsRosterSpec == RS!Spec

\* What cha_GET_MEMBER_NAME (chats.h:93-94) reads for a member: the name
\* in the friend_info its pointer refers to.
MemberName(m) ==
  IF m.info = Null THEN "NULL dereference"
  ELSE IF m.info \notin alloc THEN "freed friend_info"
  ELSE fname[m.info]

\* Member names resolve (spec §4.2, Scenario E): printing a chat's admin
\* and members with cha_GET_MEMBER_NAME shows each member's own name,
\* after any friend removals and re-additions.
MemberNamesResolve ==
  exists => \A m \in {admin} \cup ToSet(members) : MemberName(m) = m.name
=============================================================================
