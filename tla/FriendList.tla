---------------------------- MODULE FriendList ----------------------------
(***************************************************************************)
(* The friend list of the client as implemented in                        *)
(* src/src/test/test_client_friend_list.c: a circular doubly-linked list  *)
(* with a sentinel node, nodes allocated with malloc.  The heap is a set  *)
(* of addresses; next, prev and info are the node fields.                 *)
(***************************************************************************)
EXTENDS Naturals, Sequences, SequencesExt, FiniteSets

CONSTANTS
  Addrs,     \* heap addresses malloc may return
  Sentinel,  \* the phantom node allocated by new_friend_list
  Names,     \* friend names carried by friend_info
  Null

ASSUME Sentinel \in Addrs /\ Null \notin Addrs

VARIABLES
  next, prev,  \* node->next, node->prev
  info,        \* node->info->name
  alloc        \* addresses currently allocated

vars == <<next, prev, info, alloc>>

\* The fields of every live node are set: links to nodes, and a name on
\* every node but the sentinel.
TypeOK ==
  /\ next \in [Addrs -> Addrs \cup {Null}]
  /\ prev \in [Addrs -> Addrs \cup {Null}]
  /\ info \in [Addrs -> Names \cup {Null}]
  /\ alloc \in SUBSET Addrs
  /\ \A a \in alloc :
       /\ next[a] \in Addrs
       /\ prev[a] \in Addrs
       /\ a # Sentinel => info[a] \in Names

\* new_friend_list: the sentinel points at itself.
Init ==
  /\ next = [a \in Addrs |-> IF a = Sentinel THEN Sentinel ELSE Null]
  /\ prev = [a \in Addrs |-> IF a = Sentinel THEN Sentinel ELSE Null]
  /\ info = [a \in Addrs |-> Null]
  /\ alloc = {Sentinel}

\* The entries met walking next from the sentinel back to it; the walk
\* gives up after as many nodes as the heap has.
RECURSIVE Walk(_, _)
Walk(a, fuel) ==
  IF a = Sentinel \/ a = Null \/ fuel = 0 THEN << >>
  ELSE <<a>> \o Walk(next[a], fuel - 1)

ListNodes == Walk(next[Sentinel], Cardinality(Addrs))

\* Fault models for AddFriend: node->prev left as malloc returned it;
\* list->next not pointed at the new node.
AddFriendNoPrev(name) ==
  /\ Sentinel \in alloc
  /\ \/ \E n \in Addrs \ alloc :
          /\ alloc' = alloc \cup {n}
          /\ info' = [info EXCEPT ![n] = name]
          /\ next' = [next EXCEPT ![n] = next[Sentinel], ![Sentinel] = n]
          /\ prev' = [prev EXCEPT ![Sentinel] = n]
     \/ alloc = Addrs /\ UNCHANGED vars

AddFriendNoLink(name) ==
  /\ Sentinel \in alloc
  /\ \/ \E n \in Addrs \ alloc :
          /\ alloc' = alloc \cup {n}
          /\ info' = [info EXCEPT ![n] = name]
          /\ next' = [next EXCEPT ![n] = next[Sentinel]]
          /\ prev' = [prev EXCEPT ![n] = Sentinel, ![Sentinel] = n]
     \/ alloc = Addrs /\ UNCHANGED vars

\* _add_friend: the node goes after the sentinel.  The test of the old
\* last node is written `if (list->prev = list)`, an assignment: it is
\* always true and list->prev always becomes the new node, and the old
\* first node's prev is never updated.  malloc failing returns -1.
AddFriend(name) ==
  /\ Sentinel \in alloc
  /\ \/ \E n \in Addrs \ alloc :
          /\ alloc' = alloc \cup {n}
          /\ info' = [info EXCEPT ![n] = name]
          /\ next' = [next EXCEPT ![n] = next[Sentinel], ![Sentinel] = n]
          /\ prev' = [prev EXCEPT ![n] = Sentinel, ![Sentinel] = n]
     \/ alloc = Addrs /\ UNCHANGED vars

\* Fault model for Unlink: node->prev->next is not redirected.
UnlinkNoRelink(n) ==
  /\ next' = [next EXCEPT ![n] = Null]
  /\ prev' = [prev EXCEPT ![next[n]] = prev[n], ![n] = Null]
  /\ info' = [info EXCEPT ![n] = Null]
  /\ alloc' = alloc \ {n}

\* _free_node after the unlink of _delete_node: the node's own prev and
\* next are trusted to be its neighbours.
Unlink(n) ==
  /\ next' = [next EXCEPT ![prev[n]] = next[n], ![n] = Null]
  /\ prev' = [prev EXCEPT ![next[n]] = prev[n], ![n] = Null]
  /\ info' = [info EXCEPT ![n] = Null]
  /\ alloc' = alloc \ {n}

\* _delete_node on a node of the list that a caller found by walking next
\* (as removing a friend by name does).
DeleteNode(n) ==
  /\ Sentinel \in alloc
  /\ n \in ToSet(ListNodes)
  /\ Unlink(n)

\* _free_friend_list: one turn of `while (list->next != list)
\* _delete_node(list->next)`, or, the list empty, free(list).
FreeFriendList ==
  /\ Sentinel \in alloc
  /\ IF next[Sentinel] # Sentinel
       THEN Unlink(next[Sentinel])
       ELSE /\ alloc' = alloc \ {Sentinel}
            /\ next' = [next EXCEPT ![Sentinel] = Null]
            /\ prev' = [prev EXCEPT ![Sentinel] = Null]
            /\ UNCHANGED info

Freed == Sentinel \notin alloc

Next ==
  \/ \E name \in Names : AddFriend(name)
  \/ \E n \in Addrs : DeleteNode(n)
  \/ FreeFriendList
  \/ Freed /\ UNCHANGED vars

Spec == Init /\ [][Next]_vars

\* What main() of the test does: add friends, then free the list.
TestNext ==
  \/ \E name \in Names : AddFriend(name)
  \/ FreeFriendList
  \/ Freed /\ UNCHANGED vars

TestSpec == Init /\ [][TestNext]_vars

-----------------------------------------------------------------------------
(* Properties.                                                             *)

\* The list seen through next is the abstract friend directory: adding a
\* friend puts it in front, deleting a node removes exactly that friend,
\* and _free_friend_list empties the list before freeing the sentinel.
FD == INSTANCE FriendDirectory
        WITH friends <- [i \in 1..Len(ListNodes) |-> info[ListNodes[i]]],
             exists <- Sentinel \in alloc
ImplementsFriendDirectory == FD!Spec

\* The links agree: every live node is the next of its prev and the prev
\* of its next, which _delete_node relies on.
Linked ==
  \A n \in alloc : next[prev[n]] = n /\ prev[next[n]] = n

\* Walking next from the sentinel only meets allocated nodes and comes back
\* to the sentinel: the loop of _free_friend_list and every lookup by name
\* end and never read freed memory.
ForwardChainClosed ==
  Sentinel \in alloc =>
    LET walk == ListNodes
    IN /\ ToSet(walk) \subseteq alloc \ {Sentinel}
       /\ (IF walk = << >> THEN next[Sentinel] ELSE next[Last(walk)]) = Sentinel

\* No node is lost: every allocated node other than the sentinel is on
\* the list, so _free_friend_list frees all of them.
NoLostNode == Sentinel \in alloc => alloc \ {Sentinel} = ToSet(ListNodes)

=============================================================================
