-------------------------- MODULE FriendDirectory --------------------------
(***************************************************************************)
(* What the client's friend list promises (spec.md 4.1): an insertion-     *)
(* ordered collection of friends; a friend added goes in front, removing   *)
(* a friend takes out that entry and leaves the others, and freeing the    *)
(* list empties it before the list itself goes away.                       *)
(***************************************************************************)
EXTENDS Sequences, SequencesExt

CONSTANT Names

VARIABLES friends,  \* the entries in listing order
          exists    \* the list has been created and not yet freed

Init == friends = << >> /\ exists = TRUE

Add(name) ==
  /\ exists
  /\ friends' = <<name>> \o friends
  /\ UNCHANGED exists

RemoveEntry(i) ==
  /\ exists
  /\ i \in 1..Len(friends)
  /\ friends' = RemoveAt(friends, i)
  /\ UNCHANGED exists

Destroy ==
  /\ exists /\ friends = << >>
  /\ exists' = FALSE
  /\ UNCHANGED friends

Next == (\E n \in Names : Add(n)) \/ (\E i \in 1..Len(friends) : RemoveEntry(i))
        \/ Destroy

Spec == Init /\ [][Next]_<<friends, exists>>
=============================================================================
