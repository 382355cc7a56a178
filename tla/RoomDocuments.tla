-------------------------- MODULE RoomDocuments --------------------------
(***************************************************************************)
(* What a room of the content editor promises the users in it: the         *)
(* document is loaded once, by the first to come, its version counts the   *)
(* operations on it one by one, and only the last to leave throws it away. *)
(* Nobody else who comes, leaves or is cut off touches it.                 *)
(***************************************************************************)
EXTENDS Naturals

CONSTANTS Rooms, Users

VARIABLES
  users,    \* the users in each room
  version   \* of its document; 0 for none

Init == users = [r \in Rooms |-> {}] /\ version = [r \in Rooms |-> 0]

Enter(u, r) ==
  /\ users' = [users EXCEPT ![r] = @ \cup {u}]
  /\ \/ users[r] = {} /\ version' = [version EXCEPT ![r] = 1]
     \/ UNCHANGED version

Edit(r) ==
  /\ users[r] # {} /\ version[r] > 0
  /\ version' = [version EXCEPT ![r] = @ + 1]
  /\ UNCHANGED users

Exit(u, r) ==
  /\ u \in users[r]
  /\ users' = [users EXCEPT ![r] = @ \ {u}]
  /\ version' = [version EXCEPT ![r] = IF users'[r] = {} THEN 0 ELSE @]

Next == \E r \in Rooms : Edit(r) \/ \E u \in Users : Enter(u, r) \/ Exit(u, r)

Spec == Init /\ [][Next]_<<users, version>>
=============================================================================
