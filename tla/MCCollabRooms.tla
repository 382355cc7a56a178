--------------------------- MODULE MCCollabRooms ---------------------------
(***************************************************************************)
(* Instance of CollabRooms for TLC: a user with two tabs and one with one. *)
(***************************************************************************)
EXTENDS CollabRooms, TLC

CONSTANTS c1, c2, c3, u1, u2, r1, r2

MCUser   == c1 :> u1 @@ c2 :> u2 @@ c3 :> u1
Symmetry == Permutations({c1, c3}) \cup Permutations(Rooms)
=============================================================================
