---------------------- MODULE MCCalendarOperations ----------------------
(***************************************************************************)
(* An instance of CalendarOperations for TLC: the first user has two       *)
(* connections.                                                            *)
(***************************************************************************)
EXTENDS CalendarOperations, TLC

CONSTANTS u1, u2, c1, c2, c3, k1, o1, o2

MCUserOf == (c1 :> u1) @@ (c2 :> u1) @@ (c3 :> u2)

MCSymmetry == Permutations({c1, c2}) \cup Permutations({o1, o2})
=============================================================================
