------------------------ MODULE MCCalendarManager ------------------------
(***************************************************************************)
(* Instances of CalendarManager for TLC.                                   *)
(***************************************************************************)
EXTENDS CalendarManager, TLC

CONSTANTS u1, u2, c1, c2, c3, p1, p2, k1, k2, n1

(* Every user has one connection. *)
MCSingle == (c1 :> u1) @@ (c2 :> u2)

(* The first user has two tabs open. *)
MCTabs == (c1 :> u1) @@ (c2 :> u1) @@ (c3 :> u2)

(* The two tabs are interchangeable. *)
MCTabsSymmetry == Permutations({c1, c2})
=============================================================================
