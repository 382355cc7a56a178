------------------------- MODULE MCCalendarClient -------------------------
(***************************************************************************)
(* An instance of CalendarClient for TLC.                                  *)
(***************************************************************************)
EXTENDS CalendarClient, TLC

CONSTANTS p1, p2

MCSymmetry == Permutations({p1, p2})
=============================================================================
