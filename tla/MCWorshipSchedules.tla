------------------------- MODULE MCWorshipSchedules -------------------------
(***************************************************************************)
(* Small instances of WorshipSchedules: one schedule on which two requests *)
(* overlap, and two churches with a schedule each.                         *)
(***************************************************************************)
EXTENDS WorshipSchedules, TLC

CONSTANTS lea, mia, pat, c1, c2, s1, s2, k1, k2, sunday, text, r1, r2

\* lea leads and mia plays in one church.
OneTokenChurch == lea :> c1 @@ mia :> c1

\* pat leads another.
TwoTokenChurch == lea :> c1 @@ mia :> c1 @@ pat :> c2

Interchangeable == Permutations(Slots) \cup Permutations(Requests)
=============================================================================
