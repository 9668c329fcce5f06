-------------------------- MODULE MCInventoryLoans --------------------------
(***************************************************************************)
(* Small instances of InventoryLoans: one church in which two requests     *)
(* overlap, and two churches.                                              *)
(***************************************************************************)
EXTENDS InventoryLoans, TLC

CONSTANTS drill, soap, lea, mia, pat, c1, c2, ghost, l1, l2, r1, r2

\* One church: lea is staff, mia is not.
OneTokenChurch    == lea :> c1 @@ mia :> c1
OneMemberChurches == lea :> {c1} @@ mia :> {c1}
OneItemChurch     == drill :> c1

\* Two churches, each with staff; pat belongs to both and works for c2.
TwoTokenChurch    == lea :> c1 @@ mia :> c1 @@ pat :> c2
TwoMemberChurches == lea :> {c1} @@ mia :> {c1} @@ pat :> {c1, c2}
TwoItemChurch     == drill :> c1 @@ soap :> c2

Interchangeable == Permutations({l1, l2}) \cup Permutations({r1, r2})
=============================================================================
