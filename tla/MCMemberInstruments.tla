------------------------ MODULE MCMemberInstruments ------------------------
(***************************************************************************)
(* A small instance of MemberInstruments: a leader of one church and a     *)
(* musician of another, a system instrument and one a church can add, and  *)
(* two requests that overlap.                                              *)
(***************************************************************************)
EXTENDS MemberInstruments, TLC

CONSTANTS lea, mia, c1, c2, voice, harp, harpName, r1, r2

TwoChurches == lea :> c1 @@ mia :> c2

Interchangeable == Permutations(Requests)
=============================================================================
