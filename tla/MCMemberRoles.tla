--------------------------- MODULE MCMemberRoles ---------------------------
(***************************************************************************)
(* Small instances of MemberRoles: one church with requests that overlap,  *)
(* and two churches in which time passes.                                  *)
(***************************************************************************)
EXTENDS MemberRoles, TLC

CONSTANTS ana, ben, zoe, c1, c2, pastor, team, red, card, r1, r2

\* ana and zoe each register a church.
TwoFounders == c1 :> ana @@ c2 :> zoe

OneFounder == c1 :> ana

PastorOnly == pastor :> "pastor"

\* With the team's role or without.
NewcomerRoles == {{}, {team}}

\* A list with an e-mail twice.
BenTwice == {<<ben, ben>>}

NoLists == {}

Interchangeable == Permutations(Requests)
=============================================================================
