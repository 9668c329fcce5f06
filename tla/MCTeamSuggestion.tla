-------------------------- MODULE MCTeamSuggestion --------------------------
(***************************************************************************)
(* A small instance of TeamSuggestion: two members, two instruments, a     *)
(* Sunday out of the window, the one before and one to come, in every      *)
(* state of the tables, and two changes while the suggestion is made.      *)
(***************************************************************************)
EXTENDS TeamSuggestion, TLC

CONSTANTS amy, bea, harp, voice, past, before, next

Alphabet == amy :> 1 @@ bea :> 2 @@ harp :> 1 @@ voice :> 2
=============================================================================
