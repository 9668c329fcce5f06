--------------------------- MODULE MCAuthSessions ---------------------------
(***************************************************************************)
(* Small instances of AuthSessions: requests that overlap and tokens for a *)
(* login and two exchanges.                                                *)
(***************************************************************************)
EXTENDS AuthSessions, TLC

CONSTANTS mia, t1, t2, t3, r1, r2

Interchangeable ==
    Permutations(Tokens) \cup Permutations(Requests) \cup Permutations(Members)
=============================================================================
