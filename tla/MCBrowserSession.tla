-------------------------- MODULE MCBrowserSession --------------------------
(***************************************************************************)
(* A small instance of BrowserSession: a tab with two calls, another with  *)
(* one, tokens for a sign-in and a refresh.                                *)
(***************************************************************************)
EXTENDS BrowserSession, TLC

CONSTANTS mia, k1, k2, left, right, a, b, c

TabOf == a :> left @@ b :> left @@ c :> right @@ << >>
=============================================================================
