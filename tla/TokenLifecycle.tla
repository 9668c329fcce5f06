--------------------------- MODULE TokenLifecycle ---------------------------
(***************************************************************************)
(* What the sessions of an account promise, whoever asks and in whatever   *)
(* order: a token is issued once, for an account that exists, and belongs  *)
(* to it for ever; it replaces none, or one of the same account that was   *)
(* closed before; what is closed stays closed.  Whoever signs out          *)
(* everywhere closes all of his own and nobody else's.                     *)
(* AuthSessions, which models the Go code, is checked and proved to        *)
(* implement this specification.                                           *)
(***************************************************************************)
CONSTANTS
    Members,  \* who can have an account
    Tokens,   \* identities of tokens
    None      \* "nobody", "no token"

VARIABLES
    account,  \* account[m]: "absent", "active" or "inactive"
    owner,    \* owner[t]: whose token it is, None before it is issued
    parent,   \* parent[t]: the token that it replaces
    open      \* the tokens that are good for another one

vars == <<account, owner, parent, open>>

Init ==
    /\ account = [m \in Members |-> "absent"]
    /\ owner = [t \in Tokens |-> None]
    /\ parent = [t \in Tokens |-> None]
    /\ open = {}

SignUp(m) ==
    /\ account[m] = "absent"
    /\ account' = [account EXCEPT ![m] = "active"]
    /\ UNCHANGED <<owner, parent, open>>

Expel(m) ==
    /\ account[m] = "active"
    /\ account' = [account EXCEPT ![m] = "inactive"]
    /\ UNCHANGED <<owner, parent, open>>

Issue(t, m, old) ==
    /\ owner[t] = None
    /\ owner' = [owner EXCEPT ![t] = m]
    /\ parent' = [parent EXCEPT ![t] = old]
    /\ open' = open \cup {t}
    /\ UNCHANGED account

\* The account may have been deactivated since its password was compared.
Start(t, m) == account[m] # "absent" /\ Issue(t, m, None)

\* The old token is closed by then, and perhaps replaced more than once.
Renew(t, old) ==
    /\ owner[old] # None /\ old \notin open
    /\ Issue(t, owner[old], old)

\* Exchanged, signed out or too old.
Close(t) ==
    /\ open' = open \ {t}
    /\ UNCHANGED <<account, owner, parent>>

CloseAll(m) ==
    /\ open' = {t \in open : owner[t] # m}
    /\ UNCHANGED <<account, owner, parent>>

Next ==
    \/ \E m \in Members : SignUp(m) \/ Expel(m) \/ CloseAll(m)
    \/ \E t \in Tokens :
          \/ Close(t)
          \/ \E m \in Members : Start(t, m)
          \/ \E old \in Tokens : Renew(t, old)

Spec == Init /\ [][Next]_vars
=============================================================================
