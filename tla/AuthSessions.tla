---------------------------- MODULE AuthSessions ----------------------------
(***************************************************************************)
(* Accounts and refresh tokens (backend services/auth_service.go,          *)
(* adapters/postgres/auth_repo.go, handlers/auth.go).                      *)
(*                                                                         *)
(* A refresh token is a signed JWT with a row in refresh_tokens.  To       *)
(* refresh is to exchange it: the old row is revoked and a new one stored, *)
(* by statements of their own, with no transaction around them and no look *)
(* at how many rows the revocation changed.  A step is one SQL statement   *)
(* or transaction of one request.  Identities of tokens are not reused:    *)
(* Tokens bounds how many are issued.                                      *)
(***************************************************************************)
CONSTANTS
    Members,   \* e-mail addresses, each for at most one account
    Tokens,    \* identities (jti) of refresh tokens
    Requests,  \* requests the server can be serving at a time
    None

ASSUME NoneIsNew == None \notin Members \cup Tokens \cup Requests

VARIABLES
    account,  \* account[m]: "absent", "active" or "inactive" (members.is_active)
    token,    \* token[t]: the row of refresh_tokens
    req       \* req[r]: the request served in slot r

vars == <<account, token, req>>

\* expired: live until expires_at and not revoked since.
TokenState == {"absent", "live", "expired", "revoked"}

\* parent, slot and by are history: the token exchanged for this one, where
\* the request ran that stored it, and what revoked the row.
TokenRow ==
    [state : TokenState, owner : Members \cup {None},
     parent : Tokens \cup {None}, slot : Requests \cup {None},
     by : {"nobody", "rotation", "logout", "logoutAll"}]

\* made is the token that the request stored for its client.  barred is
\* history: what the request presents was already worthless when it began.
Request ==
    [op : {"none", "register", "login", "refresh", "logout", "logoutAll"},
     pc : {"store", "lookUp", "member", "revoke", "storeNew", "over"},
     user : Members \cup {None}, token : Tokens \cup {None},
     made : Tokens \cup {None}, barred : BOOLEAN,
     answer : {"none", "ok", "refused", "lost"}]

TypeOK ==
    /\ account \in [Members -> {"absent", "active", "inactive"}]
    /\ token \in [Tokens -> TokenRow]
    /\ req \in [Requests -> Request]

NoToken == [state |-> "absent", owner |-> None, parent |-> None, slot |-> None,
            by |-> "nobody"]

NoRequest == [op |-> "none", pc |-> "over", user |-> None, token |-> None,
              made |-> None, barred |-> FALSE, answer |-> "none"]

Init ==
    /\ account = [m \in Members |-> "absent"]
    /\ token = [t \in Tokens |-> NoToken]
    /\ req = [r \in Requests |-> NoRequest]

-----------------------------------------------------------------------------
(* The repository.                                                         *)

Stored(t) == token[t].state # "absent"
Live(t)   == token[t].state = "live"

\* Operators named "...Bug" are not part of the specification: each is the
\* definition that follows it with one plausible mistake, which the checked
\* properties must be able to tell apart from the code.

\* The insert with its two ids swapped.
RepoCreateRefreshTokenBug(t, m, parent, r) ==
    /\ ~Stored(t)
    /\ token' = [token EXCEPT ![t] =
                   [state |-> "live", owner |-> t, parent |-> parent, slot |-> r,
                    by |-> "nobody"]]

RepoCreateRefreshToken(t, m, parent, r) ==
    /\ ~Stored(t)
    /\ token' = [token EXCEPT ![t] =
                   [state |-> "live", owner |-> m, parent |-> parent, slot |-> r,
                    by |-> "nobody"]]

Revoked(row, by) ==
    IF row.state \in {"live", "expired"}
        THEN [row EXCEPT !.state = "revoked", !.by = by] ELSE row

\* UPDATE ... WHERE jti = t AND revoked_at IS NULL: no row changed is no error.
RepoRevoke(t, by) == token' = [token EXCEPT ![t] = Revoked(@, by)]

RepoRevokeAll(m) ==
    token' = [t \in Tokens |->
                IF token[t].owner = m THEN Revoked(token[t], "logoutAll") ELSE token[t]]

\* The read of the account without "AND m.is_active = TRUE".
FindActiveBug(m) == account[m] # "absent"

\* GetMemberForLogin and GetMemberForToken find active accounts only.
FindActive(m) == account[m] = "active"

-----------------------------------------------------------------------------
(* Requests.                                                               *)

Free(r) == req[r].pc = "over"

Call(op, u, t) == [NoRequest EXCEPT !.op = op, !.user = u, !.token = t]

Continue(r, call, pc) == req' = [req EXCEPT ![r] = [call EXCEPT !.pc = pc]]

\* A request that is over keeps only what its client got.
Finish(r, call, answer) ==
    req' = [req EXCEPT ![r] =
              [call EXCEPT !.pc = "over", !.answer = answer, !.user = None, !.token = None]]

\* The last statement is done: the client gets an access token and t.
Grant(r, call, t) == Finish(r, [call EXCEPT !.made = t], "ok")

\* POST /auth/register: church, roles and pastor in one transaction.
Register(r, m) ==
    LET call == Call("register", m, None) IN
    /\ Free(r)
    /\ \/ /\ account[m] = "absent"
          /\ account' = [account EXCEPT ![m] = "active"]
          /\ Continue(r, call, "store")
       \/ /\ account[m] # "absent"
          /\ Finish(r, call, "refused")
          /\ UNCHANGED account
    /\ UNCHANGED token

\* POST /auth/login: the account is read and the password compared.
Login(r, m) ==
    LET call == [Call("login", m, None) EXCEPT !.barred = (account[m] = "inactive")] IN
    /\ Free(r)
    /\ \/ FindActive(m) /\ Continue(r, call, "store")
       \/ Finish(r, call, "refused")
    /\ UNCHANGED <<account, token>>

\* Both store the first token of a new session.
StoreFirst(r, t) ==
    LET call == req[r] IN
    /\ call.pc = "store"
    /\ RepoCreateRefreshToken(t, call.user, None, r)
    /\ Grant(r, call, t)
    /\ UNCHANGED account

\* POST /auth/refresh arrives with a token issued before.
Refresh(r, t) ==
    LET call == [Call("refresh", token[t].owner, t) EXCEPT
                   !.barred = ~Live(t) \/ ~FindActive(token[t].owner)]
    IN
    /\ Free(r) /\ Stored(t)
    /\ Continue(r, call, "lookUp")
    /\ UNCHANGED <<account, token>>

\* The look-up without the check of revoked_at.
LookUpBug(r) ==
    LET call == req[r] IN
    /\ call.pc = "lookUp"
    /\ \/ token[call.token].state # "expired" /\ Continue(r, call, "member")
       \/ token[call.token].state = "expired" /\ Finish(r, call, "refused")
    /\ UNCHANGED <<account, token>>

\* Its signature, its row and its expiry.
LookUp(r) ==
    LET call == req[r] IN
    /\ call.pc = "lookUp"
    /\ \/ Live(call.token) /\ Continue(r, call, "member")
       \/ ~Live(call.token) /\ Finish(r, call, "refused")
    /\ UNCHANGED <<account, token>>

\* The account, for the claims of the new access token.
ReadMember(r) ==
    LET call == req[r] IN
    /\ call.pc = "member"
    /\ \/ FindActive(call.user) /\ Continue(r, call, "revoke")
       \/ ~FindActive(call.user) /\ Finish(r, call, "refused")
    /\ UNCHANGED <<account, token>>

\* The rotation that leaves the old row open.
RevokeOldBug(r) ==
    /\ req[r].pc = "revoke"
    /\ Continue(r, req[r], "storeNew")
    /\ UNCHANGED <<account, token>>

RevokeOld(r) ==
    LET call == req[r] IN
    /\ call.pc = "revoke"
    /\ RepoRevoke(call.token, "rotation")
    /\ Continue(r, call, "storeNew")
    /\ UNCHANGED account

StoreNew(r, t) ==
    LET call == req[r] IN
    /\ call.pc = "storeNew"
    /\ RepoCreateRefreshToken(t, call.user, call.token, r)
    /\ Grant(r, call, t)
    /\ UNCHANGED account

\* POST /auth/logout: the handler answers 204 whatever came of the update;
\* a token that does not parse (expired) is not even looked up.
Logout(r, t) ==
    /\ Free(r) /\ Stored(t)
    /\ \/ token[t].state # "expired" /\ RepoRevoke(t, "logout")
       \/ UNCHANGED token
    /\ Finish(r, Call("logout", token[t].owner, t), "ok")
    /\ UNCHANGED account

\* POST /auth/logout-all: here too the handler drops the error.
LogoutAll(r, m) ==
    /\ Free(r) /\ account[m] # "absent"
    /\ RepoRevokeAll(m) \/ UNCHANGED token
    /\ Finish(r, Call("logoutAll", m, None), "ok")
    /\ UNCHANGED account

\* The timeout, a lost connection or a failed statement ends a request; what
\* it has written stays.
Abort(r) ==
    /\ req[r].pc # "over"
    /\ Finish(r, req[r], "lost")
    /\ UNCHANGED <<account, token>>

\* POST /members/{id}/deactivate by somebody else; nothing undoes it.
DeactivateMember(m) ==
    /\ account[m] = "active"
    /\ account' = [account EXCEPT ![m] = "inactive"]
    /\ UNCHANGED <<token, req>>

\* 30 days have passed.
Expire(t) ==
    /\ Live(t)
    /\ token' = [token EXCEPT ![t].state = "expired"]
    /\ UNCHANGED <<account, req>>

Next ==
    \/ \E r \in Requests :
          \/ \E m \in Members : Register(r, m) \/ Login(r, m) \/ LogoutAll(r, m)
          \/ \E t \in Tokens :
                StoreFirst(r, t) \/ Refresh(r, t) \/ StoreNew(r, t) \/ Logout(r, t)
          \/ LookUp(r) \/ ReadMember(r) \/ RevokeOld(r) \/ Abort(r)
    \/ \E m \in Members : DeactivateMember(m)
    \/ \E t \in Tokens : Expire(t)

Spec == Init /\ [][Next]_vars

-----------------------------------------------------------------------------
(* Properties.                                                             *)

\* A request that begins with a revoked or expired token, or for an account
\* that is already deactivated, gets nothing, however its statements fall
\* between those of the others.
DoorStaysShut ==
    \A r \in Requests : req[r].barred => req[r].made = None /\ req[r].answer # "ok"

\* One token is exchanged twice only by requests that overlap: two that run
\* one after the other in the same slot never both succeed, whatever ran
\* beside them and although the revocation does not look at what it changed.
SerialExchange ==
    \A s, t \in Tokens :
        s # t /\ token[s].parent # None /\ token[s].parent = token[t].parent
            => token[s].slot # token[t].slot

TokenLife == INSTANCE TokenLifecycle WITH
    owner  <- [t \in Tokens |-> token[t].owner],
    parent <- [t \in Tokens |-> token[t].parent],
    open   <- {t \in Tokens : Live(t)}

\* The rows of refresh_tokens live as TokenLifecycle promises: although an
\* exchange is two statements, no token replaces one that is open or of another
\* account, nothing that is closed opens again, and a logout everywhere closes
\* the tokens of its account and no other.
ImplementsTokens == TokenLife!Spec
=============================================================================
