---------------------------- MODULE SessionProofs ----------------------------
(***************************************************************************)
(* Proofs about AuthSessions, for any number of accounts, tokens and       *)
(* overlapping requests, and about BrowserSession, for any number of tabs, *)
(* calls and interventions from outside.                                   *)
(*                                                                         *)
(* The first part speaks of the server alone, whoever calls it.  The       *)
(* second takes over its invariant: what the browser makes the server do   *)
(* are steps of AuthSessions, and a slot that is released holds nothing.   *)
(* The client's half of the second part says who may have rotated a token  *)
(* that this browser has shown.                                            *)
(***************************************************************************)
EXTENDS BrowserSession, TLAPS

-----------------------------------------------------------------------------
(* THE SERVER.                                                             *)

\* A row that is not stored is blank; a stored one has an account that
\* exists, and if it replaced a token, a slot that stored it.
RowsNamed ==
    \A t \in Tokens :
        /\ ~Stored(t) => token[t].parent = None /\ token[t].owner = None
        /\ Stored(t) => token[t].owner \in Members /\ account[token[t].owner] # "absent"
        /\ token[t].parent # None =>
             token[t].parent \in Tokens /\ token[t].slot \in Requests

\* A token that was exchanged is revoked, and its successor belongs to the
\* same account: the old row is closed before the new one is opened.
Lineage ==
    \A t \in Tokens : token[t].parent # None =>
        LET old == token[token[t].parent] IN
        old.state = "revoked" /\ old.owner = token[t].owner

Exchanging == {"lookUp", "member", "revoke", "storeNew"}

\* What a request knows between two of its statements.
Running(r) ==
    LET task == req[r] IN
    /\ task.pc = "store" =>
         ~task.barred /\ task.user \in Members /\ account[task.user] # "absent"
    /\ task.pc \in Exchanging =>
         /\ task.token \in Tokens /\ Stored(task.token)
         /\ task.user \in Members /\ token[task.token].owner = task.user
    /\ task.pc = "storeNew" => token[task.token].state = "revoked"
    /\ task.pc # "over" => task.made = None /\ task.answer = "none"

\* A barred request is stopped at the latest when the account is read.
Barred(r) ==
    LET task == req[r] IN
    task.barred =>
        /\ task.made = None /\ task.answer # "ok"
        /\ task.pc \in {"over", "lookUp", "member"}
        /\ task.pc = "lookUp" => ~Live(task.token) \/ ~FindActive(task.user)
        /\ task.pc = "member" => ~FindActive(task.user)

\* While a request exchanges a token that it found live, no successor of
\* that token was stored from its own slot.
NoOwnHeir(r) ==
    req[r].pc \in {"member", "revoke", "storeNew"} =>
        \A t \in Tokens : token[t].parent = req[r].token => token[t].slot # r

IInv ==
    /\ TypeOK
    /\ RowsNamed
    /\ Lineage
    /\ SerialExchange
    /\ \A r \in Requests : Running(r) /\ Barred(r) /\ NoOwnHeir(r)

-----------------------------------------------------------------------------
(* What the other requests may rely on.                                    *)

\* Accounts do not disappear and a deactivated one stays so; a row keeps its
\* owner, its parent and its slot and is never live again.
Forward ==
    /\ \A m \in Members : account[m] # "absent" =>
          /\ account'[m] # "absent"
          /\ account[m] = "inactive" => account'[m] = "inactive"
    /\ \A t \in Tokens : Stored(t) =>
          /\ token'[t].state # "absent"
          /\ token'[t].owner = token[t].owner
          /\ token'[t].parent = token[t].parent
          /\ token'[t].slot = token[t].slot
          /\ token[t].state # "live" => token'[t].state # "live"
          /\ token[t].state = "revoked" => token'[t].state = "revoked"

LEMMA RevokedRow ==
    ASSUME NEW row \in TokenRow, NEW by \in {"rotation", "logout", "logoutAll"}
    PROVE  /\ Revoked(row, by) \in TokenRow
           /\ Revoked(row, by).owner = row.owner
           /\ Revoked(row, by).parent = row.parent
           /\ Revoked(row, by).slot = row.slot
           /\ row.state = "absent" => Revoked(row, by) = row
           /\ row.state # "absent" => Revoked(row, by).state = "revoked"
BY DEF Revoked, TokenRow, TokenState

\* No row is stored and none is changed but to be closed.
Closing ==
    /\ token' \in [Tokens -> TokenRow]
    /\ \A t \in Tokens :
          /\ token'[t].owner = token[t].owner
          /\ token'[t].parent = token[t].parent
          /\ token'[t].slot = token[t].slot
          /\ \/ token'[t].state = token[t].state
             \/ Stored(t) /\ token'[t].state = "revoked"
             \/ Live(t) /\ token'[t].state = "expired"

LEMMA ClosingSteps ==
    ASSUME TypeOK
    PROVE  /\ UNCHANGED token => Closing
           /\ \A t \in Tokens, by \in {"rotation", "logout", "logoutAll"} :
                RepoRevoke(t, by) =>
                  Closing /\ (Stored(t) => token'[t].state = "revoked")
           /\ \A m \in Members : RepoRevokeAll(m) => Closing
           /\ \A t \in Tokens : Expire(t) => Closing
<1> USE DEF TypeOK, Closing, Stored, Live
<1>1. UNCHANGED token => Closing
  OBVIOUS
<1>2. ASSUME NEW t \in Tokens, NEW by \in {"rotation", "logout", "logoutAll"},
             RepoRevoke(t, by)
      PROVE  Closing /\ (Stored(t) => token'[t].state = "revoked")
  <2>1. /\ token'[t] = Revoked(token[t], by)
        /\ \A s \in Tokens \ {t} : token'[s] = token[s]
        /\ token' = [s \in Tokens |-> token'[s]]
    BY <1>2 DEF RepoRevoke
  <2>2. QED
    BY <2>1, RevokedRow
<1>3. ASSUME NEW m \in Members, RepoRevokeAll(m)
      PROVE  Closing
  <2>1. /\ \A s \in Tokens : token'[s] = token[s] \/ token'[s] = Revoked(token[s], "logoutAll")
        /\ token' = [s \in Tokens |-> token'[s]]
    BY <1>3 DEF RepoRevokeAll
  <2>2. QED
    BY <2>1, RevokedRow
<1>4. ASSUME NEW t \in Tokens, Expire(t)
      PROVE  Closing
  BY <1>4 DEF Expire, TokenRow, TokenState
<1>5. QED
  BY <1>1, <1>2, <1>3, <1>4

\* A row for account m is stored from slot r.
Storing(t, m, parent, r) ==
    /\ token' \in [Tokens -> TokenRow]
    /\ \A s \in Tokens \ {t} : token'[s] = token[s]
    /\ ~Stored(t)
    /\ token'[t].state = "live" /\ token'[t].owner = m
    /\ token'[t].parent = parent /\ token'[t].slot = r

LEMMA StoringStep ==
    ASSUME TypeOK, NEW t \in Tokens, NEW m \in Members, NEW r \in Requests,
           NEW parent \in Tokens \cup {None}, RepoCreateRefreshToken(t, m, parent, r)
    PROVE  Storing(t, m, parent, r)
BY DEF TypeOK, RepoCreateRefreshToken, Storing, TokenRow, TokenState

AccountStep ==
    /\ account' \in [Members -> {"absent", "active", "inactive"}]
    /\ \A m \in Members :
          /\ account[m] # "absent" => account'[m] # "absent"
          /\ account[m] = "inactive" => account'[m] = "inactive"

Rows == RowsNamed /\ Lineage /\ SerialExchange

LEMMA ClosingKeepsRows ==
    ASSUME IInv, Closing, AccountStep
    PROVE  Forward /\ Rows'
<1> USE DEF IInv, TypeOK, Closing, AccountStep, TokenRow, TokenState
<1>1. Forward
  BY DEF Forward, Stored, Live
<1>2. RowsNamed'
  <2>1. ASSUME NEW t \in Tokens
        PROVE  /\ Stored(t)' <=> Stored(t)
               /\ token'[t].owner = token[t].owner
               /\ token'[t].parent = token[t].parent
               /\ token'[t].slot = token[t].slot
    BY DEF Stored, Live
  <2>2. \A m \in Members : account[m] # "absent" => account'[m] # "absent"
    OBVIOUS
  <2> HIDE DEF Closing, AccountStep, TypeOK
  <2>3. QED
    BY <2>1, <2>2 DEF RowsNamed
<1>3. Lineage'
  BY DEF Lineage, RowsNamed, Live
<1>4. SerialExchange'
  BY DEF SerialExchange
<1>5. QED
  BY <1>1, <1>2, <1>3, <1>4 DEF Rows

\* The new row has no parent, or one that is revoked, of the same account
\* and without another heir from the same slot.
LEMMA StoringKeepsRows ==
    ASSUME IInv, UNCHANGED account,
           NEW t \in Tokens, NEW m \in Members, account[m] # "absent",
           NEW parent \in Tokens \cup {None}, NEW r \in Requests,
           Storing(t, m, parent, r),
           parent # None => /\ token[parent].state = "revoked"
                            /\ token[parent].owner = m
                            /\ \A s \in Tokens :
                                  token[s].parent = parent => token[s].slot # r
    PROVE  Forward /\ Rows'
<1> USE NoneIsNew DEF IInv, TypeOK, Storing
<1>1. Forward
  BY DEF Forward, Stored
<1>2. RowsNamed'
  BY DEF RowsNamed, Stored
<1>3. Lineage'
  <2>1. \A s \in Tokens : token[s].parent # None => token[s].parent # t
    BY DEF Lineage, Stored
  <2>2. parent # t
    BY DEF Stored
  <2>3. QED
    BY <2>1, <2>2 DEF Lineage, RowsNamed
<1>4. SerialExchange'
  BY DEF SerialExchange, RowsNamed
<1>5. QED
  BY <1>1, <1>2, <1>3, <1>4 DEF Rows

\* It is enough to look at the slot that moved: the rows only go forward, and
\* a row stored now bears the name of that slot.
LEMMA SlotFrame ==
    ASSUME IInv, Forward, Rows', AccountStep, token' \in [Tokens -> TokenRow],
           NEW r \in Requests, NEW new \in Request,
           req' = [req EXCEPT ![r] = new],
           \A t \in Tokens : \/ token'[t].slot = r
                             \/ Stored(t)
                             \/ token'[t].parent = None,
           (Running(r) /\ Barred(r) /\ NoOwnHeir(r))'
    PROVE  IInv'
<1>1. TypeOK'
  BY DEF IInv, TypeOK, AccountStep
<1>2. ASSUME NEW q \in Requests \ {r}
      PROVE  (Running(q) /\ Barred(q) /\ NoOwnHeir(q))'
  <2>1. req'[q] = req[q]
    BY DEF IInv, TypeOK
  <2>2. Running(q)'
    BY <2>1 DEF IInv, Running, Forward, Exchanging, Stored
  <2>3. Barred(q)'
    BY <2>1 DEF IInv, TypeOK, Barred, Forward, Stored, Live, FindActive, Running,
                Exchanging, AccountStep, RowsNamed
  <2>4. NoOwnHeir(q)'
    BY <2>1, NoneIsNew DEF IInv, NoOwnHeir, Forward, Running, Exchanging
  <2>5. QED
    BY <2>2, <2>3, <2>4
<1>3. \A q \in Requests : (Running(q) /\ Barred(q) /\ NoOwnHeir(q))'
  BY <1>2
<1>4. QED
  BY <1>1, <1>3 DEF IInv, Rows

-----------------------------------------------------------------------------
(* The steps of a request.                                                 *)

\* A request ends without having stored a token, and closes rows at most.
LEMMA FinishStep ==
    ASSUME IInv, Closing, AccountStep, NEW r \in Requests, NEW task \in Request,
           NEW answer \in {"ok", "refused", "lost"},
           Finish(r, task, answer),
           task.barred => task.made = None /\ answer # "ok"
    PROVE  IInv'
<1> DEFINE new == [task EXCEPT !.pc = "over", !.answer = answer,
                               !.user = None, !.token = None]
<1>1. /\ new \in Request /\ new.pc = "over" /\ new.answer = answer
      /\ new.made = task.made /\ new.barred = task.barred
      /\ req' = [req EXCEPT ![r] = new]
  BY DEF Request, Finish
<1>2. req'[r] = new
  BY <1>1 DEF IInv, TypeOK
<1> HIDE DEF new
<1>3. (Running(r) /\ Barred(r) /\ NoOwnHeir(r))'
  BY <1>1, <1>2 DEF Running, Barred, NoOwnHeir, Exchanging
<1>4. \A t \in Tokens : Stored(t) \/ token'[t].parent = None
  BY DEF IInv, RowsNamed, Closing
<1>5. QED
  BY <1>1, <1>3, <1>4, ClosingKeepsRows, SlotFrame DEF Closing

\* A request goes on to its next statement.
LEMMA ContinueStep ==
    ASSUME IInv, Closing, AccountStep, NEW r \in Requests, NEW task \in Request,
           NEW pc \in {"store", "lookUp", "member", "revoke", "storeNew"},
           Continue(r, task, pc),
           task.made = None, task.answer = "none",
           pc = "store" => /\ ~task.barred /\ task.user \in Members
                           /\ account'[task.user] # "absent",
           pc \in Exchanging => /\ task.token \in Tokens /\ Stored(task.token)
                                /\ task.user \in Members
                                /\ token[task.token].owner = task.user,
           pc = "storeNew" => token'[task.token].state = "revoked",
           pc = "lookUp" /\ task.barred => ~Live(task.token) \/ ~FindActive(task.user),
           pc = "member" /\ task.barred => ~FindActive(task.user),
           pc \in {"revoke", "storeNew"} => ~task.barred,
           pc \in {"member", "revoke", "storeNew"} =>
              \A t \in Tokens : token[t].parent = task.token => token[t].slot # r
    PROVE  IInv'
<1> DEFINE new == [task EXCEPT !.pc = pc]
<1>1. /\ new \in Request /\ new.pc = pc /\ new.answer = "none" /\ new.made = None
      /\ new.user = task.user /\ new.token = task.token /\ new.barred = task.barred
      /\ req' = [req EXCEPT ![r] = new]
  BY DEF Request, Continue
<1>2. req'[r] = new
  BY <1>1 DEF IInv, TypeOK
<1>3. Forward /\ Rows'
  BY ClosingKeepsRows
<1> HIDE DEF new
<1>4. Running(r)'
  BY <1>1, <1>2, <1>3 DEF Running, Exchanging, Forward, Stored
<1>5. Barred(r)'
  BY <1>1, <1>2, <1>3
     DEF IInv, TypeOK, Barred, Forward, Stored, Live, FindActive, Exchanging,
         AccountStep, RowsNamed
<1>6. NoOwnHeir(r)'
  BY <1>1, <1>2 DEF NoOwnHeir, Closing
<1>7. \A t \in Tokens : Stored(t) \/ token'[t].parent = None
  BY DEF IInv, RowsNamed, Closing
<1>8. QED
  BY <1>1, <1>3, <1>4, <1>5, <1>6, <1>7, SlotFrame DEF Closing

\* A request stores its token and ends.
LEMMA GrantStep ==
    ASSUME IInv, UNCHANGED account, NEW r \in Requests, NEW t \in Tokens,
           req[r].pc # "over", ~req[r].barred,
           Forward, Rows', token' \in [Tokens -> TokenRow],
           Grant(r, req[r], t),
           \A s \in Tokens : \/ token'[s].slot = r
                             \/ Stored(s)
                             \/ token'[s].parent = None
    PROVE  IInv'
<1> DEFINE new == [[req[r] EXCEPT !.made = t] EXCEPT
                      !.pc = "over", !.answer = "ok", !.user = None, !.token = None]
<1>0. req[r] \in Request
  BY DEF IInv, TypeOK
<1>1. /\ new \in Request /\ new.pc = "over" /\ ~new.barred
      /\ req' = [req EXCEPT ![r] = new]
  BY <1>0 DEF Request, Grant, Finish
<1>2. req'[r] = new
  BY <1>1 DEF IInv, TypeOK
<1> HIDE DEF new
<1>3. (Running(r) /\ Barred(r) /\ NoOwnHeir(r))'
  BY <1>1, <1>2 DEF Running, Barred, NoOwnHeir, Exchanging
<1>4. AccountStep
  BY DEF AccountStep, IInv, TypeOK
<1>5. QED
  BY <1>1, <1>3, <1>4, SlotFrame

\* A request of account u that presents t and has done nothing yet.
Fresh(task, u, t, barred) ==
    /\ task \in Request /\ task.user = u /\ task.token = t
    /\ task.made = None /\ task.answer = "none" /\ task.barred = barred

LEMMA CallFields ==
    ASSUME NEW op \in {"register", "login", "refresh", "logout", "logoutAll"},
           NEW u \in Members \cup {None}, NEW t \in Tokens \cup {None}
    PROVE  /\ Fresh(Call(op, u, t), u, t, FALSE)
           /\ \A b \in BOOLEAN :
                Fresh([Call(op, u, t) EXCEPT !.barred = b], u, t, b)
BY ZenonT(30) DEF Call, NoRequest, Request, Fresh

LEMMA Still == ASSUME IInv, UNCHANGED account PROVE AccountStep
BY DEF AccountStep, IInv, TypeOK

\* The first statement of a request.
LEMMA OpeningStep ==
    ASSUME IInv, NEW r \in Requests,
           \/ \E m \in Members : Register(r, m) \/ Login(r, m) \/ LogoutAll(r, m)
           \/ \E t \in Tokens : Refresh(r, t) \/ Logout(r, t)
    PROVE  IInv'
<1> USE DEF Exchanging
<1>1. ASSUME NEW m \in Members, Register(r, m)
      PROVE  IInv'
  <2> DEFINE task == Call("register", m, None)
  <2>1. Fresh(task, m, None, FALSE)
    BY CallFields
  <2> HIDE DEF task
  <2>2. Closing
    BY <1>1, ClosingSteps DEF Register, IInv
  <2>3. CASE account[m] = "absent" /\ account' = [account EXCEPT ![m] = "active"]
               /\ Continue(r, task, "store")
    <3>1. AccountStep /\ account'[m] # "absent"
      BY <2>3 DEF AccountStep, IInv, TypeOK
    <3>2. QED
      BY <2>1, <2>2, <2>3, <3>1, ContinueStep DEF Fresh
  <2>4. CASE Finish(r, task, "refused") /\ UNCHANGED account
    BY <2>1, <2>2, <2>4, Still, FinishStep DEF Fresh
  <2>5. QED
    BY <1>1, <2>3, <2>4 DEF Register, task
<1>2. ASSUME NEW m \in Members, Login(r, m)
      PROVE  IInv'
  <2> DEFINE task == [Call("login", m, None) EXCEPT !.barred = (account[m] = "inactive")]
  <2>1. Fresh(task, m, None, account[m] = "inactive")
    BY CallFields
  <2> HIDE DEF task
  <2>2. Closing /\ AccountStep
    BY <1>2, ClosingSteps, Still DEF Login, IInv
  <2>3. CASE FindActive(m) /\ Continue(r, task, "store")
    <3>1. account'[m] # "absent"
      BY <1>2, <2>3 DEF Login, FindActive
    <3>2. QED
      BY <2>1, <2>2, <2>3, <3>1, ContinueStep DEF FindActive, Fresh
  <2>4. CASE Finish(r, task, "refused")
    BY <2>1, <2>2, <2>4, FinishStep DEF Fresh
  <2>5. QED
    BY <1>2, <2>3, <2>4 DEF Login, task
<1>3. ASSUME NEW m \in Members, LogoutAll(r, m)
      PROVE  IInv'
  <2>1. Closing /\ AccountStep
    BY <1>3, ClosingSteps, Still DEF LogoutAll, IInv
  <2>2. QED
    BY <1>3, <2>1, CallFields, FinishStep, ZenonT(90) DEF LogoutAll, Fresh
<1>4. ASSUME NEW t \in Tokens, Logout(r, t)
      PROVE  IInv'
  <2>1. Closing /\ AccountStep
    BY <1>4, ClosingSteps, Still DEF Logout, IInv
  <2>2. token[t].owner \in Members
    BY <1>4 DEF Logout, IInv, RowsNamed
  <2>3. QED
    BY <1>4, <2>1, <2>2, CallFields, FinishStep DEF Logout, Fresh
<1>5. ASSUME NEW t \in Tokens, Refresh(r, t)
      PROVE  IInv'
  <2> DEFINE bar  == ~Live(t) \/ ~FindActive(token[t].owner)
             task == [Call("refresh", token[t].owner, t) EXCEPT !.barred = bar]
  <2>1. token[t].owner \in Members /\ Stored(t)
    BY <1>5 DEF Refresh, IInv, RowsNamed
  <2>2. Fresh(task, token[t].owner, t, bar)
    <3>1. bar \in BOOLEAN
      BY DEF Live, FindActive
    <3> HIDE DEF bar
    <3>2. QED
      BY <2>1, <3>1, CallFields
  <2>3. Continue(r, task, "lookUp")
    BY <1>5 DEF Refresh
  <2> HIDE DEF task
  <2>4. Closing /\ AccountStep
    BY <1>5, ClosingSteps, Still DEF Refresh, IInv
  <2>5. QED
    BY <2>1, <2>2, <2>3, <2>4, ContinueStep DEF Fresh
<1>6. QED
  BY <1>1, <1>2, <1>3, <1>4, <1>5

\* A later statement of a request.
LEMMA MiddleStep ==
    ASSUME IInv, NEW r \in Requests,
           \/ LookUp(r) \/ ReadMember(r) \/ RevokeOld(r) \/ Abort(r)
           \/ \E t \in Tokens : StoreFirst(r, t) \/ StoreNew(r, t)
    PROVE  IInv'
<1> USE DEF Exchanging
<1> DEFINE task == req[r]
<1>0. task \in Request /\ Running(r) /\ Barred(r) /\ NoOwnHeir(r)
  BY DEF IInv, TypeOK
<1>1. CASE LookUp(r)
  <2>1. Closing /\ AccountStep /\ task.pc = "lookUp"
    BY <1>1, ClosingSteps, Still DEF LookUp, IInv
  <2>2. CASE Live(task.token) /\ Continue(r, task, "member")
    <3>1. \A t \in Tokens : token[t].parent # task.token
      BY <1>0, <2>1, <2>2, NoneIsNew DEF IInv, Lineage, Running, Live
    <3>2. QED
      BY <1>0, <2>1, <2>2, <3>1, ContinueStep DEF Running, Barred
  <2>3. CASE Finish(r, task, "refused")
    BY <1>0, <2>1, <2>3, FinishStep DEF Running
  <2>4. QED
    BY <1>1, <2>2, <2>3 DEF LookUp
<1>2. CASE ReadMember(r)
  <2>1. Closing /\ AccountStep /\ task.pc = "member"
    BY <1>2, ClosingSteps, Still DEF ReadMember, IInv
  <2>2. CASE FindActive(task.user) /\ Continue(r, task, "revoke")
    BY <1>0, <2>1, <2>2, ContinueStep DEF Running, Barred, NoOwnHeir
  <2>3. CASE Finish(r, task, "refused")
    BY <1>0, <2>1, <2>3, FinishStep DEF Running
  <2>4. QED
    BY <1>2, <2>2, <2>3 DEF ReadMember
<1>3. CASE RevokeOld(r)
  <2>1. task.pc = "revoke" /\ AccountStep
    BY <1>3, Still DEF RevokeOld
  <2>2. task.token \in Tokens /\ Stored(task.token)
    BY <1>0, <2>1 DEF Running
  <2>3. Closing /\ token'[task.token].state = "revoked"
    BY <1>3, <2>2, ClosingSteps DEF RevokeOld, IInv
  <2>4. Continue(r, task, "storeNew")
    BY <1>3 DEF RevokeOld
  <2>5. QED
    BY <1>0, <2>1, <2>3, <2>4, ContinueStep DEF Running, Barred, NoOwnHeir
<1>4. CASE Abort(r)
  <2>1. Closing /\ AccountStep
    BY <1>4, ClosingSteps, Still DEF Abort, IInv
  <2>2. QED
    BY <1>0, <1>4, <2>1, FinishStep DEF Abort, Barred
<1>5. ASSUME NEW t \in Tokens, StoreFirst(r, t)
      PROVE  IInv'
  <2>1. /\ task.pc = "store" /\ ~task.barred
        /\ task.user \in Members /\ account[task.user] # "absent"
    BY <1>0, <1>5 DEF StoreFirst, Running
  <2>2. Storing(t, task.user, None, r)
    BY <1>5, <2>1, StoringStep DEF StoreFirst, IInv
  <2>3. Forward /\ Rows'
    BY <1>5, <2>1, <2>2, StoringKeepsRows DEF StoreFirst
  <2>4. \A s \in Tokens : token'[s].slot = r \/ Stored(s) \/ token'[s].parent = None
    BY <2>2 DEF Storing, IInv, RowsNamed
  <2>5. QED
    BY <1>5, <2>1, <2>2, <2>3, <2>4, GrantStep DEF StoreFirst, Storing
<1>6. ASSUME NEW t \in Tokens, StoreNew(r, t)
      PROVE  IInv'
  <2>1. /\ task.pc = "storeNew" /\ ~task.barred
        /\ task.user \in Members /\ task.token \in Tokens
        /\ token[task.token].state = "revoked" /\ token[task.token].owner = task.user
    BY <1>0, <1>6 DEF StoreNew, Running, Barred
  <2>2. Storing(t, task.user, task.token, r)
    BY <1>6, <2>1, StoringStep DEF StoreNew, IInv
  <2>3. account[task.user] # "absent"
    BY <2>1 DEF IInv, RowsNamed, Stored
  <2>4. \A s \in Tokens : token[s].parent = task.token => token[s].slot # r
    BY <1>0, <2>1 DEF NoOwnHeir
  <2>5. Forward /\ Rows'
    BY <1>6, <2>1, <2>2, <2>3, <2>4, StoringKeepsRows DEF StoreNew
  <2>6. \A s \in Tokens : token'[s].slot = r \/ Stored(s) \/ token'[s].parent = None
    BY <2>2 DEF Storing, IInv, RowsNamed
  <2>7. QED
    BY <1>6, <2>1, <2>2, <2>5, <2>6, GrantStep DEF StoreNew, Storing
<1>7. QED
  BY <1>1, <1>2, <1>3, <1>4, <1>5, <1>6

\* What happens to accounts and tokens by themselves.
LEMMA WorldStep ==
    ASSUME IInv, Closing, AccountStep, UNCHANGED req
    PROVE  IInv'
<1>1. Forward /\ Rows'
  BY ClosingKeepsRows
<1>2. ASSUME NEW q \in Requests
      PROVE  (Running(q) /\ Barred(q) /\ NoOwnHeir(q))'
  <2>1. Running(q)'
    BY <1>1
       DEF IInv, Running, Forward, Exchanging, Stored
  <2>2. Barred(q)'
    BY <1>1
       DEF IInv, TypeOK, Barred, Forward, Stored, Live, FindActive, Running,
           Exchanging, AccountStep, RowsNamed
  <2>3. NoOwnHeir(q)'
    BY DEF IInv, NoOwnHeir, Closing
  <2>4. QED
    BY <2>1, <2>2, <2>3
<1>3. TypeOK'
  BY DEF IInv, TypeOK, Closing, AccountStep
<1>4. QED
  BY <1>1, <1>2, <1>3 DEF IInv, Rows

-----------------------------------------------------------------------------
(* The invariant is inductive, and what follows from it.                   *)

LEMMA InitInv == Init => IInv
<1> SUFFICES ASSUME Init PROVE IInv
  OBVIOUS
<1>1. /\ NoToken \in TokenRow /\ NoToken.state = "absent" /\ NoToken.parent = None
      /\ NoToken.owner = None
      /\ NoRequest \in Request /\ NoRequest.pc = "over" /\ NoRequest.barred = FALSE
  BY DEF NoToken, TokenRow, TokenState, NoRequest, Request
<1>2. TypeOK
  BY <1>1 DEF Init, TypeOK
<1>3. RowsNamed /\ Lineage /\ SerialExchange
  BY <1>1 DEF Init, RowsNamed, Lineage, SerialExchange, Stored
<1>4. \A r \in Requests : Running(r) /\ Barred(r) /\ NoOwnHeir(r)
  BY <1>1 DEF Init, Running, Barred, NoOwnHeir, Exchanging
<1>5. QED
  BY <1>2, <1>3, <1>4 DEF IInv

LEMMA StutterStep == IInv /\ UNCHANGED vars => IInv'
BY DEF vars, IInv, TypeOK, RowsNamed, Lineage, SerialExchange, Running, Barred,
       NoOwnHeir, Stored, Live, FindActive

\* The invariant behind the theorems below.
THEOREM Invariance == Spec => []IInv
<1>1. IInv /\ Next => IInv'
  <2>1. ASSUME IInv, \/ \E m \in Members : DeactivateMember(m)
                     \/ \E t \in Tokens : Expire(t)
        PROVE  IInv'
    <3>1. Closing /\ UNCHANGED req
      BY <2>1, ClosingSteps DEF DeactivateMember, Expire, IInv
    <3>2. AccountStep
      BY <2>1 DEF DeactivateMember, Expire, AccountStep, IInv, TypeOK
    <3>3. QED
      BY <2>1, <3>1, <3>2, WorldStep
  <2>2. QED
    BY <2>1, OpeningStep, MiddleStep DEF Next
<1>2. QED
  BY InitInv, StutterStep, <1>1, PTL DEF Spec

\* Every variable keeps its type.
THEOREM TypeCorrect == Spec => []TypeOK
<1>1. IInv => TypeOK
  BY DEF IInv
<1>2. QED
  BY Invariance, <1>1, PTL

\* A token that was exchanged is revoked and its heir is of the same account.
THEOREM LineageHolds == Spec => []Lineage
<1>1. IInv => Lineage
  BY DEF IInv
<1>2. QED
  BY Invariance, <1>1, PTL

\* A request that began too late gets nothing.
THEOREM DoorHolds == Spec => []DoorStaysShut
<1>1. IInv => DoorStaysShut
  BY DEF IInv, Barred, DoorStaysShut
<1>2. QED
  BY Invariance, <1>1, PTL

\* Only overlapping requests exchange one token twice.
THEOREM SerialExchangeHolds == Spec => []SerialExchange
<1>1. IInv => SerialExchange
  BY DEF IInv
<1>2. QED
  BY Invariance, <1>1, PTL

-----------------------------------------------------------------------------
(* The refinement of TokenLifecycle.                                       *)

\* Everything that a step can do to accounts and tokens.
Effect ==
    \/ UNCHANGED <<account, token>>
    \/ /\ UNCHANGED token
       /\ \E m \in Members :
             \/ account[m] = "absent" /\ account' = [account EXCEPT ![m] = "active"]
             \/ account[m] = "active" /\ account' = [account EXCEPT ![m] = "inactive"]
    \/ /\ UNCHANGED account
       /\ \/ \E t \in Tokens : \E by \in {"rotation", "logout"} : RepoRevoke(t, by)
          \/ \E t \in Tokens : Live(t) /\ token' = [token EXCEPT ![t].state = "expired"]
          \/ \E m \in Members : RepoRevokeAll(m)
          \/ \E t \in Tokens, m \in Members, r \in Requests :
                account[m] # "absent" /\ RepoCreateRefreshToken(t, m, None, r)
          \/ \E t \in Tokens, old \in Tokens, m \in Members, r \in Requests :
                /\ token[old].state = "revoked" /\ token[old].owner = m
                /\ RepoCreateRefreshToken(t, m, old, r)

LEMMA EffectOf == IInv /\ Next => Effect
<1> SUFFICES ASSUME IInv, Next PROVE Effect
  OBVIOUS
<1>1. ASSUME NEW r \in Requests, NEW m \in Members,
             Register(r, m) \/ Login(r, m) \/ LogoutAll(r, m)
      PROVE  Effect
  BY <1>1 DEF Register, Login, LogoutAll, Effect
<1>2. ASSUME NEW r \in Requests, NEW t \in Tokens, Refresh(r, t) \/ Logout(r, t)
      PROVE  Effect
  BY <1>2 DEF Refresh, Logout, Effect
<1>3. ASSUME NEW r \in Requests, LookUp(r) \/ ReadMember(r) \/ Abort(r)
      PROVE  Effect
  BY <1>3 DEF LookUp, ReadMember, Abort, Effect
<1>4. ASSUME NEW r \in Requests, RevokeOld(r)
      PROVE  Effect
  <2>1. req[r].token \in Tokens
    BY <1>4 DEF RevokeOld, IInv, Running, Exchanging
  <2>2. QED
    BY <1>4, <2>1 DEF RevokeOld, Effect
<1>5. ASSUME NEW r \in Requests, NEW t \in Tokens, StoreFirst(r, t)
      PROVE  Effect
  <2>1. req[r].user \in Members /\ account[req[r].user] # "absent"
    BY <1>5 DEF StoreFirst, IInv, Running
  <2>2. QED
    BY <1>5, <2>1 DEF StoreFirst, Effect
<1>6. ASSUME NEW r \in Requests, NEW t \in Tokens, StoreNew(r, t)
      PROVE  Effect
  <2>1. /\ req[r].user \in Members /\ req[r].token \in Tokens
        /\ token[req[r].token].state = "revoked" /\ token[req[r].token].owner = req[r].user
    BY <1>6 DEF StoreNew, IInv, Running, Exchanging
  <2>2. QED
    BY <1>6, <2>1 DEF StoreNew, Effect
<1>7. ASSUME NEW m \in Members, DeactivateMember(m)
      PROVE  Effect
  BY <1>7 DEF DeactivateMember, Effect
<1>8. ASSUME NEW t \in Tokens, Expire(t)
      PROVE  Effect
  BY <1>8 DEF Expire, Effect
<1>9. QED
  BY <1>1, <1>2, <1>3, <1>4, <1>5, <1>6, <1>7, <1>8 DEF Next

Opened == {t \in Tokens : Live(t)}
OwnerOf == [t \in Tokens |-> token[t].owner]
ParentOf == [t \in Tokens |-> token[t].parent]

\* Rows that are closed, or are not, and nothing else.
LEMMA ClosingLife ==
    ASSUME IInv, UNCHANGED account
    PROVE  /\ \A t \in Tokens, by \in {"rotation", "logout"} :
                RepoRevoke(t, by) => TokenLife!Close(t)
           /\ \A t \in Tokens :
                token' = [token EXCEPT ![t].state = "expired"] => TokenLife!Close(t)
           /\ \A m \in Members : RepoRevokeAll(m) => TokenLife!CloseAll(m)
<1> USE DEF IInv, TypeOK
<1>1. ASSUME NEW row \in TokenRow, NEW by \in {"rotation", "logout", "logoutAll"}
      PROVE  /\ Revoked(row, by).owner = row.owner /\ Revoked(row, by).parent = row.parent
             /\ Revoked(row, by).state # "live"
  BY <1>1, RevokedRow
<1>2. ASSUME OwnerOf' = OwnerOf, ParentOf' = ParentOf,
             NEW t \in Tokens, Opened' = Opened \ {t}
      PROVE  TokenLife!Close(t)
  BY <1>2 DEF TokenLife!Close, OwnerOf, ParentOf, Opened
<1>3. ASSUME NEW t \in Tokens, NEW by \in {"rotation", "logout"}, RepoRevoke(t, by)
      PROVE  TokenLife!Close(t)
  <2>1. token'[t] = Revoked(token[t], by) /\ \A s \in Tokens : s # t => token'[s] = token[s]
    BY <1>3 DEF RepoRevoke
  <2>2. /\ token'[t].owner = token[t].owner /\ token'[t].parent = token[t].parent
        /\ token'[t].state # "live"
    BY <1>1, <2>1
  <2>3. QED
    BY <1>2, <2>1, <2>2 DEF OwnerOf, ParentOf, Opened, Live
<1>4. ASSUME NEW t \in Tokens, token' = [token EXCEPT ![t].state = "expired"]
      PROVE  TokenLife!Close(t)
  <2>1. /\ token'[t].owner = token[t].owner /\ token'[t].parent = token[t].parent
        /\ token'[t].state = "expired"
        /\ \A s \in Tokens : s # t => token'[s] = token[s]
    BY <1>4 DEF TokenRow
  <2>2. QED
    BY <1>2, <2>1 DEF OwnerOf, ParentOf, Opened, Live
<1>5. ASSUME NEW m \in Members, RepoRevokeAll(m)
      PROVE  TokenLife!CloseAll(m)
  <2>1. \A s \in Tokens : /\ token'[s].owner = token[s].owner
                          /\ token'[s].parent = token[s].parent
                          /\ token[s].owner = m => token'[s].state # "live"
                          /\ token[s].owner # m => token'[s] = token[s]
    BY <1>1, <1>5 DEF RepoRevokeAll
  <2>2. OwnerOf' = OwnerOf /\ ParentOf' = ParentOf
    BY <2>1 DEF OwnerOf, ParentOf
  <2>3. Opened' = {t \in Opened : OwnerOf[t] # m}
    BY <2>1 DEF Opened, OwnerOf, Live
  <2>4. QED
    BY <2>2, <2>3 DEF TokenLife!CloseAll, Opened, OwnerOf, ParentOf
<1>6. QED
  BY <1>3, <1>4, <1>5

LEMMA StoringLife ==
    ASSUME IInv, UNCHANGED account, NEW t \in Tokens, NEW m \in Members,
           NEW old \in Tokens \cup {None}, NEW r \in Requests,
           RepoCreateRefreshToken(t, m, old, r)
    PROVE  TokenLife!Issue(t, m, old)
<1>1. Storing(t, m, old, r)
  BY StoringStep DEF IInv
<1>2. token[t].owner = None
  BY <1>1 DEF Storing, IInv, RowsNamed
<1>3. /\ OwnerOf' = [OwnerOf EXCEPT ![t] = m]
      /\ ParentOf' = [ParentOf EXCEPT ![t] = old]
  BY <1>1 DEF Storing, OwnerOf, ParentOf
<1>4. Opened' = Opened \cup {t}
  BY <1>1 DEF Storing, Opened, Live
<1>5. QED
  BY <1>2, <1>3, <1>4 DEF TokenLife!Issue, OwnerOf, ParentOf, Opened

LEMMA LifeStep ==
    ASSUME IInv, Effect
    PROVE  [TokenLife!Next]_(TokenLife!vars)
<1>1. CASE UNCHANGED <<account, token>>
  BY <1>1 DEF TokenLife!vars, Live
<1>2. ASSUME NEW m \in Members, UNCHANGED token,
             \/ account[m] = "absent" /\ account' = [account EXCEPT ![m] = "active"]
             \/ account[m] = "active" /\ account' = [account EXCEPT ![m] = "inactive"]
      PROVE  TokenLife!Next
  <2>1. TokenLife!SignUp(m) \/ TokenLife!Expel(m)
    BY <1>2 DEF TokenLife!SignUp, TokenLife!Expel, Live
  <2>2. QED
    BY <2>1 DEF TokenLife!Next
<1>3. ASSUME UNCHANGED account,
             \/ \E t \in Tokens : \E by \in {"rotation", "logout"} : RepoRevoke(t, by)
             \/ \E t \in Tokens : Live(t) /\ token' = [token EXCEPT ![t].state = "expired"]
             \/ \E m \in Members : RepoRevokeAll(m)
      PROVE  TokenLife!Next
  <2>1. (\E t \in Tokens : TokenLife!Close(t)) \/ \E m \in Members : TokenLife!CloseAll(m)
    BY <1>3, ClosingLife
  <2>2. QED
    BY <2>1 DEF TokenLife!Next
<1>4. ASSUME UNCHANGED account, NEW t \in Tokens, NEW m \in Members, NEW r \in Requests,
             account[m] # "absent", RepoCreateRefreshToken(t, m, None, r)
      PROVE  TokenLife!Next
  <2>1. TokenLife!Start(t, m)
    BY <1>4, StoringLife DEF TokenLife!Start
  <2>2. QED
    BY <2>1 DEF TokenLife!Next
<1>5. ASSUME UNCHANGED account, NEW t \in Tokens, NEW m \in Members, NEW r \in Requests,
             NEW old \in Tokens, token[old].state = "revoked", token[old].owner = m,
             RepoCreateRefreshToken(t, m, old, r)
      PROVE  TokenLife!Next
  <2>1. TokenLife!Issue(t, m, old)
    BY <1>5, StoringLife
  <2>2. ~Live(old) /\ m # None
    BY <1>5, NoneIsNew DEF Live
  <2>3. TokenLife!Renew(t, old)
    BY <1>5, <2>1, <2>2 DEF TokenLife!Renew
  <2>4. QED
    BY <2>3 DEF TokenLife!Next
<1>6. QED
  BY <1>1, <1>2, <1>3, <1>4, <1>5 DEF Effect

LEMMA LifeInit == Init => TokenLife!Init
<1> SUFFICES ASSUME Init PROVE TokenLife!Init
  OBVIOUS
<1>1. \A t \in Tokens : /\ token[t].owner = None /\ token[t].parent = None
                        /\ ~Live(t)
  BY DEF Init, NoToken, Live
<1>2. QED
  BY <1>1 DEF Init, TokenLife!Init

\* The rows of refresh_tokens implement TokenLifecycle.
THEOREM TokensImplemented == Spec => ImplementsTokens
<1>1. IInv /\ [Next]_vars => [TokenLife!Next]_(TokenLife!vars)
  <2>1. UNCHANGED vars => Effect
    BY DEF vars, Effect
  <2>2. QED
    BY <2>1, EffectOf, LifeStep
<1>2. QED
  BY LifeInit, Invariance, <1>1, PTL DEF Spec, ImplementsTokens, TokenLife!Spec

-----------------------------------------------------------------------------
(* THE BROWSER AND THE SERVER.                                             *)

\* What a tab has shown, and what the browser holds, is a stored row; a row is
\* closed by an exchange or by a sign-out everywhere.
RowsShown ==
    /\ \A k \in Tokens :
          /\ ~Stored(k) => shownBy[k] = {}
          /\ token[k].state = "revoked" => token[k].by \in {"rotation", "logoutAll"}
    /\ cookie # None => Stored(cookie)

\* What a call has to do with the request in its slot.
Calling(c) ==
    LET k == call[c].shown IN
    /\ call[c].at = "gone" => lossy
    /\ ~Asking(c) => req[c].pc = "over"
    /\ call[c].at = "signing" => req[c].pc \in {"store", "over"}
    /\ req[c].pc \in Exchanging => shownBy[req[c].token] # {}
    /\ call[c].at = "refreshing" =>
         /\ flight[Tab[c]] = c
         /\ req[c].pc \in Exchanging \cup {"over"}
         /\ req[c].pc \in Exchanging => req[c].token = k
         /\ k # None => Stored(k) /\ Tab[c] \in shownBy[k]
    /\ Refused(c) /\ k # None => ~Live(k) \/ account[token[k].owner] = "inactive"

\* A token on its way to the browser is nobody else's and was not shown yet.
Made(c) ==
    LET k == req[c].made IN
    k # None =>
        /\ Stored(k) /\ token[k].by # "rotation" /\ shownBy[k] = {} /\ cookie # k
        /\ \A d \in Calls : req[d].made = k => d = c

\* Call c has exchanged token k and waits for the new one.
Rotator(c, k) ==
    /\ call[c].at = "refreshing" /\ call[c].shown = k
    /\ \/ req[c].pc = "storeNew"
       \/ req[c].pc = "over" /\ req[c].answer \in {"ok", "lost"}

\* If the token of a call was exchanged and no other tab has shown it, then
\* the call itself has exchanged it.
OwnRotation(c) ==
    LET k == call[c].shown IN
    call[c].at = "refreshing" /\ k # None /\ token[k].by = "rotation"
        /\ shownBy[k] \subseteq {Tab[c]} => Rotator(c, k)

\* The browser holds an exchanged token only until the answer is there.
CookieRotation ==
    cookie # None /\ token[cookie].by = "rotation" => \E c \in Calls : Rotator(c, cookie)

ClientInv ==
    /\ ClientTypeOK
    /\ RowsShown
    /\ \A c \in Calls : Calling(c) /\ Made(c)
    /\ lossy = FALSE => CookieRotation /\ \A c \in Calls : OwnRotation(c)

BInv == IInv /\ ClientInv

-----------------------------------------------------------------------------
(* Calls that a step does not touch.                                       *)

\* A step lets call d alone.
Untouched(d) ==
    /\ call'[d] = call[d] /\ req'[d] = req[d]
    /\ call[d].at = "refreshing" => flight'[Tab[d]] = flight[Tab[d]]

\* What was shown stays shown, what was lost stays lost.
ShownGrows ==
    /\ \A k \in Tokens : shownBy[k] \subseteq shownBy'[k]
    /\ lossy' = FALSE => lossy = FALSE

Spared(k) == token'[k].by = "rotation" => token[k].by = "rotation"

LEMMA Types ==
    ASSUME BInv, NEW c \in Calls
    PROVE  /\ c \in Requests /\ c # None /\ Tab[c] \in Tabs
           /\ call[c] \in CallState /\ req[c] \in Request
           /\ call[c].shown \in Tokens \cup {None}
           /\ req[c].made \in Tokens \cup {None}
           /\ req[c].pc \in Exchanging =>
                 /\ req[c].token \in Tokens /\ Stored(req[c].token)
                 /\ req[c].user = token[req[c].token].owner
           /\ req[c].pc # "over" => req[c].made = None /\ req[c].answer = "none"
<1>1. c \in Requests /\ c # None /\ Tab[c] \in Tabs
  BY CallsOK
<1>2. call[c] \in CallState /\ req[c] \in Request /\ Running(c)
  BY <1>1 DEF BInv, IInv, TypeOK, ClientInv, ClientTypeOK
<1>3. call[c].shown \in Tokens \cup {None} /\ req[c].made \in Tokens \cup {None}
  BY <1>2 DEF CallState, Request
<1>4. QED
  BY <1>1, <1>2, <1>3 DEF Running

LEMMA NoneNoToken == None \notin Tokens
BY NoneIsNew

LEMMA Owners ==
    ASSUME BInv, NEW k \in Tokens, Stored(k)
    PROVE  token[k].owner \in Members
BY DEF BInv, IInv, RowsNamed

LEMMA CallFrame ==
    ASSUME BInv, Forward, ShownGrows, NEW d \in Calls, Untouched(d)
    PROVE  Calling(d)'
<1>1. Calling(d)
  BY DEF BInv, ClientInv
<1>2. ASSUME NEW k \in Tokens, Stored(k)
      PROVE  /\ Stored(k)'
             /\ ~Live(k) => ~Live(k)'
             /\ account[token[k].owner] = "inactive" => account'[token'[k].owner] = "inactive"
  BY <1>2, Owners DEF Forward, Stored, Live
<1>3. lossy => lossy'
  BY DEF BInv, ClientInv, ClientTypeOK, ShownGrows
<1>4. call'[d] = call[d] /\ req'[d] = req[d]
  BY DEF Untouched
<1>5. (Asking(d) <=> Asking(d)') /\ (Refused(d) <=> Refused(d)')
  BY <1>4 DEF Asking, Refused
<1>6. call[d].at = "gone" => lossy'
  BY <1>1, <1>3 DEF Calling
<1>7. req[d].pc \in Exchanging => shownBy'[req[d].token] # {}
  BY <1>1, Types DEF Calling, ShownGrows
<1>8. call[d].at = "refreshing" => flight'[Tab[d]] = d
  BY <1>1 DEF Calling, Untouched
<1>9. call[d].at = "refreshing" /\ call[d].shown # None =>
         Stored(call[d].shown)' /\ Tab[d] \in shownBy'[call[d].shown]
  <2> SUFFICES ASSUME call[d].at = "refreshing", call[d].shown # None
               PROVE  Stored(call[d].shown)' /\ Tab[d] \in shownBy'[call[d].shown]
    OBVIOUS
  <2>1. /\ call[d].shown \in Tokens
        /\ Stored(call[d].shown) /\ Tab[d] \in shownBy[call[d].shown]
    BY <1>1, Types DEF Calling
  <2>2. QED
    BY <2>1, <1>2, <1>4 DEF ShownGrows
<1>10. Refused(d) /\ call[d].shown # None =>
          \/ ~Live(call[d].shown)'
          \/ account'[token'[call[d].shown].owner] = "inactive"
  <2> SUFFICES ASSUME Refused(d), call[d].shown # None
               PROVE  \/ ~Live(call[d].shown)'
                      \/ account'[token'[call[d].shown].owner] = "inactive"
    OBVIOUS
  <2>1. call[d].shown \in Tokens /\ Stored(call[d].shown)
    BY <1>1, Types DEF Calling, Refused
  <2>2. \/ ~Live(call[d].shown)
        \/ account[token[call[d].shown].owner] = "inactive"
    BY <1>1 DEF Calling
  <2>3. QED
    BY <2>1, <2>2, <1>2, <1>4
<1>11. QED
  BY <1>1, <1>4, <1>5, <1>6, <1>7, <1>8, <1>9, <1>10 DEF Calling

LEMMA OwnFrame ==
    ASSUME BInv, ShownGrows, NEW d \in Calls, Untouched(d),
           call[d].shown # None => Spared(call[d].shown),
           lossy' = FALSE
    PROVE  OwnRotation(d)'
<1>1. OwnRotation(d) /\ call[d].shown \in Tokens \cup {None}
  BY Types DEF BInv, ClientInv, ShownGrows
<1>2. QED
  BY <1>1 DEF OwnRotation, Rotator, Untouched, ShownGrows, Spared

\* A token on its way stays fresh: its row is not touched, no tab shows it, and
\* no other request makes it.
LEMMA MadeFrame ==
    ASSUME BInv, Forward, NEW d \in Calls, req'[d].made = req[d].made,
           req[d].made # None =>
             /\ Spared(req[d].made)
             /\ shownBy'[req[d].made] = {} /\ cookie' # req[d].made
             /\ \A e \in Calls \ {d} :
                   req'[e].made = req[e].made \/ req'[e].made # req[d].made
    PROVE  Made(d)'
<1>1. Made(d) /\ req[d].made \in Tokens \cup {None}
  BY Types DEF BInv, ClientInv
<1>2. QED
  BY <1>1 DEF Made, Spared, Forward, Stored

-----------------------------------------------------------------------------
(* Steps of the browser alone, and answers taken.                          *)

\* The call has nothing to do with the server, before and after.
Aside(d) == ~Asking(d) /\ ~Asking(d)'

LEMMA StillForward ==
    ASSUME UNCHANGED <<account, token>>
    PROVE  Forward /\ \A k \in Tokens : Spared(k)
BY DEF Forward, Spared, Stored

LEMMA AsideStep ==
    ASSUME BInv, NEW d \in Calls, Aside(d), req'[d] = req[d]
    PROVE  Calling(d)' /\ OwnRotation(d)'
<1>1. req'[d].pc = "over"
  BY DEF BInv, ClientInv, Calling, Aside
<1>2. QED
  BY <1>1 DEF Calling, OwnRotation, Aside, Asking, Refused, Exchanging

\* Rotators are not aside.
LEMMA RotatorStays ==
    ASSUME NEW d \in Calls, NEW k, Rotator(d, k)
    PROVE  /\ Asking(d)
           /\ Untouched(d) => Rotator(d, k)'
BY DEF Rotator, Asking, Untouched

LEMMA ClientStep ==
    ASSUME BInv, UNCHANGED <<account, token, req, cookie, shownBy>>, ClientTypeOK',
           lossy' = FALSE => lossy = FALSE,
           \A d \in Calls : Untouched(d) \/ Aside(d) \/ (call'[d].at = "gone" /\ lossy' = TRUE)
    PROVE  BInv'
<1>1. IInv'
  BY StutterStep DEF BInv, vars
<1>2. RowsShown'
  BY DEF BInv, ClientInv, RowsShown, Stored
<1>3. Forward /\ ShownGrows /\ \A k \in Tokens : Spared(k)
  BY StillForward DEF ShownGrows
<1>4. ASSUME NEW d \in Calls
      PROVE  Calling(d)' /\ Made(d)'
  <2>1. Made(d)'
    BY DEF BInv, ClientInv, Made, Stored
  <2>2. CASE Untouched(d)
    BY <1>3, <2>1, <2>2, CallFrame
  <2>3. CASE Aside(d)
    BY <2>1, <2>3, AsideStep
  <2>4. CASE call'[d].at = "gone" /\ lossy' = TRUE
    <3>1. Calling(d)
      BY DEF BInv, ClientInv
    <3>2. Calling(d)'
      BY <2>4, <3>1 DEF Calling, Asking, Refused
    <3>3. QED
      BY <2>1, <3>2
  <2>5. QED
    BY <2>2, <2>3, <2>4
<1>5. ASSUME lossy' = FALSE
      PROVE  CookieRotation' /\ \A d \in Calls : OwnRotation(d)'
  <2>1. CookieRotation /\ \A d \in Calls : Untouched(d) \/ Aside(d)
    BY <1>5 DEF BInv, ClientInv
  <2>2. \A d \in Calls : OwnRotation(d)'
    BY <1>3, <1>5, <2>1, Types, OwnFrame, AsideStep
  <2>3. CookieRotation'
    <3> SUFFICES ASSUME cookie # None, token[cookie].by = "rotation"
                 PROVE  \E d \in Calls : Rotator(d, cookie)'
      BY DEF CookieRotation
    <3>1. PICK d \in Calls : Rotator(d, cookie)
      BY <2>1 DEF CookieRotation
    <3>2. Untouched(d)
      BY <2>1, <3>1, RotatorStays DEF Aside
    <3>3. QED
      BY <3>1, <3>2 DEF Rotator, Untouched
  <2>4. QED
    BY <2>2, <2>3
<1>6. QED
  BY <1>1, <1>2, <1>4, <1>5 DEF BInv, ClientInv

LEMMA BlankRequest ==
    /\ NoRequest \in Request /\ NoRequest.pc = "over" /\ NoRequest.made = None
    /\ NoRequest.barred = FALSE /\ NoRequest.answer = "none"
BY DEF NoRequest, Request

LEMMA ReleaseStep ==
    ASSUME IInv, NEW r \in Requests, TakeAnswer(r)
    PROVE  IInv' /\ req'[r] = NoRequest /\ \A q \in Requests \ {r} : req'[q] = req[q]
<1>1. req'[r] = NoRequest /\ \A q \in Requests \ {r} : req'[q] = req[q]
  BY DEF TakeAnswer, IInv, TypeOK
<1>2. (Running(r) /\ Barred(r) /\ NoOwnHeir(r))'
  BY <1>1, BlankRequest DEF Running, Barred, NoOwnHeir, Exchanging
<1>3. Closing /\ AccountStep
  BY ClosingSteps, Still DEF TakeAnswer, IInv
<1>4. \A t \in Tokens : Stored(t) \/ token'[t].parent = None
  BY DEF IInv, RowsNamed, TakeAnswer
<1>5. QED
  BY <1>1, <1>2, <1>3, <1>4, BlankRequest, ClosingKeepsRows, SlotFrame
     DEF TakeAnswer, Closing

LEMMA TakeStep ==
    ASSUME BInv, NEW c \in Calls, Asking(c), req[c].pc = "over", TakeAnswer(c),
           UNCHANGED shownBy, ClientTypeOK', lossy' = FALSE => lossy = FALSE,
           ~Asking(c)',
           cookie' \in {cookie, req[c].made},
           cookie' = cookie /\ cookie # None /\ lossy' = FALSE => ~Rotator(c, cookie),
           \A d \in Calls \ {c} :
               \/ call'[d] = call[d]
                  /\ (call[d].at = "refreshing" => flight'[Tab[d]] = flight[Tab[d]])
               \/ Aside(d)
    PROVE  BInv'
<1>1. /\ IInv' /\ req'[c] = NoRequest
      /\ \A d \in Calls \ {c} : req'[d] = req[d]
  BY ReleaseStep, CallsOK DEF BInv
<1>2. UNCHANGED <<account, token>>
  BY DEF TakeAnswer
<1>3. Forward /\ ShownGrows /\ \A k \in Tokens : Spared(k)
  BY <1>2, StillForward DEF ShownGrows
<1>4. Made(c) /\ req[c].made \in Tokens \cup {None}
  BY Types DEF BInv, ClientInv
<1>5. RowsShown'
  BY <1>2, <1>4 DEF BInv, ClientInv, RowsShown, Stored, Made
<1>6. \A d \in Calls \ {c} : Untouched(d) \/ Aside(d)
  BY <1>1 DEF Untouched
<1>7. Calling(c)' /\ Made(c)' /\ OwnRotation(c)'
  BY <1>1, BlankRequest DEF Calling, Made, OwnRotation, Asking, Refused, Exchanging
<1>8. ASSUME NEW d \in Calls \ {c}
      PROVE  Calling(d)' /\ Made(d)'
  <2>1. Calling(d)'
    BY <1>1, <1>3, <1>6, CallFrame, AsideStep
  <2>2. Made(d) /\ req[d].made \in Tokens \cup {None}
    BY Types DEF BInv, ClientInv
  <2>3. req[d].made # None => cookie' # req[d].made
    BY <1>4, <2>2 DEF Made
  <2>4. \A e \in Calls \ {d} : req[d].made # None => req'[e].made # req[d].made
    BY <1>1, <2>2, BlankRequest DEF Made
  <2>5. Made(d)'
    BY <1>1, <1>2, <2>2, <2>3, <2>4 DEF Made, Stored
  <2>6. QED
    BY <2>1, <2>5
<1>9. ASSUME lossy' = FALSE
      PROVE  CookieRotation' /\ \A d \in Calls : OwnRotation(d)'
  <2>1. CookieRotation
    BY <1>9 DEF BInv, ClientInv
  <2>2. \A d \in Calls : OwnRotation(d)'
    BY <1>1, <1>3, <1>6, <1>7, <1>9, Types, OwnFrame, AsideStep
  <2>3. CASE cookie' = cookie
    <3> SUFFICES ASSUME cookie # None, token[cookie].by = "rotation"
                 PROVE  \E d \in Calls : Rotator(d, cookie)'
      BY <1>2, <2>2, <2>3 DEF CookieRotation
    <3>1. PICK d \in Calls : Rotator(d, cookie)
      BY <2>1 DEF CookieRotation
    <3>2. d # c /\ Untouched(d)
      BY <1>6, <1>9, <2>3, <3>1, RotatorStays DEF Aside
    <3>3. QED
      BY <2>3, <3>1, <3>2 DEF Rotator, Untouched
  <2>4. CASE cookie' = req[c].made
    BY <1>2, <1>4, <2>2, <2>4 DEF CookieRotation, Made
  <2>5. QED
    BY <2>3, <2>4
<1>10. QED
  BY <1>1, <1>5, <1>7, <1>8, <1>9 DEF BInv, ClientInv

-----------------------------------------------------------------------------
(* Steps of the server.                                                    *)

LEMMA FinishFields ==
    ASSUME TypeOK, NEW r \in Requests, NEW rec \in Request,
           NEW answer \in {"ok", "refused", "lost"}, Finish(r, rec, answer)
    PROVE  /\ req'[r].pc = "over" /\ req'[r].answer = answer /\ req'[r].made = rec.made
           /\ \A q \in Requests \ {r} : req'[q] = req[q]
BY DEF TypeOK, Finish, Request

LEMMA ContinueFields ==
    ASSUME TypeOK, NEW r \in Requests, NEW rec \in Request,
           NEW pc \in {"store", "lookUp", "member", "revoke", "storeNew"},
           Continue(r, rec, pc)
    PROVE  /\ req'[r].pc = pc /\ req'[r].answer = rec.answer /\ req'[r].made = rec.made
           /\ req'[r].token = rec.token
           /\ \A q \in Requests \ {r} : req'[q] = req[q]
BY DEF TypeOK, Continue, Request

\* A statement in the slot of c that exchanges nothing.
LEMMA QuietStep ==
    ASSUME BInv, IInv', Forward, RowsShown', UNCHANGED client, NEW c \in Calls,
           \A q \in Requests \ {c} : req'[q] = req[q],
           \A k \in Tokens : Spared(k),
           Calling(c)', Made(c)',
           \A d \in Calls \ {c} : req[d].made # None => req'[c].made # req[d].made,
           \A k \in Tokens : Rotator(c, k) => Rotator(c, k)'
    PROVE  BInv'
<1> USE DEF client
<1>1. ShownGrows /\ \A d \in Calls \ {c} : Untouched(d)
  BY CallsOK DEF ShownGrows, Untouched
<1>2. ASSUME NEW d \in Calls \ {c}
      PROVE  Calling(d)' /\ Made(d)'
  <2>1. Calling(d)'
    BY <1>1, CallFrame
  <2>2. Made(d) /\ req[d].made \in Tokens \cup {None} /\ req'[d] = req[d]
    BY <1>1, Types DEF BInv, ClientInv, Untouched
  <2>3. \A e \in Calls \ {d} : req[d].made # None => req'[e].made # req[d].made
    BY <1>1, <2>2 DEF Made, Untouched
  <2>4. Made(d)'
    BY <2>2, <2>3 DEF Made, Forward, Stored, Spared
  <2>5. QED
    BY <2>1, <2>4
<1>3. ASSUME lossy' = FALSE
      PROVE  CookieRotation' /\ \A d \in Calls : OwnRotation(d)'
  <2>1. CookieRotation /\ OwnRotation(c) /\ cookie \in Tokens \cup {None}
    BY <1>3 DEF BInv, ClientInv, ClientTypeOK
  <2>2. \A d \in Calls \ {c} : OwnRotation(d)'
    BY <1>1, <1>3, Types, OwnFrame
  <2>3. OwnRotation(c)'
    BY <2>1, Types DEF OwnRotation, Spared
  <2>4. CookieRotation'
    <3> SUFFICES ASSUME cookie # None, token'[cookie].by = "rotation"
                 PROVE  \E d \in Calls : Rotator(d, cookie)'
      BY DEF CookieRotation
    <3>1. PICK d \in Calls : Rotator(d, cookie)
      BY <2>1 DEF CookieRotation, Spared
    <3>2. CASE d = c
      BY <2>1, <3>1, <3>2 DEF Rotator
    <3>3. CASE d # c
      BY <1>1, <3>1, <3>3 DEF Rotator, Untouched
    <3>4. QED
      BY <3>2, <3>3
  <2>5. QED
    BY <2>2, <2>3, <2>4
<1>4. ClientTypeOK'
  BY DEF BInv, ClientInv, ClientTypeOK
<1>5. QED
  BY <1>2, <1>3, <1>4 DEF BInv, ClientInv

\* The rows stay as they are, and slot c goes on, or its request ends.
LEMMA SameRowsStep ==
    ASSUME BInv, IInv', UNCHANGED <<account, token>>, UNCHANGED client,
           NEW c \in Calls, req[c].pc # "over",
           \A q \in Requests \ {c} : req'[q] = req[q],
           req'[c].made = req[c].made,
           \/ /\ req[c].pc \in {"lookUp", "member"} /\ req'[c].pc \in {"member", "revoke"}
              /\ req'[c].token = req[c].token
           \/ /\ req'[c].pc = "over"
              /\ \/ req'[c].answer = "lost"
                 \/ /\ req'[c].answer = "refused" /\ req[c].pc \in {"lookUp", "member"}
                    /\ \/ ~Live(req[c].token)
                       \/ account[req[c].user] # "active"
    PROVE  BInv'
<1> USE DEF client
<1>1. Forward /\ \A k \in Tokens : Spared(k)
  BY StillForward
<1>2. RowsShown'
  BY DEF BInv, ClientInv, RowsShown, Stored
<1>3. Calling(c) /\ Made(c) /\ req[c].made = None
  BY Types DEF BInv, ClientInv
<1>4. Made(c)'
  BY <1>3 DEF Made
<1>5. Calling(c)'
  <2>1. req[c].pc \in {"lookUp", "member"} => req[c].pc \in Exchanging
    BY DEF Exchanging
  <2>2. req[c].pc \in Exchanging /\ account[req[c].user] # "active" =>
           account[token[req[c].token].owner] = "inactive"
    BY Types DEF BInv, IInv, TypeOK, RowsNamed
  <2>3. QED
    BY <1>3, <2>1, <2>2 DEF Calling, Asking, Refused, Exchanging, Live, Stored
<1>6. \A d \in Calls \ {c} : req[d].made # None => req'[c].made # req[d].made
  BY <1>3
<1>7. \A k \in Tokens : Rotator(c, k) => Rotator(c, k)'
  BY DEF Rotator
<1>8. QED
  BY <1>1, <1>2, <1>4, <1>5, <1>6, <1>7, QuietStep

\* A new row, and the request ends with it.
LEMMA GrantedStep ==
    ASSUME BInv, IInv', UNCHANGED account, UNCHANGED client,
           NEW c \in Calls, req[c].pc \in {"store", "storeNew"},
           NEW k \in Tokens, NEW m, NEW parent, RepoCreateRefreshToken(k, m, parent, c),
           Grant(c, req[c], k)
    PROVE  BInv'
<1> USE DEF client
<1>1. /\ ~Stored(k) /\ Stored(k)' /\ token'[k].state = "live" /\ token'[k].by = "nobody"
      /\ \A t \in Tokens \ {k} : token'[t] = token[t]
  BY DEF RepoCreateRefreshToken, Stored, BInv, IInv, TypeOK
<1>2. /\ req'[c].pc = "over" /\ req'[c].answer = "ok" /\ req'[c].made = k
      /\ \A q \in Requests \ {c} : req'[q] = req[q]
  <2>1. req[c] \in Request
    BY Types
  <2>2. [req[c] EXCEPT !.made = k] \in Request /\ [req[c] EXCEPT !.made = k].made = k
    BY <2>1 DEF Request
  <2> DEFINE rec == [req[c] EXCEPT !.made = k]
  <2> HIDE DEF rec
  <2>3. TypeOK /\ c \in Requests
    BY CallsOK DEF BInv, IInv
  <2>4. Finish(c, rec, "ok") /\ rec \in Request /\ rec.made = k
    BY <2>2 DEF Grant, rec
  <2>5. QED
    BY <2>3, <2>4, FinishFields
<1>3. Forward /\ \A t \in Tokens : Spared(t)
  BY <1>1 DEF Forward, Spared, Stored
<1>4. RowsShown'
  BY <1>1, NoneNoToken DEF BInv, ClientInv, ClientTypeOK, RowsShown, Stored
<1>5. Calling(c)
  BY DEF BInv, ClientInv
<1>6. \A d \in Calls : req[d].made # None => req[d].made # k
  BY <1>1 DEF BInv, ClientInv, Made
<1>7. Made(c)'
  <2>1. shownBy[k] = {} /\ cookie # k
    BY <1>1, NoneNoToken DEF BInv, ClientInv, RowsShown
  <2>2. \A d \in Calls : req'[d].made = k => d = c
    BY <1>2, <1>6, NoneNoToken, CallsOK
  <2>3. QED
    BY <1>1, <1>2, <2>1, <2>2 DEF Made
<1>8. Calling(c)'
  <2>1. call[c].shown # None /\ call[c].at = "refreshing" => Stored(call[c].shown)'
    BY <1>3, <1>5, Types DEF Calling, Forward, Stored
  <2>2. QED
    BY <1>2, <1>5, <2>1 DEF Calling, Asking, Refused, Exchanging
<1>9. \A t \in Tokens : Rotator(c, t) => Rotator(c, t)'
  BY <1>2 DEF Rotator
<1>10. QED
  BY <1>2, <1>3, <1>4, <1>6, <1>7, <1>8, <1>9, QuietStep

\* The row that c exchanges is closed: who else has shown it is another tab.
LEMMA RevokeOldStep ==
    ASSUME BInv, NEW c \in Calls, RevokeOld(c), UNCHANGED client
    PROVE  BInv'
<1> USE DEF client
<1> DEFINE old == req[c].token
<1>1. /\ c \in Requests /\ TypeOK /\ Calling(c) /\ req[c] \in Request
      /\ req[c].pc = "revoke" /\ old \in Tokens /\ Stored(old)
      /\ req[c].made = None /\ req[c].answer = "none"
  BY Types, CallsOK DEF BInv, IInv, ClientInv, RevokeOld, Exchanging
<1>2. IInv'
  BY <1>1, MiddleStep DEF BInv
<1>3. /\ req'[c].pc = "storeNew" /\ req'[c].token = old /\ req'[c].made = None
      /\ req'[c].answer = "none" /\ \A q \in Requests \ {c} : req'[q] = req[q]
  BY <1>1, ContinueFields DEF RevokeOld
<1>4. /\ token'[old] = Revoked(token[old], "rotation")
      /\ \A t \in Tokens \ {old} : token'[t] = token[t]
      /\ UNCHANGED account
  BY <1>1 DEF RevokeOld, RepoRevoke, TypeOK
<1>5. Forward
  <2>1. Closing
    BY <1>1, ClosingSteps DEF RevokeOld
  <2>2. QED
    BY <1>4, <2>1, Still, ClosingKeepsRows DEF BInv
<1>6. RowsShown'
  <2>1. token'[old].state = "revoked" => token'[old].by \in {"rotation", "logoutAll"}
    BY <1>1, <1>4 DEF Revoked, TypeOK, TokenRow, BInv, ClientInv, RowsShown
  <2>2. cookie \in Tokens \cup {None}
    BY DEF BInv, ClientInv, ClientTypeOK
  <2>3. QED
    BY <1>4, <1>5, <2>1, <2>2 DEF BInv, ClientInv, RowsShown, Forward, Stored
<1>7. ASSUME NEW d \in Calls
      PROVE  Made(d)'
  <2>1. Made(d) /\ req[d].made \in Tokens \cup {None} /\ req[d].made # old
    <3>1. Made(d) /\ req[d].made \in Tokens \cup {None}
      BY Types DEF BInv, ClientInv
    <3>2. shownBy[old] # {} /\ old # None
      BY <1>1, NoneNoToken DEF Calling, Exchanging
    <3>3. QED
      BY <3>1, <3>2 DEF Made
  <2>2. \A e \in Calls : req'[e].made = req[e].made
    BY <1>1, <1>3, CallsOK
  <2>3. QED
    BY <1>4, <2>1, <2>2 DEF Made, Stored
<1>8. ShownGrows /\ \A d \in Calls \ {c} : Untouched(d)
  BY <1>3, CallsOK DEF ShownGrows, Untouched
<1>9. Calling(c)'
  <2>1. call[c].shown # None /\ call[c].at = "refreshing" => Stored(call[c].shown)'
    BY <1>1, <1>5, Types DEF Calling, Forward, Stored
  <2>2. QED
    BY <1>1, <1>3, <2>1 DEF Calling, Asking, Refused, Exchanging
<1>10. \A d \in Calls : Calling(d)'
  BY <1>5, <1>8, <1>9, CallFrame
<1>11. ASSUME lossy' = FALSE
       PROVE  CookieRotation' /\ \A d \in Calls : OwnRotation(d)'
  <2>1. /\ call[c].at = "refreshing" /\ call[c].shown = old /\ flight[Tab[c]] = c
        /\ Tab[c] \in shownBy[old]
    BY <1>1, <1>11, NoneNoToken DEF Calling, Asking, Exchanging
  <2>2. call'[c].at = "refreshing" /\ call'[c].shown = old
    BY <2>1
  <2>3. OwnRotation(c)'
    BY <1>3, <2>2 DEF OwnRotation, Rotator
  <2>4. ASSUME NEW d \in Calls \ {c}
        PROVE  OwnRotation(d)'
    <3>1. CASE call[d].shown # old
      BY <1>4, <1>8, <1>11, <3>1, Types, OwnFrame DEF Spared
    <3>2. CASE call[d].shown = old /\ call[d].at = "refreshing"
      <4>1. Tab[d] # Tab[c]
        BY <2>1, <3>2 DEF BInv, ClientInv, Calling
      <4>2. QED
        BY <2>1, <3>2, <4>1 DEF OwnRotation
    <3>3. CASE call[d].at # "refreshing"
      BY <3>3 DEF OwnRotation
    <3>4. QED
      BY <3>1, <3>2, <3>3
  <2>5. CookieRotation'
    <3> SUFFICES ASSUME cookie # None, token'[cookie].by = "rotation"
                 PROVE  \E d \in Calls : Rotator(d, cookie)'
      BY DEF CookieRotation
    <3>1. CASE cookie = old
      BY <1>3, <2>2, <3>1 DEF Rotator
    <3>2. CASE cookie # old
      <4>1. CookieRotation /\ cookie \in Tokens
        BY <1>11 DEF BInv, ClientInv, ClientTypeOK
      <4>2. PICK d \in Calls : Rotator(d, cookie)
        BY <1>4, <3>2, <4>1 DEF CookieRotation
      <4>3. d # c
        BY <2>1, <3>2, <4>2 DEF Rotator
      <4>4. QED
        BY <1>8, <4>2, <4>3 DEF Rotator, Untouched
    <3>3. QED
      BY <3>1, <3>2
  <2>6. QED
    BY <2>3, <2>4, <2>5
<1>12. ClientTypeOK'
  BY DEF BInv, ClientInv, ClientTypeOK
<1>13. QED
  BY <1>2, <1>6, <1>7, <1>10, <1>11, <1>12 DEF BInv, ClientInv

\* Every statement that the server may do for a call.
LEMMA ServedStep ==
    ASSUME BInv, NEW c \in Calls, Serve(c)
    PROVE  BInv'
<1>1. /\ c \in Requests /\ TypeOK /\ Running(c) /\ req[c] \in Request /\ UNCHANGED client
      /\ req[c].made \in Tokens \cup {None}
  BY Types, CallsOK DEF BInv, IInv, Serve
<1>2. IInv'
  BY <1>1, MiddleStep DEF Serve, BInv
<1>3. CASE LookUp(c) \/ ReadMember(c)
  <2>1. CASE Live(req[c].token) /\ LookUp(c) /\ Continue(c, req[c], "member")
    BY <1>1, <1>2, <2>1, ContinueFields, SameRowsStep DEF LookUp
  <2>2. CASE ~Live(req[c].token) /\ LookUp(c) /\ Finish(c, req[c], "refused")
    BY <1>1, <1>2, <2>2, FinishFields, SameRowsStep DEF LookUp
  <2>3. CASE ReadMember(c) /\ Continue(c, req[c], "revoke")
    BY <1>1, <1>2, <2>3, ContinueFields, SameRowsStep DEF ReadMember
  <2>4. CASE ReadMember(c) /\ ~FindActive(req[c].user) /\ Finish(c, req[c], "refused")
    BY <1>1, <1>2, <2>4, FinishFields, SameRowsStep DEF ReadMember, FindActive
  <2>5. QED
    BY <1>3, <2>1, <2>2, <2>3, <2>4 DEF LookUp, ReadMember
<1>4. CASE Abort(c)
  BY <1>1, <1>2, <1>4, FinishFields, SameRowsStep DEF Abort
<1>5. CASE RevokeOld(c)
  BY <1>1, <1>5, RevokeOldStep
<1>6. ASSUME NEW k \in Tokens, StoreFirst(c, k) \/ StoreNew(c, k)
      PROVE  BInv'
  BY <1>1, <1>2, <1>6, GrantedStep DEF StoreFirst, StoreNew
<1>7. QED
  BY <1>3, <1>4, <1>5, <1>6 DEF Serve

\* A row is as it was, or older, or closed by a sign-out everywhere.
ClosedByOthers(k) ==
    \/ token'[k].by = token[k].by
       /\ (token'[k].state = "revoked" => token[k].state = "revoked")
    \/ token'[k].by = "logoutAll"

\* What other people, and time, do to the rows exchanges nothing.
LEMMA OthersStep ==
    ASSUME BInv, Others
    PROVE  BInv'
<1>1. TypeOK /\ UNCHANGED <<cookie, access, flight, inside, call, shownBy, lossy, req>>
  BY DEF Others, DeactivateMember, Expire, BInv, IInv
<1>2. Closing /\ AccountStep /\ \A k \in Tokens : ClosedByOthers(k)
  <2>1. ASSUME NEW m \in Members, RepoRevokeAll(m), UNCHANGED account
        PROVE  Closing /\ AccountStep /\ \A k \in Tokens : ClosedByOthers(k)
    <3>1. \A k \in Tokens :
             token'[k] = token[k] \/ token'[k] = Revoked(token[k], "logoutAll")
      BY <2>1 DEF RepoRevokeAll
    <3>2. ASSUME NEW k \in Tokens
          PROVE  ClosedByOthers(k)
      <4>1. token[k] \in TokenRow
        BY <1>1 DEF TypeOK
      <4>2. CASE token'[k] = token[k]
        BY <4>2 DEF ClosedByOthers
      <4>3. CASE token'[k] = Revoked(token[k], "logoutAll")
        BY <4>1, <4>3 DEF ClosedByOthers, Revoked, TokenRow
      <4>4. QED
        BY <3>1, <4>2, <4>3
    <3>3. QED
      BY <1>1, <2>1, <3>2, ClosingSteps, Still DEF BInv
  <2>2. ASSUME NEW m \in Members, DeactivateMember(m)
        PROVE  Closing /\ AccountStep /\ \A k \in Tokens : ClosedByOthers(k)
    <3>1. UNCHANGED token
      BY <2>2 DEF DeactivateMember
    <3>2. AccountStep
      BY <1>1, <2>2 DEF DeactivateMember, AccountStep, TypeOK
    <3>3. QED
      BY <1>1, <3>1, <3>2, ClosingSteps DEF ClosedByOthers
  <2>3. ASSUME NEW k \in Tokens, Expire(k)
        PROVE  Closing /\ AccountStep /\ \A t \in Tokens : ClosedByOthers(t)
    <3>1. \A t \in Tokens : ClosedByOthers(t)
      BY <1>1, <2>3 DEF Expire, ClosedByOthers, TypeOK, TokenRow
    <3>2. QED
      BY <1>1, <2>3, <3>1, ClosingSteps, Still DEF Expire, BInv
  <2>4. QED
    BY <2>1, <2>2, <2>3 DEF Others
<1>3. IInv' /\ Forward
  BY <1>1, <1>2, WorldStep, ClosingKeepsRows DEF BInv
<1>4. \A k \in Tokens : Spared(k)
  BY <1>2 DEF ClosedByOthers, Spared
<1>5. RowsShown'
  <2>1. cookie \in Tokens \cup {None}
    BY DEF BInv, ClientInv, ClientTypeOK
  <2>2. QED
    BY <1>1, <1>2, <1>3, <2>1
       DEF BInv, ClientInv, RowsShown, ClosedByOthers, Forward, Stored
<1>6. ShownGrows /\ \A d \in Calls : Untouched(d)
  BY <1>1 DEF ShownGrows, Untouched
<1>7. \A d \in Calls : Calling(d)'
  BY <1>3, <1>6, CallFrame
<1>8. ASSUME NEW d \in Calls
      PROVE  Made(d)'
  BY <1>1, <1>3, <1>4, Types DEF BInv, ClientInv, Made, Forward, Stored, Spared
<1>9. ASSUME lossy' = FALSE
      PROVE  CookieRotation' /\ \A d \in Calls : OwnRotation(d)'
  <2>1. \A d \in Calls : OwnRotation(d)'
    BY <1>4, <1>6, <1>9, Types, OwnFrame
  <2>2. CookieRotation /\ cookie \in Tokens \cup {None}
    BY <1>1, <1>9 DEF BInv, ClientInv, ClientTypeOK
  <2>3. CookieRotation'
    BY <1>1, <1>4, <2>2 DEF CookieRotation, Rotator, Spared
  <2>4. QED
    BY <2>1, <2>3
<1>10. ClientTypeOK'
  BY <1>1, CallsOK DEF BInv, ClientInv, ClientTypeOK, Others, Event
<1>11. QED
  BY <1>3, <1>5, <1>7, <1>8, <1>9, <1>10 DEF BInv, ClientInv

-----------------------------------------------------------------------------
(* Steps of the browser.                                                   *)

LEMMA IdleState ==
    /\ Idle \in CallState /\ Idle.at = "idle" /\ Idle.shown = None
    /\ Resent \in CallState /\ Resent.at = "sentGood"
    /\ [Idle EXCEPT !.at = "gone"] \in CallState /\ [Idle EXCEPT !.at = "gone"].at = "gone"
BY DEF Idle, Resent, CallState

\* A call that moves without the server.
LEMMA MoveStep ==
    ASSUME BInv, NEW c \in Calls, ~Asking(c),
           NEW state \in CallState, state.at \notin {"refreshing", "signing", "gone"},
           call' = [call EXCEPT ![c] = state],
           UNCHANGED <<server, cookie, access, flight, inside, shownBy, lossy, events>>
    PROVE  BInv'
<1>1. ClientTypeOK'
  BY DEF BInv, ClientInv, ClientTypeOK
<1>2. call'[c] = state /\ \A d \in Calls \ {c} : call'[d] = call[d]
  BY DEF BInv, ClientInv, ClientTypeOK
<1>3. \A d \in Calls : Untouched(d) \/ Aside(d)
  BY <1>2 DEF Untouched, Aside, Asking, server
<1>4. QED
  BY <1>1, <1>3, ClientStep DEF server

LEMMA CallStep ==
    ASSUME BInv, NEW c \in Calls,
           Send(c) \/ Answered(c) \/ (Unauthorized(c) /\ Join(c))
    PROVE  BInv'
<1>1. ~Asking(c) /\ call[c] \in CallState
  BY Types DEF Send, NextSlot, Answered, Unauthorized, Asking
<1>2. CASE Send(c)
  <2> DEFINE state == [call[c] EXCEPT !.at = SentAs(Tab[c])]
  <2>1. state \in CallState /\ state.at \in {"sentGood", "sentBad"}
    BY <1>1 DEF CallState, SentAs
  <2>2. call' = [call EXCEPT ![c] = state]
    BY <1>2 DEF Send
  <2> HIDE DEF state
  <2>3. QED
    BY <1>1, <1>2, <2>1, <2>2, MoveStep DEF Send
<1>3. CASE Answered(c)
  BY <1>1, <1>3, IdleState, MoveStep DEF Answered
<1>4. CASE Unauthorized(c) /\ Join(c)
  <2> DEFINE state == [call[c] EXCEPT !.at = "waiting"]
  <2>1. state \in CallState /\ state.at = "waiting"
    BY <1>1 DEF CallState
  <2>2. call' = [call EXCEPT ![c] = state]
    BY <1>4 DEF Join
  <2> HIDE DEF state
  <2>3. QED
    BY <1>1, <1>4, <2>1, <2>2, MoveStep DEF Unauthorized, Join
<1>5. QED
  BY <1>2, <1>3, <1>4

LEMMA ExpireAccessStep ==
    ASSUME BInv, NEW t \in Tabs, ExpireAccess(t)
    PROVE  BInv'
<1>1. \A d \in Calls :
         \/ call'[d] = call[d]
         \/ /\ call[d].at = "sentGood" /\ call'[d] = [call[d] EXCEPT !.at = "sentBad"]
            /\ call'[d] \in CallState /\ call'[d].at = "sentBad"
  BY Types DEF ExpireAccess, CallState
<1>2. ClientTypeOK'
  <2>1. call' \in [Calls -> CallState]
    BY <1>1, Types DEF ExpireAccess
  <2>2. QED
    BY <2>1 DEF ExpireAccess, BInv, ClientInv, ClientTypeOK
<1>3. \A d \in Calls : Untouched(d) \/ Aside(d)
  BY <1>1 DEF Untouched, Aside, Asking, ExpireAccess, server
<1>4. QED
  BY <1>2, <1>3, ClientStep DEF ExpireAccess, server

LEMMA ReloadStep ==
    ASSUME BInv, NEW t \in Tabs, Reload(t)
    PROVE  BInv'
<1>1. ASSUME NEW d \in Calls
      PROVE  /\ Tab[d] # t => call'[d] = call[d]
             /\ Tab[d] = t /\ Asking(d) => call'[d] = [Idle EXCEPT !.at = "gone"]
             /\ Tab[d] = t /\ ~Asking(d) => call'[d] = Idle
  <2>1. call'[d] = CASE Tab[d] # t -> call[d]
                     [] Tab[d] = t /\ Asking(d) -> [Idle EXCEPT !.at = "gone"]
                     [] OTHER -> Idle
    BY DEF Reload
  <2>2. QED
    BY <2>1
<1>2. ClientTypeOK'
  <2>1. call' \in [Calls -> CallState]
    BY <1>1, Types, IdleState DEF Reload
  <2>2. lossy' \in BOOLEAN /\ events' \in 0..MaxEvents
    BY CallsOK DEF Reload, Event, BInv, ClientInv, ClientTypeOK
  <2>3. QED
    BY <2>1, <2>2 DEF Reload, BInv, ClientInv, ClientTypeOK
<1>3. ASSUME NEW d \in Calls
      PROVE  Untouched(d) \/ Aside(d) \/ (call'[d].at = "gone" /\ lossy' = TRUE)
  <2>1. CASE Tab[d] # t
    BY <1>1, <2>1, Types DEF Reload, Untouched, server, BInv, ClientInv, ClientTypeOK
  <2>2. CASE Tab[d] = t /\ Asking(d)
    BY <1>1, <2>2, IdleState DEF Reload
  <2>3. CASE Tab[d] = t /\ ~Asking(d)
    BY <1>1, <2>3, IdleState DEF Aside, Asking
  <2>4. QED
    BY <2>1, <2>2, <2>3
<1>4. lossy' = FALSE => lossy = FALSE
  BY DEF Reload, BInv, ClientInv, ClientTypeOK
<1>5. QED
  BY <1>2, <1>3, <1>4, ClientStep DEF Reload, server

\* In the tab of a call that refreshes no other one does.
LEMMA OneRefresh ==
    ASSUME BInv, NEW c \in Calls, NEW d \in Calls, call[c].at = "refreshing",
           call[d].at = "refreshing", Tab[c] = Tab[d]
    PROVE  c = d
BY DEF BInv, ClientInv, Calling

\* The end of the refresh of c leaves the refresh of another tab alone.
LEMMA LandedFrame ==
    ASSUME BInv, NEW c \in Calls, call[c].at = "refreshing", Landed(c)
    PROVE  /\ \A d \in Calls \ {c} :
                call[d].at = "refreshing" => flight'[Tab[d]] = flight[Tab[d]]
           /\ flight' \in [Tabs -> Calls \cup {None}]
BY OneRefresh, Types DEF Landed, BInv, ClientInv, ClientTypeOK

LEMMA NetworkFailsStep ==
    ASSUME BInv, NEW c \in Calls, NetworkFails(c)
    PROVE  BInv'
<1>1. /\ call'[c] = [Idle EXCEPT !.at = "gone"]
      /\ \A d \in Calls \ {c} :
            \/ call'[d] = call[d]
            \/ call[d].at = "waiting" /\ call'[d] = Idle
  BY DEF NetworkFails, Sharers
<1>2. call[c].at = "refreshing" /\ Landed(c) /\ lossy' = TRUE
  BY DEF NetworkFails
<1>3. ClientTypeOK'
  <2>1. call' \in [Calls -> CallState]
    BY <1>1, Types, IdleState DEF NetworkFails
  <2>2. events' \in 0..MaxEvents
    BY CallsOK DEF NetworkFails, Event, BInv, ClientInv, ClientTypeOK
  <2>3. QED
    BY <1>2, <2>1, <2>2, LandedFrame DEF NetworkFails, BInv, ClientInv, ClientTypeOK
<1>4. ASSUME NEW d \in Calls
      PROVE  Untouched(d) \/ Aside(d) \/ (call'[d].at = "gone" /\ lossy' = TRUE)
  <2>1. CASE d = c
    BY <1>1, <1>2, <2>1, IdleState
  <2>2. CASE d # c
    BY <1>1, <1>2, <2>2, LandedFrame, IdleState
       DEF NetworkFails, Untouched, Aside, Asking, server
  <2>3. QED
    BY <2>1, <2>2
<1>5. QED
  BY <1>2, <1>3, <1>4, ClientStep DEF NetworkFails, server

-----------------------------------------------------------------------------
(* The browser takes an answer.                                            *)

LEMMA MadeType ==
    ASSUME BInv, NEW c \in Calls
    PROVE  cookie \in Tokens \cup {None} /\ req[c].made \in Tokens \cup {None}
BY Types DEF BInv, ClientInv, ClientTypeOK

LEMMA SignedInStep ==
    ASSUME BInv, NEW c \in Calls, SignedIn(c)
    PROVE  BInv'
<1>1. /\ call[c].at = "signing" /\ req[c].pc = "over" /\ TakeAnswer(c)
      /\ call'[c] = Idle /\ \A d \in Calls \ {c} : call'[d] = call[d]
      /\ call' \in [Calls -> CallState] /\ cookie' \in {cookie, req[c].made}
      /\ UNCHANGED <<flight, shownBy, lossy, events>>
  BY IdleState DEF SignedIn, BInv, ClientInv, ClientTypeOK
<1>2. ClientTypeOK'
  <2>1. access' \in [Tabs -> {"none", "good", "stale"}] /\ inside' \in SUBSET Tabs
    <3>1. /\ access \in [Tabs -> {"none", "good", "stale"}] /\ inside \in SUBSET Tabs
          /\ Tab[c] \in Tabs
      BY Types DEF BInv, ClientInv, ClientTypeOK
    <3>2. \/ access' = [access EXCEPT ![Tab[c]] = "good"] /\ inside' = inside \cup {Tab[c]}
          \/ access' = access /\ inside' = inside
      BY DEF SignedIn
    <3>3. QED
      BY <3>1, <3>2
  <2>2. QED
    BY <1>1, <2>1, MadeType DEF BInv, ClientInv, ClientTypeOK
<1>3. Asking(c) /\ ~Asking(c)' /\ ~Rotator(c, cookie)
  BY <1>1, IdleState DEF Asking, Rotator
<1>4. QED
  BY <1>1, <1>2, <1>3, TakeStep

LEMMA ForgetStep ==
    ASSUME BInv, NEW c \in Calls, Forget(c)
    PROVE  BInv'
<1>1. /\ call[c].at = "gone" /\ req[c].pc = "over" /\ TakeAnswer(c)
      /\ call'[c] = Idle /\ \A d \in Calls \ {c} : call'[d] = call[d]
      /\ call' \in [Calls -> CallState] /\ cookie' \in {cookie, req[c].made}
      /\ UNCHANGED <<access, flight, inside, shownBy, lossy, events>>
  BY IdleState DEF Forget, Free, BInv, ClientInv, ClientTypeOK
<1>2. ClientTypeOK'
  BY <1>1, MadeType DEF BInv, ClientInv, ClientTypeOK
<1>3. Asking(c) /\ ~Asking(c)' /\ ~Rotator(c, cookie)
  BY <1>1, IdleState DEF Asking, Rotator
<1>4. QED
  BY <1>1, <1>2, <1>3, TakeStep

LEMMA RefreshedStep ==
    ASSUME BInv, NEW c \in Calls, Refreshed(c)
    PROVE  BInv'
<1>1. /\ call[c].at = "refreshing" /\ req[c].pc = "over" /\ TakeAnswer(c) /\ Landed(c)
      /\ req[c].answer = "ok" /\ cookie' = req[c].made
      /\ UNCHANGED <<inside, shownBy, lossy, events>>
  BY DEF Refreshed
<1>2. /\ call'[c] = Resent
      /\ \A d \in Calls \ {c} :
            \/ call'[d] = call[d]
            \/ call[d].at = "waiting" /\ call'[d] = Resent
  BY DEF Refreshed, Retry, Sharers
<1>3. ClientTypeOK'
  <2>1. call' \in [Calls -> CallState]
    BY <1>2, Types, IdleState DEF Refreshed, Retry
  <2>2. access' \in [Tabs -> {"none", "good", "stale"}]
    BY Types DEF Refreshed, BInv, ClientInv, ClientTypeOK
  <2>3. QED
    BY <1>1, <2>1, <2>2, LandedFrame, MadeType DEF BInv, ClientInv, ClientTypeOK
<1>4. Asking(c) /\ ~Asking(c)'
  BY <1>1, <1>2, IdleState DEF Asking
<1>5. \A d \in Calls \ {c} :
         \/ call'[d] = call[d]
            /\ (call[d].at = "refreshing" => flight'[Tab[d]] = flight[Tab[d]])
         \/ Aside(d)
  BY <1>1, <1>2, LandedFrame, IdleState DEF Aside, Asking
<1>6. cookie' = cookie => cookie = None
  BY <1>1 DEF BInv, ClientInv, Made
<1>7. QED
  BY <1>1, <1>3, <1>4, <1>5, <1>6, TakeStep

\* All calls of the tab are dropped, but for those only the server knows of.
LEMMA KickedStep ==
    ASSUME BInv, NEW c \in Calls, Kicked(c)
    PROVE  BInv'
<1>1. /\ call[c].at = "refreshing" /\ req[c].pc = "over" /\ TakeAnswer(c) /\ Landed(c)
      /\ req[c].answer # "ok" /\ UNCHANGED <<cookie, shownBy, events>>
      /\ lossy' = (lossy \/ req[c].answer = "lost")
  BY DEF Kicked
<1>2. /\ call'[c] = Idle
      /\ \A d \in Calls \ {c} :
            \/ call'[d] = call[d]
            \/ ~Asking(d) /\ call'[d] = Idle
  BY <1>1 DEF Kicked
<1>3. ClientTypeOK'
  <2>1. call' \in [Calls -> CallState]
    BY <1>2, Types, IdleState DEF Kicked
  <2>2. /\ access' \in [Tabs -> {"none", "good", "stale"}] /\ inside' \in SUBSET Tabs
        /\ lossy' \in BOOLEAN
    BY Types DEF Kicked, BInv, ClientInv, ClientTypeOK
  <2>3. QED
    BY <1>1, <2>1, <2>2, LandedFrame, MadeType DEF BInv, ClientInv, ClientTypeOK
<1>4. Asking(c) /\ ~Asking(c)'
  BY <1>1, <1>2, IdleState DEF Asking
<1>5. ASSUME NEW d \in Calls \ {c}
      PROVE  \/ call'[d] = call[d]
                /\ (call[d].at = "refreshing" => flight'[Tab[d]] = flight[Tab[d]])
             \/ Aside(d)
  <2>1. CASE call'[d] = call[d]
    BY <1>1, <2>1, LandedFrame
  <2>2. CASE ~Asking(d) /\ call'[d] = Idle
    BY <2>2, IdleState DEF Aside, Asking
  <2>3. QED
    BY <1>2, <2>1, <2>2
<1>6. lossy' = FALSE => lossy = FALSE /\ ~Rotator(c, cookie)
  BY <1>1 DEF Rotator, BInv, ClientInv, ClientTypeOK
<1>7. QED
  BY <1>1, <1>3, <1>4, <1>5, <1>6, TakeStep

-----------------------------------------------------------------------------
(* A request goes out.                                                     *)

\* The slot of a call that was aside begins a request; no row is changed.
\* A refresh may show the cookie.
LEMMA BeginStep ==
    ASSUME BInv, IInv', Forward, ClientTypeOK', UNCHANGED <<token, cookie, lossy>>,
           NEW c \in Calls, ~Asking(c),
           \A q \in Requests \ {c} : req'[q] = req[q],
           \A d \in Calls \ {c} : Untouched(d),
           req'[c].made = None, Calling(c)', lossy = FALSE => OwnRotation(c)',
           \A k \in Tokens : /\ shownBy[k] \subseteq shownBy'[k]
                             /\ shownBy'[k] = shownBy[k] \/ k = cookie
    PROVE  BInv'
<1>1. ShownGrows /\ \A k \in Tokens : Spared(k)
  BY DEF ShownGrows, Spared
<1>2. RowsShown'
  BY NoneNoToken DEF BInv, ClientInv, RowsShown, Stored
<1>3. \A d \in Calls \ {c} : Calling(d)'
  BY <1>1, CallFrame
<1>4. ASSUME NEW d \in Calls
      PROVE  Made(d)'
  <2>1. CASE d = c
    BY <2>1 DEF Made
  <2>2. CASE d # c
    <3>1. Made(d) /\ req'[d] = req[d] /\ req[d].made \in Tokens \cup {None}
      BY <2>2, Types DEF BInv, ClientInv, Untouched
    <3>2. \A e \in Calls \ {d} : req[d].made # None => req'[e].made # req[d].made
      BY <2>2, <3>1, CallsOK DEF Made
    <3>3. QED
      BY <3>1, <3>2 DEF Made, Stored
  <2>3. QED
    BY <2>1, <2>2
<1>5. ASSUME lossy' = FALSE
      PROVE  CookieRotation' /\ \A d \in Calls : OwnRotation(d)'
  <2>1. \A d \in Calls : OwnRotation(d)'
    BY <1>1, <1>5, Types, OwnFrame
  <2>2. CookieRotation'
    <3> SUFFICES ASSUME cookie # None, token[cookie].by = "rotation"
                 PROVE  \E d \in Calls : Rotator(d, cookie)'
      BY DEF CookieRotation
    <3>1. PICK d \in Calls : Rotator(d, cookie)
      BY <1>5 DEF CookieRotation, BInv, ClientInv
    <3>2. d # c
      BY <3>1, RotatorStays
    <3>3. QED
      BY <3>1, <3>2 DEF Rotator, Untouched
  <2>3. QED
    BY <2>1, <2>2
<1>6. QED
  BY <1>2, <1>3, <1>4, <1>5 DEF BInv, ClientInv

LEMMA SignInStep ==
    ASSUME BInv, NEW c \in Calls, NEW m \in Members, SignIn(c, m)
    PROVE  BInv'
<1>1. /\ c \in Requests /\ TypeOK /\ call[c].at = "idle" /\ call[c] \in CallState
      /\ UNCHANGED <<token, cookie, access, flight, inside, shownBy, lossy, events>>
  BY Types DEF SignIn, NextSlot, Login, Register, BInv, IInv
<1>2. IInv'
  BY <1>1, OpeningStep DEF SignIn, BInv
<1>3. Forward
  <2>1. \A a \in Members : account[a] # "absent" => account'[a] = account[a]
    <3>1. CASE Login(c, m)
      BY <3>1 DEF Login
    <3>2. CASE Register(c, m)
      BY <1>1, <3>2 DEF Register, TypeOK
    <3>3. QED
      BY <3>1, <3>2 DEF SignIn
  <2>2. QED
    BY <1>1, <2>1 DEF Forward, Stored
<1>4. /\ req'[c].pc \in {"store", "over"} /\ req'[c].made = None
      /\ \A q \in Requests \ {c} : req'[q] = req[q]
  <2>1. CASE Login(c, m)
    <3> DEFINE rec == [Call("login", m, None) EXCEPT !.barred = (account[m] = "inactive")]
    <3>1. rec \in Request /\ rec.made = None
      <4>1. Fresh(rec, m, None, account[m] = "inactive")
        BY CallFields
      <4>2. QED
        BY <4>1 DEF Fresh
    <3>2. Continue(c, rec, "store") \/ Finish(c, rec, "refused")
      BY <2>1 DEF Login
    <3> HIDE DEF rec
    <3>3. QED
      BY <1>1, <3>1, <3>2, ContinueFields, FinishFields
  <2>2. CASE Register(c, m)
    <3> DEFINE rec == Call("register", m, None)
    <3>1. rec \in Request /\ rec.made = None
      <4>1. Fresh(rec, m, None, FALSE)
        BY CallFields
      <4>2. QED
        BY <4>1 DEF Fresh
    <3>2. Continue(c, rec, "store") \/ Finish(c, rec, "refused")
      BY <2>2 DEF Register
    <3> HIDE DEF rec
    <3>3. QED
      BY <1>1, <3>1, <3>2, ContinueFields, FinishFields
  <2>3. QED
    BY <2>1, <2>2 DEF SignIn
<1>5. /\ call' \in [Calls -> CallState] /\ call'[c].at = "signing"
      /\ \A d \in Calls \ {c} : call'[d] = call[d]
  <2>1. [call[c] EXCEPT !.at = "signing"] \in CallState
    BY <1>1 DEF CallState
  <2>2. [call[c] EXCEPT !.at = "signing"].at = "signing"
    BY <1>1 DEF CallState
  <2>3. call' = [call EXCEPT ![c] = [call[c] EXCEPT !.at = "signing"]]
    BY DEF SignIn
  <2>4. QED
    BY <2>1, <2>2, <2>3 DEF BInv, ClientInv, ClientTypeOK
<1>6. ClientTypeOK'
  BY <1>1, <1>5 DEF BInv, ClientInv, ClientTypeOK
<1>7. \A d \in Calls \ {c} : Untouched(d)
  BY <1>1, <1>4, <1>5, CallsOK DEF Untouched
<1>8. Calling(c)' /\ OwnRotation(c)'
  BY <1>4, <1>5 DEF Calling, OwnRotation, Asking, Refused, Exchanging
<1>9. ~Asking(c)
  BY <1>1 DEF Asking
<1>10. QED
  BY <1>1, <1>2, <1>3, <1>4, <1>6, <1>7, <1>8, <1>9, BeginStep

\* A token that is exchanged already is shown by another tab at this moment.
LEMMA StartRefreshStep ==
    ASSUME BInv, NEW c \in Calls, Unauthorized(c), ~MustWait(c), StartRefresh(c)
    PROVE  BInv'
<1> DEFINE state == [call[c] EXCEPT !.at = "refreshing", !.shown = cookie]
<1>1. /\ c \in Requests /\ TypeOK /\ call[c].at = "sentBad" /\ flight[Tab[c]] = None
      /\ Tab[c] \in Tabs /\ cookie \in Tokens \cup {None} /\ ~Asking(c)
      /\ UNCHANGED <<account, token, cookie, access, inside, lossy, events>>
  BY Types, MadeType
     DEF Unauthorized, MustWait, StartRefresh, Refresh, Asking, BInv, IInv
<1>2. /\ call' \in [Calls -> CallState] /\ call'[c].at = "refreshing"
      /\ call'[c].shown = cookie /\ \A d \in Calls \ {c} : call'[d] = call[d]
  <2>1. state \in CallState /\ state.at = "refreshing" /\ state.shown = cookie
    <3>1. call[c] \in CallState
      BY Types
    <3>2. QED
      BY <1>1, <3>1 DEF CallState
  <2>2. call' = [call EXCEPT ![c] = state]
    BY DEF StartRefresh
  <2> HIDE DEF state
  <2>3. QED
    BY <2>1, <2>2 DEF BInv, ClientInv, ClientTypeOK
<1> HIDE DEF state
<1>3. /\ flight' \in [Tabs -> Calls \cup {None}] /\ flight'[Tab[c]] = c
      /\ \A t \in Tabs \ {Tab[c]} : flight'[t] = flight[t]
  BY <1>1 DEF StartRefresh, BInv, ClientInv, ClientTypeOK
<1>4. \A d \in Calls : call[d].at = "refreshing" => Tab[d] # Tab[c]
  BY <1>1, CallsOK DEF BInv, ClientInv, Calling
<1>5. Forward
  BY <1>1, StillForward
<1>6. CASE cookie # None
  <2>1. Refresh(c, cookie) /\ shownBy' = [shownBy EXCEPT ![cookie] = @ \cup {Tab[c]}]
    BY <1>6 DEF StartRefresh
  <2>2. cookie \in Tokens /\ Stored(cookie) /\ token[cookie].owner \in Members
    BY <1>1, <1>6, Owners DEF BInv, ClientInv, RowsShown
  <2>3. IInv'
    BY <1>1, <2>1, <2>2, OpeningStep DEF BInv
  <2>4. /\ req'[c].pc = "lookUp" /\ req'[c].token = cookie /\ req'[c].made = None
        /\ \A q \in Requests \ {c} : req'[q] = req[q]
    <3> DEFINE bar == ~Live(cookie) \/ ~FindActive(token[cookie].owner)
               rec == [Call("refresh", token[cookie].owner, cookie) EXCEPT !.barred = bar]
    <3>1. rec \in Request /\ rec.token = cookie /\ rec.made = None
      <4>1. bar \in BOOLEAN
        BY DEF Live, FindActive
      <4> HIDE DEF bar
      <4>2. Fresh(rec, token[cookie].owner, cookie, bar)
        BY <2>2, <4>1, CallFields
      <4>3. QED
        BY <4>2 DEF Fresh
    <3>2. Continue(c, rec, "lookUp")
      BY <2>1 DEF Refresh
    <3> HIDE DEF rec
    <3>3. QED
      BY <1>1, <3>1, <3>2, ContinueFields
  <2>5. /\ shownBy' \in [Tokens -> SUBSET Tabs]
        /\ shownBy'[cookie] = shownBy[cookie] \cup {Tab[c]}
        /\ \A k \in Tokens \ {cookie} : shownBy'[k] = shownBy[k]
    BY <1>1, <2>1, <2>2 DEF BInv, ClientInv, ClientTypeOK
  <2>6. ClientTypeOK'
    BY <1>1, <1>2, <1>3, <2>5 DEF BInv, ClientInv, ClientTypeOK
  <2>7. \A d \in Calls \ {c} : Untouched(d)
    BY <1>2, <1>3, <1>4, <2>4, Types, CallsOK DEF Untouched
  <2>8. Calling(c)'
    BY <1>1, <1>2, <1>3, <2>2, <2>4, <2>5
       DEF Calling, Asking, Refused, Exchanging, Stored
  <2>9. ASSUME lossy = FALSE
        PROVE  OwnRotation(c)'
    <3> SUFFICES ASSUME token[cookie].by = "rotation", shownBy'[cookie] \subseteq {Tab[c]}
                 PROVE  FALSE
      BY <1>1, <1>2 DEF OwnRotation
    <3>1. PICK d \in Calls : Rotator(d, cookie)
      BY <1>6, <2>9 DEF CookieRotation, BInv, ClientInv
    <3>2. Tab[d] \in shownBy[cookie] /\ Tab[d] # Tab[c]
      BY <1>4, <1>6, <3>1 DEF Rotator, Calling, BInv, ClientInv
    <3>3. QED
      BY <2>5, <3>2
  <2>10. QED
    BY <1>1, <1>5, <2>3, <2>4, <2>5, <2>6, <2>7, <2>8, <2>9, BeginStep
<1>7. CASE cookie = None
  <2>1. Finish(c, NoRequest, "refused") /\ UNCHANGED shownBy
    BY <1>7 DEF StartRefresh
  <2>2. IInv'
    <3>1. Closing /\ AccountStep
      BY <1>1, ClosingSteps, Still DEF BInv
    <3>2. QED
      BY <1>1, <2>1, <3>1, BlankRequest, FinishStep DEF BInv
  <2>3. /\ req'[c].pc = "over" /\ req'[c].made = None
        /\ \A q \in Requests \ {c} : req'[q] = req[q]
    BY <1>1, <2>1, BlankRequest, FinishFields
  <2>4. ClientTypeOK'
    BY <1>1, <1>2, <1>3, <2>1 DEF BInv, ClientInv, ClientTypeOK
  <2>5. \A d \in Calls \ {c} : Untouched(d)
    BY <1>2, <1>3, <1>4, <2>3, Types, CallsOK DEF Untouched
  <2>6. Calling(c)' /\ OwnRotation(c)'
    BY <1>2, <1>3, <1>7, <2>3 DEF Calling, OwnRotation, Asking, Refused, Exchanging
  <2>7. QED
    BY <1>1, <1>5, <2>1, <2>2, <2>3, <2>4, <2>5, <2>6, BeginStep
<1>8. QED
  BY <1>6, <1>7

-----------------------------------------------------------------------------
(* The invariant is inductive, and what follows from it.                   *)

LEMMA BrowserInitInv == BrowserInit => BInv
<1> SUFFICES ASSUME BrowserInit PROVE BInv
  OBVIOUS
<1> USE DEF BrowserInit, ClientInit
<1>1. IInv
  BY InitInv
<1>2. /\ \A k \in Tokens : token[k].state = "absent"
      /\ \A c \in Calls : req[c].pc = "over" /\ req[c].made = None
  BY BlankRequest, CallsOK DEF Init, NoToken
<1>3. ClientTypeOK
  <2>1. events \in 0..MaxEvents
    BY CallsOK
  <2>2. call \in [Calls -> CallState]
    BY IdleState
  <2>3. QED
    BY <2>1, <2>2 DEF ClientTypeOK
<1>4. RowsShown /\ CookieRotation
  BY <1>2 DEF RowsShown, Stored, CookieRotation
<1>5. \A c \in Calls : Calling(c) /\ Made(c) /\ OwnRotation(c)
  BY <1>2, IdleState
     DEF Calling, Made, OwnRotation, Asking, Refused, Exchanging
<1>6. QED
  BY <1>1, <1>3, <1>4, <1>5 DEF BInv, ClientInv

LEMMA BrowserStep ==
    ASSUME BInv, BrowserNext
    PROVE  BInv'
<1>1. ASSUME NEW c \in Calls, Unauthorized(c)
      PROVE  BInv'
  BY <1>1, CallStep, StartRefreshStep DEF Unauthorized
<1>2. ASSUME NEW c \in Calls, Deliver(c)
      PROVE  BInv'
  BY <1>2, RefreshedStep, KickedStep, SignedInStep DEF Deliver
<1>3. ASSUME NEW r \in Requests, Serve(r)
      PROVE  BInv'
  BY <1>3, ServedStep, CallsOK
<1>4. QED
  BY <1>1, <1>2, <1>3, SignInStep, CallStep, NetworkFailsStep, ForgetStep, ReloadStep,
     ExpireAccessStep, OthersStep
     DEF BrowserNext

\* The invariant behind the theorems below.
THEOREM BrowserInvariance == BrowserSpec => []BInv
<1>1. BInv /\ UNCHANGED all => BInv'
  <2> SUFFICES ASSUME BInv, UNCHANGED all PROVE BInv'
    OBVIOUS
  <2>1. ClientTypeOK' /\ \A d \in Calls : Untouched(d)
    BY DEF all, server, client, BInv, ClientInv, ClientTypeOK, Untouched
  <2>2. QED
    BY <2>1, ClientStep DEF all, server, client
<1>2. BInv /\ BrowserNext => BInv'
  BY BrowserStep
<1>3. QED
  BY BrowserInitInv, <1>1, <1>2, PTL DEF BrowserSpec

\* Every variable of the browser and of the server keeps its type.
THEOREM BrowserTypeCorrect == BrowserSpec => []BrowserTypeOK
<1>1. BInv => BrowserTypeOK
  BY DEF BInv, IInv, ClientInv, BrowserTypeOK
<1>2. QED
  BY BrowserInvariance, <1>1, PTL

\* Driven by the browser, the server keeps what it promises on its own: heirs
\* of closed rows only, nothing for requests that began too late, and one
\* exchange of a token at a time.
THEOREM ServerKeepsItsPromises ==
    BrowserSpec => [](Lineage /\ DoorStaysShut /\ SerialExchange)
<1>1. BInv => Lineage /\ DoorStaysShut /\ SerialExchange
  BY DEF BInv, IInv, Barred, DoorStaysShut
<1>2. QED
  BY BrowserInvariance, <1>1, PTL

\* What the browser makes the server do, and what others do to it.
LEMMA BrowserEffect == BInv /\ BrowserNext => Effect
<1> SUFFICES ASSUME BInv, BrowserNext PROVE Effect
  OBVIOUS
<1>0. IInv
  BY DEF BInv
<1>1. ASSUME NEW r \in Requests, NEW m \in Members, Login(r, m) \/ Register(r, m)
      PROVE  Effect
  BY <1>1 DEF Login, Register, Effect
<1>2. ASSUME NEW c \in Calls,
             Send(c) \/ Answered(c) \/ NetworkFails(c) \/ Forget(c) \/ Deliver(c)
      PROVE  Effect
  BY <1>2 DEF Send, Answered, NetworkFails, Forget, Deliver, Refreshed, Kicked, SignedIn,
              TakeAnswer, server, Effect
<1>3. ASSUME NEW c \in Calls, NEW m \in Members, SignIn(c, m)
      PROVE  Effect
  BY <1>1, <1>3, CallsOK DEF SignIn
<1>4. ASSUME NEW c \in Calls, Unauthorized(c)
      PROVE  Effect
  BY <1>4 DEF Unauthorized, Join, StartRefresh, Refresh, server, Effect
<1>5. ASSUME NEW t \in Tabs, Reload(t) \/ ExpireAccess(t)
      PROVE  Effect
  BY <1>5 DEF Reload, ExpireAccess, server, Effect
<1>6. ASSUME NEW r \in Requests, Serve(r)
      PROVE  Effect
  BY <1>0, <1>6, EffectOf DEF Serve, Next
<1>7. CASE Others
  BY <1>7 DEF Others, DeactivateMember, Expire, Effect
<1>8. QED
  BY <1>2, <1>3, <1>4, <1>5, <1>6, <1>7 DEF BrowserNext

\* The server implements TokenLifecycle in the hands of the browser, too.
THEOREM BrowserKeepsTokens == BrowserSpec => ImplementsTokens
<1>1. BInv /\ [BrowserNext]_all => [TokenLife!Next]_(TokenLife!vars)
  <2>1. UNCHANGED all => Effect
    BY DEF all, server, Effect
  <2>2. BInv => IInv
    BY DEF BInv
  <2>3. QED
    BY <2>1, <2>2, BrowserEffect, LifeStep
<1>2. BrowserInit => TokenLife!Init
  BY LifeInit DEF BrowserInit
<1>3. QED
  BY BrowserInvariance, <1>1, <1>2, PTL DEF BrowserSpec, ImplementsTokens, TokenLife!Spec

\* A user is sent to the page of login for a reason outside the tab.
THEOREM KickedForCauseHolds == BrowserSpec => []KickedForCause
<1>1. ASSUME BInv
      PROVE  KickedForCause
  <2> SUFFICES ASSUME NEW c \in Calls, Refused(c), call[c].shown # None, lossy = FALSE,
                      token[call[c].shown].state # "expired",
                      token[call[c].shown].by # "logoutAll",
                      account[token[call[c].shown].owner] # "inactive",
                      shownBy[call[c].shown] = {Tab[c]}
               PROVE  FALSE
    BY <1>1 DEF KickedForCause, BInv, ClientInv, ClientTypeOK
  <2> DEFINE k == call[c].shown
  <2>1. call[c].at = "refreshing" /\ k \in Tokens /\ Stored(k) /\ ~Live(k)
    BY <1>1, Types DEF BInv, ClientInv, Calling, Refused
  <2>2. token[k].state = "revoked"
    BY <1>1, <2>1 DEF BInv, IInv, TypeOK, TokenRow, TokenState, Stored, Live
  <2>3. token[k].by = "rotation"
    BY <1>1, <2>1, <2>2 DEF BInv, ClientInv, RowsShown
  <2>4. Rotator(c, k)
    BY <1>1, <2>1, <2>3 DEF BInv, ClientInv, OwnRotation
  <2>5. QED
    BY <2>4 DEF Rotator, Refused
<1>2. QED
  BY BrowserInvariance, <1>1, PTL
=============================================================================
