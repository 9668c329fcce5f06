--------------------------- MODULE InventoryLoans ---------------------------
(***************************************************************************)
(* Items and loans of the church inventory (backend handlers/inventory.go, *)
(* services/inventory_service.go, adapters/postgres/inventory_repo.go).    *)
(*                                                                         *)
(* Every HTTP request runs in a goroutine of its own and talks to          *)
(* PostgreSQL at READ COMMITTED.  A step of this module is one SQL         *)
(* statement, or one transaction (pool.Begin ... Commit), executed by one  *)
(* request; between two steps of a request any other request may run.      *)
(* A request slot is reused once its request is over, so Requests bounds   *)
(* how many requests overlap, not how many are served.                     *)
(***************************************************************************)
CONSTANTS
    Items,           \* identities of item rows
    Loans,           \* identities of loan rows
    Members,         \* people with an access token
    Churches,        \* church rows
    Targets,         \* ids a client may send as loan_to_id
    Requests,        \* requests the server can be serving at a time
    Staff,           \* members whose token says pastor or leadership
    TokenChurch,     \* TokenChurch[m]: the church in m's access token
    MemberChurches,  \* MemberChurches[m]: the churches m belongs to
    ItemChurch,      \* ItemChurch[i]: the church that stores item i
    None

ItemStatus == {"available", "on_loan", "maintenance", "damaged"}
LoanStatus == {"pending", "active", "returned", "returned_with_issue", "rejected"}
Conditions == {"good", "damaged", "lost"}
Refusals   == {"not_found", "unavailable", "target_not_found", "already_deleted"}

ASSUME ParametersOK ==
    /\ Staff \subseteq Members
    /\ TokenChurch \in [Members -> Churches]
    /\ MemberChurches \in [Members -> SUBSET Churches]
    /\ ItemChurch \in [Items -> Churches]

ASSUME NoneIsNew == None \notin Items \cup Loans \cup Members \cup Targets

VARIABLES
    itemStatus,  \* itemStatus[i]: column items.status, "absent" before the row exists
    deleted,     \* items whose deleted_at is set
    loans,       \* loans[l]: the loan row
    req,         \* req[r]: the request served in slot r
    statusFrom   \* history: the loan whose step last wrote itemStatus[i], None
                 \* when that was the insert of the item or a manual edit

itemVars == <<itemStatus, deleted, statusFrom>>
vars == <<itemStatus, deleted, loans, req, statusFrom>>

LoanRow ==
    [status : LoanStatus \cup {"absent"}, item : Items \cup {None},
     requestedBy : Members \cup {None}, approvedBy : Members \cup {None},
     target : Targets \cup {None}]

\* pc says which statement the request runs next; answer is what the client
\* is told; wrote says whether a write of this request has been committed.
Request ==
    [op : {"none", "item", "edit", "dispose", "create", "approve", "reject", "return"},
     pc : {"softDelete", "checkTarget", "insert", "reread", "over"},
     user : Members \cup {None}, item : Items \cup {None},
     loan : Loans \cup {None}, target : Targets \cup {None},
     answer : Refusals \cup {"none", "ok", "lost"}, wrote : BOOLEAN]

TypeOK ==
    /\ itemStatus \in [Items -> ItemStatus \cup {"absent"}]
    /\ deleted \in SUBSET Items
    /\ loans \in [Loans -> LoanRow]
    /\ req \in [Requests -> Request]
    /\ statusFrom \in [Items -> Loans \cup {None}]

NoLoan == [status |-> "absent", item |-> None, requestedBy |-> None,
           approvedBy |-> None, target |-> None]

NoRequest == [op |-> "none", pc |-> "over", user |-> None, item |-> None,
              loan |-> None, target |-> None, answer |-> "none", wrote |-> FALSE]

Init ==
    /\ itemStatus = [i \in Items |-> "absent"]
    /\ deleted = {}
    /\ loans = [l \in Loans |-> NoLoan]
    /\ req = [r \in Requests |-> NoRequest]
    /\ statusFrom = [i \in Items |-> None]

-----------------------------------------------------------------------------
(* The repository: what each statement or transaction reads and writes.    *)

\* Operators named "...Bug" are not part of the specification: each is the
\* definition that follows it with one plausible mistake, which the checked
\* properties must be able to tell apart from the code.

\* The read of an item without its church filter.
FindItemBug(i, c) == itemStatus[i] # "absent"

\* GetItemByID and GetLoanByID find a row only inside the caller's church.
FindItem(i, c) == itemStatus[i] # "absent" /\ ItemChurch[i] = c

FindLoan(l, c) == loans[l].status # "absent" /\ ItemChurch[loans[l].item] = c

LoanWritesItem(l, i, status) ==
    /\ itemStatus' = [itemStatus EXCEPT ![i] = status]
    /\ statusFrom' = [statusFrom EXCEPT ![i] = l]
    /\ UNCHANGED deleted

RepoCreateItem(i) ==
    /\ itemStatus[i] = "absent"
    /\ itemStatus' = [itemStatus EXCEPT ![i] = "available"]
    /\ UNCHANGED <<deleted, loans, statusFrom>>

\* The edit without "AND deleted_at IS NULL".
EditableBug(i, c) == FindItem(i, c)

\* The guard of UPDATE items: found in the church and not soft-deleted.
Editable(i, c) == FindItem(i, c) /\ i \notin deleted

RepoUpdateItem(i, c, status) ==
    /\ Editable(i, c)
    /\ itemStatus' = [itemStatus EXCEPT ![i] = status]
    /\ statusFrom' = [statusFrom EXCEPT ![i] = None]
    /\ UNCHANGED <<deleted, loans>>

RepoSoftDeleteItem(i, c) ==
    /\ Editable(i, c)
    /\ deleted' = deleted \cup {i}
    /\ UNCHANGED <<itemStatus, loans, statusFrom>>

\* INSERT of a pending loan: the item is not looked at again.
RepoCreateLoan(l, i, u, t) ==
    /\ loans[l].status = "absent"
    /\ loans' = [loans EXCEPT ![l] = [status |-> "pending", item |-> i,
                   requestedBy |-> u, approvedBy |-> None, target |-> t]]
    /\ UNCHANGED itemVars

\* INSERT of an active loan and UPDATE of its item, in one transaction.
RepoCreateLoanActive(l, i, u, t) ==
    /\ loans[l].status = "absent"
    /\ loans' = [loans EXCEPT ![l] = [status |-> "active", item |-> i,
                   requestedBy |-> u, approvedBy |-> u, target |-> t]]
    /\ LoanWritesItem(l, i, "on_loan")

\* The approval without "AND status = 'pending'".
ApprovableBug(l) == loans[l].status # "absent"

Approvable(l) == loans[l].status = "pending"

\* The approval looks only at the loan's status: not at its church, nor at
\* the status or the deletion of its item.
RepoApproveLoan(l, u) ==
    /\ Approvable(l)
    /\ loans' = [loans EXCEPT ![l] = [@ EXCEPT !.status = "active", !.approvedBy = u]]
    /\ LoanWritesItem(l, loans[l].item, "on_loan")

\* The rejection without the church of the caller.
RejectableBug(l, c) == loans[l].status = "pending"

Rejectable(l, c) == loans[l].status = "pending" /\ ItemChurch[loans[l].item] = c

RepoRejectLoan(l, c) ==
    /\ Rejectable(l, c)
    /\ loans' = [loans EXCEPT ![l].status = "rejected"]
    /\ UNCHANGED itemVars

\* The return without "AND status = 'active'".
ReturnableBug(l, c) == loans[l].status # "absent" /\ ItemChurch[loans[l].item] = c

Returnable(l, c) == loans[l].status = "active" /\ ItemChurch[loans[l].item] = c

ReturnedAs(cond) == IF cond = "good" THEN "returned" ELSE "returned_with_issue"

\* The condition written to the item as it is.
ItemAfterReturnBug(cond) == IF cond = "good" THEN "available" ELSE cond

ItemAfterReturn(cond) ==
    CASE cond = "damaged" -> "damaged"
      [] cond = "lost"    -> "maintenance"
      [] OTHER            -> "available"

\* The return without the update of the item.
RepoReturnLoanBug(l, c, cond) ==
    /\ Returnable(l, c)
    /\ loans' = [loans EXCEPT ![l].status = ReturnedAs(cond)]
    /\ UNCHANGED itemVars

RepoReturnLoan(l, c, cond) ==
    /\ Returnable(l, c)
    /\ loans' = [loans EXCEPT ![l].status = ReturnedAs(cond)]
    /\ LoanWritesItem(l, loans[l].item, ItemAfterReturn(cond))

\* member: an open membership in the church; church: the row exists.
TargetExists(t, c) ==
    \/ t \in Members /\ c \in MemberChurches[t]
    \/ t \in Churches

-----------------------------------------------------------------------------
(* Requests: the handlers and the service, statement by statement.         *)

Free(r) == req[r].pc = "over"

\* The request in slot r ends with an answer; this step writes nothing.
Finish(r, call, answer) ==
    /\ req' = [req EXCEPT ![r] = [call EXCEPT !.pc = "over", !.answer = answer]]
    /\ UNCHANGED <<itemVars, loans>>

\* A request's write is committed; the row is read back for the answer.
Wrote(r, call) ==
    req' = [req EXCEPT ![r] = [call EXCEPT !.pc = "reread", !.wrote = TRUE]]

Continue(r, call, pc) ==
    /\ req' = [req EXCEPT ![r] = [call EXCEPT !.pc = pc]]
    /\ UNCHANGED <<itemVars, loans>>

CallOnItem(op, u, i) == [NoRequest EXCEPT !.op = op, !.user = u, !.item = i]
CallOnLoan(op, u, l) == [NoRequest EXCEPT !.op = op, !.user = u, !.loan = l]

\* POST /inventory/items, for an item whose asset number is free.
CreateItem(r, u, i) ==
    /\ Free(r) /\ u \in Staff /\ ItemChurch[i] = TokenChurch[u]
    /\ RepoCreateItem(i)
    /\ Wrote(r, CallOnItem("item", u, i))

\* PUT /inventory/items/{id}: the client sends any status.
UpdateItem(r, u, i, status) ==
    LET call == CallOnItem("edit", u, i) IN
    /\ Free(r) /\ u \in Staff
    /\ \/ RepoUpdateItem(i, TokenChurch[u], status) /\ Wrote(r, call)
       \/ ~Editable(i, TokenChurch[u]) /\ Finish(r, call, "not_found")

\* POST /inventory/items/{id}/discard and /donate: first the read.
DisposeItem(r, u, i) ==
    LET call  == CallOnItem("dispose", u, i)
        found == FindItem(i, TokenChurch[u])
    IN
    /\ Free(r) /\ u \in Staff
    /\ \/ ~found /\ Finish(r, call, "not_found")
       \/ found /\ i \in deleted /\ Finish(r, call, "already_deleted")
       \/ found /\ i \notin deleted /\ Continue(r, call, "softDelete")

\* ... then the guarded update; its loser is told not found.
SoftDelete(r) ==
    LET call == req[r] IN
    /\ call.pc = "softDelete"
    /\ \/ /\ RepoSoftDeleteItem(call.item, TokenChurch[call.user])
          /\ \E answer \in {"ok", "lost"} :
                req' = [req EXCEPT ![r] =
                          [call EXCEPT !.pc = "over", !.wrote = TRUE, !.answer = answer]]
       \/ /\ ~Editable(call.item, TokenChurch[call.user])
          /\ Finish(r, call, "not_found")

\* POST /inventory/loans by any member: the item is read and checked ...
CreateLoan(r, u, i, t) ==
    LET call  == [CallOnItem("create", u, i) EXCEPT !.target = t]
        found == FindItem(i, TokenChurch[u])
        free  == i \notin deleted /\ itemStatus[i] = "available"
    IN
    /\ Free(r)
    /\ \/ ~found /\ Finish(r, call, "not_found")
       \/ found /\ ~free /\ Finish(r, call, "unavailable")
       \/ found /\ free /\ Continue(r, call, "checkTarget")

\* ... then the borrower ...
CheckTarget(r) ==
    LET call   == req[r]
        exists == TargetExists(call.target, TokenChurch[call.user])
    IN
    /\ call.pc = "checkTarget"
    /\ \/ exists /\ Continue(r, call, "insert")
       \/ ~exists /\ Finish(r, call, "target_not_found")

\* ... and the loan is stored: active for staff, pending for the others.
InsertLoan(r, l) ==
    LET call == req[r] IN
    /\ call.pc = "insert"
    /\ \/ /\ call.user \in Staff
          /\ RepoCreateLoanActive(l, call.item, call.user, call.target)
       \/ /\ call.user \notin Staff
          /\ RepoCreateLoan(l, call.item, call.user, call.target)
    /\ Wrote(r, [call EXCEPT !.loan = l])

\* POST /inventory/loans/{id}/approve
ApproveLoan(r, u, l) ==
    LET call == CallOnLoan("approve", u, l) IN
    /\ Free(r) /\ u \in Staff
    /\ \/ RepoApproveLoan(l, u) /\ Wrote(r, call)
       \/ ~Approvable(l) /\ Finish(r, call, "not_found")

\* POST /inventory/loans/{id}/reject
RejectLoan(r, u, l) ==
    LET call == CallOnLoan("reject", u, l) IN
    /\ Free(r) /\ u \in Staff
    /\ \/ RepoRejectLoan(l, TokenChurch[u]) /\ Wrote(r, call)
       \/ ~Rejectable(l, TokenChurch[u]) /\ Finish(r, call, "not_found")

\* POST /inventory/loans/{id}/return
ReturnLoan(r, u, l, cond) ==
    LET call == CallOnLoan("return", u, l) IN
    /\ Free(r) /\ u \in Staff
    /\ \/ RepoReturnLoan(l, TokenChurch[u], cond) /\ Wrote(r, call)
       \/ ~Returnable(l, TokenChurch[u]) /\ Finish(r, call, "not_found")

\* The committed row is read back: by its loan when there is one.
ReadBack(r) ==
    LET call  == req[r]
        c     == TokenChurch[call.user]
        found == IF call.loan = None THEN FindItem(call.item, c)
                                     ELSE FindLoan(call.loan, c)
    IN
    /\ call.pc = "reread"
    /\ Finish(r, call, IF found THEN "ok" ELSE "not_found")

\* The 30 s timeout, a client that leaves or a lost connection ends the
\* request between two statements; what it committed stays.
Abort(r) ==
    /\ req[r].pc # "over"
    /\ Finish(r, req[r], "lost")

Next ==
    \E r \in Requests :
        \/ \E u \in Members, i \in Items :
              \/ CreateItem(r, u, i)
              \/ \E s \in ItemStatus : UpdateItem(r, u, i, s)
              \/ DisposeItem(r, u, i)
              \/ \E t \in Targets : CreateLoan(r, u, i, t)
        \/ SoftDelete(r)
        \/ CheckTarget(r)
        \/ \E l \in Loans : InsertLoan(r, l)
        \/ \E u \in Members, l \in Loans :
              \/ ApproveLoan(r, u, l)
              \/ RejectLoan(r, u, l)
              \/ \E cond \in Conditions : ReturnLoan(r, u, l, cond)
        \/ ReadBack(r)
        \/ Abort(r)

Spec == Init /\ [][Next]_vars

-----------------------------------------------------------------------------
(* Properties.                                                             *)

Stored(l) == loans[l].status # "absent"

\* The status of an item is what the last of its loans to touch it, or the
\* last manual edit, left there.  When that was loan l, the item is shown as
\* on loan exactly while l is active: of several approvals, returns, edits
\* and discards racing on one item none can leave the status of one loan
\* with the lifecycle of another.
StatusExplained ==
    \A i \in Items : statusFrom[i] # None =>
        LET l == statusFrom[i] IN
        /\ loans[l].item = i
        /\ \/ loans[l].status = "active" /\ itemStatus[i] = "on_loan"
           \/ loans[l].status = "returned" /\ itemStatus[i] = "available"
           \/ loans[l].status = "returned_with_issue"
                 /\ itemStatus[i] \in {"damaged", "maintenance"}

\* Every stored loan is of a stored item of the requester's church, for a
\* borrower that was found, and carries a member of the staff as approver
\* exactly when it was ever active, although nothing is checked again at the
\* insert and the checks were made by other statements.
Provenance ==
    \A l \in Loans : Stored(l) =>
        LET loan == loans[l] IN
        /\ itemStatus[loan.item] # "absent"
        /\ ItemChurch[loan.item] = TokenChurch[loan.requestedBy]
        /\ TargetExists(loan.target, TokenChurch[loan.requestedBy])
        /\ IF loan.status \in {"pending", "rejected"} THEN loan.approvedBy = None
                                                     ELSE loan.approvedBy \in Staff

\* Of the approvals and rejections of one loan that overlap, one at most has
\* an effect, and the loan then bears the mark of that one.
DecidedOnce ==
    \A r \in Requests : req[r].wrote /\ req[r].op \in {"approve", "reject"} =>
        /\ \A q \in Requests \ {r} :
              ~( /\ req[q].wrote
                 /\ req[q].op \in {"approve", "reject"}
                 /\ req[q].loan = req[r].loan )
        /\ IF req[r].op = "reject"
              THEN loans[req[r].loan].status = "rejected"
              ELSE loans[req[r].loan].approvedBy = req[r].user

\* A client that is told "no" has changed nothing, with one exception: the
\* approval of a loan of another church is committed and then read back in
\* the caller's own church, where it is not found.
RefusalIsSilent ==
    \A r \in Requests : req[r].answer \in Refusals /\ req[r].wrote =>
        /\ req[r].op = "approve"
        /\ ItemChurch[loans[req[r].loan].item] # TokenChurch[req[r].user]

\* A discarded or donated item never comes back and is never edited again;
\* only the loans it still has can change its status.
DiscardIsFinal ==
    [][\A i \in deleted :
          /\ i \in deleted'
          /\ itemStatus'[i] # itemStatus[i] =>
                \E l \in Loans : /\ loans'[l].item = i
                                 /\ loans'[l].status # loans[l].status]_vars

\* Each loan row follows the lifecycle of LoanLifecycle.
Lifecycle == INSTANCE LoanLifecycle WITH
    Approvers <- Staff,
    stage     <- [l \in Loans |-> loans[l].status],
    approver  <- [l \in Loans |-> loans[l].approvedBy]

\* The loan table implements the lifecycle specification.
ImplementsLifecycle == Lifecycle!Spec

(* What the documents say and the code does not do. *)

\* IMPLEMENTED.md:243: an active loan is created on an item that is
\* available and not discarded (the check and the insert are two steps).
LentWhileAvailable ==
    [][\A l \in Loans : ~Stored(l) /\ loans'[l].status = "active" =>
          /\ itemStatus[loans'[l].item] = "available"
          /\ loans'[l].item \notin deleted]_vars
=============================================================================
