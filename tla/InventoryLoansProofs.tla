------------------------ MODULE InventoryLoansProofs ------------------------
(***************************************************************************)
(* Proofs about InventoryLoans, for any number of items, loans, members,   *)
(* churches and overlapping requests.                                      *)
(*                                                                         *)
(* The inductive invariant has two halves.  TableInv speaks of the rows    *)
(* only.  ReqInv ties each request to the rows it has read or written, and *)
(* survives the steps of the other requests because rows only move         *)
(* forward (RowsAdvance).                                                  *)
(***************************************************************************)
EXTENDS InventoryLoans, TLAPS

tables == <<itemStatus, deleted, loans, statusFrom>>

TablesType ==
    /\ itemStatus \in [Items -> ItemStatus \cup {"absent"}]
    /\ deleted \in SUBSET Items
    /\ loans \in [Loans -> LoanRow]
    /\ statusFrom \in [Items -> Loans \cup {None}]

Granted == {"active", "returned", "returned_with_issue"}

\* A row that is not stored yet is blank; a stored loan names an item and a
\* member.
RowsNamed ==
    \A l \in Loans :
        /\ ~Stored(l) => loans[l].approvedBy = None
        /\ Stored(l) => loans[l].item \in Items /\ loans[l].requestedBy \in Members

\* Only a stored item can be soft-deleted.
DeletedStored == \A i \in deleted : itemStatus[i] # "absent"

TableInv == TablesType /\ RowsNamed /\ DeletedStored /\ Provenance /\ StatusExplained

\* Between two statements a request holds what it has checked.
Checked(r) ==
    LET call == req[r] IN
    /\ call.pc = "softDelete" =>
         call.op = "dispose" /\ call.item \in Items /\ call.user \in Members
    /\ call.pc \in {"checkTarget", "insert"} =>
         /\ call.op = "create"
         /\ call.item \in Items /\ call.user \in Members /\ call.target \in Targets
         /\ FindItem(call.item, TokenChurch[call.user])
    /\ call.pc = "insert" => TargetExists(call.target, TokenChurch[call.user])
    /\ call.pc \in {"softDelete", "checkTarget", "insert"} =>
         ~call.wrote /\ call.answer = "none"

\* After its commit a request reads back a row that is stored, in its own
\* church unless it is an approval.
Committed(r) ==
    LET call == req[r] IN
    call.pc = "reread" =>
        /\ call.user \in Members /\ call.wrote /\ call.answer = "none"
        /\ call.loan = None =>
             call.item \in Items /\ FindItem(call.item, TokenChurch[call.user])
        /\ call.loan # None =>
             /\ call.loan \in Loans /\ Stored(call.loan)
             /\ call.op # "approve" => FindLoan(call.loan, TokenChurch[call.user])

\* A committed decision is still visible in the loan.
Decision(r) ==
    LET call == req[r] IN
    /\ call.wrote /\ call.op = "approve" =>
         /\ call.loan \in Loans
         /\ loans[call.loan].approvedBy = call.user
         /\ loans[call.loan].status \in Granted
    /\ call.wrote /\ call.op = "reject" =>
         call.loan \in Loans /\ loans[call.loan].status = "rejected"

Silent(r) ==
    LET call == req[r] IN
    call.answer \in Refusals /\ call.wrote =>
        /\ call.op = "approve"
        /\ ItemChurch[loans[call.loan].item] # TokenChurch[call.user]

ReqOK(r) == Checked(r) /\ Committed(r) /\ Decision(r) /\ Silent(r)

OneDecider ==
    \A q, r \in Requests :
        /\ q # r
        /\ req[q].wrote /\ req[q].op \in {"approve", "reject"}
        /\ req[r].wrote /\ req[r].op \in {"approve", "reject"}
        => req[q].loan # req[r].loan

IInv ==
    /\ TableInv
    /\ req \in [Requests -> Request]
    /\ \A r \in Requests : ReqOK(r)
    /\ OneDecider

-----------------------------------------------------------------------------
(* Type correctness.                                                       *)

\* A fresh request of user u about an item or a loan.
FreshOnItem(call, op, u, i) ==
    /\ call \in Request /\ call.op = op /\ call.user = u /\ call.item = i
    /\ call.loan = None /\ call.answer = "none" /\ call.wrote = FALSE

FreshOnLoan(call, op, u, l) ==
    /\ call \in Request /\ call.op = op /\ call.user = u /\ call.loan = l
    /\ call.answer = "none" /\ call.wrote = FALSE

LEMMA CallFields ==
    ASSUME NEW u \in Members
    PROVE  /\ \A op \in {"item", "edit", "dispose", "create"}, i \in Items :
                FreshOnItem(CallOnItem(op, u, i), op, u, i)
           /\ \A op \in {"approve", "reject", "return"}, l \in Loans :
                FreshOnLoan(CallOnLoan(op, u, l), op, u, l)
BY ZenonT(30) DEF CallOnItem, CallOnLoan, NoRequest, Request, FreshOnItem, FreshOnLoan

-----------------------------------------------------------------------------
(* What a step may do to the rows.                                         *)

\* Rows only move forward: nothing is removed, a loan keeps its item, a
\* granted loan its approver, a rejected loan its status.
RowsAdvance ==
    /\ \A i \in Items : itemStatus[i] # "absent" => itemStatus'[i] # "absent"
    /\ \A l \in Loans : Stored(l) =>
          /\ loans'[l].status # "absent"
          /\ loans'[l].item = loans[l].item
          /\ loans[l].status \in Granted =>
               loans'[l].status \in Granted /\ loans'[l].approvedBy = loans[l].approvedBy
          /\ loans[l].status = "rejected" => loans'[l].status = "rejected"

\* The insert of a loan, with what the earlier statements established.
CheckedInsert(l) ==
    \E i \in Items, u \in Members, t \in Targets :
        /\ FindItem(i, TokenChurch[u])
        /\ TargetExists(t, TokenChurch[u])
        /\ \/ u \in Staff /\ RepoCreateLoanActive(l, i, u, t)
           \/ u \notin Staff /\ RepoCreateLoan(l, i, u, t)

TableStep ==
    \/ UNCHANGED tables
    \/ \E i \in Items : RepoCreateItem(i)
    \/ \E i \in Items, c \in Churches, s \in ItemStatus : RepoUpdateItem(i, c, s)
    \/ \E i \in Items, c \in Churches : RepoSoftDeleteItem(i, c)
    \/ \E l \in Loans : CheckedInsert(l)
    \/ \E l \in Loans, u \in Staff : RepoApproveLoan(l, u)
    \/ \E l \in Loans, c \in Churches : RepoRejectLoan(l, c)
    \/ \E l \in Loans, c \in Churches, d \in Conditions : RepoReturnLoan(l, c, d)

LEMMA StepOnTables ==
    ASSUME IInv, Next
    PROVE  TableStep
<1> USE DEF tables, itemVars
<1>0. \A u \in Members : TokenChurch[u] \in Churches
  BY ParametersOK
<1>1. ASSUME NEW r \in Requests, NEW u \in Members, NEW i \in Items, CreateItem(r, u, i)
      PROVE  TableStep
  BY <1>1 DEF CreateItem, TableStep
<1>2. ASSUME NEW r \in Requests, NEW u \in Members, NEW i \in Items,
             NEW s \in ItemStatus, UpdateItem(r, u, i, s)
      PROVE  TableStep
  BY <1>0, <1>2 DEF UpdateItem, Finish, TableStep
<1>3. ASSUME NEW r \in Requests, NEW u \in Members, NEW i \in Items, DisposeItem(r, u, i)
      PROVE  TableStep
  BY <1>3 DEF DisposeItem, Finish, Continue, TableStep
<1>4. ASSUME NEW r \in Requests, NEW u \in Members, NEW i \in Items,
             NEW t \in Targets, CreateLoan(r, u, i, t)
      PROVE  TableStep
  BY <1>4 DEF CreateLoan, Finish, Continue, TableStep
<1>5. ASSUME NEW r \in Requests, SoftDelete(r)
      PROVE  TableStep
  BY <1>0, <1>5 DEF SoftDelete, Finish, TableStep, IInv, ReqOK, Checked
<1>6. ASSUME NEW r \in Requests, CheckTarget(r)
      PROVE  TableStep
  BY <1>6 DEF CheckTarget, Finish, Continue, TableStep
<1>7. ASSUME NEW r \in Requests, NEW l \in Loans, InsertLoan(r, l)
      PROVE  TableStep
  <2>1. CheckedInsert(l)
    BY <1>7 DEF InsertLoan, CheckedInsert, IInv, ReqOK, Checked
  <2>2. QED
    BY <2>1 DEF TableStep
<1>8. ASSUME NEW r \in Requests, NEW u \in Members, NEW l \in Loans,
             \/ ApproveLoan(r, u, l)
             \/ RejectLoan(r, u, l)
             \/ \E d \in Conditions : ReturnLoan(r, u, l, d)
      PROVE  TableStep
  BY <1>0, <1>8 DEF ApproveLoan, RejectLoan, ReturnLoan, Finish, TableStep
<1>9. ASSUME NEW r \in Requests, ReadBack(r) \/ Abort(r)
      PROVE  TableStep
  BY <1>9 DEF ReadBack, Abort, Finish, TableStep
<1>10. QED
  BY <1>1, <1>2, <1>3, <1>4, <1>5, <1>6, <1>7, <1>8, <1>9 DEF Next

LEMMA RepoTypes ==
    ASSUME IInv, TableStep
    PROVE  TablesType'
<1> USE NoneIsNew DEF TablesType, IInv, TableInv, LoanRow, LoanStatus, ItemStatus,
                     itemVars, LoanWritesItem
<1>1. CASE UNCHANGED tables
  BY <1>1 DEF tables
<1>2. ASSUME NEW i \in Items, RepoCreateItem(i)
      PROVE  TablesType'
  BY <1>2 DEF RepoCreateItem
<1>3. ASSUME NEW i \in Items, NEW c \in Churches, NEW s \in ItemStatus,
             RepoUpdateItem(i, c, s)
      PROVE  TablesType'
  BY <1>3 DEF RepoUpdateItem
<1>4. ASSUME NEW i \in Items, NEW c \in Churches, RepoSoftDeleteItem(i, c)
      PROVE  TablesType'
  BY <1>4 DEF RepoSoftDeleteItem
<1>5. ASSUME NEW l \in Loans, CheckedInsert(l)
      PROVE  TablesType'
  <2>1. PICK i \in Items, u \in Members, t \in Targets :
          RepoCreateLoanActive(l, i, u, t) \/ RepoCreateLoan(l, i, u, t)
    BY <1>5 DEF CheckedInsert
  <2>2. CASE RepoCreateLoanActive(l, i, u, t)
    BY <2>2 DEF RepoCreateLoanActive
  <2>3. CASE RepoCreateLoan(l, i, u, t)
    BY <2>3 DEF RepoCreateLoan
  <2>4. QED
    BY <2>1, <2>2, <2>3
<1>6. ASSUME NEW l \in Loans, NEW u \in Staff, RepoApproveLoan(l, u)
      PROVE  TablesType'
  <2>1. loans[l].item \in Items /\ u \in Members
    BY <1>6, ParametersOK DEF RepoApproveLoan, Approvable, RowsNamed, Stored
  <2>2. [loans[l] EXCEPT !.status = "active", !.approvedBy = u] \in LoanRow
    BY <2>1, ZenonT(90)
  <2>3. QED
    BY <1>6, <2>1, <2>2 DEF RepoApproveLoan
<1>7. ASSUME NEW l \in Loans, NEW c \in Churches, RepoRejectLoan(l, c)
      PROVE  TablesType'
  BY <1>7 DEF RepoRejectLoan
<1>8. ASSUME NEW l \in Loans, NEW c \in Churches, NEW d \in Conditions,
             RepoReturnLoan(l, c, d)
      PROVE  TablesType'
  <2>1. loans[l].item \in Items
    BY <1>8 DEF RepoReturnLoan, Returnable, RowsNamed, Stored
  <2>2. ReturnedAs(d) \in LoanStatus /\ ItemAfterReturn(d) \in ItemStatus
    BY DEF ReturnedAs, ItemAfterReturn
  <2>3. QED
    BY <1>8, <2>1, <2>2 DEF RepoReturnLoan
<1>9. QED
  BY <1>1, <1>2, <1>3, <1>4, <1>5, <1>6, <1>7, <1>8 DEF TableStep

LEMMA RowsOnlyAdvance ==
    ASSUME IInv, TableStep
    PROVE  RowsAdvance
<1> USE DEF TablesType, IInv, TableInv, LoanRow, LoanStatus, ItemStatus,
            itemVars, LoanWritesItem, RowsAdvance, Stored, Granted
<1>1. CASE UNCHANGED tables
  BY <1>1 DEF tables
<1>2. ASSUME NEW i \in Items, RepoCreateItem(i)
      PROVE  RowsAdvance
  BY <1>2 DEF RepoCreateItem
<1>3. ASSUME NEW i \in Items, NEW c \in Churches, NEW s \in ItemStatus,
             RepoUpdateItem(i, c, s)
      PROVE  RowsAdvance
  BY <1>3 DEF RepoUpdateItem
<1>4. ASSUME NEW i \in Items, NEW c \in Churches, RepoSoftDeleteItem(i, c)
      PROVE  RowsAdvance
  BY <1>4 DEF RepoSoftDeleteItem
<1>5. ASSUME NEW l \in Loans, CheckedInsert(l)
      PROVE  RowsAdvance
  BY <1>5 DEF CheckedInsert, RepoCreateLoan, RepoCreateLoanActive
<1>6. ASSUME NEW l \in Loans, NEW u \in Staff, RepoApproveLoan(l, u)
      PROVE  RowsAdvance
  BY <1>6 DEF RepoApproveLoan, Approvable
<1>7. ASSUME NEW l \in Loans, NEW c \in Churches, RepoRejectLoan(l, c)
      PROVE  RowsAdvance
  BY <1>7 DEF RepoRejectLoan, Rejectable
<1>8. ASSUME NEW l \in Loans, NEW c \in Churches, NEW d \in Conditions,
             RepoReturnLoan(l, c, d)
      PROVE  RowsAdvance
  BY <1>8 DEF RepoReturnLoan, Returnable, ReturnedAs, ItemAfterReturn
<1>9. QED
  BY <1>1, <1>2, <1>3, <1>4, <1>5, <1>6, <1>7, <1>8 DEF TableStep

\* The three transitions of a stored loan, row by row.
LoanMoves(l, status, approvedBy) ==
    /\ \A k \in Loans \ {l} : loans'[k] = loans[k]
    /\ Stored(l)
    /\ loans'[l].item = loans[l].item
    /\ loans'[l].requestedBy = loans[l].requestedBy
    /\ loans'[l].target = loans[l].target
    /\ loans'[l].status = status
    /\ loans'[l].approvedBy = approvedBy

LEMMA Transitions ==
    ASSUME TablesType, NEW l \in Loans
    PROVE  /\ \A u \in Staff : RepoApproveLoan(l, u) => LoanMoves(l, "active", u)
           /\ \A c \in Churches : RepoRejectLoan(l, c) =>
                LoanMoves(l, "rejected", loans[l].approvedBy)
           /\ \A c \in Churches, d \in Conditions : RepoReturnLoan(l, c, d) =>
                LoanMoves(l, ReturnedAs(d), loans[l].approvedBy)
<1> USE DEF TablesType, LoanRow, LoanMoves, Stored
<1>1. ASSUME NEW u \in Staff, RepoApproveLoan(l, u)
      PROVE  LoanMoves(l, "active", u)
  BY <1>1 DEF RepoApproveLoan, Approvable
<1>2. ASSUME NEW c \in Churches, RepoRejectLoan(l, c)
      PROVE  LoanMoves(l, "rejected", loans[l].approvedBy)
  BY <1>2 DEF RepoRejectLoan, Rejectable
<1>3. ASSUME NEW c \in Churches, NEW d \in Conditions, RepoReturnLoan(l, c, d)
      PROVE  LoanMoves(l, ReturnedAs(d), loans[l].approvedBy)
  BY <1>3 DEF RepoReturnLoan, Returnable
<1>4. QED
  BY <1>1, <1>2, <1>3

\* No statement breaks what is stored about a loan's origin.
LEMMA ProvenanceStep ==
    ASSUME IInv, TableStep
    PROVE  (RowsNamed /\ Provenance)'
<1> USE RowsOnlyAdvance, RepoTypes
<1> USE DEF itemVars, LoanWritesItem, TablesType
<1>1. CASE UNCHANGED tables
  BY <1>1 DEF tables, IInv, TableInv, RowsNamed, Provenance, Stored, TargetExists
<1>2. CASE UNCHANGED loans
  BY <1>2 DEF IInv, TableInv, RowsNamed, Provenance, RowsAdvance, Stored, TargetExists
<1>3. ASSUME NEW l \in Loans, CheckedInsert(l)
      PROVE  (RowsNamed /\ Provenance)'
  <2>1. PICK i \in Items, u \in Members, t \in Targets :
          /\ FindItem(i, TokenChurch[u])
          /\ TargetExists(t, TokenChurch[u])
          /\ \/ u \in Staff /\ RepoCreateLoanActive(l, i, u, t)
             \/ u \notin Staff /\ RepoCreateLoan(l, i, u, t)
    BY <1>3 DEF CheckedInsert
  <2>2. \A k \in Loans \ {l} : loans'[k] = loans[k]
    BY <2>1 DEF RepoCreateLoan, RepoCreateLoanActive, IInv, TableInv
  <2>3. /\ loans'[l].item = i /\ loans'[l].requestedBy = u /\ loans'[l].target = t
        /\ \/ loans'[l].status = "active" /\ loans'[l].approvedBy = u /\ u \in Staff
           \/ loans'[l].status = "pending" /\ loans'[l].approvedBy = None
    BY <2>1 DEF RepoCreateLoan, RepoCreateLoanActive, IInv, TableInv
  <2>4. \A k \in Items : itemStatus[k] # "absent" => itemStatus'[k] # "absent"
    BY DEF RowsAdvance
  <2>5. QED
    BY <2>1, <2>2, <2>3, <2>4
       DEF IInv, TableInv, RowsNamed, Provenance, Stored, FindItem, TargetExists
<1>4. ASSUME NEW l \in Loans,
             \/ \E u \in Staff : RepoApproveLoan(l, u)
             \/ \E c \in Churches : RepoRejectLoan(l, c)
             \/ \E c \in Churches, d \in Conditions : RepoReturnLoan(l, c, d)
      PROVE  (RowsNamed /\ Provenance)'
  <2>1. PICK status, approvedBy : LoanMoves(l, status, approvedBy)
    BY <1>4, Transitions DEF IInv, TableInv
  <2>2. /\ status # "absent"
        /\ IF status \in {"pending", "rejected"} THEN approvedBy = None
                                                ELSE approvedBy \in Staff
    <3>1. CASE \E u \in Staff : RepoApproveLoan(l, u)
      BY <2>1, <3>1, Transitions DEF IInv, TableInv, LoanMoves
    <3>2. CASE \E c \in Churches : RepoRejectLoan(l, c)
      BY <2>1, <3>2, Transitions
         DEF IInv, TableInv, LoanMoves, Provenance, Stored, RepoRejectLoan, Rejectable
    <3>3. CASE \E c \in Churches, d \in Conditions : RepoReturnLoan(l, c, d)
      BY <2>1, <3>3, Transitions
         DEF IInv, TableInv, LoanMoves, Provenance, Stored, RepoReturnLoan, Returnable,
             ReturnedAs
    <3>4. QED
      BY <1>4, <3>1, <3>2, <3>3
  <2>3. \A k \in Items : itemStatus[k] # "absent" => itemStatus'[k] # "absent"
    BY DEF RowsAdvance
  <2>4. QED
    BY <2>1, <2>2, <2>3
       DEF IInv, TableInv, RowsNamed, Provenance, Stored, TargetExists, LoanMoves
<1>5. QED
  BY <1>1, <1>2, <1>3, <1>4
     DEF TableStep, RepoCreateItem, RepoUpdateItem, RepoSoftDeleteItem

\* A loan's step writes its item's status, and only that loan's step leaves
\* its name there.
LEMMA StatusStep ==
    ASSUME IInv, TableStep
    PROVE  StatusExplained'
<1> USE RepoTypes, Transitions, NoneIsNew DEF itemVars, LoanWritesItem, TablesType
<1>1. CASE UNCHANGED tables
  BY <1>1 DEF tables, IInv, TableInv, StatusExplained
<1>2. ASSUME NEW i \in Items, RepoCreateItem(i)
      PROVE  StatusExplained'
  <2>1. \A j \in Items : statusFrom[j] # None => itemStatus[j] # "absent"
    BY DEF IInv, TableInv, StatusExplained
  <2>2. statusFrom[i] = None
    BY <1>2, <2>1 DEF RepoCreateItem
  <2>3. UNCHANGED <<loans, statusFrom>>
    BY <1>2 DEF RepoCreateItem
  <2>4. \A j \in Items \ {i} : itemStatus'[j] = itemStatus[j]
    BY <1>2 DEF RepoCreateItem, IInv, TableInv
  <2>5. QED
    BY <2>2, <2>3, <2>4 DEF IInv, TableInv, StatusExplained
<1>3. ASSUME NEW i \in Items, NEW c \in Churches, NEW s \in ItemStatus,
             RepoUpdateItem(i, c, s)
      PROVE  StatusExplained'
  BY <1>3 DEF RepoUpdateItem, IInv, TableInv, StatusExplained
<1>4. ASSUME NEW i \in Items, NEW c \in Churches, RepoSoftDeleteItem(i, c)
      PROVE  StatusExplained'
  BY <1>4 DEF RepoSoftDeleteItem, IInv, TableInv, StatusExplained
<1>5. ASSUME NEW l \in Loans, CheckedInsert(l)
      PROVE  StatusExplained'
  <2>1. loans[l].status = "absent"
    BY <1>5 DEF CheckedInsert, RepoCreateLoan, RepoCreateLoanActive
  <2>2. \A j \in Items : statusFrom[j] # l
    BY <2>1 DEF IInv, TableInv, StatusExplained
  <2>3. PICK i \in Items, u \in Members, t \in Targets :
          \/ RepoCreateLoanActive(l, i, u, t)
          \/ RepoCreateLoan(l, i, u, t)
    BY <1>5 DEF CheckedInsert
  <2>4. QED
    BY <2>2, <2>3 DEF RepoCreateLoan, RepoCreateLoanActive,
                      IInv, TableInv, StatusExplained
<1>6. ASSUME NEW l \in Loans, NEW u \in Staff, RepoApproveLoan(l, u)
      PROVE  StatusExplained'
  <2>1. LoanMoves(l, "active", u) /\ loans[l].item \in Items
    BY <1>6 DEF IInv, TableInv, RowsNamed, LoanMoves
  <2>2. loans[l].status = "pending"
    BY <1>6 DEF RepoApproveLoan, Approvable
  <2>3. \A j \in Items : statusFrom[j] # l
    BY <2>2 DEF IInv, TableInv, StatusExplained
  <2>4. /\ itemStatus' = [itemStatus EXCEPT ![loans[l].item] = "on_loan"]
        /\ statusFrom' = [statusFrom EXCEPT ![loans[l].item] = l]
    BY <1>6 DEF RepoApproveLoan
  <2>5. QED
    BY <2>1, <2>3, <2>4 DEF LoanMoves, IInv, TableInv, StatusExplained
<1>7. ASSUME NEW l \in Loans, NEW c \in Churches, RepoRejectLoan(l, c)
      PROVE  StatusExplained'
  <2>1. LoanMoves(l, "rejected", loans[l].approvedBy)
    BY <1>7 DEF IInv, TableInv
  <2>2. \A j \in Items : statusFrom[j] # l
    BY <1>7 DEF RepoRejectLoan, Rejectable, IInv, TableInv, StatusExplained
  <2>3. QED
    BY <1>7, <2>1, <2>2 DEF RepoRejectLoan, LoanMoves, IInv, TableInv, StatusExplained
<1>8. ASSUME NEW l \in Loans, NEW c \in Churches, NEW d \in Conditions,
             RepoReturnLoan(l, c, d)
      PROVE  StatusExplained'
  <2>1. LoanMoves(l, ReturnedAs(d), loans[l].approvedBy) /\ loans[l].item \in Items
    BY <1>8 DEF IInv, TableInv, RowsNamed, LoanMoves
  <2>2. \A j \in Items : statusFrom[j] = l => j = loans[l].item
    BY DEF IInv, TableInv, StatusExplained
  <2>3. \/ ReturnedAs(d) = "returned" /\ ItemAfterReturn(d) = "available"
        \/ /\ ReturnedAs(d) = "returned_with_issue"
           /\ ItemAfterReturn(d) \in {"damaged", "maintenance"}
    BY DEF ReturnedAs, ItemAfterReturn, Conditions
  <2>4. QED
    BY <1>8, <2>1, <2>2, <2>3
       DEF RepoReturnLoan, LoanMoves, IInv, TableInv, StatusExplained
<1>9. QED
  BY <1>1, <1>2, <1>3, <1>4, <1>5, <1>6, <1>7, <1>8 DEF TableStep

\* The guard of the soft delete finds the item first.
LEMMA DeletedStep ==
    ASSUME IInv, TableStep
    PROVE  DeletedStored'
<1> USE DEF IInv, TableInv, DeletedStored, itemVars, LoanWritesItem
<1>1. \A i \in Items : itemStatus[i] # "absent" => itemStatus'[i] # "absent"
  BY RowsOnlyAdvance DEF RowsAdvance
<1>2. \A i \in deleted' \ deleted : i \in Items /\ itemStatus[i] # "absent"
  <2>1. ASSUME NEW i \in Items, NEW c \in Churches, RepoSoftDeleteItem(i, c)
        PROVE  \A k \in deleted' \ deleted : k \in Items /\ itemStatus[k] # "absent"
    BY <2>1 DEF RepoSoftDeleteItem, Editable, FindItem
  <2>2. CASE UNCHANGED deleted
    BY <2>2
  <2>3. QED
    BY <2>1, <2>2 DEF TableStep, tables, RepoCreateItem, RepoUpdateItem, CheckedInsert,
         RepoCreateLoan, RepoCreateLoanActive, RepoApproveLoan, RepoRejectLoan,
         RepoReturnLoan
<1>3. QED
  BY <1>1, <1>2 DEF TablesType

-----------------------------------------------------------------------------
(* Requests.                                                               *)

Decides(call) == call.wrote /\ call.op \in {"approve", "reject"}

RequestsInv ==
    /\ req \in [Requests -> Request]
    /\ \A r \in Requests : ReqOK(r)
    /\ OneDecider

\* The steps of one request leave what the others hold true.
LEMMA OtherSlot ==
    ASSUME IInv, RowsAdvance, NEW q \in Requests, req'[q] = req[q]
    PROVE  ReqOK(q)'
<1> USE DEF IInv, ReqOK, RowsAdvance, Stored, FindItem, FindLoan
<1>1. Checked(q)'
  BY DEF Checked, TargetExists
<1>2. Committed(q)'
  BY DEF Committed
<1>3. Decision(q)'
  BY DEF Decision, Granted
<1>4. Silent(q)'
  BY DEF Silent, Decision, Granted
<1>5. QED
  BY <1>1, <1>2, <1>3, <1>4

\* It is enough to look at the slot that moved.
LEMMA SlotFrame ==
    ASSUME IInv, TableStep, NEW r \in Requests, NEW new \in Request,
           req' = [req EXCEPT ![r] = new],
           ReqOK(r)',
           Decides(new) => \A q \in Requests \ {r} :
                              Decides(req[q]) => req[q].loan # new.loan
    PROVE  RequestsInv'
<1>1. req' \in [Requests -> Request]
  BY DEF IInv
<1>2. req'[r] = new /\ \A q \in Requests \ {r} : req'[q] = req[q]
  BY DEF IInv
<1>3. \A q \in Requests : ReqOK(q)'
  BY <1>2, OtherSlot, RowsOnlyAdvance
<1>4. OneDecider'
  BY <1>2 DEF IInv, OneDecider, Decides
<1>5. QED
  BY <1>1, <1>3, <1>4 DEF RequestsInv

\* A new request that is refused, or goes on to its next statement.
LEMMA OpeningStep ==
    ASSUME IInv, TableStep, NEW r \in Requests, NEW u \in Members,
           \/ \E i \in Items, s \in ItemStatus :
                UpdateItem(r, u, i, s) /\ ~Editable(i, TokenChurch[u])
           \/ \E i \in Items : DisposeItem(r, u, i)
           \/ \E i \in Items, t \in Targets : CreateLoan(r, u, i, t)
           \/ \E l \in Loans : ApproveLoan(r, u, l) /\ ~Approvable(l)
           \/ \E l \in Loans :
                RejectLoan(r, u, l) /\ ~Rejectable(l, TokenChurch[u])
           \/ \E l \in Loans, d \in Conditions :
                ReturnLoan(r, u, l, d) /\ ~Returnable(l, TokenChurch[u])
    PROVE  RequestsInv'
<1> DEFINE Refused(new) ==
      /\ new \in Request /\ new.pc = "over" /\ new.wrote = FALSE
<1>1. \A call \in Request, a \in Refusals :
        call.wrote = FALSE /\ Finish(r, call, a) =>
          \E new : Refused(new) /\ req' = [req EXCEPT ![r] = new]
  <2>1. \A call \in Request, a \in Refusals :
          call.wrote = FALSE => Refused([call EXCEPT !.pc = "over", !.answer = a])
    BY DEF Request
  <2>2. QED
    BY <2>1 DEF Finish
<1>2. \A new : Refused(new) /\ req' = [req EXCEPT ![r] = new] => RequestsInv'
  <2>1. SUFFICES ASSUME NEW new, Refused(new), req' = [req EXCEPT ![r] = new]
                 PROVE  RequestsInv'
    OBVIOUS
  <2>2. req'[r] = new
    BY <2>1 DEF IInv
  <2>3. ReqOK(r)'
    BY <2>1, <2>2 DEF ReqOK, Checked, Committed, Decision, Silent
  <2>4. QED
    BY <2>1, <2>3, SlotFrame DEF Decides
<1>3. \A op \in {"edit", "dispose", "create"}, i \in Items :
        FreshOnItem(CallOnItem(op, u, i), op, u, i)
  BY CallFields
<1>4. \A op \in {"approve", "reject", "return"}, l \in Loans :
        FreshOnLoan(CallOnLoan(op, u, l), op, u, l)
  BY CallFields
<1>5. Refusals = {"not_found", "unavailable", "target_not_found", "already_deleted"}
  BY DEF Refusals
<1> HIDE DEF Refused
<1>6. CASE \E i \in Items, s \in ItemStatus :
             UpdateItem(r, u, i, s) /\ ~Editable(i, TokenChurch[u])
  BY <1>6, <1>1, <1>2, <1>3, <1>5 DEF UpdateItem, RepoUpdateItem, FreshOnItem
<1>7. ASSUME NEW i \in Items, DisposeItem(r, u, i)
      PROVE  RequestsInv'
  <2> DEFINE call == CallOnItem("dispose", u, i)
  <2>1. CASE \E a \in Refusals : Finish(r, call, a)
    BY <2>1, <1>1, <1>2, <1>3 DEF FreshOnItem
  <2>2. CASE Continue(r, call, "softDelete")
    <3> DEFINE new == [call EXCEPT !.pc = "softDelete"]
    <3>1. /\ new \in Request /\ req' = [req EXCEPT ![r] = new]
          /\ new.pc = "softDelete" /\ new.wrote = FALSE
          /\ new.op = "dispose" /\ new.answer = "none"
          /\ new.item = i /\ new.user = u
      BY <2>2, <1>3 DEF Continue, FreshOnItem, Request
    <3>2. req'[r] = new
      BY <3>1 DEF IInv
    <3> HIDE DEF new
    <3>3. ReqOK(r)'
      BY <3>1, <3>2 DEF ReqOK, Checked, Committed, Decision, Silent
    <3>4. QED
      BY <3>1, <3>3, SlotFrame DEF Decides
  <2>3. QED
    BY <1>5, <1>7, <2>1, <2>2 DEF DisposeItem
<1>8. ASSUME NEW i \in Items, NEW t \in Targets, CreateLoan(r, u, i, t)
      PROVE  RequestsInv'
  <2> DEFINE call == [CallOnItem("create", u, i) EXCEPT !.target = t]
  <2>0. FreshOnItem(call, "create", u, i) /\ call.target = t
    BY <1>3 DEF FreshOnItem, Request
  <2>1. CASE \E a \in Refusals : Finish(r, call, a)
    BY <2>0, <2>1, <1>1, <1>2 DEF FreshOnItem
  <2>2. CASE FindItem(i, TokenChurch[u]) /\ Continue(r, call, "checkTarget")
    <3> DEFINE new == [call EXCEPT !.pc = "checkTarget"]
    <3>1. /\ new \in Request /\ req' = [req EXCEPT ![r] = new]
          /\ new.pc = "checkTarget" /\ new.wrote = FALSE /\ new.op = "create"
          /\ new.answer = "none"
          /\ new.item = i /\ new.user = u /\ new.target = t
      BY <2>0, <2>2 DEF Continue, FreshOnItem, Request
    <3>2. req'[r] = new
      BY <3>1 DEF IInv
    <3>3. FindItem(i, TokenChurch[u])'
      BY <2>2, RowsOnlyAdvance DEF RowsAdvance, FindItem
    <3> HIDE DEF new
    <3>4. ReqOK(r)'
      BY <3>1, <3>2, <3>3 DEF ReqOK, Checked, Committed, Decision, Silent
    <3>5. QED
      BY <3>1, <3>4, SlotFrame DEF Decides
  <2>3. QED
    BY <1>5, <1>8, <2>1, <2>2 DEF CreateLoan
<1>9. CASE \E l \in Loans : ApproveLoan(r, u, l) /\ ~Approvable(l)
  BY <1>9, <1>1, <1>2, <1>4, <1>5, ZenonT(30) DEF ApproveLoan, RepoApproveLoan, FreshOnLoan
<1>10. CASE \E l \in Loans : RejectLoan(r, u, l) /\ ~Rejectable(l, TokenChurch[u])
  BY <1>10, <1>1, <1>2, <1>4, <1>5 DEF RejectLoan, RepoRejectLoan, FreshOnLoan
<1>11. CASE \E l \in Loans, d \in Conditions :
              ReturnLoan(r, u, l, d) /\ ~Returnable(l, TokenChurch[u])
  BY <1>11, <1>1, <1>2, <1>4, <1>5 DEF ReturnLoan, RepoReturnLoan, FreshOnLoan
<1>12. QED
  BY <1>6, <1>7, <1>8, <1>9, <1>10, <1>11

\* A request that commits its only write and will read the row back.
LEMMA CommitStep ==
    ASSUME IInv, TableStep, NEW r \in Requests, NEW u \in Members, u \in Staff,
           \/ \E i \in Items : CreateItem(r, u, i)
           \/ \E i \in Items, s \in ItemStatus :
                UpdateItem(r, u, i, s) /\ Editable(i, TokenChurch[u])
           \/ \E l \in Loans : ApproveLoan(r, u, l) /\ Approvable(l)
           \/ \E l \in Loans : RejectLoan(r, u, l) /\ Rejectable(l, TokenChurch[u])
           \/ \E l \in Loans, d \in Conditions :
                ReturnLoan(r, u, l, d) /\ Returnable(l, TokenChurch[u])
    PROVE  RequestsInv'
<1> DEFINE Commit(call) == [call EXCEPT !.pc = "reread", !.wrote = TRUE]
<1>1. ASSUME NEW i \in Items, NEW op \in {"item", "edit"},
             Wrote(r, CallOnItem(op, u, i)), FindItem(i, TokenChurch[u])'
      PROVE  RequestsInv'
  <2> DEFINE new == Commit(CallOnItem(op, u, i))
  <2>1. FreshOnItem(CallOnItem(op, u, i), op, u, i)
    BY CallFields
  <2>2. /\ new \in Request /\ req' = [req EXCEPT ![r] = new]
        /\ new.op = op /\ new.user = u /\ new.item = i /\ new.loan = None
        /\ new.pc = "reread" /\ new.answer = "none" /\ new.wrote = TRUE
    BY <1>1, <2>1 DEF Wrote, FreshOnItem, Request
  <2>3. req'[r] = new
    BY <2>2 DEF IInv
  <2> HIDE DEF new
  <2>4. ReqOK(r)'
    BY <1>1, <2>2, <2>3 DEF ReqOK, Checked, Committed, Decision, Silent, Refusals
  <2>5. QED
    BY <2>2, <2>4, SlotFrame DEF Decides
<1>2. ASSUME NEW l \in Loans, NEW op \in {"approve", "reject", "return"},
             Wrote(r, CallOnLoan(op, u, l)),
             Stored(l)',
             op # "approve" => FindLoan(l, TokenChurch[u])',
             op = "approve" => loans'[l].approvedBy = u /\ loans'[l].status = "active",
             op = "reject" => loans'[l].status = "rejected",
             op # "return" => loans[l].status = "pending"
      PROVE  RequestsInv'
  <2> DEFINE new == Commit(CallOnLoan(op, u, l))
  <2>1. FreshOnLoan(CallOnLoan(op, u, l), op, u, l)
    BY CallFields
  <2>2. /\ new \in Request /\ req' = [req EXCEPT ![r] = new]
        /\ new.op = op /\ new.user = u /\ new.loan = l
        /\ new.pc = "reread" /\ new.answer = "none" /\ new.wrote = TRUE
    BY <1>2, <2>1 DEF Wrote, FreshOnLoan, Request
  <2>3. req'[r] = new
    BY <2>2 DEF IInv
  <2> HIDE DEF new
  <2>4. ReqOK(r)'
    BY <1>2, <2>2, <2>3, NoneIsNew
       DEF ReqOK, Checked, Committed, Decision, Silent, Refusals, Granted
  <2>5. Decides(new) => \A q \in Requests \ {r} :
                          Decides(req[q]) => req[q].loan # new.loan
    BY <1>2, <2>2 DEF Decides, IInv, ReqOK, Decision, Granted
  <2>6. QED
    BY <2>2, <2>4, <2>5, SlotFrame
<1> HIDE DEF Commit
<1>3. ASSUME NEW i \in Items, CreateItem(r, u, i)
      PROVE  RequestsInv'
  <2>1. FindItem(i, TokenChurch[u])'
    BY <1>3 DEF CreateItem, RepoCreateItem, FindItem, IInv, TableInv, TablesType
  <2>2. QED
    BY <1>1, <1>3, <2>1 DEF CreateItem
<1>4. ASSUME NEW i \in Items, NEW s \in ItemStatus,
             UpdateItem(r, u, i, s), Editable(i, TokenChurch[u])
      PROVE  RequestsInv'
  <2>1. FindItem(i, TokenChurch[u])'
    BY <1>4, RowsOnlyAdvance DEF Editable, RowsAdvance, FindItem
  <2>2. Wrote(r, CallOnItem("edit", u, i))
    BY <1>4 DEF UpdateItem
  <2>3. QED
    BY <1>1, <2>1, <2>2
<1>5. ASSUME NEW l \in Loans, ApproveLoan(r, u, l), Approvable(l)
      PROVE  RequestsInv'
  <2>1. RepoApproveLoan(l, u) /\ Wrote(r, CallOnLoan("approve", u, l))
    BY <1>5 DEF ApproveLoan
  <2>2. LoanMoves(l, "active", u)
    BY <2>1, Transitions DEF IInv, TableInv
  <2>3. QED
    BY <1>2, <1>5, <2>1, <2>2 DEF LoanMoves, Stored, Approvable
<1>6. ASSUME NEW l \in Loans, RejectLoan(r, u, l), Rejectable(l, TokenChurch[u])
      PROVE  RequestsInv'
  <2>1. RepoRejectLoan(l, TokenChurch[u]) /\ Wrote(r, CallOnLoan("reject", u, l))
    BY <1>6 DEF RejectLoan
  <2>2. LoanMoves(l, "rejected", loans[l].approvedBy)
    BY <2>1, Transitions, ParametersOK DEF IInv, TableInv
  <2>3. QED
    BY <1>2, <1>6, <2>1, <2>2 DEF LoanMoves, Stored, Rejectable, FindLoan
<1>7. ASSUME NEW l \in Loans, NEW d \in Conditions,
             ReturnLoan(r, u, l, d), Returnable(l, TokenChurch[u])
      PROVE  RequestsInv'
  <2>1. RepoReturnLoan(l, TokenChurch[u], d) /\ Wrote(r, CallOnLoan("return", u, l))
    BY <1>7 DEF ReturnLoan
  <2>2. LoanMoves(l, ReturnedAs(d), loans[l].approvedBy)
    BY <2>1, Transitions, ParametersOK DEF IInv, TableInv
  <2>3. QED
    BY <1>2, <1>7, <2>1, <2>2 DEF LoanMoves, Stored, Returnable, FindLoan, ReturnedAs
<1>8. QED
  BY <1>3, <1>4, <1>5, <1>6, <1>7

\* A later statement of a request that is already running.
LEMMA MiddleStep ==
    ASSUME IInv, TableStep, NEW r \in Requests,
           \/ SoftDelete(r) \/ CheckTarget(r) \/ (\E l \in Loans : InsertLoan(r, l))
           \/ ReadBack(r) \/ Abort(r)
    PROVE  RequestsInv'
<1> DEFINE call == req[r]
<1>0. call \in Request /\ ReqOK(r)
  BY DEF IInv
\* Whatever ends here keeps what it wrote; only a refused answer needs care.
<1>1. ASSUME NEW a \in Refusals \cup {"ok", "lost"}, Finish(r, call, a),
             a \in Refusals /\ call.wrote =>
               /\ call.op = "approve"
               /\ ItemChurch[loans[call.loan].item] # TokenChurch[call.user]
      PROVE  RequestsInv'
  <2> DEFINE new == [call EXCEPT !.pc = "over", !.answer = a]
  <2>1. /\ new \in Request /\ req' = [req EXCEPT ![r] = new]
        /\ new.pc = "over" /\ new.answer = a
        /\ new.op = call.op /\ new.user = call.user /\ new.loan = call.loan
        /\ new.wrote = call.wrote
    BY <1>0, <1>1, ZenonT(30) DEF Finish, Request
  <2>2. req'[r] = new /\ UNCHANGED loans
    BY <1>1, <2>1 DEF IInv, Finish
  <2> HIDE DEF new
  <2>3. ReqOK(r)'
    BY <1>0, <1>1, <2>1, <2>2 DEF ReqOK, Checked, Committed, Decision, Silent
  <2>4. Decides(new) => \A q \in Requests \ {r} :
                          Decides(req[q]) => req[q].loan # new.loan
    BY <2>1 DEF Decides, IInv, OneDecider
  <2>5. QED
    BY <2>1, <2>3, <2>4, SlotFrame
<1>2. CASE SoftDelete(r)
  <2>1. call.pc = "softDelete" /\ ~call.wrote
    BY <1>0, <1>2 DEF SoftDelete, ReqOK, Checked
  <2>2. CASE Finish(r, call, "not_found")
    BY <1>1, <2>1, <2>2 DEF Refusals
  <2>3. ASSUME NEW a \in {"ok", "lost"},
               req' = [req EXCEPT ![r] =
                         [call EXCEPT !.pc = "over", !.wrote = TRUE, !.answer = a]],
               RepoSoftDeleteItem(call.item, TokenChurch[call.user])
        PROVE  RequestsInv'
    <3> DEFINE new == [call EXCEPT !.pc = "over", !.wrote = TRUE, !.answer = a]
    <3>1. /\ new \in Request /\ new.pc = "over" /\ new.answer = a
          /\ new.op = call.op
      BY <1>0, ZenonT(30) DEF Request
    <3>2. req'[r] = new
      BY <2>3 DEF IInv
    <3>3. call.op = "dispose"
      BY <1>0, <2>1 DEF ReqOK, Checked
    <3> HIDE DEF new
    <3>4. ReqOK(r)'
      BY <3>1, <3>2, <3>3 DEF ReqOK, Checked, Committed, Decision, Silent, Refusals
    <3>5. QED
      BY <2>3, <3>1, <3>3, <3>4, SlotFrame DEF Decides, new
  <2>4. QED
    BY <1>2, <2>2, <2>3 DEF SoftDelete
<1>3. CASE CheckTarget(r)
  <2>1. call.pc = "checkTarget" /\ ~call.wrote
    BY <1>0, <1>3 DEF CheckTarget, ReqOK, Checked
  <2>2. CASE Finish(r, call, "target_not_found")
    BY <1>1, <2>1, <2>2 DEF Refusals
  <2>3. CASE /\ Continue(r, call, "insert")
             /\ TargetExists(call.target, TokenChurch[call.user])
    <3> DEFINE new == [call EXCEPT !.pc = "insert"]
    <3>1. /\ new \in Request /\ req' = [req EXCEPT ![r] = new]
          /\ new.pc = "insert" /\ new.op = call.op /\ new.user = call.user
          /\ new.item = call.item /\ new.target = call.target
          /\ new.wrote = call.wrote /\ new.answer = call.answer
      BY <1>0, <2>3 DEF Continue, Request
    <3>2. req'[r] = new
      BY <3>1 DEF IInv
    <3>3. UNCHANGED <<itemStatus, loans>>
      BY <2>3 DEF Continue, itemVars
    <3> HIDE DEF new
    <3>4. ReqOK(r)'
      BY <1>0, <2>1, <2>3, <3>1, <3>2, <3>3
         DEF ReqOK, Checked, Committed, Decision, Silent, FindItem, TargetExists
    <3>5. QED
      BY <2>1, <3>1, <3>4, SlotFrame DEF Decides
  <2>4. QED
    BY <1>3, <2>2, <2>3 DEF CheckTarget
<1>4. ASSUME NEW l \in Loans, InsertLoan(r, l)
      PROVE  RequestsInv'
  <2> DEFINE new == [[call EXCEPT !.loan = l] EXCEPT !.pc = "reread", !.wrote = TRUE]
  <2>1. /\ call.pc = "insert" /\ call.op = "create"
        /\ call.user \in Members /\ call.answer = "none"
        /\ call.item \in Items
        /\ FindItem(call.item, TokenChurch[call.user])
    BY <1>0, <1>4 DEF InsertLoan, ReqOK, Checked
  <2>2. /\ new \in Request /\ req' = [req EXCEPT ![r] = new]
        /\ new.pc = "reread" /\ new.op = "create" /\ new.user = call.user
        /\ new.loan = l /\ new.answer = "none" /\ new.wrote = TRUE
    BY <1>0, <1>4, <2>1 DEF InsertLoan, Wrote, Request
  <2>3. req'[r] = new
    BY <2>2 DEF IInv
  <2>4. loans'[l].status # "absent" /\ loans'[l].item = call.item
    BY <1>4 DEF InsertLoan, RepoCreateLoan, RepoCreateLoanActive,
                IInv, TableInv, TablesType
  <2> HIDE DEF new
  <2>5. ReqOK(r)'
    BY <2>1, <2>2, <2>3, <2>4, NoneIsNew
       DEF ReqOK, Checked, Committed, Decision, Silent, Refusals,
           Stored, FindLoan, FindItem
  <2>6. QED
    BY <2>2, <2>5, SlotFrame DEF Decides
<1>5. CASE ReadBack(r)
  <2>1. call.pc = "reread" /\ call.wrote
    BY <1>0, <1>5 DEF ReadBack, ReqOK, Committed
  <2> DEFINE found == IF call.loan = None
                        THEN FindItem(call.item, TokenChurch[call.user])
                        ELSE FindLoan(call.loan, TokenChurch[call.user])
  <2>2. Finish(r, call, IF found THEN "ok" ELSE "not_found")
    BY <1>5 DEF ReadBack
  <2>3. ~found => /\ call.op = "approve"
                  /\ ItemChurch[loans[call.loan].item] # TokenChurch[call.user]
    BY <1>0, <2>1 DEF ReqOK, Committed, FindLoan, Stored
  <2>4. QED
    BY <1>1, <2>2, <2>3 DEF Refusals
<1>6. CASE Abort(r)
  BY <1>1, <1>6 DEF Abort, Refusals
<1>7. QED
  BY <1>2, <1>3, <1>4, <1>5, <1>6

-----------------------------------------------------------------------------
(* The invariant is inductive, and what follows from it.                   *)

LEMMA InitInv == Init => IInv
<1> SUFFICES ASSUME Init PROVE IInv
  OBVIOUS
<1> USE DEF Init
<1>1. NoLoan \in LoanRow /\ NoLoan.status = "absent" /\ NoLoan.approvedBy = None
  BY DEF NoLoan, LoanRow
<1>2. /\ NoRequest \in Request /\ NoRequest.pc = "over" /\ NoRequest.wrote = FALSE
  BY DEF NoRequest, Request
<1>3. TableInv
  BY <1>1 DEF TableInv, TablesType, RowsNamed, DeletedStored, Provenance,
              StatusExplained, Stored
<1>4. \A r \in Requests : ReqOK(r)
  BY <1>2 DEF ReqOK, Checked, Committed, Decision, Silent
<1>5. OneDecider
  BY <1>2 DEF OneDecider
<1>6. QED
  BY <1>2, <1>3, <1>4, <1>5 DEF IInv

LEMMA NextInv ==
    ASSUME IInv, Next
    PROVE  IInv'
<1>1. TableStep
  BY StepOnTables
<1>2. TableInv'
  BY <1>1, RepoTypes, DeletedStep, ProvenanceStep, StatusStep DEF TableInv
<1>3. RequestsInv'
  <2>1. ASSUME NEW r \in Requests, NEW u \in Members, NEW i \in Items,
               \/ CreateItem(r, u, i)
               \/ \E s \in ItemStatus : UpdateItem(r, u, i, s)
               \/ DisposeItem(r, u, i)
               \/ \E t \in Targets : CreateLoan(r, u, i, t)
        PROVE  RequestsInv'
    <3>1. CASE CreateItem(r, u, i)
      BY <1>1, <3>1, CommitStep DEF CreateItem
    <3>2. CASE \E s \in ItemStatus : UpdateItem(r, u, i, s)
      BY <1>1, <3>2, CommitStep, OpeningStep DEF UpdateItem
    <3>3. CASE DisposeItem(r, u, i)
      BY <1>1, <3>3, OpeningStep
    <3>4. CASE \E t \in Targets : CreateLoan(r, u, i, t)
      BY <1>1, <3>4, OpeningStep
    <3>5. QED
      BY <2>1, <3>1, <3>2, <3>3, <3>4
  <2>2. ASSUME NEW r \in Requests, NEW u \in Members, NEW l \in Loans,
               \/ ApproveLoan(r, u, l)
               \/ RejectLoan(r, u, l)
               \/ \E d \in Conditions : ReturnLoan(r, u, l, d)
        PROVE  RequestsInv'
    <3>1. CASE ApproveLoan(r, u, l)
      BY <1>1, <3>1, CommitStep, OpeningStep DEF ApproveLoan
    <3>2. CASE RejectLoan(r, u, l)
      BY <1>1, <3>2, CommitStep, OpeningStep DEF RejectLoan
    <3>3. CASE \E d \in Conditions : ReturnLoan(r, u, l, d)
      BY <1>1, <3>3, CommitStep, OpeningStep DEF ReturnLoan
    <3>4. QED
      BY <2>2, <3>1, <3>2, <3>3
  <2>3. ASSUME NEW r \in Requests,
               \/ SoftDelete(r) \/ CheckTarget(r) \/ (\E l \in Loans : InsertLoan(r, l))
               \/ ReadBack(r) \/ Abort(r)
        PROVE  RequestsInv'
    BY <1>1, <2>3, MiddleStep
  <2>4. QED
    BY <2>1, <2>2, <2>3 DEF Next
<1>4. QED
  BY <1>2, <1>3 DEF IInv, RequestsInv

LEMMA StutterInv ==
    ASSUME IInv, UNCHANGED vars
    PROVE  IInv'
<1> USE DEF vars
<1>1. TableInv'
  BY DEF IInv, TableInv, TablesType, RowsNamed, DeletedStored, Provenance,
         StatusExplained, Stored, TargetExists
<1>2. \A r \in Requests : ReqOK(r)'
  BY DEF IInv, ReqOK, Checked, Committed, Decision, Silent, Stored,
         FindItem, FindLoan, TargetExists
<1>3. OneDecider' /\ req' \in [Requests -> Request]
  BY DEF IInv, OneDecider
<1>4. QED
  BY <1>1, <1>2, <1>3 DEF IInv

\* The invariant behind every theorem below.
THEOREM Invariance == Spec => []IInv
<1>1. IInv /\ [Next]_vars => IInv'
  BY NextInv, StutterInv
<1>2. QED
  BY InitInv, <1>1, PTL DEF Spec

\* Every variable keeps its type.
THEOREM TypeCorrect == Spec => []TypeOK
<1>1. IInv => TypeOK
  BY DEF IInv, TableInv, TablesType, TypeOK
<1>2. QED
  BY Invariance, <1>1, PTL

\* The status of an item always agrees with the last loan that wrote it.
THEOREM StatusAlwaysExplained == Spec => []StatusExplained
<1>1. IInv => StatusExplained
  BY DEF IInv, TableInv
<1>2. QED
  BY Invariance, <1>1, PTL

\* Every stored loan has an item, a borrower and an approver that make sense,
\* although they were checked by earlier statements.
THEOREM ProvenanceHolds == Spec => []Provenance
<1>1. IInv => Provenance
  BY DEF IInv, TableInv
<1>2. QED
  BY Invariance, <1>1, PTL

\* Overlapping decisions on one loan have one winner.
THEOREM OneWinner == Spec => []DecidedOnce
<1>1. IInv => DecidedOnce
  BY DEF IInv, OneDecider, DecidedOnce, ReqOK, Decision
<1>2. QED
  BY Invariance, <1>1, PTL

\* A refused request wrote nothing, the approval of another church's loan
\* excepted.
THEOREM RefusalsAreSilent == Spec => []RefusalIsSilent
<1>1. IInv => RefusalIsSilent
  BY DEF IInv, ReqOK, Silent, RefusalIsSilent
<1>2. QED
  BY Invariance, <1>1, PTL

\* A discarded item stays discarded; only its loans still move its status.
THEOREM DiscardHolds == Spec => DiscardIsFinal
<1> DEFINE Final ==
      \A i \in deleted :
          /\ i \in deleted'
          /\ itemStatus'[i] # itemStatus[i] =>
                \E l \in Loans : /\ loans'[l].item = i
                                 /\ loans'[l].status # loans[l].status
<1>1. ASSUME IInv, TableStep
      PROVE  Final
  <2> USE <1>1 DEF itemVars, LoanWritesItem, IInv, TableInv, TablesType
  <2>1. CASE UNCHANGED itemVars \/ UNCHANGED tables
    BY <2>1 DEF tables
  <2>2. ASSUME NEW i \in Items, RepoCreateItem(i)
        PROVE  Final
    BY <2>2 DEF RepoCreateItem, DeletedStored
  <2>3. ASSUME NEW i \in Items, NEW c \in Churches,
               \/ RepoSoftDeleteItem(i, c)
               \/ \E s \in ItemStatus : RepoUpdateItem(i, c, s)
        PROVE  Final
    BY <2>3 DEF RepoSoftDeleteItem, RepoUpdateItem, Editable
  <2>4. ASSUME NEW l \in Loans, CheckedInsert(l)
        PROVE  Final
    BY <2>4 DEF CheckedInsert, RepoCreateLoan, RepoCreateLoanActive
  <2>5. ASSUME NEW l \in Loans, NEW u \in Staff, RepoApproveLoan(l, u)
        PROVE  Final
    <3>1. LoanMoves(l, "active", u) /\ loans[l].status = "pending"
      BY <2>5, Transitions DEF RepoApproveLoan, Approvable
    <3>2. QED
      BY <2>5, <3>1 DEF RepoApproveLoan, LoanMoves
  <2>6. ASSUME NEW l \in Loans, NEW c \in Churches, NEW d \in Conditions,
               RepoReturnLoan(l, c, d)
        PROVE  Final
    <3>1. LoanMoves(l, ReturnedAs(d), loans[l].approvedBy) /\ loans[l].status = "active"
      BY <2>6, Transitions DEF RepoReturnLoan, Returnable
    <3>2. ReturnedAs(d) # "active"
      BY DEF ReturnedAs
    <3>3. QED
      BY <2>6, <3>1, <3>2 DEF RepoReturnLoan, LoanMoves
  <2>7. QED
    BY <1>1, <2>1, <2>2, <2>3, <2>4, <2>5, <2>6 DEF TableStep, RepoRejectLoan
<1>2. IInv /\ [Next]_vars => [Final]_vars
  BY <1>1, StepOnTables
<1>3. QED
  BY Invariance, <1>2, PTL DEF Spec, DiscardIsFinal

\* The loan table implements the per-loan lifecycle: decided once, closed at
\* most once, never removed, with an approver that never changes.
THEOREM LifecycleRefined == Spec => ImplementsLifecycle
<1> DEFINE stg == [l \in Loans |-> loans[l].status]
           apr == [l \in Loans |-> loans[l].approvedBy]
<1>1. Init => Lifecycle!Init
  BY DEF Init, NoLoan, Lifecycle!Init
<1>2. ASSUME IInv, TableStep
      PROVE  [Lifecycle!Next]_(Lifecycle!vars)
  <2> USE <1>2 DEF IInv, TableInv, TablesType, Lifecycle!vars, itemVars
  <2>1. CASE UNCHANGED loans \/ UNCHANGED tables
    BY <2>1 DEF tables
  <2>2. ASSUME NEW l \in Loans, CheckedInsert(l)
        PROVE  Lifecycle!Next
    <3>1. loans[l].status = "absent" /\ loans[l].approvedBy = None
      BY <2>2 DEF CheckedInsert, RepoCreateLoan, RepoCreateLoanActive, RowsNamed, Stored
    <3>2. CASE \E i \in Items, u \in Staff, t \in Targets : RepoCreateLoanActive(l, i, u, t)
      <4>1. PICK i \in Items, u \in Staff, t \in Targets :
              RepoCreateLoanActive(l, i, u, t)
        BY <3>2
      <4>2. /\ \A k \in Loans \ {l} : loans'[k] = loans[k]
            /\ loans'[l].status = "active" /\ loans'[l].approvedBy = u
        BY <4>1 DEF RepoCreateLoanActive
      <4>3. Lifecycle!Grant(l, u)
        BY <3>1, <4>2 DEF Lifecycle!Grant
      <4>4. QED
        BY <4>3 DEF Lifecycle!Next
    <3>3. CASE \E i \in Items, u \in Members, t \in Targets : RepoCreateLoan(l, i, u, t)
      <4>1. /\ \A k \in Loans \ {l} : loans'[k] = loans[k]
            /\ loans'[l].status = "pending" /\ loans'[l].approvedBy = None
        BY <3>3 DEF RepoCreateLoan
      <4>2. Lifecycle!Ask(l)
        BY <3>1, <4>1 DEF Lifecycle!Ask
      <4>3. QED
        BY <4>2 DEF Lifecycle!Next
    <3>4. QED
      BY <2>2, <3>2, <3>3 DEF CheckedInsert
  <2>3. ASSUME NEW l \in Loans, NEW u \in Staff, RepoApproveLoan(l, u)
        PROVE  Lifecycle!Next
    <3>1. LoanMoves(l, "active", u) /\ loans[l].status = "pending"
      BY <2>3, Transitions DEF RepoApproveLoan, Approvable
    <3>2. Lifecycle!Grant(l, u)
      BY <3>1 DEF LoanMoves, Lifecycle!Grant
    <3>3. QED
      BY <3>2 DEF Lifecycle!Next
  <2>4. ASSUME NEW l \in Loans, NEW c \in Churches, RepoRejectLoan(l, c)
        PROVE  Lifecycle!Next
    <3>1. /\ LoanMoves(l, "rejected", loans[l].approvedBy)
          /\ loans[l].status = "pending"
      BY <2>4, Transitions DEF RepoRejectLoan, Rejectable
    <3>2. Lifecycle!Refuse(l)
      BY <3>1 DEF LoanMoves, Lifecycle!Refuse
    <3>3. QED
      BY <3>2 DEF Lifecycle!Next
  <2>5. ASSUME NEW l \in Loans, NEW c \in Churches, NEW d \in Conditions,
               RepoReturnLoan(l, c, d)
        PROVE  Lifecycle!Next
    <3>1. /\ LoanMoves(l, ReturnedAs(d), loans[l].approvedBy)
          /\ loans[l].status = "active"
      BY <2>5, Transitions DEF RepoReturnLoan, Returnable
    <3>2. Lifecycle!Close(l, ReturnedAs(d))
      BY <3>1 DEF LoanMoves, Lifecycle!Close
    <3>3. ReturnedAs(d) \in Lifecycle!Closed
      BY DEF ReturnedAs, Lifecycle!Closed
    <3>4. QED
      BY <3>2, <3>3 DEF Lifecycle!Next
  <2>6. QED
    BY <1>2, <2>1, <2>2, <2>3, <2>4, <2>5
       DEF TableStep, RepoCreateItem, RepoUpdateItem, RepoSoftDeleteItem
<1>3. IInv /\ [Next]_vars => [Lifecycle!Next]_(Lifecycle!vars)
  <2>1. CASE UNCHANGED vars
    BY <2>1 DEF vars, Lifecycle!vars
  <2>2. QED
    BY <1>2, <2>1, StepOnTables
<1>4. QED
  BY <1>1, <1>3, Invariance, PTL DEF Spec, ImplementsLifecycle, Lifecycle!Spec
=============================================================================
