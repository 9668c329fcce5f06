--------------------------- MODULE LoanLifecycle ---------------------------
(***************************************************************************)
(* What the inventory promises about a single loan row, whoever asks and   *)
(* in whatever order: a loan is requested and then decided once, or        *)
(* granted on the spot; a decided loan is closed at most once; who         *)
(* approved it never changes; nothing ever removes it.                     *)
(* InventoryLoans, which models the Go code, is checked and proved to      *)
(* implement this specification.                                           *)
(***************************************************************************)
CONSTANTS
    Loans,      \* identities of loan rows
    Approvers,  \* who may approve a loan
    None        \* "nobody yet"

VARIABLES
    stage,      \* stage[l]: where loan l is in its life
    approver    \* approver[l]: who approved it

vars == <<stage, approver>>

Stages == {"absent", "pending", "active",
           "returned", "returned_with_issue", "rejected"}

Closed == {"returned", "returned_with_issue"}

Init ==
    /\ stage = [l \in Loans |-> "absent"]
    /\ approver = [l \in Loans |-> None]

\* An ordinary member asks for a loan.
Ask(l) ==
    /\ stage[l] = "absent"
    /\ stage' = [stage EXCEPT ![l] = "pending"]
    /\ UNCHANGED approver

\* A loan becomes active with the name of the one who allowed it: on the
\* spot, or by approving a pending request.
Grant(l, a) ==
    /\ stage[l] \in {"absent", "pending"}
    /\ stage' = [stage EXCEPT ![l] = "active"]
    /\ approver' = [approver EXCEPT ![l] = a]

Refuse(l) ==
    /\ stage[l] = "pending"
    /\ stage' = [stage EXCEPT ![l] = "rejected"]
    /\ UNCHANGED approver

Close(l, outcome) ==
    /\ stage[l] = "active"
    /\ stage' = [stage EXCEPT ![l] = outcome]
    /\ UNCHANGED approver

Next ==
    \E l \in Loans :
        \/ Ask(l)
        \/ \E a \in Approvers : Grant(l, a)
        \/ Refuse(l)
        \/ \E outcome \in Closed : Close(l, outcome)

Spec == Init /\ [][Next]_vars
=============================================================================
