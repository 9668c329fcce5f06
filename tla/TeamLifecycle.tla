---------------------------- MODULE TeamLifecycle ----------------------------
(***************************************************************************)
(* What worship planning promises about the team of a schedule, whoever    *)
(* asks and in whatever order: a schedule is planned once, announced at    *)
(* most once and to exactly those who are then on its team, and cancelled  *)
(* for good; nobody is on a team twice, so that whoever leaves it is gone, *)
(* with his confirmation; late comers are on the team and were not told.   *)
(* WorshipSchedules, which models the Go code, is checked and proved to    *)
(* implement this specification.                                           *)
(***************************************************************************)
CONSTANTS
    Schedules,  \* identities of schedules
    Members     \* who can be on a team

VARIABLES
    stage,      \* stage[s]: where schedule s is in its life
    team,       \* team[s]: who plays
    told,       \* told[s]: who of them the announcement was for
    sure        \* sure[s]: who of them has confirmed

vars == <<stage, team, told, sure>>

Init ==
    /\ stage = [s \in Schedules |-> "absent"]
    /\ team = [s \in Schedules |-> {}]
    /\ told = [s \in Schedules |-> {}]
    /\ sure = [s \in Schedules |-> {}]

Plan(s) ==
    /\ stage[s] = "absent"
    /\ stage' = [stage EXCEPT ![s] = "draft"]
    /\ UNCHANGED <<team, told, sure>>

\* The announcement reaches the whole team and nobody else.
Announce(s) ==
    /\ stage[s] = "draft"
    /\ stage' = [stage EXCEPT ![s] = "published"]
    /\ told' = [told EXCEPT ![s] = team[s]]
    /\ UNCHANGED <<team, sure>>

Cancel(s) ==
    /\ stage[s] \in {"draft", "published"}
    /\ stage' = [stage EXCEPT ![s] = "cancelled"]
    /\ UNCHANGED <<team, told, sure>>

\* Nothing but the race of an addition with a publication or a cancellation
\* keeps this from being an operation on drafts only.
Join(s, m) ==
    /\ stage[s] # "absent"
    /\ m \notin team[s]
    /\ team' = [team EXCEPT ![s] = @ \cup {m}]
    /\ UNCHANGED <<stage, told, sure>>

Confirm(s, m) ==
    /\ m \in team[s]
    /\ sure' = [sure EXCEPT ![s] = @ \cup {m}]
    /\ UNCHANGED <<stage, team, told>>

Leave(s, m) ==
    /\ m \in team[s]
    /\ team' = [team EXCEPT ![s] = @ \ {m}]
    /\ told' = [told EXCEPT ![s] = @ \ {m}]
    /\ sure' = [sure EXCEPT ![s] = @ \ {m}]
    /\ UNCHANGED stage

Next ==
    \E s \in Schedules :
        \/ Plan(s) \/ Announce(s) \/ Cancel(s)
        \/ \E m \in Members : Join(s, m) \/ Confirm(s, m) \/ Leave(s, m)

Spec == Init /\ [][Next]_vars
=============================================================================
