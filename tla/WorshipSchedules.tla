-------------------------- MODULE WorshipSchedules --------------------------
(***************************************************************************)
(* Worship schedules and their slots (backend handlers/schedules.go,       *)
(* services/schedule_service.go, adapters/postgres/worship_repo.go).       *)
(*                                                                         *)
(* Every operation on a schedule but its creation and the edit of its      *)
(* notes reads the schedule, decides, and writes with a later statement or *)
(* transaction, which repeats some of the checks or none.  A step is one   *)
(* statement or transaction of one request; two reads of which one can     *)
(* change nothing any more (a schedule is never deleted and keeps its      *)
(* church) count as one.                                                   *)
(***************************************************************************)
CONSTANTS
    Schedules,    \* identities of schedule rows
    Slots,        \* identities of slot rows
    Members,      \* people with an access token
    Churches,     \* church rows
    Dates,        \* dates a client may send as sunday_date
    Notes,        \* texts a client may send as notes
    Requests,     \* requests the server can be serving at a time
    Leaders,      \* members whose token says leadership or pastor
    Musicians,    \* members whose token says musician or more
    TokenChurch,  \* TokenChurch[m]: the church in m's access token
    None

ASSUME ParametersOK ==
    /\ Leaders \subseteq Musicians /\ Musicians \subseteq Members
    /\ TokenChurch \in [Members -> Churches]

ASSUME NoneIsNew ==
    None \notin Schedules \cup Slots \cup Members \cup Churches \cup Dates \cup Notes

VARIABLES
    schedules,  \* schedules[s]: the schedule row
    slots,      \* slots[k]: the slot row
    req,        \* req[r]: the request served in slot r
    racing      \* history: racing[s] are the requests that were about to add a
                \* slot to s when s was published

vars == <<schedules, slots, req, racing>>

\* publishedAt says whether the column is set.
ScheduleRow ==
    [status : {"absent", "draft", "published", "cancelled"},
     church : Churches \cup {None}, date : Dates \cup {None},
     notes : Notes \cup {None}, publishedAt : BOOLEAN]

\* from is history: where the request ran that added the slot.
SlotRow ==
    [state : {"absent", "stored", "removed"}, schedule : Schedules \cup {None},
     member : Members \cup {None}, confirmed : BOOLEAN, notified : BOOLEAN,
     from : Requests \cup {None}]

\* pc is the statement that the request runs next.
Request ==
    [op : {"none", "create", "update", "cancel", "publish", "add", "remove", "confirm"},
     pc : {"cancel", "publish", "insert", "delete", "confirm", "over"},
     user : Members \cup {None}, schedule : Schedules \cup {None},
     slot : Slots \cup {None}, member : Members \cup {None},
     answer : {"none", "ok", "refused", "noSchedule", "noSlot", "lost"}]

TypeOK ==
    /\ schedules \in [Schedules -> ScheduleRow]
    /\ slots \in [Slots -> SlotRow]
    /\ req \in [Requests -> Request]
    /\ racing \in [Schedules -> SUBSET Requests]

NoSchedule == [status |-> "absent", church |-> None, date |-> None, notes |-> None,
               publishedAt |-> FALSE]

NoSlot == [state |-> "absent", schedule |-> None, member |-> None,
           confirmed |-> FALSE, notified |-> FALSE, from |-> None]

NoRequest == [op |-> "none", pc |-> "over", user |-> None, schedule |-> None,
              slot |-> None, member |-> None, answer |-> "none"]

Init ==
    /\ schedules = [s \in Schedules |-> NoSchedule]
    /\ slots = [k \in Slots |-> NoSlot]
    /\ req = [r \in Requests |-> NoRequest]
    /\ racing = [s \in Schedules |-> {}]

-----------------------------------------------------------------------------
(* The repository.  Operators named "...Bug" are not part of the           *)
(* specification: each is the definition that follows it with one          *)
(* plausible mistake, which the checked properties must tell apart.        *)

Exists(s) == schedules[s].status # "absent"
Stored(k) == slots[k].state = "stored"

\* GetSchedule without "AND s.church_id = $2".
FindScheduleBug(s, c) == Exists(s)

\* GetSchedule: WHERE s.id = $1 AND s.church_id = $2.
FindSchedule(s, c) == Exists(s) /\ schedules[s].church = c

\* UNIQUE (church_id, sunday_date), whatever the status of the other row.
DateTaken(c, d) ==
    \E s \in Schedules : Exists(s) /\ schedules[s].church = c /\ schedules[s].date = d

\* UNIQUE (schedule_id, member_id).
OnTeam(s, m) == \E k \in Slots : Stored(k) /\ slots[k].schedule = s /\ slots[k].member = m

RepoCreateSchedule(s, c, d, n) ==
    /\ ~Exists(s)
    /\ schedules' = [schedules EXCEPT ![s] =
          [status |-> "draft", church |-> c, date |-> d, notes |-> n, publishedAt |-> FALSE]]

RepoUpdateSchedule(s, n) == schedules' = [schedules EXCEPT ![s].notes = n]

\* UPDATE schedules SET status = 'cancelled' WHERE id AND church_id.
RepoCancelSchedule(s) == schedules' = [schedules EXCEPT ![s].status = "cancelled"]

\* The UPDATE without "AND status = 'draft'".
PublishableBug(s) == Exists(s)

Publishable(s) == schedules[s].status = "draft"

Notified(row, s) ==
    IF row.state = "stored" /\ row.schedule = s THEN [row EXCEPT !.notified = TRUE] ELSE row

\* The transaction goes on when its first UPDATE has changed no row.
RepoPublishScheduleBug(s) ==
    /\ schedules' = IF Publishable(s)
                      THEN [schedules EXCEPT ![s] = [@ EXCEPT !.status = "published",
                                                              !.publishedAt = TRUE]]
                      ELSE schedules
    /\ slots' = [k \in Slots |-> Notified(slots[k], s)]
    /\ racing' = [racing EXCEPT ![s] =
          {r \in Requests : req[r].pc = "insert" /\ req[r].schedule = s}]

\* Both UPDATEs and the commit.  The first locks the schedule against another
\* publication or a cancellation, but an insert of a slot needs only its key: one
\* that falls between the second UPDATE and the commit is not marked, so that it
\* counts as one after the transaction, and its read of the draft as one before.
RepoPublishSchedule(s) ==
    /\ Publishable(s)
    /\ schedules' = [schedules EXCEPT ![s] = [@ EXCEPT !.status = "published",
                                                       !.publishedAt = TRUE]]
    /\ slots' = [k \in Slots |-> Notified(slots[k], s)]
    /\ racing' = [racing EXCEPT ![s] =
          {r \in Requests : req[r].pc = "insert" /\ req[r].schedule = s}]

\* The insert with its two foreign keys swapped.
RepoAddSlotBug(k, s, m, r) ==
    /\ slots[k].state = "absent" /\ ~OnTeam(s, m)
    /\ slots' = [slots EXCEPT ![k] =
          [state |-> "stored", schedule |-> m, member |-> s,
           confirmed |-> FALSE, notified |-> FALSE, from |-> r]]

\* The insert without the unique constraint.
RepoAddSlotTwiceBug(k, s, m, r) ==
    /\ slots[k].state = "absent"
    /\ slots' = [slots EXCEPT ![k] =
          [state |-> "stored", schedule |-> s, member |-> m,
           confirmed |-> FALSE, notified |-> FALSE, from |-> r]]

RepoAddSlot(k, s, m, r) ==
    /\ slots[k].state = "absent" /\ ~OnTeam(s, m)
    /\ slots' = [slots EXCEPT ![k] =
          [state |-> "stored", schedule |-> s, member |-> m,
           confirmed |-> FALSE, notified |-> FALSE, from |-> r]]

\* WHERE id = $1 AND schedule_id = $2 AND the schedule is of the church.
Removable(k, s, c) == Stored(k) /\ slots[k].schedule = s /\ FindSchedule(s, c)

RepoRemoveSlot(k) ==
    slots' = [slots EXCEPT ![k] = [NoSlot EXCEPT !.state = "removed",
                                                 !.schedule = slots[k].schedule]]

\* WHERE id = $1 AND schedule_id = $2 AND member_id = $3.
Confirmable(k, s, m) == Stored(k) /\ slots[k].schedule = s /\ slots[k].member = m

RepoConfirmSlot(k) == slots' = [slots EXCEPT ![k].confirmed = TRUE]

-----------------------------------------------------------------------------
(* Requests.                                                               *)

Free(r) == req[r].pc = "over"

Call(op, u, s) == [NoRequest EXCEPT !.op = op, !.user = u, !.schedule = s]

Continue(r, call, pc) == req' = [req EXCEPT ![r] = [call EXCEPT !.pc = pc]]

\* A request that is over keeps who asked for what of which schedule.
Finish(r, call, answer) ==
    req' = [req EXCEPT ![r] = [Call(call.op, call.user, call.schedule)
                                 EXCEPT !.answer = answer]]

\* The id in the URL is one that some client was given.
Begin(r, u, s) == Free(r) /\ Exists(s)

\* POST /schedules: the handler asks for a date, not for a Sunday.
CreateSchedule(r, u, s, d, n) ==
    LET c == TokenChurch[u] IN
    /\ Free(r) /\ u \in Leaders
    /\ \/ /\ ~DateTaken(c, d)
          /\ RepoCreateSchedule(s, c, d, n)
          /\ Finish(r, Call("create", u, s), "ok")
       \/ /\ DateTaken(c, d)
          /\ Finish(r, Call("create", u, None), "refused")
          /\ UNCHANGED schedules
    /\ UNCHANGED <<slots, racing>>

\* PUT /schedules/{id}: the notes, in any status.
UpdateSchedule(r, u, s, n) ==
    /\ Begin(r, u, s) /\ u \in Leaders
    /\ \/ /\ FindSchedule(s, TokenChurch[u])
          /\ RepoUpdateSchedule(s, n)
          /\ Finish(r, Call("update", u, s), "ok")
       \/ /\ ~FindSchedule(s, TokenChurch[u])
          /\ Finish(r, Call("update", u, s), "noSchedule")
          /\ UNCHANGED schedules
    /\ UNCHANGED <<slots, racing>>

\* DELETE /schedules/{id}: the read ...
CancelSchedule(r, u, s) ==
    LET call == Call("cancel", u, s)
        found == FindSchedule(s, TokenChurch[u])
        cancelled == schedules[s].status = "cancelled" IN
    /\ Begin(r, u, s) /\ u \in Leaders
    /\ \/ ~found /\ Finish(r, call, "noSchedule")
       \/ found /\ cancelled /\ Finish(r, call, "refused")
       \/ found /\ ~cancelled /\ Continue(r, call, "cancel")
    /\ UNCHANGED <<schedules, slots, racing>>

\* ... and the write, which looks at nothing but the id.
Cancel(r) ==
    /\ req[r].pc = "cancel"
    /\ RepoCancelSchedule(req[r].schedule)
    /\ Finish(r, req[r], "ok")
    /\ UNCHANGED <<slots, racing>>

\* POST /schedules/{id}/publish: the read ...
PublishSchedule(r, u, s) ==
    LET call == Call("publish", u, s)
        found == FindSchedule(s, TokenChurch[u])
        draft == schedules[s].status = "draft" IN
    /\ Begin(r, u, s) /\ u \in Leaders
    /\ \/ ~found /\ Finish(r, call, "noSchedule")
       \/ found /\ ~draft /\ Finish(r, call, "refused")
       \/ found /\ draft /\ Continue(r, call, "publish")
    /\ UNCHANGED <<schedules, slots, racing>>

\* ... and the transaction: no row changed is answered as not found.  The
\* read-back after the commit can fail.
Publish(r) ==
    LET s == req[r].schedule IN
    /\ req[r].pc = "publish"
    /\ \/ RepoPublishSchedule(s) /\ \E told \in {"ok", "lost"} : Finish(r, req[r], told)
       \/ /\ ~Publishable(s)
          /\ Finish(r, req[r], "noSchedule")
          /\ UNCHANGED <<schedules, slots, racing>>

\* The service without its look at the status.
AddableBug(s) == Exists(s)

Addable(s) == schedules[s].status = "draft"

\* POST /schedules/{id}/slots: the read ...
AddSlot(r, u, s, m) ==
    LET call == [Call("add", u, s) EXCEPT !.member = m]
        found == FindSchedule(s, TokenChurch[u]) IN
    /\ Begin(r, u, s) /\ u \in Leaders
    /\ \/ ~found /\ Finish(r, call, "noSchedule")
       \/ found /\ ~Addable(s) /\ Finish(r, call, "refused")
       \/ found /\ Addable(s) /\ Continue(r, call, "insert")
    /\ UNCHANGED <<schedules, slots, racing>>

\* ... and the insert: no look at the status, nor at the church of the member.
InsertSlot(r, k) ==
    LET call == req[r] IN
    /\ call.pc = "insert"
    /\ \/ RepoAddSlot(k, call.schedule, call.member, r) /\ Finish(r, call, "ok")
       \/ /\ OnTeam(call.schedule, call.member)
          /\ Finish(r, call, "refused")
          /\ UNCHANGED slots
    /\ UNCHANGED <<schedules, racing>>

\* DELETE /schedules/{id}/slots/{slot_id}: the read, for the church only ...
RemoveSlot(r, u, s, k) ==
    LET call == [Call("remove", u, s) EXCEPT !.slot = k]
        found == FindSchedule(s, TokenChurch[u]) IN
    /\ Begin(r, u, s) /\ u \in Leaders /\ slots[k].state # "absent"
    /\ \/ ~found /\ Finish(r, call, "noSchedule")
       \/ found /\ Continue(r, call, "delete")
    /\ UNCHANGED <<schedules, slots, racing>>

\* ... and the delete.
DeleteSlot(r) ==
    LET call == req[r]
        removable == Removable(call.slot, call.schedule, TokenChurch[call.user]) IN
    /\ call.pc = "delete"
    /\ \/ removable /\ RepoRemoveSlot(call.slot) /\ Finish(r, call, "ok")
       \/ ~removable /\ Finish(r, call, "noSlot") /\ UNCHANGED slots
    /\ UNCHANGED <<schedules, racing>>

\* POST /schedules/{id}/slots/{slot_id}/confirm: the read of schedule and slots ...
ConfirmSlot(r, u, s, k) ==
    LET call == [Call("confirm", u, s) EXCEPT !.slot = k]
        found == FindSchedule(s, TokenChurch[u])
        listed == Stored(k) /\ slots[k].schedule = s
        own == slots[k].member = u IN
    /\ Begin(r, u, s) /\ u \in Musicians /\ slots[k].state # "absent"
    /\ \/ ~found /\ Finish(r, call, "noSchedule")
       \/ found /\ ~listed /\ Finish(r, call, "noSlot")
       \/ found /\ listed /\ ~own /\ Finish(r, call, "refused")
       \/ found /\ listed /\ own /\ Continue(r, call, "confirm")
    /\ UNCHANGED <<schedules, slots, racing>>

\* ... and the update: no row of that member any more is a slot that is gone.
UpdateSlot(r) ==
    LET call == req[r]
        confirmable == Confirmable(call.slot, call.schedule, call.user) IN
    /\ call.pc = "confirm"
    /\ \/ confirmable /\ RepoConfirmSlot(call.slot) /\ Finish(r, call, "ok")
       \/ ~confirmable /\ Finish(r, call, "noSlot") /\ UNCHANGED slots
    /\ UNCHANGED <<schedules, racing>>

\* The timeout, a lost connection or a failed statement ends a request.
Abort(r) ==
    /\ ~Free(r)
    /\ Finish(r, req[r], "lost")
    /\ UNCHANGED <<schedules, slots, racing>>

Next ==
    \E r \in Requests :
        \/ \E u \in Members, s \in Schedules :
              \/ \E d \in Dates, n \in Notes \cup {None} : CreateSchedule(r, u, s, d, n)
              \/ \E n \in Notes \cup {None} : UpdateSchedule(r, u, s, n)
              \/ CancelSchedule(r, u, s) \/ PublishSchedule(r, u, s)
              \/ \E m \in Members : AddSlot(r, u, s, m)
              \/ \E k \in Slots : RemoveSlot(r, u, s, k) \/ ConfirmSlot(r, u, s, k)
        \/ \E k \in Slots : InsertSlot(r, k)
        \/ Cancel(r) \/ Publish(r) \/ DeleteSlot(r) \/ UpdateSlot(r) \/ Abort(r)

Spec == Init /\ [][Next]_vars

-----------------------------------------------------------------------------
(* Properties.                                                             *)

\* Whoever is marked as notified is on a schedule that was published, and
\* only a schedule that left draft by publication counts as published: a
\* publication that comes too late (the schedule was cancelled or published
\* meanwhile) marks nobody.
NotifiedIsPublished ==
    /\ \A k \in Slots : slots[k].notified => schedules[slots[k].schedule].publishedAt
    /\ \A s \in Schedules :
          /\ schedules[s].publishedAt => schedules[s].status \in {"published", "cancelled"}
          /\ schedules[s].status = "published" => schedules[s].publishedAt

\* The slots of s that its publication did not mark.
Unnotified(s) ==
    {k \in Slots : Stored(k) /\ slots[k].schedule = s /\ ~slots[k].notified}

\* The insert of a slot does not look at the status, so a published schedule
\* can have members who were never notified: at most one for each request
\* that was between its read and its insert at the moment of publication.
UnnotifiedIsLate ==
    \A s \in Schedules : schedules[s].publishedAt =>
        \A j, k \in Unnotified(s) :
            slots[k].from \in racing[s] /\ (slots[j].from = slots[k].from => j = k)

\* Of the requests that overlap in publishing a schedule one at most is told
\* that it did, so that the team is written to once.
OnePublisher ==
    \A p, q \in Requests :
        /\ req[p].op = "publish" /\ req[p].answer = "ok"
        /\ req[q].op = "publish" /\ req[q].answer = "ok"
        /\ req[p].schedule = req[q].schedule
        => p = q

\* The step writes the row of s or of one of its slots.
Changed(s) ==
    \/ schedules'[s] # schedules[s]
    \/ \E k \in Slots : slots'[k] # slots[k] /\ slots'[k].schedule = s

WritesOwnChurch ==
    \A r \in Requests, s \in Schedules :
        req'[r] # req[r] /\ Changed(s) => schedules'[s].church = TokenChurch[req'[r].user]

\* What a request changes, a schedule or one of its slots, is of the church in
\* the token of the one who asked, although several of the writes do not name
\* the church.
WithinChurch == [][WritesOwnChurch]_vars

Filled(s) == {k \in Slots : Stored(k) /\ slots[k].schedule = s}
TeamOf(s) == {slots[k].member : k \in Filled(s)}
ToldOf(s) == {slots[k].member : k \in {j \in Filled(s) : slots[j].notified}}
SureOf(s) == {slots[k].member : k \in {j \in Filled(s) : slots[j].confirmed}}

Teams == INSTANCE TeamLifecycle WITH
    stage <- [s \in Schedules |-> schedules[s].status],
    team  <- [s \in Schedules |-> TeamOf(s)],
    told  <- [s \in Schedules |-> ToldOf(s)],
    sure  <- [s \in Schedules |-> SureOf(s)]

\* The rows of schedules and slots are teams as TeamLifecycle promises them:
\* nobody is on a team twice, a publication marks exactly the team of that
\* moment, and whoever leaves is neither confirmed nor notified any more.
ImplementsTeams == Teams!Spec
=============================================================================
