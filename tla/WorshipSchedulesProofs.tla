----------------------- MODULE WorshipSchedulesProofs -----------------------
(***************************************************************************)
(* Proofs about WorshipSchedules, for any number of schedules, slots,      *)
(* members, churches and overlapping requests.                             *)
(*                                                                         *)
(* Every step is the step of one request: it does to the rows what         *)
(* TableStep says, and its request then knows what Known says.  The        *)
(* invariant and the two action properties follow from that alone.         *)
(***************************************************************************)
EXTENDS WorshipSchedules, TLAPS

TablesType ==
    /\ schedules \in [Schedules -> ScheduleRow]
    /\ slots \in [Slots -> SlotRow]
    /\ racing \in [Schedules -> SUBSET Requests]

\* A slot belongs to a schedule that exists; one that is not stored is not
\* notified; a schedule that does not exist was not published.
RowsNamed ==
    /\ \A k \in Slots :
          /\ slots[k].state # "absent" =>
               slots[k].schedule \in Schedules /\ Exists(slots[k].schedule)
          /\ ~Stored(k) => ~slots[k].notified
    /\ \A s \in Schedules : ~Exists(s) => ~schedules[s].publishedAt

Rows == TablesType /\ RowsNamed /\ NotifiedIsPublished /\ UnnotifiedIsLate

Statement(pc) == CASE pc = "cancel"  -> "cancel"
                   [] pc = "publish" -> "publish"
                   [] pc = "insert"  -> "add"
                   [] pc = "delete"  -> "remove"
                   [] pc = "confirm" -> "confirm"

\* What a request knows between its two statements: the schedule is of its
\* church.
Known(r) ==
    LET call == req[r] IN
    call.pc # "over" =>
        /\ call.op = Statement(call.pc) /\ call.answer = "none"
        /\ call.user \in Members /\ call.schedule \in Schedules
        /\ FindSchedule(call.schedule, TokenChurch[call.user])
        /\ call.pc = "insert" => call.member \in Members
        /\ call.pc \in {"delete", "confirm"} => call.slot \in Slots

\* An insert into a schedule that was published meanwhile is in the race, and
\* its slot has not added to that schedule since.
InRace(r) ==
    LET s == req[r].schedule IN
    req[r].pc = "insert" /\ schedules[s].publishedAt =>
        r \in racing[s] /\ \A k \in Unnotified(s) : slots[k].from # r

\* Who was told of a publication has published.
HasPublished(r) ==
    req[r].op = "publish" /\ req[r].answer = "ok" =>
        req[r].schedule \in Schedules /\ schedules[req[r].schedule].publishedAt

IInv ==
    /\ req \in [Requests -> Request]
    /\ Rows
    /\ OnePublisher
    /\ \A r \in Requests : Known(r) /\ InRace(r) /\ HasPublished(r)

-----------------------------------------------------------------------------
(* What one statement does to the rows.                                    *)

\* What a schedule can still become.
Onward == [absent |-> {"absent", "draft", "published", "cancelled"},
           draft |-> {"draft", "published", "cancelled"},
           published |-> {"published", "cancelled"},
           cancelled |-> {"cancelled"}]

\* What no step undoes.
Kept ==
    /\ \A s \in Schedules :
          /\ schedules'[s].status \in Onward[schedules[s].status]
          /\ schedules[s].publishedAt => schedules'[s].publishedAt
    /\ \A k \in Slots : Stored(k) /\ slots'[k].state = "stored" =>
          /\ slots'[k].member = slots[k].member
          /\ slots[k].confirmed => slots'[k].confirmed
          /\ slots[k].notified => slots'[k].notified

\* Schedules stay and keep their church.
Stay ==
    \A s \in Schedules : Exists(s) =>
        Exists(s)' /\ schedules'[s].church = schedules[s].church

\* To a published schedule a step of r adds unmarked slots from r at most; a
\* publication leaves none and takes note of the inserts in flight.
Races(r) ==
    \A s \in Schedules : schedules'[s].publishedAt =>
        \/ /\ schedules[s].publishedAt /\ racing'[s] = racing[s]
           /\ \A k \in Unnotified(s)' :
                 \/ k \in Unnotified(s) /\ slots'[k].from = slots[k].from
                 \/ slots'[k].from = r
        \/ /\ Unnotified(s)' = {}
           /\ \A q \in Requests : req[q].pc = "insert" /\ req[q].schedule = s => q \in racing'[s]

TableStep(r, c) ==
    /\ Rows' /\ Kept /\ Stay /\ Races(r)
    /\ \A s \in Schedules : Changed(s) => schedules'[s].church = c

LEMMA StatusOnward ==
    ASSUME NEW row \in ScheduleRow
    PROVE  /\ row.status \in Onward[row.status]
           /\ "cancelled" \in Onward[row.status]
           /\ row.status \in {"absent", "draft"} => "published" \in Onward[row.status]
           /\ row.status = "absent" => "draft" \in Onward[row.status]
BY DEF Onward, ScheduleRow

\* A refusal, a read or an abort.
LEMMA NoTableStep ==
    ASSUME Rows, UNCHANGED <<schedules, slots, racing>>, NEW r \in Requests, NEW c
    PROVE  TableStep(r, c)
<1>1. Rows'
  BY DEF Rows, TablesType, RowsNamed, NotifiedIsPublished, UnnotifiedIsLate, Unnotified,
         Exists, Stored
<1>2. Kept
  BY StatusOnward DEF Kept, Rows, TablesType
<1>3. Stay /\ Races(r) /\ \A s \in Schedules : ~Changed(s)
  BY DEF Stay, Races, Changed, Unnotified, Exists, Stored
<1>4. QED
  BY <1>1, <1>2, <1>3 DEF TableStep

\* The slots stay, and of the schedules one changes that was not published
\* and is not now, or one that keeps publishedAt.
LEMMA ScheduleStep ==
    ASSUME Rows, UNCHANGED <<slots, racing>>, NEW r \in Requests, NEW c,
           NEW s \in Schedules, NEW row \in ScheduleRow,
           schedules' = [schedules EXCEPT ![s] = row],
           row.status # "absent", row.status \in Onward[schedules[s].status],
           row.publishedAt = schedules[s].publishedAt, row.church = c,
           Exists(s) => schedules[s].church = c,
           row.status = "published" => schedules[s].status = "published",
           row.status = "draft" => ~row.publishedAt
    PROVE  TableStep(r, c)
<1> USE DEF Rows, TablesType
<1>1. /\ schedules' \in [Schedules -> ScheduleRow]
      /\ schedules'[s] = row
      /\ \A x \in Schedules : x # s => schedules'[x] = schedules[x]
      /\ \A x \in Schedules : schedules'[x].publishedAt = schedules[x].publishedAt
  OBVIOUS
<1>2. \A x \in Schedules : Exists(x) => Exists(x)'
  BY <1>1 DEF Exists
<1>3. \A x \in Schedules : Unnotified(x)' = Unnotified(x)
  BY DEF Unnotified, Stored
<1>4. TablesType'
  BY <1>1
<1>5. RowsNamed'
  BY <1>1, <1>2 DEF RowsNamed, Exists, Stored
<1>6. NotifiedIsPublished'
  <2>1. \A k \in Slots : slots[k].notified => slots[k].schedule \in Schedules
    BY DEF RowsNamed, Stored
  <2>2. row.publishedAt => row.status \in {"published", "cancelled"}
    BY DEF ScheduleRow
  <2>3. QED
    BY <1>1, <2>1, <2>2 DEF NotifiedIsPublished
<1>7. UnnotifiedIsLate'
  BY <1>1, <1>3 DEF UnnotifiedIsLate
<1>8. Kept
  BY <1>1, StatusOnward DEF Kept
<1>9. Stay /\ Races(r)
  BY <1>1, <1>2, <1>3 DEF Stay, Races, Exists
<1>10. \A x \in Schedules : Changed(x) => schedules'[x].church = c
  BY <1>1 DEF Changed
<1>11. QED
  BY <1>4, <1>5, <1>6, <1>7, <1>8, <1>9, <1>10 DEF TableStep

\* A schedule is created, its notes are edited, it is cancelled.
LEMMA ScheduleSteps ==
    ASSUME Rows, UNCHANGED <<slots, racing>>, NEW r \in Requests, NEW s \in Schedules,
           NEW c \in Churches
    PROVE  /\ \A d \in Dates, n \in Notes \cup {None} :
                RepoCreateSchedule(s, c, d, n) => TableStep(r, c)
           /\ \A n \in Notes \cup {None} :
                FindSchedule(s, c) /\ RepoUpdateSchedule(s, n) => TableStep(r, c)
           /\ FindSchedule(s, c) /\ RepoCancelSchedule(s) => TableStep(r, c)
<1>0. /\ schedules[s] \in ScheduleRow
      /\ schedules[s].publishedAt => schedules[s].status \in {"published", "cancelled"}
      /\ schedules[s].status = "published" => schedules[s].publishedAt
      /\ ~Exists(s) => ~schedules[s].publishedAt
  BY DEF Rows, TablesType, NotifiedIsPublished, RowsNamed
<1>1. ASSUME NEW d \in Dates, NEW n \in Notes \cup {None}, RepoCreateSchedule(s, c, d, n)
      PROVE  TableStep(r, c)
  <2> DEFINE row == [status |-> "draft", church |-> c, date |-> d, notes |-> n,
                     publishedAt |-> FALSE]
  <2>1. /\ row \in ScheduleRow /\ row.status = "draft" /\ row.church = c
        /\ row.publishedAt = FALSE
    BY DEF ScheduleRow
  <2>2. /\ schedules[s].status = "absent" /\ ~Exists(s)
        /\ schedules' = [schedules EXCEPT ![s] = row]
    BY <1>1 DEF RepoCreateSchedule, Exists
  <2>3. schedules[s].publishedAt = FALSE
    BY <1>0, <2>2 DEF ScheduleRow
  <2> HIDE DEF row
  <2>4. QED
    BY <1>0, <2>1, <2>2, <2>3, StatusOnward, ScheduleStep
<1>2. ASSUME NEW n \in Notes \cup {None}, FindSchedule(s, c), RepoUpdateSchedule(s, n)
      PROVE  TableStep(r, c)
  <2> DEFINE row == [schedules[s] EXCEPT !.notes = n]
  <2>1. /\ row \in ScheduleRow /\ row.status = schedules[s].status
        /\ row.church = schedules[s].church /\ row.publishedAt = schedules[s].publishedAt
    BY <1>0 DEF ScheduleRow
  <2>2. schedules' = [schedules EXCEPT ![s] = row]
    BY <1>2 DEF RepoUpdateSchedule
  <2> HIDE DEF row
  <2>3. schedules[s].church = c /\ row.status # "absent"
    BY <1>2, <2>1 DEF FindSchedule, Exists
  <2>4. row.status = "draft" => ~row.publishedAt
    BY <1>0, <2>1
  <2>5. QED
    BY <1>0, <2>1, <2>2, <2>3, <2>4, StatusOnward, ScheduleStep
<1>3. ASSUME FindSchedule(s, c), RepoCancelSchedule(s)
      PROVE  TableStep(r, c)
  <2> DEFINE row == [schedules[s] EXCEPT !.status = "cancelled"]
  <2>1. /\ row \in ScheduleRow /\ row.status = "cancelled"
        /\ row.church = schedules[s].church /\ row.publishedAt = schedules[s].publishedAt
    BY <1>0 DEF ScheduleRow
  <2>2. schedules' = [schedules EXCEPT ![s] = row]
    BY <1>3 DEF RepoCancelSchedule
  <2> HIDE DEF row
  <2>3. schedules[s].church = c
    BY <1>3 DEF FindSchedule
  <2>4. QED
    BY <1>0, <2>1, <2>2, <2>3, StatusOnward, ScheduleStep
<1>4. QED
  BY <1>1, <1>2, <1>3

LEMMA NotifiedRow ==
    ASSUME NEW row \in SlotRow, NEW s
    PROVE  /\ Notified(row, s) \in SlotRow
           /\ Notified(row, s).state = row.state
           /\ Notified(row, s).schedule = row.schedule
           /\ Notified(row, s).member = row.member
           /\ Notified(row, s).confirmed = row.confirmed
           /\ Notified(row, s).from = row.from
           /\ row.notified => Notified(row, s).notified
           /\ row.state = "stored" /\ row.schedule = s => Notified(row, s).notified
           /\ ~(row.state = "stored" /\ row.schedule = s) => Notified(row, s) = row
BY DEF Notified, SlotRow

\* The publication.
LEMMA PublishStep ==
    ASSUME Rows, NEW r \in Requests, NEW s \in Schedules, NEW c,
           FindSchedule(s, c), RepoPublishSchedule(s)
    PROVE  TableStep(r, c) /\ ~schedules[s].publishedAt /\ schedules'[s].publishedAt
<1> DEFINE row  == [schedules[s] EXCEPT !.status = "published", !.publishedAt = TRUE]
           race == {q \in Requests : req[q].pc = "insert" /\ req[q].schedule = s}
<1>0. schedules[s] \in ScheduleRow /\ schedules[s].status = "draft" /\ ~schedules[s].publishedAt
  BY DEF Rows, TablesType, RepoPublishSchedule, Publishable, NotifiedIsPublished
<1>1. /\ row \in ScheduleRow /\ row.status = "published" /\ row.publishedAt
      /\ row.church = schedules[s].church
  BY <1>0 DEF ScheduleRow
<1>2. schedules' = [schedules EXCEPT ![s] = row]
  BY DEF RepoPublishSchedule
<1>3. racing' = [racing EXCEPT ![s] = race] /\ race \in SUBSET Requests
  BY DEF RepoPublishSchedule
<1>4. /\ slots' \in [Slots -> SlotRow]
      /\ \A k \in Slots : slots'[k] = Notified(slots[k], s) /\ slots[k] \in SlotRow
  BY NotifiedRow DEF RepoPublishSchedule, Rows, TablesType
<1>5. /\ schedules' \in [Schedules -> ScheduleRow]
      /\ schedules'[s] = row
      /\ \A x \in Schedules : x # s => schedules'[x] = schedules[x]
      /\ racing' \in [Schedules -> SUBSET Requests]
      /\ racing'[s] = race
      /\ \A x \in Schedules : x # s => racing'[x] = racing[x]
  BY <1>1, <1>2, <1>3 DEF Rows, TablesType
<1> HIDE DEF row
<1>6. \A k \in Slots :
        /\ slots'[k].state = slots[k].state /\ slots'[k].schedule = slots[k].schedule
        /\ slots'[k].member = slots[k].member /\ slots'[k].from = slots[k].from
        /\ slots[k].confirmed => slots'[k].confirmed
        /\ slots[k].notified => slots'[k].notified
        /\ Stored(k) /\ slots[k].schedule = s => slots'[k].notified
        /\ ~(Stored(k) /\ slots[k].schedule = s) => slots'[k] = slots[k]
  BY <1>4, NotifiedRow DEF Stored
<1>7. \A x \in Schedules : Exists(x) => Exists(x)'
  BY <1>1, <1>5 DEF Exists
<1>8. Unnotified(s)' = {} /\ \A x \in Schedules : x # s => Unnotified(x)' = Unnotified(x)
  BY <1>6 DEF Unnotified, Stored
<1>9. TablesType'
  BY <1>4, <1>5 DEF TablesType
<1>10. RowsNamed'
  <2>1. \A k \in Slots : slots'[k].state # "absent" =>
            slots'[k].schedule \in Schedules /\ Exists(slots[k].schedule)'
    BY <1>6, <1>7 DEF Rows, RowsNamed, Exists
  <2>2. \A k \in Slots : ~Stored(k)' => ~slots'[k].notified
    BY <1>6 DEF Rows, RowsNamed, Stored
  <2>3. \A x \in Schedules : ~Exists(x)' => ~schedules'[x].publishedAt
    BY <1>1, <1>5 DEF Rows, RowsNamed, Exists
  <2>4. QED
    BY <2>1, <2>2, <2>3 DEF RowsNamed
<1>11. NotifiedIsPublished'
  <2>1. \A k \in Slots : slots'[k].notified =>
            slots[k].notified \/ slots[k].schedule = s
    BY <1>6
  <2>2. \A k \in Slots : slots[k].notified => slots[k].schedule \in Schedules
    BY DEF Rows, RowsNamed, Stored
  <2>3. \A k \in Slots : slots'[k].notified => schedules'[slots'[k].schedule].publishedAt
    BY <1>1, <1>5, <1>6, <2>1, <2>2 DEF Rows, NotifiedIsPublished
  <2>4. QED
    BY <1>1, <1>5, <2>3 DEF Rows, NotifiedIsPublished
<1>12. UnnotifiedIsLate'
  BY <1>5, <1>6, <1>8 DEF Rows, UnnotifiedIsLate, Unnotified
<1>13. Kept
  <2>1. \A x \in Schedules : schedules'[x].status \in Onward[schedules[x].status]
    BY <1>0, <1>1, <1>5, StatusOnward DEF Rows, TablesType
  <2>2. QED
    BY <1>1, <1>5, <1>6, <2>1 DEF Kept
<1>14. Stay
  BY <1>1, <1>5, <1>7 DEF Stay
<1>15. Races(r)
  BY <1>5, <1>6, <1>8 DEF Races, Unnotified
<1>16. \A x \in Schedules : Changed(x) => schedules'[x].church = c
  BY <1>1, <1>5, <1>6 DEF Changed, FindSchedule
<1>17. QED
  BY <1>0, <1>1, <1>5, <1>9, <1>10, <1>11, <1>12, <1>13, <1>14, <1>15, <1>16
     DEF TableStep, Rows

\* One slot of s changes and no schedule: it is added by r, or it loses its
\* place among the unmarked ones or keeps it.
LEMMA SlotStep ==
    ASSUME Rows, UNCHANGED <<schedules, racing>>, NEW r \in Requests, NEW c,
           NEW s \in Schedules, FindSchedule(s, c),
           NEW k \in Slots, NEW row \in SlotRow,
           slots' = [slots EXCEPT ![k] = row],
           row.state # "absent", row.schedule = s,
           row.state = "stored" /\ ~Stored(k) =>
              /\ ~row.notified /\ row.from = r
              /\ schedules[s].publishedAt =>
                    r \in racing[s] /\ \A j \in Unnotified(s) : slots[j].from # r,
           row.state = "stored" /\ Stored(k) =>
              /\ row.notified = slots[k].notified /\ row.from = slots[k].from
              /\ row.member = slots[k].member /\ slots[k].schedule = s
              /\ slots[k].confirmed => row.confirmed,
           row.state = "removed" => ~row.notified
    PROVE  TableStep(r, c)
<1>1. /\ slots' \in [Slots -> SlotRow]
      /\ slots'[k] = row
      /\ \A j \in Slots : j # k => slots'[j] = slots[j]
  BY DEF Rows, TablesType
<1>2. s \in Schedules /\ Exists(s) /\ schedules[s].church = c
  BY DEF FindSchedule
<1>3. TablesType'
  BY <1>1 DEF Rows, TablesType
<1>4. row.state \in {"stored", "removed"}
  BY DEF SlotRow
<1>5. RowsNamed'
  <2>1. \A j \in Slots : slots'[j].state # "absent" =>
            slots'[j].schedule \in Schedules /\ Exists(slots[j].schedule)'
    BY <1>1, <1>2 DEF Rows, RowsNamed, Exists
  <2>2. \A j \in Slots : ~Stored(j)' => ~slots'[j].notified
    BY <1>1, <1>4 DEF Rows, RowsNamed, Stored
  <2>3. \A x \in Schedules : ~Exists(x)' => ~schedules'[x].publishedAt
    BY DEF Rows, RowsNamed, Exists
  <2>4. QED
    BY <2>1, <2>2, <2>3 DEF RowsNamed
<1>6. NotifiedIsPublished'
  <2>1. row.notified => slots[k].notified /\ slots[k].schedule = s
    BY <1>4 DEF Rows, RowsNamed, Stored
  <2>2. QED
    BY <1>1, <2>1 DEF Rows, NotifiedIsPublished
<1>7. \A x \in Schedules, j \in Slots : j \in Unnotified(x)' =>
        \/ j \in Unnotified(x) /\ slots'[j].from = slots[j].from
        \/ j = k /\ x = s /\ row.state = "stored" /\ ~Stored(k) /\ slots'[j].from = r
  BY <1>1 DEF Unnotified, Stored
<1>8. UnnotifiedIsLate'
  <2> SUFFICES ASSUME NEW x \in Schedules, schedules'[x].publishedAt,
                      NEW i \in Unnotified(x)', NEW j \in Unnotified(x)'
               PROVE  slots'[j].from \in racing'[x] /\ (slots'[i].from = slots'[j].from => i = j)
    BY DEF UnnotifiedIsLate
  <2>1. i \in Slots /\ j \in Slots
    BY DEF Unnotified
  <2> DEFINE Old(q) == q \in Unnotified(x) /\ slots'[q].from = slots[q].from
             New(q) == /\ q = k /\ x = s /\ row.state = "stored" /\ ~Stored(k)
                       /\ slots'[q].from = r
  <2>2. Old(i) \/ New(i)
    BY <1>7, <2>1
  <2>3. Old(j) \/ New(j)
    BY <1>7, <2>1
  <2>4. QED
    BY <2>2, <2>3 DEF Rows, UnnotifiedIsLate
<1>9. Kept
  <2>1. \A x \in Schedules : schedules'[x].status \in Onward[schedules[x].status]
    BY StatusOnward DEF Rows, TablesType
  <2>2. QED
    BY <1>1, <2>1 DEF Kept
<1>10. Stay
  BY DEF Stay, Exists
<1>11. Races(r)
  <2>1. \A x \in Schedules : \A j \in Unnotified(x)' :
           \/ j \in Unnotified(x) /\ slots'[j].from = slots[j].from
           \/ slots'[j].from = r
    BY <1>7 DEF Unnotified
  <2>2. QED
    BY <2>1 DEF Races
<1>12. \A x \in Schedules : Changed(x) => schedules'[x].church = c
  BY <1>1, <1>2 DEF Changed
<1>13. QED
  BY <1>3, <1>5, <1>6, <1>8, <1>9, <1>10, <1>11, <1>12 DEF TableStep, Rows

\* A slot is added, removed, confirmed.
LEMMA SlotSteps ==
    ASSUME Rows, UNCHANGED <<schedules, racing>>, NEW r \in Requests, NEW c,
           NEW s \in Schedules, FindSchedule(s, c), NEW k \in Slots
    PROVE  /\ \A m \in Members :
                /\ RepoAddSlot(k, s, m, r)
                /\ schedules[s].publishedAt =>
                      r \in racing[s] /\ \A j \in Unnotified(s) : slots[j].from # r
                => TableStep(r, c)
           /\ Removable(k, s, c) /\ RepoRemoveSlot(k) => TableStep(r, c)
           /\ \A m \in Members :
                Confirmable(k, s, m) /\ RepoConfirmSlot(k) => TableStep(r, c)
<1>0. slots[k] \in SlotRow
  BY DEF Rows, TablesType
<1>1. ASSUME NEW m \in Members, RepoAddSlot(k, s, m, r),
             schedules[s].publishedAt =>
                r \in racing[s] /\ \A j \in Unnotified(s) : slots[j].from # r
      PROVE  TableStep(r, c)
  <2> DEFINE row == [state |-> "stored", schedule |-> s, member |-> m,
                     confirmed |-> FALSE, notified |-> FALSE, from |-> r]
  <2>1. /\ row \in SlotRow /\ row.state = "stored" /\ row.schedule = s
        /\ row.notified = FALSE /\ row.from = r
    BY DEF SlotRow
  <2>2. slots' = [slots EXCEPT ![k] = row] /\ ~Stored(k)
    BY <1>1 DEF RepoAddSlot, Stored
  <2> HIDE DEF row
  <2>3. QED
    BY <1>1, <2>1, <2>2, SlotStep
<1>2. ASSUME Removable(k, s, c), RepoRemoveSlot(k)
      PROVE  TableStep(r, c)
  <2> DEFINE row == [NoSlot EXCEPT !.state = "removed", !.schedule = slots[k].schedule]
  <2>1. /\ row \in SlotRow /\ row.state = "removed" /\ row.notified = FALSE
        /\ row.schedule = s
    BY <1>2 DEF SlotRow, NoSlot, Removable
  <2>2. slots' = [slots EXCEPT ![k] = row]
    BY <1>2 DEF RepoRemoveSlot
  <2> HIDE DEF row
  <2>3. QED
    BY <2>1, <2>2, SlotStep
<1>3. ASSUME NEW m \in Members, Confirmable(k, s, m), RepoConfirmSlot(k)
      PROVE  TableStep(r, c)
  <2> DEFINE row == [slots[k] EXCEPT !.confirmed = TRUE]
  <2>1. /\ row \in SlotRow /\ row.state = "stored" /\ row.schedule = s
        /\ row.notified = slots[k].notified /\ row.from = slots[k].from
        /\ row.member = slots[k].member /\ row.confirmed = TRUE
        /\ Stored(k) /\ slots[k].schedule = s
    BY <1>0, <1>3 DEF SlotRow, Confirmable, Stored
  <2>2. slots' = [slots EXCEPT ![k] = row]
    BY <1>3 DEF RepoConfirmSlot
  <2> HIDE DEF row
  <2>3. QED
    BY <2>1, <2>2, SlotStep
<1>4. QED
  BY <1>1, <1>2, <1>3

-----------------------------------------------------------------------------
(* Requests.                                                               *)

StepOf(r, new) ==
    /\ new \in Request /\ req' = [req EXCEPT ![r] = new]
    /\ TableStep(r, TokenChurch[new.user])
    /\ Known(r)' /\ InRace(r)' /\ HasPublished(r)'
    /\ new.op = "publish" /\ new.answer = "ok" => ~schedules[new.schedule].publishedAt

Ops == {"create", "update", "cancel", "publish", "add", "remove", "confirm"}

LEMMA Fields ==
    ASSUME NEW op \in Ops,
           NEW u \in Members \cup {None}, NEW s \in Schedules \cup {None}
    PROVE  /\ Call(op, u, s) \in Request
           /\ Call(op, u, s).op = op /\ Call(op, u, s).user = u
           /\ Call(op, u, s).schedule = s /\ Call(op, u, s).answer = "none"
           /\ Call(op, u, s).pc = "over"
BY DEF Call, NoRequest, Request, Ops

Answers == {"ok", "refused", "noSchedule", "noSlot", "lost"}

\* A request is over; if it was told that it published, it did just now.
LEMMA FinishStep ==
    ASSUME IInv, NEW r \in Requests, NEW call, NEW answer \in Answers,
           call.op \in Ops,
           call.user \in Members \cup {None}, call.schedule \in Schedules \cup {None},
           TableStep(r, TokenChurch[call.user]),
           Finish(r, call, answer),
           call.op = "publish" /\ answer = "ok" =>
              /\ call.schedule \in Schedules
              /\ ~schedules[call.schedule].publishedAt
              /\ schedules'[call.schedule].publishedAt
    PROVE  \E new \in Request : StepOf(r, new)
<1> DEFINE made == Call(call.op, call.user, call.schedule)
           new  == [made EXCEPT !.answer = answer]
<1>1. /\ made \in Request /\ made.op = call.op /\ made.user = call.user
      /\ made.schedule = call.schedule /\ made.pc = "over"
  BY Fields
<1> HIDE DEF made
<1>2. /\ new \in Request /\ new.op = call.op /\ new.user = call.user
      /\ new.schedule = call.schedule /\ new.pc = "over" /\ new.answer = answer
  BY <1>1 DEF Request, Answers
<1>3. req' = [req EXCEPT ![r] = new]
  BY DEF Finish, made
<1>4. req'[r] = new
  BY <1>2, <1>3 DEF IInv
<1> HIDE DEF new
<1>5. Known(r)' /\ InRace(r)' /\ HasPublished(r)'
  BY <1>2, <1>4 DEF Known, InRace, HasPublished
<1>6. QED
  BY <1>2, <1>3, <1>5 DEF StepOf

\* A request goes on after its read.
LEMMA ContinueStep ==
    ASSUME IInv, NEW r \in Requests, NEW call \in Request,
           NEW pc \in {"cancel", "publish", "insert", "delete", "confirm"},
           UNCHANGED <<schedules, slots, racing>>,
           Continue(r, call, pc),
           call.op = Statement(pc), call.answer = "none",
           call.user \in Members, call.schedule \in Schedules,
           FindSchedule(call.schedule, TokenChurch[call.user]),
           pc = "insert" =>
              call.member \in Members /\ ~schedules[call.schedule].publishedAt,
           pc \in {"delete", "confirm"} => call.slot \in Slots
    PROVE  \E new \in Request : StepOf(r, new)
<1> DEFINE new == [call EXCEPT !.pc = pc]
<1>1. /\ new \in Request /\ new.op = call.op /\ new.user = call.user
      /\ new.schedule = call.schedule /\ new.pc = pc /\ new.answer = "none"
      /\ new.member = call.member /\ new.slot = call.slot
  BY DEF Request
<1>2. req' = [req EXCEPT ![r] = new]
  BY DEF Continue
<1>3. req'[r] = new
  BY <1>1, <1>2 DEF IInv
<1> HIDE DEF new
<1>4. Known(r)'
  BY <1>1, <1>3 DEF Known, FindSchedule, Exists
<1>5. InRace(r)' /\ HasPublished(r)'
  BY <1>1, <1>3 DEF InRace, HasPublished
<1>6. TableStep(r, TokenChurch[new.user])
  BY NoTableStep DEF IInv
<1>7. QED
  BY <1>1, <1>2, <1>4, <1>5, <1>6 DEF StepOf

\* The first statement of a request.
LEMMA OpeningStep ==
    ASSUME IInv, NEW r \in Requests, NEW u \in Members, NEW s \in Schedules,
           \/ \E d \in Dates, n \in Notes \cup {None} : CreateSchedule(r, u, s, d, n)
           \/ \E n \in Notes \cup {None} : UpdateSchedule(r, u, s, n)
           \/ CancelSchedule(r, u, s) \/ PublishSchedule(r, u, s)
           \/ \E m \in Members : AddSlot(r, u, s, m)
           \/ \E k \in Slots : RemoveSlot(r, u, s, k) \/ ConfirmSlot(r, u, s, k)
    PROVE  \E new \in Request : StepOf(r, new)
<1> DEFINE c == TokenChurch[u]
<1>0. c \in Churches /\ Rows
  BY ParametersOK DEF IInv
<1>1. ASSUME NEW d \in Dates, NEW n \in Notes \cup {None}, CreateSchedule(r, u, s, d, n)
      PROVE  \E new \in Request : StepOf(r, new)
  <2>1. CASE RepoCreateSchedule(s, c, d, n) /\ Finish(r, Call("create", u, s), "ok")
    <3>1. TableStep(r, c)
      BY <1>0, <1>1, <2>1, ScheduleSteps DEF CreateSchedule
    <3>2. QED
      BY <2>1, <3>1, Fields, FinishStep DEF Answers, Ops
  <2>2. CASE Finish(r, Call("create", u, None), "refused") /\ UNCHANGED schedules
    <3>1. TableStep(r, c)
      BY <1>0, <1>1, <2>2, NoTableStep DEF CreateSchedule
    <3>2. QED
      BY <2>2, <3>1, Fields, FinishStep DEF Answers, Ops
  <2>3. QED
    BY <1>1, <2>1, <2>2 DEF CreateSchedule
<1>2. ASSUME NEW n \in Notes \cup {None}, UpdateSchedule(r, u, s, n)
      PROVE  \E new \in Request : StepOf(r, new)
  <2>1. CASE FindSchedule(s, c) /\ RepoUpdateSchedule(s, n)
             /\ Finish(r, Call("update", u, s), "ok")
    <3>1. TableStep(r, c)
      BY <1>0, <1>2, <2>1, ScheduleSteps DEF UpdateSchedule
    <3>2. QED
      BY <2>1, <3>1, Fields, FinishStep DEF Answers, Ops
  <2>2. CASE Finish(r, Call("update", u, s), "noSchedule") /\ UNCHANGED schedules
    <3>1. TableStep(r, c)
      BY <1>0, <1>2, <2>2, NoTableStep DEF UpdateSchedule
    <3>2. QED
      BY <2>2, <3>1, Fields, FinishStep DEF Answers, Ops
  <2>3. QED
    BY <1>2, <2>1, <2>2 DEF UpdateSchedule
<1> DEFINE reads == UNCHANGED <<schedules, slots, racing>>
<1>3. ASSUME reads PROVE TableStep(r, c)
  BY <1>0, <1>3, NoTableStep
<1>4. ASSUME NEW op \in {"cancel", "publish", "add", "remove", "confirm"},
             NEW call, call.op = op, call.user = u, call.schedule = s, reads,
             NEW answer \in {"refused", "noSchedule", "noSlot"}, Finish(r, call, answer)
      PROVE  \E new \in Request : StepOf(r, new)
  BY <1>3, <1>4, FinishStep DEF Answers, Ops
<1>5. CASE CancelSchedule(r, u, s)
  <2> DEFINE call == Call("cancel", u, s)
  <2>1. call \in Request /\ call.op = "cancel" /\ call.user = u /\ call.schedule = s
        /\ call.answer = "none"
    BY Fields DEF Ops
  <2>2. reads
    BY <1>5 DEF CancelSchedule
  <2>3. \/ Finish(r, call, "noSchedule") \/ Finish(r, call, "refused")
        \/ FindSchedule(s, c) /\ Continue(r, call, "cancel")
    BY <1>5 DEF CancelSchedule
  <2> HIDE DEF call
  <2>4. CASE FindSchedule(s, c) /\ Continue(r, call, "cancel")
    BY <2>1, <2>2, <2>4, ContinueStep DEF Statement
  <2>5. QED
    BY <1>4, <2>1, <2>2, <2>3, <2>4
<1>6. CASE PublishSchedule(r, u, s)
  <2> DEFINE call == Call("publish", u, s)
  <2>1. call \in Request /\ call.op = "publish" /\ call.user = u /\ call.schedule = s
        /\ call.answer = "none"
    BY Fields DEF Ops
  <2>2. reads
    BY <1>6 DEF PublishSchedule
  <2>3. \/ Finish(r, call, "noSchedule") \/ Finish(r, call, "refused")
        \/ FindSchedule(s, c) /\ Continue(r, call, "publish")
    BY <1>6 DEF PublishSchedule
  <2> HIDE DEF call
  <2>4. CASE FindSchedule(s, c) /\ Continue(r, call, "publish")
    BY <2>1, <2>2, <2>4, ContinueStep DEF Statement
  <2>5. QED
    BY <1>4, <2>1, <2>2, <2>3, <2>4
<1>7. ASSUME NEW m \in Members, AddSlot(r, u, s, m)
      PROVE  \E new \in Request : StepOf(r, new)
  <2> DEFINE call == [Call("add", u, s) EXCEPT !.member = m]
  <2>1. call \in Request /\ call.op = "add" /\ call.user = u /\ call.schedule = s
        /\ call.answer = "none" /\ call.member = m
    BY DEF Call, NoRequest, Request
  <2>2. reads
    BY <1>7 DEF AddSlot
  <2>3. \/ Finish(r, call, "noSchedule") \/ Finish(r, call, "refused")
        \/ FindSchedule(s, c) /\ Addable(s) /\ Continue(r, call, "insert")
    BY <1>7 DEF AddSlot
  <2> HIDE DEF call
  <2>4. CASE FindSchedule(s, c) /\ Addable(s) /\ Continue(r, call, "insert")
    <3>1. ~schedules[s].publishedAt
      BY <1>0, <2>4 DEF Addable, Rows, NotifiedIsPublished
    <3>2. QED
      BY <2>1, <2>2, <2>4, <3>1, ContinueStep DEF Statement
  <2>5. QED
    BY <1>4, <2>1, <2>2, <2>3, <2>4
<1>8. ASSUME NEW k \in Slots, RemoveSlot(r, u, s, k)
      PROVE  \E new \in Request : StepOf(r, new)
  <2> DEFINE call == [Call("remove", u, s) EXCEPT !.slot = k]
  <2>1. call \in Request /\ call.op = "remove" /\ call.user = u /\ call.schedule = s
        /\ call.answer = "none" /\ call.slot = k
    BY DEF Call, NoRequest, Request
  <2>2. reads
    BY <1>8 DEF RemoveSlot
  <2>3. \/ Finish(r, call, "noSchedule")
        \/ FindSchedule(s, c) /\ Continue(r, call, "delete")
    BY <1>8 DEF RemoveSlot
  <2> HIDE DEF call
  <2>4. CASE FindSchedule(s, c) /\ Continue(r, call, "delete")
    BY <2>1, <2>2, <2>4, ContinueStep DEF Statement
  <2>5. QED
    BY <1>4, <2>1, <2>2, <2>3, <2>4
<1>9. ASSUME NEW k \in Slots, ConfirmSlot(r, u, s, k)
      PROVE  \E new \in Request : StepOf(r, new)
  <2> DEFINE call == [Call("confirm", u, s) EXCEPT !.slot = k]
  <2>1. call \in Request /\ call.op = "confirm" /\ call.user = u /\ call.schedule = s
        /\ call.answer = "none" /\ call.slot = k
    BY DEF Call, NoRequest, Request
  <2>2. reads
    BY <1>9 DEF ConfirmSlot
  <2>3. \/ Finish(r, call, "noSchedule") \/ Finish(r, call, "noSlot")
        \/ Finish(r, call, "refused")
        \/ FindSchedule(s, c) /\ Continue(r, call, "confirm")
    BY <1>9 DEF ConfirmSlot
  <2> HIDE DEF call
  <2>4. CASE FindSchedule(s, c) /\ Continue(r, call, "confirm")
    BY <2>1, <2>2, <2>4, ContinueStep DEF Statement
  <2>5. QED
    BY <1>4, <2>1, <2>2, <2>3, <2>4
<1>10. QED
  BY <1>1, <1>2, <1>5, <1>6, <1>7, <1>8, <1>9

\* The second statement of a request, or its end.
LEMMA ClosingStep ==
    ASSUME IInv, NEW r \in Requests,
           \/ Cancel(r) \/ Publish(r) \/ DeleteSlot(r) \/ UpdateSlot(r) \/ Abort(r)
           \/ \E k \in Slots : InsertSlot(r, k)
    PROVE  \E new \in Request : StepOf(r, new)
<1> DEFINE call == req[r]
           s    == call.schedule
           c    == TokenChurch[call.user]
<1>0. call.pc \in {"cancel", "publish", "insert", "delete", "confirm"}
  BY DEF IInv, Request, Cancel, Publish, DeleteSlot, UpdateSlot, Abort, InsertSlot, Free
<1>1. /\ call.op = Statement(call.pc)
      /\ call.user \in Members /\ s \in Schedules /\ c \in Churches
      /\ FindSchedule(s, c)
      /\ call.pc = "insert" => call.member \in Members
      /\ call.pc \in {"delete", "confirm"} => call.slot \in Slots
      /\ Rows
  BY <1>0, ParametersOK DEF IInv, Known
<1>2. call.op \in {"cancel", "publish", "add", "remove", "confirm"}
  BY <1>0, <1>1 DEF Statement
<1>3. ASSUME NEW answer \in Answers, Finish(r, call, answer), TableStep(r, c),
             call.op = "publish" => answer # "ok"
      PROVE  \E new \in Request : StepOf(r, new)
  BY <1>1, <1>2, <1>3, FinishStep DEF Ops
<1> USE DEF Answers
<1>4. CASE Cancel(r)
  <2>1. TableStep(r, c) /\ call.op = "cancel"
    BY <1>1, <1>4, ScheduleSteps DEF Cancel, Statement
  <2>2. QED
    BY <1>3, <1>4, <2>1 DEF Cancel
<1>5. CASE Publish(r)
  <2>1. CASE RepoPublishSchedule(s)
    <3>1. TableStep(r, c) /\ ~schedules[s].publishedAt /\ schedules'[s].publishedAt
      BY <1>1, <2>1, PublishStep
    <3>2. PICK told \in {"ok", "lost"} : Finish(r, call, told)
      BY <1>5, <2>1 DEF Publish, RepoPublishSchedule
    <3>3. QED
      BY <1>1, <1>2, <3>1, <3>2, FinishStep DEF Ops
  <2>2. CASE Finish(r, call, "noSchedule") /\ UNCHANGED <<schedules, slots, racing>>
    BY <1>1, <1>3, <2>2, NoTableStep
  <2>3. QED
    BY <1>5, <2>1, <2>2 DEF Publish
<1>6. CASE DeleteSlot(r)
  <2>1. call.pc = "delete" /\ call.op = "remove"
    BY <1>1, <1>6 DEF DeleteSlot, Statement
  <2>2. TableStep(r, c)
    BY <1>1, <1>6, <2>1, SlotSteps, NoTableStep DEF DeleteSlot
  <2>3. QED
    BY <1>3, <1>6, <2>1, <2>2 DEF DeleteSlot
<1>7. CASE UpdateSlot(r)
  <2>1. call.pc = "confirm" /\ call.op = "confirm"
    BY <1>1, <1>7 DEF UpdateSlot, Statement
  <2>2. TableStep(r, c)
    BY <1>1, <1>7, <2>1, SlotSteps, NoTableStep DEF UpdateSlot
  <2>3. QED
    BY <1>3, <1>7, <2>1, <2>2 DEF UpdateSlot
<1>8. CASE Abort(r)
  <2>1. TableStep(r, c)
    BY <1>1, <1>8, NoTableStep DEF Abort
  <2>2. QED
    BY <1>3, <1>8, <2>1 DEF Abort
<1>9. ASSUME NEW k \in Slots, InsertSlot(r, k)
      PROVE  \E new \in Request : StepOf(r, new)
  <2>1. call.pc = "insert" /\ call.op = "add"
    BY <1>1, <1>9 DEF InsertSlot, Statement
  <2>2. schedules[s].publishedAt =>
          r \in racing[s] /\ \A j \in Unnotified(s) : slots[j].from # r
    BY <2>1 DEF IInv, InRace
  <2>3. TableStep(r, c)
    BY <1>1, <1>9, <2>1, <2>2, SlotSteps, NoTableStep DEF InsertSlot
  <2>4. QED
    BY <1>3, <1>9, <2>1, <2>3 DEF InsertSlot
<1>10. QED
  BY <1>4, <1>5, <1>6, <1>7, <1>8, <1>9

\* Whatever the step, it is the step of one request.
LEMMA NextIsStep ==
    ASSUME IInv, Next
    PROVE  \E r \in Requests, new \in Request : StepOf(r, new)
BY OpeningStep, ClosingStep DEF Next

\* Such a step keeps what the other requests know.
LEMMA StepKeeps ==
    ASSUME IInv, NEW r \in Requests, NEW new \in Request, StepOf(r, new)
    PROVE  IInv'
<1>0. /\ req' = [req EXCEPT ![r] = new] /\ TableStep(r, TokenChurch[new.user])
      /\ Known(r)' /\ InRace(r)' /\ HasPublished(r)'
      /\ new.op = "publish" /\ new.answer = "ok" => ~schedules[new.schedule].publishedAt
  BY DEF StepOf
<1>1. /\ req' \in [Requests -> Request]
      /\ req'[r] = new
      /\ \A q \in Requests : q # r => req'[q] = req[q]
  BY <1>0 DEF IInv
<1>2. ASSUME NEW q \in Requests, q # r
      PROVE  (Known(q) /\ InRace(q) /\ HasPublished(q))'
  <2>1. Known(q)'
    BY <1>0, <1>1, <1>2 DEF IInv, Known, TableStep, Stay, FindSchedule
  <2>2. InRace(q)'
    <3> SUFFICES ASSUME NEW s \in Schedules, req[q].pc = "insert", req[q].schedule = s,
                        schedules'[s].publishedAt
                 PROVE  /\ q \in racing'[s]
                        /\ \A k \in Unnotified(s)' : slots'[k].from # q
      BY <1>1, <1>2 DEF IInv, Known, InRace, Unnotified, Stored
    <3>2. CASE /\ schedules[s].publishedAt /\ racing'[s] = racing[s]
               /\ \A k \in Unnotified(s)' :
                     \/ k \in Unnotified(s) /\ slots'[k].from = slots[k].from
                     \/ slots'[k].from = r
      BY <1>2, <3>2 DEF IInv, InRace
    <3>3. CASE Unnotified(s)' = {} /\ q \in racing'[s]
      BY <3>3
    <3>4. QED
      BY <1>0, <3>2, <3>3 DEF TableStep, Races
  <2>3. HasPublished(q)'
    BY <1>0, <1>1, <1>2 DEF IInv, HasPublished, TableStep, Kept
  <2>4. QED
    BY <2>1, <2>2, <2>3
<1>3. OnePublisher'
  <2> DEFINE Told(q) == req[q].op = "publish" /\ req[q].answer = "ok"
  <2>1. ASSUME NEW q \in Requests, q # r, Told(q), Told(r)', req[q].schedule = new.schedule
        PROVE  FALSE
    BY <1>0, <1>1, <2>1 DEF IInv, HasPublished
  <2>2. QED
    BY <1>1, <2>1 DEF IInv, OnePublisher
<1>4. QED
  BY <1>0, <1>1, <1>2, <1>3 DEF IInv, TableStep

-----------------------------------------------------------------------------
(* The theorems.                                                           *)

LEMMA InitInv == Init => IInv
<1> SUFFICES ASSUME Init PROVE IInv
  OBVIOUS
<1>1. /\ NoSchedule \in ScheduleRow /\ NoSchedule.status = "absent"
      /\ NoSchedule.publishedAt = FALSE
      /\ NoSlot \in SlotRow /\ NoSlot.state = "absent" /\ NoSlot.notified = FALSE
      /\ NoRequest \in Request /\ NoRequest.pc = "over" /\ NoRequest.op = "none"
  BY DEF NoSchedule, ScheduleRow, NoSlot, SlotRow, NoRequest, Request
<1>2. Rows
  BY <1>1 DEF Init, Rows, TablesType, RowsNamed, NotifiedIsPublished, UnnotifiedIsLate,
              Unnotified, Stored, Exists
<1>3. OnePublisher /\ \A r \in Requests : Known(r) /\ InRace(r) /\ HasPublished(r)
  BY <1>1 DEF Init, OnePublisher, Known, InRace, HasPublished
<1>4. QED
  BY <1>1, <1>2, <1>3 DEF IInv, Init

LEMMA Stutter == ASSUME IInv, UNCHANGED vars PROVE IInv'
<1>1. Rows'
  BY NoTableStep DEF vars, IInv, Rows, TablesType, RowsNamed, NotifiedIsPublished,
                     UnnotifiedIsLate, Unnotified, Stored, Exists
<1>2. QED
  BY <1>1 DEF vars, IInv, OnePublisher, Known, InRace, HasPublished, FindSchedule,
              Exists, Unnotified, Stored

\* The invariant behind the theorems below.
THEOREM Invariance == Spec => []IInv
<1>1. IInv /\ Next => IInv'
  BY NextIsStep, StepKeeps
<1>2. QED
  BY InitInv, Stutter, <1>1, PTL DEF Spec

\* Every variable keeps its type.
THEOREM TypeCorrect == Spec => []TypeOK
<1>1. IInv => TypeOK
  BY DEF IInv, Rows, TablesType, TypeOK
<1>2. QED
  BY Invariance, <1>1, PTL

\* Members are marked as notified by a publication only.
THEOREM NotifiedHolds == Spec => []NotifiedIsPublished
<1>1. IInv => NotifiedIsPublished
  BY DEF IInv, Rows
<1>2. QED
  BY Invariance, <1>1, PTL

\* A published schedule has at most one member who was not notified for each
\* request that raced with the publication.
THEOREM LateHolds == Spec => []UnnotifiedIsLate
<1>1. IInv => UnnotifiedIsLate
  BY DEF IInv, Rows
<1>2. QED
  BY Invariance, <1>1, PTL

\* Of overlapping publications one at most succeeds.
THEOREM OnePublisherHolds == Spec => []OnePublisher
<1>1. IInv => OnePublisher
  BY DEF IInv
<1>2. QED
  BY Invariance, <1>1, PTL

\* A schedule never goes back: above all a cancellation, which looks at
\* nothing, is not undone by a publication in flight.  A row of a slot that
\* stays keeps its member, its confirmation and its notification.
THEOREM NothingUndone == Spec => [][Kept]_vars
<1>1. IInv /\ Next => Kept
  BY NextIsStep DEF StepOf, TableStep
<1>2. QED
  BY Invariance, <1>1, PTL DEF Spec

\* A request writes within the church of its token.
THEOREM WithinChurchHolds == Spec => WithinChurch
<1>1. IInv /\ Next => WritesOwnChurch
  <2> SUFFICES ASSUME IInv, Next PROVE WritesOwnChurch
    OBVIOUS
  <2>1. PICK r \in Requests, new \in Request : StepOf(r, new)
    BY NextIsStep
  <2>2. req'[r] = new /\ \A q \in Requests : q # r => req'[q] = req[q]
    BY <2>1 DEF StepOf, IInv
  <2>3. QED
    BY <2>1, <2>2 DEF StepOf, TableStep, WritesOwnChurch
<1>2. QED
  BY Invariance, <1>1, PTL DEF Spec, WithinChurch

-----------------------------------------------------------------------------
(* The refinement of TeamLifecycle.  Its steps are sets of members, those  *)
(* of the code rows of slots: the two agree because no two rows of one     *)
(* schedule have the same member.                                          *)

NobodyTwice ==
    /\ \A k \in Slots : Stored(k) => slots[k].member \in Members
    /\ \A j, k \in Slots :
          /\ Stored(j) /\ Stored(k)
          /\ slots[j].schedule = slots[k].schedule /\ slots[j].member = slots[k].member
          => j = k

\* The row of a schedule changes: it is planned, its notes are edited, it is
\* cancelled.
RowMoves(s) ==
    /\ UNCHANGED slots
    /\ \E row \in ScheduleRow :
          /\ schedules' = [schedules EXCEPT ![s] = row]
          /\ \/ schedules[s].status = "absent" /\ row.status = "draft"
             \/ row.status = schedules[s].status
             \/ schedules[s].status # "absent" /\ row.status = "cancelled"

\* Everything that a step can do to schedules and slots.
Effect ==
    \/ UNCHANGED <<schedules, slots>>
    \/ \E s \in Schedules : RowMoves(s) \/ RepoPublishSchedule(s)
    \/ /\ UNCHANGED schedules
       /\ \E k \in Slots :
             \/ \E s \in Schedules, m \in Members, r \in Requests :
                   Exists(s) /\ RepoAddSlot(k, s, m, r)
             \/ Stored(k) /\ RepoRemoveSlot(k)
             \/ Stored(k) /\ RepoConfirmSlot(k)

LEMMA RowMovesIs ==
    ASSUME IInv, NEW s \in Schedules, NEW c \in Churches, UNCHANGED slots
    PROVE  /\ \A d \in Dates, n \in Notes \cup {None} :
                RepoCreateSchedule(s, c, d, n) => RowMoves(s)
           /\ \A n \in Notes \cup {None} : RepoUpdateSchedule(s, n) => RowMoves(s)
           /\ Exists(s) /\ RepoCancelSchedule(s) => RowMoves(s)
<1>0. schedules[s] \in ScheduleRow
  BY DEF IInv, Rows, TablesType
<1>1. ASSUME NEW d \in Dates, NEW n \in Notes \cup {None}, RepoCreateSchedule(s, c, d, n)
      PROVE  RowMoves(s)
  <2> DEFINE row == [status |-> "draft", church |-> c, date |-> d, notes |-> n,
                     publishedAt |-> FALSE]
  <2>1. row \in ScheduleRow /\ row.status = "draft"
    BY DEF ScheduleRow
  <2>2. schedules[s].status = "absent" /\ schedules' = [schedules EXCEPT ![s] = row]
    BY <1>1 DEF RepoCreateSchedule, Exists
  <2> HIDE DEF row
  <2>3. QED
    BY <2>1, <2>2 DEF RowMoves
<1>2. ASSUME NEW n \in Notes \cup {None}, RepoUpdateSchedule(s, n)
      PROVE  RowMoves(s)
  <2> DEFINE row == [schedules[s] EXCEPT !.notes = n]
  <2>1. row \in ScheduleRow /\ row.status = schedules[s].status
    BY <1>0 DEF ScheduleRow
  <2>2. schedules' = [schedules EXCEPT ![s] = row]
    BY <1>2 DEF RepoUpdateSchedule
  <2> HIDE DEF row
  <2>3. QED
    BY <2>1, <2>2 DEF RowMoves
<1>3. ASSUME Exists(s), RepoCancelSchedule(s)
      PROVE  RowMoves(s)
  <2> DEFINE row == [schedules[s] EXCEPT !.status = "cancelled"]
  <2>1. row \in ScheduleRow /\ row.status = "cancelled"
    BY <1>0 DEF ScheduleRow
  <2>2. schedules' = [schedules EXCEPT ![s] = row]
    BY <1>3 DEF RepoCancelSchedule
  <2> HIDE DEF row
  <2>3. QED
    BY <1>3, <2>1, <2>2 DEF RowMoves, Exists
<1>4. QED
  BY <1>1, <1>2, <1>3

LEMMA EffectOf == IInv /\ Next => Effect
<1> SUFFICES ASSUME IInv, NEW r \in Requests,
                    \/ \E u \in Members, s \in Schedules :
                          \/ \E d \in Dates, n \in Notes \cup {None} :
                                CreateSchedule(r, u, s, d, n)
                          \/ \E n \in Notes \cup {None} : UpdateSchedule(r, u, s, n)
                          \/ CancelSchedule(r, u, s) \/ PublishSchedule(r, u, s)
                          \/ \E m \in Members : AddSlot(r, u, s, m)
                          \/ \E k \in Slots : RemoveSlot(r, u, s, k) \/ ConfirmSlot(r, u, s, k)
                    \/ \E k \in Slots : InsertSlot(r, k)
                    \/ Cancel(r) \/ Publish(r) \/ DeleteSlot(r) \/ UpdateSlot(r) \/ Abort(r)
             PROVE  Effect
  BY DEF Next
<1> DEFINE call == req[r]
<1>0. call.pc # "over" => /\ call.schedule \in Schedules /\ Exists(call.schedule)
                          /\ call.pc = "insert" => call.member \in Members
                          /\ call.pc \in {"delete", "confirm"} => call.slot \in Slots
  BY DEF IInv, Known, FindSchedule
<1>1. ASSUME NEW u \in Members, NEW s \in Schedules,
             \/ \E d \in Dates, n \in Notes \cup {None} : CreateSchedule(r, u, s, d, n)
             \/ \E n \in Notes \cup {None} : UpdateSchedule(r, u, s, n)
      PROVE  Effect
  <2>1. TokenChurch[u] \in Churches
    BY ParametersOK
  <2>2. UNCHANGED schedules \/ RowMoves(s)
    BY <1>1, <2>1, RowMovesIs DEF CreateSchedule, UpdateSchedule
  <2>3. UNCHANGED slots
    BY <1>1 DEF CreateSchedule, UpdateSchedule
  <2>4. QED
    BY <2>2, <2>3 DEF Effect
<1>2. ASSUME NEW u \in Members, NEW s \in Schedules,
             \/ CancelSchedule(r, u, s) \/ PublishSchedule(r, u, s)
             \/ \E m \in Members : AddSlot(r, u, s, m)
             \/ \E k \in Slots : RemoveSlot(r, u, s, k) \/ ConfirmSlot(r, u, s, k)
      PROVE  Effect
  BY <1>2 DEF CancelSchedule, PublishSchedule, AddSlot, RemoveSlot, ConfirmSlot, Effect
<1>3. CASE Cancel(r)
  <2>1. PICK c \in Churches : TRUE
    BY <1>0, <1>3, ParametersOK DEF Cancel, IInv, Known
  <2>2. RowMoves(call.schedule)
    BY <1>0, <1>3, <2>1, RowMovesIs DEF Cancel
  <2>3. QED
    BY <1>0, <1>3, <2>2 DEF Effect, Cancel
<1>4. CASE Publish(r)
  BY <1>0, <1>4 DEF Publish, Effect
<1>5. ASSUME NEW k \in Slots, InsertSlot(r, k)
      PROVE  Effect
  BY <1>0, <1>5 DEF InsertSlot, Effect
<1>6. CASE DeleteSlot(r)
  BY <1>0, <1>6 DEF DeleteSlot, Removable, Effect
<1>7. CASE UpdateSlot(r)
  BY <1>0, <1>7 DEF UpdateSlot, Confirmable, Effect
<1>8. CASE Abort(r)
  BY <1>8 DEF Abort, Effect
<1>9. QED
  BY <1>1, <1>2, <1>3, <1>4, <1>5, <1>6, <1>7, <1>8

LEMMA TeamsAre ==
    \A s \in Schedules : \A m :
        /\ m \in TeamOf(s) <=> \E k \in Filled(s) : slots[k].member = m
        /\ m \in ToldOf(s) <=> \E k \in Filled(s) : slots[k].notified /\ slots[k].member = m
        /\ m \in SureOf(s) <=> \E k \in Filled(s) : slots[k].confirmed /\ slots[k].member = m
BY DEF TeamOf, ToldOf, SureOf

TeamsStay(s) ==
    TeamOf(s)' = TeamOf(s) /\ ToldOf(s)' = ToldOf(s) /\ SureOf(s)' = SureOf(s)

\* A schedule of which no slot changes keeps its team.
LEMMA TeamFrame ==
    ASSUME NEW s \in Schedules, Filled(s)' = Filled(s),
           \A k \in Filled(s) : slots'[k] = slots[k]
    PROVE  TeamsStay(s)
BY DEF TeamsStay, TeamOf, ToldOf, SureOf

LEMMA NoSlotChanges ==
    ASSUME NobodyTwice, UNCHANGED slots
    PROVE  NobodyTwice' /\ \A s \in Schedules : TeamsStay(s)
<1>1. NobodyTwice'
  BY DEF NobodyTwice, Stored
<1>2. \A s \in Schedules : Filled(s)' = Filled(s)
  BY DEF Filled, Stored
<1>3. QED
  BY <1>1, <1>2, TeamFrame

\* One slot changes and keeps its schedule, or gets one.
LEMMA OneSlot ==
    ASSUME IInv, NEW k \in Slots, NEW s \in Schedules, NEW row \in SlotRow,
           slots' = [slots EXCEPT ![k] = row], row.schedule = s,
           Stored(k) => slots[k].schedule = s
    PROVE  /\ slots'[k] = row /\ \A j \in Slots : j # k => slots'[j] = slots[j]
           /\ \A x \in Schedules : x # s => TeamsStay(x)
           /\ Filled(s)' = IF row.state = "stored" THEN Filled(s) \cup {k} ELSE Filled(s) \ {k}
<1>1. slots'[k] = row /\ \A j \in Slots : j # k => slots'[j] = slots[j]
  BY DEF IInv, Rows, TablesType
<1>2. ASSUME NEW x \in Schedules, x # s PROVE TeamsStay(x)
  <2>1. Filled(x)' = Filled(x) /\ k \notin Filled(x)
    BY <1>1, <1>2 DEF Filled, Stored
  <2>2. \A j \in Filled(x) : slots'[j] = slots[j]
    BY <1>1, <2>1 DEF Filled
  <2>3. QED
    BY <2>1, <2>2, TeamFrame
<1>3. Filled(s)' = IF row.state = "stored" THEN Filled(s) \cup {k} ELSE Filled(s) \ {k}
  BY <1>1 DEF Filled, Stored
<1>4. QED
  BY <1>1, <1>2, <1>3

LEMMA JoinStep ==
    ASSUME IInv, NobodyTwice, NEW k \in Slots, NEW s \in Schedules, NEW m \in Members,
           NEW r \in Requests, RepoAddSlot(k, s, m, r)
    PROVE  /\ NobodyTwice'
           /\ \A x \in Schedules : x # s => TeamsStay(x)
           /\ m \notin TeamOf(s) /\ TeamOf(s)' = TeamOf(s) \cup {m}
           /\ ToldOf(s)' = ToldOf(s) /\ SureOf(s)' = SureOf(s)
<1> DEFINE row == [state |-> "stored", schedule |-> s, member |-> m,
                   confirmed |-> FALSE, notified |-> FALSE, from |-> r]
<1>1. /\ row \in SlotRow
      /\ row.state = "stored" /\ row.schedule = s /\ row.member = m
      /\ row.confirmed = FALSE /\ row.notified = FALSE
  BY DEF SlotRow
<1>2. slots' = [slots EXCEPT ![k] = row] /\ ~Stored(k) /\ ~OnTeam(s, m)
  BY DEF RepoAddSlot, Stored
<1> HIDE DEF row
<1>3. /\ slots'[k] = row /\ \A j \in Slots : j # k => slots'[j] = slots[j]
      /\ \A x \in Schedules : x # s => TeamsStay(x)
      /\ Filled(s)' = Filled(s) \cup {k}
  BY <1>1, <1>2, OneSlot
<1>4. k \notin Filled(s) /\ \A j \in Filled(s) : slots'[j] = slots[j]
  BY <1>2, <1>3 DEF Filled
<1>5. m \notin TeamOf(s)
  BY <1>2, TeamsAre DEF OnTeam, Filled
<1>6. TeamOf(s)' = TeamOf(s) \cup {m} /\ ToldOf(s)' = ToldOf(s) /\ SureOf(s)' = SureOf(s)
  BY <1>1, <1>3, <1>4 DEF TeamOf, ToldOf, SureOf
<1>7. NobodyTwice'
  BY <1>1, <1>2, <1>3 DEF NobodyTwice, OnTeam, Stored
<1>8. QED
  BY <1>3, <1>5, <1>6, <1>7

LEMMA LeaveStep ==
    ASSUME IInv, NobodyTwice, NEW k \in Slots, Stored(k), RepoRemoveSlot(k)
    PROVE  \E s \in Schedules, m \in Members :
              /\ NobodyTwice'
              /\ \A x \in Schedules : x # s => TeamsStay(x)
              /\ m \in TeamOf(s) /\ TeamOf(s)' = TeamOf(s) \ {m}
              /\ ToldOf(s)' = ToldOf(s) \ {m} /\ SureOf(s)' = SureOf(s) \ {m}
<1>0. slots[k].schedule \in Schedules /\ slots[k].member \in Members
  BY DEF IInv, Rows, RowsNamed, NobodyTwice, Stored
<1>3. PICK s \in Schedules, m \in Members : s = slots[k].schedule /\ m = slots[k].member
  BY <1>0
<1> DEFINE row == [NoSlot EXCEPT !.state = "removed", !.schedule = s]
<1>1. row \in SlotRow /\ row.state = "removed" /\ row.schedule = s
  BY DEF NoSlot, SlotRow
<1>2. slots' = [slots EXCEPT ![k] = row]
  BY <1>3 DEF RepoRemoveSlot
<1> HIDE DEF row
<1>4. /\ slots'[k] = row /\ \A j \in Slots : j # k => slots'[j] = slots[j]
      /\ \A x \in Schedules : x # s => TeamsStay(x)
      /\ Filled(s)' = Filled(s) \ {k}
  <2>1. Stored(k) => slots[k].schedule = s
    BY <1>3
  <2>2. QED
    BY <1>1, <1>2, <2>1, OneSlot
<1>5. k \in Filled(s) /\ \A j \in Filled(s) : j # k => slots'[j] = slots[j] /\ slots[j].member # m
  BY <1>3, <1>4 DEF Filled, NobodyTwice
<1>6. /\ m \in TeamOf(s) /\ TeamOf(s)' = TeamOf(s) \ {m}
      /\ ToldOf(s)' = ToldOf(s) \ {m} /\ SureOf(s)' = SureOf(s) \ {m}
  BY <1>3, <1>4, <1>5 DEF TeamOf, ToldOf, SureOf
<1>7. NobodyTwice'
  BY <1>1, <1>4 DEF NobodyTwice, Stored
<1>8. QED
  BY <1>4, <1>6, <1>7

LEMMA ConfirmStep ==
    ASSUME IInv, NobodyTwice, NEW k \in Slots, Stored(k), RepoConfirmSlot(k)
    PROVE  \E s \in Schedules, m \in Members :
              /\ NobodyTwice'
              /\ \A x \in Schedules : x # s => TeamsStay(x)
              /\ m \in TeamOf(s) /\ TeamOf(s)' = TeamOf(s)
              /\ ToldOf(s)' = ToldOf(s) /\ SureOf(s)' = SureOf(s) \cup {m}
<1>0. slots[k].schedule \in Schedules /\ slots[k].member \in Members
  BY DEF IInv, Rows, RowsNamed, NobodyTwice, Stored
<1>3. PICK s \in Schedules, m \in Members, row \in SlotRow :
         /\ s = slots[k].schedule /\ m = slots[k].member
         /\ row = [slots[k] EXCEPT !.confirmed = TRUE]
  BY <1>0 DEF IInv, Rows, TablesType, SlotRow
<1>1. /\ row.state = "stored" /\ row.schedule = s /\ row.member = m /\ row.confirmed = TRUE
      /\ row.notified = slots[k].notified
  BY <1>3 DEF IInv, Rows, TablesType, SlotRow, Stored
<1>2. slots' = [slots EXCEPT ![k] = row]
  BY <1>3 DEF RepoConfirmSlot, IInv, Rows, TablesType
<1>4. k \in Filled(s)
  BY <1>3 DEF Filled
<1>5. /\ slots'[k] = row /\ \A j \in Slots : j # k => slots'[j] = slots[j]
      /\ \A x \in Schedules : x # s => TeamsStay(x)
      /\ Filled(s)' = Filled(s)
  <2>1. Stored(k) => slots[k].schedule = s
    BY <1>3
  <2>2. row.schedule = s /\ row.state = "stored"
    BY <1>1
  <2>3. /\ slots'[k] = row /\ \A j \in Slots : j # k => slots'[j] = slots[j]
        /\ \A x \in Schedules : x # s => TeamsStay(x)
        /\ Filled(s)' = Filled(s) \cup {k}
    BY <1>2, <2>1, <2>2, OneSlot, ZenonT(40)
  <2>4. QED
    BY <1>4, <2>3
<1>6. \A j \in Filled(s) : /\ slots'[j].member = slots[j].member
                           /\ slots'[j].notified = slots[j].notified
                           /\ slots'[j].confirmed <=> slots[j].confirmed \/ j = k
  BY <1>1, <1>3, <1>5 DEF Filled
<1>7. /\ m \in TeamOf(s) /\ TeamOf(s)' = TeamOf(s)
      /\ ToldOf(s)' = ToldOf(s) /\ SureOf(s)' = SureOf(s) \cup {m}
  BY <1>3, <1>4, <1>5, <1>6 DEF TeamOf, ToldOf, SureOf
<1>8. NobodyTwice'
  <2>1. \A j \in Slots : /\ slots'[j].state = slots[j].state
                         /\ slots'[j].schedule = slots[j].schedule
                         /\ slots'[j].member = slots[j].member
    BY <1>1, <1>3, <1>5 DEF Stored
  <2>2. QED
    BY <2>1 DEF NobodyTwice, Stored
<1>9. QED
  BY <1>5, <1>7, <1>8

LEMMA AnnounceStep ==
    ASSUME IInv, NobodyTwice, NEW s \in Schedules, RepoPublishSchedule(s)
    PROVE  /\ NobodyTwice'
           /\ \A x \in Schedules : x # s => TeamsStay(x)
           /\ TeamOf(s)' = TeamOf(s) /\ ToldOf(s)' = TeamOf(s) /\ SureOf(s)' = SureOf(s)
<1>1. \A k \in Slots :
        /\ slots'[k].state = slots[k].state /\ slots'[k].schedule = slots[k].schedule
        /\ slots'[k].member = slots[k].member
        /\ slots'[k].confirmed = slots[k].confirmed
        /\ Stored(k) /\ slots[k].schedule = s => slots'[k].notified
        /\ ~(Stored(k) /\ slots[k].schedule = s) => slots'[k] = slots[k]
  BY NotifiedRow DEF RepoPublishSchedule, IInv, Rows, TablesType, Stored
<1>2. \A x \in Schedules : Filled(x)' = Filled(x)
  BY <1>1 DEF Filled, Stored
<1>3. ASSUME NEW x \in Schedules, x # s PROVE TeamsStay(x)
  <2>1. \A k \in Filled(x) : slots'[k] = slots[k]
    BY <1>1, <1>3 DEF Filled
  <2>2. QED
    BY <1>2, <2>1, TeamFrame
<1>4. \A k \in Filled(s) : /\ slots'[k].member = slots[k].member /\ slots'[k].notified
                           /\ slots'[k].confirmed = slots[k].confirmed
  BY <1>1 DEF Filled
<1>5. TeamOf(s)' = TeamOf(s) /\ ToldOf(s)' = TeamOf(s) /\ SureOf(s)' = SureOf(s)
  BY <1>2, <1>4 DEF TeamOf, ToldOf, SureOf
<1>6. NobodyTwice'
  BY <1>1 DEF NobodyTwice, Stored
<1>7. QED
  BY <1>3, <1>5, <1>6

\* What a step does to the stages of schedules, with the team left alone.
LEMMA StageStep ==
    ASSUME IInv, NEW s \in Schedules, RowMoves(s), \A x \in Schedules : TeamsStay(x)
    PROVE  [Teams!Next]_(Teams!vars)
<1>1. PICK row \in ScheduleRow :
         /\ schedules' = [schedules EXCEPT ![s] = row]
         /\ \/ schedules[s].status = "absent" /\ row.status = "draft"
            \/ row.status = schedules[s].status
            \/ schedules[s].status # "absent" /\ row.status = "cancelled"
  BY DEF RowMoves
<1>2. /\ schedules'[s] = row /\ schedules[s] \in ScheduleRow
      /\ \A x \in Schedules : x # s => schedules'[x] = schedules[x]
  BY <1>1 DEF IInv, Rows, TablesType
<1>3. /\ [x \in Schedules |-> TeamOf(x)]' = [x \in Schedules |-> TeamOf(x)]
      /\ [x \in Schedules |-> ToldOf(x)]' = [x \in Schedules |-> ToldOf(x)]
      /\ [x \in Schedules |-> SureOf(x)]' = [x \in Schedules |-> SureOf(x)]
  BY DEF TeamsStay
<1> DEFINE stage == [x \in Schedules |-> schedules[x].status]
<1>4. stage' = [stage EXCEPT ![s] = row.status] /\ stage[s] = schedules[s].status
  BY <1>2
<1>5. CASE row.status = schedules[s].status
  <2>1. stage' = stage
    BY <1>2, <1>5
  <2>2. QED
    BY <1>3, <2>1 DEF Teams!vars
<1>6. CASE schedules[s].status = "absent" /\ row.status = "draft"
  <2>1. Teams!Plan(s)
    BY <1>3, <1>4, <1>6 DEF Teams!Plan
  <2>2. QED
    BY <2>1 DEF Teams!Next
<1>7. CASE /\ schedules[s].status # "absent" /\ row.status = "cancelled"
           /\ row.status # schedules[s].status
  <2>1. schedules[s].status \in {"draft", "published"}
    BY <1>2, <1>7 DEF ScheduleRow
  <2>2. Teams!Cancel(s)
    BY <1>3, <1>4, <1>7, <2>1 DEF Teams!Cancel
  <2>3. QED
    BY <2>2 DEF Teams!Next
<1>8. QED
  BY <1>1, <1>5, <1>6, <1>7

LEMMA TeamStep ==
    ASSUME IInv, NobodyTwice, Effect
    PROVE  NobodyTwice' /\ [Teams!Next]_(Teams!vars)
<1> DEFINE stage == [x \in Schedules |-> schedules[x].status]
           team  == [x \in Schedules |-> TeamOf(x)]
           told  == [x \in Schedules |-> ToldOf(x)]
           sure  == [x \in Schedules |-> SureOf(x)]
<1>1. CASE UNCHANGED <<schedules, slots>>
  <2>1. NobodyTwice' /\ \A x \in Schedules : TeamsStay(x)
    BY <1>1, NoSlotChanges
  <2>2. team' = team /\ told' = told /\ sure' = sure /\ stage' = stage
    BY <1>1, <2>1 DEF TeamsStay
  <2>3. QED
    BY <2>1, <2>2 DEF Teams!vars
<1>2. ASSUME NEW s \in Schedules, RowMoves(s)
      PROVE  NobodyTwice' /\ [Teams!Next]_(Teams!vars)
  BY <1>2, NoSlotChanges, StageStep DEF RowMoves
<1>3. ASSUME NEW s \in Schedules, RepoPublishSchedule(s)
      PROVE  NobodyTwice' /\ [Teams!Next]_(Teams!vars)
  <2>1. /\ NobodyTwice'
        /\ \A x \in Schedules : x # s => TeamsStay(x)
        /\ TeamOf(s)' = TeamOf(s) /\ ToldOf(s)' = TeamOf(s) /\ SureOf(s)' = SureOf(s)
    BY <1>3, AnnounceStep
  <2>2. /\ schedules[s].status = "draft" /\ schedules'[s].status = "published"
        /\ \A x \in Schedules : x # s => schedules'[x] = schedules[x]
    BY <1>3 DEF RepoPublishSchedule, Publishable, IInv, Rows, TablesType, ScheduleRow
  <2>3. /\ stage' = [stage EXCEPT ![s] = "published"]
        /\ told' = [told EXCEPT ![s] = team[s]]
        /\ team' = team /\ sure' = sure
    BY <2>1, <2>2 DEF TeamsStay
  <2>4. Teams!Announce(s)
    BY <2>2, <2>3 DEF Teams!Announce
  <2>5. QED
    BY <2>1, <2>4 DEF Teams!Next
<1>4. ASSUME NEW s \in Schedules, NEW m \in Members, NEW r \in Requests, NEW k \in Slots,
             UNCHANGED schedules, Exists(s), RepoAddSlot(k, s, m, r)
      PROVE  NobodyTwice' /\ [Teams!Next]_(Teams!vars)
  <2>1. /\ NobodyTwice'
        /\ \A x \in Schedules : x # s => TeamsStay(x)
        /\ m \notin TeamOf(s) /\ TeamOf(s)' = TeamOf(s) \cup {m}
        /\ ToldOf(s)' = ToldOf(s) /\ SureOf(s)' = SureOf(s)
    BY <1>4, JoinStep
  <2>2. /\ team' = [team EXCEPT ![s] = team[s] \cup {m}]
        /\ told' = told /\ sure' = sure /\ stage' = stage
    BY <1>4, <2>1 DEF TeamsStay
  <2>3. Teams!Join(s, m)
    BY <1>4, <2>1, <2>2 DEF Teams!Join, Exists
  <2>4. QED
    BY <2>1, <2>3 DEF Teams!Next
<1>5. ASSUME NEW k \in Slots, UNCHANGED schedules, Stored(k), RepoRemoveSlot(k)
      PROVE  NobodyTwice' /\ [Teams!Next]_(Teams!vars)
  <2>1. PICK s \in Schedules, m \in Members :
          /\ NobodyTwice'
          /\ \A x \in Schedules : x # s => TeamsStay(x)
          /\ m \in TeamOf(s) /\ TeamOf(s)' = TeamOf(s) \ {m}
          /\ ToldOf(s)' = ToldOf(s) \ {m} /\ SureOf(s)' = SureOf(s) \ {m}
    BY <1>5, LeaveStep
  <2>2. /\ team' = [team EXCEPT ![s] = team[s] \ {m}]
        /\ told' = [told EXCEPT ![s] = told[s] \ {m}]
        /\ sure' = [sure EXCEPT ![s] = sure[s] \ {m}]
        /\ stage' = stage
    BY <1>5, <2>1 DEF TeamsStay
  <2>3. Teams!Leave(s, m)
    BY <2>1, <2>2 DEF Teams!Leave
  <2>4. QED
    BY <2>1, <2>3 DEF Teams!Next
<1>6. ASSUME NEW k \in Slots, UNCHANGED schedules, Stored(k), RepoConfirmSlot(k)
      PROVE  NobodyTwice' /\ [Teams!Next]_(Teams!vars)
  <2>1. PICK s \in Schedules, m \in Members :
          /\ NobodyTwice'
          /\ \A x \in Schedules : x # s => TeamsStay(x)
          /\ m \in TeamOf(s) /\ TeamOf(s)' = TeamOf(s)
          /\ ToldOf(s)' = ToldOf(s) /\ SureOf(s)' = SureOf(s) \cup {m}
    BY <1>6, ConfirmStep
  <2>2. /\ sure' = [sure EXCEPT ![s] = sure[s] \cup {m}]
        /\ team' = team /\ told' = told /\ stage' = stage
    BY <1>6, <2>1 DEF TeamsStay
  <2>3. Teams!Confirm(s, m)
    BY <2>1, <2>2 DEF Teams!Confirm
  <2>4. QED
    BY <2>1, <2>3 DEF Teams!Next
<1>7. QED
  BY <1>1, <1>2, <1>3, <1>4, <1>5, <1>6 DEF Effect

\* The rows of schedules and slots implement the teams of TeamLifecycle.
THEOREM TeamsImplemented == Spec => ImplementsTeams
<1>1. Init => NobodyTwice /\ Teams!Init
  <2> SUFFICES ASSUME Init PROVE NobodyTwice /\ Teams!Init
    OBVIOUS
  <2>1. \A k \in Slots : ~Stored(k)
    BY DEF Init, NoSlot, Stored
  <2>2. \A s \in Schedules : TeamOf(s) = {} /\ ToldOf(s) = {} /\ SureOf(s) = {}
    BY <2>1 DEF TeamOf, ToldOf, SureOf, Filled
  <2>3. QED
    BY <2>1, <2>2 DEF Init, NobodyTwice, NoSchedule, Teams!Init
<1>2. IInv /\ NobodyTwice /\ [Next]_vars => NobodyTwice' /\ [Teams!Next]_(Teams!vars)
  <2>1. UNCHANGED vars => Effect
    BY DEF vars, Effect
  <2>2. QED
    BY <2>1, EffectOf, TeamStep
<1>3. QED
  BY <1>1, <1>2, Invariance, PTL DEF Spec, ImplementsTeams, Teams!Spec
=============================================================================
