------------------------- MODULE MemberInstruments -------------------------
(***************************************************************************)
(* The instruments of a church and who plays them (backend                 *)
(* services/member_service.go, adapters/postgres/member_repo.go,           *)
(* handlers/members.go, handlers/instruments.go).                          *)
(*                                                                         *)
(* The first instrument a member adds becomes the primary one, asked or    *)
(* not, and the suggestion of a team goes by it.  Whether it is the first  *)
(* is decided by the snapshot of the statement that inserts it, which does *)
(* not show what an overlapping statement is about to commit: snapshot and *)
(* insert are two steps.  Every other step is one SQL statement of one     *)
(* request; the look at a membership, which never ends, counts with the    *)
(* statement that follows it.                                              *)
(***************************************************************************)
CONSTANTS
    Members,            \* people with an access token
    Churches,           \* church rows
    Church,             \* Church[m]: the church of m
    Staff,              \* members whose token says leadership or pastor
    Instruments,        \* identities of instrument rows
    SystemInstruments,  \* those the schema seeds for all churches
    InstrumentNames,    \* names a client may send for an instrument
    Requests,           \* requests the server can be serving at a time
    None

ASSUME ParametersOK ==
    /\ Church \in [Members -> Churches]
    /\ Staff \subseteq Members
    /\ SystemInstruments \subseteq Instruments

ASSUME NoneIsNew ==
    None \notin Members \cup Churches \cup Instruments \cup InstrumentNames \cup Requests

VARIABLES
    instrument,  \* instrument[i]: the row of instruments
    plays,       \* plays[<<m, i>>]: the row of member_instruments
    req,         \* req[r]: the request served in slot r
    lost         \* history: the members of whom a primary row was deleted

vars == <<instrument, plays, req, lost>>

\* A system instrument has no church.
InstrumentRow ==
    [state : {"absent", "stored", "deleted"}, church : Churches \cup {None},
     name : InstrumentNames \cup {None}]

\* gift is history: where the request ran that made the row primary because
\* it was the first one, without being asked.
PlaysRow == [stored : BOOLEAN, primary : BOOLEAN, gift : Requests \cup {None}]

\* pc is the statement that the request runs next; wish: the row shall be
\* primary; first: what the snapshot of the insert says.
Request ==
    [pc : {"snapshot", "insert", "erase", "over"},
     user : Members \cup {None}, member : Members \cup {None},
     instrument : Instruments \cup {None}, wish : BOOLEAN, first : BOOLEAN,
     answer : {"none", "ok", "refused", "error", "lost"}]

TypeOK ==
    /\ instrument \in [Instruments -> InstrumentRow]
    /\ plays \in [Members \X Instruments -> PlaysRow]
    /\ req \in [Requests -> Request]
    /\ lost \in SUBSET Members

NoInstrument == [state |-> "absent", church |-> None, name |-> None]

NoRow == [stored |-> FALSE, primary |-> FALSE, gift |-> None]

NoRequest == [pc |-> "over", user |-> None, member |-> None, instrument |-> None,
              wish |-> FALSE, first |-> FALSE, answer |-> "none"]

Init ==
    /\ instrument = [i \in Instruments |->
                       IF i \in SystemInstruments
                         THEN [NoInstrument EXCEPT !.state = "stored"] ELSE NoInstrument]
    /\ plays = [mi \in Members \X Instruments |-> NoRow]
    /\ req = [r \in Requests |-> NoRequest]
    /\ lost = {}

-----------------------------------------------------------------------------
(* The repository.  Operators named "...Bug" are not part of the           *)
(* specification: each is the definition that follows it with one          *)
(* plausible mistake, which the checked properties must tell apart.        *)

Stored(i)     == instrument[i].state = "stored"
Plays(m, i)   == plays[<<m, i>>].stored
Primary(m, i) == Plays(m, i) /\ plays[<<m, i>>].primary

HasPrimary(m) == \E i \in Instruments : Primary(m, i)

\* GetInstrumentByID and the comparison of its church with the token's.
Accessible(i, c) == Stored(i) /\ (i \in SystemInstruments \/ instrument[i].church = c)

\* WHERE id AND church_id AND is_system = FALSE.
OwnInstrument(i, c) == Stored(i) /\ i \notin SystemInstruments /\ instrument[i].church = c

\* UNIQUE (church_id, name); system instruments have no church.
NameTaken(c, n) == \E i \in Instruments : OwnInstrument(i, c) /\ instrument[i].name = n

RepoCreateInstrument(i, c, n) ==
    /\ instrument[i].state = "absent" /\ ~NameTaken(c, n)
    /\ instrument' = [instrument EXCEPT ![i] =
                        [state |-> "stored", church |-> c, name |-> n]]

InUse(i) == \E m \in Members : Plays(m, i)

\* An instrument is deleted whether or not somebody plays it.
RepoDeleteInstrumentBug(i, c) ==
    /\ OwnInstrument(i, c)
    /\ instrument' = [instrument EXCEPT ![i].state = "deleted"]

\* ON DELETE RESTRICT.
RepoDeleteInstrument(i, c) ==
    /\ OwnInstrument(i, c) /\ ~InUse(i)
    /\ instrument' = [instrument EXCEPT ![i].state = "deleted"]

\* "is the first" taken for "is the first of the church".
IsFirstBug(m) == ~\E n \in Members, i \in Instruments : Plays(n, i)

\* The check that looks for rows that are not primary.
IsFirstPlainBug(m) == ~\E i \in Instruments : Plays(m, i) /\ ~Primary(m, i)

\* first_check: NOT EXISTS (SELECT 1 FROM member_instruments WHERE member_id = m).
IsFirst(m) == ~\E i \in Instruments : Plays(m, i)

\* The insert with is_primary and the record of the first mixed up.
RepoAddMemberInstrumentBug(m, i, wish, first, r) ==
    /\ Stored(i) /\ ~Plays(m, i)
    /\ plays' = [plays EXCEPT ![<<m, i>>] =
                   [stored |-> TRUE, primary |-> r, gift |-> None]]

\* UNIQUE (member_id, instrument_id), the foreign key to instruments, and
\* CASE WHEN is_first THEN TRUE ELSE $3 END.
RepoAddMemberInstrument(m, i, wish, first, r) ==
    /\ Stored(i) /\ ~Plays(m, i)
    /\ plays' = [plays EXCEPT ![<<m, i>>] =
                   [stored |-> TRUE, primary |-> first \/ wish,
                    gift |-> IF first /\ ~wish THEN r ELSE None]]

RepoRemoveMemberInstrument(m, i) ==
    /\ plays' = [plays EXCEPT ![<<m, i>>] = NoRow]
    /\ lost' = IF Primary(m, i) THEN lost \cup {m} ELSE lost

-----------------------------------------------------------------------------
(* Requests.                                                               *)

Free(r) == req[r].pc = "over"

Call(u, m, i) == [NoRequest EXCEPT !.user = u, !.member = m, !.instrument = i]

Continue(r, call, pc) == req' = [req EXCEPT ![r] = [call EXCEPT !.pc = pc]]

\* A request that is over keeps who asked.
Finish(r, call, answer) ==
    req' = [req EXCEPT ![r] = [NoRequest EXCEPT !.user = call.user, !.answer = answer]]

\* A member's own instruments, or leadership for those of another.
MayEdit(u, m) == m = u \/ u \in Staff

\* POST /members/{id}/instruments and /members/me/instruments: the instrument
\* is looked up ...
AddMemberInstrument(r, u, m, i, wish) ==
    LET call == [Call(u, m, i) EXCEPT !.wish = wish] IN
    /\ Free(r) /\ MayEdit(u, m)
    /\ \/ Accessible(i, Church[u]) /\ Continue(r, call, "snapshot")
       \/ ~Accessible(i, Church[u]) /\ Finish(r, call, "refused")
    /\ UNCHANGED <<instrument, plays, lost>>

InChurch(m, c) == Church[m] = c

\* ... the member too, and the insert begins with its snapshot ...
Snapshot(r) ==
    LET call == req[r]
        found == InChurch(call.member, Church[call.user]) IN
    /\ call.pc = "snapshot"
    /\ \/ found /\ Continue(r, [call EXCEPT !.first = IsFirst(call.member)], "insert")
       \/ ~found /\ Finish(r, call, "refused")
    /\ UNCHANGED <<instrument, plays, lost>>

\* ... of which the row is made.
InsertRow(r) ==
    LET call == req[r]
        m == call.member
        i == call.instrument IN
    /\ call.pc = "insert"
    /\ \/ RepoAddMemberInstrument(m, i, call.wish, call.first, r) /\ Finish(r, call, "ok")
       \/ Plays(m, i) /\ Finish(r, call, "refused") /\ UNCHANGED plays
       \/ ~Stored(i) /\ Finish(r, call, "error") /\ UNCHANGED plays
    /\ UNCHANGED <<instrument, lost>>

\* DELETE /members/{id}/instruments/{instrument_id}: one statement.
RemoveMemberInstrument(r, u, m, i) ==
    LET call == Call(u, m, i)
        found == InChurch(m, Church[u]) /\ Plays(m, i) IN
    /\ Free(r) /\ MayEdit(u, m)
    /\ \/ found /\ RepoRemoveMemberInstrument(m, i) /\ Finish(r, call, "ok")
       \/ ~found /\ Finish(r, call, "refused") /\ UNCHANGED <<plays, lost>>
    /\ UNCHANGED instrument

\* POST /instruments.
CreateInstrument(r, u, i, n) ==
    LET call == Call(u, None, i) IN
    /\ Free(r) /\ u \in Staff
    /\ \/ RepoCreateInstrument(i, Church[u], n) /\ Finish(r, call, "ok")
       \/ NameTaken(Church[u], n) /\ Finish(r, call, "refused") /\ UNCHANGED instrument
    /\ UNCHANGED <<plays, lost>>

\* DELETE /instruments/{id}: the read ...
DeleteInstrument(r, u, i) ==
    LET call == Call(u, None, i) IN
    /\ Free(r) /\ u \in Staff /\ instrument[i].state # "absent"
    /\ \/ OwnInstrument(i, Church[u]) /\ Continue(r, call, "erase")
       \/ ~OwnInstrument(i, Church[u]) /\ Finish(r, call, "refused")
    /\ UNCHANGED <<instrument, plays, lost>>

\* ... and the delete; an instrument that somebody plays is an internal error.
EraseInstrument(r) ==
    LET call == req[r]
        i == call.instrument
        own == OwnInstrument(i, Church[call.user]) IN
    /\ call.pc = "erase"
    /\ \/ RepoDeleteInstrument(i, Church[call.user]) /\ Finish(r, call, "ok")
       \/ ~own /\ Finish(r, call, "refused") /\ UNCHANGED instrument
       \/ own /\ InUse(i) /\ Finish(r, call, "error") /\ UNCHANGED instrument
    /\ UNCHANGED <<plays, lost>>

\* The timeout, a lost connection or a failed statement ends a request.
Abort(r) ==
    /\ ~Free(r)
    /\ Finish(r, req[r], "lost")
    /\ UNCHANGED <<instrument, plays, lost>>

Next ==
    \E r \in Requests :
        \/ \E u, m \in Members, i \in Instruments :
              \/ \E wish \in BOOLEAN : AddMemberInstrument(r, u, m, i, wish)
              \/ RemoveMemberInstrument(r, u, m, i)
        \/ \E u \in Members, i \in Instruments :
              \/ \E n \in InstrumentNames : CreateInstrument(r, u, i, n)
              \/ DeleteInstrument(r, u, i)
        \/ Snapshot(r) \/ InsertRow(r) \/ EraseInstrument(r) \/ Abort(r)

Spec == Init /\ [][Next]_vars

-----------------------------------------------------------------------------
(* Properties.                                                             *)

\* Whoever plays something and has never had a primary instrument removed has
\* one, however additions and removals overlap: a snapshot that shows another
\* row shows one that is primary or was removed as such.
PlayersHavePrimary ==
    \A m \in Members :
        m \notin lost /\ (\E i \in Instruments : Plays(m, i)) => HasPrimary(m)

\* Two rows of a member that are both primary without anybody having asked
\* come from requests that overlapped: one request after the other in the same
\* slot never makes two.
GiftsOverlap ==
    \A m \in Members, i, j \in Instruments :
        /\ i # j /\ Primary(m, i) /\ Primary(m, j)
        /\ plays[<<m, i>>].gift # None /\ plays[<<m, j>>].gift # None
        => plays[<<m, i>>].gift # plays[<<m, j>>].gift

\* What somebody plays is stored and open to the church, although it may be
\* deleted between the look at it and the insert.
PlayedIsOpen ==
    \A m \in Members, i \in Instruments : Plays(m, i) => Accessible(i, Church[m])
=============================================================================
