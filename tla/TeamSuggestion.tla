--------------------------- MODULE TeamSuggestion ---------------------------
(***************************************************************************)
(* The suggestion of a team for a Sunday and the dates on which a musician *)
(* cannot play (backend services/schedule_service.go,                      *)
(* adapters/postgres/worship_repo.go, handlers/schedules.go).              *)
(*                                                                         *)
(* A suggestion writes nothing.  It reads musicians, their instruments,    *)
(* the exceptions for the date, the team of the Sunday before, and then    *)
(* counts the slots of one candidate after the other, by statements of     *)
(* their own; roles, instruments, exceptions and teams may change between  *)
(* them.  How they change is the subject of MemberRoles, MemberInstruments *)
(* and WorshipSchedules; here any one row may, MaxChanges times.           *)
(***************************************************************************)
EXTENDS Naturals, FiniteSets

CONSTANTS
    Members,      \* members of the church
    Instruments,
    ByName,       \* ByName[m], ByName[i]: the place in the order of names
    Dates,        \* dates with a schedule that is not cancelled
    Preceding,    \* seven days before the date of the suggestion
    LastWeeks,    \* dates of the last four weeks
    ToCome,       \* dates after today
    MaxChanges,   \* bound: changes while the suggestion is made
    None

ASSUME ParametersOK ==
    /\ IsFiniteSet(Members \cup Instruments) /\ IsFiniteSet(Dates)
    /\ ByName \in [Members \cup Instruments -> 0..Cardinality(Members \cup Instruments)]
    /\ \A m, n \in Members : ByName[m] = ByName[n] => m = n
    /\ \A i, j \in Instruments : ByName[i] = ByName[j] => i = j
    /\ Preceding \in Dates
    /\ LastWeeks \cup ToCome \subseteq Dates /\ LastWeeks \cap ToCome = {}
    /\ MaxChanges \in Nat

ASSUME NoneIsNew == None \notin Members \cup Instruments

VARIABLES
    musician,  \* active members with a role of the profile "musician"
    primary,   \* primary[m]: the instruments marked as primary for m
    away,      \* members with an exception for the date of the suggestion
    team,      \* team[d]: who has a slot in the schedule of d
    sug,       \* the suggestion
    changes    \* history: changes since the suggestion began

vars == <<musician, primary, away, team, sug, changes>>

\* What has been read, and who is picked for an instrument with how many slots.
\* pc is the statement that runs next.
Suggestion ==
    [pc : {"musicians", "instruments", "exceptions", "preceding", "count", "over"},
     musicians : SUBSET Members, main : [Members -> Instruments \cup {None}],
     away : SUBSET Members, preceding : SUBSET Members, counted : SUBSET Members,
     pick : [Instruments -> Members \cup {None}], best : [Instruments -> Nat]]

TypeOK ==
    /\ musician \in SUBSET Members
    /\ primary \in [Members -> SUBSET Instruments]
    /\ away \in SUBSET Members
    /\ team \in [Dates -> SUBSET Members]
    /\ sug \in Suggestion
    /\ changes \in 0..MaxChanges

Nothing ==
    [pc |-> "musicians", musicians |-> {}, main |-> [m \in Members |-> None],
     away |-> {}, preceding |-> {}, counted |-> {},
     pick |-> [i \in Instruments |-> None], best |-> [i \in Instruments |-> 0]]

\* The suggestion is asked for in any state of the tables.
Init ==
    /\ musician \in SUBSET Members
    /\ primary \in [Members -> SUBSET Instruments]
    /\ away \in SUBSET Members
    /\ team \in [Dates -> SUBSET Members]
    /\ sug = Nothing
    /\ changes = 0

-----------------------------------------------------------------------------
(* What the statements return.  Operators named "...Bug" are not part of   *)
(* the specification: each is the definition that follows it with one      *)
(* plausible mistake, which the checked properties must tell apart.        *)

\* Of several primary instruments the last by name stays in primaryMap.
MainInstrument(m) ==
    IF primary[m] = {} THEN None
    ELSE CHOOSE i \in primary[m] : \A j \in primary[m] : ByName[j] <= ByName[i]

\* CountSlotsInLastNWeeks: WHERE sunday_date >= CURRENT_DATE - 28, without an
\* upper bound, so that slots to come count as well.
Served(m) == Cardinality({d \in LastWeeks \cup ToCome : m \in team[d]})

Available  == sug.musicians \ sug.away
Candidates == {m \in Available : sug.main[m] # None}
Group(i)   == {m \in Candidates : sug.main[m] = i}

\* Groups are worked off in the order in which the list of musicians names
\* them first, and each in the order of the list.
Leads(m) == \A n \in Group(sug.main[m]) : ByName[m] <= ByName[n]

Before(m, n) ==
    IF sug.main[m] = sug.main[n] THEN ByName[m] < ByName[n]
    ELSE \E p \in Group(sug.main[m]), q \in Group(sug.main[n]) :
            Leads(p) /\ Leads(q) /\ ByName[p] < ByName[q]

-----------------------------------------------------------------------------
(* The suggestion.                                                         *)

\* ListMusiciansInChurch, its first query ...
ReadMusicians ==
    /\ sug.pc = "musicians"
    /\ sug' = [sug EXCEPT !.pc = "instruments", !.musicians = musician]

\* ... and its second.
ReadInstruments ==
    /\ sug.pc = "instruments"
    /\ sug' = [sug EXCEPT !.pc = "exceptions",
                          !.main = [m \in Members |-> IF m \in sug.musicians
                                                        THEN MainInstrument(m) ELSE None]]

ReadExceptions ==
    /\ sug.pc = "exceptions"
    /\ sug' = [sug EXCEPT !.pc = "preceding", !.away = away]

\* The date in place of its slots.
ReadPrecedingBug ==
    /\ sug.pc = "preceding"
    /\ sug' = [sug EXCEPT !.pc = IF Candidates = {} THEN "over" ELSE "count",
                          !.preceding = {Preceding}]

\* ListSlotsForDate; who served there is not left out, only marked.
ReadPreceding ==
    /\ sug.pc = "preceding"
    /\ sug' = [sug EXCEPT !.pc = IF Candidates = {} THEN "over" ELSE "count",
                          !.preceding = team[Preceding]]

IsNext(m) ==
    /\ m \in Candidates \ sug.counted
    /\ \A n \in Candidates \ sug.counted : n # m => Before(m, n)

\* A candidate with as many slots as the one picked takes his place.
CountSlotsBug(m) ==
    LET i == sug.main[m]
        better == sug.pick[i] = None \/ Served(m) <= sug.best[i]
        counted == sug.counted \cup {m} IN
    /\ sug.pc = "count" /\ IsNext(m)
    /\ sug' = [sug EXCEPT !.counted = counted,
                          !.pick[i] = IF better THEN m ELSE @,
                          !.best[i] = IF better THEN Served(m) ELSE @,
                          !.pc = IF counted = Candidates THEN "over" ELSE "count"]

\* A candidate is put into the group of each of his primary instruments.
CountSlotsForEachBug(m) ==
    LET counted == sug.counted \cup {m} IN
    /\ sug.pc = "count" /\ IsNext(m)
    /\ sug' = [sug EXCEPT !.counted = counted,
                          !.pick = [i \in Instruments |-> IF i \in primary[m] THEN m ELSE @[i]],
                          !.pc = IF counted = Candidates THEN "over" ELSE "count"]

\* The count of one candidate; who has fewer slots than the one picked so far
\* takes his place.
CountSlots(m) ==
    LET i == sug.main[m]
        better == sug.pick[i] = None \/ Served(m) < sug.best[i]
        counted == sug.counted \cup {m} IN
    /\ sug.pc = "count" /\ IsNext(m)
    /\ sug' = [sug EXCEPT !.counted = counted,
                          !.pick[i] = IF better THEN m ELSE @,
                          !.best[i] = IF better THEN Served(m) ELSE @,
                          !.pc = IF counted = Candidates THEN "over" ELSE "count"]

Suggest ==
    /\ \/ ReadMusicians \/ ReadInstruments \/ ReadExceptions \/ ReadPreceding
       \/ \E m \in Members : CountSlots(m)
    /\ UNCHANGED <<musician, primary, away, team, changes>>

-----------------------------------------------------------------------------
(* What may change meanwhile.                                              *)

Change == changes < MaxChanges /\ sug.pc # "over" /\ changes' = changes + 1 /\ UNCHANGED sug

\* POST /availability/exceptions: UNIQUE (member, church, date).
CreateException(m) ==
    /\ m \notin away /\ Change
    /\ away' = away \cup {m}
    /\ UNCHANGED <<musician, primary, team>>

\* DELETE /availability/exceptions/{id}: WHERE id AND member_id AND church_id.
DeleteException(m) ==
    /\ m \in away /\ Change
    /\ away' = away \ {m}
    /\ UNCHANGED <<musician, primary, team>>

\* A role is assigned or removed, an account deactivated.
ChangeMusician(m) ==
    /\ Change
    /\ musician' = IF m \in musician THEN musician \ {m} ELSE musician \cup {m}
    /\ UNCHANGED <<primary, away, team>>

\* An instrument is added or removed.
ChangePrimary(m, i) ==
    /\ Change
    /\ primary' = [primary EXCEPT ![m] = IF i \in @ THEN @ \ {i} ELSE @ \cup {i}]
    /\ UNCHANGED <<musician, away, team>>

\* A slot is added or removed.
ChangeTeam(m, d) ==
    /\ Change
    /\ team' = [team EXCEPT ![d] = IF m \in @ THEN @ \ {m} ELSE @ \cup {m}]
    /\ UNCHANGED <<musician, primary, away>>

Next ==
    \/ Suggest
    \/ \E m \in Members :
          \/ CreateException(m) \/ DeleteException(m) \/ ChangeMusician(m)
          \/ \E i \in Instruments : ChangePrimary(m, i)
          \/ \E d \in Dates : ChangeTeam(m, d)

Spec == Init /\ [][Next]_vars

-----------------------------------------------------------------------------
(* Properties.                                                             *)

Made == sug.pc = "over"

\* The warning "consecutive_sunday".
Warned(i) == sug.pick[i] \in sug.preceding

\* How often m has played lately, which is what the documents speak of, and how
\* often he is going to.
Played(m) == Cardinality({d \in LastWeeks : m \in team[d]})
Planned(m) == Cardinality({d \in ToCome : m \in team[d]})

\* The musicians who can play i that day and have it as their instrument.
Choice(i) == {m \in musician \ away : MainInstrument(m) = i}

\* Who should be suggested for i as the tables are now: of those who can play,
\* one with the fewest slots, past and planned, the first by name.
Deserves(m, i) ==
    /\ m \in Choice(i)
    /\ \A n \in Choice(i) :
          \/ Played(m) + Planned(m) < Played(n) + Planned(n)
          \/ Played(m) + Planned(m) = Played(n) + Planned(n) /\ ByName[m] <= ByName[n]

\* If nothing changed while it was made, the suggestion is exact: for each
\* instrument it names the one who deserves it, with the warning if he was on
\* the team of the Sunday before, and nobody if there is none.
\* (contracts/ARCHITECTURE.md:389, backend/IMPLEMENTED.md:151 and the comment at
\* schedule_service.go:302 speak of the last four weeks only.  The query counts
\* planned slots as well, and so does Deserves: whoever has played least of late
\* stands back if he is planned for later Sundays.)
QuietIsExact ==
    Made /\ changes = 0 =>
        \A i \in Instruments :
            \/ /\ Deserves(sug.pick[i], i)
               /\ Warned(i) <=> sug.pick[i] \in team[Preceding]
            \/ sug.pick[i] = None /\ ~\E m \in Members : Deserves(m, i)

\* Whatever changed meanwhile, the suggestion agrees with itself: nobody is
\* suggested twice or while the list of the unavailable names him, and every
\* instrument that an available member has as his own is suggested for.
AgreesWithItself ==
    Made =>
        /\ \A i, j \in Instruments :
              sug.pick[i] # None /\ sug.pick[i] = sug.pick[j] => i = j
        /\ \A i \in Instruments : sug.pick[i] # None => sug.pick[i] \in Available
        /\ \A m \in Candidates : sug.pick[sug.main[m]] # None
=============================================================================
