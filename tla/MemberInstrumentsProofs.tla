---------------------- MODULE MemberInstrumentsProofs ----------------------
(***************************************************************************)
(* Proofs about MemberInstruments, for any number of members, churches,    *)
(* instruments and overlapping requests.                                   *)
(***************************************************************************)
EXTENDS MemberInstruments, TLAPS

SystemStored == \A i \in SystemInstruments : Stored(i)

\* An instrument that was open to church c once: it may be deleted since.
WasOpen(i, c) ==
    /\ instrument[i].state # "absent"
    /\ i \in SystemInstruments \/ instrument[i].church = c

\* What a request knows between two of its statements.
Running(r) ==
    LET call == req[r] IN
    /\ call.pc # "over" => call.user \in Members /\ call.instrument \in Instruments
    /\ call.pc \in {"snapshot", "insert"} =>
         call.member \in Members /\ WasOpen(call.instrument, Church[call.user])
    /\ call.pc = "insert" => Church[call.member] = Church[call.user]

\* What the snapshot of an insert is still good for: if it showed a row, the
\* member has a primary one or lost it; if it showed none, what the member has
\* by now was given to him by other requests.
SnapshotHolds(r) ==
    LET call == req[r]
        m == call.member IN
    call.pc = "insert" =>
        /\ ~call.first => HasPrimary(m) \/ m \in lost
        /\ call.first => \A i \in Instruments : Plays(m, i) => plays[<<m, i>>].gift # r

Rows == SystemStored /\ PlayedIsOpen /\ PlayersHavePrimary /\ GiftsOverlap

IInv ==
    /\ TypeOK
    /\ Rows
    /\ \A r \in Requests : Running(r) /\ SnapshotHolds(r)

-----------------------------------------------------------------------------
(* What a statement does to the tables.                                    *)

\* An instrument is created or deleted; what somebody plays stays.
InstrumentStep ==
    /\ instrument' \in [Instruments -> InstrumentRow]
    /\ UNCHANGED <<plays, lost>>
    /\ \A i \in Instruments :
          /\ instrument[i].state # "absent" =>
                instrument'[i].state # "absent" /\ instrument'[i].church = instrument[i].church
          /\ (i \in SystemInstruments \/ InUse(i)) /\ Stored(i) => instrument'[i] = instrument[i]

\* The request in r gives instrument i to m.
AddingStep(r, m, i) ==
    /\ UNCHANGED <<instrument, lost>>
    /\ plays' \in [Members \X Instruments -> PlaysRow]
    /\ \A mi \in Members \X Instruments : mi # <<m, i>> => plays'[mi] = plays[mi]
    /\ ~Plays(m, i) /\ Accessible(i, Church[m])
    /\ LET new == plays'[<<m, i>>] IN
         /\ new.stored
         /\ new.primary \/ HasPrimary(m) \/ m \in lost
         /\ new.gift # None =>
              /\ new.gift = r
              /\ \A j \in Instruments : Plays(m, j) => plays[<<m, j>>].gift # r

\* m gives up instrument i.
RemovingStep(m, i) ==
    /\ UNCHANGED instrument
    /\ plays' \in [Members \X Instruments -> PlaysRow]
    /\ \A mi \in Members \X Instruments : mi # <<m, i>> => plays'[mi] = plays[mi]
    /\ ~plays'[<<m, i>>].stored
    /\ lost' \in SUBSET Members /\ lost \subseteq lost'
    /\ Primary(m, i) => m \in lost'

\* What holds of the requests that did not move.
OthersKept(r) ==
    \A q \in Requests \ {r} : req'[q] = req[q] => (Running(q) /\ SnapshotHolds(q))'

LEMMA InstrumentStepKeeps ==
    ASSUME IInv, InstrumentStep, NEW r \in Requests
    PROVE  Rows' /\ OthersKept(r)
<1> USE DEF IInv, InstrumentStep
<1>1. \A m \in Members, i \in Instruments :
         /\ Plays(m, i)' <=> Plays(m, i)
         /\ Primary(m, i)' <=> Primary(m, i)
  BY DEF Plays, Primary
<1>2. SystemStored'
  BY ParametersOK DEF Rows, SystemStored, Stored
<1>3. PlayedIsOpen'
  BY <1>1 DEF Rows, PlayedIsOpen, Accessible, Stored, InUse
<1>4. PlayersHavePrimary'
  BY <1>1 DEF Rows, PlayersHavePrimary, HasPrimary
<1>5. GiftsOverlap'
  BY <1>1 DEF Rows, GiftsOverlap
<1>6. ASSUME NEW q \in Requests \ {r}, req'[q] = req[q]
      PROVE  (Running(q) /\ SnapshotHolds(q))'
  <2>1. Running(q)'
    BY <1>6 DEF Running, WasOpen
  <2>2. SnapshotHolds(q)'
    BY <1>1, <1>6 DEF SnapshotHolds, HasPrimary, Running
  <2>3. QED
    BY <2>1, <2>2
<1>7. QED
  BY <1>2, <1>3, <1>4, <1>5, <1>6 DEF Rows, OthersKept

LEMMA AddingStepKeeps ==
    ASSUME IInv, NEW r \in Requests, NEW m \in Members, NEW i \in Instruments,
           AddingStep(r, m, i)
    PROVE  Rows' /\ OthersKept(r)
<1> USE DEF IInv, AddingStep
<1>1. ASSUME NEW n \in Members, NEW j \in Instruments, <<n, j>> # <<m, i>>
      PROVE  /\ plays'[<<n, j>>] = plays[<<n, j>>]
             /\ Plays(n, j)' <=> Plays(n, j)
             /\ Primary(n, j)' <=> Primary(n, j)
  BY <1>1 DEF Plays, Primary
<1>2. ASSUME NEW n \in Members, HasPrimary(n)
      PROVE  HasPrimary(n)'
  <2>1. PICK j \in Instruments : Primary(n, j)
    BY <1>2 DEF HasPrimary
  <2>2. <<n, j>> # <<m, i>>
    BY <2>1 DEF Primary
  <2>3. QED
    BY <1>1, <2>1, <2>2 DEF HasPrimary
<1>3. SystemStored'
  BY DEF Rows, SystemStored, Stored
<1>4. PlayedIsOpen'
  <2>1. ASSUME NEW n \in Members, NEW j \in Instruments, Plays(n, j)'
        PROVE  Accessible(j, Church[n])
    BY <1>1, <2>1 DEF Rows, PlayedIsOpen
  <2>2. QED
    BY <2>1 DEF PlayedIsOpen, Accessible, Stored
<1>5. PlayersHavePrimary'
  <2>1. ASSUME NEW n \in Members, n \notin lost', NEW j \in Instruments, Plays(n, j)'
        PROVE  HasPrimary(n)'
    <3>1. CASE n = m
      BY <1>2, <2>1, <3>1 DEF HasPrimary, Primary, Plays
    <3>2. CASE n # m
      BY <1>1, <1>2, <2>1, <3>2 DEF Rows, PlayersHavePrimary
    <3>3. QED
      BY <3>1, <3>2
  <2>2. QED
    BY <2>1 DEF PlayersHavePrimary
<1>6. GiftsOverlap'
  <2>1. SUFFICES ASSUME NEW n \in Members, NEW j \in Instruments, NEW k \in Instruments,
                        j # k, Primary(n, j)', Primary(n, k)',
                        plays'[<<n, j>>].gift # None, plays'[<<n, k>>].gift # None
                 PROVE  plays'[<<n, j>>].gift # plays'[<<n, k>>].gift
    BY DEF GiftsOverlap
  <2>2. CASE <<n, j>> = <<m, i>>
    BY <1>1, <2>1, <2>2 DEF Primary
  <2>3. CASE <<n, k>> = <<m, i>>
    BY <1>1, <2>1, <2>3 DEF Primary
  <2>4. CASE <<n, j>> # <<m, i>> /\ <<n, k>> # <<m, i>>
    BY <1>1, <2>1, <2>4 DEF Rows, GiftsOverlap
  <2>5. QED
    BY <2>2, <2>3, <2>4
<1>7. ASSUME NEW q \in Requests \ {r}, req'[q] = req[q]
      PROVE  (Running(q) /\ SnapshotHolds(q))'
  <2>1. Running(q)'
    BY <1>7 DEF Running, WasOpen
  <2>2. ASSUME req[q].pc = "insert"
        PROVE  /\ req[q].member \in Members
               /\ ~req[q].first =>
                     (HasPrimary(req[q].member) \/ req[q].member \in lost)'
               /\ req[q].first => \A j \in Instruments :
                     Plays(req[q].member, j)' => plays'[<<req[q].member, j>>].gift # q
    <3>1. req[q].member \in Members
      BY <2>2 DEF Running
    <3>2. ~req[q].first => (HasPrimary(req[q].member) \/ req[q].member \in lost)'
      BY <1>2, <1>7, <2>2, <3>1 DEF SnapshotHolds
    <3>3. ASSUME req[q].first, NEW j \in Instruments, Plays(req[q].member, j)'
          PROVE  plays'[<<req[q].member, j>>].gift # q
      <4>1. CASE <<req[q].member, j>> = <<m, i>>
        BY <4>1, NoneIsNew
      <4>2. CASE <<req[q].member, j>> # <<m, i>>
        BY <1>1, <1>7, <2>2, <3>1, <3>3, <4>2 DEF SnapshotHolds
      <4>3. QED
        BY <4>1, <4>2
    <3>4. QED
      BY <3>1, <3>2, <3>3
  <2>3. SnapshotHolds(q)'
    BY <1>7, <2>2 DEF SnapshotHolds
  <2>4. QED
    BY <2>1, <2>3
<1>8. QED
  BY <1>3, <1>4, <1>5, <1>6, <1>7 DEF Rows, OthersKept

LEMMA RemovingStepKeeps ==
    ASSUME IInv, NEW r \in Requests, NEW m \in Members, NEW i \in Instruments,
           RemovingStep(m, i)
    PROVE  Rows' /\ OthersKept(r)
<1> USE DEF IInv, RemovingStep
<1>1. ASSUME NEW n \in Members, NEW j \in Instruments, <<n, j>> # <<m, i>>
      PROVE  /\ plays'[<<n, j>>] = plays[<<n, j>>]
             /\ Plays(n, j)' <=> Plays(n, j)
             /\ Primary(n, j)' <=> Primary(n, j)
  BY <1>1 DEF Plays, Primary
<1>2. ASSUME NEW n \in Members, HasPrimary(n), n \notin lost'
      PROVE  HasPrimary(n)'
  <2>1. PICK j \in Instruments : Primary(n, j)
    BY <1>2 DEF HasPrimary
  <2>2. <<n, j>> # <<m, i>>
    BY <1>2, <2>1
  <2>3. QED
    BY <1>1, <2>1, <2>2 DEF HasPrimary
<1>3. ~Plays(m, i)'
  BY DEF Plays
<1>4. SystemStored'
  BY DEF Rows, SystemStored, Stored
<1>5. PlayedIsOpen'
  <2>1. ASSUME NEW n \in Members, NEW j \in Instruments, Plays(n, j)'
        PROVE  Accessible(j, Church[n])
    BY <1>1, <1>3, <2>1 DEF Rows, PlayedIsOpen
  <2>2. QED
    BY <2>1 DEF PlayedIsOpen, Accessible, Stored
<1>6. PlayersHavePrimary'
  BY <1>1, <1>2, <1>3 DEF Rows, PlayersHavePrimary
<1>7. GiftsOverlap'
  <2>1. SUFFICES ASSUME NEW n \in Members, NEW j \in Instruments, NEW k \in Instruments,
                        j # k, Primary(n, j)', Primary(n, k)',
                        plays'[<<n, j>>].gift # None, plays'[<<n, k>>].gift # None
                 PROVE  plays'[<<n, j>>].gift # plays'[<<n, k>>].gift
    BY DEF GiftsOverlap
  <2>2. <<n, j>> # <<m, i>> /\ <<n, k>> # <<m, i>>
    BY <1>3, <2>1 DEF Primary
  <2>3. QED
    BY <1>1, <2>1, <2>2 DEF Rows, GiftsOverlap
<1>8. ASSUME NEW q \in Requests \ {r}, req'[q] = req[q]
      PROVE  (Running(q) /\ SnapshotHolds(q))'
  <2>1. Running(q)'
    BY <1>8 DEF Running, WasOpen
  <2>2. ASSUME req[q].pc = "insert"
        PROVE  /\ req[q].member \in Members
               /\ ~req[q].first =>
                     (HasPrimary(req[q].member) \/ req[q].member \in lost)'
               /\ req[q].first => \A j \in Instruments :
                     Plays(req[q].member, j)' => plays'[<<req[q].member, j>>].gift # q
    <3>1. req[q].member \in Members
      BY <2>2 DEF Running
    <3>2. ~req[q].first => (HasPrimary(req[q].member) \/ req[q].member \in lost)'
      BY <1>2, <1>8, <2>2, <3>1 DEF SnapshotHolds
    <3>3. ASSUME req[q].first, NEW j \in Instruments, Plays(req[q].member, j)'
          PROVE  plays'[<<req[q].member, j>>].gift # q
      <4>1. <<req[q].member, j>> # <<m, i>>
        BY <1>3, <1>8, <3>1, <3>3
      <4>2. QED
        BY <1>1, <1>8, <2>2, <3>1, <3>3, <4>1 DEF SnapshotHolds
    <3>4. QED
      BY <3>1, <3>2, <3>3
  <2>3. SnapshotHolds(q)'
    BY <1>8, <2>2 DEF SnapshotHolds
  <2>4. QED
    BY <2>1, <2>3
<1>9. QED
  BY <1>4, <1>5, <1>6, <1>7, <1>8 DEF Rows, OthersKept

\* The tables stay typed and sound, and so does what the others know.
TablesKept(r) ==
    /\ instrument' \in [Instruments -> InstrumentRow]
    /\ plays' \in [Members \X Instruments -> PlaysRow]
    /\ lost' \in SUBSET Members
    /\ Rows' /\ OthersKept(r)

LEMMA StepsKeep ==
    ASSUME IInv, NEW r \in Requests
    PROVE  /\ UNCHANGED <<instrument, plays, lost>> => TablesKept(r)
           /\ InstrumentStep => TablesKept(r)
           /\ \A m \in Members, i \in Instruments :
                 AddingStep(r, m, i) \/ RemovingStep(m, i) => TablesKept(r)
<1>1. InstrumentStep => TablesKept(r)
  BY InstrumentStepKeeps DEF IInv, TypeOK, InstrumentStep, TablesKept
<1>2. UNCHANGED <<instrument, plays, lost>> => InstrumentStep
  BY DEF IInv, TypeOK, InstrumentStep
<1>3. \A m \in Members, i \in Instruments : AddingStep(r, m, i) => TablesKept(r)
  BY AddingStepKeeps DEF IInv, TypeOK, AddingStep, TablesKept
<1>4. \A m \in Members, i \in Instruments : RemovingStep(m, i) => TablesKept(r)
  BY RemovingStepKeeps DEF IInv, TypeOK, RemovingStep, TablesKept
<1>5. QED
  BY <1>1, <1>2, <1>3, <1>4

-----------------------------------------------------------------------------
(* The steps of a request.                                                 *)

LEMMA SlotFrame ==
    ASSUME IInv, NEW r \in Requests, TablesKept(r), NEW new \in Request,
           req' = [req EXCEPT ![r] = new],
           Running(r)', SnapshotHolds(r)'
    PROVE  IInv'
<1>1. TypeOK'
  BY DEF IInv, TypeOK, TablesKept
<1>2. \A q \in Requests \ {r} : req'[q] = req[q]
  BY DEF IInv, TypeOK
<1>3. \A q \in Requests : (Running(q) /\ SnapshotHolds(q))'
  BY <1>2 DEF TablesKept, OthersKept
<1>4. QED
  BY <1>1, <1>3 DEF IInv, TablesKept

LEMMA FinishStep ==
    ASSUME IInv, NEW r \in Requests, TablesKept(r), NEW call \in Request,
           NEW answer \in {"ok", "refused", "error", "lost"}, Finish(r, call, answer)
    PROVE  IInv'
<1> DEFINE new == [NoRequest EXCEPT !.user = call.user, !.answer = answer]
<1>1. new \in Request /\ new.pc = "over" /\ req' = [req EXCEPT ![r] = new]
  BY DEF Request, NoRequest, Finish
<1>2. req'[r] = new
  BY <1>1 DEF IInv, TypeOK
<1> HIDE DEF new
<1>3. Running(r)' /\ SnapshotHolds(r)'
  BY <1>1, <1>2 DEF Running, SnapshotHolds
<1>4. QED
  BY <1>1, <1>3, SlotFrame

\* A request that has looked at an instrument goes on.
LEMMA ContinueStep ==
    ASSUME IInv, NEW r \in Requests, UNCHANGED <<instrument, plays, lost>>,
           NEW call \in Request, NEW pc \in {"snapshot", "insert", "erase"},
           Continue(r, call, pc),
           call.user \in Members, call.instrument \in Instruments,
           pc # "erase" =>
             call.member \in Members /\ WasOpen(call.instrument, Church[call.user]),
           pc = "insert" =>
             /\ Church[call.member] = Church[call.user]
             /\ call.first = IsFirst(call.member)
    PROVE  IInv'
<1> DEFINE new == [call EXCEPT !.pc = pc]
<1>1. /\ new \in Request /\ req' = [req EXCEPT ![r] = new]
      /\ new.pc = pc /\ new.user = call.user /\ new.instrument = call.instrument
      /\ new.member = call.member /\ new.first = call.first
  BY DEF Request, Continue
<1>2. req'[r] = new
  BY <1>1 DEF IInv, TypeOK
<1> HIDE DEF new
<1>3. Running(r)'
  BY <1>1, <1>2 DEF Running, WasOpen
<1>4. ASSUME pc = "insert"
      PROVE  /\ ~call.first => HasPrimary(call.member) \/ call.member \in lost
             /\ call.first => \A i \in Instruments : ~Plays(call.member, i)
  BY <1>4 DEF IInv, Rows, PlayersHavePrimary, IsFirst
<1>5. SnapshotHolds(r)'
  BY <1>1, <1>2, <1>4, SMTT(30) DEF SnapshotHolds, HasPrimary, Primary, Plays
<1>6. QED
  BY <1>1, <1>3, <1>5, StepsKeep, SlotFrame

LEMMA CallOK ==
    ASSUME NEW u \in Members, NEW m \in Members \cup {None}, NEW i \in Instruments
    PROVE  /\ Call(u, m, i) \in Request
           /\ Call(u, m, i).user = u /\ Call(u, m, i).instrument = i
           /\ Call(u, m, i).member = m
BY DEF Call, NoRequest, Request

LEMMA AddMemberInstrumentStep ==
    ASSUME IInv, NEW r \in Requests, NEW u \in Members, NEW m \in Members,
           NEW i \in Instruments, NEW wish \in BOOLEAN,
           AddMemberInstrument(r, u, m, i, wish)
    PROVE  IInv'
<1> DEFINE call == [Call(u, m, i) EXCEPT !.wish = wish]
<1>1. call \in Request /\ call.user = u /\ call.instrument = i /\ call.member = m
  BY CallOK DEF Request
<1>2. /\ UNCHANGED <<instrument, plays, lost>>
      /\ \/ Accessible(i, Church[u]) /\ Continue(r, call, "snapshot")
         \/ Finish(r, call, "refused")
  BY DEF AddMemberInstrument
<1> HIDE DEF call
<1>3. CASE Accessible(i, Church[u]) /\ Continue(r, call, "snapshot")
  <2>1. WasOpen(i, Church[u])
    BY <1>3 DEF Accessible, Stored, WasOpen
  <2>2. QED
    BY <1>1, <1>2, <1>3, <2>1, ContinueStep
<1>4. CASE Finish(r, call, "refused")
  BY <1>1, <1>2, <1>4, StepsKeep, FinishStep
<1>5. QED
  BY <1>2, <1>3, <1>4

LEMMA SnapshotStep ==
    ASSUME IInv, NEW r \in Requests, Snapshot(r)
    PROVE  IInv'
<1> DEFINE call == [req[r] EXCEPT !.first = IsFirst(req[r].member)]
<1>1. /\ req[r] \in Request
      /\ req[r].member \in Members /\ req[r].user \in Members
      /\ req[r].instrument \in Instruments
      /\ WasOpen(req[r].instrument, Church[req[r].user])
  BY DEF IInv, TypeOK, Running, Snapshot
<1>2. /\ call \in Request /\ call.first = IsFirst(req[r].member)
      /\ call.member = req[r].member /\ call.user = req[r].user
      /\ call.instrument = req[r].instrument
  BY <1>1 DEF Request, IsFirst
<1>3. /\ UNCHANGED <<instrument, plays, lost>>
      /\ \/ Church[req[r].member] = Church[req[r].user] /\ Continue(r, call, "insert")
         \/ Finish(r, req[r], "refused")
  BY DEF Snapshot, InChurch
<1> HIDE DEF call
<1>4. CASE Church[req[r].member] = Church[req[r].user] /\ Continue(r, call, "insert")
  BY <1>1, <1>2, <1>3, <1>4, ContinueStep
<1>5. CASE Finish(r, req[r], "refused")
  BY <1>1, <1>3, <1>5, StepsKeep, FinishStep
<1>6. QED
  BY <1>3, <1>4, <1>5

LEMMA InsertRowStep ==
    ASSUME IInv, NEW r \in Requests, InsertRow(r)
    PROVE  IInv'
<1>1. PICK m \in Members, i \in Instruments :
         /\ m = req[r].member /\ i = req[r].instrument
         /\ req[r] \in Request /\ req[r].pc = "insert"
         /\ WasOpen(i, Church[m])
  BY DEF IInv, TypeOK, Running, InsertRow
<1>2. \/ /\ RepoAddMemberInstrument(m, i, req[r].wish, req[r].first, r)
         /\ Finish(r, req[r], "ok")
         /\ UNCHANGED <<instrument, lost>>
      \/ /\ UNCHANGED <<instrument, plays, lost>>
         /\ Finish(r, req[r], "refused") \/ Finish(r, req[r], "error")
  BY <1>1 DEF InsertRow
<1>3. CASE /\ RepoAddMemberInstrument(m, i, req[r].wish, req[r].first, r)
           /\ Finish(r, req[r], "ok")
           /\ UNCHANGED <<instrument, lost>>
  <2> DEFINE new == [stored |-> TRUE, primary |-> req[r].first \/ req[r].wish,
                     gift |-> IF req[r].first /\ ~req[r].wish THEN r ELSE None]
  <2>1. /\ new \in PlaysRow /\ new.stored
        /\ new.primary \/ ~req[r].first
        /\ new.gift # None => new.gift = r /\ req[r].first
    BY <1>1 DEF PlaysRow, Request
  <2>2. /\ Stored(i) /\ ~Plays(m, i)
        /\ plays' = [plays EXCEPT ![<<m, i>>] = new]
    BY <1>3 DEF RepoAddMemberInstrument
  <2> HIDE DEF new
  <2>3. /\ plays' \in [Members \X Instruments -> PlaysRow]
        /\ plays'[<<m, i>>] = new
        /\ \A mi \in Members \X Instruments : mi # <<m, i>> => plays'[mi] = plays[mi]
    BY <2>1, <2>2 DEF IInv, TypeOK
  <2>4. Accessible(i, Church[m])
    BY <1>1, <2>2 DEF WasOpen, Accessible
  <2>5. /\ ~req[r].first => HasPrimary(m) \/ m \in lost
        /\ req[r].first => \A j \in Instruments : Plays(m, j) => plays[<<m, j>>].gift # r
    BY <1>1 DEF IInv, SnapshotHolds
  <2>6. AddingStep(r, m, i)
    BY <1>3, <2>1, <2>2, <2>3, <2>4, <2>5 DEF AddingStep
  <2>7. QED
    BY <1>1, <1>3, <2>6, StepsKeep, FinishStep
<1>4. CASE /\ UNCHANGED <<instrument, plays, lost>>
           /\ Finish(r, req[r], "refused") \/ Finish(r, req[r], "error")
  BY <1>1, <1>4, StepsKeep, FinishStep
<1>5. QED
  BY <1>2, <1>3, <1>4

LEMMA RemoveMemberInstrumentStep ==
    ASSUME IInv, NEW r \in Requests, NEW u \in Members, NEW m \in Members,
           NEW i \in Instruments, RemoveMemberInstrument(r, u, m, i)
    PROVE  IInv'
<1>1. /\ UNCHANGED instrument
      /\ \/ RepoRemoveMemberInstrument(m, i) /\ Finish(r, Call(u, m, i), "ok")
         \/ Finish(r, Call(u, m, i), "refused") /\ UNCHANGED <<plays, lost>>
  BY DEF RemoveMemberInstrument
<1>2. ASSUME RepoRemoveMemberInstrument(m, i)
      PROVE  RemovingStep(m, i)
  BY <1>1, <1>2 DEF IInv, TypeOK, RepoRemoveMemberInstrument, RemovingStep, NoRow, PlaysRow
<1>3. TablesKept(r)
  BY <1>1, <1>2, StepsKeep
<1>4. QED
  BY <1>1, <1>3, CallOK, FinishStep

LEMMA CreateInstrumentStep ==
    ASSUME IInv, NEW r \in Requests, NEW u \in Members, NEW i \in Instruments,
           NEW n \in InstrumentNames, CreateInstrument(r, u, i, n)
    PROVE  IInv'
<1>1. /\ UNCHANGED <<plays, lost>>
      /\ \/ RepoCreateInstrument(i, Church[u], n) /\ Finish(r, Call(u, None, i), "ok")
         \/ Finish(r, Call(u, None, i), "refused") /\ UNCHANGED instrument
  BY DEF CreateInstrument
<1>2. ASSUME RepoCreateInstrument(i, Church[u], n)
      PROVE  InstrumentStep
  BY <1>1, <1>2, ParametersOK
     DEF IInv, TypeOK, RepoCreateInstrument, InstrumentStep, InstrumentRow, Stored
<1>3. TablesKept(r)
  BY <1>1, <1>2, StepsKeep
<1>4. QED
  BY <1>1, <1>3, CallOK, FinishStep

LEMMA DeleteInstrumentStep ==
    ASSUME IInv, NEW r \in Requests, NEW u \in Members, NEW i \in Instruments,
           DeleteInstrument(r, u, i)
    PROVE  IInv'
<1>1. /\ UNCHANGED <<instrument, plays, lost>>
      /\ \/ Continue(r, Call(u, None, i), "erase")
         \/ Finish(r, Call(u, None, i), "refused")
  BY DEF DeleteInstrument
<1>2. QED
  BY <1>1, CallOK, StepsKeep, ContinueStep, FinishStep

LEMMA EraseInstrumentStep ==
    ASSUME IInv, NEW r \in Requests, EraseInstrument(r)
    PROVE  IInv'
<1>1. PICK i \in Instruments, u \in Members :
         req[r] \in Request /\ i = req[r].instrument /\ u = req[r].user
  BY DEF IInv, TypeOK, Running, EraseInstrument
<1>2. /\ UNCHANGED <<plays, lost>>
      /\ \/ RepoDeleteInstrument(i, Church[u]) /\ Finish(r, req[r], "ok")
         \/ /\ UNCHANGED instrument
            /\ Finish(r, req[r], "refused") \/ Finish(r, req[r], "error")
  BY <1>1 DEF EraseInstrument
<1>3. ASSUME RepoDeleteInstrument(i, Church[u])
      PROVE  InstrumentStep
  BY <1>2, <1>3
     DEF IInv, TypeOK, RepoDeleteInstrument, OwnInstrument, InstrumentStep, InstrumentRow, Stored
<1>4. TablesKept(r)
  BY <1>2, <1>3, StepsKeep
<1>5. QED
  BY <1>1, <1>2, <1>4, FinishStep

LEMMA AbortStep ==
    ASSUME IInv, NEW r \in Requests, Abort(r)
    PROVE  IInv'
<1>1. req[r] \in Request
  BY DEF IInv, TypeOK
<1>2. QED
  BY <1>1, StepsKeep, FinishStep DEF Abort

-----------------------------------------------------------------------------
(* Theorems.                                                               *)

LEMMA Initially ==
    ASSUME Init
    PROVE  IInv
<1>1. TypeOK
  BY ParametersOK DEF Init, TypeOK, InstrumentRow, PlaysRow, Request, NoInstrument, NoRow, NoRequest
<1>2. \A m \in Members, i \in Instruments : ~Plays(m, i)
  BY DEF Init, Plays, NoRow
<1>3. SystemStored
  BY ParametersOK DEF Init, SystemStored, Stored, NoInstrument
<1>4. PlayedIsOpen /\ PlayersHavePrimary /\ GiftsOverlap
  BY <1>2 DEF PlayedIsOpen, PlayersHavePrimary, GiftsOverlap, Primary
<1>5. \A r \in Requests : Running(r) /\ SnapshotHolds(r)
  BY DEF Init, NoRequest, Running, SnapshotHolds
<1>6. QED
  BY <1>1, <1>3, <1>4, <1>5 DEF IInv, Rows

LEMMA Step ==
    ASSUME IInv, [Next]_vars
    PROVE  IInv'
<1>1. CASE UNCHANGED vars
  <2>1. UNCHANGED <<instrument, plays, req, lost>>
    BY <1>1 DEF vars
  <2>2. TypeOK'
    BY <2>1 DEF IInv, TypeOK
  <2>3. Rows'
    BY <2>1 DEF IInv, Rows, SystemStored, PlayedIsOpen, PlayersHavePrimary, GiftsOverlap,
                HasPrimary, Primary, Plays, Accessible, Stored
  <2>4. \A r \in Requests : Running(r)'
    BY <2>1 DEF IInv, Running, WasOpen
  <2>5. \A r \in Requests : SnapshotHolds(r)'
    BY <2>1 DEF IInv, SnapshotHolds, HasPrimary, Primary, Plays
  <2>6. QED
    BY <2>2, <2>3, <2>4, <2>5 DEF IInv
<1>2. CASE Next
  <2>1. PICK r \in Requests :
           \/ \E u, m \in Members, i \in Instruments :
                 \/ \E wish \in BOOLEAN : AddMemberInstrument(r, u, m, i, wish)
                 \/ RemoveMemberInstrument(r, u, m, i)
           \/ \E u \in Members, i \in Instruments :
                 \/ \E n \in InstrumentNames : CreateInstrument(r, u, i, n)
                 \/ DeleteInstrument(r, u, i)
           \/ Snapshot(r) \/ InsertRow(r) \/ EraseInstrument(r) \/ Abort(r)
    BY <1>2 DEF Next
  <2>2. QED
    BY <2>1, AddMemberInstrumentStep, SnapshotStep, InsertRowStep,
       RemoveMemberInstrumentStep, CreateInstrumentStep, DeleteInstrumentStep,
       EraseInstrumentStep, AbortStep
<1>3. QED
  BY <1>1, <1>2

\* In every reachable state each request knows what its statements of
\* member_repo.go need, whatever others have written since its snapshot.
THEOREM Invariance == Spec => []IInv
<1>1. Init => IInv
  BY Initially
<1>2. IInv /\ [Next]_vars => IInv'
  BY Step
<1>3. QED
  BY <1>1, <1>2, PTL DEF Spec

\* The rows of instruments and member_instruments have the types of the model.
THEOREM TypeCorrect == Spec => []TypeOK
<1>1. IInv => TypeOK
  BY DEF IInv
<1>2. QED
  BY <1>1, Invariance, PTL

\* Whoever plays and has never had a primary instrument removed has one: the
\* insert of AddMemberInstrument makes the first one primary.
THEOREM PrimaryHolds == Spec => []PlayersHavePrimary
<1>1. IInv => PlayersHavePrimary
  BY DEF IInv, Rows
<1>2. QED
  BY <1>1, Invariance, PTL

\* Only inserts of AddMemberInstrument that overlap make two instruments of a
\* member primary unasked.
THEOREM GiftsHold == Spec => []GiftsOverlap
<1>1. IInv => GiftsOverlap
  BY DEF IInv, Rows
<1>2. QED
  BY <1>1, Invariance, PTL

\* What somebody plays is stored and open to the church, although
\* AddMemberInstrument looks the instrument up in a statement of its own.
THEOREM PlayedHolds == Spec => []PlayedIsOpen
<1>1. IInv => PlayedIsOpen
  BY DEF IInv, Rows
<1>2. QED
  BY <1>1, Invariance, PTL
=============================================================================
