------------------------ MODULE TeamSuggestionProofs ------------------------
(***************************************************************************)
(* Proofs about TeamSuggestion, for any number of members, instruments,    *)
(* dates and changes.                                                      *)
(***************************************************************************)
EXTENDS TeamSuggestion, TLAPS, FiniteSetTheorems, WellFoundedInduction

Counting == sug.pc \in {"count", "over"}

\* The count goes through the candidates; whoever is picked for an instrument
\* is one of those counted and has it as his own, and one is picked as soon as
\* one is counted.
Counted ==
    /\ sug.counted \subseteq Candidates
    /\ ~Counting => sug.counted = {}
    /\ Made => sug.counted = Candidates
    /\ \A i \in Instruments : sug.pick[i] # None =>
          sug.pick[i] \in sug.counted /\ sug.main[sug.pick[i]] = i
    /\ \A m \in sug.counted : sug.pick[sug.main[m]] # None

\* Within a group the count follows the order of the names.
InOrder ==
    \A m \in sug.counted, n \in Candidates \ sug.counted :
        sug.main[m] = sug.main[n] => ByName[m] < ByName[n]

\* What the second query of ListMusiciansInChurch returns for the members in S.
Mains(S) == [m \in Members |-> IF m \in S THEN MainInstrument(m) ELSE None]

\* m comes before n: fewer slots, or as many and the earlier name.
AheadOf(m, n) ==
    \/ Served(m) < Served(n)
    \/ Served(m) = Served(n) /\ ByName[m] <= ByName[n]

\* As long as nothing has changed, what was read is what the tables hold ...
ReadsHold ==
    /\ sug.pc # "musicians" => sug.musicians = musician
    /\ sug.pc \notin {"musicians", "instruments"} => sug.main = Mains(musician)
    /\ Counting \/ sug.pc = "preceding" => sug.away = away
    /\ Counting => sug.preceding = team[Preceding]

\* ... and who is picked comes before all who were counted.
BestPicked ==
    \A i \in Instruments : sug.pick[i] # None =>
        /\ sug.best[i] = Served(sug.pick[i])
        /\ \A n \in sug.counted : sug.main[n] = i => AheadOf(sug.pick[i], n)

Quiet == changes = 0 => ReadsHold /\ BestPicked

IInv == TypeOK /\ Counted /\ InOrder /\ Quiet

-----------------------------------------------------------------------------
(* What the statements return.                                             *)

LEMMA ServedType == \A m \in Members : Served(m) \in Nat
<1> SUFFICES ASSUME NEW m \in Members PROVE Served(m) \in Nat
  OBVIOUS
<1> DEFINE D == {d \in LastWeeks \cup ToCome : m \in team[d]}
<1>1. D \in SUBSET Dates
  BY ParametersOK
<1>2. IsFiniteSet(D)
  BY <1>1, FS_Subset, ParametersOK
<1>3. QED
  BY <1>2, FS_CardinalityType DEF Served

\* What one query counts is what the documents count and the rest.
LEMMA ServedIs ==
    \A m \in Members :
        /\ Played(m) \in Nat /\ Planned(m) \in Nat
        /\ Served(m) = Played(m) + Planned(m)
<1> SUFFICES ASSUME NEW m \in Members
             PROVE  /\ Played(m) \in Nat /\ Planned(m) \in Nat
                    /\ Served(m) = Played(m) + Planned(m)
  OBVIOUS
<1> DEFINE P == {d \in LastWeeks : m \in team[d]}
           Q == {d \in ToCome : m \in team[d]}
<1>1. P \in SUBSET Dates /\ Q \in SUBSET Dates /\ P \cap Q = {}
  BY ParametersOK
<1>2. IsFiniteSet(P) /\ IsFiniteSet(Q)
  BY <1>1, FS_Subset, ParametersOK
<1>3. {d \in LastWeeks \cup ToCome : m \in team[d]} = P \cup Q
  OBVIOUS
<1>4. Cardinality(P) \in Nat /\ Cardinality(Q) \in Nat
  BY <1>2, FS_CardinalityType
<1>5. Cardinality(P \cup Q) = Cardinality(P) + Cardinality(Q) - Cardinality(P \cap Q)
  BY <1>2, FS_Union
<1>6. Cardinality(P \cap Q) = 0
  BY <1>1, FS_EmptySet
<1>7. Cardinality(P \cup Q) = Cardinality(P) + Cardinality(Q)
  BY <1>4, <1>5, <1>6
<1>8. QED
  BY <1>3, <1>4, <1>7 DEF Served, Played, Planned

\* A set of instruments that is not empty has a last one by name.
LEMMA LastByName ==
    ASSUME NEW S \in SUBSET Instruments, S # {}
    PROVE  \E i \in S : \A j \in S : ByName[j] <= ByName[i]
<1> DEFINE top == Cardinality(Members \cup Instruments)
           Gaps == {top - ByName[i] : i \in S}
<1>1. top \in Nat
  BY ParametersOK, FS_CardinalityType
<1>2. \A i \in S : ByName[i] \in 0..top
  BY ParametersOK
<1>3. Gaps \subseteq Nat /\ Gaps # {}
  BY <1>1, <1>2
<1> HIDE DEF Gaps
<1>4. PICK g \in Gaps : \A h \in Gaps : <<h, g>> \notin OpToRel(<, Nat)
  BY <1>3, WFMin, NatLessThanWellFounded, Zenon
<1>5. \A h \in Gaps : ~(h < g)
  BY <1>3, <1>4, Zenon DEF OpToRel
<1>6. PICK i \in S : g = top - ByName[i]
  BY DEF Gaps
<1>7. \A j \in S : ~(top - ByName[j] < top - ByName[i])
  BY <1>5, <1>6 DEF Gaps
<1> HIDE DEF top
<1>8. QED
  BY <1>1, <1>2, <1>7

LEMMA MainInstrumentType ==
    ASSUME TypeOK, NEW m \in Members
    PROVE  MainInstrument(m) \in Instruments \cup {None}
<1>1. CASE primary[m] = {}
  BY <1>1 DEF MainInstrument
<1>2. CASE primary[m] # {}
  <2>1. primary[m] \in SUBSET Instruments
    BY DEF TypeOK
  <2>2. \E i \in primary[m] : \A j \in primary[m] : ByName[j] <= ByName[i]
    BY <1>2, <2>1, LastByName
  <2>3. MainInstrument(m) \in primary[m]
    BY <1>2, <2>2, Zenon DEF MainInstrument
  <2>4. QED
    BY <2>1, <2>3
<1>3. QED
  BY <1>1, <1>2

LEMMA MainsType ==
    ASSUME TypeOK, NEW S \in SUBSET Members
    PROVE  Mains(S) \in [Members -> Instruments \cup {None}]
BY MainInstrumentType DEF Mains

\* The tables decide what is returned.
LEMMA SameTables ==
    ASSUME UNCHANGED <<musician, primary, away, team>>
    PROVE  /\ \A m \in Members : Served(m)' = Served(m)
           /\ \A S : Mains(S)' = Mains(S)
<1>1. \A m \in Members : Served(m)' = Served(m)
  BY DEF Served
<1>2. \A m \in Members : MainInstrument(m)' = MainInstrument(m)
  BY DEF MainInstrument
<1>3. QED
  BY <1>1, <1>2 DEF Mains

-----------------------------------------------------------------------------
(* The steps.                                                              *)

LEMMA InitStep == Init => IInv
<1> SUFFICES ASSUME Init PROVE IInv
  OBVIOUS
<1>1. TypeOK
  BY ParametersOK DEF Init, TypeOK, Suggestion, Nothing
<1>2. Counted
  BY DEF Init, Nothing, Counted, Counting, Made
<1>3. InOrder
  BY DEF Init, Nothing, InOrder
<1>4. Quiet
  BY DEF Init, Nothing, Quiet, ReadsHold, BestPicked, Counting
<1>5. QED
  BY <1>1, <1>2, <1>3, <1>4 DEF IInv

\* The statements before the count: what they do to the suggestion.
Reading ==
    /\ sug.pc \in {"musicians", "instruments", "exceptions"}
    /\ sug' \in Suggestion
    /\ sug'.pc \in {"instruments", "exceptions", "preceding"}
    /\ UNCHANGED <<sug.counted, sug.pick, sug.best>>

LEMMA ReadingStep ==
    ASSUME IInv, Reading, ReadsHold' \/ changes # 0,
           UNCHANGED <<musician, primary, away, team, changes>>
    PROVE  IInv'
<1>1. TypeOK'
  BY DEF IInv, TypeOK, Reading
<1>2. sug'.counted = {} /\ \A i \in Instruments : sug'.pick[i] = None
  BY DEF IInv, TypeOK, Counted, Counting, Reading
<1>3. Counted' /\ InOrder'
  BY <1>2 DEF Counted, Counting, InOrder, Made, Reading
<1>4. Quiet'
  BY <1>2 DEF Quiet, BestPicked
<1>5. QED
  BY <1>1, <1>3, <1>4 DEF IInv

LEMMA MusiciansStep ==
    ASSUME IInv, ReadMusicians, UNCHANGED <<musician, primary, away, team, changes>>
    PROVE  IInv'
<1>1. Reading
  BY DEF IInv, TypeOK, Suggestion, ReadMusicians, Reading
<1>2. ReadsHold'
  BY DEF IInv, TypeOK, Suggestion, ReadMusicians, ReadsHold, Counting
<1>3. QED
  BY <1>1, <1>2, ReadingStep

LEMMA InstrumentsStep ==
    ASSUME IInv, ReadInstruments, UNCHANGED <<musician, primary, away, team, changes>>
    PROVE  IInv'
<1>1. sug' = [sug EXCEPT !.pc = "exceptions", !.main = Mains(sug.musicians)]
  BY DEF ReadInstruments, Mains
<1>2. Mains(sug.musicians) \in [Members -> Instruments \cup {None}]
  BY MainsType DEF IInv, TypeOK, Suggestion
<1>3. Reading
  BY <1>1, <1>2 DEF IInv, TypeOK, Suggestion, ReadInstruments, Reading
<1>4. sug'.pc = "exceptions" /\ sug'.main = Mains(sug.musicians)
      /\ sug'.musicians = sug.musicians /\ sug.pc = "instruments"
  BY <1>1 DEF IInv, TypeOK, Suggestion, ReadInstruments
<1>5. Mains(musician)' = Mains(musician)
  BY SameTables
<1>6. ReadsHold' \/ changes # 0
  BY <1>4, <1>5 DEF IInv, Quiet, ReadsHold, Counting
<1>7. QED
  BY <1>3, <1>6, ReadingStep

LEMMA ExceptionsStep ==
    ASSUME IInv, ReadExceptions, UNCHANGED <<musician, primary, away, team, changes>>
    PROVE  IInv'
<1>1. Reading
  BY DEF IInv, TypeOK, Suggestion, ReadExceptions, Reading
<1>2. sug'.pc = "preceding" /\ sug'.main = sug.main /\ sug'.away = away
      /\ sug'.musicians = sug.musicians /\ sug.pc = "exceptions"
  BY DEF IInv, TypeOK, Suggestion, ReadExceptions
<1>3. Mains(musician)' = Mains(musician)
  BY SameTables
<1>4. ReadsHold' \/ changes # 0
  BY <1>2, <1>3 DEF IInv, Quiet, ReadsHold, Counting
<1>5. QED
  BY <1>1, <1>4, ReadingStep

LEMMA PrecedingStep ==
    ASSUME IInv, ReadPreceding, UNCHANGED <<musician, primary, away, team, changes>>
    PROVE  IInv'
<1>1. TypeOK'
  BY ParametersOK DEF IInv, TypeOK, Suggestion, ReadPreceding
<1>2. /\ sug'.pc = IF Candidates = {} THEN "over" ELSE "count"
      /\ sug'.preceding = team[Preceding] /\ sug.pc = "preceding"
      /\ UNCHANGED <<sug.musicians, sug.main, sug.away, sug.counted, sug.pick, sug.best>>
  BY DEF IInv, TypeOK, Suggestion, ReadPreceding
<1>3. Candidates' = Candidates
  BY <1>2 DEF Candidates, Available
<1>4. sug.counted = {} /\ \A i \in Instruments : sug.pick[i] = None
  BY <1>2 DEF IInv, TypeOK, Counted, Counting
<1>5. Counted' /\ InOrder'
  BY <1>2, <1>3, <1>4 DEF Counted, Counting, InOrder, Made
<1>6. Mains(musician)' = Mains(musician)
  BY SameTables
<1>7. Quiet'
  BY <1>2, <1>4, <1>6 DEF IInv, Quiet, ReadsHold, BestPicked, Counting
<1>8. QED
  BY <1>1, <1>5, <1>7 DEF IInv

LEMMA CountStep ==
    ASSUME IInv, NEW m \in Members, CountSlots(m),
           UNCHANGED <<musician, primary, away, team, changes>>
    PROVE  IInv'
<1> DEFINE i == sug.main[m]
           better == sug.pick[i] = None \/ Served(m) < sug.best[i]
           counted == sug.counted \cup {m}
<1>1. m \in Candidates /\ m \notin sug.counted /\ sug.pc = "count" /\ i \in Instruments
  BY DEF CountSlots, IsNext, Candidates, IInv, TypeOK, Suggestion
<1>2. Served(m) \in Nat
  BY ServedType
<1>3. /\ UNCHANGED <<sug.musicians, sug.main, sug.away, sug.preceding>>
      /\ sug'.counted = counted
      /\ sug'.pc = IF counted = Candidates THEN "over" ELSE "count"
      /\ sug'.pick = [sug.pick EXCEPT ![i] = IF better THEN m ELSE @]
      /\ sug'.best = [sug.best EXCEPT ![i] = IF better THEN Served(m) ELSE @]
      /\ sug' \in Suggestion
  <2>1. sug \in Suggestion
    BY DEF IInv, TypeOK
  <2>2. [sug.pick EXCEPT ![i] = IF better THEN m ELSE @] \in [Instruments -> Members \cup {None}]
    BY <2>1 DEF Suggestion
  <2>3. [sug.best EXCEPT ![i] = IF better THEN Served(m) ELSE @] \in [Instruments -> Nat]
    BY <1>2, <2>1 DEF Suggestion
  <2>4. counted \in SUBSET Members
    BY <2>1 DEF Suggestion
  <2> HIDE DEF i, better, counted
  <2>5. sug' = [sug EXCEPT !.counted = counted,
                           !.pick[i] = IF better THEN m ELSE @,
                           !.best[i] = IF better THEN Served(m) ELSE @,
                           !.pc = IF counted = Candidates THEN "over" ELSE "count"]
    BY DEF CountSlots, i, better, counted
  <2>6. QED
    BY <2>1, <2>2, <2>3, <2>4, <2>5 DEF Suggestion
<1>4. TypeOK'
  BY <1>3 DEF IInv, TypeOK
<1>5. Candidates' = Candidates
  BY <1>3 DEF Candidates, Available
<1>6. sug'.pick[i] = (IF better THEN m ELSE sug.pick[i])
      /\ \A j \in Instruments \ {i} : sug'.pick[j] = sug.pick[j]
  BY <1>1, <1>3 DEF IInv, TypeOK, Suggestion
<1>7. sug'.best[i] = (IF better THEN Served(m) ELSE sug.best[i])
      /\ \A j \in Instruments \ {i} : sug'.best[j] = sug.best[j]
  BY <1>1, <1>3 DEF IInv, TypeOK, Suggestion
<1>8. sug'.pick[i] # None /\ sug'.pick[i] \in counted /\ sug.main[sug'.pick[i]] = i
  BY <1>1, <1>6, NoneIsNew DEF IInv, Counted
<1>9. Counted'
  <2>1. counted \subseteq Candidates
    BY <1>1 DEF IInv, Counted
  <2>2. ~Counting' => counted = {}
    BY <1>3 DEF Counting
  <2>3. Made' => counted = Candidates
    BY <1>3 DEF Made
  <2>4. \A j \in Instruments : sug'.pick[j] # None =>
           sug'.pick[j] \in counted /\ sug.main[sug'.pick[j]] = j
    BY <1>6, <1>8 DEF IInv, Counted
  <2>5. \A n \in counted : sug'.pick[sug.main[n]] # None
    <3>1. \A n \in sug.counted : sug.main[n] \in Instruments
      BY DEF IInv, Counted, Candidates, TypeOK, Suggestion, Available
    <3>2. QED
      BY <1>6, <1>8, <3>1 DEF IInv, Counted
  <2>6. QED
    BY <2>1, <2>2, <2>3, <2>4, <2>5, <1>3, <1>5 DEF Counted
<1>10. \A n \in Candidates \ counted : i = sug.main[n] => ByName[m] < ByName[n]
  BY DEF CountSlots, IsNext, Before
<1>11. InOrder'
  BY <1>3, <1>5, <1>10 DEF IInv, InOrder
<1>12. ASSUME changes = 0
       PROVE  ReadsHold' /\ BestPicked'
  <2>1. ReadsHold'
    <3>1. Mains(musician)' = Mains(musician)
      BY SameTables
    <3>2. QED
      BY <1>1, <1>3, <1>12, <3>1 DEF IInv, Quiet, ReadsHold, Counting
  <2>2. \A n \in Members : Served(n)' = Served(n)
    BY SameTables
  <2>3. counted \subseteq Members /\ \A n \in counted : Served(n) \in Nat /\ ByName[n] \in Nat
    BY <1>1, ServedType, ParametersOK DEF IInv, TypeOK, Suggestion
  <2>4. \A j \in Instruments : sug.pick[j] # None =>
           /\ sug.best[j] = Served(sug.pick[j]) /\ sug.pick[j] \in sug.counted
           /\ \A n \in sug.counted : sug.main[n] = j => AheadOf(sug.pick[j], n)
    BY <1>12 DEF IInv, Counted, Quiet, BestPicked
  <2>5. sug'.best[i] = Served(sug'.pick[i])
    BY <1>1, <1>6, <1>7, <2>4
  <2>6. \A n \in counted : sug.main[n] = i => AheadOf(sug'.pick[i], n)
    <3>1. CASE sug.pick[i] = None
      <4>1. \A n \in sug.counted : sug.main[n] # i
        BY <3>1 DEF IInv, Counted
      <4>2. AheadOf(m, m)
        BY <2>3 DEF AheadOf
      <4>3. QED
        BY <3>1, <4>1, <4>2, <1>6
    <3>2. CASE sug.pick[i] # None /\ Served(m) < sug.best[i]
      <4>1. sug'.pick[i] = m
        BY <1>6, <3>2
      <4>2. \A n \in sug.counted : sug.main[n] = i => AheadOf(m, n)
        BY <1>1, <2>3, <2>4, <3>2 DEF AheadOf
      <4>3. AheadOf(m, m)
        BY <2>3 DEF AheadOf
      <4>4. QED
        BY <4>1, <4>2, <4>3
    <3>3. CASE sug.pick[i] # None /\ ~(Served(m) < sug.best[i])
      <4>1. sug'.pick[i] = sug.pick[i]
        BY <1>6, <3>3
      <4>2. ByName[sug.pick[i]] < ByName[m]
        BY <1>1, <3>3 DEF IInv, Counted, InOrder
      <4>3. AheadOf(sug.pick[i], m)
        BY <1>1, <2>3, <2>4, <3>3, <4>2 DEF AheadOf
      <4>4. QED
        BY <1>1, <2>4, <3>3, <4>1, <4>3
    <3>4. QED
      BY <3>1, <3>2, <3>3
  <2>7. \A j \in Instruments : sug'.pick[j] # None =>
           /\ sug'.best[j] = Served(sug'.pick[j])
           /\ \A n \in counted : sug.main[n] = j => AheadOf(sug'.pick[j], n)
    BY <1>6, <1>7, <2>4, <2>5, <2>6
  <2>8. BestPicked'
    <3> SUFFICES ASSUME NEW j \in Instruments, sug'.pick[j] # None
                 PROVE  /\ sug'.best[j] = Served(sug.pick[j])'
                        /\ \A n \in counted : sug.main[n] = j => AheadOf(sug.pick[j], n)'
      BY <1>3, Zenon DEF BestPicked
    <3>1. Served(sug.pick[j])' = Served(sug'.pick[j])
      BY DEF Served
    <3>2. sug'.best[j] = Served(sug.pick[j])'
      BY <2>7, <3>1, Zenon
    <3>3. ASSUME NEW n \in counted, sug.main[n] = j
          PROVE  AheadOf(sug.pick[j], n)'
      <4>1. AheadOf(sug'.pick[j], n) /\ Served(n)' = Served(n)
        BY <2>2, <2>3, <2>7, <3>3, Zenon
      <4>2. QED
        BY <3>1, <4>1, Zenon DEF AheadOf
    <3>4. QED
      BY <3>2, <3>3, Zenon
  <2>9. QED
    BY <2>1, <2>8
<1>13. QED
  BY <1>4, <1>9, <1>11, <1>12 DEF IInv, Quiet

\* Another request changes a row: nothing is claimed of the tables any more.
LEMMA ChangeStep ==
    ASSUME IInv, Change,
           musician' \in SUBSET Members, primary' \in [Members -> SUBSET Instruments],
           away' \in SUBSET Members, team' \in [Dates -> SUBSET Members]
    PROVE  IInv'
<1>1. TypeOK' /\ changes' # 0
  BY ParametersOK DEF IInv, TypeOK, Change
<1>2. Counted' /\ InOrder'
  BY DEF IInv, Change, Counted, InOrder, Counting, Candidates, Available, Made
<1>3. QED
  BY <1>1, <1>2 DEF IInv, Quiet

LEMMA StepKeeps ==
    ASSUME IInv, [Next]_vars
    PROVE  IInv'
<1>1. CASE Suggest
  BY <1>1, MusiciansStep, InstrumentsStep, ExceptionsStep, PrecedingStep, CountStep DEF Suggest
<1>2. ASSUME NEW m \in Members,
             CreateException(m) \/ DeleteException(m) \/ ChangeMusician(m)
      PROVE  IInv'
  BY <1>2, ChangeStep DEF CreateException, DeleteException, ChangeMusician, IInv, TypeOK
<1>3. ASSUME NEW m \in Members, NEW i \in Instruments, ChangePrimary(m, i)
      PROVE  IInv'
  BY <1>3, ChangeStep DEF ChangePrimary, IInv, TypeOK
<1>4. ASSUME NEW m \in Members, NEW d \in Dates, ChangeTeam(m, d)
      PROVE  IInv'
  BY <1>4, ChangeStep DEF ChangeTeam, IInv, TypeOK
<1>5. CASE UNCHANGED vars
  <2>1. Mains(musician)' = Mains(musician)
    BY <1>5, SameTables DEF vars
  <2>2. \A m \in Members : Served(m)' = Served(m)
    BY <1>5, SameTables DEF vars
  <2>3. TypeOK' /\ Counted' /\ InOrder'
    BY <1>5 DEF vars, IInv, TypeOK, Counted, InOrder, Counting, Candidates, Available, Made
  <2>4. ReadsHold => ReadsHold'
    BY <1>5, <2>1 DEF vars, ReadsHold, Counting
  <2>5. BestPicked => BestPicked'
    <3>1. sug.counted \subseteq Members
          /\ \A i \in Instruments : sug.pick[i] # None => sug.pick[i] \in Members
      BY DEF IInv, TypeOK, Suggestion
    <3>2. QED
      BY <1>5, <2>2, <3>1 DEF vars, BestPicked, AheadOf
  <2>6. QED
    BY <1>5, <2>3, <2>4, <2>5 DEF vars, IInv, Quiet
<1>6. QED
  BY <1>1, <1>2, <1>3, <1>4, <1>5 DEF Next

\* IInv holds in every state: what the suggestion has read, whom it has counted
\* and whom it has picked fit together at every statement of SuggestTeam.
THEOREM Invariance == Spec => []IInv
<1>1. Init => IInv
  BY InitStep
<1>2. IInv /\ [Next]_vars => IInv'
  BY StepKeeps
<1>3. QED
  BY <1>1, <1>2, PTL DEF Spec

\* The rows that a suggestion reads, and what it keeps of them, have the types
\* of the model.
THEOREM TypeCorrect == Spec => []TypeOK
<1>1. IInv => TypeOK
  BY DEF IInv
<1>2. QED
  BY <1>1, Invariance, PTL

\* Whatever changes between the reads of SuggestTeam, nobody is suggested twice
\* or while the list of the unavailable names him, and no group is left out.
THEOREM AgreementHolds == Spec => []AgreesWithItself
<1>1. IInv => AgreesWithItself
  BY DEF IInv, AgreesWithItself, Counted, Candidates, Made
<1>2. QED
  BY <1>1, Invariance, PTL

\* Undisturbed, SuggestTeam names for each instrument the available musician
\* with the fewest slots, past and planned, the first by name, with the right
\* warning.
THEOREM ExactWhenQuiet == Spec => []QuietIsExact
<1>1. IInv => QuietIsExact
  <2> SUFFICES ASSUME IInv, Made, changes = 0, NEW i \in Instruments
               PROVE  \/ /\ Deserves(sug.pick[i], i)
                         /\ Warned(i) <=> sug.pick[i] \in team[Preceding]
                      \/ sug.pick[i] = None /\ ~\E m \in Members : Deserves(m, i)
    BY DEF QuietIsExact
  <2>1. /\ sug.musicians = musician /\ sug.main = Mains(musician)
        /\ sug.away = away /\ sug.preceding = team[Preceding]
        /\ BestPicked /\ sug.counted = Candidates
    BY DEF IInv, Quiet, ReadsHold, Counting, Made, Counted
  <2>2. \A m \in Choice(i) : m \in sug.counted /\ sug.main[m] = i
    BY <2>1, NoneIsNew DEF Choice, Candidates, Available, Mains, IInv, TypeOK
  <2>3. CASE sug.pick[i] # None
    <3>1. sug.pick[i] \in Candidates /\ sug.main[sug.pick[i]] = i
      BY <2>1, <2>3 DEF IInv, Counted
    <3>2. sug.pick[i] \in Choice(i)
      BY <2>1, <3>1 DEF Choice, Candidates, Available, Mains, IInv, TypeOK
    <3>3. \A n \in Choice(i) : AheadOf(sug.pick[i], n)
      BY <2>1, <2>2, <2>3 DEF BestPicked
    <3>4. Choice(i) \subseteq Members
      BY DEF Choice, IInv, TypeOK
    <3>5. Deserves(sug.pick[i], i)
      BY <3>2, <3>3, <3>4, ServedIs DEF Deserves, AheadOf
    <3>6. QED
      BY <2>1, <3>5 DEF Warned
  <2>4. CASE sug.pick[i] = None
    BY <2>2, <2>4 DEF Deserves, IInv, Counted
  <2>5. QED
    BY <2>3, <2>4
<1>2. QED
  BY <1>1, Invariance, PTL

\* What the documents say, the fewest slots in the last four weeks, holds but
\* for those who are planned more often than the one suggested.
FewestLately ==
    Made /\ changes = 0 =>
        \A i \in Instruments : sug.pick[i] # None =>
            \A n \in Choice(i) :
                \/ Played(sug.pick[i]) <= Played(n)
                \/ Planned(sug.pick[i]) < Planned(n)

\* The count of CountSlotsInLastNWeeks, which has no upper bound, differs from
\* the documented one by planned slots only: if nobody is planned for a later
\* Sunday, undisturbed, the one suggested has the fewest slots of late.
THEOREM PassedOverForCause == Spec => []FewestLately
<1>1. TypeOK /\ QuietIsExact => FewestLately
  <2> SUFFICES ASSUME TypeOK, QuietIsExact, Made, changes = 0,
                      NEW i \in Instruments, sug.pick[i] # None, NEW n \in Choice(i)
               PROVE  Played(sug.pick[i]) <= Played(n) \/ Planned(sug.pick[i]) < Planned(n)
    BY DEF FewestLately
  <2>1. Deserves(sug.pick[i], i)
    BY DEF QuietIsExact
  <2>2. sug.pick[i] \in Members /\ n \in Members
    BY <2>1 DEF Deserves, Choice, TypeOK
  <2>3. Played(sug.pick[i]) + Planned(sug.pick[i]) <= Played(n) + Planned(n)
    BY <2>1, <2>2, ServedIs DEF Deserves
  <2>4. QED
    BY <2>2, <2>3, ServedIs
<1>2. QED
  BY <1>1, TypeCorrect, ExactWhenQuiet, PTL
=============================================================================
