------------------------ MODULE AssetNumbersProofs ------------------------
(***************************************************************************)
(* Proofs about AssetNumbers and ImportMatching, for any number of items,  *)
(* categories, names and overlapping requests.  Only MatchIsNearest rests  *)
(* on what the table of distances holds: the other theorems and all that   *)
(* they cite are true of any table.                                        *)
(***************************************************************************)
EXTENDS ImportMatching, CategoryMatchProofs, FiniteSetTheorems, TLAPS

\* A category that is stored has a name.
Named == \A k \in Categories : category[k].state = "stored" => category[k].name \in Names

\* How many items have a prefix.
Like == [p \in Prefixes |-> CountItemsWithPrefix(p)]

\* A counted number is one of 1, 2, ... up to the number of its likes, and no
\* two items have one number.
Numbered ==
    /\ \A i \in Items : Stored(i) /\ item[i].auto =>
          /\ item[i].number \in Numbers
          /\ 1 <= item[i].number[2]
          /\ item[i].number[2] <= Like[item[i].number[1]]
    /\ \A i, j \in Items :
          Stored(i) /\ Stored(j) /\ item[i].number # None /\ item[i].number = item[j].number
          => i = j

\* What an import has told of its rows so far.
Told(call) ==
    /\ call.created + call.skipped + call.errors = call.rows
    /\ call.created <= call.stored
    /\ call.stored <= call.created + call.errors

\* What a request knows of the number it has counted.
Counted(call) ==
    call.pc = "insert" /\ call.auto = TRUE =>
        /\ call.number \in Numbers
        /\ 1 <= call.number[2]
        /\ call.number[2] <= Like[call.number[1]] + 1
        /\ call.raced \/ call.number[2] = Like[call.number[1]] + 1

\* An import knows, under its key, each category it has listed or made.
Listed(call) ==
    \A l \in call.listed :
        /\ category[l].state # "absent"
        /\ category[l].state = "stored" => call.known[Key[category[l].name]] # None

\* What an import knows of the categories, and why it makes one.
Informed(call) ==
    /\ Listed(call)
    /\ call.pc = "category" => call.name \in Names /\ Match(Key[call.name], call.known) = {}
    /\ call.pc = "prefix" => call.category \in Categories

IInv ==
    /\ TypeOK /\ Named /\ Numbered
    /\ \A r \in Requests : Told(req[r]) /\ Counted(req[r]) /\ Informed(req[r])

-----------------------------------------------------------------------------
(* Records of requests.                                                    *)

LEMMA EditOK ==
    ASSUME NEW call \in Request
    PROVE  /\ \A pc \in {"rows", "category", "prefix", "count", "insert", "photo", "over"} :
                 [call EXCEPT !.pc = pc] \in Request
           /\ \A i \in Items \cup {None} : [call EXCEPT !.item = i] \in Request
           /\ \A k \in Categories \cup {None} : [call EXCEPT !.category = k] \in Request
           /\ \A n \in Names \cup {None} : [call EXCEPT !.name = n] \in Request
           /\ \A b \in BOOLEAN : [call EXCEPT !.auto = b] \in Request
           /\ \A p \in Prefixes : [call EXCEPT !.prefix = p] \in Request
           /\ \A n \in Numbers \cup {None} : [call EXCEPT !.number = n] \in Request
           /\ \A known \in [Keys -> Categories \cup {None}] :
                 [call EXCEPT !.known = known] \in Request
           /\ \A b \in BOOLEAN : [call EXCEPT !.raced = b] \in Request
           /\ \A L \in SUBSET Categories : [call EXCEPT !.listed = L] \in Request
<1>1. \A pc \in {"rows", "category", "prefix", "count", "insert", "photo", "over"} :
         [call EXCEPT !.pc = pc] \in Request
  BY DEF Request
<1>2. /\ \A i \in Items \cup {None} : [call EXCEPT !.item = i] \in Request
      /\ \A k \in Categories \cup {None} : [call EXCEPT !.category = k] \in Request
      /\ \A n \in Names \cup {None} : [call EXCEPT !.name = n] \in Request
  BY DEF Request
<1>3. \A b \in BOOLEAN : [call EXCEPT !.auto = b] \in Request
  BY DEF Request
<1>4. \A b \in BOOLEAN : [call EXCEPT !.raced = b] \in Request
  BY DEF Request
<1>5. /\ \A p \in Prefixes : [call EXCEPT !.prefix = p] \in Request
      /\ \A n \in Numbers \cup {None} : [call EXCEPT !.number = n] \in Request
  BY DEF Request
<1>6. \A known \in [Keys -> Categories \cup {None}] : [call EXCEPT !.known = known] \in Request
  BY DEF Request
<1>7. \A L \in SUBSET Categories : [call EXCEPT !.listed = L] \in Request
  BY DEF Request
<1>8. QED
  BY <1>1, <1>2, <1>3, <1>4, <1>5, <1>6, <1>7

LEMMA CountersOK ==
    ASSUME NEW call \in Request, NEW n \in Nat
    PROVE  /\ [call EXCEPT !.rows = n] \in Request
           /\ [call EXCEPT !.created = n] \in Request
           /\ [call EXCEPT !.skipped = n] \in Request
           /\ [call EXCEPT !.errors = n] \in Request
           /\ [call EXCEPT !.stored = n] \in Request
BY DEF Request

LEMMA NoRequestOK ==
    /\ NoRequest \in Request /\ NoRequest.pc = "over" /\ NoRequest.listed = {}
    /\ NoRequest.created = 0 /\ NoRequest.skipped = 0 /\ NoRequest.errors = 0
    /\ NoRequest.rows = 0 /\ NoRequest.stored = 0 /\ NoRequest.auto = FALSE
BY ParametersOK DEF NoRequest, Request

LEMMA CallOK ==
    ASSUME NEW op \in {"create", "photo", "import"}
    PROVE  /\ Call(op) \in Request /\ Call(op).listed = {}
           /\ Call(op).created = 0 /\ Call(op).skipped = 0 /\ Call(op).errors = 0
           /\ Call(op).rows = 0 /\ Call(op).stored = 0 /\ Call(op).op = op
BY ParametersOK DEF Call, NoRequest, Request

LEMMA NextRowOK ==
    ASSUME NEW call \in Request
    PROVE  LET new == NextRow(call) IN
           /\ new \in Request
           /\ new.pc = "rows" /\ new.op = call.op /\ new.rows = call.rows + 1
           /\ new.created = call.created /\ new.skipped = call.skipped
           /\ new.errors = call.errors /\ new.stored = call.stored
           /\ new.known = call.known /\ new.listed = call.listed
<1> DEFINE new == NextRow(call)
<1>1. /\ new.pc = "rows" /\ new.op = call.op /\ new.rows = call.rows + 1
      /\ new.created = call.created /\ new.skipped = call.skipped
      /\ new.errors = call.errors /\ new.stored = call.stored
      /\ new.known = call.known /\ new.listed = call.listed
  BY DEF NextRow, Request
<1> DEFINE one == [call EXCEPT !.pc = "rows"]
           two == [one EXCEPT !.rows = @ + 1]
           three == [two EXCEPT !.category = None]
           four == [three EXCEPT !.name = None]
           five == [four EXCEPT !.auto = FALSE]
           six == [five EXCEPT !.prefix = DefaultPrefix]
           seven == [six EXCEPT !.number = None]
           eight == [seven EXCEPT !.raced = FALSE]
<1>2. new = eight
  BY Zenon DEF NextRow
<1>3. one \in Request
  BY EditOK
<1> HIDE DEF one
<1>4. two \in Request
  <2>1. PICK n \in Nat : n = one.rows + 1
    BY <1>3 DEF Request
  <2>2. [one EXCEPT !.rows = n] \in Request
    BY <1>3, CountersOK
  <2>3. QED
    BY <2>1, <2>2
<1> HIDE DEF two
<1>5. three \in Request
  BY <1>4, EditOK
<1> HIDE DEF three
<1>6. four \in Request
  BY <1>5, EditOK
<1> HIDE DEF four
<1>7. five \in Request
  BY <1>6, EditOK
<1> HIDE DEF five
<1>8. six \in Request
  BY <1>7, EditOK, ParametersOK
<1> HIDE DEF six
<1>9. seven \in Request
  BY <1>8, EditOK
<1> HIDE DEF seven
<1>10. eight \in Request
  BY <1>9, EditOK
<1> HIDE DEF eight, new
<1>11. new \in Request
  BY <1>2, <1>10
<1>12. QED
  BY <1>1, <1>11 DEF new

\* A row of a sheet is told, and its request goes on with the next one.
TellsRow(call, new) ==
    /\ new \in Request /\ new.pc = "rows" /\ new.rows = call.rows + 1
    /\ new.stored = call.stored /\ new.known = call.known /\ new.listed = call.listed

LEMMA RowsOK ==
    ASSUME NEW call \in Request
    PROVE  /\ LET new == RowCreated(call) IN
              /\ TellsRow(call, new) /\ new.created = call.created + 1
              /\ new.skipped = call.skipped /\ new.errors = call.errors
           /\ LET new == RowFailed(call) IN
              /\ TellsRow(call, new) /\ new.created = call.created
              /\ new.skipped = call.skipped /\ new.errors = call.errors + 1
           /\ LET new == [NextRow(call) EXCEPT !.skipped = @ + 1] IN
              /\ TellsRow(call, new) /\ new.created = call.created
              /\ new.skipped = call.skipped + 1 /\ new.errors = call.errors
<1>1. PICK next : next = NextRow(call)
  OBVIOUS
<1>2. /\ next \in Request /\ next.pc = "rows" /\ next.rows = call.rows + 1
      /\ next.created = call.created /\ next.skipped = call.skipped
      /\ next.errors = call.errors /\ next.stored = call.stored
      /\ next.known = call.known /\ next.listed = call.listed
  BY <1>1, NextRowOK
<1>3. /\ next.created + 1 \in Nat /\ next.skipped + 1 \in Nat /\ next.errors + 1 \in Nat
  BY <1>2 DEF Request
<1>4. /\ [next EXCEPT !.created = @ + 1] \in Request
      /\ [next EXCEPT !.skipped = @ + 1] \in Request
      /\ [next EXCEPT !.errors = @ + 1] \in Request
  BY <1>2, <1>3, CountersOK
<1>5. /\ TellsRow(call, [next EXCEPT !.created = @ + 1])
      /\ TellsRow(call, [next EXCEPT !.skipped = @ + 1])
      /\ TellsRow(call, [next EXCEPT !.errors = @ + 1])
  BY <1>2, <1>4 DEF TellsRow, Request
<1>6. /\ LET new == [next EXCEPT !.created = @ + 1] IN
         /\ new.created = call.created + 1
         /\ new.skipped = call.skipped /\ new.errors = call.errors
      /\ LET new == [next EXCEPT !.skipped = @ + 1] IN
         /\ new.skipped = call.skipped + 1
         /\ new.created = call.created /\ new.errors = call.errors
      /\ LET new == [next EXCEPT !.errors = @ + 1] IN
         /\ new.errors = call.errors + 1
         /\ new.created = call.created /\ new.skipped = call.skipped
  BY <1>2 DEF Request
<1>7. QED
  BY <1>1, <1>5, <1>6 DEF RowCreated, RowFailed

-----------------------------------------------------------------------------
(* The rows of items.                                                      *)

LEMMA CountType ==
    ASSUME NEW p
    PROVE  IsFiniteSet(WithPrefix(p)) /\ CountItemsWithPrefix(p) \in Nat
<1>1. IsFiniteSet(Items) /\ WithPrefix(p) \in SUBSET Items
  BY ParametersOK DEF WithPrefix
<1>2. IsFiniteSet(WithPrefix(p))
  BY <1>1, FS_Subset
<1>3. QED
  BY <1>2, FS_CardinalityType DEF CountItemsWithPrefix

LEMMA LikeType ==
    /\ Like \in [Prefixes -> Nat]
    /\ Like' \in [Prefixes -> Nat]
<1>1. Like \in [Prefixes -> Nat]
  BY CountType DEF Like
<1>2. ASSUME NEW p \in Prefixes
      PROVE  CountItemsWithPrefix(p)' \in Nat
  <2>1. IsFiniteSet(Items) /\ WithPrefix(p)' \in SUBSET Items
    BY ParametersOK DEF WithPrefix
  <2>2. QED
    BY <2>1, FS_Subset, FS_CardinalityType DEF CountItemsWithPrefix
<1>3. QED
  BY <1>1, <1>2 DEF Like

\* Nobody is stored and no number changes.
ItemsAlike ==
    \A i \in Items :
        /\ item'[i].number = item[i].number /\ item'[i].auto = item[i].auto
        /\ item'[i].state = "absent" <=> item[i].state = "absent"

LEMMA AlikeKeeps ==
    ASSUME ItemsAlike
    PROVE  /\ Numbered => Numbered'
           /\ \A call \in Request : Counted(call) => Counted(call)'
<1>1. \A i \in Items : Stored(i)' <=> Stored(i)
  BY DEF ItemsAlike, Stored
<1>2. \A p \in Prefixes : WithPrefix(p)' = WithPrefix(p)
  BY <1>1 DEF ItemsAlike, WithPrefix
<1>3. Like' = Like
  BY <1>2 DEF CountItemsWithPrefix, Like
<1>4. Numbered => Numbered'
  BY <1>1, <1>3 DEF ItemsAlike, Numbered
<1>5. QED
  BY <1>3, <1>4 DEF Counted

\* An item is stored: its likes are one more.
LEMMA CreateItemKeeps ==
    ASSUME TypeOK, Numbered, NEW i \in Items, NEW call \in Request, Counted(call),
           call.pc = "insert", RepoCreateItem(i, call)
    PROVE  /\ item' \in [Items -> ItemRow] /\ Numbered'
           /\ \A p \in Prefixes : Like[p] <= Like'[p]
<1> DEFINE row == [state |-> "stored", number |-> call.number, photo |-> FALSE,
                   auto |-> call.auto]
<1>1. /\ row \in ItemRow /\ row.state = "stored" /\ row.number = call.number
      /\ row.auto = call.auto
      /\ item' = [item EXCEPT ![i] = row] /\ ~Stored(i) /\ ~Taken(call.number)
  BY DEF RepoCreateItem, ItemRow, Request
<1> HIDE DEF row
<1>2. /\ item' \in [Items -> ItemRow] /\ item'[i] = row
      /\ \A j \in Items \ {i} : item'[j] = item[j]
  BY <1>1 DEF TypeOK
<1>3. /\ Stored(i)'
      /\ \A j \in Items \ {i} : Stored(j)' <=> Stored(j)
  BY <1>1, <1>2 DEF Stored
<1>4. ASSUME NEW p \in Prefixes
      PROVE  /\ Like[p] <= Like'[p]
             /\ call.number # None /\ call.number[1] = p => Like'[p] = Like[p] + 1
  <2>1. i \notin WithPrefix(p)
    BY <1>1 DEF WithPrefix
  <2>2. CASE call.number # None /\ call.number[1] = p
    <3>1. WithPrefix(p)' = WithPrefix(p) \cup {i}
      BY <1>1, <1>2, <1>3, <2>2 DEF WithPrefix
    <3>2. Cardinality(WithPrefix(p) \cup {i}) = Cardinality(WithPrefix(p)) + 1
      BY <2>1, CountType, FS_AddElement
    <3>3. Like'[p] = Like[p] + 1
      BY <3>1, <3>2 DEF CountItemsWithPrefix, Like
    <3>4. QED
      BY <3>3, LikeType
  <2>3. CASE ~(call.number # None /\ call.number[1] = p)
    <3>1. WithPrefix(p)' = WithPrefix(p)
      BY <1>1, <1>2, <1>3, <2>1, <2>3 DEF WithPrefix
    <3>2. Like'[p] = Like[p]
      BY <3>1 DEF CountItemsWithPrefix, Like
    <3>3. QED
      BY <2>3, <3>2, LikeType
  <2>4. QED
    BY <2>2, <2>3
<1>5. ASSUME NEW j \in Items, Stored(j)', item'[j].auto
      PROVE  /\ item'[j].number \in Numbers
             /\ 1 <= item'[j].number[2]
             /\ item'[j].number[2] <= Like'[item'[j].number[1]]
  <2>1. CASE j = i
    <3>1. /\ call.auto = TRUE /\ item'[j].number = call.number
      BY <1>1, <1>2, <1>5, <2>1 DEF Request
    <3>2. PICK n \in Numbers : n = call.number
      BY <3>1 DEF Counted
    <3>3. /\ n[1] \in Prefixes /\ n[2] \in Nat /\ n # None
          /\ 1 <= n[2] /\ n[2] <= Like[n[1]] + 1
      BY <3>1, <3>2, NoneIsNew DEF Counted, Numbers
    <3>4. Like'[n[1]] = Like[n[1]] + 1
      BY <1>4, <3>2, <3>3
    <3>5. QED
      BY <3>1, <3>2, <3>3, <3>4
  <2>2. CASE j # i
    <3>1. PICK n \in Numbers : n = item[j].number
      BY <1>2, <1>3, <1>5, <2>2 DEF Numbered
    <3>2. 1 <= n[2] /\ n[2] <= Like[n[1]] /\ n[2] \in Nat /\ n[1] \in Prefixes
      BY <1>2, <1>3, <1>5, <2>2, <3>1 DEF Numbered, Numbers
    <3>3. Like[n[1]] <= Like'[n[1]] /\ Like[n[1]] \in Nat /\ Like'[n[1]] \in Nat
      BY <1>4, <3>2, LikeType
    <3>4. item'[j].number = n
      BY <1>2, <2>2, <3>1
    <3>5. QED
      BY <3>2, <3>3, <3>4
  <2>3. QED
    BY <2>1, <2>2
<1>6. ASSUME NEW j \in Items, NEW k \in Items, Stored(j)', Stored(k)',
             item'[j].number # None, item'[j].number = item'[k].number
      PROVE  j = k
  BY <1>1, <1>2, <1>3, <1>6 DEF Numbered, Taken
<1>7. Numbered'
  BY <1>5, <1>6 DEF Numbered
<1>8. QED
  BY <1>2, <1>4, <1>7

\* Every request under way that has counted is told so.
LEMMA RaceKeeps ==
    ASSUME NEW call \in Request, Counted(call), \A p \in Prefixes : Like[p] <= Like'[p]
    PROVE  LET new == [call EXCEPT !.raced = (call.pc = "insert")] IN
           /\ new \in Request /\ Counted(new)'
           /\ Told(call) => Told(new)
           /\ Informed(call) => Informed(new)
<1>1. PICK raced \in BOOLEAN : raced = (call.pc = "insert")
  OBVIOUS
<1> DEFINE new == [call EXCEPT !.raced = raced]
<1>2. /\ new.pc = call.pc /\ new.auto = call.auto
      /\ new.number = call.number /\ new.raced = raced
      /\ new.created = call.created /\ new.skipped = call.skipped /\ new.errors = call.errors
      /\ new.rows = call.rows /\ new.stored = call.stored
      /\ new.listed = call.listed /\ new.known = call.known /\ new.name = call.name
      /\ new.category = call.category
  BY DEF Request
<1>3. new \in Request
  BY EditOK
<1> HIDE DEF new
<1>4. ASSUME call.pc = "insert", call.auto = TRUE
      PROVE  /\ call.number \in Numbers /\ 1 <= call.number[2]
             /\ call.number[2] <= Like'[call.number[1]] + 1
             /\ raced
  <2>1. PICK n \in Numbers : n = call.number
    BY <1>4 DEF Counted
  <2>2. /\ 1 <= n[2] /\ n[2] <= Like[n[1]] + 1
        /\ n[2] \in Nat /\ n[1] \in Prefixes
    BY <1>4, <2>1 DEF Counted, Numbers
  <2>3. Like[n[1]] <= Like'[n[1]] /\ Like[n[1]] \in Nat /\ Like'[n[1]] \in Nat
    BY <2>2, LikeType
  <2>4. raced
    BY Zenon, <1>1, <1>4
  <2>5. QED
    BY <2>1, <2>2, <2>3, <2>4
<1>5. Counted(new)'
  BY <1>2, <1>4 DEF Counted
<1>6. QED
  BY <1>1, <1>2, <1>3, <1>5 DEF new, Told, Informed, Listed

-----------------------------------------------------------------------------
(* The frame of a step.                                                    *)

\* Categories do not come back, and none that is stored gets another name.
CategoriesForward ==
    \A k \in Categories : category[k].state # "absent" =>
        /\ category'[k].state # "absent"
        /\ category'[k].state = "stored" =>
              category[k].state = "stored" /\ category'[k].name = category[k].name

LEMMA ForwardKeeps ==
    ASSUME CategoriesForward, NEW call \in Request, Informed(call)
    PROVE  Informed(call)'
<1>1. call.listed \subseteq Categories
  BY DEF Request
<1>2. QED
  BY <1>1 DEF CategoriesForward, Informed, Listed

LEMMA SlotFrame ==
    ASSUME IInv, category' \in [Categories -> CategoryRow], Named', CategoriesForward,
           item' \in [Items -> ItemRow], ItemsAlike, served' \in 0..MaxServed,
           NEW r \in Requests, NEW new \in Request, req' = [req EXCEPT ![r] = new],
           Told(new), Counted(new), Informed(new) \/ Informed(new)'
    PROVE  IInv'
<1>1. /\ req' \in [Requests -> Request] /\ req'[r] = new
      /\ \A q \in Requests \ {r} : req'[q] = req[q]
  BY DEF IInv, TypeOK
<1>2. Numbered' /\ Counted(new)' /\ Informed(new)'
  BY AlikeKeeps, ForwardKeeps DEF IInv
<1>3. ASSUME NEW q \in Requests \ {r}
      PROVE  Told(req[q])' /\ Counted(req[q])' /\ Informed(req[q])'
  <2>1. PICK call \in Request : call = req[q] /\ Told(call) /\ Counted(call) /\ Informed(call)
    BY DEF IInv, TypeOK
  <2>2. Counted(call)' /\ Informed(call)'
    BY <2>1, AlikeKeeps, ForwardKeeps
  <2>3. req'[q] = call
    BY <1>1, <2>1
  <2>4. QED
    BY <2>1, <2>2, <2>3 DEF Told, Counted, Informed, Listed
<1>4. Told(req[r])' /\ Counted(req[r])' /\ Informed(req[r])'
  BY <1>1, <1>2 DEF Told, Counted, Informed, Listed
<1>5. \A q \in Requests : Told(req[q])' /\ Counted(req[q])' /\ Informed(req[q])'
  BY <1>3, <1>4
<1>6. TypeOK'
  BY <1>1 DEF TypeOK
<1>7. QED
  BY <1>2, <1>5, <1>6 DEF IInv

\* A step that writes no table.
LEMMA QuietStep ==
    ASSUME IInv, UNCHANGED <<category, item>>,
           served' = served \/ (served < MaxServed /\ served' = served + 1),
           NEW r \in Requests, NEW new \in Request, req' = [req EXCEPT ![r] = new],
           Told(new), Counted(new), Informed(new)
    PROVE  IInv'
<1>1. /\ category' \in [Categories -> CategoryRow] /\ item' \in [Items -> ItemRow]
      /\ CategoriesForward /\ ItemsAlike
  BY DEF IInv, TypeOK, CategoriesForward, ItemsAlike
<1>2. Named'
  BY DEF IInv, Named
<1>3. served' \in 0..MaxServed
  BY ParametersOK DEF IInv, TypeOK
<1>4. QED
  BY <1>1, <1>2, <1>3, SlotFrame

LEMMA OverOK ==
    NoRequest \in Request /\ Told(NoRequest) /\ Counted(NoRequest) /\ Informed(NoRequest)
<1>1. /\ NoRequest \in Request /\ NoRequest.pc = "over" /\ NoRequest.listed = {}
      /\ NoRequest.created = 0 /\ NoRequest.skipped = 0 /\ NoRequest.errors = 0
      /\ NoRequest.rows = 0 /\ NoRequest.stored = 0
  BY NoRequestOK
<1>2. QED
  BY <1>1 DEF Told, Counted, Informed, Listed

LEMMA FinishStep ==
    ASSUME IInv, UNCHANGED <<category, item>>,
           served' = served \/ (served < MaxServed /\ served' = served + 1),
           NEW r \in Requests, Finish(r)
    PROVE  IInv'
BY OverOK, QuietStep DEF Finish

\* call may go on with its insert.
Ready(call) == call.auto = FALSE \/ Counted([call EXCEPT !.pc = "insert"])

LEMMA ContinueOK ==
    ASSUME NEW call \in Request, Told(call), NEW r \in Requests,
           NEW pc \in {"rows", "category", "prefix", "count", "insert", "photo"},
           Continue(r, call, pc),
           pc = "insert" => Ready(call)
    PROVE  \E new \in Request :
              /\ req' = [req EXCEPT ![r] = new]
              /\ Told(new) /\ Counted(new) /\ new.pc = pc
              /\ new.listed = call.listed /\ new.known = call.known
              /\ new.name = call.name /\ new.category = call.category
<1> DEFINE moved == [call EXCEPT !.pc = pc]
<1>1. moved \in Request /\ req' = [req EXCEPT ![r] = moved]
  BY EditOK DEF Continue
<1>2. /\ moved.pc = pc /\ moved.auto = call.auto /\ moved.listed = call.listed
      /\ moved.known = call.known /\ moved.name = call.name /\ moved.category = call.category
      /\ moved.created = call.created /\ moved.skipped = call.skipped /\ moved.errors = call.errors
      /\ moved.rows = call.rows /\ moved.stored = call.stored
  BY DEF Request
<1>3. Counted(moved)
  <2>1. CASE pc = "insert" /\ call.auto # FALSE
    BY <2>1 DEF Ready
  <2>2. CASE ~(pc = "insert" /\ call.auto # FALSE)
    <3> HIDE DEF moved
    <3>1. QED
      BY <1>2, <2>2 DEF Counted
  <2>3. QED
    BY <2>1, <2>2
<1> HIDE DEF moved
<1>4. Told(moved)
  BY <1>2 DEF Told
<1>5. /\ moved.pc = pc /\ moved.listed = call.listed /\ moved.known = call.known
      /\ moved.name = call.name /\ moved.category = call.category
  BY <1>2
<1>6. QED
  BY <1>1, <1>3, <1>4, <1>5

LEMMA ContinueStep ==
    ASSUME IInv, UNCHANGED <<category, item>>,
           served' = served \/ (served < MaxServed /\ served' = served + 1),
           NEW call \in Request, Told(call), Listed(call), NEW r \in Requests,
           NEW pc \in {"rows", "category", "prefix", "count", "insert", "photo"},
           Continue(r, call, pc),
           pc = "insert" => Ready(call),
           pc = "category" => call.name \in Names /\ Match(Key[call.name], call.known) = {},
           pc = "prefix" => call.category \in Categories
    PROVE  IInv'
<1>1. PICK new \in Request :
         /\ req' = [req EXCEPT ![r] = new]
         /\ Told(new) /\ Counted(new) /\ new.pc = pc
         /\ new.listed = call.listed /\ new.known = call.known
         /\ new.name = call.name /\ new.category = call.category
  BY ContinueOK
<1>2. Informed(new)
  BY <1>1 DEF Informed, Listed
<1>3. QED
  BY <1>1, <1>2, QuietStep

\* A row of a sheet is told.
LEMMA TellsOK ==
    ASSUME NEW call \in Request, Told(call), Informed(call)
    PROVE  /\ LET new == RowFailed(call) IN
              new \in Request /\ Told(new) /\ Counted(new) /\ Informed(new)
           /\ LET new == [NextRow(call) EXCEPT !.skipped = @ + 1] IN
              new \in Request /\ Told(new) /\ Counted(new) /\ Informed(new)
<1>1. PICK failed : failed = RowFailed(call)
  OBVIOUS
<1>2. PICK skipped : skipped = [NextRow(call) EXCEPT !.skipped = @ + 1]
  OBVIOUS
<1>3. /\ TellsRow(call, failed) /\ failed.created = call.created
      /\ failed.skipped = call.skipped /\ failed.errors = call.errors + 1
      /\ TellsRow(call, skipped) /\ skipped.created = call.created
      /\ skipped.skipped = call.skipped + 1 /\ skipped.errors = call.errors
  BY <1>1, <1>2, RowsOK
<1>4. /\ call.created \in Nat /\ call.skipped \in Nat /\ call.errors \in Nat
      /\ call.rows \in Nat /\ call.stored \in Nat
  BY DEF Request
<1>5. Told(failed) /\ Told(skipped)
  BY <1>3, <1>4 DEF TellsRow, Told
<1>6. /\ failed \in Request /\ Counted(failed) /\ Informed(failed)
      /\ skipped \in Request /\ Counted(skipped) /\ Informed(skipped)
  BY <1>3 DEF TellsRow, Counted, Informed, Listed
<1>7. QED
  BY <1>1, <1>2, <1>5, <1>6

-----------------------------------------------------------------------------
(* Categories.                                                             *)

LEMMA CategoryKeeps ==
    ASSUME TypeOK, Named, NEW k \in Categories,
           (\E n \in Names : RepoCreateCategory(k, n)) \/ RepoDeleteCategory(k)
    PROVE  category' \in [Categories -> CategoryRow] /\ Named' /\ CategoriesForward
<1>1. PICK row \in CategoryRow :
         /\ category' = [category EXCEPT ![k] = row]
         /\ \/ category[k].state = "absent" /\ row.name \in Names
            \/ row.state = "deleted"
  <2>1. ASSUME NEW n \in Names, RepoCreateCategory(k, n)
        PROVE  \E row \in CategoryRow :
                  /\ category' = [category EXCEPT ![k] = row]
                  /\ category[k].state = "absent" /\ row.name \in Names
    <3> DEFINE row == [state |-> "stored", name |-> n]
    <3>1. row \in CategoryRow /\ row.name \in Names
      BY DEF CategoryRow
    <3>2. QED
      BY <2>1, <3>1 DEF RepoCreateCategory
  <2>2. CASE RepoDeleteCategory(k)
    <3> DEFINE row == [NoCategory EXCEPT !.state = "deleted"]
    <3>1. row \in CategoryRow /\ row.state = "deleted"
      BY DEF NoCategory, CategoryRow
    <3>2. QED
      BY <2>2, <3>1 DEF RepoDeleteCategory
  <2>3. QED
    BY <2>1, <2>2
<1>2. /\ category' \in [Categories -> CategoryRow] /\ category'[k] = row
      /\ \A l \in Categories \ {k} : category'[l] = category[l]
  BY <1>1 DEF TypeOK
<1>3. Named'
  BY <1>1, <1>2 DEF Named
<1>4. CategoriesForward
  BY <1>1, <1>2 DEF CategoriesForward
<1>5. QED
  BY <1>2, <1>3, <1>4

LEMMA CategoryStep ==
    ASSUME IInv, NEW r \in Requests, NEW k \in Categories,
           (\E n \in Names : CreateCategory(r, k, n)) \/ DeleteCategory(r, k)
    PROVE  IInv'
<1>1. /\ served < MaxServed /\ served' = served + 1 /\ Finish(r) /\ UNCHANGED item
      /\ \/ (\E n \in Names : RepoCreateCategory(k, n)) \/ RepoDeleteCategory(k)
         \/ UNCHANGED category
  BY DEF CreateCategory, DeleteCategory, Arrive
<1>2. CASE UNCHANGED category
  BY <1>1, <1>2, FinishStep
<1>3. CASE (\E n \in Names : RepoCreateCategory(k, n)) \/ RepoDeleteCategory(k)
  <2>1. category' \in [Categories -> CategoryRow] /\ Named' /\ CategoriesForward
    BY <1>3, CategoryKeeps DEF IInv
  <2>2. item' \in [Items -> ItemRow] /\ ItemsAlike /\ served' \in 0..MaxServed
    BY <1>1, ParametersOK DEF IInv, TypeOK, ItemsAlike
  <2>3. QED
    BY <1>1, <2>1, <2>2, OverOK, SlotFrame DEF Finish
<1>4. QED
  BY <1>1, <1>2, <1>3

\* A category gets another name, and every request forgets it.
LEMMA UpdateCategoryStep ==
    ASSUME IInv, NEW r \in Requests, NEW k \in Categories, NEW n \in Names,
           UpdateCategory(r, k, n)
    PROVE  IInv'
<1> DEFINE unlisted == [q \in Requests |-> [req[q] EXCEPT !.listed = @ \ {k}]]
<1>1. /\ served < MaxServed /\ served' = served + 1 /\ UNCHANGED item
      /\ \/ RepoUpdateCategory(k, n) /\ req' = [unlisted EXCEPT ![r] = NoRequest]
         \/ Finish(r) /\ UNCHANGED category
  BY DEF UpdateCategory, Arrive
<1>2. CASE Finish(r) /\ UNCHANGED category
  BY <1>1, <1>2, FinishStep
<1>3. CASE RepoUpdateCategory(k, n) /\ req' = [unlisted EXCEPT ![r] = NoRequest]
  <2>1. /\ category' \in [Categories -> CategoryRow]
        /\ category'[k].state = "stored" /\ category'[k].name = n
        /\ \A l \in Categories \ {k} : category'[l] = category[l]
    BY <1>3 DEF IInv, TypeOK, CategoryRow, RepoUpdateCategory, OwnCategory
  <2>2. Named'
    BY <2>1 DEF IInv, Named
  <2>3. ItemsAlike /\ item' \in [Items -> ItemRow] /\ served' \in 0..MaxServed
    BY <1>1, ParametersOK DEF IInv, TypeOK, ItemsAlike
  <2>4. Numbered' /\ Counted(NoRequest)'
    BY <2>3, AlikeKeeps, OverOK DEF IInv
  <2>5. /\ req'[r] = NoRequest
        /\ \A q \in Requests \ {r} : req'[q] = [req[q] EXCEPT !.listed = @ \ {k}]
        /\ DOMAIN req' = Requests /\ req' = [q \in Requests |-> req'[q]]
    BY <1>3 DEF IInv, TypeOK
  <2>6. ASSUME NEW q \in Requests
        PROVE  req'[q] \in Request /\ Told(req[q])' /\ Counted(req[q])' /\ Informed(req[q])'
    <3>1. CASE q = r
      <4>1. NoRequest.listed = {} /\ NoRequest.pc = "over"
        BY NoRequestOK
      <4>2. Told(req[q])'
        BY <2>5, <3>1, OverOK DEF Told
      <4>3. Counted(req[q])'
        BY <2>5, <3>1, <4>1 DEF Counted
      <4>4. Informed(req[q])'
        BY <2>5, <3>1, <4>1 DEF Informed, Listed
      <4>5. QED
        BY <2>5, <3>1, <4>2, <4>3, <4>4, OverOK
    <3>2. CASE q # r
      <4>1. PICK call \in Request :
               call = req[q] /\ Told(call) /\ Counted(call) /\ Informed(call)
        BY DEF IInv, TypeOK
      <4> DEFINE new == [call EXCEPT !.listed = @ \ {k}]
      <4>2. /\ new.pc = call.pc /\ new.auto = call.auto /\ new.number = call.number
            /\ new.raced = call.raced
            /\ new.listed = call.listed \ {k} /\ new.known = call.known
            /\ new.name = call.name /\ new.category = call.category
            /\ new.created = call.created /\ new.skipped = call.skipped
            /\ new.errors = call.errors /\ new.rows = call.rows /\ new.stored = call.stored
        BY DEF Request
      <4>3. new \in Request
        <5>1. PICK L \in SUBSET Categories : L = call.listed \ {k}
          BY DEF Request
        <5>2. [call EXCEPT !.listed = L] \in Request
          BY EditOK
        <5>3. QED
          BY <5>1, <5>2
      <4>4. req'[q] = new
        BY <2>5, <3>2, <4>1
      <4> HIDE DEF new
      <4>5. Counted(call)'
        BY <2>3, <4>1, AlikeKeeps
      <4>6. Counted(new)'
        BY <4>2, <4>5 DEF Counted
      <4>7. Informed(new)'
        <5>1. call.listed \subseteq Categories
          BY DEF Request
        <5>2. QED
          BY <2>1, <4>1, <4>2, <5>1 DEF Informed, Listed
      <4>8. Told(new)
        BY <4>1, <4>2 DEF Told
      <4>9. QED
        BY <4>3, <4>4, <4>6, <4>7, <4>8 DEF Told, Counted, Informed, Listed
    <3>3. QED
      BY <3>1, <3>2
  <2>7. req' \in [Requests -> Request]
    BY <2>5, <2>6
  <2>8. TypeOK'
    BY <2>1, <2>3, <2>7 DEF TypeOK
  <2>9. QED
    BY <2>2, <2>4, <2>6, <2>8 DEF IInv
<1>4. QED
  BY <1>1, <1>2, <1>3

-----------------------------------------------------------------------------
(* Items.                                                                  *)

LEMMA NumberingOK ==
    ASSUME NEW call \in Request
    PROVE  /\ Numbering(call) \in {"insert", "count", "prefix"}
           /\ Numbering(call) = "insert" => Ready(call)
           /\ Numbering(call) = "prefix" => call.category \in Categories
BY DEF Numbering, Request, Ready

LEMMA CreateItemStep ==
    ASSUME IInv, NEW r \in Requests, NEW k \in Categories \cup {None}, NEW auto \in BOOLEAN,
           NEW number \in HandNumbers \cup {None}, CreateItem(r, k, auto, number)
    PROVE  IInv'
<1> DEFINE base == Call("create")
           one == [base EXCEPT !.category = k]
           two == [one EXCEPT !.auto = auto]
           call == [two EXCEPT !.number = number]
<1>1. /\ base \in Request /\ base.listed = {}
      /\ base.created = 0 /\ base.skipped = 0 /\ base.errors = 0
      /\ base.rows = 0 /\ base.stored = 0
  BY CallOK
<1> HIDE DEF base
<1>2. /\ call.listed = {} /\ call.created = 0 /\ call.skipped = 0 /\ call.errors = 0
      /\ call.rows = 0 /\ call.stored = 0
  BY <1>1 DEF Request
<1>3. one \in Request
  BY <1>1, EditOK
<1>4. /\ UNCHANGED <<category, item>> /\ served < MaxServed /\ served' = served + 1
      /\ Continue(r, call, Numbering(call))
  BY DEF CreateItem, Arrive, base
<1> HIDE DEF one
<1>5. two \in Request
  BY <1>3, EditOK
<1> HIDE DEF two
<1>6. call \in Request
  BY <1>5, EditOK, ParametersOK
<1> HIDE DEF call
<1>7. Told(call) /\ Listed(call)
  BY <1>2 DEF Told, Listed
<1>8. PICK pc : pc = Numbering(call)
  OBVIOUS
<1>9. /\ pc \in {"insert", "count", "prefix"}
      /\ pc = "insert" => Ready(call)
      /\ pc = "prefix" => call.category \in Categories
      /\ Continue(r, call, pc)
  BY <1>4, <1>6, <1>8, NumberingOK
<1>10. QED
  BY <1>4, <1>6, <1>7, <1>9, ContinueStep

\* What a request that is under way knows.
LEMMA UnderWay ==
    ASSUME IInv, NEW r \in Requests
    PROVE  /\ req[r] \in Request /\ Told(req[r]) /\ Counted(req[r]) /\ Informed(req[r])
           /\ Listed(req[r])
BY DEF IInv, TypeOK, Informed

LEMMA ReadPrefixStep ==
    ASSUME IInv, NEW r \in Requests, ReadPrefix(r)
    PROVE  IInv'
<1>1. /\ req[r] \in Request /\ Told(req[r]) /\ Listed(req[r])
      /\ req[r].category \in Categories
  BY UnderWay DEF Informed, ReadPrefix
<1>2. PICK p \in Prefixes : Continue(r, [req[r] EXCEPT !.prefix = p], "count")
  BY <1>1, ParametersOK DEF IInv, Named, OwnCategory, ReadPrefix
<1> DEFINE call == [req[r] EXCEPT !.prefix = p]
<1>3. /\ call.created = req[r].created /\ call.skipped = req[r].skipped
      /\ call.errors = req[r].errors /\ call.rows = req[r].rows /\ call.stored = req[r].stored
      /\ call.listed = req[r].listed /\ call.known = req[r].known
  BY <1>1 DEF Request
<1>4. call \in Request
  BY <1>1, EditOK
<1>5. /\ UNCHANGED <<category, item, served>> /\ Continue(r, call, "count")
  BY <1>2 DEF ReadPrefix
<1> HIDE DEF call
<1>6. Told(call) /\ Listed(call)
  BY <1>1, <1>3 DEF Told, Listed
<1>7. QED
  BY <1>4, <1>5, <1>6, ContinueStep

LEMMA CountStep ==
    ASSUME IInv, NEW r \in Requests, Count(r)
    PROVE  IInv'
<1>1. /\ req[r] \in Request /\ Told(req[r]) /\ Listed(req[r])
      /\ req[r].prefix \in Prefixes
  BY UnderWay DEF Request
<1>2. Like[req[r].prefix] \in Nat /\ Like[req[r].prefix] + 1 \in Nat
  BY <1>1, LikeType
<1>3. PICK number \in Numbers : number = <<req[r].prefix, Like[req[r].prefix] + 1>>
  BY <1>1, <1>2 DEF Numbers
<1> DEFINE one == [req[r] EXCEPT !.number = number]
           call == [one EXCEPT !.raced = FALSE]
           new == [call EXCEPT !.pc = "insert"]
<1>4. /\ UNCHANGED <<category, item, served>> /\ Continue(r, call, "insert")
  BY <1>1, <1>3 DEF Count, NextNumber, Like
<1>5. /\ call.created = req[r].created /\ call.skipped = req[r].skipped
      /\ call.errors = req[r].errors /\ call.rows = req[r].rows /\ call.stored = req[r].stored
      /\ call.listed = req[r].listed /\ call.known = req[r].known
      /\ new.number = number
  BY <1>1 DEF Request
<1>6. one \in Request
  BY <1>1, EditOK
<1> HIDE DEF one
<1>7. call \in Request
  BY <1>6, EditOK
<1> HIDE DEF call
<1>8. Told(call) /\ Listed(call)
  BY <1>1, <1>5 DEF Told, Listed
<1>9. Counted(new)
  <2> HIDE DEF new
  <2>1. QED
    BY <1>2, <1>3, <1>5 DEF Counted
<1>10. Ready(call)
  BY <1>9 DEF Ready
<1> HIDE DEF new
<1>11. QED
  BY <1>4, <1>7, <1>8, <1>10, ContinueStep

\* What becomes of a row, or of a creation.
LEMMA RejectedOK ==
    ASSUME NEW call \in Request, Told(call), Informed(call)
    PROVE  Rejected(call) \in Request /\ Told(Rejected(call)) /\ Counted(Rejected(call))
           /\ Informed(Rejected(call))
BY TellsOK, OverOK DEF Rejected

LEMMA InsertRefusedStep ==
    ASSUME IInv, NEW r \in Requests, InsertRefused(r)
    PROVE  IInv'
<1>1. PICK new : new = Rejected(req[r])
  OBVIOUS
<1>2. new \in Request /\ Told(new) /\ Counted(new) /\ Informed(new)
  BY <1>1, UnderWay, RejectedOK
<1>3. QED
  BY <1>1, <1>2, QuietStep DEF InsertRefused

LEMMA InsertItemStep ==
    ASSUME IInv, NEW r \in Requests, NEW i \in Items, InsertItem(r, i)
    PROVE  IInv'
<1>1. PICK old \in Request : /\ old = req[r] /\ Told(old) /\ Counted(old) /\ Informed(old)
                             /\ Listed(old) /\ old.pc = "insert"
  BY UnderWay DEF InsertItem
<1>2. old.stored + 1 \in Nat /\ old.stored \in Nat
  BY DEF Request
<1> DEFINE call == [old EXCEPT !.stored = @ + 1]
<1>3. /\ call.created = old.created /\ call.skipped = old.skipped
      /\ call.errors = old.errors /\ call.rows = old.rows /\ call.stored = old.stored + 1
      /\ call.listed = old.listed /\ call.known = old.known
      /\ call.pc = old.pc /\ call.auto = old.auto /\ call.number = old.number
      /\ call.raced = old.raced
  BY DEF Request
<1>4. call \in Request
  <2>1. PICK n \in Nat : n = old.stored + 1
    BY <1>2
  <2>2. [old EXCEPT !.stored = n] \in Request
    BY CountersOK
  <2>3. QED
    BY <2>1, <2>2
<1> DEFINE others == [q \in Requests |-> [req[q] EXCEPT !.raced = (req[q].pc = "insert")]]
<1>5. /\ RepoCreateItem(i, call) /\ UNCHANGED <<category, served>>
      /\ \/ req' = [others EXCEPT ![r] = Inserted(call)]
         \/ req' = [others EXCEPT ![r] = Rejected(call)]
  BY <1>1 DEF InsertItem
<1> HIDE DEF call
<1>6. PICK new \in Request :
         /\ req' = [others EXCEPT ![r] = new]
         /\ new = NoRequest \/ new = RowCreated(call) \/ new = RowFailed(call)
  BY <1>4, <1>5, OverOK, RowsOK DEF Inserted, Rejected, TellsRow
<1>7. Counted(call)
  BY <1>1, <1>3 DEF Counted
<1>8. /\ item' \in [Items -> ItemRow] /\ Numbered'
      /\ \A p \in Prefixes : Like[p] <= Like'[p]
  BY <1>1, <1>3, <1>4, <1>5, <1>7, CreateItemKeeps DEF IInv
<1>9. Told(new) /\ new.pc # "insert" /\ new.pc # "category" /\ new.pc # "prefix" /\ Listed(new)
  <2>1. CASE new = NoRequest
    BY <2>1, OverOK, NoRequestOK DEF Informed
  <2>2. CASE new = RowCreated(call)
    <3>1. /\ TellsRow(call, new) /\ new.created = call.created + 1
          /\ new.skipped = call.skipped /\ new.errors = call.errors
      BY <1>4, <2>2, RowsOK
    <3>2. /\ old.created \in Nat /\ old.skipped \in Nat /\ old.errors \in Nat
          /\ old.rows \in Nat
      BY DEF Request
    <3>3. Told(new)
      BY <1>1, <1>2, <1>3, <3>1, <3>2 DEF TellsRow, Told
    <3>4. QED
      BY <1>1, <1>3, <3>1, <3>3 DEF TellsRow, Listed
  <2>3. CASE new = RowFailed(call)
    <3>1. /\ TellsRow(call, new) /\ new.created = call.created
          /\ new.skipped = call.skipped /\ new.errors = call.errors + 1
      BY <1>4, <2>3, RowsOK
    <3>2. /\ old.created \in Nat /\ old.skipped \in Nat /\ old.errors \in Nat
          /\ old.rows \in Nat
      BY DEF Request
    <3>3. Told(new)
      BY <1>1, <1>2, <1>3, <3>1, <3>2 DEF TellsRow, Told
    <3>4. QED
      BY <1>1, <1>3, <3>1, <3>3 DEF TellsRow, Listed
  <2>4. QED
    BY <1>6, <2>1, <2>2, <2>3
<1>10. /\ req'[r] = new
       /\ \A q \in Requests \ {r} : req'[q] = [req[q] EXCEPT !.raced = (req[q].pc = "insert")]
       /\ req' = [q \in Requests |-> req'[q]]
  BY <1>6
<1>11. ASSUME NEW q \in Requests
       PROVE  req'[q] \in Request /\ Told(req[q])' /\ Counted(req[q])' /\ Informed(req[q])'
  <2>1. CASE q = r
    BY <1>5, <1>9, <1>10, <2>1 DEF Told, Counted, Informed, Listed
  <2>2. CASE q # r
    <3>1. PICK other \in Request :
             other = req[q] /\ Told(other) /\ Counted(other) /\ Informed(other)
      BY DEF IInv, TypeOK
    <3>2. PICK then : then = [other EXCEPT !.raced = (other.pc = "insert")]
      OBVIOUS
    <3>3. then \in Request /\ Counted(then)' /\ Told(then) /\ Informed(then)
      BY <1>8, <3>1, <3>2, RaceKeeps
    <3>4. req'[q] = then
      BY <1>10, <2>2, <3>1, <3>2
    <3>5. QED
      BY <1>5, <3>3, <3>4 DEF Told, Counted, Informed, Listed
  <2>3. QED
    BY <2>1, <2>2
<1>12. req' \in [Requests -> Request]
  BY <1>10, <1>11
<1>13. TypeOK' /\ Named'
  BY <1>5, <1>8, <1>12 DEF IInv, TypeOK, Named
<1>14. QED
  BY <1>8, <1>11, <1>13 DEF IInv

LEMMA UploadPhotoStep ==
    ASSUME IInv, NEW r \in Requests, NEW i \in Items, UploadPhoto(r, i)
    PROVE  IInv'
<1>1. /\ served < MaxServed /\ served' = served + 1 /\ UNCHANGED <<category, item>>
      /\ Continue(r, [Call("photo") EXCEPT !.item = i], "photo") \/ Finish(r)
  BY DEF UploadPhoto, Arrive
<1>2. CASE Continue(r, [Call("photo") EXCEPT !.item = i], "photo")
  <2> DEFINE base == Call("photo")
             call == [base EXCEPT !.item = i]
  <2>1. /\ base \in Request /\ base.listed = {}
        /\ base.created = 0 /\ base.skipped = 0 /\ base.errors = 0
        /\ base.rows = 0 /\ base.stored = 0
    BY CallOK
  <2>2. Continue(r, call, "photo")
    BY <1>2
  <2> HIDE DEF base
  <2>3. /\ call.listed = {} /\ call.created = 0 /\ call.skipped = 0 /\ call.errors = 0
        /\ call.rows = 0 /\ call.stored = 0
    BY <2>1 DEF Request
  <2>4. call \in Request
    BY <2>1, EditOK
  <2> HIDE DEF call
  <2>5. Told(call) /\ Listed(call)
    BY <2>3 DEF Told, Listed
  <2>6. QED
    BY <1>1, <2>2, <2>4, <2>5, ContinueStep
<1>3. CASE Finish(r)
  BY <1>1, <1>3, FinishStep
<1>4. QED
  BY <1>1, <1>2, <1>3

LEMMA WriteItemStep ==
    ASSUME IInv, NEW r \in Requests, WritePhoto(r) \/ \E i \in Items : DisposeItem(r, i)
    PROVE  IInv'
<1>1. /\ UNCHANGED category /\ Finish(r)
      /\ served' = served \/ (served < MaxServed /\ served' = served + 1)
  BY DEF WritePhoto, DisposeItem, Arrive
<1>2. item' \in [Items -> ItemRow] /\ ItemsAlike
  <2>1. CASE WritePhoto(r)
    <3>1. PICK i : \/ item' = [item EXCEPT ![i].photo = TRUE]
                   \/ UNCHANGED item
      BY <2>1 DEF WritePhoto, RepoUpdateItemPhotoURL
    <3>2. CASE i \in Items /\ item' = [item EXCEPT ![i].photo = TRUE]
      BY <3>2 DEF IInv, TypeOK, ItemRow, ItemsAlike
    <3>3. CASE i \notin Items \/ UNCHANGED item
      <4>1. item' = item
        BY <3>1, <3>3 DEF IInv, TypeOK
      <4>2. QED
        BY <4>1 DEF IInv, TypeOK, ItemsAlike
    <3>4. QED
      BY <3>1, <3>2, <3>3
  <2>2. ASSUME NEW i \in Items, DisposeItem(r, i)
        PROVE  item' \in [Items -> ItemRow] /\ ItemsAlike
    BY <2>2 DEF DisposeItem, IInv, TypeOK, ItemRow, ItemsAlike
  <2>3. QED
    BY <2>1, <2>2
<1>3. /\ category' \in [Categories -> CategoryRow] /\ CategoriesForward /\ Named'
      /\ served' \in 0..MaxServed
  BY <1>1, ParametersOK DEF IInv, TypeOK, CategoriesForward, Named
<1>4. QED
  BY <1>1, <1>2, <1>3, OverOK, SlotFrame DEF Finish

-----------------------------------------------------------------------------
(* Imports.                                                                *)

LEMMA ImportItemsStep ==
    ASSUME IInv, NEW r \in Requests, ImportItems(r)
    PROVE  IInv'
<1>1. PICK known \in Listings :
         Continue(r, [Call("import") EXCEPT !.known = known, !.listed = Listable], "rows")
  BY DEF ImportItems
<1> DEFINE base == Call("import")
           one == [base EXCEPT !.known = known]
           call == [one EXCEPT !.listed = Listable]
<1>2. /\ base \in Request /\ base.created = 0 /\ base.skipped = 0 /\ base.errors = 0
      /\ base.rows = 0 /\ base.stored = 0
  BY CallOK
<1>3. /\ UNCHANGED <<category, item>> /\ served < MaxServed /\ served' = served + 1
      /\ Continue(r, call, "rows")
  BY <1>1 DEF ImportItems, Arrive
<1> HIDE DEF base
<1>4. /\ call.listed = Listable /\ call.known = known
      /\ call.created = 0 /\ call.skipped = 0 /\ call.errors = 0
      /\ call.rows = 0 /\ call.stored = 0
  BY <1>2 DEF Request
<1>5. /\ known \in [Keys -> Categories \cup {None}] /\ Listable \in SUBSET Categories
      /\ \A l \in Keys :
            known[l] \in IF {k \in Listable : Key[category[k].name] = l} = {} THEN {None}
                         ELSE {k \in Listable : Key[category[k].name] = l}
  BY DEF Listings, Listable
<1>6. one \in Request
  BY <1>2, <1>5, EditOK
<1> HIDE DEF one
<1>7. call \in Request
  BY <1>5, <1>6, EditOK
<1> HIDE DEF call
<1>8. Listed(call)
  <2>1. SUFFICES ASSUME NEW k \in Listable
                 PROVE  /\ category[k].state # "absent" /\ known[Key[category[k].name]] # None
    BY <1>4 DEF Listed
  <2>2. k \in Categories /\ category[k].state = "stored" /\ category[k].name \in Names
    BY DEF IInv, Named, Listable, OwnCategory
  <2>3. Key[category[k].name] \in Keys
    BY <2>2, ParametersOK
  <2>4. known[Key[category[k].name]] \in {m \in Listable : Key[category[m].name] = Key[category[k].name]}
    BY <1>5, <2>3
  <2>5. QED
    BY <1>5, <2>2, <2>4, NoneIsNew
<1>9. Told(call)
  BY <1>4 DEF Told
<1>10. QED
  BY <1>3, <1>7, <1>8, <1>9, ContinueStep

LEMMA TellRowStep ==
    ASSUME IInv, NEW r \in Requests, PassOver(r) \/ FailRow(r)
    PROVE  IInv'
<1>1. UNCHANGED <<category, item, served>>
  BY DEF PassOver, FailRow
<1>2. PICK new : /\ req' = [req EXCEPT ![r] = new]
                 /\ \/ new = [NextRow(req[r]) EXCEPT !.skipped = @ + 1]
                    \/ new = RowFailed(req[r])
  BY DEF PassOver, FailRow
<1>3. PICK call \in Request : call = req[r] /\ Told(call) /\ Informed(call)
  BY UnderWay
<1>4. new \in Request /\ Told(new) /\ Counted(new) /\ Informed(new)
  BY <1>2, <1>3, TellsOK
<1>5. QED
  BY <1>1, <1>2, <1>4, QuietStep

LEMMA TakeRowStep ==
    ASSUME IInv, NEW r \in Requests, NEW row \in SheetRows, TakeRow(r, row)
    PROVE  IInv'
<1>1. PICK old \in Request : old = req[r] /\ Told(old) /\ Listed(old)
  BY UnderWay
<1>2. /\ row.name \in Names \cup {None} /\ row.auto \in BOOLEAN
      /\ row.number \in Numbers \cup {None}
  BY ParametersOK
<1> DEFINE one == [old EXCEPT !.name = row.name]
           two == [one EXCEPT !.auto = row.auto]
           call == [two EXCEPT !.number = row.number]
           matches == Match(Key[row.name], call.known)
<1>3. /\ UNCHANGED <<category, item, served>>
      /\ \/ Continue(r, call, Numbering(call))
         \/ row.name # None /\ \E l \in matches :
               LET found == [call EXCEPT !.category = call.known[l]] IN
               Continue(r, found, Numbering(found))
         \/ row.name # None /\ matches = {} /\ Continue(r, call, "category")
  BY <1>1 DEF TakeRow
<1>4. /\ call.created = old.created /\ call.skipped = old.skipped
      /\ call.errors = old.errors /\ call.rows = old.rows /\ call.stored = old.stored
      /\ call.listed = old.listed /\ call.known = old.known /\ call.name = row.name
  BY <1>1 DEF Request
<1>5. one \in Request
  BY <1>2, EditOK
<1> HIDE DEF one
<1>6. two \in Request
  BY <1>2, <1>5, EditOK
<1> HIDE DEF two
<1>7. call \in Request
  BY <1>2, <1>6, EditOK
<1> HIDE DEF call
<1>8. Told(call) /\ Listed(call)
  BY <1>1, <1>4 DEF Told, Listed
<1>9. CASE Continue(r, call, Numbering(call))
  <2>1. PICK pc : pc = Numbering(call)
    OBVIOUS
  <2>2. /\ pc \in {"insert", "count", "prefix"} /\ Continue(r, call, pc)
        /\ pc = "insert" => Ready(call)
        /\ pc = "prefix" => call.category \in Categories
    BY <1>7, <1>9, <2>1, NumberingOK
  <2>3. QED
    BY <1>3, <1>7, <1>8, <2>2, ContinueStep
<1>10. ASSUME row.name # None, NEW l \in matches, NEW found, found = [call EXCEPT !.category = call.known[l]],
              Continue(r, found, Numbering(found))
       PROVE  IInv'
  <2>1. call.known[l] \in Categories \cup {None}
    <3>1. l \in Keys \/ (l = Key[row.name] /\ call.known[l] # None)
      BY DEF Match, FuzzyMatch, KnownKeys
    <3>2. Key[row.name] \in Keys
      BY <1>2, <1>10, ParametersOK
    <3>3. QED
      BY <1>7, <3>1, <3>2 DEF Request
  <2>2. found \in Request
    BY <1>7, <1>10, <2>1, EditOK
  <2>3. /\ found.created = call.created /\ found.skipped = call.skipped
        /\ found.errors = call.errors /\ found.rows = call.rows /\ found.stored = call.stored
        /\ found.listed = call.listed /\ found.known = call.known
    BY <1>7, <1>10 DEF Request
  <2>4. Told(found) /\ Listed(found)
    BY <1>8, <2>3 DEF Told, Listed
  <2>5. PICK pc : pc = Numbering(found)
    OBVIOUS
  <2>6. /\ pc \in {"insert", "count", "prefix"} /\ Continue(r, found, pc)
        /\ pc = "insert" => Ready(found)
        /\ pc = "prefix" => found.category \in Categories
    BY <1>10, <2>2, <2>5, NumberingOK
  <2>7. QED
    BY <1>3, <2>2, <2>4, <2>6, ContinueStep
<1>11. CASE row.name # None /\ matches = {} /\ Continue(r, call, "category")
  BY <1>2, <1>3, <1>4, <1>7, <1>8, <1>11, ContinueStep
<1>12. QED
  BY <1>3, <1>9, <1>10, <1>11

\* An import makes a category and remembers it.
LEMMA ResolveCategoryStep ==
    ASSUME IInv, NEW r \in Requests, NEW k \in Categories, ResolveCategory(r, k)
    PROVE  IInv'
<1>1. PICK old \in Request :
         /\ old = req[r] /\ Told(old) /\ Informed(old) /\ Listed(old) /\ old.name \in Names
  BY UnderWay DEF Informed, ResolveCategory
<1>2. PICK key \in Keys : key = Key[old.name]
  BY <1>1, ParametersOK
<1>3. PICK L \in SUBSET Categories : L = old.listed \cup {k}
  BY DEF Request
<1>4. PICK known \in [Keys -> Categories \cup {None}] : known = [old.known EXCEPT ![key] = k]
  BY DEF Request
<1> DEFINE one == [old EXCEPT !.category = k]
           two == [one EXCEPT !.listed = L]
           made == [two EXCEPT !.known = known]
<1>5. /\ UNCHANGED <<item, served>>
      /\ \/ RepoCreateCategory(k, old.name) /\ Continue(r, Remember(old, k), Numbering(Remember(old, k)))
         \/ req' = [req EXCEPT ![r] = RowFailed(old)] /\ UNCHANGED category
  BY <1>1 DEF ResolveCategory
<1>6. Remember(old, k) = made
  <2>1. Remember(old, k) = [[[old EXCEPT !.category = k] EXCEPT !.listed = @ \cup {k}]
                               EXCEPT !.known = [old.known EXCEPT ![Key[old.name]] = k]]
    BY DEF Remember, Request
  <2>2. QED
    BY <1>2, <1>3, <1>4, <2>1 DEF Request
<1>7. /\ made.created = old.created /\ made.skipped = old.skipped
      /\ made.errors = old.errors /\ made.rows = old.rows /\ made.stored = old.stored
      /\ made.listed = L /\ made.known = known
  BY DEF Request
<1>8. one \in Request
  BY EditOK
<1> HIDE DEF one
<1>9. two \in Request
  BY <1>8, EditOK
<1> HIDE DEF two
<1>10. made \in Request
  BY <1>9, EditOK
<1> HIDE DEF made
<1>11. CASE RepoCreateCategory(k, old.name) /\ Continue(r, made, Numbering(made))
  <2>1. category' \in [Categories -> CategoryRow] /\ Named' /\ CategoriesForward
    BY <1>1, <1>11, CategoryKeeps DEF IInv
  <2>2. item' \in [Items -> ItemRow] /\ ItemsAlike /\ served' \in 0..MaxServed
    BY <1>5, ParametersOK DEF IInv, TypeOK, ItemsAlike
  <2>3. Told(made)
    BY <1>1, <1>7 DEF Told
  <2>4. PICK pc : pc = Numbering(made)
    OBVIOUS
  <2>5. /\ pc \in {"insert", "count", "prefix"} /\ Continue(r, made, pc)
        /\ pc = "insert" => Ready(made)
        /\ pc = "prefix" => made.category \in Categories
    BY <1>10, <1>11, <2>4, NumberingOK
  <2>6. PICK new \in Request :
           /\ req' = [req EXCEPT ![r] = new]
           /\ Told(new) /\ Counted(new) /\ new.pc = pc
           /\ new.listed = made.listed /\ new.known = made.known
           /\ new.name = made.name /\ new.category = made.category
    BY <1>10, <2>3, <2>5, ContinueOK
  <2>7. /\ category'[k].state = "stored" /\ category'[k].name = old.name
        /\ category[k].state = "absent"
        /\ \A l \in Categories \ {k} : category'[l] = category[l]
    BY <1>11 DEF RepoCreateCategory, IInv, TypeOK
  <2>8. Listed(new)'
    <3>1. SUFFICES ASSUME NEW l \in L
                   PROVE  /\ category'[l].state # "absent"
                          /\ category'[l].state = "stored" => known[Key[category'[l].name]] # None
      BY <1>7, <2>6 DEF Listed
    <3>2. k # None /\ \A m \in Keys : old.known[m] # None => known[m] # None
      BY <1>4, NoneIsNew DEF Request
    <3>3. CASE l = k
      BY <1>2, <1>4, <2>7, <3>2, <3>3 DEF Request
    <3>4. CASE l # k
      <4>1. l \in old.listed /\ l \in Categories /\ category'[l] = category[l]
        BY <1>3, <2>7, <3>4
      <4>2. category[l].state = "stored" =>
               old.known[Key[category[l].name]] # None /\ Key[category[l].name] \in Keys
        BY <1>1, <4>1, ParametersOK DEF Listed, IInv, Named
      <4>3. category[l].state # "absent"
        BY <1>1, <4>1 DEF Listed
      <4>4. QED
        BY <3>2, <4>1, <4>2, <4>3
    <3>5. QED
      BY <3>3, <3>4
  <2>9. Informed(new)'
    BY <2>5, <2>6, <2>8 DEF Informed
  <2>10. QED
    BY <2>1, <2>2, <2>6, <2>9, SlotFrame
<1>12. CASE req' = [req EXCEPT ![r] = RowFailed(old)] /\ UNCHANGED category
  <2>1. PICK new : new = RowFailed(old)
    OBVIOUS
  <2>2. new \in Request /\ Told(new) /\ Counted(new) /\ Informed(new)
    BY <1>1, <2>1, TellsOK
  <2>3. QED
    BY <1>5, <1>12, <2>1, <2>2, QuietStep
<1>13. QED
  BY <1>5, <1>6, <1>11, <1>12

-----------------------------------------------------------------------------
(* The invariant is inductive.                                             *)

LEMMA Initially ==
    ASSUME Init
    PROVE  IInv
<1>1. TypeOK
  BY ParametersOK, OverOK DEF Init, TypeOK, NoCategory, CategoryRow, NoItem, ItemRow
<1>2. Named /\ Numbered
  BY DEF Init, Named, Numbered, NoCategory, NoItem, Stored
<1>3. \A r \in Requests : req[r] = NoRequest
  BY DEF Init
<1>4. QED
  BY <1>1, <1>2, <1>3, OverOK DEF IInv

LEMMA NextStep ==
    ASSUME IInv, [Next]_vars
    PROVE  IInv'
<1>1. CASE UNCHANGED vars
  <2>1. UNCHANGED <<category, item>> /\ UNCHANGED req /\ UNCHANGED served
    BY <1>1 DEF vars
  <2>2. TypeOK'
    BY <2>1 DEF IInv, TypeOK
  <2>3. Named' /\ ItemsAlike
    BY <2>1 DEF IInv, Named, ItemsAlike
  <2>4. Numbered'
    BY <2>3, AlikeKeeps DEF IInv
  <2>5. ASSUME NEW q \in Requests
        PROVE  Told(req[q])' /\ Counted(req[q])' /\ Informed(req[q])'
    <3>1. PICK call \in Request : call = req[q] /\ Told(call) /\ Counted(call) /\ Informed(call)
      BY UnderWay
    <3>2. Counted(call)' /\ Informed(call)'
      BY <2>1, <2>3, <3>1, AlikeKeeps DEF Informed, Listed
    <3>3. req'[q] = call
      BY <2>1, <3>1
    <3>4. QED
      BY <3>1, <3>2, <3>3 DEF Told, Counted, Informed, Listed
  <2>6. QED
    BY <2>2, <2>3, <2>4, <2>5 DEF IInv
<1>2. ASSUME NEW r \in Requests, CategoryPages(r)
      PROVE  IInv'
  <2>1. CASE \E k \in Categories, n \in Names : CreateCategory(r, k, n) \/ UpdateCategory(r, k, n)
    BY <2>1, CategoryStep, UpdateCategoryStep
  <2>2. CASE \E k \in Categories : DeleteCategory(r, k)
    BY <2>2, CategoryStep
  <2>3. QED
    BY <1>2, <2>1, <2>2 DEF CategoryPages
<1>3. ASSUME NEW r \in Requests, ItemPages(r)
      PROVE  IInv'
  BY <1>3, CreateItemStep, UploadPhotoStep, InsertItemStep, WriteItemStep, ReadPrefixStep,
     CountStep, InsertRefusedStep DEF ItemPages
<1>4. ASSUME NEW r \in Requests, Import(r)
      PROVE  IInv'
  <2>1. CASE EndImport(r)
    BY <2>1, FinishStep DEF EndImport
  <2>2. QED
    BY <1>4, <2>1, TakeRowStep, ResolveCategoryStep, ImportItemsStep, TellRowStep DEF Import
<1>5. ASSUME NEW r \in Requests, Abort(r)
      PROVE  IInv'
  BY <1>5, FinishStep DEF Abort
<1>6. QED
  BY <1>1, <1>2, <1>3, <1>4, <1>5 DEF Next

-----------------------------------------------------------------------------
(* The guess of a category.                                                *)

\* The category of a row is one that its name is matched with, and a row that
\* has none yet has a name that is matched with none.
Matched(call) ==
    call.name # None =>
        /\ call.category = None => Match(Key[call.name], call.known) = {}
        /\ call.category # None =>
              \E l \in Match(Key[call.name], call.known) : call.known[l] = call.category

\* Between two rows of a sheet nothing is left of the first.
Cleared(call) == call.pc = "rows" => call.category = None /\ call.name = None

AllMatched == \A r \in Requests : Matched(req[r]) /\ Cleared(req[r])

\* A request goes on with the row it has.
SameRow(old, new) ==
    /\ new.name = old.name /\ new.category = old.category /\ new.known = old.known
    /\ new.pc = "rows" => old.pc = "rows"

LEMMA SameRowOK ==
    ASSUME NEW old, NEW new, SameRow(old, new), Matched(old), Cleared(old)
    PROVE  Matched(new) /\ Cleared(new)
BY DEF SameRow, Matched, Cleared

LEMMA MatchedSlot ==
    ASSUME IInv, AllMatched, NEW r \in Requests, NEW new, req' = [req EXCEPT ![r] = new],
           Matched(new), Cleared(new)
    PROVE  AllMatched'
<1>1. ASSUME NEW q \in Requests
      PROVE  req'[q] = new \/ req'[q] = req[q]
  BY DEF IInv, TypeOK
<1>2. ASSUME NEW q \in Requests
      PROVE  Matched(req'[q]) /\ Cleared(req'[q])
  BY <1>1 DEF AllMatched
<1>3. QED
  BY <1>2 DEF AllMatched, Matched, Cleared

\* A request that is over, or between two rows.
LEMMA BlankOK ==
    /\ Matched(NoRequest) /\ Cleared(NoRequest)
    /\ \A call \in Request :
          /\ Matched(RowCreated(call)) /\ Cleared(RowCreated(call))
          /\ Matched(RowFailed(call)) /\ Cleared(RowFailed(call))
          /\ LET new == [NextRow(call) EXCEPT !.skipped = @ + 1] IN Matched(new) /\ Cleared(new)
<1>1. NoRequest.name = None /\ NoRequest.category = None
  BY DEF NoRequest
<1>2. ASSUME NEW call \in Request
      PROVE  /\ RowCreated(call).name = None /\ RowCreated(call).category = None
             /\ RowFailed(call).name = None /\ RowFailed(call).category = None
             /\ [NextRow(call) EXCEPT !.skipped = @ + 1].name = None
             /\ [NextRow(call) EXCEPT !.skipped = @ + 1].category = None
  <2>1. PICK next \in Request : next = NextRow(call)
    BY NextRowOK
  <2>2. next.name = None /\ next.category = None
    BY <2>1 DEF NextRow, Request
  <2>3. /\ [next EXCEPT !.created = @ + 1].name = None
        /\ [next EXCEPT !.created = @ + 1].category = None
        /\ [next EXCEPT !.errors = @ + 1].name = None
        /\ [next EXCEPT !.errors = @ + 1].category = None
        /\ [next EXCEPT !.skipped = @ + 1].name = None
        /\ [next EXCEPT !.skipped = @ + 1].category = None
    BY <2>2 DEF Request
  <2>4. QED
    BY <2>1, <2>3 DEF RowCreated, RowFailed
<1>3. \A call : call.name = None /\ call.category = None => Matched(call) /\ Cleared(call)
  BY DEF Matched, Cleared
<1>4. QED
  BY <1>1, <1>2, <1>3

LEMMA MatchedFinish ==
    ASSUME IInv, AllMatched, NEW r \in Requests, Finish(r)
    PROVE  AllMatched'
BY BlankOK, MatchedSlot DEF Finish

LEMMA MatchedContinue ==
    ASSUME IInv, AllMatched, NEW r \in Requests, NEW call \in Request, NEW pc,
           Continue(r, call, pc), Matched(call), pc = "rows" => call.category = None /\ call.name = None
    PROVE  AllMatched'
<1>1. PICK new : new = [call EXCEPT !.pc = pc]
  OBVIOUS
<1>2. /\ new.pc = pc /\ new.name = call.name /\ new.category = call.category
      /\ new.known = call.known
  BY <1>1 DEF Request
<1>3. Matched(new) /\ Cleared(new)
  BY <1>2 DEF Matched, Cleared
<1>4. QED
  BY <1>1, <1>3, MatchedSlot DEF Continue

\* Every request keeps its row but for one, which is new.
LEMMA MatchedFrame ==
    ASSUME IInv, AllMatched, NEW r \in Requests, NEW new, Matched(new), Cleared(new),
           req'[r] = new, \A q \in Requests \ {r} : SameRow(req[q], req'[q])
    PROVE  AllMatched'
<1>1. ASSUME NEW q \in Requests
      PROVE  Matched(req'[q]) /\ Cleared(req'[q])
  <2>1. CASE q = r
    BY <2>1
  <2>2. CASE q # r
    <3>1. PICK old : old = req[q] /\ Matched(old) /\ Cleared(old)
      BY DEF AllMatched
    <3>2. PICK then : then = req'[q]
      OBVIOUS
    <3>3. SameRow(old, then)
      BY <2>2, <3>1, <3>2
    <3>4. QED
      BY <3>1, <3>2, <3>3, SameRowOK
  <2>3. QED
    BY <2>1, <2>2
<1>2. QED
  BY <1>1 DEF AllMatched, Matched, Cleared

LEMMA MatchedUpdateCategory ==
    ASSUME IInv, AllMatched, NEW r \in Requests, NEW k \in Categories, NEW n \in Names,
           UpdateCategory(r, k, n)
    PROVE  AllMatched'
<1> DEFINE unlisted == [q \in Requests |-> [req[q] EXCEPT !.listed = @ \ {k}]]
<1>1. req' = [unlisted EXCEPT ![r] = NoRequest] \/ Finish(r)
  BY DEF UpdateCategory
<1>2. CASE req' = [unlisted EXCEPT ![r] = NoRequest]
  <2>1. /\ req'[r] = NoRequest
        /\ \A q \in Requests \ {r} : req'[q] = [req[q] EXCEPT !.listed = @ \ {k}]
    BY <1>2
  <2>2. ASSUME NEW q \in Requests \ {r}
        PROVE  SameRow(req[q], req'[q])
    <3>1. PICK old \in Request : old = req[q]
      BY UnderWay
    <3>2. PICK new : new = [old EXCEPT !.listed = @ \ {k}]
      OBVIOUS
    <3>3. SameRow(old, new)
      BY <3>2 DEF SameRow, Request
    <3>4. req'[q] = new
      BY <2>1, <3>1, <3>2
    <3>5. QED
      BY <3>1, <3>3, <3>4
  <2>3. QED
    BY <2>1, <2>2, BlankOK, MatchedFrame
<1>3. QED
  BY <1>1, <1>2, MatchedFinish

LEMMA MatchedInsertItem ==
    ASSUME IInv, AllMatched, NEW r \in Requests, NEW i \in Items, InsertItem(r, i)
    PROVE  AllMatched'
<1> DEFINE others == [q \in Requests |-> [req[q] EXCEPT !.raced = (req[q].pc = "insert")]]
<1>1. PICK call : /\ call = [req[r] EXCEPT !.stored = @ + 1]
                  /\ \/ req' = [others EXCEPT ![r] = Inserted(call)]
                     \/ req' = [others EXCEPT ![r] = Rejected(call)]
  BY DEF InsertItem
<1>2. call \in Request
  <2>1. PICK old \in Request : old = req[r]
    BY UnderWay
  <2>2. PICK n \in Nat : n = old.stored + 1
    BY DEF Request
  <2>3. [old EXCEPT !.stored = n] \in Request
    BY CountersOK
  <2>4. QED
    BY <1>1, <2>1, <2>2, <2>3
<1>3. PICK new : /\ req' = [others EXCEPT ![r] = new]
                 /\ new = NoRequest \/ new = RowCreated(call) \/ new = RowFailed(call)
  BY <1>1 DEF Inserted, Rejected
<1>4. Matched(new) /\ Cleared(new)
  BY <1>2, <1>3, BlankOK
<1>5. /\ req'[r] = new
      /\ \A q \in Requests \ {r} : req'[q] = [req[q] EXCEPT !.raced = (req[q].pc = "insert")]
  BY <1>3
<1>6. ASSUME NEW q \in Requests \ {r}
      PROVE  SameRow(req[q], req'[q])
  <2>1. PICK raced : raced = (req[q].pc = "insert")
    OBVIOUS
  <2>2. req'[q] = [req[q] EXCEPT !.raced = raced]
    BY <1>5, <2>1
  <2>3. QED
    BY <2>2 DEF SameRow, IInv, TypeOK, Request
<1>7. QED
  BY <1>4, <1>5, <1>6, MatchedFrame

LEMMA MatchedItemPages ==
    ASSUME IInv, AllMatched, NEW r \in Requests, ItemPages(r)
    PROVE  AllMatched'
<1>1. ASSUME NEW k \in Categories \cup {None}, NEW auto \in BOOLEAN,
             NEW number \in HandNumbers \cup {None}, CreateItem(r, k, auto, number)
      PROVE  AllMatched'
  <2>1. PICK call : /\ call = [Call("create") EXCEPT !.category = k, !.auto = auto, !.number = number]
                    /\ Continue(r, call, Numbering(call))
    BY <1>1 DEF CreateItem
  <2>2. PICK base \in Request : base = Call("create")
    BY CallOK
  <2>3. base.name = None
    BY <2>2 DEF Call, NoRequest
  <2>4. call \in Request /\ call.name = None
    <3>1. number \in Numbers \cup {None}
      BY ParametersOK
    <3> DEFINE one == [base EXCEPT !.category = k]
               two == [one EXCEPT !.auto = auto]
               three == [two EXCEPT !.number = number]
    <3>2. call = three
      BY <2>1, <2>2 DEF Request
    <3>3. three.name = None
      BY <2>3 DEF Request
    <3>4. one \in Request
      BY EditOK
    <3> HIDE DEF one
    <3>5. two \in Request
      BY <3>4, EditOK
    <3> HIDE DEF two
    <3>6. three \in Request
      BY <3>1, <3>5, EditOK
    <3>7. QED
      BY <3>2, <3>3, <3>6
  <2>5. PICK pc : pc = Numbering(call) /\ pc # "rows"
    BY DEF Numbering
  <2>6. Matched(call)
    BY <2>4 DEF Matched
  <2>7. QED
    BY <2>1, <2>4, <2>5, <2>6, MatchedContinue
<1>2. ASSUME NEW i \in Items, UploadPhoto(r, i)
      PROVE  AllMatched'
  <2>1. CASE Finish(r)
    BY <2>1, MatchedFinish
  <2>2. CASE Continue(r, [Call("photo") EXCEPT !.item = i], "photo")
    <3>1. PICK base \in Request : base = Call("photo")
      BY CallOK
    <3>2. base.name = None
      BY <3>1 DEF Call, NoRequest
    <3>3. PICK call : call = [base EXCEPT !.item = i]
      OBVIOUS
    <3>4. call \in Request /\ call.name = None
      BY <3>2, <3>3 DEF Request
    <3>5. Matched(call) /\ Continue(r, call, "photo")
      BY <2>2, <3>1, <3>3, <3>4 DEF Matched
    <3>6. QED
      BY <3>4, <3>5, MatchedContinue
  <2>3. QED
    BY <1>2, <2>1, <2>2 DEF UploadPhoto
<1>3. ASSUME NEW p \in Prefixes, Continue(r, [req[r] EXCEPT !.prefix = p], "count")
      PROVE  AllMatched'
  <2>1. PICK old \in Request : old = req[r] /\ Matched(old)
    BY UnderWay DEF AllMatched
  <2>2. PICK call : call = [old EXCEPT !.prefix = p]
    OBVIOUS
  <2>3. /\ call \in Request /\ call.name = old.name /\ call.category = old.category
        /\ call.known = old.known
    BY <2>2 DEF Request
  <2>4. Matched(call)
    BY <2>1, <2>3 DEF Matched
  <2>5. Continue(r, call, "count")
    BY <1>3, <2>1, <2>2
  <2>6. QED
    BY <2>3, <2>4, <2>5, MatchedContinue
<1>4. CASE ReadPrefix(r)
  <2>1. req[r].category \in Categories
    BY <1>4, UnderWay DEF Informed, ReadPrefix
  <2>2. PICK p \in Prefixes : Continue(r, [req[r] EXCEPT !.prefix = p], "count")
    BY <1>4, <2>1, ParametersOK DEF IInv, Named, OwnCategory, ReadPrefix
  <2>3. QED
    BY <1>3, <2>2
<1>5. CASE Count(r)
  <2>1. PICK old \in Request : old = req[r] /\ Matched(old) /\ old.prefix \in Prefixes
    BY UnderWay DEF AllMatched, Request
  <2>2. PICK next \in Nat : next = NextNumber(old.prefix)
    BY CountType DEF NextNumber
  <2>3. PICK number \in Numbers : number = <<old.prefix, next>>
    BY <2>1 DEF Numbers
  <2>4. PICK call : call = [old EXCEPT !.number = number, !.raced = FALSE]
    OBVIOUS
  <2>5. /\ call \in Request /\ call.name = old.name /\ call.category = old.category
        /\ call.known = old.known
    BY <2>4 DEF Request
  <2>6. Matched(call)
    BY <2>1, <2>5 DEF Matched
  <2>7. Continue(r, call, "insert")
    BY <1>5, <2>1, <2>2, <2>3, <2>4 DEF Count
  <2>8. QED
    BY <2>5, <2>6, <2>7, MatchedContinue
<1>6. CASE InsertRefused(r)
  <2>1. PICK call \in Request : call = req[r]
    BY UnderWay
  <2>2. req' = [req EXCEPT ![r] = Rejected(call)]
    BY <1>6, <2>1 DEF InsertRefused
  <2>3. Matched(Rejected(call)) /\ Cleared(Rejected(call))
    BY BlankOK DEF Rejected
  <2>4. QED
    BY <2>2, <2>3, MatchedSlot
<1>7. CASE WritePhoto(r) \/ \E i \in Items : DisposeItem(r, i)
  BY <1>7, MatchedFinish DEF WritePhoto, DisposeItem
<1>8. QED
  BY <1>1, <1>2, <1>4, <1>5, <1>6, <1>7, MatchedInsertItem DEF ItemPages

LEMMA MatchedTakeRow ==
    ASSUME IInv, AllMatched, NEW r \in Requests, NEW row \in SheetRows, TakeRow(r, row)
    PROVE  AllMatched'
<1>1. PICK old \in Request : old = req[r] /\ old.category = None
  <2>1. req[r] \in Request /\ Cleared(req[r])
    BY UnderWay DEF AllMatched
  <2>2. req[r].pc = "rows"
    <3>1. PICK call : call = [req[r] EXCEPT !.name = row.name, !.auto = row.auto, !.number = row.number]
      OBVIOUS
    <3>2. call.pc = "rows"
      BY <3>1 DEF TakeRow
    <3>3. QED
      BY <2>1, <3>1, <3>2 DEF Request
  <2>3. QED
    BY <2>1, <2>2 DEF Cleared
<1>2. /\ row.name \in Names \cup {None} /\ row.auto \in BOOLEAN
      /\ row.number \in Numbers \cup {None}
  BY ParametersOK
<1>3. PICK call : call = [old EXCEPT !.name = row.name, !.auto = row.auto, !.number = row.number]
  OBVIOUS
<1>4. call \in Request /\ call.name = row.name /\ call.category = None
  <2> DEFINE one == [old EXCEPT !.name = row.name]
             two == [one EXCEPT !.auto = row.auto]
             three == [two EXCEPT !.number = row.number]
  <2>1. call = three
    BY <1>3 DEF Request
  <2>2. three.name = row.name /\ three.category = None
    BY <1>1 DEF Request
  <2>3. one \in Request
    BY <1>2, EditOK
  <2> HIDE DEF one
  <2>4. two \in Request
    BY <1>2, <2>3, EditOK
  <2> HIDE DEF two
  <2>5. three \in Request
    BY <1>2, <2>4, EditOK
  <2>6. QED
    BY <2>1, <2>2, <2>5
<1>5. PICK matches : matches = Match(Key[row.name], call.known)
  OBVIOUS
<1>6. \/ row.name = None /\ Continue(r, call, Numbering(call))
      \/ row.name # None /\ \E l \in matches :
            LET found == [call EXCEPT !.category = call.known[l]] IN
            Continue(r, found, Numbering(found))
      \/ row.name # None /\ matches = {} /\ Continue(r, call, "category")
  BY <1>1, <1>3, <1>5 DEF TakeRow
<1>7. CASE row.name = None /\ Continue(r, call, Numbering(call))
  <2>1. PICK pc : pc = Numbering(call) /\ pc # "rows"
    BY DEF Numbering
  <2>2. Matched(call)
    BY <1>4, <1>7 DEF Matched
  <2>3. QED
    BY <1>4, <1>7, <2>1, <2>2, MatchedContinue
<1>8. ASSUME row.name # None, NEW l \in matches, NEW found,
             found = [call EXCEPT !.category = call.known[l]],
             Continue(r, found, Numbering(found))
      PROVE  AllMatched'
  <2>1. Key[row.name] \in Keys
    BY <1>2, <1>8, ParametersOK
  <2>2. l \in Keys /\ call.known[l] # None
    BY <1>5, <1>8, <2>1 DEF Match, FuzzyMatch, KnownKeys
  <2>3. PICK k \in Categories : k = call.known[l]
    BY <1>4, <2>2 DEF Request
  <2>4. /\ found \in Request /\ found.category = k /\ found.name = row.name
        /\ found.known = call.known
    BY <1>4, <1>8, <2>3 DEF Request
  <2>5. k # None
    BY <2>2, <2>3
  <2>6. Matched(found)
    BY <1>5, <1>8, <2>3, <2>4, <2>5 DEF Matched
  <2>7. PICK pc : pc = Numbering(found) /\ pc # "rows"
    BY DEF Numbering
  <2>8. QED
    BY <1>8, <2>4, <2>6, <2>7, MatchedContinue
<1>9. CASE row.name # None /\ matches = {} /\ Continue(r, call, "category")
  <2>1. Matched(call)
    BY <1>4, <1>5, <1>9 DEF Matched
  <2>2. QED
    BY <1>4, <1>9, <2>1, MatchedContinue
<1>10. QED
  BY <1>6, <1>7, <1>8, <1>9

LEMMA MatchedResolveCategory ==
    ASSUME IInv, AllMatched, NEW r \in Requests, NEW k \in Categories, ResolveCategory(r, k)
    PROVE  AllMatched'
<1>1. PICK old \in Request : old = req[r] /\ old.name \in Names
  BY UnderWay DEF Informed, ResolveCategory
<1>2. PICK key \in Keys : key = Key[old.name]
  BY <1>1, ParametersOK
<1>3. PICK made : made = Remember(old, k)
  OBVIOUS
<1>4. \/ Continue(r, made, Numbering(made))
      \/ req' = [req EXCEPT ![r] = RowFailed(old)]
  BY <1>1, <1>3 DEF ResolveCategory
<1>5. CASE req' = [req EXCEPT ![r] = RowFailed(old)]
  BY <1>5, BlankOK, MatchedSlot
<1>6. CASE Continue(r, made, Numbering(made))
  <2>1. PICK L \in SUBSET Categories : L = old.listed \cup {k}
    BY DEF Request
  <2>2. PICK known \in [Keys -> Categories \cup {None}] : known = [old.known EXCEPT ![key] = k]
    BY DEF Request
  <2>3. known[key] = k
    BY <2>2 DEF Request
  <2>4. made = [old EXCEPT !.category = k, !.listed = L, !.known = known]
    <3>1. made = [[[old EXCEPT !.category = k] EXCEPT !.listed = @ \cup {k}]
                     EXCEPT !.known = [old.known EXCEPT ![Key[old.name]] = k]]
      BY <1>3 DEF Remember, Request
    <3>2. QED
      BY <1>2, <2>1, <2>2, <3>1 DEF Request
  <2>5. /\ made \in Request /\ made.category = k /\ made.name = old.name /\ made.known = known
    BY <2>4 DEF Request
  <2>6. k # None
    BY NoneIsNew
  <2>7. Match(key, known) = {key}
    BY <2>3, <2>6 DEF Match
  <2>8. Matched(made)
    BY <1>2, <2>3, <2>5, <2>6, <2>7 DEF Matched
  <2>9. PICK pc : pc = Numbering(made) /\ pc # "rows"
    BY DEF Numbering
  <2>10. QED
    BY <1>6, <2>5, <2>8, <2>9, MatchedContinue
<1>7. QED
  BY <1>4, <1>5, <1>6

LEMMA MatchedImport ==
    ASSUME IInv, AllMatched, NEW r \in Requests, Import(r)
    PROVE  AllMatched'
<1>1. CASE EndImport(r)
  BY <1>1, MatchedFinish DEF EndImport
<1>2. CASE PassOver(r) \/ FailRow(r)
  <2>1. PICK call \in Request : call = req[r]
    BY UnderWay
  <2>2. \/ req' = [req EXCEPT ![r] = [NextRow(call) EXCEPT !.skipped = @ + 1]]
        \/ req' = [req EXCEPT ![r] = RowFailed(call)]
    BY <1>2, <2>1 DEF PassOver, FailRow
  <2>3. PICK new : req' = [req EXCEPT ![r] = new] /\ Matched(new) /\ Cleared(new)
    BY <2>2, BlankOK
  <2>4. QED
    BY <2>3, MatchedSlot
<1>3. CASE ImportItems(r)
  <2>1. PICK known \in Listings :
           Continue(r, [Call("import") EXCEPT !.known = known, !.listed = Listable], "rows")
    BY <1>3 DEF ImportItems
  <2>2. PICK base \in Request : base = Call("import")
    BY CallOK
  <2>3. base.name = None /\ base.category = None
    BY <2>2 DEF Call, NoRequest
  <2>4. known \in [Keys -> Categories \cup {None}] /\ Listable \in SUBSET Categories
    BY DEF Listings, Listable
  <2>5. PICK call : call = [base EXCEPT !.known = known, !.listed = Listable]
    OBVIOUS
  <2>6. call \in Request /\ call.name = None /\ call.category = None
    BY <2>3, <2>4, <2>5 DEF Request
  <2>7. Matched(call) /\ Continue(r, call, "rows")
    BY <2>1, <2>2, <2>5, <2>6 DEF Matched
  <2>8. QED
    BY <2>6, <2>7, MatchedContinue
<1>4. QED
  BY <1>1, <1>2, <1>3, MatchedTakeRow, MatchedResolveCategory DEF Import

LEMMA MatchedNext ==
    ASSUME IInv, AllMatched, [Next]_vars
    PROVE  AllMatched'
<1>1. CASE UNCHANGED vars
  BY <1>1 DEF vars, AllMatched, Matched, Cleared
<1>2. ASSUME NEW r \in Requests, CategoryPages(r)
      PROVE  AllMatched'
  BY <1>2, MatchedUpdateCategory, MatchedFinish DEF CategoryPages, CreateCategory, DeleteCategory
<1>3. QED
  BY <1>1, <1>2, MatchedItemPages, MatchedImport, MatchedFinish DEF Next, Abort

-----------------------------------------------------------------------------
(* What follows from it.                                                   *)

LEMMA GaplessOK ==
    ASSUME IInv
    PROVE  Gapless
<1> SUFFICES ASSUME NEW p \in Prefixes, \A i \in WithPrefix(p) : item[i].auto
             PROVE  {item[i].number[2] : i \in WithPrefix(p)} = 1..Cardinality(WithPrefix(p))
  BY DEF Gapless
<1> DEFINE W == WithPrefix(p)
           n == Cardinality(W)
           f == [i \in W |-> item[i].number[2]]
<1>1. IsFiniteSet(W) /\ n \in Nat /\ Like[p] = n
  BY CountType DEF CountItemsWithPrefix, Like
<1>2. ASSUME NEW i \in W
      PROVE  /\ i \in Items /\ Stored(i) /\ item[i].number # None
             /\ item[i].number \in Numbers /\ item[i].number = <<p, item[i].number[2]>>
             /\ item[i].number[2] \in 1..n
  <2>1. /\ i \in Items /\ Stored(i) /\ item[i].number # None /\ item[i].number[1] = p
        /\ item[i].auto
    BY DEF WithPrefix
  <2>2. PICK number \in Numbers : number = item[i].number
    BY <2>1 DEF IInv, Numbered
  <2>3. number[1] = p /\ number[2] \in Nat /\ number = <<number[1], number[2]>>
    BY <2>1, <2>2 DEF Numbers
  <2>4. 1 <= number[2] /\ number[2] <= n
    BY <1>1, <2>1, <2>2, <2>3 DEF IInv, Numbered
  <2>5. QED
    BY <1>1, <2>1, <2>2, <2>3, <2>4
<1> HIDE DEF W, n
<1>3. f \in [W -> 1..n]
  BY <1>2
<1>4. ASSUME NEW i \in W, NEW j \in W, f[i] = f[j]
      PROVE  i = j
  <2>1. item[i].number = item[j].number
    BY <1>2, <1>4
  <2>2. QED
    BY <1>2, <2>1 DEF IInv, Numbered
<1>5. f \in Injection(W, 1..n)
  BY <1>3, <1>4 DEF Injection, IsInjective
<1>6. IsFiniteSet(1..n) /\ Cardinality(1..n) = n
  BY <1>1, FS_Interval
<1>7. f \in Surjection(W, 1..n)
  BY <1>5, <1>6, FS_Injection DEF n
<1>8. \A m \in 1..n : \E i \in W : item[i].number[2] = m
  BY <1>7 DEF Surjection
<1>9. QED
  BY <1>2, <1>8 DEF W, n

LEMMA RefusalOK ==
    ASSUME IInv
    PROVE  RefusalHasCause
<1> SUFFICES ASSUME NEW r \in Requests, req[r].pc = "insert", req[r].auto,
                    Taken(req[r].number), ~req[r].raced
             PROVE  \E i \in Items : Stored(i) /\ item[i].number = req[r].number /\ ~item[i].auto
  BY DEF RefusalHasCause
<1>1. Counted(req[r]) /\ req[r].auto = TRUE
  BY UnderWay DEF Request
<1>2. PICK number \in Numbers : number = req[r].number
  BY <1>1 DEF Counted
<1>3. number[2] = Like[number[1]] + 1 /\ Like[number[1]] \in Nat
  BY <1>1, <1>2, LikeType DEF Counted, Numbers
<1>4. PICK i \in Items : Stored(i) /\ item[i].number = number
  BY <1>2 DEF Taken
<1>5. ~item[i].auto
  BY <1>3, <1>4 DEF IInv, Numbered
<1>6. QED
  BY <1>2, <1>4, <1>5

\* No name that an import knows is near one that it makes a category for.
LEMMA NotClose ==
    ASSUME NEW k \in Keys, NEW known \in [Keys -> Categories \cup {None}],
           Match(k, known) = {}, NEW l \in Keys, known[l] # None
    PROVE  l # k /\ ~Close(k, Distance[<<k, l>>])
<1>1. known[k] = None /\ FuzzyMatch(k, known) = {}
  BY DEF Match
<1> SUFFICES ASSUME Close(k, Distance[<<k, l>>])
             PROVE  FALSE
  BY <1>1
<1> DEFINE D == [m \in Keys |-> Distance[<<k, m>>]]
<1>2. D \in [Keys -> Nat] /\ \A m \in Keys : D[m] = Distance[<<k, m>>]
  BY ParametersOK
<1> HIDE DEF D
<1>3. PICK half : half = Size[k] \div 2
  OBVIOUS
<1>4. half \in Int /\ \A d \in Nat : Close(k, d) <=> d <= 2 /\ d < half
  BY <1>3, ParametersOK DEF Close
<1>5. D[l] \in Nat /\ D[l] <= 2 /\ D[l] < half
  BY <1>2, <1>4
<1>6. ASSUME NEW m \in Keys, known[m] # None, D[m] <= D[l]
      PROVE  \E o \in Keys : known[o] # None /\ D[o] < D[m]
  <2>1. SUFFICES ASSUME \A o \in Keys : known[o] # None => ~(D[o] < D[m])
                 PROVE  FALSE
    OBVIOUS
  <2>2. \A o \in Keys : known[o] # None => D[m] <= D[o]
    BY <1>2, <2>1
  <2>3. D[m] \in Nat /\ Close(k, D[m])
    BY <1>2, <1>4, <1>5, <1>6
  <2>4. m \in FuzzyMatch(k, known)
    BY <1>2, <1>6, <2>2, <2>3 DEF FuzzyMatch, KnownKeys
  <2>5. QED
    BY <1>1, <2>4
<1>7. \A m \in Keys : known[m] # None /\ D[m] <= D[l] => D[m] # 0
  BY <1>2, <1>6
<1>8. \A m \in Keys : known[m] # None /\ D[m] <= D[l] => D[m] # 1
  BY <1>2, <1>5, <1>6, <1>7
<1>9. \A m \in Keys : known[m] # None /\ D[m] <= D[l] => D[m] # 2
  BY <1>2, <1>5, <1>6, <1>7, <1>8
<1>10. QED
  BY <1>5, <1>7, <1>8, <1>9

\* Whoever makes a category while an import waits to is not that import.
LEMMA CategoryMade ==
    ASSUME IInv, [Next]_vars, NEW r \in Requests, NEW k \in Categories,
           req[r].pc = "category", req'[r] # req[r],
           category[k].state = "absent", category'[k].state = "stored"
    PROVE  ResolveCategory(r, k) /\ RepoCreateCategory(k, req[r].name)
<1>1. category' # category
  OBVIOUS
<1>2. PICK q \in Requests : CategoryPages(q) \/ \E l \in Categories : ResolveCategory(q, l)
  BY <1>1, ZenonT(90) DEF Next, vars, ItemPages, Import, Abort, CreateItem, UploadPhoto, InsertItem, DisposeItem,
     ReadPrefix, Count, InsertRefused, WritePhoto, TakeRow, ImportItems, PassOver, FailRow, EndImport
<1>3. ASSUME NEW l \in Categories, NEW n \in Names,
             CreateCategory(q, l, n)
      PROVE  FALSE
  <2>1. req[q].pc = "over" /\ Finish(q)
    BY <1>3 DEF CreateCategory, Arrive, Free
  <2>2. q # r
    BY <2>1
  <2>3. req'[r] = req[r]
    BY <2>1, <2>2 DEF Finish, IInv, TypeOK
  <2>4. QED
    BY <2>3
<1>4. ASSUME NEW l \in Categories, DeleteCategory(q, l)
      PROVE  FALSE
  <2>1. req[q].pc = "over" /\ Finish(q)
    BY <1>4 DEF DeleteCategory, Arrive, Free
  <2>2. q # r
    BY <2>1
  <2>3. req'[r] = req[r]
    BY <2>1, <2>2 DEF Finish, IInv, TypeOK
  <2>4. QED
    BY <2>3
<1>5. ASSUME NEW l \in Categories, NEW n \in Names, UpdateCategory(q, l, n)
      PROVE  FALSE
  <2>1. RepoUpdateCategory(l, n) \/ UNCHANGED category
    BY <1>5 DEF UpdateCategory
  <2>2. l = k => ~RepoUpdateCategory(l, n)
    BY DEF RepoUpdateCategory, OwnCategory
  <2>3. category'[k] = category[k]
    BY <2>1, <2>2 DEF RepoUpdateCategory, IInv, TypeOK
  <2>4. QED
    BY <2>3
<1>6. ~CategoryPages(q)
  BY <1>3, <1>4, <1>5 DEF CategoryPages
<1>7. PICK l \in Categories : ResolveCategory(q, l)
  BY <1>2, <1>6
<1>8. RepoCreateCategory(l, req[q].name)
  BY <1>1, <1>7 DEF ResolveCategory
<1>9. l = k
  BY <1>8 DEF RepoCreateCategory, IInv, TypeOK
<1>10. q = r
  <2>1. \E new : req' = [req EXCEPT ![q] = new]
    BY <1>7 DEF ResolveCategory, Continue
  <2>2. QED
    BY <2>1 DEF IInv, TypeOK
<1>11. QED
  BY <1>7, <1>8, <1>9, <1>10

LEMMA NoTwinsStep ==
    ASSUME IInv, [Next]_vars, NEW r \in Requests, NEW k \in Categories,
           req[r].pc = "category", req'[r] # req[r],
           category[k].state = "absent", category'[k].state = "stored",
           NEW l \in req[r].listed, category[l].state = "stored"
    PROVE  /\ Key[category'[k].name] # Key[category[l].name]
           /\ ~Close(Key[category'[k].name],
                     Distance[<<Key[category'[k].name], Key[category[l].name]>>])
<1>1. PICK call \in Request : call = req[r] /\ Informed(call)
  BY UnderWay
<1>2. category'[k].name = call.name
  BY <1>1, CategoryMade DEF RepoCreateCategory, IInv, TypeOK
<1>3. /\ call.name \in Names /\ Match(Key[call.name], call.known) = {}
      /\ call.known[Key[category[l].name]] # None /\ l \in Categories
      /\ call.known \in [Keys -> Categories \cup {None}]
  BY <1>1 DEF Informed, Listed, Request
<1>4. category[l].name \in Names
  BY <1>3 DEF IInv, Named
<1>5. Key[call.name] \in Keys /\ Key[category[l].name] \in Keys
  BY <1>3, <1>4, ParametersOK
<1>6. QED
  BY <1>2, <1>3, <1>5, NotClose

LEMMA FrozenStep ==
    ASSUME IInv, [Next]_vars, NEW i \in Items, item[i].state = "discarded"
    PROVE  item'[i] = item[i]
<1>1. CASE UNCHANGED item
  BY <1>1
<1>2. ASSUME item' # item
      PROVE  item'[i] = item[i]
  <2>1. PICK r \in Requests, j \in Items : InsertItem(r, j) \/ DisposeItem(r, j) \/ WritePhoto(r)
    BY <1>2, ZenonT(90) DEF Next, vars, CategoryPages, ItemPages, Import, Abort, CreateItem, UploadPhoto,
       CreateCategory, UpdateCategory, DeleteCategory, ResolveCategory,
       ReadPrefix, Count, InsertRefused, TakeRow, ImportItems, PassOver, FailRow, EndImport
  <2>2. CASE InsertItem(r, j)
    <3>1. j # i /\ \E row : item' = [item EXCEPT ![j] = row]
      BY <2>2 DEF InsertItem, RepoCreateItem, Stored
    <3>2. QED
      BY <3>1 DEF IInv, TypeOK
  <2>3. CASE DisposeItem(r, j)
    BY <2>3 DEF DisposeItem, IInv, TypeOK
  <2>4. CASE WritePhoto(r)
    BY <1>2, <2>4 DEF WritePhoto, RepoUpdateItemPhotoURL, IInv, TypeOK
  <2>5. QED
    BY <2>1, <2>2, <2>3, <2>4
<1>3. QED
  BY <1>1, <1>2

-----------------------------------------------------------------------------
(* Near names, in edits.                                                   *)

LEMMA WithinIs ==
    ASSUME NEW k \in Keys, NEW l \in Keys, NEW n \in 0..2
    PROVE  WithinEdits(k, l, n) <=> Reachable(Word[k], Word[l], n)
<1>1. WithinEdits(k, l, n) <=> \E m, o \in Keys : <<k, l, n>> \in Paths(m, o)
  BY DEF WithinEdits, Within
<1>2. \A m, o : <<k, l, n>> \in Paths(m, o)
                   <=> k = m /\ l = o /\ Reachable(Word[m], Word[o], n)
  BY DEF Paths
<1>3. QED
  BY <1>1, <1>2

\* The table of distances is that of the edits.
LEMMA WithinCounts ==
    ASSUME NEW k \in Keys, NEW l \in Keys, NEW n \in 0..2
    PROVE  WithinEdits(k, l, n) <=> Distance[<<k, l>>] <= n
<1>1. PICK a \in Seq(Letters), b \in Seq(Letters) : a = Word[k] /\ b = Word[l]
  BY NamesAreWords
<1>2. Reachable(a, b, n) <=> Levenshtein(a, b) <= n
  BY LevenshteinCountsEdits
<1>3. Distance[<<k, l>>] = Levenshtein(a, b)
  BY <1>1, TablesAreComputed
<1>4. QED
  BY <1>1, <1>2, <1>3, WithinIs

LEMMA DistanceIs ==
    ASSUME NEW k \in Keys, NEW l \in Keys
    PROVE  Distance[<<k, l>>] \in Nat /\ Distance[<<k, k>>] = 0
<1>1. Distance[<<k, l>>] \in Nat
  BY ParametersOK
<1>2. PICK a \in Words : a = Word[k]
  BY NamesAreWords DEF Words
<1>3. Levenshtein(a, a) = 0
  BY LevenshteinType
<1>4. QED
  BY <1>1, <1>2, <1>3, TablesAreComputed

LEMMA NearIs ==
    ASSUME NEW k \in Keys, NEW l \in Keys
    PROVE  Near(k, l) <=> l = k \/ Close(k, Distance[<<k, l>>])
<1>1. PICK d \in Nat : d = Distance[<<k, l>>]
  BY DistanceIs
<1>2. PICK s \in Nat : s = Size[k]
  BY ParametersOK
<1>3. Close(k, d) <=> d <= 2 /\ 2 * d + 2 <= s
  BY <1>2 DEF Close
<1>4. Near(k, l) <=> l = k \/ \E n \in 0..2 : d <= n /\ 2 * n + 2 <= s
  BY <1>1, <1>2, WithinCounts DEF Near
<1>5. (\E n \in 0..2 : d <= n /\ 2 * n + 2 <= s) <=> d <= 2 /\ 2 * d + 2 <= s
  OBVIOUS
<1>6. QED
  BY <1>1, <1>3, <1>4, <1>5

LEMMA MatchIsNear ==
    ASSUME NEW k \in Keys, NEW known \in [Keys -> Categories \cup {None}],
           NEW l \in Match(k, known)
    PROVE  /\ l \in KnownKeys(known) /\ Near(k, l)
           /\ \A m \in KnownKeys(known) : NoNearer(k, l, m)
<1>1. CASE known[k] # None
  <2>1. l = k
    BY <1>1 DEF Match
  <2>2. Near(k, l) /\ l \in KnownKeys(known)
    BY <1>1, <2>1 DEF Near, KnownKeys
  <2>3. \A n \in 0..2 : WithinEdits(k, l, n)
    <3>1. PICK d \in Nat : d = Distance[<<k, k>>] /\ d = 0
      BY DistanceIs
    <3>2. \A n \in 0..2 : WithinEdits(k, k, n) <=> d <= n
      BY <3>1, WithinCounts
    <3>3. QED
      BY <2>1, <3>1, <3>2
  <2>4. QED
    BY <2>2, <2>3 DEF NoNearer
<1>2. CASE ~(known[k] # None)
  <2>1. /\ l \in KnownKeys(known) /\ Close(k, Distance[<<k, l>>])
        /\ \A m \in KnownKeys(known) : Distance[<<k, l>>] <= Distance[<<k, m>>]
    BY <1>2 DEF Match, FuzzyMatch
  <2>2. l \in Keys
    BY <2>1 DEF KnownKeys
  <2>3. ASSUME NEW m \in KnownKeys(known)
        PROVE  NoNearer(k, l, m)
    <3>1. m \in Keys
      BY DEF KnownKeys
    <3>2. PICK d \in Nat : d = Distance[<<k, l>>]
      BY <2>2, DistanceIs
    <3>3. PICK e \in Nat : e = Distance[<<k, m>>]
      BY <3>1, DistanceIs
    <3>4. d <= e
      BY <2>1, <3>2, <3>3
    <3>5. \A n \in 0..2 : (WithinEdits(k, l, n) <=> d <= n) /\ (WithinEdits(k, m, n) <=> e <= n)
      BY <2>2, <3>1, <3>2, <3>3, WithinCounts
    <3>6. QED
      BY <3>4, <3>5 DEF NoNearer
  <2>4. QED
    BY <2>1, <2>2, <2>3, NearIs
<1>3. QED
  BY <1>1, <1>2

LEMMA NearestOK ==
    ASSUME IInv, AllMatched
    PROVE  MatchIsNearest
<1> SUFFICES ASSUME NEW r \in Requests, NEW call, call = req[r], NEW k, k = Key[call.name],
                    call.name # None
             PROVE  /\ call.category = None =>
                          \A l \in KnownKeys(call.known) : ~Near(k, l)
                    /\ call.category # None =>
                          \E l \in KnownKeys(call.known) :
                             /\ call.known[l] = call.category /\ Near(k, l)
                             /\ \A m \in KnownKeys(call.known) : NoNearer(k, l, m)
  BY DEF MatchIsNearest
<1>1. call \in Request /\ Matched(call)
  BY UnderWay DEF AllMatched
<1>2. call.name \in Names /\ call.known \in [Keys -> Categories \cup {None}]
  BY <1>1 DEF Request
<1>3. k \in Keys
  BY <1>2, ParametersOK
<1>4. CASE call.category = None
  <2>1. Match(k, call.known) = {}
    BY <1>1, <1>4 DEF Matched
  <2>2. ASSUME NEW l \in KnownKeys(call.known)
        PROVE  ~Near(k, l)
    <3>1. l \in Keys /\ call.known[l] # None
      BY DEF KnownKeys
    <3>2. l # k /\ ~Close(k, Distance[<<k, l>>])
      BY <1>2, <1>3, <2>1, <3>1, NotClose
    <3>3. QED
      BY <1>3, <3>1, <3>2, NearIs
  <2>3. QED
    BY <1>4, <2>2
<1>5. CASE call.category # None
  <2>1. PICK l \in Match(k, call.known) : call.known[l] = call.category
    BY <1>1, <1>5 DEF Matched
  <2>2. /\ l \in KnownKeys(call.known) /\ Near(k, l)
        /\ \A m \in KnownKeys(call.known) : NoNearer(k, l, m)
    BY <1>2, <1>3, MatchIsNear
  <2>3. QED
    BY <1>5, <2>1, <2>2
<1>6. QED
  BY <1>4, <1>5

-----------------------------------------------------------------------------
(* The theorems.                                                           *)

\* In every reachable state the numbers and the imports under way are sound.
THEOREM Invariance == Spec => []IInv
<1>1. Init => IInv
  BY Initially
<1>2. IInv /\ [Next]_vars => IInv'
  BY NextStep
<1>3. QED
  BY <1>1, <1>2, PTL DEF Spec

\* The rows of categories and items and the requests have the types of the model.
THEOREM TypeCorrect == Spec => []TypeOK
<1>1. IInv => TypeOK
  BY DEF IInv
<1>2. QED
  BY <1>1, Invariance, PTL

\* Counted numbers have no gap, although nextAssetNumber counts in a statement
\* of its own and creations and imports overlap in any number.
THEOREM GaplessHolds == Spec => []Gapless
<1>1. IInv => Gapless
  BY GaplessOK
<1>2. QED
  BY <1>1, Invariance, PTL

\* A creation is refused a number it has counted only if it was overtaken, or
\* if the number was entered by hand.
THEOREM RefusalHolds == Spec => []RefusalHasCause
<1>1. IInv => RefusalHasCause
  BY RefusalOK
<1>2. QED
  BY <1>1, Invariance, PTL

\* The counts that ImportItems answers agree with what it stored, wherever it
\* is interrupted and whichever statement fails.
THEOREM ImportHolds == Spec => []ImportTold
<1>1. IInv => ImportTold
  BY DEF IInv, Told, ImportTold
<1>2. QED
  BY <1>1, Invariance, PTL

\* An import makes no category near one it has listed, for any table of
\* distances, although others write categories meanwhile.
THEOREM NoTwinsHolds == Spec => NoTwins
<1>1. IInv /\ [Next]_vars =>
        [\A r \in Requests, k \in Categories :
           /\ req[r].pc = "category" /\ req'[r] # req[r]
           /\ category[k].state = "absent" /\ category'[k].state = "stored"
           => \A l \in req[r].listed :
                 LET new == Key[category'[k].name]
                     old == Key[category[l].name] IN
                 category[l].state = "stored"
                     => new # old /\ ~Close(new, Distance[<<new, old>>])]_vars
  BY NoTwinsStep
<1>2. QED
  BY <1>1, Invariance, PTL DEF Spec, NoTwins

\* Number and photo of a discarded item are not written and it stays discarded,
\* although a photo is uploaded after a read of its own.
THEOREM FrozenHolds == Spec => DiscardedIsFrozen
<1>1. IInv /\ [Next]_vars =>
        [\A i \in Items : item[i].state = "discarded" => item'[i] = item[i]]_vars
  BY FrozenStep
<1>2. QED
  BY <1>1, Invariance, PTL DEF Spec, DiscardedIsFrozen

\* The row of a sheet goes to the nearest category, counted in single edits,
\* whatever names and words there are: the table of levenshtein and the map of
\* an import, which grows while others write categories, give no other.
THEOREM MatchIsNearestHolds == Spec => []MatchIsNearest
<1>1. Init => AllMatched
  <2>1. Init => \A r \in Requests : req[r] = NoRequest
    BY DEF Init
  <2>2. QED
    BY <2>1, BlankOK DEF AllMatched
<1>2. IInv /\ AllMatched /\ [Next]_vars => AllMatched'
  BY MatchedNext
<1>3. IInv /\ AllMatched => MatchIsNearest
  BY NearestOK
<1>4. QED
  BY <1>1, <1>2, <1>3, Invariance, PTL DEF Spec
=============================================================================
