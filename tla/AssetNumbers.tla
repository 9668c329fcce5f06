---------------------------- MODULE AssetNumbers ----------------------------
(***************************************************************************)
(* Categories, numbers of assets, photos and the import of a sheet         *)
(* (backend services/inventory_service.go, adapters/postgres/              *)
(* inventory_repo.go, handlers/inventory.go).                              *)
(*                                                                         *)
(* An asset without a number gets PREFIX-NNN: the prefix comes from the    *)
(* name of its category, NNN is one more than the rows that have the       *)
(* prefix.  Read of the category, count and insert are three statements    *)
(* with nothing around them; a unique index is all that keeps two          *)
(* creations from taking one number.  An import does the same row by row   *)
(* over a map of the categories that it has read once.  A step is one SQL  *)
(* statement of one request.  All of it is one church: every statement     *)
(* names the church of the token, but for the foreign key of an item's     *)
(* category, which would take a category of another church, too.           *)
(***************************************************************************)
EXTENDS Naturals, FiniteSets

CONSTANTS
    Items,        \* identities of item rows
    Categories,   \* identities of category rows
    Names,        \* names a client may give a category
    Keys,         \* names as an import compares them
    Prefixes,     \* prefixes of asset numbers
    Key,          \* Key[n]: normalizeCategory
    Prefix,       \* Prefix[n]: assetPrefix
    Distance,     \* Distance[<<k, l>>]: levenshtein
    Size,         \* Size[k]: the letters of k
    DefaultPrefix,  \* "ITEM"
    HandNumbers,  \* numbers a client may enter
    Requests,     \* requests the server can be serving at a time
    Importers,    \* those of them that may be imports
    SheetRows,    \* what a row of a sheet may say, see TakeRow
    MaxRows,      \* how many rows a sheet has at most
    MaxServed,    \* how many requests are served
    None

\* A number is a prefix and what follows the hyphen, 0 for anything that the
\* count never produces.
Numbers == Prefixes \X Nat

ASSUME ParametersOK ==
    /\ Key \in [Names -> Keys]
    /\ Prefix \in [Names -> Prefixes]
    /\ Distance \in [Keys \X Keys -> Nat]
    /\ Size \in [Keys -> Nat]
    /\ DefaultPrefix \in Prefixes
    /\ HandNumbers \subseteq Numbers
    /\ IsFiniteSet(Items)
    /\ Importers \subseteq Requests
    /\ SheetRows \subseteq {row \in [name : Names \cup {None}, auto : BOOLEAN,
                                      number : HandNumbers \cup {None}] :
                                row.auto => row.number = None}
    /\ MaxRows \in Nat /\ MaxServed \in Nat

ASSUME NoneIsNew ==
    /\ None \notin Items \cup Categories
    /\ None \notin Names /\ None \notin Numbers

VARIABLES
    category,  \* category[k]: the row of item_categories
    item,      \* item[i]: the row of items
    req,       \* req[r]: the request served in slot r
    served     \* how many requests have begun

vars == <<category, item, req, served>>

CategoryRow ==
    [state : {"absent", "stored", "deleted"}, name : Names \cup {None}]

\* auto is history: the number was counted.
ItemRow ==
    [state : {"absent", "stored", "discarded"}, number : Numbers \cup {None},
     photo : BOOLEAN, auto : BOOLEAN]

\* pc is the statement that the request runs next.  name is the category that
\* the row of a sheet informs; known is what an import knows of the
\* categories, by key; created, skipped and errors are what it will answer.
\* raced, stored and listed are history: an item was stored since the count;
\* the items an import stored; the categories it listed or made itself and
\* that nobody renamed since.
Request ==
    [op : {"none", "create", "photo", "import"},
     pc : {"rows", "category", "prefix", "count", "insert", "photo", "over"},
     item : Items \cup {None},
     category : Categories \cup {None}, name : Names \cup {None},
     auto : BOOLEAN, prefix : Prefixes, number : Numbers \cup {None},
     known : [Keys -> Categories \cup {None}], rows : Nat, created : Nat,
     skipped : Nat, errors : Nat, raced : BOOLEAN, stored : Nat,
     listed : SUBSET Categories]

TypeOK ==
    /\ category \in [Categories -> CategoryRow]
    /\ item \in [Items -> ItemRow]
    /\ req \in [Requests -> Request]
    /\ served \in 0..MaxServed

NoCategory == [state |-> "absent", name |-> None]

NoItem == [state |-> "absent", number |-> None, photo |-> FALSE, auto |-> FALSE]

NoRequest ==
    [op |-> "none", pc |-> "over", item |-> None, category |-> None,
     name |-> None, auto |-> FALSE, prefix |-> DefaultPrefix, number |-> None,
     known |-> [k \in Keys |-> None], rows |-> 0, created |-> 0, skipped |-> 0,
     errors |-> 0, raced |-> FALSE, stored |-> 0, listed |-> {}]

Init ==
    /\ category = [k \in Categories |-> NoCategory]
    /\ item = [i \in Items |-> NoItem]
    /\ req = [r \in Requests |-> NoRequest]
    /\ served = 0

-----------------------------------------------------------------------------
(* The repository.  Operators named "...Bug" are not part of the           *)
(* specification: each is the definition that follows it with one          *)
(* plausible mistake, which the checked properties must tell apart.        *)

OwnCategory(k) == category[k].state = "stored"

\* UNIQUE (church_id, name): the name as it was sent.
NameTaken(n) == \E k \in Categories : OwnCategory(k) /\ category[k].name = n

\* The database makes a new identity, here the first unused one.
NewCategory == CHOOSE k \in Categories : category[k].state = "absent"

\* The insert with the id for the name.
RepoCreateCategoryBug(k, n) ==
    /\ category[k].state = "absent" /\ k = NewCategory
    /\ ~NameTaken(n)
    /\ category' = [category EXCEPT ![k] = [state |-> "stored", name |-> k]]

RepoCreateCategory(k, n) ==
    /\ category[k].state = "absent" /\ k = NewCategory
    /\ ~NameTaken(n)
    /\ category' = [category EXCEPT ![k] = [state |-> "stored", name |-> n]]

\* The new name may be the one it has.
RepoUpdateCategory(k, n) ==
    /\ OwnCategory(k)
    /\ ~NameTaken(n) \/ category[k].name = n
    /\ category' = [category EXCEPT ![k].name = n]

\* ON DELETE SET NULL: the items stay, and so do their numbers.
RepoDeleteCategory(k) ==
    /\ OwnCategory(k)
    /\ category' = [category EXCEPT ![k] = [NoCategory EXCEPT !.state = "deleted"]]

Stored(i) == item[i].state # "absent"

\* UNIQUE (church_id, asset_number): rows without a number do not collide.
Taken(number) == number # None /\ \E i \in Items : Stored(i) /\ item[i].number = number

WithPrefix(p) ==
    {i \in Items : Stored(i) /\ item[i].number # None /\ item[i].number[1] = p}

\* The count of the items that are still there.
CountItemsWithPrefixBug(p) == Cardinality({i \in WithPrefix(p) : item[i].state # "discarded"})

\* Discarded items count as well.
CountItemsWithPrefix(p) == Cardinality(WithPrefix(p))

\* The foreign key of items.category_id.
CategoryExists(k) == k \in {l \in Categories : OwnCategory(l)} \cup {None}

NewItem == CHOOSE i \in Items : ~Stored(i)

RepoCreateItem(i, call) ==
    /\ ~Stored(i) /\ i = NewItem
    /\ CategoryExists(call.category) /\ ~Taken(call.number)
    /\ item' = [item EXCEPT ![i] =
                  [state |-> "stored", number |-> call.number, photo |-> FALSE,
                   auto |-> call.auto]]

\* The update of the photo without "AND deleted_at IS NULL".
RepoUpdateItemPhotoURLBug(i) ==
    /\ Stored(i)
    /\ item' = [item EXCEPT ![i].photo = TRUE]

RepoUpdateItemPhotoURL(i) ==
    /\ item[i].state = "stored"
    /\ item' = [item EXCEPT ![i].photo = TRUE]

-----------------------------------------------------------------------------
(* Requests.                                                               *)

Free(r) == req[r].pc = "over"

Arrive(r) == Free(r) /\ served < MaxServed /\ served' = served + 1

Call(op) == [NoRequest EXCEPT !.op = op]

Continue(r, call, pc) == req' = [req EXCEPT ![r] = [call EXCEPT !.pc = pc]]

\* A request that is over leaves nothing: what clients are told matters to no
\* property but that of the import, whose counts are kept until it answers.
Finish(r) == req' = [req EXCEPT ![r] = NoRequest]

\* POST /inventory/categories.
CreateCategory(r, k, n) ==
    /\ Arrive(r) /\ Finish(r)
    /\ RepoCreateCategory(k, n) \/ (NameTaken(n) /\ UNCHANGED category)
    /\ UNCHANGED item

\* PUT /inventory/categories/{id}.
UpdateCategory(r, k, n) ==
    LET unlisted == [q \in Requests |-> [req[q] EXCEPT !.listed = @ \ {k}]] IN
    /\ Arrive(r) /\ category[k].state # "absent"
    /\ \/ RepoUpdateCategory(k, n) /\ req' = [unlisted EXCEPT ![r] = NoRequest]
       \/ /\ OwnCategory(k) => NameTaken(n) /\ category[k].name # n
          /\ Finish(r)
          /\ UNCHANGED category
    /\ UNCHANGED item

\* DELETE /inventory/categories/{id}.
DeleteCategory(r, k) ==
    /\ Arrive(r) /\ Finish(r) /\ category[k].state # "absent"
    /\ RepoDeleteCategory(k) \/ (~OwnCategory(k) /\ UNCHANGED category)
    /\ UNCHANGED item

\* What comes first once the category of an item is known: a counted number
\* asks for its prefix, and without category that is the default.
Numbering(call) ==
    IF ~call.auto THEN "insert" ELSE IF call.category = None THEN "count" ELSE "prefix"

\* POST /inventory/items: the number is counted, entered, or missing (that of
\* a consumable).
CreateItem(r, k, auto, number) ==
    LET call == [Call("create") EXCEPT !.category = k, !.auto = auto, !.number = number] IN
    /\ Arrive(r) /\ (k # None => category[k].state # "absent")
    /\ auto => number = None
    /\ Continue(r, call, Numbering(call))
    /\ UNCHANGED <<category, item>>

\* assetPrefix: a category that is gone or cannot be read gives the default.
ReadPrefix(r) ==
    LET call == req[r]
        k == call.category IN
    /\ call.pc = "prefix"
    /\ \/ /\ OwnCategory(k)
          /\ Continue(r, [call EXCEPT !.prefix = Prefix[category[k].name]], "count")
       \/ Continue(r, [call EXCEPT !.prefix = DefaultPrefix], "count")
    /\ UNCHANGED <<category, item, served>>

\* Numbers from 0.
NextNumberBug(p) == CountItemsWithPrefix(p)

NextNumber(p) == CountItemsWithPrefix(p) + 1

Count(r) ==
    LET call == req[r]
        next == NextNumber(call.prefix) IN
    /\ call.pc = "count"
    /\ Continue(r, [call EXCEPT !.number = <<call.prefix, next>>, !.raced = FALSE], "insert")
    /\ UNCHANGED <<category, item, served>>

\* The next row of a sheet, with this one told as "created" or "errors".
NextRow(call) ==
    [call EXCEPT !.pc = "rows", !.rows = @ + 1, !.category = None, !.name = None,
                 !.auto = FALSE, !.prefix = DefaultPrefix, !.number = None, !.raced = FALSE]

RowCreated(call) == [NextRow(call) EXCEPT !.created = @ + 1]

RowFailed(call) == [NextRow(call) EXCEPT !.errors = @ + 1]

\* Without "continue": a row that failed is counted as created, too.
RejectedBug(call) == IF call.op = "import" THEN RowCreated(RowFailed(call)) ELSE NoRequest

\* What becomes of a request whose insert is refused ...
Rejected(call) == IF call.op = "import" THEN RowFailed(call) ELSE NoRequest

\* ... whose item is stored, which is the case before it is read back.
Inserted(call) ==
    IF call.op = "import" THEN RowCreated(call) ELSE NoRequest

\* Every other request is told by history that an item was stored.
InsertItem(r, i) ==
    LET call == [req[r] EXCEPT !.stored = @ + 1]
        others == [q \in Requests |-> [req[q] EXCEPT !.raced = (req[q].pc = "insert")]] IN
    /\ call.pc = "insert"
    /\ RepoCreateItem(i, call)
    /\ \/ req' = [others EXCEPT ![r] = Inserted(call)]
       \/ req' = [others EXCEPT ![r] = Rejected(call)]
    /\ UNCHANGED <<category, served>>

\* The number is taken, or the category is gone.
InsertRefused(r) ==
    LET call == req[r] IN
    /\ call.pc = "insert"
    /\ \/ /\ Taken(call.number)
          /\ req' = [req EXCEPT ![r] = Rejected(call)]
       \/ /\ ~CategoryExists(call.category)
          /\ req' = [req EXCEPT ![r] = Rejected(call)]
    /\ UNCHANGED <<category, item, served>>

\* POST /inventory/items/{id}/photo: a discarded item is found ...
UploadPhoto(r, i) ==
    /\ Arrive(r)
    /\ \/ Stored(i) /\ Continue(r, [Call("photo") EXCEPT !.item = i], "photo")
       \/ ~Stored(i) /\ Finish(r)
    /\ UNCHANGED <<category, item>>

\* ... but its photo is not written, which is an internal error.
WritePhoto(r) ==
    LET i == req[r].item IN
    /\ req[r].pc = "photo" /\ Finish(r)
    /\ RepoUpdateItemPhotoURL(i) \/ (item[i].state # "stored" /\ UNCHANGED item)
    /\ UNCHANGED <<category, served>>

\* POST /inventory/items/{id}/discard, whose two statements InventoryLoans has.
DisposeItem(r, i) ==
    /\ Arrive(r) /\ Finish(r) /\ item[i].state = "stored"
    /\ item' = [item EXCEPT ![i].state = "discarded"]
    /\ UNCHANGED category

\* The timeout or a lost connection ends a request; what it stored stays.
Abort(r) ==
    /\ ~Free(r)
    /\ Finish(r)
    /\ UNCHANGED <<category, item, served>>

-----------------------------------------------------------------------------
(* POST /inventory/items/import.                                           *)

Listable == {k \in Categories : OwnCategory(k)}

\* The map of the categories by key: of two with one key the name decides.
Listings ==
    {known \in [Keys -> Categories \cup {None}] :
        \A l \in Keys :
            LET own == {k \in Listable : Key[category[k].name] = l} IN
            known[l] \in IF own = {} THEN {None} ELSE own}

\* The categories are read once, whatever happens to them afterwards.
ImportItems(r) ==
    /\ Arrive(r) /\ r \in Importers
    /\ \E known \in Listings :
          Continue(r, [Call("import") EXCEPT !.known = known, !.listed = Listable], "rows")
    /\ UNCHANGED <<category, item>>

\* A blank name, or a row without a type or a location.
PassOver(r) ==
    LET call == req[r] IN
    /\ call.pc = "rows" /\ call.rows < MaxRows
    /\ \/ req' = [req EXCEPT ![r] = [NextRow(call) EXCEPT !.skipped = @ + 1]]
       \/ req' = [req EXCEPT ![r] = RowFailed(call)]
    /\ UNCHANGED <<category, item, served>>

KnownKeys(known) == {l \in Keys : known[l] # None}

\* Half of the letters are few enough.
CloseBug(k, d) == d <= 2 /\ d <= Size[k] \div 2

\* At most two edits, and fewer than half of the letters.
Close(k, d) == d <= 2 /\ d < Size[k] \div 2

\* Go walks a map in any order: of two that are equally near either is taken.
FuzzyMatch(k, known) ==
    {l \in KnownKeys(known) :
        /\ Close(k, Distance[<<k, l>>])
        /\ \A m \in KnownKeys(known) : Distance[<<k, l>>] <= Distance[<<k, m>>]}

\* The exact name, else the nearest one.
Match(k, known) == IF known[k] # None THEN {k} ELSE FuzzyMatch(k, known)

\* A row that informs a category, or none, and a number, or none (that of a
\* consumable), or leaves it to be counted.
TakeRow(r, row) ==
    LET call == [req[r] EXCEPT !.name = row.name, !.auto = row.auto, !.number = row.number]
        matches == Match(Key[row.name], call.known) IN
    /\ call.pc = "rows" /\ call.rows < MaxRows
    /\ \/ row.name = None /\ Continue(r, call, Numbering(call))
       \/ /\ row.name # None
          /\ \E l \in matches :
                LET found == [call EXCEPT !.category = call.known[l]] IN
                Continue(r, found, Numbering(found))
       \/ row.name # None /\ matches = {} /\ Continue(r, call, "category")
    /\ UNCHANGED <<category, item, served>>

\* The new category is not put into the map.
RememberBug(call, k) == [call EXCEPT !.category = k, !.listed = @ \cup {k}]

Remember(call, k) ==
    [call EXCEPT !.category = k, !.listed = @ \cup {k}, !.known[Key[call.name]] = k]

\* A category that no name is close to is created; one that somebody else has
\* created meanwhile fails the row.
ResolveCategory(r, k) ==
    LET call == req[r]
        made == Remember(call, k) IN
    /\ call.pc = "category"
    /\ \/ RepoCreateCategory(k, call.name) /\ Continue(r, made, Numbering(made))
       \/ /\ NameTaken(call.name)
          /\ req' = [req EXCEPT ![r] = RowFailed(call)]
          /\ UNCHANGED category
    /\ UNCHANGED <<item, served>>

\* A statement fails and the import goes on with the next row.
FailRow(r) ==
    /\ req[r].op = "import" /\ req[r].pc \in {"category", "count", "insert"}
    /\ req' = [req EXCEPT ![r] = RowFailed(req[r])]
    /\ UNCHANGED <<category, item, served>>

\* The sheet has no more rows.
EndImport(r) ==
    /\ req[r].pc = "rows"
    /\ Finish(r)
    /\ UNCHANGED <<category, item, served>>

CategoryPages(r) ==
    \E k \in Categories :
        \/ \E n \in Names : CreateCategory(r, k, n) \/ UpdateCategory(r, k, n)
        \/ DeleteCategory(r, k)

ItemPages(r) ==
    \/ \E k \in Categories \cup {None}, auto \in BOOLEAN, number \in HandNumbers \cup {None} :
          CreateItem(r, k, auto, number)
    \/ \E i \in Items : UploadPhoto(r, i) \/ InsertItem(r, i) \/ DisposeItem(r, i)
    \/ ReadPrefix(r) \/ Count(r) \/ InsertRefused(r) \/ WritePhoto(r)

Import(r) ==
    \/ \E row \in SheetRows : TakeRow(r, row)
    \/ \E k \in Categories : ResolveCategory(r, k)
    \/ ImportItems(r) \/ PassOver(r) \/ FailRow(r) \/ EndImport(r)

Next == \E r \in Requests : CategoryPages(r) \/ ItemPages(r) \/ Import(r) \/ Abort(r)

Spec == Init /\ [][Next]_vars

-----------------------------------------------------------------------------
(* Properties.                                                             *)

\* As long as nobody has entered a number with a prefix by hand, the numbers
\* with it are 1, 2, 3 ... without a gap, however creations and imports overlap
\* and whatever is discarded: two that count alike collide, and one is refused.
Gapless ==
    \A p \in Prefixes :
        (\A i \in WithPrefix(p) : item[i].auto) =>
            {item[i].number[2] : i \in WithPrefix(p)} = 1..Cardinality(WithPrefix(p))

\* A counted number is refused for two reasons only: another item was stored
\* since the count, or somebody entered that number by hand.  (After the
\* latter every later count gives the same number again.)
RefusalHasCause ==
    \A r \in Requests :
        LET call == req[r] IN
        call.pc = "insert" /\ call.auto /\ Taken(call.number) =>
            \/ call.raced
            \/ \E i \in Items :
                  Stored(i) /\ item[i].number = call.number /\ ~item[i].auto

\* Every row of a sheet is told once, no import tells more items than it has
\* stored, and it stores at most one for a row that it tells as an error.
ImportTold ==
    \A r \in Requests :
        LET call == req[r] IN
        call.op = "import" =>
            /\ call.created + call.skipped + call.errors = call.rows
            /\ call.created <= call.stored
            /\ call.stored <= call.created + call.errors

\* An import makes no category whose name is near that of one it has listed or
\* made itself, unless somebody has renamed that one since.
NoTwins ==
    [][\A r \in Requests, k \in Categories :
         /\ req[r].pc = "category" /\ req'[r] # req[r]
         /\ category[k].state = "absent" /\ category'[k].state = "stored"
         => \A l \in req[r].listed :
               LET new == Key[category'[k].name]
                   old == Key[category[l].name] IN
               category[l].state = "stored"
                   => new # old /\ ~Close(new, Distance[<<new, old>>])]_vars

\* A discarded item keeps its number and its photo and stays discarded, whatever
\* request was under way.  (Not so its status, which loans go on writing, see
\* InventoryLoans, and its category, which is set to NULL when that is deleted;
\* neither is in this row.)
DiscardedIsFrozen ==
    [][\A i \in Items : item[i].state = "discarded" => item'[i] = item[i]]_vars
=============================================================================
