# CompliChurch: a formal model of the backend and the client's session

CompliChurch is a church-management application: a Go backend
(`backend/`, 7.7k lines) over PostgreSQL and a Next.js client (`frontend/`).
This directory holds TLA+ modules that model the backend's state-changing code
and the session of the web client,
TLC configurations that check them on small instances, and proofs that TLAPS
checks for every value of the constants. Paths below are relative to the
repository root; `internal/` stands for `backend/internal/`.

## 1. The system

Each HTTP request is served by a goroutine of its own: a handler validates the
input, a service decides, a repository runs SQL. The goroutines share nothing in
memory; **all shared state is in PostgreSQL**, at the default READ COMMITTED
level. So the unit of atomicity is one SQL statement, or one transaction where
the repository opens one (`pool.Begin` ... `Commit`), and every pair of
statements of one request is a place where other requests run. The middleware
cancels a request after 30 s (`backend/cmd/api/main.go:89`), a client may leave at
any moment, and an answer may be lost after the commit.

A transaction counts as one step although it has several statements, because
each transaction of the backend takes its row locks in one order (first the row
it decides on, then the shared item, schedule or church row): concurrent
transactions are equivalent to one after the other in the order in which they
lock the shared row, and nothing of a transaction is visible before its commit.
One statement does not wait for such a lock: the insert of a slot needs only the
key of its schedule, which a publication leaves free. An insert that falls between
the marking of the slots and the commit is not marked; with its read, which still
saw the draft, put before the transaction and the insert after it, the tables are
the same, if each HTTP request has a slot of `Requests` of its own. That is what a
slot stands for; `Requests` may have any number of them in the proofs.

### Components, their state and operations

| Component | Code | State (tables) | Operations that change it |
|---|---|---|---|
| Items and loans | `internal/{handlers/inventory,services/inventory_service,adapters/postgres/inventory_repo}.go` | `items` (status, `deleted_at`), `loans` | create, edit, discard or donate an item; create, approve, reject, return a loan |
| Categories, asset numbers, import | same files | `item_categories`, `items.asset_number` | create, rename, delete a category; number an asset; upload a photo; import a spreadsheet |
| Sessions | `internal/{handlers/auth,handlers/middleware,services/auth_service,adapters/postgres/auth_repo}.go` | `refresh_tokens`, `members.is_active`; cookies and access tokens with the clients | register, login, refresh, logout, logout everywhere, deactivate |
| Worship: schedules and slots | `internal/{handlers/schedules,services/schedule_service,adapters/postgres/worship_repo}.go` | `schedules`, `schedule_slots` | create, edit, cancel, publish a schedule; add, remove, confirm a slot |
| Worship: unavailable dates, suggestion | same files | `availability_exceptions` | add, remove an unavailable date; suggest a team (reads only) |
| Members, roles, instruments | `internal/{handlers/{members,roles,instruments},services/member_service,adapters/postgres/member_repo}.go` | `members`, memberships, `roles`, `role_assignments`, `instruments`, `member_instruments` | create, import, edit, deactivate; assign, remove roles; create, rename, delete roles and instruments; add, remove a member's instrument |
| Server start-up, responses, ports | `backend/cmd/api`, `internal/{config,handlers/response.go,ports}` | none | none |
| Agenda, preaching, notifications | `contracts/`, tables of migration 0001 | - | no backend code |
| Web client | `frontend/` | access token in memory, refresh cookie | one refresh in flight per tab, one retry of a request that got 401 |

The components meet in the database: a role assignment decides the profile in an
access token, the profile decides whether a loan is granted on the spot, the
church in the token is the filter of nearly every statement, instruments and
exceptions feed the suggestion of a worship team.

### What is hard about it, and what makes it correct

* **Check-then-act.** A service reads a row, decides, and writes with a later
  statement whose own `WHERE` may or may not repeat the check. Correctness is
  what survives any other request running in between.
* **Guarded updates.** `UPDATE ... WHERE status = 'pending'` decides races:
  one of several overlapping decisions wins and the losers are told so.
* **Two rows that must agree** (loan and item, old and new token, schedule and
  slots), written by one transaction or by two statements.
* **Answers.** A refused request must have changed nothing; an answer lost after
  the commit is followed by a retry.
* **Stale copies.** Tokens carry a profile and a church for 15 minutes, an edit
  form carries the whole row it once loaded.

`PROJECT.json` lists each hazard at its line with the properties that watch it.

## 2. Modules

| Module | What it is |
|---|---|
| `LoanLifecycle` | abstract: what is promised about one loan row |
| `InventoryLoans` | items and loans, statement by statement |
| `TokenLifecycle` | abstract: what is promised about the tokens of an account |
| `AuthSessions` | accounts and refresh tokens, statement by statement |
| `TeamLifecycle` | abstract: what is promised about the team of a schedule |
| `WorshipSchedules` | schedules and slots, statement by statement |
| `MemberRoles` | accounts, roles, the profiles in access tokens, the import of members |
| `MemberInstruments` | instruments and who plays them, with the snapshot of an insert as a step |
| `TeamSuggestion` | the suggestion of a team while what it reads changes |
| `AssetNumbers` | categories, counted numbers, photos, the import of a sheet |
| `CategoryMatch` | the algorithms on names: normalisation, edit distance, prefix; and a reference for the distance |
| `ImportMatching` | the import of `AssetNumbers` over the names of `CategoryMatch` |
| `BrowserSession` | the tabs of a browser, composed with `AuthSessions` |
| `MC...` | instances for TLC |
| `...Proofs` | theorems, with proofs |

The modules of the backend have the same form. Their variables are the tables
and `req`, the requests being served: `req[r].pc` names the statement that the
request in slot `r` runs next, the other fields what it was asked and has read,
`answer` what its client was told. Operators named `Repo...`, or named for a
`WHERE` clause (`Publishable`, `Confirmable`, `FindSchedule`), are the
repository's statements; the actions are the handlers and services around them,
one per statement or transaction. `Abort` is the timeout, the lost connection or
a failing statement: what was written stays. A slot of `Requests` is used again
when its request is over, so that any number of requests run one after the
other. Some fields are history: they are written and never read by an
action, so that a property can speak of what happened earlier.

What the modules share: `AuthSessions` and `MemberRoles` both have accounts, one
with refresh tokens and the other with roles and access tokens; `MemberRoles`
leaves refresh tokens out, because whether a refresh is granted does not depend
on roles. `TeamSuggestion` takes the changes of roles, instruments and slots as
arbitrary ones, which includes those that `MemberRoles`, `MemberInstruments` and
`WorshipSchedules` can make. `InventoryLoans` and `AssetNumbers` are two views of
`items`, by status and by number; no operation reads one to decide on the other.

Operators whose name ends in `Bug` are not used by the specification. Each is the
definition that follows it with a plausible mistake (a dropped guard or filter,
a forgotten update); the properties must fail when it takes its place, which
shows that they say something about the code.

### InventoryLoans

State: `itemStatus`, `deleted` (columns `items.status`, `items.deleted_at`),
`loans` (the rows), and `req`, the requests being served. `req[r].pc` names the
statement a request runs next, `answer` what the client was told, `wrote`
whether a write of the request was committed. `statusFrom` is a history
variable: the loan that last wrote an item's status.

`CreateLoan` (read and check the item), `CheckTarget` (borrower) and
`InsertLoan` are the three statements of one request; `DisposeItem` and
`SoftDelete` the two of a discard or donation; `ReadBack` is the read after each
write, which decides the answer; `Abort` is the timeout or the lost connection.
A slot of `Requests` is reused once its request is over.

Parameters: the church of each item, the church in each member's token, the
memberships and the staff are constants, because the code takes them from the
access token or never changes them (memberships only grow: nothing writes
`left_at`). Whether a token is stale belongs to the sessions.

Left out: the asset number of a new item (in `AssetNumbers`), descriptive columns,
dates, list queries.

`LoanLifecycle` states the life of one loan without items, churches or requests;
`ImplementsLifecycle` is the refinement, with `stage` and `approver` mapped to
the two columns of the row.

### AuthSessions

State: `account` (no account, active, deactivated), `token` (the rows of
`refresh_tokens`, with `revoked_at` and `expires_at` as one state) and `req`.
History: a token's `parent` (the token exchanged for it), `slot` (where the
request ran that stored it) and `by` (what revoked it); a request's `barred`
(what it presents was already worthless when it began).

`Register` and `Login` end in `StoreFirst`. A refresh is `Refresh` (arrival),
`LookUp`, `ReadMember`, `RevokeOld`, `StoreNew`: four statements without a
transaction. `Logout` and `LogoutAll` are one statement each; the handlers drop
its error and answer 204 in any case, hence the alternative without effect.
`DeactivateMember` is done by somebody else, `Expire` by the clock.

Left out: password and key material (a wrong password is a refusal), the claims
of access tokens (in `MemberRoles`), and who holds the cookie (in `BrowserSession`):
here any token that was ever stored may be presented.

`TokenLifecycle` knows no requests and no statements: tokens are started, renewed
once the old one is closed, and closed, one at a time or all of one account.
`ImplementsTokens` is the refinement, with `owner` and `parent` mapped to the columns
and `open` to the live rows; the two writes of a refresh are a `Close` and a `Renew`,
between which anything may happen.

### WorshipSchedules

State: `schedules`, `slots` and `req`; history: `racing[s]`, the requests that were
between their read and their insert when `s` was published, and a slot's `from`.

Cancellation, publication and the three operations on slots read the schedule
and write with a later statement; the pairs are `CancelSchedule`/`Cancel`,
`PublishSchedule`/`Publish`, `AddSlot`/`InsertSlot`, `RemoveSlot`/`DeleteSlot` and
`ConfirmSlot`/`UpdateSlot`. Which checks the write repeats differs: the publication
repeats the status, the cancellation nothing, the insert neither status nor
church, the confirmation the member. `Publish` is the transaction that marks the
stored slots; the mail that would follow is not sent, since the mailer is nil.

Left out: instrument and label of a slot, which no condition reads; unavailable
dates, which no statement on schedules reads.

`TeamLifecycle` speaks of sets of members instead of rows: the team of a schedule,
who of it was told and who has confirmed. `ImplementsTeams` is the refinement. It
allows what the code does, that somebody joins a team that was announced or
cancelled, and no more: a publication marks exactly the team of its moment, and
the removal of one row takes a member off the team, which is true only because
no two rows of a schedule are his.

### MemberRoles

State: `member[m]`, the account of an e-mail with its only membership; `role`, the
rows of roles, system roles included; `held[m]`, the assignments; `pass[m]`, the
profiles in the unexpired access tokens of `m`. A request starts with a profile
out of `pass[u]`: `Begin` is the middleware, which reads no table, and `May` the
`RequireProfile` of the route. So a member whose role was taken away still
writes with his old profile, and a token can be made from roles that were read
just before (`ReadRoles`, then `Issue`).

The pairs of statements are `CreateMember`/`InsertMember`, `UpdateMember`/
`WriteMember`, `AssignRole`/`InsertAssignment`, `UpdateRole`/`WriteRole` and
`DeleteRole`/`EraseRole`. `ImportMembers` is a loop over `ImportRow`: each row is an
insert of its own, and `Tell` what the answer says of it, which is an error also
when the account was stored and its read-back failed. `Grant` makes the access
token; `ExpirePass` is the clock.

Left out: passwords (an account made by staff or import has a random one that
nobody is told and nothing changes), the texts of a profile card but for their
identity, lists.

### MemberInstruments

State: `instrument`, `plays` (rows of `member_instruments`), `lost` (history: who had
a primary instrument removed). The insert of `AddMemberInstrument` decides whether
the row is primary by a subquery, whose snapshot does not show what an
overlapping statement is about to commit: `Snapshot` and `InsertRow` are two steps of
one statement. `gift` is history: which slot made a row primary unasked.
`DeleteInstrument`/`EraseInstrument` is the pair of a delete, which the foreign key
refuses while somebody plays the instrument.

### TeamSuggestion

State: what the suggestion reads (`musician`, `primary`, `away`, `team`) and `sug`, how
far it has got. The statements are `ReadMusicians`, `ReadInstruments`,
`ReadExceptions`, `ReadPreceding` and one `CountSlots` for each candidate, in the order
of the code: groups in the order of the list of musicians, and within a group
the order of the list. Between them any row may change, `MaxChanges` times in
all. It begins in every state of the tables. The dates are split into `LastWeeks` and
`ToCome`: the count of the code takes both, the documents speak of the first. Exceptions are made and removed by
`CreateException` and `DeleteException`, which are the operations of that page.

### AssetNumbers and CategoryMatch

State: `category`, `item` and `req`. An item without a number goes through `ReadPrefix`,
`Count` and `InsertItem`, three statements that nothing holds together;
`InsertRefused` is the unique index. `ImportItems` reads the categories once into
`known`, and of two with one key either may be in the map; `TakeRow` matches,
`ResolveCategory` creates, `FailRow` is a row that fails. `FuzzyMatch` returns all keys
that the iteration over Go's map may leave in `best`.

Names, keys, prefixes, distances and lengths are parameters of `AssetNumbers`, so that
its theorems hold for every table of distances. `ImportMatching` says what the tables
are made of: `Text[n]` is a name as it was written, `Word[k]` the word that an import
compares, and its assumptions are that the key of a name is its normalisation and
that distance and size are what `Levenshtein` and the length of the words give.
`Reachable` is the reference, words that a number of single edits reaches;
`MatchIsNearest` compares what an import did with it. `MCAssetNumbers` gives three
such texts.

Left out: descriptive columns, the second church (every statement names the
church of the token, but for the foreign key of an item's category), and the
read before a discard (in `InventoryLoans`).

### BrowserSession

It EXTENDS `AuthSessions`: call `c` of the client is the request in slot `c` of the
server. State: the `cookie` that all tabs share, `access[t]` and `flight[t]` (the
module variables `accessToken` and `refreshPromise` of a tab), `call[c]`, how far
`apiFetch` has got, and `inside`, the tabs that show a page of the application. The
actions follow `client.ts`: `Send`, `Answered`, `Unauthorized` (a 401: join the refresh
in flight or start one), `Refreshed`, `Kicked`, `NetworkFails`; `SignIn` and `SignedIn` are the
pages of login and registration; `Reload` loses what a tab had in memory while
the server goes on (`Forget` is the answer nobody waits for, whose cookie may
still arrive). `Serve` are the server's steps; `Others` what other devices and the
clock do. History: which tabs have shown a token (`shownBy`) and whether an answer
was lost (`lossy`).

## 3. Runs

| Run | Instance | Question |
|---|---|---|
| `loans_one_church` | 1 item, 2 loans, 2 overlapping requests, staff and not, a borrower that does not exist | status agrees with the loans; one decision per loan; a discard is final |
| `loans_two_churches` | 2 churches with staff, a member of both, 2 loans, 1 request at a time | provenance of stored loans; refusals are silent; the lifecycle is implemented |
| `loans_lent_twice` | as `loans_one_church` | refutes "the item of a new active loan is available" |
| `sessions_overlap` | 1 account, 3 tokens, 2 overlapping requests | the lifecycle of tokens is implemented; what was closed at the door gets nothing; only overlapping requests exchange a token twice |
| `worship_one_schedule` | 1 schedule, 2 slots, a leader and a musician, 2 overlapping requests | publication against additions, removals, confirmations, cancellation; teams are implemented |
| `worship_two_churches` | 2 churches, a schedule each, 2 leaders, a musician, 1 request at a time | a request changes nothing of another church |
| `members_one_church` | 1 church, 2 e-mails, a system role and another, an import that names an e-mail twice, 2 overlapping requests | no assignment without its role; imports tell the truth and count no account twice |
| `members_two_churches` | 2 churches founded by two people, 1 request at a time, fairness | nobody writes in another church; a profile taken away leaves the tokens in the end |
| `instruments_overlap` | 2 members of two churches, a system instrument and another, 2 overlapping requests | who plays has a primary instrument; two unasked ones come from an overlap; what is played exists |
| `suggestion_changes` | 2 members, 2 instruments, 3 dates, every initial state, 2 changes | undisturbed it is exact, disturbed it agrees with itself |
| `asset_numbers` | 3 items, 2 categories, 3 names two and three edits apart, some near and some not, 2 slots of which one may import 2 rows, 3 requests in all | no gap and no twin among counted numbers; refusals have a cause; import, match, discard |
| `browser_tabs` | 2 tabs with 2 calls and 1, 1 account, 2 tokens, 1 event from outside, fairness | calls of one tab never push each other out; every call ends |

`loans_lent_twice` states what `backend/IMPLEMENTED.md:243` says and the code does not
do: two creations, or a creation and a discard, overlap between the check of the
item and the insert of the active loan. It is the finding of `PROJECT.json`.

**Where documents and code differ, without a run.** The models follow the code.
Some of these are races that a model shows at once, some a single step:

* the approval of a loan does not look at the church of the loan
  (`inventory_repo.go:483`), although every handler must filter by it
  (`contracts/ARCHITECTURE.md:185`); `RefusalIsSilent` names the exception;
* two refreshes that overlap exchange one token twice (`auth_service.go:213`;
  `ARCHITECTURE.md:154` says the old one is invalidated); `SerialExchange` says when;
* a refresh under way stores its token after a logout everywhere, or a deactivation,
  that came between its statements
  (`auth_service.go:216`; `ARCHITECTURE.md:254`);
* a slot can be added to a schedule that was published or cancelled meanwhile
  (`worship_repo.go:387`; `backend/IMPLEMENTED.md:168`); `UnnotifiedIsLate` says when;
* the suggestion counts slots to come as well as those of the last four weeks, the
  query having no upper bound (`worship_repo.go:569`), although
  `contracts/ARCHITECTURE.md:389`, `backend/IMPLEMENTED.md:151` and the comment at
  `schedule_service.go:302` speak of the last four weeks: whoever is planned for later
  Sundays is passed over for one who has played more of late; `QuietIsExact`
  states the criterion of the code, `PassedOverForCause` how far the documented one holds;
* the publication that loses a race is answered 404, not 422
  (`backend/IMPLEMENTED.md:162`);
* a consumable can be lent, although the schema says loans are for assets
  (`backend/db/migrations/0001_initial_schema.up.sql:362`), and can have a number,
  although the schema says it has none (`0001_initial_schema.up.sql:395`);
* an item returned damaged becomes `damaged`, not `maintenance`
  (`contracts/openapi/inventory.yaml:416`);
* a loan created by staff starts `active`, not `pending`
  (`contracts/openapi/inventory.yaml:336`);
* a logout answers 204 even if its update failed (`backend/IMPLEMENTED.md:28`);
* nothing checks that `sunday_date` is a Sunday (`0001_initial_schema.up.sql:307`);
* a member of another church can be put on a slot (`ARCHITECTURE.md:185`);
* an import matches a category by nearness, not only by its name
  (`contracts/openapi/inventory.yaml:9`);
* an account made by staff gets a random password for a "forgot-password flow"
  (`member_service.go:68`) that the code does not have.

Four more consequences that the models show and no document denies: a number
entered by hand that is the next one of the count makes every later count of its
prefix collide, since the count does not move (`RefusalHasCause`); a row of an
import can be stored and told as an error, when its read-back fails (`ImportTold` of
both modules); any answer of a refresh but 200, a timeout of the server included,
sends the user to the login page (`Kicked`); the form of an item sends back the status that
it loaded, so an edit overwrites what a loan has written since (`StatusExplained`
speaks of items that a loan has written last).

**Bounds.** A race in this code is between what one request read and what
another writes, so two overlapping requests are the smallest instance with every
race; more of them add symmetric copies. Two loans of one item let one be
returned while the other has it; three tokens are a login and the two exchanges
that a double exchange needs, and their number bounds how many are ever issued;
one account has every race of the exchange, and that a logout everywhere is of its own
account only is in `TokensImplemented`;
two slots let an addition race a publication of a team that is not empty. The
runs with two churches take one request at a time: their properties relate a row
to the church that wrote it, and the rows differ in that without overlap;
overlap is covered by the proofs, which hold for any number of requests. A
third request in `worship_one_schedule` leads beyond a million states; what it would add
(one unmarked slot for each of several requests in the race) is in `LateHolds`.

In `members_one_church` a list of two rows with one e-mail is the shortest import
that can count an account twice, and two of them overlap. `asset_numbers` bounds the
requests (`MaxServed` = 3: two that race and one that discards, renames or comes
too late), who may import (`Importers`), the rows of a sheet (`MaxRows` = 2: the second
row meets the category that the first created) and the distance table (three
names, with an accent, capitals and spaces, of five, seven and eight letters: for
the one of seven the two others are near and equally so; for the one of five the
one of seven is too far only because two edits are half of its letters; for the
one of eight the one of five is too far only because three edits are more than two.
So either half of the threshold decides somewhere. Two of the names have one prefix). `suggestion_changes` has a date out of the window, the
one before and one to come, and `MaxChanges` = 2: a change can be made and undone
between two reads. `browser_tabs` has `MaxEvents` = 1: one page loaded by its address, failed
fetch, expired token or intervention, at any moment; two tokens are a sign-in
and one refresh, and when they are used up a request of the server ends in
`Abort`, which is the timeout. All of these bounds stand in the guards (`Arrive`, `PassOver`,
`Change`, `Event`); without them the theorems hold.

**Fairness.** Most runs assume none: a client may stop at any point, and the
properties are safety properties. Two check liveness.

* `members_two_churches` (`FairSpec`): `WF(Step(r))`, the server serves each request to its
  end, by the 30 s timeout (`cmd/api/main.go:89`) if by nothing else; `WF(ExpirePass(m, p))`, time
  passes (15 minutes, `auth_service.go:244-284`). No request has to arrive.
* `browser_tabs` (`FairBrowserSpec`): `WF(Progress(c))` for each call: the server answers it
  or times out, and the browser hands the answer on, or the failure of the
  network. No user has to do anything. Strong fairness is nowhere needed: a step
  that is enabled stays so until it is taken or its request is over.

Deadlock is checked, but in `suggestion_changes`, where a suggestion that is made is
the end, and in `asset_numbers`, where the requests are bounded by `MaxServed`.

## 4. Proofs

The safety properties of all modules are proved, for any values
of the constants that satisfy the assumptions of their module: `ParametersOK` (the
parameters have their types) and `NoneIsNew`; `MatchIsNearestHolds` alone uses those of
`ImportMatching` too. In each module the property is not
inductive as it stands, because what a write may rely on is what its request
read earlier; `IInv` says what each request knows between its statements, and
the work is to show that the steps of the others leave that true.

**`InventoryLoansProofs`.** `IInv` adds to the checked invariants

* `RowsNamed`, `DeletedStored`: unstored rows are blank, stored ones name real items
  and members, only stored items are deleted;
* per request, `Checked` (what it established before its write), `Committed`
  (what it will read back), `Decision` (its approval or rejection is still
  visible), `Silent`; and `OneDecider` across requests.

`StepOnTables` reduces the actions to the eight things a statement can do to the
rows (`TableStep`). For each of these, `RepoTypes`, `RowsOnlyAdvance`,
`DeletedStep`, `ProvenanceStep` and `StatusStep` show what the rows keep;
`RowsAdvance` (rows never go back) is what lets one request's knowledge survive the
steps of the others (`OtherSlot`, `SlotFrame`). Then `OpeningStep`, `CommitStep` and
`MiddleStep` look at the one request that moves. `LifecycleRefined` is the
refinement of `LoanLifecycle`: initial states map to initial states and every step
to a step or a stutter.

**`SessionProofs`, the server.** `IInv` adds that stored rows name real accounts, parents and
slots (`RowsNamed`) and, per request, `Running` (its fields fit the statement it is
at; before `StoreNew` its old token is revoked, which keeps `Lineage`: what was replaced
is closed and of the same account), `Barred`
(a barred request never gets past the statement that refuses it: revoked,
expired and deactivated are for ever) and `NoOwnHeir` (the token that a running
refresh presents has no heir from the same slot, since an earlier refresh there
would have closed it before this one looked it up), which gives
`SerialExchange`. `Forward`, `Closing` and `Storing` are the three things a step
does to the rows; `SlotFrame` carries the knowledge of the other requests over
them.

`TokensImplemented` needs nothing but `IInv`: `Effect` lists what any step does to accounts
and rows (a row is stored, closed, too old; an account is made or deactivated), and
`ClosingLife` and `StoringLife` show that each is a step of `TokenLifecycle`. The steps of
the browser have no other effects (`BrowserEffect`), hence `BrowserKeepsTokens`.

**`WorshipSchedulesProofs`.** `IInv` adds `RowsNamed`, and per request `Known` (between
its statements the schedule is of its church, and stays so: this is why the
writes that name no church are harmless), `InRace` (an insert into a schedule
published meanwhile is in `racing` and its slot has added nothing since) and
`HasPublished` (whoever was told of a publication left the schedule published, so that
no second one finds a draft). `TableStep` sums up what a statement does to the
rows; `StepOf` what the request that ran it then knows; `StepKeeps` shows that
the two together keep `IInv`. `NothingUndone` and `WithinChurch` are read off
`TableStep`. For `TeamsImplemented` the steps are summed up once more, exactly (`Effect`),
and `NobodyTwice`, an invariant on top of `IInv`, says that stored rows of one schedule
have different members. The lemmas `JoinStep`, `LeaveStep`, `ConfirmStep` and `AnnounceStep` say
what a change of one row does to the sets of members, which is where
`NobodyTwice` is needed, and `TeamStep` puts them together.

**`MemberRolesProofs`.** `IInv` consists of `Tables` (types, system roles are stored, whoever
has an account has a church and whoever has an access token an account, `AssignmentsSound`), the types of the requests, per
request `Running` (the member it looked up exists in the church of its user, the
role it looked up is one that church may use: neither can change, which is why
the later statement may leave the church out) and `Importing` (what was told so far
is true), and `CountedOnce` across requests. The "... Step" lemmas show what each
statement does to the tables; the "... Writes" lemmas give `WithinChurch`, action by
action.

**`MemberInstrumentsProofs`.** `IInv` adds `Running` and `SnapshotHolds`: if the snapshot
showed a row, the member has a primary one or lost it; if it showed none, what
the member has by now was given to him by other slots. `InstrumentStep`,
`AddingStep` and `RemovingStep` are the three things a statement can do.

**`AssetNumbersProofs`.** `IInv` adds `Named` (stored categories have names) and `Numbered`: a
counted number is between 1 and the number of the rows with its prefix, and no two
rows have one number. `Gapless` follows by counting: the rows of a prefix are mapped one to one into
1..n, and there are n of them. Per request there are `Told` (the counts agree),
`Counted` (the number counted is at most one more than the rows there are now, and
exactly that if nothing was stored since, which gives `RefusalHasCause`) and
`Informed` (what an import has listed is in its map under the key that the category
still has). `NotClose` is the lemma behind `NoTwins`: when no key is near, the nearest of
all is not, and distances of at most two have a least one.

`MatchIsNearest` compares with a count of edits and needs two things more. `AllMatched`,
an invariant on top of `IInv`, keeps what the choice established: the category of a
row is that of a nearest key in the map, or no key is near (`FuzzyMatch` returns one
of the nearest whatever the order of the map). `LevenshteinCountsEdits` then
turns the table's numbers into edits (`WithinCounts`, `NearIs`).

**`CategoryMatchProofs`.** `LevenshteinCountsEdits`: the code's table holds at most `n` exactly
if at most `n` single edits turn one word into the other, for words of any
length over any alphabet. The table is unfolded once, into rows of which each
entry follows from its three neighbours (`IsTable`). One direction (`EditsNeeded`):
the tables of two neighbouring words differ by at most one in each column, by
induction on the rows after the edited letter, so a path of `n` edits cannot
come further than `n`. The other (`EditsSuffice`): the words that are made of the first
`j` letters of the one and the rest of the other (`Mixed`) are joined by paths as
long as the entries of the table. Both are inductions over numbers, by the
well-foundedness of the order on them.

**`TeamSuggestionProofs`.** `IInv` adds `Counted` (who is picked was counted and has the
instrument as his own), `InOrder` (within a group the count follows the names) and,
while nothing has changed, `ReadsHold` (what was read is what the tables hold) and
`BestPicked` (who is picked comes before all who were counted). The last instrument by
name exists because a bounded set of numbers has a least gap to the bound
(`LastByName`, from the well-foundedness of the numbers). `ServedIs` splits what the query counts into slots of
the last weeks and slots to come, which have no date in common; `PassedOverForCause` says that
who has played less lately than the one suggested is planned for more.

**`SessionProofs`, the browser and the server.** `BInv` is the invariant of `AuthSessions` and a client's half, so
that the steps of the server need no second proof: what the browser makes the
server do is a step of `AuthSessions` or the release of a slot (`ReleaseStep`), and what
`AuthSessions` keeps holds for the composition too (`ServerKeepsItsPromises`, `BrowserKeepsTokens`). The
client's half says what a call has to do with the request in its slot (`Calling`), that
a token on its way to the browser is nobody else's and was never shown (`Made`),
and, as long as no answer was lost, two things about a token that was exchanged:
if only one tab has shown it, the call that refreshes with it has exchanged it
itself (`OwnRotation`), and the cookie is such a token only while the answer is on its way
(`CookieRotation`). The two need each other: a refresh that starts with an exchanged
cookie finds by the second a call that has shown it, of another tab, since its own
has no refresh in flight. `KickedForCause` follows: a refusal without one of the listed
reasons would be that of a call that has exchanged its own token, whose answer is
not a refusal.

Only model-checked: `ProfileFades` and `EveryCallSettles`, since liveness under
fairness is out of the reach of these proofs.

## 5. Not modelled

Agenda, preaching and notifications have no backend code. Pages and components of
the web client are forms over the API. List queries, response builders,
configuration and key loading keep no state. The mailer and the storage port
have no implementation in the repository. Of the client's session the sign-out is
not modelled: its functions are exported and no page calls them. Descriptive
columns are left out everywhere; an edit that empties one of them because its
form does not send it (`handlers/inventory.go:416`) is listed as a hazard without a property.

## 6. Plan

Done: all components with state. What could follow, in this order:

1. Abstract specifications of what is so far stated property by property: the numbers
   of `AssetNumbers` (a number is given once, in order) and the roles in an access
   token of `MemberRoles` (what a token says was true when it was made).
2. `AuthSessions` with the roles of `MemberRoles`, so that a refresh and the change of a role
   meet in one model.
3. Two churches in `AssetNumbers`, for the foreign key of an item's category.
