---------------------------- MODULE MemberRoles ----------------------------
(***************************************************************************)
(* Members, their roles and the profile in their access tokens (backend    *)
(* services/member_service.go, adapters/postgres/member_repo.go,           *)
(* handlers/members.go, handlers/roles.go, and the reads of                *)
(* adapters/postgres/auth_repo.go that an access token is made from).      *)
(*                                                                         *)
(* What a request may do is decided by the profile in its access token,    *)
(* which was read from the tables up to 15 minutes ago and is not read     *)
(* again.  A step is one SQL statement or transaction of one request;      *)
(* reads of what cannot change any more (a membership is never ended, a    *)
(* role never changes its church) count with the statement that follows.   *)
(***************************************************************************)
EXTENDS Naturals, Sequences

CONSTANTS
    Members,        \* e-mail addresses, each for at most one account
    Churches,
    Founder,        \* Founder[c]: who registers church c
    Roles,          \* identities of role rows
    SystemRoles,    \* those the schema seeds for all churches
    SystemProfile,  \* SystemProfile[x]: the profile of a system role
    PastorRole,     \* the system role a registration assigns
    RoleNames,      \* names a client may send for a role
    RoleProfiles,   \* base profiles a client may send for a role
    Cards,          \* name, phone and birth date that a client may send
    RoleSets,       \* the role_ids a client may send with a new member
    Sheets,         \* the lists of rows a client may import
    Requests,       \* requests the server can be serving at a time
    None

Profile == {"pastor", "leadership", "musician", "member"}

ASSUME ParametersOK ==
    /\ Founder \in [Churches -> Members]
    /\ SystemRoles \subseteq Roles /\ PastorRole \in SystemRoles
    /\ SystemProfile \in [SystemRoles -> Profile]
    /\ RoleProfiles \subseteq Profile
    /\ RoleSets \subseteq SUBSET Roles
    /\ Sheets \subseteq Seq(Members)

ASSUME NoneIsNew ==
    None \notin Members \cup Churches \cup Roles \cup RoleNames \cup Cards \cup Profile

VARIABLES
    member,  \* member[m]: the account and its only membership
    role,    \* role[x]: the row of roles
    held,    \* held[m]: the roles assigned to the membership of m
    pass,    \* pass[m]: the profiles in the unexpired access tokens of m
    req      \* req[r]: the request served in slot r

vars == <<member, role, held, pass, req>>

\* password: chosen at registration, or a random one that nobody is told; no
\* operation sets another.
MemberRow ==
    [state : {"absent", "active", "inactive"}, church : Churches \cup {None},
     card : Cards \cup {None}, password : {"chosen", "random"}]

\* A system role has no church.
RoleRow ==
    [state : {"absent", "stored", "deleted"}, church : Churches \cup {None},
     name : RoleNames \cup {None}, profile : Profile]

\* pc is the statement that the request runs next.  told is what an import
\* says of each row so far, made is history: the accounts the request created.
Request ==
    [op : {"none", "register", "enter", "create", "import", "update", "deactivate",
           "assign", "remove", "createRole", "updateRole", "deleteRole"},
     pc : {"roles", "issue", "insert", "row", "update", "assign", "updateRole",
           "deleteRole", "over"},
     user : Members \cup {None}, member : Members \cup {None},
     role : Roles \cup {None}, roles : SUBSET Roles,
     name : RoleNames \cup {None}, profile : Profile, card : Cards \cup {None},
     sheet : Seq(Members), told : Seq({"created", "skipped", "error"}),
     made : SUBSET Members,
     answer : {"none", "ok", "refused", "error", "lost"}]

TypeOK ==
    /\ member \in [Members -> MemberRow]
    /\ role \in [Roles -> RoleRow]
    /\ held \in [Members -> SUBSET Roles]
    /\ pass \in [Members -> SUBSET Profile]
    /\ req \in [Requests -> Request]

NoMember == [state |-> "absent", church |-> None, card |-> None,
             password |-> "random"]

NoRole == [state |-> "absent", church |-> None, name |-> None, profile |-> "member"]

NoRequest ==
    [op |-> "none", pc |-> "over", user |-> None, member |-> None, role |-> None,
     roles |-> {}, name |-> None, profile |-> "member", card |-> None,
     sheet |-> <<>>, told |-> <<>>, made |-> {}, answer |-> "none"]

Init ==
    /\ member = [m \in Members |-> NoMember]
    /\ role = [x \in Roles |->
                 IF x \in SystemRoles
                   THEN [NoRole EXCEPT !.state = "stored", !.profile = SystemProfile[x]]
                   ELSE NoRole]
    /\ held = [m \in Members |-> {}]
    /\ pass = [m \in Members |-> {}]
    /\ req = [r \in Requests |-> NoRequest]

-----------------------------------------------------------------------------
(* The repository.  Operators named "...Bug" are not part of the           *)
(* specification: each is the definition that follows it with one          *)
(* plausible mistake, which the checked properties must tell apart.        *)

Exists(m)  == member[m].state # "absent"
Stored(x)  == role[x].state = "stored"

Rank == [pastor |-> 4, leadership |-> 3, musician |-> 2, member |-> 1]

ProfilesOf(m) == {role[x].profile : x \in held[m]} \cup {"member"}

\* highestProfile: a member without a role counts as "member".
Highest(m) == CHOOSE p \in ProfilesOf(m) : \A q \in ProfilesOf(m) : Rank[q] <= Rank[p]

\* The read of the account without its church.
InChurchBug(m, c) == Exists(m)

\* The join with member_church_memberships of the church, active or not.
InChurch(m, c) == Exists(m) /\ member[m].church = c

\* GetRoleByID alone.
AccessibleBug(x, c) == Stored(x)

\* GetRoleByID and the comparison of its church with the one in the token.
Accessible(x, c) == Stored(x) /\ (x \in SystemRoles \/ role[x].church = c)

\* WHERE id AND church_id AND is_system = FALSE.
OwnRole(x, c) == Stored(x) /\ x \notin SystemRoles /\ role[x].church = c

\* UNIQUE (church_id, name) leaves the system roles out: their church is NULL.
NameTaken(c, n, x) == \E y \in Roles \ {x} : OwnRole(y, c) /\ role[y].name = n

\* The insert that is not stopped by UNIQUE (email).
RepoCreateMemberBug(m, c, password, R) ==
    /\ \A x \in R : Stored(x)
    /\ member' = [member EXCEPT ![m] =
          [state |-> "active", church |-> c, card |-> None, password |-> password]]
    /\ held' = [held EXCEPT ![m] = R]

\* Account, membership and assignments in one transaction: UNIQUE (email), and
\* the foreign key of each assignment.
RepoCreateMember(m, c, password, R) ==
    /\ ~Exists(m)
    /\ \A x \in R : Stored(x)
    /\ member' = [member EXCEPT ![m] =
          [state |-> "active", church |-> c, card |-> None, password |-> password]]
    /\ held' = [held EXCEPT ![m] = R]

RepoUpdateMember(m, card) == member' = [member EXCEPT ![m].card = card]

RepoDeactivate(m) == member' = [member EXCEPT ![m].state = "inactive"]

\* UNIQUE (membership_id, role_id) and the foreign key to roles.
RepoAssignRole(m, x) ==
    /\ Stored(x) /\ x \notin held[m]
    /\ held' = [held EXCEPT ![m] = @ \cup {x}]

RepoRemoveRole(m, x) == held' = [held EXCEPT ![m] = @ \ {x}]

\* The insert with name and profile swapped.
RepoCreateRoleBug(x, c, n, p) ==
    /\ role[x].state = "absent" /\ ~NameTaken(c, n, x)
    /\ role' = [role EXCEPT ![x] =
                  [state |-> "stored", church |-> c, name |-> p, profile |-> n]]

RepoCreateRole(x, c, n, p) ==
    /\ role[x].state = "absent" /\ ~NameTaken(c, n, x)
    /\ role' = [role EXCEPT ![x] =
                  [state |-> "stored", church |-> c, name |-> n, profile |-> p]]

RepoUpdateRole(x, c, n, p) ==
    /\ OwnRole(x, c) /\ ~NameTaken(c, n, x)
    /\ role' = [role EXCEPT ![x] =
                  [state |-> "stored", church |-> c, name |-> n, profile |-> p]]

InUse(x) == \E m \in Members : x \in held[m]

\* A role is deleted whether or not somebody holds it.
RepoDeleteRoleBug(x, c) ==
    /\ OwnRole(x, c)
    /\ role' = [role EXCEPT ![x] = [NoRole EXCEPT !.state = "deleted", !.church = c]]

\* ON DELETE RESTRICT.
RepoDeleteRole(x, c) ==
    /\ OwnRole(x, c) /\ ~InUse(x)
    /\ role' = [role EXCEPT ![x] = [NoRole EXCEPT !.state = "deleted", !.church = c]]

-----------------------------------------------------------------------------
(* Requests.                                                               *)

Free(r) == req[r].pc = "over"

\* RequireProfile looks at the access token only.
May(u, least) == \E p \in pass[u] : Rank[p] >= Rank[least]

Begin(r, u, least) == Free(r) /\ May(u, least)

Call(op, u) == [NoRequest EXCEPT !.op = op, !.user = u]

Continue(r, call, pc) == req' = [req EXCEPT ![r] = [call EXCEPT !.pc = pc]]

\* A request that is over keeps who asked; only an import keeps what it was
\* asked, what it did and what it answered.
Finish(r, call, answer) ==
    req' = [req EXCEPT ![r] =
              IF call.op = "import" THEN [call EXCEPT !.pc = "over", !.answer = answer]
                                    ELSE Call("none", call.user)]

Grant(m, p) == pass' = [pass EXCEPT ![m] = @ \cup {p}]

\* POST /auth/register: church, account and the role of the pastor in one
\* transaction; the token that follows may not be stored.
Register(r, c) ==
    LET m == Founder[c]
        call == Call("register", m) IN
    /\ Free(r)
    /\ \/ /\ RepoCreateMember(m, c, "chosen", {PastorRole})
          /\ \/ Grant(m, role[PastorRole].profile) /\ Finish(r, call, "ok")
             \/ UNCHANGED pass /\ Finish(r, call, "lost")
       \/ /\ Exists(m)
          /\ Finish(r, call, "refused")
          /\ UNCHANGED <<member, held, pass>>
    /\ UNCHANGED role

\* The read of the account without "AND m.is_active = TRUE".
FindActiveBug(m) == Exists(m)

FindActive(m) == member[m].state = "active"

\* POST /auth/login and /auth/refresh: the account is read, and a refresh
\* token stems from a login with the password ...
Enter(r, m) ==
    LET call == Call("enter", m)
        allowed == FindActive(m) /\ member[m].password = "chosen" IN
    /\ Free(r) /\ Exists(m)
    /\ \/ allowed /\ Continue(r, call, "roles")
       \/ ~allowed /\ Finish(r, call, "refused")
    /\ UNCHANGED <<member, role, held, pass>>

\* A new token that takes over the profile of the one it replaces.
ReadRolesBug(r) ==
    LET m == req[r].user IN
    /\ req[r].pc = "roles"
    /\ \E p \in IF pass[m] = {} THEN {Highest(m)} ELSE pass[m] :
          Continue(r, [req[r] EXCEPT !.profile = p], "issue")
    /\ UNCHANGED <<member, role, held, pass>>

\* ... then its roles ...
ReadRoles(r) ==
    /\ req[r].pc = "roles"
    /\ Continue(r, [req[r] EXCEPT !.profile = Highest(req[r].user)], "issue")
    /\ UNCHANGED <<member, role, held, pass>>

\* ... and the access token is made of what they were.
Issue(r) ==
    /\ req[r].pc = "issue"
    /\ Grant(req[r].user, req[r].profile)
    /\ Finish(r, req[r], "ok")
    /\ UNCHANGED <<member, role, held>>

\* POST /members: the roles are looked up one by one ...
CreateMember(r, u, m, R) ==
    LET call == [Call("create", u) EXCEPT !.member = m, !.roles = R]
        accessible == \A x \in R : Accessible(x, member[u].church) IN
    /\ Begin(r, u, "leadership")
    /\ \/ accessible /\ Continue(r, call, "insert")
       \/ ~accessible /\ Finish(r, call, "refused")
    /\ UNCHANGED <<member, role, held, pass>>

\* ... and the account is made; the read-back after the commit may fail.
InsertMember(r) ==
    LET call == req[r] IN
    /\ call.pc = "insert"
    /\ \/ /\ RepoCreateMember(call.member, member[call.user].church, "random", call.roles)
          /\ \E told \in {"ok", "error"} : Finish(r, call, told)
       \/ /\ Exists(call.member)
          /\ Finish(r, call, "refused")
          /\ UNCHANGED <<member, held>>
       \/ /\ ~Exists(call.member) /\ \E x \in call.roles : ~Stored(x)
          /\ Finish(r, call, "error")
          /\ UNCHANGED <<member, held>>
    /\ UNCHANGED <<role, pass>>

\* POST /members/import.
ImportMembers(r, u, sheet) ==
    LET call == [Call("import", u) EXCEPT !.sheet = sheet] IN
    /\ Begin(r, u, "leadership")
    /\ \/ sheet # <<>> /\ Continue(r, call, "row")
       \/ sheet = <<>> /\ Finish(r, call, "ok")
    /\ UNCHANGED <<member, role, held, pass>>

\* What becomes of a row is noted; after the last one the answer is 200.
Tell(r, call, what) ==
    LET next == [call EXCEPT !.told = Append(@, what)] IN
    \/ Len(next.told) < Len(call.sheet) /\ Continue(r, next, "row")
    \/ Len(next.told) = Len(call.sheet) /\ Finish(r, next, "ok")

\* One row of an import: an account without roles, of which the read-back may
\* fail; a taken e-mail; a failed statement, and every row after the deadline.
ImportRow(r) ==
    LET call == req[r]
        m == call.sheet[Len(call.told) + 1] IN
    /\ call.pc = "row"
    /\ \/ /\ RepoCreateMember(m, member[call.user].church, "random", {})
          /\ \E what \in {"created", "error"} :
                Tell(r, [call EXCEPT !.made = @ \cup {m}], what)
       \/ Exists(m) /\ Tell(r, call, "skipped") /\ UNCHANGED <<member, held>>
       \/ Tell(r, call, "error") /\ UNCHANGED <<member, held>>
    /\ UNCHANGED <<role, pass>>

\* PUT /members/{id} and /members/me: the membership is looked up ...
UpdateMember(r, u, m, card) ==
    LET call == [Call("update", u) EXCEPT !.member = m, !.card = card] IN
    /\ Begin(r, u, IF m = u THEN "member" ELSE "leadership") /\ Exists(m)
    /\ \/ InChurch(m, member[u].church) /\ Continue(r, call, "update")
       \/ ~InChurch(m, member[u].church) /\ Finish(r, call, "refused")
    /\ UNCHANGED <<member, role, held, pass>>

\* ... and the account written by its id.
WriteMember(r) ==
    /\ req[r].pc = "update"
    /\ RepoUpdateMember(req[r].member, req[r].card)
    /\ Finish(r, req[r], "ok")
    /\ UNCHANGED <<role, held, pass>>

\* DELETE /members/{id}.
DeactivateMember(r, u, m) ==
    LET call == Call("deactivate", u) IN
    /\ Begin(r, u, "pastor") /\ Exists(m)
    /\ \/ InChurch(m, member[u].church) /\ RepoDeactivate(m) /\ Finish(r, call, "ok")
       \/ ~InChurch(m, member[u].church) /\ Finish(r, call, "refused") /\ UNCHANGED member
    /\ UNCHANGED <<role, held, pass>>

\* POST /members/{id}/roles: the role is looked up ...
AssignRole(r, u, m, x) ==
    LET call == [Call("assign", u) EXCEPT !.member = m, !.role = x]
        accessible == Accessible(x, member[u].church) IN
    /\ Begin(r, u, "leadership") /\ Exists(m)
    /\ \/ accessible /\ Continue(r, call, "assign")
       \/ ~accessible /\ Finish(r, call, "refused")
    /\ UNCHANGED <<member, role, held, pass>>

\* ... the membership too, and the assignment stored.  Nothing asks whether
\* the account is active.
InsertAssignment(r) ==
    LET call == req[r]
        m == call.member
        x == call.role
        found == InChurch(m, member[call.user].church) IN
    /\ call.pc = "assign"
    /\ \/ found /\ RepoAssignRole(m, x) /\ Finish(r, call, "ok")
       \/ ~found /\ Finish(r, call, "refused") /\ UNCHANGED held
       \/ found /\ x \in held[m] /\ Finish(r, call, "refused") /\ UNCHANGED held
       \/ found /\ ~Stored(x) /\ Finish(r, call, "error") /\ UNCHANGED held
    /\ UNCHANGED <<member, role, pass>>

\* DELETE /members/{id}/roles/{role_id}: one statement.
RemoveRole(r, u, m, x) ==
    LET call == Call("remove", u)
        found == InChurch(m, member[u].church) /\ x \in held[m] IN
    /\ Begin(r, u, "leadership") /\ Exists(m)
    /\ \/ found /\ RepoRemoveRole(m, x) /\ Finish(r, call, "ok")
       \/ ~found /\ Finish(r, call, "refused") /\ UNCHANGED held
    /\ UNCHANGED <<member, role, pass>>

\* POST /roles.
CreateRole(r, u, x, n, p) ==
    LET call == Call("createRole", u)
        c == member[u].church IN
    /\ Begin(r, u, "pastor")
    /\ \/ RepoCreateRole(x, c, n, p) /\ Finish(r, call, "ok")
       \/ NameTaken(c, n, None) /\ Finish(r, call, "refused") /\ UNCHANGED role
    /\ UNCHANGED <<member, held, pass>>

\* PUT /roles/{id}: the read ...
UpdateRole(r, u, x, n, p) ==
    LET call == [Call("updateRole", u) EXCEPT !.role = x, !.name = n, !.profile = p]
        own == OwnRole(x, member[u].church) IN
    /\ Begin(r, u, "pastor") /\ role[x].state # "absent"
    /\ \/ own /\ Continue(r, call, "updateRole")
       \/ ~own /\ Finish(r, call, "refused")
    /\ UNCHANGED <<member, role, held, pass>>

\* ... and the update; here a name that is taken is an internal error.
WriteRole(r) ==
    LET call == req[r]
        c == member[call.user].church IN
    /\ call.pc = "updateRole"
    /\ \/ RepoUpdateRole(call.role, c, call.name, call.profile) /\ Finish(r, call, "ok")
       \/ ~OwnRole(call.role, c) /\ Finish(r, call, "refused") /\ UNCHANGED role
       \/ /\ OwnRole(call.role, c) /\ NameTaken(c, call.name, call.role)
          /\ Finish(r, call, "error")
          /\ UNCHANGED role
    /\ UNCHANGED <<member, held, pass>>

\* DELETE /roles/{id}: the read ...
DeleteRole(r, u, x) ==
    LET call == [Call("deleteRole", u) EXCEPT !.role = x]
        own == OwnRole(x, member[u].church) IN
    /\ Begin(r, u, "pastor") /\ role[x].state # "absent"
    /\ \/ own /\ Continue(r, call, "deleteRole")
       \/ ~own /\ Finish(r, call, "refused")
    /\ UNCHANGED <<member, role, held, pass>>

\* ... and the delete; a role that somebody holds is an internal error.
EraseRole(r) ==
    LET call == req[r]
        c == member[call.user].church IN
    /\ call.pc = "deleteRole"
    /\ \/ RepoDeleteRole(call.role, c) /\ Finish(r, call, "ok")
       \/ ~OwnRole(call.role, c) /\ Finish(r, call, "refused") /\ UNCHANGED role
       \/ OwnRole(call.role, c) /\ InUse(call.role) /\ Finish(r, call, "error") /\ UNCHANGED role
    /\ UNCHANGED <<member, held, pass>>

\* The timeout, a lost connection or a failed statement ends a request.
Abort(r) ==
    /\ ~Free(r)
    /\ Finish(r, req[r], "lost")
    /\ UNCHANGED <<member, role, held, pass>>

\* 15 minutes have passed.
ExpirePass(m, p) ==
    /\ p \in pass[m]
    /\ pass' = [pass EXCEPT ![m] = @ \ {p}]
    /\ UNCHANGED <<member, role, held, req>>

\* A request that has begun goes on.
Step(r) ==
    \/ ReadRoles(r) \/ Issue(r) \/ InsertMember(r) \/ ImportRow(r) \/ WriteMember(r)
    \/ InsertAssignment(r) \/ WriteRole(r) \/ EraseRole(r) \/ Abort(r)

Next ==
    \/ \E r \in Requests :
          \/ Step(r)
          \/ \E c \in Churches : Register(r, c)
          \/ \E m \in Members : Enter(r, m)
          \/ \E u, m \in Members :
                \/ \E R \in RoleSets : CreateMember(r, u, m, R)
                \/ \E card \in Cards : UpdateMember(r, u, m, card)
                \/ DeactivateMember(r, u, m)
                \/ \E x \in Roles : AssignRole(r, u, m, x) \/ RemoveRole(r, u, m, x)
          \/ \E u \in Members, sheet \in Sheets : ImportMembers(r, u, sheet)
          \/ \E u \in Members, x \in Roles :
                \/ \E n \in RoleNames, p \in RoleProfiles :
                      CreateRole(r, u, x, n, p) \/ UpdateRole(r, u, x, n, p)
                \/ DeleteRole(r, u, x)
    \/ \E m \in Members, p \in Profile : ExpirePass(m, p)

Spec == Init /\ [][Next]_vars

\* The server serves every request to its end (30 seconds at most) and time
\* passes.  Nobody has to ask for anything.
Fairness ==
    /\ \A r \in Requests : WF_vars(Step(r))
    /\ \A m \in Members, p \in Profile : WF_vars(ExpirePass(m, p))

FairSpec == Spec /\ Fairness

-----------------------------------------------------------------------------
(* Properties.                                                             *)

\* Whoever holds a role has an account, and the role is stored and one of the
\* church or of the system, although it may be deleted between the look at it
\* and the assignment.
AssignmentsSound ==
    \A m \in Members : \A x \in held[m] :
        /\ Exists(m) /\ Stored(x)
        /\ x \in SystemRoles \/ role[x].church = member[m].church

WritesOwnChurch ==
    \A r \in Requests : req'[r] # req[r] =>
        LET u == req'[r].user
            c == member'[u].church IN
        /\ \A m \in Members :
              /\ <<member'[m], held'[m]>> # <<member[m], held[m]>> => member'[m].church = c
              /\ pass'[m] # pass[m] => m = u
        /\ \A x \in Roles : role'[x] # role[x] => role'[x].church = c

\* A request writes accounts, roles and assignments of the church of the one
\* who asked only, never a system role, although the update of an account
\* does not name the church; it issues a token to nobody else.
WithinChurch == [][WritesOwnChurch]_vars

\* What the import in r told of its rows agrees with what it did.
ToldTrue(r) ==
    LET sheet == req[r].sheet
        told == req[r].told IN
    /\ Len(told) = Len(sheet)
    /\ \A i \in 1..Len(told) :
          /\ told[i] = "created" => sheet[i] \in req[r].made
          /\ told[i] = "skipped" => Exists(sheet[i])
    /\ \A m \in req[r].made :
          \E i \in 1..Len(told) : sheet[i] = m /\ told[i] \in {"created", "error"}

Counted(r, i, m) == req[r].told[i] = "created" /\ req[r].sheet[i] = m

\* An import that has ended told each of its rows: a row it counts as created
\* is an account it made, a row it skipped has one, and what it made without
\* counting it is a row it reports as an error (the account was stored, its
\* read-back failed).  No two rows, of one import or of two that overlap,
\* count the same account.
ImportTold ==
    /\ \A r \in Requests : req[r].op = "import" /\ req[r].answer = "ok" => ToldTrue(r)
    /\ \A r, s \in Requests, m \in Members :
          \A i \in 1..Len(req[r].told), j \in 1..Len(req[s].told) :
             Counted(r, i, m) /\ Counted(s, j, m) => r = s /\ i = j

\* A profile that a member has lost for good, with the role or with the
\* account, is gone from his tokens in the end, although each token keeps what
\* was read when it was made and a request may have read it just before.
ProfileFades ==
    \A m \in Members, p \in Profile :
        <>[](member[m].state # "active" \/ Highest(m) # p) => <>[](p \notin pass[m])
=============================================================================
