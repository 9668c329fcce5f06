------------------------- MODULE MemberRolesProofs -------------------------
(***************************************************************************)
(* Proofs about MemberRoles, for any number of members, churches, roles,   *)
(* sheets and overlapping requests.                                        *)
(***************************************************************************)
EXTENDS MemberRoles, TLAPS

SystemStored == \A x \in SystemRoles : Stored(x)

\* Who has an account has a church; who has an access token has an account.
MembersNamed ==
    \A m \in Members :
        /\ Exists(m) => member[m].church \in Churches
        /\ pass[m] # {} => Exists(m)

Tables ==
    /\ member \in [Members -> MemberRow]
    /\ role \in [Roles -> RoleRow]
    /\ held \in [Members -> SUBSET Roles]
    /\ pass \in [Members -> SUBSET Profile]
    /\ SystemStored /\ MembersNamed /\ AssignmentsSound

\* A role that church c could assign once: it may be deleted since.
WasOpen(x, c) ==
    /\ x \in Roles /\ role[x].state # "absent"
    /\ x \in SystemRoles \/ role[x].church = c

\* What a request knows between two of its statements.
Running(r) ==
    LET call == req[r]
        c == member[call.user].church IN
    /\ call.pc # "over" => call.user \in Members /\ Exists(call.user)
    /\ call.pc \in {"insert", "update", "assign"} => call.member \in Members
    /\ call.pc \in {"assign", "updateRole", "deleteRole"} => call.role \in Roles
    /\ call.pc = "insert" => \A x \in call.roles : WasOpen(x, c)
    /\ call.pc = "assign" => WasOpen(call.role, c)
    /\ call.pc = "update" => InChurch(call.member, c)
    /\ call.pc = "updateRole" => call.name \in RoleNames

\* How far an import has got, and that it has told the truth so far.
Importing(r) ==
    LET call == req[r]
        sheet == req[r].sheet
        told == req[r].told IN
    /\ call.pc = "row" => call.op = "import" /\ Len(told) < Len(sheet)
    /\ call.op = "import" => call.pc \in {"row", "over"}
    /\ call.op # "import" => told = <<>> /\ sheet = <<>> /\ call.made = {}
    /\ call.pc # "over" => call.answer = "none"
    /\ Len(told) <= Len(sheet)
    /\ call.answer = "ok" => Len(told) = Len(sheet)
    /\ \A i \in 1..Len(told) :
          /\ told[i] = "created" => sheet[i] \in call.made
          /\ told[i] = "skipped" => Exists(sheet[i])
    /\ \A m \in call.made :
          /\ Exists(m)
          /\ \E i \in 1..Len(told) : sheet[i] = m /\ told[i] \in {"created", "error"}

\* No account is counted by two rows.
CountedOnce ==
    \A r, s \in Requests, m \in Members :
        \A i \in 1..Len(req[r].told), j \in 1..Len(req[s].told) :
            Counted(r, i, m) /\ Counted(s, j, m) => r = s /\ i = j

IInv ==
    /\ Tables
    /\ req \in [Requests -> Request]
    /\ CountedOnce
    /\ \A r \in Requests : Running(r) /\ Importing(r)

\* Accounts and roles do not disappear and do not change their church.
Forward ==
    /\ \A m \in Members : Exists(m) =>
          member'[m].state # "absent" /\ member'[m].church = member[m].church
    /\ \A x \in Roles : role[x].state # "absent" =>
          role'[x].state # "absent" /\ role'[x].church = role[x].church

-----------------------------------------------------------------------------
(* The highest profile.                                                    *)

LEMMA RankMaximal ==
    ASSUME NEW S \in SUBSET Profile, S # {}
    PROVE  \E p \in S : \A q \in S : Rank[q] <= Rank[p]
<1>1. CASE "pastor" \in S
  BY <1>1 DEF Rank, Profile
<1>2. CASE "pastor" \notin S /\ "leadership" \in S
  BY <1>2 DEF Rank, Profile
<1>3. CASE "pastor" \notin S /\ "leadership" \notin S /\ "musician" \in S
  BY <1>3 DEF Rank, Profile
<1>4. CASE S = {"member"}
  BY <1>4 DEF Rank, Profile
<1>5. QED
  BY <1>1, <1>2, <1>3, <1>4 DEF Profile

LEMMA HighestOK ==
    ASSUME Tables, NEW m \in Members
    PROVE  Highest(m) \in Profile
<1>1. ProfilesOf(m) \in SUBSET Profile /\ ProfilesOf(m) # {}
  BY DEF Tables, ProfilesOf, RoleRow, Profile
<1>2. \E p \in ProfilesOf(m) : \A q \in ProfilesOf(m) : Rank[q] <= Rank[p]
  BY <1>1, RankMaximal
<1>3. Highest(m) \in ProfilesOf(m)
  BY <1>2 DEF Highest
<1>4. QED
  BY <1>1, <1>3

-----------------------------------------------------------------------------
(* What a statement does to the tables.                                    *)

\* An account is made, and a registration grants its first access token.
LEMMA CreateMemberStep ==
    ASSUME Tables, NEW m \in Members, NEW c \in Churches,
           NEW password \in {"chosen", "random"}, NEW R \in SUBSET Roles,
           \A x \in R : x \in SystemRoles \/ role[x].church = c,
           RepoCreateMember(m, c, password, R), UNCHANGED role,
           UNCHANGED pass \/ \E p \in Profile : Grant(m, p)
    PROVE  Tables' /\ Forward /\ member'[m].state # "absent"
<1> DEFINE row == [state |-> "active", church |-> c, card |-> None, password |-> password]
<1>1. /\ row \in MemberRow /\ row.state = "active" /\ row.church = c
      /\ member' = [member EXCEPT ![m] = row] /\ held' = [held EXCEPT ![m] = R]
      /\ ~Exists(m) /\ \A x \in R : Stored(x)
  BY DEF RepoCreateMember, MemberRow
<1> HIDE DEF row
<1>2. /\ member' \in [Members -> MemberRow] /\ held' \in [Members -> SUBSET Roles]
      /\ member'[m] = row /\ held'[m] = R
      /\ \A n \in Members \ {m} : member'[n] = member[n] /\ held'[n] = held[n]
  BY <1>1 DEF Tables
<1>3. /\ pass' \in [Members -> SUBSET Profile]
      /\ \A n \in Members \ {m} : pass'[n] = pass[n]
  BY DEF Tables, Grant
<1>4. Forward /\ member'[m].state # "absent"
  BY <1>1, <1>2 DEF Forward, Exists
<1>5. MembersNamed'
  BY <1>1, <1>2, <1>3 DEF Tables, MembersNamed, Exists
<1>6. AssignmentsSound'
  BY <1>1, <1>2 DEF Tables, AssignmentsSound, Exists, Stored
<1>7. QED
  BY <1>2, <1>3, <1>4, <1>5, <1>6 DEF Tables, SystemStored, Stored

\* An account is edited or deactivated.
LEMMA WriteMemberStep ==
    ASSUME Tables, NEW m \in Members, Exists(m),
           (\E card \in Cards \cup {None} : RepoUpdateMember(m, card)) \/ RepoDeactivate(m),
           UNCHANGED <<role, held, pass>>
    PROVE  Tables' /\ Forward
<1>1. /\ member' \in [Members -> MemberRow]
      /\ member'[m].church = member[m].church /\ member'[m].state # "absent"
      /\ \A n \in Members \ {m} : member'[n] = member[n]
  BY DEF Tables, MemberRow, RepoUpdateMember, RepoDeactivate, Exists
<1>2. \A n \in Members : Exists(n)' <=> Exists(n)
  BY <1>1 DEF Exists
<1>3. \A n \in Members : member'[n].church = member[n].church
  BY <1>1
<1>4. QED
  BY <1>1, <1>2, <1>3
     DEF Tables, Forward, MembersNamed, AssignmentsSound, SystemStored, Stored, Exists

\* A role is assigned or removed.
LEMMA AssignStep ==
    ASSUME Tables, NEW m \in Members, Exists(m), NEW x \in Roles,
           x \in SystemRoles \/ role[x].church = member[m].church,
           RepoAssignRole(m, x) \/ RepoRemoveRole(m, x),
           UNCHANGED <<member, role, pass>>
    PROVE  Tables' /\ Forward
<1>1. /\ held' \in [Members -> SUBSET Roles]
      /\ \A n \in Members \ {m} : held'[n] = held[n]
      /\ \A y \in held'[m] : y \in held[m] \/ (y = x /\ Stored(x))
  BY DEF Tables, RepoAssignRole, RepoRemoveRole
<1>2. AssignmentsSound'
  BY <1>1 DEF Tables, AssignmentsSound, Exists, Stored
<1>3. QED
  BY <1>1, <1>2 DEF Tables, Forward, MembersNamed, SystemStored, Stored, Exists

\* An access token is issued or has expired.
LEMMA PassStep ==
    ASSUME Tables, NEW m \in Members, Exists(m), NEW p \in Profile,
           Grant(m, p) \/ pass' = [pass EXCEPT ![m] = @ \ {p}],
           UNCHANGED <<member, role, held>>
    PROVE  Tables' /\ Forward
<1>1. /\ pass' \in [Members -> SUBSET Profile]
      /\ \A n \in Members \ {m} : pass'[n] = pass[n]
  BY DEF Tables, Grant
<1>2. QED
  BY <1>1 DEF Tables, Forward, MembersNamed, AssignmentsSound, SystemStored, Stored, Exists

\* A role is made, edited or deleted.
LEMMA WriteRoleStep ==
    ASSUME Tables, NEW x \in Roles, NEW c \in Churches,
           \/ \E n \in RoleNames, p \in Profile :
                 RepoCreateRole(x, c, n, p) \/ RepoUpdateRole(x, c, n, p)
           \/ RepoDeleteRole(x, c),
           UNCHANGED <<member, held, pass>>
    PROVE  Tables' /\ Forward /\ role'[x].church = c
<1>1. /\ role' \in [Roles -> RoleRow]
      /\ \A y \in Roles \ {x} : role'[y] = role[y]
      /\ role'[x].state # "absent" /\ role'[x].church = c
  <2>1. PICK new \in RoleRow :
           role' = [role EXCEPT ![x] = new] /\ new.state # "absent" /\ new.church = c
    <3>1. ASSUME NEW n \in RoleNames, NEW p \in Profile,
                 RepoCreateRole(x, c, n, p) \/ RepoUpdateRole(x, c, n, p)
          PROVE  \E new \in RoleRow :
                    role' = [role EXCEPT ![x] = new] /\ new.state # "absent" /\ new.church = c
      <4> DEFINE new == [state |-> "stored", church |-> c, name |-> n, profile |-> p]
      <4>1. /\ new \in RoleRow /\ new.state # "absent" /\ new.church = c
            /\ role' = [role EXCEPT ![x] = new]
        BY <3>1 DEF RoleRow, RepoCreateRole, RepoUpdateRole
      <4>2. QED
        BY <4>1
    <3>2. ASSUME RepoDeleteRole(x, c)
          PROVE  \E new \in RoleRow :
                    role' = [role EXCEPT ![x] = new] /\ new.state # "absent" /\ new.church = c
      <4> DEFINE new == [NoRole EXCEPT !.state = "deleted", !.church = c]
      <4>1. /\ new \in RoleRow /\ new.state # "absent" /\ new.church = c
            /\ role' = [role EXCEPT ![x] = new]
        BY <3>2 DEF RoleRow, NoRole, Profile, RepoDeleteRole
      <4>2. QED
        BY <4>1
    <3>3. QED
      BY <3>1, <3>2
  <2>2. QED
    BY <2>1 DEF Tables
<1>2. role[x].state = "absent" \/ (x \notin SystemRoles /\ role[x].church = c)
  BY DEF RepoCreateRole, RepoUpdateRole, RepoDeleteRole, OwnRole
<1>3. \/ role[x].state = "absent"
      \/ role'[x].state = "stored"
      \/ \A m \in Members : x \notin held[m]
  BY <1>1 DEF Tables, RoleRow, RepoCreateRole, RepoUpdateRole, RepoDeleteRole, InUse
<1>4. Forward
  BY <1>1, <1>2 DEF Forward, Exists
<1>5. SystemStored'
  BY <1>1, <1>2, ParametersOK DEF Tables, SystemStored, Stored
<1>6. AssignmentsSound'
  BY <1>1, <1>2, <1>3 DEF Tables, AssignmentsSound, Exists, Stored
<1>7. QED
  BY <1>1, <1>4, <1>5, <1>6 DEF Tables, MembersNamed, Exists

LEMMA QuietStep ==
    ASSUME Tables, UNCHANGED <<member, role, held, pass>>
    PROVE  Tables' /\ Forward
BY DEF Tables, Forward, MembersNamed, AssignmentsSound, SystemStored, Stored, Exists

-----------------------------------------------------------------------------
(* The frame of a step.                                                    *)

\* It is enough to look at the slot that moved, and at what it counts.
LEMMA SlotFrame ==
    ASSUME IInv, Tables', Forward, NEW r \in Requests, NEW new \in Request,
           req' = [req EXCEPT ![r] = new], Running(r)', Importing(r)',
           \A i \in 1..Len(new.told), m \in Members :
              new.told[i] = "created" /\ new.sheet[i] = m =>
                 /\ \A j \in 1..Len(new.told) :
                       new.told[j] = "created" /\ new.sheet[j] = m => i = j
                 /\ \A s \in Requests \ {r} : \A j \in 1..Len(req[s].told) :
                       ~Counted(s, j, m)
    PROVE  IInv'
<1>1. req' \in [Requests -> Request] /\ req'[r] = new
  BY DEF IInv
<1>2. \A q \in Requests \ {r} : req'[q] = req[q]
  BY DEF IInv
<1>3. ASSUME NEW q \in Requests \ {r}
      PROVE  Running(q)'
  <2>1. req'[q] = req[q]
    BY <1>2
  <2>2. /\ req[q].pc # "over" => req[q].user \in Members /\ Exists(req[q].user)
        /\ Running(q)
    BY DEF IInv, Running
  <2>3. req[q].pc # "over" =>
          member'[req[q].user].state # "absent"
          /\ member'[req[q].user].church = member[req[q].user].church
    BY <2>2 DEF Forward
  <2>4. req[q] \in Request
    BY DEF IInv
  <2>5. req[q].pc = "insert" => \A x \in req[q].roles : WasOpen(x, member[req[q].user].church)'
    BY <2>1, <2>2, <2>3 DEF Running, WasOpen, Forward
  <2>6. req[q].pc = "assign" => WasOpen(req[q].role, member[req[q].user].church)'
    BY <2>1, <2>2, <2>3 DEF Running, WasOpen, Forward
  <2>7. req[q].pc = "update" => InChurch(req[q].member, member[req[q].user].church)'
    BY <2>1, <2>2, <2>3 DEF Running, InChurch, Exists, Forward
  <2>8. QED
    BY <2>1, <2>2, <2>3, <2>5, <2>6, <2>7 DEF Running, Exists
<1>4. ASSUME NEW q \in Requests \ {r}
      PROVE  Importing(q)'
  <2>1. req'[q] = req[q] /\ req[q] \in Request /\ Importing(q)
    BY <1>2 DEF IInv
  <2>2. \A m \in Members : Exists(m) => Exists(m)'
    BY DEF Forward, Exists
  <2>3. /\ req[q].made \subseteq Members
        /\ \A i \in 1..Len(req[q].told) : i \in 1..Len(req[q].sheet)
        /\ \A i \in 1..Len(req[q].told) : req[q].sheet[i] \in Members
    BY <2>1 DEF Request, Importing
  <2>4. QED
    BY <2>1, <2>2, <2>3, SMTT(30) DEF Importing
<1>5. CountedOnce'
  <2>1. SUFFICES ASSUME NEW p \in Requests, NEW q \in Requests, NEW m \in Members,
                        NEW i \in 1..Len(req'[p].told), NEW j \in 1..Len(req'[q].told),
                        Counted(p, i, m)', Counted(q, j, m)'
                 PROVE  p = q /\ i = j
    BY DEF CountedOnce
  <2>2. CASE p # r /\ q # r
    BY <1>2, <2>1, <2>2 DEF IInv, CountedOnce, Counted
  <2>3. CASE p = r /\ q = r
    BY <1>1, <2>1, <2>3 DEF Counted
  <2>4. CASE p = r /\ q # r
    BY <1>1, <1>2, <2>1, <2>4 DEF Counted
  <2>5. CASE p # r /\ q = r
    BY <1>1, <1>2, <2>1, <2>5 DEF Counted
  <2>6. QED
    BY <2>2, <2>3, <2>4, <2>5
<1>6. \A q \in Requests : Running(q)' /\ Importing(q)'
  BY <1>3, <1>4
<1>7. QED
  BY <1>1, <1>5, <1>6 DEF IInv

-----------------------------------------------------------------------------
(* Requests other than imports.                                            *)

Plain(call) ==
    /\ call \in Request
    /\ call.op # "import" /\ call.told = <<>> /\ call.sheet = <<>> /\ call.made = {}
    /\ call.answer = "none"

LEMMA PlainFrame ==
    ASSUME IInv, Tables', Forward, NEW r \in Requests, NEW new, Plain(new), new.pc # "row",
           req' = [req EXCEPT ![r] = new], Running(r)'
    PROVE  IInv'
<1>1. req'[r] = new /\ new \in Request
  BY DEF IInv, Plain
<1>2. Importing(r)'
  BY <1>1 DEF Plain, Importing
<1>3. \A i \in 1..Len(new.told) : FALSE
  BY DEF Plain
<1>4. \A i \in 1..Len(new.told), m \in Members :
         new.told[i] = "created" /\ new.sheet[i] = m =>
            /\ \A j \in 1..Len(new.told) :
                  new.told[j] = "created" /\ new.sheet[j] = m => i = j
            /\ \A s \in Requests \ {r} : \A j \in 1..Len(req[s].told) : ~Counted(s, j, m)
  BY <1>3
<1>5. QED
  BY <1>1, <1>2, <1>4, SlotFrame

LEMMA PlainCall ==
    ASSUME NEW u \in Members \cup {None},
           NEW op \in {"none", "register", "enter", "create", "update", "deactivate",
                       "assign", "remove", "createRole", "updateRole", "deleteRole"}
    PROVE  /\ Plain(Call(op, u)) /\ Call(op, u).user = u /\ Call(op, u).pc = "over"
           /\ Call(op, u).op = op
<1>1. <<>> \in Seq(Members) /\ <<>> \in Seq({"created", "skipped", "error"})
  OBVIOUS
<1>2. QED
  BY <1>1 DEF Call, NoRequest, Request, Plain, Profile

LEMMA PlainEdit ==
    ASSUME NEW call, Plain(call)
    PROVE  /\ \A m \in Members : LET new == [call EXCEPT !.member = m] IN
                 Plain(new) /\ new.user = call.user /\ new.member = m
           /\ \A R \in SUBSET Roles : LET new == [call EXCEPT !.roles = R] IN
                 /\ Plain(new) /\ new.user = call.user /\ new.roles = R
                 /\ new.member = call.member
           /\ \A card \in Cards : LET new == [call EXCEPT !.card = card] IN
                 Plain(new) /\ new.user = call.user /\ new.member = call.member
           /\ \A x \in Roles : LET new == [call EXCEPT !.role = x] IN
                 /\ Plain(new) /\ new.user = call.user /\ new.role = x
                 /\ new.member = call.member
           /\ \A n \in RoleNames : LET new == [call EXCEPT !.name = n] IN
                 /\ Plain(new) /\ new.user = call.user /\ new.role = call.role
                 /\ new.name = n
           /\ \A p \in Profile : LET new == [call EXCEPT !.profile = p] IN
                 /\ Plain(new) /\ new.user = call.user /\ new.role = call.role
                 /\ new.name = call.name
BY DEF Plain, Request

LEMMA FinishStep ==
    ASSUME IInv, Tables', Forward, NEW r \in Requests, NEW call, Plain(call), NEW answer,
           Finish(r, call, answer)
    PROVE  IInv'
<1>1. req' = [req EXCEPT ![r] = Call("none", call.user)]
  BY DEF Finish, Plain
<1>2. call.user \in Members \cup {None}
  BY DEF Plain, Request
<1>3. Plain(Call("none", call.user)) /\ Call("none", call.user).pc = "over"
  BY <1>2, PlainCall
<1>4. Running(r)'
  <2>1. req'[r].pc = "over"
    BY <1>1, <1>3 DEF IInv
  <2>2. QED
    BY <2>1 DEF Running
<1>5. QED
  BY <1>1, <1>3, <1>4, PlainFrame

LEMMA ContinueStep ==
    ASSUME IInv, UNCHANGED <<member, role, held, pass>>, NEW r \in Requests,
           NEW call, Plain(call),
           NEW pc \in {"roles", "issue", "insert", "update", "assign", "updateRole",
                       "deleteRole"},
           Continue(r, call, pc), call.user \in Members, Exists(call.user),
           pc \in {"insert", "update", "assign"} => call.member \in Members,
           pc \in {"assign", "updateRole", "deleteRole"} => call.role \in Roles,
           pc = "insert" => \A x \in call.roles : WasOpen(x, member[call.user].church),
           pc = "assign" => WasOpen(call.role, member[call.user].church),
           pc = "update" => InChurch(call.member, member[call.user].church),
           pc = "updateRole" => call.name \in RoleNames
    PROVE  IInv'
<1> DEFINE new == [call EXCEPT !.pc = pc]
<1>1. /\ Plain(new) /\ new.pc = pc /\ req' = [req EXCEPT ![r] = new]
      /\ new.user = call.user /\ new.member = call.member /\ new.role = call.role
      /\ new.roles = call.roles /\ new.name = call.name
  BY DEF Plain, Request, Continue
<1>2. req'[r] = new
  BY <1>1 DEF IInv
<1> HIDE DEF new
<1>3. Tables' /\ Forward
  BY QuietStep DEF IInv
<1>4. Running(r)'
  BY <1>1, <1>2 DEF Running, WasOpen, InChurch, Exists
<1>5. QED
  BY <1>1, <1>3, <1>4, PlainFrame

\* A request under way is an import or a plain one.
LEMMA UnderWay ==
    ASSUME IInv, NEW r \in Requests, req[r].pc # "over", req[r].pc # "row"
    PROVE  /\ Plain(req[r]) /\ req[r].user \in Members /\ Exists(req[r].user)
           /\ member[req[r].user].church \in Churches
BY DEF IInv, Tables, MembersNamed, Running, Importing, Plain

\* Who shows an access token has an account.
LEMMA BeginNamed ==
    ASSUME IInv, NEW r \in Requests, NEW u \in Members, NEW least, Begin(r, u, least)
    PROVE  Exists(u) /\ member[u].church \in Churches
BY DEF IInv, Tables, MembersNamed, Begin, May

LEMMA RegisterStep ==
    ASSUME IInv, NEW r \in Requests, NEW c \in Churches, Register(r, c)
    PROVE  IInv'
<1> DEFINE m == Founder[c]
           call == Call("register", m)
<1>1. m \in Members /\ PastorRole \in Roles /\ PastorRole \in SystemRoles
  BY ParametersOK
<1>2. Plain(call) /\ Tables
  BY <1>1, PlainCall DEF IInv
<1>3. role[PastorRole].profile \in Profile
  BY <1>1, <1>2 DEF Tables, RoleRow
<1> HIDE DEF m, call
<1>4. /\ UNCHANGED role
      /\ \/ /\ RepoCreateMember(m, c, "chosen", {PastorRole})
            /\ (UNCHANGED pass) \/ Grant(m, role[PastorRole].profile)
         \/ UNCHANGED <<member, held, pass>>
      /\ \E answer \in {"ok", "lost", "refused"} : Finish(r, call, answer)
  BY DEF Register, m, call
<1>5. Tables' /\ Forward
  BY <1>1, <1>2, <1>3, <1>4, CreateMemberStep, QuietStep
<1>6. QED
  BY <1>2, <1>4, <1>5, FinishStep

LEMMA EnterStep ==
    ASSUME IInv, NEW r \in Requests, NEW m \in Members, Enter(r, m)
    PROVE  IInv'
<1>1. /\ Exists(m) /\ UNCHANGED <<member, role, held, pass>>
      /\ Continue(r, Call("enter", m), "roles") \/ Finish(r, Call("enter", m), "refused")
  BY DEF Enter
<1>2. Plain(Call("enter", m)) /\ Call("enter", m).user = m
  BY PlainCall
<1>3. Tables' /\ Forward
  BY <1>1, QuietStep DEF IInv
<1>4. CASE Continue(r, Call("enter", m), "roles")
  BY <1>1, <1>2, <1>4, ContinueStep
<1>5. CASE Finish(r, Call("enter", m), "refused")
  BY <1>2, <1>3, <1>5, FinishStep
<1>6. QED
  BY <1>1, <1>4, <1>5

LEMMA ReadRolesStep ==
    ASSUME IInv, NEW r \in Requests, ReadRoles(r)
    PROVE  IInv'
<1> DEFINE call == [req[r] EXCEPT !.profile = Highest(req[r].user)]
<1>1. /\ UNCHANGED <<member, role, held, pass>>
      /\ Continue(r, call, "issue")
      /\ Plain(req[r]) /\ req[r].user \in Members /\ Exists(req[r].user)
  BY UnderWay DEF ReadRoles
<1>2. Highest(req[r].user) \in Profile
  BY <1>1, HighestOK DEF IInv
<1>3. Plain(call) /\ call.user = req[r].user
  BY <1>1, <1>2 DEF Plain, Request
<1> HIDE DEF call
<1>4. QED
  BY <1>1, <1>3, ContinueStep

LEMMA IssueStep ==
    ASSUME IInv, NEW r \in Requests, Issue(r)
    PROVE  IInv'
<1>1. /\ Plain(req[r]) /\ req[r].user \in Members /\ Exists(req[r].user)
      /\ req[r].profile \in Profile
      /\ Grant(req[r].user, req[r].profile) /\ Finish(r, req[r], "ok")
      /\ UNCHANGED <<member, role, held>>
  BY UnderWay DEF IInv, Issue, Plain, Request
<1>2. Tables' /\ Forward
  BY <1>1, PassStep DEF IInv
<1>3. QED
  BY <1>1, <1>2, FinishStep

LEMMA CreateMemberCallStep ==
    ASSUME IInv, NEW r \in Requests, NEW u \in Members, NEW m \in Members,
           NEW R \in RoleSets, CreateMember(r, u, m, R)
    PROVE  IInv'
<1> DEFINE base == Call("create", u)
           one == [base EXCEPT !.member = m]
           call == [one EXCEPT !.roles = R]
<1>0. Plain(base) /\ base.user = u
  BY PlainCall
<1> HIDE DEF base
<1>1. R \in SUBSET Roles
  BY ParametersOK
<1>2. Plain(call) /\ call.user = u /\ call.member = m /\ call.roles = R
  <2>1. Plain(one) /\ one.user = u /\ one.member = m
    BY <1>0, <1>1, PlainEdit
  <2>2. QED
    BY <2>1, <1>1, PlainEdit, ZenonT(30)
<1>3. /\ Exists(u) /\ UNCHANGED <<member, role, held, pass>>
      /\ \/ (\A x \in R : Accessible(x, member[u].church)) /\ Continue(r, call, "insert")
         \/ Finish(r, call, "refused")
  BY BeginNamed DEF CreateMember, base, one, call
<1> HIDE DEF one, call
<1>4. Tables' /\ Forward
  BY <1>3, QuietStep DEF IInv
<1>5. CASE (\A x \in R : Accessible(x, member[u].church)) /\ Continue(r, call, "insert")
  <2>1. \A x \in R : WasOpen(x, member[u].church)
    BY <1>1, <1>5 DEF Accessible, Stored, WasOpen
  <2>2. QED
    BY <1>2, <1>3, <1>5, <2>1, ContinueStep
<1>6. CASE Finish(r, call, "refused")
  BY <1>2, <1>4, <1>6, FinishStep
<1>7. QED
  BY <1>3, <1>5, <1>6

LEMMA InsertMemberStep ==
    ASSUME IInv, NEW r \in Requests, InsertMember(r)
    PROVE  IInv'
<1>1. PICK m \in Members, c \in Churches, R \in SUBSET Roles :
         /\ m = req[r].member /\ c = member[req[r].user].church /\ R = req[r].roles
         /\ Plain(req[r]) /\ \A x \in R : x \in SystemRoles \/ role[x].church = c
  <2>1. /\ Plain(req[r]) /\ member[req[r].user].church \in Churches
        /\ req[r].pc = "insert" /\ req[r].roles \in SUBSET Roles
    BY UnderWay DEF InsertMember, Plain, Request
  <2>2. req[r].member \in Members /\ \A x \in req[r].roles :
           WasOpen(x, member[req[r].user].church)
    BY <2>1 DEF IInv, Running
  <2>3. QED
    BY <2>1, <2>2 DEF WasOpen
<1>2. /\ UNCHANGED <<role, pass>>
      /\ RepoCreateMember(m, c, "random", R) \/ UNCHANGED <<member, held>>
      /\ \E answer \in {"ok", "error", "refused"} : Finish(r, req[r], answer)
  BY <1>1 DEF InsertMember
<1>3. Tables' /\ Forward
  BY <1>1, <1>2, CreateMemberStep, QuietStep DEF IInv
<1>4. QED
  BY <1>1, <1>2, <1>3, FinishStep

LEMMA UpdateMemberStep ==
    ASSUME IInv, NEW r \in Requests, NEW u \in Members, NEW m \in Members,
           NEW card \in Cards, UpdateMember(r, u, m, card)
    PROVE  IInv'
<1> DEFINE base == Call("update", u)
           one == [base EXCEPT !.member = m]
           call == [one EXCEPT !.card = card]
<1>0. Plain(base) /\ base.user = u
  BY PlainCall
<1> HIDE DEF base
<1>1. Plain(call) /\ call.user = u /\ call.member = m
  <2>1. Plain(one) /\ one.user = u /\ one.member = m
    BY <1>0, PlainEdit
  <2>2. QED
    BY <2>1, PlainEdit
<1>2. /\ Exists(u) /\ UNCHANGED <<member, role, held, pass>>
      /\ \/ InChurch(m, member[u].church) /\ Continue(r, call, "update")
         \/ Finish(r, call, "refused")
  BY BeginNamed DEF UpdateMember, base, one, call
<1> HIDE DEF one, call
<1>3. Tables' /\ Forward
  BY <1>2, QuietStep DEF IInv
<1>4. CASE InChurch(m, member[u].church) /\ Continue(r, call, "update")
  BY <1>1, <1>2, <1>4, ContinueStep
<1>5. CASE Finish(r, call, "refused")
  BY <1>1, <1>3, <1>5, FinishStep
<1>6. QED
  BY <1>2, <1>4, <1>5

LEMMA WriteMemberCallStep ==
    ASSUME IInv, NEW r \in Requests, WriteMember(r)
    PROVE  IInv'
<1>1. /\ Plain(req[r]) /\ req[r].member \in Members /\ Exists(req[r].member)
      /\ req[r].card \in Cards \cup {None}
  BY UnderWay DEF IInv, WriteMember, Running, InChurch, Plain, Request
<1>2. /\ RepoUpdateMember(req[r].member, req[r].card) /\ Finish(r, req[r], "ok")
      /\ UNCHANGED <<role, held, pass>>
  BY DEF WriteMember
<1>3. Tables' /\ Forward
  BY <1>1, <1>2, WriteMemberStep DEF IInv
<1>4. QED
  BY <1>1, <1>2, <1>3, FinishStep

LEMMA DeactivateMemberStep ==
    ASSUME IInv, NEW r \in Requests, NEW u \in Members, NEW m \in Members,
           DeactivateMember(r, u, m)
    PROVE  IInv'
<1>1. /\ Exists(m) /\ UNCHANGED <<role, held, pass>>
      /\ RepoDeactivate(m) \/ UNCHANGED member
      /\ \E answer \in {"ok", "refused"} : Finish(r, Call("deactivate", u), answer)
  BY DEF DeactivateMember
<1>2. Tables' /\ Forward
  BY <1>1, WriteMemberStep, QuietStep DEF IInv
<1>3. QED
  BY <1>1, <1>2, PlainCall, FinishStep

LEMMA AssignRoleStep ==
    ASSUME IInv, NEW r \in Requests, NEW u \in Members, NEW m \in Members,
           NEW x \in Roles, AssignRole(r, u, m, x)
    PROVE  IInv'
<1> DEFINE base == Call("assign", u)
           one == [base EXCEPT !.member = m]
           call == [one EXCEPT !.role = x]
<1>0. Plain(base) /\ base.user = u
  BY PlainCall
<1> HIDE DEF base
<1>1. Plain(call) /\ call.user = u /\ call.member = m /\ call.role = x
  <2>1. Plain(one) /\ one.user = u /\ one.member = m
    BY <1>0, PlainEdit
  <2>2. QED
    BY <2>1, PlainEdit, ZenonT(30)
<1>2. /\ Exists(u) /\ UNCHANGED <<member, role, held, pass>>
      /\ \/ Accessible(x, member[u].church) /\ Continue(r, call, "assign")
         \/ Finish(r, call, "refused")
  BY BeginNamed DEF AssignRole, base, one, call
<1> HIDE DEF one, call
<1>3. Tables' /\ Forward
  BY <1>2, QuietStep DEF IInv
<1>4. CASE Accessible(x, member[u].church) /\ Continue(r, call, "assign")
  <2>1. WasOpen(x, member[u].church)
    BY <1>4 DEF Accessible, Stored, WasOpen
  <2>2. QED
    BY <1>1, <1>2, <1>4, <2>1, ContinueStep
<1>5. CASE Finish(r, call, "refused")
  BY <1>1, <1>3, <1>5, FinishStep
<1>6. QED
  BY <1>2, <1>4, <1>5

LEMMA InsertAssignmentStep ==
    ASSUME IInv, NEW r \in Requests, InsertAssignment(r)
    PROVE  IInv'
<1>1. PICK m \in Members, x \in Roles, c \in Churches :
         /\ m = req[r].member /\ x = req[r].role /\ c = member[req[r].user].church
         /\ Plain(req[r]) /\ WasOpen(x, c)
  BY UnderWay DEF IInv, InsertAssignment, Running
<1>2. /\ UNCHANGED <<member, role, pass>>
      /\ (InChurch(m, c) /\ RepoAssignRole(m, x)) \/ UNCHANGED held
      /\ \E answer \in {"ok", "error", "refused"} : Finish(r, req[r], answer)
  BY <1>1 DEF InsertAssignment
<1>3. Tables' /\ Forward
  BY <1>1, <1>2, AssignStep, QuietStep DEF IInv, InChurch, WasOpen
<1>4. QED
  BY <1>1, <1>2, <1>3, FinishStep

LEMMA RemoveRoleStep ==
    ASSUME IInv, NEW r \in Requests, NEW u \in Members, NEW m \in Members,
           NEW x \in Roles, RemoveRole(r, u, m, x)
    PROVE  IInv'
<1>1. /\ UNCHANGED <<member, role, pass>>
      /\ (x \in held[m] /\ RepoRemoveRole(m, x)) \/ UNCHANGED held
      /\ \E answer \in {"ok", "refused"} : Finish(r, Call("remove", u), answer)
  BY DEF RemoveRole
<1>2. x \in held[m] =>
         Exists(m) /\ (x \in SystemRoles \/ role[x].church = member[m].church)
  BY DEF IInv, Tables, AssignmentsSound
<1>3. Tables' /\ Forward
  BY <1>1, <1>2, AssignStep, QuietStep DEF IInv
<1>4. QED
  BY <1>1, <1>3, PlainCall, FinishStep

LEMMA CreateRoleStep ==
    ASSUME IInv, NEW r \in Requests, NEW u \in Members, NEW x \in Roles,
           NEW n \in RoleNames, NEW p \in RoleProfiles, CreateRole(r, u, x, n, p)
    PROVE  IInv'
<1>1. /\ UNCHANGED <<member, held, pass>>
      /\ RepoCreateRole(x, member[u].church, n, p) \/ UNCHANGED role
      /\ \E answer \in {"ok", "refused"} : Finish(r, Call("createRole", u), answer)
      /\ member[u].church \in Churches
  BY BeginNamed DEF CreateRole
<1>2. p \in Profile
  BY ParametersOK
<1>3. Tables' /\ Forward
  BY <1>1, <1>2, WriteRoleStep, QuietStep DEF IInv
<1>4. QED
  BY <1>1, <1>3, PlainCall, FinishStep

LEMMA UpdateRoleStep ==
    ASSUME IInv, NEW r \in Requests, NEW u \in Members, NEW x \in Roles,
           NEW n \in RoleNames, NEW p \in RoleProfiles, UpdateRole(r, u, x, n, p)
    PROVE  IInv'
<1> DEFINE base == Call("updateRole", u)
           one == [base EXCEPT !.role = x]
           two == [one EXCEPT !.name = n]
           call == [two EXCEPT !.profile = p]
<1>0. Plain(base) /\ base.user = u
  BY PlainCall
<1> HIDE DEF base
<1>1. p \in Profile
  BY ParametersOK
<1>2. Plain(call) /\ call.user = u /\ call.role = x /\ call.name = n
  <2>1. Plain(one) /\ one.user = u /\ one.role = x
    BY <1>0, <1>1, PlainEdit
  <2>2. Plain(two) /\ two.user = u /\ two.role = x /\ two.name = n
    BY <1>0, <1>1, <2>1, PlainEdit, ZenonT(30)
  <2>3. QED
    BY <2>2, <1>1, PlainEdit
<1>3. /\ Exists(u) /\ UNCHANGED <<member, role, held, pass>>
      /\ Continue(r, call, "updateRole") \/ Finish(r, call, "refused")
  BY BeginNamed DEF UpdateRole, base, one, two, call
<1> HIDE DEF one, two, call
<1>4. Tables' /\ Forward
  BY <1>3, QuietStep DEF IInv
<1>5. CASE Continue(r, call, "updateRole")
  BY <1>2, <1>3, <1>5, ContinueStep
<1>6. CASE Finish(r, call, "refused")
  BY <1>2, <1>4, <1>6, FinishStep
<1>7. QED
  BY <1>3, <1>5, <1>6

LEMMA WriteRoleCallStep ==
    ASSUME IInv, NEW r \in Requests, WriteRole(r)
    PROVE  IInv'
<1>1. /\ Plain(req[r]) /\ req[r].role \in Roles /\ req[r].name \in RoleNames
      /\ req[r].profile \in Profile /\ member[req[r].user].church \in Churches
  BY UnderWay DEF IInv, WriteRole, Running, Plain, Request
<1>2. /\ UNCHANGED <<member, held, pass>>
      /\ \/ RepoUpdateRole(req[r].role, member[req[r].user].church, req[r].name, req[r].profile)
         \/ UNCHANGED role
      /\ \E answer \in {"ok", "error", "refused"} : Finish(r, req[r], answer)
  BY DEF WriteRole
<1>3. Tables' /\ Forward
  BY <1>1, <1>2, WriteRoleStep, QuietStep DEF IInv
<1>4. QED
  BY <1>1, <1>2, <1>3, FinishStep

LEMMA DeleteRoleStep ==
    ASSUME IInv, NEW r \in Requests, NEW u \in Members, NEW x \in Roles,
           DeleteRole(r, u, x)
    PROVE  IInv'
<1> DEFINE base == Call("deleteRole", u)
           call == [base EXCEPT !.role = x]
<1>0. Plain(base) /\ base.user = u
  BY PlainCall
<1> HIDE DEF base
<1>1. Plain(call) /\ call.user = u /\ call.role = x
  BY <1>0, PlainEdit
<1>2. /\ Exists(u) /\ UNCHANGED <<member, role, held, pass>>
      /\ Continue(r, call, "deleteRole") \/ Finish(r, call, "refused")
  BY BeginNamed DEF DeleteRole, base
<1> HIDE DEF call
<1>3. Tables' /\ Forward
  BY <1>2, QuietStep DEF IInv
<1>4. CASE Continue(r, call, "deleteRole")
  BY <1>1, <1>2, <1>4, ContinueStep
<1>5. CASE Finish(r, call, "refused")
  BY <1>1, <1>3, <1>5, FinishStep
<1>6. QED
  BY <1>2, <1>4, <1>5

LEMMA EraseRoleStep ==
    ASSUME IInv, NEW r \in Requests, EraseRole(r)
    PROVE  IInv'
<1>1. /\ Plain(req[r]) /\ req[r].role \in Roles /\ member[req[r].user].church \in Churches
  BY UnderWay DEF IInv, EraseRole, Running
<1>2. /\ UNCHANGED <<member, held, pass>>
      /\ RepoDeleteRole(req[r].role, member[req[r].user].church) \/ UNCHANGED role
      /\ \E answer \in {"ok", "error", "refused"} : Finish(r, req[r], answer)
  BY DEF EraseRole
<1>3. Tables' /\ Forward
  BY <1>1, <1>2, WriteRoleStep, QuietStep DEF IInv
<1>4. QED
  BY <1>1, <1>2, <1>3, FinishStep

LEMMA ExpirePassStep ==
    ASSUME IInv, NEW m \in Members, NEW p \in Profile, ExpirePass(m, p)
    PROVE  Tables' /\ Forward
<1>1. Exists(m)
  BY DEF IInv, Tables, MembersNamed, ExpirePass
<1>2. QED
  BY <1>1, PassStep DEF IInv, ExpirePass

-----------------------------------------------------------------------------
(* Imports.                                                                *)

\* new is call at another place.
Moved(call, new) ==
    /\ new \in Request
    /\ new.op = call.op /\ new.user = call.user /\ new.sheet = call.sheet
    /\ new.told = call.told /\ new.made = call.made

LEMMA ImportMoves ==
    ASSUME NEW r \in Requests, NEW call \in Request, call.op = "import"
    PROVE  /\ Continue(r, call, "row") =>
                \E new : /\ Moved(call, new) /\ req' = [req EXCEPT ![r] = new]
                         /\ new.pc = "row" /\ new.answer = call.answer
           /\ \A answer \in {"ok", "lost"} : Finish(r, call, answer) =>
                \E new : /\ Moved(call, new) /\ req' = [req EXCEPT ![r] = new]
                         /\ new.pc = "over" /\ new.answer = answer
<1>1. ASSUME Continue(r, call, "row")
      PROVE  \E new : /\ Moved(call, new) /\ req' = [req EXCEPT ![r] = new]
                      /\ new.pc = "row" /\ new.answer = call.answer
  <2> DEFINE new == [call EXCEPT !.pc = "row"]
  <2>1. Moved(call, new) /\ new.pc = "row" /\ new.answer = call.answer
    BY SMTT(30) DEF Moved, Request
  <2>2. req' = [req EXCEPT ![r] = new]
    BY <1>1 DEF Continue
  <2> HIDE DEF new
  <2>3. QED
    BY <2>1, <2>2
<1>2. ASSUME NEW answer \in {"ok", "lost"}, Finish(r, call, answer)
      PROVE  \E new : /\ Moved(call, new) /\ req' = [req EXCEPT ![r] = new]
                      /\ new.pc = "over" /\ new.answer = answer
  <2> DEFINE one == [call EXCEPT !.pc = "over"]
             new == [one EXCEPT !.answer = answer]
  <2>1. Moved(call, one) /\ one.pc = "over"
    BY SMTT(30) DEF Moved, Request
  <2>2. req' = [req EXCEPT ![r] = new]
    BY <1>2 DEF Finish
  <2> HIDE DEF one
  <2>3. Moved(call, new) /\ new.pc = "over" /\ new.answer = answer
    BY <2>1, SMTT(30) DEF Moved, Request
  <2> HIDE DEF new
  <2>4. QED
    BY <2>2, <2>3
<1>3. QED
  BY <1>1, <1>2

LEMMA ImportMembersStep ==
    ASSUME IInv, NEW r \in Requests, NEW u \in Members, NEW sheet \in Sheets,
           ImportMembers(r, u, sheet)
    PROVE  IInv'
<1> DEFINE call == [Call("import", u) EXCEPT !.sheet = sheet]
<1>1. sheet \in Seq(Members)
  BY ParametersOK
<1>2. /\ call \in Request /\ call.op = "import" /\ call.sheet = sheet /\ call.user = u
      /\ call.told = <<>> /\ call.made = {} /\ call.answer = "none"
  <2>1. <<>> \in Seq(Members) /\ <<>> \in Seq({"created", "skipped", "error"})
    OBVIOUS
  <2>2. QED
    BY <1>1, <2>1 DEF Call, NoRequest, Request, Profile
<1>3. /\ Exists(u) /\ UNCHANGED <<member, role, held, pass>>
      /\ \/ sheet # <<>> /\ Continue(r, call, "row")
         \/ sheet = <<>> /\ Finish(r, call, "ok")
  BY BeginNamed DEF ImportMembers
<1> HIDE DEF call
<1>4. Tables' /\ Forward
  BY <1>3, QuietStep DEF IInv
<1>5. PICK new \in Request :
         /\ req' = [req EXCEPT ![r] = new]
         /\ new.op = "import" /\ new.sheet = sheet /\ new.user = u
         /\ new.told = <<>> /\ new.made = {}
         /\ \/ new.pc = "row" /\ new.answer = "none" /\ sheet # <<>>
            \/ new.pc = "over" /\ sheet = <<>>
  <2>1. CASE sheet # <<>> /\ Continue(r, call, "row")
    <3>1. PICK new : /\ Moved(call, new) /\ req' = [req EXCEPT ![r] = new]
                     /\ new.pc = "row" /\ new.answer = call.answer
      BY <1>2, <2>1, ImportMoves
    <3>2. QED
      BY <1>2, <2>1, <3>1 DEF Moved
  <2>2. CASE sheet = <<>> /\ Finish(r, call, "ok")
    <3>1. PICK new : /\ Moved(call, new) /\ req' = [req EXCEPT ![r] = new]
                     /\ new.pc = "over" /\ new.answer = "ok"
      BY <1>2, <2>2, ImportMoves
    <3>2. QED
      BY <1>2, <2>2, <3>1 DEF Moved
  <2>3. QED
    BY <1>3, <2>1, <2>2
<1>6. req'[r] = new
  BY <1>5 DEF IInv
<1>7. Running(r)'
  BY <1>3, <1>5, <1>6 DEF Running, Exists
<1>8. Importing(r)'
  <2>1. Len(<<>>) = 0 /\ (sheet # <<>> => Len(sheet) > 0) /\ Len(sheet) \in Nat
    BY <1>1
  <2>2. QED
    BY <1>5, <1>6, <2>1 DEF Importing
<1>9. \A i \in 1..Len(new.told) : FALSE
  BY <1>5
<1>10. \A i \in 1..Len(new.told), m \in Members :
         new.told[i] = "created" /\ new.sheet[i] = m =>
            /\ \A j \in 1..Len(new.told) :
                  new.told[j] = "created" /\ new.sheet[j] = m => i = j
            /\ \A s \in Requests \ {r} : \A j \in 1..Len(req[s].told) : ~Counted(s, j, m)
  BY <1>9
<1>11. QED
  BY <1>4, <1>5, <1>7, <1>8, <1>10, SlotFrame

\* What is told of a row.
Telling(r, call, new, what) ==
    /\ new \in Request
    /\ req' = [req EXCEPT ![r] = new]
    /\ new.op = "import" /\ new.sheet = call.sheet /\ new.user = call.user
    /\ new.made = call.made
    /\ new.told = Append(call.told, what)
    /\ \/ new.pc = "row" /\ new.answer = "none" /\ Len(new.told) < Len(new.sheet)
       \/ new.pc = "over" /\ new.answer = "ok" /\ Len(new.told) = Len(new.sheet)

LEMMA TellStep ==
    ASSUME NEW r \in Requests, NEW call \in Request,
           NEW what \in {"created", "skipped", "error"},
           call.op = "import", call.answer = "none", Tell(r, call, what)
    PROVE  \E new : Telling(r, call, new, what)
<1> DEFINE next == [call EXCEPT !.told = Append(@, what)]
<1>1. Append(call.told, what) \in Seq({"created", "skipped", "error"})
  BY DEF Request
<1>2. /\ next \in Request /\ next.told = Append(call.told, what)
      /\ next.op = "import" /\ next.sheet = call.sheet /\ next.user = call.user
      /\ next.made = call.made /\ next.answer = "none"
  BY <1>1 DEF Request
<1>3. \/ Len(next.told) < Len(next.sheet) /\ Continue(r, next, "row")
      \/ Len(next.told) = Len(next.sheet) /\ Finish(r, next, "ok")
  BY <1>2 DEF Tell
<1> HIDE DEF next
<1>4. CASE Len(next.told) < Len(next.sheet) /\ Continue(r, next, "row")
  <2>1. PICK new : /\ Moved(next, new) /\ req' = [req EXCEPT ![r] = new]
                   /\ new.pc = "row" /\ new.answer = next.answer
    BY <1>2, <1>4, ImportMoves
  <2>2. QED
    BY <1>2, <1>4, <2>1 DEF Moved, Telling
<1>5. CASE Len(next.told) = Len(next.sheet) /\ Finish(r, next, "ok")
  <2>1. PICK new : /\ Moved(next, new) /\ req' = [req EXCEPT ![r] = new]
                   /\ new.pc = "over" /\ new.answer = "ok"
    BY <1>2, <1>5, ImportMoves
  <2>2. QED
    BY <1>2, <1>5, <2>1 DEF Moved, Telling
<1>6. QED
  BY <1>3, <1>4, <1>5

\* Whom a row counts has an account.
LEMMA CountedExists ==
    ASSUME IInv, NEW r \in Requests, NEW i \in 1..Len(req[r].told), NEW m \in Members,
           Counted(r, i, m)
    PROVE  Exists(m)
<1>1. Importing(r) /\ req[r] \in Request
  BY DEF IInv
<1>2. m \in req[r].made
  BY <1>1 DEF Importing, Counted
<1>3. QED
  BY <1>1, <1>2 DEF Importing

LEMMA RowTold ==
    ASSUME IInv, Tables', Forward, NEW r \in Requests, req[r].pc = "row",
           NEW m \in Members, m = req[r].sheet[Len(req[r].told) + 1],
           NEW what \in {"created", "skipped", "error"},
           NEW base \in Request, base.sheet = req[r].sheet, base.told = req[r].told,
           base.user = req[r].user,
           \/ base.made = req[r].made /\ what # "created"
           \/ /\ base.made = req[r].made \cup {m} /\ what # "skipped"
              /\ ~Exists(m) /\ member'[m].state # "absent",
           what = "skipped" => Exists(m),
           NEW new, Telling(r, base, new, what)
    PROVE  IInv'
<1> DEFINE n == Len(req[r].told)
<1>1. /\ req[r] \in Request /\ Importing(r) /\ Running(r)
      /\ req[r].told \in Seq({"created", "skipped", "error"})
      /\ req[r].sheet \in Seq(Members) /\ n \in Nat /\ n < Len(req[r].sheet)
      /\ req[r].made \in SUBSET Members
  <2>1. req[r] \in Request /\ Importing(r) /\ Running(r)
    BY DEF IInv
  <2>2. /\ req[r].told \in Seq({"created", "skipped", "error"})
        /\ req[r].sheet \in Seq(Members) /\ req[r].made \in SUBSET Members
    BY <2>1 DEF Request
  <2>3. n \in Nat /\ n < Len(req[r].sheet)
    BY <2>1, <2>2, SMTT(30) DEF Importing
  <2>4. QED
    BY <2>1, <2>2, <2>3
<1>2. /\ new \in Request /\ req' = [req EXCEPT ![r] = new] /\ req'[r] = new
      /\ new.op = "import" /\ new.sheet = req[r].sheet /\ new.user = req[r].user
      /\ new.made = base.made
      /\ \/ new.pc = "row" /\ new.answer = "none" /\ Len(new.told) < Len(new.sheet)
         \/ new.pc = "over" /\ new.answer = "ok" /\ Len(new.told) = Len(new.sheet)
  BY DEF IInv, Telling
<1>3. /\ Len(new.told) = n + 1 /\ new.told[n + 1] = what
      /\ \A i \in 1..n : new.told[i] = req[r].told[i]
  BY <1>1 DEF Telling
<1>4. /\ req[r].user \in Members /\ Exists(req[r].user)
      /\ \A p \in Members : Exists(p) => Exists(p)'
  BY <1>1 DEF Running, Forward, Exists
<1>5. /\ \A i \in 1..n : /\ req[r].told[i] = "created" => req[r].sheet[i] \in req[r].made
                         /\ req[r].told[i] = "skipped" => Exists(req[r].sheet[i])
                         /\ req[r].sheet[i] \in Members
      /\ \A p \in req[r].made :
            Exists(p) /\ \E i \in 1..n : req[r].sheet[i] = p /\ req[r].told[i] \in {"created", "error"}
  <2>1. ASSUME NEW i \in 1..n
        PROVE  /\ req[r].told[i] = "created" => req[r].sheet[i] \in req[r].made
               /\ req[r].told[i] = "skipped" => Exists(req[r].sheet[i])
               /\ req[r].sheet[i] \in Members
    <3>1. /\ req[r].told[i] = "created" => req[r].sheet[i] \in req[r].made
          /\ req[r].told[i] = "skipped" => Exists(req[r].sheet[i])
      BY <1>1, Zenon DEF Importing
    <3>2. req[r].sheet[i] \in Members
      BY <1>1
    <3>3. QED
      BY <3>1, <3>2
  <2>2. ASSUME NEW p \in req[r].made
        PROVE  Exists(p) /\ \E i \in 1..n : req[r].sheet[i] = p /\ req[r].told[i] \in {"created", "error"}
    BY <1>1, Zenon DEF Importing
  <2>3. QED
    BY <2>1, <2>2
<1>6. Running(r)'
  BY <1>2, <1>4 DEF Running
<1>7. /\ \A i \in 1..n + 1 : /\ new.told[i] = "created" => new.sheet[i] \in new.made
                             /\ new.told[i] = "skipped" => Exists(new.sheet[i])'
      /\ \A p \in new.made :
            Exists(p)' /\ \E i \in 1..n + 1 : new.sheet[i] = p /\ new.told[i] \in {"created", "error"}
  <2>1. ASSUME NEW i \in 1..n + 1
        PROVE  /\ new.told[i] = "created" => new.sheet[i] \in new.made
               /\ new.told[i] = "skipped" => Exists(new.sheet[i])'
    <3>1. CASE i = n + 1
      BY <1>1, <1>2, <1>3, <1>4, <3>1
    <3>2. CASE i \in 1..n
      <4>1. new.told[i] = req[r].told[i]
        BY <1>3, <3>2
      <4>2. /\ req[r].told[i] = "created" => req[r].sheet[i] \in req[r].made
            /\ req[r].told[i] = "skipped" => Exists(req[r].sheet[i])
            /\ req[r].sheet[i] \in Members
        BY <1>5, <3>2
      <4>3. QED
        BY <1>2, <1>4, <4>1, <4>2
    <3>3. QED
      BY <1>1, <3>1, <3>2
  <2>2. ASSUME NEW p \in new.made
        PROVE  Exists(p)' /\ \E i \in 1..n + 1 :
                  new.sheet[i] = p /\ new.told[i] \in {"created", "error"}
    <3>1. CASE p \in req[r].made
      <4>1. PICK i \in 1..n : req[r].sheet[i] = p /\ req[r].told[i] \in {"created", "error"}
        BY <1>5, <3>1
      <4>2. i \in 1..n + 1 /\ new.told[i] = req[r].told[i]
        BY <1>1, <1>3
      <4>3. Exists(p)'
        BY <1>1, <1>4, <1>5, <3>1
      <4>4. QED
        BY <1>2, <4>1, <4>2, <4>3
    <3>2. CASE p \notin req[r].made
      <4>1. p = m /\ what \in {"created", "error"} /\ member'[m].state # "absent"
        BY <1>2, <3>2
      <4>2. n + 1 \in 1..n + 1
        BY <1>1
      <4>3. QED
        BY <1>2, <1>3, <4>1, <4>2 DEF Exists
    <3>3. QED
      BY <3>1, <3>2
  <2>3. QED
    BY <2>1, <2>2
<1>8. Importing(r)'
  <2>1. /\ new.pc = "row" => Len(new.told) < Len(new.sheet)
        /\ Len(new.told) <= Len(new.sheet)
        /\ new.pc \in {"row", "over"}
        /\ new.pc # "over" => new.answer = "none"
        /\ new.answer = "ok" => Len(new.told) = Len(new.sheet)
    BY <1>1, <1>2, <1>3
  <2> HIDE DEF n
  <2>2. \A i \in 1..Len(new.told) : /\ new.told[i] = "created" => new.sheet[i] \in new.made
                                    /\ new.told[i] = "skipped" => Exists(new.sheet[i])'
    BY <1>3, <1>7
  <2>3. \A p \in new.made : /\ Exists(p)'
                            /\ \E i \in 1..Len(new.told) :
                                  new.sheet[i] = p /\ new.told[i] \in {"created", "error"}
    BY <1>3, <1>7
  <2>4. QED
    BY <1>2, <2>1, <2>2, <2>3, SMTT(30) DEF Importing
<1>9. ASSUME NEW i \in 1..n + 1, NEW p \in Members, new.told[i] = "created", new.sheet[i] = p
      PROVE  /\ \A j \in 1..n + 1 : new.told[j] = "created" /\ new.sheet[j] = p => i = j
             /\ \A s \in Requests \ {r} : \A j \in 1..Len(req[s].told) : ~Counted(s, j, p)
  <2>1. CASE i = n + 1
    <3>1. p = m /\ ~Exists(m)
      BY <1>2, <1>3, <1>9, <2>1
    <3>2. ASSUME NEW j \in 1..n
          PROVE  ~(new.told[j] = "created" /\ new.sheet[j] = p)
      BY <1>2, <1>3, <1>5, <3>1, <3>2
    <3>3. \A s \in Requests \ {r} : \A j \in 1..Len(req[s].told) : ~Counted(s, j, p)
      BY <3>1, CountedExists
    <3>4. \A j \in 1..n + 1 : j \in 1..n \/ j = n + 1
      BY <1>1
    <3>5. QED
      BY <2>1, <3>2, <3>3, <3>4
  <2>2. CASE i \in 1..n
    <3>1. Counted(r, i, p) /\ Exists(p) /\ i \in 1..Len(req[r].told)
      BY <1>2, <1>3, <1>5, <1>9, <2>2 DEF Counted
    <3>2. ASSUME NEW j \in 1..n + 1, new.told[j] = "created", new.sheet[j] = p
          PROVE  i = j
      <4>1. CASE j = n + 1
        BY <1>2, <1>3, <3>1, <3>2, <4>1
      <4>2. CASE j \in 1..n
        <5>1. Counted(r, j, p)
          BY <1>2, <1>3, <3>2, <4>2 DEF Counted
        <5>2. QED
          BY <3>1, <4>2, <5>1 DEF IInv, CountedOnce
      <4>3. QED
        BY <1>1, <4>1, <4>2, SMTT(30)
    <3>3. \A s \in Requests \ {r} : \A j \in 1..Len(req[s].told) : ~Counted(s, j, p)
      BY <3>1 DEF IInv, CountedOnce
    <3>4. QED
      BY <3>2, <3>3
  <2>3. QED
    BY <1>1, <2>1, <2>2, SMTT(30)
<1>10. ASSUME NEW i \in 1..Len(new.told), NEW p \in Members,
              new.told[i] = "created", new.sheet[i] = p
       PROVE  /\ \A j \in 1..Len(new.told) :
                    new.told[j] = "created" /\ new.sheet[j] = p => i = j
              /\ \A s \in Requests \ {r} : \A j \in 1..Len(req[s].told) : ~Counted(s, j, p)
  BY <1>3, <1>9, <1>10
<1>11. QED
  BY <1>2, <1>6, <1>8, <1>10, SlotFrame

LEMMA ImportRowStep ==
    ASSUME IInv, NEW r \in Requests, ImportRow(r)
    PROVE  IInv'
<1> DEFINE call == req[r]
           n == Len(call.told)
<1>1. /\ call \in Request /\ call.pc = "row" /\ call.op = "import" /\ call.answer = "none"
      /\ call.user \in Members /\ member[call.user].church \in Churches
      /\ Len(call.told) < Len(call.sheet)
      /\ call.told \in Seq({"created", "skipped", "error"})
      /\ call.sheet \in Seq(Members)
  BY DEF IInv, Tables, MembersNamed, ImportRow, Running, Importing, Request
<1>2. PICK m \in Members : m = call.sheet[n + 1]
  BY <1>1
<1> DEFINE made == [call EXCEPT !.made = @ \cup {m}]
<1>3. /\ made \in Request /\ made.made = call.made \cup {m}
      /\ made.sheet = call.sheet /\ made.told = call.told /\ made.user = call.user
      /\ made.op = "import" /\ made.answer = "none"
  BY <1>1 DEF Request
<1>4. /\ UNCHANGED <<role, pass>>
      /\ \/ /\ RepoCreateMember(m, member[call.user].church, "random", {})
            /\ \E what \in {"created", "error"} : Tell(r, made, what)
         \/ Exists(m) /\ Tell(r, call, "skipped") /\ UNCHANGED <<member, held>>
         \/ Tell(r, call, "error") /\ UNCHANGED <<member, held>>
  BY <1>2 DEF ImportRow
<1> HIDE DEF made
<1>5. CASE /\ RepoCreateMember(m, member[call.user].church, "random", {})
           /\ \E what \in {"created", "error"} : Tell(r, made, what)
  <2>0. ~Exists(m)
    BY <1>5 DEF RepoCreateMember
  <2>1. Tables' /\ Forward /\ member'[m].state # "absent"
    <3>1. \A x \in {} : x \in SystemRoles \/ role[x].church = member[call.user].church
      OBVIOUS
    <3>2. {} \in SUBSET Roles /\ Tables
      BY DEF IInv
    <3> HIDE DEF call
    <3>3. QED
      BY <1>1, <1>4, <1>5, <3>1, <3>2, CreateMemberStep
  <2>2. PICK what \in {"created", "error"} : \E new : Telling(r, made, new, what)
    BY <1>3, <1>5, TellStep
  <2>3. PICK new : Telling(r, made, new, what)
    BY <2>2
  <2>4. QED
    BY <1>1, <1>2, <1>3, <2>0, <2>1, <2>3, RowTold
<1>6. CASE UNCHANGED <<member, held>> /\ Exists(m) /\ Tell(r, call, "skipped")
  <2>1. Tables' /\ Forward
    BY <1>4, <1>6, QuietStep DEF IInv
  <2>2. PICK new : Telling(r, call, new, "skipped")
    BY <1>1, <1>6, TellStep
  <2>3. QED
    BY <1>1, <1>2, <1>6, <2>1, <2>2, RowTold
<1>7. CASE UNCHANGED <<member, held>> /\ Tell(r, call, "error")
  <2>1. Tables' /\ Forward
    BY <1>4, <1>7, QuietStep DEF IInv
  <2>2. PICK new : Telling(r, call, new, "error")
    BY <1>1, <1>7, TellStep
  <2>3. QED
    BY <1>1, <1>2, <1>7, <2>1, <2>2, RowTold
<1>8. QED
  BY <1>4, <1>5, <1>6, <1>7

LEMMA AbortStep ==
    ASSUME IInv, NEW r \in Requests, Abort(r)
    PROVE  IInv'
<1>1. /\ req[r].pc # "over" /\ Finish(r, req[r], "lost")
      /\ UNCHANGED <<member, role, held, pass>> /\ Tables' /\ Forward
  BY QuietStep DEF Abort, Free, IInv
<1>2. CASE req[r].pc # "row"
  BY <1>1, <1>2, UnderWay, FinishStep
<1>3. CASE req[r].pc = "row"
  <2>1. req[r] \in Request /\ Importing(r) /\ req[r].op = "import"
    BY <1>3 DEF IInv, Importing
  <2>2. PICK new : /\ Moved(req[r], new) /\ req' = [req EXCEPT ![r] = new]
                   /\ new.pc = "over" /\ new.answer = "lost"
    BY <1>1, <2>1, ImportMoves
  <2>3. req'[r] = new /\ new \in Request
    BY <2>2 DEF IInv, Moved
  <2>4. Running(r)'
    BY <2>2, <2>3 DEF Running
  <2>5. Importing(r)'
    <3>1. \A m \in Members : Exists(m)' <=> Exists(m)
      BY <1>1 DEF Exists
    <3>2. /\ \A i \in 1..Len(req[r].told) : req[r].sheet[i] \in Members
          /\ req[r].made \in SUBSET Members
      BY <2>1 DEF Importing, Request
    <3>3. QED
      BY <2>1, <2>2, <2>3, <3>1, <3>2, SMTT(30) DEF Importing, Moved
  <2>6. ASSUME NEW i \in 1..Len(new.told), NEW m \in Members,
               new.told[i] = "created", new.sheet[i] = m
        PROVE  /\ \A j \in 1..Len(new.told) :
                     new.told[j] = "created" /\ new.sheet[j] = m => i = j
               /\ \A s \in Requests \ {r} : \A j \in 1..Len(req[s].told) : ~Counted(s, j, m)
    BY <2>2, <2>6 DEF IInv, CountedOnce, Counted, Moved
  <2>7. QED
    BY <1>1, <2>2, <2>3, <2>4, <2>5, <2>6, SlotFrame
<1>4. QED
  BY <1>2, <1>3

-----------------------------------------------------------------------------
(* What a request writes is of the church of the one who asked.            *)

LEMMA QuietWrites ==
    ASSUME UNCHANGED <<member, role, held, pass>>
    PROVE  WritesOwnChurch
BY DEF WritesOwnChurch

\* The request of u in slot r moved, and it wrote in its own church only.
LEMMA WritesFrame ==
    ASSUME IInv, NEW r \in Requests, NEW u \in Members, NEW new,
           req' = [req EXCEPT ![r] = new], new.user = u,
           \A m \in Members :
              /\ member'[m] # member[m] \/ held'[m] # held[m] =>
                    member'[m].church = member'[u].church
              /\ pass'[m] # pass[m] => m = u,
           \A x \in Roles : role'[x] # role[x] => role'[x].church = member'[u].church
    PROVE  WritesOwnChurch
<1>1. \A q \in Requests : req'[q] # req[q] => q = r /\ req'[q].user = u
  BY DEF IInv
<1>2. QED
  BY <1>1 DEF WritesOwnChurch

LEMMA FinishUser ==
    ASSUME NEW r \in Requests, NEW call, Plain(call), NEW answer, Finish(r, call, answer)
    PROVE  \E new : req' = [req EXCEPT ![r] = new] /\ new.user = call.user
<1>1. req' = [req EXCEPT ![r] = Call("none", call.user)]
  BY DEF Finish, Plain
<1>2. call.user \in Members \cup {None}
  BY DEF Plain, Request
<1>3. Call("none", call.user).user = call.user
  BY <1>2, PlainCall
<1>4. QED
  BY <1>1, <1>3

\* An account is made in the church of u, or by u himself.
LEMMA CreateMemberWrites ==
    ASSUME IInv, NEW r \in Requests, NEW u \in Members, NEW m \in Members,
           NEW c \in Churches, NEW password, NEW R,
           RepoCreateMember(m, c, password, R), UNCHANGED role,
           u = m \/ (Exists(u) /\ member[u].church = c),
           UNCHANGED pass \/ (u = m /\ \E p : Grant(m, p)),
           NEW new, req' = [req EXCEPT ![r] = new], new.user = u
    PROVE  WritesOwnChurch
<1>1. /\ member'[m].church = c /\ ~Exists(m)
      /\ \A n \in Members \ {m} : member'[n] = member[n] /\ held'[n] = held[n]
  BY DEF IInv, Tables, RepoCreateMember
<1>2. \A n \in Members : pass'[n] # pass[n] => n = u
  BY DEF IInv, Tables, Grant
<1>3. member'[u].church = c
  BY <1>1
<1>4. QED
  BY <1>1, <1>2, <1>3, WritesFrame

LEMMA RegisterWrites ==
    ASSUME IInv, NEW r \in Requests, NEW c \in Churches, Register(r, c)
    PROVE  WritesOwnChurch
<1> DEFINE m == Founder[c]
<1>1. m \in Members /\ Plain(Call("register", m)) /\ Call("register", m).user = m
  BY ParametersOK, PlainCall
<1>2. /\ UNCHANGED role
      /\ \/ /\ RepoCreateMember(m, c, "chosen", {PastorRole})
            /\ (UNCHANGED pass) \/ \E p : Grant(m, p)
         \/ UNCHANGED <<member, held, pass>>
      /\ \E answer : Finish(r, Call("register", m), answer)
  BY DEF Register
<1> HIDE DEF m
<1>3. PICK new : req' = [req EXCEPT ![r] = new] /\ new.user = m
  BY <1>1, <1>2, FinishUser
<1>4. QED
  BY <1>1, <1>2, <1>3, CreateMemberWrites, QuietWrites

LEMMA IssueWrites ==
    ASSUME IInv, NEW r \in Requests, Issue(r)
    PROVE  WritesOwnChurch
<1>1. PICK u \in Members : u = req[r].user /\ Plain(req[r])
  BY UnderWay DEF Issue
<1>2. PICK new : req' = [req EXCEPT ![r] = new] /\ new.user = u
  BY <1>1, FinishUser DEF Issue
<1>3. \A m \in Members : pass'[m] # pass[m] => m = u
  BY <1>1 DEF IInv, Tables, Issue, Grant
<1>4. QED
  BY <1>2, <1>3, WritesFrame DEF Issue

LEMMA InsertMemberWrites ==
    ASSUME IInv, NEW r \in Requests, InsertMember(r)
    PROVE  WritesOwnChurch
<1>1. PICK u \in Members, c \in Churches :
         /\ u = req[r].user /\ c = member[u].church /\ Plain(req[r]) /\ Exists(u)
         /\ req[r].member \in Members
  BY UnderWay DEF IInv, Running, InsertMember
<1>2. /\ UNCHANGED <<role, pass>>
      /\ \/ RepoCreateMember(req[r].member, c, "random", req[r].roles)
         \/ UNCHANGED <<member, held>>
      /\ \E answer : Finish(r, req[r], answer)
  BY <1>1 DEF InsertMember
<1>3. PICK new : req' = [req EXCEPT ![r] = new] /\ new.user = u
  BY <1>1, <1>2, FinishUser
<1>4. QED
  BY <1>1, <1>2, <1>3, CreateMemberWrites, QuietWrites

LEMMA ImportRowWrites ==
    ASSUME IInv, NEW r \in Requests, ImportRow(r)
    PROVE  WritesOwnChurch
<1> DEFINE call == req[r]
           m == call.sheet[Len(call.told) + 1]
           made == [call EXCEPT !.made = @ \cup {m}]
<1>1. PICK u \in Members, c \in Churches :
         /\ u = call.user /\ c = member[u].church /\ Exists(u)
         /\ call \in Request /\ call.op = "import" /\ call.answer = "none"
         /\ m \in Members
  <2>1. /\ call \in Request /\ call.pc = "row" /\ call.op = "import" /\ call.answer = "none"
        /\ call.user \in Members /\ Exists(call.user)
        /\ member[call.user].church \in Churches
        /\ Len(call.told) < Len(call.sheet)
        /\ call.told \in Seq({"created", "skipped", "error"})
        /\ call.sheet \in Seq(Members)
    BY DEF IInv, Tables, MembersNamed, ImportRow, Running, Importing, Request
  <2>2. m \in Members
    BY <2>1
  <2>3. QED
    BY <2>1, <2>2
<1>2. /\ made \in Request /\ made.user = u /\ made.op = "import" /\ made.answer = "none"
  BY <1>1 DEF Request
<1>3. /\ UNCHANGED <<role, pass>>
      /\ \/ RepoCreateMember(m, c, "random", {}) /\ \E what \in {"created", "error"} : Tell(r, made, what)
         \/ UNCHANGED <<member, held>>
  BY <1>1 DEF ImportRow
<1> HIDE DEF made, m, call
<1>4. CASE RepoCreateMember(m, c, "random", {}) /\ \E what \in {"created", "error"} : Tell(r, made, what)
  <2>1. PICK what, new : Telling(r, made, new, what)
    BY <1>2, <1>4, TellStep
  <2>2. req' = [req EXCEPT ![r] = new] /\ new.user = u
    BY <1>2, <2>1 DEF Telling
  <2>3. QED
    BY <1>1, <1>3, <1>4, <2>2, CreateMemberWrites
<1>5. CASE UNCHANGED <<member, held>>
  BY <1>3, <1>5, QuietWrites
<1>6. QED
  BY <1>3, <1>4, <1>5

\* An account of u's church is written.
LEMMA WriteMemberWrites ==
    ASSUME IInv, NEW r \in Requests, NEW u \in Members, NEW m \in Members,
           InChurch(m, member[u].church),
           (\E card \in Cards \cup {None} : RepoUpdateMember(m, card)) \/ RepoDeactivate(m),
           UNCHANGED <<role, held, pass>>,
           NEW new, req' = [req EXCEPT ![r] = new], new.user = u
    PROVE  WritesOwnChurch
<1>1. Exists(m) /\ member[m].church = member[u].church
  BY DEF InChurch
<1>2. /\ member'[m].church = member[m].church
      /\ \A n \in Members \ {m} : member'[n] = member[n]
  BY DEF IInv, Tables, MemberRow, RepoUpdateMember, RepoDeactivate
<1>3. member'[u].church = member[u].church
  BY <1>2
<1>4. \A n \in Members :
         /\ member'[n] # member[n] \/ held'[n] # held[n] =>
               member'[n].church = member'[u].church
         /\ pass'[n] # pass[n] => n = u
  BY <1>1, <1>2, <1>3
<1>5. \A x \in Roles : role'[x] # role[x] => role'[x].church = member'[u].church
  OBVIOUS
<1>6. QED
  BY <1>4, <1>5, WritesFrame

\* The roles of somebody of u's church are written.
LEMMA AssignWrites ==
    ASSUME IInv, NEW r \in Requests, NEW u \in Members, NEW m \in Members,
           InChurch(m, member[u].church), NEW x \in Roles,
           RepoAssignRole(m, x) \/ RepoRemoveRole(m, x), UNCHANGED <<member, role, pass>>,
           NEW new, req' = [req EXCEPT ![r] = new], new.user = u
    PROVE  WritesOwnChurch
<1>1. \A n \in Members \ {m} : held'[n] = held[n]
  BY DEF IInv, Tables, RepoAssignRole, RepoRemoveRole
<1>2. QED
  BY <1>1, WritesFrame DEF InChurch

\* A role of u's church is written.
LEMMA WriteRoleWrites ==
    ASSUME IInv, NEW r \in Requests, NEW u \in Members, NEW x \in Roles,
           \/ \E n \in RoleNames, p \in Profile :
                 RepoCreateRole(x, member[u].church, n, p) \/ RepoUpdateRole(x, member[u].church, n, p)
           \/ RepoDeleteRole(x, member[u].church),
           member[u].church \in Churches,
           UNCHANGED <<member, held, pass>>,
           NEW new, req' = [req EXCEPT ![r] = new], new.user = u
    PROVE  WritesOwnChurch
<1>1. role'[x].church = member[u].church
  BY WriteRoleStep DEF IInv
<1>2. \A y \in Roles \ {x} : role'[y] = role[y]
  BY DEF IInv, Tables, RepoCreateRole, RepoUpdateRole, RepoDeleteRole
<1>3. QED
  BY <1>1, <1>2, WritesFrame

LEMMA WriteMemberCallWrites ==
    ASSUME IInv, NEW r \in Requests, WriteMember(r)
    PROVE  WritesOwnChurch
<1>1. PICK u \in Members, m \in Members :
         /\ u = req[r].user /\ m = req[r].member /\ Plain(req[r])
         /\ InChurch(m, member[u].church) /\ req[r].card \in Cards \cup {None}
  BY UnderWay DEF IInv, WriteMember, Running, Plain, Request
<1>2. PICK new : req' = [req EXCEPT ![r] = new] /\ new.user = u
  BY <1>1, FinishUser DEF WriteMember
<1>3. QED
  BY <1>1, <1>2, WriteMemberWrites DEF WriteMember

LEMMA DeactivateMemberWrites ==
    ASSUME IInv, NEW r \in Requests, NEW u \in Members, NEW m \in Members,
           DeactivateMember(r, u, m)
    PROVE  WritesOwnChurch
<1>1. Plain(Call("deactivate", u)) /\ Call("deactivate", u).user = u
  BY PlainCall
<1>2. /\ UNCHANGED <<role, held, pass>>
      /\ (InChurch(m, member[u].church) /\ RepoDeactivate(m)) \/ UNCHANGED member
      /\ \E answer : Finish(r, Call("deactivate", u), answer)
  BY DEF DeactivateMember
<1>3. PICK new : req' = [req EXCEPT ![r] = new] /\ new.user = u
  BY <1>1, <1>2, FinishUser
<1>4. QED
  BY <1>2, <1>3, WriteMemberWrites, QuietWrites

LEMMA InsertAssignmentWrites ==
    ASSUME IInv, NEW r \in Requests, InsertAssignment(r)
    PROVE  WritesOwnChurch
<1>1. PICK u \in Members, m \in Members, x \in Roles :
         u = req[r].user /\ m = req[r].member /\ x = req[r].role /\ Plain(req[r])
  BY UnderWay DEF IInv, InsertAssignment, Running
<1>2. /\ UNCHANGED <<member, role, pass>>
      /\ (InChurch(m, member[u].church) /\ RepoAssignRole(m, x)) \/ UNCHANGED held
      /\ \E answer : Finish(r, req[r], answer)
  BY <1>1 DEF InsertAssignment
<1>3. PICK new : req' = [req EXCEPT ![r] = new] /\ new.user = u
  BY <1>1, <1>2, FinishUser
<1>4. QED
  BY <1>2, <1>3, AssignWrites, QuietWrites

LEMMA RemoveRoleWrites ==
    ASSUME IInv, NEW r \in Requests, NEW u \in Members, NEW m \in Members,
           NEW x \in Roles, RemoveRole(r, u, m, x)
    PROVE  WritesOwnChurch
<1>1. Plain(Call("remove", u)) /\ Call("remove", u).user = u
  BY PlainCall
<1>2. /\ UNCHANGED <<member, role, pass>>
      /\ (InChurch(m, member[u].church) /\ RepoRemoveRole(m, x)) \/ UNCHANGED held
      /\ \E answer : Finish(r, Call("remove", u), answer)
  BY DEF RemoveRole
<1>3. PICK new : req' = [req EXCEPT ![r] = new] /\ new.user = u
  BY <1>1, <1>2, FinishUser
<1>4. QED
  BY <1>2, <1>3, AssignWrites, QuietWrites

LEMMA CreateRoleWrites ==
    ASSUME IInv, NEW r \in Requests, NEW u \in Members, NEW x \in Roles,
           NEW n \in RoleNames, NEW p \in RoleProfiles, CreateRole(r, u, x, n, p)
    PROVE  WritesOwnChurch
<1>1. Plain(Call("createRole", u)) /\ Call("createRole", u).user = u /\ p \in Profile
  BY PlainCall, ParametersOK
<1>2. /\ UNCHANGED <<member, held, pass>> /\ member[u].church \in Churches
      /\ RepoCreateRole(x, member[u].church, n, p) \/ UNCHANGED role
      /\ \E answer : Finish(r, Call("createRole", u), answer)
  BY BeginNamed DEF CreateRole
<1>3. PICK new : req' = [req EXCEPT ![r] = new] /\ new.user = u
  BY <1>1, <1>2, FinishUser
<1>4. QED
  BY <1>1, <1>2, <1>3, WriteRoleWrites, QuietWrites

LEMMA WriteRoleCallWrites ==
    ASSUME IInv, NEW r \in Requests, WriteRole(r)
    PROVE  WritesOwnChurch
<1>1. PICK u \in Members, x \in Roles, n \in RoleNames, p \in Profile :
         /\ u = req[r].user /\ x = req[r].role /\ n = req[r].name /\ p = req[r].profile
         /\ Plain(req[r]) /\ member[u].church \in Churches
  BY UnderWay DEF IInv, WriteRole, Running, Plain, Request
<1>2. /\ UNCHANGED <<member, held, pass>>
      /\ RepoUpdateRole(x, member[u].church, n, p) \/ UNCHANGED role
      /\ \E answer : Finish(r, req[r], answer)
  BY <1>1 DEF WriteRole
<1>3. PICK new : req' = [req EXCEPT ![r] = new] /\ new.user = u
  BY <1>1, <1>2, FinishUser
<1>4. QED
  BY <1>1, <1>2, <1>3, WriteRoleWrites, QuietWrites

LEMMA EraseRoleWrites ==
    ASSUME IInv, NEW r \in Requests, EraseRole(r)
    PROVE  WritesOwnChurch
<1>1. PICK u \in Members, x \in Roles :
         /\ u = req[r].user /\ x = req[r].role
         /\ Plain(req[r]) /\ member[u].church \in Churches
  BY UnderWay DEF IInv, EraseRole, Running
<1>2. /\ UNCHANGED <<member, held, pass>>
      /\ RepoDeleteRole(x, member[u].church) \/ UNCHANGED role
      /\ \E answer : Finish(r, req[r], answer)
  BY <1>1 DEF EraseRole
<1>3. PICK new : req' = [req EXCEPT ![r] = new] /\ new.user = u
  BY <1>1, <1>2, FinishUser
<1>4. QED
  BY <1>1, <1>2, <1>3, WriteRoleWrites, QuietWrites

-----------------------------------------------------------------------------
(* The invariant is inductive.                                             *)

LEMMA Initially ==
    ASSUME Init
    PROVE  IInv
<1>1. NoMember \in MemberRow /\ NoMember.state = "absent"
  BY DEF NoMember, MemberRow
<1>2. /\ NoRole \in RoleRow /\ NoRole.church = None
      /\ \A x \in SystemRoles : LET row == [NoRole EXCEPT !.state = "stored",
                                                          !.profile = SystemProfile[x]] IN
            row \in RoleRow /\ row.state = "stored"
  BY ParametersOK DEF NoRole, RoleRow, Profile
<1>3. /\ NoRequest \in Request /\ NoRequest.pc = "over" /\ NoRequest.op = "none"
      /\ NoRequest.told = <<>> /\ NoRequest.sheet = <<>> /\ NoRequest.made = {}
      /\ NoRequest.answer = "none"
  <2>1. <<>> \in Seq(Members) /\ <<>> \in Seq({"created", "skipped", "error"})
    OBVIOUS
  <2>2. QED
    BY <2>1 DEF NoRequest, Request, Profile
<1>4. Tables
  <2>1. role \in [Roles -> RoleRow]
    BY <1>2, ParametersOK DEF Init
  <2>2. SystemStored
    BY <1>2, ParametersOK DEF Init, SystemStored, Stored
  <2>3. member \in [Members -> MemberRow]
    BY <1>1 DEF Init
  <2>4. MembersNamed
    BY <1>1 DEF Init, MembersNamed, Exists
  <2>5. QED
    BY <2>1, <2>2, <2>3, <2>4 DEF Init, Tables, AssignmentsSound
<1>5. req \in [Requests -> Request] /\ \A r \in Requests : req[r] = NoRequest
  BY <1>3 DEF Init
<1>6. ASSUME NEW r \in Requests
      PROVE  Running(r) /\ Importing(r) /\ \A i \in 1..Len(req[r].told) : FALSE
  BY <1>3, <1>5 DEF Running, Importing
<1>7. CountedOnce
  BY <1>6 DEF CountedOnce
<1>8. QED
  BY <1>4, <1>5, <1>6, <1>7 DEF IInv

\* Time passes: no request moves.
LEMMA StillStep ==
    ASSUME IInv, Tables', Forward, UNCHANGED req
    PROVE  IInv'
<1>1. ASSUME NEW q \in Requests
      PROVE  Running(q)'
  <2>1. /\ req[q].pc # "over" => req[q].user \in Members /\ Exists(req[q].user)
        /\ Running(q) /\ req[q] \in Request
    BY DEF IInv, Running
  <2>2. req[q].pc # "over" =>
          member'[req[q].user].state # "absent"
          /\ member'[req[q].user].church = member[req[q].user].church
    BY <2>1 DEF Forward
  <2>3. req[q].pc = "insert" => \A x \in req[q].roles : WasOpen(x, member[req[q].user].church)'
    BY <2>1, <2>2 DEF Running, WasOpen, Forward
  <2>4. req[q].pc = "assign" => WasOpen(req[q].role, member[req[q].user].church)'
    BY <2>1, <2>2 DEF Running, WasOpen, Forward
  <2>5. req[q].pc = "update" => InChurch(req[q].member, member[req[q].user].church)'
    BY <2>1, <2>2 DEF Running, InChurch, Exists, Forward
  <2>6. QED
    BY <2>1, <2>2, <2>3, <2>4, <2>5 DEF Running, Exists
<1>2. ASSUME NEW q \in Requests
      PROVE  Importing(q)'
  <2>1. req[q] \in Request /\ Importing(q)
    BY DEF IInv
  <2>2. \A m \in Members : Exists(m) => Exists(m)'
    BY DEF Forward, Exists
  <2>3. /\ req[q].made \subseteq Members
        /\ \A i \in 1..Len(req[q].told) : req[q].sheet[i] \in Members
    BY <2>1 DEF Request, Importing
  <2>4. QED
    BY <2>1, <2>2, <2>3 DEF Importing
<1>3. CountedOnce'
  BY DEF IInv, CountedOnce, Counted
<1>4. QED
  BY <1>1, <1>2, <1>3 DEF IInv

LEMMA NextStep ==
    ASSUME IInv, [Next]_vars
    PROVE  IInv'
<1>1. CASE UNCHANGED vars
  <2>1. UNCHANGED <<member, role, held, pass>> /\ UNCHANGED req
    BY <1>1 DEF vars
  <2>2. Tables' /\ Forward
    BY <2>1, QuietStep DEF IInv
  <2>3. QED
    BY <2>1, <2>2, StillStep
<1>2. ASSUME NEW r \in Requests, Step(r)
      PROVE  IInv'
  BY <1>2, ReadRolesStep, IssueStep, InsertMemberStep, ImportRowStep, WriteMemberCallStep,
     InsertAssignmentStep, WriteRoleCallStep, EraseRoleStep, AbortStep DEF Step
<1>3. ASSUME NEW m \in Members, NEW p \in Profile, ExpirePass(m, p)
      PROVE  IInv'
  <2>1. Tables' /\ Forward /\ UNCHANGED req
    BY <1>3, ExpirePassStep DEF ExpirePass
  <2>2. QED
    BY <2>1, StillStep
<1>4. ASSUME NEW r \in Requests, NEW u \in Members, NEW m \in Members, NEW x \in Roles,
             AssignRole(r, u, m, x) \/ RemoveRole(r, u, m, x)
      PROVE  IInv'
  BY <1>4, AssignRoleStep, RemoveRoleStep
<1>5. ASSUME NEW r \in Requests, NEW u \in Members, NEW x \in Roles,
             \/ \E n \in RoleNames, p \in RoleProfiles :
                   CreateRole(r, u, x, n, p) \/ UpdateRole(r, u, x, n, p)
             \/ DeleteRole(r, u, x)
      PROVE  IInv'
  BY <1>5, CreateRoleStep, UpdateRoleStep, DeleteRoleStep
<1>6. QED
  BY <1>1, <1>2, <1>3, <1>4, <1>5, RegisterStep, EnterStep, CreateMemberCallStep,
     UpdateMemberStep, DeactivateMemberStep, ImportMembersStep DEF Next

LEMMA NextWrites ==
    ASSUME IInv, [Next]_vars
    PROVE  WritesOwnChurch
<1>1. CASE UNCHANGED vars
  BY <1>1, QuietWrites DEF vars
<1>2. ASSUME NEW r \in Requests, Step(r)
      PROVE  WritesOwnChurch
  <2>1. CASE ReadRoles(r) \/ Abort(r)
    BY <2>1, QuietWrites DEF ReadRoles, Abort
  <2>2. QED
    BY <1>2, <2>1, IssueWrites, InsertMemberWrites, ImportRowWrites, WriteMemberCallWrites,
       InsertAssignmentWrites, WriteRoleCallWrites, EraseRoleWrites DEF Step
<1>3. ASSUME NEW m \in Members, NEW p \in Profile, ExpirePass(m, p)
      PROVE  WritesOwnChurch
  BY <1>3 DEF ExpirePass, WritesOwnChurch
<1>4. ASSUME NEW r \in Requests, NEW m \in Members, Enter(r, m)
      PROVE  WritesOwnChurch
  BY <1>4, QuietWrites DEF Enter
<1>5. ASSUME NEW r \in Requests, NEW u \in Members, NEW m \in Members,
             \/ \E R \in RoleSets : CreateMember(r, u, m, R)
             \/ \E card \in Cards : UpdateMember(r, u, m, card)
             \/ DeactivateMember(r, u, m)
      PROVE  WritesOwnChurch
  <2>1. CASE DeactivateMember(r, u, m)
    BY <2>1, DeactivateMemberWrites
  <2>2. CASE ~DeactivateMember(r, u, m)
    BY <1>5, <2>2, QuietWrites DEF CreateMember, UpdateMember
  <2>3. QED
    BY <2>1, <2>2
<1>6. ASSUME NEW r \in Requests, NEW u \in Members, NEW m \in Members, NEW x \in Roles,
             AssignRole(r, u, m, x) \/ RemoveRole(r, u, m, x)
      PROVE  WritesOwnChurch
  <2>1. CASE AssignRole(r, u, m, x)
    BY <2>1, QuietWrites DEF AssignRole
  <2>2. QED
    BY <1>6, <2>1, RemoveRoleWrites
<1>7. ASSUME NEW r \in Requests, NEW u \in Members, NEW x \in Roles,
             \/ \E n \in RoleNames, p \in RoleProfiles :
                   CreateRole(r, u, x, n, p) \/ UpdateRole(r, u, x, n, p)
             \/ DeleteRole(r, u, x)
      PROVE  WritesOwnChurch
  <2>1. ASSUME NEW n \in RoleNames, NEW p \in RoleProfiles, UpdateRole(r, u, x, n, p)
        PROVE  WritesOwnChurch
    BY <2>1, QuietWrites DEF UpdateRole
  <2>2. CASE DeleteRole(r, u, x)
    BY <2>2, QuietWrites DEF DeleteRole
  <2>3. QED
    BY <1>7, <2>1, <2>2, CreateRoleWrites
<1>8. ASSUME NEW r \in Requests, NEW u \in Members, NEW sheet \in Sheets,
             ImportMembers(r, u, sheet)
      PROVE  WritesOwnChurch
  BY <1>8, QuietWrites DEF ImportMembers
<1>9. QED
  BY <1>1, <1>2, <1>3, <1>4, <1>5, <1>6, <1>7, <1>8, RegisterWrites DEF Next

-----------------------------------------------------------------------------
(* The theorems.                                                           *)

\* In every reachable state the tables are sound, every request under way
\* still has what it looked up, and every import has told the truth so far.
THEOREM Invariance == Spec => []IInv
<1>1. Init => IInv
  BY Initially
<1>2. IInv /\ [Next]_vars => IInv'
  BY NextStep
<1>3. QED
  BY <1>1, <1>2, PTL DEF Spec

\* The tables and the requests of member_repo.go have the types of the model.
THEOREM TypeCorrect == Spec => []TypeOK
<1>1. IInv => TypeOK
  BY DEF IInv, Tables, TypeOK
<1>2. QED
  BY <1>1, Invariance, PTL

\* Only those who have an account hold a role, and only a stored role of the
\* system or of their church, although AssignRole looks the role up in a
\* statement of its own.
THEOREM AssignmentsHold == Spec => []AssignmentsSound
<1>1. IInv => AssignmentsSound
  BY DEF IInv, Tables
<1>2. QED
  BY <1>1, Invariance, PTL

\* What ImportMembers answers agrees with what it stored, and no account is
\* counted twice, however many imports overlap.
THEOREM ImportHolds == Spec => []ImportTold
<1>1. ASSUME IInv, NEW r \in Requests, req[r].op = "import", req[r].answer = "ok"
      PROVE  ToldTrue(r)
  BY <1>1 DEF IInv, Importing, ToldTrue
<1>2. IInv => ImportTold
  BY <1>1 DEF IInv, CountedOnce, ImportTold
<1>3. QED
  BY <1>2, Invariance, PTL

\* No request writes an account, a role or an assignment of another church,
\* although the statements of UpdateMember name the account only.
THEOREM WithinChurchHolds == Spec => WithinChurch
<1>1. IInv /\ [Next]_vars => [WritesOwnChurch]_vars
  BY NextWrites
<1>2. QED
  BY <1>1, Invariance, PTL DEF Spec, WithinChurch
=============================================================================
