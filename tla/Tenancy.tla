------------------------------ MODULE Tenancy ------------------------------
(***************************************************************************)
(* Users, roles and companies: the endpoints of /v1/users and              *)
(* /v1/companies that change rows, and the bootstrap script.  Every        *)
(* request judges by what it has read (the actor, the target, a name, a    *)
(* company) and commits later; what other requests commit in between is    *)
(* left to the constraints of the database and to what an UPDATE writes.   *)
(***************************************************************************)
EXTENDS Naturals, FiniteSets

CONSTANTS
  Users,         \* user ids
  Names,         \* usernames
  Companies,     \* company ids
  CompanyNames,
  Handlers,      \* the requests that may run at the same time
  Root,          \* the super admin of the bootstrap script
  RootName,
  Ops,           \* the requests that clients send
  None

ASSUME TenancyAssumption ==
  /\ Root \in Users /\ RootName \in Names
  /\ None \notin Users \cup Names \cup Companies \cup CompanyNames

Roles == {"super_admin", "admin", "employee"}

\* What a client may send: a role or a company of None is left out of the
\* payload.
UserOps ==
  [kind : {"create_user"}, name : Names, role : Roles, company : Companies]
  \cup [kind : {"update_user"}, target : Users, role : Roles \cup {None},
        company : Companies \cup {None}]
  \cup [kind : {"delete_user"}, target : Users]

CompanyOps ==
  [kind : {"create_company"}, name : CompanyNames]
  \cup [kind : {"update_company"}, company : Companies, name : CompanyNames]
  \cup [kind : {"delete_company"}, company : Companies]

ASSUME OpsAssumption == Ops \subseteq UserOps \cup CompanyOps

\* The columns of a user, and those that the checks read.
UserRows == [name : Names, role : Roles, company : Companies \cup {None}]
Standings == [role : Roles, company : Companies \cup {None}]

\* None is neither a row nor a request.
ASSUME NoneAssumption == None \notin UserRows \cup Standings \cup UserOps \cup CompanyOps

VARIABLES
  user,     \* the row of a user: its name, role and company, or None
  company,  \* the row of a company: its name, or None
  spent,    \* the ids that had a row: a new row gets a new id
  pc,       \* where a handler is
  op,       \* its request
  actor,    \* the user its guard loaded ...
  actorRow, \* ... with this role and company
  loaded,   \* role and company of the target as the session knows them
  members,  \* the users loaded with the company to delete
  late,     \* users who joined their company while it was being deleted (history)
  demoted   \* former super admins who got no company since (history)

rowVars == <<user, company, spent>>
handlerVars == <<pc, op, actor, actorRow, loaded, members>>
vars == <<rowVars, handlerVars, late, demoted>>

Row(n, r, c) == [name |-> n, role |-> r, company |-> c]
Standing(row) == [role |-> row.role, company |-> row.company]

Init ==
  /\ user = [u \in Users |->
       IF u = Root THEN Row(RootName, "super_admin", None) ELSE None]
  /\ company = [c \in Companies |-> None]
  /\ spent = {Root}
  /\ pc = [h \in Handlers |-> "idle"]
  /\ op = [h \in Handlers |-> None]
  /\ actor = [h \in Handlers |-> None]
  /\ actorRow = [h \in Handlers |-> None]
  /\ loaded = [h \in Handlers |-> None]
  /\ members = [h \in Handlers |-> {}]
  /\ late = {}
  /\ demoted = {}

Live == {u \in Users : user[u] # None}
TakenNames == {user[u].name : u \in Live}

At(h, l) == pc' = [pc EXCEPT ![h] = l]

Goto(h, l) == At(h, l) /\ UNCHANGED <<op, actor, actorRow, loaded, members>>

\* The actor has passed the checks: from here on only the role is of interest.
Passed(h, l) ==
  /\ At(h, l)
  /\ actor' = [actor EXCEPT ![h] = None]
  /\ actorRow' = [actorRow EXCEPT ![h].company = None]
  /\ UNCHANGED <<op, members>>

\* Mutant of Leave: the handler keeps its actor for the next request.
Leave_KeepsActor(h) ==
  /\ At(h, "idle")
  /\ op' = [op EXCEPT ![h] = None]
  /\ UNCHANGED <<actor, actorRow, loaded, members>>

\* The handler is done, or it has refused the request, or the database has:
\* what was not committed is rolled back.
Leave(h) ==
  /\ At(h, "idle")
  /\ op' = [op EXCEPT ![h] = None]
  /\ actor' = [actor EXCEPT ![h] = None]
  /\ actorRow' = [actorRow EXCEPT ![h] = None]
  /\ loaded' = [loaded EXCEPT ![h] = None]
  /\ members' = [members EXCEPT ![h] = {}]

Refuse(h) ==
  /\ pc[h] # "idle"
  /\ Leave(h)
  /\ UNCHANGED <<rowVars, late, demoted>>

\* The unique indexes on username and on the name of a company.
\* Mutant of NameFree: there is no index, the check before must do.
NameFree_NoIndex(n, u) == TRUE

NameFree(n, u) == \A v \in Live \ {u} : user[v].name # n

CompanyNameFree(n, c) == \A d \in Companies \ {c} : company[d] # n

\* Mutant of CompanyRef: company_id is not a foreign key.
CompanyRef_NoForeignKey(c) == TRUE

\* The foreign key of company_id.
CompanyRef(c) == c \in {None} \cup {d \in Companies : company[d] # None}

\* Mutant of RoleCheck: the constraint is not migrated.
RoleCheck_None(r, c) == TRUE

\* ck_users_super_admin_no_company
RoleCheck(r, c) == r # "super_admin" \/ c = None

\* require_admin_or_super_admin and require_super_admin.
Allowed(r, o) ==
  IF o \in UserOps THEN r # "employee" ELSE r = "super_admin"

\* scripts/create_superadmin.py
CreateSuperAdmin(u, n) ==
  /\ u \notin spent
  /\ n \notin TakenNames
  /\ NameFree(n, u)
  /\ user' = [user EXCEPT ![u] = Row(n, "super_admin", None)]
  /\ spent' = spent \cup {u}
  /\ UNCHANGED <<company, handlerVars, late, demoted>>

Guard(h, a, o) ==
  /\ pc[h] = "idle"
  /\ user[a] # None
  /\ Allowed(user[a].role, o)
  /\ op' = [op EXCEPT ![h] = o]
  /\ actor' = [actor EXCEPT ![h] = a]
  /\ actorRow' = [actorRow EXCEPT ![h] = Standing(user[a])]
  /\ At(h, o.kind)
  /\ UNCHANGED <<rowVars, loaded, members, late, demoted>>

\* _assert_same_company, for admins only.
InScope(h, c) == actorRow[h].role = "admin" => c = actorRow[h].company

-----------------------------------------------------------------------------
(* create_user *)

CreateCheckName(h) ==
  /\ pc[h] = "create_user"
  /\ op[h].role # "super_admin"
  /\ InScope(h, op[h].company)
  /\ op[h].name \notin TakenNames
  /\ Passed(h, "check_company")
  /\ UNCHANGED <<rowVars, loaded, late, demoted>>

\* get_company_or_400, of create_user and of update_user.
CheckCompany(h) ==
  /\ pc[h] = "check_company"
  /\ company[op[h].company] # None
  /\ Goto(h, IF op[h].kind = "create_user" THEN "insert" ELSE "write")
  /\ UNCHANGED <<rowVars, late, demoted>>

\* The users who join a company whose members a deletion has already loaded.
JoinsLate(u, c) ==
  IF \E h \in Handlers : pc[h] = "drop" /\ op[h].company = c
  THEN late \cup {u} ELSE late \ {u}

InsertUser(h, u) ==
  LET o == op[h] IN
  /\ pc[h] = "insert"
  /\ u \notin spent
  /\ NameFree(o.name, u) /\ CompanyRef(o.company)
  /\ user' = [user EXCEPT ![u] = Row(o.name, o.role, o.company)]
  /\ spent' = spent \cup {u}
  /\ late' = JoinsLate(u, o.company)
  /\ Leave(h)
  /\ UNCHANGED <<company, demoted>>

-----------------------------------------------------------------------------
(* update_user, delete_user *)

\* The session's row of a user: it keeps the row of the actor as the guard
\* loaded it.
SessionRow(h, u) == IF u = actor[h] THEN actorRow[h] ELSE Standing(user[u])

UpdateLoad(h) ==
  LET o == op[h]
      row == SessionRow(h, o.target)
  IN /\ pc[h] = "update_user"
     /\ user[o.target] # None
     /\ InScope(h, row.company)
     /\ o.company # None => InScope(h, o.company)
     /\ o.role # "super_admin"
     /\ loaded' = [loaded EXCEPT ![h] = row]
     /\ Passed(h, IF o.company = None THEN "write" ELSE "check_company")
     /\ UNCHANGED <<rowVars, late, demoted>>

\* Mutant of Written: the UPDATE writes every column of the payload.
Written_AllColumns(old, new, row) == IF new = None THEN row ELSE new

\* Mutant of Written: a column left out of the payload is set to NULL.
Written_Unset(old, new, row) == IF new = old THEN row ELSE new

\* An UPDATE writes the columns whose value differs from the loaded one.
Written(old, new, row) == IF new \in {None, old} THEN row ELSE new

\* The flush may come before the check of the company; the row is locked from
\* then on, so the commit is where the others see it.
UpdateCommit(h) ==
  LET u == op[h].target
      role == Written(loaded[h].role, op[h].role, user[u].role)
      home == Written(loaded[h].company, op[h].company, user[u].company)
  IN /\ pc[h] = "write"
     /\ user[u] # None
     /\ RoleCheck(role, home) /\ CompanyRef(home)
     /\ user' = [user EXCEPT ![u] = Row(@.name, role, home)]
     /\ late' = IF home = user[u].company THEN late ELSE JoinsLate(u, home)
     /\ demoted' = IF home # None THEN demoted \ {u}
                   ELSE IF user[u].role = "super_admin" /\ role # "super_admin"
                   THEN demoted \cup {u} ELSE demoted
     /\ Leave(h)
     /\ UNCHANGED <<company, spent>>

DeleteLoad(h) ==
  LET u == op[h].target IN
  /\ pc[h] = "delete_user"
  /\ user[u] # None
  /\ u # actor[h]
  /\ InScope(h, user[u].company)
  /\ Passed(h, "delete")
  /\ UNCHANGED <<rowVars, loaded, late, demoted>>

DeleteCommit(h) ==
  /\ pc[h] = "delete"
  /\ user' = [user EXCEPT ![op[h].target] = None]
  /\ late' = late \ {op[h].target}
  /\ demoted' = demoted \ {op[h].target}
  /\ Leave(h)
  /\ UNCHANGED <<company, spent>>

-----------------------------------------------------------------------------
(* create_company, update_company, delete_company *)

CreateCompanyCheck(h) ==
  /\ pc[h] = "create_company"
  /\ \A c \in Companies : company[c] # op[h].name
  /\ Goto(h, "insert_company")
  /\ UNCHANGED <<rowVars, late, demoted>>

InsertCompany(h, c) ==
  /\ pc[h] = "insert_company"
  /\ c \notin spent
  /\ CompanyNameFree(op[h].name, c)
  /\ company' = [company EXCEPT ![c] = op[h].name]
  /\ spent' = spent \cup {c}
  /\ Leave(h)
  /\ UNCHANGED <<user, late, demoted>>

\* The row is looked up and written back; only the index guards the name.
RenameCompany(h) ==
  /\ pc[h] = "update_company"
  /\ company[op[h].company] # None
  /\ CompanyNameFree(op[h].name, op[h].company)
  /\ company' = [company EXCEPT ![op[h].company] = op[h].name]
  /\ Leave(h)
  /\ UNCHANGED <<user, spent, late, demoted>>

\* Mutant of MembersOf: the relationship does not cascade.
MembersOf_NoCascade(c) == {}

MembersOf(c) == {u \in Live : user[u].company = c}

\* db.delete(company) loads the users the ORM has to delete with it.
DeleteCompanyLoad(h) ==
  LET c == op[h].company IN
  /\ pc[h] = "delete_company"
  /\ company[c] # None
  /\ members' = [members EXCEPT ![h] = MembersOf(c)]
  /\ At(h, "drop")
  /\ UNCHANGED <<rowVars, op, actor, actorRow, loaded, late, demoted>>

\* Mutant of Orphaned: the foreign key leaves company_id as it is.
Orphaned_Dangling(u, c) == user[u]

\* ON DELETE SET NULL, for the members that were not loaded.
Orphaned(u, c) ==
  IF user[u] # None /\ user[u].company = c
  THEN [user[u] EXCEPT !.company = None] ELSE user[u]

DeleteCompanyCommit(h) ==
  LET c == op[h].company IN
  /\ pc[h] = "drop"
  /\ user' = [u \in Users |-> IF u \in members[h] THEN None ELSE Orphaned(u, c)]
  /\ company' = [company EXCEPT ![c] = None]
  /\ late' = late \ members[h]
  /\ demoted' = demoted \ members[h]
  /\ Leave(h)
  /\ UNCHANGED spent

HandlerStep(h) ==
  \/ Refuse(h) \/ CreateCheckName(h) \/ CheckCompany(h) \/ UpdateLoad(h)
  \/ UpdateCommit(h) \/ DeleteLoad(h) \/ DeleteCommit(h) \/ CreateCompanyCheck(h)
  \/ RenameCompany(h) \/ DeleteCompanyLoad(h) \/ DeleteCompanyCommit(h)
  \/ \E u \in Users : InsertUser(h, u)
  \/ \E c \in Companies : InsertCompany(h, c)

Next ==
  \/ \E h \in Handlers : HandlerStep(h)
  \/ \E h \in Handlers, a \in Users, o \in Ops : Guard(h, a, o)
  \/ \E u \in Users, n \in Names : CreateSuperAdmin(u, n)

Spec == Init /\ [][Next]_vars

-----------------------------------------------------------------------------
(* Properties *)

\* Every variable has its type, and a handler knows its actor while it runs.
TypeOK ==
  /\ user \in [Users -> UserRows \cup {None}]
  /\ company \in [Companies -> CompanyNames \cup {None}]
  /\ spent \subseteq Users \cup Companies
  /\ op \in [Handlers -> Ops \cup {None}]
  /\ actor \in [Handlers -> Users \cup {None}]
  /\ members \in [Handlers -> SUBSET Users]
  /\ late \cup demoted \subseteq Users
  /\ \A h \in Handlers :
       /\ pc[h] = "idle" <=> actorRow[h] = None
       /\ pc[h] = "write" => loaded[h] # None
  /\ Live \cup {c \in Companies : company[c] # None} \subseteq spent

\* Two users, or two companies, never have the same name, although the check
\* and the insert are apart and a company is renamed without a check.
UniqueNames ==
  /\ \A u, v \in Live : user[u].name = user[v].name => u = v
  /\ \A c, d \in Companies :
       company[c] # None /\ company[c] = company[d] => c = d

\* A super admin belongs to no company, whichever updates of role and company
\* overlap.
SuperAdminStandsAlone ==
  \A u \in Live : user[u].role = "super_admin" => user[u].company = None

\* The company of a user exists, also when it is deleted while a user is
\* created in it or moved to it.
CompanyExists ==
  \A u \in Live : user[u].company # None => company[user[u].company] # None

\* Only a super admin's request moves a user from one company to another: an
\* admin who writes the own company into the payload does not pull back a user
\* whom a super admin has moved away in between.
OnlySuperAdminMoves ==
  [][\A u \in Live :
       LET new == user'[u] IN
       new # None /\ new.company \notin {None, user[u].company} =>
         \E h \in Handlers :
           /\ pc[h] = "write" /\ op[h].target = u /\ pc'[h] = "idle"
           /\ actorRow[h].role = "super_admin"]_vars

\* An admin or employee without a company is a former super admin, or joined
\* a company while its deletion was under way: in every other order the
\* deletion of a company takes its members with it.
OrphansOnlyByRace ==
  \A u \in Live :
    user[u].role # "super_admin" /\ user[u].company = None => u \in late \cup demoted

Directory == INSTANCE StaffDirectory

\* With checks and commits apart, requests still amount to single steps on
\* consistent rows: nobody becomes a super admin by an update, loses the
\* company by one, or comes back under an old id; and no super admin goes with
\* a company, although its deletion removes users whom it loaded earlier.
DirectoryImplemented == Directory!DirectorySpec
=============================================================================
