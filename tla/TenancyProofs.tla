--------------------------- MODULE TenancyProofs ---------------------------
(***************************************************************************)
(* Theorems about Tenancy, for any number of users, companies and          *)
(* concurrent requests, and for any set of requests clients may send.      *)
(***************************************************************************)
EXTENDS Tenancy, TLAPS

\* What the payload of a request holds.
LEMMA OpFields ==
  ASSUME NEW o \in Ops
  PROVE  /\ o # None
         /\ o.kind \in {"create_user", "update_user", "delete_user",
                       "create_company", "update_company", "delete_company"}
         /\ o.kind = "create_user" =>
              o.name \in Names /\ o.role \in Roles /\ o.company \in Companies
         /\ o.kind = "update_user" =>
              /\ o.target \in Users /\ o.role \in Roles \cup {None}
              /\ o.company \in Companies \cup {None}
         /\ o.kind = "delete_user" => o.target \in Users
         /\ o.kind \in {"create_company", "update_company"} => o.name \in CompanyNames
         /\ o.kind \in {"update_company", "delete_company"} => o.company \in Companies
         /\ o.kind \in {"create_user", "update_user", "delete_user"} <=> o \in UserOps
<1>1. o \in UserOps \cup CompanyOps /\ o # None
  BY OpsAssumption, NoneAssumption
<1>2. CASE o \in UserOps
  BY <1>1, <1>2 DEF UserOps
<1>3. CASE o \in CompanyOps
  <2>1. o \notin UserOps
    BY <1>3 DEF UserOps, CompanyOps
  <2> QED BY <1>1, <1>3, <2>1 DEF CompanyOps
<1> QED BY <1>1, <1>2, <1>3

-----------------------------------------------------------------------------
(* Where a handler can be with which request *)

Labels == {"idle", "create_user", "check_company", "insert", "update_user", "write",
           "delete_user", "delete", "create_company", "insert_company",
           "update_company", "delete_company", "drop"}

HandlersTyped ==
  /\ pc \in [Handlers -> Labels]
  /\ actorRow \in [Handlers -> Standings \cup {None}]
  /\ loaded \in [Handlers -> Standings \cup {None}]

\* Every label belongs to a request, and what the earlier steps checked of the
\* request still holds.
Stage(h) ==
  \/ pc[h] = "idle"
  \/ /\ op[h] \in Ops
     /\ \/ pc[h] = op[h].kind
        \/ /\ pc[h] \in {"check_company", "insert"}
           /\ op[h].kind = "create_user" /\ op[h].role # "super_admin"
        \/ /\ pc[h] = "check_company"
           /\ op[h].kind = "update_user" /\ op[h].company # None
           /\ loaded[h] # None
        \/ pc[h] = "write" /\ op[h].kind = "update_user" /\ loaded[h] # None
        \/ pc[h] = "delete" /\ op[h].kind = "delete_user"
        \/ pc[h] = "insert_company" /\ op[h].kind = "create_company"
        \/ pc[h] = "drop" /\ op[h].kind = "delete_company"

TypeInv == TypeOK /\ HandlersTyped /\ \A h \in Handlers : Stage(h)

LEMMA InitTypeInv == Init => TypeInv
BY TenancyAssumption
   DEF Init, TypeInv, TypeOK, HandlersTyped, Stage, Labels, UserRows, Roles, Row, Live

\* What a handler at a label knows of its request.
LEMMA AtStage ==
  ASSUME TypeInv, NEW h \in Handlers, pc[h] # "idle"
  PROVE  /\ op[h] \in Ops
         /\ actorRow[h] \in Standings
         /\ pc[h] \in {"create_user", "update_user", "delete_user", "create_company",
                       "update_company", "delete_company"} => op[h].kind = pc[h]
         /\ pc[h] = "insert" => op[h].kind = "create_user" /\ op[h].role # "super_admin"
         /\ pc[h] = "write" =>
              op[h].kind = "update_user" /\ loaded[h] \in Standings
         /\ pc[h] = "check_company" =>
              \/ op[h].kind = "create_user" /\ op[h].role # "super_admin"
              \/ /\ op[h].kind = "update_user" /\ op[h].company # None
                 /\ loaded[h] \in Standings
         /\ pc[h] = "delete" => op[h].kind = "delete_user"
         /\ pc[h] = "insert_company" => op[h].kind = "create_company"
         /\ pc[h] = "drop" => op[h].kind = "delete_company"
<1>1. op[h] \in Ops /\ Stage(h)
  BY DEF TypeInv, Stage
<1>2. actorRow[h] \in Standings
  BY DEF TypeInv, TypeOK, HandlersTyped
<1>3. loaded[h] \in Standings \cup {None}
  BY DEF TypeInv, HandlersTyped
<1> QED BY <1>1, <1>2, <1>3, OpFields DEF Stage

\* A handler that leaves is idle and knows nothing any more.
LEMMA LeaveTyped ==
  ASSUME TypeInv, NEW h \in Handlers, Leave(h)
  PROVE  /\ HandlersTyped'
         /\ op' \in [Handlers -> Ops \cup {None}]
         /\ actor' \in [Handlers -> Users \cup {None}]
         /\ members' \in [Handlers -> SUBSET Users]
         /\ \A k \in Handlers :
              /\ pc'[k] = "idle" <=> actorRow'[k] = None
              /\ pc'[k] = "write" => loaded'[k] # None
         /\ \A k \in Handlers : Stage(k)'
<1>1. /\ HandlersTyped'
      /\ op' \in [Handlers -> Ops \cup {None}]
      /\ actor' \in [Handlers -> Users \cup {None}]
      /\ members' \in [Handlers -> SUBSET Users]
  BY DEF TypeInv, TypeOK, HandlersTyped, Leave, At, Labels
<1>2. ASSUME NEW k \in Handlers
      PROVE  /\ pc'[k] = "idle" <=> actorRow'[k] = None
             /\ pc'[k] = "write" => loaded'[k] # None
             /\ Stage(k)'
  <2>1. CASE k = h
    BY <2>1 DEF TypeInv, TypeOK, HandlersTyped, Leave, At, Stage
  <2>2. CASE k # h
    <3>1. /\ pc'[k] = pc[k] /\ op'[k] = op[k] /\ actorRow'[k] = actorRow[k]
          /\ loaded'[k] = loaded[k]
      BY <2>2 DEF TypeInv, TypeOK, HandlersTyped, Leave, At
    <3> QED BY <3>1 DEF TypeInv, TypeOK, Stage
  <2> QED BY <2>1, <2>2
<1> QED BY <1>1, <1>2

\* A step inside a request that changes the label, the actor and what is
\* loaded of one handler only.
Moves(h) ==
  /\ pc' \in [Handlers -> Labels]
  /\ actorRow' \in [Handlers -> Standings \cup {None}]
  /\ loaded' \in [Handlers -> Standings \cup {None}]
  /\ actor' \in [Handlers -> Users \cup {None}]
  /\ members' \in [Handlers -> SUBSET Users]
  /\ op' \in [Handlers -> Ops \cup {None}]
  /\ actorRow'[h] # None /\ pc'[h] # "idle"
  /\ \A k \in Handlers \ {h} :
       /\ pc'[k] = pc[k] /\ op'[k] = op[k] /\ actorRow'[k] = actorRow[k]
       /\ loaded'[k] = loaded[k] /\ members'[k] = members[k]

LEMMA MovesTyped ==
  ASSUME TypeInv, NEW h \in Handlers, Moves(h), Stage(h)',
         UNCHANGED <<rowVars, late, demoted>>
  PROVE  TypeInv'
<1>1. \A k \in Handlers : Stage(k)'
  BY DEF TypeInv, Moves, Stage
<1>2. ASSUME NEW k \in Handlers
      PROVE  /\ pc'[k] = "idle" <=> actorRow'[k] = None
             /\ pc'[k] = "write" => loaded'[k] # None
  <2>1. CASE k = h
    BY <2>1, OpFields DEF Moves, Stage
  <2>2. CASE k # h
    BY <2>2 DEF TypeInv, TypeOK, Moves
  <2> QED BY <2>1, <2>2
<1> QED BY <1>1, <1>2 DEF TypeInv, TypeOK, HandlersTyped, Moves, rowVars, Live

\* Passing the checks keeps the request and the role of the actor.
LEMMA PassedMoves ==
  ASSUME TypeInv, NEW h \in Handlers, pc[h] # "idle", NEW l \in Labels \ {"idle"},
         Passed(h, l), loaded' \in [Handlers -> Standings \cup {None}],
         \A k \in Handlers \ {h} : loaded'[k] = loaded[k]
  PROVE  Moves(h) /\ pc'[h] = l /\ op'[h] = op[h]
<1>1. actorRow[h] \in Standings
  BY AtStage
<1>2. [actorRow[h] EXCEPT !.company = None] \in Standings
  BY <1>1 DEF Standings
<1> QED
  BY <1>1, <1>2, NoneAssumption
     DEF TypeInv, TypeOK, HandlersTyped, Passed, At, Moves

LEMMA GotoMoves ==
  ASSUME TypeInv, NEW h \in Handlers, pc[h] # "idle", NEW l \in Labels \ {"idle"},
         Goto(h, l)
  PROVE  Moves(h) /\ pc'[h] = l /\ op'[h] = op[h] /\ loaded'[h] = loaded[h]
BY DEF TypeInv, TypeOK, HandlersTyped, Goto, At, Moves

-----------------------------------------------------------------------------
(* Type correctness *)

\* What a commit has to show when its handler leaves.
LEMMA CommitTyped ==
  ASSUME TypeInv, NEW h \in Handlers, Leave(h),
         user' \in [Users -> UserRows \cup {None}],
         company' \in [Companies -> CompanyNames \cup {None}],
         spent' \subseteq Users \cup Companies,
         late' \cup demoted' \subseteq Users,
         \A u \in Users : user'[u] # None => u \in spent',
         \A c \in Companies : company'[c] # None => c \in spent'
  PROVE  TypeInv'
BY LeaveTyped DEF TypeInv, TypeOK, Live

\* The rows as TypeOK has them.
LEMMA RowsTyped ==
  ASSUME TypeInv
  PROVE  /\ user \in [Users -> UserRows \cup {None}]
         /\ company \in [Companies -> CompanyNames \cup {None}]
         /\ spent \subseteq Users \cup Companies
         /\ late \subseteq Users /\ demoted \subseteq Users
         /\ \A u \in Users : user[u] # None => u \in spent
         /\ \A c \in Companies : company[c] # None => c \in spent
BY DEF TypeInv, TypeOK, Live

LEMMA JoinsLateTyped ==
  ASSUME late \subseteq Users, NEW u \in Users, NEW c
  PROVE  JoinsLate(u, c) \subseteq Users
BY DEF JoinsLate

\* What an UPDATE leaves in a column has the type of the column.
LEMMA WrittenTyped ==
  ASSUME NEW S, NEW old, NEW new \in S \cup {None}, NEW row \in S
  PROVE  Written(old, new, row) \in S
BY DEF Written

\* Requests up to their last commit.
LEMMA RequestTypeInv ==
  ASSUME TypeInv, NEW h \in Handlers,
         \/ CreateCheckName(h) \/ CheckCompany(h) \/ UpdateLoad(h) \/ DeleteLoad(h)
         \/ CreateCompanyCheck(h) \/ DeleteCompanyLoad(h)
         \/ \E a \in Users, o \in Ops : Guard(h, a, o)
  PROVE  TypeInv'
<1>t. /\ pc \in [Handlers -> Labels]
      /\ loaded \in [Handlers -> Standings \cup {None}]
      /\ op \in [Handlers -> Ops \cup {None}]
      /\ actor \in [Handlers -> Users \cup {None}]
  BY DEF TypeInv, TypeOK, HandlersTyped
<1>1. CASE CreateCheckName(h)
  <2>1. Moves(h) /\ pc'[h] = "check_company" /\ op'[h] = op[h]
    BY <1>1, <1>t, PassedMoves DEF CreateCheckName, Labels
  <2>2. op[h] \in Ops /\ op[h].kind = "create_user" /\ op[h].role # "super_admin"
    BY <1>1, AtStage DEF CreateCheckName
  <2>3. UNCHANGED <<rowVars, late, demoted>>
    BY <1>1 DEF CreateCheckName
  <2> QED BY <2>1, <2>2, <2>3, MovesTyped DEF Stage
<1>2. CASE CheckCompany(h)
  <2> DEFINE l == IF op[h].kind = "create_user" THEN "insert" ELSE "write"
  <2>1. Moves(h) /\ pc'[h] = l /\ op'[h] = op[h] /\ loaded'[h] = loaded[h]
    BY <1>2, GotoMoves DEF CheckCompany, Labels
  <2>2. op[h] \in Ops /\ UNCHANGED <<rowVars, late, demoted>>
    BY <1>2, AtStage DEF CheckCompany
  <2>3. CASE op[h].kind = "create_user"
    <3>1. op[h].role # "super_admin"
      BY <1>2, <2>3, AtStage DEF CheckCompany
    <3> QED BY <2>1, <2>2, <2>3, <3>1, MovesTyped DEF Stage
  <2>4. CASE op[h].kind # "create_user"
    <3>1. op[h].kind = "update_user" /\ loaded[h] \in Standings
      BY <1>2, <2>4, AtStage DEF CheckCompany
    <3> QED BY <2>1, <2>2, <3>1, MovesTyped, NoneAssumption DEF Stage
  <2> QED BY <2>3, <2>4
<1>3. CASE UpdateLoad(h)
  <2> DEFINE row == SessionRow(h, op[h].target)
             l == IF op[h].company = None THEN "write" ELSE "check_company"
  <2>1. op[h] \in Ops /\ op[h].kind = "update_user" /\ op[h].target \in Users
    BY <1>3, AtStage, OpFields DEF UpdateLoad
  <2>2. row \in Standings
    BY <1>3, <2>1, AtStage, RowsTyped
       DEF UpdateLoad, SessionRow, Standing, Standings, UserRows
  <2>3. /\ loaded' \in [Handlers -> Standings \cup {None}] /\ loaded'[h] = row
        /\ \A k \in Handlers \ {h} : loaded'[k] = loaded[k]
    BY <1>3, <2>2, <1>t DEF UpdateLoad
  <2>4. Moves(h) /\ pc'[h] = l /\ op'[h] = op[h]
    BY <1>3, <2>3, PassedMoves DEF UpdateLoad, Labels
  <2>5. UNCHANGED <<rowVars, late, demoted>>
    BY <1>3 DEF UpdateLoad
  <2> QED BY <2>1, <2>2, <2>3, <2>4, <2>5, MovesTyped, NoneAssumption DEF Stage
<1>4. CASE DeleteLoad(h)
  <2>1. Moves(h) /\ pc'[h] = "delete" /\ op'[h] = op[h]
    BY <1>4, <1>t, PassedMoves DEF DeleteLoad, Labels
  <2>2. op[h] \in Ops /\ op[h].kind = "delete_user" /\ UNCHANGED <<rowVars, late, demoted>>
    BY <1>4, AtStage DEF DeleteLoad
  <2> QED BY <2>1, <2>2, MovesTyped DEF Stage
<1>5. CASE CreateCompanyCheck(h)
  <2>1. Moves(h) /\ pc'[h] = "insert_company" /\ op'[h] = op[h]
    BY <1>5, GotoMoves DEF CreateCompanyCheck, Labels
  <2>2. op[h] \in Ops /\ op[h].kind = "create_company"
    BY <1>5, AtStage DEF CreateCompanyCheck
  <2>3. UNCHANGED <<rowVars, late, demoted>>
    BY <1>5 DEF CreateCompanyCheck
  <2> QED BY <2>1, <2>2, <2>3, MovesTyped DEF Stage
<1>6. CASE DeleteCompanyLoad(h)
  <2>1. op[h] \in Ops /\ op[h].kind = "delete_company" /\ actorRow[h] \in Standings
    BY <1>6, AtStage DEF DeleteCompanyLoad
  <2>2. members' \in [Handlers -> SUBSET Users]
    BY <1>6 DEF DeleteCompanyLoad, MembersOf, Live, TypeInv, TypeOK
  <2>3. Moves(h) /\ pc'[h] = "drop" /\ op'[h] = op[h]
    BY <1>6, <1>t, <2>1, <2>2, NoneAssumption
       DEF DeleteCompanyLoad, At, Moves, TypeInv, TypeOK, HandlersTyped, Labels
  <2>4. UNCHANGED <<rowVars, late, demoted>>
    BY <1>6 DEF DeleteCompanyLoad
  <2> QED BY <2>1, <2>3, <2>4, MovesTyped DEF Stage
<1>7. ASSUME NEW a \in Users, NEW o \in Ops, Guard(h, a, o)
      PROVE  TypeInv'
  <2>1. Standing(user[a]) \in Standings
    BY <1>7, RowsTyped DEF Guard, Standing, Standings, UserRows
  <2>2. o.kind \in Labels \ {"idle"}
    BY OpFields DEF Labels
  <2>3. Moves(h) /\ pc'[h] = o.kind /\ op'[h] = o
    BY <1>7, <1>t, <2>1, <2>2, NoneAssumption
       DEF Guard, At, Moves, TypeInv, TypeOK, HandlersTyped
  <2>4. UNCHANGED <<rowVars, late, demoted>>
    BY <1>7 DEF Guard
  <2> QED BY <2>3, <2>4, MovesTyped DEF Stage
<1> QED BY <1>1, <1>2, <1>3, <1>4, <1>5, <1>6, <1>7

\* The commits, which end a request.
LEMMA CommitTypeInv ==
  ASSUME TypeInv, NEW h \in Handlers,
         \/ Refuse(h) \/ UpdateCommit(h) \/ DeleteCommit(h) \/ RenameCompany(h)
         \/ DeleteCompanyCommit(h)
         \/ \E u \in Users : InsertUser(h, u)
         \/ \E c \in Companies : InsertCompany(h, c)
  PROVE  TypeInv'
<1> USE RowsTyped
<1>1. CASE Refuse(h)
  BY <1>1, CommitTyped DEF Refuse, rowVars
<1>2. CASE UpdateCommit(h)
  <2> DEFINE u == op[h].target
             role == Written(loaded[h].role, op[h].role, user[u].role)
             home == Written(loaded[h].company, op[h].company, user[u].company)
  <2>1. /\ u \in Users /\ op[h].role \in Roles \cup {None}
        /\ op[h].company \in Companies \cup {None}
    BY <1>2, AtStage, OpFields DEF UpdateCommit
  <2>2. user[u] \in UserRows
    BY <1>2, <2>1 DEF UpdateCommit
  <2>3. role \in Roles /\ home \in Companies \cup {None}
    BY <2>1, <2>2, WrittenTyped DEF UserRows
  <2>4. Row(user[u].name, role, home) \in UserRows
    BY <2>2, <2>3 DEF Row, UserRows
  <2>5. user' = [user EXCEPT ![u] = Row(user[u].name, role, home)]
    BY <1>2, <2>1 DEF UpdateCommit
  <2>6. user' \in [Users -> UserRows \cup {None}]
    BY <2>4, <2>5
  <2>7. late' \cup demoted' \subseteq Users
    BY <1>2, <2>1, JoinsLateTyped DEF UpdateCommit
  <2>8. /\ Leave(h) /\ UNCHANGED <<company, spent>> /\ user[u] # None
    BY <1>2 DEF UpdateCommit
  <2>9. \A v \in Users : user'[v] # None => v \in spent
    BY <2>5, <2>8
  <2> QED BY <2>6, <2>7, <2>8, <2>9, CommitTyped
<1>3. CASE DeleteCommit(h)
  BY <1>3, CommitTyped DEF DeleteCommit
<1>4. CASE RenameCompany(h)
  <2>1. op[h].name \in CompanyNames /\ op[h].company \in Companies
    BY <1>4, AtStage, OpFields DEF RenameCompany
  <2> QED BY <1>4, <2>1, CommitTyped DEF RenameCompany
<1>5. CASE DeleteCompanyCommit(h)
  <2> DEFINE c == op[h].company
  <2>1. \A u \in Users : Orphaned(u, c) \in UserRows \cup {None}
    <3> SUFFICES ASSUME NEW u \in Users, user[u] # None
                 PROVE  Orphaned(u, c) \in UserRows \cup {None}
      BY DEF Orphaned
    <3>1. user[u] \in UserRows /\ [user[u] EXCEPT !.company = None] \in UserRows
      BY DEF UserRows
    <3> QED BY <3>1 DEF Orphaned
  <2>2. user' \in [Users -> UserRows \cup {None}]
    BY <1>5, <2>1 DEF DeleteCompanyCommit
  <2>3. \A u \in Users : user'[u] # None => user[u] # None
    BY <1>5 DEF DeleteCompanyCommit, Orphaned
  <2> QED BY <1>5, <2>2, <2>3, CommitTyped DEF DeleteCompanyCommit
<1>6. ASSUME NEW u \in Users, InsertUser(h, u)
      PROVE  TypeInv'
  <2>1. Row(op[h].name, op[h].role, op[h].company) \in UserRows
    BY <1>6, AtStage, OpFields DEF InsertUser, Row, UserRows
  <2> QED BY <1>6, <2>1, CommitTyped, JoinsLateTyped DEF InsertUser
<1>7. ASSUME NEW c \in Companies, InsertCompany(h, c)
      PROVE  TypeInv'
  <2>1. op[h].name \in CompanyNames
    BY <1>7, AtStage, OpFields DEF InsertCompany
  <2> QED BY <1>7, <2>1, CommitTyped DEF InsertCompany
<1> QED BY <1>1, <1>2, <1>3, <1>4, <1>5, <1>6, <1>7

LEMMA CreateSuperAdminTypeInv ==
  ASSUME TypeInv, NEW u \in Users, NEW n \in Names, CreateSuperAdmin(u, n)
  PROVE  TypeInv'
<1>1. Row(n, "super_admin", None) \in UserRows
  BY DEF Row, UserRows, Roles
<1>2. /\ user' \in [Users -> UserRows \cup {None}]
      /\ spent' \subseteq Users \cup Companies
      /\ \A v \in Users : user'[v] # None => v \in spent'
      /\ \A c \in Companies : company[c] # None => c \in spent'
  BY <1>1, RowsTyped DEF CreateSuperAdmin
<1>3. UNCHANGED <<company, handlerVars, late, demoted>>
  BY DEF CreateSuperAdmin
<1> QED
  BY <1>2, <1>3 DEF TypeInv, TypeOK, HandlersTyped, Stage, Live, handlerVars

LEMMA NextTypeInv ==
  ASSUME TypeInv, [Next]_vars
  PROVE  TypeInv'
<1>1. CASE UNCHANGED vars
  BY <1>1 DEF vars, rowVars, handlerVars, TypeInv, TypeOK, HandlersTyped, Stage, Live
<1>2. CASE Next
  BY <1>2, RequestTypeInv, CommitTypeInv, CreateSuperAdminTypeInv DEF Next, HandlerStep
<1> QED BY <1>1, <1>2

LEMMA TypeInvHolds == Spec => []TypeInv
BY InitTypeInv, NextTypeInv, PTL DEF Spec

\* Every variable keeps its type, whatever requests overlap.
THEOREM TypeCorrect == Spec => []TypeOK
<1>1. TypeInv => TypeOK
  BY DEF TypeInv
<1> QED BY <1>1, TypeInvHolds, PTL

-----------------------------------------------------------------------------
(* What the rows say together *)

RowInv == UniqueNames /\ SuperAdminStandsAlone /\ CompanyExists

\* RowInv without Live, over all users.
LEMMA RowInvMeans ==
  RowInv <=>
    /\ \A u, v \in Users :
         user[u] # None /\ user[v] # None /\ user[u].name = user[v].name => u = v
    /\ \A c, d \in Companies : company[c] # None /\ company[c] = company[d] => c = d
    /\ \A u \in Users :
         user[u] # None =>
           /\ user[u].role = "super_admin" => user[u].company = None
           /\ user[u].company # None => company[user[u].company] # None
BY DEF RowInv, UniqueNames, SuperAdminStandsAlone, CompanyExists, Live

\* A step before the commit, and a refusal, change no row.
LEMMA OnlyCommitsWrite ==
  ASSUME NEW h \in Handlers,
         \/ CreateCheckName(h) \/ CheckCompany(h) \/ UpdateLoad(h) \/ DeleteLoad(h)
         \/ CreateCompanyCheck(h) \/ DeleteCompanyLoad(h) \/ Refuse(h)
         \/ \E a \in Users, o \in Ops : Guard(h, a, o)
  PROVE  UNCHANGED <<rowVars, late, demoted>>
BY DEF CreateCheckName, CheckCompany, UpdateLoad, DeleteLoad, CreateCompanyCheck,
       DeleteCompanyLoad, Refuse, Guard

\* One written row keeps RowInv if its name is free, its role goes with its
\* company and its company exists.
LEMMA WriteRowInv ==
  ASSUME TypeInv, RowInv, NEW u \in Users, NEW n, NEW r, NEW c,
         user' = [user EXCEPT ![u] = Row(n, r, c)], company' = company,
         \A v \in Users \ {u} : user[v] # None => user[v].name # n,
         RoleCheck(r, c), CompanyRef(c)
  PROVE  RowInv'
<1>1. /\ user'[u] = Row(n, r, c) /\ Row(n, r, c).name = n
      /\ Row(n, r, c).role = r /\ Row(n, r, c).company = c
      /\ \A v \in Users \ {u} : user'[v] = user[v]
  BY RowsTyped DEF Row
<1>2. /\ r = "super_admin" => c = None
      /\ c # None => company[c] # None
  BY DEF RoleCheck, CompanyRef
<1>3. \A v, w \in Users :
        user'[v] # None /\ user'[w] # None /\ user'[v].name = user'[w].name => v = w
  BY <1>1, RowInvMeans
<1>4. \A v \in Users :
        user'[v] # None =>
          /\ user'[v].role = "super_admin" => user'[v].company = None
          /\ user'[v].company # None => company[user'[v].company] # None
  BY <1>1, <1>2, RowInvMeans
<1> QED BY <1>3, <1>4, RowInvMeans DEF RowInv, UniqueNames, SuperAdminStandsAlone, CompanyExists, Live

\* One written name of a company keeps RowInv if the name is free.
LEMMA WriteCompanyInv ==
  ASSUME TypeInv, RowInv, NEW c \in Companies, NEW n \in CompanyNames,
         company' = [company EXCEPT ![c] = n], user' = user, CompanyNameFree(n, c)
  PROVE  RowInv'
<1>1. company'[c] = n /\ n # None /\ \A d \in Companies \ {c} : company'[d] = company[d]
  BY RowsTyped, TenancyAssumption
<1>2. \A d, e \in Companies : company'[d] # None /\ company'[d] = company'[e] => d = e
  BY <1>1, RowInvMeans DEF CompanyNameFree
<1>3. \A u \in Users :
        user[u] # None /\ user[u].company # None => company'[user[u].company] # None
  BY <1>1, RowsTyped, RowInvMeans DEF UserRows
<1> QED BY <1>2, <1>3, RowInvMeans DEF RowInv, UniqueNames, SuperAdminStandsAlone, CompanyExists, Live

LEMMA CommitRowInv ==
  ASSUME TypeInv, RowInv, NEW h \in Handlers,
         \/ UpdateCommit(h) \/ DeleteCommit(h) \/ RenameCompany(h) \/ DeleteCompanyCommit(h)
         \/ \E u \in Users : InsertUser(h, u)
         \/ \E c \in Companies : InsertCompany(h, c)
  PROVE  RowInv'
<1> USE RowsTyped
<1>1. CASE UpdateCommit(h)
  <2>1. op[h].target \in Users
    BY <1>1, AtStage, OpFields DEF UpdateCommit
  <2>2. \A v \in Users \ {op[h].target} :
          user[v] # None => user[v].name # user[op[h].target].name
    BY <1>1, <2>1, RowInvMeans DEF UpdateCommit
  <2> DEFINE u == op[h].target
             role == Written(loaded[h].role, op[h].role, user[u].role)
             home == Written(loaded[h].company, op[h].company, user[u].company)
  <2>3. /\ user' = [user EXCEPT ![u] = Row(user[u].name, role, home)]
        /\ RoleCheck(role, home) /\ CompanyRef(home) /\ company' = company
    BY <1>1 DEF UpdateCommit
  <2> HIDE DEF u, role, home
  <2>4. u \in Users /\ \A v \in Users \ {u} : user[v] # None => user[v].name # user[u].name
    BY <2>1, <2>2 DEF u
  <2> QED BY <2>3, <2>4, WriteRowInv
<1>2. CASE DeleteCommit(h)
  <2>1. op[h].target \in Users
    BY <1>2, AtStage, OpFields DEF DeleteCommit
  <2>2. /\ user'[op[h].target] = None /\ company' = company
        /\ \A v \in Users \ {op[h].target} : user'[v] = user[v]
    BY <1>2, <2>1 DEF DeleteCommit
  <2> QED BY <2>2, RowInvMeans DEF RowInv, UniqueNames, SuperAdminStandsAlone, CompanyExists, Live
<1>3. CASE RenameCompany(h)
  <2>1. op[h].name \in CompanyNames /\ op[h].company \in Companies
    BY <1>3, AtStage, OpFields DEF RenameCompany
  <2> QED BY <1>3, <2>1, WriteCompanyInv DEF RenameCompany
<1>4. CASE DeleteCompanyCommit(h)
  <2> DEFINE c == op[h].company
  <2>1. c \in Companies
    BY <1>4, AtStage, OpFields DEF DeleteCompanyCommit
  <2>2. ASSUME NEW u \in Users, user'[u] # None
        PROVE  /\ user[u] # None /\ user'[u].name = user[u].name
               /\ user'[u].role = user[u].role
               /\ user'[u].company \in {None, user[u].company} \ {c}
    <3>1. user'[u] = Orphaned(u, c) /\ user[u] # None
      BY <1>4, <2>2 DEF DeleteCompanyCommit, Orphaned
    <3>2. user[u] \in UserRows /\ c # None
      BY <3>1, <2>1, TenancyAssumption
    <3> QED BY <3>1, <3>2 DEF Orphaned, UserRows
  <2>3. company'[c] = None /\ \A d \in Companies \ {c} : company'[d] = company[d]
    BY <1>4, <2>1 DEF DeleteCompanyCommit
  <2>4. \A u, v \in Users :
          user'[u] # None /\ user'[v] # None /\ user'[u].name = user'[v].name => u = v
    BY <2>2, RowInvMeans
  <2>5. \A d, e \in Companies : company'[d] # None /\ company'[d] = company'[e] => d = e
    BY <2>3, RowInvMeans
  <2>6. \A u \in Users :
          user'[u] # None =>
            /\ user'[u].role = "super_admin" => user'[u].company = None
            /\ user'[u].company # None => company'[user'[u].company] # None
    BY <2>2, <2>3, RowInvMeans DEF UserRows
  <2> QED BY <2>4, <2>5, <2>6 DEF RowInv, UniqueNames, SuperAdminStandsAlone, CompanyExists, Live
<1>5. ASSUME NEW u \in Users, InsertUser(h, u)
      PROVE  RowInv'
  <2>1. op[h].role # "super_admin"
    BY <1>5, AtStage DEF InsertUser
  <2>2. /\ user' = [user EXCEPT ![u] = Row(op[h].name, op[h].role, op[h].company)]
        /\ company' = company /\ CompanyRef(op[h].company)
        /\ \A v \in Users \ {u} : user[v] # None => user[v].name # op[h].name
    BY <1>5 DEF InsertUser, NameFree, Live
  <2>3. RoleCheck(op[h].role, op[h].company)
    BY <2>1 DEF RoleCheck
  <2> QED BY <2>2, <2>3, WriteRowInv
<1>6. ASSUME NEW c \in Companies, InsertCompany(h, c)
      PROVE  RowInv'
  <2>1. op[h].name \in CompanyNames
    BY <1>6, AtStage, OpFields DEF InsertCompany
  <2> QED BY <1>6, <2>1, WriteCompanyInv DEF InsertCompany
<1> QED BY <1>1, <1>2, <1>3, <1>4, <1>5, <1>6

LEMMA NextRowInv ==
  ASSUME TypeInv, RowInv, [Next]_vars
  PROVE  RowInv'
<1>1. CASE UNCHANGED <<user, company>>
  BY <1>1 DEF RowInv, UniqueNames, SuperAdminStandsAlone, CompanyExists, Live
<1>2. ASSUME NEW h \in Handlers, HandlerStep(h) PROVE RowInv'
  BY <1>1, <1>2, CommitRowInv, OnlyCommitsWrite DEF HandlerStep, rowVars
<1>3. ASSUME NEW h \in Handlers, NEW a \in Users, NEW o \in Ops, Guard(h, a, o)
      PROVE  RowInv'
  BY <1>1, <1>3 DEF Guard, rowVars
<1>4. ASSUME NEW u \in Users, NEW n \in Names, CreateSuperAdmin(u, n)
      PROVE  RowInv'
  BY <1>4, WriteRowInv DEF CreateSuperAdmin, NameFree, RoleCheck, CompanyRef, Live
<1> QED BY <1>1, <1>2, <1>3, <1>4 DEF Next, vars, rowVars

LEMMA RowInvHolds == Spec => []RowInv
<1>1. Init => RowInv
  BY TenancyAssumption, RowInvMeans DEF Init, Row
<1> QED BY <1>1, NextRowInv, TypeInvHolds, PTL DEF Spec

\* The unique indexes keep names apart, also of two requests that have both
\* found the name free.
THEOREM NamesUnique == Spec => []UniqueNames
<1>1. RowInv => UniqueNames
  BY DEF RowInv
<1> QED BY <1>1, RowInvHolds, PTL

\* The constraint of the table keeps super admins out of companies, and no
\* request can create one in a company.
THEOREM SuperAdminsAlone == Spec => []SuperAdminStandsAlone
<1>1. RowInv => SuperAdminStandsAlone
  BY DEF RowInv
<1> QED BY <1>1, RowInvHolds, PTL

\* A user never refers to a company that is gone.
THEOREM CompaniesExist == Spec => []CompanyExists
<1>1. RowInv => CompanyExists
  BY DEF RowInv
<1> QED BY <1>1, RowInvHolds, PTL

-----------------------------------------------------------------------------
(* Who moves users *)

\* An actor is no employee, and an admin has asked only for the company the
\* target was loaded with.
ScopeInv ==
  \A h \in Handlers :
    /\ pc[h] # "idle" => actorRow[h].role # "employee"
    /\ pc[h] \in {"write", "check_company"} /\ op[h].kind = "update_user"
         /\ actorRow[h].role # "super_admin" =>
           op[h].company \in {None, loaded[h].company}

\* A handler that stays where it is, or leaves, keeps ScopeInv.
LEMMA OthersKeepScope ==
  ASSUME ScopeInv, NEW k \in Handlers,
         \/ pc'[k] = "idle"
         \/ /\ pc'[k] = pc[k] /\ op'[k] = op[k]
            /\ actorRow'[k] = actorRow[k] /\ loaded'[k] = loaded[k]
  PROVE  /\ pc'[k] # "idle" => actorRow'[k].role # "employee"
         /\ pc'[k] \in {"write", "check_company"} /\ op'[k].kind = "update_user"
              /\ actorRow'[k].role # "super_admin" =>
                op'[k].company \in {None, loaded'[k].company}
BY DEF ScopeInv

LEMMA LeaveKeepsScope ==
  ASSUME TypeInv, ScopeInv, NEW h \in Handlers, Leave(h)
  PROVE  ScopeInv'
<1>1. \A k \in Handlers :
        \/ pc'[k] = "idle"
        \/ /\ pc'[k] = pc[k] /\ op'[k] = op[k]
           /\ actorRow'[k] = actorRow[k] /\ loaded'[k] = loaded[k]
  BY DEF TypeInv, TypeOK, HandlersTyped, Leave, At
<1> QED BY <1>1, OthersKeepScope DEF ScopeInv

\* Passing the checks keeps the role of the actor and the other handlers.
LEMMA PassedKeeps ==
  ASSUME TypeInv, NEW h \in Handlers, pc[h] # "idle", NEW l, Passed(h, l)
  PROVE  /\ pc'[h] = l /\ op' = op /\ actorRow'[h].role = actorRow[h].role
         /\ \A k \in Handlers \ {h} : pc'[k] = pc[k] /\ actorRow'[k] = actorRow[k]
<1>1. actorRow[h] \in Standings
  BY AtStage
<1>2. [actorRow[h] EXCEPT !.company = None].role = actorRow[h].role
  BY <1>1 DEF Standings
<1> QED BY <1>2 DEF TypeInv, HandlersTyped, Passed, At

LEMMA RequestScopeInv ==
  ASSUME TypeInv, ScopeInv, NEW h \in Handlers,
         \/ CreateCheckName(h) \/ CheckCompany(h) \/ UpdateLoad(h) \/ DeleteLoad(h)
         \/ CreateCompanyCheck(h) \/ DeleteCompanyLoad(h)
         \/ \E a \in Users, o \in Ops : Guard(h, a, o)
  PROVE  ScopeInv'
<1> DEFINE Keeps(k) == /\ pc'[k] = pc[k] /\ op'[k] = op[k]
                       /\ actorRow'[k] = actorRow[k] /\ loaded'[k] = loaded[k]
           Scope(k) ==
             /\ pc'[k] # "idle" => actorRow'[k].role # "employee"
             /\ pc'[k] \in {"write", "check_company"} /\ op'[k].kind = "update_user"
                  /\ actorRow'[k].role # "super_admin" =>
                    op'[k].company \in {None, loaded'[k].company}
<1>t. /\ pc \in [Handlers -> Labels] /\ loaded \in [Handlers -> Standings \cup {None}]
      /\ op \in [Handlers -> Ops \cup {None}]
      /\ actorRow \in [Handlers -> Standings \cup {None}]
  BY DEF TypeInv, TypeOK, HandlersTyped
<1>s. SUFFICES /\ \A k \in Handlers \ {h} : Keeps(k)
               /\ Scope(h)
  <2>1. \A k \in Handlers : Keeps(k) => Scope(k)
    BY OthersKeepScope
  <2> QED BY <2>1 DEF ScopeInv
<1>1. CASE CreateCheckName(h)
  <2>1. op[h].kind = "create_user" /\ pc[h] # "idle"
    BY <1>1, AtStage DEF CreateCheckName
  <2> QED BY <1>1, <2>1, PassedKeeps DEF CreateCheckName, ScopeInv
<1>2. CASE CheckCompany(h)
  <2>1. /\ pc[h] = "check_company" /\ op' = op /\ actorRow' = actorRow /\ loaded' = loaded
        /\ \A k \in Handlers \ {h} : pc'[k] = pc[k]
    BY <1>2, <1>t DEF CheckCompany, Goto, At
  <2> QED BY <2>1 DEF ScopeInv
<1>3. CASE UpdateLoad(h)
  <2> DEFINE row == SessionRow(h, op[h].target)
  <2>1. /\ op' = op /\ loaded'[h] = row /\ actorRow'[h].role = actorRow[h].role
        /\ \A k \in Handlers \ {h} : Keeps(k)
    BY <1>3, <1>t, PassedKeeps DEF UpdateLoad
  <2>2. actorRow[h].role \in Roles /\ actorRow[h].role # "employee"
    BY <1>3, AtStage DEF UpdateLoad, ScopeInv, Standings
  <2>3. actorRow[h].role # "super_admin" => op[h].company \in {None, row.company}
    BY <1>3, <2>2 DEF UpdateLoad, InScope, Roles
  <2> QED BY <2>1, <2>2, <2>3
<1>4. CASE DeleteLoad(h)
  <2>1. pc[h] # "idle" /\ Passed(h, "delete") /\ loaded' = loaded
    BY <1>4 DEF DeleteLoad
  <2> QED BY <2>1, PassedKeeps DEF ScopeInv
<1>5. CASE CreateCompanyCheck(h)
  <2>1. /\ pc[h] = "create_company" /\ op' = op /\ actorRow' = actorRow /\ loaded' = loaded
        /\ pc'[h] = "insert_company" /\ \A k \in Handlers \ {h} : pc'[k] = pc[k]
    BY <1>5, <1>t DEF CreateCompanyCheck, Goto, At
  <2> QED BY <2>1 DEF ScopeInv
<1>6. CASE DeleteCompanyLoad(h)
  <2>1. /\ pc[h] = "delete_company" /\ UNCHANGED <<op, actorRow, loaded>>
        /\ pc'[h] = "drop" /\ \A k \in Handlers \ {h} : pc'[k] = pc[k]
    BY <1>6, <1>t DEF DeleteCompanyLoad, At
  <2> QED BY <2>1 DEF ScopeInv
<1>7. ASSUME NEW a \in Users, NEW o \in Ops, Guard(h, a, o)
      PROVE  (\A k \in Handlers \ {h} : Keeps(k)) /\ Scope(h)
  <2>1. /\ op'[h] = o /\ pc'[h] = o.kind /\ actorRow'[h] = Standing(user[a])
        /\ \A k \in Handlers \ {h} : Keeps(k)
    BY <1>7, <1>t DEF Guard, At
  <2>2. user[a].role # "employee" /\ Standing(user[a]).role = user[a].role
    BY <1>7 DEF Guard, Allowed, Standing
  <2> QED BY <2>1, <2>2, OpFields
<1> QED BY <1>1, <1>2, <1>3, <1>4, <1>5, <1>6, <1>7

LEMMA NextScopeInv ==
  ASSUME TypeInv, ScopeInv, [Next]_vars
  PROVE  ScopeInv'
<1>1. CASE UNCHANGED handlerVars
  BY <1>1 DEF handlerVars, ScopeInv
<1>2. ASSUME NEW h \in Handlers, HandlerStep(h) PROVE ScopeInv'
  BY <1>2, RequestScopeInv, LeaveKeepsScope
     DEF HandlerStep, Refuse, UpdateCommit, DeleteCommit, RenameCompany,
         DeleteCompanyCommit, InsertUser, InsertCompany
<1>3. ASSUME NEW h \in Handlers, NEW a \in Users, NEW o \in Ops, Guard(h, a, o)
      PROVE  ScopeInv'
  BY <1>3, RequestScopeInv
<1> QED BY <1>1, <1>2, <1>3 DEF Next, vars, CreateSuperAdmin

\* A user whose company changes to another one.
MovedBy(h, u) ==
  /\ pc[h] = "write" /\ op[h].target = u /\ pc'[h] = "idle"
  /\ actorRow[h].role = "super_admin"

Moved(u) == user'[u] # None /\ user'[u].company \notin {None, user[u].company}

LEMMA UpdateMoves ==
  ASSUME TypeInv, ScopeInv, NEW h \in Handlers, UpdateCommit(h),
         NEW u \in Users, Moved(u)
  PROVE  MovedBy(h, u)
<1> DEFINE t == op[h].target
           role == Written(loaded[h].role, op[h].role, user[t].role)
           home == Written(loaded[h].company, op[h].company, user[t].company)
<1>1. /\ user' = [user EXCEPT ![t] = Row(user[t].name, role, home)] /\ Leave(h)
      /\ pc[h] = "write"
  BY DEF UpdateCommit
<1>2. op[h].kind = "update_user" /\ t \in Users
  BY <1>1, AtStage, OpFields
<1>3. t = u /\ home # user[u].company
  <2>1. t = u
    BY <1>1, RowsTyped DEF Moved
  <2>2. user'[u].company = home
    BY <1>1, <2>1, RowsTyped DEF Row
  <2> QED BY <2>1, <2>2 DEF Moved
<1>4. op[h].company \notin {None, loaded[h].company}
  BY <1>3 DEF Written
<1>5. actorRow[h].role = "super_admin"
  BY <1>1, <1>2, <1>4 DEF ScopeInv
<1>6. pc'[h] = "idle"
  BY <1>1 DEF Leave, At, TypeInv, HandlersTyped
<1> QED BY <1>1, <1>3, <1>5, <1>6 DEF MovedBy

LEMMA NextMoves ==
  ASSUME TypeInv, ScopeInv, [Next]_vars, NEW u \in Users, user[u] # None, Moved(u)
  PROVE  \E h \in Handlers : MovedBy(h, u)
<1>1. user'[u] # user[u]
  BY DEF Moved
<1>2. CASE \E h \in Handlers : UpdateCommit(h)
  BY <1>2, UpdateMoves
<1>3. ASSUME NEW h \in Handlers, HandlerStep(h), ~ UpdateCommit(h)
      PROVE  FALSE
  <2>1. CASE DeleteCommit(h)
    BY <1>1, <2>1, RowsTyped DEF DeleteCommit, Moved
  <2>2. CASE DeleteCompanyCommit(h)
    <3>1. user[u] \in UserRows /\ user'[u] = Orphaned(u, op[h].company)
      BY <2>2, RowsTyped DEF DeleteCompanyCommit, Moved
    <3> QED BY <3>1 DEF Orphaned, Moved, UserRows
  <2>3. ASSUME NEW v \in Users, InsertUser(h, v) PROVE FALSE
    BY <1>1, <2>3, RowsTyped DEF InsertUser
  <2>4. CASE RenameCompany(h) \/ \E c \in Companies : InsertCompany(h, c)
    BY <1>1, <2>4 DEF RenameCompany, InsertCompany
  <2>5. CASE user' = user
    BY <1>1, <2>5
  <2> QED BY <1>3, <2>1, <2>2, <2>3, <2>4, <2>5, OnlyCommitsWrite DEF HandlerStep, rowVars
<1>4. ASSUME NEW h \in Handlers, NEW a \in Users, NEW o \in Ops, Guard(h, a, o)
      PROVE  FALSE
  BY <1>1, <1>4 DEF Guard, rowVars
<1>5. ASSUME NEW v \in Users, NEW n \in Names, CreateSuperAdmin(v, n)
      PROVE  FALSE
  BY <1>1, <1>5, RowsTyped DEF CreateSuperAdmin
<1>6. Next
  BY <1>1 DEF vars, rowVars
<1> QED BY <1>2, <1>3, <1>4, <1>5, <1>6 DEF Next

LEMMA ScopeInvHolds == Spec => []ScopeInv
<1>1. Init => ScopeInv
  BY DEF Init, ScopeInv
<1> QED BY <1>1, NextScopeInv, TypeInvHolds, PTL DEF Spec

\* An admin's request, judged by rows read before its commit, never moves a
\* user into another company, whatever super admins commit in between.
THEOREM MovesAreSuperAdmins == Spec => OnlySuperAdminMoves
<1> DEFINE Step == \A u \in Live :
             LET new == user'[u] IN
             new # None /\ new.company \notin {None, user[u].company} =>
               \E h \in Handlers :
                 /\ pc[h] = "write" /\ op[h].target = u /\ pc'[h] = "idle"
                 /\ actorRow[h].role = "super_admin"
<1>1. ASSUME TypeInv, ScopeInv, [Next]_vars PROVE [Step]_vars
  BY <1>1, NextMoves DEF Moved, MovedBy, Live
<1> HIDE DEF Step
<1>2. Spec => [][Step]_vars
  BY <1>1, TypeInvHolds, ScopeInvHolds, PTL DEF Spec
<1> QED BY <1>2 DEF Step, OnlySuperAdminMoves

-----------------------------------------------------------------------------
(* Who has no company *)

\* Whoever is in a company that is being deleted was loaded with it, or joined late.
DropInv ==
  \A h \in Handlers : pc[h] = "drop" =>
    \A u \in Live : user[u].company = op[h].company => u \in members[h] \cup late

\* OrphansOnlyByRace of one user.
Placed(u) ==
  user[u] # None /\ user[u].role # "super_admin" /\ user[u].company = None =>
    u \in late \cup demoted

\* DropInv of one handler and one user.
DropKnows(h, u) ==
  pc[h] = "drop" /\ user[u] # None /\ user[u].company = op[h].company =>
    u \in members[h] \cup late

OrphanInv ==
  \A u \in Users : Placed(u) /\ \A h \in Handlers : DropKnows(h, u)

LEMMA OrphanInvMeans == OrphanInv <=> OrphansOnlyByRace /\ DropInv
BY DEF OrphanInv, OrphansOnlyByRace, DropInv, Placed, DropKnows, Live

\* A user whose row and history stay, while every handler stays at its
\* deletion, starts none or has just loaded this user, is still accounted for.
LEMMA UserKept ==
  ASSUME OrphanInv, NEW u \in Users, user'[u] = user[u],
         u \in late => u \in late', u \in demoted => u \in demoted',
         \A h \in Handlers :
           \/ pc'[h] # "drop"
           \/ pc[h] = "drop" /\ op'[h] = op[h] /\ members'[h] = members[h]
           \/ op'[h] = op[h] /\ members'[h] = MembersOf(op[h].company)
  PROVE  Placed(u)' /\ \A h \in Handlers : DropKnows(h, u)'
<1>1. Placed(u) /\ Placed(u)'
  BY DEF OrphanInv, Placed
<1>2. ASSUME NEW h \in Handlers PROVE DropKnows(h, u)'
  BY <1>2 DEF OrphanInv, DropKnows, MembersOf, Live
<1> QED BY <1>1, <1>2

\* What a leaving handler does to the others' deletions.
LEMMA LeaveDrops ==
  ASSUME TypeInv, NEW h \in Handlers, Leave(h)
  PROVE  /\ pc'[h] = "idle"
         /\ \A k \in Handlers \ {h} :
              pc'[k] = pc[k] /\ op'[k] = op[k] /\ members'[k] = members[k]
BY DEF Leave, At, TypeInv, TypeOK, HandlersTyped

\* A request before its commit: only DeleteCompanyLoad begins a deletion, with
\* all members of the company.
LEMMA RequestOrphanInv ==
  ASSUME TypeInv, OrphanInv, NEW h \in Handlers,
         \/ CreateCheckName(h) \/ CheckCompany(h) \/ UpdateLoad(h) \/ DeleteLoad(h)
         \/ CreateCompanyCheck(h) \/ DeleteCompanyLoad(h) \/ Refuse(h)
         \/ \E a \in Users, o \in Ops : Guard(h, a, o)
  PROVE  OrphanInv'
<1>1. UNCHANGED <<user, late, demoted>>
  BY OnlyCommitsWrite DEF rowVars
<1>t. /\ pc \in [Handlers -> Labels] /\ op \in [Handlers -> Ops \cup {None}]
      /\ members \in [Handlers -> SUBSET Users]
  BY DEF TypeInv, TypeOK, HandlersTyped
<1>2. ASSUME NEW k \in Handlers
      PROVE  \/ pc'[k] # "drop"
             \/ pc[k] = "drop" /\ op'[k] = op[k] /\ members'[k] = members[k]
             \/ op'[k] = op[k] /\ members'[k] = MembersOf(op[k].company)
  <2>1. CASE Refuse(h)
    BY <2>1, LeaveDrops DEF Refuse
  <2>2. CASE DeleteCompanyLoad(h)
    BY <2>2, <1>t DEF DeleteCompanyLoad, At
  <2>3. ASSUME NEW a \in Users, NEW o \in Ops, Guard(h, a, o)
        PROVE  \/ pc'[k] # "drop"
               \/ pc[k] = "drop" /\ op'[k] = op[k] /\ members'[k] = members[k]
    BY <2>3, <1>t, OpFields DEF Guard, At
  <2>4. CASE CreateCheckName(h) \/ CheckCompany(h) \/ UpdateLoad(h) \/ DeleteLoad(h)
               \/ CreateCompanyCheck(h)
    BY <2>4, <1>t
       DEF CreateCheckName, CheckCompany, UpdateLoad, DeleteLoad, CreateCompanyCheck,
           Passed, Goto, At
  <2> QED BY <2>1, <2>2, <2>3, <2>4
<1> QED BY <1>1, <1>2, UserKept DEF OrphanInv

\* A user about whom a commit changes nothing.
LEMMA CommitKeepsUser ==
  ASSUME TypeInv, OrphanInv, NEW h \in Handlers, Leave(h), NEW u \in Users,
         user'[u] = user[u], u \in late => u \in late', u \in demoted => u \in demoted'
  PROVE  Placed(u)' /\ \A k \in Handlers : DropKnows(k, u)'
BY LeaveDrops, UserKept

\* A company being deleted is a company.
LEMMA DropCompany ==
  ASSUME TypeInv, NEW h \in Handlers, pc[h] = "drop"
  PROVE  op[h].company \in Companies /\ op[h].company # None
BY AtStage, OpFields, TenancyAssumption

LEMMA CommitOrphanInv ==
  ASSUME TypeInv, OrphanInv, NEW h \in Handlers,
         \/ UpdateCommit(h) \/ DeleteCommit(h) \/ RenameCompany(h) \/ DeleteCompanyCommit(h)
         \/ \E u \in Users : InsertUser(h, u)
         \/ \E c \in Companies : InsertCompany(h, c)
  PROVE  OrphanInv'
<1> USE RowsTyped
<1>0. Leave(h) /\ pc[h] # "idle"
  BY DEF UpdateCommit, DeleteCommit, RenameCompany, DeleteCompanyCommit, InsertUser,
         InsertCompany
<1>s. SUFFICES ASSUME NEW u \in Users
               PROVE  Placed(u)' /\ \A k \in Handlers : DropKnows(k, u)'
  BY DEF OrphanInv
<1>k. \A k \in Handlers : pc'[k] = "drop" =>
        k # h /\ pc[k] = "drop" /\ op'[k] = op[k] /\ members'[k] = members[k]
  BY <1>0, LeaveDrops
<1>1. CASE UpdateCommit(h)
  <2> DEFINE t == op[h].target
             role == Written(loaded[h].role, op[h].role, user[t].role)
             home == Written(loaded[h].company, op[h].company, user[t].company)
  <2>1. /\ t \in Users /\ user' = [user EXCEPT ![t] = Row(user[t].name, role, home)]
        /\ late' = IF home = user[t].company THEN late ELSE JoinsLate(t, home)
        /\ demoted' = IF home # None THEN demoted \ {t}
                      ELSE IF user[t].role = "super_admin" /\ role # "super_admin"
                      THEN demoted \cup {t} ELSE demoted
        /\ user[t] # None
    BY <1>1, AtStage, OpFields DEF UpdateCommit
  <2>2. home = None => user[t].company = None
    BY DEF Written
  <2> HIDE DEF home, role
  <2>3. CASE u # t
    BY <2>1, <2>3, <1>0, CommitKeepsUser DEF JoinsLate
  <2>4. CASE u = t
    <3>1. user'[u] = Row(user[u].name, role, home) /\ Row(user[u].name, role, home).role = role
          /\ Row(user[u].name, role, home).company = home
      BY <2>1, <2>4 DEF Row
    <3>2. Placed(u)
      BY DEF OrphanInv
    <3>3. Placed(u)'
      BY <2>1, <2>2, <2>4, <3>1, <3>2 DEF Placed
    <3>4. ASSUME NEW k \in Handlers PROVE DropKnows(k, u)'
      <4>1. DropKnows(k, u)
        BY DEF OrphanInv
      <4> QED BY <1>k, <2>1, <2>4, <3>1, <4>1 DEF DropKnows, JoinsLate
    <3> QED BY <3>3, <3>4
  <2> QED BY <2>3, <2>4
<1>2. CASE DeleteCommit(h)
  <2>1. u # op[h].target \/ user'[u] = None
    BY <1>2 DEF DeleteCommit
  <2>2. CASE u # op[h].target
    BY <1>0, <1>2, <2>2, CommitKeepsUser DEF DeleteCommit
  <2> QED BY <2>1, <2>2 DEF Placed, DropKnows
<1>3. CASE RenameCompany(h) \/ \E c \in Companies : InsertCompany(h, c)
  BY <1>0, <1>3, CommitKeepsUser DEF RenameCompany, InsertCompany
<1>4. CASE DeleteCompanyCommit(h)
  <2> DEFINE c == op[h].company
  <2>1. /\ user'[u] = IF u \in members[h] THEN None ELSE Orphaned(u, c)
        /\ late' = late \ members[h] /\ demoted' = demoted \ members[h]
        /\ pc[h] = "drop"
    BY <1>4 DEF DeleteCompanyCommit
  <2>2. CASE u \in members[h] \/ user[u] = None
    BY <2>1, <2>2 DEF Placed, DropKnows, Orphaned
  <2>3. CASE u \notin members[h] /\ user[u] # None /\ user[u].company = c
    <3>1. user'[u].company = None /\ u \in late'
      <4>1. user[u] \in UserRows
        BY <2>3
      <4>2. DropKnows(h, u)
        BY DEF OrphanInv
      <4> QED BY <2>1, <2>3, <4>1, <4>2 DEF Orphaned, UserRows, DropKnows
    <3> QED BY <1>k, <3>1, DropCompany DEF Placed, DropKnows
  <2>4. CASE u \notin members[h] /\ user[u] # None /\ user[u].company # c
    BY <1>0, <2>1, <2>4, CommitKeepsUser DEF Orphaned
  <2> QED BY <2>2, <2>3, <2>4
<1>5. ASSUME NEW v \in Users, InsertUser(h, v)
      PROVE  Placed(u)' /\ \A k \in Handlers : DropKnows(k, u)'
  <2>1. /\ user' = [user EXCEPT ![v] = Row(op[h].name, op[h].role, op[h].company)]
        /\ late' = JoinsLate(v, op[h].company) /\ demoted' = demoted
    BY <1>5 DEF InsertUser
  <2>2. op[h].company # None
    BY <1>5, AtStage, OpFields, TenancyAssumption DEF InsertUser
  <2>3. CASE u # v
    BY <1>0, <2>1, <2>3, CommitKeepsUser DEF JoinsLate
  <2>4. CASE u = v
    <3>1. user'[u].company = op[h].company
      BY <2>1, <2>4 DEF Row
    <3> QED BY <1>k, <2>1, <2>2, <2>4, <3>1 DEF Placed, DropKnows, JoinsLate
  <2> QED BY <2>3, <2>4
<1> QED BY <1>1, <1>2, <1>3, <1>4, <1>5

LEMMA NextOrphanInv ==
  ASSUME TypeInv, OrphanInv, [Next]_vars
  PROVE  OrphanInv'
<1>1. CASE UNCHANGED vars
  BY <1>1 DEF vars, rowVars, handlerVars, OrphanInv, Placed, DropKnows
<1>2. ASSUME NEW h \in Handlers, HandlerStep(h) PROVE OrphanInv'
  BY <1>2, RequestOrphanInv, CommitOrphanInv DEF HandlerStep
<1>3. ASSUME NEW h \in Handlers, NEW a \in Users, NEW o \in Ops, Guard(h, a, o)
      PROVE  OrphanInv'
  BY <1>3, RequestOrphanInv
<1>4. ASSUME NEW v \in Users, NEW n \in Names, CreateSuperAdmin(v, n)
      PROVE  OrphanInv'
  <2>1. /\ user' = [user EXCEPT ![v] = Row(n, "super_admin", None)]
        /\ UNCHANGED <<handlerVars, late, demoted>>
    BY <1>4 DEF CreateSuperAdmin
  <2>2. user'[v].role = "super_admin" /\ user'[v].company = None
    BY <2>1, RowsTyped DEF Row
  <2>3. \A u \in Users \ {v} : user'[u] = user[u]
    BY <2>1, RowsTyped
  <2>4. ASSUME NEW u \in Users PROVE Placed(u)' /\ \A k \in Handlers : DropKnows(k, u)'
    BY <2>1, <2>2, <2>3, DropCompany DEF OrphanInv, Placed, DropKnows, handlerVars
  <2> QED BY <2>4 DEF OrphanInv
<1> QED BY <1>1, <1>2, <1>3, <1>4 DEF Next

\* Only the race of a deletion with somebody who joins its company, or the
\* demotion of a super admin, leaves a user without a company.
THEOREM OrphansByRace == Spec => []OrphansOnlyByRace
<1>1. Init => OrphanInv
  BY DEF Init, OrphanInv, Placed, DropKnows, Row
<1>2. Spec => []OrphanInv
  BY <1>1, NextOrphanInv, TypeInvHolds, PTL DEF Spec
<1> QED BY <1>2, OrphanInvMeans, PTL


-----------------------------------------------------------------------------
(* Requests as single steps on the rows                                     *)

\* A request that is about to write a role writes none of a super admin, and a
\* deletion under way has loaded no super admin.  As ids are not used again and
\* nobody is promoted, it stays so until the commit.
Ordinary(u) == u \in spent /\ (user[u] # None => user[u].role # "super_admin")

StandInv ==
  \A h \in Handlers :
    /\ pc[h] \in {"check_company", "insert", "write"} => op[h].role # "super_admin"
    /\ pc[h] = "drop" => \A u \in members[h] : Ordinary(u)

\* No step makes an ordinary user a super admin.
StaysOrdinary == \A u \in Users : Ordinary(u) => Ordinary(u)'

LEMMA OthersStand ==
  ASSUME TypeInv, StandInv, StaysOrdinary, NEW k \in Handlers,
         \/ pc'[k] = "idle"
         \/ pc'[k] = pc[k] /\ op'[k] = op[k] /\ members'[k] = members[k]
  PROVE  /\ pc'[k] \in {"check_company", "insert", "write"} => op'[k].role # "super_admin"
         /\ pc'[k] = "drop" => \A u \in members'[k] : Ordinary(u)'
<1>1. members[k] \subseteq Users
  BY DEF TypeInv, TypeOK
<1> QED BY <1>1 DEF StandInv, StaysOrdinary

LEMMA RequestStand ==
  ASSUME TypeInv, RowInv, StandInv, NEW h \in Handlers,
         \/ CreateCheckName(h) \/ CheckCompany(h) \/ UpdateLoad(h) \/ DeleteLoad(h)
         \/ CreateCompanyCheck(h) \/ DeleteCompanyLoad(h)
         \/ \E a \in Users, o \in Ops : Guard(h, a, o)
  PROVE  StandInv'
<1>t. /\ pc \in [Handlers -> Labels] /\ op \in [Handlers -> Ops \cup {None}]
      /\ members \in [Handlers -> SUBSET Users]
  BY DEF TypeInv, TypeOK, HandlersTyped
<1>1. UNCHANGED <<user, spent>>
  BY OnlyCommitsWrite DEF rowVars
<1>2. \A u : Ordinary(u)' <=> Ordinary(u)
  BY <1>1 DEF Ordinary
<1>3. StaysOrdinary
  BY <1>2 DEF StaysOrdinary
<1>4. \A k \in Handlers \ {h} : pc'[k] = pc[k] /\ op'[k] = op[k] /\ members'[k] = members[k]
  BY <1>t DEF CreateCheckName, CheckCompany, UpdateLoad, DeleteLoad, CreateCompanyCheck,
              DeleteCompanyLoad, Guard, Passed, Goto, At
<1>5. /\ pc'[h] \in {"check_company", "insert", "write"} => op'[h].role # "super_admin"
      /\ pc'[h] = "drop" => \A u \in members'[h] : Ordinary(u)'
  <2>1. CASE CreateCheckName(h)
    BY <1>t, <2>1 DEF CreateCheckName, Passed, At
  <2>2. CASE CheckCompany(h)
    BY <1>t, <2>2 DEF CheckCompany, Goto, At, StandInv
  <2>3. CASE UpdateLoad(h)
    BY <1>t, <2>3 DEF UpdateLoad, Passed, At
  <2>4. CASE DeleteLoad(h)
    BY <1>t, <2>4 DEF DeleteLoad, Passed, At
  <2>5. CASE CreateCompanyCheck(h)
    BY <1>t, <2>5 DEF CreateCompanyCheck, Goto, At
  <2>6. CASE DeleteCompanyLoad(h)
    <3>1. /\ pc'[h] = "drop" /\ members'[h] = MembersOf(op[h].company)
          /\ op[h].company \in Companies /\ op[h].company # None
      BY <1>t, <2>6, AtStage, OpFields, TenancyAssumption DEF DeleteCompanyLoad, At
    <3>2. ASSUME NEW u \in MembersOf(op[h].company) PROVE Ordinary(u)
      <4>1. u \in Users /\ user[u] # None /\ user[u].company # None
        BY <3>1 DEF MembersOf, Live
      <4>2. u \in spent
        BY <4>1, RowsTyped
      <4> QED BY <4>1, <4>2, RowInvMeans DEF Ordinary
    <3> QED BY <1>2, <3>1, <3>2
  <2>7. ASSUME NEW a \in Users, NEW o \in Ops, Guard(h, a, o)
        PROVE  pc'[h] \notin {"check_company", "insert", "write", "drop"}
    BY <1>t, <2>7, OpFields DEF Guard, At
  <2> QED BY <2>1, <2>2, <2>3, <2>4, <2>5, <2>6, <2>7
<1> QED BY <1>3, <1>4, <1>5, OthersStand DEF StandInv

\* The row of one user is written; nobody is promoted.
LEMMA WriteStaysOrdinary ==
  ASSUME TypeInv, NEW u \in Users, NEW row, user' = [user EXCEPT ![u] = row],
         spent \subseteq spent',
         u \in spent /\ row # None /\ row.role = "super_admin" =>
           user[u] # None /\ user[u].role = "super_admin"
  PROVE  StaysOrdinary
<1>1. user'[u] = row /\ \A v \in Users \ {u} : user'[v] = user[v]
  BY RowsTyped
<1> QED BY <1>1 DEF StaysOrdinary, Ordinary

LEMMA CommitStaysOrdinary ==
  ASSUME TypeInv, StandInv, NEW h \in Handlers,
         \/ UpdateCommit(h) \/ DeleteCommit(h) \/ RenameCompany(h) \/ DeleteCompanyCommit(h)
         \/ \E u \in Users : InsertUser(h, u)
         \/ \E c \in Companies : InsertCompany(h, c)
  PROVE  StaysOrdinary
<1>1. CASE UpdateCommit(h)
  <2> DEFINE u == op[h].target
             role == Written(loaded[h].role, op[h].role, user[u].role)
             home == Written(loaded[h].company, op[h].company, user[u].company)
             row == Row(user[u].name, role, home)
  <2>1. u \in Users
    BY <1>1, AtStage, OpFields DEF UpdateCommit
  <2>2. user' = [user EXCEPT ![u] = row] /\ spent' = spent /\ user[u] # None
    BY <1>1 DEF UpdateCommit
  <2>3. row.role = role /\ op[h].role # "super_admin"
    BY <1>1 DEF Row, UpdateCommit, StandInv
  <2>4. role = "super_admin" => user[u].role = "super_admin"
    BY <2>3 DEF Written
  <2> HIDE DEF row, role
  <2> QED BY <2>1, <2>2, <2>3, <2>4, WriteStaysOrdinary
<1>2. CASE DeleteCommit(h)
  <2>1. op[h].target \in Users
    BY <1>2, AtStage, OpFields DEF DeleteCommit
  <2> QED BY <1>2, <2>1, WriteStaysOrdinary DEF DeleteCommit
<1>3. CASE RenameCompany(h) \/ \E c \in Companies : InsertCompany(h, c)
  BY <1>3 DEF RenameCompany, InsertCompany, StaysOrdinary, Ordinary
<1>4. CASE DeleteCompanyCommit(h)
  <2>1. ASSUME NEW u \in Users, Ordinary(u) PROVE Ordinary(u)'
    <3>1. user'[u] = IF u \in members[h] THEN None ELSE Orphaned(u, op[h].company)
      BY <1>4 DEF DeleteCompanyCommit
    <3>2. user'[u] # None => user[u] # None /\ user'[u].role = user[u].role
      <4>1. user[u] # None => user[u] \in UserRows
        BY RowsTyped
      <4> QED BY <3>1, <4>1 DEF Orphaned, UserRows
    <3>3. spent' = spent
      BY <1>4 DEF DeleteCompanyCommit
    <3> QED BY <2>1, <3>2, <3>3 DEF Ordinary
  <2> QED BY <2>1 DEF StaysOrdinary
<1>5. ASSUME NEW u \in Users, InsertUser(h, u) PROVE StaysOrdinary
  <2> DEFINE row == Row(op[h].name, op[h].role, op[h].company)
  <2>1. user' = [user EXCEPT ![u] = row] /\ u \notin spent /\ spent \subseteq spent'
    BY <1>5 DEF InsertUser
  <2> HIDE DEF row
  <2> QED BY <2>1, WriteStaysOrdinary
<1> QED BY <1>1, <1>2, <1>3, <1>4, <1>5

LEMMA NextStand ==
  ASSUME TypeInv, RowInv, StandInv, [Next]_vars
  PROVE  StandInv'
<1>1. CASE UNCHANGED vars
  BY <1>1 DEF vars, rowVars, handlerVars, StandInv, Ordinary
<1>2. ASSUME NEW h \in Handlers, Leave(h), StaysOrdinary PROVE StandInv'
  BY <1>2, LeaveDrops, OthersStand DEF StandInv
<1>3. ASSUME NEW h \in Handlers, HandlerStep(h) PROVE StandInv'
  <2>1. CASE Refuse(h)
    BY <1>2, <2>1 DEF Refuse, rowVars, StaysOrdinary, Ordinary
  <2>2. CASE \/ UpdateCommit(h) \/ DeleteCommit(h) \/ RenameCompany(h)
             \/ DeleteCompanyCommit(h) \/ \E u \in Users : InsertUser(h, u)
             \/ \E c \in Companies : InsertCompany(h, c)
    <3>1. Leave(h)
      BY <2>2 DEF UpdateCommit, DeleteCommit, RenameCompany, DeleteCompanyCommit,
                  InsertUser, InsertCompany
    <3> QED BY <1>2, <2>2, <3>1, CommitStaysOrdinary
  <2> QED BY <1>3, <2>1, <2>2, RequestStand DEF HandlerStep
<1>4. ASSUME NEW h \in Handlers, NEW a \in Users, NEW o \in Ops, Guard(h, a, o)
      PROVE  StandInv'
  BY <1>4, RequestStand
<1>5. ASSUME NEW u \in Users, NEW n \in Names, CreateSuperAdmin(u, n)
      PROVE  StandInv'
  <2>1. /\ user' = [user EXCEPT ![u] = Row(n, "super_admin", None)]
        /\ u \notin spent /\ spent \subseteq spent' /\ UNCHANGED handlerVars
    BY <1>5 DEF CreateSuperAdmin
  <2>2. StaysOrdinary
    BY <2>1, WriteStaysOrdinary
  <2> QED BY <2>1, <2>2, OthersStand DEF StandInv, handlerVars
<1> QED BY <1>1, <1>3, <1>4, <1>5 DEF Next

\* Every commit is one step of the directory.
LEMMA CommitDirectory ==
  ASSUME TypeInv, RowInv, StandInv, NEW h \in Handlers,
         \/ UpdateCommit(h) \/ DeleteCommit(h) \/ RenameCompany(h) \/ DeleteCompanyCommit(h)
         \/ \E u \in Users : InsertUser(h, u)
         \/ \E c \in Companies : InsertCompany(h, c)
  PROVE  Directory!DirectoryNext \/ UNCHANGED rowVars
<1> USE RowsTyped
<1>1. CASE UpdateCommit(h)
  <2> DEFINE t == op[h].target
             r == Written(loaded[h].role, op[h].role, user[t].role)
             c == Written(loaded[h].company, op[h].company, user[t].company)
  <2>1. /\ t \in Users /\ op[h].role \in Roles \cup {None}
        /\ op[h].company \in Companies \cup {None}
    BY <1>1, AtStage, OpFields DEF UpdateCommit
  <2>2. /\ user' = [user EXCEPT ![t] = Row(user[t].name, r, c)] /\ user[t] # None
        /\ RoleCheck(r, c) /\ CompanyRef(c) /\ UNCHANGED <<company, spent>>
    BY <1>1 DEF UpdateCommit
  <2>3. user[t].role \in Roles /\ user[t].company \in Companies \cup {None}
    BY <2>1, <2>2 DEF UserRows
  <2>4. r \in Roles /\ c \in Companies \cup {None}
    BY <2>1, <2>3, WrittenTyped
  <2>5. r = "super_admin" => user[t].role = "super_admin"
    BY <1>1 DEF Written, UpdateCommit, StandInv
  <2>6. c = None => user[t].company = None
    BY DEF Written
  <2> HIDE DEF t, r, c
  <2>7. r = "super_admin" => user[t].role = "super_admin" /\ c = None
    BY <2>2, <2>5 DEF RoleCheck
  <2>8. IF c = None THEN user[t].company = None ELSE Directory!Exists(c)
    BY <2>2, <2>6 DEF CompanyRef, Directory!Exists
  <2>9. Directory!Change(t, r, c)
    BY <2>2, <2>7, <2>8 DEF Directory!Change, Directory!Member, Row
  <2> QED BY <2>1, <2>4, <2>9 DEF Directory!DirectoryNext, Roles
<1>2. CASE DeleteCommit(h)
  <2>1. op[h].target \in Users
    BY <1>2, AtStage, OpFields DEF DeleteCommit
  <2>2. CASE user[op[h].target] = None
    <3>1. user' = user
      BY <1>2, <2>1, <2>2 DEF DeleteCommit
    <3> QED BY <1>2, <3>1 DEF DeleteCommit, rowVars
  <2>3. CASE user[op[h].target] # None
    <3>1. Directory!Dismiss(op[h].target)
      BY <1>2, <2>3 DEF DeleteCommit, Directory!Dismiss
    <3> QED BY <2>1, <3>1 DEF Directory!DirectoryNext
  <2> QED BY <2>2, <2>3
<1>3. CASE RenameCompany(h)
  <2>1. op[h].name \in CompanyNames /\ op[h].company \in Companies
    BY <1>3, AtStage, OpFields DEF RenameCompany
  <2>2. Directory!Rename(op[h].company, op[h].name)
    BY <1>3 DEF RenameCompany, CompanyNameFree, Directory!Rename, Directory!Exists,
                Directory!Named
  <2> QED BY <2>1, <2>2 DEF Directory!DirectoryNext
<1>4. CASE DeleteCompanyCommit(h)
  <2> DEFINE c == op[h].company
             S == {u \in members[h] : user[u] # None}
  <2>1. c \in Companies /\ members[h] \subseteq Users
    BY <1>4, AtStage, OpFields DEF DeleteCompanyCommit, TypeInv, TypeOK
  <2>2. S \in SUBSET Directory!Dismissable
    BY <1>4, <2>1 DEF DeleteCompanyCommit, StandInv, Ordinary, Directory!Dismissable
  <2>3. user' = [u \in Users |-> IF u \in members[h] THEN None ELSE Orphaned(u, c)]
    BY <1>4 DEF DeleteCompanyCommit
  <2>4. user' = [u \in Users |->
          IF u \in S THEN None
          ELSE IF user[u] # None /\ user[u].company = c
          THEN [user[u] EXCEPT !.company = None] ELSE user[u]]
    BY <2>3 DEF Orphaned
  <2>5. company' = [company EXCEPT ![c] = None] /\ UNCHANGED spent
    BY <1>4 DEF DeleteCompanyCommit
  <2> HIDE DEF S, c
  <2>6. Directory!Dissolve(c, S)
    BY <2>4, <2>5 DEF Directory!Dissolve
  <2> QED BY <2>1, <2>2, <2>6 DEF Directory!DirectoryNext
<1>5. ASSUME NEW u \in Users, InsertUser(h, u) PROVE Directory!DirectoryNext
  <2>1. /\ op[h].name \in Names /\ op[h].role \in Roles \ {"super_admin"}
        /\ op[h].company \in Companies /\ op[h].company # None
    BY <1>5, AtStage, OpFields, TenancyAssumption DEF InsertUser
  <2>2. /\ u \notin spent /\ UNCHANGED company /\ spent' = spent \cup {u}
        /\ user' = [user EXCEPT ![u] = Row(op[h].name, op[h].role, op[h].company)]
        /\ NameFree(op[h].name, u) /\ CompanyRef(op[h].company)
    BY <1>5 DEF InsertUser
  <2>3. Row(op[h].name, op[h].role, op[h].company).name = op[h].name
    BY DEF Row
  <2>4. \A v \in Users : user[v] # None => user[v].name # op[h].name
    BY <2>2 DEF NameFree, Live
  <2>5. Directory!Hire(u, op[h].name, op[h].role, op[h].company)
    BY <2>1, <2>2, <2>3, <2>4
       DEF CompanyRef, Directory!Hire, Directory!Exists, Directory!Enter,
           Directory!Member, Row
  <2> QED BY <2>1, <2>5 DEF Directory!DirectoryNext, Roles
<1>6. ASSUME NEW c \in Companies, InsertCompany(h, c) PROVE Directory!DirectoryNext
  <2>1. op[h].name \in CompanyNames
    BY <1>6, AtStage, OpFields DEF InsertCompany
  <2>2. Directory!Found(c, op[h].name)
    BY <1>6 DEF InsertCompany, CompanyNameFree, Directory!Found, Directory!Named
  <2> QED BY <2>1, <2>2 DEF Directory!DirectoryNext
<1> QED BY <1>1, <1>2, <1>3, <1>4, <1>5, <1>6

LEMMA NextDirectory ==
  ASSUME TypeInv, RowInv, StandInv, [Next]_vars
  PROVE  [Directory!DirectoryNext]_(Directory!directoryVars)
<1>1. CASE UNCHANGED rowVars
  BY <1>1 DEF rowVars, Directory!directoryVars
<1>2. ASSUME NEW h \in Handlers, HandlerStep(h)
      PROVE  Directory!DirectoryNext \/ UNCHANGED rowVars
  BY <1>2, CommitDirectory, OnlyCommitsWrite DEF HandlerStep
<1>3. ASSUME NEW h \in Handlers, NEW a \in Users, NEW o \in Ops, Guard(h, a, o)
      PROVE  UNCHANGED rowVars
  BY <1>3, OnlyCommitsWrite
<1>4. ASSUME NEW u \in Users, NEW n \in Names, CreateSuperAdmin(u, n)
      PROVE  Directory!DirectoryNext
  <2>1. \A v \in Users : user[v] # None => user[v].name # n
    BY <1>4, RowsTyped DEF CreateSuperAdmin, NameFree, Live
  <2>2. Directory!Bootstrap(u, n)
    BY <1>4, <2>1
       DEF CreateSuperAdmin, Directory!Bootstrap, Directory!Enter, Directory!Member, Row
  <2> QED BY <2>2 DEF Directory!DirectoryNext
<1> QED BY <1>1, <1>2, <1>3, <1>4 DEF Next, vars

\* The endpoints, which check first and commit later, implement a directory
\* that is changed one request at a time: no id comes back, nobody becomes a
\* super admin but by the bootstrap script, no update takes a company away, and
\* delete_company never removes a super admin.
THEOREM DirectoryHolds == Spec => DirectoryImplemented
<1>1. Init => Directory!DirectoryInit
  BY DEF Init, Directory!DirectoryInit, Directory!Member, Row
<1>2. Init => StandInv
  BY DEF Init, StandInv
<1>3. Spec => []StandInv
  BY <1>2, NextStand, TypeInvHolds, RowInvHolds, PTL DEF Spec
<1> QED
  BY <1>1, <1>3, NextDirectory, TypeInvHolds, RowInvHolds, PTL
     DEF Spec, DirectoryImplemented, Directory!DirectorySpec
=============================================================================
