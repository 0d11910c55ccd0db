--------------------------- MODULE StaffDirectory ---------------------------
(***************************************************************************)
(* What the endpoints of users and companies promise, as if each request   *)
(* were one step on consistent rows: ids are not used again and names are  *)
(* not changed, super admins come from the bootstrap script alone and      *)
(* belong to no company, an update takes nobody's company away, and the    *)
(* deletion of a company removes no super admin.                           *)
(***************************************************************************)
CONSTANTS Users, Names, Companies, CompanyNames, Root, RootName, None

VARIABLES
  user,     \* the row of a user: name, role and company, or None
  company,  \* the name of a company, or None
  spent     \* the ids that had a row

directoryVars == <<user, company, spent>>

Member(n, r, c) == [name |-> n, role |-> r, company |-> c]

DirectoryInit ==
  /\ user = [u \in Users |->
       IF u = Root THEN Member(RootName, "super_admin", None) ELSE None]
  /\ company = [c \in Companies |-> None]
  /\ spent = {Root}

Exists(c) == company[c] # None

\* A new id and a name that nobody has.
Enter(u, row) ==
  /\ u \notin spent
  /\ spent' = spent \cup {u}
  /\ \A v \in Users : user[v] # None => user[v].name # row.name
  /\ user' = [user EXCEPT ![u] = row]
  /\ UNCHANGED company

Bootstrap(u, n) == Enter(u, Member(n, "super_admin", None))

Hire(u, n, r, c) ==
  /\ Exists(c)
  /\ Enter(u, Member(n, r, c))

Change(u, r, c) ==
  /\ user[u] # None
  /\ r = "super_admin" => user[u].role = "super_admin" /\ c = None
  /\ IF c = None THEN user[u].company = None ELSE Exists(c)
  /\ user' = [user EXCEPT ![u] = Member(@.name, r, c)]
  /\ UNCHANGED <<company, spent>>

Dismiss(u) ==
  /\ user[u] # None
  /\ user' = [user EXCEPT ![u] = None]
  /\ UNCHANGED <<company, spent>>

\* A company has the name n from now on, which no other has.
Named(c, n) ==
  /\ \A d \in Companies \ {c} : company[d] # n
  /\ company' = [company EXCEPT ![c] = n]
  /\ UNCHANGED user

Found(c, n) == c \notin spent /\ Named(c, n) /\ spent' = spent \cup {c}

Rename(c, n) == Exists(c) /\ Named(c, n) /\ UNCHANGED spent

\* The users that the deletion of a company may remove.
Dismissable == {u \in Users : user[u] # None /\ user[u].role # "super_admin"}

\* The users of S go with the company, any others of it lose it.
Dissolve(c, S) ==
  /\ company' = [company EXCEPT ![c] = None]
  /\ user' = [u \in Users |->
       IF u \in S THEN None
       ELSE IF user[u] # None /\ user[u].company = c
       THEN [user[u] EXCEPT !.company = None] ELSE user[u]]
  /\ UNCHANGED spent

DirectoryNext ==
  \/ \E u \in Users :
       \/ Dismiss(u)
       \/ \E n \in Names : Bootstrap(u, n)
       \/ \E n \in Names, r \in {"admin", "employee"}, c \in Companies : Hire(u, n, r, c)
       \/ \E r \in {"super_admin", "admin", "employee"}, c \in Companies \cup {None} :
            Change(u, r, c)
  \/ \E c \in Companies :
       \/ \E n \in CompanyNames : Found(c, n) \/ Rename(c, n)
       \/ \E S \in SUBSET Dismissable : Dissolve(c, S)

DirectorySpec == DirectoryInit /\ [][DirectoryNext]_directoryVars
=============================================================================
