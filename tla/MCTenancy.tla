----------------------------- MODULE MCTenancy -----------------------------
(***************************************************************************)
(* Instances of Tenancy for TLC.                                           *)
(***************************************************************************)
EXTENDS Tenancy, TLC

CONSTANTS h1, h2, root, u1, u2, acme, globex, nroot, n1, x1

\* New users are admins; an update changes something; a company is created under one name and may be
\* renamed to the other.
MCOps ==
  {o \in UserOps \cup CompanyOps :
     /\ o.kind = "create_user" => o.name = n1 /\ o.role = "admin"
     /\ o.kind = "update_user" =>
          o.role \in {None, "employee"} /\ (o.role # None \/ o.company # None)
     /\ o.kind = "create_company" => o.name = x1
     /\ o.kind = "update_company" => o.name # x1}

Sym == Permutations({h1, h2}) \cup Permutations({u1, u2}) \cup Permutations({acme, globex})
=============================================================================
