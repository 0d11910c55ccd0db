---------------------------- MODULE MCIngestion ----------------------------
(* Instances of Ingestion for TLC. *)
EXTENDS Ingestion, TLC

CONSTANTS d1, d2, c1, c2, f1, f2, w1, w2

\* d1 and d2 belong to different companies ...
TwoCompanies == (d1 :> c1) @@ (d2 :> c2)
\* ... and either have names of their own, or were uploaded under the same
\* name in the same second.
OwnNames == (d1 :> f1) @@ (d2 :> f2)
SameName == (d1 :> f1) @@ (d2 :> f1)

OneCompany == d1 :> c1
OneName == d1 :> f1
=============================================================================
