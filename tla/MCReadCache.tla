---------------------------- MODULE MCReadCache ----------------------------
(***************************************************************************)
(* Instances of ReadCache for TLC.                                         *)
(***************************************************************************)
EXTENDS ReadCache, TLC

CONSTANTS d1, v1, acme, globex, ann, root, r1, r2, w1

MCOwnerOf == d1 :> acme @@ v1 :> ann
MCRole == r1 :> "admin" @@ r2 :> "super_admin"
\* The admin of the other company also asks for the document.
MCHomeOf == r1 :> globex @@ r2 :> None
MCUserOf == r1 :> ann @@ r2 :> root
MCKeys == {AllList, Document(d1), Messages(v1)}
=============================================================================
