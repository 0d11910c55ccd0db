-------------------------- MODULE MCTokenSessions --------------------------
(***************************************************************************)
(* Instances of TokenSessions for TLC.                                     *)
(***************************************************************************)
EXTENDS TokenSessions, TLC

CONSTANTS alice, u1, u2, a1, a2, t1, r1, r2

MCKeys == {alice}
MCUsers == {u1, u2}
\* The second user is created under the name of the first.
MCNameOf == [u \in MCUsers |-> alice]

\* Handlers of one kind, and users of one name, are alike.  No property is a
\* liveness property.
Symmetry ==
  Permutations({a1, a2}) \cup Permutations({r1, r2}) \cup Permutations({u1, u2})
=============================================================================
