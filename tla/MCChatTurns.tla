---------------------------- MODULE MCChatTurns ----------------------------
(***************************************************************************)
(* Instances of ChatTurns for TLC.                                         *)
(***************************************************************************)
EXTENDS ChatTurns, TLC

CONSTANTS r1, r2, r3, ann, bob, k1, acme, globex

\* Ann sends a request and a retry, Bob happens to use the same key.
MCUserOf == r1 :> ann @@ r2 :> ann @@ r3 :> bob
MCModeOf == r1 :> "stream" @@ r2 :> "stream" @@ r3 :> "invoke"
MCHome == ann :> acme @@ bob :> acme
MCKeyOf == [r \in Requests |-> k1]
Retries == Permutations({r1, r2})
=============================================================================
