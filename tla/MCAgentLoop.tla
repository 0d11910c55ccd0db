---------------------------- MODULE MCAgentLoop ----------------------------
(***************************************************************************)
(* Instances of AgentLoop for TLC.                                         *)
(***************************************************************************)
EXTENDS AgentLoop, TLC

CONSTANTS r1, r2, acme, globex

MCCompanyOf == (r1 :> acme) @@ (r2 :> globex)
=============================================================================
