------------------------- MODULE DocumentLifecycle -------------------------
(***************************************************************************)
(* What the API promises of a document's status while no message is        *)
(* delivered twice and the storage deletes what it is told to: the states  *)
(* of ProcessingStatus, each reached only from the one before it, with the *)
(* chunks stored exactly once, in the step that makes it COMPLETED.        *)
(***************************************************************************)
EXTENDS Naturals

CONSTANT Docs

VARIABLES
  phase,   \* NEW, a ProcessingStatus, or GONE
  passes   \* how many ingestions' chunks the document has

lifecycleVars == <<phase, passes>>

LifecycleInit ==
  /\ phase = [d \in Docs |-> "NEW"]
  /\ passes = [d \in Docs |-> 0]

Move(d, from, to) ==
  /\ phase[d] = from
  /\ phase' = [phase EXCEPT ![d] = to]

Accept(d) == Move(d, "NEW", "PENDING") /\ UNCHANGED passes
Start(d) == Move(d, "PENDING", "PROCESSING") /\ UNCHANGED passes
Requeue(d) == Move(d, "PROCESSING", "PENDING") /\ UNCHANGED passes
Fail(d) == Move(d, "PROCESSING", "FAILED") /\ UNCHANGED passes

Complete(d) ==
  /\ Move(d, "PROCESSING", "COMPLETED")
  /\ passes' = [passes EXCEPT ![d] = 1]

\* One document, or all the documents of a company, with their chunks.
Remove(S) ==
  /\ phase' = [d \in Docs |-> IF d \in S /\ phase[d] # "NEW" THEN "GONE"
                                                             ELSE phase[d]]
  /\ passes' = [d \in Docs |-> IF d \in S THEN 0 ELSE passes[d]]

LifecycleNext ==
  \/ \E d \in Docs :
       Accept(d) \/ Start(d) \/ Requeue(d) \/ Fail(d) \/ Complete(d)
  \/ \E S \in SUBSET Docs : Remove(S)

LifecycleSpec == LifecycleInit /\ [][LifecycleNext]_lifecycleVars
=============================================================================
