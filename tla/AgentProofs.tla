---------------------------- MODULE AgentProofs ----------------------------
(***************************************************************************)
(* Theorems about AgentLoop, for any number of requests, companies and     *)
(* tool calls, any pool, any even recursion limit and any failures.        *)
(***************************************************************************)
EXTENDS AgentLoop, FiniteSetTheorems, TLAPS

PcStates == {"idle", "waiting"} \cup Running \cup Over
CallStates == {"none", "asked", "lookup", "connect", "search", "fill", "told"}

\* TypeOK without the connections; a call that exists has a query, and the
\* agent has its turn after an even number of steps.
AgentTyped ==
  /\ free \in Nat
  /\ mode \in [Requests -> {"invoke", "stream"}]
  /\ pc \in [Requests -> PcStates]
  /\ steps \in [Requests -> 0..RecursionLimit]
  /\ call \in [Requests -> [Calls -> CallStates]]
  /\ query \in [Requests -> [Calls -> Queries \cup {None}]]
  /\ counted \in [Requests -> SUBSET Queries]
  /\ evidence \in [Requests -> SUBSET Companies]
  /\ streamed \in [Requests -> BOOLEAN]
  /\ final \in [Requests -> {None, "model", "tool"}]
  /\ answer \in [Requests -> {None, "model", "tool", "blank"}]
  /\ vectors \in [Companies \X Queries -> Companies \cup {None}]
  /\ searches \in [Requests -> [Queries -> Nat]]

Turn(r) ==
  /\ pc[r] # "tools" => call[r] = NoCalls
  /\ \A c \in Calls : call[r][c] # "none" => query[r][c] \in Queries
  /\ pc[r] \in {"idle", "waiting", "agent"} => steps[r] % 2 = 0
  /\ pc[r] = "tools" => steps[r] % 2 = 1

AgentInv == AgentTyped /\ \A r \in Requests : Turn(r)

LEMMA InitAgentInv == Init => AgentInv
BY AgentAssumption
   DEF Init, AgentInv, AgentTyped, Turn, PcStates, CallStates, NoCalls, Running, Over

\* What a running call knows.
LEMMA RunningCall ==
  ASSUME AgentInv, NEW r \in Requests, NEW c \in Calls, call[r][c] # "none"
  PROVE  query[r][c] \in Queries /\ CompanyOf[r] \in Companies
         /\ VectorKey(r, c) \in Companies \X Queries
BY AgentAssumption DEF AgentInv, Turn, VectorKey

\* The end of a request leaves the others alone.
LEMMA EndTyped ==
  ASSUME AgentInv, NEW r \in Requests, NEW l \in Over, End(r, l),
         UNCHANGED <<vectors, searches, mode, steps, counted, evidence, streamed, final>>,
         answer' \in [Requests -> {None, "model", "tool", "blank"}],
         Cardinality(Searching(r)) \in Nat
  PROVE  AgentInv'
<1>0. /\ free' \in Nat /\ pc' \in [Requests -> PcStates]
      /\ call' \in [Requests -> [Calls -> CallStates]]
      /\ query' \in [Requests -> [Calls -> Queries \cup {None}]]
  BY DEF AgentInv, AgentTyped, End, Goto, NoCalls, PcStates, CallStates
<1>1. AgentTyped'
  BY <1>0 DEF AgentInv, AgentTyped
<1>2. ASSUME NEW q \in Requests PROVE Turn(q)'
  <2>1. CASE q = r
    BY <2>1 DEF AgentInv, AgentTyped, Turn, End, Goto, NoCalls, Over
  <2>2. CASE q # r
    BY <2>2 DEF AgentInv, AgentTyped, Turn, End, Goto
  <2> QED BY <2>1, <2>2
<1> QED BY <1>1, <1>2 DEF AgentInv

LEMMA SearchingFinite ==
  ASSUME NEW r \in Requests
  PROVE  IsFiniteSet(Searching(r)) /\ Cardinality(Searching(r)) \in Nat
<1>1. Searching(r) \in SUBSET Calls
  BY DEF Searching
<1> QED BY <1>1, AgentAssumption, FS_Subset, FS_CardinalityType

\* A step that changes one request's label and its calls.
LEMMA RequestTyped ==
  ASSUME AgentInv, NEW r \in Requests,
         \/ Arrive(r) \/ Admit(r) \/ AdmitTimesOut(r) \/ AskTools(r) \/ AgentAnswers(r)
         \/ ToolsEnd(r)
  PROVE  AgentInv'
<1> USE AgentAssumption
<1> DEFINE Others == \A q \in Requests \ {r} :
             /\ pc'[q] = pc[q] /\ call'[q] = call[q] /\ query'[q] = query[q]
             /\ steps'[q] = steps[q]
<1>o. ASSUME Others, Turn(r)' PROVE \A q \in Requests : Turn(q)'
  BY <1>o DEF AgentInv, Turn
<1> HIDE DEF Others
<1>s. steps[r] \in 0..RecursionLimit /\ Turn(r)
  BY DEF AgentInv, AgentTyped
<1>1. CASE Arrive(r) \/ Admit(r) \/ AdmitTimesOut(r)
  <2>0. UNCHANGED <<call, query, vectors, searches, mode, steps, counted, evidence,
                    streamed, final, answer>>
    BY <1>1 DEF Arrive, Admit, AdmitTimesOut, runVars
  <2>p. PICK l \in PcStates : Goto(r, l)
    BY <1>1 DEF Arrive, Admit, AdmitTimesOut, PcStates, Running, Over
  <2>t. free' \in Nat /\ pc' \in [Requests -> PcStates]
    BY <1>1, <2>p DEF Arrive, Admit, AdmitTimesOut, Goto, AgentInv, AgentTyped
  <2>1. AgentTyped'
    BY <2>0, <2>t DEF AgentInv, AgentTyped
  <2>2. Others /\ Turn(r)'
    BY <1>1, <1>s DEF Arrive, Admit, AdmitTimesOut, Goto, AgentInv, AgentTyped, runVars, Turn,
               Others
  <2> QED BY <2>1, <2>2, <1>o DEF AgentInv
<1>2. CASE AskTools(r)
  <2> DEFINE Asks(asked, q) ==
        /\ query' = [query EXCEPT ![r] = [c \in Calls |-> IF c \in asked THEN q[c] ELSE None]]
        /\ call' = [call EXCEPT ![r] =
                      [c \in Calls |-> IF c \in asked THEN "asked" ELSE "none"]]
  <2>0. PICK asked \in SUBSET Calls : \E q \in [asked -> Queries] : Asks(asked, q)
    BY <1>2 DEF AskTools
  <2>1. PICK q \in [asked -> Queries] : Asks(asked, q)
    BY <2>0
  <2>2. PICK spoken \in BOOLEAN : Says(r, spoken)
    BY <1>2 DEF AskTools
  <2>3. /\ pc[r] = "agent" /\ steps[r] < RecursionLimit /\ Goto(r, "tools")
        /\ UNCHANGED <<free, vectors, searches, mode, counted, evidence, answer>>
    BY <1>2 DEF AskTools
  <2>4. steps'[r] = steps[r] + 1 /\ steps' \in [Requests -> 0..RecursionLimit]
    BY <1>s, <2>2, <2>3 DEF Says, AgentInv, AgentTyped
  <2>5. AgentTyped'
    BY <2>1, <2>2, <2>3, <2>4 DEF Says, Goto, AgentInv, AgentTyped, PcStates, CallStates, Running
  <2>6. steps'[r] % 2 = 1
    BY <1>s, <2>3, <2>4 DEF Turn
  <2>7. \A c \in Calls : call'[r][c] # "none" => query'[r][c] \in Queries
    BY <2>1 DEF AgentInv, AgentTyped
  <2>8. Others /\ pc'[r] = "tools"
    BY <2>1, <2>2, <2>3 DEF Says, Goto, AgentInv, AgentTyped, Others
  <2> QED BY <2>5, <2>6, <2>7, <2>8, <1>o DEF AgentInv, Turn
<1>3. CASE AgentAnswers(r)
  <2>1. PICK spoken \in BOOLEAN :
          /\ Says(r, spoken)
          /\ answer' = [answer EXCEPT ![r] =
               IF mode[r] = "invoke" THEN (IF spoken THEN "model" ELSE "blank")
               ELSE IF streamed'[r] THEN "model" ELSE final'[r]]
    BY <1>3 DEF AgentAnswers
  <2>2. /\ pc[r] = "agent" /\ steps[r] < RecursionLimit /\ Goto(r, "answered")
        /\ UNCHANGED <<free, call, query, vectors, searches, mode, counted, evidence>>
    BY <1>3 DEF AgentAnswers
  <2>3. /\ steps' \in [Requests -> 0..RecursionLimit]
        /\ final' \in [Requests -> {None, "model", "tool"}]
        /\ streamed' \in [Requests -> BOOLEAN]
    BY <1>s, <2>1, <2>2 DEF Says, AgentInv, AgentTyped
  <2>4. answer' \in [Requests -> {None, "model", "tool", "blank"}]
    BY <2>1, <2>3 DEF AgentInv, AgentTyped
  <2>5. AgentTyped'
    BY <2>2, <2>3, <2>4 DEF Goto, AgentInv, AgentTyped, PcStates, Running
  <2>6. Others /\ Turn(r)'
    BY <2>1, <2>2, <1>s DEF Says, Goto, AgentInv, AgentTyped, Turn, Others
  <2> QED BY <2>5, <2>6, <1>o DEF AgentInv
<1>4. CASE ToolsEnd(r)
  <2>1. /\ pc[r] = "tools" /\ Goto(r, "agent")
        /\ final' = [final EXCEPT ![r] = "tool"] /\ steps' = [steps EXCEPT ![r] = @ + 1]
        /\ call' = [call EXCEPT ![r] = NoCalls]
        /\ query' = [query EXCEPT ![r] = [c \in Calls |-> None]]
        /\ UNCHANGED <<free, vectors, searches, mode, counted, evidence, streamed, answer>>
    BY <1>4 DEF ToolsEnd
  <2>2. steps[r] + 1 \in 0..RecursionLimit /\ (steps[r] + 1) % 2 = 0
    BY <1>s, <2>1 DEF Turn
  <2>3. AgentTyped'
    BY <2>1, <2>2 DEF Goto, AgentInv, AgentTyped, PcStates, CallStates, Running, NoCalls
  <2>4. Others /\ Turn(r)'
    BY <2>1, <2>2 DEF Goto, AgentInv, AgentTyped, Turn, NoCalls, Others
  <2> QED BY <2>3, <2>4, <1>o DEF AgentInv
<1> QED BY <1>1, <1>2, <1>3, <1>4

\* A search call changes its own label only.
LEMMA CallTyped ==
  ASSUME AgentInv, NEW r \in Requests, NEW c \in Calls, CallStep(r, c)
  PROVE  /\ AgentInv'
         /\ \E l \in CallStates \ {"none"} : CallGoto(r, c, l)
         /\ call[r][c] # "none"
<1>1. /\ pc[r] = "tools"
      /\ UNCHANGED <<pc, query, mode, steps, streamed, final, answer>>
  BY DEF CallStep
<1>2. PICK l \in CallStates \ {"none"} : CallGoto(r, c, l)
  BY DEF CallStep, Count, Duplicate, VectorHit, VectorMiss, Connect, ConnectTimesOut, Search,
         VectorFill, CallStates
<1>3. call[r][c] # "none"
  BY DEF CallStep, Count, Duplicate, VectorHit, VectorMiss, Connect, ConnectTimesOut, Search,
         VectorFill
<1>4. /\ query[r][c] \in Queries /\ CompanyOf[r] \in Companies
      /\ VectorKey(r, c) \in Companies \X Queries
  BY <1>3, RunningCall
<1>5. free' \in Nat
  BY DEF CallStep, Connect, ConnectTimesOut, Search, AgentInv, AgentTyped
<1>6. counted' \in [Requests -> SUBSET Queries]
  BY <1>4 DEF CallStep, Count, Duplicate, AgentInv, AgentTyped
<1>7. evidence' \in [Requests -> SUBSET Companies]
  <2>1. vectors[VectorKey(r, c)] \in Companies \cup {None}
    BY <1>4 DEF AgentInv, AgentTyped
  <2>2. \/ evidence' = evidence
        \/ \E x \in Companies : evidence' = [evidence EXCEPT ![r] = @ \cup {x}]
    BY <1>4, <2>1 DEF CallStep, VectorHit, VectorMiss, VectorFill
  <2>3. evidence \in [Requests -> SUBSET Companies]
    BY DEF AgentInv, AgentTyped
  <2>4. ASSUME NEW x \in Companies, evidence' = [evidence EXCEPT ![r] = @ \cup {x}]
        PROVE  evidence' \in [Requests -> SUBSET Companies]
    <3>1. evidence[r] \cup {x} \in SUBSET Companies
      BY <2>3
    <3> QED BY <2>3, <2>4, <3>1
  <2> QED BY <2>2, <2>3, <2>4
<1>8. vectors' \in [Companies \X Queries -> Companies \cup {None}]
  BY <1>4 DEF CallStep, VectorFill, AgentInv, AgentTyped
<1>9. searches' \in [Requests -> [Queries -> Nat]]
  <2>1. searches' = searches \/ searches' = [searches EXCEPT ![r][query[r][c]] = @ + 1]
    BY DEF CallStep, Connect, ConnectTimesOut, Search
  <2>2. searches \in [Requests -> [Queries -> Nat]]
    BY DEF AgentInv, AgentTyped
  <2>3. [searches[r] EXCEPT ![query[r][c]] = @ + 1] \in [Queries -> Nat]
    BY <1>4, <2>2
  <2> QED BY <2>1, <2>2, <2>3
<1>10. call' \in [Requests -> [Calls -> CallStates]]
  BY <1>2 DEF CallGoto, AgentInv, AgentTyped
<1>11. AgentTyped'
  BY <1>1, <1>5, <1>6, <1>7, <1>8, <1>9, <1>10 DEF AgentInv, AgentTyped
<1>12. ASSUME NEW q \in Requests PROVE Turn(q)'
  <2>1. Turn(q) /\ call[q] \in [Calls -> CallStates]
    BY DEF AgentInv, AgentTyped
  <2>2. CASE q = r
    <3>1. \A d \in Calls : call'[q][d] # "none" => call[q][d] # "none"
      BY <1>2, <1>3, <2>2 DEF CallGoto, AgentInv, AgentTyped
    <3> QED BY <1>1, <2>1, <2>2, <3>1 DEF Turn
  <2>3. CASE q # r
    BY <1>1, <1>2, <2>1, <2>3 DEF Turn, CallGoto, AgentInv, AgentTyped
  <2> QED BY <2>2, <2>3
<1> QED BY <1>2, <1>3, <1>11, <1>12 DEF AgentInv

\* The actions that end a request.
Ends(r) == AgentFails(r) \/ Persist(r) \/ NothingPersisted(r) \/ Disconnect(r)

LEMMA EndsMeans ==
  ASSUME AgentInv, NEW r \in Requests, Ends(r)
  PROVE  /\ \E l \in Over : End(r, l)
         /\ UNCHANGED <<vectors, searches, mode, steps, counted, evidence, streamed, final>>
         /\ answer' \in [Requests -> {None, "model", "tool", "blank"}]
         /\ pc[r] \in Running
<1>1. /\ \E l \in Over : End(r, l)
      /\ UNCHANGED <<vectors, searches, mode, steps, counted, evidence, streamed, final>>
      /\ pc[r] \in Running
  BY DEF Ends, AgentFails, Persist, NothingPersisted, Disconnect, runVars, Over, Running
<1>2. answer' = answer \/ answer' = [answer EXCEPT ![r] = None]
  BY DEF Ends, AgentFails, Persist, NothingPersisted, Disconnect, runVars
<1> QED BY <1>1, <1>2 DEF AgentInv, AgentTyped

\* The steps of Next, as the proofs split them.
Begins(r) ==
  \/ Arrive(r) \/ Admit(r) \/ AdmitTimesOut(r) \/ AskTools(r) \/ AgentAnswers(r)
  \/ ToolsEnd(r)

LEMMA NextSplits ==
  Next <=> \/ \E r \in Requests : Begins(r) \/ Ends(r) \/ \E c \in Calls : CallStep(r, c)
           \/ \E k \in Companies \X Queries : VectorExpire(k)
BY DEF Next, RequestStep, Begins, Ends

LEMMA NextAgentInv ==
  ASSUME AgentInv, [Next]_vars
  PROVE  AgentInv'
<1>1. CASE UNCHANGED vars
  <2>1. UNCHANGED <<free, pc, call, query, vectors, searches, mode, steps, counted, evidence,
                    streamed, final, answer>>
    BY <1>1 DEF vars, runVars
  <2> QED BY <2>1 DEF AgentInv, AgentTyped, Turn
<1>2. ASSUME NEW r \in Requests, Begins(r) PROVE AgentInv'
  BY <1>2, RequestTyped DEF Begins
<1>3. ASSUME NEW r \in Requests, Ends(r) PROVE AgentInv'
  BY <1>3, EndsMeans, EndTyped, SearchingFinite
<1>4. ASSUME NEW k \in Companies \X Queries, VectorExpire(k) PROVE AgentInv'
  <2>1. /\ UNCHANGED <<free, pc, call, query, searches, mode, steps, counted, evidence,
                       streamed, final, answer>>
        /\ vectors' = [vectors EXCEPT ![k] = None]
    BY <1>4 DEF VectorExpire, runVars
  <2> QED BY <2>1 DEF AgentInv, AgentTyped, Turn
<1> QED BY <1>1, <1>2, <1>3, <1>4, CallTyped, NextSplits

LEMMA AgentInvHolds == Spec => []AgentInv
BY InitAgentInv, NextAgentInv, PTL DEF Spec

-----------------------------------------------------------------------------
(* The loop guard *)

\* The call has been counted and has not searched yet.
Pending(r, c) == call[r][c] \in {"lookup", "connect"}

\* A query is searched once counted, by the only call that still may.
GuardInv ==
  \A r \in Requests :
    /\ \A q \in Queries : searches[r][q] <= 1 /\ (searches[r][q] = 1 => q \in counted[r])
    /\ \A c \in Calls : Pending(r, c) =>
         /\ query[r][c] \in counted[r] /\ searches[r][query[r][c]] = 0
         /\ \A d \in Calls : Pending(r, d) /\ query[r][d] = query[r][c] => d = c

LEMMA CallGuardInv ==
  ASSUME AgentInv, GuardInv, NEW r \in Requests, NEW c \in Calls, CallStep(r, c)
  PROVE  GuardInv'
<1> DEFINE q == query[r][c]
<1>1. query' = query /\ q \in Queries
  BY CallTyped, RunningCall DEF CallStep
<1>2. PICK l \in CallStates : CallGoto(r, c, l)
  BY CallTyped
<1>3. /\ call'[r][c] = l
      /\ \A d \in Calls \ {c} : call'[r][d] = call[r][d]
      /\ \A s \in Requests \ {r} : call'[s] = call[s]
  BY <1>2 DEF CallGoto, AgentInv, AgentTyped
<1>t. /\ searches \in [Requests -> [Queries -> Nat]]
      /\ counted \in [Requests -> SUBSET Queries]
  BY DEF AgentInv, AgentTyped
<1>s. \A s \in Requests \ {r} : searches'[s] = searches[s] /\ counted'[s] = counted[s]
  BY <1>t DEF CallStep, Count, Duplicate, Connect, ConnectTimesOut, Search
<1> DEFINE Guarded(s) ==
      /\ \A p \in Queries : searches'[s][p] <= 1 /\ (searches'[s][p] = 1 => p \in counted'[s])
      /\ \A d \in Calls : Pending(s, d)' =>
           /\ query[s][d] \in counted'[s] /\ searches'[s][query[s][d]] = 0
           /\ \A e \in Calls : Pending(s, e)' /\ query[s][e] = query[s][d] => e = d
<1>4. \A s \in Requests \ {r} : Guarded(s)
  BY <1>3, <1>s DEF GuardInv, Pending
<1>5. Guarded(r)
  <2>1. CASE Count(r, c)
    <3>0. searches' = searches
      BY <2>1 DEF Count, CallStep, Connect, ConnectTimesOut, Search
    <3>1. /\ counted'[r] = counted[r] \cup {q} /\ q \notin counted[r]
          /\ call[r][c] = "asked" /\ call'[r][c] = "lookup"
      BY <1>t, <2>1 DEF Count, CallGoto, AgentInv, AgentTyped
    <3>2. searches[r][q] = 0
      <4>1. searches[r][q] \in Nat
        BY <1>1, <1>t
      <4>2. searches[r][q] <= 1 /\ searches[r][q] # 1
        BY <1>1, <3>1 DEF GuardInv
      <4> QED BY <4>1, <4>2
    <3>3. \A d \in Calls \ {c} : Pending(r, d)' => Pending(r, d) /\ query[r][d] # q
      BY <1>3, <3>1 DEF Pending, GuardInv
    <3> QED BY <1>t, <3>0, <3>1, <3>2, <3>3 DEF GuardInv
  <2>2. CASE Connect(r, c)
    <3>1. /\ counted' = counted /\ searches' = [searches EXCEPT ![r][q] = @ + 1]
          /\ call[r][c] = "connect" /\ call'[r][c] = "search"
      BY <2>2 DEF Connect, CallStep, Count, Duplicate, VectorHit, VectorMiss, VectorFill,
         CallGoto, AgentInv, AgentTyped
    <3>2. Pending(r, c) /\ searches[r][q] = 0 /\ q \in counted[r]
      BY <3>1 DEF Pending, GuardInv
    <3>3. searches'[r][q] = 1 /\ \A p \in Queries \ {q} : searches'[r][p] = searches[r][p]
      BY <1>1, <1>t, <3>1, <3>2
    <3>4. \A d \in Calls : Pending(r, d)' => Pending(r, d) /\ query[r][d] # q
      BY <1>3, <3>1, <3>2 DEF Pending, GuardInv
    <3>5. \A d \in Calls : Pending(r, d) => query[r][d] \in Queries
      BY RunningCall DEF Pending
    <3> QED BY <3>1, <3>2, <3>3, <3>4, <3>5 DEF GuardInv
  <2>3. CASE ~Count(r, c) /\ ~Connect(r, c)
    <3>1. searches' = searches /\ counted' = counted /\ (Pending(r, c)' => Pending(r, c))
      BY <1>3, <2>3 DEF CallStep, Duplicate, VectorHit, VectorMiss, ConnectTimesOut, Search,
         VectorFill, CallGoto, Pending, AgentInv, AgentTyped
    <3>2. \A d \in Calls : Pending(r, d)' => Pending(r, d)
      BY <1>3, <3>1 DEF Pending
    <3> QED BY <3>1, <3>2 DEF GuardInv
  <2> QED BY <2>1, <2>2, <2>3
<1> QED BY <1>1, <1>4, <1>5 DEF GuardInv

LEMMA NextGuardInv ==
  ASSUME AgentInv, GuardInv, [Next]_vars
  PROVE  GuardInv'
<1>1. ASSUME UNCHANGED <<searches, counted>>,
             \A r \in Requests :
               \/ call'[r] = call[r] /\ query'[r] = query[r]
               \/ \A c \in Calls : ~Pending(r, c)'
      PROVE  GuardInv'
  BY <1>1 DEF GuardInv, Pending
<1>2. CASE UNCHANGED vars
  BY <1>1, <1>2 DEF vars, runVars
<1>3. ASSUME NEW r \in Requests, Begins(r) PROVE GuardInv'
  <2>1. UNCHANGED <<searches, counted>>
    BY <1>3 DEF Begins, Arrive, Admit, AdmitTimesOut, AskTools, AgentAnswers, ToolsEnd, Says,
       runVars
  <2>2. CASE UNCHANGED <<call, query>>
    BY <1>1, <2>1, <2>2
  <2>3. CASE AskTools(r) \/ ToolsEnd(r)
    <3>1. \A c \in Calls : ~Pending(r, c)'
      <4>1. CASE AskTools(r)
        <5>1. \E asked \in SUBSET Calls : call' = [call EXCEPT ![r] =
                [c \in Calls |-> IF c \in asked THEN "asked" ELSE "none"]]
          BY <4>1 DEF AskTools
        <5> QED BY <5>1 DEF Pending, AgentInv, AgentTyped
      <4>2. CASE ToolsEnd(r)
        BY <4>2 DEF ToolsEnd, NoCalls, Pending, AgentInv, AgentTyped
      <4> QED BY <2>3, <4>1, <4>2
    <3>2. \A s \in Requests \ {r} : call'[s] = call[s] /\ query'[s] = query[s]
      BY <2>3 DEF AskTools, ToolsEnd, AgentInv, AgentTyped
    <3> QED BY <1>1, <2>1, <3>1, <3>2
  <2> QED BY <1>3, <2>2, <2>3 DEF Begins, Arrive, Admit, AdmitTimesOut, AgentAnswers
<1>4. ASSUME NEW r \in Requests, Ends(r) PROVE GuardInv'
  <2>1. UNCHANGED <<searches, counted>> /\ \E l \in Over : End(r, l)
    BY <1>4, EndsMeans
  <2>2. \A c \in Calls : ~Pending(r, c)'
    BY <2>1 DEF End, NoCalls, Pending, AgentInv, AgentTyped
  <2>3. \A s \in Requests \ {r} : call'[s] = call[s] /\ query'[s] = query[s]
    BY <2>1 DEF End, AgentInv, AgentTyped
  <2> QED BY <1>1, <2>1, <2>2, <2>3
<1>5. ASSUME NEW k \in Companies \X Queries, VectorExpire(k) PROVE GuardInv'
  BY <1>1, <1>5 DEF VectorExpire, runVars
<1> QED BY <1>2, <1>3, <1>4, <1>5, CallGuardInv, NextSplits

\* However often the model asks for a query, and however its calls overlap, a
\* request searches for it once.
THEOREM SearchOnce == Spec => []OneSearchPerQuery
<1>1. Init => GuardInv
  BY DEF Init, GuardInv, Pending, NoCalls
<1>2. AgentInv /\ GuardInv => OneSearchPerQuery
  BY DEF GuardInv, OneSearchPerQuery
<1> QED BY <1>1, <1>2, NextGuardInv, AgentInvHolds, PTL DEF Spec

-----------------------------------------------------------------------------
(* Whose text a request sees *)

CompanyInv ==
  /\ \A k \in Companies \X Queries : vectors[k] \in {None, k[1]}
  /\ OwnCompanyOnly

LEMMA CallCompanyInv ==
  ASSUME AgentInv, CompanyInv, NEW r \in Requests, NEW c \in Calls, CallStep(r, c)
  PROVE  CompanyInv'
<1>1. /\ VectorKey(r, c) \in Companies \X Queries /\ VectorKey(r, c)[1] = CompanyOf[r]
      /\ CompanyOf[r] \in Companies
  BY CallTyped, RunningCall DEF VectorKey
<1>2. vectors' = vectors \/ vectors' = [vectors EXCEPT ![VectorKey(r, c)] = CompanyOf[r]]
  BY DEF CallStep, VectorFill
<1>3. evidence' = evidence \/ evidence' = [evidence EXCEPT ![r] = @ \cup {CompanyOf[r]}]
  <2>1. ASSUME VectorHit(r, c) PROVE vectors[VectorKey(r, c)] = CompanyOf[r]
    BY <1>1, <2>1 DEF VectorHit, CompanyInv
  <2> QED BY <2>1 DEF CallStep, VectorHit, VectorMiss, VectorFill
<1>4. \A k \in Companies \X Queries : vectors'[k] \in {None, k[1]}
  BY <1>1, <1>2 DEF CompanyInv, AgentInv, AgentTyped
<1>5. OwnCompanyOnly'
  <2> SUFFICES ASSUME NEW q \in Requests PROVE evidence'[q] \subseteq {CompanyOf[q]}
    BY DEF OwnCompanyOnly
  <2>1. evidence[q] \subseteq {CompanyOf[q]} /\ evidence \in [Requests -> SUBSET Companies]
    BY DEF CompanyInv, OwnCompanyOnly, AgentInv, AgentTyped
  <2>2. evidence'[q] = evidence[q] \/ (q = r /\ evidence'[q] = evidence[q] \cup {CompanyOf[q]})
    BY <1>3, <2>1
  <2> QED BY <2>1, <2>2
<1> QED BY <1>4, <1>5 DEF CompanyInv

LEMMA NextCompanyInv ==
  ASSUME AgentInv, CompanyInv, [Next]_vars
  PROVE  CompanyInv'
<1>1. CASE UNCHANGED <<vectors, evidence>>
  BY <1>1 DEF CompanyInv, OwnCompanyOnly
<1>2. ASSUME NEW r \in Requests, Begins(r) PROVE CompanyInv'
  BY <1>1, <1>2
     DEF Begins, Arrive, Admit, AdmitTimesOut, AskTools, AgentAnswers, ToolsEnd, Says, runVars
<1>3. ASSUME NEW r \in Requests, Ends(r) PROVE CompanyInv'
  BY <1>1, <1>3, EndsMeans
<1>4. ASSUME NEW k \in Companies \X Queries, VectorExpire(k) PROVE CompanyInv'
  BY <1>4 DEF VectorExpire, runVars, CompanyInv, OwnCompanyOnly, AgentInv, AgentTyped
<1> QED BY <1>1, <1>2, <1>3, <1>4, CallCompanyInv, NextSplits DEF vars, runVars

\* Searches bring in text of the user's own company only: the key of the
\* shared cache holds the company.
THEOREM OwnCompany == Spec => []OwnCompanyOnly
<1>1. Init => CompanyInv
  BY DEF Init, CompanyInv, OwnCompanyOnly
<1>2. CompanyInv => OwnCompanyOnly
  BY DEF CompanyInv
<1> QED BY <1>1, <1>2, NextCompanyInv, AgentInvHolds, PTL DEF Spec

-----------------------------------------------------------------------------
(* The connections *)

SearchPairs == {p \in Requests \X Calls : call[p[1]][p[2]] = "search"}

PoolInv == free + Cardinality(Holding) + Cardinality(SearchPairs) = PoolSize

\* The pairs of one request are as many as its searches.
LEMMA PairsOf ==
  ASSUME NEW r, NEW S, IsFiniteSet(S)
  PROVE  IsFiniteSet({r} \X S) /\ Cardinality({r} \X S) = Cardinality(S)
<1>1. IsFiniteSet({r}) /\ Cardinality({r}) = 1 /\ Cardinality(S) \in Nat
  BY FS_Singleton, FS_CardinalityType
<1>2. IsFiniteSet({r} \X S) /\ Cardinality({r} \X S) = Cardinality({r}) * Cardinality(S)
  BY <1>1, FS_Product
<1> QED BY <1>1, <1>2

\* Every pair is in a finite set.
LEMMA PoolFinite ==
  /\ IsFiniteSet(Holding) /\ IsFiniteSet(SearchPairs)
  /\ Cardinality(Holding) \in Nat /\ Cardinality(SearchPairs) \in Nat
<1>1. IsFiniteSet(Requests \X Calls) /\ SearchPairs \subseteq Requests \X Calls
  BY AgentAssumption, FS_Product DEF SearchPairs
<1>2. Holding \subseteq Requests
  BY DEF Holding
<1> QED BY <1>1, <1>2, AgentAssumption, FS_Subset, FS_CardinalityType

\* The ends of a request return its connection and those of its searches.
LEMMA EndPoolInv ==
  ASSUME AgentInv, PoolInv, NEW r \in Requests, Ends(r)
  PROVE  PoolInv'
<1> DEFINE gone == {r} \X Searching(r)
<1>1. PICK l \in Over : End(r, l)
  BY EndsMeans
<1>2. r \in Holding /\ Holding' = Holding \ {r}
  BY <1>1, EndsMeans DEF Holding, End, Goto, AgentInv, AgentTyped, Over, Running
<1>3. gone \subseteq SearchPairs
  BY DEF SearchPairs, Searching
<1>4. SearchPairs' = SearchPairs \ gone
  <2>1. call'[r] = NoCalls /\ \A q \in Requests \ {r} : call'[q] = call[q]
    BY <1>1 DEF End, AgentInv, AgentTyped
  <2>2. ASSUME NEW q \in Requests, NEW c \in Calls
        PROVE  call'[q][c] = "search" <=> call[q][c] = "search" /\ <<q, c>> \notin gone
    <3>1. CASE q = r
      BY <2>1, <3>1 DEF NoCalls, Searching
    <3>2. CASE q # r
      BY <2>1, <3>2
    <3> QED BY <3>1, <3>2
  <2> HIDE DEF gone
  <2> QED BY <2>2 DEF SearchPairs
<1>5. Cardinality(Holding') = Cardinality(Holding) - 1
  BY <1>2, PoolFinite, FS_RemoveElement
<1>6. Cardinality(SearchPairs') = Cardinality(SearchPairs) - Cardinality(Searching(r))
  <2>1. IsFiniteSet(gone) /\ Cardinality(gone) = Cardinality(Searching(r))
    BY SearchingFinite, PairsOf
  <2> HIDE DEF gone
  <2>2. SearchPairs \cap gone = gone
    BY <1>3
  <2>3. Cardinality(SearchPairs \ gone)
          = Cardinality(SearchPairs) - Cardinality(SearchPairs \cap gone)
    BY PoolFinite, FS_Difference
  <2> QED BY <1>4, <2>1, <2>2, <2>3
<1>7. free' = free + 1 + Cardinality(Searching(r)) /\ free \in Nat
  BY <1>1 DEF End, AgentInv, AgentTyped
<1>8. /\ Cardinality(Holding) \in Nat /\ Cardinality(SearchPairs) \in Nat
      /\ Cardinality(Searching(r)) \in Nat
  BY PoolFinite, SearchingFinite
<1> QED BY <1>5, <1>6, <1>7, <1>8 DEF PoolInv

\* A search takes a connection when it starts and returns it before its text
\* is cached.
LEMMA CallPoolInv ==
  ASSUME AgentInv, PoolInv, NEW r \in Requests, NEW c \in Calls, CallStep(r, c)
  PROVE  PoolInv'
<1>1. Holding' = Holding
  BY DEF CallStep, Holding
<1>2. PICK l \in CallStates : CallGoto(r, c, l)
  BY CallTyped
<1>3. call'[r][c] = l /\ \A q \in Requests, d \in Calls : <<q, d>> # <<r, c>> => call'[q][d] = call[q][d]
  BY <1>2 DEF CallGoto, AgentInv, AgentTyped
<1>4. Cardinality(SearchPairs) \in Nat /\ Cardinality(Holding) \in Nat /\ free \in Nat
  BY PoolFinite DEF AgentInv, AgentTyped
<1>5. CASE Connect(r, c)
  <2>1. free' = free - 1 /\ call[r][c] = "connect" /\ l = "search"
    BY <1>3, <1>5 DEF Connect, CallGoto, AgentInv, AgentTyped
  <2>2. <<r, c>> \notin SearchPairs /\ SearchPairs' = SearchPairs \cup {<<r, c>>}
    BY <1>3, <2>1 DEF SearchPairs
  <2>3. Cardinality(SearchPairs') = Cardinality(SearchPairs) + 1
    BY <2>2, PoolFinite, FS_AddElement
  <2> QED BY <1>1, <1>4, <2>1, <2>3 DEF PoolInv
<1>6. CASE Search(r, c)
  <2>1. free' = free + 1 /\ call[r][c] = "search" /\ l # "search"
    BY <1>3, <1>6 DEF Search, CallGoto, AgentInv, AgentTyped
  <2>2. <<r, c>> \in SearchPairs /\ SearchPairs' = SearchPairs \ {<<r, c>>}
    BY <1>3, <2>1 DEF SearchPairs
  <2>3. Cardinality(SearchPairs') = Cardinality(SearchPairs) - 1
    BY <2>2, PoolFinite, FS_RemoveElement
  <2> QED BY <1>1, <1>4, <2>1, <2>3 DEF PoolInv
<1>7. CASE ~Connect(r, c) /\ ~Search(r, c)
  <2>1. free' = free /\ call[r][c] # "search" /\ l # "search"
    BY <1>3, <1>7
       DEF CallStep, Count, Duplicate, VectorHit, VectorMiss, ConnectTimesOut, VectorFill,
           CallGoto, AgentInv, AgentTyped
  <2>2. SearchPairs' = SearchPairs
    BY <1>3, <2>1 DEF SearchPairs
  <2> QED BY <1>1, <2>1, <2>2 DEF PoolInv
<1> QED BY <1>5, <1>6, <1>7

LEMMA BeginPoolInv ==
  ASSUME AgentInv, PoolInv, NEW r \in Requests, Begins(r)
  PROVE  PoolInv'
<1>1. CASE Admit(r)
  <2>1. r \notin Holding /\ Holding' = Holding \cup {r} /\ SearchPairs' = SearchPairs
    BY <1>1 DEF Admit, Goto, Holding, SearchPairs, Running, AgentInv, AgentTyped
  <2>2. Cardinality(Holding') = Cardinality(Holding) + 1
    BY <2>1, PoolFinite, FS_AddElement
  <2> QED BY <1>1, <2>1, <2>2, PoolFinite DEF Admit, PoolInv, AgentInv, AgentTyped
<1>2. CASE Arrive(r) \/ AdmitTimesOut(r) \/ AgentAnswers(r)
  <2>1. Holding' = Holding /\ SearchPairs' = SearchPairs /\ free' = free
    BY <1>2
       DEF Arrive, AdmitTimesOut, AgentAnswers, Goto, Holding, SearchPairs, Running, Over,
           AgentInv, AgentTyped
  <2> QED BY <2>1 DEF PoolInv
<1>3. CASE AskTools(r) \/ ToolsEnd(r)
  <2>1. Holding' = Holding /\ free' = free
    BY <1>3 DEF AskTools, ToolsEnd, Goto, Holding, Running, AgentInv, AgentTyped
  <2>2. \A q \in Requests \ {r} : call'[q] = call[q]
    BY <1>3 DEF AskTools, ToolsEnd, AgentInv, AgentTyped
  <2>3. \A c \in Calls : call[r][c] # "search" /\ call'[r][c] # "search"
    <3>1. CASE AskTools(r)
      <4>1. \E asked \in SUBSET Calls : call' = [call EXCEPT ![r] =
              [c \in Calls |-> IF c \in asked THEN "asked" ELSE "none"]]
        BY <3>1 DEF AskTools
      <4>2. call[r] = NoCalls
        BY <3>1 DEF AskTools, AgentInv, Turn
      <4> QED BY <4>1, <4>2 DEF NoCalls, AgentInv, AgentTyped
    <3>2. CASE ToolsEnd(r)
      BY <3>2 DEF ToolsEnd, NoCalls, AgentInv, AgentTyped
    <3> QED BY <1>3, <3>1, <3>2
  <2>4. SearchPairs' = SearchPairs
    BY <2>2, <2>3 DEF SearchPairs
  <2> QED BY <2>1, <2>4 DEF PoolInv
<1> QED BY <1>1, <1>2, <1>3 DEF Begins

LEMMA NextPoolInv ==
  ASSUME AgentInv, PoolInv, [Next]_vars
  PROVE  PoolInv'
<1>1. ASSUME UNCHANGED <<free, pc, call>> PROVE PoolInv'
  BY <1>1 DEF PoolInv, Holding, SearchPairs
<1>2. ASSUME NEW k \in Companies \X Queries, VectorExpire(k) PROVE PoolInv'
  BY <1>1, <1>2 DEF VectorExpire
<1> QED
  BY <1>1, <1>2, BeginPoolInv, EndPoolInv, CallPoolInv, NextSplits DEF vars

\* The connections of the pool are never lost nor given out twice, across
\* answers, failures, timeouts and cancelled searches; and every variable
\* keeps its type.
THEOREM TypeCorrect == Spec => []TypeOK
<1>1. Init => PoolInv
  <2> SUFFICES ASSUME Init PROVE PoolInv
    OBVIOUS
  <2>1. Holding = {} /\ SearchPairs = {}
    BY DEF Init, Holding, SearchPairs, Running, NoCalls
  <2> QED BY <2>1, FS_EmptySet, AgentAssumption DEF Init, PoolInv
<1>2. AgentInv /\ PoolInv => TypeOK
  <2> SUFFICES ASSUME AgentInv, PoolInv PROVE TypeOK
    OBVIOUS
  <2>1. free \in 0..PoolSize
    BY PoolFinite, AgentAssumption DEF PoolInv, AgentInv, AgentTyped
  <2>2. \A r \in Requests : pc[r] # "tools" => call[r] = NoCalls
    BY DEF AgentInv, Turn
  <2> QED
    BY <2>1, <2>2 DEF AgentInv, AgentTyped, PoolInv, SearchPairs, TypeOK, PcStates, CallStates
<1> QED BY <1>1, <1>2, NextPoolInv, AgentInvHolds, PTL DEF Spec

-----------------------------------------------------------------------------
(* The work of a request *)

\* The steps left of the calls with the labels f.
Work(f) == {p \in Calls \X (1..5) : p[2] <= CallSteps(f[p[1]])}

LEMMA WorkBounded ==
  ASSUME NEW f
  PROVE  /\ IsFiniteSet(Work(f)) /\ Cardinality(Work(f)) \in Nat
         /\ Cardinality(Work(f)) <= 5 * Cardinality(Calls)
         /\ Cardinality(Calls) \in Nat
<1>1. IsFiniteSet(1..5) /\ Cardinality(1..5) = 5
  <2>1. ASSUME NEW a \in Int, NEW b \in Int, a = 1, b = 5
        PROVE  IsFiniteSet(a..b) /\ Cardinality(a..b) = 5
    <3>1. IsFiniteSet(a..b) /\ Cardinality(a..b) = IF a > b THEN 0 ELSE b - a + 1
      BY FS_Interval
    <3>2. ~(a > b) /\ b - a + 1 = 5
      BY <2>1
    <3> QED BY <3>1, <3>2
  <2>2. 1 \in Int /\ 5 \in Int
    OBVIOUS
  <2> QED BY <2>1, <2>2, Zenon
<1>2. /\ IsFiniteSet(Calls \X (1..5)) /\ Cardinality(Calls) \in Nat
      /\ Cardinality(Calls \X (1..5)) = Cardinality(Calls) * 5
  BY <1>1, FS_Product, FS_CardinalityType, AgentAssumption
<1>3. Work(f) \in SUBSET (Calls \X (1..5))
  BY DEF Work
<1>4. IsFiniteSet(Work(f)) /\ Cardinality(Work(f)) <= Cardinality(Calls \X (1..5))
  BY <1>2, <1>3, FS_Subset
<1>5. Cardinality(Work(f)) \in Nat
  BY <1>4, FS_CardinalityType
<1> QED BY <1>2, <1>4, <1>5

\* A call that moves on leaves less work.
LEMMA WorkLess ==
  ASSUME NEW f, NEW g, NEW c \in Calls, CallSteps(g[c]) < CallSteps(f[c]),
         \A d \in Calls \ {c} : g[d] = f[d]
  PROVE  Cardinality(Work(g)) < Cardinality(Work(f))
<1>0. ASSUME NEW l PROVE CallSteps(l) \in 0..5
  BY DEF CallSteps
<1>1. CallSteps(f[c]) \in 1..5 /\ CallSteps(g[c]) \in 0..5
  BY <1>0
<1>2. Work(g) \in SUBSET Work(f)
  <2> SUFFICES ASSUME NEW p \in Work(g) PROVE p \in Work(f)
    OBVIOUS
  <2>1. p \in Calls \X (1..5) /\ p[2] <= CallSteps(g[p[1]])
    BY DEF Work
  <2>2. PICK d \in Calls, n \in 1..5 : p = <<d, n>>
    BY <2>1
  <2>3. n <= CallSteps(f[d])
    BY <1>1, <2>1, <2>2
  <2> QED BY <2>2, <2>3 DEF Work
<1>3. <<c, CallSteps(f[c])>> \in Work(f)
  BY <1>1 DEF Work
<1>4. <<c, CallSteps(f[c])>> \notin Work(g)
  BY <1>1 DEF Work
<1> QED BY <1>2, <1>3, <1>4, WorkBounded, FS_Subset

\* A round outweighs the calls of one message.
LEMMA RoundOutweighs ==
  ASSUME NEW a \in Nat, NEW b \in Nat, a < b, NEW k \in Nat,
         NEW v \in Nat, v <= k, NEW w \in Nat
  PROVE  a * (k + 1) + v < b * (k + 1) + w
<1> DEFINE m == k + 1
<1>1. m \in Nat /\ v < m
  OBVIOUS
<1> HIDE DEF m
<1>2. PICK d \in Nat : b = a + 1 + d
  <2>1. b - a - 1 \in Nat /\ b = a + 1 + (b - a - 1)
    OBVIOUS
  <2> QED BY <2>1
<1>3. b * m = a * m + m + d * m /\ a * m \in Nat /\ d * m \in Nat
  BY <1>1, <1>2
<1>4. a * m + v < b * m + w
  BY <1>1, <1>3
<1> QED BY <1>4 DEF m

\* Every step of a request but those of its calls ends a round.
LEMMA RoundEnds ==
  ASSUME AgentInv, AgentInv', NEW r \in Requests, Begins(r) \/ Ends(r)
  PROVE  /\ RoundsLeft(r) \in Nat /\ RoundsLeft(r)' \in Nat
         /\ RoundsLeft(r)' < RoundsLeft(r)
<1> USE AgentAssumption
<1>1. /\ steps[r] \in 0..RecursionLimit /\ steps'[r] \in 0..RecursionLimit
      /\ pc[r] \in PcStates /\ pc \in [Requests -> PcStates]
      /\ steps \in [Requests -> 0..RecursionLimit]
  BY DEF AgentInv, AgentTyped
<1>2. CASE Arrive(r) \/ Admit(r) \/ AdmitTimesOut(r)
  BY <1>1, <1>2 DEF Arrive, Admit, AdmitTimesOut, Goto, RoundsLeft, runVars
<1>3. CASE AskTools(r) \/ AgentAnswers(r)
  <2>1. /\ pc[r] = "agent" /\ steps[r] < RecursionLimit /\ steps'[r] = steps[r] + 1
        /\ pc'[r] \in {"tools", "answered"}
    BY <1>1, <1>3 DEF AskTools, AgentAnswers, Says, Goto
  <2> QED BY <1>1, <2>1 DEF RoundsLeft
<1>4. CASE ToolsEnd(r)
  <2>1. pc[r] = "tools" /\ pc'[r] = "agent" /\ steps'[r] = steps[r] + 1
    BY <1>1, <1>4 DEF ToolsEnd, Goto
  <2> QED BY <1>1, <2>1 DEF RoundsLeft
<1>5. CASE Ends(r)
  <2>1. pc[r] \in Running /\ pc'[r] \in Over
    BY <1>1, <1>5, EndsMeans DEF End, Goto
  <2> QED BY <1>1, <2>1 DEF RoundsLeft, Running, Over
<1> QED BY <1>2, <1>3, <1>4, <1>5 DEF Begins

\* A request does not touch the others.
LEMMA OthersStay ==
  ASSUME AgentInv, NEW q \in Requests, NEW r \in Requests, q # r,
         Begins(q) \/ Ends(q) \/ \E c \in Calls : CallStep(q, c)
  PROVE  pc'[r] = pc[r] /\ call'[r] = call[r] /\ steps'[r] = steps[r]
<1>t. /\ pc \in [Requests -> PcStates] /\ call \in [Requests -> [Calls -> CallStates]]
      /\ steps \in [Requests -> 0..RecursionLimit]
  BY DEF AgentInv, AgentTyped
<1>1. CASE Begins(q)
  BY <1>t, <1>1
     DEF Begins, Arrive, Admit, AdmitTimesOut, AskTools, AgentAnswers, ToolsEnd, Goto,
         Says, runVars
<1>2. CASE Ends(q)
  BY <1>t, <1>2, EndsMeans DEF End, Goto
<1>3. CASE \E c \in Calls : CallStep(q, c)
  BY <1>t, <1>3, CallTyped DEF CallStep, CallGoto
<1> QED BY <1>1, <1>2, <1>3

\* A call takes its steps in one direction.
LEMMA CallMovesOn ==
  ASSUME AgentInv, NEW r \in Requests, NEW c \in Calls, CallStep(r, c)
  PROVE  StepsLeft(r)' \in 0..(StepsLeft(r) - 1)
<1>t. call \in [Requests -> [Calls -> CallStates]]
  BY DEF AgentInv, AgentTyped
<1>1. PICK l \in CallStates :
        CallGoto(r, c, l) /\ CallSteps(l) < CallSteps(call[r][c])
  BY DEF CallStep, Count, Duplicate, VectorHit, VectorMiss, Connect, ConnectTimesOut,
         Search, VectorFill, CallStates, CallSteps
<1>2. /\ CallSteps(call'[r][c]) < CallSteps(call[r][c])
      /\ \A d \in Calls \ {c} : call'[r][d] = call[r][d]
  BY <1>t, <1>1 DEF CallGoto
<1>3. Cardinality(Work(call'[r])) < Cardinality(Work(call[r]))
  BY <1>2, WorkLess
<1>4. CallsLeft(r)' < CallsLeft(r) /\ CallsLeft(r)' \in Nat /\ CallsLeft(r) \in Nat
  BY <1>3, WorkBounded DEF CallsLeft, Work
<1>5. RoundsLeft(r)' = RoundsLeft(r)
  BY DEF CallStep, RoundsLeft
<1>6. RoundsLeft(r) \in Nat
  BY AgentAssumption DEF AgentInv, AgentTyped, RoundsLeft
<1>7. RoundsLeft(r) * (5 * Cardinality(Calls) + 1) \in Nat
  BY <1>6, WorkBounded
<1> DEFINE n == RoundsLeft(r) * (5 * Cardinality(Calls) + 1)
<1>8. n \in Nat /\ StepsLeft(r) = n + CallsLeft(r) /\ StepsLeft(r)' = n + CallsLeft(r)'
  BY <1>5, <1>7 DEF StepsLeft
<1> HIDE DEF n
<1> QED BY <1>4, <1>8

LEMMA RequestMovesOn ==
  ASSUME AgentInv, AgentInv', NEW r \in Requests, Begins(r) \/ Ends(r)
  PROVE  StepsLeft(r)' \in 0..(StepsLeft(r) - 1)
<1> DEFINE k == 5 * Cardinality(Calls)
<1>1. k \in Nat
  BY WorkBounded
<1>2. CallsLeft(r)' \in Nat /\ CallsLeft(r) \in Nat /\ CallsLeft(r)' <= k
  BY WorkBounded DEF CallsLeft, Work
<1>3. StepsLeft(r) = RoundsLeft(r) * (k + 1) + CallsLeft(r)
  BY DEF StepsLeft
<1>4. StepsLeft(r)' = RoundsLeft(r)' * (k + 1) + CallsLeft(r)'
  BY DEF StepsLeft
<1> HIDE DEF k
<1>5. /\ RoundsLeft(r)' * (k + 1) + CallsLeft(r)' < RoundsLeft(r) * (k + 1) + CallsLeft(r)
      /\ RoundsLeft(r)' * (k + 1) \in Nat
      /\ RoundsLeft(r) * (k + 1) \in Nat
  BY <1>1, <1>2, RoundEnds, RoundOutweighs
<1> QED BY <1>2, <1>3, <1>4, <1>5

\* Whatever the model asks for, however calls, requests and failures
\* interleave, every step of a request leaves it fewer to take: it takes at
\* most (RecursionLimit + 4) * (5 * Cardinality(Calls) + 1) in all.
THEOREM RunsBounded == Spec => BoundedRun
<1> DEFINE MovesOn == \A r \in Requests :
             pc'[r] # pc[r] \/ call'[r] # call[r] \/ steps'[r] # steps[r] =>
               StepsLeft(r)' \in 0..(StepsLeft(r) - 1)
<1>1. ASSUME AgentInv, AgentInv', [Next]_vars PROVE [MovesOn]_vars
  <2> SUFFICES ASSUME NEW r \in Requests,
                      pc'[r] # pc[r] \/ call'[r] # call[r] \/ steps'[r] # steps[r]
               PROVE  StepsLeft(r)' \in 0..(StepsLeft(r) - 1)
    OBVIOUS
  <2>1. \E q \in Requests : Begins(q) \/ Ends(q) \/ \E c \in Calls : CallStep(q, c)
    BY <1>1, NextSplits DEF vars, runVars, VectorExpire
  <2>2. Begins(r) \/ Ends(r) \/ \E c \in Calls : CallStep(r, c)
    BY <1>1, <2>1, OthersStay
  <2> QED BY <1>1, <2>2, RequestMovesOn, CallMovesOn
<1> HIDE DEF MovesOn
<1>2. Spec => [][MovesOn]_vars
  BY <1>1, AgentInvHolds, PTL DEF Spec
<1> QED BY <1>2 DEF MovesOn, BoundedRun
=============================================================================
