----------------------------- MODULE AgentLoop -----------------------------
(***************************************************************************)
(* One chat request through the LangGraph agent.  The agent node asks the  *)
(* model, which answers or asks for searches; the tools node runs the      *)
(* searches of one message concurrently.  A request keeps the database     *)
(* connection of its own session from the guard to the end, and every      *)
(* search takes another one from the same pool, so requests can wait for   *)
(* each other with all connections in their hands.                         *)
(*                                                                         *)
(* A text is known by its origin: the company whose chunks it holds, or    *)
(* the kind of message it was the content of.                              *)
(***************************************************************************)
EXTENDS Naturals, FiniteSets

CONSTANTS
  Requests,        \* the chat requests
  Companies,
  CompanyOf,       \* the company of the user who sends a request
  Queries,         \* the normalised queries
  Calls,           \* the tool calls one message may hold
  PoolSize,        \* DB_POOL_SIZE + DB_MAX_OVERFLOW
  RecursionLimit,  \* recursion_limit, 8 in the code
  Faults,          \* the kinds of failure that may occur
  None

FaultKinds == {"database", "redis", "llm", "embedding", "disconnect"}

ASSUME AgentAssumption ==
  /\ CompanyOf \in [Requests -> Companies]
  /\ PoolSize \in Nat \ {0} /\ RecursionLimit \in Nat \ {0}
  /\ RecursionLimit % 2 = 0  \* it is reached when it is the agent's turn
  /\ IsFiniteSet(Requests) /\ IsFiniteSet(Calls)
  /\ Faults \subseteq FaultKinds
  /\ None \notin Queries \cup Companies

VARIABLES
  free,      \* the connections the pool has left
  mode,      \* the endpoint: "invoke" or "stream"
  pc,        \* where a request is
  steps,     \* the graph steps it has made
  call,      \* where each tool call of the last message is
  query,     \* its normalised query
  counted,   \* the queries in _search_query_counts
  evidence,  \* the companies whose text tool messages have brought in
  streamed,  \* streamed_parts is not blank
  final,     \* the origin of final_message_text
  answer,    \* the origin of the text that is persisted
  vectors,   \* the Redis entries cache:vector:<company>:<query>
  searches   \* how often a request has searched for a query (history)

runVars == <<mode, steps, counted, evidence, streamed, final, answer>>
vars == <<free, pc, call, query, vectors, searches, runVars>>

Over == {"done", "failed"}
Running == {"agent", "tools", "answered"}

NoCalls == [c \in Calls |-> "none"]

Init ==
  /\ free = PoolSize
  /\ mode \in [Requests -> {"invoke", "stream"}]
  /\ pc = [r \in Requests |-> "idle"]
  /\ steps = [r \in Requests |-> 0]
  /\ call = [r \in Requests |-> NoCalls]
  /\ query = [r \in Requests |-> [c \in Calls |-> None]]
  /\ counted = [r \in Requests |-> {}]
  /\ evidence = [r \in Requests |-> {}]
  /\ streamed = [r \in Requests |-> FALSE]
  /\ final = [r \in Requests |-> None]
  /\ answer = [r \in Requests |-> None]
  /\ vectors = [k \in Companies \X Queries |-> None]
  /\ searches = [r \in Requests |-> [q \in Queries |-> 0]]

Goto(r, l) == pc' = [pc EXCEPT ![r] = l]

-----------------------------------------------------------------------------
(* The session of the request *)

\* The guard's first statement asks the pool for a connection.
Arrive(r) ==
  /\ pc[r] = "idle"
  /\ Goto(r, "waiting")
  /\ UNCHANGED <<free, call, query, vectors, searches, runVars>>

\* It has one when the agent starts; the commit of a new conversation in
\* between gives it back for a moment and waits again.
Admit(r) ==
  /\ pc[r] = "waiting"
  /\ free > 0
  /\ free' = free - 1
  /\ Goto(r, "agent")
  /\ UNCHANGED <<call, query, vectors, searches, runVars>>

\* pool_timeout: the request ends with 500.
AdmitTimesOut(r) ==
  /\ pc[r] = "waiting"
  /\ free = 0
  /\ Goto(r, "failed")
  /\ UNCHANGED <<free, call, query, vectors, searches, runVars>>

\* The calls of the request that hold a connection.
Searching(r) == {c \in Calls : call[r][c] = "search"}

\* Mutant of End: the connections of cancelled searches are not returned.
End_LeaksSearches(r, l) ==
  /\ Goto(r, l)
  /\ free' = free + 1
  /\ call' = [call EXCEPT ![r] = NoCalls]
  /\ query' = [query EXCEPT ![r] = [c \in Calls |-> None]]

\* The request is over: its session is closed, running calls are cancelled
\* and return their connections.
End(r, l) ==
  /\ Goto(r, l)
  /\ free' = free + 1 + Cardinality(Searching(r))
  /\ call' = [call EXCEPT ![r] = NoCalls]
  /\ query' = [query EXCEPT ![r] = [c \in Calls |-> None]]

\* The client of a stream is gone: the generator is cancelled at any await.
Disconnect(r) ==
  /\ "disconnect" \in Faults
  /\ mode[r] = "stream"
  /\ pc[r] \in Running
  /\ End(r, "failed")
  /\ UNCHANGED <<vectors, searches, runVars>>

-----------------------------------------------------------------------------
(* The agent node *)

\* Mutant of Says: a model message does not count as a step of the graph.
Says_Uncounted(r, spoken) ==
  /\ streamed' = [streamed EXCEPT ![r] = @ \/ spoken]
  /\ final' = [final EXCEPT ![r] = IF spoken THEN "model" ELSE @]
  /\ UNCHANGED steps

\* The content of a model message: streamed chunk by chunk, and the output of
\* the node at its end.  final_message_text keeps its value when it is empty.
Says(r, spoken) ==
  /\ streamed' = [streamed EXCEPT ![r] = @ \/ spoken]
  /\ final' = [final EXCEPT ![r] = IF spoken THEN "model" ELSE @]
  /\ steps' = [steps EXCEPT ![r] = @ + 1]

\* The model asks for searches, with or without a word of its own.
AskTools(r) ==
  /\ pc[r] = "agent"
  /\ steps[r] < RecursionLimit
  /\ \E asked \in (SUBSET Calls) \ {{}} : \E q \in [asked -> Queries] :
       /\ query' = [query EXCEPT ![r] =
            [c \in Calls |-> IF c \in asked THEN q[c] ELSE None]]
       /\ call' = [call EXCEPT ![r] =
            [c \in Calls |-> IF c \in asked THEN "asked" ELSE "none"]]
  /\ \E spoken \in BOOLEAN : Says(r, spoken)
  /\ Goto(r, "tools")
  /\ UNCHANGED <<free, vectors, searches, mode, counted, evidence, answer>>

\* A message without tool calls ends the graph.
AgentAnswers(r) ==
  /\ pc[r] = "agent"
  /\ steps[r] < RecursionLimit
  /\ \E spoken \in BOOLEAN :
       /\ Says(r, spoken)
       /\ answer' = [answer EXCEPT ![r] =
            IF mode[r] = "invoke" THEN (IF spoken THEN "model" ELSE "blank")
            ELSE IF streamed'[r] THEN "model" ELSE final'[r]]
  /\ Goto(r, "answered")
  /\ UNCHANGED <<free, call, query, vectors, searches, mode, counted, evidence>>

\* GraphRecursionError, or the model does not answer.
AgentFails(r) ==
  /\ pc[r] = "agent"
  /\ steps[r] = RecursionLimit \/ "llm" \in Faults
  /\ End(r, "failed")
  /\ UNCHANGED <<vectors, searches, runVars>>

-----------------------------------------------------------------------------
(* The tools node: search_documents *)

CallGoto(r, c, l) == call' = [call EXCEPT ![r][c] = l]

\* The query is counted and the cache asked: no other call of the request
\* runs between the check and the count.
Count(r, c) ==
  /\ call[r][c] = "asked"
  /\ query[r][c] \notin counted[r]
  /\ counted' = [counted EXCEPT ![r] = @ \cup {query[r][c]}]
  /\ CallGoto(r, c, "lookup")

Duplicate(r, c) ==
  /\ call[r][c] = "asked"
  /\ query[r][c] \in counted[r]
  /\ CallGoto(r, c, "told")
  /\ UNCHANGED counted

\* Mutant of VectorKey: the company is left out.
VectorKey_NoCompany(r, c) == <<CHOOSE x \in Companies : TRUE, query[r][c]>>

VectorKey(r, c) == <<CompanyOf[r], query[r][c]>>

VectorHit(r, c) ==
  LET text == vectors[VectorKey(r, c)] IN
  /\ call[r][c] = "lookup"
  /\ text # None
  /\ evidence' = [evidence EXCEPT ![r] = @ \cup {text}]
  /\ CallGoto(r, c, "told")

\* No entry or no Redis: the query is embedded.
VectorMiss(r, c) ==
  /\ call[r][c] = "lookup"
  /\ vectors[VectorKey(r, c)] = None \/ "redis" \in Faults
  /\ \/ CallGoto(r, c, "connect")
     \/ "embedding" \in Faults /\ CallGoto(r, c, "told")
  /\ UNCHANGED evidence

Connect(r, c) ==
  /\ call[r][c] = "connect"
  /\ free > 0
  /\ free' = free - 1
  /\ CallGoto(r, c, "search")
  /\ searches' = [searches EXCEPT ![r][query[r][c]] = @ + 1]

\* Mutant of ConnectTimesOut: a search waits for ever.
ConnectTimesOut_Never(r, c) == FALSE /\ UNCHANGED <<free, call, searches>>

\* pool_timeout: "temporarily unavailable".
ConnectTimesOut(r, c) ==
  /\ call[r][c] = "connect"
  /\ free = 0
  /\ CallGoto(r, c, "told")
  /\ UNCHANGED <<free, searches>>

\* The rows of the company: some, none, or a failure; the session is closed
\* before the text is cached.
Search(r, c) ==
  /\ call[r][c] = "search"
  /\ free' = free + 1
  /\ \/ CallGoto(r, c, "fill")
     \/ CallGoto(r, c, "told")
  /\ UNCHANGED searches

VectorFill(r, c) ==
  /\ call[r][c] = "fill"
  /\ \/ vectors' = [vectors EXCEPT ![VectorKey(r, c)] = CompanyOf[r]]
     \/ "redis" \in Faults /\ UNCHANGED vectors
  /\ evidence' = [evidence EXCEPT ![r] = @ \cup {CompanyOf[r]}]
  /\ CallGoto(r, c, "told")

\* The lifetime of an entry ends.
VectorExpire(k) ==
  /\ vectors[k] # None
  /\ vectors' = [vectors EXCEPT ![k] = None]
  /\ UNCHANGED <<free, pc, call, query, searches, runVars>>

\* Mutant of CallStep: a query is counted once the cache has missed it, after
\* the first await.
CallStep_CountsLate(r, c) ==
  /\ pc[r] = "tools"
  /\ \/ /\ call[r][c] = "asked"
        /\ CallGoto(r, c, IF query[r][c] \in counted[r] THEN "told" ELSE "lookup")
        /\ UNCHANGED <<free, counted, evidence, vectors, searches>>
     \/ VectorHit(r, c) /\ UNCHANGED <<free, counted, vectors, searches>>
     \/ /\ VectorMiss(r, c)
        /\ counted' = [counted EXCEPT ![r] = @ \cup {query[r][c]}]
        /\ UNCHANGED <<free, vectors, searches>>
     \/ (Connect(r, c) \/ ConnectTimesOut(r, c) \/ Search(r, c))
        /\ UNCHANGED <<counted, evidence, vectors>>
     \/ VectorFill(r, c) /\ UNCHANGED <<free, counted, searches>>
  /\ UNCHANGED <<pc, query, mode, steps, streamed, final, answer>>

CallStep(r, c) ==
  /\ pc[r] = "tools"
  /\ \/ (Count(r, c) \/ Duplicate(r, c))
        /\ UNCHANGED <<free, evidence, vectors, searches>>
     \/ (VectorHit(r, c) \/ VectorMiss(r, c))
        /\ UNCHANGED <<free, counted, vectors, searches>>
     \/ (Connect(r, c) \/ ConnectTimesOut(r, c) \/ Search(r, c))
        /\ UNCHANGED <<counted, evidence, vectors>>
     \/ VectorFill(r, c) /\ UNCHANGED <<free, counted, searches>>
  /\ UNCHANGED <<pc, query, mode, steps, streamed, final, answer>>

\* All calls are answered: the tool messages are the output of the node.
ToolsEnd(r) ==
  /\ pc[r] = "tools"
  /\ \A c \in Calls : call[r][c] \in {"none", "told"}
  /\ final' = [final EXCEPT ![r] = "tool"]
  /\ steps' = [steps EXCEPT ![r] = @ + 1]
  /\ call' = [call EXCEPT ![r] = NoCalls]
  /\ query' = [query EXCEPT ![r] = [c \in Calls |-> None]]
  /\ Goto(r, "agent")
  /\ UNCHANGED <<free, vectors, searches, mode, counted, evidence, streamed, answer>>

-----------------------------------------------------------------------------
(* The answer *)

\* The turn is committed and the session closed.
Persist(r) ==
  /\ pc[r] = "answered"
  /\ answer[r] # None
  /\ End(r, "done")
  /\ UNCHANGED <<vectors, searches, runVars>>

\* A stream has nothing to persist, or the commit fails.
NothingPersisted(r) ==
  /\ pc[r] = "answered"
  /\ answer[r] = None \/ "database" \in Faults
  /\ answer' = [answer EXCEPT ![r] = None]
  /\ End(r, "failed")
  /\ UNCHANGED <<vectors, searches, mode, steps, counted, evidence, streamed, final>>

RequestStep(r) ==
  \/ Admit(r) \/ AdmitTimesOut(r)
  \/ AskTools(r) \/ AgentAnswers(r) \/ AgentFails(r)
  \/ \E c \in Calls : CallStep(r, c)
  \/ ToolsEnd(r) \/ Persist(r) \/ NothingPersisted(r)

Next ==
  \/ \E r \in Requests : Arrive(r) \/ RequestStep(r) \/ Disconnect(r)
  \/ \E k \in Companies \X Queries : VectorExpire(k)

\* The event loop runs every handler on; a wait for the pool ends.
Spec ==
  /\ Init /\ [][Next]_vars
  /\ \A r \in Requests : WF_vars(RequestStep(r))

-----------------------------------------------------------------------------
(* Properties *)

Holding == {r \in Requests : pc[r] \in Running}

\* Every variable has its type, and every connection is either in the pool or
\* held by a running request or one of its searches, across cancellations.
TypeOK ==
  /\ free \in 0..PoolSize
  /\ mode \in [Requests -> {"invoke", "stream"}]
  /\ pc \in [Requests -> {"idle", "waiting"} \cup Running \cup Over]
  /\ steps \in [Requests -> 0..RecursionLimit]
  /\ call \in [Requests -> [Calls ->
       {"none", "asked", "lookup", "connect", "search", "fill", "told"}]]
  /\ query \in [Requests -> [Calls -> Queries \cup {None}]]
  /\ counted \in [Requests -> SUBSET Queries]
  /\ evidence \in [Requests -> SUBSET Companies]
  /\ streamed \in [Requests -> BOOLEAN]
  /\ final \in [Requests -> {None, "model", "tool"}]
  /\ answer \in [Requests -> {None, "model", "tool", "blank"}]
  /\ vectors \in [Companies \X Queries -> Companies \cup {None}]
  /\ searches \in [Requests -> [Queries -> Nat]]
  /\ \A r \in Requests : pc[r] # "tools" => call[r] = NoCalls
  /\ free + Cardinality(Holding)
       + Cardinality({p \in Requests \X Calls : call[p[1]][p[2]] = "search"})
     = PoolSize

\* The loop guard: a request searches at most once for a query, even when the
\* model asks for it several times in one message and the calls overlap.
OneSearchPerQuery ==
  \A r \in Requests, q \in Queries : searches[r][q] <= 1

\* What searches bring into a conversation is text of the user's own company,
\* whichever company's request filled the cache for that query.
OwnCompanyOnly == \A r \in Requests : evidence[r] \subseteq {CompanyOf[r]}

\* Requests never wait for each other for ever: each one ends, although each
\* may hold a connection and wait for a second one.
EveryRequestEnds == \A r \in Requests : pc[r] = "waiting" ~> pc[r] \in Over

\* The steps that a tool call still may take, and those of all calls of a
\* request.
CallSteps(l) ==
  CASE l = "asked" -> 5 [] l = "lookup" -> 4 [] l = "connect" -> 3
    [] l = "search" -> 2 [] l = "fill" -> 1 [] OTHER -> 0

CallsLeft(r) ==
  Cardinality({p \in Calls \X (1..5) : p[2] <= CallSteps(call[r][p[1]])})

\* The rounds a request has left, those of the session included.
RoundsLeft(r) ==
  CASE pc[r] = "idle"            -> RecursionLimit + 4
    [] pc[r] = "waiting"         -> RecursionLimit + 3
    [] pc[r] \in {"agent", "tools"} -> RecursionLimit - steps[r] + 2
    [] pc[r] = "answered"        -> 1
    [] OTHER                     -> 0

StepsLeft(r) == RoundsLeft(r) * (5 * Cardinality(Calls) + 1) + CallsLeft(r)

\* A request does a bounded amount of work: whatever the model asks for and
\* however the calls of a message, other requests and failures interleave,
\* every step it takes leaves it fewer to take, and never less than none.
BoundedRun ==
  [][\A r \in Requests :
       pc'[r] # pc[r] \/ call'[r] # call[r] \/ steps'[r] # steps[r] =>
         StepsLeft(r)' \in 0..(StepsLeft(r) - 1)]_vars

\* What the API documentation says of a stream: what is persisted at its end
\* is a message of the assistant.
PersistsAssistantMessage ==
  \A r \in Requests :
    mode[r] = "stream" /\ pc[r] = "done" => answer[r] = "model"
=============================================================================
