----------------------------- MODULE ChatTurns -----------------------------
(***************************************************************************)
(* A chat request from the guard to the reply: POST /v1/chat/invoke and    *)
(* /v1/chat/stream.  The idempotency key is read before the agent runs and *)
(* written after the turn is committed; conversations are scoped to their  *)
(* user and company; turns are listed by created_at, which PostgreSQL      *)
(* takes from the start of the transaction that inserts them.              *)
(*                                                                         *)
(* A conversation is known by the request that created it and a turn by    *)
(* the request that persisted it.  The agent itself is AgentLoop, the      *)
(* counter behind a 429 RateLimiter, the list caches ReadCache.            *)
(***************************************************************************)
EXTENDS Naturals, FiniteSets

CONSTANTS
  Requests,   \* the chat requests
  Users,
  UserOf,     \* the user who sends a request
  Keys,       \* the values of X-Idempotency-Key
  KeyOf,      \* the key of a request, or None
  ModeOf,     \* the endpoint a request is sent to: "invoke" or "stream"
  Companies,
  Home,       \* the company of a user at the start
  Movers,     \* bound on the moves: the users who change company, once each
  MaxRunning, \* bound on the requests that run at the same time
  Faults,     \* the kinds of failure that may occur
  None

FaultKinds == {"database", "redis", "agent", "disconnect"}

ASSUME ChatAssumption ==
  /\ UserOf \in [Requests -> Users] /\ KeyOf \in [Requests -> Keys \cup {None}]
  /\ ModeOf \in [Requests -> {"invoke", "stream"}]
  /\ Home \in [Users -> Companies] /\ Movers \subseteq Users
  /\ Faults \subseteq FaultKinds
  /\ None \notin Requests \cup Users \cup Companies
  /\ None \notin [user : Users, company : Companies]

VARIABLES
  companies, \* the companies that have a row
  company,  \* company_id of a user's row; None: the row is gone
  conv,     \* the row of a conversation: its user and its company, or None
  turns,    \* the message rows of a conversation
  older,    \* the transactions whose created_at is before that of a request's
  idem,     \* the Redis entry idem:chat:<user>:<key>: a turn, or None
  pc,       \* where a request is
  scope,    \* the company of its user when the guard loaded the row
  asked,    \* the conversation_id it was sent with
  thread,   \* its conversation
  hit,      \* the turn that the idempotency key answered with
  history,  \* the turns given to the agent, in the order of Precedes
  stored,   \* the requests whose turn was committed (history)
  earlier,  \* those that were over when a request came (history)
  overlap,  \* the retries that were running when it read its key (history)
  lapsed    \* those whose key was not read, not kept, or expired (history)

staffVars == <<companies, company>>
rowVars == <<staffVars, conv, turns>>
localVars == <<asked, thread, hit>>
runVars == <<scope, history, earlier, overlap>>
vars == <<rowVars, older, idem, pc, localVars, runVars, stored, lapsed>>

Init ==
  /\ companies = Companies
  /\ company = Home
  /\ conv = [c \in Requests |-> None]
  /\ turns = [c \in Requests |-> {}]
  /\ older = [r \in Requests |-> {}]
  /\ idem = [k \in Users \X Keys |-> None]
  /\ pc = [r \in Requests |-> "idle"]
  /\ scope = [r \in Requests |-> None]
  /\ asked = [r \in Requests |-> None]
  /\ thread = [r \in Requests |-> None]
  /\ hit = [r \in Requests |-> None]
  /\ history = [r \in Requests |-> {}]
  /\ stored = {}
  /\ earlier = [r \in Requests |-> {}]
  /\ overlap = [r \in Requests |-> {}]
  /\ lapsed = {}

Running(r) == pc[r] \notin {"idle", "over"}

SameKey(r, x) == UserOf[r] = UserOf[x] /\ KeyOf[r] = KeyOf[x] /\ KeyOf[r] # None

At(r, l) == pc' = [pc EXCEPT ![r] = l]

Goto(r, l) == At(r, l) /\ UNCHANGED <<localVars, older>>

ClearLocals(r) ==
  /\ asked' = [asked EXCEPT ![r] = None]
  /\ thread' = [thread EXCEPT ![r] = None]
  /\ hit' = [hit EXCEPT ![r] = None]

\* The handler is gone and its turn remains.
Leave(r) == At(r, "over") /\ ClearLocals(r) /\ UNCHANGED <<runVars, older>>

\* The handler is gone and its transaction has added nothing.
Abandon(r) ==
  /\ At(r, "over")
  /\ ClearLocals(r)
  /\ scope' = [scope EXCEPT ![r] = None]
  /\ history' = [history EXCEPT ![r] = {}]
  /\ earlier' = [earlier EXCEPT ![r] = {}]
  /\ overlap' = [overlap EXCEPT ![r] = {}]
  /\ older' = [x \in Requests |-> IF x = r THEN {} ELSE older[x] \ {r}]
  /\ lapsed' = lapsed \ {r}

IdemKey(r) == <<UserOf[r], KeyOf[r]>>

\* The requests whose transactions are open or have added a turn.
Listed == {r \in Requests : Running(r) \/ r \in stored}

\* Mutant of BeginTransaction: a new transaction keeps the timestamp of the
\* one before for those who have come since.
BeginTransaction_Twice(r) == older' = [older EXCEPT ![r] = Listed \ {r}]

\* A transaction takes the timestamp of its first statement.
BeginTransaction(r) ==
  older' = [x \in Requests |-> IF x = r THEN Listed \ {r} ELSE older[x] \ {r}]

\* Mutant of Precedes: ORDER BY created_at DESC.
Precedes_NewestFirst(x, r) == r \in older[x]

\* ORDER BY created_at, in histories and listings.
Precedes(x, r) == x \in older[r]

-----------------------------------------------------------------------------
(* Administration, as far as conversations see it: each request in one      *)
(* step, the races within one are Tenancy's                                 *)

\* Foreign keys cascade from conversations to their messages.
Cascade(gone) ==
  /\ conv' = [c \in Requests |-> IF c \in gone THEN None ELSE conv[c]]
  /\ turns' = [c \in Requests |-> IF c \in gone THEN {} ELSE turns[c]]
  /\ UNCHANGED <<older, idem, pc, localVars, runVars, stored, lapsed>>

ConversationsOf(u) == {c \in Requests : conv[c] # None /\ conv[c].user = u}

\* A user's deletion takes the conversations of the user along.
DeleteUser(u) ==
  /\ company[u] # None
  /\ company' = [company EXCEPT ![u] = None]
  /\ Cascade(ConversationsOf(u))
  /\ UNCHANGED companies

\* Mutant of ConversationsIn: only those of the users who are members now.
ConversationsIn_Members(k) ==
  {c \in Requests : conv[c] # None /\ company[conv[c].user] = k}

\* The conversations a company's row takes along: its own, also those of
\* users who have moved away, and its members' own.
ConversationsIn(k) ==
  {c \in Requests :
     conv[c] # None /\ (conv[c].company = k \/ company[conv[c].user] = k)}

\* DELETE /v1/companies/{id}: the company goes with its members.
DeleteCompany(k) ==
  /\ k \in companies
  /\ companies' = companies \ {k}
  /\ company' = [u \in Users |-> IF company[u] = k THEN None ELSE company[u]]
  /\ Cascade(ConversationsIn(k))

\* PUT /v1/users/{id} by a super admin: conversations stay as they are.
MoveUser(u, c) ==
  /\ u \in Movers /\ company[u] = Home[u]
  /\ c \in companies \ {Home[u]}
  /\ company' = [company EXCEPT ![u] = c]
  /\ UNCHANGED <<companies, conv, turns, older, idem, pc, localVars, runVars,
                 stored, lapsed>>

-----------------------------------------------------------------------------
(* _prepare_chat_invoke_context *)

\* The guard loads the user; the client names a conversation or none.
Guard(r, c) ==
  /\ pc[r] = "idle"
  /\ Cardinality({x \in Requests : Running(x)}) < MaxRunning
  /\ company[UserOf[r]] # None
  /\ c # None => conv[c] # None
  /\ scope' = [scope EXCEPT ![r] = company[UserOf[r]]]
  /\ asked' = [asked EXCEPT ![r] = c]
  /\ earlier' = [earlier EXCEPT ![r] = {x \in stored : ~Running(x)}]
  /\ BeginTransaction(r)
  /\ At(r, "key")
  /\ UNCHANGED <<rowVars, idem, thread, hit, history, overlap, stored,
                 lapsed>>

Throttled(r) ==
  /\ pc[r] = "key"
  /\ Abandon(r)
  /\ UNCHANGED <<rowVars, idem, stored>>

ReadKey(r) ==
  /\ pc[r] = "key"
  /\ \/ /\ hit' = [hit EXCEPT ![r] =
              IF KeyOf[r] = None THEN None ELSE idem[IdemKey(r)]]
        /\ UNCHANGED lapsed
     \/ /\ "redis" \in Faults
        /\ lapsed' = lapsed \cup {r}
        /\ UNCHANGED hit
  /\ overlap' = [overlap EXCEPT ![r] =
       {x \in Requests \ {r} : Running(x) /\ SameKey(r, x)}]
  /\ At(r, "scope")
  /\ UNCHANGED <<rowVars, older, idem, asked, thread, scope, history, earlier,
                 stored>>

\* Mutant of InScope: the company is not compared.
InScope_UserOnly(r, c) == conv[c] # None /\ conv[c].user = UserOf[r]

\* Mutant of InScope: the conversation is looked up by its id alone.
InScope_IdOnly(r, c) == conv[c] # None

InScope(r, c) == conv[c] = [user |-> UserOf[r], company |-> scope[r]]

FindConversation(r) ==
  /\ pc[r] = "scope"
  /\ asked[r] # None
  /\ InScope(r, asked[r])
  /\ thread' = [thread EXCEPT ![r] = asked[r]]
  /\ At(r, "history")
  /\ UNCHANGED <<rowVars, older, idem, asked, hit, runVars, stored, lapsed>>

\* It is not there for this user: 404.
ConversationNotFound(r) ==
  /\ pc[r] = "scope"
  /\ asked[r] # None
  /\ ~InScope(r, asked[r])
  /\ Abandon(r)
  /\ UNCHANGED <<rowVars, idem, stored>>

\* The foreign keys of a conversation.
CanOpen(r) == company[UserOf[r]] # None /\ scope[r] \in companies

\* A new conversation is committed, also for a replay; the next statement
\* begins a new transaction.
NewConversation(r) ==
  /\ pc[r] = "scope"
  /\ asked[r] = None
  /\ CanOpen(r)
  /\ conv' = [conv EXCEPT ![r] = [user |-> UserOf[r], company |-> scope[r]]]
  /\ thread' = [thread EXCEPT ![r] = r]
  /\ BeginTransaction(r)
  /\ At(r, "history")
  /\ UNCHANGED <<staffVars, turns, idem, asked, hit, runVars, stored, lapsed>>

\* The user or the company is gone, or the database fails: 500.
NewConversationFails(r) ==
  /\ pc[r] = "scope"
  /\ asked[r] = None
  /\ ~CanOpen(r) \/ "database" \in Faults
  /\ Abandon(r)
  /\ UNCHANGED <<rowVars, idem, stored>>

\* Mutant of Replays: the stream does not look at the cached response.
Replays_InvokeOnly(r) == hit[r] # None /\ ModeOf[r] = "invoke"

Replays(r) == hit[r] # None

ReadHistory(r) ==
  /\ pc[r] = "history"
  /\ history' = [history EXCEPT ![r] = turns[thread[r]]]
  /\ Goto(r, IF Replays(r) THEN "replay" ELSE "agent")
  /\ UNCHANGED <<rowVars, idem, scope, earlier, overlap, stored, lapsed>>

-----------------------------------------------------------------------------
(* invoke_agent, _stream_agent_events *)

Replay(r) ==
  /\ pc[r] = "replay"
  /\ Abandon(r)
  /\ UNCHANGED <<rowVars, idem, stored>>

AgentAnswers(r) ==
  /\ pc[r] = "agent"
  /\ Goto(r, "answered")
  /\ UNCHANGED <<rowVars, idem, runVars, stored, lapsed>>

\* It does not converge, fails, or says nothing: an error, and the
\* conversation stays.
AgentFails(r) ==
  /\ "agent" \in Faults
  /\ pc[r] = "agent"
  /\ Abandon(r)
  /\ UNCHANGED <<rowVars, idem, stored>>

\* Mutant of CanPersist: messages have no foreign key.
CanPersist_NoForeignKey(r) == TRUE

CanPersist(r) == conv[thread[r]] # None

\* Mutant of Persist: an error of the database is logged and passed over.
Persist_Swallows(r) ==
  /\ pc[r] = "answered"
  /\ \/ /\ CanPersist(r)
        /\ turns' = [turns EXCEPT ![thread[r]] = @ \cup {r}]
        /\ stored' = stored \cup {r}
     \/ "database" \in Faults /\ UNCHANGED <<turns, stored>>
  /\ Goto(r, "store")
  /\ UNCHANGED <<staffVars, conv, idem, runVars, lapsed>>

\* _persist_chat_turn
Persist(r) ==
  /\ pc[r] = "answered"
  /\ CanPersist(r)
  /\ turns' = [turns EXCEPT ![thread[r]] = @ \cup {r}]
  /\ stored' = stored \cup {r}
  /\ Goto(r, "store")
  /\ UNCHANGED <<staffVars, conv, idem, runVars, lapsed>>

\* The conversation is gone or the database fails: 500, or a stream that
\* stops without a terminal event.
PersistFails(r) ==
  /\ pc[r] = "answered"
  /\ ~CanPersist(r) \/ "database" \in Faults
  /\ Abandon(r)
  /\ UNCHANGED <<rowVars, idem, stored>>

StoreKey(r) ==
  /\ pc[r] = "store"
  /\ \/ /\ KeyOf[r] # None
        /\ idem' = [idem EXCEPT ![IdemKey(r)] = r]
        /\ UNCHANGED lapsed
     \/ /\ KeyOf[r] = None \/ "redis" \in Faults
        /\ lapsed' = lapsed \cup {r}
        /\ UNCHANGED idem
  /\ Goto(r, "reply")
  /\ UNCHANGED <<rowVars, runVars, stored>>

Reply(r) ==
  /\ pc[r] = "reply"
  /\ Leave(r)
  /\ UNCHANGED <<rowVars, idem, stored, lapsed>>

\* The client of a stream is gone: the handler is cancelled at any await.
Disconnect(r) ==
  /\ "disconnect" \in Faults
  /\ ModeOf[r] = "stream"
  /\ \/ pc[r] \in {"agent", "answered"} /\ Abandon(r)
     \/ pc[r] = "store" /\ Leave(r) /\ lapsed' = lapsed \cup {r}
     \/ pc[r] = "reply" /\ Leave(r) /\ UNCHANGED lapsed
  /\ UNCHANGED <<rowVars, idem, stored>>

\* The lifetime of a key ends.
KeyExpires(k) ==
  /\ idem[k] # None
  /\ idem' = [idem EXCEPT ![k] = None]
  /\ lapsed' = lapsed \cup {r \in stored : IdemKey(r) = k}
  /\ UNCHANGED <<rowVars, older, pc, localVars, runVars, stored>>

RequestStep(r) ==
  \/ Throttled(r) \/ ReadKey(r)
  \/ FindConversation(r) \/ ConversationNotFound(r)
  \/ NewConversation(r) \/ NewConversationFails(r)
  \/ ReadHistory(r) \/ Replay(r) \/ AgentAnswers(r) \/ AgentFails(r)
  \/ Persist(r) \/ PersistFails(r) \/ StoreKey(r) \/ Reply(r) \/ Disconnect(r)

Next ==
  \/ \E u \in Users : DeleteUser(u) \/ \E c \in Companies : MoveUser(u, c)
  \/ \E k \in Companies : DeleteCompany(k)
  \/ \E r \in Requests, c \in Requests \cup {None} : Guard(r, c)
  \/ \E r \in Requests : RequestStep(r)
  \/ \E k \in Users \X Keys : KeyExpires(k)

Spec == Init /\ [][Next]_vars

-----------------------------------------------------------------------------
(* Properties *)

\* Every variable has its type, and the transactions are totally ordered.
TypeOK ==
  /\ companies \subseteq Companies
  /\ company \in [Users -> companies \cup {None}]
  /\ conv \in [Requests -> [user : Users, company : Companies] \cup {None}]
  /\ turns \in [Requests -> SUBSET Requests]
  /\ older \in [Requests -> SUBSET Requests]
  /\ idem \in [Users \X Keys -> Requests \cup {None}]
  /\ pc \in [Requests -> {"idle", "key", "scope", "history", "replay", "agent",
                          "answered", "store", "reply", "over"}]
  /\ scope \in [Requests -> Companies \cup {None}]
  /\ asked \in [Requests -> Requests \cup {None}]
  /\ thread \in [Requests -> Requests \cup {None}]
  /\ hit \in [Requests -> Requests \cup {None}]
  /\ \A r \in Requests : history[r] \cup overlap[r] \cup earlier[r] \subseteq Requests
  /\ stored \cup lapsed \subseteq Requests
  /\ \A r \in Requests : older[r] \subseteq Listed \ {r}
  /\ \A r, x \in Listed : r # x => (x \in older[r] <=> r \notin older[x])

\* A retry with the same key adds no second turn, unless it was sent while
\* the first attempt was still running, or Redis had not kept the key.
RetryAddsNoTurn ==
  \A r, x \in stored :
    SameKey(r, x) /\ r # x =>
      r \in overlap[x] \/ x \in overlap[r] \/ {r, x} \cap lapsed # {}

\* The turn that a request is about to answer with.
Answer(r) == IF pc[r] = "replay" THEN hit[r]
             ELSE IF pc[r] = "reply" THEN r ELSE None

\* An answer is a turn that was committed before; a replayed one was committed
\* for the same user and under the same key.
AnswerIsOwnStoredTurn ==
  \A r \in Requests :
    Answer(r) # None =>
      Answer(r) \in stored /\ (Answer(r) = r \/ SameKey(r, Answer(r)))

\* Turns sent one after the other are listed in that order, and the agent has
\* seen the earlier one when it answers the later one.
OrderedTurns ==
  \A c \in Requests : \A r, x \in turns[c] :
    x \in earlier[r] => x \in history[r] /\ Precedes(x, r)

\* The agent is given turns of the same user only, all of them answered within
\* the same company, although a user may change the company between two turns.
OwnHistory ==
  \A r \in Requests : \A x \in history[r] :
    UserOf[x] = UserOf[r] /\ scope[x] = scope[r]

\* No conversation and no turn outlives its user or its company, whatever was
\* running when they were deleted, also when the user had moved away before.
DeletedUserLeavesNothing ==
  \A c \in Requests :
    /\ turns[c] # {} => conv[c] # None
    /\ conv[c] # None =>
         company[conv[c].user] # None /\ conv[c].company \in companies

Stored == INSTANCE Transcripts

\* However requests, retries, moves and deletions, disconnects and failures
\* interleave, each request acts on the stored conversations like one
\* step: it may open one and may add its turn once, to a conversation of its
\* user that nobody has removed since the request looked it up.
TranscriptsImplemented == Stored!TranscriptsSpec
=============================================================================
