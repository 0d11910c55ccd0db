# Formal model of agentic-rag-api

TLA+ specifications, TLC configurations and TLAPS proofs for the multi-tenant
document chat service in this repository. `src/...` below are paths of the
repository; `PROJECT.json` maps every definition to the lines it models.

## 1. The system

Companies' admins upload PDFs; a Celery worker turns each into text chunks with
embeddings; employees ask questions that a LangGraph agent answers from the
chunks of their own company. The processes are the API (FastAPI, one event
loop, many requests in flight), the workers (several processes, `--pool=prefork`
in production), PostgreSQL, Redis (broker, caches, counters) and the storage
(a directory or S3).

| Component | State it keeps | Operations | What is hard |
|---|---|---|---|
| document upload, deletion (`documents_service.py`) | rows `documents`, `document_chunks`; stored files | upload, delete, list, get | row, file and message are written one after the other with nothing to tie them; deletion races the upload and the worker |
| ingestion worker (`worker/tasks.py`) | `documents.status`, chunks, temporary downloads | `process_pdf_task` | retries, crashes, redelivery; which failure is inside the `try`; a commit followed by more work that may fail |
| task queue (`celery_app.py`, Redis) | waiting and unacknowledged messages | publish, deliver, acknowledge, redeliver | at-least-once delivery, late acknowledgement |
| storage (`storage/*.py`) | files by reference | upload, download, delete | references are built from company, file name and second; downloads drop the company |
| companies, users (`companies_service.py`, `users_service.py`) | rows, role, company of a user | CRUD with role checks | cascades, checks made before the commit, roles read once per request |
| token sessions (`auth_service.py`, `dependencies.py`) | `token_sessions`, a Redis cache in front | login, logout, guard of every request | the cache is refilled by a guard that read before a logout |
| rate limiter (`runtime_controls.py`) | Redis counters with a lifetime | INCR then EXPIRE | two commands, fails open |
| chat turns (`chat_service.py`) | conversations, messages, idempotency entries | invoke, stream, list | retried requests that overlap, failing agents, disconnecting clients |
| read caches (`runtime_controls.py`) | Redis entries with a lifetime | get, fill, delete by prefix | a fill that overtakes an invalidation |
| agent and search (`agent/`) | message list, search counters, a vector cache | model, tool, loop | termination, a second database connection per request |
| extraction (`worker/tasks.py`) | none | PDF to text, tables, OCR | which fallback is taken |

Interactions: the upload handler commits the row, stores the file and publishes
the task; the worker reads the file, commits chunks and status together and
deletes the file; the delete handler removes the row (the foreign key removes
the chunks) and then the file; a company's deletion cascades to its documents.
The database is the only thing they share besides storage and queue: no lock is
held across steps.

What makes each part correct:

* ingestion: no document is forgotten; it is ingested a bounded number of times,
  once if nothing is delivered twice; its file is there until it has been
  ingested and gone afterwards; a deleted document stays deleted; its chunks
  come from its own company.
* token sessions: a token logs in only the user it was issued to; after a logout
  it is refused, at the latest when its cache entry has expired.
* rate limiter: at most N requests per window, and a client that waits is let in.
* chat turns: one turn per idempotency key; turns of a conversation in order;
  users see only their own conversations.
* tenancy: only a super admin acts outside their company; every admin has one.
* read caches: what is served is at most one lifetime old.
* agent: it ends, and searches only its own company.

## 2. Modules

| Module | What it is |
|---|---|
| `Ingestion` | upload, deletion, company deletion, storage, queue and workers |
| `DocumentLifecycle` | what the API promises of a document: the diagram of `ProcessingStatus` with one ingestion |
| `RateLimiter` | the counters behind a 429: INCR and EXPIRE as two commands |
| `TokenSessions` | login, logout, the guard of every request and its Redis cache; extends `RateLimiter` |
| `TokenGrants` | what login, logout and the guard promise of a token: one decision per request |
| `Tenancy` | users, roles and companies: every check apart from the commit it is made for |
| `StaffDirectory` | what the endpoints of users and companies promise: every request one step on consistent rows |
| `ChatTurns` | a chat request from the guard to the reply: idempotency key, conversation, history, turn |
| `Transcripts` | what the chat endpoints promise of the stored conversations: a request opens one or adds one turn |
| `AgentLoop` | one request through the graph: model, tools, vector cache, connection pool, collected answer |
| `ReadCache` | the read-through caches of documents, searches, conversations and messages |
| `MC...` | instances for TLC |
| `IngestionProofs`, `LifecycleProofs`, `DeliveryProofs`, `SessionProofs`, `TenancyProofs`, `AgentProofs`, `ChatProofs`, `CacheProofs` | theorems about these modules |

Mutated operators (`X_Something`, "Mutant of X") stand next to what they mutate:
plausible bugs that a run must notice. They are not part of any specification.

The modules meet where the code does. `TokenSessions` uses the counters of
`RateLimiter` for its login handlers. `ChatTurns` takes from `AgentLoop` that the
agent answers or fails, from `RateLimiter` that a request may be refused, and
from `Tenancy` that users move and disappear. `ReadCache` takes from `Ingestion`
and `ChatTurns` which commits are followed by an invalidation. They are checked
one by one, as their product is out of reach; what one takes from another is a
nondeterministic choice with at least the outcomes the other has.

### Ingestion

An action is everything a handler does up to its next effect that another
process can see: a commit, a storage call, a publish. The state is

* `status`, `passes`, `indexed`: a document's row (`"NO_ROW"` without one), how
  many ingestions have stored their chunks, and whose text these hold;
* `files`, `temp`: whose bytes are under a storage reference and under a
  temporary file name; `Ref(d)` is the company and the file name,
  `TempPath(d)` the file name alone, as in `s3.py`;
* `queue`: a bag of messages `[doc, retries]`;
* `upload`, `deletion`: where the two request handlers are;
* `pc`, `task`, `seen`, `content`, `local`: where a worker is, its
  unacknowledged message, the status its session last loaded, what it extracted
  and whether it has assigned `local_path`.

`upload_document` is `InsertRow`, `StoreFile` or `StoreFails`, then `Dispatch`
or `RollbackRow`; `UploadStops` ends it anywhere with a 500 or a dead process.
`delete_document` is `DeleteRow`, then `DeleteFile` or `DeleteFileFails`; the row may
have vanished between its lookup and the commit, and the file is deleted all
the same.
`process_pdf_task` is `Receive` (lookup), `Begin` (PROCESSING), `Download`,
`Extract`, `CommitIngestion`, `Cleanup` (the reload of the row, which may have
vanished since, and the deletion of the file), `Finish` (the `finally` block and the
acknowledgement); from any step of the `try` block an exception leads to
`HandleRetry` and `Republish` or to `HandleFailed`. `Crash` puts the message
back, `Redeliver` makes a second copy while the worker is still busy.

`seen` is there because SQLAlchemy writes a column only when it differs from
the value loaded: a worker that reloaded the row as COMPLETED before it
embedded does not write the status when it commits.

Failures of the environment are switched on by name in `Faults`:

| Fault | Effect |
|---|---|
| `worker_crash`, `redelivery` | `Crash`, `Redeliver`; together at most `MaxFaults` times |
| `put_error`, `delete_error` | a storage call raises; a failed upload may leave the file |
| `db_error` | lookup, first commit, recording of a failure, reload after the commit; of an upload the reload of the committed row and the rollback |
| `broker_down` | the dispatch raises; a retry that cannot be published is rejected |
| `api_stop` | the API process ends between two steps of a request |

Extraction, embedding and the commit of an ingestion may always raise.

Abstractions: the content of a file is the upload it came from; the text of a
document without extractable text counts as ingested, as in the code; one
deletion request per document; a commit either happens or raises (a commit whose
answer is lost is not modelled); messages are delivered in any order and the
retry countdown is any delay; the update of `finally` and the acknowledgement
are one step. The caches that handlers invalidate are left to `ReadCache`.

### RateLimiter and TokenSessions

`hits`, `lifetime`, `age`, `lost` are a counter: its value, the ticks until Redis
drops it, the ticks since it was created, and whether its EXPIRE was lost.
`rate_limit_exceeded` is `Incr`, then `Expire` when the counter was new; an error
or a dead process in between is `Forget`, an error of Redis lets the request
through (`LoginUncounted`).

A token has its row (`owner`, `session`), its rest of validity (`life`), its cache
entry (`cached`, `cacheLeft`). The guard `get_current_user` is `GuardUser` (decode
the token, find the user by name), `CacheHit` or `CacheMiss`, `RowRead` or
`RowRefused`, `Fill` or `FillFails`, then `Serve` or, for a logout,
`LogoutCommit` and `LogoutUncache`. `Tick` ages everything; a request lasts at most
`MaxDelay` ticks in all, and so does an attempt from its INCR to its EXPIRE. The
floor of one second under a cache lifetime (`dependencies.py:80`) is less than a
tick and is left out: ticks are rounded up. A user who is deleted may be created
again under the same name with a new id. Left out: password hashing, bulk
revocation listings, the fields of a profile.

`TokenGrants` is the abstract specification, without cache and counters: a token
is issued once (`Issue`), a request comes with it (`Arrive`), is admitted in one step
(`Admit`) or not, may close the token (`Close`) and leaves (`Depart`). The one parameter
is `Grace`, the ticks that a closed token may still admit requests:
`CacheTTL + MaxDelay`. `GrantsImplemented` maps `closedFor` to what is left of the
grace and the labels of a request to whether it was let in. The expiry is
looked at on arrival and revocation on admission, as the guard does; a cached
token of a deleted user may let in a request that had found the user before.

### Tenancy

`user` and `company` are rows, `spent` the ids that were used. A handler goes
from `Guard` (the actor as loaded: `actor`, `actorRow`) through one label per
check to one commit: `create_user` is `CreateCheckName`, `CheckCompany`,
`InsertUser`; `update_user` is `UpdateLoad`, perhaps `CheckCompany`,
`UpdateCommit`; `delete_user` is `DeleteLoad`, `DeleteCommit`; `create_company` is
`CreateCompanyCheck`, `InsertCompany`; `delete_company` loads the members and
commits (`DeleteCompanyLoad`, `DeleteCompanyCommit`). `Refuse` ends a handler at
any label, for a failing check, constraint or commit. The unique indexes, the
foreign key with SET NULL and the CHECK of migration 0002 are guards of the
commits. An UPDATE writes the columns that differ from the loaded values
(`Written`), and the session keeps the actor's row as the guard loaded it
(`SessionRow`). Passwords and the descriptive fields of a company are left out.

`StaffDirectory` is the abstract specification, on the same rows without
handlers: `Hire`, `Change`, `Dismiss`, `Bootstrap`, `Found`, `Rename` and
`Dissolve`. Every commit of `Tenancy` is one of them, whatever has
committed since the request's checks (`DirectoryImplemented`). `Dissolve` says how
little a company's deletion promises: it removes any users it had loaded, also
one who was moved away meanwhile, and leaves a member it had not loaded without a
company; what it may not do is to remove a super admin.

### ChatTurns

A conversation is known by the request that created it, a turn by the request
that persisted it. `invoke` and `stream` are `Guard`, `ReadKey` (or `Throttled`),
`FindConversation`, `ConversationNotFound` or `NewConversation`, `ReadHistory`,
then `Replay` or `AgentAnswers`, `Persist`, `StoreKey`, `Reply`. `older` is the
order in which transactions began (`BeginTransaction`), which `created_at` follows;
histories and listings are sorted by it (`Precedes`), so they are sets here.
`Disconnect` cancels a stream at any await. Deletions cascade over the foreign keys
(`Cascade`): a user takes its conversations along, a company those of its members
and its own, which users who have moved away may still own (`ConversationsIn`).
A request of the administration is one step here, its own races are in `Tenancy`;
`Movers` bounds the moves: each of these users moves once, which leaves
conversations of two companies to one user, and a second move adds no other
kind of history. `lapsed`, `overlap`, `earlier` and
`stored` are history for the properties. The text of a turn, titles and token
events are left out. A request is sent once; a retry is another request with the
same user and key.

`Transcripts` is the abstract specification, on the rows alone: a request opens a
conversation (`Open`) or adds its turn (`Add`), administration moves or removes a
user (`Move`, `Remove`) or closes a company (`Close`). Everything else a request does, the failures included,
leaves the rows as they are (`TranscriptsImplemented`).

### AgentLoop

`call_model` is `AskTools`, `AgentAnswers` or `AgentFails`; `tool_node` runs the calls of
one message concurrently (`CallStep`, one step per await of `search_documents`)
and `ToolsEnd` hands their messages over. `free` counts the connections of the
pool: a request keeps one from `Admit` to `End`, and each search takes a second
one (`Connect`, `ConnectTimesOut`). What `_event_to_sse` and
`_stream_agent_events` collect is `streamed` and `final`, and `answer` the origin
of the text that is persisted. Texts are known by the company they are from;
what the model says and asks is free.

### ReadCache

An entry holds the ticks it has left and, as bookkeeping, the changed rows it
does not show (`stale`), since when, and those whose staleness the design accepts
(`excused`). A reader is `Hit`, or `Miss`, `Read`, `Set`; a writer is `Commit`, then per
prefix `Scan` and `Delete`. `DeleteFails`, `SetFails` and `Miss` with an entry are Redis
errors, `WriterStops` a dead process; `QuietCommit` is a commit after which the
code deletes nothing. A key is a family and a row or an owner; the pages of a
list (limit, offset) are one entry.

Users and documents keep their company in this module. A document's never
changes, so that the company in a cached payload is that of the document; the
company in the key of a conversation list is a constant and left out. That a
user who has moved finds the former company's conversations no more
(`chat_service.py:82`), and that a document that is gone is answered with a 404
and not cached, is left out as well: both only let readers do more than in the
code, and every property holds all the same.

## 3. Runs

| Run | Instance | Shows |
|---|---|---|
| `ingest_faults` | 1 document, 2 workers, local storage, 1 retry, 2 crashes or redeliveries, storage errors | no document is stranded, no source file is lost, at most (retries+1)*(1+faults) ingestions, every step lowers the work a document has left, every document settles |
| `ingest_outages` | 2 companies, equal file names, 2 workers, local storage, 1 retry; database, broker, API and storage fail | types; tenants stay apart; deleted documents stay deleted |
| `ingest_lifecycle` | 2 documents with names of their own, 2 workers, S3, 1 retry; failing uploads, dispatches and API | the lifecycle is implemented; file and download are removed |
| `ingest_shared_tmp` | as above with equal file names, no retry, no fault | violates `TenantIsolation`: finding 1 |
| `ingest_broker_down` | 1 document, broker down | violates `PendingIsQueued`: finding 2 |
| `ingest_delete_error` | 1 document, failing storage deletion | violates `CompletedIsFinal`: finding 3 |
| `sessions` | 2 users of one name, 1 token, 2 login attempts and 2 requests at a time; window 2, cache 2, token 3, delay 1 tick, limit 1; Redis errors, dying API | a token serves its owner; a logout takes hold in time; entries end with the token; counters end, also of attempts that overlap; `TokenGrants` is implemented |
| `tenancy` | 3 users (one from the bootstrap), 2 companies, 2 overlapping requests of every kind | names unique; super admins outside companies; companies exist; who may move whom; which races leave a user without a company; `StaffDirectory` is implemented |
| `chat_retries` | a stream, its retry, an invoke of another user with the same key; 2 run at a time; moves of the first user, deletions of users and companies; every failure | retries add no turn; answers are committed turns of the user; turns ordered; histories in scope; nothing outlives its user or its company; `Transcripts` is implemented |
| `agent_pool` | 2 requests of 2 companies, 2 calls of 1 query each, pool of 2, recursion limit 4; every failure | connections are accounted for; one search per query; evidence of the own company; every step of a request leaves it fewer to take; every request ends |
| `agent_raw_answer` | the same without faults | violates `PersistsAssistantMessage`: finding 4 |
| `read_cache` | the list of all documents, one document, one conversation's messages; 2 readers (an admin of another company, a super admin), 1 writer; lifetime 2, delay 1; Redis errors, dying writer | staleness is bounded and explained; shared entries stay in scope. One key of three families each; the theorems are about all seven |

Bounds of ingestion. One retry instead of three: the code treats all retries but
the last alike, so one retry and one last attempt are the two cases. Two workers:
a message and its copy, or two documents on one host. Two crashes or redeliveries
give a copy of a copy, and a crash on each side of a republished message. The
bound of `BoundedIngestion` is attained in this instance. Two documents suffice
where documents meet (file names, temporary directory, workers); a single one
where they do not, which leaves room for more faults.

Bounds of the rest. Races are between two handlers, so two run at a time. Ticks
count lifetimes: 2 for a cache entry, 3 for a token and 1 for a delay are the
smallest that keep apart "before", "at" and "after" the end of an entry, and an
entry that ends before from one that ends after its token; the bounds
`CacheTTL + MaxDelay` and `TTL + MaxDelay` are attained. Two users of one name are
what it takes to confuse them. One user besides the two of a race is the actor
that both may have. A pool of two, with two requests, is the smallest in which
all connections are held by requests that wait for a second one. A recursion
limit of 4 is two rounds of model and tools instead of four: the third repeats
the second. It is even, as in the code, so that it is reached at the model's
turn. New users of `tenancy` are admins and are demoted to employee, the roles that
create and move them are free, and an update that sets no column is left out. Symmetry is used where ids are
interchangeable (`tenancy`, `chat_retries`, `sessions`) and no liveness is checked there.
What does not depend on these sizes is proved for all of them (section 5).

Deadlock is not checked: a system whose requests are done has nothing left to do.

Fairness. `EventuallySettled`: an upload or deletion request that has started runs
on, because the event loop runs it, and a worker that has a message or an
instruction left executes it, because nothing it waits for is held by somebody
else. `EveryRequestEnds`: a request takes its next step, a wait for a connection
included, because the pool's timeout ends it. This takes for granted that every
call of the model and of the embedding returns or raises: the code gives
`ChatOllama` no timeout (`agent/graph.py`), and a model that hangs keeps its
request and the connection of it for ever. Nothing is assumed of
users and clients, of faults, or of which outcome a step has. Crashes and
redeliveries are bounded by `MaxFaults`; a worker that crashes for ever ingests
nothing in reality either. No other property needs fairness.

## 4. Findings

1. `get_local_path` of the S3 storage downloads to the temporary directory under
   the last component of the key. Two prefork workers that ingest equally named
   files of two companies, uploaded in the same second, overwrite each other's
   download: a company's chunks are built from another company's PDF.
2. The dispatch in `upload_document` is not guarded; when it raises, the document
   is PENDING and nothing is queued.
3. `storage.delete` after the COMPLETED commit is inside the `try` block: when
   it raises, the document returns to PENDING and is ingested again.
4. `_event_to_sse` treats the end of every graph node as the final message, that
   of the tools node included. A stream in which the model says nothing after a
   search persists the raw tool text as the assistant's answer.

Behaviour the models show and no property can hold through; none has a run of
its own:

* The comment of COMPLETED in `db/models/base.py:20`, "the file has been deleted from
  storage", is early: the status is committed first and the file deleted
  afterwards, the order that `docs/ARCHITECTURE.md:117-118` gives.
  `CompletedFileRemoved` excuses the worker that is in between.
* `docs/API_DOCS.md:595`, `docs/RUNBOOK.md:267` and `docs/ARCHITECTURE.md:139` say that a
  repeated search is blocked "after one repeat"; the code refuses the first
  repeat already (`OneSearchPerQuery`), the stricter of the two readings.
* A logout is not immediate. A guard that read the row before the logout fills
  the cache after it, and a failing deletion leaves the entry.
  `docs/API_DOCS.md:78` says "Subsequent requests with the same token will be
  rejected"; `LogoutTakesHold` is what remains true.
* A stop between INCR and EXPIRE leaves a counter that locks a name or an address
  out for good (`lost` in `CounterExpires`).
* Retries that overlap both run the agent and both add a turn (`overlap` in
  `RetryAddsNoTurn`); a replayed answer and a failing agent leave an empty
  conversation.
* The comment of `db/models/user.py:37-39` asks for a company of every admin and
  employee, and `docs/ARCHITECTURE.md:230-242` quotes a CHECK by which they "always
  belong to exactly one company"; migration 0002 only forbids one to super admins. A super admin who is
  demoted, and a user who joins a company while it is being deleted, are
  left without one (`OrphansOnlyByRace`). Two super admins may delete each other.
* A user who is moved out of a company while it is being deleted is deleted with
  it: the deletion goes by the ids that it loaded (`Dissolve`).
* The idempotency key is made of user and key only: a retry sent to another
  conversation, or with another query, is answered with the first turn.
* A change of status that the worker commits before the end (PROCESSING, a
  retry) invalidates nothing, although `docs/ARCHITECTURE.md:161` says "invalidate on
  upload, delete, and worker status transitions"; the lists show it when their
  lifetime ends (`QuietCommit`, excused in `StaleOnlyIfExcused`, but not in
  `BoundedStaleness`).
* Only the company in a path, or file names that differ, keep two companies apart. The runs that pass
  and `Isolation` have the one or the other; in the temporary directory of S3 the company is not, and
  the run of finding 1 is what shows it.

## 5. Proofs

`IngestionProofs` proves, for every number of documents, companies and workers,
every retry limit and every bound on faults:

| Theorem | Statement | Premise |
|---|---|---|
| `TypeCorrect` | `Spec => []TypeOK` | none |
| `NoStranding` | `Spec => []NoStrandedDocument` | no `db_error`, `broker_down`, `api_stop`: each of them really drops a document |
| `Isolation` | `Spec => []TenantIsolation` | local storage, or file names that determine the company; finding 1 is the rest |
| `DeletedForGood` | `Spec => DeletedStaysDeleted` | none |
| `SourceStays` | `Spec => []SourceKept` | no two uploads share a reference |
| `PendingStaysQueued` | `Spec => []PendingIsQueued` | as `NoStranding`; finding 2 is the rest |

* `NoStranding`. `HasOwner` is not inductive: a worker that is embedding and has
  loaded COMPLETED will not write the status, so it cannot answer for a document
  that another worker has set back to PENDING. `Accounted` does not count such a
  worker, and `RetriesLeft` says that what `Republish` publishes is a message.
  `OwnerInv` is their conjunction with `TypeOK`. A step of a worker is split
  into what it does to its own document (`OwnDocument`) and what it leaves alone
  (`OthersAnswer`).
* `Isolation`. `SourceInv` follows the bytes: a file has the reference of its
  upload, a download its file name, extracted content and chunks both as far as
  the storage keeps them.
* `PendingStaysQueued`. `OwnerInv` again: an owner of a PENDING document is one
  that `HasOwner` names, as the extra exclusion of `Accounted` is about other workers.
* `DeletedForGood`, `SourceStays`. `LifeInv` is the order of a document's life:
  nothing before its upload, a deletion under way has removed the row, a worker
  that cleans up has committed chunks. `FileKept` adds the file.

`LifecycleProofs` proves under the same generality what holds when faults are
limited; `Calm` means no `worker_crash`, `redelivery`, `delete_error` and
`db_error`, so that every message is delivered once:

| Theorem | Statement | Premise |
|---|---|---|
| `LifecycleHolds` | `Spec => LifecycleImplemented`: the pipeline implements `DocumentLifecycle` | `Calm` |
| `SourceRemoved` | `Spec => []CompletedFileRemoved` | `Calm`, no two uploads share a reference |
| `TempRemoved` | `Spec => []NoTempLeft` | no `worker_crash` |
| `CompletedStays` | `Spec => CompletedIsFinal` | `Calm`; finding 3 is the rest |

* `LifecycleHolds`. A document shows its status (`Phase`), or whether its upload has
  begun where it has no row. That no phase is skipped needs `CalmInv`: at most one
  of the upload request, a message and a worker is in charge of a document
  (`Claims`), its row says how far they are (`Rows`, `StatusAt`), and a worker has
  loaded that very status before it commits (`Loaded`). Then `Begin` finds
  PENDING, `CommitIngestion` finds PROCESSING and no chunks, and the error path finds
  PROCESSING, each unless the row is gone; every other step of a task stutters. A
  second delivery breaks `Claims`, a failing deletion after the commit breaks
  `Rows` (finding 3), and both break the lifecycle.
* `SourceRemoved`. With `CalmInv`, a document whose file is still to be stored is
  PENDING, so that nothing puts the file of a COMPLETED one back.
* `CompletedStays`. `Rows` says that who is in charge of a COMPLETED document has
  nothing left to do but to clean up, and that ends without an error.
* `TempRemoved`. A worker that has assigned `local_path` is not idle; the worker
  that removes a shared path removes it for all.

`DeliveryProofs` proves `IngestionsBounded`, `Spec => []BoundedIngestion`, and
`WorkRunsOut`, `Spec => BoundedWork` with what it rests on, both without a premise: every fault may occur, and any number of
workers may hold copies.

* The bound speaks of passes that are over; the invariant also counts those to
  come. `Tickets(d)` is a set with one element for each attempt that an upload,
  a message or a worker of `d` can still make, and `WithinAllowance` says that
  passes and tickets together are at most `(MaxTaskRetries + 1) * (1 + faults)`.
  `CommitIngestion` turns a ticket into a pass; `Dispatch`, `Receive` and
  `Republish` exchange tickets for as many (`Exchange`: a worker that
  takes a message takes over its attempts, a republished one has an attempt
  less); `Crash` and `Redeliver` copy a message, which makes at most
  `MaxTaskRetries + 1` new tickets and is one fault. Tickets are counted as the
  cardinality of a set, so no sum over messages and workers is needed.
* `WorkRunsOut` is the part of `EventuallySettled` that needs no fairness: no
  retry, redelivery or crash keeps a document busy for ever. `Work(d)` has a unit
  for each step that an upload, a message or a worker of `d` can still cause:
  `10 * (MaxTaskRetries + 1 - n)` for a message with `n` retries behind it, fewer the
  further its worker is. `WorkLeft(d)` adds, for each of the `MaxFaults - faults`
  faults to come, more than a copy of a message is worth, so that `Crash` and
  `Redeliver` lower it as well. Every step that touches the upload of `d`, its
  messages or the workers that hold them lowers it (`Moves`), no other step
  raises it, and it is never negative; at the start it is
  `10 * (MaxTaskRetries + 1) + 3` plus `10 * (MaxTaskRetries + 1) + 1` per fault,
  which bounds the steps of a document. `ingest_faults` checks the same on its
  instance. That a busy worker goes on is fairness,
  and stays with TLC.

`TenancyProofs`, `SessionProofs`, `AgentProofs`, `ChatProofs` and `CacheProofs`
prove, for any number of users, companies, handlers, tokens, requests, keys,
calls, readers and writers, and for any lifetimes and failures:

| Module | Theorem | Statement |
|---|---|---|
| `TenancyProofs` | `TypeCorrect` | `Spec => []TypeOK` |
| | `NamesUnique`, `SuperAdminsAlone`, `CompaniesExist`, `OrphansByRace` | `Spec => []UniqueNames`, `[]SuperAdminStandsAlone`, `[]CompanyExists`, `[]OrphansOnlyByRace` |
| | `MovesAreSuperAdmins` | `Spec => OnlySuperAdminMoves` |
| | `DirectoryHolds` | `Spec => DirectoryImplemented`: `Tenancy` implements `StaffDirectory` |
| `SessionProofs` | `TypeCorrect` | `Spec => []TypeOK` |
| | `CountersExpire`, `OwnersOnly`, `EntriesEnd` | `Spec => []CounterExpires`, `[]OwnerOnly`, `[]CacheWithinLife` |
| | `LogoutsTakeHold` | `Spec => LogoutTakesHold` |
| | `GrantsHold` | `Spec => GrantsImplemented`: `TokenSessions` implements `TokenGrants` |
| `AgentProofs` | `TypeCorrect` | `Spec => []TypeOK`, the accounting of the pool included |
| | `SearchOnce`, `OwnCompany` | `Spec => []OneSearchPerQuery`, `[]OwnCompanyOnly` |
| | `RunsBounded` | `Spec => BoundedRun` |
| `ChatProofs` | `TypeCorrect` | `Spec => []TypeOK`, the total order of the transactions included |
| | `RetriesAreSafe`, `AnswersAreStored` | `Spec => []RetryAddsNoTurn`, `[]AnswerIsOwnStoredTurn` |
| | `TurnsAreOrdered`, `HistoriesAreOwn`, `NothingOutlivesUsers` | `Spec => []OrderedTurns`, `[]OwnHistory`, `[]DeletedUserLeavesNothing` |
| | `TranscriptsHold` | `Spec => TranscriptsImplemented`: `ChatTurns` implements `Transcripts` |
| `CacheProofs` | `TypeCorrect` | `Spec => []TypeOK` |
| | `StalenessBounded`, `StaleIfExcused`, `ServedWithinScope` | `Spec => []BoundedStaleness`, `[]StaleOnlyIfExcused`, `[]ServedInScope` |

* `Tenancy`. None of the properties is inductive without what a handler has in
  hand: `TypeInv` says per label what is loaded (`Stage`). `ScopeInv` says that the
  request of an admin asks for no other company than the target was loaded with,
  so that `Written` leaves the column alone; this is why the moves are those of
  super admins. `OrphanInv` says that a deletion under way knows every member but
  those in `late`. `DirectoryHolds` needs `StandInv` besides: a request past its role
  check does not ask for a super admin, and whoever a deletion has loaded as a
  member is an ordinary user and stays one, because no step promotes anybody
  (`StaysOrdinary`); each commit is then shown to be one step of `StaffDirectory`.
* `TokenSessions`. `LimiterInv`: the age and the rest of the lifetime of a counter
  add up to at most a window and the delay of the EXPIRE, unless an attempt still owes it the EXPIRE or the
  EXPIRE was lost. `SessionInv`: the lifetime of an entry and the time since the
  logout add up to at most `CacheTTL + MaxDelay`, because a guard that fills it has
  waited since before the logout; an entry names the owner of its token, which
  never changes. For `GrantsHold`, a step that lets a request in is shown to do so for
  the owner and with grace left (`AdmittedInTime`), a tick to take one from both,
  and each other step to arrive, close, depart or change nothing that the
  abstract specification has; a visit must not be `None`, hence `VisitAssumption`.
* `AgentLoop`. `PoolInv` is the accounting, with lemmas on the cardinality of the
  holders and the searches. `GuardInv`: a query that was searched is counted, and
  among the calls of a request at most one is between the count and the search of
  it. `CompanyInv`: an entry under a company's key holds text of that company.
  `RunsBounded` counts what a request may still do: the rounds it has left, each
  weighted with the steps of all its calls, and the steps its calls have left, as
  the cardinality of a set. A call goes through its steps in one direction
  (`CallMovesOn`), every other step ends a round (`RoundEnds`) and a round outweighs
  the calls of the next one (`RoundOutweighs`). So a request takes at most
  `(RecursionLimit + 4) * (5 * Cardinality(Calls) + 1)` steps, under any failures:
  this is the part of `EveryRequestEnds` that needs no fairness. That a request
  which has steps left takes one is the other part, and stays with TLC.
* `ChatTurns`. `RetryAddsNoTurn` speaks of two turns that are there already; the
  reason is earlier: `Kept` says that the key of a committed turn is in Redis
  unless it lapsed, and `LaterHits` that of two requests with one key that did not
  overlap the later one has found it, and a request that hits persists nothing.
  `Conversations` ties the row of a conversation to the user and company of every
  turn in it and of every request that holds it, and says that no request holds a
  conversation that is yet to be created; `Histories` takes from it what the agent
  is given. What was over when a request came precedes it, as its transaction
  began later. For `TranscriptsHold`, `ScopeOfUser` says that a running request is
  scoped to a company its user is or was in; a request that adds its turn
  found a conversation of its user (`Conversations`) that still has its row.
  `Rows`, an invariant of its own, says that users and conversations refer to
  companies that have a row.
* `ReadCache`. `EntryInv`: the age of what an entry hides and its lifetime add up to
  at most `TTL + MaxDelay`, and what it hides without an excuse is owed by a writer
  whose list still holds the key. `PrefixesCover` is the heart: the prefixes that
  `Prefixes` deletes for a row cover each of the seven families of keys that show
  it. `ReaderInv`: a reader that reads a key was allowed to ask for it; whatever
  a reader may ask for is shown in its own scope (`ShownInScope`).

Assumptions on constants only type them, say that `None` is none of the values,
that conversations are not documents (both ids are UUIDs), that the requests and
calls of the pool are finitely many and that the recursion limit is even; TLC
evaluates them in every run. `Spec` states fairness in `AgentLoop` only, and no
theorem uses it.

Only model-checked: liveness under fairness (`EventuallySettled`,
`EveryRequestEnds`), which is beyond the prover. For both the part that needs no fairness is proved: `WorkRunsOut` and `RunsBounded`.

## 6. Not modelled

* Extraction of text, tables and OCR blocks from a PDF: a pipeline of libraries
  without shared state; `Ingestion` has it as one step that succeeds or raises.
* Embeddings and the ranking by distance: numerical.
* `list_users`, `get_user`, `list_companies`, `get_company`, the profile and the
  session listings: one query each, no state and no cache.
* Endpoints and schemas (delegation and shapes), configuration, logging, the
  mapping of errors to responses, middleware.
* Migrations, run by hand while the system is down; their constraints are in
  `Tenancy`. The bootstrap script is `CreateSuperAdmin`.

## 7. Plan

Every invariant, action property and refinement of the runs is proved. Next: an
abstract specification of a cache entry as a delayed copy of the rows, with its
refinement; and the composition of `Ingestion` with `ReadCache` for one document,
in which the worker's silent commits are those of `QuietCommit`.
