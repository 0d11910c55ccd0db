----------------------------- MODULE Ingestion -----------------------------
(***************************************************************************)
(* The document ingestion pipeline: the upload and delete handlers of the  *)
(* API, the deletion of a company, the storage backend, the Celery queue   *)
(* and the worker task process_pdf_task.                                   *)
(*                                                                         *)
(* Every step that another process can interleave with is an action: a     *)
(* committed database transaction, a call of the storage backend, a        *)
(* message published to or taken from the broker.  What happens between    *)
(* two of them inside one handler is private and part of the action.       *)
(***************************************************************************)
EXTENDS Naturals, FiniteSets

CONSTANTS
  Docs,            \* the uploads; each creates at most one document row
  Companies,       \* the tenants
  Workers,         \* the worker processes of one host (prefork children)
  FileNames,       \* the possible results of _storage_filename
  CompanyOf,       \* the company an upload is made for
  FileOf,          \* what _storage_filename returns for an upload
  Cloud,           \* TRUE: S3Storage; FALSE: LocalStorage
  MaxTaskRetries,  \* _MAX_TASK_RETRIES
  Faults,          \* the kinds of failure of the environment that may occur
  MaxFaults,       \* bound on worker crashes and redeliveries together
  None             \* "no document", "no message"

FaultKinds == {"worker_crash", "redelivery", "put_error", "delete_error",
               "db_error", "broker_down", "api_stop"}

\* A task message: the document id and celery's retry counter.  Its second
\* argument, storage_ref, is always Ref(doc).
Msgs == [doc : Docs, retries : 0..MaxTaskRetries]

ASSUME DocumentsAssumption ==
  /\ CompanyOf \in [Docs -> Companies]
  /\ FileOf \in [Docs -> FileNames]
  /\ None \notin Docs \cup Msgs
ASSUME DeploymentAssumption == Cloud \in BOOLEAN
ASSUME BoundsAssumption ==
  /\ MaxTaskRetries \in Nat
  /\ MaxFaults \in Nat
  /\ Faults \subseteq FaultKinds

VARIABLES
  companies,  \* rows of table companies
  status,     \* documents.status, "NO_ROW" where there is no row
  passes,     \* how many ingestions of the document have stored their chunks
  indexed,    \* the uploads whose text those chunks hold
  files,      \* the storage backend: whose bytes are under a reference
  temp,       \* the host's temporary directory (S3 downloads)
  queue,      \* the broker: how many copies of each message are waiting
  upload,     \* where the handler of the upload is
  deletion,   \* where the handler of DELETE /documents/{id} is
  pc,         \* where a worker is in process_pdf_task
  task,       \* the message a worker holds, unacknowledged
  seen,       \* documents.status as the worker's session last loaded it
  content,    \* the upload whose bytes the worker extracted
  local,      \* local_path has been assigned by a download
  faults      \* worker crashes and redeliveries so far

dbVars == <<companies, status, passes, indexed>>
storageVars == <<files, temp>>
apiVars == <<upload, deletion>>
sessionVars == <<seen, content, local>>
workerVars == <<pc, task, sessionVars>>
vars == <<dbVars, storageVars, queue, apiVars, workerVars, faults>>

InFlight == {"PENDING", "PROCESSING"}
Statuses == InFlight \cup {"COMPLETED", "FAILED"}

HasRow(d) == status[d] # "NO_ROW"

\* Mutant of Ref: the storage key lacks the company.
Ref_NameOnly(d) == <<CHOOSE c \in Companies : TRUE, FileOf[d]>>

\* build_ref(company_id, doc_id, filename, created_at); doc_id is not used.
Ref(d) == <<CompanyOf[d], FileOf[d]>>
Refs == Companies \X FileNames

\* The path an S3 download is written to: the last component of the key only.
TempPath(d) == FileOf[d]

Msg(d, n) == [doc |-> d, retries |-> n]

Publish(m) == queue' = [queue EXCEPT ![m] = @ + 1]

\* UPDATE documents SET status = s WHERE id = d.
SetStatus(d, s) ==
  status' = IF HasRow(d) THEN [status EXCEPT ![d] = s] ELSE status

\* DELETE FROM documents; the foreign key of document_chunks cascades.
DropRows(S) ==
  /\ status' = [d \in Docs |-> IF d \in S THEN "NO_ROW" ELSE status[d]]
  /\ passes' = [d \in Docs |-> IF d \in S THEN 0 ELSE passes[d]]
  /\ indexed' = [d \in Docs |-> IF d \in S THEN {} ELSE indexed[d]]

Init ==
  /\ companies = Companies
  /\ status = [d \in Docs |-> "NO_ROW"]
  /\ passes = [d \in Docs |-> 0]
  /\ indexed = [d \in Docs |-> {}]
  /\ files = [r \in Refs |-> None]
  /\ temp = [f \in FileNames |-> None]
  /\ queue = [m \in Msgs |-> 0]
  /\ upload = [d \in Docs |-> "none"]
  /\ deletion = [d \in Docs |-> "none"]
  /\ pc = [w \in Workers |-> "idle"]
  /\ task = [w \in Workers |-> None]
  /\ seen = [w \in Workers |-> "NO_ROW"]
  /\ content = [w \in Workers |-> None]
  /\ local = [w \in Workers |-> FALSE]
  /\ faults = 0

-----------------------------------------------------------------------------
(* POST /documents/upload *)

\* The row is committed before anything else is done.
InsertRow(d) ==
  /\ upload[d] = "none"
  /\ CompanyOf[d] \in companies
  /\ status' = [status EXCEPT ![d] = "PENDING"]
  /\ upload' = [upload EXCEPT ![d] = "inserted"]
  /\ UNCHANGED <<companies, passes, indexed, storageVars, queue, deletion,
                 workerVars, faults>>

StoreFile(d) ==
  /\ upload[d] = "inserted"
  /\ files' = [files EXCEPT ![Ref(d)] = d]
  /\ upload' = [upload EXCEPT ![d] = "stored"]
  /\ UNCHANGED <<dbVars, temp, queue, deletion, workerVars, faults>>

\* The backend raises; it may have left the (partly written) file behind.
StoreFails(d) ==
  /\ "put_error" \in Faults
  /\ upload[d] = "inserted"
  /\ \/ files' = [files EXCEPT ![Ref(d)] = d]
     \/ UNCHANGED files
  /\ upload' = [upload EXCEPT ![d] = "failing"]
  /\ UNCHANGED <<dbVars, temp, queue, deletion, workerVars, faults>>

\* The except branch deletes the row again.
RollbackRow(d) ==
  /\ upload[d] = "failing"
  /\ DropRows({d})
  /\ upload' = [upload EXCEPT ![d] = "done"]
  /\ UNCHANGED <<companies, storageVars, queue, deletion, workerVars, faults>>

\* process_pdf_task.delay(new_doc.id, storage_ref)
Dispatch(d) ==
  /\ upload[d] = "stored"
  /\ Publish(Msg(d, 0))
  /\ upload' = [upload EXCEPT ![d] = "done"]
  /\ UNCHANGED <<dbVars, storageVars, deletion, workerVars, faults>>

\* The API process dies, or delay(), the refresh after the insert or the
\* rollback's commit raises: the request ends in a 500 and nothing resumes it.
UploadStops(d) ==
  /\ \/ "api_stop" \in Faults /\ upload[d] \in {"inserted", "stored", "failing"}
     \/ "broker_down" \in Faults /\ upload[d] = "stored"
     \/ "db_error" \in Faults /\ upload[d] \in {"inserted", "failing"}
  /\ upload' = [upload EXCEPT ![d] = "stopped"]
  /\ UNCHANGED <<dbVars, storageVars, queue, deletion, workerVars, faults>>

-----------------------------------------------------------------------------
(* DELETE /documents/{id} and DELETE /companies/{id} *)

\* The handler found the row some time before this commit.  If the upload's
\* rollback or the company's deletion has taken it since, the commit deletes
\* nothing, which only warns, and the file goes all the same.
DeleteRow(d) ==
  /\ upload[d] # "none"
  /\ deletion[d] = "none"
  /\ DropRows({d})
  /\ deletion' = [deletion EXCEPT ![d] = "deleting"]
  /\ UNCHANGED <<companies, storageVars, queue, upload, workerVars, faults>>

DeleteFile(d) ==
  /\ deletion[d] = "deleting"
  /\ files' = [files EXCEPT ![Ref(d)] = None]
  /\ deletion' = [deletion EXCEPT ![d] = "done"]
  /\ UNCHANGED <<dbVars, temp, queue, upload, workerVars, faults>>

\* The backend's error is logged and swallowed, or the process is gone.
DeleteFileFails(d) ==
  /\ Faults \cap {"delete_error", "api_stop"} # {}
  /\ deletion[d] = "deleting"
  /\ deletion' = [deletion EXCEPT ![d] = "done"]
  /\ UNCHANGED <<dbVars, storageVars, queue, upload, workerVars, faults>>

\* Documents and chunks go with the company, their files stay.
DeleteCompany(c) ==
  /\ c \in companies
  /\ companies' = companies \ {c}
  /\ DropRows({d \in Docs : CompanyOf[d] = c})
  /\ UNCHANGED <<storageVars, queue, apiVars, workerVars, faults>>

-----------------------------------------------------------------------------
(* process_pdf_task *)

Goto(w, l) == pc' = [pc EXCEPT ![w] = l]

\* Mutant of Receive: the message of a missing document goes back to the queue.
Receive_PutsBack(w, m) ==
  /\ pc[w] = "idle"
  /\ queue[m] > 0
  /\ queue' = IF HasRow(m.doc) THEN [queue EXCEPT ![m] = @ - 1] ELSE queue
  /\ task' = [task EXCEPT ![w] = m]
  /\ seen' = [seen EXCEPT ![w] = status[m.doc]]
  /\ Goto(w, IF HasRow(m.doc) THEN "begin" ELSE "ack")
  /\ UNCHANGED <<dbVars, storageVars, apiVars, content, local, faults>>

\* The worker takes m from the queue and looks its document up.
Receive(w, m) ==
  /\ pc[w] = "idle"
  /\ queue[m] > 0
  /\ queue' = [queue EXCEPT ![m] = @ - 1]
  /\ task' = [task EXCEPT ![w] = m]
  /\ seen' = [seen EXCEPT ![w] = status[m.doc]]
  /\ Goto(w, IF HasRow(m.doc) THEN "begin" ELSE "ack")
  /\ UNCHANGED <<dbVars, storageVars, apiVars, content, local, faults>>

\* The lookup is outside the try block: an exception there fails the task,
\* and a failed task is acknowledged.
LookupFails(w, m) ==
  /\ "db_error" \in Faults
  /\ pc[w] = "idle"
  /\ queue[m] > 0
  /\ queue' = [queue EXCEPT ![m] = @ - 1]
  /\ UNCHANGED <<dbVars, storageVars, apiVars, workerVars, faults>>

\* The session writes the status only where it differs from the one it
\* loaded, so a row already PROCESSING is not written at all.
WritesStatus(w, s) == seen[w] # s

Begin(w) ==
  LET d == task[w].doc IN
  /\ pc[w] = "begin"
  /\ IF WritesStatus(w, "PROCESSING")
     THEN HasRow(d) /\ SetStatus(d, "PROCESSING")
     ELSE UNCHANGED status
  /\ Goto(w, IF Cloud THEN "download" ELSE "extract")
  /\ UNCHANGED <<companies, passes, indexed, storageVars, queue, apiVars, task,
                 sessionVars, faults>>

\* An UPDATE that matches no row raises, as a failing commit does.
BeginFails(w) ==
  /\ pc[w] = "begin"
  /\ \/ WritesStatus(w, "PROCESSING") /\ ~HasRow(task[w].doc)
     \/ "db_error" \in Faults
  /\ Goto(w, "handle")
  /\ UNCHANGED <<dbVars, storageVars, queue, apiVars, task, sessionVars, faults>>

\* S3Storage.get_local_path; for LocalStorage it is the identity.
Download(w) ==
  LET d == task[w].doc IN
  /\ pc[w] = "download"
  /\ files[Ref(d)] # None
  /\ temp' = [temp EXCEPT ![TempPath(d)] = files[Ref(d)]]
  /\ local' = [local EXCEPT ![w] = TRUE]
  /\ Goto(w, "extract")
  /\ UNCHANGED <<dbVars, files, queue, apiVars, task, seen, content, faults>>

\* The file the worker opens: local_path.
SourceFile(d) == IF Cloud THEN temp[TempPath(d)] ELSE files[Ref(d)]

\* The file is read and split, then doc.id reloads the row, which the first
\* commit had expired.
Extract(w) ==
  LET d == task[w].doc IN
  /\ pc[w] = "extract"
  /\ SourceFile(d) # None
  /\ HasRow(d)
  /\ content' = [content EXCEPT ![w] = SourceFile(d)]
  /\ seen' = [seen EXCEPT ![w] = status[d]]
  /\ Goto(w, "embed")
  /\ UNCHANGED <<dbVars, storageVars, queue, apiVars, task, local, faults>>

\* Mutant of CommitIngestion: nothing ties the chunks to a row.
CommitIngestion_NoForeignKey(w) ==
  LET d == task[w].doc IN
  /\ pc[w] = "embed"
  /\ passes' = [passes EXCEPT ![d] = @ + 1]
  /\ indexed' = [indexed EXCEPT ![d] = @ \cup {content[w]}]
  /\ SetStatus(d, "COMPLETED")
  /\ Goto(w, "cleanup")
  /\ UNCHANGED <<companies, storageVars, queue, apiVars, task, sessionVars,
                 faults>>

\* Chunks and COMPLETED in one transaction; the foreign key of the chunks
\* refuses it once the row is gone.
CommitIngestion(w) ==
  LET d == task[w].doc IN
  /\ pc[w] = "embed"
  /\ HasRow(d)
  /\ passes' = [passes EXCEPT ![d] = @ + 1]
  /\ indexed' = [indexed EXCEPT ![d] = @ \cup {content[w]}]
  /\ IF WritesStatus(w, "COMPLETED") THEN SetStatus(d, "COMPLETED")
                                     ELSE UNCHANGED status
  /\ Goto(w, "cleanup")
  /\ UNCHANGED <<companies, storageVars, queue, apiVars, task, sessionVars,
                 faults>>

\* Mutant of StepFails: the error path removes the source file as well.
StepFails_DropsFile(w) ==
  /\ pc[w] \in {"download", "extract", "embed"}
  /\ files' = [files EXCEPT ![Ref(task[w].doc)] = None]
  /\ Goto(w, "handle")
  /\ UNCHANGED <<dbVars, temp, queue, apiVars, task, sessionVars, faults>>

\* Any exception while downloading, extracting, embedding or storing: a
\* missing file or row, an unreadable PDF, a failing model, a failed commit.
StepFails(w) ==
  /\ pc[w] \in {"download", "extract", "embed"}
  /\ Goto(w, "handle")
  /\ UNCHANGED <<dbVars, storageVars, queue, apiVars, task, sessionVars, faults>>

\* Mutant of Cleanup: the source file is not deleted.
Cleanup_KeepsFile(w) ==
  /\ pc[w] = "cleanup"
  /\ Goto(w, "ack")
  /\ UNCHANGED <<dbVars, storageVars, queue, apiVars, task, sessionVars, faults>>

\* storage.delete(storage_ref).  doc.company_id reloaded the row before that;
\* the row was there at the commit and may have gone after the reload.
Cleanup(w) ==
  /\ pc[w] = "cleanup"
  /\ files' = [files EXCEPT ![Ref(task[w].doc)] = None]
  /\ Goto(w, "ack")
  /\ UNCHANGED <<dbVars, temp, queue, apiVars, task, sessionVars, faults>>

\* The reload, which raises once the row is gone, and the deletion of the file
\* are still inside the try block: the committed ingestion is retried.
CleanupFails(w) ==
  /\ pc[w] = "cleanup"
  /\ \/ ~HasRow(task[w].doc)
     \/ Faults \cap {"delete_error", "db_error"} # {}
  /\ Goto(w, "handle")
  /\ UNCHANGED <<dbVars, storageVars, queue, apiVars, task, sessionVars, faults>>

\* The status the except branch writes; its own failure is swallowed.
RecordFailure(w, s) ==
  \/ SetStatus(task[w].doc, s)
  \/ "db_error" \in Faults /\ UNCHANGED status

\* Mutant of HandleRetry: FAILED is recorded although a retry follows.
HandleRetry_AsFailed(w) ==
  /\ pc[w] = "handle"
  /\ task[w].retries < MaxTaskRetries
  /\ RecordFailure(w, "FAILED")
  /\ Goto(w, "republish")
  /\ UNCHANGED <<companies, passes, indexed, storageVars, queue, apiVars, task,
                 sessionVars, faults>>

HandleRetry(w) ==
  /\ pc[w] = "handle"
  /\ task[w].retries < MaxTaskRetries
  /\ RecordFailure(w, "PENDING")
  /\ Goto(w, "republish")
  /\ UNCHANGED <<companies, passes, indexed, storageVars, queue, apiVars, task,
                 sessionVars, faults>>

\* Mutant of HandleFailed: the last attempt is not recognised as the last.
HandleFailed_OffByOne(w) ==
  /\ pc[w] = "handle"
  /\ task[w].retries > MaxTaskRetries
  /\ RecordFailure(w, "FAILED")
  /\ Goto(w, "ack")
  /\ UNCHANGED <<companies, passes, indexed, storageVars, queue, apiVars, task,
                 sessionVars, faults>>

HandleFailed(w) ==
  /\ pc[w] = "handle"
  /\ task[w].retries = MaxTaskRetries
  /\ RecordFailure(w, "FAILED")
  /\ Goto(w, "ack")
  /\ UNCHANGED <<companies, passes, indexed, storageVars, queue, apiVars, task,
                 sessionVars, faults>>

\* Mutant of Republish: the retry counter is not carried over.
Republish_SameCount(w) ==
  /\ pc[w] = "republish"
  /\ Publish(task[w])
  /\ Goto(w, "ack")
  /\ UNCHANGED <<dbVars, storageVars, apiVars, task, sessionVars, faults>>

\* self.retry publishes the message again before this one is acknowledged.
Republish(w) ==
  /\ pc[w] = "republish"
  /\ Publish(Msg(task[w].doc, task[w].retries + 1))
  /\ Goto(w, "ack")
  /\ UNCHANGED <<dbVars, storageVars, apiVars, task, sessionVars, faults>>

\* A retry that cannot be published rejects the message without requeueing it.
RepublishFails(w) ==
  /\ "broker_down" \in Faults
  /\ pc[w] = "republish"
  /\ Goto(w, "ack")
  /\ UNCHANGED <<dbVars, storageVars, queue, apiVars, task, sessionVars, faults>>

\* Mutant of Reset: the worker goes idle with the message still assigned.
Reset_KeepsTask(w) ==
  /\ Goto(w, "idle")
  /\ seen' = [seen EXCEPT ![w] = "NO_ROW"]
  /\ content' = [content EXCEPT ![w] = None]
  /\ local' = [local EXCEPT ![w] = FALSE]
  /\ UNCHANGED task

\* The worker forgets the message and everything it loaded for it.
Reset(w) ==
  /\ Goto(w, "idle")
  /\ task' = [task EXCEPT ![w] = None]
  /\ seen' = [seen EXCEPT ![w] = "NO_ROW"]
  /\ content' = [content EXCEPT ![w] = None]
  /\ local' = [local EXCEPT ![w] = FALSE]

\* Mutant of Finish: no finally block.
Finish_NoFinally(w) ==
  /\ pc[w] = "ack"
  /\ Reset(w)
  /\ UNCHANGED <<dbVars, storageVars, queue, apiVars, faults>>

\* finally removes the download; then the message is acknowledged.
Finish(w) ==
  /\ pc[w] = "ack"
  /\ temp' = IF local[w] THEN [temp EXCEPT ![TempPath(task[w].doc)] = None]
                         ELSE temp
  /\ Reset(w)
  /\ UNCHANGED <<dbVars, files, queue, apiVars, faults>>

\* Mutant of Crash: the message had been acknowledged when it was received.
Crash_AckedEarly(w) ==
  /\ "worker_crash" \in Faults
  /\ pc[w] # "idle"
  /\ faults < MaxFaults
  /\ faults' = faults + 1
  /\ Reset(w)
  /\ UNCHANGED <<dbVars, storageVars, queue, apiVars>>

\* acks_late, reject_on_worker_lost: the message of a dead worker goes back.
Crash(w) ==
  /\ "worker_crash" \in Faults
  /\ pc[w] # "idle"
  /\ faults < MaxFaults
  /\ faults' = faults + 1
  /\ Publish(task[w])
  /\ Reset(w)
  /\ UNCHANGED <<dbVars, storageVars, apiVars>>

\* The broker's visibility timeout expires while the worker is still busy.
Redeliver(w) ==
  /\ "redelivery" \in Faults
  /\ pc[w] # "idle"
  /\ faults < MaxFaults
  /\ faults' = faults + 1
  /\ Publish(task[w])
  /\ UNCHANGED <<dbVars, storageVars, apiVars, workerVars>>

-----------------------------------------------------------------------------
UploadStep(d) ==
  StoreFile(d) \/ StoreFails(d) \/ RollbackRow(d) \/ Dispatch(d)

DeletionStep(d) == DeleteFile(d) \/ DeleteFileFails(d)

TaskStep(w) ==
  \/ Begin(w) \/ BeginFails(w) \/ Download(w) \/ Extract(w)
  \/ CommitIngestion(w) \/ StepFails(w) \/ Cleanup(w) \/ CleanupFails(w)
  \/ HandleRetry(w) \/ HandleFailed(w) \/ Republish(w) \/ RepublishFails(w)
  \/ Finish(w)

WorkerStep(w) == TaskStep(w) \/ \E m \in Msgs : Receive(w, m)

Next ==
  \/ \E d \in Docs : InsertRow(d) \/ UploadStep(d) \/ UploadStops(d)
                     \/ DeleteRow(d) \/ DeletionStep(d)
  \/ \E c \in Companies : DeleteCompany(c)
  \/ \E w \in Workers : WorkerStep(w) \/ Crash(w) \/ Redeliver(w)
  \/ \E w \in Workers, m \in Msgs : LookupFails(w, m)

Spec == Init /\ [][Next]_vars

\* A request that has started runs on, and so does a worker that has work.
Fairness ==
  /\ \A d \in Docs : WF_vars(UploadStep(d)) /\ WF_vars(DeletionStep(d))
  /\ \A w \in Workers : WF_vars(WorkerStep(w))

FairSpec == Spec /\ Fairness

-----------------------------------------------------------------------------
(* Properties *)

\* Every variable has its type, a worker holds a message exactly while it is
\* not idle, it has extracted a file when it embeds, and crashes and
\* redeliveries stay within their bound.
TypeOK ==
  /\ companies \subseteq Companies
  /\ status \in [Docs -> Statuses \cup {"NO_ROW"}]
  /\ passes \in [Docs -> Nat]
  /\ indexed \in [Docs -> SUBSET Docs]
  /\ files \in [Refs -> Docs \cup {None}]
  /\ temp \in [FileNames -> Docs \cup {None}]
  /\ queue \in [Msgs -> Nat]
  /\ upload \in [Docs -> {"none", "inserted", "stored", "failing", "done",
                          "stopped"}]
  /\ deletion \in [Docs -> {"none", "deleting", "done"}]
  /\ pc \in [Workers -> {"idle", "begin", "download", "extract", "embed",
                         "cleanup", "handle", "republish", "ack"}]
  /\ task \in [Workers -> Msgs \cup {None}]
  /\ seen \in [Workers -> Statuses \cup {"NO_ROW"}]
  /\ content \in [Workers -> Docs \cup {None}]
  /\ local \in [Workers -> BOOLEAN]
  /\ faults \in 0..MaxFaults
  /\ \A w \in Workers : pc[w] = "idle" <=> task[w] = None
  /\ \A w \in Workers : pc[w] = "embed" => content[w] \in Docs

\* Somebody is still going to work on d: its upload request, a message, or a
\* worker that holds its message and has not yet recorded the outcome.
Working == {"begin", "download", "extract", "embed", "handle", "republish"}

HasOwner(d) ==
  \/ upload[d] \in {"inserted", "stored", "failing"}
  \/ \E m \in Msgs : m.doc = d /\ queue[m] > 0
  \/ \E w \in Workers : pc[w] \in Working /\ task[w].doc = d

\* No document is left PENDING or PROCESSING with nobody to take it further,
\* whatever crashes, is redelivered or fails in the storage: the late
\* acknowledgement and the order "record PENDING, publish, acknowledge" of the
\* retry path guarantee it.
NoStrandedDocument == \A d \in Docs : status[d] \in InFlight => HasOwner(d)

\* The chunks of a document hold only text uploaded for its own company: the
\* storage reference starts with the company, so that two companies' equally
\* named files never meet.
TenantIsolation ==
  \A d \in Docs : \A c \in indexed[d] : CompanyOf[c] = CompanyOf[d]

\* The uploaded file stays in storage until an ingestion of it has been
\* committed, so that every retry finds it: worker and API delete it only
\* afterwards, or with the document.
SourceKept ==
  \A d \in Docs :
    HasRow(d) /\ upload[d] = "done" /\ passes[d] = 0 => files[Ref(d)] = d

\* However often the task is retried, redelivered and restarted, a document
\* is ingested at most once per retry of the original message and of each
\* extra copy that a crash or a redelivery made of it.
BoundedIngestion ==
  \A d \in Docs : passes[d] <= (MaxTaskRetries + 1) * (1 + faults)

\* What is still to be done for a document, failures included, counted in units:
\* an upload, a message or a worker has as many as it can still cause steps
\* before the next crash or redelivery, and one of these costs more than the
\* copy of the message that it makes.
MessageWork(n) == 10 * (MaxTaskRetries + 1 - n)
FaultWork == MessageWork(0) + 1

UploadWork(d) ==
  CASE upload[d] = "none"     -> MessageWork(0) + 3
    [] upload[d] = "inserted" -> MessageWork(0) + 2
    [] upload[d] = "stored"   -> MessageWork(0) + 1
    [] upload[d] = "failing"  -> 1
    [] OTHER                  -> 0

LabelWork(l) ==
  CASE l = "begin" -> 9 [] l = "download" -> 8 [] l = "extract" -> 7
    [] l = "embed" -> 6 [] l = "cleanup" -> 5 [] l = "handle" -> 4
    [] OTHER -> 3

WorkerWork(w) ==
  IF pc[w] = "ack" THEN 1
  ELSE MessageWork(task[w].retries + 1) + LabelWork(pc[w])

Carries(w, d) == pc[w] # "idle" /\ task[w].doc = d

\* Unit number j of the k-th x of its kind.
UnitsOf(kind, x, k, n) == {<<kind, x, k, j>> : j \in 1..n}

UploadUnits(d) == UnitsOf("upload", d, 0, UploadWork(d))
QueueUnits(d) ==
  UNION {UNION {UnitsOf("queue", m, k, MessageWork(m.retries)) : k \in 1..queue[m]} :
           m \in {n \in Msgs : n.doc = d}}
WorkerUnits(d) ==
  UNION {UnitsOf("worker", w, 0, WorkerWork(w)) :
           w \in {v \in Workers : Carries(v, d)}}

Work(d) == UploadUnits(d) \cup QueueUnits(d) \cup WorkerUnits(d)
WorkLeft(d) == Cardinality(Work(d)) + FaultWork * (MaxFaults - faults)

\* The step is one for d: of its upload, of its messages or of a worker that
\* has taken or gives up one of them.
Moves(d) ==
  \/ upload'[d] # upload[d]
  \/ \E m \in Msgs : m.doc = d /\ queue'[m] # queue[m]
  \/ \E w \in Workers : /\ Carries(w, d) \/ Carries(w, d)'
                        /\ pc'[w] # pc[w] \/ task'[w] # task[w]

\* Processing comes to an end without any fairness: no step of anyone adds to
\* the work left for a document, and every step of its upload, its messages or
\* the workers that hold them lowers it, however retries, crashes, redeliveries
\* and deletions interleave.
MovesOn(d) ==
  /\ WorkLeft(d)' \in 0..WorkLeft(d)
  /\ Moves(d) => WorkLeft(d)' < WorkLeft(d)

BoundedWork == [][\A d \in Docs : MovesOn(d)]_vars

\* A deleted document does not come back, and no chunk of it is stored by a
\* worker that was in the middle of ingesting it.
StaysDeleted(d) ==
  ~HasRow(d) /\ upload[d] # "none" =>
    status'[d] = "NO_ROW" /\ passes'[d] = 0 /\ indexed'[d] = {}

DeletedStaysDeleted == [][\A d \in Docs : StaysDeleted(d)]_vars

\* A COMPLETED document's file is gone from storage once the worker that
\* completed it has moved on.
CompletedFileRemoved ==
  \A d \in Docs : status[d] = "COMPLETED" =>
    \/ files[Ref(d)] = None
    \/ \E w \in Workers : pc[w] = "cleanup" /\ task[w].doc = d

\* A download is on the disk only while the worker that made it still holds
\* the message: every way out of the task, retry and failure included, passes
\* the finally block.
NoTempLeft ==
  \A f \in FileNames : temp[f] # None =>
    \E w \in Workers : local[w] /\ TempPath(task[w].doc) = f

\* Every accepted document is settled for good in the end: COMPLETED, FAILED
\* or deleted.
EventuallySettled == <>[](\A d \in Docs : status[d] \notin InFlight)

\* What ProcessingStatus.PENDING says of itself: the worker task is queued.
\* The request that is still running is given the time to queue it.
PendingIsQueued ==
  \A d \in Docs : status[d] = "PENDING" => HasOwner(d)

\* What the upload endpoint's documentation says of the status: processing
\* ends in completed or failed, and that is where it stays.
CompletedIsFinal ==
  [][\A d \in Docs : status[d] = "COMPLETED" =>
       status'[d] \in {"COMPLETED", "NO_ROW"}]_vars

\* What the API shows of a document.
Phase(d) ==
  IF HasRow(d) THEN status[d] ELSE IF upload[d] = "none" THEN "NEW" ELSE "GONE"

Lifecycle == INSTANCE DocumentLifecycle WITH phase <- [d \in Docs |-> Phase(d)]

\* While no message is delivered twice and storage deletions succeed, the
\* pipeline with its queue, retries and lost requests behaves like the plain
\* status diagram: chunks are stored once, by the step that shows COMPLETED.
LifecycleImplemented == Lifecycle!LifecycleSpec
=============================================================================
