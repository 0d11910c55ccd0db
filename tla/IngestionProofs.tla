-------------------------- MODULE IngestionProofs --------------------------
(***************************************************************************)
(* Theorems about Ingestion, for any number of documents, companies and    *)
(* workers, any retry limit and any bound on crashes and redeliveries.     *)
(***************************************************************************)
EXTENDS Ingestion, TLAPS

\* Messages are records of a document and a retry count within the limit.
LEMMA MsgTyped ==
  /\ \A d \in Docs, n \in 0..MaxTaskRetries : Msg(d, n) \in Msgs
  /\ \A m \in Msgs : m.doc \in Docs /\ m.retries \in 0..MaxTaskRetries
  /\ \A d \in Docs : Msg(d, 0) \in Msgs
  /\ \A d \in Docs : Ref(d) \in Refs /\ TempPath(d) \in FileNames
BY DocumentsAssumption, BoundsAssumption DEF Msgs, Msg, Ref, Refs, TempPath

\* A busy worker holds a message.
LEMMA BusyHoldsMessage ==
  ASSUME TypeOK, NEW w \in Workers, pc[w] # "idle"
  PROVE  task[w] \in Msgs /\ task[w].doc \in Docs /\ task[w] # None
BY MsgTyped DEF TypeOK

\* Writing a status keeps the column typed.
LEMMA SetStatusTyped ==
  ASSUME TypeOK, NEW d \in Docs, NEW s \in Statuses, SetStatus(d, s)
  PROVE  status' \in [Docs -> Statuses \cup {"NO_ROW"}]
BY DEF TypeOK, SetStatus, HasRow

\* Deleting rows keeps the three columns typed.
LEMMA DropRowsTyped ==
  ASSUME TypeOK, NEW S, DropRows(S)
  PROVE  /\ status' \in [Docs -> Statuses \cup {"NO_ROW"}]
         /\ passes' \in [Docs -> Nat]
         /\ indexed' \in [Docs -> SUBSET Docs]
BY DEF TypeOK, DropRows

\* Publishing anything leaves a queue of messages.
LEMMA PublishTyped ==
  ASSUME TypeOK, NEW m, Publish(m)
  PROVE  queue' \in [Msgs -> Nat]
<1>1. queue' = [x \in Msgs |-> IF x = m THEN queue[x] + 1 ELSE queue[x]]
  BY DEF TypeOK, Publish
<1>2. \A x \in Msgs : queue[x] \in Nat /\ queue[x] + 1 \in Nat
  BY DEF TypeOK
<1> QED BY <1>1, <1>2

-----------------------------------------------------------------------------
(* Type correctness *)

LEMMA InitTypeOK == Init => TypeOK
BY DocumentsAssumption, BoundsAssumption DEF Init, TypeOK, Statuses

LEMMA ApiTypeOK ==
  ASSUME TypeOK, NEW d \in Docs,
         InsertRow(d) \/ UploadStep(d) \/ UploadStops(d)
           \/ DeleteRow(d) \/ DeletionStep(d)
  PROVE  TypeOK'
<1> USE DEF dbVars, storageVars, apiVars, workerVars, sessionVars
<1>1. CASE InsertRow(d)
  BY <1>1 DEF InsertRow, TypeOK, Statuses, InFlight
<1>2. CASE StoreFile(d)
  BY <1>2, MsgTyped DEF StoreFile, TypeOK
<1>3. CASE StoreFails(d)
  BY <1>3, MsgTyped DEF StoreFails, TypeOK
<1>4. CASE RollbackRow(d)
  BY <1>4, DropRowsTyped DEF RollbackRow, TypeOK
<1>5. CASE Dispatch(d)
  BY <1>5, PublishTyped DEF Dispatch, TypeOK
<1>6. CASE UploadStops(d)
  BY <1>6 DEF UploadStops, TypeOK
<1>7. CASE DeleteRow(d)
  BY <1>7, DropRowsTyped DEF DeleteRow, TypeOK
<1>8. CASE DeleteFile(d)
  BY <1>8, MsgTyped DEF DeleteFile, TypeOK
<1>9. CASE DeleteFileFails(d)
  BY <1>9 DEF DeleteFileFails, TypeOK
<1> QED
  BY <1>1, <1>2, <1>3, <1>4, <1>5, <1>6, <1>7, <1>8, <1>9
     DEF UploadStep, DeletionStep

LEMMA TaskTypeOK ==
  ASSUME TypeOK, NEW w \in Workers, TaskStep(w)
  PROVE  TypeOK'
<1> USE DEF dbVars, storageVars, apiVars, workerVars, sessionVars, Goto
<1>0. pc[w] # "idle"
  BY DEF TaskStep, Begin, BeginFails, Download, Extract, CommitIngestion,
         StepFails, Cleanup, CleanupFails, HandleRetry, HandleFailed, Republish,
         RepublishFails, Finish
<1> DEFINE d == task[w].doc
<1>d. task[w] \in Msgs /\ d \in Docs /\ task[w] # None /\ status[d] \in Statuses \cup {"NO_ROW"}
  BY <1>0, BusyHoldsMessage DEF TypeOK
<1>1. CASE Begin(w)
  <2>1. status' \in [Docs -> Statuses \cup {"NO_ROW"}]
    BY <1>1, <1>d, SetStatusTyped DEF Begin, Statuses, InFlight, TypeOK
  <2> QED BY <1>1, <1>d, <2>1 DEF Begin, TypeOK
<1>2. CASE BeginFails(w)
  BY <1>2 DEF BeginFails, TypeOK
<1>3. CASE Download(w)
  BY <1>3, <1>d, MsgTyped DEF Download, TypeOK
<1>4. CASE Extract(w)
  <2>1. SourceFile(d) \in Docs
    BY <1>4, <1>d, MsgTyped DEF Extract, SourceFile, TypeOK
  <2> QED BY <1>4, <1>d, <2>1 DEF Extract, TypeOK
<1>5. CASE CommitIngestion(w)
  <2>1. status' \in [Docs -> Statuses \cup {"NO_ROW"}]
    BY <1>5, <1>d, SetStatusTyped DEF CommitIngestion, Statuses, TypeOK
  <2>2. passes' \in [Docs -> Nat] /\ indexed' \in [Docs -> SUBSET Docs]
    BY <1>5, <1>d DEF CommitIngestion, TypeOK
  <2> QED BY <1>5, <2>1, <2>2 DEF CommitIngestion, TypeOK
<1>6. CASE StepFails(w)
  BY <1>6 DEF StepFails, TypeOK
<1>7. CASE Cleanup(w)
  BY <1>7, <1>d, MsgTyped DEF Cleanup, TypeOK
<1>8. CASE CleanupFails(w)
  BY <1>8 DEF CleanupFails, TypeOK
<1>9. CASE HandleRetry(w)
  <2>1. status' \in [Docs -> Statuses \cup {"NO_ROW"}]
    BY <1>9, <1>d, SetStatusTyped
       DEF HandleRetry, RecordFailure, Statuses, InFlight, TypeOK
  <2> QED BY <1>9, <2>1 DEF HandleRetry, TypeOK
<1>10. CASE HandleFailed(w)
  <2>1. status' \in [Docs -> Statuses \cup {"NO_ROW"}]
    BY <1>10, <1>d, SetStatusTyped DEF HandleFailed, RecordFailure, Statuses, TypeOK
  <2> QED BY <1>10, <2>1 DEF HandleFailed, TypeOK
<1>11. CASE Republish(w)
  BY <1>11, PublishTyped DEF Republish, TypeOK
<1>12. CASE RepublishFails(w)
  BY <1>12 DEF RepublishFails, TypeOK
<1>13. CASE Finish(w)
  BY <1>13, <1>d, MsgTyped DEF Finish, Reset, TypeOK
<1> QED
  BY <1>1, <1>2, <1>3, <1>4, <1>5, <1>6, <1>7, <1>8, <1>9, <1>10, <1>11, <1>12,
     <1>13 DEF TaskStep

LEMMA ReceiveTypeOK ==
  ASSUME TypeOK, NEW w \in Workers, NEW m \in Msgs,
         Receive(w, m) \/ LookupFails(w, m)
  PROVE  TypeOK'
<1> USE DEF dbVars, storageVars, apiVars, workerVars, sessionVars
<1>1. CASE Receive(w, m)
  <2>1. status[m.doc] \in Statuses \cup {"NO_ROW"} /\ m # None
    BY MsgTyped, DocumentsAssumption DEF TypeOK
  <2> QED BY <1>1, <2>1 DEF Receive, Goto, TypeOK
<1>2. CASE LookupFails(w, m)
  BY <1>2 DEF LookupFails, TypeOK
<1> QED BY <1>1, <1>2

LEMMA FaultTypeOK ==
  ASSUME TypeOK, NEW w \in Workers, Crash(w) \/ Redeliver(w)
  PROVE  TypeOK'
<1> USE BoundsAssumption DEF dbVars, storageVars, apiVars, workerVars, sessionVars
<1>1. CASE Crash(w)
  BY <1>1, PublishTyped DEF Crash, Reset, Goto, TypeOK
<1>2. CASE Redeliver(w)
  BY <1>2, PublishTyped DEF Redeliver, TypeOK
<1> QED BY <1>1, <1>2

LEMMA NextTypeOK == TypeOK /\ [Next]_vars => TypeOK'
<1> SUFFICES ASSUME TypeOK, [Next]_vars PROVE TypeOK'
  OBVIOUS
<1>1. ASSUME NEW d \in Docs,
             InsertRow(d) \/ UploadStep(d) \/ UploadStops(d)
               \/ DeleteRow(d) \/ DeletionStep(d)
      PROVE  TypeOK'
  BY <1>1, ApiTypeOK
<1>2. ASSUME NEW c \in Companies, DeleteCompany(c) PROVE TypeOK'
  BY <1>2, DropRowsTyped
     DEF DeleteCompany, TypeOK, storageVars, apiVars, workerVars, sessionVars
<1>3. ASSUME NEW w \in Workers, WorkerStep(w) \/ Crash(w) \/ Redeliver(w)
      PROVE  TypeOK'
  BY <1>3, TaskTypeOK, ReceiveTypeOK, FaultTypeOK DEF WorkerStep
<1>4. ASSUME NEW w \in Workers, NEW m \in Msgs, LookupFails(w, m) PROVE TypeOK'
  BY <1>4, ReceiveTypeOK
<1>5. CASE UNCHANGED vars
  BY <1>5 DEF TypeOK, vars, dbVars, storageVars, apiVars, workerVars, sessionVars
<1> QED BY <1>1, <1>2, <1>3, <1>4, <1>5 DEF Next

\* Every reachable state is well typed, busy workers hold a message, and the
\* bound on crashes and redeliveries is kept.
THEOREM TypeCorrect == Spec => []TypeOK
<1>1. Init => TypeOK
  BY InitTypeOK
<1>2. TypeOK /\ [Next]_vars => TypeOK'
  BY NextTypeOK
<1> QED BY <1>1, <1>2, PTL DEF Spec

-----------------------------------------------------------------------------
(* No stranded document                                                    *)
(*                                                                         *)
(* HasOwner alone is not inductive: a worker that is embedding and loaded  *)
(* the status COMPLETED will not write the status when it commits, so it   *)
(* cannot answer for a document another worker has meanwhile set back to   *)
(* PENDING.  Such a worker does not count as an owner here; the document   *)
(* then has another one.  A worker that is about to publish a retry must   *)
(* have one left, or what it publishes would not be a message.             *)

Holds(w, d) ==
  /\ pc[w] \in Working
  /\ task[w].doc = d
  /\ pc[w] = "embed" => seen[w] # "COMPLETED"

Queued(d) == \E m \in Msgs : m.doc = d /\ queue[m] > 0

Uploading(d) == upload[d] \in {"inserted", "stored", "failing"}

Accountable(d) ==
  Uploading(d) \/ Queued(d) \/ \E w \in Workers : Holds(w, d)

Accounted == \A d \in Docs : status[d] \in InFlight => Accountable(d)

RetriesLeft ==
  \A w \in Workers : pc[w] = "republish" => task[w].retries < MaxTaskRetries

OwnerInv == TypeOK /\ RetriesLeft /\ Accounted

\* No dispatch, retry or outcome is lost: the broker is up, the API process
\* finishes its requests and the database answers the worker.
NothingDropped == Faults \cap {"db_error", "broker_down", "api_stop"} = {}

LEMMA RetriesLeftStep ==
  ASSUME TypeOK, RetriesLeft, [Next]_vars
  PROVE  RetriesLeft'
<1> USE DEF RetriesLeft
<1>1. ASSUME NEW d \in Docs,
             InsertRow(d) \/ UploadStep(d) \/ UploadStops(d)
               \/ DeleteRow(d) \/ DeletionStep(d)
      PROVE  UNCHANGED <<pc, task>>
  BY <1>1 DEF InsertRow, UploadStep, StoreFile, StoreFails, RollbackRow, Dispatch,
              UploadStops, DeleteRow, DeletionStep, DeleteFile, DeleteFileFails,
              workerVars
<1>2. ASSUME NEW c \in Companies, DeleteCompany(c) PROVE UNCHANGED <<pc, task>>
  BY <1>2 DEF DeleteCompany, workerVars
<1>3. ASSUME NEW w \in Workers, TaskStep(w), ~HandleRetry(w)
      PROVE  \A v \in Workers : pc'[v] = "republish" =>
               pc[v] = "republish" /\ task'[v] = task[v]
  BY <1>3 DEF TaskStep, Begin, BeginFails, Download, Extract, CommitIngestion,
         StepFails, Cleanup, CleanupFails, HandleFailed, Republish,
         RepublishFails, Finish, Reset, Goto, TypeOK
<1>4. ASSUME NEW w \in Workers, HandleRetry(w) PROVE RetriesLeft'
  BY <1>4 DEF HandleRetry, Goto, TypeOK
<1>5. ASSUME NEW w \in Workers, NEW m \in Msgs, Receive(w, m) PROVE RetriesLeft'
  BY <1>5 DEF Receive, Goto, TypeOK
<1>6. ASSUME NEW w \in Workers, Crash(w) PROVE RetriesLeft'
  BY <1>6 DEF Crash, Reset, Goto, TypeOK
<1>7. ASSUME NEW w \in Workers, Redeliver(w) PROVE UNCHANGED <<pc, task>>
  BY <1>7 DEF Redeliver, workerVars
<1>8. ASSUME NEW w \in Workers, NEW m \in Msgs, LookupFails(w, m)
      PROVE  UNCHANGED <<pc, task>>
  BY <1>8 DEF LookupFails, workerVars
<1>9. CASE UNCHANGED vars
  BY <1>9 DEF vars, workerVars
<1> QED
  BY <1>1, <1>2, <1>3, <1>4, <1>5, <1>6, <1>7, <1>8, <1>9 DEF Next, WorkerStep

\* A step of one worker takes no owner from a document it does not itself
\* answer for, as long as it removes none of the document's messages.
LEMMA OthersAnswer ==
  ASSUME NEW d \in Docs, NEW w \in Workers, Accountable(d), ~Holds(w, d),
         upload' = upload,
         \A m \in Msgs : m.doc = d /\ queue[m] > 0 => queue'[m] > 0,
         \A v \in Workers \ {w} :
           pc'[v] = pc[v] /\ task'[v] = task[v] /\ seen'[v] = seen[v]
  PROVE  Accountable(d)'
<1>1. CASE Uploading(d)
  BY <1>1 DEF Accountable, Uploading
<1>2. CASE Queued(d)
  BY <1>2 DEF Accountable, Queued
<1>3. CASE \E v \in Workers : Holds(v, d)
  <2>1. PICK v \in Workers : Holds(v, d)
    BY <1>3
  <2>2. Holds(v, d)'
    BY <2>1 DEF Holds
  <2> QED BY <2>2 DEF Accountable
<1> QED BY <1>1, <1>2, <1>3 DEF Accountable

LEMMA ApiAccounted ==
  ASSUME OwnerInv, NothingDropped, NEW e \in Docs,
         InsertRow(e) \/ UploadStep(e) \/ UploadStops(e)
           \/ DeleteRow(e) \/ DeletionStep(e)
  PROVE  Accounted'
<1> SUFFICES ASSUME NEW d \in Docs, status'[d] \in InFlight
             PROVE  Accountable(d)'
  BY DEF Accounted
<1> USE DEF OwnerInv, Accounted
<1>k. ASSUME UNCHANGED workerVars,
             status[d] \in InFlight,
             Uploading(d) => Uploading(d)' \/ Queued(d)',
             \A m \in Msgs : queue[m] > 0 => queue'[m] > 0
      PROVE  Accountable(d)'
  <2>1. Accountable(d)
    BY <1>k
  <2>2. Queued(d) => Queued(d)'
    BY <1>k DEF Queued
  <2>3. \A w \in Workers : Holds(w, d) => Holds(w, d)'
    BY <1>k DEF Holds, workerVars, sessionVars
  <2> QED BY <2>1, <2>2, <2>3, <1>k DEF Accountable
<1>1. CASE InsertRow(e)
  <2>1. CASE d = e
    BY <1>1, <2>1 DEF InsertRow, Accountable, Uploading, TypeOK
  <2>2. CASE d # e
    BY <1>1, <2>2, <1>k DEF InsertRow, Uploading, TypeOK, storageVars
  <2> QED BY <2>1, <2>2
<1>2. CASE StoreFile(e)
  BY <1>2, <1>k DEF StoreFile, Uploading, TypeOK, dbVars
<1>3. CASE StoreFails(e)
  BY <1>3, <1>k DEF StoreFails, Uploading, TypeOK, dbVars
<1>4. CASE RollbackRow(e)
  <2>1. d # e /\ status[d] \in InFlight
    BY <1>4 DEF RollbackRow, DropRows, InFlight
  <2> QED BY <1>4, <2>1, <1>k DEF RollbackRow, Uploading, TypeOK
<1>5. CASE Dispatch(e)
  <2>1. \A m \in Msgs : queue[m] > 0 => queue'[m] > 0
    BY <1>5, MsgTyped DEF Dispatch, Publish, TypeOK
  <2>2. Msg(e, 0) \in Msgs /\ Msg(e, 0).doc = e /\ queue'[Msg(e, 0)] > 0
    BY <1>5, MsgTyped DEF Dispatch, Publish, TypeOK, Msg
  <2>3. Queued(e)'
    BY <2>2 DEF Queued
  <2> QED BY <1>5, <2>1, <2>3, <1>k DEF Dispatch, Uploading, TypeOK, dbVars
<1>6. CASE UploadStops(e)
  BY <1>6 DEF UploadStops, NothingDropped
<1>7. CASE DeleteRow(e)
  <2>1. status[d] \in InFlight
    BY <1>7 DEF DeleteRow, DropRows, InFlight
  <2> QED BY <1>7, <2>1, <1>k DEF DeleteRow, Uploading, TypeOK
<1>8. CASE DeletionStep(e)
  BY <1>8, <1>k DEF DeletionStep, DeleteFile, DeleteFileFails, Uploading, TypeOK,
                    dbVars
<1> QED
  BY <1>1, <1>2, <1>3, <1>4, <1>5, <1>6, <1>7, <1>8 DEF UploadStep

LEMMA CompanyAccounted ==
  ASSUME OwnerInv, NEW c \in Companies, DeleteCompany(c)
  PROVE  Accounted'
<1> SUFFICES ASSUME NEW d \in Docs, status'[d] \in InFlight
             PROVE  Accountable(d)'
  BY DEF Accounted
<1>1. status[d] \in InFlight
  BY DEF DeleteCompany, DropRows, InFlight
<1>2. Accountable(d)
  BY <1>1 DEF OwnerInv, Accounted
<1> QED
  BY <1>2 DEF DeleteCompany, Accountable, Uploading, Queued, Holds, apiVars,
              workerVars, sessionVars

\* What a worker does to the document of its message: it stays responsible,
\* hands over to a message in the queue, or leaves it settled -- and where a
\* commit left the status alone, somebody else was responsible all along.
LEMMA OwnDocument ==
  ASSUME OwnerInv, NothingDropped, NEW w \in Workers, TaskStep(w),
         NEW d \in Docs, task[w].doc = d, status'[d] \in InFlight
  PROVE  \/ Holds(w, d)'
         \/ Queued(d)'
         \/ ~Holds(w, d) /\ status[d] \in InFlight
<1> USE DEF OwnerInv, Goto, Working
<1>0. pc[w] # "idle"
  BY DEF TaskStep, Begin, BeginFails, Download, Extract, CommitIngestion,
         StepFails, Cleanup, CleanupFails, HandleRetry, HandleFailed, Republish,
         RepublishFails, Finish
<1>d. task[w] \in Msgs
  BY <1>0, BusyHoldsMessage
<1>1. CASE Begin(w)
  BY <1>1 DEF Begin, Holds, TypeOK
<1>2. CASE BeginFails(w)
  BY <1>2 DEF BeginFails, Holds, TypeOK
<1>3. CASE Download(w)
  BY <1>3 DEF Download, Holds, TypeOK
<1>4. CASE Extract(w)
  <2>1. status[d] \in InFlight
    BY <1>4 DEF Extract, dbVars
  <2> QED BY <1>4, <2>1 DEF Extract, Holds, InFlight, TypeOK
<1>5. CASE CommitIngestion(w)
  <2>1. CASE WritesStatus(w, "COMPLETED")
    BY <1>5, <2>1, <1>d DEF CommitIngestion, SetStatus, InFlight, TypeOK
  <2>2. CASE ~WritesStatus(w, "COMPLETED")
    BY <1>5, <2>2 DEF CommitIngestion, WritesStatus, Holds
  <2> QED BY <2>1, <2>2
<1>6. CASE StepFails(w)
  BY <1>6 DEF StepFails, Holds, TypeOK
<1>7. CASE Cleanup(w)
  BY <1>7 DEF Cleanup, Holds, dbVars
<1>8. CASE CleanupFails(w)
  BY <1>8 DEF CleanupFails, Holds, TypeOK
<1>9. CASE HandleRetry(w)
  BY <1>9 DEF HandleRetry, Holds, TypeOK
<1>10. CASE HandleFailed(w)
  <2>1. SetStatus(d, "FAILED")
    BY <1>10 DEF HandleFailed, RecordFailure, NothingDropped
  <2> QED BY <2>1, <1>d DEF SetStatus, HasRow, InFlight, TypeOK
<1>11. CASE Republish(w)
  <2> DEFINE m == Msg(d, task[w].retries + 1)
  <2>1. m \in Msgs /\ m.doc = d
    BY <1>11, <1>d, MsgTyped, BoundsAssumption
       DEF Republish, RetriesLeft, Msg, Msgs
  <2>2. queue'[m] = queue[m] + 1
    BY <1>11, <2>1 DEF Republish, Publish, TypeOK
  <2>3. queue'[m] > 0
    BY <2>1, <2>2 DEF TypeOK
  <2> QED BY <2>1, <2>3 DEF Queued
<1>12. CASE RepublishFails(w)
  BY <1>12 DEF RepublishFails, NothingDropped
<1>13. CASE Finish(w)
  BY <1>13 DEF Finish, Holds, dbVars
<1> QED
  BY <1>1, <1>2, <1>3, <1>4, <1>5, <1>6, <1>7, <1>8, <1>9, <1>10, <1>11, <1>12,
     <1>13 DEF TaskStep

LEMMA TaskAccounted ==
  ASSUME OwnerInv, NothingDropped, NEW w \in Workers, TaskStep(w)
  PROVE  Accounted'
<1> SUFFICES ASSUME NEW d \in Docs, status'[d] \in InFlight
             PROVE  Accountable(d)'
  BY DEF Accounted
<1>1. /\ upload' = upload
      /\ \A v \in Workers \ {w} :
           pc'[v] = pc[v] /\ task'[v] = task[v] /\ seen'[v] = seen[v]
      /\ pc[w] # "idle"
  BY DEF TaskStep, Begin, BeginFails, Download, Extract, CommitIngestion,
         StepFails, Cleanup, CleanupFails, HandleRetry, HandleFailed, Republish,
         RepublishFails, Finish, Reset, Goto, OwnerInv, TypeOK, apiVars, sessionVars
<1>2. \A m \in Msgs : queue[m] > 0 => queue'[m] > 0
  <2>1. CASE Republish(w)
    <3> DEFINE n == Msg(task[w].doc, task[w].retries + 1)
    <3>1. queue' = [m \in Msgs |-> IF m = n THEN queue[m] + 1 ELSE queue[m]]
      BY <2>1 DEF Republish, Publish, OwnerInv, TypeOK
    <3>2. \A m \in Msgs : queue[m] \in Nat
      BY DEF OwnerInv, TypeOK
    <3> HIDE DEF n
    <3> QED BY <3>1, <3>2
  <2>2. CASE ~Republish(w)
    BY <2>2 DEF TaskStep, Begin, BeginFails, Download, Extract, CommitIngestion,
         StepFails, Cleanup, CleanupFails, HandleRetry, HandleFailed,
         RepublishFails, Finish
  <2> QED BY <2>1, <2>2
<1>3. CASE task[w].doc = d
  <2>1. Holds(w, d)' \/ Queued(d)' => Accountable(d)'
    BY DEF Accountable
  <2>2. ASSUME ~Holds(w, d), status[d] \in InFlight PROVE Accountable(d)'
    <3>1. Accountable(d)
      BY <2>2 DEF OwnerInv, Accounted
    <3> QED BY <3>1, <2>2, <1>1, <1>2, OthersAnswer
  <2> QED BY <1>3, <2>1, <2>2, OwnDocument
<1>4. CASE task[w].doc # d
  <2>1. status[d] \in InFlight
    BY <1>4 DEF TaskStep, Begin, BeginFails, Download, Extract, CommitIngestion,
         StepFails, Cleanup, CleanupFails, HandleRetry, HandleFailed, Republish,
         RepublishFails, Finish, RecordFailure, SetStatus, OwnerInv, TypeOK, dbVars
  <2>2. Accountable(d) /\ ~Holds(w, d)
    BY <1>4, <2>1 DEF OwnerInv, Accounted, Holds
  <2> QED BY <2>2, <1>1, <1>2, OthersAnswer
<1> QED BY <1>3, <1>4

\* A message that is taken from the queue is held by the worker, unless the
\* row is gone; one that a crash or a redelivery puts back is in the queue.
LEMMA DeliveryAccounted ==
  ASSUME OwnerInv, NothingDropped, NEW w \in Workers,
         \/ \E m \in Msgs : Receive(w, m)
         \/ Crash(w) \/ Redeliver(w)
  PROVE  Accounted'
<1> SUFFICES ASSUME NEW d \in Docs, status'[d] \in InFlight
             PROVE  Accountable(d)'
  BY DEF Accounted
<1>1. status[d] \in InFlight /\ upload' = upload
  BY DEF Receive, Crash, Redeliver, dbVars, apiVars
<1>2. Accountable(d)
  BY <1>1 DEF OwnerInv, Accounted
<1>3. ASSUME NEW m \in Msgs, Receive(w, m) PROVE Accountable(d)'
  <2>1. ~Holds(w, d)
    BY <1>3 DEF Receive, Holds, Working
  <2>2. \A v \in Workers \ {w} :
          pc'[v] = pc[v] /\ task'[v] = task[v] /\ seen'[v] = seen[v]
    BY <1>3 DEF Receive, Goto, OwnerInv, TypeOK
  <2>3. CASE m.doc = d
    <3>1. pc'[w] = "begin" /\ task'[w] = m
      BY <1>1, <1>3, <2>3 DEF Receive, Goto, HasRow, InFlight, OwnerInv, TypeOK
    <3>2. Holds(w, d)'
      BY <2>3, <3>1 DEF Holds, Working
    <3> QED BY <3>2 DEF Accountable
  <2>4. CASE m.doc # d
    <3>1. \A n \in Msgs : n.doc = d /\ queue[n] > 0 => queue'[n] > 0
      BY <1>3, <2>4 DEF Receive, OwnerInv, TypeOK
    <3> QED BY <1>1, <1>2, <2>1, <2>2, <3>1, OthersAnswer
  <2> QED BY <2>3, <2>4
<1>4. CASE Crash(w) \/ Redeliver(w)
  <2>1. task[w] \in Msgs
    BY <1>4, BusyHoldsMessage DEF Crash, Redeliver, OwnerInv
  <2>2. /\ queue'[task[w]] = queue[task[w]] + 1
        /\ \A n \in Msgs \ {task[w]} : queue'[n] = queue[n]
    BY <1>4, <2>1 DEF Crash, Redeliver, Publish, OwnerInv, TypeOK
  <2>3. \A n \in Msgs : queue[n] \in Nat
    BY DEF OwnerInv, TypeOK
  <2>4. \A n \in Msgs : queue[n] > 0 => queue'[n] > 0
    BY <2>2, <2>3
  <2>5. \A v \in Workers \ {w} :
          pc'[v] = pc[v] /\ task'[v] = task[v] /\ seen'[v] = seen[v]
    BY <1>4 DEF Crash, Redeliver, Reset, Goto, OwnerInv, TypeOK, workerVars, sessionVars
  <2>6. CASE Holds(w, d)
    <3>1. task[w].doc = d /\ queue'[task[w]] > 0
      BY <2>1, <2>2, <2>3, <2>6 DEF Holds
    <3>2. Queued(d)'
      BY <2>1, <3>1 DEF Queued
    <3> QED BY <3>2 DEF Accountable
  <2>7. CASE ~Holds(w, d)
    BY <1>1, <1>2, <2>4, <2>5, <2>7, OthersAnswer
  <2> QED BY <2>6, <2>7
<1> QED BY <1>3, <1>4

LEMMA NextOwnerInv ==
  ASSUME OwnerInv, NothingDropped, [Next]_vars
  PROVE  OwnerInv'
<1>1. TypeOK' /\ RetriesLeft'
  BY NextTypeOK, RetriesLeftStep DEF OwnerInv
<1>2. Accounted'
  <2>1. ASSUME NEW d \in Docs,
               InsertRow(d) \/ UploadStep(d) \/ UploadStops(d)
                 \/ DeleteRow(d) \/ DeletionStep(d)
        PROVE  Accounted'
    BY <2>1, ApiAccounted
  <2>2. ASSUME NEW c \in Companies, DeleteCompany(c) PROVE Accounted'
    BY <2>2, CompanyAccounted
  <2>3. ASSUME NEW w \in Workers, WorkerStep(w) \/ Crash(w) \/ Redeliver(w)
        PROVE  Accounted'
    BY <2>3, TaskAccounted, DeliveryAccounted DEF WorkerStep
  <2>4. ASSUME NEW w \in Workers, NEW m \in Msgs, LookupFails(w, m)
        PROVE  Accounted'
    BY <2>4 DEF LookupFails, NothingDropped
  <2>5. CASE UNCHANGED vars
    BY <2>5 DEF OwnerInv, Accounted, Accountable, Uploading, Queued, Holds, vars,
                dbVars, apiVars, workerVars, sessionVars
  <2> QED BY <2>1, <2>2, <2>3, <2>4, <2>5 DEF Next
<1> QED BY <1>1, <1>2 DEF OwnerInv

\* Whatever workers crash, messages are redelivered and storage operations
\* fail, a PENDING or PROCESSING document always has a request, a message or
\* a worker that will take it further, as long as no message or outcome is
\* dropped: late acknowledgement and publishing the retry first suffice.
THEOREM NoStranding ==
  ASSUME NothingDropped
  PROVE  Spec => []NoStrandedDocument
<1>1. Init => OwnerInv
  BY InitTypeOK DEF Init, OwnerInv, RetriesLeft, Accounted, InFlight
<1>2. OwnerInv /\ [Next]_vars => OwnerInv'
  BY NextOwnerInv
<1>3. OwnerInv => NoStrandedDocument
  BY DEF OwnerInv, Accounted, Accountable, Uploading, Queued, Holds,
         NoStrandedDocument, HasOwner
<1> QED BY <1>1, <1>2, <1>3, PTL DEF Spec

\* PENDING means what ProcessingStatus says of it, that the task is queued, as
\* long as neither the broker, nor the database, nor the API process fails
\* between the commit and the dispatch.
THEOREM PendingStaysQueued ==
  ASSUME NothingDropped
  PROVE  Spec => []PendingIsQueued
<1>1. NoStrandedDocument => PendingIsQueued
  BY DEF NoStrandedDocument, PendingIsQueued, InFlight
<1> QED BY <1>1, NoStranding, PTL

-----------------------------------------------------------------------------
(* Tenant isolation                                                        *)
(*                                                                         *)
(* Where bytes come from: a file under a reference is that of an upload    *)
(* with this reference; a download keeps the file name but forgets the     *)
(* company.                                                                *)

SameSource(c, d) ==
  FileOf[c] = FileOf[d] /\ (~Cloud => CompanyOf[c] = CompanyOf[d])

FilesKnown == \A r \in Refs : files[r] # None => Ref(files[r]) = r
TempKnown == \A f \in FileNames : temp[f] # None => TempPath(temp[f]) = f
ContentKnown ==
  \A w \in Workers : pc[w] = "embed" => SameSource(content[w], task[w].doc)
IndexKnown == \A d \in Docs : \A c \in indexed[d] : SameSource(c, d)

SourceInv == TypeOK /\ FilesKnown /\ TempKnown /\ ContentKnown /\ IndexKnown

LEMMA ApiSources ==
  ASSUME SourceInv, NEW d \in Docs,
         InsertRow(d) \/ UploadStep(d) \/ UploadStops(d)
           \/ DeleteRow(d) \/ DeletionStep(d)
  PROVE  FilesKnown' /\ TempKnown' /\ ContentKnown' /\ IndexKnown'
<1> USE DEF SourceInv
<1>1. TempKnown' /\ ContentKnown'
  BY DEF TempKnown, ContentKnown, InsertRow, UploadStep, StoreFile, StoreFails,
         RollbackRow, Dispatch, UploadStops, DeleteRow, DeletionStep, DeleteFile,
         DeleteFileFails, workerVars, sessionVars, storageVars
<1>2. FilesKnown'
  <2>1. \/ files' = files
        \/ files' = [files EXCEPT ![Ref(d)] = d]
        \/ files' = [files EXCEPT ![Ref(d)] = None]
    BY DEF InsertRow, UploadStep, StoreFile, StoreFails, RollbackRow, Dispatch,
         UploadStops, DeleteRow, DeletionStep, DeleteFile, DeleteFileFails,
         storageVars
  <2>2. \A r \in Refs : \/ files'[r] \in {files[r], None}
                       \/ (files'[r] = d /\ r = Ref(d))
    BY <2>1, MsgTyped DEF TypeOK
  <2> QED BY <2>2 DEF FilesKnown
<1>3. IndexKnown'
  <2>1. \A e \in Docs : indexed'[e] \in {indexed[e], {}}
    BY DEF InsertRow, UploadStep, StoreFile, StoreFails, RollbackRow, Dispatch,
         UploadStops, DeleteRow, DeletionStep, DeleteFile, DeleteFileFails,
         DropRows, dbVars
  <2> QED BY <2>1 DEF IndexKnown
<1> QED BY <1>1, <1>2, <1>3

LEMMA TaskSources ==
  ASSUME SourceInv, NEW w \in Workers, TaskStep(w)
  PROVE  FilesKnown' /\ TempKnown' /\ ContentKnown' /\ IndexKnown'
<1> DEFINE d == task[w].doc
<1> USE DEF SourceInv, Goto
<1>0. pc[w] # "idle"
  BY DEF TaskStep, Begin, BeginFails, Download, Extract, CommitIngestion,
         StepFails, Cleanup, CleanupFails, HandleRetry, HandleFailed, Republish,
         RepublishFails, Finish
<1>d. d \in Docs
  BY <1>0, BusyHoldsMessage
<1>1. FilesKnown'
  <2>1. files' = files \/ files' = [files EXCEPT ![Ref(d)] = None]
    BY DEF TaskStep, Begin, BeginFails, Download, Extract, CommitIngestion,
         StepFails, Cleanup, CleanupFails, HandleRetry, HandleFailed, Republish,
         RepublishFails, Finish, storageVars
  <2> QED BY <2>1, <1>d, MsgTyped DEF FilesKnown, TypeOK
<1>2. TempKnown'
  <2>1. CASE Download(w)
    <3>1. TempPath(files[Ref(d)]) = TempPath(d)
      BY <2>1, <1>d, MsgTyped DEF Download, FilesKnown, Ref, TempPath
    <3> QED BY <2>1, <3>1, <1>d, MsgTyped DEF Download, TempKnown, TypeOK
  <2>2. CASE ~Download(w)
    <3>1. temp' = temp \/ temp' = [temp EXCEPT ![TempPath(d)] = None]
      BY <2>2 DEF TaskStep, Begin, BeginFails, Extract, CommitIngestion,
         StepFails, Cleanup, CleanupFails, HandleRetry, HandleFailed, Republish,
         RepublishFails, Finish, storageVars
    <3> QED BY <3>1, <1>d, MsgTyped DEF TempKnown, TypeOK
  <2> QED BY <2>1, <2>2
<1>3. ContentKnown'
  <2>1. CASE Extract(w)
    <3>1. SourceFile(d) \in Docs
      BY <2>1, <1>d, MsgTyped DEF Extract, SourceFile, TypeOK
    <3>2. SameSource(SourceFile(d), d)
      BY <2>1, <1>d, <3>1, MsgTyped, DeploymentAssumption
         DEF Extract, SourceFile, SameSource, FilesKnown, TempKnown, Ref, TempPath
    <3> QED BY <2>1, <3>2 DEF Extract, ContentKnown, TypeOK
  <2>2. CASE ~Extract(w)
    BY <2>2 DEF TaskStep, Begin, BeginFails, Download, CommitIngestion,
         StepFails, Cleanup, CleanupFails, HandleRetry, HandleFailed, Republish,
         RepublishFails, Finish, Reset, ContentKnown, TypeOK, sessionVars
  <2> QED BY <2>1, <2>2
<1>4. IndexKnown'
  <2>1. CASE CommitIngestion(w)
    <3>1. SameSource(content[w], d)
      BY <2>1 DEF CommitIngestion, ContentKnown
    <3>2. indexed' = [indexed EXCEPT ![d] = indexed[d] \cup {content[w]}]
      BY <2>1 DEF CommitIngestion
    <3> QED BY <3>1, <3>2, <1>d DEF IndexKnown, TypeOK
  <2>2. CASE ~CommitIngestion(w)
    BY <2>2 DEF TaskStep, Begin, BeginFails, Download, Extract,
         StepFails, Cleanup, CleanupFails, HandleRetry, HandleFailed, Republish,
         RepublishFails, Finish, IndexKnown, dbVars
  <2> QED BY <2>1, <2>2
<1> QED BY <1>1, <1>2, <1>3, <1>4

LEMMA NextSources == SourceInv /\ [Next]_vars => SourceInv'
<1> SUFFICES ASSUME SourceInv, [Next]_vars
             PROVE  FilesKnown' /\ TempKnown' /\ ContentKnown' /\ IndexKnown'
  BY NextTypeOK DEF SourceInv
<1> DEFINE Kept == FilesKnown' /\ TempKnown' /\ ContentKnown' /\ IndexKnown'
<1>1. ASSUME NEW d \in Docs,
             InsertRow(d) \/ UploadStep(d) \/ UploadStops(d)
               \/ DeleteRow(d) \/ DeletionStep(d)
      PROVE  Kept
  BY <1>1, ApiSources
<1>2. ASSUME NEW c \in Companies, DeleteCompany(c) PROVE Kept
  BY <1>2 DEF DeleteCompany, DropRows, SourceInv, FilesKnown, TempKnown,
              ContentKnown, IndexKnown, storageVars, workerVars, sessionVars
<1>3. ASSUME NEW w \in Workers, TaskStep(w) PROVE Kept
  BY <1>3, TaskSources
<1>4. ASSUME NEW w \in Workers,
             \/ \E m \in Msgs : Receive(w, m) \/ LookupFails(w, m)
             \/ Crash(w) \/ Redeliver(w)
      PROVE  Kept
  <2>1. UNCHANGED <<files, temp, indexed>>
    BY <1>4 DEF Receive, LookupFails, Crash, Redeliver, dbVars, storageVars
  <2>2. \A v \in Workers : pc'[v] = "embed" =>
          pc[v] = "embed" /\ content'[v] = content[v] /\ task'[v] = task[v]
    BY <1>4 DEF Receive, LookupFails, Crash, Redeliver, Reset, Goto, SourceInv,
                TypeOK, workerVars, sessionVars
  <2> QED
    BY <2>1, <2>2 DEF SourceInv, FilesKnown, TempKnown, ContentKnown, IndexKnown
<1>5. CASE UNCHANGED vars
  BY <1>5 DEF SourceInv, FilesKnown, TempKnown, ContentKnown, IndexKnown, vars,
              dbVars, storageVars, workerVars, sessionVars
<1> QED BY <1>1, <1>2, <1>3, <1>4, <1>5 DEF Next, WorkerStep

\* The chunks of a document hold text of its own company only, wherever files
\* are read in place, or no two companies' uploads get the same file name.
\* S3 downloads with equal names are exactly what is left out.
THEOREM Isolation ==
  ASSUME \/ ~Cloud
         \/ \A c, d \in Docs : FileOf[c] = FileOf[d] => CompanyOf[c] = CompanyOf[d]
  PROVE  Spec => []TenantIsolation
<1>1. Init => SourceInv
  BY InitTypeOK DEF Init, SourceInv, FilesKnown, TempKnown, ContentKnown, IndexKnown
<1>2. SourceInv /\ [Next]_vars => SourceInv'
  BY NextSources
<1>3. SourceInv => TenantIsolation
  BY DEF SourceInv, TypeOK, IndexKnown, SameSource, TenantIsolation
<1> QED BY <1>1, <1>2, <1>3, PTL DEF Spec

-----------------------------------------------------------------------------
(* Deleted documents, and the source file of a document                    *)
(*                                                                         *)
(* Both need the order of a document's life: before its upload there is no *)
(* row, no message and no worker for it, a deletion under way has removed  *)
(* the row, and a worker that cleans up has committed chunks.              *)

RowlessEmpty ==
  \A d \in Docs : ~HasRow(d) => passes[d] = 0 /\ indexed[d] = {}

NotBegun(d) ==
  /\ ~HasRow(d)
  /\ deletion[d] = "none"
  /\ \A m \in Msgs : m.doc = d => queue[m] = 0
  /\ \A w \in Workers : task[w] # None => task[w].doc # d

UploadFirst == \A d \in Docs : upload[d] = "none" => NotBegun(d)

DeletingRowless == \A d \in Docs : deletion[d] = "deleting" => ~HasRow(d)

CleanupCommitted ==
  \A w \in Workers :
    pc[w] = "cleanup" /\ HasRow(task[w].doc) => passes[task[w].doc] > 0

LifeInv ==
  TypeOK /\ RowlessEmpty /\ UploadFirst /\ DeletingRowless /\ CleanupCommitted

\* A step of the task neither creates nor removes a row, and takes no chunks
\* away.
LEMMA TaskKeepsRows ==
  ASSUME TypeOK, NEW w \in Workers, TaskStep(w), NEW d \in Docs
  PROVE  /\ HasRow(d)' <=> HasRow(d)
         /\ passes'[d] >= passes[d] /\ passes'[d] \in Nat
         /\ ~HasRow(d) => passes'[d] = passes[d] /\ indexed'[d] = indexed[d]
<1>1. HasRow(d)' <=> HasRow(d)
  BY DEF TaskStep, Begin, BeginFails, Download, Extract, CommitIngestion,
         StepFails, Cleanup, CleanupFails, HandleRetry, HandleFailed, Republish,
         RepublishFails, Finish, RecordFailure, SetStatus, HasRow, TypeOK, dbVars
<1>2. CASE CommitIngestion(w)
  BY <1>1, <1>2 DEF CommitIngestion, HasRow, TypeOK
<1>3. CASE ~CommitIngestion(w)
  <2>1. UNCHANGED <<passes, indexed>>
    BY <1>3 DEF TaskStep, Begin, BeginFails, Download, Extract,
         StepFails, Cleanup, CleanupFails, HandleRetry, HandleFailed, Republish,
         RepublishFails, Finish, dbVars
  <2> QED BY <1>1, <2>1 DEF TypeOK
<1> QED BY <1>2, <1>3

LEMMA ApiLife ==
  ASSUME LifeInv, NEW e \in Docs,
         InsertRow(e) \/ UploadStep(e) \/ UploadStops(e)
           \/ DeleteRow(e) \/ DeletionStep(e)
  PROVE  RowlessEmpty' /\ UploadFirst' /\ DeletingRowless' /\ CleanupCommitted'
<1> USE DEF LifeInv, RowlessEmpty, UploadFirst, DeletingRowless, CleanupCommitted,
            NotBegun, HasRow, workerVars, dbVars, storageVars
<1>h. \A w \in Workers : pc[w] = "cleanup" => task[w].doc \in Docs /\ task[w] # None
  BY BusyHoldsMessage
<1>1. CASE InsertRow(e)
  BY <1>1, <1>h DEF InsertRow, TypeOK
<1>2. CASE StoreFile(e) \/ StoreFails(e) \/ UploadStops(e)
  BY <1>2, <1>h DEF StoreFile, StoreFails, UploadStops, TypeOK
<1>3. CASE RollbackRow(e)
  BY <1>3, <1>h DEF RollbackRow, DropRows, TypeOK
<1>4. CASE Dispatch(e)
  <2>1. \A m \in Msgs : m.doc # e => queue'[m] = queue[m]
    BY <1>4, MsgTyped DEF Dispatch, Publish, Msg, TypeOK
  <2> QED BY <1>4, <1>h, <2>1 DEF Dispatch, TypeOK
<1>5. CASE DeleteRow(e)
  BY <1>5, <1>h DEF DeleteRow, DropRows, TypeOK
<1>6. CASE DeletionStep(e)
  BY <1>6, <1>h DEF DeletionStep, DeleteFile, DeleteFileFails, TypeOK
<1> QED BY <1>1, <1>2, <1>3, <1>4, <1>5, <1>6 DEF UploadStep

LEMMA TaskLife ==
  ASSUME LifeInv, NEW w \in Workers, TaskStep(w)
  PROVE  RowlessEmpty' /\ UploadFirst' /\ DeletingRowless' /\ CleanupCommitted'
<1> DEFINE d == task[w].doc
<1> USE DEF LifeInv
<1>0. pc[w] # "idle"
  BY DEF TaskStep, Begin, BeginFails, Download, Extract, CommitIngestion,
         StepFails, Cleanup, CleanupFails, HandleRetry, HandleFailed, Republish,
         RepublishFails, Finish
<1>d. d \in Docs /\ task[w] # None
  BY <1>0, BusyHoldsMessage
<1>1. RowlessEmpty'
  BY TaskKeepsRows DEF RowlessEmpty
<1>2. DeletingRowless'
  <2>1. deletion' = deletion
    BY DEF TaskStep, Begin, BeginFails, Download, Extract, CommitIngestion,
         StepFails, Cleanup, CleanupFails, HandleRetry, HandleFailed, Republish,
         RepublishFails, Finish, apiVars
  <2> QED BY <2>1, TaskKeepsRows DEF DeletingRowless
<1>3. UploadFirst'
  <2>1. UNCHANGED <<upload, deletion>>
    BY DEF TaskStep, Begin, BeginFails, Download, Extract, CommitIngestion,
         StepFails, Cleanup, CleanupFails, HandleRetry, HandleFailed, Republish,
         RepublishFails, Finish, apiVars
  <2>2. \A v \in Workers : task'[v] \in {task[v], None}
    BY DEF TaskStep, Begin, BeginFails, Download, Extract, CommitIngestion,
         StepFails, Cleanup, CleanupFails, HandleRetry, HandleFailed, Republish,
         RepublishFails, Finish, Reset, TypeOK
  <2>3. \A m \in Msgs : m.doc # d => queue'[m] = queue[m]
    BY DEF TaskStep, Begin, BeginFails, Download, Extract, CommitIngestion,
         StepFails, Cleanup, CleanupFails, HandleRetry, HandleFailed, Republish,
         RepublishFails, Finish, Publish, Msg, TypeOK
  <2>4. upload[d] # "none"
    BY <1>d DEF UploadFirst, NotBegun
  <2> QED
    BY <1>d, <2>1, <2>2, <2>3, <2>4, TaskKeepsRows DEF UploadFirst, NotBegun
<1>4. CleanupCommitted'
  <2> SUFFICES ASSUME NEW v \in Workers, pc'[v] = "cleanup", HasRow(task[v].doc)'
               PROVE  passes'[task'[v].doc] > 0
    BY DEF CleanupCommitted
  <2>1. CASE v = w /\ CommitIngestion(w)
    BY <2>1, <1>d DEF CommitIngestion, TypeOK
  <2>2. CASE ~(v = w /\ CommitIngestion(w))
    <3>1. pc[v] = "cleanup" /\ task'[v] = task[v]
      BY <2>2 DEF TaskStep, Begin, BeginFails, Download, Extract, CommitIngestion,
         StepFails, Cleanup, CleanupFails, HandleRetry, HandleFailed, Republish,
         RepublishFails, Finish, Reset, Goto, TypeOK
    <3>2. task[v].doc \in Docs
      BY <3>1, BusyHoldsMessage
    <3>3. HasRow(task[v].doc)
      BY <3>1, <3>2, TaskKeepsRows DEF HasRow
    <3>4. passes[task[v].doc] > 0 /\ passes[task[v].doc] \in Nat
      BY <3>1, <3>2, <3>3 DEF CleanupCommitted, TypeOK
    <3> QED BY <3>1, <3>2, <3>4, TaskKeepsRows
  <2> QED BY <2>1, <2>2
<1> QED BY <1>1, <1>2, <1>3, <1>4

LEMMA DeliveryLife ==
  ASSUME LifeInv, NEW w \in Workers,
         \/ \E m \in Msgs : Receive(w, m) \/ LookupFails(w, m)
         \/ Crash(w) \/ Redeliver(w)
  PROVE  RowlessEmpty' /\ UploadFirst' /\ DeletingRowless' /\ CleanupCommitted'
<1> USE DEF LifeInv
<1>1. UNCHANGED <<status, passes, indexed, upload, deletion>>
  BY DEF Receive, LookupFails, Crash, Redeliver, dbVars, apiVars
<1>2. \A v \in Workers : pc'[v] = "cleanup" =>
        pc[v] = "cleanup" /\ task'[v] = task[v]
  BY DEF Receive, LookupFails, Crash, Redeliver, Reset, Goto, TypeOK, HasRow,
         workerVars
<1>3. RowlessEmpty' /\ DeletingRowless' /\ CleanupCommitted'
  BY <1>1, <1>2 DEF RowlessEmpty, DeletingRowless, CleanupCommitted, HasRow
<1>4. UploadFirst'
  <2> SUFFICES ASSUME NEW d \in Docs, upload'[d] = "none" PROVE NotBegun(d)'
    BY DEF UploadFirst
  <2>1. NotBegun(d)
    BY <1>1 DEF UploadFirst
  <2>2. ASSUME NEW m \in Msgs, Receive(w, m) \/ LookupFails(w, m)
        PROVE  NotBegun(d)'
    <3>1. m.doc # d
      BY <2>1, <2>2 DEF NotBegun, Receive, LookupFails
    <3> QED
      BY <1>1, <2>1, <2>2, <3>1
         DEF NotBegun, HasRow, Receive, LookupFails, TypeOK, workerVars
  <2>3. CASE Crash(w) \/ Redeliver(w)
    <3>1. task[w] \in Msgs /\ task[w] # None
      BY <2>3, BusyHoldsMessage DEF Crash, Redeliver
    <3>2. task[w].doc # d
      BY <2>1, <3>1 DEF NotBegun
    <3>3. \A m \in Msgs : m.doc = d => queue'[m] = queue[m]
      BY <2>3, <3>1, <3>2 DEF Crash, Redeliver, Publish, TypeOK
    <3>4. \A v \in Workers : task'[v] \in {task[v], None}
      BY <2>3 DEF Crash, Redeliver, Reset, TypeOK, workerVars
    <3> QED BY <1>1, <2>1, <3>3, <3>4 DEF NotBegun, HasRow
  <2> QED BY <2>2, <2>3
<1> QED BY <1>3, <1>4

LEMMA NextLife == LifeInv /\ [Next]_vars => LifeInv'
<1> SUFFICES ASSUME LifeInv, [Next]_vars
             PROVE  /\ RowlessEmpty' /\ UploadFirst'
                    /\ DeletingRowless' /\ CleanupCommitted'
  BY NextTypeOK DEF LifeInv
<1> DEFINE Kept ==
  RowlessEmpty' /\ UploadFirst' /\ DeletingRowless' /\ CleanupCommitted'
<1>1. ASSUME NEW d \in Docs,
             InsertRow(d) \/ UploadStep(d) \/ UploadStops(d)
               \/ DeleteRow(d) \/ DeletionStep(d)
      PROVE  Kept
  BY <1>1, ApiLife
<1>2. ASSUME NEW c \in Companies, DeleteCompany(c) PROVE Kept
  <2>1. \A w \in Workers : pc[w] = "cleanup" => task[w].doc \in Docs
    BY BusyHoldsMessage DEF LifeInv
  <2> QED
    BY <1>2, <2>1 DEF DeleteCompany, DropRows, LifeInv, RowlessEmpty, UploadFirst,
         NotBegun, DeletingRowless, CleanupCommitted, HasRow, TypeOK, apiVars,
         workerVars
<1>3. ASSUME NEW w \in Workers, TaskStep(w) PROVE Kept
  BY <1>3, TaskLife
<1>4. ASSUME NEW w \in Workers,
             \/ \E m \in Msgs : Receive(w, m) \/ LookupFails(w, m)
             \/ Crash(w) \/ Redeliver(w)
      PROVE  Kept
  BY <1>4, DeliveryLife
<1>5. CASE UNCHANGED vars
  BY <1>5 DEF LifeInv, RowlessEmpty, UploadFirst, NotBegun, DeletingRowless,
              CleanupCommitted, HasRow, vars, dbVars, apiVars, workerVars
<1> QED BY <1>1, <1>2, <1>3, <1>4, <1>5 DEF Next, WorkerStep

LEMMA InitLife == Init => LifeInv
BY InitTypeOK DEF Init, LifeInv, RowlessEmpty, UploadFirst, NotBegun,
   DeletingRowless, CleanupCommitted, HasRow

\* A row that is gone stays gone and gets no chunks, whatever any request,
\* worker or fault does next.
LEMMA StaysDeletedStep ==
  ASSUME LifeInv, Next, NEW d \in Docs
  PROVE  StaysDeleted(d)
<1> SUFFICES ASSUME ~HasRow(d), upload[d] # "none"
             PROVE  status'[d] = "NO_ROW" /\ passes'[d] = 0 /\ indexed'[d] = {}
  BY DEF StaysDeleted
<1>0. status[d] = "NO_ROW" /\ passes[d] = 0 /\ indexed[d] = {}
  BY DEF HasRow, LifeInv, RowlessEmpty
<1>1. ASSUME NEW e \in Docs,
             InsertRow(e) \/ UploadStep(e) \/ UploadStops(e)
               \/ DeleteRow(e) \/ DeletionStep(e)
      PROVE  status'[d] = "NO_ROW" /\ passes'[d] = 0 /\ indexed'[d] = {}
  BY <1>0, <1>1 DEF InsertRow, UploadStep, StoreFile, StoreFails, RollbackRow,
       Dispatch, UploadStops, DeleteRow, DeletionStep, DeleteFile, DeleteFileFails,
       DropRows, dbVars, LifeInv, TypeOK
<1>2. ASSUME NEW c \in Companies, DeleteCompany(c)
      PROVE  status'[d] = "NO_ROW" /\ passes'[d] = 0 /\ indexed'[d] = {}
  BY <1>0, <1>2 DEF DeleteCompany, DropRows
<1>3. ASSUME NEW w \in Workers, TaskStep(w)
      PROVE  status'[d] = "NO_ROW" /\ passes'[d] = 0 /\ indexed'[d] = {}
  BY <1>0, <1>3, TaskKeepsRows DEF HasRow, LifeInv
<1>4. ASSUME NEW w \in Workers,
             \/ \E m \in Msgs : Receive(w, m) \/ LookupFails(w, m)
             \/ Crash(w) \/ Redeliver(w)
      PROVE  status'[d] = "NO_ROW" /\ passes'[d] = 0 /\ indexed'[d] = {}
  BY <1>0, <1>4 DEF Receive, LookupFails, Crash, Redeliver, dbVars
<1> QED BY <1>1, <1>2, <1>3, <1>4 DEF Next, WorkerStep

\* A deleted document never comes back and never gets chunks, even while a
\* worker is in the middle of ingesting it.
THEOREM DeletedForGood == Spec => DeletedStaysDeleted
<1>1. Init => LifeInv
  BY InitLife
<1>2. LifeInv /\ [Next]_vars => LifeInv'
  BY NextLife
<1>3. LifeInv /\ [Next]_vars => [\A d \in Docs : StaysDeleted(d)]_vars
  BY StaysDeletedStep
<1> QED BY <1>1, <1>2, <1>3, PTL DEF Spec, DeletedStaysDeleted

DistinctRefs == \A c, d \in Docs : Ref(c) = Ref(d) => c = d

\* SourceKept from the moment the file is stored, not only once the upload
\* request is done.
FileKept ==
  \A d \in Docs :
    HasRow(d) /\ upload[d] \in {"stored", "done"} /\ passes[d] = 0
      => files[Ref(d)] = d

LEMMA ApiFileKept ==
  ASSUME LifeInv, FileKept, DistinctRefs, NEW e \in Docs,
         InsertRow(e) \/ UploadStep(e) \/ UploadStops(e)
           \/ DeleteRow(e) \/ DeletionStep(e)
  PROVE  FileKept'
<1> SUFFICES ASSUME NEW d \in Docs, HasRow(d)', upload'[d] \in {"stored", "done"},
                    passes'[d] = 0
             PROVE  files'[Ref(d)] = d
  BY DEF FileKept, Ref
<1> USE DEF LifeInv
<1>1. CASE InsertRow(e)
  BY <1>1 DEF InsertRow, FileKept, HasRow, TypeOK, storageVars
<1>2. CASE StoreFile(e)
  BY <1>2, MsgTyped DEF StoreFile, FileKept, HasRow, DistinctRefs, TypeOK, dbVars
<1>3. CASE StoreFails(e)
  BY <1>3, MsgTyped DEF StoreFails, FileKept, HasRow, DistinctRefs, TypeOK, dbVars
<1>4. CASE RollbackRow(e)
  BY <1>4 DEF RollbackRow, DropRows, FileKept, HasRow, TypeOK, storageVars
<1>5. CASE Dispatch(e)
  BY <1>5 DEF Dispatch, FileKept, HasRow, TypeOK, dbVars, storageVars
<1>6. CASE UploadStops(e)
  BY <1>6 DEF UploadStops, FileKept, HasRow, TypeOK, dbVars, storageVars
<1>7. CASE DeleteRow(e)
  BY <1>7 DEF DeleteRow, DropRows, FileKept, HasRow, storageVars
<1>8. CASE DeleteFile(e)
  <2>1. d # e /\ Ref(d) # Ref(e)
    BY <1>8 DEF DeleteFile, DeletingRowless, DistinctRefs, HasRow, dbVars
  <2> QED
    BY <1>8, <2>1, MsgTyped DEF DeleteFile, FileKept, HasRow, TypeOK, dbVars
<1>9. CASE DeleteFileFails(e)
  BY <1>9 DEF DeleteFileFails, FileKept, HasRow, dbVars, storageVars
<1> QED
  BY <1>1, <1>2, <1>3, <1>4, <1>5, <1>6, <1>7, <1>8, <1>9
     DEF UploadStep, DeletionStep

LEMMA TaskFileKept ==
  ASSUME LifeInv, FileKept, DistinctRefs, NEW w \in Workers, TaskStep(w)
  PROVE  FileKept'
<1> SUFFICES ASSUME NEW d \in Docs, HasRow(d)', upload'[d] \in {"stored", "done"},
                    passes'[d] = 0
             PROVE  files'[Ref(d)] = d
  BY DEF FileKept, Ref
<1>1. HasRow(d) /\ passes[d] = 0
  BY TaskKeepsRows DEF LifeInv, TypeOK
<1>2. upload' = upload
  BY DEF TaskStep, Begin, BeginFails, Download, Extract, CommitIngestion,
         StepFails, Cleanup, CleanupFails, HandleRetry, HandleFailed, Republish,
         RepublishFails, Finish, apiVars
<1>3. files[Ref(d)] = d
  BY <1>1, <1>2 DEF FileKept
<1>4. CASE Cleanup(w)
  <2>1. task[w].doc \in Docs
    BY <1>4, BusyHoldsMessage DEF Cleanup, LifeInv
  <2>2. task[w].doc # d
    <3>1. HasRow(task[w].doc) => passes[task[w].doc] > 0
      BY <1>4 DEF Cleanup, LifeInv, CleanupCommitted
    <3> QED BY <1>1, <3>1
  <2>3. Ref(task[w].doc) # Ref(d)
    BY <2>1, <2>2 DEF DistinctRefs
  <2> QED BY <1>3, <1>4, <2>3, MsgTyped DEF Cleanup, LifeInv, TypeOK
<1>5. CASE ~Cleanup(w)
  <2>1. files' = files
    BY <1>5 DEF TaskStep, Begin, BeginFails, Download, Extract, CommitIngestion,
         StepFails, CleanupFails, HandleRetry, HandleFailed, Republish,
         RepublishFails, Finish, storageVars
  <2> QED BY <1>3, <2>1
<1> QED BY <1>4, <1>5

LEMMA NextFileKept ==
  ASSUME LifeInv, FileKept, DistinctRefs, [Next]_vars
  PROVE  FileKept'
<1>1. ASSUME NEW d \in Docs,
             InsertRow(d) \/ UploadStep(d) \/ UploadStops(d)
               \/ DeleteRow(d) \/ DeletionStep(d)
      PROVE  FileKept'
  BY <1>1, ApiFileKept
<1>2. ASSUME NEW c \in Companies, DeleteCompany(c) PROVE FileKept'
  BY <1>2 DEF DeleteCompany, DropRows, FileKept, HasRow, Ref, storageVars, apiVars
<1>3. ASSUME NEW w \in Workers, TaskStep(w) PROVE FileKept'
  BY <1>3, TaskFileKept
<1>4. ASSUME NEW w \in Workers,
             \/ \E m \in Msgs : Receive(w, m) \/ LookupFails(w, m)
             \/ Crash(w) \/ Redeliver(w)
      PROVE  FileKept'
  BY <1>4 DEF Receive, LookupFails, Crash, Redeliver, FileKept, HasRow, Ref, dbVars,
              storageVars, apiVars
<1>5. CASE UNCHANGED vars
  BY <1>5 DEF FileKept, HasRow, Ref, vars, dbVars, storageVars, apiVars
<1> QED BY <1>1, <1>2, <1>3, <1>4, <1>5 DEF Next, WorkerStep

\* As long as no two uploads share a storage reference, a document that has
\* been dispatched and not yet been ingested still has its file, under any
\* combination of faults, so that every retry can read it.
THEOREM SourceStays ==
  ASSUME DistinctRefs
  PROVE  Spec => []SourceKept
<1> DEFINE Inv == LifeInv /\ FileKept
<1>1. Init => Inv
  BY InitLife DEF Init, FileKept
<1>2. Inv /\ [Next]_vars => Inv'
  BY NextLife, NextFileKept
<1>3. Inv => SourceKept
  BY DEF FileKept, SourceKept
<1> QED BY <1>1, <1>2, <1>3, PTL DEF Spec
=============================================================================
