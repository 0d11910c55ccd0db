-------------------------- MODULE LifecycleProofs --------------------------
(***************************************************************************)
(* Ingestion implements DocumentLifecycle, for any number of documents,    *)
(* companies and workers and any retry limit, as long as every message is  *)
(* delivered once; and what the pipeline leaves behind in the storage and  *)
(* in the temporary directory.                                             *)
(***************************************************************************)
EXTENDS IngestionProofs

\* Every message is delivered once, the database answers, and the storage
\* deletes what it is told to.  Requests may stop, uploads to the storage may
\* fail, the broker may be down.
Calm == Faults \cap {"worker_crash", "redelivery", "delete_error", "db_error"} = {}

-----------------------------------------------------------------------------
(* The invariant: at most one of the upload request, a message and a worker *)
(* is in charge of a document, and its row says how far they are.           *)

Engaged(w, d) == pc[w] \notin {"idle", "ack"} /\ task[w].doc = d

Waiting(d) == \E m \in Msgs : m.doc = d /\ queue[m] > 0

Claims ==
  /\ \A d \in Docs :
       upload[d] # "done" => ~Waiting(d) /\ \A w \in Workers : ~Engaged(w, d)
  /\ \A d \in Docs : Waiting(d) => \A w \in Workers : ~Engaged(w, d)
  /\ \A m \in Msgs : queue[m] <= 1
  /\ \A m, n \in Msgs : m.doc = n.doc /\ queue[m] > 0 /\ queue[n] > 0 => m = n
  /\ \A d \in Docs : \A v, w \in Workers :
       Engaged(v, d) /\ Engaged(w, d) => v = w

\* The status of a row while a worker is at l.
StatusAt(l) ==
  CASE l \in {"begin", "republish"} -> "PENDING"
    [] l \in {"download", "extract", "embed", "handle"} -> "PROCESSING"
    [] l = "cleanup" -> "COMPLETED"

Rows ==
  \A d \in Docs : HasRow(d) =>
    /\ upload[d] # "done" => status[d] = "PENDING"
    /\ Waiting(d) => status[d] = "PENDING"
    /\ \A w \in Workers : Engaged(w, d) => status[d] = StatusAt(pc[w])
    /\ status[d] # "COMPLETED" => passes[d] = 0

Loaded ==
  \A w \in Workers :
    /\ pc[w] = "begin" => seen[w] = "PENDING"
    /\ pc[w] = "embed" => seen[w] = "PROCESSING"

CalmInv == LifeInv /\ RetriesLeft /\ Claims /\ Rows /\ Loaded

LEMMA NoSuchFault ==
  ASSUME Calm
  PROVE  /\ "worker_crash" \notin Faults /\ "redelivery" \notin Faults
         /\ "delete_error" \notin Faults /\ "db_error" \notin Faults
         /\ Faults \cap {"delete_error", "db_error"} = {}
BY DEF Calm

LEMMA InitCalm == Init => CalmInv
<1> SUFFICES ASSUME Init PROVE CalmInv
  OBVIOUS
<1>1. LifeInv /\ RetriesLeft
  BY InitLife DEF Init, RetriesLeft
<1>2. Claims
  BY DEF Init, Claims, Waiting, Engaged
<1>3. Rows /\ Loaded
  BY DEF Init, Rows, Loaded, HasRow
<1> QED BY <1>1, <1>2, <1>3 DEF CalmInv

\* Claims is kept by every step after which there are no more messages and no
\* more busy workers than before.
LEMMA ClaimsFrame ==
  ASSUME Claims,
         \A d \in Docs : upload[d] = "done" => upload'[d] = "done",
         \A m \in Msgs : queue[m] \in Nat /\ queue'[m] \in Nat /\ queue'[m] <= queue[m],
         \A d \in Docs, v \in Workers : Engaged(v, d)' => Engaged(v, d)
  PROVE  Claims'
<1>1. \A d \in Docs : Waiting(d)' => Waiting(d)
  BY DEF Waiting
<1>2. \A m \in Msgs : queue'[m] > 0 => queue[m] > 0
  OBVIOUS
<1>3. \A d \in Docs :
        upload'[d] # "done" => ~Waiting(d)' /\ \A w \in Workers : ~Engaged(w, d)'
  BY <1>1 DEF Claims
<1>4. \A d \in Docs : Waiting(d)' => \A w \in Workers : ~Engaged(w, d)'
  BY <1>1 DEF Claims
<1>5. \A m \in Msgs : queue'[m] <= 1
  BY DEF Claims
<1>6. \A m, n \in Msgs : m.doc = n.doc /\ queue'[m] > 0 /\ queue'[n] > 0 => m = n
  BY <1>2 DEF Claims
<1>7. \A d \in Docs : \A v, w \in Workers :
        Engaged(v, d)' /\ Engaged(w, d)' => v = w
  BY DEF Claims
<1> QED BY <1>3, <1>4, <1>5, <1>6, <1>7 DEF Claims

\* Rows is kept by every step that only drops rows, messages and claims.
LEMMA RowsFrame ==
  ASSUME Rows,
         \A d \in Docs : HasRow(d)' =>
           /\ HasRow(d) /\ status'[d] = status[d] /\ passes'[d] = passes[d]
           /\ upload'[d] # "done" => upload[d] # "done"
           /\ Waiting(d)' => Waiting(d)
           /\ \A w \in Workers : Engaged(w, d)' => Engaged(w, d) /\ pc'[w] = pc[w]
  PROVE  Rows'
<1> SUFFICES ASSUME NEW d \in Docs, HasRow(d)'
             PROVE  /\ upload'[d] # "done" => status'[d] = "PENDING"
                    /\ Waiting(d)' => status'[d] = "PENDING"
                    /\ \A w \in Workers : Engaged(w, d)' => status'[d] = StatusAt(pc'[w])
                    /\ status'[d] # "COMPLETED" => passes'[d] = 0
  BY DEF Rows, StatusAt
<1> QED BY DEF Rows, StatusAt

LEMMA ApiCalm ==
  ASSUME CalmInv, NEW e \in Docs,
         InsertRow(e) \/ UploadStep(e) \/ UploadStops(e)
           \/ DeleteRow(e) \/ DeletionStep(e)
  PROVE  Claims' /\ Rows' /\ Loaded'
<1> USE DEF CalmInv
<1>t. TypeOK
  BY DEF LifeInv
<1>w. pc' = pc /\ task' = task /\ seen' = seen
  BY DEF InsertRow, UploadStep, StoreFile, StoreFails, RollbackRow, Dispatch,
         UploadStops, DeleteRow, DeletionStep, DeleteFile, DeleteFileFails,
         workerVars, sessionVars
<1>e. \A d \in Docs, w \in Workers : Engaged(w, d)' <=> Engaged(w, d)
  BY <1>w DEF Engaged
<1>1. Loaded'
  BY <1>w DEF Loaded
<1>2. CASE Dispatch(e)
  <2>1. /\ upload[e] = "stored" /\ upload' = [upload EXCEPT ![e] = "done"]
        /\ queue' = [queue EXCEPT ![Msg(e, 0)] = @ + 1]
        /\ status' = status /\ passes' = passes
    BY <1>2 DEF Dispatch, Publish, dbVars
  <2>2. PICK n \in Msgs : n = Msg(e, 0)
    BY MsgTyped
  <2>3. n.doc = e
    BY <2>2 DEF Msg
  <2>4. \A m \in Msgs : queue[m] \in Nat /\ queue'[m] = IF m = n THEN queue[m] + 1 ELSE queue[m]
    BY <2>1, <2>2, <1>t DEF TypeOK
  <2>5. ~Waiting(e) /\ \A w \in Workers : ~Engaged(w, e)
    BY <2>1 DEF Claims
  <2>6. \A m \in Msgs : m.doc = e => queue[m] = 0
    BY <2>4, <2>5 DEF Waiting
  <2>7. \A d \in Docs : d # e => (Waiting(d)' <=> Waiting(d)) /\ upload'[d] = upload[d]
    BY <2>1, <2>3, <2>4, <1>t DEF Waiting, TypeOK
  <2>8. upload'[e] = "done"
    BY <2>1, <1>t DEF TypeOK
  <2>9. Claims'
    <3>1. \A d \in Docs :
            upload'[d] # "done" => ~Waiting(d)' /\ \A w \in Workers : ~Engaged(w, d)'
      BY <1>e, <2>7, <2>8 DEF Claims
    <3>2. \A d \in Docs : Waiting(d)' => \A w \in Workers : ~Engaged(w, d)'
      BY <1>e, <2>5, <2>7 DEF Claims
    <3>3. \A m \in Msgs : queue'[m] <= 1
      BY <2>3, <2>4, <2>6 DEF Claims
    <3>4. ASSUME NEW m \in Msgs, NEW k \in Msgs, m.doc = k.doc, queue'[m] > 0, queue'[k] > 0
          PROVE  m = k
      <4>1. CASE m.doc = e
        <5>1. queue[m] = 0 /\ queue[k] = 0
          BY <2>6, <3>4, <4>1
        <5>2. m = n /\ k = n
          BY <2>4, <3>4, <5>1
        <5> QED BY <5>2
      <4>2. CASE m.doc # e
        BY <2>3, <2>4, <3>4, <4>2 DEF Claims
      <4> QED BY <4>1, <4>2
    <3>5. \A d \in Docs : \A v, w \in Workers :
            Engaged(v, d)' /\ Engaged(w, d)' => v = w
      BY <1>e DEF Claims
    <3> QED BY <3>1, <3>2, <3>3, <3>4, <3>5 DEF Claims
  <2>10. Rows'
    <3> SUFFICES ASSUME NEW d \in Docs, HasRow(d)'
                 PROVE  /\ upload'[d] # "done" => status'[d] = "PENDING"
                        /\ Waiting(d)' => status'[d] = "PENDING"
                        /\ \A w \in Workers : Engaged(w, d)' => status'[d] = StatusAt(pc'[w])
                        /\ status'[d] # "COMPLETED" => passes'[d] = 0
      BY DEF Rows, StatusAt
    <3>1. HasRow(d) /\ status'[d] = status[d] /\ passes'[d] = passes[d]
      BY <2>1 DEF HasRow
    <3>2. CASE d = e
      <4>1. status[d] = "PENDING"
        BY <2>1, <3>1, <3>2 DEF Rows
      <4> QED BY <1>e, <2>5, <2>8, <3>1, <3>2, <4>1 DEF Rows
    <3>3. CASE d # e
      BY <1>e, <1>w, <2>7, <3>1, <3>3 DEF Rows
    <3> QED BY <3>2, <3>3
  <2> QED BY <1>1, <2>9, <2>10
<1>3. CASE ~Dispatch(e)
  <2>1. queue' = queue /\ (upload[e] # "done" \/ upload' = upload)
    <3>1. CASE InsertRow(e)
      BY <3>1 DEF InsertRow
    <3>2. CASE UploadStep(e)
      BY <1>3, <3>2 DEF UploadStep, StoreFile, StoreFails, RollbackRow
    <3>3. CASE UploadStops(e)
      BY <3>3 DEF UploadStops
    <3>4. CASE DeleteRow(e) \/ DeletionStep(e)
      BY <3>4 DEF DeleteRow, DeletionStep, DeleteFile, DeleteFileFails
    <3> QED BY <3>1, <3>2, <3>3, <3>4
  <2>2. \A d \in Docs : d # e => upload'[d] = upload[d]
    BY <1>3, <1>t DEF InsertRow, UploadStep, StoreFile, StoreFails, RollbackRow,
         UploadStops, DeleteRow, DeletionStep, DeleteFile, DeleteFileFails, TypeOK
  <2>3. \A d \in Docs : Waiting(d)' <=> Waiting(d)
    BY <2>1 DEF Waiting
  <2>4. Claims'
    <3>1. \A d \in Docs : upload[d] = "done" => upload'[d] = "done"
      BY <2>1, <2>2
    <3>2. \A m \in Msgs : queue[m] \in Nat /\ queue'[m] \in Nat /\ queue'[m] <= queue[m]
      BY <2>1, <1>t DEF TypeOK
    <3> QED BY <1>e, <3>1, <3>2, ClaimsFrame
  <2>5. Rows'
    <3>1. CASE InsertRow(e)
      <4>1. /\ upload[e] = "none" /\ status' = [status EXCEPT ![e] = "PENDING"]
            /\ passes' = passes
        BY <3>1 DEF InsertRow
      <4>2. ~HasRow(e) /\ ~Waiting(e) /\ \A w \in Workers : ~Engaged(w, e)
        BY <4>1 DEF Claims, LifeInv, UploadFirst, NotBegun
      <4>3. passes[e] = 0
        BY <4>2 DEF LifeInv, RowlessEmpty
      <4>4. status'[e] = "PENDING" /\ \A d \in Docs : d # e => status'[d] = status[d]
        BY <4>1, <1>t DEF TypeOK
      <4> SUFFICES ASSUME NEW d \in Docs, HasRow(d)'
                   PROVE  /\ upload'[d] # "done" => status'[d] = "PENDING"
                          /\ Waiting(d)' => status'[d] = "PENDING"
                          /\ \A w \in Workers : Engaged(w, d)' => status'[d] = StatusAt(pc'[w])
                          /\ status'[d] # "COMPLETED" => passes'[d] = 0
        BY DEF Rows, StatusAt
      <4>5. CASE d = e
        BY <1>e, <4>1, <4>2, <4>3, <4>4, <4>5
      <4>6. CASE d # e
        <5>1. HasRow(d)
          BY <4>4, <4>6 DEF HasRow
        <5> QED BY <1>e, <1>w, <2>2, <2>3, <4>1, <4>4, <4>6, <5>1 DEF Rows
      <4> QED BY <4>5, <4>6
    <3>2. CASE ~InsertRow(e)
      <4>1. \A d \in Docs : HasRow(d)' =>
              HasRow(d) /\ status'[d] = status[d] /\ passes'[d] = passes[d]
        BY <1>3, <3>2 DEF UploadStep, StoreFile, StoreFails, RollbackRow,
             UploadStops, DeleteRow, DeletionStep, DeleteFile, DeleteFileFails,
             DropRows, HasRow, dbVars
      <4>2. \A d \in Docs : HasRow(d)' => (upload'[d] # "done" => upload[d] # "done")
        BY <2>1, <2>2
      <4> QED BY <1>e, <1>w, <2>3, <4>1, <4>2, RowsFrame
    <3> QED BY <3>1, <3>2
  <2> QED BY <1>1, <2>4, <2>5
<1> QED BY <1>2, <1>3

LEMMA CompanyCalm ==
  ASSUME CalmInv, NEW c \in Companies, DeleteCompany(c)
  PROVE  Claims' /\ Rows' /\ Loaded'
<1> USE DEF CalmInv
<1>1. /\ pc' = pc /\ task' = task /\ seen' = seen /\ queue' = queue /\ upload' = upload
      /\ \A d \in Docs : HasRow(d)' =>
           HasRow(d) /\ status'[d] = status[d] /\ passes'[d] = passes[d]
  BY DEF DeleteCompany, DropRows, HasRow, apiVars, workerVars, sessionVars
<1>2. \A d \in Docs, w \in Workers : Engaged(w, d)' <=> Engaged(w, d)
  BY <1>1 DEF Engaged
<1>3. \A d \in Docs : Waiting(d)' <=> Waiting(d)
  BY <1>1 DEF Waiting
<1>4. \A m \in Msgs : queue[m] \in Nat
  BY DEF LifeInv, TypeOK
<1>5. Claims'
  BY <1>1, <1>2, <1>4, ClaimsFrame
<1>6. Rows'
  BY <1>1, <1>2, <1>3, RowsFrame
<1>7. Loaded'
  BY <1>1 DEF Loaded
<1> QED BY <1>5, <1>6, <1>7

LEMMA ReceiveCalm ==
  ASSUME CalmInv, NEW w \in Workers, NEW m \in Msgs, Receive(w, m)
  PROVE  Claims' /\ Rows' /\ Loaded'
<1> USE DEF CalmInv
<1>t. TypeOK
  BY DEF LifeInv
<1> DEFINE d == m.doc
<1>1. /\ status' = status /\ passes' = passes /\ upload' = upload
      /\ queue[m] > 0 /\ pc[w] = "idle"
      /\ queue' = [queue EXCEPT ![m] = @ - 1]
      /\ task' = [task EXCEPT ![w] = m]
      /\ seen' = [seen EXCEPT ![w] = status[d]]
      /\ pc' = [pc EXCEPT ![w] = IF HasRow(d) THEN "begin" ELSE "ack"]
  BY DEF Receive, Goto, dbVars, apiVars
<1>2. d \in Docs
  BY MsgTyped
<1>3. Waiting(d) /\ upload[d] = "done" /\ \A v \in Workers : ~Engaged(v, d)
  BY <1>1, <1>2 DEF Waiting, Claims
<1>4. \A n \in Msgs :
        queue[n] \in Nat /\ queue'[n] \in Nat /\ queue'[n] <= queue[n]
        /\ (n # m => queue'[n] = queue[n])
  BY <1>1, <1>t DEF TypeOK
<1>5. \A n \in Msgs : n.doc = d => queue'[n] = 0
  <2> SUFFICES ASSUME NEW n \in Msgs, n.doc = d
               PROVE  queue'[n] = 0
    OBVIOUS
  <2>1. CASE n = m
    BY <1>1, <1>t, <2>1 DEF Claims, TypeOK
  <2>2. CASE n # m
    BY <1>1, <1>4, <2>2 DEF Claims
  <2> QED BY <2>1, <2>2
<1>6. ~Waiting(d)'
  BY <1>5 DEF Waiting
<1>7. \A e \in Docs : Waiting(e)' => Waiting(e)
  BY <1>4 DEF Waiting
<1>8. \A v \in Workers : v # w =>
        /\ pc'[v] = pc[v] /\ seen'[v] = seen[v]
        /\ \A e \in Docs : Engaged(v, e)' <=> Engaged(v, e)
  BY <1>1, <1>t DEF Engaged, TypeOK
<1>9. \A e \in Docs : Engaged(w, e)' => e = d /\ HasRow(d) /\ pc'[w] = "begin"
  BY <1>1, <1>t DEF Engaged, TypeOK
<1>10. Claims'
  <2>1. \A e \in Docs :
          upload'[e] # "done" => ~Waiting(e)' /\ \A v \in Workers : ~Engaged(v, e)'
    BY <1>1, <1>3, <1>7, <1>8, <1>9 DEF Claims
  <2>2. \A e \in Docs : Waiting(e)' => \A v \in Workers : ~Engaged(v, e)'
    BY <1>6, <1>7, <1>8, <1>9 DEF Claims
  <2>3. \A n \in Msgs : queue'[n] <= 1
    BY <1>4 DEF Claims
  <2>4. \A n, k \in Msgs : n.doc = k.doc /\ queue'[n] > 0 /\ queue'[k] > 0 => n = k
    <3>1. \A n \in Msgs : queue'[n] > 0 => queue[n] > 0
      BY <1>4
    <3> QED BY <3>1 DEF Claims
  <2>5. ASSUME NEW e \in Docs, NEW u \in Workers, NEW v \in Workers,
               Engaged(u, e)', Engaged(v, e)'
        PROVE  u = v
    <3>1. CASE e = d
      BY <1>3, <1>8, <2>5, <3>1
    <3>2. CASE e # d
      BY <1>8, <1>9, <2>5, <3>2 DEF Claims
    <3> QED BY <3>1, <3>2
  <2> QED BY <2>1, <2>2, <2>3, <2>4, <2>5 DEF Claims
<1>11. Rows'
  <2> SUFFICES ASSUME NEW e \in Docs, HasRow(e)'
               PROVE  /\ upload'[e] # "done" => status'[e] = "PENDING"
                      /\ Waiting(e)' => status'[e] = "PENDING"
                      /\ \A v \in Workers : Engaged(v, e)' => status'[e] = StatusAt(pc'[v])
                      /\ status'[e] # "COMPLETED" => passes'[e] = 0
    BY DEF Rows, StatusAt
  <2>1. HasRow(e)
    BY <1>1 DEF HasRow
  <2>2. ASSUME NEW v \in Workers, Engaged(v, e)'
        PROVE  status'[e] = StatusAt(pc'[v])
    <3>1. CASE v = w
      <4>1. e = d /\ pc'[w] = "begin"
        BY <1>9, <2>2, <3>1
      <4>2. status[e] = "PENDING"
        BY <1>3, <2>1, <4>1 DEF Rows
      <4> QED BY <1>1, <3>1, <4>1, <4>2 DEF StatusAt
    <3>2. CASE v # w
      BY <1>1, <1>8, <2>1, <2>2, <3>2 DEF Rows
    <3> QED BY <3>1, <3>2
  <2> QED BY <1>1, <1>7, <2>1, <2>2 DEF Rows
<1>12. Loaded'
  <2>1. HasRow(d) => status[d] = "PENDING"
    BY <1>2, <1>3 DEF Rows
  <2>2. (pc'[w] = "begin" => seen'[w] = "PENDING") /\ pc'[w] # "embed"
    BY <1>1, <1>t, <2>1 DEF TypeOK
  <2> QED BY <1>8, <2>2 DEF Loaded
<1> QED BY <1>10, <1>11, <1>12

-----------------------------------------------------------------------------
(* A step of the task, for its own document and for the others              *)

LEMMA TaskOthers ==
  ASSUME TypeOK, NEW w \in Workers, TaskStep(w)
  PROVE  /\ pc[w] # "idle" /\ upload' = upload
         /\ task'[w] \in {task[w], None}
         /\ \A v \in Workers : v # w => pc'[v] = pc[v] /\ seen'[v] = seen[v] /\ task'[v] = task[v]
         /\ \A e \in Docs : e # task[w].doc => status'[e] = status[e] /\ passes'[e] = passes[e]
         /\ \A m \in Msgs : m.doc # task[w].doc => queue'[m] = queue[m]
<1>0. pc[w] # "idle"
  BY DEF TaskStep, Begin, BeginFails, Download, Extract, CommitIngestion,
         StepFails, Cleanup, CleanupFails, HandleRetry, HandleFailed, Republish,
         RepublishFails, Finish
<1>1. upload' = upload
  BY DEF TaskStep, Begin, BeginFails, Download, Extract, CommitIngestion,
         StepFails, Cleanup, CleanupFails, HandleRetry, HandleFailed, Republish,
         RepublishFails, Finish, apiVars
<1>2. /\ task'[w] \in {task[w], None}
      /\ \A v \in Workers : v # w => pc'[v] = pc[v] /\ seen'[v] = seen[v] /\ task'[v] = task[v]
  BY DEF TaskStep, Begin, BeginFails, Download, Extract, CommitIngestion,
         StepFails, Cleanup, CleanupFails, HandleRetry, HandleFailed, Republish,
         RepublishFails, Finish, Reset, Goto, TypeOK, sessionVars
<1>3. \A e \in Docs : e # task[w].doc => status'[e] = status[e] /\ passes'[e] = passes[e]
  BY DEF TaskStep, Begin, BeginFails, Download, Extract, CommitIngestion,
         StepFails, Cleanup, CleanupFails, HandleRetry, HandleFailed, Republish,
         RepublishFails, Finish, RecordFailure, SetStatus, TypeOK, dbVars
<1>4. \A m \in Msgs : m.doc # task[w].doc => queue'[m] = queue[m]
  BY DEF TaskStep, Begin, BeginFails, Download, Extract, CommitIngestion,
         StepFails, Cleanup, CleanupFails, HandleRetry, HandleFailed, Republish,
         RepublishFails, Finish, Publish, Msg, TypeOK
<1> QED BY <1>0, <1>1, <1>2, <1>3, <1>4

\* What a step of the task does to a row that still exists: the status follows
\* the worker, and chunks come only with COMPLETED.
LEMMA TaskOwn ==
  ASSUME CalmInv, Calm, NEW w \in Workers, TaskStep(w), pc[w] # "ack",
         HasRow(task[w].doc)
  PROVE  LET d == task[w].doc IN
         /\ pc'[w] # "ack" => status'[d] = StatusAt(pc'[w])
         /\ status'[d] # "COMPLETED" => passes'[d] = 0
         /\ pc[w] = "republish" => status'[d] = "PENDING" /\ pc'[w] = "ack"
         /\ pc[w] # "republish" => queue' = queue
<1> USE DEF CalmInv
<1> DEFINE d == task[w].doc
<1>t. TypeOK /\ pc[w] # "idle" /\ d \in Docs
  BY TaskOthers, BusyHoldsMessage DEF LifeInv
<1>1. status[d] = StatusAt(pc[w]) /\ (status[d] # "COMPLETED" => passes[d] = 0)
  BY <1>t DEF Rows, Engaged
<1>2. pc[w] = "begin" => seen[w] = "PENDING"
  BY DEF Loaded
<1>3. pc[w] = "embed" => seen[w] = "PROCESSING"
  BY DEF Loaded
<1> DEFINE Goal == /\ pc'[w] # "ack" => status'[d] = StatusAt(pc'[w])
                   /\ status'[d] # "COMPLETED" => passes'[d] = 0
                   /\ pc[w] = "republish" => status'[d] = "PENDING" /\ pc'[w] = "ack"
                   /\ pc[w] # "republish" => queue' = queue
<1>4. CASE Begin(w)
  <2>1. pc'[w] \in {"download", "extract"} /\ status'[d] = "PROCESSING"
    BY <1>4, <1>t, <1>2 DEF Begin, Goto, SetStatus, WritesStatus, TypeOK
  <2>2. pc[w] = "begin" /\ queue' = queue /\ passes' = passes
    BY <1>4 DEF Begin
  <2> QED BY <1>1, <2>1, <2>2 DEF StatusAt
<1>5. CASE BeginFails(w) \/ CleanupFails(w)
  BY <1>5, NoSuchFault DEF BeginFails, CleanupFails
<1>6. CASE Download(w) \/ StepFails(w) \/ Extract(w)
  <2>1. /\ pc[w] \in {"download", "extract", "embed"}
        /\ pc'[w] \in {"extract", "embed", "handle"}
        /\ status' = status /\ passes' = passes /\ queue' = queue
    BY <1>6, <1>t DEF Download, StepFails, Extract, Goto, TypeOK, dbVars
  <2> QED BY <1>1, <2>1 DEF StatusAt
<1>7. CASE CommitIngestion(w)
  <2>1. /\ pc[w] = "embed" /\ pc'[w] = "cleanup" /\ queue' = queue
        /\ status'[d] = "COMPLETED"
    BY <1>7, <1>t, <1>3 DEF CommitIngestion, Goto, SetStatus, WritesStatus, TypeOK
  <2> QED BY <2>1 DEF StatusAt
<1>8. CASE Cleanup(w)
  <2>1. /\ pc[w] = "cleanup" /\ pc'[w] = "ack"
        /\ status' = status /\ passes' = passes /\ queue' = queue
    BY <1>8, <1>t DEF Cleanup, Goto, TypeOK, dbVars
  <2> QED BY <1>1, <2>1 DEF StatusAt
<1>9. CASE HandleRetry(w) \/ HandleFailed(w)
  <2>1. pc[w] = "handle" /\ passes' = passes /\ queue' = queue
    BY <1>9 DEF HandleRetry, HandleFailed
  <2>2. \/ pc'[w] = "republish" /\ status'[d] = "PENDING"
        \/ pc'[w] = "ack" /\ status'[d] = "FAILED"
    BY <1>9, <1>t, NoSuchFault DEF HandleRetry, HandleFailed, Goto, RecordFailure, SetStatus, TypeOK
  <2> QED BY <1>1, <2>1, <2>2 DEF StatusAt
<1>10. CASE Republish(w) \/ RepublishFails(w)
  <2>1. /\ pc[w] = "republish" /\ pc'[w] = "ack"
        /\ status' = status /\ passes' = passes
    BY <1>10, <1>t DEF Republish, RepublishFails, Goto, TypeOK, dbVars
  <2> QED BY <1>1, <2>1 DEF StatusAt
<1>11. CASE Finish(w)
  BY <1>11 DEF Finish
<1> QED BY <1>4, <1>5, <1>6, <1>7, <1>8, <1>9, <1>10, <1>11 DEF TaskStep

LEMMA TaskLoaded ==
  ASSUME CalmInv, NEW w \in Workers, TaskStep(w)
  PROVE  Loaded'
<1> USE DEF CalmInv
<1>t. TypeOK /\ pc[w] # "idle" /\ task[w].doc \in Docs
  BY TaskOthers, BusyHoldsMessage DEF LifeInv
<1>1. pc'[w] # "begin" /\ (pc'[w] = "embed" => Extract(w))
  BY <1>t DEF TaskStep, Begin, BeginFails, Download, Extract, CommitIngestion,
         StepFails, Cleanup, CleanupFails, HandleRetry, HandleFailed, Republish,
         RepublishFails, Finish, Reset, Goto, TypeOK
<1>2. ASSUME Extract(w) PROVE seen'[w] = "PROCESSING"
  <2>1. pc[w] = "extract" /\ HasRow(task[w].doc) /\ seen'[w] = status[task[w].doc]
    BY <1>2, <1>t DEF Extract, TypeOK
  <2>2. Engaged(w, task[w].doc)
    BY <2>1 DEF Engaged
  <2> QED BY <1>t, <2>1, <2>2 DEF Rows, StatusAt
<1>3. \A v \in Workers : v # w => pc'[v] = pc[v] /\ seen'[v] = seen[v]
  BY <1>t, TaskOthers
<1> QED BY <1>1, <1>2, <1>3 DEF Loaded

\* A step of the task makes no worker busy with another document.
LEMMA TaskEngages ==
  ASSUME TypeOK, NEW w \in Workers, TaskStep(w), NEW v \in Workers, NEW e \in Docs,
         Engaged(v, e)'
  PROVE  Engaged(v, e) /\ (v = w => e = task[w].doc) /\ (v # w => pc'[v] = pc[v])
<1>1. CASE v # w
  BY <1>1, TaskOthers DEF Engaged
<1>2. CASE v = w
  <2>1. pc[w] # "idle"
    BY TaskOthers
  <2>2. pc[w] # "ack"
    BY <1>2 DEF TaskStep, Begin, BeginFails, Download, Extract, CommitIngestion,
         StepFails, Cleanup, CleanupFails, HandleRetry, HandleFailed, Republish,
         RepublishFails, Finish, Reset, Goto, TypeOK, Engaged
  <2>3. task' = task
    BY <2>2 DEF TaskStep, Begin, BeginFails, Download, Extract, CommitIngestion,
         StepFails, Cleanup, CleanupFails, HandleRetry, HandleFailed, Republish,
         RepublishFails, Finish
  <2> QED BY <1>2, <2>1, <2>2, <2>3 DEF Engaged
<1> QED BY <1>1, <1>2

\* What a retry publishes is the only message of its document.
LEMMA RepublishClaims ==
  ASSUME CalmInv, NEW w \in Workers, Republish(w)
  PROVE  Claims' /\ \A e \in Docs : e # task[w].doc => (Waiting(e)' <=> Waiting(e))
<1> USE DEF CalmInv
<1>s. TaskStep(w)
  BY DEF TaskStep
<1>u. TypeOK /\ pc[w] = "republish" /\ task[w].doc \in Docs /\ task[w] \in Msgs
  BY BusyHoldsMessage DEF LifeInv, Republish
<1>d. PICK d \in Docs : d = task[w].doc
  BY <1>u
<1>t. TypeOK /\ pc[w] = "republish" /\ d \in Docs /\ task[w] \in Msgs /\ d = task[w].doc
  BY <1>u, <1>d
<1>1. /\ queue' = [queue EXCEPT ![Msg(d, task[w].retries + 1)] = @ + 1]
      /\ pc'[w] = "ack" /\ upload' = upload
  BY <1>t DEF Republish, Publish, Goto, TypeOK, apiVars
<1>2. task[w].retries + 1 \in 0..MaxTaskRetries
  BY <1>t, MsgTyped, BoundsAssumption DEF RetriesLeft
<1>3. PICK n \in Msgs : n = Msg(d, task[w].retries + 1)
  BY <1>t, <1>2, MsgTyped
<1>4. n.doc = d
  BY <1>3 DEF Msg
<1>5. \A m \in Msgs : queue[m] \in Nat /\ queue'[m] = IF m = n THEN queue[m] + 1 ELSE queue[m]
  BY <1>1, <1>3, <1>t DEF TypeOK
<1>6. Engaged(w, d)
  BY <1>t DEF Engaged
<1>7. upload[d] = "done" /\ ~Waiting(d)
  BY <1>t, <1>6 DEF Claims
<1>8. \A m \in Msgs : m.doc = d => queue[m] = 0
  BY <1>5, <1>7 DEF Waiting
<1>9. \A e \in Docs : e # d => (Waiting(e)' <=> Waiting(e))
  BY <1>4, <1>5 DEF Waiting
<1>10. \A v \in Workers : ~Engaged(v, d)'
  <2> SUFFICES ASSUME NEW v \in Workers, Engaged(v, d)'
               PROVE  FALSE
    OBVIOUS
  <2>1. v # w
    BY <1>1 DEF Engaged
  <2>2. Engaged(v, d)
    BY <1>s, <1>t, TaskEngages
  <2> QED BY <1>6, <1>t, <2>1, <2>2 DEF Claims
<1>11. \A v \in Workers, e \in Docs : Engaged(v, e)' => Engaged(v, e)
  BY <1>s, <1>t, TaskEngages
<1>12. \A e \in Docs :
         upload'[e] # "done" => ~Waiting(e)' /\ \A v \in Workers : ~Engaged(v, e)'
  BY <1>1, <1>7, <1>9, <1>11 DEF Claims
<1>13. \A e \in Docs : Waiting(e)' => \A v \in Workers : ~Engaged(v, e)'
  BY <1>9, <1>10, <1>11 DEF Claims
<1>14. \A m \in Msgs : queue'[m] <= 1
  BY <1>4, <1>5, <1>8 DEF Claims
<1>15. ASSUME NEW m \in Msgs, NEW k \in Msgs, m.doc = k.doc, queue'[m] > 0, queue'[k] > 0
       PROVE  m = k
  <2>1. CASE m.doc = d
    <3>1. queue[m] = 0 /\ queue[k] = 0
      BY <1>8, <1>15, <2>1
    <3>2. m = n /\ k = n
      BY <1>5, <1>15, <3>1
    <3> QED BY <3>2
  <2>2. CASE m.doc # d
    BY <1>4, <1>5, <1>15, <2>2 DEF Claims
  <2> QED BY <2>1, <2>2
<1>16. \A e \in Docs : \A u, v \in Workers : Engaged(u, e)' /\ Engaged(v, e)' => u = v
  BY <1>11 DEF Claims
<1> QED BY <1>t, <1>9, <1>12, <1>13, <1>14, <1>15, <1>16 DEF Claims

LEMMA TaskClaims ==
  ASSUME CalmInv, NEW w \in Workers, TaskStep(w)
  PROVE  Claims' /\ \A e \in Docs : e # task[w].doc => (Waiting(e)' <=> Waiting(e))
<1> USE DEF CalmInv
<1>t. TypeOK
  BY DEF LifeInv
<1>1. CASE Republish(w)
  BY <1>1, RepublishClaims
<1>2. CASE ~Republish(w)
  <2>1. queue' = queue
    BY <1>2 DEF TaskStep, Begin, BeginFails, Download, Extract, CommitIngestion,
         StepFails, Cleanup, CleanupFails, HandleRetry, HandleFailed,
         RepublishFails, Finish
  <2>2. \A m \in Msgs : queue[m] \in Nat /\ queue'[m] \in Nat /\ queue'[m] <= queue[m]
    BY <2>1, <1>t DEF TypeOK
  <2>3. upload' = upload
    BY <1>t, TaskOthers
  <2>4. \A e \in Docs, v \in Workers : Engaged(v, e)' => Engaged(v, e)
    BY <1>t, TaskEngages
  <2>5. Claims'
    BY <2>2, <2>3, <2>4, ClaimsFrame
  <2> QED BY <2>1, <2>5 DEF Waiting
<1> QED BY <1>1, <1>2

LEMMA TaskRows ==
  ASSUME CalmInv, Calm, NEW w \in Workers, TaskStep(w)
  PROVE  Rows'
<1> USE DEF CalmInv
<1>u. TypeOK /\ task[w].doc \in Docs /\ pc[w] # "idle"
  BY TaskOthers, BusyHoldsMessage DEF LifeInv
<1>d. PICK d \in Docs : d = task[w].doc
  BY <1>u
<1>t. TypeOK /\ d \in Docs /\ pc[w] # "idle" /\ d = task[w].doc
  BY <1>u, <1>d
<1> SUFFICES ASSUME NEW e \in Docs, HasRow(e)'
             PROVE  /\ upload'[e] # "done" => status'[e] = "PENDING"
                    /\ Waiting(e)' => status'[e] = "PENDING"
                    /\ \A v \in Workers : Engaged(v, e)' => status'[e] = StatusAt(pc'[v])
                    /\ status'[e] # "COMPLETED" => passes'[e] = 0
  BY DEF Rows, StatusAt
<1>1. HasRow(e)
  BY <1>t, TaskKeepsRows
<1>2. upload' = upload
  BY <1>t, TaskOthers
<1>3. \A v \in Workers : v # w /\ Engaged(v, e)' => Engaged(v, e) /\ pc'[v] = pc[v]
  BY <1>t, TaskEngages
<1>4. Engaged(w, e)' => e = d
  BY <1>t, TaskEngages
<1>5. CASE e # d
  <2>1. status'[e] = status[e] /\ passes'[e] = passes[e]
    BY <1>5, <1>t, TaskOthers
  <2>2. Waiting(e)' <=> Waiting(e)
    BY <1>5, <1>t, TaskClaims
  <2> QED BY <1>1, <1>2, <1>3, <1>4, <1>5, <2>1, <2>2 DEF Rows
<1>6. CASE e = d /\ pc[w] = "ack"
  <2>1. Finish(w)
    BY <1>6 DEF TaskStep, Begin, BeginFails, Download, Extract, CommitIngestion,
         StepFails, Cleanup, CleanupFails, HandleRetry, HandleFailed, Republish,
         RepublishFails, Finish
  <2>2. /\ status' = status /\ passes' = passes /\ queue' = queue
        /\ pc'[w] = "idle"
    BY <2>1, <1>t DEF Finish, Reset, Goto, TypeOK, dbVars
  <2>3. (Waiting(e)' <=> Waiting(e)) /\ ~Engaged(w, e)'
    BY <2>2 DEF Waiting, Engaged
  <2> QED BY <1>1, <1>2, <1>3, <2>2, <2>3 DEF Rows
<1>7. CASE e = d /\ pc[w] # "ack"
  <2>1. Engaged(w, d)
    BY <1>7, <1>t DEF Engaged
  <2>2. upload[d] = "done" /\ ~Waiting(d) /\ \A v \in Workers : v # w => ~Engaged(v, d)
    BY <1>t, <2>1 DEF Claims
  <2>3. /\ pc'[w] # "ack" => status'[d] = StatusAt(pc'[w])
        /\ status'[d] # "COMPLETED" => passes'[d] = 0
        /\ pc[w] = "republish" => status'[d] = "PENDING" /\ pc'[w] = "ack"
        /\ pc[w] # "republish" => queue' = queue
    BY <1>1, <1>7, <1>t, TaskOwn
  <2>4. Waiting(d)' => pc[w] = "republish"
    BY <2>2, <2>3 DEF Waiting
  <2>5. Engaged(w, d)' => pc'[w] # "ack"
    BY DEF Engaged
  <2>6. \A v \in Workers : Engaged(v, d)' => status'[d] = StatusAt(pc'[v])
    BY <1>3, <1>7, <2>2, <2>3, <2>5
  <2> QED BY <1>2, <1>7, <2>2, <2>3, <2>4, <2>6
<1> QED BY <1>5, <1>6, <1>7

LEMMA NextCalm ==
  ASSUME Calm, CalmInv, [Next]_vars
  PROVE  CalmInv'
<1>0. LifeInv /\ TypeOK /\ RetriesLeft
  BY DEF CalmInv, LifeInv
<1>1. LifeInv' /\ RetriesLeft'
  BY <1>0, NextLife, RetriesLeftStep
<1>2. ASSUME NEW d \in Docs,
             InsertRow(d) \/ UploadStep(d) \/ UploadStops(d)
               \/ DeleteRow(d) \/ DeletionStep(d)
      PROVE  Claims' /\ Rows' /\ Loaded'
  BY <1>2, ApiCalm
<1>3. ASSUME NEW c \in Companies, DeleteCompany(c)
      PROVE  Claims' /\ Rows' /\ Loaded'
  BY <1>3, CompanyCalm
<1>4. ASSUME NEW w \in Workers, TaskStep(w)
      PROVE  Claims' /\ Rows' /\ Loaded'
  BY <1>4, TaskClaims, TaskRows, TaskLoaded
<1>5. ASSUME NEW w \in Workers, NEW m \in Msgs, Receive(w, m)
      PROVE  Claims' /\ Rows' /\ Loaded'
  BY <1>5, ReceiveCalm
<1>6. ASSUME NEW w \in Workers
      PROVE  ~Crash(w) /\ ~Redeliver(w) /\ \A m \in Msgs : ~LookupFails(w, m)
  BY NoSuchFault DEF Crash, Redeliver, LookupFails
<1>7. ASSUME UNCHANGED vars PROVE Claims' /\ Rows' /\ Loaded'
  <2>1. /\ status' = status /\ passes' = passes /\ queue' = queue /\ upload' = upload
        /\ pc' = pc /\ task' = task /\ seen' = seen
    BY <1>7 DEF vars, dbVars, apiVars, workerVars, sessionVars
  <2>2. /\ \A d \in Docs : (Waiting(d)' <=> Waiting(d)) /\ (HasRow(d)' <=> HasRow(d))
        /\ \A d \in Docs, w \in Workers : Engaged(w, d)' <=> Engaged(w, d)
    BY <2>1 DEF Waiting, HasRow, Engaged
  <2>3. \A m \in Msgs : queue[m] \in Nat
    BY <1>0 DEF TypeOK
  <2>4. Claims'
    BY <2>1, <2>2, <2>3, ClaimsFrame DEF CalmInv
  <2>5. Rows'
    BY <2>1, <2>2, RowsFrame DEF CalmInv
  <2>6. Loaded'
    BY <2>1 DEF Loaded, CalmInv
  <2> QED BY <2>4, <2>5, <2>6
<1>8. Claims' /\ Rows' /\ Loaded'
  BY <1>2, <1>3, <1>4, <1>5, <1>6, <1>7 DEF Next, WorkerStep
<1> QED BY <1>1, <1>8 DEF CalmInv

-----------------------------------------------------------------------------
(* The refinement: every step is a step of the lifecycle or none at all     *)

\* One document changes its phase, and its chunks may come with it.
LEMMA OneMoves ==
  ASSUME NEW d \in Docs, NEW from, NEW to, Phase(d) = from, Phase(d)' = to,
         \A e \in Docs : e # d => Phase(e)' = Phase(e)
  PROVE  Lifecycle!Move(d, from, to)
<1>1. [e \in Docs |-> Phase(e)'] = [[e \in Docs |-> Phase(e)] EXCEPT ![d] = to]
  OBVIOUS
<1> QED BY <1>1 DEF Lifecycle!Move

LEMMA NothingMoves ==
  ASSUME \A d \in Docs : Phase(d)' = Phase(d), passes' = passes
  PROVE  UNCHANGED Lifecycle!lifecycleVars
BY DEF Lifecycle!lifecycleVars

\* Rows that are dropped take their documents' chunks with them.
LEMMA RowsRemoved ==
  ASSUME LifeInv, NEW S \in SUBSET Docs, DropRows(S),
         \A d \in Docs : upload'[d] = "none" <=> upload[d] = "none"
  PROVE  Lifecycle!Remove(S)
<1>1. \A d \in Docs :
        Phase(d)' = IF d \in S /\ Phase(d) # "NEW" THEN "GONE" ELSE Phase(d)
  <2> SUFFICES ASSUME NEW d \in Docs
               PROVE  Phase(d)' = IF d \in S /\ Phase(d) # "NEW" THEN "GONE" ELSE Phase(d)
    OBVIOUS
  <2>1. status[d] # "NEW"
    BY DEF LifeInv, TypeOK, Statuses, InFlight
  <2>2. status'[d] = IF d \in S THEN "NO_ROW" ELSE status[d]
    BY DEF DropRows
  <2>3. upload[d] = "none" => status[d] = "NO_ROW"
    BY DEF LifeInv, UploadFirst, NotBegun, HasRow
  <2> QED BY <2>1, <2>2, <2>3 DEF Phase, HasRow
<1>2. passes' = [d \in Docs |-> IF d \in S THEN 0 ELSE passes[d]]
  BY DEF DropRows
<1> QED BY <1>1, <1>2 DEF Lifecycle!Remove

LEMMA ApiImplements ==
  ASSUME LifeInv, NEW e \in Docs,
         InsertRow(e) \/ UploadStep(e) \/ UploadStops(e)
           \/ DeleteRow(e) \/ DeletionStep(e)
  PROVE  Lifecycle!LifecycleNext \/ UNCHANGED Lifecycle!lifecycleVars
<1>t. TypeOK
  BY DEF LifeInv
<1>1. CASE InsertRow(e)
  <2>1. /\ upload[e] = "none" /\ upload' = [upload EXCEPT ![e] = "inserted"]
        /\ status' = [status EXCEPT ![e] = "PENDING"] /\ passes' = passes
    BY <1>1 DEF InsertRow
  <2>2. ~HasRow(e)
    BY <2>1 DEF LifeInv, UploadFirst, NotBegun
  <2>3. Phase(e) = "NEW" /\ Phase(e)' = "PENDING"
    BY <1>t, <2>1, <2>2 DEF Phase, HasRow, TypeOK
  <2>4. \A d \in Docs : d # e => Phase(d)' = Phase(d)
    BY <1>t, <2>1 DEF Phase, HasRow, TypeOK
  <2>5. Lifecycle!Accept(e)
    BY <2>1, <2>3, <2>4, OneMoves DEF Lifecycle!Accept
  <2> QED BY <2>5 DEF Lifecycle!LifecycleNext
<1>2. CASE RollbackRow(e) \/ DeleteRow(e)
  <2>1. DropRows({e}) /\ \A d \in Docs : upload'[d] = "none" <=> upload[d] = "none"
    BY <1>t, <1>2 DEF RollbackRow, DeleteRow, TypeOK
  <2>2. Lifecycle!Remove({e})
    BY <2>1, RowsRemoved
  <2> QED BY <2>2 DEF Lifecycle!LifecycleNext
<1>3. CASE ~InsertRow(e) /\ ~RollbackRow(e) /\ ~DeleteRow(e)
  <2>1. /\ status' = status /\ passes' = passes
        /\ \A d \in Docs : upload'[d] = "none" <=> upload[d] = "none"
    BY <1>t, <1>3 DEF UploadStep, StoreFile, StoreFails, Dispatch, UploadStops,
         DeletionStep, DeleteFile, DeleteFileFails, TypeOK, dbVars
  <2>2. \A d \in Docs : Phase(d)' = Phase(d)
    BY <2>1 DEF Phase, HasRow
  <2> QED BY <2>1, <2>2, NothingMoves
<1> QED BY <1>1, <1>2, <1>3

LEMMA TaskImplements ==
  ASSUME CalmInv, Calm, NEW w \in Workers, TaskStep(w)
  PROVE  Lifecycle!LifecycleNext \/ UNCHANGED Lifecycle!lifecycleVars
<1> USE DEF CalmInv
<1>u. TypeOK /\ task[w].doc \in Docs /\ pc[w] # "idle"
  BY TaskOthers, BusyHoldsMessage DEF LifeInv
<1>d. PICK d \in Docs : d = task[w].doc
  BY <1>u
<1>1. \A e \in Docs : e # d => Phase(e)' = Phase(e) /\ passes'[e] = passes[e]
  BY <1>u, <1>d, TaskOthers DEF Phase, HasRow
<1>2. (HasRow(d)' <=> HasRow(d)) /\ upload' = upload
  BY <1>u, TaskKeepsRows, TaskOthers
<1>3. pc[w] # "ack" /\ HasRow(d) =>
        Phase(d) = StatusAt(pc[w]) /\ (Phase(d) # "COMPLETED" => passes[d] = 0)
  BY <1>u, <1>d DEF Phase, Rows, Engaged, StatusAt, TypeOK
<1>4. CASE ~Begin(w) /\ ~CommitIngestion(w) /\ ~HandleRetry(w) /\ ~HandleFailed(w)
  <2>1. status' = status /\ passes' = passes
    BY <1>4 DEF TaskStep, BeginFails, Download, Extract,
         StepFails, Cleanup, CleanupFails, Republish, RepublishFails, Finish, dbVars
  <2>2. \A e \in Docs : Phase(e)' = Phase(e)
    BY <1>2, <2>1 DEF Phase, HasRow
  <2> QED BY <2>1, <2>2, NothingMoves
<1>5. CASE Begin(w)
  <2>1. /\ pc[w] = "begin" /\ HasRow(d) /\ status'[d] = "PROCESSING" /\ passes' = passes
    BY <1>5, <1>u, <1>d DEF Begin, Loaded, SetStatus, WritesStatus, TypeOK
  <2>2. Phase(d) = "PENDING" /\ Phase(d)' = "PROCESSING"
    BY <1>2, <1>3, <2>1 DEF Phase, StatusAt
  <2>3. Lifecycle!Start(d)
    BY <1>1, <2>1, <2>2, OneMoves DEF Lifecycle!Start
  <2> QED BY <2>3 DEF Lifecycle!LifecycleNext
<1>6. CASE CommitIngestion(w)
  <2>1. /\ pc[w] = "embed" /\ HasRow(d) /\ status'[d] = "COMPLETED"
        /\ passes' = [passes EXCEPT ![d] = passes[d] + 1]
    BY <1>6, <1>u, <1>d DEF CommitIngestion, Loaded, SetStatus, WritesStatus, TypeOK
  <2>2. Phase(d) = "PROCESSING" /\ Phase(d)' = "COMPLETED" /\ passes[d] = 0
    BY <1>2, <1>3, <2>1 DEF Phase, StatusAt
  <2>3. passes' = [passes EXCEPT ![d] = 1]
    BY <2>1, <2>2
  <2>4. Lifecycle!Complete(d)
    BY <1>1, <2>2, <2>3, OneMoves DEF Lifecycle!Complete
  <2> QED BY <2>4 DEF Lifecycle!LifecycleNext
<1>7. CASE (HandleRetry(w) \/ HandleFailed(w)) /\ ~HasRow(d)
  <2>1. status' = status /\ passes' = passes
    BY <1>7, <1>d DEF HandleRetry, HandleFailed, RecordFailure, SetStatus
  <2>2. \A e \in Docs : Phase(e)' = Phase(e)
    BY <1>2, <2>1 DEF Phase, HasRow
  <2> QED BY <2>1, <2>2, NothingMoves
<1>8. CASE HandleRetry(w) /\ HasRow(d)
  <2>1. pc[w] = "handle" /\ status'[d] = "PENDING" /\ passes' = passes
    BY <1>8, <1>u, <1>d, NoSuchFault DEF HandleRetry, RecordFailure, SetStatus, TypeOK
  <2>2. Phase(d) = "PROCESSING" /\ Phase(d)' = "PENDING"
    BY <1>2, <1>3, <1>8, <2>1 DEF Phase, StatusAt
  <2>3. Lifecycle!Requeue(d)
    BY <1>1, <2>1, <2>2, OneMoves DEF Lifecycle!Requeue
  <2> QED BY <2>3 DEF Lifecycle!LifecycleNext
<1>9. CASE HandleFailed(w) /\ HasRow(d)
  <2>1. pc[w] = "handle" /\ status'[d] = "FAILED" /\ passes' = passes
    BY <1>9, <1>u, <1>d, NoSuchFault DEF HandleFailed, RecordFailure, SetStatus, TypeOK
  <2>2. Phase(d) = "PROCESSING" /\ Phase(d)' = "FAILED"
    BY <1>2, <1>3, <1>9, <2>1 DEF Phase, StatusAt
  <2>3. Lifecycle!Fail(d)
    BY <1>1, <2>1, <2>2, OneMoves DEF Lifecycle!Fail
  <2> QED BY <2>3 DEF Lifecycle!LifecycleNext
<1> QED BY <1>4, <1>5, <1>6, <1>7, <1>8, <1>9

LEMMA NextImplements ==
  ASSUME Calm, CalmInv, [Next]_vars
  PROVE  [Lifecycle!LifecycleNext]_(Lifecycle!lifecycleVars)
<1>0. LifeInv
  BY DEF CalmInv
<1> DEFINE Step == Lifecycle!LifecycleNext \/ UNCHANGED Lifecycle!lifecycleVars
<1>1. ASSUME NEW d \in Docs,
             InsertRow(d) \/ UploadStep(d) \/ UploadStops(d)
               \/ DeleteRow(d) \/ DeletionStep(d)
      PROVE  Step
  BY <1>0, <1>1, ApiImplements
<1>2. ASSUME NEW c \in Companies, DeleteCompany(c)
      PROVE  Step
  <2>1. PICK S \in SUBSET Docs : S = {d \in Docs : CompanyOf[d] = c}
    OBVIOUS
  <2>2. DropRows(S) /\ upload' = upload
    BY <1>2, <2>1 DEF DeleteCompany, apiVars
  <2>3. Lifecycle!Remove(S)
    BY <1>0, <2>2, RowsRemoved
  <2> QED BY <2>3 DEF Lifecycle!LifecycleNext
<1>3. ASSUME NEW w \in Workers, TaskStep(w)
      PROVE  Step
  BY <1>3, TaskImplements
<1>4. ASSUME NEW w \in Workers,
             \/ \E m \in Msgs : Receive(w, m) \/ LookupFails(w, m)
             \/ Crash(w) \/ Redeliver(w)
      PROVE  Step
  <2>1. status' = status /\ passes' = passes /\ upload' = upload
    BY <1>4 DEF Receive, LookupFails, Crash, Redeliver, dbVars, apiVars
  <2>2. \A d \in Docs : Phase(d)' = Phase(d)
    BY <2>1 DEF Phase, HasRow
  <2> QED BY <2>1, <2>2, NothingMoves
<1>5. CASE UNCHANGED vars
  <2>1. status' = status /\ passes' = passes /\ upload' = upload
    BY <1>5 DEF vars, dbVars, apiVars
  <2>2. \A d \in Docs : Phase(d)' = Phase(d)
    BY <2>1 DEF Phase, HasRow
  <2> QED BY <2>1, <2>2, NothingMoves
<1>6. Step
  BY <1>1, <1>2, <1>3, <1>4, <1>5 DEF Next, WorkerStep
<1> QED BY <1>6

\* Seen through its status, and through the number of times its chunks are
\* stored, a document goes through the plain lifecycle: the queue, the
\* retries, concurrent deletions, lost requests and a broker that is down
\* change nothing of that as long as no message is delivered twice.
THEOREM LifecycleHolds ==
  ASSUME Calm
  PROVE  Spec => LifecycleImplemented
<1>1. Init => Lifecycle!LifecycleInit
  <2>1. Init => \A d \in Docs : Phase(d) = "NEW"
    BY DEF Init, Phase, HasRow
  <2>2. Init => passes = [d \in Docs |-> 0]
    BY DEF Init
  <2> QED BY <2>1, <2>2 DEF Lifecycle!LifecycleInit
<1>2. Init => CalmInv
  BY InitCalm
<1>3. CalmInv /\ [Next]_vars => CalmInv'
  BY NextCalm
<1>4. CalmInv /\ [Next]_vars => [Lifecycle!LifecycleNext]_(Lifecycle!lifecycleVars)
  BY NextImplements
<1> QED
  BY <1>1, <1>2, <1>3, <1>4, PTL
     DEF Spec, LifecycleImplemented, Lifecycle!LifecycleSpec

\* A step of the lifecycle leaves a COMPLETED document as it is or removes it.
LEMMA LifecycleFinal ==
  ASSUME NEW d \in Docs, [Lifecycle!LifecycleNext]_(Lifecycle!lifecycleVars),
         Phase(d) = "COMPLETED"
  PROVE  Phase(d)' \in {"COMPLETED", "GONE"}
<1> DEFINE f == [e \in Docs |-> Phase(e)]
<1>1. f[d] = "COMPLETED"
  OBVIOUS
<1>2. ASSUME NEW e \in Docs, NEW from \in {"NEW", "PENDING", "PROCESSING"}, NEW to,
             Lifecycle!Move(e, from, to)
      PROVE  Phase(d)' = "COMPLETED"
  <2>1. f[e] = from /\ f' = [f EXCEPT ![e] = to]
    BY <1>2 DEF Lifecycle!Move
  <2>2. e # d
    BY <1>1, <2>1
  <2>3. f'[d] = f[d]
    BY <2>1, <2>2
  <2> QED BY <1>1, <2>3
<1>3. ASSUME NEW S \in SUBSET Docs, Lifecycle!Remove(S)
      PROVE  Phase(d)' \in {"COMPLETED", "GONE"}
  <2>1. f' = [e \in Docs |-> IF e \in S /\ f[e] # "NEW" THEN "GONE" ELSE f[e]]
    BY <1>3 DEF Lifecycle!Remove
  <2>2. f'[d] \in {f[d], "GONE"}
    BY <2>1
  <2> QED BY <1>1, <2>2
<1>4. CASE UNCHANGED Lifecycle!lifecycleVars
  <2>1. f' = f
    BY <1>4 DEF Lifecycle!lifecycleVars
  <2>2. f'[d] = f[d]
    BY <2>1
  <2> QED BY <1>1, <2>2
<1> QED BY <1>2, <1>3, <1>4 DEF Lifecycle!LifecycleNext, Lifecycle!Accept,
       Lifecycle!Start, Lifecycle!Requeue, Lifecycle!Fail, Lifecycle!Complete

\* A COMPLETED document stays so until it is deleted, as the documentation of
\* the upload endpoint says, unless a message is delivered twice or an error
\* follows the commit: only these set it back to PENDING.
THEOREM CompletedStays ==
  ASSUME Calm
  PROVE  Spec => CompletedIsFinal
<1>1. ASSUME CalmInv, CalmInv', [Next]_vars, NEW d \in Docs, status[d] = "COMPLETED"
      PROVE  status'[d] \in {"COMPLETED", "NO_ROW"}
  <2>1. Phase(d) = "COMPLETED"
    BY <1>1 DEF Phase, HasRow
  <2>2. Phase(d)' \in {"COMPLETED", "GONE"}
    BY <1>1, <2>1, NextImplements, LifecycleFinal
  <2>3. status'[d] # "GONE"
    BY <1>1 DEF CalmInv, LifeInv, TypeOK, Statuses, InFlight
  <2> QED BY <2>2, <2>3 DEF Phase, HasRow
<1>2. CalmInv /\ CalmInv' /\ [Next]_vars =>
        [\A d \in Docs : status[d] = "COMPLETED" => status'[d] \in {"COMPLETED", "NO_ROW"}]_vars
  BY <1>1
<1> QED
  BY <1>2, InitCalm, NextCalm, PTL DEF Spec, CompletedIsFinal

-----------------------------------------------------------------------------
(* What is left behind                                                      *)

LocalBusy == \A w \in Workers : local[w] => pc[w] # "idle"

LEMMA TaskTemp ==
  ASSUME TypeOK, LocalBusy, NoTempLeft, NEW w \in Workers, TaskStep(w)
  PROVE  LocalBusy' /\ NoTempLeft'
<1>t. pc[w] # "idle" /\ task[w].doc \in Docs
  BY TaskOthers, BusyHoldsMessage
<1>1. CASE Finish(w)
  <2>1. /\ local' = [local EXCEPT ![w] = FALSE] /\ task' = [task EXCEPT ![w] = None]
        /\ pc' = [pc EXCEPT ![w] = "idle"]
        /\ temp' = IF local[w] THEN [temp EXCEPT ![TempPath(task[w].doc)] = None]
                               ELSE temp
    BY <1>1 DEF Finish, Reset, Goto
  <2>2. \A v \in Workers : v # w =>
          local'[v] = local[v] /\ task'[v] = task[v] /\ pc'[v] = pc[v]
    BY <2>1 DEF TypeOK
  <2>3. LocalBusy'
    BY <2>1, <2>2 DEF LocalBusy, TypeOK
  <2>4. ASSUME NEW f \in FileNames, temp'[f] # None
        PROVE  \E v \in Workers : local'[v] /\ TempPath(task'[v].doc) = f
    <3>1. temp[f] # None /\ ~(local[w] /\ TempPath(task[w].doc) = f)
      BY <2>1, <2>4 DEF TypeOK
    <3>2. PICK v \in Workers : local[v] /\ TempPath(task[v].doc) = f
      BY <3>1 DEF NoTempLeft
    <3>3. v # w
      BY <3>1, <3>2
    <3> QED BY <2>2, <3>2, <3>3
  <2> QED BY <2>3, <2>4 DEF NoTempLeft, TempPath
<1>2. CASE Download(w)
  <2>1. /\ local' = [local EXCEPT ![w] = TRUE] /\ task' = task
        /\ pc' = [pc EXCEPT ![w] = "extract"]
        /\ temp' = [temp EXCEPT ![TempPath(task[w].doc)] = files[Ref(task[w].doc)]]
    BY <1>2 DEF Download, Goto
  <2>2. LocalBusy'
    BY <2>1 DEF LocalBusy, TypeOK
  <2>3. ASSUME NEW f \in FileNames, temp'[f] # None
        PROVE  \E v \in Workers : local'[v] /\ TempPath(task'[v].doc) = f
    <3>1. CASE f = TempPath(task[w].doc)
      BY <2>1, <3>1 DEF TypeOK
    <3>2. CASE f # TempPath(task[w].doc)
      <4>1. PICK v \in Workers : local[v] /\ TempPath(task[v].doc) = f
        BY <2>1, <2>3, <3>2 DEF NoTempLeft, TypeOK
      <4> QED BY <2>1, <4>1 DEF TypeOK
    <3> QED BY <3>1, <3>2
  <2> QED BY <2>2, <2>3 DEF NoTempLeft, TempPath
<1>3. CASE ~Finish(w) /\ ~Download(w)
  <2>1. local' = local /\ task' = task /\ temp' = temp
    BY <1>3 DEF TaskStep, Begin, BeginFails, Extract, CommitIngestion,
         StepFails, Cleanup, CleanupFails, HandleRetry, HandleFailed, Republish,
         RepublishFails, storageVars, sessionVars
  <2>2. pc'[w] # "idle" /\ \A v \in Workers : v # w => pc'[v] = pc[v]
    BY <1>3 DEF TaskStep, Begin, BeginFails, Extract, CommitIngestion,
         StepFails, Cleanup, CleanupFails, HandleRetry, HandleFailed, Republish,
         RepublishFails, Goto, TypeOK
  <2> QED BY <2>1, <2>2 DEF LocalBusy, NoTempLeft, TempPath
<1> QED BY <1>1, <1>2, <1>3

LEMMA NextTemp ==
  ASSUME "worker_crash" \notin Faults, TypeOK, LocalBusy, NoTempLeft, [Next]_vars
  PROVE  LocalBusy' /\ NoTempLeft'
<1>1. ASSUME NEW d \in Docs,
             InsertRow(d) \/ UploadStep(d) \/ UploadStops(d)
               \/ DeleteRow(d) \/ DeletionStep(d)
      PROVE  local' = local /\ task' = task /\ temp' = temp /\ pc' = pc
  BY <1>1 DEF InsertRow, UploadStep, StoreFile, StoreFails, RollbackRow, Dispatch,
         UploadStops, DeleteRow, DeletionStep, DeleteFile, DeleteFileFails,
         workerVars, sessionVars, storageVars
<1>2. ASSUME NEW c \in Companies, DeleteCompany(c)
      PROVE  local' = local /\ task' = task /\ temp' = temp /\ pc' = pc
  BY <1>2 DEF DeleteCompany, workerVars, sessionVars, storageVars
<1>3. ASSUME NEW w \in Workers, TaskStep(w) PROVE LocalBusy' /\ NoTempLeft'
  BY <1>3, TaskTemp
<1>4. ASSUME NEW w \in Workers, NEW m \in Msgs, Receive(w, m)
      PROVE  LocalBusy' /\ NoTempLeft'
  <2>1. ~local[w]
    BY <1>4 DEF Receive, LocalBusy
  <2>2. /\ local' = local /\ temp' = temp
        /\ \A v \in Workers : v # w => task'[v] = task[v] /\ pc'[v] = pc[v]
    BY <1>4 DEF Receive, Goto, TypeOK, storageVars
  <2>3. \A v \in Workers : local[v] => v # w
    BY <2>1
  <2> QED BY <2>2, <2>3 DEF LocalBusy, NoTempLeft, TempPath
<1>5. ASSUME NEW w \in Workers, Crash(w) PROVE FALSE
  BY <1>5 DEF Crash
<1>6. ASSUME NEW w \in Workers, Redeliver(w) \/ \E m \in Msgs : LookupFails(w, m)
      PROVE  local' = local /\ task' = task /\ temp' = temp /\ pc' = pc
  BY <1>6 DEF Redeliver, LookupFails, workerVars, sessionVars, storageVars
<1>7. CASE UNCHANGED vars
  BY <1>7 DEF vars, workerVars, sessionVars, storageVars, LocalBusy, NoTempLeft, TempPath
<1>8. ASSUME local' = local /\ task' = task /\ temp' = temp /\ pc' = pc
      PROVE  LocalBusy' /\ NoTempLeft'
  BY <1>8 DEF LocalBusy, NoTempLeft, TempPath
<1> QED
  BY <1>1, <1>2, <1>3, <1>4, <1>5, <1>6, <1>7, <1>8 DEF Next, WorkerStep

\* As long as no worker process dies, no download outlives the task that made
\* it, however the task ends and however many tasks share a path.
THEOREM TempRemoved ==
  ASSUME "worker_crash" \notin Faults
  PROVE  Spec => []NoTempLeft
<1> DEFINE Inv == TypeOK /\ LocalBusy /\ NoTempLeft
<1>1. Init => Inv
  BY InitTypeOK DEF Init, LocalBusy, NoTempLeft
<1>2. Inv /\ [Next]_vars => Inv'
  BY NextTypeOK, NextTemp
<1>3. Inv => NoTempLeft
  OBVIOUS
<1> QED BY <1>1, <1>2, <1>3, PTL DEF Spec

LEMMA ApiCompleted ==
  ASSUME DistinctRefs, CalmInv, CompletedFileRemoved, NEW e \in Docs,
         InsertRow(e) \/ UploadStep(e) \/ UploadStops(e)
           \/ DeleteRow(e) \/ DeletionStep(e)
  PROVE  CompletedFileRemoved'
<1>t. TypeOK
  BY DEF CalmInv, LifeInv
<1> SUFFICES ASSUME NEW d \in Docs, status'[d] = "COMPLETED"
             PROVE  \/ files'[Ref(d)] = None
                    \/ \E w \in Workers : pc'[w] = "cleanup" /\ task'[w].doc = d
  BY DEF CompletedFileRemoved, Ref
<1>1. status[d] = "COMPLETED" /\ pc' = pc /\ task' = task
  BY <1>t DEF InsertRow, UploadStep, StoreFile, StoreFails, RollbackRow, Dispatch,
         UploadStops, DeleteRow, DeletionStep, DeleteFile, DeleteFileFails,
         DropRows, TypeOK, dbVars, workerVars
<1>2. CASE StoreFile(e) \/ StoreFails(e)
  <2>1. d # e
    <3>1. upload[e] = "inserted"
      BY <1>2 DEF StoreFile, StoreFails
    <3>2. HasRow(e) => status[e] = "PENDING"
      BY <3>1 DEF CalmInv, Rows
    <3> QED BY <1>1, <3>2 DEF HasRow
  <2>2. files'[Ref(d)] = files[Ref(d)]
    <3>1. files' = files \/ files' = [files EXCEPT ![Ref(e)] = e]
      BY <1>2 DEF StoreFile, StoreFails
    <3>2. Ref(d) # Ref(e)
      BY <2>1 DEF DistinctRefs
    <3> QED BY <1>t, <3>1, <3>2, MsgTyped DEF TypeOK
  <2> QED BY <1>1, <2>2 DEF CompletedFileRemoved
<1>3. CASE ~StoreFile(e) /\ ~StoreFails(e)
  <2>1. files' = files \/ files' = [files EXCEPT ![Ref(e)] = None]
    BY <1>3 DEF InsertRow, UploadStep, RollbackRow, Dispatch, UploadStops,
         DeleteRow, DeletionStep, DeleteFile, DeleteFileFails, storageVars
  <2>2. files'[Ref(d)] \in {files[Ref(d)], None}
    BY <1>t, <2>1, MsgTyped DEF TypeOK
  <2> QED BY <1>1, <2>2 DEF CompletedFileRemoved
<1> QED BY <1>2, <1>3

LEMMA TaskCompleted ==
  ASSUME DistinctRefs, Calm, CalmInv, CompletedFileRemoved,
         NEW w \in Workers, TaskStep(w)
  PROVE  CompletedFileRemoved'
<1>t. TypeOK /\ task[w].doc \in Docs
  BY TaskOthers, BusyHoldsMessage DEF CalmInv, LifeInv
<1> SUFFICES ASSUME NEW d \in Docs, status'[d] = "COMPLETED"
             PROVE  \/ files'[Ref(d)] = None
                    \/ \E v \in Workers : pc'[v] = "cleanup" /\ task'[v].doc = d
  BY DEF CompletedFileRemoved, Ref
<1>1. files'[Ref(d)] \in {files[Ref(d)], None}
  BY <1>t, MsgTyped DEF TaskStep, Begin, BeginFails, Download, Extract,
         CommitIngestion, StepFails, Cleanup, CleanupFails, HandleRetry,
         HandleFailed, Republish, RepublishFails, Finish, TypeOK, storageVars
<1>2. CASE d # task[w].doc
  <2>1. status[d] = "COMPLETED"
    BY <1>t, <1>2, TaskOthers
  <2>2. \A v \in Workers : pc[v] = "cleanup" /\ task[v].doc = d =>
          pc'[v] = "cleanup" /\ task'[v].doc = d
    BY <1>t, <1>2, TaskOthers
  <2> QED BY <1>1, <2>1, <2>2 DEF CompletedFileRemoved
<1>3. CASE d = task[w].doc /\ CommitIngestion(w)
  <2>1. pc'[w] = "cleanup" /\ task'[w].doc = d
    BY <1>t, <1>3 DEF CommitIngestion, Goto, TypeOK
  <2> QED BY <2>1
<1>4. CASE d = task[w].doc /\ Cleanup(w)
  BY <1>t, <1>4, MsgTyped DEF Cleanup, TypeOK
<1>5. CASE d = task[w].doc /\ ~CommitIngestion(w) /\ ~Cleanup(w)
  <2>1. HasRow(d)
    BY <1>t, TaskKeepsRows DEF HasRow
  <2>2. status[d] = "COMPLETED" /\ pc[w] # "cleanup"
    BY <1>t, <1>5, <2>1, NoSuchFault
       DEF TaskStep, Begin, BeginFails, Download, Extract, StepFails, CleanupFails,
         HandleRetry, HandleFailed, Republish, RepublishFails, Finish,
         RecordFailure, SetStatus, TypeOK, dbVars
  <2>3. \A v \in Workers : v # w => pc'[v] = pc[v] /\ task'[v] = task[v]
    BY <1>t, TaskOthers
  <2> QED BY <1>1, <2>2, <2>3 DEF CompletedFileRemoved
<1> QED BY <1>2, <1>3, <1>4, <1>5

LEMMA NextCompleted ==
  ASSUME DistinctRefs, Calm, CalmInv, CompletedFileRemoved, [Next]_vars
  PROVE  CompletedFileRemoved'
<1>t. TypeOK
  BY DEF CalmInv, LifeInv
<1>1. ASSUME NEW d \in Docs,
             InsertRow(d) \/ UploadStep(d) \/ UploadStops(d)
               \/ DeleteRow(d) \/ DeletionStep(d)
      PROVE  CompletedFileRemoved'
  BY <1>1, ApiCompleted
<1>2. ASSUME NEW c \in Companies, DeleteCompany(c) PROVE CompletedFileRemoved'
  <2>1. /\ files' = files /\ pc' = pc /\ task' = task
        /\ \A d \in Docs : status'[d] = "COMPLETED" => status[d] = "COMPLETED"
    BY <1>2 DEF DeleteCompany, DropRows, storageVars, workerVars
  <2> QED BY <2>1 DEF CompletedFileRemoved, Ref
<1>3. ASSUME NEW w \in Workers, TaskStep(w) PROVE CompletedFileRemoved'
  BY <1>3, TaskCompleted
<1>4. ASSUME NEW w \in Workers, NEW m \in Msgs, Receive(w, m)
      PROVE  CompletedFileRemoved'
  <2>1. /\ files' = files /\ status' = status /\ pc[w] = "idle"
        /\ \A v \in Workers : v # w => pc'[v] = pc[v] /\ task'[v] = task[v]
    BY <1>4, <1>t DEF Receive, Goto, TypeOK, dbVars, storageVars
  <2>2. \A v \in Workers : pc[v] = "cleanup" => v # w
    BY <2>1
  <2> QED BY <2>1, <2>2 DEF CompletedFileRemoved, Ref
<1>5. ASSUME NEW w \in Workers
      PROVE  ~Crash(w) /\ ~Redeliver(w) /\ \A m \in Msgs : ~LookupFails(w, m)
  BY NoSuchFault DEF Crash, Redeliver, LookupFails
<1>6. CASE UNCHANGED vars
  BY <1>6 DEF vars, dbVars, storageVars, workerVars, CompletedFileRemoved, Ref
<1> QED BY <1>1, <1>2, <1>3, <1>4, <1>5, <1>6 DEF Next, WorkerStep

\* As long as every message is delivered once and no two uploads share a
\* storage reference, the file of a COMPLETED document is removed by the
\* worker that completed it and by nothing put back.
THEOREM SourceRemoved ==
  ASSUME Calm, DistinctRefs
  PROVE  Spec => []CompletedFileRemoved
<1> DEFINE Inv == CalmInv /\ CompletedFileRemoved
<1>1. Init => Inv
  BY InitCalm DEF Init, CompletedFileRemoved
<1>2. Inv /\ [Next]_vars => Inv'
  BY NextCalm, NextCompleted
<1>3. Inv => CompletedFileRemoved
  OBVIOUS
<1> QED BY <1>1, <1>2, <1>3, PTL DEF Spec
=============================================================================
