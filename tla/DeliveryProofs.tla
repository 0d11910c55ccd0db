--------------------------- MODULE DeliveryProofs ---------------------------
(***************************************************************************)
(* How often a document can be ingested: every delivery of a message that  *)
(* can still come about is a ticket, an ingestion uses one up, and only a  *)
(* crash or a redelivery makes new ones.  The number of tickets is the     *)
(* cardinality of a set, so that no sum over messages and workers is       *)
(* needed and there may be any number of workers.  The same count of the   *)
(* steps that are still to come shows that the processing of a document    *)
(* comes to an end.                                                        *)
(***************************************************************************)
EXTENDS IngestionProofs, FiniteSetTheorems

-----------------------------------------------------------------------------
(* Tickets: whoever holds a message with n retries behind it, or is going   *)
(* to publish one, has a ticket for every attempt from n to the last.       *)

AttemptNumbers == 0..MaxTaskRetries

\* The attempts that message number k of those waiting with the retries r, or
\* the worker or upload x, has left.
Block(kind, x, k, n) == {<<kind, x, k, j>> : j \in n..MaxTaskRetries}

\* The first attempt after which a worker has not committed chunks yet.
NextAttempt(w) ==
  IF pc[w] \in {"begin", "download", "extract", "embed"} THEN task[w].retries
  ELSE IF pc[w] \in {"cleanup", "handle", "republish"} THEN task[w].retries + 1
  ELSE MaxTaskRetries + 1

UploadTickets(d) ==
  {t \in {"upload"} \X {d} \X {0} \X AttemptNumbers :
     upload[d] \in {"none", "inserted", "stored"}}

QueueTickets(d) ==
  {t \in {"queue"} \X Msgs \X Nat \X AttemptNumbers :
     t[2].doc = d /\ 0 < t[3] /\ t[3] <= queue[t[2]] /\ t[2].retries <= t[4]}

WorkerTickets(d) ==
  {t \in {"worker"} \X Workers \X {0} \X AttemptNumbers :
     pc[t[2]] # "idle" /\ task[t[2]].doc = d /\ NextAttempt(t[2]) <= t[4]}

Tickets(d) == UploadTickets(d) \cup QueueTickets(d) \cup WorkerTickets(d)

Allowance == (MaxTaskRetries + 1) * (1 + faults)

WithinAllowance(d) ==
  IsFiniteSet(Tickets(d)) /\ passes[d] + Cardinality(Tickets(d)) <= Allowance

DeliveryInv == TypeOK /\ RetriesLeft /\ \A d \in Docs : WithinAllowance(d)

-----------------------------------------------------------------------------
(* Counting                                                                 *)

\* Numbers lo to hi of what the k-th x of its kind has.
Stack(kind, x, k, lo, hi) == {<<kind, x, k, j>> : j \in lo..hi}

LEMMA StackSize ==
  ASSUME NEW kind, NEW x, NEW k, NEW lo \in Nat, NEW hi \in Nat, lo <= hi + 1
  PROVE  /\ IsFiniteSet(Stack(kind, x, k, lo, hi))
         /\ Cardinality(Stack(kind, x, k, lo, hi)) = hi + 1 - lo
<1> DEFINE I == lo..hi
           f == [j \in I |-> <<kind, x, k, j>>]
<1>1. IsFiniteSet(I) /\ Cardinality(I) = hi + 1 - lo
  <2>1. IsFiniteSet(I) /\ Cardinality(I) = IF lo > hi THEN 0 ELSE hi - lo + 1
    BY FS_Interval
  <2> QED BY <2>1
<1>2. f \in Bijection(I, Stack(kind, x, k, lo, hi))
  <2>1. f \in [I -> Stack(kind, x, k, lo, hi)]
    BY DEF Stack
  <2>2. \A i, j \in I : f[i] = f[j] => i = j
    <3>1. \A i \in I : f[i][4] = i
      OBVIOUS
    <3> QED BY <3>1
  <2>3. \A t \in Stack(kind, x, k, lo, hi) : \E j \in I : f[j] = t
    BY DEF Stack
  <2> HIDE DEF f
  <2>4. DOMAIN f = I
    BY <2>1
  <2> QED BY <2>1, <2>2, <2>3, <2>4 DEF Bijection, Injection, Surjection, IsInjective
<1>3. ExistsBijection(I, Stack(kind, x, k, lo, hi))
  BY <1>2 DEF ExistsBijection
<1> QED BY <1>1, <1>3, FS_Bijection

LEMMA BlockSize ==
  ASSUME NEW kind, NEW x, NEW k, NEW n \in 0..(MaxTaskRetries + 1)
  PROVE  /\ IsFiniteSet(Block(kind, x, k, n))
         /\ Cardinality(Block(kind, x, k, n)) = MaxTaskRetries + 1 - n
<1>1. n \in Nat /\ MaxTaskRetries \in Nat /\ n <= MaxTaskRetries + 1
  BY BoundsAssumption
<1>2. Block(kind, x, k, n) = Stack(kind, x, k, n, MaxTaskRetries)
  BY DEF Block, Stack
<1> QED BY <1>1, <1>2, StackSize

\* Some tickets may be exchanged for at most as many others, plus new ones.
LEMMA Exchange ==
  ASSUME NEW S, NEW T, NEW A, NEW B, IsFiniteSet(S), IsFiniteSet(A), IsFiniteSet(B),
         A \subseteq S, T \subseteq (S \ A) \cup B
  PROVE  /\ IsFiniteSet(T)
         /\ Cardinality(T) <= Cardinality(S) - Cardinality(A) + Cardinality(B)
         /\ Cardinality(T) \in Nat /\ Cardinality(S) \in Nat
<1>1. S \cap A = A
  OBVIOUS
<1>2. IsFiniteSet(S \ A) /\ Cardinality(S \ A) = Cardinality(S) - Cardinality(A)
  BY <1>1, FS_Difference
<1>3. /\ IsFiniteSet((S \ A) \cup B)
      /\ Cardinality((S \ A) \cup B)
           = Cardinality(S \ A) + Cardinality(B) - Cardinality((S \ A) \cap B)
  BY <1>2, FS_Union
<1>4. IsFiniteSet((S \ A) \cap B)
  BY <1>2, FS_Intersection
<1>5. IsFiniteSet(T) /\ Cardinality(T) <= Cardinality((S \ A) \cup B)
  BY <1>3, FS_Subset
<1>6. /\ Cardinality(T) \in Nat /\ Cardinality(S) \in Nat /\ Cardinality(A) \in Nat
      /\ Cardinality(B) \in Nat /\ Cardinality((S \ A) \cap B) \in Nat
  BY <1>4, <1>5, FS_CardinalityType
<1> QED BY <1>2, <1>3, <1>5, <1>6

\* What is given up, what is made anew and what is used leaves the document
\* within its allowance; a crash or a redelivery (g = 1) raises it.
LEMMA AllowanceStep ==
  ASSUME TypeOK, TypeOK', NEW d \in Docs, WithinAllowance(d),
         NEW A, NEW B, IsFiniteSet(A), IsFiniteSet(B),
         A \subseteq Tickets(d), Tickets(d)' \subseteq (Tickets(d) \ A) \cup B,
         NEW g \in {0, 1}, faults' = faults + g,
         passes'[d] + Cardinality(B)
           <= passes[d] + Cardinality(A) + (MaxTaskRetries + 1) * g
  PROVE  WithinAllowance(d)'
<1>1. /\ IsFiniteSet(Tickets(d)') /\ Cardinality(Tickets(d)') \in Nat
      /\ Cardinality(Tickets(d)) \in Nat
      /\ Cardinality(Tickets(d)')
           <= Cardinality(Tickets(d)) - Cardinality(A) + Cardinality(B)
  BY Exchange DEF WithinAllowance
<1>2. /\ Cardinality(A) \in Nat /\ Cardinality(B) \in Nat
      /\ passes[d] \in Nat /\ passes'[d] \in Nat /\ faults \in Nat
      /\ MaxTaskRetries \in Nat
  BY FS_CardinalityType, BoundsAssumption DEF TypeOK
<1>3. Allowance \in Nat /\ Allowance' = Allowance + (MaxTaskRetries + 1) * g
  BY <1>2 DEF Allowance
<1>4. (MaxTaskRetries + 1) * g \in Nat
  BY <1>2
<1>5. passes[d] + Cardinality(Tickets(d)) <= Allowance
  BY DEF WithinAllowance
<1>6. passes'[d] + Cardinality(Tickets(d)') <= Allowance'
  <2>1. \A a, b, s, t, p, q, l, x \in Nat :
          t <= s - a + b /\ q + b <= p + a + x /\ p + s <= l => q + t <= l + x
    OBVIOUS
  <2> QED BY <1>1, <1>2, <1>3, <1>4, <1>5, <2>1
<1> QED BY <1>1, <1>6 DEF WithinAllowance

\* The same where nothing but tickets and chunks are lost.
LEMMA AllowanceKept ==
  ASSUME TypeOK, TypeOK', NEW d \in Docs, WithinAllowance(d),
         Tickets(d)' \subseteq Tickets(d), passes'[d] <= passes[d],
         NEW g \in {0, 1}, faults' = faults + g
  PROVE  WithinAllowance(d)'
<1>1. IsFiniteSet({}) /\ Cardinality({}) = 0
  BY FS_EmptySet
<1>2. Tickets(d)' \subseteq (Tickets(d) \ {}) \cup {}
  OBVIOUS
<1>3. (MaxTaskRetries + 1) * g \in Nat /\ passes[d] \in Nat /\ passes'[d] \in Nat
  BY BoundsAssumption DEF TypeOK
<1>4. passes'[d] + Cardinality({})
        <= passes[d] + Cardinality({}) + (MaxTaskRetries + 1) * g
  BY <1>1, <1>3
<1> QED BY <1>1, <1>2, <1>4, AllowanceStep

-----------------------------------------------------------------------------
(* How each of the three kinds of tickets changes                           *)

LEMMA UploadKept ==
  ASSUME NEW d \in Docs,
         upload'[d] \in {"none", "inserted", "stored"} =>
           upload[d] \in {"none", "inserted", "stored"}
  PROVE  UploadTickets(d)' \subseteq UploadTickets(d)
BY DEF UploadTickets

LEMMA QueueKept ==
  ASSUME TypeOK, TypeOK', NEW d \in Docs,
         \A m \in Msgs : m.doc = d => queue'[m] <= queue[m]
  PROVE  QueueTickets(d)' \subseteq QueueTickets(d)
<1> SUFFICES ASSUME NEW t \in QueueTickets(d)' PROVE t \in QueueTickets(d)
  OBVIOUS
<1>1. /\ t \in {"queue"} \X Msgs \X Nat \X AttemptNumbers
      /\ t[2].doc = d /\ 0 < t[3] /\ t[3] <= queue'[t[2]] /\ t[2].retries <= t[4]
  BY DEF QueueTickets
<1>2. t[2] \in Msgs /\ t[3] \in Nat
  BY <1>1
<1>3. queue[t[2]] \in Nat /\ queue'[t[2]] \in Nat /\ queue'[t[2]] <= queue[t[2]]
  BY <1>1, <1>2 DEF TypeOK
<1>4. t[3] <= queue[t[2]]
  BY <1>1, <1>2, <1>3
<1> QED BY <1>1, <1>4 DEF QueueTickets

LEMMA QueuePublished ==
  ASSUME TypeOK, NEW n \in Msgs, Publish(n), NEW d \in Docs
  PROVE  QueueTickets(d)' \subseteq
           QueueTickets(d) \cup IF n.doc = d THEN Block("queue", n, queue[n] + 1, n.retries)
                                ELSE {}
<1> SUFFICES ASSUME NEW t \in QueueTickets(d)', t \notin QueueTickets(d)
             PROVE  n.doc = d /\ t \in Block("queue", n, queue[n] + 1, n.retries)
  OBVIOUS
<1>1. /\ t \in {"queue"} \X Msgs \X Nat \X AttemptNumbers
      /\ t[2].doc = d /\ 0 < t[3] /\ t[3] <= queue'[t[2]] /\ t[2].retries <= t[4]
  BY DEF QueueTickets
<1>2. ~(t[3] <= queue[t[2]])
  BY <1>1 DEF QueueTickets
<1>3. \A m \in Msgs : queue[m] \in Nat /\ queue'[m] = IF m = n THEN queue[m] + 1 ELSE queue[m]
  BY DEF TypeOK, Publish
<1>4. t[2] \in Msgs /\ t[3] \in Nat /\ t[4] \in AttemptNumbers
  BY <1>1
<1>5. t[2] = n /\ t[3] = queue[n] + 1
  BY <1>1, <1>2, <1>3, <1>4
<1>6. t[4] \in n.retries..MaxTaskRetries
  BY <1>1, <1>4, <1>5, MsgTyped, BoundsAssumption DEF AttemptNumbers
<1>7. t = <<"queue", n, queue[n] + 1, t[4]>>
  BY <1>1, <1>5
<1> QED BY <1>1, <1>5, <1>6, <1>7 DEF Block

LEMMA AttemptTyped ==
  ASSUME TypeOK, NEW w \in Workers, pc[w] # "idle"
  PROVE  NextAttempt(w) \in 0..(MaxTaskRetries + 1)
BY BusyHoldsMessage, MsgTyped, BoundsAssumption DEF NextAttempt

\* A worker keeps its tickets or loses some.
LEMMA WorkerKeeps ==
  ASSUME TypeOK, TypeOK', NEW d \in Docs, NEW w \in Workers,
         pc'[w] # "idle" /\ task'[w].doc = d =>
           /\ pc[w] # "idle" /\ task[w].doc = d
           /\ NextAttempt(w) <= NextAttempt(w)'
  PROVE  \A t \in WorkerTickets(d)' : t[2] = w => t \in WorkerTickets(d)
<1> SUFFICES ASSUME NEW t \in WorkerTickets(d)', t[2] = w
             PROVE  t \in WorkerTickets(d)
  OBVIOUS
<1>1. t \in {"worker"} \X Workers \X {0} \X AttemptNumbers
  BY DEF WorkerTickets
<1>3. pc'[w] # "idle" /\ task'[w].doc = d /\ NextAttempt(w)' <= t[4]
  BY DEF WorkerTickets, NextAttempt
<1>4. pc[w] # "idle" /\ task[w].doc = d /\ NextAttempt(w) <= NextAttempt(w)'
  BY <1>3
<1>5. NextAttempt(w) \in 0..(MaxTaskRetries + 1)
  BY <1>4, AttemptTyped
<1>6. NextAttempt(w)' \in 0..(MaxTaskRetries + 1)
  BY <1>3, BusyHoldsMessage, MsgTyped, BoundsAssumption DEF NextAttempt, TypeOK
<1>7. t[4] \in Nat
  BY <1>1, BoundsAssumption DEF AttemptNumbers
<1>8. NextAttempt(w) <= t[4]
  BY <1>3, <1>4, <1>5, <1>6, <1>7, BoundsAssumption
<1> QED BY <1>1, <1>4, <1>8 DEF WorkerTickets

\* All of them do.
LEMMA WorkersKept ==
  ASSUME TypeOK, TypeOK', NEW d \in Docs,
         \A w \in Workers : pc'[w] # "idle" /\ task'[w].doc = d =>
           /\ pc[w] # "idle" /\ task[w].doc = d
           /\ NextAttempt(w) <= NextAttempt(w)'
  PROVE  WorkerTickets(d)' \subseteq WorkerTickets(d)
<1> SUFFICES ASSUME NEW t \in WorkerTickets(d)'
             PROVE  t \in WorkerTickets(d)
  OBVIOUS
<1>1. t \in {"worker"} \X Workers \X {0} \X AttemptNumbers
  BY DEF WorkerTickets
<1>2. PICK w \in Workers : w = t[2]
  BY <1>1
<1> QED BY <1>2, WorkerKeeps

\* Workers that do not move keep theirs.
LEMMA OthersKeep ==
  ASSUME TypeOK, TypeOK', NEW d \in Docs, NEW w \in Workers,
         \A v \in Workers : v # w => pc'[v] = pc[v] /\ task'[v] = task[v]
  PROVE  \A t \in WorkerTickets(d)' : t[2] # w => t \in WorkerTickets(d)
<1> SUFFICES ASSUME NEW t \in WorkerTickets(d)', t[2] # w
             PROVE  t \in WorkerTickets(d)
  OBVIOUS
<1>1. t \in {"worker"} \X Workers \X {0} \X AttemptNumbers
  BY DEF WorkerTickets
<1>2. PICK v \in Workers : v = t[2]
  BY <1>1
<1>3. NextAttempt(v)' = NextAttempt(v)
  BY <1>2 DEF NextAttempt
<1>4. pc[v] # "idle" => NextAttempt(v) <= NextAttempt(v)
  BY AttemptTyped
<1> QED BY <1>2, <1>3, <1>4, WorkerKeeps

-----------------------------------------------------------------------------
(* The steps                                                                *)

LEMMA ApiAllowance ==
  ASSUME TypeOK, TypeOK', NEW d \in Docs, WithinAllowance(d), NEW e \in Docs,
         InsertRow(e) \/ UploadStep(e) \/ UploadStops(e)
           \/ DeleteRow(e) \/ DeletionStep(e)
  PROVE  WithinAllowance(d)'
<1>1. /\ pc' = pc /\ task' = task /\ faults' = faults
      /\ passes'[d] <= passes[d] /\ faults' = faults + 0
  <2>1. passes[d] \in Nat /\ faults \in Nat
    BY DEF TypeOK
  <2>2. pc' = pc /\ task' = task /\ faults' = faults
    BY DEF InsertRow, UploadStep, StoreFile, StoreFails, RollbackRow, Dispatch,
         UploadStops, DeleteRow, DeletionStep, DeleteFile, DeleteFileFails,
         workerVars
  <2>3. passes'[d] \in {passes[d], 0}
    BY DEF InsertRow, UploadStep, StoreFile, StoreFails, RollbackRow, Dispatch,
         UploadStops, DeleteRow, DeletionStep, DeleteFile, DeleteFileFails,
         DropRows, dbVars
  <2> QED BY <2>1, <2>2, <2>3
<1>2. WorkerTickets(d)' = WorkerTickets(d)
  BY <1>1 DEF WorkerTickets, NextAttempt
<1>3. CASE ~(Dispatch(e) /\ d = e)
  <2>1. \A m \in Msgs : m.doc = d => queue'[m] <= queue[m]
    <3>1. CASE Dispatch(e)
      <4>1. \A m \in Msgs : m.doc = d => queue'[m] = queue[m] /\ queue[m] \in Nat
        BY <1>3, <3>1, MsgTyped DEF Dispatch, Publish, Msg, TypeOK
      <4> QED BY <4>1
    <3>2. CASE ~Dispatch(e)
      <4>1. queue' = queue /\ \A m \in Msgs : queue[m] \in Nat
        BY <3>2 DEF InsertRow, UploadStep, StoreFile, StoreFails, RollbackRow,
             UploadStops, DeleteRow, DeletionStep, DeleteFile, DeleteFileFails, TypeOK
      <4> QED BY <4>1
    <3> QED BY <3>1, <3>2
  <2>2. QueueTickets(d)' \subseteq QueueTickets(d)
    BY <2>1, QueueKept
  <2>3. upload'[d] \in {"none", "inserted", "stored"} =>
          upload[d] \in {"none", "inserted", "stored"}
    BY DEF InsertRow, UploadStep, StoreFile, StoreFails, RollbackRow, Dispatch,
         UploadStops, DeleteRow, DeletionStep, DeleteFile, DeleteFileFails, TypeOK
  <2>4. UploadTickets(d)' \subseteq UploadTickets(d)
    BY <2>3, UploadKept
  <2>5. Tickets(d)' \subseteq Tickets(d)
    BY <1>2, <2>2, <2>4 DEF Tickets
  <2> QED BY <1>1, <2>5, AllowanceKept
<1>4. CASE Dispatch(e) /\ d = e
  <2>1. upload[d] = "stored" /\ upload'[d] = "done" /\ passes'[d] = passes[d]
    BY <1>4 DEF Dispatch, TypeOK, dbVars
  <2>2. PICK n \in Msgs : n = Msg(d, 0)
    BY MsgTyped
  <2>3. n.doc = d /\ n.retries = 0 /\ Publish(n)
    BY <1>4, <2>2 DEF Msg, Dispatch
  <2> DEFINE A == Block("upload", d, 0, 0)
             B == Block("queue", n, queue[n] + 1, 0)
  <2>4. QueueTickets(d)' \subseteq QueueTickets(d) \cup B
    BY <2>3, QueuePublished
  <2>5. UploadTickets(d)' = {} /\ UploadTickets(d) = A
    BY <2>1, BoundsAssumption DEF UploadTickets, Block, AttemptNumbers
  <2>6. A \cap (QueueTickets(d) \cup WorkerTickets(d)) = {}
    BY DEF QueueTickets, WorkerTickets, Block
  <2>7. A \subseteq Tickets(d) /\ Tickets(d)' \subseteq (Tickets(d) \ A) \cup B
    BY <1>2, <2>4, <2>5, <2>6 DEF Tickets
  <2>8. /\ IsFiniteSet(A) /\ IsFiniteSet(B)
        /\ Cardinality(A) = MaxTaskRetries + 1 /\ Cardinality(B) = MaxTaskRetries + 1
    BY BlockSize, BoundsAssumption
  <2> HIDE DEF A, B
  <2>9. passes'[d] + Cardinality(B)
          <= passes[d] + Cardinality(A) + (MaxTaskRetries + 1) * 0
    BY <2>1, <2>8, BoundsAssumption DEF TypeOK
  <2> QED BY <1>1, <2>7, <2>8, <2>9, AllowanceStep
<1> QED BY <1>3, <1>4

LEMMA CompanyAllowance ==
  ASSUME TypeOK, TypeOK', NEW d \in Docs, WithinAllowance(d),
         NEW c \in Companies, DeleteCompany(c)
  PROVE  WithinAllowance(d)'
<1>1. /\ pc' = pc /\ task' = task /\ queue' = queue /\ upload' = upload
      /\ passes'[d] \in {passes[d], 0}
  BY DEF DeleteCompany, DropRows, apiVars, workerVars
<1>2. faults' = faults /\ passes[d] \in Nat /\ faults \in Nat
  BY DEF DeleteCompany, TypeOK
<1>3. Tickets(d)' = Tickets(d)
  BY <1>1 DEF Tickets, UploadTickets, QueueTickets, WorkerTickets, NextAttempt
<1>4. passes'[d] <= passes[d] /\ faults' = faults + 0
  BY <1>1, <1>2
<1> QED BY <1>3, <1>4, AllowanceKept

LEMMA ReceiveAllowance ==
  ASSUME TypeOK, TypeOK', NEW d \in Docs, WithinAllowance(d),
         NEW w \in Workers, NEW m \in Msgs, Receive(w, m)
  PROVE  WithinAllowance(d)'
<1>1. /\ upload' = upload /\ passes' = passes /\ faults' = faults
      /\ pc[w] = "idle" /\ pc'[w] \in {"begin", "ack"} /\ task'[w] = m
      /\ queue[m] > 0 /\ queue' = [queue EXCEPT ![m] = @ - 1]
      /\ \A v \in Workers : v # w => pc'[v] = pc[v] /\ task'[v] = task[v]
  BY DEF Receive, Goto, dbVars, apiVars, TypeOK
<1>2. passes'[d] <= passes[d] /\ faults' = faults + 0 /\ passes[d] \in Nat
  BY <1>1 DEF TypeOK
<1>3. UploadTickets(d)' = UploadTickets(d)
  BY <1>1 DEF UploadTickets
<1>4. \A n \in Msgs : queue[n] \in Nat /\ queue'[n] = IF n = m THEN queue[n] - 1 ELSE queue[n]
  BY <1>1 DEF TypeOK
<1>5. QueueTickets(d)' \subseteq QueueTickets(d)
  BY <1>4, QueueKept
<1>6. \A t \in WorkerTickets(d)' : t[2] # w => t \in WorkerTickets(d)
  BY <1>1, OthersKeep
<1>7. CASE m.doc # d
  <2>1. \A t \in WorkerTickets(d)' : t[2] # w
    BY <1>1, <1>7 DEF WorkerTickets
  <2>2. WorkerTickets(d)' \subseteq WorkerTickets(d)
    BY <1>6, <2>1 DEF WorkerTickets
  <2>3. Tickets(d)' \subseteq Tickets(d)
    BY <1>3, <1>5, <2>2 DEF Tickets
  <2> QED BY <1>2, <2>3, AllowanceKept
<1>8. CASE m.doc = d
  <2> DEFINE A == Block("queue", m, queue[m], m.retries)
             B == Block("worker", w, 0, m.retries)
  <2>1. m.retries \in 0..MaxTaskRetries /\ MaxTaskRetries \in Nat
    BY MsgTyped, BoundsAssumption
  <2>2. A \subseteq QueueTickets(d)
    BY <1>1, <1>4, <1>8, <2>1 DEF Block, QueueTickets, AttemptNumbers
  <2>3. A \cap QueueTickets(d)' = {}
    BY <1>4 DEF Block, QueueTickets
  <2>4. A \cap (UploadTickets(d) \cup WorkerTickets(d)) = {}
    BY DEF Block, UploadTickets, WorkerTickets
  <2>5. \A t \in WorkerTickets(d)' : t[2] = w => t \in B
    <3> SUFFICES ASSUME NEW t \in WorkerTickets(d)', t[2] = w PROVE t \in B
      OBVIOUS
    <3>1. /\ t \in {"worker"} \X Workers \X {0} \X AttemptNumbers
          /\ NextAttempt(w)' <= t[4]
      BY DEF WorkerTickets, NextAttempt
    <3>2. NextAttempt(w)' \in {m.retries, MaxTaskRetries + 1}
      BY <1>1 DEF NextAttempt
    <3>3. t[4] \in m.retries..MaxTaskRetries
      BY <2>1, <3>1, <3>2 DEF AttemptNumbers
    <3>4. t = <<"worker", w, 0, t[4]>>
      BY <3>1
    <3> QED BY <3>3, <3>4 DEF Block
  <2>6. WorkerTickets(d)' \subseteq WorkerTickets(d) \cup B
    BY <1>6, <2>5 DEF WorkerTickets
  <2>7. A \subseteq Tickets(d) /\ Tickets(d)' \subseteq (Tickets(d) \ A) \cup B
    BY <1>3, <1>5, <2>2, <2>3, <2>4, <2>6 DEF Tickets
  <2>8. /\ IsFiniteSet(A) /\ IsFiniteSet(B) /\ Cardinality(A) = Cardinality(B)
        /\ Cardinality(A) \in Nat
    BY <2>1, BlockSize
  <2> HIDE DEF A, B
  <2>9. passes'[d] + Cardinality(B)
          <= passes[d] + Cardinality(A) + (MaxTaskRetries + 1) * 0
    BY <1>1, <1>2, <2>1, <2>8
  <2> QED BY <1>2, <2>7, <2>8, <2>9, AllowanceStep
<1> QED BY <1>7, <1>8

LEMMA QuietAllowance ==
  ASSUME TypeOK, TypeOK', NEW d \in Docs, WithinAllowance(d),
         NEW w \in Workers, TaskStep(w), ~CommitIngestion(w), ~Republish(w)
  PROVE  WithinAllowance(d)'
<1>1. /\ upload' = upload /\ queue' = queue /\ passes' = passes /\ faults' = faults
      /\ \A v \in Workers : v # w => pc'[v] = pc[v] /\ task'[v] = task[v]
  BY DEF TaskStep, Begin, BeginFails, Download, Extract, StepFails, Cleanup,
         CleanupFails, HandleRetry, HandleFailed, RepublishFails, Finish, Reset,
         Goto, dbVars, apiVars, TypeOK
<1>2. /\ pc'[w] # "idle" => pc[w] # "idle" /\ task'[w] = task[w]
      /\ pc[w] \in {"begin", "download", "extract", "embed"} /\ pc'[w] # "idle" =>
           pc'[w] \in {"begin", "download", "extract", "embed", "handle"}
      /\ pc[w] \in {"cleanup", "handle"} => pc'[w] \in {"handle", "republish", "ack"}
      /\ pc[w] \in {"republish", "ack"} => pc'[w] \in {"ack", "idle"}
  BY DEF TaskStep, Begin, BeginFails, Download, Extract, StepFails, Cleanup,
         CleanupFails, HandleRetry, HandleFailed, RepublishFails, Finish, Reset,
         Goto, TypeOK
<1>3. pc'[w] # "idle" => pc[w] # "idle" /\ NextAttempt(w) <= NextAttempt(w)'
  <2> SUFFICES ASSUME pc'[w] # "idle" PROVE NextAttempt(w) <= NextAttempt(w)'
    BY <1>2
  <2>1. task'[w] = task[w] /\ pc[w] # "idle"
    BY <1>2
  <2>2. task[w].retries \in 0..MaxTaskRetries /\ MaxTaskRetries \in Nat
    BY <2>1, BusyHoldsMessage, MsgTyped, BoundsAssumption
  <2>3. pc[w] \in {"begin", "download", "extract", "embed", "cleanup", "handle",
                   "republish", "ack"}
    BY <2>1 DEF TypeOK
  <2> QED BY <1>2, <2>1, <2>2, <2>3 DEF NextAttempt
<1>4. \A v \in Workers : pc'[v] # "idle" /\ task'[v].doc = d =>
        /\ pc[v] # "idle" /\ task[v].doc = d
        /\ NextAttempt(v) <= NextAttempt(v)'
  <2>1. ASSUME NEW v \in Workers, v # w, pc'[v] # "idle", task'[v].doc = d
        PROVE  /\ pc[v] # "idle" /\ task[v].doc = d
               /\ NextAttempt(v) <= NextAttempt(v)'
    <3>1. NextAttempt(v)' = NextAttempt(v) /\ pc[v] # "idle" /\ task[v].doc = d
      BY <1>1, <2>1 DEF NextAttempt
    <3>2. NextAttempt(v) \in 0..(MaxTaskRetries + 1)
      BY <3>1, AttemptTyped
    <3> QED BY <3>1, <3>2, BoundsAssumption
  <2> QED BY <1>2, <1>3, <2>1
<1>5. Tickets(d)' \subseteq Tickets(d)
  <2>1. WorkerTickets(d)' \subseteq WorkerTickets(d)
    BY <1>4, WorkersKept
  <2>2. UploadTickets(d)' = UploadTickets(d) /\ QueueTickets(d)' = QueueTickets(d)
    BY <1>1 DEF UploadTickets, QueueTickets
  <2> QED BY <2>1, <2>2 DEF Tickets
<1>6. passes'[d] <= passes[d] /\ faults' = faults + 0
  BY <1>1 DEF TypeOK
<1> QED BY <1>5, <1>6, AllowanceKept

\* An ingestion uses up the ticket of the attempt that stores the chunks.
LEMMA CommitAllowance ==
  ASSUME TypeOK, TypeOK', NEW d \in Docs, WithinAllowance(d),
         NEW w \in Workers, CommitIngestion(w)
  PROVE  WithinAllowance(d)'
<1>1. /\ upload' = upload /\ queue' = queue /\ faults' = faults /\ task' = task
      /\ pc[w] = "embed" /\ pc'[w] = "cleanup"
      /\ \A v \in Workers : v # w => pc'[v] = pc[v] /\ task'[v] = task[v]
  BY DEF CommitIngestion, Goto, apiVars, TypeOK
<1>2. PICK r \in 0..MaxTaskRetries : r = task[w].retries
  BY <1>1, BusyHoldsMessage, MsgTyped
<1>3. /\ r \in Nat /\ MaxTaskRetries \in Nat /\ r <= MaxTaskRetries
      /\ NextAttempt(w) = r /\ NextAttempt(w)' = r + 1
  BY <1>1, <1>2, BoundsAssumption DEF NextAttempt
<1>4. \A t \in WorkerTickets(d)' : t \in WorkerTickets(d)
  <2>1. \A t \in WorkerTickets(d)' : t[2] # w => t \in WorkerTickets(d)
    BY <1>1, OthersKeep
  <2>2. \A t \in WorkerTickets(d)' : t[2] = w => t \in WorkerTickets(d)
    BY <1>1, <1>3, WorkerKeeps
  <2> QED BY <2>1, <2>2
<1>5. UploadTickets(d)' = UploadTickets(d) /\ QueueTickets(d)' = QueueTickets(d)
  BY <1>1 DEF UploadTickets, QueueTickets
<1>6. Tickets(d)' \subseteq Tickets(d)
  BY <1>4, <1>5 DEF Tickets
<1>7. faults' = faults + 0 /\ passes[d] \in Nat
  BY <1>1 DEF TypeOK
<1>8. CASE task[w].doc # d
  <2>1. passes'[d] <= passes[d]
    BY <1>7, <1>8 DEF CommitIngestion, TypeOK
  <2> QED BY <1>6, <1>7, <2>1, AllowanceKept
<1>9. CASE task[w].doc = d
  <2> DEFINE t0 == <<"worker", w, 0, r>>
  <2>1. t0 \in WorkerTickets(d)
    BY <1>1, <1>3, <1>9 DEF WorkerTickets, AttemptNumbers
  <2>2. t0 \notin Tickets(d)'
    <3>1. t0 \notin WorkerTickets(d)'
      <4>1. ASSUME t0 \in WorkerTickets(d)' PROVE FALSE
        <5>1. t0[2] = w /\ t0[4] = r
          OBVIOUS
        <5>2. NextAttempt(w)' <= r
          BY <4>1, <5>1 DEF WorkerTickets, NextAttempt
        <5> QED BY <1>3, <5>2
      <4> QED BY <4>1
    <3>2. t0 \notin UploadTickets(d)' /\ t0 \notin QueueTickets(d)'
      BY DEF UploadTickets, QueueTickets
    <3> QED BY <3>1, <3>2 DEF Tickets
  <2>3. {t0} \subseteq Tickets(d) /\ Tickets(d)' \subseteq (Tickets(d) \ {t0}) \cup {}
    BY <1>6, <2>1, <2>2 DEF Tickets
  <2>4. IsFiniteSet({t0}) /\ Cardinality({t0}) = 1
    BY FS_Singleton
  <2>5. IsFiniteSet({}) /\ Cardinality({}) = 0
    BY FS_EmptySet
  <2>6. passes'[d] = passes[d] + 1
    BY <1>9 DEF CommitIngestion, TypeOK
  <2> HIDE DEF t0
  <2>7. passes'[d] + Cardinality({})
          <= passes[d] + Cardinality({t0}) + (MaxTaskRetries + 1) * 0
    BY <1>3, <1>7, <2>4, <2>5, <2>6
  <2> QED BY <1>7, <2>3, <2>4, <2>5, <2>7, AllowanceStep
<1> QED BY <1>8, <1>9

\* A worker that publishes again passes its tickets on to the new message.
LEMMA RepublishAllowance ==
  ASSUME TypeOK, TypeOK', RetriesLeft, NEW d \in Docs, WithinAllowance(d),
         NEW w \in Workers, Republish(w)
  PROVE  WithinAllowance(d)'
<1>1. /\ upload' = upload /\ passes' = passes /\ faults' = faults /\ task' = task
      /\ pc[w] = "republish" /\ pc'[w] = "ack"
      /\ \A v \in Workers : v # w => pc'[v] = pc[v] /\ task'[v] = task[v]
  BY DEF Republish, Goto, dbVars, apiVars, TypeOK
<1>2. task[w] \in Msgs /\ task[w].retries < MaxTaskRetries
  BY <1>1, BusyHoldsMessage DEF RetriesLeft
<1>3. PICK r \in 0..MaxTaskRetries : r = task[w].retries
  BY <1>2, MsgTyped
<1>4. PICK e \in Docs : e = task[w].doc
  BY <1>2, MsgTyped
<1>5. r \in Nat /\ MaxTaskRetries \in Nat /\ r + 1 <= MaxTaskRetries
  BY <1>2, <1>3, BoundsAssumption
<1>6. PICK n \in Msgs : n = Msg(e, r + 1)
  BY <1>5, MsgTyped
<1>7. n.doc = e /\ n.retries = r + 1 /\ Publish(n)
  BY <1>3, <1>4, <1>6 DEF Msg, Republish
<1> DEFINE A == Block("worker", w, 0, r + 1)
           B == Block("queue", n, queue[n] + 1, r + 1)
<1>8. NextAttempt(w) = r + 1 /\ NextAttempt(w)' = MaxTaskRetries + 1
  BY <1>1, <1>3 DEF NextAttempt
<1>9. \A t \in WorkerTickets(d)' : t[2] # w /\ t \in WorkerTickets(d)
  <2>1. \A t \in WorkerTickets(d)' : t[2] # w => t \in WorkerTickets(d)
    BY <1>1, OthersKeep
  <2>2. ASSUME NEW t \in WorkerTickets(d)', t[2] = w PROVE FALSE
    <3>1. NextAttempt(w)' <= t[4] /\ t[4] \in 0..MaxTaskRetries
      BY <2>2 DEF WorkerTickets, NextAttempt, AttemptNumbers
    <3> QED BY <1>5, <1>8, <3>1
  <2> QED BY <2>1, <2>2
<1>10. UploadTickets(d)' = UploadTickets(d)
  BY <1>1 DEF UploadTickets
<1>11. faults' = faults + 0 /\ passes[d] \in Nat
  BY <1>1 DEF TypeOK
<1>12. CASE e # d
  <2>1. QueueTickets(d)' \subseteq QueueTickets(d)
    BY <1>7, <1>12, QueuePublished
  <2>2. Tickets(d)' \subseteq Tickets(d)
    BY <1>9, <1>10, <2>1 DEF Tickets
  <2> QED BY <1>1, <1>11, <2>2, AllowanceKept
<1>13. CASE e = d
  <2>1. QueueTickets(d)' \subseteq QueueTickets(d) \cup B
    BY <1>7, <1>13, QueuePublished
  <2>2. A \subseteq WorkerTickets(d)
    <3> SUFFICES ASSUME NEW j \in (r + 1)..MaxTaskRetries
                 PROVE  <<"worker", w, 0, j>> \in WorkerTickets(d)
      BY DEF Block
    <3>1. j \in AttemptNumbers /\ NextAttempt(w) <= j
      BY <1>5, <1>8 DEF AttemptNumbers
    <3>2. pc[w] # "idle" /\ task[w].doc = d
      BY <1>1, <1>4, <1>13
    <3> QED BY <3>1, <3>2 DEF WorkerTickets
  <2>3. A \cap (UploadTickets(d) \cup QueueTickets(d)) = {}
    BY DEF Block, UploadTickets, QueueTickets
  <2>4. A \cap WorkerTickets(d)' = {}
    BY <1>9 DEF Block
  <2>5. A \subseteq Tickets(d) /\ Tickets(d)' \subseteq (Tickets(d) \ A) \cup B
    BY <1>9, <1>10, <2>1, <2>2, <2>3, <2>4 DEF Tickets
  <2>6. /\ IsFiniteSet(A) /\ IsFiniteSet(B) /\ Cardinality(A) = Cardinality(B)
        /\ Cardinality(A) \in Nat
    BY <1>5, BlockSize
  <2> HIDE DEF A, B
  <2>7. passes'[d] + Cardinality(B)
          <= passes[d] + Cardinality(A) + (MaxTaskRetries + 1) * 0
    BY <1>1, <1>5, <1>11, <2>6
  <2> QED BY <1>11, <2>5, <2>6, <2>7, AllowanceStep
<1> QED BY <1>12, <1>13

\* A copy of a message is worth no more than what a fault adds.
LEMMA CopyAllowance ==
  ASSUME TypeOK, TypeOK', NEW d \in Docs, WithinAllowance(d),
         NEW w \in Workers, Crash(w) \/ Redeliver(w)
  PROVE  WithinAllowance(d)'
<1>1. /\ upload' = upload /\ passes' = passes /\ faults' = faults + 1
      /\ pc[w] # "idle" /\ (pc'[w] = "idle" \/ (pc' = pc /\ task' = task))
      /\ \A v \in Workers : v # w => pc'[v] = pc[v] /\ task'[v] = task[v]
  BY DEF Crash, Redeliver, Reset, Goto, dbVars, apiVars, workerVars, TypeOK
<1>2. PICK n \in Msgs : n = task[w]
  BY <1>1, BusyHoldsMessage
<1>3. Publish(n) /\ n.retries \in 0..MaxTaskRetries /\ MaxTaskRetries \in Nat
  BY <1>2, MsgTyped, BoundsAssumption DEF Crash, Redeliver
<1> DEFINE B == IF n.doc = d THEN Block("queue", n, queue[n] + 1, n.retries) ELSE {}
<1>4. QueueTickets(d)' \subseteq QueueTickets(d) \cup B
  BY <1>3, QueuePublished
<1>5. WorkerTickets(d)' \subseteq WorkerTickets(d)
  <2>1. CASE pc' = pc /\ task' = task
    BY <2>1 DEF WorkerTickets, NextAttempt
  <2>2. CASE pc'[w] = "idle"
    <3>1. \A t \in WorkerTickets(d)' : t[2] # w
      BY <2>2 DEF WorkerTickets
    <3>2. \A t \in WorkerTickets(d)' : t[2] # w => t \in WorkerTickets(d)
      BY <1>1, OthersKeep
    <3> QED BY <3>1, <3>2
  <2> QED BY <1>1, <2>1, <2>2
<1>6. UploadTickets(d)' = UploadTickets(d)
  BY <1>1 DEF UploadTickets
<1>7. {} \subseteq Tickets(d) /\ Tickets(d)' \subseteq (Tickets(d) \ {}) \cup B
  BY <1>4, <1>5, <1>6 DEF Tickets
<1>8. IsFiniteSet({}) /\ Cardinality({}) = 0
  BY FS_EmptySet
<1>9. /\ IsFiniteSet(B) /\ Cardinality(B) \in Nat
      /\ Cardinality(B) <= MaxTaskRetries + 1
  BY <1>3, <1>8, BlockSize
<1> HIDE DEF B
<1>10. passes'[d] + Cardinality(B)
         <= passes[d] + Cardinality({}) + (MaxTaskRetries + 1) * 1
  BY <1>1, <1>3, <1>8, <1>9 DEF TypeOK
<1> QED BY <1>1, <1>7, <1>8, <1>9, <1>10, AllowanceStep

LEMMA LookupFailsAllowance ==
  ASSUME TypeOK, TypeOK', NEW d \in Docs, WithinAllowance(d),
         NEW w \in Workers, NEW m \in Msgs, LookupFails(w, m)
  PROVE  WithinAllowance(d)'
<1>1. /\ upload' = upload /\ passes' = passes /\ faults' = faults
      /\ pc' = pc /\ task' = task
  BY DEF LookupFails, dbVars, apiVars, workerVars
<1>2. \A n \in Msgs : queue'[n] <= queue[n]
  <2>1. queue[m] > 0 /\ \A n \in Msgs :
          queue[n] \in Nat /\ queue'[n] = IF n = m THEN queue[n] - 1 ELSE queue[n]
    BY DEF LookupFails, TypeOK
  <2> QED BY <2>1
<1>3. QueueTickets(d)' \subseteq QueueTickets(d)
  BY <1>2, QueueKept
<1>4. /\ UploadTickets(d)' = UploadTickets(d)
      /\ WorkerTickets(d)' = WorkerTickets(d)
  BY <1>1 DEF UploadTickets, WorkerTickets, NextAttempt
<1>5. Tickets(d)' \subseteq Tickets(d)
  BY <1>3, <1>4 DEF Tickets
<1>6. passes'[d] <= passes[d] /\ faults' = faults + 0
  BY <1>1 DEF TypeOK
<1> QED BY <1>5, <1>6, AllowanceKept

LEMMA NextDelivery == DeliveryInv /\ [Next]_vars => DeliveryInv'
<1> SUFFICES ASSUME DeliveryInv, [Next]_vars PROVE DeliveryInv'
  OBVIOUS
<1>1. TypeOK /\ TypeOK' /\ RetriesLeft /\ RetriesLeft'
  BY NextTypeOK, RetriesLeftStep DEF DeliveryInv
<1>2. ASSUME NEW d \in Docs PROVE WithinAllowance(d)'
  <2>1. WithinAllowance(d)
    BY DEF DeliveryInv
  <2>2. ASSUME NEW e \in Docs,
               InsertRow(e) \/ UploadStep(e) \/ UploadStops(e)
                 \/ DeleteRow(e) \/ DeletionStep(e)
        PROVE  WithinAllowance(d)'
    BY <1>1, <2>1, <2>2, ApiAllowance
  <2>3. ASSUME NEW c \in Companies, DeleteCompany(c) PROVE WithinAllowance(d)'
    BY <1>1, <2>1, <2>3, CompanyAllowance
  <2>4. ASSUME NEW w \in Workers, TaskStep(w) PROVE WithinAllowance(d)'
    BY <1>1, <2>1, <2>4, QuietAllowance, CommitAllowance, RepublishAllowance
  <2>5. ASSUME NEW w \in Workers, NEW m \in Msgs, Receive(w, m)
        PROVE  WithinAllowance(d)'
    BY <1>1, <2>1, <2>5, ReceiveAllowance
  <2>6. ASSUME NEW w \in Workers, Crash(w) \/ Redeliver(w)
        PROVE  WithinAllowance(d)'
    BY <1>1, <2>1, <2>6, CopyAllowance
  <2>7. ASSUME NEW w \in Workers, NEW m \in Msgs, LookupFails(w, m)
        PROVE  WithinAllowance(d)'
    BY <1>1, <2>1, <2>7, LookupFailsAllowance
  <2>8. CASE UNCHANGED vars
    <3>1. /\ upload' = upload /\ queue' = queue /\ pc' = pc /\ task' = task
          /\ passes' = passes /\ faults' = faults
      BY <2>8 DEF vars, dbVars, apiVars, workerVars
    <3>2. Tickets(d)' = Tickets(d)
      BY <3>1 DEF Tickets, UploadTickets, QueueTickets, WorkerTickets, NextAttempt
    <3>3. passes'[d] <= passes[d] /\ faults' = faults + 0
      BY <1>1, <3>1 DEF TypeOK
    <3> QED BY <1>1, <2>1, <3>2, <3>3, AllowanceKept
  <2> QED
    BY <2>2, <2>3, <2>4, <2>5, <2>6, <2>7, <2>8 DEF Next, WorkerStep
<1> QED BY <1>1, <1>2 DEF DeliveryInv

LEMMA InitDelivery == Init => DeliveryInv
<1> SUFFICES ASSUME Init PROVE DeliveryInv
  OBVIOUS
<1>1. TypeOK /\ RetriesLeft
  BY InitTypeOK DEF Init, RetriesLeft
<1>2. ASSUME NEW d \in Docs PROVE WithinAllowance(d)
  <2>1. QueueTickets(d) = {}
    BY DEF Init, QueueTickets
  <2>2. WorkerTickets(d) = {}
    BY DEF Init, WorkerTickets
  <2>3. UploadTickets(d) = Block("upload", d, 0, 0)
    BY BoundsAssumption DEF Init, UploadTickets, Block, AttemptNumbers
  <2>4. Tickets(d) = Block("upload", d, 0, 0)
    BY <2>1, <2>2, <2>3 DEF Tickets
  <2>5. IsFiniteSet(Tickets(d)) /\ Cardinality(Tickets(d)) = MaxTaskRetries + 1
    BY <2>4, BlockSize, BoundsAssumption
  <2>6. passes[d] = 0 /\ faults = 0
    BY DEF Init
  <2> QED BY <2>5, <2>6, BoundsAssumption DEF WithinAllowance, Allowance
<1> QED BY <1>1, <1>2 DEF DeliveryInv

\* A document is ingested at most once per attempt of its original message and
\* of each extra copy that a crash or a redelivery made of it, whatever the
\* number of workers and the order in which they take the copies
\* (process_pdf_task, self.retry and the broker's redeliveries).
THEOREM IngestionsBounded == Spec => []BoundedIngestion
<1>1. DeliveryInv => BoundedIngestion
  <2> SUFFICES ASSUME DeliveryInv, NEW d \in Docs
               PROVE  passes[d] <= Allowance
    BY DEF BoundedIngestion, Allowance
  <2>1. /\ Cardinality(Tickets(d)) \in Nat
        /\ passes[d] + Cardinality(Tickets(d)) <= Allowance
    BY FS_CardinalityType DEF DeliveryInv, WithinAllowance
  <2>2. passes[d] \in Nat /\ faults \in Nat /\ MaxTaskRetries \in Nat
    BY BoundsAssumption DEF DeliveryInv, TypeOK
  <2>3. Allowance \in Nat
    BY <2>2 DEF Allowance
  <2> QED BY <2>1, <2>2, <2>3
<1> QED BY <1>1, InitDelivery, NextDelivery, PTL DEF Spec

-----------------------------------------------------------------------------
(* Steps: the units of work of BoundedWork, described by what they satisfy. *)

Units == 1..(MessageWork(0) + 3)

UploadMarks(d) ==
  {t \in {"upload"} \X {d} \X {0} \X Units : t[4] <= UploadWork(d)}

QueueMarks(d) ==
  {t \in {"queue"} \X Msgs \X Nat \X Units :
     t[2].doc = d /\ 0 < t[3] /\ t[3] <= queue[t[2]] /\ t[4] <= MessageWork(t[2].retries)}

WorkerMarks(d) ==
  {t \in {"worker"} \X Workers \X {0} \X Units :
     Carries(t[2], d) /\ t[4] <= WorkerWork(t[2])}

Marks(d) == UploadMarks(d) \cup QueueMarks(d) \cup WorkerMarks(d)

WorkInv == TypeOK /\ RetriesLeft /\ \A d \in Docs : IsFiniteSet(Marks(d))

Progress(d) == IsFiniteSet(Marks(d))' /\ MovesOn(d)

LEMMA WorkTyped ==
  /\ \A n \in 0..(MaxTaskRetries + 1) : MessageWork(n) \in Nat /\ MessageWork(n) <= MessageWork(0)
  /\ MessageWork(0) \in Nat /\ FaultWork \in Nat /\ MaxFaults \in Nat
  /\ \A n \in 0..MaxTaskRetries : MessageWork(n) = MessageWork(n + 1) + 10
BY BoundsAssumption DEF MessageWork, FaultWork

\* What a worker has ahead of it fits into the units.
LEMMA WorkerWorkTyped ==
  ASSUME TypeOK, NEW w \in Workers, pc[w] # "idle"
  PROVE  WorkerWork(w) \in Units /\ WorkerWork(w) <= MessageWork(task[w].retries)
<1>1. PICK r \in 0..MaxTaskRetries : r = task[w].retries
  BY BusyHoldsMessage, MsgTyped
<1>2. PICK k \in 3..9 : k = LabelWork(pc[w])
  BY DEF LabelWork
<1>3. /\ MessageWork(r + 1) = 10 * (MaxTaskRetries - r)
      /\ MessageWork(r) = 10 * (MaxTaskRetries - r) + 10
      /\ MessageWork(0) = 10 * (MaxTaskRetries + 1)
  BY <1>1, BoundsAssumption DEF MessageWork
<1>4. WorkerWork(w) = IF pc[w] = "ack" THEN 1 ELSE MessageWork(r + 1) + k
  BY <1>1, <1>2 DEF WorkerWork
<1>5. WorkerWork(w) \in 1..(10 * (MaxTaskRetries - r) + 9)
  BY <1>1, <1>2, <1>3, <1>4, BoundsAssumption
<1> QED BY <1>1, <1>3, <1>5, BoundsAssumption DEF Units

\* The marks of a document are its units.
LEMMA SameWork == TypeOK => \A d \in Docs : Work(d) = Marks(d)
<1> SUFFICES ASSUME TypeOK, NEW d \in Docs PROVE Work(d) = Marks(d)
  OBVIOUS
<1>1. UploadUnits(d) = UploadMarks(d)
  <2>1. UploadWork(d) \in Nat /\ UploadWork(d) <= MessageWork(0) + 3 /\ MessageWork(0) \in Nat
    BY WorkTyped DEF UploadWork
  <2>2. \A j : j \in 1..UploadWork(d) <=> j \in Units /\ j <= UploadWork(d)
    BY <2>1 DEF Units
  <2> QED BY <2>2 DEF UploadUnits, UploadMarks, UnitsOf
<1>2. QueueUnits(d) = QueueMarks(d)
  <2>1. ASSUME NEW m \in Msgs
        PROVE  /\ queue[m] \in Nat
               /\ \A j : j \in 1..MessageWork(m.retries)
                          <=> j \in Units /\ j <= MessageWork(m.retries)
    <3>1. /\ MessageWork(m.retries) \in Nat /\ MessageWork(0) \in Nat
          /\ MessageWork(m.retries) <= MessageWork(0)
      BY MsgTyped, WorkTyped, BoundsAssumption
    <3>2. queue[m] \in Nat
      BY DEF TypeOK
    <3> QED BY <3>1, <3>2 DEF Units
  <2>2. ASSUME NEW t \in QueueUnits(d) PROVE t \in QueueMarks(d)
    <3>m. PICK m \in Msgs :
            /\ m.doc = d
            /\ \E k \in 1..queue[m] : t \in UnitsOf("queue", m, k, MessageWork(m.retries))
      BY DEF QueueUnits
    <3>1. PICK k \in 1..queue[m], j \in 1..MessageWork(m.retries) :
            m.doc = d /\ t = <<"queue", m, k, j>>
      BY <3>m DEF UnitsOf
    <3>2. k \in Nat /\ 0 < k /\ k <= queue[m] /\ j \in Units /\ j <= MessageWork(m.retries)
      BY <2>1
    <3> QED BY <3>1, <3>2 DEF QueueMarks
  <2>3. ASSUME NEW t \in QueueMarks(d) PROVE t \in QueueUnits(d)
    <3>1. PICK m \in Msgs, k \in Nat, j \in Units : t = <<"queue", m, k, j>>
      BY DEF QueueMarks
    <3>2. /\ m.doc = d /\ 0 < k /\ k <= queue[m] /\ j <= MessageWork(m.retries)
      BY <3>1 DEF QueueMarks
    <3>3. k \in 1..queue[m] /\ j \in 1..MessageWork(m.retries)
      BY <2>1, <3>2
    <3> QED BY <3>1, <3>2, <3>3 DEF QueueUnits, UnitsOf
  <2> QED BY <2>2, <2>3
<1>3. WorkerUnits(d) = WorkerMarks(d)
  <2>1. ASSUME NEW w \in Workers, Carries(w, d)
        PROVE  \A j : j \in 1..WorkerWork(w) <=> j \in Units /\ j <= WorkerWork(w)
    BY <2>1, WorkerWorkTyped, WorkTyped DEF Units, Carries
  <2>2. ASSUME NEW t \in WorkerUnits(d) PROVE t \in WorkerMarks(d)
    <3>1. PICK w \in Workers : Carries(w, d) /\ t \in UnitsOf("worker", w, 0, WorkerWork(w))
      BY DEF WorkerUnits
    <3>2. PICK j \in 1..WorkerWork(w) : t = <<"worker", w, 0, j>>
      BY <3>1 DEF UnitsOf
    <3> QED BY <2>1, <3>1, <3>2 DEF WorkerMarks
  <2>3. ASSUME NEW t \in WorkerMarks(d) PROVE t \in WorkerUnits(d)
    <3>1. PICK w \in Workers, j \in Units : t = <<"worker", w, 0, j>>
      BY DEF WorkerMarks
    <3>2. Carries(w, d) /\ j \in 1..WorkerWork(w)
      BY <2>1, <3>1 DEF WorkerMarks
    <3> QED BY <3>1, <3>2 DEF WorkerUnits, UnitsOf
  <2> QED BY <2>2, <2>3
<1> QED BY <1>1, <1>2, <1>3 DEF Work, Marks

LEMMA SameWorkNext == TypeOK' => (\A d \in Docs : Work(d) = Marks(d))'
BY SameWork, PTL

\* Units that are given up outweigh those that are made, unless there was a
\* fault, which pays for a message.
LEMMA WorkStep ==
  ASSUME TypeOK, TypeOK', NEW d \in Docs, IsFiniteSet(Marks(d)),
         NEW A, NEW B, IsFiniteSet(A), IsFiniteSet(B),
         A \subseteq Marks(d), Marks(d)' \subseteq (Marks(d) \ A) \cup B,
         \/ faults' = faults /\ Cardinality(B) < Cardinality(A)
         \/ faults' = faults + 1 /\ Cardinality(B) <= MessageWork(0)
  PROVE  Progress(d)
<1>1. /\ IsFiniteSet(Marks(d)') /\ Cardinality(Marks(d)') \in Nat
      /\ Cardinality(Marks(d)) \in Nat
      /\ Cardinality(Marks(d)') <= Cardinality(Marks(d)) - Cardinality(A) + Cardinality(B)
  BY Exchange
<1>2. /\ Cardinality(A) \in Nat /\ Cardinality(B) \in Nat
      /\ MessageWork(0) \in Nat /\ FaultWork = MessageWork(0) + 1
  BY FS_CardinalityType, WorkTyped DEF FaultWork
<1>3. PICK n \in Nat, m \in Nat : n = MaxFaults - faults /\ m = MaxFaults - faults'
  <2>1. faults \in 0..MaxFaults /\ faults' \in 0..MaxFaults /\ MaxFaults \in Nat
    BY BoundsAssumption DEF TypeOK
  <2>2. \A a \in Nat : \A b \in 0..a : a - b \in Nat
    OBVIOUS
  <2> QED BY <2>1, <2>2, Zenon
<1>4. WorkLeft(d) = Cardinality(Marks(d)) + FaultWork * n
  BY <1>3, SameWork DEF WorkLeft
<1>5. WorkLeft(d)' = Cardinality(Marks(d)') + FaultWork * m
  BY <1>3, SameWorkNext DEF WorkLeft, FaultWork, MessageWork
<1>6. FaultWork * n \in Nat /\ FaultWork * m \in Nat
  BY <1>2, <1>3
<1>7. CASE faults' = faults
  <2>1. m = n /\ Cardinality(B) < Cardinality(A)
    BY <1>3, <1>7 DEF TypeOK
  <2>2. WorkLeft(d)' < WorkLeft(d) /\ WorkLeft(d)' \in Nat /\ WorkLeft(d) \in Nat
    BY <1>1, <1>2, <1>4, <1>5, <1>6, <2>1
  <2> QED BY <1>1, <2>2 DEF Progress, MovesOn
<1>8. CASE faults' = faults + 1
  <2>1. n = m + 1 /\ Cardinality(B) <= MessageWork(0)
    BY <1>3, <1>8, BoundsAssumption DEF TypeOK
  <2>2. FaultWork * n = FaultWork * m + FaultWork
    BY <1>2, <1>3, <2>1
  <2>3. WorkLeft(d)' < WorkLeft(d) /\ WorkLeft(d)' \in Nat /\ WorkLeft(d) \in Nat
    BY <1>1, <1>2, <1>4, <1>5, <1>6, <2>1, <2>2
  <2> QED BY <1>1, <2>3 DEF Progress, MovesOn
<1> QED BY <1>7, <1>8

\* Who takes no step keeps its units.
LEMMA StaysPut ==
  ASSUME TypeOK, TypeOK', NEW d \in Docs, IsFiniteSet(Marks(d)), ~Moves(d),
         faults' \in {faults, faults + 1}
  PROVE  Progress(d)
<1>1. /\ upload'[d] = upload[d]
      /\ \A m \in Msgs : m.doc = d => queue'[m] = queue[m]
      /\ \A w \in Workers : Carries(w, d) \/ Carries(w, d)' => pc'[w] = pc[w] /\ task'[w] = task[w]
  BY DEF Moves
<1>2. UploadMarks(d)' = UploadMarks(d)
  BY <1>1 DEF UploadMarks, UploadWork, Units, MessageWork
<1>3. QueueMarks(d)' = QueueMarks(d)
  BY <1>1 DEF QueueMarks, Units, MessageWork
<1>4. WorkerMarks(d)' = WorkerMarks(d)
  <2>1. \A w \in Workers : /\ Carries(w, d)' <=> Carries(w, d)
                           /\ Carries(w, d) => WorkerWork(w)' = WorkerWork(w)
    BY <1>1 DEF Carries, WorkerWork, MessageWork, LabelWork
  <2>2. WorkerMarks(d)' = {t \in {"worker"} \X Workers \X {0} \X Units :
                             Carries(t[2], d)' /\ t[4] <= WorkerWork(t[2])'}
    BY DEF WorkerMarks, Units, MessageWork, Carries, WorkerWork, LabelWork
  <2>3. ASSUME NEW t \in {"worker"} \X Workers \X {0} \X Units
        PROVE  Carries(t[2], d)' /\ t[4] <= WorkerWork(t[2])'
                 <=> Carries(t[2], d) /\ t[4] <= WorkerWork(t[2])
    <3>1. PICK w \in Workers : w = t[2]
      OBVIOUS
    <3> QED BY <2>1, <3>1
  <2> QED BY <2>2, <2>3 DEF WorkerMarks
<1>5. Marks(d)' = Marks(d)
  BY <1>2, <1>3, <1>4 DEF Marks
<1>6. CASE faults' = faults
  <2>1. WorkLeft(d)' = WorkLeft(d)
    BY <1>5, <1>6, SameWork, SameWorkNext DEF WorkLeft, FaultWork, MessageWork
  <2>2. WorkLeft(d) \in Nat
    <3>1. Cardinality(Marks(d)) \in Nat /\ FaultWork \in Nat
      BY FS_CardinalityType, WorkTyped
    <3>2. PICK n \in Nat : n = MaxFaults - faults
      <4>1. faults \in 0..MaxFaults /\ MaxFaults \in Nat
        BY BoundsAssumption DEF TypeOK
      <4>2. \A a \in Nat : \A b \in 0..a : a - b \in Nat
        OBVIOUS
      <4> QED BY <4>1, <4>2, Zenon
    <3>3. FaultWork * n \in Nat
      BY <3>1, <3>2
    <3> QED BY <3>1, <3>2, <3>3, SameWork DEF WorkLeft
  <2> QED BY <1>5, <2>1, <2>2 DEF Progress, MovesOn
<1>7. CASE faults' = faults + 1
  <2>1. IsFiniteSet({}) /\ Cardinality({}) = 0
    BY FS_EmptySet
  <2>2. {} \subseteq Marks(d) /\ Marks(d)' \subseteq (Marks(d) \ {}) \cup {}
    BY <1>5
  <2>3. Cardinality({}) <= MessageWork(0)
    BY <2>1, WorkTyped
  <2> QED BY <1>7, <2>1, <2>2, <2>3, WorkStep
<1> QED BY <1>6, <1>7

\* Who gives up a unit and gets none has taken a step.
LEMMA UnitSpent ==
  ASSUME TypeOK, TypeOK', NEW d \in Docs, IsFiniteSet(Marks(d)), NEW u \in Marks(d),
         Marks(d)' \subseteq Marks(d), u \notin Marks(d)', faults' = faults
  PROVE  Progress(d)
<1>1. IsFiniteSet({}) /\ Cardinality({}) = 0
  BY FS_EmptySet
<1>2. IsFiniteSet({u}) /\ Cardinality({u}) = 1
  BY FS_Singleton
<1>3. {u} \subseteq Marks(d) /\ Marks(d)' \subseteq (Marks(d) \ {u}) \cup {}
  OBVIOUS
<1>4. Cardinality({}) < Cardinality({u})
  BY <1>1, <1>2
<1> QED BY <1>1, <1>2, <1>3, <1>4, WorkStep

\* A message that is published adds its units.
LEMMA QueueGrows ==
  ASSUME TypeOK, NEW n \in Msgs, Publish(n), NEW d \in Docs
  PROVE  QueueMarks(d)' \subseteq
           QueueMarks(d) \cup IF n.doc = d
                              THEN Stack("queue", n, queue[n] + 1, 1, MessageWork(n.retries))
                              ELSE {}
<1> SUFFICES ASSUME NEW t \in QueueMarks(d)', t \notin QueueMarks(d)
             PROVE  n.doc = d /\ t \in Stack("queue", n, queue[n] + 1, 1, MessageWork(n.retries))
  OBVIOUS
<1>1. /\ t \in {"queue"} \X Msgs \X Nat \X Units
      /\ t[2].doc = d /\ 0 < t[3] /\ t[3] <= queue'[t[2]]
      /\ t[4] <= MessageWork(t[2].retries)
  BY DEF QueueMarks, Units, MessageWork
<1>2. ~(t[3] <= queue[t[2]])
  BY <1>1 DEF QueueMarks
<1>3. \A m \in Msgs : queue[m] \in Nat /\ queue'[m] = IF m = n THEN queue[m] + 1 ELSE queue[m]
  BY DEF TypeOK, Publish
<1>4. t[2] \in Msgs /\ t[3] \in Nat /\ t[4] \in Units
  BY <1>1
<1>5. t[2] = n /\ t[3] = queue[n] + 1
  BY <1>1, <1>2, <1>3, <1>4
<1>6. t[4] \in 1..MessageWork(n.retries)
  <2>1. MessageWork(n.retries) \in Nat
    BY MsgTyped, WorkTyped, BoundsAssumption
  <2> QED BY <1>1, <1>4, <1>5, <2>1, WorkTyped DEF Units
<1>7. t = <<"queue", n, queue[n] + 1, t[4]>>
  BY <1>1, <1>5
<1> QED BY <1>1, <1>5, <1>6, <1>7 DEF Stack

\* A message that is taken from the queue takes its units along.
LEMMA QueueShrinks ==
  ASSUME TypeOK, NEW n \in Msgs, queue[n] > 0,
         queue' = [queue EXCEPT ![n] = @ - 1], NEW d \in Docs, n.doc = d
  PROVE  /\ Stack("queue", n, queue[n], 1, MessageWork(n.retries)) \subseteq QueueMarks(d)
         /\ QueueMarks(d)' \subseteq
              QueueMarks(d) \ Stack("queue", n, queue[n], 1, MessageWork(n.retries))
<1>1. \A m \in Msgs : queue[m] \in Nat /\ queue'[m] = IF m = n THEN queue[m] - 1 ELSE queue[m]
  BY DEF TypeOK
<1>2. MessageWork(n.retries) \in Nat /\ MessageWork(n.retries) <= MessageWork(0)
      /\ MessageWork(0) \in Nat
  BY MsgTyped, WorkTyped, BoundsAssumption
<1>3. ASSUME NEW j \in 1..MessageWork(n.retries)
      PROVE  <<"queue", n, queue[n], j>> \in QueueMarks(d)
  <2>1. j \in Units /\ queue[n] \in Nat /\ 0 < queue[n]
    BY <1>1, <1>2 DEF Units
  <2>2. queue[n] <= queue[n] /\ j <= MessageWork(n.retries)
    BY <1>2, <2>1
  <2> QED BY <2>1, <2>2 DEF QueueMarks
<1>4. ASSUME NEW t \in QueueMarks(d)'
      PROVE  t \in QueueMarks(d) /\ ~(t[2] = n /\ t[3] = queue[n])
  <2>1. /\ t \in {"queue"} \X Msgs \X Nat \X Units
        /\ t[2].doc = d /\ 0 < t[3] /\ t[3] <= queue'[t[2]]
        /\ t[4] <= MessageWork(t[2].retries)
    BY DEF QueueMarks, Units, MessageWork
  <2>2. t[2] \in Msgs /\ t[3] \in Nat
    BY <2>1
  <2>3. t[3] <= queue[t[2]] /\ ~(t[2] = n /\ t[3] = queue[n])
    BY <1>1, <2>1, <2>2
  <2> QED BY <2>1, <2>3 DEF QueueMarks
<1> QED BY <1>3, <1>4 DEF Stack

\* Workers that do not move keep their units.
LEMMA OthersUnits ==
  ASSUME NEW d \in Docs, NEW w \in Workers,
         \A v \in Workers : v # w => pc'[v] = pc[v] /\ task'[v] = task[v]
  PROVE  \A t \in WorkerMarks(d)' : t[2] # w => t \in WorkerMarks(d)
<1> SUFFICES ASSUME NEW t \in WorkerMarks(d)', t[2] # w
             PROVE  t \in WorkerMarks(d)
  OBVIOUS
<1>1. /\ t \in {"worker"} \X Workers \X {0} \X Units
      /\ pc'[t[2]] # "idle" /\ task'[t[2]].doc = d
      /\ t[4] <= IF pc'[t[2]] = "ack" THEN 1
                 ELSE MessageWork(task'[t[2]].retries + 1) + LabelWork(pc'[t[2]])
  BY DEF WorkerMarks, Units, Carries, WorkerWork, MessageWork, LabelWork
<1>2. t[2] \in Workers
  BY <1>1
<1>3. pc'[t[2]] = pc[t[2]] /\ task'[t[2]] = task[t[2]]
  BY <1>2
<1> QED BY <1>1, <1>3 DEF WorkerMarks, Carries, WorkerWork

LEMMA ApiProgress ==
  ASSUME TypeOK, TypeOK', NEW d \in Docs, IsFiniteSet(Marks(d)), NEW e \in Docs,
         InsertRow(e) \/ UploadStep(e) \/ UploadStops(e)
           \/ DeleteRow(e) \/ DeletionStep(e)
  PROVE  Progress(d)
<1>1. /\ pc' = pc /\ task' = task /\ faults' = faults
      /\ \A c \in Docs : c # e => upload'[c] = upload[c]
  BY DEF InsertRow, UploadStep, StoreFile, StoreFails, RollbackRow, Dispatch,
       UploadStops, DeleteRow, DeletionStep, DeleteFile, DeleteFileFails,
       workerVars, TypeOK
<1>2. WorkerMarks(d)' = WorkerMarks(d)
  BY <1>1 DEF WorkerMarks, Units, MessageWork, Carries, WorkerWork, LabelWork
<1>3. CASE Dispatch(e)
  <2>1. PICK n \in Msgs : n = Msg(e, 0)
    BY MsgTyped
  <2>2. n.doc = e /\ n.retries = 0 /\ Publish(n)
    BY <1>3, <2>1 DEF Msg, Dispatch
  <2>3. upload[e] = "stored" /\ upload'[e] = "done"
    BY <1>3 DEF Dispatch, TypeOK
  <2>4. CASE e # d
    <3>1. \A m \in Msgs : m.doc = d => queue'[m] = queue[m]
      BY <2>2, <2>4 DEF Publish, TypeOK
    <3>2. ~Moves(d)
      BY <1>1, <2>4, <3>1 DEF Moves
    <3> QED BY <1>1, <3>2, StaysPut
  <2>5. CASE e = d
    <3> DEFINE A == Stack("upload", d, 0, 1, MessageWork(0) + 1)
               B == Stack("queue", n, queue[n] + 1, 1, MessageWork(0))
    <3>1. QueueMarks(d)' \subseteq QueueMarks(d) \cup B
      BY <2>2, <2>5, QueueGrows
    <3>2. UploadMarks(d)' = {}
      BY <2>3, <2>5 DEF UploadMarks, UploadWork, Units, MessageWork
    <3>3. A \subseteq UploadMarks(d)
      <4>1. UploadWork(d) = MessageWork(0) + 1
        BY <2>3, <2>5 DEF UploadWork
      <4>2. \A j \in 1..(MessageWork(0) + 1) : j \in Units /\ j <= MessageWork(0) + 1
        BY WorkTyped DEF Units
      <4> QED BY <4>1, <4>2 DEF UploadMarks, Stack
    <3>4. A \cap (QueueMarks(d) \cup WorkerMarks(d)) = {}
      BY DEF Stack, QueueMarks, WorkerMarks
    <3>5. A \subseteq Marks(d) /\ Marks(d)' \subseteq (Marks(d) \ A) \cup B
      BY <1>2, <3>1, <3>2, <3>3, <3>4 DEF Marks
    <3>6. /\ IsFiniteSet(A) /\ IsFiniteSet(B)
          /\ Cardinality(A) = MessageWork(0) + 1 /\ Cardinality(B) = MessageWork(0)
      <4>1. MessageWork(0) \in Nat /\ MessageWork(0) + 1 \in Nat
        BY WorkTyped
      <4>2. 1 \in Nat /\ 1 <= MessageWork(0) + 1 /\ 1 <= (MessageWork(0) + 1) + 1
            /\ (MessageWork(0) + 1) + 1 - 1 = MessageWork(0) + 1
            /\ MessageWork(0) + 1 - 1 = MessageWork(0)
        BY <4>1
      <4> HIDE DEF A, B
      <4>3. /\ IsFiniteSet(Stack("upload", d, 0, 1, MessageWork(0) + 1))
            /\ Cardinality(Stack("upload", d, 0, 1, MessageWork(0) + 1)) = (MessageWork(0) + 1) + 1 - 1
        BY <4>1, <4>2, StackSize
      <4>4. /\ IsFiniteSet(Stack("queue", n, queue[n] + 1, 1, MessageWork(0)))
            /\ Cardinality(Stack("queue", n, queue[n] + 1, 1, MessageWork(0))) = MessageWork(0) + 1 - 1
        BY <4>1, <4>2, StackSize
      <4> QED BY <4>2, <4>3, <4>4 DEF A, B
    <3> HIDE DEF A, B
    <3>7. Cardinality(B) < Cardinality(A)
      BY <3>6, WorkTyped
    <3> QED BY <1>1, <3>5, <3>6, <3>7, WorkStep
  <2> QED BY <2>4, <2>5
<1>4. CASE ~Dispatch(e)
  <2>1. queue' = queue
    BY <1>4 DEF InsertRow, UploadStep, StoreFile, StoreFails, RollbackRow,
         UploadStops, DeleteRow, DeletionStep, DeleteFile, DeleteFileFails
  <2>2. CASE upload'[d] = upload[d]
    <3>1. ~Moves(d)
      BY <1>1, <2>1, <2>2 DEF Moves, Carries
    <3> QED BY <1>1, <3>1, StaysPut
  <2>3. CASE upload'[d] # upload[d]
    <3>1. \/ upload[d] = "none" /\ upload'[d] = "inserted"
          \/ upload[d] = "inserted" /\ upload'[d] \in {"stored", "failing", "stopped"}
          \/ upload[d] = "stored" /\ upload'[d] = "stopped"
          \/ upload[d] = "failing" /\ upload'[d] \in {"done", "stopped"}
      BY <1>1, <1>4, <2>3 DEF InsertRow, UploadStep, StoreFile, StoreFails, RollbackRow,
           UploadStops, DeleteRow, DeletionStep, DeleteFile, DeleteFileFails, TypeOK
    <3>2. PICK h \in Nat, k \in Nat : /\ h = UploadWork(d) /\ k = UploadWork(d)'
                                      /\ k < h /\ h \in Units
      <4>1. PICK z \in Nat : z = MessageWork(0)
        BY WorkTyped
      <4>2. /\ UploadWork(d) \in Nat /\ UploadWork(d)' \in Nat
            /\ UploadWork(d)' < UploadWork(d) /\ UploadWork(d) \in 1..(z + 3)
        <5>1. UploadWork(d)' = CASE upload'[d] = "none"     -> z + 3
                                 [] upload'[d] = "inserted" -> z + 2
                                 [] upload'[d] = "stored"   -> z + 1
                                 [] upload'[d] = "failing"  -> 1
                                 [] OTHER                   -> 0
          BY <4>1 DEF UploadWork, MessageWork
        <5>2. UploadWork(d) = CASE upload[d] = "none"     -> z + 3
                                [] upload[d] = "inserted" -> z + 2
                                [] upload[d] = "stored"   -> z + 1
                                [] upload[d] = "failing"  -> 1
                                [] OTHER                  -> 0
          BY <4>1 DEF UploadWork
        <5> QED BY <3>1, <5>1, <5>2
      <4> QED BY <4>1, <4>2 DEF Units
    <3> DEFINE u == <<"upload", d, 0, h>>
    <3>3. u \in UploadMarks(d)
      BY <3>2 DEF UploadMarks
    <3>4. UploadMarks(d)' \subseteq UploadMarks(d) /\ u \notin UploadMarks(d)'
      <4>1. UploadMarks(d)' = {t \in {"upload"} \X {d} \X {0} \X Units : t[4] <= k}
        BY <3>2 DEF UploadMarks, Units, MessageWork
      <4>2. \A t \in {"upload"} \X {d} \X {0} \X Units : t[4] <= k => t[4] <= h
        BY <3>2, WorkTyped DEF Units
      <4>3. u[4] = h /\ ~(h <= k)
        BY <3>2
      <4> QED BY <3>2, <4>1, <4>2, <4>3 DEF UploadMarks
    <3>5. QueueMarks(d)' = QueueMarks(d)
      BY <2>1 DEF QueueMarks, Units, MessageWork
    <3>6. u \notin QueueMarks(d) /\ u \notin WorkerMarks(d)
      BY DEF QueueMarks, WorkerMarks
    <3>7. u \in Marks(d) /\ Marks(d)' \subseteq Marks(d) /\ u \notin Marks(d)'
      BY <1>2, <3>3, <3>4, <3>5, <3>6 DEF Marks
    <3> HIDE DEF u
    <3> QED BY <1>1, <3>7, UnitSpent
  <2> QED BY <2>2, <2>3
<1> QED BY <1>3, <1>4

LEMMA CompanyProgress ==
  ASSUME TypeOK, TypeOK', NEW d \in Docs, IsFiniteSet(Marks(d)),
         NEW c \in Companies, DeleteCompany(c)
  PROVE  Progress(d)
<1>1. /\ pc' = pc /\ task' = task /\ queue' = queue /\ upload' = upload
      /\ faults' = faults
  BY DEF DeleteCompany, apiVars, workerVars
<1>2. ~Moves(d)
  BY <1>1 DEF Moves, Carries
<1> QED BY <1>1, <1>2, StaysPut

LEMMA LookupFailsProgress ==
  ASSUME TypeOK, TypeOK', NEW d \in Docs, IsFiniteSet(Marks(d)),
         NEW w \in Workers, NEW m \in Msgs, LookupFails(w, m)
  PROVE  Progress(d)
<1>1. /\ upload' = upload /\ faults' = faults /\ pc' = pc /\ task' = task
      /\ queue[m] > 0 /\ queue' = [queue EXCEPT ![m] = @ - 1]
  BY DEF LookupFails, apiVars, workerVars
<1>2. CASE m.doc # d
  <2>1. \A n \in Msgs : n.doc = d => queue'[n] = queue[n]
    BY <1>1, <1>2 DEF TypeOK
  <2>2. ~Moves(d)
    BY <1>1, <2>1 DEF Moves, Carries
  <2> QED BY <1>1, <2>2, StaysPut
<1>3. CASE m.doc = d
  <2> DEFINE S == Stack("queue", m, queue[m], 1, MessageWork(m.retries))
             u == <<"queue", m, queue[m], 1>>
  <2>1. S \subseteq QueueMarks(d) /\ QueueMarks(d)' \subseteq QueueMarks(d) \ S
    BY <1>1, <1>3, QueueShrinks
  <2>2. u \in S
    <3>1. 1 \in 1..MessageWork(m.retries)
      <4>1. m.retries \in 0..MaxTaskRetries
        BY MsgTyped
      <4> QED BY <4>1, BoundsAssumption DEF MessageWork
    <3> QED BY <3>1 DEF Stack
  <2>3. UploadMarks(d)' = UploadMarks(d) /\ WorkerMarks(d)' = WorkerMarks(d)
    BY <1>1 DEF UploadMarks, UploadWork, WorkerMarks, Units, MessageWork, Carries,
         WorkerWork, LabelWork
  <2>4. u \notin UploadMarks(d) /\ u \notin WorkerMarks(d)
    BY DEF UploadMarks, WorkerMarks
  <2>5. u \in Marks(d) /\ Marks(d)' \subseteq Marks(d) /\ u \notin Marks(d)'
    BY <2>1, <2>2, <2>3, <2>4 DEF Marks
  <2> HIDE DEF u
  <2> QED BY <1>1, <2>5, UnitSpent
<1> QED BY <1>2, <1>3

\* The worker that takes a message takes over its units but one.
LEMMA ReceiveProgress ==
  ASSUME TypeOK, TypeOK', NEW d \in Docs, IsFiniteSet(Marks(d)),
         NEW w \in Workers, NEW m \in Msgs, Receive(w, m)
  PROVE  Progress(d)
<1>1. /\ upload' = upload /\ faults' = faults
      /\ pc[w] = "idle" /\ pc'[w] \in {"begin", "ack"} /\ task'[w] = m
      /\ queue[m] > 0 /\ queue' = [queue EXCEPT ![m] = @ - 1]
      /\ \A v \in Workers : v # w => pc'[v] = pc[v] /\ task'[v] = task[v]
  BY DEF Receive, Goto, apiVars, TypeOK
<1>2. CASE m.doc # d
  <2>1. \A n \in Msgs : n.doc = d => queue'[n] = queue[n]
    BY <1>1, <1>2 DEF TypeOK
  <2>2. \A v \in Workers : Carries(v, d) \/ Carries(v, d)' => pc'[v] = pc[v] /\ task'[v] = task[v]
    BY <1>1, <1>2 DEF Carries
  <2>3. ~Moves(d)
    BY <1>1, <2>1, <2>2 DEF Moves
  <2> QED BY <1>1, <2>3, StaysPut
<1>3. CASE m.doc = d
  <2>1. PICK r \in 0..MaxTaskRetries : r = m.retries
    BY MsgTyped
  <2>2. PICK z \in Nat : z = MessageWork(r + 1) /\ MessageWork(r) = z + 10
    BY <2>1, WorkTyped, BoundsAssumption DEF MessageWork
  <2> DEFINE A == Stack("queue", m, queue[m], 1, z + 10)
             B == Stack("worker", w, 0, 1, z + 9)
  <2>3. A \subseteq QueueMarks(d) /\ QueueMarks(d)' \subseteq QueueMarks(d) \ A
    BY <1>1, <1>3, <2>1, <2>2, QueueShrinks
  <2>4. A \cap (UploadMarks(d) \cup WorkerMarks(d)) = {}
    BY DEF Stack, UploadMarks, WorkerMarks
  <2>5. UploadMarks(d)' = UploadMarks(d)
    BY <1>1 DEF UploadMarks, UploadWork, Units, MessageWork
  <2>6. \A t \in WorkerMarks(d)' : t[2] # w => t \in WorkerMarks(d)
    BY <1>1, OthersUnits
  <2>7. ASSUME NEW t \in WorkerMarks(d)', t[2] = w PROVE t \in B
    <3>1. WorkerWork(w)' \in {1, z + 9}
      BY <1>1, <2>1, <2>2 DEF WorkerWork, MessageWork, LabelWork
    <3>2. t \in {"worker"} \X Workers \X {0} \X Units /\ t[4] <= WorkerWork(w)'
      BY <2>7 DEF WorkerMarks, Units, MessageWork, WorkerWork, LabelWork
    <3>3. t[4] \in 1..(z + 9)
      BY <2>2, <3>1, <3>2, WorkTyped DEF Units
    <3>4. t = <<"worker", w, 0, t[4]>>
      BY <2>7, <3>2
    <3> QED BY <3>3, <3>4 DEF Stack
  <2>8. WorkerMarks(d)' \subseteq WorkerMarks(d) \cup B
    BY <2>6, <2>7
  <2>9. A \subseteq Marks(d) /\ Marks(d)' \subseteq (Marks(d) \ A) \cup B
    BY <2>3, <2>4, <2>5, <2>8 DEF Marks
  <2>10. /\ IsFiniteSet(A) /\ IsFiniteSet(B)
         /\ Cardinality(A) = z + 10 /\ Cardinality(B) = z + 9
    <3>1. /\ 1 \in Nat /\ z + 10 \in Nat /\ z + 9 \in Nat
          /\ 1 <= z + 10 + 1 /\ 1 <= z + 9 + 1
          /\ z + 10 + 1 - 1 = z + 10 /\ z + 9 + 1 - 1 = z + 9
      OBVIOUS
    <3>2. IsFiniteSet(A) /\ Cardinality(A) = z + 10 + 1 - 1
      BY <3>1, StackSize
    <3>3. IsFiniteSet(B) /\ Cardinality(B) = z + 9 + 1 - 1
      BY <3>1, StackSize
    <3> HIDE DEF A, B
    <3> QED BY <3>1, <3>2, <3>3
  <2> HIDE DEF A, B
  <2>11. Cardinality(B) < Cardinality(A)
    BY <2>10
  <2> QED BY <1>1, <2>9, <2>10, <2>11, WorkStep
<1> QED BY <1>2, <1>3

\* Every other step of a task but the retry leaves its worker less to do.
LEMMA TaskProgress ==
  ASSUME TypeOK, TypeOK', RetriesLeft, NEW d \in Docs, IsFiniteSet(Marks(d)),
         NEW w \in Workers, TaskStep(w), ~Republish(w)
  PROVE  Progress(d)
<1>1. /\ upload' = upload /\ queue' = queue /\ faults' = faults /\ pc[w] # "idle"
      /\ \A v \in Workers : v # w => pc'[v] = pc[v] /\ task'[v] = task[v]
  BY DEF TaskStep, Begin, BeginFails, Download, Extract, CommitIngestion, StepFails,
         Cleanup, CleanupFails, HandleRetry, HandleFailed, RepublishFails, Finish,
         Reset, Goto, apiVars, TypeOK
<1>2. \/ pc'[w] = "idle"
      \/ /\ task'[w] = task[w]
         /\ \/ pc[w] = "begin" /\ pc'[w] \in {"download", "extract", "handle"}
            \/ pc[w] = "download" /\ pc'[w] \in {"extract", "handle"}
            \/ pc[w] = "extract" /\ pc'[w] \in {"embed", "handle"}
            \/ pc[w] = "embed" /\ pc'[w] \in {"cleanup", "handle"}
            \/ pc[w] = "cleanup" /\ pc'[w] \in {"ack", "handle"}
            \/ pc[w] = "handle" /\ pc'[w] \in {"republish", "ack"}
            \/ pc[w] = "republish" /\ pc'[w] = "ack"
  BY DEF TaskStep, Begin, BeginFails, Download, Extract, CommitIngestion, StepFails,
         Cleanup, CleanupFails, HandleRetry, HandleFailed, RepublishFails, Finish,
         Reset, Goto, TypeOK
<1>3. CASE task[w].doc # d
  <2>1. \A v \in Workers : Carries(v, d) \/ Carries(v, d)' => pc'[v] = pc[v] /\ task'[v] = task[v]
    BY <1>1, <1>2, <1>3 DEF Carries
  <2>2. ~Moves(d)
    BY <1>1, <2>1 DEF Moves
  <2> QED BY <1>1, <2>2, StaysPut
<1>4. CASE task[w].doc = d
  <2>1. PICK h \in Units : h = WorkerWork(w)
    BY <1>1, WorkerWorkTyped
  <2>2. h \in Nat
    BY <2>1, WorkTyped DEF Units
  <2>3. pc'[w] = "idle" \/ (WorkerWork(w)' \in Nat /\ WorkerWork(w)' < h)
    <3>1. PICK r \in 0..MaxTaskRetries : r = task[w].retries
      BY <1>1, BusyHoldsMessage, MsgTyped
    <3>2. PICK z \in Nat : z = MessageWork(r + 1)
      BY <3>1, WorkTyped, BoundsAssumption DEF MessageWork
    <3>3. h = IF pc[w] = "ack" THEN 1 ELSE z + LabelWork(pc[w])
      BY <2>1, <3>1, <3>2 DEF WorkerWork
    <3>4. ASSUME pc'[w] # "idle"
          PROVE  WorkerWork(w)' = IF pc'[w] = "ack" THEN 1 ELSE z + LabelWork(pc'[w])
      BY <1>2, <3>1, <3>2, <3>4 DEF WorkerWork, MessageWork, LabelWork
    <3> QED BY <1>2, <3>3, <3>4 DEF LabelWork
  <2> DEFINE u == <<"worker", w, 0, h>>
  <2>4. u \in WorkerMarks(d)
    BY <1>1, <1>4, <2>1, <2>2 DEF WorkerMarks, Carries
  <2>5. \A t \in WorkerMarks(d)' : t[2] # w => t \in WorkerMarks(d)
    BY <1>1, OthersUnits
  <2>6. ASSUME NEW t \in WorkerMarks(d)', t[2] = w
        PROVE  t \in WorkerMarks(d) /\ t[4] # h
    <3>1. /\ t \in {"worker"} \X Workers \X {0} \X Units
          /\ pc'[w] # "idle" /\ t[4] <= WorkerWork(w)'
      BY <2>6 DEF WorkerMarks, Carries, Units, MessageWork, WorkerWork, LabelWork
    <3>2. t[4] \in Nat
      BY <3>1, WorkTyped DEF Units
    <3>3. t[4] <= h /\ t[4] # h
      BY <2>2, <2>3, <3>1, <3>2
    <3> QED BY <1>1, <1>4, <2>1, <2>6, <3>1, <3>3 DEF WorkerMarks, Carries
  <2>7. u[2] = w /\ u[4] = h
    OBVIOUS
  <2>8. WorkerMarks(d)' \subseteq WorkerMarks(d) /\ u \notin WorkerMarks(d)'
    BY <2>5, <2>6, <2>7
  <2>9. UploadMarks(d)' = UploadMarks(d) /\ QueueMarks(d)' = QueueMarks(d)
    BY <1>1 DEF UploadMarks, UploadWork, QueueMarks, Units, MessageWork
  <2>10. u \notin UploadMarks(d) /\ u \notin QueueMarks(d)
    BY DEF UploadMarks, QueueMarks
  <2>11. u \in Marks(d) /\ Marks(d)' \subseteq Marks(d) /\ u \notin Marks(d)'
    BY <2>4, <2>8, <2>9, <2>10 DEF Marks
  <2> HIDE DEF u
  <2> QED BY <1>1, <2>11, UnitSpent
<1> QED BY <1>3, <1>4

\* A worker that publishes again passes what is left on to the new message.
LEMMA RepublishProgress ==
  ASSUME TypeOK, TypeOK', RetriesLeft, NEW d \in Docs, IsFiniteSet(Marks(d)),
         NEW w \in Workers, Republish(w)
  PROVE  Progress(d)
<1>1. /\ upload' = upload /\ faults' = faults /\ task' = task
      /\ pc[w] = "republish" /\ pc'[w] = "ack"
      /\ \A v \in Workers : v # w => pc'[v] = pc[v] /\ task'[v] = task[v]
  BY DEF Republish, Goto, apiVars, TypeOK
<1>2. task[w] \in Msgs /\ task[w].retries < MaxTaskRetries
  BY <1>1, BusyHoldsMessage DEF RetriesLeft
<1>3. PICK r \in 0..MaxTaskRetries : r = task[w].retries
  BY <1>2, MsgTyped
<1>4. PICK e \in Docs : e = task[w].doc
  BY <1>2, MsgTyped
<1>5. r \in Nat /\ MaxTaskRetries \in Nat /\ r + 1 <= MaxTaskRetries
  BY <1>2, <1>3, BoundsAssumption
<1>6. PICK n \in Msgs : n = Msg(e, r + 1)
  BY <1>5, MsgTyped
<1>7. n.doc = e /\ n.retries = r + 1 /\ Publish(n)
  BY <1>3, <1>4, <1>6 DEF Msg, Republish
<1>8. PICK z \in Nat : z = MessageWork(r + 1) /\ z + 10 <= MessageWork(0)
  BY <1>5 DEF MessageWork
<1>9. CASE e # d
  <2>1. \A m \in Msgs : m.doc = d => queue'[m] = queue[m]
    BY <1>7, <1>9 DEF Publish, TypeOK
  <2>2. \A v \in Workers : Carries(v, d) \/ Carries(v, d)' => pc'[v] = pc[v] /\ task'[v] = task[v]
    BY <1>1, <1>4, <1>9 DEF Carries
  <2>3. ~Moves(d)
    BY <1>1, <2>1, <2>2 DEF Moves
  <2> QED BY <1>1, <2>3, StaysPut
<1>10. CASE e = d
  <2> DEFINE A == Stack("worker", w, 0, 2, z + 3)
             B == Stack("queue", n, queue[n] + 1, 1, z)
  <2>1. QueueMarks(d)' \subseteq QueueMarks(d) \cup B
    BY <1>7, <1>8, <1>10, QueueGrows
  <2>2. WorkerWork(w) = z + 3 /\ WorkerWork(w)' = 1 /\ Carries(w, d)
    BY <1>1, <1>3, <1>4, <1>8, <1>10 DEF WorkerWork, LabelWork, Carries
  <2>3. A \subseteq WorkerMarks(d)
    <3>1. ASSUME NEW j \in 2..(z + 3) PROVE <<"worker", w, 0, j>> \in WorkerMarks(d)
      <4>1. j \in Units /\ j <= z + 3
        BY <1>8, WorkTyped DEF Units
      <4> QED BY <2>2, <4>1 DEF WorkerMarks
    <3> QED BY <3>1 DEF Stack
  <2>4. \A t \in WorkerMarks(d)' : t[2] # w => t \in WorkerMarks(d)
    BY <1>1, OthersUnits
  <2>5. ASSUME NEW t \in WorkerMarks(d)', t[2] = w
        PROVE  t \in WorkerMarks(d) /\ t[4] = 1
    <3>1. t \in {"worker"} \X Workers \X {0} \X Units /\ t[4] <= WorkerWork(w)'
      BY <2>5 DEF WorkerMarks, Units, MessageWork, WorkerWork, LabelWork
    <3>2. t[4] = 1
      BY <2>2, <3>1, WorkTyped DEF Units
    <3>3. t[4] <= z + 3
      BY <1>8, <3>2
    <3> QED BY <2>2, <2>5, <3>1, <3>2, <3>3 DEF WorkerMarks
  <2>6. WorkerMarks(d)' \subseteq WorkerMarks(d) \ A
    <3>1. \A t \in A : t[2] = w /\ t[4] \in 2..(z + 3)
      BY DEF Stack
    <3>2. 1 \notin 2..(z + 3)
      OBVIOUS
    <3> HIDE DEF A
    <3> QED BY <2>4, <2>5, <3>1, <3>2
  <2>7. UploadMarks(d)' = UploadMarks(d)
    BY <1>1 DEF UploadMarks, UploadWork, Units, MessageWork
  <2>8. A \cap (UploadMarks(d) \cup QueueMarks(d)) = {}
    BY DEF Stack, UploadMarks, QueueMarks
  <2>9. A \subseteq Marks(d) /\ Marks(d)' \subseteq (Marks(d) \ A) \cup B
    BY <2>1, <2>3, <2>6, <2>7, <2>8 DEF Marks
  <2>10. /\ IsFiniteSet(A) /\ IsFiniteSet(B)
         /\ Cardinality(A) = z + 2 /\ Cardinality(B) = z
    <3>1. /\ 1 \in Nat /\ 2 \in Nat /\ z + 3 \in Nat
          /\ 2 <= z + 3 + 1 /\ 1 <= z + 1
          /\ z + 3 + 1 - 2 = z + 2 /\ z + 1 - 1 = z
      OBVIOUS
    <3>2. IsFiniteSet(A) /\ Cardinality(A) = z + 3 + 1 - 2
      BY <3>1, StackSize
    <3>3. IsFiniteSet(B) /\ Cardinality(B) = z + 1 - 1
      BY <3>1, StackSize
    <3> HIDE DEF A, B
    <3> QED BY <3>1, <3>2, <3>3
  <2> HIDE DEF A, B
  <2>11. Cardinality(B) < Cardinality(A)
    BY <2>10
  <2> QED BY <1>1, <2>9, <2>10, <2>11, WorkStep
<1> QED BY <1>9, <1>10

\* A crash or a redelivery is paid for out of the faults that are left.
LEMMA CopyProgress ==
  ASSUME TypeOK, TypeOK', NEW d \in Docs, IsFiniteSet(Marks(d)),
         NEW w \in Workers, Crash(w) \/ Redeliver(w)
  PROVE  Progress(d)
<1>1. /\ upload' = upload /\ faults' = faults + 1
      /\ pc[w] # "idle" /\ (pc'[w] = "idle" \/ (pc' = pc /\ task' = task))
      /\ \A v \in Workers : v # w => pc'[v] = pc[v] /\ task'[v] = task[v]
  BY DEF Crash, Redeliver, Reset, Goto, apiVars, workerVars, TypeOK
<1>2. PICK n \in Msgs : n = task[w]
  BY <1>1, BusyHoldsMessage
<1>3. Publish(n) /\ n.retries \in 0..MaxTaskRetries
  BY <1>2, MsgTyped DEF Crash, Redeliver
<1>4. PICK z \in Nat : z = MessageWork(n.retries) /\ z <= MessageWork(0)
  BY <1>3, WorkTyped, BoundsAssumption
<1> DEFINE B == IF n.doc = d THEN Stack("queue", n, queue[n] + 1, 1, z) ELSE {}
<1>5. QueueMarks(d)' \subseteq QueueMarks(d) \cup B
  BY <1>3, <1>4, QueueGrows
<1>6. WorkerMarks(d)' \subseteq WorkerMarks(d)
  <2>1. CASE pc' = pc /\ task' = task
    BY <2>1 DEF WorkerMarks, Units, MessageWork, Carries, WorkerWork, LabelWork
  <2>2. CASE pc'[w] = "idle"
    <3>1. \A t \in WorkerMarks(d)' : t[2] # w
      BY <2>2 DEF WorkerMarks, Carries
    <3>2. \A t \in WorkerMarks(d)' : t[2] # w => t \in WorkerMarks(d)
      BY <1>1, OthersUnits
    <3> QED BY <3>1, <3>2
  <2> QED BY <1>1, <2>1, <2>2
<1>7. UploadMarks(d)' = UploadMarks(d)
  BY <1>1 DEF UploadMarks, UploadWork, Units, MessageWork
<1>8. {} \subseteq Marks(d) /\ Marks(d)' \subseteq (Marks(d) \ {}) \cup B
  BY <1>5, <1>6, <1>7 DEF Marks
<1>9. IsFiniteSet({}) /\ Cardinality({}) = 0
  BY FS_EmptySet
<1>10. IsFiniteSet(B) /\ Cardinality(B) <= MessageWork(0)
  <2>1. 1 \in Nat /\ 1 <= z + 1 /\ z + 1 - 1 = z
    OBVIOUS
  <2>2. /\ IsFiniteSet(Stack("queue", n, queue[n] + 1, 1, z))
        /\ Cardinality(Stack("queue", n, queue[n] + 1, 1, z)) = z + 1 - 1
    BY <2>1, StackSize
  <2> QED BY <1>4, <1>9, <2>1, <2>2, WorkTyped
<1> HIDE DEF B
<1> QED BY <1>1, <1>8, <1>9, <1>10, WorkStep

LEMMA NextProgress ==
  ASSUME WorkInv, [Next]_vars, NEW d \in Docs
  PROVE  Progress(d)
<1>1. TypeOK /\ TypeOK' /\ RetriesLeft /\ IsFiniteSet(Marks(d))
  BY NextTypeOK DEF WorkInv
<1>2. ASSUME NEW e \in Docs,
             InsertRow(e) \/ UploadStep(e) \/ UploadStops(e)
               \/ DeleteRow(e) \/ DeletionStep(e)
      PROVE  Progress(d)
  BY <1>1, <1>2, ApiProgress
<1>3. ASSUME NEW c \in Companies, DeleteCompany(c) PROVE Progress(d)
  BY <1>1, <1>3, CompanyProgress
<1>4. ASSUME NEW w \in Workers, TaskStep(w) PROVE Progress(d)
  BY <1>1, <1>4, TaskProgress, RepublishProgress
<1>5. ASSUME NEW w \in Workers, NEW m \in Msgs, Receive(w, m) PROVE Progress(d)
  BY <1>1, <1>5, ReceiveProgress
<1>6. ASSUME NEW w \in Workers, Crash(w) \/ Redeliver(w) PROVE Progress(d)
  BY <1>1, <1>6, CopyProgress
<1>7. ASSUME NEW w \in Workers, NEW m \in Msgs, LookupFails(w, m) PROVE Progress(d)
  BY <1>1, <1>7, LookupFailsProgress
<1>8. CASE UNCHANGED vars
  <2>1. /\ upload' = upload /\ queue' = queue /\ pc' = pc /\ task' = task
        /\ faults' = faults
    BY <1>8 DEF vars, dbVars, apiVars, workerVars
  <2>2. ~Moves(d)
    BY <2>1 DEF Moves, Carries
  <2> QED BY <1>1, <2>1, <2>2, StaysPut
<1> QED BY <1>2, <1>3, <1>4, <1>5, <1>6, <1>7, <1>8 DEF Next, WorkerStep

LEMMA InitWork ==
  ASSUME Init
  PROVE  /\ WorkInv
         /\ \A d \in Docs : WorkLeft(d) = MessageWork(0) + 3 + FaultWork * MaxFaults
<1>1. TypeOK /\ RetriesLeft
  BY InitTypeOK DEF Init, RetriesLeft
<1>2. ASSUME NEW d \in Docs
      PROVE  IsFiniteSet(Marks(d)) /\ Cardinality(Marks(d)) = MessageWork(0) + 3
  <2>1. QueueMarks(d) = {}
    BY DEF Init, QueueMarks
  <2>2. WorkerMarks(d) = {}
    BY DEF Init, WorkerMarks, Carries
  <2>3. PICK z \in Nat : z = MessageWork(0) + 3
    BY WorkTyped
  <2>4. UploadWork(d) = z
    BY <2>3 DEF Init, UploadWork
  <2>5. UploadMarks(d) = Stack("upload", d, 0, 1, z)
    BY <2>3, <2>4 DEF UploadMarks, Stack, Units
  <2>6. 1 \in Nat /\ 1 <= z + 1 /\ z + 1 - 1 = z
    OBVIOUS
  <2>7. IsFiniteSet(UploadMarks(d)) /\ Cardinality(UploadMarks(d)) = z + 1 - 1
    BY <2>5, <2>6, StackSize
  <2>8. Marks(d) = UploadMarks(d)
    BY <2>1, <2>2 DEF Marks
  <2> QED BY <2>3, <2>6, <2>7, <2>8
<1>3. faults = 0 /\ MaxFaults - 0 = MaxFaults
  BY BoundsAssumption DEF Init
<1> QED BY <1>1, <1>2, <1>3, SameWork DEF WorkInv, WorkLeft

\* The processing of a document comes to an end (upload_document and
\* process_pdf_task with its retries): it starts with a bounded amount of
\* work, however workers, crashes, redeliveries and failures interleave no step
\* of anyone adds to it, and every step of its upload, of its messages or of the
\* workers that hold them lowers it.
THEOREM WorkRunsOut ==
  Spec => /\ \A d \in Docs : WorkLeft(d) = MessageWork(0) + 3 + FaultWork * MaxFaults
          /\ BoundedWork
<1> DEFINE AllMoveOn == \A d \in Docs : MovesOn(d)
           AllAhead == \A d \in Docs : WorkLeft(d) = MessageWork(0) + 3 + FaultWork * MaxFaults
<1>1. Init => WorkInv /\ AllAhead
  BY InitWork
<1>2. WorkInv /\ [Next]_vars => WorkInv' /\ AllMoveOn
  <2> SUFFICES ASSUME WorkInv, [Next]_vars PROVE WorkInv' /\ AllMoveOn
    OBVIOUS
  <2>1. \A d \in Docs : Progress(d)
    BY NextProgress
  <2>2. TypeOK' /\ RetriesLeft'
    BY NextTypeOK, RetriesLeftStep DEF WorkInv
  <2> QED BY <2>1, <2>2 DEF WorkInv, Progress
<1> HIDE DEF AllMoveOn, AllAhead
<1>3. Spec => AllAhead /\ [][AllMoveOn]_vars
  BY <1>1, <1>2, PTL DEF Spec
<1> QED BY <1>3 DEF AllMoveOn, AllAhead, BoundedWork
=============================================================================
